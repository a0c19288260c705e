CONSTANTS
  f1 = f1
  f2 = f2
  o1 = o1
  o2 = o2
  Features = {f1, f2}
  Ops = {o1, o2}
  FeatureOf <- TwoFeatures
  Delivery <- SuspendPromise
  Body <- MixedBody
  WorkerCount = 2
  Capacity = 1
  SchedulerMayFail = TRUE
SPECIFICATION Spec
INVARIANTS OutcomeMatchesWinner CancelledWorkReleased
PROPERTY ImplementsContract
CHECK_DEADLOCK FALSE
