CONSTANTS
  f1 = f1
  f2 = f2
  o1 = o1
  o2 = o2
  Features = {f1}
  Ops = {o1, o2}
  FeatureOf <- OneFeature
  Delivery <- BlockingPromise
  Body <- MixedBody
  WorkerCount = 1
  Capacity = 1
  SchedulerMayFail = FALSE
SPECIFICATION FairSpec
PROPERTIES PromiseSettles InvalidationDrains
CHECK_DEADLOCK FALSE
