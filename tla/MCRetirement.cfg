CONSTANTS
  r1 = r1
  r2 = r2
  r3 = r3
  x1 = x1
  none = none
  Runtimes = {r1, r2, r3}
  Releases = {x1}
  RetiredLimit = 2
  QueueCapacity = 1
  ThreadsMayFail = TRUE
  NoRuntime = none
SPECIFICATION FairSpec
INVARIANTS RetainedUntilCleaned
PROPERTIES PromisedCleanupOfOne
CHECK_DEADLOCK FALSE
