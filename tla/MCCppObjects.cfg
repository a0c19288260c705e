CONSTANTS
  o1 = o1
  o2 = o2
  a1 = a1
  a2 = a2
  h1 = h1
  h2 = h2
  f1 = f1
  c1 = c1
  c2 = c2
  none = none
  Objects = {o1, o2}
  Addresses = {a1, a2}
  Handles = {h1, h2}
  Functions = {f1}
  Calls = {c1}
  CallsPerFunction = 1
  QueueCapacity = 1
  None = none
SPECIFICATION FairSpec
INVARIANTS OneHandle NoFalseConflict ReceiverRetained
CHECK_DEADLOCK FALSE
PROPERTIES EventuallyDestroyed
