CONSTANTS
  t1 = t1
  t2 = t2
  t3 = t3
  a = a
  b = b
  none = none
  Threads = {t1, t2, t3}
  Declarations = {a, b}
  CallLimit = 1
  NoDeclaration = none
SPECIFICATION FairSpec
INVARIANTS OneInstance OwnException
CHECK_DEADLOCK FALSE
PROPERTIES CallsEnd
