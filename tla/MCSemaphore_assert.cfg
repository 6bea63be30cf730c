SPECIFICATION Spec
CONSTANTS
  t1 = t1
  t2 = t2
  t3 = t3
  NoThread = NoThread
  Threads <- TwoThreads
  InitValue = 0
  MaxValue = 2
  ResetValues = {}
  Limits = {}
  MaxLost = 2
INVARIANT
  TimeoutFindsSuspended
CHECK_DEADLOCK FALSE
