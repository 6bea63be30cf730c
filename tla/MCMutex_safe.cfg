SPECIFICATION Spec
CONSTANTS
  low = low
  mid = mid
  urgent = urgent
  high = high
  m1 = m1
  m2 = m2
  NoThread = NoThread
  NoMutex = NoMutex
  Threads <- FourThreads
  Mutexes <- TwoMutexes
  InitPrio <- FourPrios
  Ceilings = {4, 8}
  CeiledMutexes <- OneMutex
  TimedThreads <- UrgentAndHigh
  HoldMax = 2
INVARIANTS
  TypeOK
  HandedOver
  Sorted
  NoInversion
  MutexPrioOfHead
PROPERTY
  BoostEnds
CHECK_DEADLOCK FALSE
