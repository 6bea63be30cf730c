SPECIFICATION Spec
CONSTANTS
  low = low
  mid = mid
  urgent = urgent
  high = high
  m1 = m1
  m2 = m2
  NoThread = NoThread
  NoMutex = NoMutex
  Threads <- ThreeThreads
  Mutexes <- TwoMutexes
  InitPrio <- ThreePrios
  Ceilings = {}
  CeiledMutexes = {}
  TimedThreads <- MidOnly
  HoldMax = 2
INVARIANT
  NoBoostLeft
CHECK_DEADLOCK FALSE
