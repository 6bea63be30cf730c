SPECIFICATION LiveSpec
CONSTANTS
  s1 = s1
  r1 = r1
  r2 = r2
  i1 = i1
  n1 = n1
  n2 = n2
  NoThread = NoThread
  NoNode = NoNode
  Senders <- OneSender
  Receivers <- TwoReceivers
  Threads <- AllThreads
  Isrs <- OneIsr
  IsrUrgent = TRUE
  SendModes = {"forever"}
  RecvModes = {"timed"}
  Pool <- TwoNodes
  EntryMax = 3
  MaxSends = 3
INVARIANTS
  NodesConserved
  NoLostWakeup
PROPERTIES
  ImplementsBuffer
  SleepersServed
CHECK_DEADLOCK FALSE
