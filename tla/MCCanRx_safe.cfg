SPECIFICATION LiveSpec
CONSTANTS
  n1 = n1
  n2 = n2
  n3 = n3
  Buffers <- OneToThree
  NoNode = NoNode
  Unwanted <- SecondUnwanted
  HwDepth = 3
  SemMax = 4
  MaxFrames = 6
INVARIANTS
  TypeOK
  NodesConserved
  NoStranded
  QueuedInOrder
  LossReported
PROPERTY
  CatchesUp
CHECK_DEADLOCK FALSE
