SPECIFICATION Spec
CONSTANTS
  n1 = n1
  n2 = n2
  n3 = n3
  Buffers <- Two
  NoNode = NoNode
  Unwanted <- AllWanted
  HwDepth = 3
  SemMax = 4
  MaxFrames = 4
INVARIANT
  NoFrameTwice
CHECK_DEADLOCK FALSE
