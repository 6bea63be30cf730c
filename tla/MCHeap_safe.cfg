SPECIFICATION Spec
CONSTANTS
  b1 = b1
  b2 = b2
  b3 = b3
  Size = 16
  Sizes = {1, 2, 3, 5, 9}
  Blocks <- ThreeBlocks
SYMMETRY Symmetric
INVARIANTS
  Tiled
  BlocksOwned
  DataKept
  FailsOnlyWhenFull
CHECK_DEADLOCK FALSE
