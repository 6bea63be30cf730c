SPECIFICATION LiveSpec
CONSTANTS
  w1 = w1
  w2 = w2
  NoWriter = NoWriter
  Writers <- TwoWriters
  NBoxes = 1
  HalMayFail = TRUE
  MaxWrites = 3
INVARIANTS
  TypeOK
  BoxesConserved
  ResultTruthful
PROPERTY
  EveryWriteReturns
CHECK_DEADLOCK FALSE
