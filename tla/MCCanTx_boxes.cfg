SPECIFICATION LiveSpec
CONSTANTS
  w1 = w1
  w2 = w2
  NoWriter = NoWriter
  Writers <- TwoWriters
  NBoxes = 3
  HalMayFail = FALSE
  MaxWrites = 1
PROPERTY
  EveryWriteReturns
CHECK_DEADLOCK FALSE
