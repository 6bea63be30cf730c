SPECIFICATION Spec
CONSTANTS
  Frames <- WriteFrames
  RxCap = 2
  TxCap = 2
  MaxFrames = 1
  MaxBeats = 0
  MaxMoves = 0
  MaxFaults = 2
  Pos0 <- NearCarry
  Status <- StatusWord
  Garbage <- Words
  BoardAddr = 3
  Faults = {"exception"}
  ConnectMayFail = FALSE
INVARIANT
  EchoMeansWritten
CHECK_DEADLOCK FALSE
