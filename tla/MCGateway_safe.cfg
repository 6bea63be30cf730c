SPECIFICATION LiveSpec
CONSTANTS
  Frames <- MixedFrames
  RxCap = 1
  TxCap = 2
  MaxFrames = 2
  MaxBeats = 1
  MaxMoves = 1
  MaxFaults = 2
  Pos0 <- NearCarry
  Status <- StatusWord
  Garbage <- Words
  BoardAddr = 3
  Faults = {"lost", "exception", "garbled", "garbledRefusal", "noise", "late", "ioerror"}
  ConnectMayFail = TRUE
INVARIANTS
  TypeOK
  BusOrder
  RepliesAnswer
  EchoUnlessMisled
  NoLoneLowHalf
  ReadsHonest
PROPERTIES
  ReadsAnswered
  RequestsServed
  TxDrains
CHECK_DEADLOCK FALSE
