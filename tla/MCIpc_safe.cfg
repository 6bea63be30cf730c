SPECIFICATION Spec
CONSTANTS
  t1 = t1
  t2 = t2
  t3 = t3
  a = a
  b = b
  NoThread = NoThread
  Threads <- TwoThreads
  InitValue = 0
  MaxValue = 1
  ResetValues = {1}
  Limits = {1}
  MaxLost = 1
  Flags <- TwoFlags
  Requests <- SomeRequests
  SentSets <- OneEach
  EventModes = {"no", "timed"}
  Size = 2
  MailModes = {"timed"}
  MaxMails = 3
SYMMETRY Symmetric
INVARIANTS
  TypeOK
  TokensAccounted
  SleepersListed
  MailHeard
  CompletionsKept
PROPERTIES
  EventsHeard
  MailboxIsBuffer
CHECK_DEADLOCK FALSE
