SPECIFICATION MCSpec
CONSTANTS
  Publishers = {"p", "q"}
  MaxMsgs <- OneEach
  FirstId = 7
  LastId = 10
  PadLimit = 10
  ScanCap = 2
  Budget = 2
  MaxActive = 1
  MaxFaults = 1
  MaxRequeues = 1
  Which = {"bu", "wt", "dg", "ti", "ir", "wp", "ja"}
INVARIANTS
  TypesOK
  MessagesKept
  TakenOnce
  
  
PROPERTIES
  OldestTaken
  InboxDrains
  
  
CHECK_DEADLOCK FALSE
