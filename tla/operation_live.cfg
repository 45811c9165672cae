SPECIFICATION FairSpec
CONSTANTS
  a = a
  b = b
  c = c
  Ops = {a}
  Detached = {a}
  Outside = {}
  Bound = {}
  KeepFinished = 1
  MaxItems = 2
  MaxClaims = 3
  MaxWorkerClaims = 1
  MaxBirths = 1
  MaxCrashes = 1
  MaxShutdowns = 1
  MaxFaults = 1
  FaultPoints <- AllFaults
INVARIANTS OneTerminalTruth FinishedIsTold
PROPERTY OperationsEndOrAreTold
CHECK_DEADLOCK FALSE
