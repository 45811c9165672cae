CONSTANTS
  m = m
  x = x
  l = l
  Calls = {m, x, l}
  Messages = {m}
  Outside = {x}
  OnePass = FALSE
  RetryAttempts = 1
  RepairBudget = 1
  MaxPending = 2
  MaxCompleted = 1
  MaxPasses = 2
  MaxBatch = 2
  MaxRequests = 3
  MaxRids = 9
  MaxCrashes = 1
  MaxFaults = 1
  FaultPoints <- AllFaults
SPECIFICATION MCSpec
INVARIANTS
  TypesOK
  ActsOnce
  TruthIsTold
  NothingStranded
PROPERTY LedgerRunEnds
CHECK_DEADLOCK FALSE
