SPECIFICATION Spec
CONSTANTS
  a = a
  b = b
  c = c
  Ops = {a}
  Detached = {a}
  Outside = {}
  Bound = {}
  KeepFinished = 1
  MaxItems = 2
  MaxClaims = 3
  MaxWorkerClaims = 2
  MaxBirths = 1
  MaxCrashes = 1
  MaxShutdowns = 0
  MaxFaults = 0
  FaultPoints <- AllFaults
CHECK_DEADLOCK FALSE
INVARIANT ExactlyOneResult
