CONSTANTS
  e1 = e1
  e2 = e2
  e3 = e3
  c1 = c1
  c2 = c2
  Envs = {e1, e2, e3}
  Exec = {e3}
  Ctx <- MCCtx
  Profiles <- MCLooping
  MaxActive = 2
  IntakePerTick = 2
  MaxAdvances = 2
  MaxPasses = 2
  Outputs <- MCActions
  Deadline = 1
  Grace = 1
  MaxFaults = 1
SPECIFICATION Spec
INVARIANTS
  TypeOK
  OneActionChild
  WaitsMatchJobs
  ContextOrder
  StopLeavesNothing
PROPERTIES
  TerminalIsLast
