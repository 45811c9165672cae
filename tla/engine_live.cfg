CONSTANTS
  e1 = e1
  e2 = e2
  e3 = e3
  c1 = c1
  c2 = c2
  Envs = {e1, e2}
  Exec = {e2}
  Ctx <- MCCtxPair
  Profiles <- MCProfiles
  MaxActive = 2
  IntakePerTick = 2
  MaxAdvances = 2
  MaxPasses = 2
  Outputs <- MCOutputs
  Deadline = 1
  Grace = 1
  MaxFaults = 1
SPECIFICATION FairSpec
PROPERTIES
  EnvelopesSettle
