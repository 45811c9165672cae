SPECIFICATION Spec
CONSTANTS
  s1 = s1
  s2 = s2
  Sources <- MCSources
  OutsideWorld <- MCOutside
  MaxEvents = 4
  MaxWakes = 4
  MaxRuns = 3
  ScanCap = 3
  MaxCrashes = 2
  MaxShutdowns = 1
  MaxFaults = 1
  FaultPoints <- AllFaults
INVARIANTS TypeOK InboxWakesAreValid OneRunPerWake OneWakePerSource
  ClaimEvidencePinned RefusalExplained
PROPERTIES ForgottenOnlyWhenServed ImplementsLifecycle
