SPECIFICATION FairSpec
CONSTANTS
  s1 = s1
  s2 = s2
  Sources <- MCSources
  OutsideWorld <- MCOutside
  MaxEvents = 4
  MaxWakes = 4
  MaxRuns = 3
  ScanCap = 3
  MaxCrashes = 1
  MaxShutdowns = 0
  MaxFaults = 1
  FaultPoints <- RetriedFaults
PROPERTY CommittedIsServed
