SPECIFICATION FairSpec
CONSTANTS
  quick = quick
  hang = hang
  Sidecars <- TwoSidecars
  Hanging <- OneHangs
  StartTime = 1
  StartupTimeout = 20
  DiscoveryTimeout = 3
  MaxSpawns = 1
PROPERTIES
  HangingFreezesNobody
