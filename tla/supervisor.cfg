SPECIFICATION FairSpec
CONSTANTS
  s1 = s1
  s2 = s2
  t1 = t1
  t2 = t2
  t3 = t3
  none = none
  Sidecars <- TwoSidecars
  Restart <- Restarting
  Tasks <- ThreeTasks
  NoTask = none
  MaxSpawns = 1
INVARIANTS
  SInv
  SpawnsAreBounded
  OneLiveProcess
  ErrorMeansNoConnection
PROPERTIES
  ReplaceOnlyDead
  ConnectEnds
CHECK_DEADLOCK FALSE
