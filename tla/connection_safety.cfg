SPECIFICATION Spec
CONSTANTS
  c1 = c1
  c2 = c2
  c3 = c3
  none = none
  Calls <- ThreeCalls
  NoCall = none
  Extras <- Talkative
  Faults <- AllFaults
SYMMETRY Symmetry
INVARIANTS
  IInv
  OwnAnswer
  LeakOnlyOnTimeout
  OneSpoiltPerTimeout
  AliveWhileChildServes
CHECK_DEADLOCK FALSE
