SPECIFICATION Spec
CONSTANTS
  c1 = c1
  c2 = c2
  c3 = c3
  none = none
  Calls <- TwoCalls
  NoCall = none
  Extras <- Quiet
  Faults <- AllFaults
INVARIANT NoWaiterAfterTeardown
CHECK_DEADLOCK FALSE
