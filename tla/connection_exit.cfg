SPECIFICATION FairSpec
CONSTANTS
  c1 = c1
  c2 = c2
  c3 = c3
  none = none
  Calls <- TwoCalls
  NoCall = none
  Extras <- Readable
  Faults <- Exits
INVARIANT NoWaiterAfterTeardown
PROPERTIES
  ImplementsSession
  ExitWakesCallers
  RepliesArrive
CHECK_DEADLOCK FALSE
