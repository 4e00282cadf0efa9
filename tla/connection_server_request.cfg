SPECIFICATION Spec
CONSTANTS
  c1 = c1
  c2 = c2
  c3 = c3
  none = none
  Calls <- TwoCalls
  NoCall = none
  Extras <- Readable
  Faults <- NoFaults
INVARIANT OnlyReplies
CHECK_DEADLOCK FALSE
