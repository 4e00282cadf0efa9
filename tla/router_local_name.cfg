SPECIFICATION Spec
CONSTANTS
  r1 = r1
  r2 = r2
  r3 = r3
  none = none
  failed = failed
  Backends <- Three
  Prefix <- BackendPrefixes
  Failed = failed
  Requests <- TwoRequests
  NoRequest = none
  Asks <- StatusOrCall
  Answers <- Mixed
  Sidecars <- OnlyTwo
  MaxCalls = 1
  MaxExpiries = 1
INVARIANTS
  CalledByLocalName
CHECK_DEADLOCK FALSE
