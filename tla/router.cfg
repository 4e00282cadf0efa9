SPECIFICATION FairSpec
CONSTANTS
  r1 = r1
  r2 = r2
  r3 = r3
  none = none
  failed = failed
  Backends <- Three
  Prefix <- BackendPrefixes
  Failed = failed
  Requests <- ThreeRequests
  NoRequest = none
  Asks <- ListOrCall
  Answers <- Local
  Sidecars <- OnlyTwo
  MaxCalls = 1
  MaxExpiries = 1
INVARIANTS
  RInv
  Coalesced
  TableIsRight
  NativeWins
  CallsAreBounded
  ReadersFindTable
PROPERTIES
  ReadersAreServed
CHECK_DEADLOCK FALSE
