SPECIFICATION Spec
CHECK_DEADLOCK FALSE
CONSTANTS
  r1 = r1
  r2 = r2
  sweeper = sweeper
  Requests <- TwoRequests
  Users <- Everyone
  Sweeper = sweeper
  Worlds <- NullWorlds
  MaxSweeps = 1
  Symbols <- AllSymbols
  MaxU64 = 30000000
INVARIANTS
  NullIdIsAnswered
