SPECIFICATION FairSpec
CHECK_DEADLOCK FALSE
CONSTANTS
  r1 = r1
  r2 = r2
  sweeper = sweeper
  Requests <- TwoRequests
  Users <- Everyone
  Sweeper = sweeper
  Worlds <- AllWorlds
  MaxSweeps = 2
  Symbols <- AllSymbols
  MaxU64 = 30000000
INVARIANTS
  GTypeOK
  HandledIsAuthorised
  LoadedAsWritten
  RefusalTouchesNothing
  BlameIsRight
  ReportIsCurrent
  DeadlineIsKept
  OnlyDeclaredArguments
  RepliesAreProper
PROPERTIES
  RequestsEnd
  ShutdownEnds
