SPECIFICATION FairSpec
CHECK_DEADLOCK FALSE
CONSTANTS
  ChannelDepth = 1
  MaxLines = 4
INVARIANTS
  IInv
  AnsweredOnce
  NothingLost
PROPERTIES
  RequestsAreAnswered
  DrainEnds
