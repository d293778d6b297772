SPECIFICATION Spec
CONSTANTS
  Rounds <- AllRounds
  MaxChunk = 9
INVARIANTS RequestsFaithful RefusalNamed WholeAnswer ReadInOrder
PROPERTY ChannelKept
CHECK_DEADLOCK FALSE
