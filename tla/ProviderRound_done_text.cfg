SPECIFICATION Spec
CONSTANTS
  Rounds <- DoneRounds
  MaxChunk = 9
INVARIANT ShownOnce
CHECK_DEADLOCK FALSE
