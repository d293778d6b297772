SPECIFICATION Spec
CONSTANTS
  Calls = {c1, c2}
  Approvals = {a1, a2}
  Stops = {s1}
  Modes = {"streamed"}
  Worlds <- AllWorlds
  Patient = TRUE
  Original = Original
  Nobody = Nobody
  NoCall = NoCall
  NoApproval = NoApproval
SYMMETRY Symmetry
INVARIANTS TypeOK OneTaskPerTurn StopFindsTurn StreamedTextKept
PROPERTIES StopIsFinal StoppedParkedTurnStays
CHECK_DEADLOCK FALSE
