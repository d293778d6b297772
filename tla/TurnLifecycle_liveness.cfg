SPECIFICATION FairSpec
CONSTANTS
  Calls = {c1}
  Approvals = {a1}
  Stops = {s1}
  Modes = {"streamed", "buffered"}
  Worlds <- FaultyWorlds
  Patient = FALSE
  Original = Original
  Nobody = Nobody
  NoCall = NoCall
  NoApproval = NoApproval
PROPERTY StopReturns
CHECK_DEADLOCK FALSE
