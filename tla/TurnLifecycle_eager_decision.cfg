SPECIFICATION Spec
CONSTANTS
  Calls = {c1}
  Approvals = {a1}
  Stops = {s1}
  Modes = {"streamed"}
  Worlds <- SmallWorlds
  Patient = FALSE
  Original = Original
  Nobody = Nobody
  NoCall = NoCall
  NoApproval = NoApproval
PROPERTY StopMissesNoTask
CHECK_DEADLOCK FALSE
