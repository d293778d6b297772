SPECIFICATION Spec
CONSTANTS
  Calls = {c1}
  Approvals = {a1}
  Stops = {s1}
  Modes = {"streamed"}
  Worlds <- SmallWorlds
  Patient = TRUE
  Original = Original
  Nobody = Nobody
  NoCall = NoCall
  NoApproval = NoApproval
PROPERTY LateApprovalRejected
CHECK_DEADLOCK FALSE
