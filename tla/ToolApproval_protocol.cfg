SPECIFICATION FairSpec
CONSTANTS
  Calls = {c1, c2}
  Approvals = {a1, a2}
  Replays = {r1}
  Buffered = {a1, r1}
  NoApproval = NoApproval
  NoCall = NoCall
  WriteQuota = 2
INVARIANTS OneShot EffectNamesItsApproval RefusedNeverRuns
PROPERTIES SettledIsFinal ClosedWindowStaysClosed SpentGrantStaysSpent ParkedCallsResolve ExecutionsSettle
CHECK_DEADLOCK FALSE
