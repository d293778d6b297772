------------------------ MODULE ToolApproval_proofs ------------------------
(***************************************************************************)
(* Proofs about ToolApproval, for every set of calls, approvals and        *)
(* replays and every quota.                                                *)
(***************************************************************************)
EXTENDS ToolApproval, TLAPS

-----------------------------------------------------------------------------
(* The store methods return well-formed tables.                            *)

\* record_tool_call.
LEMMA RecordType ==
  ASSUME NEW t \in Table, NEW c \in Calls, NEW s \in RowStatus
  PROVE  RecordToolCall(t, c, s) \in Table
BY DEF Table, Row, RowStatus, RecordToolCall

\* mark_tool_call_approved.
LEMMA ApprovedType ==
  ASSUME NEW t \in Table, NEW c \in Calls, NEW a \in Approvals
  PROVE  MarkApproved(t, c, a) \in Table
BY DEF Table, Row, RowStatus, MarkApproved

\* mark_tool_call_denied.
LEMMA DeniedType ==
  ASSUME NEW t \in Table, NEW c \in Calls
  PROVE  MarkDenied(t, c) \in Table
BY DEF Table, Row, RowStatus, MarkDenied

\* mark_tool_call_running.
LEMMA RunningType ==
  ASSUME NEW t \in Table, NEW c \in Calls, NEW a \in Approvals \cup {NoApproval}
  PROVE  MarkRunning(t, c, a) \in Table
BY DEF Table, Row, RowStatus, MarkRunning, Bind

\* complete_tool_call.
LEMMA CompleteType ==
  ASSUME NEW t \in Table, NEW c \in Calls, NEW s \in RowStatus,
         NEW a \in Approvals \cup {NoApproval}
  PROVE  CompleteToolCall(t, c, s, a) \in Table
BY DEF Table, Row, RowStatus, CompleteToolCall, Bind

\* expire_tool_calls.
LEMMA ExpireType ==
  ASSUME NEW t \in Table, NEW L
  PROVE  ExpireToolCalls(t, L) \in Table
BY DEF Table, Row, RowStatus, ExpireToolCalls

-----------------------------------------------------------------------------
(* Type correctness.  A request that has started has chosen its call.      *)

Targeted ==
  \A e \in Executors :
    pc[e] # "idle" \/ grant[e] # NoApproval => target[e] \in Calls

TypeInv == TypeOK /\ Targeted

\* Init satisfies the type invariant.
LEMMA InitType == Init => TypeInv
BY DEF Init, TypeInv, TypeOK, Targeted, EmptyTable, Table, Row, ParkState, RequestState,
       Executors

\* The turn tasks that park calls keep it.
LEMMA ParkType ==
  ASSUME TypeInv, NEW c \in Calls, Park(c)
  PROVE  TypeInv'
<1> USE DEF TypeInv, TypeOK, ParkState, rowVars, requestVars
<1>1. Targeted'
  BY DEF Targeted, Park, ParkInvalid, ParkCheckWriteQuota, ParkRecord, RejectRecord,
         RejectComplete
<1>2. CASE ParkInvalid(c)
  BY <1>1, <1>2 DEF ParkInvalid
<1>3. CASE ParkCheckWriteQuota(c)
  BY <1>1, <1>3 DEF ParkCheckWriteQuota
<1>4. CASE ParkRecord(c)
  <2>1. calls' \in Table
    BY <1>4, RecordType DEF ParkRecord, RowStatus
  <2> QED BY <1>1, <1>4, <2>1 DEF ParkRecord
<1>5. CASE RejectRecord(c)
  <2>1. calls' \in Table
    BY <1>5, RecordType DEF RejectRecord, RowStatus
  <2> QED BY <1>1, <1>5, <2>1 DEF RejectRecord
<1>6. CASE RejectComplete(c)
  <2>1. calls' \in Table
    BY <1>6, CompleteType DEF RejectComplete, RowStatus
  <2> QED BY <1>1, <1>6, <2>1 DEF RejectComplete
<1> QED BY <1>2, <1>3, <1>4, <1>5, <1>6 DEF Park

\* The approval requests keep it.
LEMMA DecideType ==
  ASSUME TypeInv, NEW a \in Approvals, Decide(a)
  PROVE  TypeInv'
<1> USE DEF TypeInv, TypeOK, Targeted, RequestState, Goto, rowVars
<1>0. a \in Executors
  BY DEF Executors
<1>1. ASSUME NEW c \in Calls, LoadDecisionTarget(a, c) PROVE TypeInv'
  BY <1>0, <1>1 DEF LoadDecisionTarget
<1>2. CASE ExpireOnLateDecision(a)
  <2>1. calls' \in Table
    BY <1>2, ExpireType DEF ExpireOnLateDecision
  <2> QED BY <1>0, <1>2, <2>1 DEF ExpireOnLateDecision
<1>3. CASE Deny(a)
  <2>1. target[a] \in Calls
    BY <1>0, <1>3 DEF Deny
  <2>2. calls' \in Table
    BY <1>3, <2>1, DeniedType DEF Deny
  <2> QED BY <1>0, <1>3, <2>1, <2>2 DEF Deny
<1>4. CASE InsertApproval(a)
  BY <1>0, <1>4 DEF InsertApproval
<1>5. CASE Approve(a)
  <2>1. target[a] \in Calls
    BY <1>0, <1>5 DEF Approve
  <2>2. calls' \in Table
    BY <1>5, <2>1, ApprovedType DEF Approve
  <2> QED BY <1>0, <1>5, <2>1, <2>2 DEF Approve
<1> QED BY <1>1, <1>2, <1>3, <1>4, <1>5 DEF Decide

\* The executions of granted calls keep it.
LEMMA ExecuteType ==
  ASSUME TypeInv, NEW e \in Executors, ExecuteApproved(e)
  PROVE  TypeInv'
<1> USE DEF TypeInv, TypeOK, Targeted, RequestState, Goto, rowVars
<1>0. target[e] \in Calls /\ grant[e] \in Approvals \cup {NoApproval}
  BY DEF ExecuteApproved, DropGrant, RefuseUnscoped, CheckGrant, MarkCallRunning,
         EgressUnavailable, Execute, CompleteCall, CompletionLost, ToolHangs
<1>1. CASE DropGrant(e)
  BY <1>1 DEF DropGrant
<1>2. CASE RefuseUnscoped(e)
  <2>1. calls' \in Table
    BY <1>0, <1>2, CompleteType DEF RefuseUnscoped, RowStatus
  <2> QED BY <1>2, <2>1 DEF RefuseUnscoped
<1>3. CASE CheckGrant(e)
  BY <1>3 DEF CheckGrant
<1>4. CASE MarkCallRunning(e)
  <2>1. calls' \in Table
    BY <1>0, <1>4, RunningType DEF MarkCallRunning
  <2> QED BY <1>4, <2>1 DEF MarkCallRunning
<1>5. CASE EgressUnavailable(e)
  <2>1. calls' \in Table
    BY <1>0, <1>5, CompleteType DEF EgressUnavailable, RowStatus
  <2> QED BY <1>5, <2>1 DEF EgressUnavailable
<1>6. CASE Execute(e)
  BY <1>0, <1>6 DEF Execute
<1>7. CASE CompleteCall(e)
  <2>1. calls' \in Table
    BY <1>0, <1>7, CompleteType DEF CompleteCall, RowStatus
  <2> QED BY <1>7, <2>1 DEF CompleteCall
<1>8. CASE CompletionLost(e) \/ ToolHangs(e)
  BY <1>8 DEF CompletionLost, ToolHangs
<1> QED BY <1>1, <1>2, <1>3, <1>4, <1>5, <1>6, <1>7, <1>8 DEF ExecuteApproved

\* So does every step.
LEMMA NextType == TypeInv /\ [Next]_vars => TypeInv'
<1> SUFFICES ASSUME TypeInv, [Next]_vars PROVE TypeInv'
  OBVIOUS
<1> USE DEF TypeInv, TypeOK, rowVars, requestVars
<1>1. ASSUME NEW c \in Calls, StopRefuses(c) PROVE TypeInv'
  <2>1. calls' \in Table
    BY <1>1, DeniedType DEF StopRefuses
  <2> QED BY <1>1, <2>1 DEF StopRefuses, Targeted
<1>2. ASSUME NEW c \in Calls, Lapse(c) PROVE TypeInv'
  BY <1>2 DEF Lapse, Targeted
<1>3. ASSUME NEW r \in Replays, NEW a \in Approvals, Replay(r, a) PROVE TypeInv'
  <2>1. r \in Executors /\ a \in Executors
    BY DEF Executors
  <2>2. target[a] \in Calls
    BY <1>3, <2>1, NoApprovalAssumption DEF Replay, Targeted
  <2> QED BY <1>3, <2>1, <2>2 DEF Replay, Targeted, Goto, RequestState
<1>4. CASE ExpirySweep
  <2>1. calls' \in Table
    BY <1>4, ExpireType DEF ExpirySweep
  <2> QED BY <1>4, <2>1 DEF ExpirySweep, Targeted
<1>5. CASE Restart
  BY <1>5 DEF Restart, Targeted, InFlight, Executing, Parking, ParkState, RequestState
<1>6. CASE UNCHANGED vars
  BY <1>6 DEF vars, Targeted
<1>7. ASSUME NEW c \in Calls, TurnDropped(c) PROVE TypeInv'
  BY <1>7 DEF TurnDropped, Targeted, ParkState
<1>8. ASSUME NEW e \in Executors, HandlerDropped(e) PROVE TypeInv'
  BY <1>8 DEF HandlerDropped, InFlight, Executing, Targeted, Goto, RequestState
<1> QED
  BY <1>1, <1>2, <1>3, <1>4, <1>5, <1>6, <1>7, <1>8, ParkType, DecideType, ExecuteType DEF Next

\* No handler ever writes a row, a request or a park outside the declared
\* states.
THEOREM TypeCorrect == Spec => []TypeOK
<1>1. Spec => []TypeInv
  BY InitType, NextType, PTL DEF Spec
<1> QED BY <1>1, PTL DEF TypeInv
-----------------------------------------------------------------------------
(* The binding between rows and grants, with or without replays.           *)

\* A call whose task has not recorded it has no row; one that is being
\* rejected has a row that no approval names.
ParkedRows ==
  \A c \in Calls :
    /\ park[c] \in {"new", "admitted", "rejectDenied", "rejectFailed"} =>
         calls[c].status = "absent"
    /\ park[c] \in {"recordedDenied", "recordedFailed"} =>
         calls[c] = [status |-> "running", approval |-> NoApproval]

\* No approval names a row before it is approved, nor after it expired.
UnboundRows ==
  \A c \in Calls :
    calls[c].status \in {"absent", "awaiting_approval", "expired"} =>
      calls[c].approval = NoApproval

RefusedRows ==
  \A c \in refused : calls[c] = [status |-> "denied", approval |-> NoApproval]

\* How far a request is says what it holds.
RequestsHold ==
  \A e \in Executors :
    /\ pc[e] \in {"idle", "late", "allow", "deny", "inserted"} => grant[e] = NoApproval
    /\ pc[e] = "inserted" => <<target[e], e>> \in decisions
    /\ pc[e] \in {"granted", "checked", "running", "executed"} => grant[e] # NoApproval
    /\ e \in Approvals => grant[e] \in {NoApproval, e}

\* The row of a granted call names the grant for ever.
GrantsBind ==
  \A e \in Executors :
    grant[e] # NoApproval =>
      /\ <<target[e], grant[e]>> \in decisions
      /\ calls[target[e]].approval = grant[e]

EffectsGranted ==
  \A x \in effects : grant[x[2]] # NoApproval /\ target[x[2]] = x[1]

Binding ==
  /\ TypeInv
  /\ ParkedRows
  /\ UnboundRows
  /\ RefusedRows
  /\ RequestsHold
  /\ GrantsBind
  /\ EffectsGranted
\* Nothing is bound at the start.
LEMMA InitBinding == Init => Binding
BY InitType DEF Init, Binding, EmptyTable, ParkedRows, UnboundRows, RefusedRows,
   RequestsHold, GrantsBind, EffectsGranted, Executors

\* A turn task only writes rows no grant is bound to.
LEMMA ParkBinding ==
  ASSUME Binding, NEW c \in Calls, Park(c)
  PROVE  Binding'
<1>1. TypeInv'
  BY ParkType DEF Binding
<1> USE DEF Binding, TypeInv, TypeOK, Targeted, rowVars, requestVars
<1>2. RequestsHold' /\ EffectsGranted'
  BY DEF Park, ParkInvalid, ParkCheckWriteQuota, ParkRecord, RejectRecord,
         RejectComplete, RequestsHold, EffectsGranted
<1> USE <1>1, <1>2 DEF ParkedRows, UnboundRows, RefusedRows, GrantsBind
<1>3. CASE ParkInvalid(c)
  BY <1>3 DEF ParkInvalid
<1>4. CASE ParkCheckWriteQuota(c)
  BY <1>4 DEF ParkCheckWriteQuota
<1>5. CASE ParkRecord(c)
  BY <1>5 DEF ParkRecord, RecordToolCall, Table, Row
<1>6. CASE RejectRecord(c)
  BY <1>6 DEF RejectRecord, RecordToolCall, Table, Row
<1>7. CASE RejectComplete(c)
  BY <1>7, NoApprovalAssumption DEF RejectComplete, CompleteToolCall, Bind, Table, Row
<1> QED BY <1>3, <1>4, <1>5, <1>6, <1>7 DEF Park

\* A decision only writes rows that still wait for one.
LEMMA DecideBinding ==
  ASSUME Binding, NEW a \in Approvals, Decide(a)
  PROVE  Binding'
<1>1. TypeInv'
  BY DecideType DEF Binding
<1>0. a \in Executors
  BY DEF Executors
<1> USE DEF Binding, TypeInv, TypeOK, Targeted, rowVars, requestVars, Goto
<1> USE <1>0, <1>1 DEF ParkedRows, UnboundRows, RefusedRows, RequestsHold, GrantsBind,
                       EffectsGranted
<1>2. ASSUME NEW c \in Calls, LoadDecisionTarget(a, c) PROVE Binding'
  <2>1. /\ pc[a] = "idle" /\ target' = [target EXCEPT ![a] = c]
        /\ \E next \in {"allow", "deny", "late", "conflict"} : pc' = [pc EXCEPT ![a] = next]
        /\ UNCHANGED <<calls, decisions, lapsed, refused, park, grant, effects>>
    BY <1>2 DEF LoadDecisionTarget
  <2>2. grant[a] = NoApproval
    BY <2>1
  <2>3. ParkedRows' /\ UnboundRows' /\ RefusedRows'
    BY <2>1
  <2>4. RequestsHold'
    BY <2>1, <2>2
  <2>5. GrantsBind' /\ EffectsGranted'
    BY <2>1, <2>2
  <2> QED BY <2>3, <2>4, <2>5
<1>3. CASE ExpireOnLateDecision(a)
  BY <1>3 DEF ExpireOnLateDecision, ExpireToolCalls, IsAwaiting, Table, Row
<1>4. CASE Deny(a)
  BY <1>4 DEF Deny, MarkDenied, IsAwaiting, Table, Row
<1>5. CASE InsertApproval(a)
  BY <1>5 DEF InsertApproval
<1>6. CASE Approve(a)
  <2> DEFINE c == target[a]
  <2>1. c \in Calls
    BY <1>6 DEF Approve
  <2>2. CASE ~IsAwaiting(calls, c)
    BY <1>6, <2>2 DEF Approve, MarkApproved
  <2>3. CASE IsAwaiting(calls, c)
    <3>1. /\ calls' = [calls EXCEPT ![c] = [status |-> "approved", approval |-> a]]
          /\ grant' = [grant EXCEPT ![a] = a]
          /\ pc' = [pc EXCEPT ![a] = "granted"]
          /\ UNCHANGED <<decisions, lapsed, refused, park, target, effects>>
      BY <1>6, <2>3 DEF Approve, MarkApproved
    <3>2. c \notin refused /\ calls[c].approval = NoApproval
      BY <2>1, <2>3 DEF IsAwaiting
    <3>3. <<c, a>> \in decisions /\ grant[a] = NoApproval /\ pc[a] = "inserted"
      BY <1>6 DEF Approve
    <3>4. \A e \in Executors : grant[e] # NoApproval => target[e] # c
      BY <3>2
    <3> USE <2>1, <3>1, <3>2, <3>3, <3>4
    <3>5. ParkedRows'
      BY <2>3 DEF IsAwaiting, Table, Row
    <3>6. UnboundRows'
      BY DEF Table, Row
    <3>7. RefusedRows'
      BY DEF Table, Row
    <3>8. RequestsHold'
      BY NoApprovalAssumption
    <3>9. GrantsBind'
      BY DEF Table, Row
    <3>10. EffectsGranted'
      BY NoApprovalAssumption
    <3> QED BY <3>5, <3>6, <3>7, <3>8, <3>9, <3>10
  <2> QED BY <2>2, <2>3
<1> QED BY <1>2, <1>3, <1>4, <1>5, <1>6 DEF Decide

\* An execution writes the row its grant names and leaves the binding in it.
LEMMA ExecuteBinding ==
  ASSUME Binding, NEW e \in Executors, ExecuteApproved(e)
  PROVE  Binding'
<1>1. TypeInv'
  BY ExecuteType DEF Binding
<1>2. /\ grant[e] # NoApproval
      /\ target[e] \in Calls
      /\ calls[target[e]].approval = grant[e]
  BY DEF Binding, TypeInv, Targeted, RequestsHold, GrantsBind, ExecuteApproved, DropGrant,
         RefuseUnscoped, CheckGrant, MarkCallRunning, EgressUnavailable, Execute,
         CompleteCall, CompletionLost, ToolHangs
<1> USE DEF Binding, TypeInv, TypeOK, Targeted, rowVars, requestVars, Goto
<1> USE <1>1, <1>2 DEF ParkedRows, UnboundRows, RefusedRows, RequestsHold, GrantsBind,
                       EffectsGranted
<1>3. CASE DropGrant(e)
  BY <1>3 DEF DropGrant
<1>4. CASE RefuseUnscoped(e)
  BY <1>4 DEF RefuseUnscoped, CompleteToolCall, Bind, Table, Row
<1>5. CASE CheckGrant(e)
  BY <1>5 DEF CheckGrant
<1>6. CASE MarkCallRunning(e)
  BY <1>6 DEF MarkCallRunning, MarkRunning, Bind, Table, Row
<1>7. CASE EgressUnavailable(e)
  BY <1>7 DEF EgressUnavailable, CompleteToolCall, Bind, Table, Row
<1>8. CASE Execute(e)
  BY <1>8 DEF Execute
<1>9. CASE CompleteCall(e)
  BY <1>9 DEF CompleteCall, CompleteToolCall, Bind, Table, Row
<1>10. CASE CompletionLost(e) \/ ToolHangs(e)
  BY <1>10 DEF CompletionLost, ToolHangs
<1> QED BY <1>3, <1>4, <1>5, <1>6, <1>7, <1>8, <1>9, <1>10 DEF ExecuteApproved

\* The binding is inductive.
LEMMA NextBinding == Binding /\ [Next]_vars => Binding'
<1> SUFFICES ASSUME Binding, [Next]_vars PROVE Binding'
  OBVIOUS
<1>0. TypeInv'
  BY NextType DEF Binding
<1> USE DEF Binding, TypeInv, TypeOK, Targeted, rowVars, requestVars
<1> USE <1>0 DEF ParkedRows, UnboundRows, RefusedRows, RequestsHold, GrantsBind,
                 EffectsGranted
<1>1. ASSUME NEW c \in Calls, StopRefuses(c) PROVE Binding'
  BY <1>1 DEF StopRefuses, MarkDenied, IsAwaiting, Table, Row
<1>2. ASSUME NEW c \in Calls, Lapse(c) PROVE Binding'
  BY <1>2 DEF Lapse
<1>3. ASSUME NEW r \in Replays, NEW a \in Approvals, Replay(r, a) PROVE Binding'
  BY <1>3, ReplaysAssumption, NoApprovalAssumption DEF Replay, Goto, Executors
<1>4. CASE ExpirySweep
  BY <1>4 DEF ExpirySweep, ExpireToolCalls, IsAwaiting, Table, Row
<1>5. CASE Restart
  BY <1>5 DEF Restart, InFlight, Executing, Parking
<1>6. CASE UNCHANGED vars
  BY <1>6 DEF vars
<1>7. ASSUME NEW c \in Calls, TurnDropped(c) PROVE Binding'
  BY <1>7 DEF TurnDropped, Parking
<1>8. ASSUME NEW e \in Executors, HandlerDropped(e) PROVE Binding'
  BY <1>8 DEF HandlerDropped, InFlight, Executing, Goto
<1> QED
  BY <1>1, <1>2, <1>3, <1>4, <1>5, <1>6, <1>7, <1>8, ParkBinding, DecideBinding, ExecuteBinding
  DEF Next

\* It therefore always holds.
LEMMA AlwaysBinding == Spec => []Binding
BY InitBinding, NextBinding, PTL DEF Spec
-----------------------------------------------------------------------------
(* What follows for every caller, replays included.                        *)

\* An execution is always traceable: the approval was inserted before, and the
\* row still names it whatever the execution's outcome.
THEOREM EffectsAreTraceable == Spec => []EffectNamesItsApproval
<1>1. Binding => EffectNamesItsApproval
  BY DEF Binding, TypeInv, TypeOK, GrantsBind, EffectsGranted, EffectNamesItsApproval
<1> QED BY <1>1, AlwaysBinding, PTL

\* Nobody who was told that a call is refused or expired ever sees it executed.
THEOREM RefusalHolds == Spec => []RefusedNeverRuns
<1>1. Binding => RefusedNeverRuns
  <2> SUFFICES ASSUME Binding, NEW x \in effects
               PROVE  x[1] \notin refused /\ calls[x[1]].status # "expired"
    BY DEF RefusedNeverRuns
  <2>1. x[1] \in Calls /\ x[2] \in Executors
    BY DEF Binding, TypeInv, TypeOK
  <2>2. calls[x[1]].approval # NoApproval
    BY <2>1 DEF Binding, GrantsBind, EffectsGranted
  <2> QED BY <2>1, <2>2 DEF Binding, RefusedRows, UnboundRows
<1> QED BY <1>1, AlwaysBinding, PTL

\* Whoever holds a grant holds one that its request was given, for its call.
SharedGrants ==
  \A e \in Executors, a \in Approvals :
    grant[e] = a => grant[a] = a /\ target[e] = target[a]

\* A replay copies the call with the grant, and a fresh grant is unique.
LEMMA AlwaysSharedGrants == Spec => []SharedGrants
<1>1. Init => SharedGrants
  BY NoApprovalAssumption DEF Init, SharedGrants
<1>2. ASSUME Binding, SharedGrants, [Next]_vars PROVE SharedGrants'
  <2> USE <1>2 DEF Binding, TypeInv, TypeOK, SharedGrants, rowVars, requestVars
  <2>1. CASE UNCHANGED <<target, grant>>
    BY <2>1
  <2>2. ASSUME NEW a \in Approvals, NEW c \in Calls, LoadDecisionTarget(a, c)
        PROVE  SharedGrants'
    <3>1. a \in Executors /\ grant[a] = NoApproval
      BY <2>2 DEF LoadDecisionTarget, RequestsHold, Executors
    <3>2. \A e \in Executors : grant[e] # a
      BY <3>1, NoApprovalAssumption
    <3> QED BY <2>2, <3>1, <3>2, NoApprovalAssumption DEF LoadDecisionTarget
  <2>3. ASSUME NEW a \in Approvals, Approve(a) PROVE SharedGrants'
    <3>1. CASE ~IsAwaiting(calls, target[a])
      BY <2>3, <2>1, <3>1 DEF Approve
    <3>2. CASE IsAwaiting(calls, target[a])
      <4>1. a \in Executors /\ grant[a] = NoApproval
        BY <2>3 DEF Approve, RequestsHold, Executors
      <4>2. \A e \in Executors : grant[e] # a
        BY <4>1, NoApprovalAssumption
      <4> QED BY <2>3, <3>2, <4>1, <4>2, NoApprovalAssumption DEF Approve, Executors
    <3> QED BY <3>1, <3>2
  <2>4. ASSUME NEW r \in Replays, NEW a \in Approvals, Replay(r, a) PROVE SharedGrants'
    <3>1. r \in Executors /\ r \notin Approvals /\ a \in Executors /\ grant[a] = a
      BY <2>4, ReplaysAssumption DEF Replay, Executors
    <3> QED BY <2>4, <3>1 DEF Replay
  <2> QED
    BY <2>1, <2>2, <2>3, <2>4 DEF Next, vars, Park, ParkInvalid, ParkCheckWriteQuota,
       ParkRecord, RejectRecord, RejectComplete, Decide, ExpireOnLateDecision, Deny,
       InsertApproval, StopRefuses, Lapse, ExpirySweep, Restart, TurnDropped, HandlerDropped,
       ExecuteApproved, DropGrant, RefuseUnscoped, CheckGrant, MarkCallRunning,
       EgressUnavailable, Execute, CompleteCall, CompletionLost, ToolHangs
<1> QED BY <1>1, <1>2, AlwaysBinding, PTL DEF Spec

\* A grant that was used once is useless from then on: the status a replay
\* reads is never approved again.
THEOREM GrantIsSpentOnce == Spec => SpentGrantStaysSpent
<1> DEFINE Step(a) == /\ GrantSpent(a)'
                      /\ \A x \in effects' : grant[x[2]] = a => x \in effects
<1>1. ASSUME Binding, SharedGrants, [Next]_vars, NEW a \in Approvals, GrantSpent(a)
      PROVE  Step(a)
  <2> USE <1>1 DEF GrantSpent, Binding, TypeInv, TypeOK, Targeted, rowVars, requestVars, Goto
  <2>0. a \in Executors /\ target[a] \in Calls /\ grant[a] = a /\ a # NoApproval
    BY NoApprovalAssumption DEF Executors
  <2>1. ASSUME NEW c \in Calls, Park(c) PROVE Step(a)
    BY <2>0, <2>1 DEF Park, ParkInvalid, ParkCheckWriteQuota, ParkRecord, RejectRecord,
       RejectComplete, RecordToolCall, CompleteToolCall, Table, Row
  <2>2. ASSUME NEW c \in Calls, StopRefuses(c) \/ Lapse(c) \/ TurnDropped(c) PROVE Step(a)
    BY <2>0, <2>2 DEF StopRefuses, Lapse, TurnDropped, MarkDenied, Table, Row
  <2>3. ASSUME NEW b \in Approvals, Decide(b) PROVE Step(a)
    <3>0. b \in Executors
      BY DEF Executors
    <3>1. ASSUME NEW c \in Calls, LoadDecisionTarget(b, c) PROVE Step(a)
      BY <2>0, <3>0, <3>1 DEF LoadDecisionTarget, RequestsHold
    <3>2. CASE ExpireOnLateDecision(b)
      BY <2>0, <3>0, <3>2 DEF ExpireOnLateDecision, ExpireToolCalls, Table, Row
    <3>3. CASE Deny(b)
      BY <2>0, <3>0, <3>3 DEF Deny, MarkDenied, Table, Row
    <3>4. CASE InsertApproval(b)
      BY <2>0, <3>0, <3>4 DEF InsertApproval
    <3>5. CASE Approve(b)
      <4>1. a # b
        BY <2>0, <3>0, <3>5 DEF Approve, RequestsHold
      <4> QED BY <2>0, <3>0, <3>5, <4>1 DEF Approve, MarkApproved, RequestsHold, Table, Row
    <3> QED BY <2>3, <3>1, <3>2, <3>3, <3>4, <3>5 DEF Decide
  <2>4. ASSUME NEW r \in Replays, NEW b \in Approvals, Replay(r, b) PROVE Step(a)
    BY <2>0, <2>4, ReplaysAssumption DEF Replay, Executors
  <2>5. ASSUME NEW e \in Executors, ExecuteApproved(e) PROVE Step(a)
    <3>1. CASE DropGrant(e)
      BY <2>0, <3>1 DEF DropGrant
    <3>2. CASE RefuseUnscoped(e)
      BY <2>0, <3>2 DEF RefuseUnscoped, CompleteToolCall, Table, Row
    <3>3. CASE CheckGrant(e)
      <4>1. grant[e] = a => target[e] = target[a]
        BY <2>0 DEF SharedGrants
      <4> QED BY <2>0, <3>3, <4>1 DEF CheckGrant
    <3>4. CASE MarkCallRunning(e)
      BY <2>0, <3>4 DEF MarkCallRunning, MarkRunning, Table, Row
    <3>5. CASE EgressUnavailable(e)
      BY <2>0, <3>5 DEF EgressUnavailable, CompleteToolCall, Table, Row
    <3>6. CASE Execute(e)
      BY <2>0, <3>6 DEF Execute
    <3>7. CASE CompleteCall(e)
      BY <2>0, <3>7 DEF CompleteCall, CompleteToolCall, Table, Row
    <3>8. CASE CompletionLost(e) \/ ToolHangs(e)
      BY <2>0, <3>8 DEF CompletionLost, ToolHangs
    <3> QED BY <2>5, <3>1, <3>2, <3>3, <3>4, <3>5, <3>6, <3>7, <3>8 DEF ExecuteApproved
  <2>6. CASE ExpirySweep
    BY <2>0, <2>6 DEF ExpirySweep, ExpireToolCalls, Table, Row
  <2>7. CASE Restart
    BY <2>0, <2>7 DEF Restart
  <2>8. CASE UNCHANGED vars
    BY <2>0, <2>8 DEF vars
  <2>9. ASSUME NEW e \in Executors, HandlerDropped(e) PROVE Step(a)
    BY <2>0, <2>9 DEF HandlerDropped
  <2> QED BY <1>1, <2>1, <2>2, <2>3, <2>4, <2>5, <2>6, <2>7, <2>8, <2>9 DEF Next
<1>2. Binding /\ SharedGrants /\ [Next]_vars =>
        [\A a \in Approvals : GrantSpent(a) =>
           GrantSpent(a)' /\ \A x \in effects' : grant[x[2]] = a => x \in effects]_vars
  BY <1>1
<1> QED BY <1>2, AlwaysBinding, AlwaysSharedGrants, PTL DEF Spec, SpentGrantStaysSpent
-----------------------------------------------------------------------------
(* What follows for calls whose grant is not presented twice.              *)

\* Racing approvals: two requests for one call never both execute it.
THEOREM ApprovedOnce == Spec => []OneShot
<1>1. ASSUME Binding PROVE OneShot
  <2> SUFFICES ASSUME NEW x \in effects, NEW y \in effects, x[1] = y[1], ~Replayed(x[1])
               PROVE  x = y
    BY DEF OneShot
  <2>1. /\ x \in Calls \X Executors
        /\ y \in Calls \X Executors
        /\ target[x[2]] = x[1] /\ target[y[2]] = x[1]
    BY <1>1 DEF Binding, TypeInv, TypeOK, EffectsGranted
  <2>4. x[2] \in Approvals /\ y[2] \in Approvals
    BY <2>1 DEF Executors, Replayed
  <2>2. grant[x[2]] = x[2] /\ grant[y[2]] = y[2]
    BY <1>1, <2>1, <2>4 DEF Binding, RequestsHold, EffectsGranted
  <2>3. calls[x[1]].approval = x[2] /\ calls[y[1]].approval = y[2]
    BY <1>1, <2>1, <2>2 DEF Binding, GrantsBind, EffectsGranted
  <2> QED BY <2>1, <2>3
<1> QED BY <1>1, AlwaysBinding, PTL

\* Once a window is over and those who saw it open are done, no request
\* reopens it.
THEOREM WindowsStayClosed == Spec => ClosedWindowStaysClosed
<1> DEFINE Step(c) ==
      WindowClosed(c) =>
        WindowClosed(c)' /\ \A a \in Approvals : <<c, a>> \in effects' => <<c, a>> \in effects
<1>1. ASSUME TypeInv, [Next]_vars, NEW c \in Calls PROVE Step(c)
  <2>0. Approvals \subseteq Executors
    BY DEF Executors
  <2> USE <1>1, <2>0 DEF WindowClosed, TypeInv, TypeOK, rowVars, requestVars, Goto
  <2>1. ASSUME NEW d \in Calls, Park(d) \/ StopRefuses(d) \/ Lapse(d) \/ TurnDropped(d)
        PROVE Step(c)
    BY <2>1 DEF Park, ParkInvalid, ParkCheckWriteQuota, ParkRecord, RejectRecord,
       RejectComplete, StopRefuses, Lapse, TurnDropped
  <2>2. ASSUME NEW a \in Approvals, Decide(a) PROVE Step(c)
    <3>1. ASSUME NEW d \in Calls, LoadDecisionTarget(a, d) PROVE Step(c)
      BY <3>1 DEF LoadDecisionTarget
    <3>2. CASE ExpireOnLateDecision(a) \/ Deny(a) \/ InsertApproval(a)
      BY <3>2 DEF ExpireOnLateDecision, Deny, InsertApproval
    <3>3. CASE Approve(a)
      BY <3>3 DEF Approve
    <3> QED BY <2>2, <3>1, <3>2, <3>3 DEF Decide
  <2>3. ASSUME NEW e \in Executors, ExecuteApproved(e) PROVE Step(c)
    BY <2>3 DEF ExecuteApproved, DropGrant, RefuseUnscoped, CheckGrant, MarkCallRunning,
       EgressUnavailable, Execute, CompleteCall, CompletionLost, ToolHangs
  <2>4. CASE ExpirySweep \/ UNCHANGED vars
    BY <2>4 DEF ExpirySweep, vars
  <2>5. CASE Restart
    BY <2>5 DEF Restart
  <2>6. ASSUME NEW r \in Replays, NEW a \in Approvals, Replay(r, a) PROVE Step(c)
    BY <2>6, ReplaysAssumption DEF Replay, Executors
  <2>7. ASSUME NEW e \in Executors, HandlerDropped(e) PROVE Step(c)
    BY <2>7 DEF HandlerDropped
  <2> QED BY <1>1, <2>1, <2>2, <2>3, <2>4, <2>5, <2>6, <2>7 DEF Next
<1>2. Spec => ClosedWindowStaysClosed
  <2>1. TypeInv /\ [Next]_vars =>
          [\A c \in Calls : WindowClosed(c) =>
             WindowClosed(c)' /\ \A a \in Approvals : <<c, a>> \in effects' => <<c, a>> \in effects]_vars
    BY <1>1
  <2> QED BY <2>1, InitType, NextType, PTL DEF Spec, ClosedWindowStaysClosed
<1> QED BY <1>2

\* The row of a grant in use is where that use put it, and a replay has chosen
\* no call before it starts.
Owned ==
  /\ \A e \in Executors :
       ~Replayed(target[e]) =>
         /\ pc[e] \in {"granted", "checked"} => calls[target[e]].status = "approved"
         /\ pc[e] \in {"running", "executed"} => calls[target[e]].status = "running"
  /\ \A r \in Replays : pc[r] = "idle" => target[r] = NoCall

\* A call that was replayed stays so.
LEMMA ReplayedStays ==
  ASSUME TypeInv, Owned, [Next]_vars, NEW c \in Calls, Replayed(c)
  PROVE  Replayed(c)'
<1> USE DEF Owned, Replayed, TypeInv, TypeOK, Executors
<1>1. PICK r \in Replays : target[r] = c
  OBVIOUS
<1>2. r \in Executors /\ r \notin Approvals /\ pc[r] # "idle"
  BY <1>1, ReplaysAssumption, NoCallAssumption
<1>3. CASE UNCHANGED target
  BY <1>1, <1>3
<1>4. ASSUME NEW a \in Approvals, NEW d \in Calls, LoadDecisionTarget(a, d) PROVE Replayed(c)'
  BY <1>1, <1>2, <1>4 DEF LoadDecisionTarget
<1>5. ASSUME NEW s \in Replays, NEW a \in Approvals, Replay(s, a) PROVE Replayed(c)'
  BY <1>1, <1>2, <1>5 DEF Replay
<1> QED
  BY <1>3, <1>4, <1>5 DEF Next, vars, rowVars, requestVars, Park, ParkInvalid,
     ParkCheckWriteQuota, ParkRecord, RejectRecord, RejectComplete, Decide,
     ExpireOnLateDecision, Deny, InsertApproval, Approve, StopRefuses, Lapse, ExpirySweep,
     Restart, TurnDropped, HandlerDropped, ExecuteApproved, DropGrant, RefuseUnscoped,
     CheckGrant, MarkCallRunning, EgressUnavailable, Execute, CompleteCall, CompletionLost,
     ToolHangs

\* No two requests use one row, so none finds it changed under it.
LEMMA AlwaysOwned == Spec => []Owned
<1>1. Init => Owned
  BY DEF Init, Owned, Executors
<1>2. ASSUME Binding, Owned, [Next]_vars PROVE Owned'
  <2> USE <1>2 DEF Owned, Binding, TypeInv, TypeOK, Targeted, rowVars, requestVars, Goto,
                   Table, Row
  <2>0. \A e \in Executors :
          /\ pc[e] \in {"granted", "checked", "running", "executed"}
          /\ ~Replayed(target[e])
          => e \in Approvals /\ target[e] \in Calls /\ grant[e] = e
               /\ calls[target[e]].approval = e /\ e # NoApproval
    BY NoApprovalAssumption DEF RequestsHold, GrantsBind, Executors, Replayed
  <2>1. \A d \in Calls : Replayed(d) => Replayed(d)'
    BY ReplayedStays
  <2>10. /\ Replays \subseteq Executors
         /\ \A e \in Executors :
              pc[e] \in {"granted", "checked", "running", "executed"} => target[e] \in Calls
    BY DEF Executors
  <2>2. ASSUME NEW c \in Calls, Park(c) PROVE Owned'
    <3>1. UNCHANGED <<pc, target>>
      BY <2>2 DEF Park, ParkInvalid, ParkCheckWriteQuota, ParkRecord, RejectRecord,
                  RejectComplete
    <3> QED BY <2>0, <2>2, <3>1 DEF Park, ParkInvalid, ParkCheckWriteQuota, ParkRecord,
               RejectRecord, RejectComplete, RecordToolCall, CompleteToolCall, ParkedRows,
               Replayed
  <2>3. ASSUME NEW c \in Calls, StopRefuses(c) \/ Lapse(c) \/ TurnDropped(c) PROVE Owned'
    BY <2>3 DEF StopRefuses, Lapse, TurnDropped, MarkDenied, IsAwaiting, Replayed
  <2>4. ASSUME NEW a \in Approvals, Decide(a) PROVE Owned'
    <3>0. a \in Executors /\ a \notin Replays
      BY ReplaysAssumption DEF Executors
    <3>1. ASSUME NEW c \in Calls, LoadDecisionTarget(a, c) PROVE Owned'
      BY <2>1, <3>0, <3>1 DEF LoadDecisionTarget, Replayed
    <3> DEFINE Same == target' = target /\ \A d : Replayed(d)' <=> Replayed(d)
    <3>2. CASE ExpireOnLateDecision(a)
      <4>1. Same
        BY <3>2 DEF ExpireOnLateDecision, Replayed
      <4> QED BY <2>10, <3>0, <3>2, <4>1 DEF ExpireOnLateDecision, ExpireToolCalls, IsAwaiting
    <3>3. CASE Deny(a)
      <4>1. Same
        BY <3>3 DEF Deny, Replayed
      <4> QED BY <2>10, <3>0, <3>3, <4>1 DEF Deny, MarkDenied, IsAwaiting
    <3>4. CASE InsertApproval(a)
      BY <3>0, <3>4 DEF InsertApproval, Replayed
    <3>5. CASE Approve(a)
      <4>1. Same
        BY <3>5 DEF Approve, Replayed
      <4> QED BY <2>10, <3>0, <3>5, <4>1 DEF Approve, MarkApproved, IsAwaiting
    <3> QED BY <2>4, <3>1, <3>2, <3>3, <3>4, <3>5 DEF Decide
  <2>5. ASSUME NEW e \in Executors, ExecuteApproved(e) PROVE Owned'
    <3>00. target' = target /\ pc' = [pc EXCEPT ![e] = pc'[e]] /\ pc'[e] # "idle"
      BY <2>5 DEF ExecuteApproved, DropGrant, RefuseUnscoped, CheckGrant, MarkCallRunning,
                  EgressUnavailable, Execute, CompleteCall, CompletionLost, ToolHangs
    <3>0. /\ target' = target /\ pc' = [pc EXCEPT ![e] = pc'[e]] /\ pc'[e] # "idle"
          /\ \A d : Replayed(d)' <=> Replayed(d)
      BY <3>00 DEF Replayed
    <3>1. CASE DropGrant(e) \/ CheckGrant(e) \/ Execute(e) \/ CompletionLost(e) \/ ToolHangs(e)
      BY <2>10, <3>0, <3>1 DEF DropGrant, CheckGrant, Execute, CompletionLost, ToolHangs
    <3>2. CASE RefuseUnscoped(e)
      BY <2>0, <3>0, <3>2 DEF RefuseUnscoped, CompleteToolCall, Replayed
    <3>3. CASE MarkCallRunning(e)
      BY <2>0, <3>0, <3>3 DEF MarkCallRunning, MarkRunning, Replayed
    <3>4. CASE EgressUnavailable(e)
      BY <2>0, <2>10, <3>0, <3>4 DEF EgressUnavailable, CompleteToolCall
    <3>5. CASE CompleteCall(e)
      BY <2>0, <2>10, <3>0, <3>5 DEF CompleteCall, CompleteToolCall
    <3> QED BY <2>5, <3>1, <3>2, <3>3, <3>4, <3>5 DEF ExecuteApproved
  <2>6. ASSUME NEW r \in Replays, NEW a \in Approvals, Replay(r, a) PROVE Owned'
    <3>1. r \in Executors /\ target[a] \in Calls
      BY <2>6, NoApprovalAssumption DEF Replay, Executors
    <3>2. target'[r] = target[a] /\ Replayed(target[a])'
      BY <2>6, <3>1 DEF Replay, Replayed
    <3> QED BY <2>1, <2>6, <3>1, <3>2 DEF Replay, Replayed
  <2>7. CASE ExpirySweep
    BY <2>7 DEF ExpirySweep, ExpireToolCalls, IsAwaiting, Replayed
  <2>8. CASE Restart
    <3>1. \A d : Replayed(d)' <=> Replayed(d)
      BY <2>8 DEF Restart, Replayed
    <3> QED BY <2>8, <2>10, <3>1 DEF Restart, InFlight, Executing
  <2>9. CASE UNCHANGED vars
    BY <2>9 DEF vars, Replayed
  <2>11. ASSUME NEW e \in Executors, HandlerDropped(e) PROVE Owned'
    <3>1. \A d : Replayed(d)' <=> Replayed(d)
      BY <2>11 DEF HandlerDropped, Replayed
    <3> QED BY <2>10, <2>11, <3>1 DEF HandlerDropped, InFlight, Executing
  <2> QED BY <1>2, <2>2, <2>3, <2>4, <2>5, <2>6, <2>7, <2>8, <2>9, <2>11 DEF Next
<1> QED BY <1>1, <1>2, AlwaysBinding, PTL DEF Spec

\* What a caller was told about a call stays true: a settled row is never
\* written again, although mark_tool_call_running and complete_tool_call do not
\* look at the status they overwrite.
THEOREM SettledRowsStay == Spec => SettledIsFinal
<1>1. ASSUME Binding, Owned, [Next]_vars, NEW c \in Calls, calls[c].status \in Settled,
             ~Replayed(c)
      PROVE  calls'[c] = calls[c]
  <2> USE <1>1 DEF Settled, Owned, Binding, TypeInv, TypeOK, rowVars, requestVars, Table, Row
  <2>1. ASSUME NEW d \in Calls, Park(d) PROVE calls'[c] = calls[c]
    BY <2>1 DEF Park, ParkInvalid, ParkCheckWriteQuota, ParkRecord, RejectRecord,
       RejectComplete, RecordToolCall, CompleteToolCall, ParkedRows
  <2>2. ASSUME NEW d \in Calls, StopRefuses(d) \/ Lapse(d) \/ TurnDropped(d)
        PROVE calls'[c] = calls[c]
    BY <2>2 DEF StopRefuses, Lapse, TurnDropped, MarkDenied, IsAwaiting
  <2>3. ASSUME NEW a \in Approvals, Decide(a) PROVE calls'[c] = calls[c]
    BY <2>3 DEF Decide, LoadDecisionTarget, ExpireOnLateDecision, Deny, InsertApproval,
       Approve, ExpireToolCalls, MarkDenied, MarkApproved, IsAwaiting
  <2>4. ASSUME NEW e \in Executors, ExecuteApproved(e) PROVE calls'[c] = calls[c]
    BY <2>4 DEF ExecuteApproved, DropGrant, RefuseUnscoped, CheckGrant, MarkCallRunning,
       EgressUnavailable, Execute, CompleteCall, CompletionLost, ToolHangs, MarkRunning,
       CompleteToolCall
  <2>5. ASSUME NEW r \in Replays, NEW a \in Approvals, Replay(r, a) PROVE calls'[c] = calls[c]
    BY <2>5 DEF Replay
  <2>6. CASE ExpirySweep \/ Restart \/ UNCHANGED vars
    BY <2>6 DEF ExpirySweep, Restart, vars, ExpireToolCalls, IsAwaiting
  <2>7. ASSUME NEW e \in Executors, HandlerDropped(e) PROVE calls'[c] = calls[c]
    BY <2>7 DEF HandlerDropped
  <2> QED BY <1>1, <2>1, <2>2, <2>3, <2>4, <2>5, <2>6, <2>7 DEF Next
<1>2. Binding /\ Owned /\ [Next]_vars =>
        [\A c \in Calls :
           calls[c].status \in Settled /\ ~Replayed(c) => calls'[c] = calls[c]]_vars
  BY <1>1
<1>3. Spec => [][\A c \in Calls :
           calls[c].status \in Settled /\ ~Replayed(c) => calls'[c] = calls[c]]_vars
  BY <1>2, AlwaysOwned, AlwaysBinding, PTL DEF Spec
<1> QED BY <1>3 DEF SettledIsFinal
=============================================================================
