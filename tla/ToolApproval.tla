---------------------------- MODULE ToolApproval ----------------------------
(***************************************************************************)
(* The approval protocol of gated tool calls: turn tasks park calls        *)
(* (ToolBroker::park), approval requests decide them (submit_approval),    *)
(* granted calls are executed (ToolBroker::execute_approved), while the    *)
(* maintenance task expires windows, stop requests refuse pending calls,   *)
(* and the process may restart between any two store accesses.             *)
(*                                                                         *)
(* Every handler is split at its store accesses: what it read before an    *)
(* await is in its local state, and any other handler may run before the   *)
(* next access.  A request of submit_approval is identified with the       *)
(* approval id it generates, so Approvals is also the set of requests.     *)
(***************************************************************************)
EXTENDS ToolCallStore

CONSTANTS
  Replays,    \* execute_approved calls an embedder makes with a grant already in use
  Buffered,   \* the requests with stream = false: they execute in their handler
  WriteQuota, \* write_quota: accepted parks in the window
  NoCall      \* no call chosen yet

ASSUME NoCallAssumption == NoCall \notin Calls
ASSUME ReplaysAssumption == Replays \cap (Approvals \cup {NoApproval}) = {}
ASSUME WriteQuotaAssumption == WriteQuota \in Nat

Executors == Approvals \cup Replays

ASSUME BufferedAssumption == Buffered \subseteq Executors

VARIABLES
  calls,     \* clypeus_tool_calls
  decisions, \* clypeus_tool_approvals: <<call, approval>> of every inserted "allow"
  lapsed,    \* the calls whose expires_at is in the past
  park,      \* [Calls -> where the turn task that parks this call is]
  pc,        \* [Executors -> where this request is]
  target,    \* [Executors -> the call it is about]
  grant,     \* [Executors -> the approval id of the ApprovalGrant it holds]
  effects,   \* history: <<call, executor>> of every upstream execution
  refused    \* history: calls whose refusal was recorded by a caller

vars == <<calls, decisions, lapsed, park, pc, target, grant, effects, refused>>
rowVars == <<calls, decisions, lapsed, refused>>
requestVars == <<pc, target, grant>>

ParkState == {"new", "admitted", "rejectFailed", "rejectDenied",
              "recordedFailed", "recordedDenied", "parked", "rejected", "dead"}
RequestState == {"idle", "late", "allow", "deny", "inserted", "granted", "checked",
                 "running", "executed", "hung", "done", "lost", "refused", "conflict",
                 "dropped", "dead"}

TypeOK ==
  /\ calls \in Table
  /\ decisions \subseteq Calls \X Approvals
  /\ lapsed \subseteq Calls
  /\ park \in [Calls -> ParkState]
  /\ pc \in [Executors -> RequestState]
  /\ target \in [Executors -> Calls \cup {NoCall}]
  /\ grant \in [Executors -> Approvals \cup {NoApproval}]
  /\ effects \subseteq Calls \X Executors
  /\ refused \subseteq Calls

Init ==
  /\ calls = EmptyTable
  /\ decisions = {}
  /\ lapsed = {}
  /\ park = [c \in Calls |-> "new"]
  /\ pc = [e \in Executors |-> "idle"]
  /\ target = [e \in Executors |-> NoCall]
  /\ grant = [e \in Executors |-> NoApproval]
  /\ effects = {}
  /\ refused = {}

Goto(e, state) == pc' = [pc EXCEPT ![e] = state]

-----------------------------------------------------------------------------
(* ToolBroker::park, one turn task per call.                               *)

\* Missing scopes (rejectDenied) or invalid arguments (rejectFailed).
ParkInvalid(c) ==
  /\ park[c] = "new"
  /\ \E next \in {"rejectDenied", "rejectFailed"} : park' = [park EXCEPT ![c] = next]
  /\ UNCHANGED <<rowVars, requestVars, effects>>

ParkCheckWriteQuota(c) ==
  /\ park[c] = "new"
  /\ park' = [park EXCEPT ![c] = IF CountRecentToolCalls(calls) >= WriteQuota
                                   THEN "rejectFailed" ELSE "admitted"]
  /\ UNCHANGED <<rowVars, requestVars, effects>>

ParkRecord(c) ==
  /\ park[c] = "admitted"
  /\ calls' = RecordToolCall(calls, c, "awaiting_approval")
  /\ park' = [park EXCEPT ![c] = "parked"]
  /\ UNCHANGED <<decisions, lapsed, refused, requestVars, effects>>

\* record_failed_call: the row is inserted as running, then completed.
RejectRecord(c) ==
  /\ park[c] \in {"rejectDenied", "rejectFailed"}
  /\ calls' = RecordToolCall(calls, c, "running")
  /\ park' = [park EXCEPT ![c] = IF @ = "rejectDenied" THEN "recordedDenied"
                                                       ELSE "recordedFailed"]
  /\ UNCHANGED <<decisions, lapsed, refused, requestVars, effects>>

RejectComplete(c) ==
  /\ park[c] \in {"recordedDenied", "recordedFailed"}
  /\ calls' = CompleteToolCall(calls, c,
                IF park[c] = "recordedDenied" THEN "denied" ELSE "failed", NoApproval)
  /\ park' = [park EXCEPT ![c] = "rejected"]
  /\ UNCHANGED <<decisions, lapsed, refused, requestVars, effects>>

-----------------------------------------------------------------------------
(* submit_approval: the decision.                                          *)

\* Mutant: the window is not looked at.
LoadAnyWindow(a, c) ==
  /\ pc[a] = "idle"
  /\ calls[c].status # "absent"
  /\ target' = [target EXCEPT ![a] = c]
  /\ \E next \in {"allow", "deny", "late", "conflict"} :
       /\ next \in {"allow", "deny"} => IsAwaiting(calls, c)
       /\ next = "late" => IsAwaiting(calls, c) /\ c \in lapsed
       /\ Goto(a, next)
  /\ UNCHANGED <<rowVars, park, grant, effects>>

\* load_decision_target and the checks made on the snapshot it returns.  Every
\* early return without a store write ends in "conflict": a decided call, a
\* hash or a typed confirmation that does not match, an unreadable message.
LoadDecisionTarget(a, c) ==
  /\ pc[a] = "idle"
  /\ calls[c].status # "absent"
  /\ target' = [target EXCEPT ![a] = c]
  /\ \E next \in {"allow", "deny", "late", "conflict"} :
       /\ next \in {"allow", "deny"} => IsAwaiting(calls, c) /\ c \notin lapsed
       /\ next = "late" => IsAwaiting(calls, c) /\ c \in lapsed
       /\ Goto(a, next)
  /\ UNCHANGED <<rowVars, park, grant, effects>>

\* A late decision sweeps the expired windows before it is refused.
ExpireOnLateDecision(a) ==
  /\ pc[a] = "late"
  /\ calls' = ExpireToolCalls(calls, lapsed)
  /\ Goto(a, "conflict")
  /\ UNCHANGED <<decisions, lapsed, refused, park, target, grant, effects>>

\* mark_tool_call_denied and broker.deny, whose second mark finds a conflict
\* that it ignores.
Deny(a) ==
  /\ pc[a] = "deny"
  /\ IF IsAwaiting(calls, target[a])
       THEN /\ refused' = refused \cup {target[a]}
            /\ Goto(a, "refused")
       ELSE /\ UNCHANGED refused
            /\ Goto(a, "conflict")
  /\ calls' = MarkDenied(calls, target[a])
  /\ UNCHANGED <<decisions, lapsed, park, target, grant, effects>>

InsertApproval(a) ==
  /\ pc[a] = "allow"
  /\ decisions' = decisions \cup {<<target[a], a>>}
  /\ Goto(a, "inserted")
  /\ UNCHANGED <<calls, lapsed, refused, park, target, grant, effects>>

\* Mutant: the transition is not a compare-and-set.
ApproveBlindly(a) ==
  /\ pc[a] = "inserted"
  /\ grant' = [grant EXCEPT ![a] = a]
  /\ Goto(a, "granted")
  /\ calls' = [calls EXCEPT ![target[a]] = [status |-> "approved", approval |-> a]]
  /\ UNCHANGED <<decisions, lapsed, refused, park, target, effects>>

\* mark_tool_call_approved; the loser of a race answers 409.
Approve(a) ==
  /\ pc[a] = "inserted"
  /\ IF IsAwaiting(calls, target[a])
       THEN /\ grant' = [grant EXCEPT ![a] = a]
            /\ Goto(a, "granted")
       ELSE /\ UNCHANGED grant
            /\ Goto(a, "conflict")
  /\ calls' = MarkApproved(calls, target[a], a)
  /\ UNCHANGED <<decisions, lapsed, refused, park, target, effects>>

\* The grant is given up between the decision and the execution, and the row
\* is left as it is: the provider cannot be resolved, the message cannot be
\* read, the resumed turn is stopped or its consumer is gone before it reaches
\* the call, the tool is no longer registered, or the broker's store access
\* fails.  (A handler that is dropped with its connection is HandlerDropped.)
DropGrant(e) ==
  /\ pc[e] \in {"granted", "checked"}
  /\ Goto(e, "dropped")
  /\ UNCHANGED <<rowVars, park, target, grant, effects>>

-----------------------------------------------------------------------------
(* ToolBroker::execute_approved.                                           *)

\* An embedder calls execute_approved again with a grant it already used.
Replay(r, a) ==
  /\ pc[r] = "idle"
  /\ grant[a] = a
  /\ grant' = [grant EXCEPT ![r] = a]
  /\ target' = [target EXCEPT ![r] = target[a]]
  /\ Goto(r, "granted")
  /\ UNCHANGED <<rowVars, park, effects>>

\* The caller lost a required scope since the call was parked.
RefuseUnscoped(e) ==
  /\ pc[e] = "granted"
  /\ calls' = CompleteToolCall(calls, target[e], "denied", NoApproval)
  /\ Goto(e, "done")
  /\ UNCHANGED <<decisions, lapsed, refused, park, target, grant, effects>>

\* Mutant: the approval id is compared, the status is not.
CheckGrantBinding(e) ==
  /\ pc[e] = "granted"
  /\ Goto(e, IF calls[target[e]].approval = grant[e] THEN "checked" ELSE "conflict")
  /\ UNCHANGED <<rowVars, park, target, grant, effects>>

\* get_tool_call: the row must still be approved and bound to this grant.
CheckGrant(e) ==
  /\ pc[e] = "granted"
  /\ Goto(e, IF calls[target[e]] = [status |-> "approved", approval |-> grant[e]]
               THEN "checked" ELSE "conflict")
  /\ UNCHANGED <<rowVars, park, target, grant, effects>>

MarkCallRunning(e) ==
  /\ pc[e] = "checked"
  /\ calls' = MarkRunning(calls, target[e], grant[e])
  /\ Goto(e, "running")
  /\ UNCHANGED <<decisions, lapsed, refused, park, target, grant, effects>>

\* build_egress fails before upstream is reached: record_failed_call, whose
\* insert finds the row and whose completion keeps the approval id.
EgressUnavailable(e) ==
  /\ pc[e] = "running"
  /\ \E status \in {"failed", "denied"} :
       calls' = CompleteToolCall(calls, target[e], status, NoApproval)
  /\ Goto(e, "done")
  /\ UNCHANGED <<decisions, lapsed, refused, park, target, grant, effects>>

\* ToolRegistry::execute reaches the tool: the side effect.
Execute(e) ==
  /\ pc[e] = "running"
  /\ effects' = effects \cup {<<target[e], e>>}
  /\ Goto(e, "executed")
  /\ UNCHANGED <<rowVars, park, target, grant>>

\* Mutant: the outcome is written without the approval id, and over it.
CompleteUnbound(e) ==
  /\ pc[e] = "executed"
  /\ \E status \in {"succeeded", "failed", "denied"} :
       calls' = [calls EXCEPT ![target[e]] = [status |-> status, approval |-> NoApproval]]
  /\ Goto(e, "done")
  /\ UNCHANGED <<decisions, lapsed, refused, park, target, grant, effects>>

\* Mutant: the outcome is answered but not written.
CompleteUnrecorded(e) ==
  /\ pc[e] = "executed"
  /\ Goto(e, "done")
  /\ UNCHANGED <<rowVars, park, target, grant, effects>>

CompleteCall(e) ==
  /\ pc[e] = "executed"
  /\ \E status \in {"succeeded", "failed", "denied"} :
       calls' = CompleteToolCall(calls, target[e], status, grant[e])
  /\ Goto(e, "done")
  /\ UNCHANGED <<decisions, lapsed, refused, park, target, grant, effects>>

\* complete_call logs a failed write and goes on: the outcome is answered, and
\* the row stays running.
CompletionLost(e) ==
  /\ pc[e] \in {"running", "executed"}
  /\ Goto(e, "lost")
  /\ UNCHANGED <<rowVars, park, target, grant, effects>>

\* No limit is set on the tool: it may keep its caller waiting for ever, before
\* or after its effect.
ToolHangs(e) ==
  /\ pc[e] \in {"running", "executed"}
  /\ Goto(e, "hung")
  /\ UNCHANGED <<rowVars, park, target, grant, effects>>

-----------------------------------------------------------------------------
(* Stop requests, maintenance, time, closed connections and restarts.      *)

\* Mutant: the refusal is not conditional on the call still being pending.
StopRefusesUnsettled(c) ==
  /\ calls[c].status \notin Settled \cup {"absent"}
  /\ calls' = [calls EXCEPT ![c].status = "denied"]
  /\ refused' = refused \cup {c}
  /\ UNCHANGED <<decisions, lapsed, park, requestVars, effects>>

\* stop_message refuses the calls that are still pending on the turn it stops.
StopRefuses(c) ==
  /\ IsAwaiting(calls, c)
  /\ calls' = MarkDenied(calls, c)
  /\ refused' = refused \cup {c}
  /\ UNCHANGED <<decisions, lapsed, park, requestVars, effects>>

\* The clock passes expires_at.
Lapse(c) ==
  /\ park[c] = "parked"
  /\ c \notin lapsed
  /\ lapsed' = lapsed \cup {c}
  /\ UNCHANGED <<calls, decisions, refused, park, requestVars, effects>>

\* The 60-second maintenance tick.
ExpirySweep ==
  /\ \E c \in lapsed : IsAwaiting(calls, c)
  /\ calls' = ExpireToolCalls(calls, lapsed)
  /\ UNCHANGED <<decisions, lapsed, refused, park, requestVars, effects>>

Executing == {"checked", "running", "executed", "hung"}
InFlight(e) == pc[e] \in {"late", "allow", "deny", "inserted", "granted"} \cup Executing
Parking(c) == park[c] \in {"admitted", "rejectDenied", "rejectFailed",
                           "recordedDenied", "recordedFailed"}

\* The client closes its connection: the handler is dropped at the await it is
\* in, and nothing it had not yet written is.  Only an execution that was handed
\* to the task of a resumed stream survives its handler.
HandlerDropped(e) ==
  /\ InFlight(e)
  /\ pc[e] \in Executing => e \in Buffered
  /\ Goto(e, "dropped")
  /\ UNCHANGED <<rowVars, park, target, grant, effects>>

\* The same for the handler of a buffered turn that is parking a call.
TurnDropped(c) ==
  /\ Parking(c)
  /\ park' = [park EXCEPT ![c] = "dead"]
  /\ UNCHANGED <<rowVars, requestVars, effects>>

\* The process dies: every task and handler in flight is lost, rows persist.
Restart ==
  /\ \/ \E e \in Executors : InFlight(e)
     \/ \E c \in Calls : Parking(c)
  /\ pc' = [e \in Executors |-> IF InFlight(e) THEN "dead" ELSE pc[e]]
  /\ park' = [c \in Calls |-> IF Parking(c) THEN "dead" ELSE park[c]]
  /\ UNCHANGED <<rowVars, target, grant, effects>>

-----------------------------------------------------------------------------
Park(c) ==
  \/ ParkInvalid(c)
  \/ ParkCheckWriteQuota(c)
  \/ ParkRecord(c)
  \/ RejectRecord(c)
  \/ RejectComplete(c)

Decide(a) ==
  \/ \E c \in Calls : LoadDecisionTarget(a, c)
  \/ ExpireOnLateDecision(a)
  \/ Deny(a)
  \/ InsertApproval(a)
  \/ Approve(a)

ExecuteApproved(e) ==
  \/ DropGrant(e)
  \/ RefuseUnscoped(e)
  \/ CheckGrant(e)
  \/ MarkCallRunning(e)
  \/ EgressUnavailable(e)
  \/ Execute(e)
  \/ CompleteCall(e)
  \/ CompletionLost(e)
  \/ ToolHangs(e)

Next ==
  \/ \E c \in Calls : Park(c) \/ TurnDropped(c) \/ StopRefuses(c) \/ Lapse(c)
  \/ \E a \in Approvals : Decide(a)
  \/ \E r \in Replays, a \in Approvals : Replay(r, a)
  \/ \E e \in Executors : ExecuteApproved(e) \/ HandlerDropped(e)
  \/ ExpirySweep
  \/ Restart

Spec == Init /\ [][Next]_vars

(* An execution whose handler or task is neither dropped, nor cut off by a *)
(* restart, nor kept waiting by its tool takes its next step: those are    *)
(* steps of their own, which nothing obliges to happen and which end the   *)
(* obligation when they do.  Time passes and the maintenance task ticks.   *)
(* No client is obliged to decide.                                         *)
FairSpec ==
  /\ Spec
  /\ \A c \in Calls : WF_vars(Lapse(c))
  /\ WF_vars(ExpirySweep)
  /\ \A e \in Executors : WF_vars(MarkCallRunning(e) \/ EgressUnavailable(e)
                                   \/ Execute(e) \/ CompleteCall(e))

-----------------------------------------------------------------------------
(* Properties.                                                             *)

\* An embedder presented a grant for this call again.
Replayed(c) == \E r \in Replays : target[r] = c

\* One-shot: at most one execution of a call ever reaches upstream, whatever
\* requests race for it (execute_approved's "One-shot enforcement").
OneShot ==
  \A x, y \in effects : x[1] = y[1] /\ ~Replayed(x[1]) => x = y

\* A call that reached upstream did so under an approval that some caller
\* gave: the approval was inserted before, and the call's row still names it
\* however the execution ended (the trail an operator reads afterwards).
EffectNamesItsApproval ==
  \A x \in effects :
    LET approval == grant[x[2]] IN
    /\ approval # NoApproval
    /\ <<x[1], approval>> \in decisions
    /\ calls[x[1]].approval = approval

\* A caller who was told that a denial or a stop refused the call, or that its
\* window expired, never sees it executed, before or after.
RefusedNeverRuns ==
  \A x \in effects : x[1] \notin refused /\ calls[x[1]].status # "expired"

\* A settled row is never rewritten, although complete_tool_call and
\* mark_tool_call_running are unconditional: only a replayed grant could.
SettledIsFinal ==
  [][\A c \in Calls :
       calls[c].status \in Settled /\ ~Replayed(c) => calls'[c] = calls[c]]_vars

\* The window is over and no decision that saw it open is still at work.
WindowClosed(c) ==
  /\ c \in lapsed
  /\ \A a \in Approvals :
       target[a] = c => pc[a] \notin {"allow", "inserted", "granted", "checked", "running"}

\* Once a window is closed in this sense no later decision can open it again.
ClosedWindowStaysClosed ==
  [][\A c \in Calls : WindowClosed(c) =>
       WindowClosed(c)' /\ \A a \in Approvals : <<c, a>> \in effects' => <<c, a>> \in effects]_vars

\* A parked call does not wait for ever: it is decided or it expires.
ParkedCallsResolve ==
  \A c \in Calls : IsAwaiting(calls, c) ~> ~IsAwaiting(calls, c)

\* An execution that started is recorded with an outcome, whatever the egress
\* and the tool answer, unless it is cut off in one of the ways the code leaves
\* open: the process dies, the store refuses the write, the tool never answers,
\* or the client of a buffered approval closes its connection.  The client of a
\* streamed approval may not cut it off, and no stop, expiry or replay may.
ExecutionsSettle ==
  \A e \in Executors :
    pc[e] = "running" ~> \/ \E c \in Calls : target[e] = c /\ calls[c].status \in Settled
                         \/ pc[e] \in {"dead", "lost", "hung"}
                         \/ pc[e] = "dropped" /\ e \in Buffered

\* The row is no longer approved under grant a and nobody who saw it so is
\* about to run it.
GrantSpent(a) ==
  /\ grant[a] = a
  /\ \A c \in Calls : target[a] = c => calls[c] # [status |-> "approved", approval |-> a]
  /\ \A e \in Executors : grant[e] = a => pc[e] \notin {"checked", "running"}

\* A grant that was used, however its use ended, is of no further use: a replay
\* that starts later, or that had already started, never reaches upstream.
SpentGrantStaysSpent ==
  [][\A a \in Approvals : GrantSpent(a) =>
       GrantSpent(a)' /\ \A x \in effects' : grant[x[2]] = a => x \in effects]_vars
=============================================================================
