---------------------------- MODULE TurnLifecycle ----------------------------
(***************************************************************************)
(* The life of one assistant message: the task of its turn, the tasks that *)
(* resume it after approval decisions, the registry of cancellable turns,  *)
(* stop requests, drop guards, the stale-turn sweep and process crashes.   *)
(*                                                                         *)
(* Handlers and tasks are split at their awaits.  The execution of an      *)
(* approved call is one step here; ToolApproval has its steps.  Text is a  *)
(* set of block numbers: one provider round produces at most one block,    *)
(* which the consumer may see before the round ends.  A request of         *)
(* submit_approval and the task it spawns have the same name.              *)
(***************************************************************************)
EXTENDS ToolCallStore

CONSTANTS
  Original,  \* the task of run_turn
  Stops,     \* requests of stop_message
  Nobody,    \* no task
  NoCall,    \* no call
  Modes,     \* subset of {"streamed", "buffered"}: what clients ask for
  Patient,   \* clients stop a turn once its id was streamed, and decide on a
             \* call once the task that parked it is gone
  Worlds     \* the environments the turn may find itself in

ASSUME TasksAssumption ==
  /\ Original \notin Approvals
  /\ Nobody \notin Approvals \cup {Original}
  /\ NoCall \notin Calls
  /\ Modes \subseteq {"streamed", "buffered"}
  /\ Patient \in BOOLEAN
  /\ Worlds \subseteq [faults : BOOLEAN, timely : BOOLEAN, blocks : Nat]

Tasks == {Original} \cup Approvals

VARIABLES
  world,    \* the environment of this behaviour
  status,   \* clypeus_messages.status of the assistant message
  text,     \* its content
  calls,    \* clypeus_tool_calls
  registry, \* TurnRegistry: the task whose sender is stored for the message
  phase,    \* [Tasks -> TurnPhase of the task's channel]
  pc,       \* [Tasks -> where the request or its task is]
  mode,     \* [Tasks -> "streamed" or "buffered"]
  gone,     \* the tasks whose consumer has disconnected
  call,     \* [Tasks -> the call a resumed task is about]
  work,     \* [Tasks -> the locals of the task]
  guards,   \* detached finalizations spawned by dropped TurnGuards
  stopPc,   \* [Stops -> where the stop request is]
  waits,    \* [Stops -> the task it waits for]
  seen,     \* [Stops -> the pending calls its snapshot showed]
  produced, \* number of blocks the provider produced
  streamed, \* history: the blocks sent to a consumer
  won       \* history: the stop requests that refused a call

turnVars == <<status, text, calls>>
registryVars == <<registry, phase>>
taskVars == <<pc, mode, gone, call, work>>
stopVars == <<stopPc, waits, seen, won>>
blockVars == <<produced, streamed, world>>
vars == <<turnVars, registryVars, taskVars, guards, stopVars, blockVars>>

\* What most steps of a task leave alone.
taskFrame == <<registryVars, mode, gone, call, guards, stopVars, blockVars>>

\* Store accesses may fail, tasks panic and the process crash.
Faults == world.faults
\* Tasks react to a stop within 15 s and end within the stale limit.
Timely == world.timely
\* The bound on the blocks the provider produces.
MaxBlocks == world.blocks
Blocks == 1 .. MaxBlocks

\* MessageStatus; "streaming" is never written.
Unsettled == {"pending", "awaiting_approval"}
Status == Unsettled \cup {"complete", "stopped", "error"}

Running == {"reading", "opening", "resume", "prior", "executed", "start", "round",
            "streaming", "received", "tools", "parked", "finish", "closing", "failing"}
PC == Running \cup {"handler", "idle", "allow", "deny", "resolve", "ended"}

\* content: what run_loop accumulated, or the prior text of a resumed turn;
\* round: the text of the current round; status and text: the outcome that the
\* task is about to persist.
Work == [content : SUBSET Blocks, round : SUBSET Blocks,
         status : Status, text : SUBSET Blocks]
NoWork == [content |-> {}, round |-> {}, status |-> "pending", text |-> {}]

TypeOK ==
  /\ world \in Worlds
  /\ status \in Status
  /\ text \subseteq Blocks
  /\ calls \in Table
  /\ registry \in Tasks \cup {Nobody}
  /\ phase \in [Tasks -> {"none", "Running", "Stopping", "Finished"}]
  /\ pc \in [Tasks -> PC]
  /\ mode \in [Tasks -> {"streamed", "buffered"}]
  /\ gone \subseteq Tasks
  /\ call \in [Tasks -> Calls \cup {NoCall}]
  /\ work \in [Tasks -> Work]
  /\ guards \subseteq Tasks
  /\ stopPc \in [Stops -> {"idle", "read", "wait", "refuse", "done", "lost"}]
  /\ waits \in [Stops -> Tasks \cup {Nobody}]
  /\ seen \in [Stops -> SUBSET Calls]
  /\ produced \in 0 .. MaxBlocks
  /\ streamed \subseteq Blocks
  /\ won \subseteq Stops

\* begin_turn has inserted the message.
Init ==
  /\ world \in Worlds
  /\ status = "pending"
  /\ text = {}
  /\ calls = EmptyTable
  /\ registry = Nobody
  /\ phase = [t \in Tasks |-> "none"]
  /\ pc = [t \in Tasks |-> IF t = Original THEN "handler" ELSE "idle"]
  /\ mode \in [Tasks -> Modes]
  /\ gone = {}
  /\ call = [t \in Tasks |-> NoCall]
  /\ work = [t \in Tasks |-> NoWork]
  /\ guards = {}
  /\ stopPc = [s \in Stops |-> "idle"]
  /\ waits = [s \in Stops |-> Nobody]
  /\ seen = [s \in Stops |-> {}]
  /\ produced = 0
  /\ streamed = {}
  /\ won = {}

Live(t) == pc[t] \in Running
IsStreamed(t) == mode[t] = "streamed"
IsStopping(t) == IsStreamed(t) /\ phase[t] \in {"Stopping", "Finished"}
ConsumerGone(t) == IsStreamed(t) /\ t \in gone

Goto(t, state) == pc' = [pc EXCEPT ![t] = state]

\* The task has its TurnOutcome and goes on to persist it.
Finish(t, newStatus, newText) ==
  /\ work' = [work EXCEPT ![t] = [NoWork EXCEPT !.status = newStatus, !.text = newText]]
  /\ Goto(t, "finish")

\* The task, or its request, ends and its locals are dropped.
End(t) ==
  /\ Goto(t, "ended")
  /\ work' = [work EXCEPT ![t] = NoWork]

\* TurnRegistry::register overwrites the entry of the message.
Register(t) ==
  IF IsStreamed(t)
    THEN /\ registry' = t
         /\ phase' = [phase EXCEPT ![t] = "Running"]
    ELSE UNCHANGED registryVars

\* TurnSlot::drop removes the entry of the message, whoever registered it.
DropSlot(t) ==
  IF IsStreamed(t)
    THEN /\ registry' = Nobody
         /\ phase' = [phase EXCEPT ![t] = "Finished"]
    ELSE UNCHANGED registryVars

-----------------------------------------------------------------------------
(* run_turn and the opening of a stream.                                   *)

Spawn ==
  /\ pc[Original] = "handler"
  /\ Register(Original)
  /\ Goto(Original, IF IsStreamed(Original) THEN "opening" ELSE "start")
  /\ UNCHANGED <<turnVars, mode, gone, call, work, guards, stopVars, blockVars>>

\* The history of the message cannot be read after begin_turn, or the client
\* closes its connection before the task is spawned and the handler is dropped.
SpawnFails ==
  /\ pc[Original] = "handler"
  /\ Goto(Original, "ended")
  /\ UNCHANGED <<turnVars, work, taskFrame>>

\* turn_started and context are sent, or the consumer has already left.
Open(t) ==
  /\ pc[t] = "opening"
  /\ IF ConsumerGone(t)
       THEN Finish(t, "stopped", {})
       ELSE /\ Goto(t, IF t = Original THEN "start" ELSE "resume")
            /\ UNCHANGED work
  /\ UNCHANGED <<turnVars, taskFrame>>

\* The consumer of a stream disconnects; the future of a buffered request is
\* dropped with its connection, and nothing is written.
Disconnect(t) ==
  /\ Live(t)
  /\ t \notin gone
  /\ gone' = gone \cup {t}
  /\ IF IsStreamed(t) THEN UNCHANGED <<pc, work>> ELSE End(t)
  /\ UNCHANGED <<turnVars, registryVars, mode, call, guards, stopVars, blockVars>>

-----------------------------------------------------------------------------
(* run_loop.                                                               *)

\* The provider, or the guard, produces the next block of text; a buffered turn
\* shows nothing before it ends.
Produce(t) ==
  /\ produced < MaxBlocks
  /\ produced' = produced + 1
  /\ streamed' = IF IsStreamed(t) /\ ~ConsumerGone(t) THEN streamed \cup {produced + 1}
                                                     ELSE streamed
  /\ UNCHANGED world

\* The guard classifies the latest user message, which a resumed turn has
\* already passed: its refusal is the answer, whether or not a stop came first.
Classify ==
  /\ pc[Original] = "start"
  /\ \/ /\ Goto(Original, "round")
        /\ UNCHANGED <<work, blockVars>>
     \/ /\ Produce(Original)
        /\ Finish(Original, IF ConsumerGone(Original) THEN "stopped" ELSE "complete",
                  {produced + 1})
  /\ UNCHANGED <<turnVars, registryVars, mode, gone, call, guards, stopVars>>

\* The top of the loop: the stop check, the turn budget, the next round.
NextRound(t) ==
  /\ pc[t] = "round"
  /\ \/ IsStopping(t) /\ Finish(t, "stopped", work[t].content)
     \/ ~IsStopping(t) /\ Finish(t, "error", {})
     \/ /\ ~IsStopping(t)
        /\ Goto(t, "streaming")
        /\ work' = [work EXCEPT ![t].round = {}]
  /\ UNCHANGED <<turnVars, taskFrame>>

\* A delta arrives.
ReceiveBlock(t) ==
  /\ pc[t] = "streaming"
  /\ ~IsStopping(t)
  /\ Produce(t)
  /\ work' = [work EXCEPT ![t].content = @ \cup {produced + 1}, ![t].round = {produced + 1}]
  /\ Goto(t, "received")
  /\ UNCHANGED <<turnVars, registryVars, mode, gone, call, guards, stopVars>>

\* Mutant: only the interrupted round is kept.
InterruptKeepsRound(t) ==
  /\ pc[t] \in {"streaming", "received", "tools"}
  /\ IsStopping(t) \/ ConsumerGone(t)
  /\ Finish(t, "stopped", work[t].round)
  /\ UNCHANGED <<turnVars, taskFrame>>

\* The select in run_streamed_round, and a send that fails elsewhere in the
\* loop, end the turn with everything it accumulated.
Interrupt(t) ==
  /\ pc[t] \in {"streaming", "received", "tools"}
  /\ IsStopping(t) \/ ConsumerGone(t)
  /\ Finish(t, "stopped", work[t].content)
  /\ UNCHANGED <<turnVars, taskFrame>>

\* The round is complete, but its usage cannot be sent because the consumer left:
\* run_loop returns before it has added the text of the round.
LoseRound(t) ==
  /\ pc[t] \in {"streaming", "received"}
  /\ ConsumerGone(t)
  /\ Finish(t, "stopped", work[t].content \ work[t].round)
  /\ UNCHANGED <<turnVars, taskFrame>>

\* The provider fails, times out, or ends without an answer.
ProviderFails(t) ==
  /\ pc[t] \in {"streaming", "received"}
  /\ Finish(t, "error", {})
  /\ UNCHANGED <<turnVars, taskFrame>>

\* The round asks for no tools: the answer is the text of this round.
Answer(t) ==
  /\ pc[t] = "received"
  /\ ~IsStopping(t)
  /\ Finish(t, "complete", work[t].round)
  /\ UNCHANGED <<turnVars, taskFrame>>

RequestTools(t) ==
  /\ pc[t] \in {"streaming", "received"}
  /\ ~IsStopping(t)
  /\ Goto(t, "tools")
  /\ UNCHANGED <<turnVars, work, taskFrame>>

\* Read-only calls and refused parks: their results go into the next round.
\* The rows they leave are not tracked.
UseTools(t) ==
  /\ pc[t] = "tools"
  /\ ~IsStopping(t)
  /\ Goto(t, "round")
  /\ UNCHANGED <<turnVars, work, taskFrame>>

\* A gated call: the stop check, broker.park, and its row.
Park(t, c) ==
  /\ pc[t] = "tools"
  /\ ~IsStopping(t)
  /\ calls[c].status = "absent"
  /\ calls' = RecordToolCall(calls, c, "awaiting_approval")
  /\ Goto(t, "parked")
  /\ UNCHANGED <<status, text, work, taskFrame>>

\* waiting_approval is sent, whether or not anybody reads it, and the turn ends
\* with the text of the round that parked.
AwaitDecision(t) ==
  /\ pc[t] = "parked"
  /\ Finish(t, "awaiting_approval", work[t].round)
  /\ UNCHANGED <<turnVars, taskFrame>>

-----------------------------------------------------------------------------
(* finalize, the drop guard and the slot.                                  *)

\* finalize_assistant, unconditional.  A buffered task ends here.
Finalize(t) ==
  /\ pc[t] = "finish"
  /\ status' = work[t].status
  /\ text' = work[t].text
  /\ work' = [work EXCEPT ![t] = NoWork]
  /\ Goto(t, IF IsStreamed(t) THEN "closing" ELSE "ended")
  /\ UNCHANGED <<calls, taskFrame>>

FinalizeFails(t) ==
  /\ Faults
  /\ pc[t] = "finish"
  /\ work' = [work EXCEPT ![t] = NoWork]
  /\ Goto(t, IF IsStreamed(t) THEN "failing" ELSE "ended")
  /\ UNCHANGED <<turnVars, taskFrame>>

\* The end of a task whose guard is disarmed: [DONE], then the slot is dropped.
Close(t) ==
  /\ pc[t] = "closing"
  /\ DropSlot(t)
  /\ Goto(t, "ended")
  /\ UNCHANGED <<turnVars, mode, gone, call, work, guards, stopVars, blockVars>>

\* A task that panics or could not persist drops its armed guard, which spawns
\* a detached finalization, and then its slot.
CloseArmed(t) ==
  /\ IsStreamed(t)
  /\ \/ pc[t] = "failing"
     \/ Faults /\ pc[t] \in Running \ {"reading", "closing"}
  /\ guards' = guards \cup {t}
  /\ DropSlot(t)
  /\ End(t)
  /\ UNCHANGED <<turnVars, mode, gone, call, stopVars, blockVars>>

GuardFinalizes(t) ==
  /\ t \in guards
  /\ guards' = guards \ {t}
  /\ \/ status' = "error" /\ text' = {}
     \/ Faults /\ UNCHANGED <<status, text>>
  /\ UNCHANGED <<calls, registryVars, taskVars, stopVars, blockVars>>
-----------------------------------------------------------------------------
(* submit_approval and the task it spawns.                                 *)

LoadDecision(a, c) ==
  /\ pc[a] = "idle"
  /\ IsAwaiting(calls, c)
  /\ Patient => ~\E t \in Tasks : Live(t)
  /\ call' = [call EXCEPT ![a] = c]
  /\ \E decision \in {"allow", "deny"} : Goto(a, decision)
  /\ UNCHANGED <<turnVars, registryVars, mode, gone, work, guards, stopVars, blockVars>>

\* Mutant: a decision that lost the race for the row is not rejected.
DecideAnyway(a) ==
  /\ pc[a] \in {"allow", "deny"}
  /\ calls' = IF pc[a] = "allow" THEN MarkApproved(calls, call[a], a)
                                 ELSE MarkDenied(calls, call[a])
  /\ Goto(a, "resolve")
  /\ UNCHANGED <<status, text, work, taskFrame>>

\* mark_tool_call_approved or mark_tool_call_denied; the loser of a race for
\* the row is answered 409.
Decide(a) ==
  /\ pc[a] \in {"allow", "deny"}
  /\ calls' = IF pc[a] = "allow" THEN MarkApproved(calls, call[a], a)
                                 ELSE MarkDenied(calls, call[a])
  /\ Goto(a, IF IsAwaiting(calls, call[a]) THEN "resolve" ELSE "ended")
  /\ UNCHANGED <<status, text, work, taskFrame>>

\* resolve_provider or user_anchor_message fails, or the handler is dropped with
\* its connection: the decision stays recorded.
ResolveFails(a) ==
  /\ pc[a] = "resolve"
  /\ Goto(a, "ended")
  /\ UNCHANGED <<turnVars, work, taskFrame>>

\* Mutant: the resumed turn is not registered.
SpawnUnregistered(a) ==
  /\ pc[a] = "resolve"
  /\ Goto(a, "reading")
  /\ UNCHANGED <<turnVars, work, taskFrame>>

SpawnResumed(a) ==
  /\ pc[a] = "resolve"
  /\ Register(a)
  /\ Goto(a, "reading")
  /\ UNCHANGED <<turnVars, mode, gone, call, work, guards, stopVars, blockVars>>

\* persisted_output.  No guard is armed when it fails.
ReadOutput(a) ==
  /\ pc[a] = "reading"
  /\ \/ /\ Goto(a, IF IsStreamed(a) THEN "opening" ELSE "resume")
        /\ UNCHANGED registryVars
     \/ /\ Faults
        /\ DropSlot(a)
        /\ Goto(a, "ended")
  /\ UNCHANGED <<turnVars, mode, gone, call, work, guards, stopVars, blockVars>>

\* run_resume reads the text of the turn it continues.
ReadPrior(a) ==
  /\ pc[a] = "resume"
  /\ work' = [work EXCEPT ![a].content = text]
  /\ Goto(a, "prior")
  /\ UNCHANGED <<turnVars, taskFrame>>

\* The stop check, the running event, and the approved call.
ResumeCall(a) ==
  /\ pc[a] = "prior"
  /\ IF IsStopping(a) \/ ConsumerGone(a)
       THEN /\ Finish(a, "stopped", work[a].content)
            /\ UNCHANGED calls
       ELSE /\ Goto(a, "executed")
            /\ UNCHANGED work
            /\ IF calls[call[a]] = [status |-> "approved", approval |-> a]
                 THEN \E result \in {"succeeded", "failed", "denied"} :
                        calls' = CompleteToolCall(calls, call[a], result, a)
                 ELSE UNCHANGED calls
  /\ UNCHANGED <<status, text, taskFrame>>

\* The result event and the history; run_loop starts without the prior text.
ResumeLoop(a) ==
  /\ pc[a] = "executed"
  /\ \/ /\ ConsumerGone(a)
        /\ Finish(a, "stopped", work[a].content)
     \/ /\ Faults
        /\ Finish(a, "error", {})
     \/ /\ ~ConsumerGone(a)
        /\ Goto(a, "round")
        /\ work' = [work EXCEPT ![a].content = {}]
  /\ UNCHANGED <<turnVars, taskFrame>>

-----------------------------------------------------------------------------
(* stop_message.                                                           *)

\* The snapshot: the calls still to be decided if the turn is parked.
StopRead(s) ==
  /\ stopPc[s] = "idle"
  /\ Patient => pc[Original] \notin {"handler", "opening"}
  /\ seen' = [seen EXCEPT ![s] = IF status = "awaiting_approval"
                                   THEN {c \in Calls : IsAwaiting(calls, c)} ELSE {}]
  /\ stopPc' = [stopPc EXCEPT ![s] = "read"]
  /\ UNCHANGED <<turnVars, registryVars, taskVars, guards, waits, won, blockVars>>

\* Mutant: the handler does not wait for the task it signals.
SignalWithoutWaiting(s) ==
  /\ stopPc[s] = "read"
  /\ stopPc' = [stopPc EXCEPT ![s] = "refuse"]
  /\ phase' = IF registry = Nobody THEN phase ELSE [phase EXCEPT ![registry] = "Stopping"]
  /\ UNCHANGED <<turnVars, registry, taskVars, guards, waits, seen, won, blockVars>>

\* Orchestrator::stop_turn.
StopSignal(s) ==
  /\ stopPc[s] = "read"
  /\ IF registry = Nobody
       THEN /\ stopPc' = [stopPc EXCEPT ![s] = "refuse"]
            /\ UNCHANGED <<phase, waits>>
       ELSE /\ phase' = [phase EXCEPT ![registry] = "Stopping"]
            /\ waits' = [waits EXCEPT ![s] = registry]
            /\ stopPc' = [stopPc EXCEPT ![s] = "wait"]
  /\ UNCHANGED <<turnVars, registry, taskVars, guards, seen, won, blockVars>>

StopWaited(s) ==
  /\ stopPc[s] = "wait"
  /\ phase[waits[s]] = "Finished"
  /\ stopPc' = [stopPc EXCEPT ![s] = "refuse"]
  /\ waits' = [waits EXCEPT ![s] = Nobody]
  /\ UNCHANGED <<turnVars, registryVars, taskVars, guards, seen, won, blockVars>>

\* Mutant: the wait has no limit of its own.
WaitForEver(s) ==
  /\ stopPc[s] = "wait"
  /\ phase[waits[s]] = "Finished"
  /\ stopPc' = [stopPc EXCEPT ![s] = "refuse"]
  /\ waits' = [waits EXCEPT ![s] = Nobody]
  /\ UNCHANGED <<turnVars, registryVars, taskVars, guards, seen, won, blockVars>>

\* STOP_FINALIZE_TIMEOUT.
StopTimesOut(s) ==
  /\ ~Timely
  /\ stopPc[s] = "wait"
  /\ stopPc' = [stopPc EXCEPT ![s] = "refuse"]
  /\ waits' = [waits EXCEPT ![s] = Nobody]
  /\ UNCHANGED <<turnVars, registryVars, taskVars, guards, seen, won, blockVars>>

\* mark_tool_call_denied; its failure is ignored.
StopRefuses(s, c) ==
  /\ stopPc[s] = "refuse"
  /\ c \in seen[s]
  /\ \/ /\ calls' = MarkDenied(calls, c)
        /\ won' = IF IsAwaiting(calls, c) THEN won \cup {s} ELSE won
     \/ Faults /\ UNCHANGED <<calls, won>>
  /\ seen' = [seen EXCEPT ![s] = @ \ {c}]
  /\ UNCHANGED <<status, text, registryVars, taskVars, guards, stopPc, waits, blockVars>>

\* ConversationStore::stop_turn, a compare-and-set, or its failure.
StopFinalizes(s) ==
  /\ stopPc[s] = "refuse"
  /\ seen[s] = {}
  /\ \/ /\ status' = IF status \in Unsettled THEN "stopped" ELSE status
        /\ stopPc' = [stopPc EXCEPT ![s] = "done"]
     \/ /\ Faults
        /\ stopPc' = [stopPc EXCEPT ![s] = "lost"]
        /\ UNCHANGED status
  /\ UNCHANGED <<text, calls, registryVars, taskVars, guards, waits, seen, won, blockVars>>

\* The client of the stop closes its connection: the handler is dropped at the
\* await it is in.
StopDropped(s) ==
  /\ stopPc[s] \in {"read", "wait", "refuse"}
  /\ stopPc' = [stopPc EXCEPT ![s] = "lost"]
  /\ waits' = [waits EXCEPT ![s] = Nobody]
  /\ seen' = [seen EXCEPT ![s] = {}]
  /\ UNCHANGED <<turnVars, registryVars, taskVars, guards, won, blockVars>>

-----------------------------------------------------------------------------
(* Maintenance and crashes.                                                *)

\* finalize_stale_turns: the turn is older than the limit.
SweepStaleTurn ==
  /\ status = "pending"
  /\ Timely => ~\E t \in Tasks : Live(t) \/ pc[t] \in {"handler", "resolve"}
  /\ status' = "error"
  /\ UNCHANGED <<text, calls, registryVars, taskVars, guards, stopVars, blockVars>>

ExpireCall(c) ==
  /\ IsAwaiting(calls, c)
  /\ calls' = ExpireToolCalls(calls, {c})
  /\ UNCHANGED <<status, text, registryVars, taskVars, guards, stopVars, blockVars>>

\* Everything in memory is lost.
Crash ==
  /\ Faults
  /\ registry' = Nobody
  /\ phase' = [t \in Tasks |-> IF phase[t] = "none" THEN "none" ELSE "Finished"]
  /\ pc' = [t \in Tasks |-> IF pc[t] = "idle" THEN "idle" ELSE "ended"]
  /\ work' = [t \in Tasks |-> NoWork]
  /\ guards' = {}
  /\ stopPc' = [s \in Stops |-> IF stopPc[s] \in {"read", "wait", "refuse"}
                                  THEN "lost" ELSE stopPc[s]]
  /\ UNCHANGED <<turnVars, mode, gone, call, waits, seen, won, blockVars>>

-----------------------------------------------------------------------------
RunLoop(t) ==
  \/ t = Original /\ Classify
  \/ NextRound(t)
  \/ ReceiveBlock(t)
  \/ Interrupt(t)
  \/ LoseRound(t)
  \/ ProviderFails(t)
  \/ Answer(t)
  \/ RequestTools(t)
  \/ UseTools(t)
  \/ \E c \in Calls : Park(t, c)
  \/ AwaitDecision(t)

EndTask(t) ==
  \/ Finalize(t)
  \/ FinalizeFails(t)
  \/ Close(t)
  \/ CloseArmed(t)

SubmitApproval(a) ==
  \/ \E c \in Calls : LoadDecision(a, c)
  \/ Decide(a)
  \/ ResolveFails(a)
  \/ SpawnResumed(a)
  \/ ReadOutput(a)
  \/ ReadPrior(a)
  \/ ResumeCall(a)
  \/ ResumeLoop(a)

StopMessage(s) ==
  \/ StopRead(s)
  \/ StopSignal(s)
  \/ StopWaited(s)
  \/ StopTimesOut(s)
  \/ \E c \in Calls : StopRefuses(s, c)
  \/ StopFinalizes(s)

Next ==
  \/ Spawn \/ SpawnFails
  \/ \E t \in Tasks : Open(t) \/ Disconnect(t) \/ RunLoop(t) \/ EndTask(t) \/ GuardFinalizes(t)
  \/ \E a \in Approvals : SubmitApproval(a)
  \/ \E s \in Stops : StopMessage(s) \/ StopDropped(s)
  \/ SweepStaleTurn
  \/ \E c \in Calls : ExpireCall(c)
  \/ Crash

Spec == Init /\ [][Next]_vars

(* Turn tasks may block for as long as they like: on a provider, a tool, or *)
(* a consumer that does not read.  Only a stop handler that nothing drops   *)
(* is obliged to go on.                                                     *)
FairSpec ==
  /\ Spec
  /\ \A s \in Stops : WF_vars(StopMessage(s) /\ stopPc[s] # "idle")
-----------------------------------------------------------------------------
(* Properties.                                                             *)

\* No two tasks ever work on one message: racing decisions resume it once, and
\* a resumed turn that parks again has ended before it is resumed again.
OneTaskPerTurn ==
  \A t, u \in Tasks : Live(t) /\ Live(u) => t = u

\* spawn_streamed: "a stop addressed to the turn id always finds it once the id
\* has been streamed", for resumed turns too.
StopFindsTurn ==
  \A t \in Tasks : Live(t) /\ IsStreamed(t) => registry = t

\* A stop that refused a pending call of a parked turn has stopped it for good:
\* no decision that was under way resumes it.
StoppedParkedTurnStays ==
  [][~Faults /\ (\E s \in won : stopPc[s] = "done") => status' = status]_<<status>>

\* A stop that was answered is the last word on a message that no decision was
\* ever made on, whether it met a running, a parking or a finished turn; only
\* the guard of a task that died unsettled, or the last write of a task that
\* outlived the stop's patience, may come after it.
StopIsFinal ==
  [][/\ \E s \in Stops : stopPc[s] = "done"
     /\ \A a \in Approvals : pc[a] = "idle"
     /\ ~Faults
     => status' = status]_<<status>>

\* The block that a consumer saw before it left and that may be lost with it:
\* the last one, whose round was complete when its usage could not be sent.
LostWithConsumer == IF Original \in gone THEN {produced} ELSE {}

\* A turn that was stopped before it ever parked keeps every block its consumer
\* saw, the text around earlier tool rounds included, as long as that consumer
\* stays; one that leaves costs at most the last block (LoseRound).  Only a task
\* that dies loses what it had not persisted.
StreamedTextKept ==
  /\ ~Faults
  /\ status = "stopped"
  /\ \A c \in Calls : calls[c].status = "absent"
  /\ ~\E t \in Tasks : Live(t)
  => streamed \ LostWithConsumer \subseteq text

\* stop_message: "a later approval cannot resume a stopped turn".
LateApprovalRejected ==
  [][status = "stopped" /\ (\E s \in Stops : stopPc[s] = "done") =>
       \A c \in Calls : IsAwaiting(calls, c) => calls'[c].status # "approved"]_<<calls>>

\* stop_message: "`None` means the turn is not running in this process (finished
\* or abandoned)": no stop goes past its signal without a task to wait for while
\* a streamed task works on the turn.
StopMissesNoTask ==
  [][\A s \in Stops : stopPc[s] = "read" /\ stopPc'[s] = "refuse" =>
       ~\E t \in Tasks : Live(t) /\ IsStreamed(t)]_<<stopPc>>

\* A stop request is answered although the task it signals may never react,
\* unless the process or the client of the stop is gone first.
StopReturns ==
  \A s \in Stops : stopPc[s] = "read" ~> stopPc[s] \in {"done", "lost"}
=============================================================================
