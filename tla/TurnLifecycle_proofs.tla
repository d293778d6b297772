------------------------ MODULE TurnLifecycle_proofs ------------------------
(***************************************************************************)
(* Proofs about TurnLifecycle, for every set of calls, approvals and stop  *)
(* requests and every environment.                                         *)
(***************************************************************************)
EXTENDS TurnLifecycle, TLAPS

-----------------------------------------------------------------------------
(* Type correctness.  A request that has started is about a call that has  *)
(* its row.                                                                *)

CallChosen ==
  \A a \in Approvals : pc[a] # "idle" => call[a] \in Calls /\ calls[call[a]].status # "absent"

TypeInv == TypeOK /\ CallChosen

\* The store methods return well-formed tables.
LEMMA TablesWellFormed ==
  ASSUME NEW t \in Table, NEW c \in Calls, NEW a \in Approvals, NEW s \in RowStatus, NEW L
  PROVE  /\ RecordToolCall(t, c, s) \in Table /\ MarkApproved(t, c, a) \in Table
         /\ MarkDenied(t, c) \in Table /\ CompleteToolCall(t, c, s, a) \in Table
         /\ ExpireToolCalls(t, L) \in Table
<1> USE DEF Table, Row, RowStatus
<1>1. RecordToolCall(t, c, s) \in Table
  BY DEF RecordToolCall
<1>2. MarkApproved(t, c, a) \in Table
  BY DEF MarkApproved
<1>3. MarkDenied(t, c) \in Table
  BY DEF MarkDenied
<1>4. CompleteToolCall(t, c, s, a) \in Table
  BY DEF CompleteToolCall, Bind
<1>5. ExpireToolCalls(t, L) \in Table
  BY DEF ExpireToolCalls
<1> QED BY <1>1, <1>2, <1>3, <1>4, <1>5

\* No method removes a row.
LEMMA RowsStay ==
  ASSUME NEW t \in Table, NEW c \in Calls, NEW a \in Approvals, NEW s \in RowStatus, NEW L,
         NEW d \in Calls, t[d].status # "absent"
  PROVE  /\ RecordToolCall(t, c, s)[d].status # "absent"
         /\ MarkApproved(t, c, a)[d].status # "absent"
         /\ MarkDenied(t, c)[d].status # "absent"
         /\ CompleteToolCall(t, c, s, a)[d].status # "absent"
         /\ ExpireToolCalls(t, L)[d].status # "absent"
<1> USE DEF Table, Row, RowStatus
<1>1. RecordToolCall(t, c, s)[d].status # "absent"
  BY DEF RecordToolCall
<1>2. MarkApproved(t, c, a)[d].status # "absent"
  BY DEF MarkApproved
<1>3. MarkDenied(t, c)[d].status # "absent"
  BY DEF MarkDenied
<1>4. CompleteToolCall(t, c, s, a)[d].status # "absent"
  BY DEF CompleteToolCall
<1>5. ExpireToolCalls(t, L)[d].status # "absent"
  BY DEF ExpireToolCalls
<1> QED BY <1>1, <1>2, <1>3, <1>4, <1>5

\* The outcome of a task and its locals.
LEMMA OutcomeType ==
  ASSUME TypeOK, NEW t \in Tasks, NEW s \in Status, NEW x \in SUBSET Blocks, Finish(t, s, x)
  PROVE  work' \in [Tasks -> Work] /\ pc' \in [Tasks -> PC]
BY DEF TypeOK, Finish, Goto, Work, NoWork, PC, Running, Status, Unsettled

LEMMA EndType ==
  ASSUME TypeOK, NEW t \in Tasks, End(t)
  PROVE  work' \in [Tasks -> Work] /\ pc' \in [Tasks -> PC]
BY DEF TypeOK, End, Goto, Work, NoWork, PC, Status, Unsettled

LEMMA GotoType ==
  ASSUME TypeOK, NEW t \in Tasks, NEW s \in PC, Goto(t, s)
  PROVE  pc' \in [Tasks -> PC]
BY DEF TypeOK, Goto

LEMMA SlotType ==
  ASSUME TypeOK, NEW t \in Tasks, Register(t) \/ DropSlot(t)
  PROVE  /\ registry' \in Tasks \cup {Nobody}
         /\ phase' \in [Tasks -> {"none", "Running", "Stopping", "Finished"}]
BY DEF TypeOK, Register, DropSlot, registryVars

LEMMA BlocksType ==
  ASSUME TypeOK, NEW t \in Tasks, Produce(t)
  PROVE  /\ produced' \in 0 .. MaxBlocks /\ streamed' \subseteq Blocks /\ world' = world
         /\ produced + 1 \in Blocks
<1>1. world.blocks \in Nat
  BY TasksAssumption DEF TypeOK
<1> QED BY <1>1 DEF TypeOK, Produce, MaxBlocks, Blocks

LEMMA TypeInit == Init => TypeInv
<1> SUFFICES ASSUME Init PROVE TypeInv
  OBVIOUS
<1>1. calls \in Table
  BY DEF Init, EmptyTable, Table, Row
<1>2. world.blocks \in Nat
  BY TasksAssumption DEF Init
<1>3. work \in [Tasks -> Work]
  BY DEF Init, Work, NoWork, Status, Unsettled
<1>4. mode \in [Tasks -> {"streamed", "buffered"}]
  BY TasksAssumption DEF Init
<1>5. CallChosen
  BY TasksAssumption DEF Init, CallChosen, Tasks
<1> QED BY <1>1, <1>2, <1>3, <1>4, <1>5 DEF Init, TypeInv, TypeOK, Status, Unsettled, PC, MaxBlocks

\* The frames that most steps share.
LEMMA SameWorld == world' = world => Blocks' = Blocks /\ Work' = Work /\ MaxBlocks' = MaxBlocks
BY DEF Blocks, MaxBlocks, Work

LEMMA OutcomeKeepsType ==
  ASSUME TypeOK, NEW t \in Tasks, NEW s \in Status, NEW x \in SUBSET Blocks, Finish(t, s, x),
         calls' \in Table, UNCHANGED <<status, text, taskFrame>>
  PROVE  TypeOK'
BY OutcomeType, SameWorld
   DEF TypeOK, turnVars, taskFrame, registryVars, stopVars, blockVars

LEMMA StepKeepsType ==
  ASSUME TypeOK, NEW t \in Tasks, NEW s \in PC, Goto(t, s),
         calls' \in Table, work' \in [Tasks -> Work], UNCHANGED <<status, text, taskFrame>>
  PROVE  TypeOK'
BY GotoType, SameWorld
   DEF TypeOK, turnVars, taskFrame, registryVars, stopVars, blockVars

LEMMA RunLoopType ==
  ASSUME TypeOK, NEW t \in Tasks, RunLoop(t)
  PROVE  TypeOK'
<1>0. "complete" \in Status /\ "stopped" \in Status /\ "error" \in Status
      /\ "awaiting_approval" \in Status
  BY DEF Status, Unsettled
<1>1. work[t] \in Work /\ work[t].content \in SUBSET Blocks /\ work[t].round \in SUBSET Blocks
  BY DEF TypeOK, Work
<1>2. calls \in Table /\ work \in [Tasks -> Work]
  BY DEF TypeOK
<1>3. {"round", "streaming", "received", "tools", "parked"} \subseteq PC
  BY DEF PC, Running
<1>4. ASSUME t = Original, Classify PROVE TypeOK'
  <2>1. CASE Goto(Original, "round") /\ UNCHANGED <<work, blockVars>>
    BY <1>2, <1>3, <1>4, <2>1, StepKeepsType DEF Classify, turnVars, registryVars, taskFrame
  <2>2. CASE /\ Produce(Original)
             /\ Finish(Original, IF ConsumerGone(Original) THEN "stopped" ELSE "complete",
                       {produced + 1})
    <3>1. {produced + 1} \in SUBSET Blocks
      BY <1>4, <2>2, BlocksType
    <3>2. work' \in [Tasks -> Work] /\ pc' \in [Tasks -> PC]
      BY <1>0, <1>4, <2>2, <3>1, OutcomeType
    <3> QED
      BY <1>4, <2>2, <3>2, BlocksType, SameWorld
         DEF Classify, TypeOK, turnVars, registryVars, stopVars
  <2> QED BY <1>4, <2>1, <2>2 DEF Classify
<1>5. CASE NextRound(t)
  <2>1. CASE Goto(t, "streaming") /\ work' = [work EXCEPT ![t].round = {}]
    <3>1. work' \in [Tasks -> Work]
      BY <1>2, <2>1 DEF Work
    <3> QED BY <1>2, <1>3, <1>5, <2>1, <3>1, StepKeepsType DEF NextRound, turnVars
  <2>2. CASE ~(Goto(t, "streaming") /\ work' = [work EXCEPT ![t].round = {}])
    <3>1. Finish(t, "stopped", work[t].content) \/ Finish(t, "error", {})
      BY <1>5, <2>2 DEF NextRound
    <3> QED BY <1>0, <1>1, <1>2, <1>5, <3>1, OutcomeKeepsType DEF NextRound, turnVars
  <2> QED BY <2>1, <2>2
<1>6. CASE ReceiveBlock(t)
  <2>1. produced + 1 \in Blocks
    BY <1>6, BlocksType DEF ReceiveBlock
  <2>2. work' \in [Tasks -> Work]
    BY <1>2, <1>6, <2>1 DEF ReceiveBlock, Work
  <2>3. pc' \in [Tasks -> PC]
    BY <1>3, <1>6, GotoType DEF ReceiveBlock
  <2> QED
    BY <1>6, <2>2, <2>3, BlocksType, SameWorld
       DEF ReceiveBlock, TypeOK, turnVars, registryVars, stopVars
<1>7. CASE Interrupt(t) \/ LoseRound(t) \/ ProviderFails(t) \/ Answer(t) \/ AwaitDecision(t)
  <2>1. work[t].content \ work[t].round \in SUBSET Blocks
    BY <1>1
  <2> QED
    BY <1>0, <1>1, <1>2, <1>7, <2>1, OutcomeKeepsType
     DEF Interrupt, LoseRound, ProviderFails, Answer, AwaitDecision, turnVars
<1>8. CASE RequestTools(t) \/ UseTools(t)
  BY <1>2, <1>3, <1>8, StepKeepsType DEF RequestTools, UseTools, turnVars
<1>9. ASSUME NEW c \in Calls, Park(t, c) PROVE TypeOK'
  <2>1. calls' \in Table
    BY <1>2, <1>9 DEF Park, RecordToolCall, Table, Row, RowStatus
  <2> QED BY <1>2, <1>3, <1>9, <2>1, StepKeepsType DEF Park
<1> QED BY <1>4, <1>5, <1>6, <1>7, <1>8, <1>9 DEF RunLoop

LEMMA EndTaskType ==
  ASSUME TypeOK, NEW t \in Tasks, EndTask(t)
  PROVE  TypeOK'
<1> USE DEF TypeOK, turnVars, registryVars, stopVars, blockVars, taskFrame
<1>1. {"ended", "closing", "failing"} \subseteq PC
  BY DEF PC, Running
<1>2. work[t].status \in Status /\ work[t].text \subseteq Blocks
  BY DEF Work
<1>3. CASE Finalize(t) \/ FinalizeFails(t)
  <2>1. work' \in [Tasks -> Work]
    BY <1>3 DEF Finalize, FinalizeFails, Work, NoWork, Status, Unsettled
  <2>2. pc' \in [Tasks -> PC]
    BY <1>1, <1>3, GotoType DEF Finalize, FinalizeFails
  <2> QED BY <1>2, <1>3, <2>1, <2>2, SameWorld DEF Finalize, FinalizeFails
<1>4. CASE Close(t)
  <2>1. pc' \in [Tasks -> PC]
    BY <1>1, <1>4, GotoType DEF Close
  <2> QED BY <1>4, <2>1, SlotType, SameWorld DEF Close
<1>5. CASE CloseArmed(t)
  <2>1. work' \in [Tasks -> Work] /\ pc' \in [Tasks -> PC]
    BY <1>5, EndType DEF CloseArmed
  <2> QED BY <1>5, <2>1, SlotType, SameWorld DEF CloseArmed
<1> QED BY <1>3, <1>4, <1>5 DEF EndTask

LEMMA SubmitApprovalType ==
  ASSUME TypeInv, NEW a \in Approvals, SubmitApproval(a)
  PROVE  TypeOK'
<1> USE DEF TypeInv
<1>0. a \in Tasks
  BY DEF Tasks
<1>1. {"allow", "deny", "resolve", "ended", "reading", "opening", "resume", "prior", "executed",
       "round"} \subseteq PC
  BY DEF PC, Running
<1>2. "stopped" \in Status /\ "error" \in Status
  BY DEF Status, Unsettled
<1>3. work[a] \in Work /\ work[a].content \in SUBSET Blocks
  BY <1>0 DEF TypeOK, Work
<1>4. calls \in Table /\ work \in [Tasks -> Work]
  BY DEF TypeOK
<1>5. ASSUME NEW c \in Calls, LoadDecision(a, c) PROVE TypeOK'
  <2>1. pc' \in [Tasks -> PC]
    BY <1>0, <1>1, <1>5, GotoType DEF LoadDecision
  <2> QED
    BY <1>0, <1>5, <2>1, SameWorld
       DEF LoadDecision, TypeOK, turnVars, registryVars, stopVars, blockVars
<1>6. CASE Decide(a)
  <2>1. call[a] \in Calls
    BY <1>6 DEF Decide, CallChosen
  <2>2. calls' \in Table
    BY <1>4, <1>6, <2>1, TablesWellFormed DEF Decide, RowStatus
  <2> QED BY <1>0, <1>1, <1>4, <1>6, <2>2, StepKeepsType DEF Decide
<1>7. CASE ResolveFails(a)
  BY <1>0, <1>1, <1>4, <1>7, StepKeepsType DEF ResolveFails, turnVars
<1>8. CASE SpawnResumed(a) \/ ReadOutput(a)
  <2>1. pc' \in [Tasks -> PC]
    BY <1>0, <1>1, <1>8, GotoType DEF SpawnResumed, ReadOutput
  <2>2. /\ registry' \in Tasks \cup {Nobody}
        /\ phase' \in [Tasks -> {"none", "Running", "Stopping", "Finished"}]
    BY <1>0, <1>8, SlotType DEF SpawnResumed, ReadOutput, TypeOK, registryVars
  <2>3. UNCHANGED <<turnVars, mode, gone, call, work, guards, stopVars, blockVars>>
    BY <1>8 DEF SpawnResumed, ReadOutput
  <2> QED BY <2>1, <2>2, <2>3, SameWorld DEF TypeOK, turnVars, stopVars, blockVars
<1>9. CASE ReadPrior(a)
  <2>1. work' \in [Tasks -> Work]
    BY <1>0, <1>4, <1>9 DEF ReadPrior, TypeOK, Work
  <2> QED BY <1>0, <1>1, <1>4, <1>9, <2>1, StepKeepsType DEF ReadPrior, turnVars
<1>10. CASE ResumeCall(a)
  <2>1. CASE Finish(a, "stopped", work[a].content) /\ calls' = calls
    BY <1>0, <1>2, <1>3, <1>4, <1>10, <2>1, OutcomeKeepsType DEF ResumeCall
  <2>2. CASE Goto(a, "executed") /\ work' = work
    <3>1. call[a] \in Calls
      BY <1>10 DEF ResumeCall, CallChosen
    <3>2. calls' \in Table
      BY <1>4, <1>10, <2>2, <3>1, TablesWellFormed DEF ResumeCall, RowStatus
    <3> QED BY <1>0, <1>1, <1>4, <1>10, <2>2, <3>2, StepKeepsType DEF ResumeCall
  <2> QED BY <1>10, <2>1, <2>2 DEF ResumeCall
<1>11. CASE ResumeLoop(a)
  <2>1. CASE Goto(a, "round") /\ work' = [work EXCEPT ![a].content = {}]
    <3>1. work' \in [Tasks -> Work]
      BY <1>4, <2>1 DEF Work
    <3> QED BY <1>0, <1>1, <1>4, <1>11, <2>1, <3>1, StepKeepsType DEF ResumeLoop, turnVars
  <2>2. CASE ~(Goto(a, "round") /\ work' = [work EXCEPT ![a].content = {}])
    <3>1. Finish(a, "stopped", work[a].content) \/ Finish(a, "error", {})
      BY <1>11, <2>2 DEF ResumeLoop
    <3> QED
      BY <1>0, <1>2, <1>3, <1>4, <1>11, <3>1, OutcomeKeepsType DEF ResumeLoop, turnVars
  <2> QED BY <2>1, <2>2
<1> QED
  BY <1>5, <1>6, <1>7, <1>8, <1>9, <1>10, <1>11 DEF SubmitApproval

LEMMA StopMessageType ==
  ASSUME TypeOK, NEW s \in Stops, StopMessage(s) \/ StopDropped(s)
  PROVE  TypeOK'
<1> USE DEF TypeOK, turnVars, registryVars, taskVars, stopVars, blockVars
<1>1. CASE StopRead(s)
  BY <1>1, SameWorld DEF StopRead
<1>2. CASE StopSignal(s)
  BY <1>2, SameWorld DEF StopSignal
<1>3. CASE StopWaited(s) \/ StopTimesOut(s)
  BY <1>3, SameWorld DEF StopWaited, StopTimesOut
<1>4. ASSUME NEW c \in Calls, StopRefuses(s, c) PROVE TypeOK'
  <2>1. calls' \in Table
    BY <1>4 DEF StopRefuses, MarkDenied, Table, Row, RowStatus
  <2> QED BY <1>4, <2>1, SameWorld DEF StopRefuses
<1>5. CASE StopFinalizes(s)
  BY <1>5, SameWorld DEF StopFinalizes, Status
<1>6. CASE StopDropped(s)
  BY <1>6, SameWorld DEF StopDropped
<1> QED BY <1>1, <1>2, <1>3, <1>4, <1>5, <1>6 DEF StopMessage

\* Every step keeps the types.
LEMMA TypeStep ==
  ASSUME TypeInv, [Next]_vars
  PROVE  TypeOK'
<1> USE DEF TypeInv
<1>1. CASE UNCHANGED vars
  BY <1>1, SameWorld
     DEF TypeOK, vars, turnVars, registryVars, taskVars, stopVars, blockVars
<1>2. CASE Spawn \/ SpawnFails
  <2>1. Original \in Tasks /\ {"opening", "start", "ended"} \subseteq PC
    BY DEF Tasks, PC, Running
  <2>2. pc' \in [Tasks -> PC]
    BY <1>2, <2>1, GotoType DEF Spawn, SpawnFails
  <2>3. /\ registry' \in Tasks \cup {Nobody}
        /\ phase' \in [Tasks -> {"none", "Running", "Stopping", "Finished"}]
    BY <1>2, <2>1, SlotType DEF Spawn, SpawnFails, TypeOK, registryVars, taskFrame
  <2>4. UNCHANGED <<turnVars, mode, gone, call, work, guards, stopVars, blockVars>>
    BY <1>2 DEF Spawn, SpawnFails, taskFrame
  <2> QED BY <2>2, <2>3, <2>4, SameWorld DEF TypeOK, turnVars, stopVars, blockVars
<1>3. ASSUME NEW t \in Tasks, Open(t) PROVE TypeOK'
  <2>1. "stopped" \in Status /\ {} \in SUBSET Blocks
    BY DEF Status
  <2>2. "start" \in PC /\ "resume" \in PC
    BY DEF PC, Running
  <2>3. calls \in Table /\ work \in [Tasks -> Work]
    BY DEF TypeOK
  <2>4. CASE Finish(t, "stopped", {})
    BY <1>3, <2>1, <2>3, <2>4, OutcomeKeepsType DEF Open, turnVars
  <2>5. CASE Goto(t, IF t = Original THEN "start" ELSE "resume") /\ work' = work
    BY <1>3, <2>2, <2>3, <2>5, StepKeepsType DEF Open, turnVars
  <2> QED BY <1>3, <2>4, <2>5 DEF Open
<1>4. ASSUME NEW t \in Tasks, Disconnect(t) PROVE TypeOK'
  <2>1. work' \in [Tasks -> Work] /\ pc' \in [Tasks -> PC]
    BY <1>4, EndType DEF Disconnect, TypeOK
  <2> QED
    BY <1>4, <2>1, SameWorld DEF Disconnect, TypeOK, turnVars, registryVars, stopVars, blockVars
<1>5. ASSUME NEW t \in Tasks, GuardFinalizes(t) PROVE TypeOK'
  BY <1>5, SameWorld
     DEF GuardFinalizes, TypeOK, Status, registryVars, taskVars, stopVars, blockVars
<1>6. CASE SweepStaleTurn
  BY <1>6, SameWorld
     DEF SweepStaleTurn, TypeOK, Status, registryVars, taskVars, stopVars, blockVars
<1>7. ASSUME NEW c \in Calls, ExpireCall(c) PROVE TypeOK'
  <2>1. calls' \in Table
    BY <1>7 DEF ExpireCall, ExpireToolCalls, TypeOK, Table, Row, RowStatus
  <2> QED
    BY <1>7, <2>1, SameWorld
       DEF ExpireCall, TypeOK, registryVars, taskVars, stopVars, blockVars
<1>8. CASE Crash
  <2>1. work' \in [Tasks -> Work]
    BY <1>8 DEF Crash, Work, NoWork, Status, Unsettled
  <2>2. pc' \in [Tasks -> PC]
    BY <1>8 DEF Crash, PC
  <2>3. /\ phase' \in [Tasks -> {"none", "Running", "Stopping", "Finished"}]
        /\ stopPc' \in [Stops -> {"idle", "read", "wait", "refuse", "done", "lost"}]
    BY <1>8 DEF Crash, TypeOK
  <2> QED
    BY <1>8, <2>1, <2>2, <2>3, SameWorld DEF Crash, TypeOK, turnVars, blockVars
<1> QED
  BY <1>1, <1>2, <1>3, <1>4, <1>5, <1>6, <1>7, <1>8,
     RunLoopType, EndTaskType, SubmitApprovalType, StopMessageType
     DEF Next

\* What the methods do to a row that they find: none removes it, and only
\* record_tool_call makes one that awaits a decision.
LEMMA MethodsKeepRows ==
  ASSUME NEW t \in Table, NEW c \in Calls, NEW a \in Approvals,
         NEW s \in RowStatus \ {"awaiting_approval"}, NEW L, NEW d \in Calls,
         NEW u \in {MarkApproved(t, c, a), MarkDenied(t, c), CompleteToolCall(t, c, s, a)}
  PROVE  /\ t[d].status # "absent" => u[d].status # "absent"
         /\ IsAwaiting(u, d) => IsAwaiting(t, d)
<1>1. CASE u = MarkApproved(t, c, a)
  BY <1>1 DEF MarkApproved, IsAwaiting, Table, Row
<1>2. CASE u = MarkDenied(t, c)
  BY <1>2 DEF MarkDenied, IsAwaiting, Table, Row
<1>3. CASE u = CompleteToolCall(t, c, s, a)
  BY <1>3 DEF CompleteToolCall, IsAwaiting, Table, Row, RowStatus
<1> QED BY <1>1, <1>2, <1>3

\* A row stays, and awaits a decision only because a task just parked it.
LEMMA TableStep ==
  ASSUME TypeInv, [Next]_vars, NEW d \in Calls
  PROVE  /\ calls[d].status # "absent" => calls'[d].status # "absent"
         /\ IsAwaiting(calls', d) => IsAwaiting(calls, d) \/ \E t \in Tasks : Park(t, d)
<1> USE DEF TypeInv, turnVars
<1>0. calls \in Table
  BY DEF TypeOK
<1>1. ASSUME NEW t \in Tasks, NEW c \in Calls, Park(t, c)
      PROVE  /\ calls[d].status # "absent" => calls'[d].status # "absent"
             /\ IsAwaiting(calls', d) => IsAwaiting(calls, d) \/ Park(t, d)
  <2>1. c # d => calls'[d] = calls[d]
    BY <1>0, <1>1 DEF Park, RecordToolCall, Table
  <2>2. c = d => calls[d].status = "absent"
    BY <1>1 DEF Park
  <2> QED BY <1>1, <2>1, <2>2 DEF IsAwaiting
<1>2. ASSUME NEW t \in Tasks, RunLoop(t) \/ EndTask(t) \/ Open(t) \/ Disconnect(t)
             \/ GuardFinalizes(t)
      PROVE  calls' = calls \/ \E c \in Calls : Park(t, c)
  BY <1>2
     DEF RunLoop, EndTask, Open, Disconnect, GuardFinalizes, Classify, NextRound, ReceiveBlock,
         Interrupt, LoseRound, ProviderFails, Answer, RequestTools, UseTools, AwaitDecision, Finalize,
         FinalizeFails, Close, CloseArmed
<1>3. ASSUME NEW a \in Approvals, SubmitApproval(a), calls' # calls
      PROVE  \E s \in RowStatus \ {"awaiting_approval"} :
               /\ call[a] \in Calls
               /\ calls' \in {MarkApproved(calls, call[a], a), MarkDenied(calls, call[a]),
                              CompleteToolCall(calls, call[a], s, a)}
  <2>1. Decide(a) \/ ResumeCall(a)
    BY <1>3 DEF SubmitApproval, LoadDecision, ResolveFails, SpawnResumed, ReadOutput, ReadPrior,
                ResumeLoop
  <2>2. call[a] \in Calls
    BY <2>1 DEF Decide, ResumeCall, CallChosen
  <2>3. {"succeeded", "failed", "denied"} \subseteq RowStatus \ {"awaiting_approval"}
    BY DEF RowStatus
  <2> QED BY <1>3, <2>1, <2>2, <2>3 DEF Decide, ResumeCall
<1>4. ASSUME NEW s \in Stops, StopMessage(s) \/ StopDropped(s)
      PROVE  calls' = calls \/ \E c \in Calls : calls' = MarkDenied(calls, c)
  BY <1>4 DEF StopDropped, StopMessage, StopRead, StopSignal, StopWaited, StopTimesOut, StopRefuses,
              StopFinalizes
<1>5. ASSUME NEW c \in Calls, calls' = MarkDenied(calls, c) \/ ExpireCall(c)
      PROVE  /\ calls[d].status # "absent" => calls'[d].status # "absent"
             /\ IsAwaiting(calls', d) => IsAwaiting(calls, d)
  BY <1>0, <1>5
     DEF ExpireCall, ExpireToolCalls, MarkDenied, IsAwaiting, Table, Row, RowStatus
<1>6. CASE Spawn \/ SpawnFails \/ SweepStaleTurn \/ Crash \/ UNCHANGED vars
  BY <1>6 DEF Spawn, SpawnFails, SweepStaleTurn, Crash, vars
<1>7. ASSUME NEW a \in Approvals, SubmitApproval(a), calls' # calls
      PROVE  /\ calls[d].status # "absent" => calls'[d].status # "absent"
             /\ IsAwaiting(calls', d) => IsAwaiting(calls, d)
  BY <1>0, <1>3, <1>7, MethodsKeepRows
<1> QED
  BY <1>1, <1>2, <1>4, <1>5, <1>6, <1>7 DEF Next

-----------------------------------------------------------------------------
(* The flow of control of a task.                                          *)

\* Where a running task goes on to, apart from parking a call and from ending.
Onward ==
  {<<"opening", "start">>, <<"opening", "resume">>, <<"opening", "finish">>,
   <<"start", "round">>, <<"start", "finish">>, <<"round", "streaming">>, <<"round", "finish">>,
   <<"streaming", "received">>, <<"streaming", "tools">>, <<"streaming", "finish">>,
   <<"received", "tools">>, <<"received", "finish">>, <<"tools", "round">>,
   <<"tools", "finish">>, <<"parked", "finish">>, <<"finish", "closing">>,
   <<"reading", "opening">>, <<"reading", "resume">>,
   <<"resume", "prior">>, <<"prior", "finish">>, <<"prior", "executed">>,
   <<"executed", "finish">>, <<"executed", "round">>}

\* A task stays where it is, ends, goes on, fails to persist its outcome, or takes
\* one of the five steps that matter to the others.
Flows(t) ==
  \/ pc'[t] = pc[t] /\ call'[t] = call[t]
  \/ pc[t] # "idle" /\ pc'[t] = "ended" /\ call'[t] = call[t]
  \/ <<pc[t], pc'[t]>> \in Onward /\ call'[t] = call[t]
  \/ FinalizeFails(t) /\ pc'[t] \in {"failing", "ended"} /\ call'[t] = call[t]
  \/ \E c \in Calls : Park(t, c)
  \/ t = Original /\ Spawn
  \/ t \in Approvals /\ (\/ Decide(t) \/ SpawnResumed(t)
                         \/ \E c \in Calls : LoadDecision(t, c))

\* A step of one task moves no other.
LEMMA MovesOne ==
  ASSUME TypeInv, NEW t \in Tasks, NEW u \in Tasks,
         \/ RunLoop(t) \/ EndTask(t) \/ Open(t) \/ Disconnect(t) \/ GuardFinalizes(t)
         \/ t = Original /\ (Spawn \/ SpawnFails)
         \/ t \in Approvals /\ SubmitApproval(t)
  PROVE  Flows(u) /\ (u # t => pc'[u] = pc[u] /\ call'[u] = call[u])
<1> USE DEF TypeInv, TypeOK, Goto, Flows
<1>1. ASSUME NEW s, (pc[t] # "idle" /\ s = "ended") \/ <<pc[t], s>> \in Onward,
             Goto(t, s) \/ (s = "finish" /\ \E x, y : Finish(t, x, y)) \/ (s = "ended" /\ End(t)),
             call' = call
      PROVE  Flows(u) /\ (u # t => pc'[u] = pc[u] /\ call'[u] = call[u])
  BY <1>1 DEF Finish, End
<1>2. CASE RunLoop(t)
  <2> USE DEF taskFrame, Onward
  <2>1. CASE t = Original /\ Classify
    BY <1>1, <2>1 DEF Classify
  <2>2. CASE NextRound(t)
    BY <1>1, <2>2 DEF NextRound
  <2>3. CASE ReceiveBlock(t)
    BY <1>1, <2>3 DEF ReceiveBlock
  <2>4. CASE Interrupt(t) \/ LoseRound(t)
    BY <1>1, <2>4 DEF Interrupt, LoseRound
  <2>5. CASE ProviderFails(t) \/ Answer(t)
    BY <1>1, <2>5 DEF ProviderFails, Answer
  <2>6. CASE RequestTools(t) \/ UseTools(t)
    BY <1>1, <2>6 DEF RequestTools, UseTools
  <2>7. ASSUME NEW c \in Calls, Park(t, c)
        PROVE  Flows(u) /\ (u # t => pc'[u] = pc[u] /\ call'[u] = call[u])
    BY <2>7 DEF Park
  <2>8. CASE AwaitDecision(t)
    BY <1>1, <2>8 DEF AwaitDecision
  <2> QED BY <1>2, <2>1, <2>2, <2>3, <2>4, <2>5, <2>6, <2>7, <2>8 DEF RunLoop
<1>3. CASE EndTask(t)
  <2> USE DEF taskFrame, Onward
  <2>1. CASE Finalize(t)
    BY <1>1, <2>1 DEF Finalize
  <2>3. CASE FinalizeFails(t)
    BY <2>3 DEF FinalizeFails
  <2>2. CASE Close(t) \/ CloseArmed(t)
    BY <1>1, <2>2 DEF Close, CloseArmed, Running
  <2> QED BY <1>3, <2>1, <2>2, <2>3 DEF EndTask
<1>4. CASE Open(t) \/ Disconnect(t)
  BY <1>1, <1>4 DEF Open, Disconnect, Onward, taskFrame, Live, Running
<1>5. CASE GuardFinalizes(t)
  BY <1>5 DEF GuardFinalizes, taskVars
<1>6. CASE t = Original /\ (Spawn \/ SpawnFails)
  BY <1>6 DEF Spawn, SpawnFails, taskFrame
<1>7. CASE t \in Approvals /\ SubmitApproval(t)
  <2> USE DEF taskFrame, Onward
  <2>1. ASSUME NEW c \in Calls, LoadDecision(t, c)
        PROVE  Flows(u) /\ (u # t => pc'[u] = pc[u] /\ call'[u] = call[u])
    BY <1>7, <2>1 DEF LoadDecision
  <2>2. CASE Decide(t) \/ SpawnResumed(t)
    BY <1>7, <2>2 DEF Decide, SpawnResumed
  <2>3. CASE ResolveFails(t) \/ ReadOutput(t) \/ ReadPrior(t)
    BY <1>1, <2>3 DEF ResolveFails, ReadOutput, ReadPrior
  <2>4. CASE ResumeCall(t)
    BY <1>1, <2>4 DEF ResumeCall
  <2>5. CASE ResumeLoop(t)
    BY <1>1, <2>5 DEF ResumeLoop
  <2> QED BY <1>7, <2>1, <2>2, <2>3, <2>4, <2>5 DEF SubmitApproval
<1> QED BY <1>2, <1>3, <1>4, <1>5, <1>6, <1>7

LEMMA FlowStep ==
  ASSUME TypeInv, [Next]_vars, NEW t \in Tasks
  PROVE  Flows(t)
<1>1. ASSUME UNCHANGED <<pc, call>> PROVE Flows(t)
  BY <1>1 DEF Flows
<1>2. ASSUME NEW s \in Stops, StopMessage(s) \/ StopDropped(s)
      PROVE  UNCHANGED <<pc, call>>
  BY <1>2 DEF StopDropped, StopMessage, StopRead, StopSignal, StopWaited, StopTimesOut, StopRefuses,
              StopFinalizes, taskVars
<1>3. CASE SweepStaleTurn \/ UNCHANGED vars \/ \E c \in Calls : ExpireCall(c)
  BY <1>1, <1>3 DEF SweepStaleTurn, vars, ExpireCall, taskVars
<1>4. CASE Crash
  <2>1. call' = call /\ pc'[t] = IF pc[t] = "idle" THEN "idle" ELSE "ended"
    BY <1>4 DEF Crash
  <2> QED BY <2>1 DEF Flows
<1>5. Approvals \subseteq Tasks /\ Original \in Tasks
  BY DEF Tasks
<1> QED BY <1>1, <1>2, <1>3, <1>4, <1>5, MovesOne DEF Next

\* What clients asked for and the environment are fixed.
LEMMA FixedStep == [Next]_vars => mode' = mode /\ world' = world
<1> SUFFICES ASSUME [Next]_vars PROVE mode' = mode /\ world' = world
  OBVIOUS
<1> USE DEF taskFrame, taskVars, blockVars
<1>1. ASSUME NEW t \in Tasks, RunLoop(t) PROVE mode' = mode /\ world' = world
  BY <1>1 DEF RunLoop, Classify, NextRound, ReceiveBlock, Interrupt, LoseRound, ProviderFails, Answer,
              RequestTools, UseTools, Park, AwaitDecision, Produce
<1>2. ASSUME NEW t \in Tasks, EndTask(t) \/ Open(t) \/ Disconnect(t) \/ GuardFinalizes(t)
      PROVE  mode' = mode /\ world' = world
  BY <1>2 DEF EndTask, Open, Disconnect, GuardFinalizes, Finalize, FinalizeFails, Close, CloseArmed
<1>3. ASSUME NEW a \in Approvals, SubmitApproval(a) PROVE mode' = mode /\ world' = world
  BY <1>3 DEF SubmitApproval, LoadDecision, Decide, ResolveFails, SpawnResumed, ReadOutput,
              ReadPrior, ResumeCall, ResumeLoop
<1>4. ASSUME NEW s \in Stops, StopMessage(s) \/ StopDropped(s) PROVE mode' = mode /\ world' = world
  BY <1>4 DEF StopDropped, StopMessage, StopRead, StopSignal, StopWaited, StopTimesOut, StopRefuses,
              StopFinalizes
<1>5. CASE Spawn \/ SpawnFails \/ SweepStaleTurn \/ Crash \/ UNCHANGED vars
           \/ \E c \in Calls : ExpireCall(c)
  BY <1>5 DEF Spawn, SpawnFails, SweepStaleTurn, Crash, vars, ExpireCall
<1> QED BY <1>1, <1>2, <1>3, <1>4, <1>5 DEF Next

\* Every request that has started keeps its call.
LEMMA ChosenStep ==
  ASSUME TypeInv, [Next]_vars
  PROVE  CallChosen'
<1> SUFFICES ASSUME NEW a \in Approvals, pc'[a] # "idle"
             PROVE  call'[a] \in Calls /\ calls'[call'[a]].status # "absent"
  BY DEF CallChosen
<1>0. a \in Tasks /\ a # Original
  BY TasksAssumption DEF Tasks
<1>1. ASSUME NEW c \in Calls, LoadDecision(a, c)
      PROVE  call'[a] \in Calls /\ calls'[call'[a]].status # "absent"
  <2>1. call'[a] = c /\ calls' = calls /\ IsAwaiting(calls, c)
    BY <1>0, <1>1 DEF LoadDecision, turnVars, TypeInv, TypeOK
  <2> QED BY <2>1 DEF IsAwaiting
<1>2. ASSUME ~\E c \in Calls : LoadDecision(a, c)
      PROVE  pc[a] # "idle" /\ call'[a] = call[a]
  BY <1>0, <1>2, FlowStep
     DEF Flows, Onward, FinalizeFails, Park, Decide, SpawnResumed, taskFrame
<1>3. CASE ~\E c \in Calls : LoadDecision(a, c)
  BY <1>2, <1>3, TableStep DEF TypeInv, CallChosen
<1> QED BY <1>1, <1>3

\* What the code counts on: the types, and that a request has chosen its call.
LEMMA TypeInvariant == Spec => []TypeInv
<1>1. TypeInv /\ [Next]_vars => TypeInv'
  BY TypeStep, ChosenStep DEF TypeInv
<1> QED BY TypeInit, <1>1, PTL DEF Spec

\* Every variable has its type, for every environment.
THEOREM TypeCorrect == Spec => []TypeOK
<1>1. TypeInv => TypeOK
  BY DEF TypeInv
<1> QED BY TypeInvariant, <1>1, PTL

-----------------------------------------------------------------------------
(* One task per turn.  A task holds the turn from the moment at which      *)
(* nothing can keep it from running.  While a call awaits its decision the *)
(* holder is on its way out, and a decision that may still win finds the   *)
(* turn free.                                                              *)

Holds(t) == Live(t) \/ pc[t] \in {"handler", "resolve"}
Leaving == {"parked", "finish", "closing", "failing"}

OneHolder == \A t, u \in Tasks : Holds(t) /\ Holds(u) => t = u

OneAwaiting ==
  \A c, d \in Calls : IsAwaiting(calls, c) /\ IsAwaiting(calls, d) => c = d

AwaitingMeansLeaving ==
  \A c \in Calls, t \in Tasks : IsAwaiting(calls, c) /\ Holds(t) => pc[t] \in Leaving

DecisionMeansFree ==
  \A a \in Approvals, t \in Tasks :
    pc[a] \in {"allow", "deny"} /\ IsAwaiting(calls, call[a]) => ~Holds(t)

HolderInv ==
  TypeInv /\ OneHolder /\ OneAwaiting /\ AwaitingMeansLeaving /\ DecisionMeansFree

\* A task comes to hold the turn by winning a decision, which decides the only
\* call that awaited one.
LEMMA NewHolder ==
  ASSUME HolderInv, [Next]_vars, NEW t \in Tasks, Holds(t)', ~Holds(t)
  PROVE  /\ \A c \in Calls : ~IsAwaiting(calls', c)
         /\ \A u \in Tasks : ~Holds(u)
         /\ \A u \in Tasks \ {t} : pc'[u] = pc[u]
<1> USE DEF HolderInv, TypeInv
<1>1. t \in Approvals /\ Decide(t) /\ IsAwaiting(calls, call[t])
  BY FlowStep DEF Flows, Holds, Live, Running, Onward, FinalizeFails, Park, Spawn, SpawnResumed,
                  LoadDecision,
                  Decide, Goto, TypeOK, registryVars
<1>2. pc[t] \in {"allow", "deny"} /\ call[t] \in Calls
  BY <1>1 DEF Decide, CallChosen
<1>3. \A u \in Tasks : ~Holds(u)
  BY <1>1, <1>2 DEF DecisionMeansFree
<1>4. \A u \in Tasks \ {t} : pc'[u] = pc[u]
  BY <1>1 DEF Decide, Goto, TypeOK
<1>5. \A c \in Calls : ~IsAwaiting(calls', c)
  BY <1>1, <1>2 DEF Decide, OneAwaiting, IsAwaiting, MarkApproved, MarkDenied, TypeOK, Table, Row
<1> QED BY <1>3, <1>4, <1>5

\* Parking a call is a step of the holder, and no call awaits a decision then.
LEMMA ParkByHolder ==
  ASSUME HolderInv, NEW t \in Tasks, NEW c \in Calls, Park(t, c)
  PROVE  /\ Holds(t) /\ pc'[t] = "parked"
         /\ \A u \in Tasks \ {t} : pc'[u] = pc[u] /\ ~Holds(u)
         /\ calls[c].status = "absent"
         /\ \A d \in Calls : ~IsAwaiting(calls, d)
         /\ \A d \in Calls \ {c} : ~IsAwaiting(calls', d)
<1> USE DEF HolderInv, TypeInv, TypeOK
<1>1. pc[t] = "tools" /\ Holds(t)
  BY DEF Park, Holds, Live, Running
<1>2. \A d \in Calls : ~IsAwaiting(calls, d)
  BY <1>1 DEF AwaitingMeansLeaving, Leaving
<1>3. \A d \in Calls \ {c} : ~IsAwaiting(calls', d)
  BY <1>2 DEF Park, RecordToolCall, IsAwaiting, Table
<1>4. pc'[t] = "parked" /\ \A u \in Tasks \ {t} : pc'[u] = pc[u]
  BY DEF Park, Goto
<1> QED BY <1>1, <1>2, <1>3, <1>4 DEF Park, OneHolder

LEMMA HolderStep ==
  ASSUME HolderInv, [Next]_vars, Patient
  PROVE  HolderInv'
<1> USE DEF HolderInv
<1>0. TypeInv'
  BY TypeStep, ChosenStep DEF TypeInv
<1>1. OneHolder'
  BY NewHolder DEF OneHolder, Holds, Live
<1>2. OneAwaiting'
  BY TableStep, ParkByHolder DEF OneAwaiting
<1>3. ASSUME NEW c \in Calls, NEW t \in Tasks, IsAwaiting(calls', c), Holds(t)'
      PROVE  pc'[t] \in Leaving
  <2>1. Holds(t)
    BY <1>3, NewHolder
  <2>2. ASSUME NEW u \in Tasks, Park(u, c) PROVE pc'[t] \in Leaving
    BY <2>1, <2>2, ParkByHolder DEF Leaving
  <2>3. CASE IsAwaiting(calls, c)
    <3>1. pc[t] \in Leaving
      BY <2>1, <2>3 DEF AwaitingMeansLeaving
    <3> QED
      BY <1>3, <3>1, FlowStep
         DEF Flows, Holds, Live, Running, Leaving, Onward, FinalizeFails, Park, Spawn, Decide,
             SpawnResumed, LoadDecision
  <2> QED BY <1>3, <2>2, <2>3, TableStep
<1>4. ASSUME NEW a \in Approvals, NEW t \in Tasks, pc'[a] \in {"allow", "deny"},
             IsAwaiting(calls', call'[a]), Holds(t)'
      PROVE  FALSE
  <2>0. a \in Tasks /\ a # Original
    BY TasksAssumption DEF Tasks
  <2>1. call'[a] \in Calls
    BY <1>0, <1>4 DEF TypeInv, CallChosen
  <2>2. Holds(t)
    BY <1>4, <2>1, NewHolder
  <2>3. ASSUME NEW c \in Calls, LoadDecision(a, c) PROVE FALSE
    <3>1. IsAwaiting(calls, c) /\ ~Live(t)
      BY <1>4, <2>3 DEF LoadDecision
    <3> QED BY <2>2, <3>1 DEF AwaitingMeansLeaving, Holds, Live, Leaving, Running
  <2>4. CASE pc'[a] = pc[a] /\ call'[a] = call[a]
    <3>1. IsAwaiting(calls, call[a])
      <4>1. calls[call[a]].status # "absent"
        BY <1>4, <2>4 DEF TypeInv, CallChosen
      <4> QED BY <1>4, <2>1, <2>4, <4>1, TableStep, ParkByHolder
    <3> QED BY <1>4, <2>2, <2>4, <3>1 DEF DecisionMeansFree
  <2> QED
    BY <1>4, <2>0, <2>3, <2>4, FlowStep
       DEF Flows, Onward, Park, Decide, SpawnResumed, Goto, TypeInv, TypeOK
<1>5. AwaitingMeansLeaving' /\ DecisionMeansFree'
  <2>1. AwaitingMeansLeaving'
    BY <1>3 DEF AwaitingMeansLeaving, IsAwaiting
  <2>2. DecisionMeansFree'
    BY <1>4 DEF DecisionMeansFree, IsAwaiting
  <2> QED BY <2>1, <2>2
<1> QED BY <1>0, <1>1, <1>2, <1>5

LEMMA HolderInit == Init => HolderInv
<1> SUFFICES ASSUME Init PROVE HolderInv
  OBVIOUS
<1>1. \A c \in Calls : ~IsAwaiting(calls, c)
  BY DEF Init, EmptyTable, IsAwaiting
<1>2. \A a \in Approvals : pc[a] = "idle"
  BY TasksAssumption DEF Init, Tasks
<1>3. OneHolder
  BY DEF Init, OneHolder, Holds, Live, Running
<1> QED
  BY <1>1, <1>2, <1>3, TypeInit
     DEF HolderInv, OneAwaiting, AwaitingMeansLeaving, DecisionMeansFree

LEMMA HolderInvariant == ASSUME Patient PROVE Spec => []HolderInv
<1>1. HolderInv /\ [Next]_vars => HolderInv'
  BY HolderStep
<1> QED BY HolderInit, <1>1, PTL DEF Spec

\* submit_approval resumes a turn at most once at a time, whatever decisions
\* race for its calls, provided that clients decide on a call once the task that
\* parked it is gone: OneTaskPerTurn.
THEOREM OneTask == ASSUME Patient PROVE Spec => []OneTaskPerTurn
<1>1. HolderInv => OneTaskPerTurn
  BY DEF HolderInv, OneHolder, OneTaskPerTurn, Holds
<1> QED BY HolderInvariant, <1>1, PTL

-----------------------------------------------------------------------------
(* The registry.                                                           *)

\* The entry of a message is its task's, or was removed by a task that ended.
LEMMA RegistryStep ==
  ASSUME TypeInv, [Next]_vars
  PROVE  \/ registry' = registry
         \/ /\ registry' = Nobody
            /\ \/ \A t \in Tasks : ~Live(t)'
               \/ \E t \in Tasks : Live(t) /\ pc'[t] = "ended"
         \/ \E t \in Tasks : /\ pc[t] \in {"handler", "resolve"} /\ IsStreamed(t)
                             /\ registry' = t /\ Live(t)'
<1> USE DEF TypeInv, TypeOK, registryVars
<1>1. ASSUME NEW t \in Tasks, RunLoop(t) \/ Open(t) \/ Disconnect(t) \/ GuardFinalizes(t)
      PROVE  registry' = registry
  BY <1>1 DEF RunLoop, Open, Disconnect, GuardFinalizes, Classify, NextRound, ReceiveBlock,
              Interrupt, LoseRound, ProviderFails, Answer, RequestTools, UseTools, Park, AwaitDecision,
              taskFrame
<1>2. ASSUME NEW t \in Tasks, EndTask(t), registry' # registry
      PROVE  registry' = Nobody /\ Live(t) /\ pc'[t] = "ended"
  BY <1>2 DEF EndTask, Finalize, FinalizeFails, Close, CloseArmed, DropSlot, Goto, End,
              taskFrame, Live, Running
<1>3. ASSUME NEW a \in Approvals, SubmitApproval(a), registry' # registry
      PROVE  \/ registry' = Nobody /\ Live(a) /\ pc'[a] = "ended"
             \/ pc[a] = "resolve" /\ IsStreamed(a) /\ registry' = a /\ Live(a)'
  <2>1. SpawnResumed(a) \/ ReadOutput(a)
    BY <1>3 DEF SubmitApproval, LoadDecision, Decide, ResolveFails, ReadPrior, ResumeCall,
                ResumeLoop, taskFrame
  <2>2. a \in Tasks
    BY DEF Tasks
  <2> QED
    BY <1>3, <2>1, <2>2 DEF SpawnResumed, ReadOutput, Register, DropSlot, Goto, Live, Running
<1>4. ASSUME NEW s \in Stops, StopMessage(s) \/ StopDropped(s) PROVE registry' = registry
  BY <1>4 DEF StopDropped, StopMessage, StopRead, StopSignal, StopWaited, StopTimesOut, StopRefuses,
              StopFinalizes
<1>5. CASE SpawnFails \/ SweepStaleTurn \/ UNCHANGED vars \/ \E c \in Calls : ExpireCall(c)
  BY <1>5 DEF SpawnFails, SweepStaleTurn, vars, ExpireCall, taskFrame
<1>6. CASE Spawn
  BY <1>6 DEF Spawn, Register, Tasks, Goto, Live, Running
<1>7. CASE Crash
  BY <1>7 DEF Crash, Live, Running
<1>8. Approvals \subseteq Tasks
  BY DEF Tasks
<1> QED BY <1>1, <1>2, <1>3, <1>4, <1>5, <1>6, <1>7, <1>8 DEF Next

\* A task that starts to run has registered itself.
LEMMA StartRegisters ==
  ASSUME TypeInv, [Next]_vars, NEW t \in Tasks, Live(t)', ~Live(t), IsStreamed(t)
  PROVE  registry' = t
BY FlowStep
   DEF Flows, Live, Running, Onward, FinalizeFails, Park, Spawn, SpawnResumed, Register, Decide, LoadDecision,
       Goto, TypeInv, TypeOK, registryVars

LEMMA FindsStep ==
  ASSUME HolderInv, StopFindsTurn, [Next]_vars
  PROVE  StopFindsTurn'
<1> USE DEF HolderInv
<1> SUFFICES ASSUME NEW t \in Tasks, Live(t)', IsStreamed(t)' PROVE registry' = t
  BY DEF StopFindsTurn
<1>1. IsStreamed(t)
  BY FixedStep DEF IsStreamed
<1>2. CASE ~Live(t)
  BY <1>1, <1>2, StartRegisters
<1>3. CASE Live(t)
  <2>1. registry = t
    BY <1>1, <1>3 DEF StopFindsTurn
  <2>2. ASSUME NEW u \in Tasks, Holds(u) PROVE u = t
    BY <1>3, <2>2 DEF OneHolder, Holds
  <2> QED BY <1>3, <2>1, <2>2, RegistryStep DEF Holds, Live, Running
<1> QED BY <1>2, <1>3

\* spawn_streamed: a stop always finds a turn whose task runs, resumed or not:
\* StopFindsTurn, under the same assumption on clients.
THEOREM StopAlwaysFinds == ASSUME Patient PROVE Spec => []StopFindsTurn
<1>1. Init => StopFindsTurn
  BY DEF Init, StopFindsTurn, Live, Running
<1>2. HolderInv /\ StopFindsTurn /\ [Next]_vars => StopFindsTurn'
  BY FindsStep
<1> QED BY HolderInvariant, <1>1, <1>2, PTL DEF Spec

-----------------------------------------------------------------------------
(* The text of a turn that never parked.                                   *)

NeverParked == \A c \in Calls : calls[c].status = "absent"
InLoop == {"round", "streaming", "received", "tools"}

\* Nobody has resumed the turn, nobody else finalizes it, and what its consumer
\* has seen is in the text that the task accumulates, is about to persist, or
\* has persisted, apart from what the consumer's departure costs; the text of a
\* round in progress is at most the last block.
TextAccounted ==
  /\ \A a \in Approvals : pc[a] = "idle"
  /\ guards = {}
  /\ ~IsStreamed(Original) => streamed = {}
  /\ pc[Original] \in {"handler", "opening", "start", "finish", "closing", "ended"} \cup InLoop
  /\ pc[Original] \in {"handler", "opening", "start"} => streamed = {}
  /\ pc[Original] \in InLoop => streamed \subseteq work[Original].content
  /\ pc[Original] \in {"streaming", "received"} => work[Original].round \subseteq {produced}
  /\ pc[Original] = "finish" =>
       /\ work[Original].status \in {"complete", "error", "stopped"}
       /\ work[Original].status = "stopped" =>
            streamed \ LostWithConsumer \subseteq work[Original].text
  /\ pc[Original] \in {"closing", "ended"} /\ IsStreamed(Original) =>
       /\ status \in {"complete", "error", "stopped"} \/ streamed = {}
       /\ status = "stopped" => streamed \ LostWithConsumer \subseteq text

TextInv == ~Faults /\ NeverParked => TextAccounted

\* The steps of the task of run_turn.
LEMMA OriginalKeepsText ==
  ASSUME TypeInv, TextAccounted, ~Faults, NeverParked', world' = world, mode' = mode,
         \/ Spawn \/ SpawnFails \/ Open(Original) \/ Disconnect(Original)
         \/ RunLoop(Original) \/ EndTask(Original)
  PROVE  TextAccounted'
<1> USE DEF TypeInv, TypeOK, TextAccounted, InLoop, Goto, taskFrame, turnVars, blockVars
<1>0. /\ Original \in Tasks /\ Original \notin Approvals /\ Approvals \subseteq Tasks
      /\ IsStreamed(Original)' = IsStreamed(Original)
  BY TasksAssumption DEF Tasks, IsStreamed
<1>1. ASSUME NEW s \in {"complete", "error"}, NEW x, Finish(Original, s, x),
             guards' = guards, ~IsStreamed(Original) => streamed' = {}
      PROVE  TextAccounted'
  BY <1>0, <1>1 DEF Finish, NoWork
<1>2. ASSUME NEW x, Finish(Original, "stopped", x), (streamed \ LostWithConsumer)' \subseteq x,
             guards' = guards, ~IsStreamed(Original) => streamed' = {}
      PROVE  TextAccounted'
  BY <1>0, <1>2 DEF Finish, NoWork
<1>3. CASE Spawn \/ SpawnFails
  BY <1>0, <1>3 DEF Spawn, SpawnFails
<1>4. CASE Open(Original)
  <2>1. CASE ConsumerGone(Original)
    BY <1>2, <1>4, <2>1 DEF Open
  <2>2. CASE ~ConsumerGone(Original)
    BY <1>0, <1>4, <2>2 DEF Open
  <2> QED BY <2>1, <2>2
<1>5. CASE Disconnect(Original)
  <2>1. /\ UNCHANGED <<streamed, produced, guards, text, status>>
        /\ LostWithConsumer \subseteq LostWithConsumer'
    BY <1>5 DEF Disconnect, stopVars, LostWithConsumer
  <2>2. CASE IsStreamed(Original)
    <3>1. UNCHANGED <<pc, work>>
      BY <1>5, <2>2 DEF Disconnect
    <3> QED BY <1>0, <2>1, <2>2, <3>1
  <2>3. CASE ~IsStreamed(Original)
    BY <1>0, <1>5, <2>1, <2>3 DEF Disconnect, End
  <2> QED BY <2>2, <2>3
<1>6. CASE Classify
  <2>1. CASE Goto(Original, "round") /\ UNCHANGED <<work, blockVars>>
    BY <1>0, <1>6, <2>1 DEF Classify
  <2>2. CASE Produce(Original)
    <3>1. /\ streamed' \subseteq {produced + 1} /\ guards' = guards
          /\ ~IsStreamed(Original) \/ ConsumerGone(Original) => streamed' = {}
      BY <1>6, <2>2 DEF Classify, Produce
    <3>2. (streamed \ LostWithConsumer)' \subseteq {produced + 1}
      BY <3>1
    <3>3. \/ Finish(Original, "stopped", {produced + 1})
          \/ Finish(Original, "complete", {produced + 1})
          \/ Goto(Original, "round") /\ UNCHANGED <<work, blockVars>>
      BY <1>6 DEF Classify
    <3> QED BY <1>1, <1>2, <2>1, <3>1, <3>2, <3>3
  <2> QED BY <1>6, <2>1, <2>2 DEF Classify
<1>7. CASE NextRound(Original)
  <2>1. CASE Goto(Original, "streaming") /\ work' = [work EXCEPT ![Original].round = {}]
    BY <1>0, <1>7, <2>1 DEF NextRound, Work
  <2>2. CASE ~(Goto(Original, "streaming") /\ work' = [work EXCEPT ![Original].round = {}])
    <3>1. \/ Finish(Original, "stopped", work[Original].content)
          \/ Finish(Original, "error", {})
      BY <1>7, <2>2 DEF NextRound
    <3>2. pc[Original] = "round" /\ UNCHANGED <<guards, streamed>>
      BY <1>7 DEF NextRound
    <3>3. streamed' \subseteq work[Original].content /\ (~IsStreamed(Original) => streamed' = {})
      BY <3>2
    <3>4. CASE Finish(Original, "stopped", work[Original].content)
      BY <1>2, <3>2, <3>3, <3>4
    <3>5. CASE Finish(Original, "error", {})
      BY <1>1, <3>2, <3>3, <3>5
    <3> QED BY <3>1, <3>4, <3>5
  <2> QED BY <2>1, <2>2
<1>8. CASE ReceiveBlock(Original)
  <2>1. /\ streamed' \subseteq streamed \cup {produced + 1}
        /\ ~IsStreamed(Original) => streamed' = {}
    BY <1>8 DEF ReceiveBlock, Produce
  <2>2. work'[Original].content = work[Original].content \cup {produced + 1}
    BY <1>0, <1>8 DEF ReceiveBlock, Work
  <2>3. pc[Original] = "streaming" /\ streamed \subseteq work[Original].content
    BY <1>8 DEF ReceiveBlock
  <2>4. /\ pc'[Original] = "received" /\ \A a \in Approvals : pc'[a] = pc[a]
        /\ guards' = guards
    BY <1>0, <1>8 DEF ReceiveBlock
  <2>5. work'[Original].round = {produced + 1} /\ produced' = produced + 1
    BY <1>0, <1>8 DEF ReceiveBlock, Produce, Work
  <2> QED BY <1>0, <2>1, <2>2, <2>3, <2>4, <2>5
<1>9. CASE Interrupt(Original) \/ LoseRound(Original) \/ ProviderFails(Original) \/ Answer(Original)
  <2>1. /\ streamed' = streamed /\ streamed \subseteq work[Original].content
        /\ ~IsStreamed(Original) => streamed' = {}
        /\ UNCHANGED <<guards, gone, produced>>
    BY <1>9 DEF Interrupt, LoseRound, ProviderFails, Answer
  <2>2. CASE LoseRound(Original)
    <3>1. Original \in gone /\ work[Original].round \subseteq {produced}
          /\ Finish(Original, "stopped", work[Original].content \ work[Original].round)
      BY <2>2 DEF LoseRound, ConsumerGone
    <3>2. (streamed \ LostWithConsumer)' \subseteq work[Original].content \ work[Original].round
      BY <2>1, <3>1 DEF LostWithConsumer
    <3> QED BY <1>2, <2>1, <3>1, <3>2
  <2>3. CASE ~LoseRound(Original)
    <3>1. \/ Finish(Original, "stopped", work[Original].content)
          \/ Finish(Original, "error", {})
          \/ Finish(Original, "complete", work[Original].round)
      BY <1>9, <2>3 DEF Interrupt, ProviderFails, Answer
    <3> QED BY <1>1, <1>2, <2>1, <3>1
  <2> QED BY <2>2, <2>3
<1>10. CASE RequestTools(Original) \/ UseTools(Original)
  BY <1>0, <1>10 DEF RequestTools, UseTools
<1>11. ASSUME NEW c \in Calls, Park(Original, c) PROVE FALSE
  BY <1>11 DEF Park, RecordToolCall, NeverParked, Table
<1>12. CASE AwaitDecision(Original)
  BY <1>12 DEF AwaitDecision
<1>13. CASE EndTask(Original)
  <2>0. Close(Original) \/ Finalize(Original) => LostWithConsumer' = LostWithConsumer
    BY DEF Close, Finalize, LostWithConsumer
  <2>1. CASE Finalize(Original)
    BY <1>0, <2>0, <2>1 DEF Finalize
  <2>2. CASE Close(Original)
    BY <1>0, <2>0, <2>2 DEF Close
  <2> QED BY <1>13, <2>1, <2>2 DEF EndTask, FinalizeFails, CloseArmed
<1> QED
  BY <1>3, <1>4, <1>5, <1>6, <1>7, <1>8, <1>9, <1>10, <1>11, <1>12, <1>13 DEF RunLoop

LEMMA TextStep ==
  ASSUME TypeInv, TextInv, [Next]_vars
  PROVE  TextInv'
<1> USE DEF TypeInv, TypeOK
<1>0. world' = world /\ mode' = mode
  BY FixedStep
<1> SUFFICES ASSUME ~Faults, NeverParked' PROVE TextAccounted'
  BY <1>0 DEF TextInv, Faults
<1>1. NeverParked
  BY TableStep DEF NeverParked
<1>2. TextAccounted
  BY <1>1 DEF TextInv
<1>3. ASSUME UNCHANGED <<pc, guards, streamed, work, gone, produced>>,
             UNCHANGED text,
             status \in {"complete", "error", "stopped"} => status' = status
      PROVE  TextAccounted'
  BY <1>0, <1>2, <1>3 DEF TextAccounted, IsStreamed, LostWithConsumer
<1>4. CASE \/ Spawn \/ SpawnFails \/ Open(Original) \/ Disconnect(Original)
           \/ RunLoop(Original) \/ EndTask(Original)
  BY <1>0, <1>2, <1>4, OriginalKeepsText
<1>5. ASSUME NEW a \in Approvals,
             \/ Open(a) \/ Disconnect(a) \/ RunLoop(a) \/ EndTask(a) \/ SubmitApproval(a)
      PROVE  FALSE
  <2>1. pc[a] = "idle" /\ a # Original
    BY <1>2, TasksAssumption DEF TextAccounted
  <2>2. ASSUME NEW c \in Calls, LoadDecision(a, c) PROVE FALSE
    BY <1>1, <2>2 DEF LoadDecision, NeverParked, IsAwaiting
  <2> QED
    BY <1>5, <2>1, <2>2
       DEF Open, Disconnect, Live, Running, RunLoop, NextRound, ReceiveBlock, Interrupt,
           LoseRound, ProviderFails, Answer, RequestTools, UseTools, Park, AwaitDecision, EndTask,
           Finalize, FinalizeFails, Close, CloseArmed, Faults, SubmitApproval, Decide, ResolveFails,
           SpawnResumed, ReadOutput, ReadPrior, ResumeCall, ResumeLoop
<1>6. ASSUME NEW t \in Tasks, GuardFinalizes(t) PROVE FALSE
  BY <1>2, <1>6 DEF GuardFinalizes, TextAccounted
<1>7. ASSUME NEW s \in Stops, StopMessage(s) \/ StopDropped(s) PROVE TextAccounted'
  <2>1. UNCHANGED <<pc, guards, streamed, work, text, gone, produced>>
    BY <1>7 DEF StopDropped, StopMessage, StopRead, StopSignal, StopWaited, StopTimesOut, StopRefuses,
                StopFinalizes, turnVars, taskVars, blockVars
  <2>2. status' = status \/ status \in Unsettled
    BY <1>7 DEF StopDropped, StopMessage, StopRead, StopSignal, StopWaited, StopTimesOut, StopRefuses,
                StopFinalizes, turnVars
  <2> QED BY <1>2, <1>3, <2>1, <2>2 DEF TextAccounted, Unsettled
<1>8. CASE SweepStaleTurn
  <2>1. UNCHANGED <<pc, guards, streamed, work, text, gone, produced>> /\ status = "pending"
    BY <1>8 DEF SweepStaleTurn, taskVars, blockVars
  <2> QED BY <1>2, <1>3, <2>1 DEF TextAccounted
<1>9. CASE UNCHANGED vars \/ \E c \in Calls : ExpireCall(c)
  BY <1>3, <1>9 DEF vars, ExpireCall, turnVars, taskVars, blockVars
<1>10. CASE Crash
  BY <1>10 DEF Crash
<1> QED
  BY <1>4, <1>5, <1>6, <1>7, <1>8, <1>9, <1>10 DEF Next, Tasks

LEMMA TextInit == Init => TextInv
<1> SUFFICES ASSUME Init PROVE TextAccounted
  BY DEF TextInv
<1>1. \A a \in Approvals : pc[a] = "idle"
  BY TasksAssumption DEF Init, Tasks
<1>2. pc[Original] = "handler"
  BY DEF Init, Tasks
<1> QED BY <1>1, <1>2 DEF Init, TextAccounted, InLoop

\* run_loop and finalize: a turn that was stopped before it ever parked keeps
\* every block its consumer saw, with any number of stops, tool rounds, sweeps
\* and disconnects, except that a consumer that leaves may cost the last one:
\* StreamedTextKept.
THEOREM StoppedTextKept == Spec => []StreamedTextKept
<1>1. TypeInv /\ TextInv /\ [Next]_vars => TextInv'
  BY TextStep
<1>2. TypeInv /\ TextInv => StreamedTextKept
  BY DEF TextInv, NeverParked, TextAccounted, StreamedTextKept, Live, Running, InLoop,
         TypeInv, TypeOK, Tasks
<1> QED BY TypeInvariant, TextInit, <1>1, <1>2, PTL DEF Spec

-----------------------------------------------------------------------------
(* Stops.  What follows is about streamed turns whose tasks react to a     *)
(* stop in time: nobody can stop a buffered turn, and a stop does not wait *)
(* for ever.                                                               *)

StreamedOnly == Modes \subseteq {"streamed"}
Reliable == ~Faults /\ Timely
Quiet == \A t \in Tasks : ~Holds(t)

\* A channel that is finished belongs to a task that has ended.
FinishedMeansEnded ==
  /\ \A t \in Tasks : IsStreamed(t)
  /\ ~Faults => \A t \in Tasks : phase[t] = "Finished" => pc[t] = "ended"

\* While a stop waits, the calls of its snapshot are pending only if the task
\* that it waits for is the one that parked them; once it has refused one, the
\* turn is nobody's and no decision is left to be made.
RefusedTurn ==
  Reliable =>
  /\ guards = {} /\ \A t \in Tasks : pc[t] # "failing"
  /\ \A s \in Stops : \A c \in seen[s] : calls[c].status # "absent"
  /\ \A s \in Stops : \A c \in seen[s] : IsAwaiting(calls, c) =>
       /\ stopPc[s] = "wait" => \A t \in Tasks : Holds(t) => t = waits[s]
       /\ stopPc[s] = "refuse" => Quiet
  /\ \A s \in won :
       /\ \A c \in Calls : ~IsAwaiting(calls, c)
       /\ Quiet
       /\ stopPc[s] \in {"refuse", "done", "lost"}
       /\ stopPc[s] = "done" => status \notin Unsettled

StopInv == HolderInv /\ StopFindsTurn /\ FinishedMeansEnded /\ RefusedTurn

\* When a channel finishes, its task ends.
LEMMA FinishedStep ==
  ASSUME TypeInv, FinishedMeansEnded, [Next]_vars
  PROVE  FinishedMeansEnded'
<1> USE DEF TypeInv, TypeOK, registryVars
<1>0. (\A t \in Tasks : IsStreamed(t)') /\ Faults' = Faults
  BY FixedStep DEF FinishedMeansEnded, IsStreamed, Faults
<1> SUFFICES ASSUME ~Faults, NEW t \in Tasks, phase'[t] = "Finished" PROVE pc'[t] = "ended"
  BY <1>0 DEF FinishedMeansEnded
<1>1. CASE phase[t] = "Finished"
  <2>1. pc[t] = "ended"
    BY <1>1 DEF FinishedMeansEnded
  <2> QED
    BY <2>1, FlowStep DEF Flows, Onward, FinalizeFails, Park, Spawn, Decide, SpawnResumed, LoadDecision
<1>2. CASE phase[t] # "Finished"
  <2>1. ASSUME NEW u \in Tasks, RunLoop(u) \/ Open(u) \/ Disconnect(u) \/ GuardFinalizes(u)
        PROVE  FALSE
    BY <1>2, <2>1
       DEF RunLoop, Open, Disconnect, GuardFinalizes, Classify, NextRound, ReceiveBlock,
           Interrupt, LoseRound, ProviderFails, Answer, RequestTools, UseTools, Park, AwaitDecision,
           taskFrame
  <2>2. ASSUME NEW u \in Tasks, EndTask(u) PROVE pc'[t] = "ended"
    BY <1>2, <2>2 DEF EndTask, Finalize, FinalizeFails, Close, CloseArmed, DropSlot, Goto, End,
                      taskFrame
  <2>3. ASSUME NEW a \in Approvals, SubmitApproval(a) PROVE pc'[t] = "ended"
    <3>1. a \in Tasks /\ (SpawnResumed(a) \/ ReadOutput(a))
      BY <1>2, <2>3
         DEF Tasks, SubmitApproval, LoadDecision, Decide, ResolveFails, ReadPrior, ResumeCall,
             ResumeLoop, taskFrame
    <3> QED BY <1>2, <3>1 DEF SpawnResumed, ReadOutput, Register, DropSlot, Goto
  <2>4. ASSUME NEW s \in Stops, StopMessage(s) \/ StopDropped(s) PROVE FALSE
    BY <1>2, <2>4
       DEF StopDropped, StopMessage, StopRead, StopSignal, StopWaited, StopTimesOut, StopRefuses,
           StopFinalizes
  <2>5. CASE SpawnFails \/ SweepStaleTurn \/ UNCHANGED vars \/ \E c \in Calls : ExpireCall(c)
    BY <1>2, <2>5 DEF SpawnFails, SweepStaleTurn, vars, ExpireCall, taskFrame
  <2>6. CASE Spawn
    BY <1>2, <2>6 DEF Spawn, Register
  <2>7. CASE Crash
    BY <2>7 DEF Crash
  <2> QED BY <2>1, <2>2, <2>3, <2>4, <2>5, <2>6, <2>7 DEF Next
<1> QED BY <1>1, <1>2

\* Where requests of stop_message go.
LEMMA StopStep ==
  ASSUME TypeInv, [Next]_vars, ~Faults, NEW s \in Stops
  PROVE  \/ UNCHANGED <<stopPc[s], waits[s]>> /\ seen'[s] \subseteq seen[s] /\ (s \in won' => s \in won)
         \/ StopRead(s) \/ StopSignal(s) \/ StopWaited(s) \/ StopTimesOut(s)
         \/ \E c \in Calls : StopRefuses(s, c)
         \/ StopFinalizes(s) \/ StopDropped(s)
<1> USE DEF TypeInv, TypeOK, stopVars
<1>1. ASSUME NEW u \in Stops \ {s}, StopMessage(u) \/ StopDropped(u)
      PROVE  UNCHANGED <<stopPc[s], waits[s], seen[s]>> /\ (s \in won' => s \in won)
  BY <1>1 DEF StopDropped, StopMessage, StopRead, StopSignal, StopWaited, StopTimesOut, StopRefuses,
              StopFinalizes
<1>2. ASSUME NEW t \in Tasks,
             RunLoop(t) \/ EndTask(t) \/ Open(t) \/ Disconnect(t) \/ GuardFinalizes(t)
      PROVE  UNCHANGED stopVars
  BY <1>2
     DEF RunLoop, EndTask, Open, Disconnect, GuardFinalizes, Classify, NextRound, ReceiveBlock,
         Interrupt, LoseRound, ProviderFails, Answer, RequestTools, UseTools, Park, AwaitDecision, Finalize,
         FinalizeFails, Close, CloseArmed, taskFrame
<1>3. ASSUME NEW a \in Approvals, SubmitApproval(a) PROVE UNCHANGED stopVars
  BY <1>3 DEF SubmitApproval, LoadDecision, Decide, ResolveFails, SpawnResumed, ReadOutput,
              ReadPrior, ResumeCall, ResumeLoop, taskFrame
<1>4. CASE Spawn \/ SpawnFails \/ SweepStaleTurn \/ UNCHANGED vars \/ \E c \in Calls : ExpireCall(c)
  BY <1>4 DEF Spawn, SpawnFails, SweepStaleTurn, vars, ExpireCall, taskFrame
<1> QED BY <1>1, <1>2, <1>3, <1>4 DEF Next, StopMessage, StopDropped, Crash

\* Where the status of the message comes from when nothing fails.
LEMMA StatusStep ==
  ASSUME TypeInv, [Next]_vars, ~Faults, guards = {}, \A t \in Tasks : pc[t] # "failing"
  PROVE  /\ guards' = {} /\ \A t \in Tasks : pc'[t] # "failing"
         /\ \/ status' = status
            \/ \E t \in Tasks : Finalize(t)
            \/ SweepStaleTurn
            \/ \E s \in Stops : StopFinalizes(s)
<1> USE DEF turnVars
<1>1. ASSUME NEW t \in Tasks, RunLoop(t) \/ EndTask(t) \/ Open(t) \/ Disconnect(t)
      PROVE  guards' = guards /\ (status' = status \/ Finalize(t))
  <2>1. CASE RunLoop(t)
    BY <2>1 DEF RunLoop, Classify, NextRound, ReceiveBlock, Interrupt, LoseRound, ProviderFails, Answer,
                RequestTools, UseTools, Park, AwaitDecision, taskFrame
  <2>2. CASE Close(t) \/ Finalize(t) \/ FinalizeFails(t) \/ Open(t) \/ Disconnect(t)
    BY <2>2 DEF Close, Finalize, FinalizeFails, Open, Disconnect, taskFrame
  <2>3. ~CloseArmed(t)
    BY DEF CloseArmed
  <2> QED BY <1>1, <2>1, <2>2, <2>3 DEF EndTask
<1>2. ASSUME NEW a \in Approvals, SubmitApproval(a) PROVE guards' = guards /\ status' = status
  BY <1>2 DEF SubmitApproval, LoadDecision, Decide, ResolveFails, SpawnResumed, ReadOutput,
              ReadPrior, ResumeCall, ResumeLoop, taskFrame
<1>3. ASSUME NEW s \in Stops, StopMessage(s) \/ StopDropped(s)
      PROVE  guards' = guards /\ (status' = status \/ StopFinalizes(s))
  BY <1>3 DEF StopDropped, StopMessage, StopRead, StopSignal, StopWaited, StopTimesOut, StopRefuses,
              StopFinalizes
<1>4. ASSUME NEW t \in Tasks, pc'[t] = "failing" PROVE FALSE
  <2>1. pc'[t] # pc[t] /\ <<pc[t], pc'[t]>> \notin Onward /\ ~FinalizeFails(t)
    BY <1>4 DEF Onward, FinalizeFails
  <2> QED
    BY <1>4, <2>1, FlowStep
       DEF Flows, Park, Spawn, Decide, SpawnResumed, LoadDecision, Goto, TypeInv, TypeOK
<1>5. CASE Spawn \/ SpawnFails \/ UNCHANGED vars \/ \E c \in Calls : ExpireCall(c)
  BY <1>4, <1>5 DEF Spawn, SpawnFails, vars, ExpireCall, taskFrame
<1> QED BY <1>1, <1>2, <1>3, <1>4, <1>5 DEF Next, Crash, GuardFinalizes, SweepStaleTurn

LEMMA RefusedStep ==
  ASSUME StopInv, [Next]_vars, Patient
  PROVE  RefusedTurn'
<1> USE DEF StopInv, HolderInv
<1>0. Reliable' = Reliable
  BY FixedStep DEF Reliable, Faults, Timely
<1> SUFFICES ASSUME Reliable
             PROVE  /\ guards' = {} /\ \A t \in Tasks : pc'[t] # "failing"
                    /\ \A s \in Stops : \A c \in seen'[s] : calls'[c].status # "absent"
                    /\ \A s \in Stops : \A c \in seen'[s] : IsAwaiting(calls', c) =>
                         /\ stopPc'[s] = "wait" => \A t \in Tasks : Holds(t)' => t = waits'[s]
                         /\ stopPc'[s] = "refuse" => \A t \in Tasks : ~Holds(t)'
                    /\ \A s \in won' :
                         /\ \A c \in Calls : ~IsAwaiting(calls', c)
                         /\ \A t \in Tasks : ~Holds(t)'
                         /\ stopPc'[s] \in {"refuse", "done", "lost"}
                         /\ stopPc'[s] = "done" => status' \notin Unsettled
  BY <1>0 DEF RefusedTurn, Quiet, IsAwaiting
<1>1. /\ guards = {} /\ \A t \in Tasks : pc[t] # "failing"
      /\ ~Faults /\ Timely
  BY DEF RefusedTurn, Reliable
<1>2. guards' = {} /\ \A t \in Tasks : pc'[t] # "failing"
  BY <1>1, StatusStep
<1>3. ASSUME NEW s \in Stops, NEW c \in seen'[s], IsAwaiting(calls', c)
      PROVE  /\ stopPc'[s] = "wait" => \A t \in Tasks : Holds(t)' => t = waits'[s]
             /\ stopPc'[s] = "refuse" => \A t \in Tasks : ~Holds(t)'
  <2>0. c \in Calls
    BY <1>3, TypeStep DEF TypeOK
  <2>1. \A t \in Tasks : Holds(t)' => Holds(t)
    BY <1>3, <2>0, NewHolder
  <2>2. CASE ~IsAwaiting(calls, c)
    <3>1. PICK t \in Tasks : Park(t, c)
      BY <1>3, <2>0, <2>2, TableStep
    <3>2. c \in seen[s] /\ calls[c].status = "absent"
      BY <1>3, <3>1 DEF Park, taskFrame, stopVars
    <3> QED BY <3>2 DEF RefusedTurn
  <2>3. CASE IsAwaiting(calls, c)
    <3>1. \A t \in Tasks : Holds(t) => Live(t) /\ registry = t
      BY <2>0, <2>3 DEF AwaitingMeansLeaving, Leaving, Live, Running, StopFindsTurn,
                        FinishedMeansEnded
    <3>2. CASE UNCHANGED <<stopPc[s], waits[s]>> /\ seen'[s] \subseteq seen[s]
      BY <1>3, <2>1, <2>3, <3>2 DEF RefusedTurn, Quiet
    <3>3. CASE StopSignal(s)
      BY <2>1, <3>1, <3>3, TasksAssumption DEF StopSignal, TypeInv, TypeOK, Tasks
    <3>4. CASE StopWaited(s)
      <4>1. seen' = seen /\ pc' = pc /\ stopPc[s] = "wait" /\ phase[waits[s]] = "Finished"
        BY <3>4 DEF StopWaited, taskVars
      <4>2. \A t \in Tasks : Holds(t) => t = waits[s]
        BY <1>3, <2>3, <4>1 DEF RefusedTurn
      <4>3. \A t \in Tasks : ~Holds(t)
        BY <1>1, <3>1, <4>1, <4>2 DEF FinishedMeansEnded, Live, Running
      <4> QED BY <2>1, <4>3
    <3>5. ASSUME NEW d \in Calls, StopRefuses(s, d)
          PROVE  stopPc'[s] = "refuse" /\ c \in seen[s] /\ stopPc[s] = "refuse"
      BY <1>3, <3>5 DEF StopRefuses, TypeInv, TypeOK
    <3>6. CASE StopRead(s) \/ StopTimesOut(s) \/ StopFinalizes(s) \/ StopDropped(s)
      BY <1>1, <3>6 DEF StopRead, StopTimesOut, StopFinalizes, StopDropped, TypeInv, TypeOK
    <3>7. CASE \E d \in Calls : StopRefuses(s, d)
      BY <2>1, <2>3, <3>5, <3>7 DEF RefusedTurn, Quiet
    <3> QED BY <1>1, <3>2, <3>3, <3>4, <3>6, <3>7, StopStep
  <2> QED BY <2>2, <2>3
<1>4. ASSUME NEW s \in won'
      PROVE  /\ \A c \in Calls : ~IsAwaiting(calls', c)
             /\ \A t \in Tasks : ~Holds(t)'
             /\ stopPc'[s] \in {"refuse", "done", "lost"}
             /\ stopPc'[s] = "done" => status' \notin Unsettled
  <2>0. s \in Stops
    BY TypeStep DEF TypeOK
  <2>1. CASE s \notin won
    <3>1. PICK c \in Calls : StopRefuses(s, c)
      BY <1>1, <2>0, <2>1, StopStep
         DEF StopRead, StopSignal, StopWaited, StopTimesOut, StopFinalizes, StopDropped
    <3>2. IsAwaiting(calls, c) /\ calls' = MarkDenied(calls, c) /\ c \in seen[s]
          /\ stopPc[s] = "refuse" /\ stopPc' = stopPc /\ pc' = pc
      BY <2>1, <3>1 DEF StopRefuses, taskVars
    <3>3. \A t \in Tasks : ~Holds(t)'
      BY <2>0, <3>2 DEF RefusedTurn, Quiet, Holds, Live
    <3>4. \A d \in Calls : ~IsAwaiting(calls', d)
      BY <3>2 DEF OneAwaiting, MarkDenied, IsAwaiting, TypeInv, TypeOK, Table, Row
    <3> QED BY <3>2, <3>3, <3>4
  <2>2. CASE s \in won
    <3>1. (\A c \in Calls : ~IsAwaiting(calls, c)) /\ Quiet /\ stopPc[s] \in {"refuse", "done", "lost"}
          /\ (stopPc[s] = "done" => status \notin Unsettled)
      BY <2>2 DEF RefusedTurn
    <3>2. \A c \in Calls : ~IsAwaiting(calls', c)
      BY <3>1, TableStep, ParkByHolder DEF Quiet
    <3>3. \A t \in Tasks : ~Holds(t)'
      <4> SUFFICES ASSUME NEW t \in Tasks, Holds(t)' PROVE FALSE
        OBVIOUS
      <4>1. t \in Approvals /\ Decide(t) /\ IsAwaiting(calls, call[t]) /\ call[t] \in Calls
        BY <3>1, FlowStep
           DEF Quiet, Flows, Holds, Live, Running, Onward, FinalizeFails, Park, Spawn,
               SpawnResumed, LoadDecision, Decide, Goto, TypeInv, TypeOK, CallChosen
      <4> QED BY <3>1, <4>1
    <3>4. stopPc'[s] \in {"refuse", "done", "lost"}
      BY <1>1, <2>0, <3>1, StopStep
         DEF StopRead, StopSignal, StopWaited, StopTimesOut, StopRefuses, StopFinalizes,
             StopDropped, TypeInv, TypeOK
    <3>5. ASSUME stopPc'[s] = "done" PROVE status' \notin Unsettled
      <4>1. CASE StopFinalizes(s)
        BY <1>1, <4>1 DEF StopFinalizes, Unsettled
      <4>2. CASE ~StopFinalizes(s)
        <5>1. stopPc[s] = "done"
          BY <1>1, <2>0, <3>1, <3>5, <4>2, StopStep
             DEF StopRead, StopSignal, StopWaited, StopTimesOut, StopRefuses, StopDropped, TypeInv,
                TypeOK
        <5>2. ~\E t \in Tasks : Finalize(t)
          BY <3>1 DEF Quiet, Finalize, Holds, Live, Running
        <5>3. status' = status \/ status \in Unsettled \/ \E u \in Stops : StopFinalizes(u)
          BY <1>1, <5>2, StatusStep DEF SweepStaleTurn, Unsettled
        <5> QED BY <3>1, <5>1, <5>3 DEF StopFinalizes
      <4> QED BY <4>1, <4>2
    <3> QED BY <3>2, <3>3, <3>4, <3>5
  <2> QED BY <2>1, <2>2
<1>5. ASSUME NEW s \in Stops, NEW c \in seen'[s] PROVE calls'[c].status # "absent"
  <2>0. c \in Calls
    BY TypeStep DEF TypeOK
  <2>1. CASE c \in seen[s]
    BY <2>0, <2>1, TableStep DEF RefusedTurn
  <2>2. CASE c \notin seen[s]
    <3>1. StopRead(s)
      BY <1>1, <2>2, StopStep
         DEF StopSignal, StopWaited, StopTimesOut, StopRefuses, StopFinalizes, StopDropped,
             TypeInv, TypeOK
    <3>2. IsAwaiting(calls, c) /\ calls' = calls
      BY <2>2, <3>1 DEF StopRead, TypeInv, TypeOK, turnVars
    <3> QED BY <3>2 DEF IsAwaiting
  <2> QED BY <2>1, <2>2
<1> QED BY <1>2, <1>3, <1>4, <1>5

LEMMA StopInit == ASSUME StreamedOnly PROVE Init => StopInv
<1> SUFFICES ASSUME Init PROVE StopInv
  OBVIOUS
<1>1. StopFindsTurn
  BY DEF Init, StopFindsTurn, Live, Running
<1>2. FinishedMeansEnded
  BY DEF Init, FinishedMeansEnded, IsStreamed, StreamedOnly
<1>3. RefusedTurn
  BY DEF Init, RefusedTurn
<1> QED BY <1>1, <1>2, <1>3, HolderInit DEF StopInv

LEMMA StopInvariant == ASSUME Patient, StreamedOnly PROVE Spec => []StopInv
<1>1. StopInv /\ [Next]_vars => StopInv'
  BY HolderStep, FindsStep, FinishedStep, RefusedStep DEF StopInv, HolderInv
<1> QED BY StopInit, <1>1, PTL DEF Spec

\* stop_message and submit_approval: a stop that refused a pending call has
\* stopped the turn for good, however many decisions were under way:
\* StoppedParkedTurnStays, for streamed turns whose tasks react in time.
THEOREM RefusedTurnStays ==
  ASSUME Patient, StreamedOnly, \A w \in Worlds : ~w.faults => w.timely
  PROVE  Spec => StoppedParkedTurnStays
<1>1. ASSUME StopInv, [Next]_vars, ~Faults, NEW s \in won, stopPc[s] = "done"
      PROVE  status' = status
  <2> USE DEF StopInv
  <2>1. Reliable
    BY <1>1 DEF Reliable, Faults, Timely, HolderInv, TypeInv, TypeOK
  <2>2. guards = {} /\ (\A t \in Tasks : pc[t] # "failing") /\ Quiet /\ status \notin Unsettled
    BY <1>1, <2>1 DEF RefusedTurn
  <2>3. ~\E t \in Tasks : Finalize(t)
    BY <2>2 DEF Quiet, Finalize, Holds, Live, Running
  <2>4. status' = status \/ SweepStaleTurn \/ \E u \in Stops : StopFinalizes(u)
    BY <1>1, <2>2, <2>3, StatusStep DEF HolderInv
  <2> QED BY <2>2, <2>4 DEF SweepStaleTurn, StopFinalizes, Unsettled
<1>2. StopInv /\ [Next]_vars
      => [~Faults /\ (\E s \in won : stopPc[s] = "done") => status' = status]_<<status>>
  BY <1>1
<1> QED BY StopInvariant, <1>2, PTL DEF Spec, StoppedParkedTurnStays

\* As long as no decision was made, a stop that does not find the task of
\* run_turn comes after it, and what it leaves behind is settled.
AnsweredStop ==
  Reliable /\ (\A a \in Approvals : pc[a] = "idle") =>
  /\ pc[Original] \in {"handler", "ended"} \cup Running
  /\ registry \in {Original, Nobody}
  /\ pc[Original] \in {"handler", "ended"} => registry = Nobody
  /\ \A s \in Stops :
       /\ stopPc[s] # "idle" => pc[Original] # "handler"
       /\ stopPc[s] = "wait" => waits[s] = Original
       /\ stopPc[s] \in {"refuse", "done"} => pc[Original] = "ended"
       /\ stopPc[s] = "done" => status \notin Unsettled

\* The task of run_turn ends with its slot.
LEMMA EndsWithSlot ==
  ASSUME TypeInv, [Next]_vars, ~Faults, IsStreamed(Original),
         pc[Original] \notin {"handler", "ended"}, pc'[Original] = "ended", \A a \in Approvals : pc[a] = "idle"
  PROVE  registry' = Nobody
<1> USE DEF TypeInv, TypeOK
<1>0. Original \in Tasks /\ Original \notin Approvals
  BY TasksAssumption DEF Tasks
<1>1. ASSUME NEW t \in Tasks,
             RunLoop(t) \/ EndTask(t) \/ Open(t) \/ Disconnect(t) \/ GuardFinalizes(t)
      PROVE  t = Original \/ pc' = pc
  <2>1. t # Original => pc'[Original] = pc[Original]
    BY <1>0, <1>1, MovesOne
  <2> QED BY <2>1
<1>2. ASSUME RunLoop(Original) \/ EndTask(Original) \/ Open(Original) \/ Disconnect(Original)
             \/ GuardFinalizes(Original)
      PROVE  registry' = Nobody
  <2>1. ~(RunLoop(Original) \/ Open(Original) \/ Disconnect(Original) \/ GuardFinalizes(Original))
    BY <1>0
       DEF RunLoop, Open, Disconnect, GuardFinalizes, Classify, NextRound, ReceiveBlock, Interrupt,
           LoseRound, ProviderFails, Answer, RequestTools, UseTools, Park, AwaitDecision, Finish, Goto,
           taskVars
  <2>2. Close(Original) \/ CloseArmed(Original)
    BY <1>0, <1>2, <2>1 DEF EndTask, Finalize, FinalizeFails, Goto
  <2> QED BY <2>2 DEF Close, CloseArmed, DropSlot
<1>3. ASSUME NEW a \in Approvals, SubmitApproval(a) PROVE FALSE
  <2>1. a \in Tasks /\ a # Original
    BY <1>0 DEF Tasks
  <2> QED BY <1>0, <1>3, <2>1, MovesOne
<1>4. ASSUME NEW s \in Stops, StopMessage(s) \/ StopDropped(s) PROVE FALSE
  BY <1>4 DEF StopDropped, StopMessage, StopRead, StopSignal, StopWaited, StopTimesOut, StopRefuses,
              StopFinalizes, taskVars
<1>5. ~(SpawnFails \/ SweepStaleTurn \/ UNCHANGED vars \/ \E c \in Calls : ExpireCall(c))
  BY DEF SpawnFails, SweepStaleTurn, vars, ExpireCall, taskVars
<1>6. ~(Spawn \/ Crash)
  BY <1>0 DEF Spawn, Crash, Goto
<1> QED BY <1>1, <1>2, <1>3, <1>4, <1>5, <1>6 DEF Next

LEMMA AnsweredStep ==
  ASSUME StopInv, AnsweredStop, [Next]_vars, Patient
  PROVE  AnsweredStop'
<1> USE DEF StopInv, HolderInv
<1>0. Reliable' = Reliable
  BY FixedStep DEF Reliable, Faults, Timely
<1>a. Original \in Tasks /\ Original \notin Approvals /\ Nobody \notin Tasks
      /\ Approvals \subseteq Tasks
  BY TasksAssumption DEF Tasks
<1> SUFFICES ASSUME Reliable, \A a \in Approvals : pc'[a] = "idle"
             PROVE  /\ pc'[Original] \in {"handler", "ended"} \cup Running
                    /\ registry' \in {Original, Nobody}
                    /\ pc'[Original] \in {"handler", "ended"} => registry' = Nobody
                    /\ \A s \in Stops :
                         /\ stopPc'[s] # "idle" => pc'[Original] # "handler"
                         /\ stopPc'[s] = "wait" => waits'[s] = Original
                         /\ stopPc'[s] \in {"refuse", "done"} => pc'[Original] = "ended"
                         /\ stopPc'[s] = "done" => status' \notin Unsettled
  BY <1>0 DEF AnsweredStop
<1>1. \A a \in Approvals : pc[a] = "idle"
  BY <1>a, FlowStep
     DEF Flows, Onward, FinalizeFails, Park, Spawn, Decide, SpawnResumed, LoadDecision, Goto,
         TypeInv, TypeOK
<1>2. /\ pc[Original] \in {"handler", "ended"} \cup Running
      /\ registry \in {Original, Nobody}
      /\ pc[Original] \in {"handler", "ended"} => registry = Nobody
      /\ \A s \in Stops :
           /\ stopPc[s] # "idle" => pc[Original] # "handler"
           /\ stopPc[s] = "wait" => waits[s] = Original
           /\ stopPc[s] \in {"refuse", "done"} => pc[Original] = "ended"
           /\ stopPc[s] = "done" => status \notin Unsettled
  BY <1>1 DEF AnsweredStop
<1>3. /\ pc'[Original] = "handler" => pc[Original] = "handler"
      /\ pc[Original] = "ended" => pc'[Original] = "ended"
  BY <1>a, FlowStep
     DEF Flows, Onward, FinalizeFails, Park, Spawn, Goto, TypeInv, TypeOK
<1>4. ~Faults /\ Timely /\ guards = {} /\ \A t \in Tasks : pc[t] # "failing"
  BY DEF Reliable, RefusedTurn
<1>5. ASSUME pc'[Original] \in {"handler", "ended"} PROVE registry' = Nobody
  <2>1. CASE pc[Original] \in {"handler", "ended"}
    <3>1. \A t \in Tasks : ~Live(t)'
      BY <1>5, <1>a DEF Live, Running, Tasks
    <3> QED BY <1>2, <2>1, <3>1, RegistryStep
  <2>2. CASE pc[Original] \notin {"handler", "ended"}
    BY <1>1, <1>3, <1>4, <1>5, <1>a, <2>2, EndsWithSlot DEF FinishedMeansEnded
  <2> QED BY <2>1, <2>2
<1>6. ASSUME NEW s \in Stops
      PROVE  /\ stopPc'[s] # "idle" => pc'[Original] # "handler"
             /\ stopPc'[s] = "wait" => waits'[s] = Original
             /\ stopPc'[s] \in {"refuse", "done"} => pc'[Original] = "ended"
  <2>1. CASE UNCHANGED <<stopPc[s], waits[s]>>
    BY <1>2, <1>3, <2>1
  <2>2. CASE StopRead(s)
    BY <1>2, <1>3, <2>2 DEF StopRead, taskVars, TypeInv, TypeOK
  <2>3. CASE StopSignal(s)
    <3>1. pc[Original] # "handler" /\ pc' = pc
      BY <1>2, <2>3 DEF StopSignal, taskVars
    <3>2. CASE registry = Nobody
      <4>1. ~Live(Original)
        BY <1>a, <3>2 DEF StopFindsTurn, FinishedMeansEnded
      <4>2. pc[Original] = "ended"
        BY <1>2, <3>1, <4>1 DEF Live
      <4> QED BY <2>3, <3>1, <3>2, <4>2 DEF StopSignal, TypeInv, TypeOK
    <3>3. CASE registry # Nobody
      <4>1. registry = Original
        BY <1>2, <3>3
      <4> QED BY <2>3, <3>1, <3>3, <4>1 DEF StopSignal, TypeInv, TypeOK
    <3> QED BY <3>2, <3>3
  <2>4. CASE StopWaited(s)
    BY <1>2, <1>4, <1>a, <2>4 DEF StopWaited, FinishedMeansEnded, taskVars, TypeInv, TypeOK
  <2>5. CASE StopTimesOut(s)
    BY <1>4, <2>5 DEF StopTimesOut
  <2>6. CASE (\E c \in Calls : StopRefuses(s, c)) \/ StopFinalizes(s) \/ StopDropped(s)
    BY <1>2, <2>6 DEF StopRefuses, StopFinalizes, StopDropped, taskVars, TypeInv, TypeOK
  <2> QED BY <1>4, <2>1, <2>2, <2>3, <2>4, <2>5, <2>6, StopStep
<1>7. pc'[Original] \in {"handler", "ended"} \cup Running
  BY <1>2, <1>a, FlowStep
     DEF Flows, Onward, FinalizeFails, Park, Spawn, Goto, Running, TypeInv, TypeOK
<1>8. registry' \in {Original, Nobody}
  BY <1>1, <1>2, RegistryStep DEF Tasks
<1>9. ASSUME NEW s \in Stops, stopPc'[s] = "done" PROVE status' \notin Unsettled
  <2>1. CASE StopFinalizes(s)
    BY <1>4, <2>1 DEF StopFinalizes, Unsettled
  <2>2. CASE ~StopFinalizes(s)
    <3>1. stopPc[s] = "done"
      BY <1>4, <1>9, <2>2, StopStep
         DEF StopRead, StopSignal, StopWaited, StopTimesOut, StopRefuses, StopDropped, TypeInv,
                TypeOK
    <3>2. \A t \in Tasks : ~Finalize(t)
      BY <1>1, <1>2, <3>1 DEF Finalize, Tasks
    <3>3. status' = status \/ SweepStaleTurn \/ \E u \in Stops : StopFinalizes(u)
      BY <1>4, <3>2, StatusStep
    <3> QED BY <1>2, <3>1, <3>3 DEF SweepStaleTurn, StopFinalizes, Unsettled
  <2> QED BY <2>1, <2>2
<1> QED BY <1>5, <1>6, <1>7, <1>8, <1>9

\* stop_message: the answer to a stop is the last word on a turn that no decision
\* was made on, wherever the stop met its task: StopIsFinal, for streamed turns
\* whose tasks react in time.
THEOREM StopsAreFinal ==
  ASSUME Patient, StreamedOnly, \A w \in Worlds : ~w.faults => w.timely
  PROVE  Spec => StopIsFinal
<1>1. Init => AnsweredStop
  <2> SUFFICES ASSUME Init PROVE AnsweredStop
    OBVIOUS
  <2>1. pc[Original] = "handler"
    BY DEF Init, Tasks
  <2> QED BY <2>1 DEF Init, AnsweredStop
<1>2. StopInv /\ AnsweredStop /\ [Next]_vars => AnsweredStop'
  BY AnsweredStep
<1>3. ASSUME StopInv, AnsweredStop, [Next]_vars, ~Faults, \A a \in Approvals : pc[a] = "idle",
             NEW s \in Stops, stopPc[s] = "done"
      PROVE  status' = status
  <2> USE DEF StopInv
  <2>1. Reliable
    BY <1>3 DEF Reliable, Faults, Timely, HolderInv, TypeInv, TypeOK
  <2>2. pc[Original] = "ended" /\ status \notin Unsettled
    BY <1>3, <2>1 DEF AnsweredStop
  <2>3. guards = {} /\ \A t \in Tasks : pc[t] # "failing"
    BY <1>3, <2>1 DEF RefusedTurn
  <2>4. ~\E t \in Tasks : Finalize(t)
    BY <1>3, <2>2 DEF Finalize, Tasks
  <2>5. status' = status \/ SweepStaleTurn \/ \E u \in Stops : StopFinalizes(u)
    BY <1>3, <2>3, <2>4, StatusStep DEF HolderInv
  <2> QED BY <2>2, <2>5 DEF SweepStaleTurn, StopFinalizes, Unsettled
<1>4. StopInv /\ AnsweredStop /\ [Next]_vars
      => [/\ \E s \in Stops : stopPc[s] = "done"
          /\ \A a \in Approvals : pc[a] = "idle"
          /\ ~Faults
          => status' = status]_<<status>>
  BY <1>3
<1> QED BY StopInvariant, <1>1, <1>2, <1>4, PTL DEF Spec, StopIsFinal
=============================================================================
