--------------------------- MODULE ToolBroker_proofs ---------------------------
(* The limits of the tool loop, for every number of rounds, calls,          *)
(* repetitions and bytes; the broker's calls in detail implement the loop,  *)
(* for every deployment, and only declared requests reach a service.        *)
EXTENDS ToolBroker, WellFoundedInduction, TLAPS

-----------------------------------------------------------------------------
(* The loop.                                                               *)

\* What a budget has handed out: the history never runs ahead of the counters.
CountsAgree ==
  /\ dispatched <= calls
  /\ dispatched <= MaxCalls
  /\ ran = repeats
  /\ \A r \in Reads : repeats[r] <= MaxRepeats
  /\ delivered <= bytes
  /\ delivered <= MaxBytes

\* Every tool round was one the provider was asked for, and the tools are on
\* offer only while another round is allowed.
RoundsAgree ==
  /\ phase \in {"ask", "tools", "batch", "parked"} => asked = rounds
  /\ phase = "provider" => asked = rounds + 1
  /\ asked <= rounds + 1
  /\ rounds <= MaxRounds
  /\ phase \in {"ask", "provider"} /\ offering => rounds < MaxRounds

\* The results pushed so far are those of the calls before index.
ResultsAgree ==
  /\ index \in 1 .. Len(requests) + 1
  /\ answered = [k \in 1 .. index - 1 |-> k]
  /\ phase = "batch" => last \in index .. Len(requests)
  /\ phase = "ask" => index = Len(requests) + 1

IInv == TypeOK /\ CountsAgree /\ RoundsAgree /\ ResultsAgree

\* One batch more leaves the results in order.
LEMMA BatchInOrder ==
  ASSUME NEW i \in Nat \ {0}, NEW j \in Nat, i <= j + 1
  PROVE  [k \in 1 .. i - 1 |-> k] \o [k \in 1 .. j - i + 1 |-> i + k - 1]
           = [k \in 1 .. j |-> k]
<1> DEFINE s == [k \in 1 .. i - 1 |-> k]
           t == [k \in 1 .. j - i + 1 |-> i + k - 1]
<1>1. s \in Seq(Nat) /\ Len(s) = i - 1
  OBVIOUS
<1>2. t \in Seq(Nat) /\ Len(t) = j - i + 1
  OBVIOUS
<1>3. s \o t \in Seq(Nat) /\ Len(s \o t) = j
  BY <1>1, <1>2
<1>4. \A k \in 1 .. j : (s \o t)[k] = k
  BY <1>1, <1>2
<1>5. s \o t = [k \in 1 .. j |-> k]
  BY <1>3, <1>4
<1> QED BY <1>5

LEMMA EmptyTables ==
  /\ NoSlots \in [Slots -> {"none", "waiting", "running", "succeeded", "failed"}]
  /\ Unused \in [Reads -> Nat]
  /\ <<>> \in Seq(Reads \cup Gated)
  /\ <<>> \in Seq(Nat)
  BY DEF NoSlots, Unused

LEMMA InitEstablishes == Init => IInv
<1> SUFFICES ASSUME Init PROVE IInv
  OBVIOUS
<1> USE LimitsAssumption DEF Init
<1>1. TypeOK
  BY EmptyTables DEF TypeOK, Phases
<1>2. CountsAgree
  BY DEF CountsAgree, Unused
<1>3. RoundsAgree
  BY DEF RoundsAgree
<1>4. ResultsAgree
  BY DEF ResultsAgree
<1> QED BY <1>1, <1>2, <1>3, <1>4 DEF IInv

LEMMA NextPreservesTypes == TypeOK /\ ResultsAgree /\ [Next]_vars => TypeOK'
<1> SUFFICES ASSUME TypeOK, ResultsAgree, [Next]_vars PROVE TypeOK'
  OBVIOUS
<1> USE LimitsAssumption DEF TypeOK, Phases, loopVars, roundVars, budgetVars, clockVars
<1>1. CASE Ask \/ EndTurn
  <2>1. offering' \in BOOLEAN
    BY <1>1, Zenon DEF Ask, EndTurn
  <2> QED BY <1>1, <2>1, SMTT(30) DEF Ask, EndTurn
<1>2. CASE RequestTools
  <2>1. requests' \in Seq(Reads \cup Gated)
    BY <1>2 DEF RequestTools, Requests, Slots
  <2> QED BY <1>2, <2>1, EmptyTables DEF RequestTools
<1>3. CASE Park \/ ParkRefused
  <2>1. CASE Park
    BY <2>1 DEF Park
  <2>2. CASE ParkRefused
    <3>1. answered' = Append(answered, index) /\ index' = index + 1
      BY <2>2, Zenon DEF ParkRefused
    <3>2. answered' \in Seq(Nat) /\ index' \in Nat
      BY <3>1
    <3> QED BY <2>2, <3>2 DEF ParkRefused
  <2> QED BY <1>3, <2>1, <2>2
<1>4. CASE StartBatch
  <2>1. PICK end \in Batch : last' = end
    BY <1>4 DEF StartBatch
  <2>2. end \in Nat
    BY <2>1 DEF Batch
  <2> QED BY <1>4, <2>1, <2>2 DEF StartBatch
<1>5. CASE EndBatch
  <2>1. last - index + 1 \in Nat /\ index \in Nat \ {0}
    BY <1>5 DEF EndBatch, ResultsAgree
  <2>2. [k \in 1 .. last - index + 1 |-> index + k - 1] \in Seq(Nat)
    BY <2>1
  <2>3. answered' \in Seq(Nat)
    BY <1>5, <2>2 DEF EndBatch
  <2> QED BY <1>5, <2>3 DEF EndBatch
<1>6. CASE EndRound
  BY <1>6 DEF EndRound
<1>7. ASSUME NEW i \in Slots, RunBatch(i) PROVE TypeOK'
  <2>1. CASE Refuse(i)
    BY <2>1 DEF Refuse, Settle
  <2>2. CASE Dispatch(i)
    <3>1. repeats' \in [Reads -> Nat] /\ ran' \in [Reads -> Nat]
      <4>1. /\ repeats' = [repeats EXCEPT ![requests[i]] = @ + 1]
            /\ ran' = [ran EXCEPT ![requests[i]] = @ + 1]
        BY <2>2, Zenon DEF Dispatch
      <4>2. \A r \in Reads : repeats'[r] \in Nat /\ ran'[r] \in Nat
        BY <4>1
      <4> QED BY <4>1, <4>2
    <3>2. slots' \in [Slots -> {"none", "waiting", "running", "succeeded", "failed"}]
      BY <2>2 DEF Dispatch, Settle
    <3> QED BY <2>2, <3>1, <3>2 DEF Dispatch
  <2>3. CASE CallFails(i)
    BY <2>3 DEF CallFails, Settle
  <2>4. ASSUME NEW size \in Sizes, CallReturns(i, size) PROVE TypeOK'
    BY <2>4 DEF CallReturns, TakeResult, Settle
  <2> QED BY <1>7, <2>1, <2>2, <2>3, <2>4 DEF RunBatch
<1>8. CASE Resume
  <2>1. bytes' \in Nat /\ delivered' \in Nat
    BY <1>8 DEF Resume
  <2>2. offering' \in BOOLEAN /\ expired' \in BOOLEAN /\ overdue' \in BOOLEAN
    BY <1>8, Zenon DEF Resume
  <2>3. /\ slots' = NoSlots /\ repeats' = Unused /\ ran' = Unused
        /\ requests' = <<>> /\ answered' = <<>>
    BY <1>8, Zenon DEF Resume
  <2> QED BY <1>8, <2>1, <2>2, <2>3, EmptyTables DEF Resume
<1>9. CASE Expire \/ BecomeOverdue
  BY <1>9 DEF Expire, BecomeOverdue
<1>10. CASE UNCHANGED vars
  BY <1>10 DEF vars
<1> QED
  BY <1>1, <1>2, <1>3, <1>4, <1>5, <1>6, <1>7, <1>8, <1>9, <1>10 DEF Next, Loop

LEMMA NextPreservesCounts == TypeOK /\ CountsAgree /\ [Next]_vars => CountsAgree'
<1> SUFFICES ASSUME TypeOK, CountsAgree, [Next]_vars PROVE CountsAgree'
  OBVIOUS
<1> USE LimitsAssumption DEF TypeOK, CountsAgree, loopVars, roundVars, budgetVars, clockVars
<1>1. CASE Loop \/ Expire \/ BecomeOverdue
  BY <1>1 DEF Loop, Ask, EndTurn, RequestTools, Park, ParkRefused, StartBatch, EndBatch,
              EndRound, Expire, BecomeOverdue
<1>2. ASSUME NEW i \in Slots, RunBatch(i) PROVE CountsAgree'
  <2>1. CASE Refuse(i)
    BY <2>1 DEF Refuse
  <2>2. CASE Dispatch(i)
    BY <2>2 DEF Dispatch
  <2>3. CASE CallFails(i)
    BY <2>3 DEF CallFails
  <2>4. ASSUME NEW size \in Sizes, CallReturns(i, size) PROVE CountsAgree'
    BY <2>4 DEF CallReturns, TakeResult
  <2> QED BY <1>2, <2>1, <2>2, <2>3, <2>4 DEF RunBatch
<1>3. CASE Resume
  BY <1>3 DEF Resume, Unused
<1>4. CASE UNCHANGED vars
  BY <1>4 DEF vars
<1> QED BY <1>1, <1>2, <1>3, <1>4 DEF Next

LEMMA NextPreservesRounds == TypeOK /\ RoundsAgree /\ [Next]_vars => RoundsAgree'
<1> SUFFICES ASSUME TypeOK, RoundsAgree, [Next]_vars PROVE RoundsAgree'
  OBVIOUS
<1> USE LimitsAssumption DEF TypeOK, Phases, RoundsAgree, loopVars, roundVars, budgetVars,
                             clockVars
<1>1. CASE Ask
  BY <1>1 DEF Ask
<1>2. CASE EndTurn \/ RequestTools
  BY <1>2 DEF EndTurn, RequestTools
<1>3. CASE Park \/ ParkRefused \/ StartBatch \/ EndBatch
  BY <1>3 DEF Park, ParkRefused, StartBatch, EndBatch, InRound
<1>4. CASE EndRound
  BY <1>4 DEF EndRound
<1>5. ASSUME NEW i \in Slots, RunBatch(i) PROVE RoundsAgree'
  BY <1>5 DEF RunBatch, Refuse, Dispatch, CallFails, CallReturns
<1>6. CASE Resume
  BY <1>6 DEF Resume
<1>7. CASE Expire \/ BecomeOverdue \/ UNCHANGED vars
  BY <1>7 DEF Expire, BecomeOverdue, vars
<1> QED BY <1>1, <1>2, <1>3, <1>4, <1>5, <1>6, <1>7 DEF Next, Loop

LEMMA NextPreservesResults ==
  TypeOK /\ ResultsAgree /\ [Next]_vars => ResultsAgree'
<1> SUFFICES ASSUME TypeOK, ResultsAgree, [Next]_vars PROVE ResultsAgree'
  OBVIOUS
<1> USE LimitsAssumption DEF TypeOK, ResultsAgree, loopVars, roundVars, budgetVars, clockVars
<1>1. CASE Ask \/ EndTurn \/ Park
  BY <1>1 DEF Ask, EndTurn, Park, InRound
<1>2. CASE RequestTools
  <2>1. PICK n \in Slots : requests' \in [1 .. n -> Reads \cup Gated]
    BY <1>2 DEF RequestTools, Requests
  <2>2. requests' \in Seq(Reads \cup Gated) /\ Len(requests') = n
    BY <2>1 DEF Slots
  <2>3. index' = 1 /\ answered' = [k \in 1 .. index' - 1 |-> k] /\ phase' = "tools"
    BY <1>2 DEF RequestTools
  <2> QED BY <2>2, <2>3 DEF Slots
<1>3. CASE ParkRefused
  <2>1. index \in 1 .. Len(requests) /\ index' = index + 1
    BY <1>3 DEF ParkRefused, InRound
  <2>2. answered' = [k \in 1 .. index' - 1 |-> k]
    BY <1>3, <2>1 DEF ParkRefused
  <2> QED BY <1>3, <2>1, <2>2 DEF ParkRefused, InRound
<1>4. CASE StartBatch
  <2>1. PICK end \in Batch : last' = end
    BY <1>4 DEF StartBatch
  <2>2. end \in index .. Len(requests)
    BY <2>1 DEF Batch
  <2> QED BY <1>4, <2>1, <2>2 DEF StartBatch
<1>5. CASE EndBatch
  <2>1. last \in index .. Len(requests) /\ index \in Nat \ {0} /\ last \in Nat
    BY <1>5 DEF EndBatch
  <2>2. answered' = [k \in 1 .. last |-> k]
    <3>1. answered' = [k \in 1 .. index - 1 |-> k]
                        \o [k \in 1 .. last - index + 1 |-> index + k - 1]
      BY <1>5 DEF EndBatch
    <3>2. index <= last + 1
      BY <2>1
    <3> QED BY <2>1, <3>1, <3>2, BatchInOrder
  <2>3. index' = last + 1 /\ phase' = "tools" /\ requests' = requests
    BY <1>5 DEF EndBatch
  <2> QED BY <2>1, <2>2, <2>3
<1>6. CASE EndRound
  BY <1>6 DEF EndRound
<1>7. ASSUME NEW i \in Slots, RunBatch(i) PROVE ResultsAgree'
  BY <1>7 DEF RunBatch, Refuse, Dispatch, CallFails, CallReturns
<1>8. CASE Resume
  BY <1>8 DEF Resume
<1>9. CASE Expire \/ BecomeOverdue \/ UNCHANGED vars
  BY <1>9 DEF Expire, BecomeOverdue, vars
<1> QED
  BY <1>1, <1>2, <1>3, <1>4, <1>5, <1>6, <1>7, <1>8, <1>9 DEF Next, Loop

\* The invariant behind the limits: counters, rounds and results agree with
\* what the loop has done, at every step of execute_parallel and run_loop.
THEOREM LoopInvariant == Spec => []IInv
<1>1. IInv /\ [Next]_vars => IInv'
  BY NextPreservesTypes, NextPreservesCounts, NextPreservesRounds, NextPreservesResults
  DEF IInv
<1> QED BY InitEstablishes, <1>1, PTL DEF Spec

\* Every reachable state of the loop is well formed (TypeOK), whatever the
\* provider requests.
THEOREM LoopTypeCorrect == Spec => []TypeOK
<1>1. IInv => TypeOK
  BY DEF IInv
<1> QED BY LoopInvariant, <1>1, PTL

\* try_reserve_call and try_reserve_signature hold for any number of
\* concurrent calls: CallsBounded.
THEOREM CallLimitsHold == Spec => []CallsBounded
<1>1. IInv => CallsBounded
  BY DEF IInv, CountsAgree, TypeOK, CallsBounded
<1> QED BY LoopInvariant, <1>1, PTL

\* try_reserve_bytes keeps what the provider sees within max_result_bytes:
\* BytesBounded.
THEOREM ByteLimitHolds == Spec => []BytesBounded
<1>1. IInv => BytesBounded
  BY DEF IInv, CountsAgree, BytesBounded
<1> QED BY LoopInvariant, <1>1, PTL

\* run_loop asks the provider at most max_tool_rounds + 1 times: RoundsBounded.
THEOREM RoundLimitHolds == Spec => []RoundsBounded
<1>1. IInv => RoundsBounded
  BY LimitsAssumption DEF IInv, TypeOK, RoundsAgree, RoundsBounded
<1> QED BY LoopInvariant, <1>1, PTL

\* The transcript handed back to the provider is complete and in order for
\* rounds of any length: ResultsInOrder.
THEOREM TranscriptComplete == Spec => []ResultsInOrder
<1>1. IInv => ResultsInOrder
  BY DEF IInv, TypeOK, ResultsAgree, ResultsInOrder
<1> QED BY LoopInvariant, <1>1, PTL

-----------------------------------------------------------------------------
(* The broker.                                                             *)

\* Calls wait and run only in the batch that the loop has started.
BatchAgrees ==
  \A i \in Slots : slots[i] \in {"waiting", "running"} =>
    phase = "batch" /\ i \in index .. last /\ requests[i] \in Reads

\* Who is past the checks of the broker runs, and carries the credential of its tool.
StepsAgree ==
  \A i \in Slots : step[i] # "none" =>
    /\ slots[i] = "running"
    /\ Known(i) /\ Permitted(Tool(i), deployment.scopes)
    /\ step[i] \in {"egress", "sent"} => bearer[i] = Credential(i)

Shape ==
  /\ deployment \in Deployments
  /\ DOMAIN step = Slots /\ DOMAIN bearer = Slots /\ DOMAIN sent = Slots
  /\ \A i \in DOMAIN requests : WellFormed(given[i])

BInv == IInv /\ BatchAgrees /\ StepsAgree /\ Shape /\ EffectsAsDeclared

-----------------------------------------------------------------------------
(* Every step of the broker is a step of the loop.                         *)

LEMMA CallImplements ==
  ASSUME NEW i \in Slots, Execute(i), deployment \in Deployments, StepsAgree
  PROVE  RunBatch(i) \/ UNCHANGED vars
<1>1. CASE BRefuse(i) \/ BDispatch(i)
  BY <1>1 DEF BRefuse, BDispatch, RunBatch
<1>2. CASE NotRecorded(i) \/ NoEgress(i) \/ RefusedByRegistry(i) \/ Refused(i)
  BY <1>2 DEF NotRecorded, NoEgress, RefusedByRegistry, Refused, Fails, RunBatch
<1>3. CASE BuildEgress(i)
  BY <1>3 DEF BuildEgress
<1>4. CASE Send(i)
  BY <1>4 DEF Send, Fails, RunBatch
<1>5. CASE Returns(i)
  <2>1. Known(i)
    BY <1>5 DEF Returns, StepsAgree
  <2>2. PICK v \in Tool(i).returns :
          IF Weight(v) > Tool(i).max_bytes
            THEN CallFails(i)
            ELSE CallReturns(i, Weight(Delivered(Tool(i), v)))
    BY <1>5 DEF Returns, Fails
  <2>3. CASE CallFails(i)
    BY <2>3 DEF RunBatch
  <2>4. CASE ~(Weight(v) > Tool(i).max_bytes)
    <3>1. \/ Weight(v) > Tool(i).max_bytes
          \/ Weight(Delivered(Tool(i), v)) \in Sizes
      BY <2>1, DeploymentsAssumption DEF Known, Tool, Meaning
    <3> QED BY <2>2, <2>4, <3>1 DEF RunBatch
  <2> QED BY <2>2, <2>3, <2>4
<1> QED BY <1>1, <1>2, <1>3, <1>4, <1>5 DEF Execute

LEMMA StepImplements == BInv /\ [BNext]_bvars => [Next]_vars
<1> SUFFICES ASSUME BInv, BNext PROVE Next \/ UNCHANGED vars
  BY DEF bvars
<1>1. CASE \/ BRequestTools \/ BPark \/ BParkRefused \/ BEndBatch
  BY <1>1 DEF BRequestTools, BPark, BParkRefused, BEndBatch, Next, Loop
<1>2. CASE BResume \/ Elsewhere
  BY <1>2 DEF BResume, Elsewhere, Next, Loop
<1>3. CASE \E i \in Slots : Execute(i)
  BY <1>3, CallImplements DEF BInv, Shape, Next
<1> QED BY <1>1, <1>2, <1>3 DEF BNext

-----------------------------------------------------------------------------
(* The broker's own state.                                                 *)

LEMMA CanonicalTwice ==
  ASSUME NEW v, WellFormed(v)
  PROVE  Canonical(Canonical(v)) = Canonical(v)
<1> DEFINE c == Canonical(v)
<1>1. DOMAIN c = DOMAIN v
  BY DEF Canonical
<1>2. ASSUME NEW p \in DOMAIN v PROVE Canonical(c)[p] = c[p]
  <2>1. CASE v[p].kind = "string"
    <3>1. c[p].kind = "string" /\ c[p].text = Nfc[v[p].text] /\ v[p].text \in Texts
      BY <2>1, <1>2 DEF Canonical, Node, WellFormed
    <3>2. Nfc[c[p].text] = c[p].text
      BY <3>1, TextsAssumption
    <3>3. c[p] = Node("string", Nfc[v[p].text])
      BY <2>1, <1>2 DEF Canonical
    <3> HIDE DEF c
    <3> QED BY <3>1, <3>2, <3>3, <1>1, <1>2 DEF Canonical
  <2>2. CASE v[p].kind # "string"
    BY <2>2, <1>2 DEF Canonical
  <2> QED BY <2>1, <2>2
<1>3. Canonical(c) = [p \in DOMAIN v |-> Canonical(c)[p]]
  BY <1>1 DEF Canonical
<1>4. c = [p \in DOMAIN v |-> c[p]]
  BY DEF Canonical
<1> QED BY <1>2, <1>3, <1>4

\* A failing call is done with.
LEMMA FailureFrame ==
  ASSUME NEW i \in Slots, NEW code, Fails(i, code), TypeOK, Shape
  PROVE  /\ UNCHANGED <<phase, requests, index, last, deployment, given, bearer, sent>>
         /\ slots' = [slots EXCEPT ![i] = "failed"]
         /\ step' = [step EXCEPT ![i] = "none"]
         /\ slots'[i] = "failed" /\ step'[i] = "none"
  BY DEF Fails, CallFails, Conclude, Settle, Shape, TypeOK, loopVars, roundVars

\* A step of one call leaves the other calls alone.
LEMMA CallFrame ==
  ASSUME NEW i \in Slots, Execute(i), TypeOK, Shape
  PROVE  /\ UNCHANGED <<phase, requests, index, last, deployment, given>>
         /\ DOMAIN step' = Slots /\ DOMAIN bearer' = Slots /\ DOMAIN sent' = Slots
         /\ \A j \in Slots \ {i} : /\ slots'[j] = slots[j] /\ step'[j] = step[j]
                                   /\ bearer'[j] = bearer[j] /\ sent'[j] = sent[j]
<1> USE DEF TypeOK, Shape, loopVars, roundVars
<1>1. CASE BRefuse(i)
  BY <1>1 DEF BRefuse, Refuse, Conclude, Settle
<1>2. CASE BDispatch(i)
  BY <1>2 DEF BDispatch, Dispatch, Settle
<1>3. ASSUME NEW code, Fails(i, code)
      PROVE  /\ UNCHANGED <<phase, requests, index, last, deployment, given>>
             /\ DOMAIN step' = Slots /\ DOMAIN bearer' = Slots /\ DOMAIN sent' = Slots
             /\ \A j \in Slots \ {i} : /\ slots'[j] = slots[j] /\ step'[j] = step[j]
                                       /\ bearer'[j] = bearer[j] /\ sent'[j] = sent[j]
  BY <1>3, FailureFrame
<1>4. CASE NotRecorded(i) \/ NoEgress(i) \/ RefusedByRegistry(i) \/ Refused(i)
  BY <1>4, <1>3 DEF NotRecorded, NoEgress, RefusedByRegistry, Refused
<1>5. CASE BuildEgress(i)
  BY <1>5 DEF BuildEgress, vars
<1>6. CASE Send(i)
  BY <1>6, <1>3 DEF Send, vars
<1>7. CASE Returns(i)
  <2>1. ASSUME NEW v, CallReturns(i, Weight(v))
        PROVE  /\ UNCHANGED <<phase, requests, index, last>>
               /\ \A j \in Slots \ {i} : slots'[j] = slots[j]
    BY <2>1 DEF CallReturns, Settle
  <2>2. ASSUME NEW result, Conclude(i, result), UNCHANGED sent
        PROVE  /\ UNCHANGED <<deployment, given>>
               /\ DOMAIN step' = Slots /\ DOMAIN bearer' = Slots /\ DOMAIN sent' = Slots
               /\ \A j \in Slots \ {i} : /\ step'[j] = step[j]
                                         /\ bearer'[j] = bearer[j] /\ sent'[j] = sent[j]
    BY <2>2 DEF Conclude
  <2>3. \/ Fails(i, "result_too_large")
        \/ \E v : /\ CallReturns(i, Weight(v)) /\ UNCHANGED sent
                  /\ \E result : Conclude(i, result)
    BY <1>7 DEF Returns
  <2> QED BY <1>3, <2>1, <2>2, <2>3
<1> QED BY <1>1, <1>2, <1>4, <1>5, <1>6, <1>7 DEF Execute

LEMMA CallWaits ==
  ASSUME NEW i \in Slots, Execute(i), BInv
  PROVE  BatchAgrees'
<1>1. slots'[i] \in {"waiting", "running"} => slots[i] \in {"waiting", "running"}
  <2>1. CASE BRefuse(i) \/ BDispatch(i)
    BY <2>1 DEF BRefuse, BDispatch, Refuse, Dispatch
  <2>2. ASSUME NEW code, Fails(i, code) PROVE slots[i] = "running"
    BY <2>2 DEF Fails, CallFails
  <2>3. CASE NotRecorded(i) \/ NoEgress(i) \/ RefusedByRegistry(i) \/ Refused(i)
    BY <2>3, <2>2 DEF NotRecorded, NoEgress, RefusedByRegistry, Refused
  <2>4. CASE BuildEgress(i)
    BY <2>4 DEF BuildEgress, vars, roundVars
  <2>5. CASE Send(i)
    BY <2>5, <2>2 DEF Send, vars, roundVars
  <2>6. CASE Returns(i)
    BY <2>6 DEF Returns, BInv, StepsAgree
  <2> QED BY <2>1, <2>3, <2>4, <2>5, <2>6 DEF Execute
<1> QED BY <1>1, CallFrame DEF BInv, IInv, BatchAgrees

LEMMA CallSteps ==
  ASSUME NEW i \in Slots, Execute(i), BInv
  PROVE  StepsAgree'
<1> USE DEF BInv, IInv
<1>1. \A j \in Slots : /\ Known(j)' = Known(j) /\ Credential(j)' = Credential(j)
                       /\ Permitted(Tool(j), deployment.scopes)'
                            = Permitted(Tool(j), deployment.scopes)
  BY CallFrame DEF Known, Credential, Tool, Meaning, Permitted
<1>2. step'[i] # "none" =>
        /\ slots'[i] = "running"
        /\ Known(i) /\ Permitted(Tool(i), deployment.scopes)
        /\ step'[i] \in {"egress", "sent"} => bearer'[i] = Credential(i)
  <2>1. ASSUME NEW result, Conclude(i, result) PROVE step'[i] = "none"
    BY <2>1 DEF Conclude, Shape
  <2>2. CASE BRefuse(i)
    BY <2>2, <2>1 DEF BRefuse
  <2>3. CASE BDispatch(i)
    <3>1. Known(i) /\ Permitted(Tool(i), deployment.scopes)
      BY <2>3 DEF BDispatch, Objection
    <3>2. slots'[i] = "running" /\ step'[i] \in {"recorded", "unrecorded"}
      BY <2>3 DEF BDispatch, Dispatch, Settle, TypeOK, Shape
    <3> QED BY <3>1, <3>2
  <2>4. ASSUME NEW code, Fails(i, code) PROVE step'[i] = "none"
    BY <2>4, <2>1 DEF Fails
  <2>5. CASE NotRecorded(i) \/ NoEgress(i) \/ RefusedByRegistry(i) \/ Refused(i)
    BY <2>5, <2>4 DEF NotRecorded, NoEgress, RefusedByRegistry, Refused
  <2>6. CASE BuildEgress(i)
    <3>1. step[i] = "recorded" /\ bearer'[i] = Credential(i) /\ slots' = slots
      BY <2>6 DEF BuildEgress, Shape, vars, roundVars
    <3> QED BY <3>1 DEF StepsAgree
  <2>7. CASE Send(i)
    <3>1. CASE step' = [step EXCEPT ![i] = "sent"] /\ UNCHANGED <<slots, bearer>>
      BY <2>7, <3>1 DEF Send, StepsAgree
    <3> QED BY <2>7, <2>4, <3>1 DEF Send, vars, roundVars
  <2>8. CASE Returns(i)
    BY <2>8, <2>1, <2>4 DEF Returns
  <2> QED BY <2>2, <2>3, <2>5, <2>6, <2>7, <2>8 DEF Execute
<1> QED BY <1>1, <1>2, CallFrame DEF StepsAgree

\* Only the request that a tool was bound to gets past the egress.
LEMMA RequestBound ==
  ASSUME NEW bases, NEW bound, NEW ask, Request(bases, bound, ask) = "ok"
  PROVE  ask.egress = bound /\ bound.service \in DOMAIN bases
  BY DEF Request, Resolve

\* Without dot segments nothing is taken out of a path.
LEMMA StraightPath ==
  ASSUME NEW path, path = [k \in DOMAIN path |-> path[k]],
         \A k \in DOMAIN path : path[k] \notin DotSegments,
         DOMAIN path = 1 .. Len(path), Len(path) \in Nat
  PROVE  Normalized(path) = path
<1>1. ASSUME NEW k \in DOMAIN path PROVE ~TakenBack(path, k)
  <2>1. \A j \in k + 1 .. Len(path) : j \in DOMAIN path
    OBVIOUS
  <2> QED BY <2>1 DEF TakenBack, DotSegments
<1>2. {l \in DOMAIN path : path[l] \notin DotSegments /\ ~TakenBack(path, l)} = DOMAIN path
  BY <1>1
<1> QED BY <1>2, Zenon DEF Normalized

LEMMA PathDeclared ==
  ASSUME NEW bases, NEW egress, NEW params,
         bases[egress.service] \in Seq(STRING), egress.path \in Seq(STRING)
  PROVE  AsDeclared(Normalized(Filled(bases, egress, params)), Filled(bases, egress, params))
<1>1. PICK path : path = Filled(bases, egress, params)
  OBVIOUS
<1>2. PICK segments, base, template :
        /\ segments = STRING \cup {params[egress.path[k]] : k \in DOMAIN egress.path}
        /\ base = bases[egress.service]
        /\ template = [k \in DOMAIN egress.path |->
             IF egress.path[k] \in egress.holes THEN params[egress.path[k]] ELSE egress.path[k]]
  OBVIOUS
<1>3. base \in Seq(segments) /\ template \in Seq(segments) /\ path = base \o template
  <2>1. base \in Seq(segments)
    BY <1>2
  <2>2. \A k \in DOMAIN egress.path : template[k] \in segments
    BY <1>2
  <2>3. DOMAIN egress.path = 1 .. Len(egress.path) /\ Len(egress.path) \in Nat
    OBVIOUS
  <2>4. template \in Seq(segments)
    BY <1>2, <2>2, <2>3
  <2>5. path = base \o template
    BY <1>1, <1>2, Zenon DEF Filled
  <2> QED BY <2>1, <2>4, <2>5
<1>4. path = [k \in DOMAIN path |-> path[k]] /\ DOMAIN path = 1 .. Len(path) /\ Len(path) \in Nat
  <2>1. path \in Seq(segments)
    BY <1>3
  <2> QED BY <2>1
<1>5. AsDeclared(Normalized(path), path)
  BY <1>4, StraightPath DEF AsDeclared
<1> QED BY <1>1, <1>5, Zenon

\* What EffectsAsDeclared says of one request.
Declared(i, s) ==
  /\ Known(i) /\ ~Tool(i).gated /\ Permitted(Tool(i), deployment.scopes)
  /\ s.egress = Tool(i).egress /\ s.egress.service \in DOMAIN deployment.bases
  /\ AsDeclared(s.path, Filled(deployment.bases, Tool(i).egress, s.params))
  /\ s.bearer = "minted" <=> Tool(i).auth = "minted"
  /\ Canonical(s.arguments) = s.arguments
  /\ ValidArguments(Tool(i).input, s.arguments)
  /\ ~s.late

LEMMA SendDeclared ==
  ASSUME NEW i \in Slots, BInv, step[i] = "egress", Checked(i) = "ok",
         NEW ask, Request(deployment.bases, Tool(i).egress, ask) = "ok"
  PROVE  Declared(i, SendOf(i, ask))
<1> USE DEF BInv, IInv
<1>1. /\ slots[i] = "running" /\ Known(i) /\ Permitted(Tool(i), deployment.scopes)
      /\ bearer[i] = Credential(i)
  BY DEF StepsAgree
<1>2. i \in index .. last /\ requests[i] \in Reads /\ phase = "batch"
  BY <1>1 DEF BatchAgrees
<1>3. ~Tool(i).gated
  <2>1. requests[i] \notin Gated
    BY <1>2, LimitsAssumption
  <2>2. requests[i] \in CallsOf(deployment)
    BY <1>1, <1>2 DEF CallsOf, Known, Meaning
  <2> QED BY <2>1, <2>2, DeploymentsAssumption DEF Shape, Tool, Meaning
<1>4. bearer[i] = "minted" <=> Tool(i).auth = "minted"
  BY <1>1 DEF Credential
<1>5. ValidArguments(Tool(i).input, Arguments(i)) /\ ~expired
  BY DEF Checked
<1>6. Canonical(Arguments(i)) = Arguments(i)
  <2>1. i \in DOMAIN requests
    BY <1>2 DEF ResultsAgree, TypeOK
  <2> QED BY <2>1, CanonicalTwice DEF Arguments, Shape
<1>7. ask.egress = Tool(i).egress /\ Tool(i).egress.service \in DOMAIN deployment.bases
  BY RequestBound
<1>8. AsDeclared(Normalized(Filled(deployment.bases, Tool(i).egress, ask.params)),
                 Filled(deployment.bases, Tool(i).egress, ask.params))
  <2>1. Tool(i).egress.path \in Seq(STRING)
    BY <1>1, DeploymentsAssumption DEF Shape, Known, Tool
  <2>2. deployment.bases[Tool(i).egress.service] \in Seq(STRING)
    BY <1>7, DeploymentsAssumption DEF Shape
  <2> QED BY <2>1, <2>2, PathDeclared
<1>9. /\ SendOf(i, ask).egress = Tool(i).egress /\ SendOf(i, ask).params = ask.params
      /\ SendOf(i, ask).path = Normalized(Filled(deployment.bases, Tool(i).egress, ask.params))
      /\ SendOf(i, ask).bearer = bearer[i] /\ SendOf(i, ask).arguments = Arguments(i)
      /\ SendOf(i, ask).late = expired
  BY <1>7 DEF SendOf
<1> QED BY <1>1, <1>3, <1>4, <1>5, <1>6, <1>7, <1>8, <1>9 DEF Declared

LEMMA CallEffects ==
  ASSUME NEW i \in Slots, Execute(i), BInv
  PROVE  EffectsAsDeclared'
<1> USE DEF BInv, IInv
<1>1. UNCHANGED <<requests, deployment>>
  BY CallFrame
<1>2. \/ sent'[i] = sent[i]
      \/ /\ step[i] = "egress" /\ Checked(i) = "ok"
         /\ \E ask : /\ Request(deployment.bases, Tool(i).egress, ask) = "ok"
                     /\ sent'[i] = SendOf(i, ask)
  <2>1. CASE Send(i)
    <3>1. ASSUME NEW code, Fails(i, code) PROVE UNCHANGED sent
      BY <3>1 DEF Fails
    <3> QED BY <2>1, <3>1 DEF Send, Shape
  <2>2. CASE ~Send(i)
    BY <2>2 DEF Execute, BRefuse, BDispatch, NotRecorded, BuildEgress, NoEgress,
                RefusedByRegistry, Refused, Returns, Fails
  <2> QED BY <2>1, <2>2
<1>3. \A j \in Slots : sent[j].there => Declared(j, sent[j])
  BY DEF EffectsAsDeclared, Declared
<1>4. sent'[i].there => Declared(i, sent'[i])
  BY <1>2, <1>3, SendDeclared
<1>5. \A j \in Slots \ {i} : sent'[j] = sent[j]
  BY CallFrame
<1>6. \A j \in Slots : sent'[j].there => Declared(j, sent'[j])
  BY <1>3, <1>4, <1>5
<1>7. ASSUME NEW j \in Slots, sent'[j].there
      PROVE  /\ (Known(j) /\ ~Tool(j).gated /\ Permitted(Tool(j), deployment.scopes))'
             /\ sent'[j].egress = Tool(j).egress' /\ sent'[j].egress.service \in DOMAIN deployment.bases'
             /\ AsDeclared(sent[j].path, Filled(deployment.bases, Tool(j).egress, sent[j].params))'
             /\ sent'[j].bearer = "minted" <=> Tool(j).auth' = "minted"
             /\ Canonical(sent'[j].arguments) = sent'[j].arguments
             /\ ValidArguments(Tool(j).input, sent[j].arguments)'
             /\ ~sent'[j].late
  <2>1. Known(j)' = Known(j) /\ Tool(j)' = Tool(j)
    BY <1>1 DEF Known, Tool, Meaning
  <2>2. Declared(j, sent'[j])
    BY <1>6, <1>7
  <2> QED BY <1>1, <2>1, <2>2 DEF Declared
<1> QED BY <1>7 DEF EffectsAsDeclared

\* What the broker adds to the invariant of the loop.
CallsAgree == BatchAgrees /\ StepsAgree /\ Shape /\ EffectsAsDeclared

\* A new round, and a decision, forget the calls of the round before.
LEMMA FreshRound ==
  ASSUME Shape, deployment' = deployment, slots' = NoSlots,
         step' = Fresh("none"), bearer' = Fresh("none"), sent' = Fresh(NoSend),
         \A i \in DOMAIN requests' : WellFormed(given'[i])
  PROVE  CallsAgree'
<1>1. BatchAgrees'
  BY DEF BatchAgrees, NoSlots
<1>2. StepsAgree'
  BY DEF StepsAgree, Fresh
<1>3. Shape'
  BY DEF Shape, Fresh
<1>4. EffectsAsDeclared'
  <2>1. \A i \in Slots : ~sent'[i].there
    BY DEF Fresh, NoSend
  <2> QED BY <2>1 DEF EffectsAsDeclared
<1> QED BY <1>1, <1>2, <1>3, <1>4 DEF CallsAgree

\* A step of the loop in which no call moves leaves the calls as they are.
LEMMA QuietStep ==
  ASSUME StepsAgree, Shape, EffectsAsDeclared, BatchAgrees',
         UNCHANGED <<requests, callVars, deployment>>,
         \A i \in Slots : slots[i] = "running" => slots'[i] = "running"
  PROVE  CallsAgree'
<1> USE DEF callVars
<1>1. StepsAgree'
  BY DEF StepsAgree, Known, Tool, Meaning, Credential, Permitted
<1>2. Shape'
  BY DEF Shape
<1>3. EffectsAsDeclared'
  <2>1. \A i \in Slots : Known(i)' = Known(i) /\ Tool(i)' = Tool(i)
    BY DEF Known, Tool, Meaning
  <2> QED BY <2>1 DEF EffectsAsDeclared
<1> QED BY <1>1, <1>2, <1>3 DEF CallsAgree

LEMMA BrokerStep == BInv /\ [BNext]_bvars => CallsAgree'
<1> SUFFICES ASSUME BInv, [BNext]_bvars PROVE CallsAgree'
  OBVIOUS
<1> USE DEF BInv, IInv
<1>1. CASE BRequestTools
  <2>0. PICK n \in Slots : requests' \in [1 .. n -> Reads \cup Gated]
    BY <1>1 DEF BRequestTools, RequestTools, Requests
  <2>1. \A i \in DOMAIN requests' : given'[i] \in deployment.means[requests'[i]].spellings
    <3>1. DOMAIN requests' \subseteq Slots
      BY <2>0, LimitsAssumption DEF Slots
    <3> QED BY <1>1, <3>1 DEF BRequestTools
  <2>2. \A i \in DOMAIN requests' : requests'[i] \in Reads \cup Gated
    BY <2>0
  <2>3. \A i \in DOMAIN requests' : WellFormed(given'[i])
    BY <2>1, <2>2, DeploymentsAssumption DEF Shape
  <2> QED BY <1>1, <2>3, FreshRound DEF BRequestTools, RequestTools
<1>2. CASE BResume
  <2>1. requests' = <<>>
    BY <1>2 DEF BResume, Resume
  <2> QED BY <1>2, <2>1, FreshRound DEF BResume, Resume
<1>3. CASE BPark \/ BParkRefused
  <2>1. UNCHANGED <<requests, callVars, deployment, slots>>
    BY <1>3 DEF BPark, BParkRefused, Park, ParkRefused, roundVars, brokerVars
  <2>2. \A i \in Slots : slots[i] \notin {"waiting", "running"}
    BY <1>3 DEF BPark, BParkRefused, Park, ParkRefused, InRound, BatchAgrees
  <2>3. BatchAgrees'
    BY <2>1, <2>2 DEF BatchAgrees
  <2> QED BY <2>1, <2>3, QuietStep
<1>4. CASE BEndBatch
  <2>1. UNCHANGED <<requests, callVars, deployment, slots>>
    BY <1>4 DEF BEndBatch, EndBatch
  <2>2. \A i \in Slots : slots[i] \notin {"waiting", "running"}
    BY <1>4 DEF BEndBatch, EndBatch, BatchAgrees
  <2>3. BatchAgrees'
    BY <2>1, <2>2 DEF BatchAgrees
  <2> QED BY <2>1, <2>3, QuietStep
<1>5. CASE StartBatch /\ UNCHANGED brokerVars
  <2>1. PICK end \in Batch : end + 1 \notin Batch /\ last' = end
    BY <1>5 DEF StartBatch
  <2>2. \A i \in Batch : i \in index .. end /\ requests[i] \in Reads
    <3> SUFFICES ASSUME NEW i \in Batch PROVE i <= end /\ requests[i] \in Reads
      BY DEF Batch
    <3>1. i \in index .. Len(requests) /\ end \in index .. Len(requests)
      BY <2>1 DEF Batch
    <3>2. i > end => end + 1 \in Batch
      BY <3>1 DEF Batch, TypeOK
    <3> QED BY <2>1, <3>1, <3>2 DEF Batch, TypeOK
  <2>3. /\ slots' = [i \in Slots |-> IF i \in Batch THEN "waiting" ELSE "none"]
        /\ phase' = "batch" /\ UNCHANGED <<requests, index>>
    BY <1>5 DEF StartBatch
  <2>4. BatchAgrees'
    BY <2>1, <2>2, <2>3 DEF BatchAgrees
  <2>5. \A i \in Slots : slots[i] # "running"
    BY <1>5 DEF StartBatch, InRound, BatchAgrees
  <2> QED BY <1>5, <2>3, <2>4, <2>5, QuietStep DEF brokerVars
<1>6. CASE /\ Ask \/ EndTurn \/ EndRound \/ Expire \/ BecomeOverdue \/ UNCHANGED vars
           /\ UNCHANGED brokerVars
  <2>1. UNCHANGED <<requests, index, last, slots>>
    BY <1>6 DEF Ask, EndTurn, EndRound, Expire, BecomeOverdue, vars, roundVars
  <2>2. phase = "batch" => phase' = "batch"
    BY <1>6 DEF Ask, EndTurn, EndRound, Expire, BecomeOverdue, vars, loopVars
  <2>3. BatchAgrees'
    BY <2>1, <2>2 DEF BatchAgrees
  <2> QED BY <1>6, <2>1, <2>3, QuietStep DEF brokerVars
<1>7. ASSUME NEW i \in Slots, Execute(i) PROVE CallsAgree'
  <2>1. Shape'
    <3>1. /\ DOMAIN step' = Slots /\ DOMAIN bearer' = Slots /\ DOMAIN sent' = Slots
          /\ UNCHANGED <<requests, deployment, given>>
      BY <1>7, CallFrame
    <3> QED BY <3>1 DEF Shape
  <2> QED BY <1>7, <2>1, CallWaits, CallSteps, CallEffects DEF CallsAgree
<1> QED
  BY <1>1, <1>2, <1>3, <1>4, <1>5, <1>6, <1>7 DEF BNext, Elsewhere, bvars

LEMMA BInitEstablishes == BInit => BInv
<1> SUFFICES ASSUME BInit PROVE BInv
  OBVIOUS
<1>1. IInv
  BY InitEstablishes DEF BInit
<1>2. BatchAgrees
  BY DEF BInit, Init, BatchAgrees, NoSlots
<1>3. StepsAgree
  BY DEF BInit, StepsAgree, Fresh
<1>4. Shape
  BY DEF BInit, Init, Shape, Fresh
<1>5. EffectsAsDeclared
  <2>1. \A i \in Slots : ~sent[i].there
    BY DEF BInit, Fresh, NoSend
  <2> QED BY <2>1 DEF EffectsAsDeclared
<1> QED BY <1>1, <1>2, <1>3, <1>4, <1>5 DEF BInv

\* The invariant of ToolBroker::execute and dispatch: what each call has passed,
\* carries and has sent agrees with the state of the loop.
THEOREM BrokerInvariant == BSpec => []BInv
<1>1. BInv /\ [BNext]_bvars => IInv'
  BY StepImplements, NextPreservesTypes, NextPreservesCounts, NextPreservesRounds,
     NextPreservesResults DEF BInv, IInv
<1>2. BInv /\ [BNext]_bvars => BInv'
  BY <1>1, BrokerStep DEF BInv, CallsAgree
<1> QED BY BInitEstablishes, <1>2, PTL DEF BSpec

\* Every behaviour of the broker in detail is one of the tool loop: whatever is
\* proved of the loop's budget and transcript holds for the broker.
THEOREM BrokerImplementsLoop == BSpec => Spec
<1>1. BInit => Init
  BY DEF BInit
<1> QED BY <1>1, StepImplements, BrokerInvariant, PTL DEF BSpec, Spec

\* What reaches a service was declared, permitted, validated in its canonical
\* form and sent in time: EffectsAsDeclared, for every deployment.
THEOREM RequestsDeclared == BSpec => []EffectsAsDeclared
<1>1. BInv => EffectsAsDeclared
  BY DEF BInv
<1> QED BY BrokerInvariant, <1>1, PTL

\* The limits of a budget and the order of the results hold for the calls in
\* detail: CallsBounded, BytesBounded and ResultsInOrder.
THEOREM BrokerKeepsLimits == BSpec => [](CallsBounded /\ BytesBounded /\ ResultsInOrder)
  BY BrokerImplementsLoop, CallLimitsHold, ByteLimitHolds, TranscriptComplete, PTL

-----------------------------------------------------------------------------
(* The books agree with what the provider is told.                         *)

\* What the provider has been told of a call, or will be.
Account(i) == IF i \in DOMAIN told THEN told[i] ELSE outcome[i]

Untouched(i) ==
  outcome[i] = NoOutcome /\ rows[i] = "none" /\ audited[i] = NoEntry /\ ~sent[i].there

Underway(i) ==
  /\ outcome[i] = NoOutcome /\ audited[i] = NoEntry
  /\ step[i] \in {"recorded", "unrecorded", "egress", "sent"}
  /\ rows[i] = IF step[i] = "unrecorded" THEN "none" ELSE "running"
  /\ sent[i].there => step[i] = "sent"
  /\ step[i] = "sent" => ValidArguments(Tool(i).input, Arguments(i))

\* The provider is told of the calls behind index; nothing has happened to those
\* that were not looked at, and nothing is known of those that run.
Progress ==
  /\ phase \in {"tools", "batch", "ask"} => Len(told) = index - 1
  /\ phase = "tools" => \A i \in Slots : i >= index => Untouched(i)
  /\ phase = "batch" => \A i \in Slots : i > last => Untouched(i)
  /\ \A i \in Slots : slots[i] = "waiting" => Untouched(i)
  /\ \A i \in Slots : slots[i] = "running" => Underway(i)

\* A row and an entry that do not contradict the answer to the provider, nor
\* that the call's request has reached a service.
Truthful(code, row, entry) ==
  /\ "succeeded" \in {row, entry.outcome} => code = "ok"
  /\ code = "ok" => /\ row \in {"running", "succeeded"}
                    /\ entry \in {NoEntry, Entry("succeeded", "allowed")}
  /\ row = "denied" => code = "not_permitted"
Undenied(there, row, entry) == there => row # "none" /\ entry.decision # "denied"

Booked ==
  \A i \in Slots : /\ Truthful(Account(i).code, rows[i], audited[i])
                   /\ Undenied(sent[i].there, rows[i], audited[i])

\* A result is given to calls that were valid, and is what the tool returned.
Earned(i, account) ==
  account.code = "ok" =>
    /\ Known(i) /\ ValidArguments(Tool(i).input, Arguments(i))
    /\ \E v \in Tool(i).returns : account.result = Delivered(Tool(i), v)

AllEarned == \A i \in Slots : Earned(i, Account(i))

Books ==
  /\ DOMAIN outcome = Slots /\ DOMAIN rows = Slots /\ DOMAIN audited = Slots
  /\ \E S : told \in Seq(S)
  /\ Len(requests) <= MaxBatch

BooksInv == BInv /\ Books /\ Progress /\ Booked /\ AllEarned

\* What is booked of a rejection, an objection and an execution.
LEMMA RejectionBooked ==
  ASSUME NEW i \in Slots, NEW code, code # "ok", BookRejection(i, code), Books,
         rows[i] \in {"none", "running"}, audited[i] = NoEntry
  PROVE  /\ Truthful(code, rows'[i], audited'[i])
         /\ DOMAIN rows' = Slots /\ DOMAIN audited' = Slots
         /\ \A j \in Slots \ {i} : rows'[j] = rows[j] /\ audited'[j] = audited[j]
<1>1. /\ \E status \in {StatusOf(code), rows[i], "running"} : rows' = [rows EXCEPT ![i] = status]
      /\ \E e \in {Entry(CASE code = "not_permitted" -> "denied"
                           [] code \in {"limit_exceeded", "rate_limited", "timeout"} -> code
                           [] OTHER -> "failed", "denied"), NoEntry} :
           audited' = [audited EXCEPT ![i] = e]
  BY DEF BookRejection, Book, Kept
<1>2. rows'[i] \in {StatusOf(code), "none", "running"}
  BY <1>1 DEF Books
<1>3. audited'[i].outcome # "succeeded"
  BY <1>1 DEF Books, Entry, NoEntry
<1>4. StatusOf(code) \in {"denied", "failed"} /\ (StatusOf(code) = "denied" => code = "not_permitted")
  BY DEF StatusOf
<1>5. Truthful(code, rows'[i], audited'[i])
  BY <1>2, <1>3, <1>4 DEF Truthful
<1> QED BY <1>1, <1>5 DEF Books

LEMMA ExecutionBooked ==
  ASSUME NEW i \in Slots, NEW code, BookExecution(i, code), Books,
         rows[i] = "running", audited[i] = NoEntry
  PROVE  /\ Truthful(code, rows'[i], audited'[i])
         /\ \A there : Undenied(there, rows'[i], audited'[i])
         /\ DOMAIN rows' = Slots /\ DOMAIN audited' = Slots
         /\ \A j \in Slots \ {i} : rows'[j] = rows[j] /\ audited'[j] = audited[j]
<1>1. /\ \E status \in {StatusOf(code), "running"} : rows' = [rows EXCEPT ![i] = status]
      /\ \E e \in {Entry(IF code = "ok" THEN "succeeded" ELSE "failed", "allowed"), NoEntry} :
           audited' = [audited EXCEPT ![i] = e]
  BY DEF BookExecution, Book, Kept
<1>2. rows'[i] \in {StatusOf(code), "running"}
  BY <1>1 DEF Books
<1>3. audited'[i] \in {Entry(IF code = "ok" THEN "succeeded" ELSE "failed", "allowed"), NoEntry}
  BY <1>1 DEF Books
<1>4. /\ StatusOf(code) \in {"succeeded", "denied", "failed"}
      /\ StatusOf(code) = "succeeded" <=> code = "ok"
      /\ StatusOf(code) = "denied" => code = "not_permitted"
  BY DEF StatusOf
<1>5. /\ audited'[i].outcome = "succeeded" => code = "ok"
      /\ audited'[i].decision # "denied"
      /\ code = "ok" => audited'[i] \in {NoEntry, Entry("succeeded", "allowed")}
  BY <1>3 DEF Entry, NoEntry
<1>6. Truthful(code, rows'[i], audited'[i])
  BY <1>2, <1>4, <1>5 DEF Truthful
<1>7. \A there : Undenied(there, rows'[i], audited'[i])
  BY <1>2, <1>4, <1>5 DEF Undenied
<1> QED BY <1>1, <1>6, <1>7 DEF Books

LEMMA ObjectionBooked ==
  ASSUME NEW i \in Slots, NEW code, code # "ok", NEW unknown \in {NoEntry, Entry("unknown", "denied")},
         BookObjection(i, code, unknown), Books, rows[i] = "none", audited[i] = NoEntry
  PROVE  /\ Truthful(code, rows'[i], audited'[i])
         /\ DOMAIN rows' = Slots /\ DOMAIN audited' = Slots
         /\ \A j \in Slots \ {i} : rows'[j] = rows[j] /\ audited'[j] = audited[j]
<1>1. CASE BookRejection(i, code)
  BY <1>1, RejectionBooked
<1>2. CASE \E e \in {Entry("failed", "denied"), NoEntry, Entry("unknown", "denied")} :
             rows' = [rows EXCEPT ![i] = "none"] /\ audited' = [audited EXCEPT ![i] = e]
  <2>1. rows'[i] = "none" /\ audited'[i].outcome # "succeeded"
    BY <1>2 DEF Books, Entry, NoEntry
  <2>2. Truthful(code, rows'[i], audited'[i])
    BY <2>1 DEF Truthful
  <2> QED BY <1>2, <2>2 DEF Books
<1>3. BookRejection(i, code) \/ Book(i, {"none"}, Entry("failed", "denied")) \/ Book(i, {"none"}, unknown)
  BY DEF BookObjection
<1> QED BY <1>1, <1>2, <1>3 DEF Book

\* What a step does to the books of its call, when it settles the call and when
\* it does not.
Settled(i) ==
  /\ slots'[i] \notin {"waiting", "running"}
  /\ Truthful(outcome'[i].code, rows'[i], audited'[i])
  /\ Undenied(sent'[i].there, rows'[i], audited'[i])
  /\ Earned(i, outcome'[i])

Others(i) ==
  /\ told' = told
  /\ DOMAIN outcome' = Slots /\ DOMAIN rows' = Slots /\ DOMAIN audited' = Slots
  /\ \A j \in Slots \ {i} : /\ outcome'[j] = outcome[j] /\ rows'[j] = rows[j]
                            /\ audited'[j] = audited[j]

LEMMA FailureSettles ==
  ASSUME BooksInv, NEW i \in Slots, NEW code, Fails(i, code), code # "ok",
         \/ BookExecution(i, code) /\ step[i] # "unrecorded"
         \/ BookRejection(i, code) /\ step[i] # "sent"
         \/ UNCHANGED bookVars /\ step[i] = "unrecorded"
  PROVE  Settled(i) /\ Others(i)
<1> USE DEF BooksInv, BInv, IInv
<1>1. slots[i] = "running" /\ Underway(i)
  BY DEF Fails, CallFails, Progress
<1>2. /\ outcome' = [outcome EXCEPT ![i] = Failed(code)] /\ told' = told /\ sent' = sent
      /\ slots'[i] = "failed"
  BY FailureFrame DEF Fails, Conclude
<1>3. outcome'[i].code = code /\ DOMAIN outcome' = Slots
  BY <1>2 DEF Books, Failed
<1>4. Earned(i, outcome'[i])
  BY <1>3 DEF Earned
<1>5. CASE BookExecution(i, code) /\ step[i] # "unrecorded"
  <2>1. rows[i] = "running" /\ audited[i] = NoEntry
    BY <1>1, <1>5 DEF Underway
  <2>2. /\ Truthful(code, rows'[i], audited'[i])
        /\ \A there : Undenied(there, rows'[i], audited'[i])
        /\ DOMAIN rows' = Slots /\ DOMAIN audited' = Slots
        /\ \A j \in Slots \ {i} : rows'[j] = rows[j] /\ audited'[j] = audited[j]
    BY <1>5, <2>1, ExecutionBooked
  <2> QED BY <1>2, <1>3, <1>4, <2>2 DEF Settled, Others
<1>6. CASE BookRejection(i, code) /\ step[i] # "sent"
  <2>1. rows[i] \in {"none", "running"} /\ audited[i] = NoEntry /\ ~sent[i].there
    BY <1>1, <1>6 DEF Underway
  <2>2. /\ Truthful(code, rows'[i], audited'[i])
        /\ DOMAIN rows' = Slots /\ DOMAIN audited' = Slots
        /\ \A j \in Slots \ {i} : rows'[j] = rows[j] /\ audited'[j] = audited[j]
    BY <1>6, <2>1, RejectionBooked
  <2> QED BY <1>2, <1>3, <1>4, <2>1, <2>2 DEF Settled, Others, Undenied
<1>7. CASE UNCHANGED bookVars /\ step[i] = "unrecorded"
  <2>1. rows[i] = "none" /\ audited[i] = NoEntry /\ ~sent[i].there /\ rows' = rows /\ audited' = audited
    BY <1>1, <1>7 DEF Underway, bookVars
  <2>2. Truthful(code, rows'[i], audited'[i])
    BY <2>1 DEF Truthful, NoEntry
  <2> QED BY <1>2, <1>3, <1>4, <2>1, <2>2 DEF Settled, Others, Undenied, Books
<1> QED BY <1>5, <1>6, <1>7

LEMMA ReturnSettles ==
  ASSUME BooksInv, NEW i \in Slots, Returns(i)
  PROVE  Settled(i) /\ Others(i)
<1> USE DEF BooksInv, BInv, IInv
<1>0. step[i] \in {"egress", "sent"} /\ (step[i] = "sent" \/ Checked(i) = "ok")
  BY DEF Returns
<1>1. slots[i] = "running" /\ Underway(i) /\ Known(i)
  BY <1>0 DEF Progress, StepsAgree
<1>2. ValidArguments(Tool(i).input, Arguments(i))
  BY <1>0, <1>1 DEF Underway, Checked
<1>3. PICK v \in Tool(i).returns :
        IF Weight(v) > Tool(i).max_bytes
          THEN Fails(i, "result_too_large") /\ BookExecution(i, "result_too_large")
          ELSE LET result == Delivered(Tool(i), v) IN
               /\ CallReturns(i, Weight(result))
               /\ LET code == IF slots'[i] = "succeeded" THEN "ok" ELSE "limit_exceeded" IN
                  /\ Conclude(i, [code |-> code, result |-> IF code = "ok" THEN result ELSE Nothing])
                  /\ BookExecution(i, code)
               /\ UNCHANGED sent
  BY DEF Returns
<1>4. CASE Weight(v) > Tool(i).max_bytes
  BY <1>0, <1>3, <1>4, FailureSettles
<1>5. CASE ~(Weight(v) > Tool(i).max_bytes)
  <2> DEFINE result == Delivered(Tool(i), v)
             code == IF slots'[i] = "succeeded" THEN "ok" ELSE "limit_exceeded"
  <2>1. /\ CallReturns(i, Weight(result)) /\ sent' = sent /\ BookExecution(i, code)
        /\ Conclude(i, [code |-> code, result |-> IF code = "ok" THEN result ELSE Nothing])
    BY <1>3, <1>5
  <2>2. slots'[i] \in {"succeeded", "failed"}
    BY <2>1 DEF CallReturns, Settle, TypeOK
  <2>3. /\ outcome' = [outcome EXCEPT ![i] =
                        [code |-> code, result |-> IF code = "ok" THEN result ELSE Nothing]]
        /\ told' = told
    BY <2>1 DEF Conclude
  <2>4. rows[i] = "running" /\ audited[i] = NoEntry
    BY <1>0, <1>1 DEF Underway
  <2>5. /\ Truthful(code, rows'[i], audited'[i])
        /\ \A there : Undenied(there, rows'[i], audited'[i])
        /\ DOMAIN rows' = Slots /\ DOMAIN audited' = Slots
        /\ \A j \in Slots \ {i} : rows'[j] = rows[j] /\ audited'[j] = audited[j]
    BY <2>1, <2>4, ExecutionBooked
  <2> HIDE DEF result, code
  <2>6. outcome'[i].code = code /\ (code = "ok" => outcome'[i].result = result) /\ DOMAIN outcome' = Slots
    BY <2>3 DEF Books
  <2>7. Earned(i, outcome'[i])
    BY <1>1, <1>2, <2>6 DEF Earned, result
  <2> QED BY <2>2, <2>3, <2>5, <2>6, <2>7 DEF Settled, Others
<1> QED BY <1>4, <1>5

\* What a call means and asks for does not change while the round lasts.
LEMMA SameArguments ==
  ASSUME UNCHANGED <<requests, deployment, given>>, NEW i
  PROVE  /\ Known(i)' = Known(i) /\ Tool(i)' = Tool(i) /\ Arguments(i)' = Arguments(i)
         /\ ValidArguments(Tool(i).input, Arguments(i))'
              = ValidArguments(Tool(i).input, Arguments(i))
<1>1. Known(i)' = Known(i) /\ Tool(i)' = Tool(i) /\ Arguments(i)' = Arguments(i)
  BY DEF Known, Tool, Meaning, Arguments
<1> QED BY <1>1

LEMMA CallBooked ==
  ASSUME BooksInv, NEW i \in Slots, Execute(i)
  PROVE  /\ phase = "batch" /\ slots[i] \in {"waiting", "running"}
         /\ Others(i)
         /\ Settled(i) \/ (slots'[i] = "running" /\ Underway(i)')
<1> USE DEF BooksInv, BInv, IInv
<1>0. UNCHANGED <<requests, deployment, given>>
  BY CallFrame
<1>1. CASE BRefuse(i)
  <2>1. phase = "batch" /\ slots[i] = "waiting" /\ slots'[i] = "failed" /\ told' = told /\ sent' = sent
    BY <1>1 DEF BRefuse, Refuse, Settle, Conclude, TypeOK
  <2>2. Untouched(i)
    BY <2>1 DEF Progress
  <2>3. ASSUME NEW code, code # "ok", Conclude(i, Failed(code)),
               \/ BookObjection(i, code, Entry("unknown", "denied"))
               \/ BookRejection(i, code)
        PROVE  Settled(i) /\ Others(i)
    <3>1. /\ Truthful(code, rows'[i], audited'[i])
          /\ DOMAIN rows' = Slots /\ DOMAIN audited' = Slots
          /\ \A j \in Slots \ {i} : rows'[j] = rows[j] /\ audited'[j] = audited[j]
      BY <2>2, <2>3, ObjectionBooked, RejectionBooked DEF Untouched
    <3>2. outcome' = [outcome EXCEPT ![i] = Failed(code)]
      BY <2>3 DEF Conclude
    <3>3. outcome'[i].code = code /\ DOMAIN outcome' = Slots
      BY <3>2 DEF Books, Failed
    <3>4. Earned(i, outcome'[i])
      BY <2>3, <3>3 DEF Earned
    <3>5. ~sent'[i].there
      BY <2>1, <2>2 DEF Untouched
    <3> QED BY <2>1, <3>1, <3>2, <3>3, <3>4, <3>5 DEF Settled, Others, Undenied
  <2>4. Objection(i) # "ok"
    BY DEF Objection
  <2>5. \E code : /\ code # "ok" /\ Conclude(i, Failed(code))
                  /\ \/ BookObjection(i, code, Entry("unknown", "denied"))
                     \/ BookRejection(i, code)
    <3>1. CASE Conclude(i, Failed(Objection(i))) /\ BookObjection(i, Objection(i), Entry("unknown", "denied"))
      BY <2>4, <3>1
    <3>2. CASE \E code \in {"timeout", "limit_exceeded"} : Conclude(i, Failed(code)) /\ BookRejection(i, code)
      BY <3>2
    <3> QED BY <1>1, <3>1, <3>2 DEF BRefuse
  <2> QED BY <2>1, <2>3, <2>5
<1>2. CASE BDispatch(i)
  <2>1. phase = "batch" /\ slots[i] = "waiting" /\ slots'[i] = "running"
    BY <1>2 DEF BDispatch, Dispatch, Settle, TypeOK
  <2>2. Untouched(i)
    BY <2>1 DEF Progress
  <2>3. UNCHANGED <<outcome, told, sent, audited>>
    BY <1>2 DEF BDispatch
  <2>4. \/ rows' = [rows EXCEPT ![i] = "running"] /\ step' = [step EXCEPT ![i] = "recorded"]
        \/ rows' = rows /\ step' = [step EXCEPT ![i] = "unrecorded"]
    BY <1>2 DEF BDispatch
  <2>5. /\ step'[i] \in {"recorded", "unrecorded"}
        /\ rows'[i] = IF step'[i] = "unrecorded" THEN "none" ELSE "running"
        /\ DOMAIN rows' = Slots /\ \A j \in Slots \ {i} : rows'[j] = rows[j]
    BY <2>2, <2>4 DEF Untouched, Books, Shape
  <2>6. Underway(i)'
    BY <2>2, <2>3, <2>5 DEF Untouched, Underway
  <2> QED BY <2>1, <2>3, <2>5, <2>6 DEF Others, Books
<1>3. ASSUME NEW code, Fails(i, code) PROVE phase = "batch" /\ slots[i] = "running"
  BY <1>3 DEF Fails, CallFails
<1>4. CASE NotRecorded(i)
  BY <1>3, <1>4, FailureSettles DEF NotRecorded
<1>5. CASE BuildEgress(i)
  <2>1. /\ step[i] = "recorded" /\ step' = [step EXCEPT ![i] = "egress"]
        /\ UNCHANGED <<slots, outcome, told, sent, rows, audited>>
    BY <1>5 DEF BuildEgress, vars, roundVars, bookVars
  <2>2. slots[i] = "running" /\ phase = "batch"
    BY <2>1 DEF StepsAgree, BatchAgrees
  <2>3. Underway(i) /\ step'[i] = "egress"
    BY <2>1, <2>2 DEF Progress, Shape
  <2>4. Underway(i)'
    BY <2>1, <2>3 DEF Underway
  <2> QED BY <2>1, <2>2, <2>4 DEF Others, Books
<1>6. CASE NoEgress(i)
  BY <1>3, <1>6, FailureSettles DEF NoEgress
<1>7. CASE RefusedByRegistry(i)
  BY <1>3, <1>7, FailureSettles DEF RefusedByRegistry
<1>8. CASE Send(i)
  <2>1. PICK ask \in Tool(i).asks :
          LET verdict == Request(deployment.bases, Tool(i).egress, ask) IN
          IF verdict = "ok"
            THEN /\ sent' = [sent EXCEPT ![i] = SendOf(i, ask)]
                 /\ step' = [step EXCEPT ![i] = "sent"]
                 /\ UNCHANGED <<vars, deployment, given, bearer, outcome, told, bookVars>>
            ELSE Fails(i, verdict) /\ BookExecution(i, verdict)
    BY <1>8 DEF Send
  <2>2. step[i] = "egress" /\ Checked(i) = "ok"
    BY <1>8 DEF Send
  <2>3. CASE Request(deployment.bases, Tool(i).egress, ask) = "ok"
    <3>1. /\ step' = [step EXCEPT ![i] = "sent"] /\ sent' = [sent EXCEPT ![i] = SendOf(i, ask)]
          /\ UNCHANGED <<slots, outcome, told, rows, audited>>
      BY <2>1, <2>3 DEF vars, roundVars, bookVars
    <3>2. slots[i] = "running" /\ phase = "batch"
      BY <2>2 DEF StepsAgree, BatchAgrees
    <3>3. Underway(i) /\ step'[i] = "sent"
      BY <3>1, <3>2 DEF Progress, Shape
    <3>4. ValidArguments(Tool(i).input, Arguments(i))
      BY <2>2 DEF Checked
    <3>5. ValidArguments(Tool(i).input, Arguments(i))'
      BY <1>0, <3>4, SameArguments
    <3>6. Underway(i)'
      BY <2>2, <3>1, <3>3, <3>5 DEF Underway
    <3> QED BY <3>1, <3>2, <3>6 DEF Others, Books
  <2>4. CASE Request(deployment.bases, Tool(i).egress, ask) # "ok"
    BY <1>3, <2>1, <2>2, <2>4, FailureSettles
  <2> QED BY <2>3, <2>4
<1>9. CASE Refused(i)
  <2>1. PICK code \in {StatusError(s) : s \in {404, 429, 500}} \cup {"upstream_unavailable", "timeout"} :
          Fails(i, code) /\ BookExecution(i, code)
    BY <1>9 DEF Refused
  <2>2. code # "ok"
    BY <2>1 DEF StatusError
  <2>3. step[i] = "sent"
    BY <1>9 DEF Refused
  <2> QED BY <1>3, <2>1, <2>2, <2>3, FailureSettles
<1>10. CASE Returns(i)
  <2>1. step[i] \in {"egress", "sent"}
    BY <1>10 DEF Returns
  <2>2. slots[i] = "running" /\ phase = "batch"
    BY <2>1 DEF StepsAgree, BatchAgrees
  <2> QED BY <1>10, <2>2, ReturnSettles
<1> QED BY <1>1, <1>2, <1>4, <1>5, <1>6, <1>7, <1>8, <1>9, <1>10 DEF Execute

\* A step of one call keeps the books.
LEMMA CallKeepsBooks ==
  ASSUME BooksInv, NEW i \in Slots, Execute(i)
  PROVE  (Books /\ Progress /\ Booked /\ AllEarned)'
<1> USE DEF BooksInv, BInv, IInv
<1>1. /\ UNCHANGED <<phase, requests, index, last, deployment, given>>
      /\ DOMAIN step' = Slots /\ DOMAIN bearer' = Slots /\ DOMAIN sent' = Slots
      /\ \A j \in Slots \ {i} : /\ slots'[j] = slots[j] /\ step'[j] = step[j]
                                /\ bearer'[j] = bearer[j] /\ sent'[j] = sent[j]
  BY CallFrame
<1>2. /\ phase = "batch" /\ slots[i] \in {"waiting", "running"} /\ Others(i)
      /\ Settled(i) \/ (slots'[i] = "running" /\ Underway(i)')
  BY CallBooked
<1>3. i \in index .. last /\ index \in Nat
  BY <1>2 DEF BatchAgrees, TypeOK
<1>4. /\ told' = told /\ DOMAIN outcome' = Slots /\ DOMAIN rows' = Slots /\ DOMAIN audited' = Slots
      /\ \A j \in Slots \ {i} : /\ outcome'[j] = outcome[j] /\ rows'[j] = rows[j]
                                /\ audited'[j] = audited[j]
  BY <1>2 DEF Others
<1>5. Len(told) = index - 1 /\ i \notin DOMAIN told
  <2>1. Len(told) = index - 1
    BY <1>2 DEF Progress
  <2>2. DOMAIN told = 1 .. Len(told)
    BY DEF Books
  <2> QED BY <1>3, <2>1, <2>2
<1>6. Account(i)' = outcome'[i] /\ \A j \in Slots \ {i} : Account(j)' = Account(j)
  BY <1>4, <1>5 DEF Account
<1>7. \A j \in Slots : /\ Known(j)' = Known(j) /\ Tool(j)' = Tool(j)
                       /\ Arguments(j)' = Arguments(j)
  BY <1>1 DEF Known, Tool, Meaning, Arguments
<1>8. Books'
  BY <1>1, <1>4 DEF Books
<1>9. \A j \in Slots \ {i} : /\ Untouched(j) => Untouched(j)'
                             /\ Underway(j) => Underway(j)'
  <2> SUFFICES ASSUME NEW j \in Slots \ {i}
               PROVE  /\ Untouched(j) => Untouched(j)'
                      /\ Underway(j) => Underway(j)'
    OBVIOUS
  <2>1. Untouched(j) => Untouched(j)'
    BY <1>1, <1>4 DEF Untouched
  <2>2. ValidArguments(Tool(j).input, Arguments(j))' = ValidArguments(Tool(j).input, Arguments(j))
    BY <1>1, SameArguments
  <2>3. Underway(j) => Underway(j)'
    BY <1>1, <1>4, <2>2 DEF Underway
  <2> QED BY <2>1, <2>3
<1>10. Progress'
  <2>0. \A j \in Slots : j > last => j \in Slots \ {i}
    BY <1>3 DEF TypeOK
  <2>1. (phase = "batch" => \A j \in Slots : j > last => Untouched(j))'
    BY <1>1, <1>2, <1>9, <2>0 DEF Progress
  <2>2. (\A j \in Slots : slots[j] = "waiting" => Untouched(j))'
    BY <1>1, <1>2, <1>9 DEF Progress, Settled
  <2>3. (\A j \in Slots : slots[j] = "running" => Underway(j))'
    BY <1>1, <1>2, <1>9 DEF Progress, Settled
  <2> QED BY <1>1, <1>2, <1>4, <1>5, <2>1, <2>2, <2>3 DEF Progress
<1>11. /\ Truthful(outcome'[i].code, rows'[i], audited'[i])
       /\ Undenied(sent'[i].there, rows'[i], audited'[i])
       /\ Earned(i, outcome'[i])
  <2>1. CASE Settled(i)
    BY <2>1 DEF Settled
  <2>2. CASE Underway(i)'
    <3>1. /\ outcome'[i].code = "none" /\ audited'[i] = NoEntry
          /\ rows'[i] = IF step'[i] = "unrecorded" THEN "none" ELSE "running"
          /\ sent'[i].there => step'[i] = "sent"
      BY <2>2 DEF Underway, NoOutcome
    <3>2. Truthful(outcome'[i].code, rows'[i], audited'[i])
      BY <3>1 DEF Truthful, NoEntry
    <3>3. Undenied(sent'[i].there, rows'[i], audited'[i])
      BY <3>1 DEF Undenied, NoEntry
    <3> QED BY <3>1, <3>2, <3>3 DEF Earned
  <2> QED BY <1>2, <2>1, <2>2
<1>12. Booked'
  <2> SUFFICES ASSUME NEW j \in Slots
               PROVE  /\ Truthful(Account(j)'.code, rows'[j], audited'[j])
                      /\ Undenied(sent'[j].there, rows'[j], audited'[j])
    BY DEF Booked, Truthful, Undenied
  <2>1. CASE j = i
    BY <1>6, <1>11, <2>1
  <2>2. CASE j # i
    BY <1>1, <1>4, <1>6, <2>2 DEF Booked
  <2> QED BY <2>1, <2>2
<1>13. AllEarned'
  <2>1. \A j \in Slots : Earned(j, Account(j)')
    BY <1>6, <1>11 DEF AllEarned
  <2>2. ASSUME NEW j \in Slots PROVE Earned(j, Account(j))'
    BY <1>7, <2>1 DEF Earned
  <2> QED BY <2>2 DEF AllEarned
<1> QED BY <1>8, <1>10, <1>12, <1>13

\* The calls of a round that begins are untouched.
LEMMA FreshBooks ==
  ASSUME deployment' = deployment, slots' = NoSlots, told' = <<>>, index' = 1,
         step' = Fresh("none"), outcome' = Fresh(NoOutcome), sent' = Fresh(NoSend),
         rows' = Fresh("none"), audited' = Fresh(NoEntry),
         phase' # "batch", Len(requests') <= MaxBatch
  PROVE  (Books /\ Progress /\ Booked /\ AllEarned)'
<1>1. \A i \in Slots : Untouched(i)' /\ slots'[i] = "none" /\ Account(i)' = NoOutcome
  BY DEF Untouched, Fresh, NoSlots, NoSend, Account
<1>2. Books'
  BY DEF Books, Fresh
<1>3. Progress'
  BY <1>1 DEF Progress
<1>4. Booked'
  <2> SUFFICES ASSUME NEW i \in Slots
               PROVE  /\ Truthful(Account(i)'.code, rows'[i], audited'[i])
                      /\ Undenied(sent'[i].there, rows'[i], audited'[i])
    BY DEF Booked, Truthful, Undenied
  <2>1. Account(i)'.code = "none" /\ rows'[i] = "none" /\ audited'[i] = NoEntry /\ ~sent'[i].there
    BY <1>1 DEF NoOutcome, Untouched
  <2> QED BY <2>1 DEF Truthful, Undenied, NoEntry
<1>5. AllEarned'
  <2>1. \A i \in Slots : Account(i)'.code = "none"
    BY <1>1 DEF NoOutcome
  <2> QED BY <2>1 DEF AllEarned, Earned
<1> QED BY <1>2, <1>3, <1>4, <1>5

\* A step that leaves the accounts, the books and the calls alone keeps what
\* is said of them.
LEMMA QuietBooks ==
  ASSUME Booked, AllEarned, \A i \in Slots : Account(i)' = Account(i),
         UNCHANGED <<requests, deployment, given, sent, bookVars>>
  PROVE  Booked' /\ AllEarned'
<1>1. Booked'
  BY DEF Booked, bookVars, Truthful, Undenied
<1>2. \A i \in Slots : /\ Known(i)' = Known(i) /\ Tool(i)' = Tool(i)
                       /\ Arguments(i)' = Arguments(i)
  BY DEF Known, Tool, Meaning, Arguments
<1>3. ASSUME NEW i \in Slots PROVE Earned(i, Account(i))'
  BY <1>2 DEF AllEarned, Earned
<1> QED BY <1>1, <1>3 DEF AllEarned

\* While the broker has no part in it, nothing happens to a call.
LEMMA StillUntouched ==
  ASSUME UNCHANGED <<outcome, sent, bookVars>>, NEW i \in Slots, Untouched(i)
  PROVE  Untouched(i)'
  BY DEF Untouched, bookVars

LEMMA LoopKeepsBooks ==
  ASSUME BooksInv, BPark \/ BEndBatch \/ Elsewhere \/ UNCHANGED bvars
  PROVE  (Books /\ Progress /\ Booked /\ AllEarned)'
<1> USE DEF BooksInv, BInv, IInv
<1>0. DOMAIN told = 1 .. Len(told) /\ Len(told) \in Nat
  BY DEF Books
<1>1. CASE BPark
  <2>1. /\ phase = "tools" /\ phase' = "parked" /\ index \in Slots /\ index' = index
        /\ UNCHANGED <<requests, slots, deployment, given, step, bearer, outcome, sent, told>>
        /\ rows' = [rows EXCEPT ![index] = "awaiting_approval"]
        /\ \E e \in {Entry("awaiting_approval", "requested"), audited[index]} :
             audited' = [audited EXCEPT ![index] = e]
    <3>1. phase = "tools" /\ phase' = "parked" /\ UNCHANGED <<requests, index, slots>>
      BY <1>1 DEF BPark, Park, InRound, roundVars
    <3>2. index \in Slots
      BY <1>1, LimitsAssumption DEF BPark, Park, InRound, Books, TypeOK, ResultsAgree, Slots
    <3>3. UNCHANGED <<deployment, given, step, bearer, outcome, sent, told>>
      BY <1>1 DEF BPark, callVars
    <3>4. /\ rows' = [rows EXCEPT ![index] = "awaiting_approval"]
          /\ \E e \in {Entry("awaiting_approval", "requested"), audited[index]} :
               audited' = [audited EXCEPT ![index] = e]
      BY <1>1 DEF BPark, Book
    <3> QED BY <3>1, <3>2, <3>3, <3>4
  <2>2. Untouched(index) /\ Len(told) = index - 1
    BY <2>1 DEF Progress, TypeOK
  <2>3. \A i \in Slots : slots[i] # "waiting" /\ slots[i] # "running"
    BY <2>1 DEF BatchAgrees
  <2>4. Account(index)' = NoOutcome /\ \A i \in Slots : Account(i)' = Account(i)
    BY <1>0, <2>1, <2>2 DEF Account, Untouched, TypeOK
  <2>5. Books'
    BY <2>1 DEF Books
  <2>6. Progress'
    BY <2>1, <2>3 DEF Progress
  <2>7. \A i \in Slots \ {index} : rows'[i] = rows[i] /\ audited'[i] = audited[i]
    BY <2>1 DEF Books
  <2>8. /\ rows'[index] = "awaiting_approval" /\ audited'[index].outcome # "succeeded"
        /\ ~sent'[index].there
    BY <2>1, <2>2 DEF Books, Untouched, Entry, NoEntry
  <2>9. Booked'
    <3> SUFFICES ASSUME NEW i \in Slots
                 PROVE  /\ Truthful(Account(i)'.code, rows'[i], audited'[i])
                        /\ Undenied(sent'[i].there, rows'[i], audited'[i])
      BY DEF Booked, Truthful, Undenied
    <3>1. CASE i = index
      <4>1. Account(i)'.code = "none" /\ rows'[i] = "awaiting_approval"
            /\ audited'[i].outcome # "succeeded" /\ ~sent'[i].there
        BY <2>1, <2>4, <2>8, <3>1 DEF NoOutcome
      <4> QED BY <4>1 DEF Truthful, Undenied
    <3>2. CASE i # index
      BY <2>1, <2>4, <2>7, <3>2 DEF Booked
    <3> QED BY <3>1, <3>2
  <2>10. \A i \in Slots : /\ Known(i)' = Known(i) /\ Tool(i)' = Tool(i)
                          /\ Arguments(i)' = Arguments(i)
    BY <2>1 DEF Known, Tool, Meaning, Arguments
  <2>11. ASSUME NEW i \in Slots PROVE Earned(i, Account(i))'
    BY <2>4, <2>10 DEF AllEarned, Earned
  <2> QED BY <2>5, <2>6, <2>9, <2>11 DEF AllEarned
<1>2. CASE BEndBatch
  <2>1. /\ phase = "batch" /\ phase' = "tools" /\ index' = last + 1
        /\ \A i \in index .. last : slots[i] \in {"succeeded", "failed"}
        /\ UNCHANGED <<requests, slots, deployment, given, step, bearer, outcome, sent, bookVars>>
        /\ told' = told \o [k \in 1 .. last - index + 1 |-> outcome[index + k - 1]]
    BY <1>2 DEF BEndBatch, EndBatch, callVars
  <2>2. /\ index \in Nat \ {0} /\ last \in Nat /\ last \in index .. Len(requests)
        /\ Len(requests) \in Nat /\ Len(requests) <= MaxBatch
        /\ Len(told) = index - 1
    BY <2>1 DEF ResultsAgree, TypeOK, Books, Progress
  <2>3. PICK S : told \in Seq(S)
    BY DEF Books
  <2>0. PICK new : new = [k \in 1 .. last - index + 1 |-> outcome[index + k - 1]]
    OBVIOUS
  <2>t. PICK T : T = S \cup {outcome[i] : i \in Slots}
    OBVIOUS
  <2>4. \A k \in 1 .. last - index + 1 : index + k - 1 \in Slots
    BY <2>2, LimitsAssumption DEF Slots
  <2>5. new \in Seq(T) /\ Len(new) = last - index + 1
    <3>1. last - index + 1 \in Nat
      BY <2>2
    <3>2. \A k \in 1 .. last - index + 1 : outcome[index + k - 1] \in T
      BY <2>t, <2>4
    <3> QED BY <2>0, <3>1, <3>2
  <2>6. told \in Seq(T)
    BY <2>t, <2>3
  <2>7. /\ told' \in Seq(T) /\ Len(told') = last
        /\ \A k \in 1 .. last - index + 1 : told'[Len(told) + k] = new[k]
    <3>1. told' = told \o new
      BY <2>0, <2>1
    <3>2. /\ told' \in Seq(T) /\ Len(told') = Len(told) + Len(new)
          /\ \A k \in 1 .. Len(new) : told'[Len(told) + k] = new[k]
      <4>0. new \in Seq(T)
        BY <2>5
      <4>1. /\ told \o new \in Seq(T) /\ Len(told \o new) = Len(told) + Len(new)
            /\ \A k \in 1 .. Len(new) : (told \o new)[Len(told) + k] = new[k]
        BY <4>0, <2>6
      <4> QED BY <3>1, <4>1
    <3>3. Len(told) + Len(new) = last
      BY <2>2, <2>5
    <3> QED BY <2>5, <3>2, <3>3
  <2>8. \A i \in 1 .. Len(told) : told'[i] = told[i]
    BY <2>0, <2>1, <2>5, <2>6
  <2>9. \A i \in index .. last : told'[i] = outcome[i]
    <3> SUFFICES ASSUME NEW i \in index .. last PROVE told'[i] = outcome[i]
      OBVIOUS
    <3>1. i - Len(told) \in 1 .. last - index + 1 /\ i \in Nat
      BY <2>2
    <3>2. told'[i] = new[i - Len(told)]
      <4>1. Len(told) + (i - Len(told)) = i
        BY <2>2, <3>1
      <4>2. told'[Len(told) + (i - Len(told))] = new[i - Len(told)]
        BY <2>7, <3>1
      <4> QED BY <4>1, <4>2
    <3>3. new[i - Len(told)] = outcome[index + (i - Len(told)) - 1]
      BY <2>0, <3>1
    <3> QED BY <2>2, <3>1, <3>2, <3>3
  <2>10. \A i \in Slots : Account(i)' = Account(i)
    <3> SUFFICES ASSUME NEW i \in Slots PROVE Account(i)' = Account(i)
      OBVIOUS
    <3>1. DOMAIN told' = 1 .. last
      BY <2>7
    <3>2. CASE i <= Len(told)
      BY <1>0, <2>2, <2>8, <3>1, <3>2 DEF Account, Slots
    <3>3. CASE i \in index .. last
      BY <1>0, <2>2, <2>9, <3>1, <3>3 DEF Account, Slots
    <3>4. CASE i > last
      BY <1>0, <2>1, <2>2, <3>1, <3>4 DEF Account, Slots
    <3> QED BY <2>2, <3>2, <3>3, <3>4 DEF Slots
  <2>11. Books'
    BY <2>1, <2>7 DEF Books, bookVars
  <2>12. \A i \in Slots : slots[i] # "waiting" /\ slots[i] # "running"
    BY <2>1 DEF BatchAgrees
  <2>13. \A i \in Slots : i >= index' => Untouched(i)'
    <3>1. \A i \in Slots : i >= index' => i > last
      BY <2>1, <2>2 DEF Slots
    <3> QED BY <2>1, <3>1, StillUntouched DEF Progress
  <2>14. Len(told') = index' - 1
    BY <2>1, <2>2, <2>7
  <2>15. Progress'
    BY <2>1, <2>12, <2>13, <2>14 DEF Progress
  <2> QED BY <2>1, <2>10, <2>11, <2>15, QuietBooks
<1>3. CASE Elsewhere \/ UNCHANGED bvars
  <2>1. UNCHANGED <<requests, index, deployment, given, step, outcome, sent, told, rows, audited>>
    BY <1>3 DEF Elsewhere, Ask, EndTurn, StartBatch, EndRound, Expire, BecomeOverdue,
                bvars, vars, brokerVars, callVars, bookVars, roundVars
  <2>2. \A i \in Slots : Account(i)' = Account(i)
    BY <2>1 DEF Account
  <2>3. Booked' /\ AllEarned'
    BY <2>1, <2>2, QuietBooks DEF bookVars
  <2>4. Books'
    BY <2>1 DEF Books
  <2>5. \A i \in Slots : Untouched(i) => Untouched(i)'
    BY <2>1 DEF Untouched
  <2>6. CASE StartBatch
    <3>1. /\ phase = "tools" /\ phase' = "batch"
          /\ slots' = [i \in Slots |-> IF i \in Batch THEN "waiting" ELSE "none"]
      BY <2>6 DEF StartBatch, InRound
    <3>2. PICK end \in Batch : last' = end
      BY <2>6 DEF StartBatch
    <3>3. last' >= index /\ index \in Nat /\ last' \in Nat
      BY <3>2 DEF Batch, TypeOK
    <3>4. \A i \in Slots : i > last' => i >= index
      BY <3>3 DEF Slots
    <3>5. \A i \in Slots : slots'[i] = "waiting" => i >= index
      BY <3>1 DEF Batch
    <3>6. \A i \in Slots : i >= index => Untouched(i)'
      BY <2>5, <3>1 DEF Progress
    <3> QED BY <2>1, <2>3, <2>4, <3>1, <3>4, <3>5, <3>6 DEF Progress
  <2>7. CASE UNCHANGED vars \/ Ask \/ EndTurn \/ EndRound \/ Expire \/ BecomeOverdue
    <3>1. /\ UNCHANGED <<slots, last>>
          /\ phase' = phase \/ phase' \in {"provider", "complete", "error"}
             \/ (phase = "tools" /\ phase' = "ask")
      BY <2>7 DEF Ask, EndTurn, EndRound, Expire, BecomeOverdue, vars, roundVars, loopVars
    <3>2. ASSUME NEW i \in Slots, Underway(i) PROVE Underway(i)'
      BY <2>1, <3>2, SameArguments DEF Underway
    <3>3. Progress'
      BY <2>1, <2>5, <3>1, <3>2 DEF Progress
    <3> QED BY <2>3, <2>4, <3>3
  <2> QED BY <1>3, <2>6, <2>7 DEF Elsewhere, bvars
<1> QED BY <1>1, <1>2, <1>3

LEMMA RefusalKeepsBooks ==
  ASSUME BooksInv, BParkRefused
  PROVE  (Books /\ Progress /\ Booked /\ AllEarned)'
<1> USE DEF BooksInv, BInv, IInv
<1>1. /\ phase = "tools" /\ phase' = "tools" /\ index' = index + 1
      /\ UNCHANGED <<requests, slots, deployment, given, step, bearer, outcome, sent>>
  BY DEF BParkRefused, ParkRefused, InRound, callVars, loopVars
<1>2. index \in Slots /\ index \in Nat
  BY LimitsAssumption DEF BParkRefused, ParkRefused, InRound, Books, TypeOK, ResultsAgree, Slots
<1>3. Untouched(index) /\ Len(told) = index - 1 /\ \A i \in Slots : i >= index => Untouched(i)
  BY <1>1, <1>2 DEF Progress
<1>4. PICK code : /\ code \in (IF Objection(index) # "none" THEN {Objection(index)} ELSE ParkRejection(index))
                  /\ told' = Append(told, Failed(code))
                  /\ \/ Objection(index) # "none" /\ BookObjection(index, code, NoEntry)
                     \/ Objection(index) = "none" /\ BookRejection(index, code)
                     \/ code = "internal" /\ UNCHANGED bookVars
  BY DEF BParkRefused
<1>5. code # "ok"
  <2>1. Objection(index) # "ok"
    BY DEF Objection
  <2>2. "ok" \notin ParkRejection(index)
    BY DEF ParkRejection
  <2> QED BY <1>4, <2>1, <2>2
<1>6. /\ Truthful(code, rows'[index], audited'[index])
      /\ DOMAIN rows' = Slots /\ DOMAIN audited' = Slots
      /\ \A j \in Slots \ {index} : rows'[j] = rows[j] /\ audited'[j] = audited[j]
  <2>1. CASE BookObjection(index, code, NoEntry)
    BY <1>2, <1>3, <1>5, <2>1, ObjectionBooked DEF Untouched
  <2>2. CASE BookRejection(index, code)
    BY <1>2, <1>3, <1>5, <2>2, RejectionBooked DEF Untouched
  <2>3. CASE UNCHANGED bookVars
    <3>1. rows'[index] = "none" /\ audited'[index] = NoEntry /\ rows' = rows /\ audited' = audited
      BY <1>3, <2>3 DEF bookVars, Untouched
    <3>2. Truthful(code, rows'[index], audited'[index])
      BY <1>5, <3>1 DEF Truthful, NoEntry
    <3> QED BY <3>1, <3>2 DEF Books
  <2> QED BY <1>4, <2>1, <2>2, <2>3
<1>7. PICK S : told \in Seq(S)
  BY DEF Books
<1>8. PICK T : T = S \cup {Failed(code)}
  OBVIOUS
<1>9. told \in Seq(T) /\ Failed(code) \in T
  BY <1>7, <1>8
<1>10. /\ told' \in Seq(T) /\ Len(told') = index /\ told'[index] = Failed(code)
       /\ \A i \in 1 .. Len(told) : told'[i] = told[i]
  BY <1>2, <1>3, <1>4, <1>9
<1>11. DOMAIN told = 1 .. index - 1 /\ DOMAIN told' = 1 .. index
  BY <1>2, <1>3, <1>9, <1>10
<1>c. PICK c : c = index
  OBVIOUS
<1>12. /\ Account(c)'.code = code
       /\ \A i \in Slots \ {c} : Account(i)' = Account(i)
  <2>1. Account(c)' = Failed(code)
    <3>1. c \in 1 .. index
      BY <1>c, <1>2, LimitsAssumption DEF Slots
    <3>2. told'[c] = Failed(code)
      BY <1>c, <1>10
    <3> QED BY <1>11, <3>1, <3>2 DEF Account
  <2>2. ASSUME NEW i \in Slots \ {c} PROVE Account(i)' = Account(i)
    <3>1. (i \in 1 .. index - 1) <=> (i \in 1 .. index)
      BY <1>c, <1>2 DEF Slots
    <3> QED BY <1>1, <1>2, <1>3, <1>10, <1>11, <3>1 DEF Account
  <2> QED BY <2>1, <2>2 DEF Failed
<1>13. Books'
  BY <1>1, <1>6, <1>10 DEF Books
<1>14. Progress'
  <2>1. \A i \in Slots : i >= index + 1 => i >= index /\ i \in Slots \ {index}
    BY <1>2 DEF Slots
  <2>2. ASSUME NEW i \in Slots \ {index}, Untouched(i) PROVE Untouched(i)'
    BY <1>1, <1>6, <2>2 DEF Untouched
  <2>3. (phase = "tools" => \A i \in Slots : i >= index => Untouched(i))'
    BY <1>1, <1>3, <2>1, <2>2
  <2>4. \A i \in Slots : slots[i] # "waiting" /\ slots[i] # "running"
    BY <1>1 DEF BatchAgrees
  <2>5. Len(told') = index' - 1
    BY <1>1, <1>2, <1>10
  <2> QED BY <1>1, <2>3, <2>4, <2>5 DEF Progress
<1>15. Booked'
  <2> SUFFICES ASSUME NEW i \in Slots
               PROVE  /\ Truthful(Account(i)'.code, rows'[i], audited'[i])
                      /\ Undenied(sent'[i].there, rows'[i], audited'[i])
    BY DEF Booked, Truthful, Undenied
  <2>1. CASE i = c
    <3>1. ~sent'[i].there
      BY <1>1, <1>3, <1>c, <2>1 DEF Untouched
    <3> QED BY <1>6, <1>12, <1>c, <2>1, <3>1 DEF Undenied
  <2>2. CASE i # c
    BY <1>1, <1>6, <1>12, <1>c, <2>2 DEF Booked
  <2> QED BY <2>1, <2>2
<1>16. AllEarned'
  <2>1. \A i \in Slots : /\ Known(i)' = Known(i) /\ Tool(i)' = Tool(i)
                         /\ Arguments(i)' = Arguments(i)
    BY <1>1 DEF Known, Tool, Meaning, Arguments
  <2>2. ASSUME NEW i \in Slots PROVE Earned(i, Account(i))'
    <3>1. CASE i = c
      BY <1>5, <1>12, <3>1 DEF Earned
    <3>2. CASE i # c
      BY <1>12, <2>1, <3>2 DEF AllEarned, Earned
    <3> QED BY <3>1, <3>2
  <2> QED BY <2>2 DEF AllEarned
<1> QED BY <1>13, <1>14, <1>15, <1>16

LEMMA BooksStep == BooksInv /\ [BNext]_bvars => (Books /\ Progress /\ Booked /\ AllEarned)'
<1> SUFFICES ASSUME BooksInv, [BNext]_bvars PROVE (Books /\ Progress /\ Booked /\ AllEarned)'
  OBVIOUS
<1>1. CASE BRequestTools
  <2>1. PICK n \in Slots : requests' \in [1 .. n -> Reads \cup Gated]
    BY <1>1 DEF BRequestTools, RequestTools, Requests
  <2>2. Len(requests') <= MaxBatch
    BY <2>1, LimitsAssumption DEF Slots
  <2> QED BY <1>1, <2>2, FreshBooks DEF BRequestTools, RequestTools
<1>2. CASE BResume
  <2>1. Len(requests') <= MaxBatch
    BY <1>2, LimitsAssumption DEF BResume, Resume
  <2> QED BY <1>2, <2>1, FreshBooks DEF BResume, Resume
<1> QED BY <1>1, <1>2, CallKeepsBooks, LoopKeepsBooks, RefusalKeepsBooks DEF BNext

LEMMA BInitBooks == BInit => Books /\ Progress /\ Booked /\ AllEarned
<1> SUFFICES ASSUME BInit PROVE Books /\ Progress /\ Booked /\ AllEarned
  OBVIOUS
<1>1. /\ phase = "ask" /\ index = 1 /\ told = <<>> /\ requests = <<>> /\ slots = NoSlots
      /\ outcome = Fresh(NoOutcome) /\ sent = Fresh(NoSend)
      /\ rows = Fresh("none") /\ audited = Fresh(NoEntry)
  BY DEF BInit, Init
<1>2. \A i \in Slots : Untouched(i) /\ slots[i] = "none" /\ Account(i).code = "none"
  BY <1>1 DEF Untouched, Fresh, NoSlots, NoSend, Account, NoOutcome
<1>3. Books
  BY <1>1, LimitsAssumption DEF Books, Fresh
<1>4. Progress
  BY <1>1, <1>2 DEF Progress
<1>5. Booked
  BY <1>2 DEF Booked, Truthful, Undenied, Untouched, NoEntry
<1>6. AllEarned
  BY <1>2 DEF AllEarned, Earned
<1> QED BY <1>3, <1>4, <1>5, <1>6

\* The invariant of the books: what a call's row and entry say, and what the
\* provider is told of it, never drift apart, whatever order the calls of a batch
\* take their steps in.
THEOREM BooksInvariant == BSpec => []BooksInv
<1>1. BooksInv /\ BInv' /\ [BNext]_bvars => BooksInv'
  BY BooksStep DEF BooksInv
<1>2. BInit => BooksInv
  BY BInitEstablishes, BInitBooks DEF BooksInv
<1> QED BY BrokerInvariant, <1>1, <1>2, PTL DEF BSpec

\* The rows and the audit log never contradict what the provider was told:
\* BooksTruthful, for every deployment and every loss of writes.
THEOREM BooksAgree == BSpec => []BooksTruthful
<1>1. BooksInv => BooksTruthful
  <2> SUFFICES ASSUME BooksInv PROVE BooksTruthful
    OBVIOUS
  <2> USE DEF BooksInv, BInv, IInv
  <2>1. ASSUME phase = "ask", NEW i \in DOMAIN told
        PROVE  Truthful(told[i].code, rows[i], audited[i])
    <3>1. Len(told) = Len(requests)
      BY <2>1 DEF Progress, ResultsAgree, TypeOK
    <3>2. i \in Slots
      BY <3>1, LimitsAssumption DEF Books, TypeOK, Slots
    <3> QED BY <3>2 DEF Booked, Account
  <2>2. \A i \in Slots : Undenied(sent[i].there, rows[i], audited[i])
    BY DEF Booked
  <2> QED BY <2>1, <2>2 DEF BooksTruthful, Truthful, Undenied
<1> QED BY BooksInvariant, <1>1, PTL

-----------------------------------------------------------------------------
(* The fields of a result.                                                 *)

\* What the schema of a result describes: a node that the schema names and that
\* has something below it is the object or the array that its rule says, and the
\* items of an array have a rule.  Where they disagree project_output clones the
\* value, so a tool that returns something else is taken at its word.
Fits(schema, v) ==
  /\ <<>> \in DOMAIN schema
  /\ DOMAIN v \subseteq Seq(STRING)
  /\ \A p \in DOMAIN v : \A k \in 0 .. Len(p) - 1 :
       SchemaPath(Upto(p, k)) \in DOMAIN schema =>
         /\ Descends(schema, v, Upto(p, k))
         /\ v[Upto(p, k)].kind = "array" => SchemaPath(Upto(p, k + 1)) \in DOMAIN schema

ReturnsFit ==
  \A d \in Deployments : \A name \in DOMAIN d.tools :
    \A v \in d.tools[name].returns : Fits(d.tools[name].output, v)

\* A set of numbers has a least element.
LEMMA Least ==
  ASSUME NEW T \in SUBSET Nat, T # {}
  PROVE  \E x \in T : \A y \in T : ~(y < x)
<1> DEFINE R == OpToRel(<, Nat)
<1>1. IsWellFoundedOn(R, Nat)
  BY NatLessThanWellFounded, Zenon
<1>2. \A x, y \in Nat : <<x, y>> \in R <=> x < y
  BY Zenon DEF OpToRel
<1> HIDE DEF R
<1>3. \E x \in T : \A y \in T : ~ (<<y, x>> \in R)
  BY <1>1, WFMin, Zenon
<1> QED BY <1>2, <1>3

\* Walking down from the root, project_output drops a node at the first name on
\* its path that the schema does not have.
LEMMA ProjectionNames ==
  ASSUME NEW schema, NEW v, Fits(schema, v), NEW p \in DOMAIN v
  PROVE  ~Dropped(schema, v, p)
           <=> \A k \in 0 .. Len(p) : SchemaPath(Upto(p, k)) \in DOMAIN schema
<1>1. p \in Seq(STRING) /\ Len(p) \in Nat
  BY DEF Fits
<1> DEFINE N(k) == SchemaPath(Upto(p, k)) \in DOMAIN schema
           T == {k \in 0 .. Len(p) : ~N(k)}
<1>2. ASSUME Dropped(schema, v, p) PROVE T # {}
  <2>1. PICK k \in 0 .. Len(p) - 1 : ~N(k + 1)
    BY <1>2 DEF Dropped
  <2>2. k + 1 \in 0 .. Len(p)
    BY <1>1
  <2> QED BY <2>1, <2>2
<1>3. ASSUME T # {} PROVE Dropped(schema, v, p)
  <2>1. PICK x \in T : \A y \in T : ~(y < x)
    <3>1. T \in SUBSET Nat
      BY <1>1
    <3> QED BY <1>3, <3>1, Least
  <2>2. N(0)
    <3>1. Upto(p, 0) = <<>>
      BY <1>1 DEF Upto
    <3>2. SchemaPath(<<>>) = <<>>
      BY DEF SchemaPath
    <3> QED BY <3>1, <3>2 DEF Fits
  <2>3. x \in 0 .. Len(p) /\ ~N(x) /\ x # 0
    BY <2>1, <2>2
  <2>4. PICK k \in 0 .. Len(p) - 1 : x = k + 1
    BY <1>1, <2>3
  <2>5. ASSUME NEW j \in 0 .. k PROVE N(j)
    <3>1. j \in 0 .. Len(p) /\ j < x
      BY <1>1, <2>4
    <3> QED BY <2>1, <3>1
  <2> HIDE DEF T
  <2>6. ASSUME NEW j \in 0 .. k PROVE Descends(schema, v, Upto(p, j))
    <3>1. j \in 0 .. Len(p) - 1
      BY <1>1
    <3> QED BY <2>5, <3>1 DEF Fits
  <2>7. k \in 0 .. k
    OBVIOUS
  <2>8. v[Upto(p, k)].kind = "object"
    <3>1. v[Upto(p, k)].kind \in {"object", "array"}
      BY <2>6, <2>7 DEF Descends
    <3>2. v[Upto(p, k)].kind # "array"
      BY <2>3, <2>4, <2>5, <2>7 DEF Fits
    <3> QED BY <3>1, <3>2
  <2> QED BY <2>3, <2>4, <2>6, <2>8 DEF Dropped
<1> QED BY <1>2, <1>3

\* What ResultsAsDeclared says of one result.
LEMMA DeliveredAsDeclared ==
  ASSUME NEW tool, NEW v, Fits(tool.output, v), NEW r, r = Delivered(tool, v)
  PROVE  /\ DOMAIN r = {p \in Named(tool.output, v) : Open(p)}
         /\ \A p \in DOMAIN r : r[p] \in {v[p], Masked}
         /\ \A p \in DOMAIN r \ {<<>>} : p[Len(p)] \in SensitiveKeys => r[p] = Masked
<1> DEFINE w == ProjectOutput(tool.output, v)
<1>1. DOMAIN w = {p \in DOMAIN v : ~Dropped(tool.output, v, p)}
      /\ \A p \in DOMAIN w : w[p] = v[p]
  BY DEF ProjectOutput
<1>2. r = RedactSecrets(w)
  BY DEF Delivered
<1> HIDE DEF w
<1>3. DOMAIN r = {p \in DOMAIN w : Open(p)}
  BY <1>2 DEF RedactSecrets, Open
<1>4. \A p \in DOMAIN v : ~Dropped(tool.output, v, p) <=> p \in Named(tool.output, v)
  BY ProjectionNames DEF Named
<1>5. DOMAIN r = {p \in Named(tool.output, v) : Open(p)}
  BY <1>1, <1>3, <1>4 DEF Named
<1>6. ASSUME NEW p \in DOMAIN r
      PROVE  /\ r[p] \in {v[p], Masked}
             /\ p # <<>> /\ p[Len(p)] \in SensitiveKeys => r[p] = Masked
  <2>1. p \in DOMAIN w /\ w[p] = v[p]
    BY <1>1, <1>3
  <2>2. r[p] = IF \/ p # <<>> /\ p[Len(p)] \in SensitiveKeys
                  \/ w[p].kind = "string" /\ w[p].text \in SecretTexts
                 THEN Masked ELSE w[p]
    BY <1>2 DEF RedactSecrets
  <2> QED BY <2>1, <2>2
<1> QED BY <1>5, <1>6

\* The provider gets the fields that the tool's schema names and no other, with
\* those of sensitive names masked: ResultsAsDeclared, for every tool whose
\* results are what its schema describes.
THEOREM ResultsFollowSchema ==
  ASSUME ReturnsFit
  PROVE  BSpec => []ResultsAsDeclared
<1>1. BooksInv => ResultsAsDeclared
  <2> SUFFICES ASSUME BooksInv, phase = "ask" PROVE ResultsAsDeclared
    BY DEF ResultsAsDeclared
  <2> USE DEF BooksInv, BInv, IInv
  <2>1. Len(told) = Len(requests)
    BY DEF Progress, ResultsAgree, TypeOK
  <2>2. ASSUME NEW i \in DOMAIN told, told[i].code = "ok"
        PROVE  /\ Known(i) /\ ValidArguments(Tool(i).input, Arguments(i))
               /\ \E v \in Tool(i).returns :
                    LET r == told[i].result IN
                    /\ DOMAIN r = {p \in Named(Tool(i).output, v) : Open(p)}
                    /\ \A p \in DOMAIN r : r[p] \in {v[p], Masked}
                    /\ \A p \in DOMAIN r \ {<<>>} : p[Len(p)] \in SensitiveKeys => r[p] = Masked
    <3>1. i \in Slots
      BY <2>1, LimitsAssumption DEF Books, TypeOK, Slots
    <3>2. /\ Known(i) /\ ValidArguments(Tool(i).input, Arguments(i))
          /\ \E v \in Tool(i).returns : told[i].result = Delivered(Tool(i), v)
      BY <2>2, <3>1 DEF AllEarned, Earned, Account
    <3>3. PICK v \in Tool(i).returns : told[i].result = Delivered(Tool(i), v)
      BY <3>2
    <3>4. Fits(Tool(i).output, v)
      BY <3>2, ReturnsFit DEF ReturnsFit, Shape, Known, Tool
    <3>5. PICK tool : tool = Tool(i)
      OBVIOUS
    <3>6. LET r == told[i].result IN
          /\ DOMAIN r = {p \in Named(tool.output, v) : Open(p)}
          /\ \A p \in DOMAIN r : r[p] \in {v[p], Masked}
          /\ \A p \in DOMAIN r \ {<<>>} : p[Len(p)] \in SensitiveKeys => r[p] = Masked
      <4>1. Fits(tool.output, v) /\ told[i].result = Delivered(tool, v)
        BY <3>3, <3>4, <3>5
      <4>2. PICK r : r = told[i].result
        OBVIOUS
      <4>3. r = Delivered(tool, v)
        BY <4>1, <4>2
      <4>4. /\ DOMAIN r = {p \in Named(tool.output, v) : Open(p)}
            /\ \A p \in DOMAIN r : r[p] \in {v[p], Masked}
            /\ \A p \in DOMAIN r \ {<<>>} : p[Len(p)] \in SensitiveKeys => r[p] = Masked
        BY <4>1, <4>3, DeliveredAsDeclared, ZenonT(60)
      <4> QED BY <4>2, <4>4
    <3> QED BY <3>2, <3>5, <3>6
  <2> QED BY <2>1, <2>2 DEF ResultsAsDeclared
<1> QED BY BooksInvariant, <1>1, PTL
=============================================================================
