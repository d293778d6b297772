------------------------------ MODULE ToolLoop ------------------------------
(***************************************************************************)
(* The bounded tool loop of one turn: rounds of Orchestrator::run_loop,    *)
(* the read-only calls of a round executed concurrently by ToolBroker      *)
(* under one TurnToolBudget, parks, and resumptions with a fresh budget.   *)
(*                                                                         *)
(* A call is its signature: the tool and the hash of its arguments.  Stops *)
(* and disconnects, which end the loop at any step, are in TurnLifecycle.  *)
(***************************************************************************)
EXTENDS Integers, Sequences

CONSTANTS
  Reads,      \* signatures of read-only calls
  Gated,      \* signatures of calls that need an approval
  Sizes,      \* sizes of projected results
  MaxRounds,  \* TurnLimits::max_tool_rounds
  MaxCalls,   \* TurnLimits::max_tool_calls
  MaxRepeats, \* MAX_IDENTICAL_CALLS_PER_TURN
  MaxBytes,   \* TurnLimits::max_result_bytes
  MaxBatch,   \* bound on the calls a provider requests in one round
  MaxResumes  \* bound on the decisions taken on the turn

ASSUME LimitsAssumption ==
  /\ MaxRounds \in Nat \ {0} /\ MaxCalls \in Nat \ {0}
  /\ MaxRepeats \in Nat /\ MaxBytes \in Nat
  /\ MaxBatch \in Nat /\ MaxResumes \in Nat
  /\ Sizes \subseteq Nat
  /\ Reads \cap Gated = {}

Slots == 1 .. MaxBatch
Requests == UNION {[1 .. n -> Reads \cup Gated] : n \in Slots}

VARIABLES
  phase,      \* where the loop is
  rounds,     \* tool rounds so far
  offering,   \* whether the provider is offered the tools
  requests,   \* the calls of the current round
  index,      \* the next call of the round to look at
  last,       \* the last call of the current batch
  slots,      \* [Slots -> the state of the call in the current batch]
  answered,   \* positions of the calls whose results were pushed, in order
  calls,      \* TurnToolBudget::calls
  repeats,    \* TurnToolBudget::signatures
  bytes,      \* TurnToolBudget::result_bytes
  expired,    \* the deadline of the budget has passed
  overdue,    \* the loop itself has used up its turn budget
  resumes,    \* decisions taken so far
  asked,      \* history: provider rounds of this run of the loop
  dispatched, \* history: read-only calls dispatched under this budget
  ran,        \* history: [Reads -> how many of them had this signature]
  delivered   \* history: bytes of results handed to the provider

loopVars == <<phase, rounds, offering, asked>>
roundVars == <<requests, index, last, slots, answered>>
budgetVars == <<calls, repeats, bytes, dispatched, ran, delivered>>
clockVars == <<expired, overdue>>
vars == <<loopVars, roundVars, budgetVars, clockVars, resumes>>

Phases == {"ask", "provider", "tools", "batch", "parked", "complete", "error"}

TypeOK ==
  /\ phase \in Phases
  /\ rounds \in Nat /\ asked \in Nat /\ resumes \in Nat
  /\ offering \in BOOLEAN /\ expired \in BOOLEAN /\ overdue \in BOOLEAN
  /\ requests \in Seq(Reads \cup Gated)
  /\ index \in Nat /\ last \in Nat
  /\ slots \in [Slots -> {"none", "waiting", "running", "succeeded", "failed"}]
  /\ answered \in Seq(Nat)
  /\ calls \in Nat /\ bytes \in Nat /\ dispatched \in Nat /\ delivered \in Nat
  /\ repeats \in [Reads -> Nat] /\ ran \in [Reads -> Nat]

NoSlots == [i \in Slots |-> "none"]
Unused == [r \in Reads |-> 0]

Init ==
  /\ phase = "ask" /\ rounds = 0 /\ offering \in BOOLEAN /\ asked = 0
  /\ requests = <<>> /\ index = 1 /\ last = 0 /\ slots = NoSlots /\ answered = <<>>
  /\ calls = 0 /\ repeats = Unused /\ bytes = 0
  /\ dispatched = 0 /\ ran = Unused /\ delivered = 0
  /\ expired = FALSE /\ overdue = FALSE
  /\ resumes = 0

-----------------------------------------------------------------------------
(* The provider rounds.                                                    *)

\* The budget's deadline was set by the handler, before the loop started its clock.
Expire ==
  /\ ~expired
  /\ expired' = TRUE
  /\ UNCHANGED <<loopVars, roundVars, budgetVars, overdue, resumes>>

BecomeOverdue ==
  /\ expired /\ ~overdue
  /\ overdue' = TRUE
  /\ UNCHANGED <<loopVars, roundVars, budgetVars, expired, resumes>>

\* Mutant: an overdue turn that is not offered tools is left alone.
AskInTime ==
  /\ phase = "ask"
  /\ offering \/ ~overdue
  /\ phase' = "provider"
  /\ offering' = (offering /\ ~overdue)
  /\ asked' = asked + 1
  /\ UNCHANGED <<rounds, roundVars, budgetVars, clockVars, resumes>>

\* The top of the loop: an overdue turn gets one round without tools.
Ask ==
  /\ phase = "ask"
  /\ IF overdue /\ ~offering
       THEN /\ phase' = "error"
            /\ UNCHANGED <<offering, asked>>
       ELSE /\ phase' = "provider"
            /\ offering' = (offering /\ ~overdue)
            /\ asked' = asked + 1
  /\ UNCHANGED <<rounds, roundVars, budgetVars, clockVars, resumes>>

\* An answer, a failure, a timeout or an empty answer.  Calls that were not
\* offered are ignored.
EndTurn ==
  /\ phase = "provider"
  /\ phase' \in {"complete", "error"}
  /\ UNCHANGED <<rounds, offering, asked, roundVars, budgetVars, clockVars, resumes>>

RequestTools ==
  /\ phase = "provider"
  /\ offering
  /\ requests' \in Requests
  /\ rounds' = rounds + 1
  /\ phase' = "tools"
  /\ index' = 1 /\ last' = 0 /\ slots' = NoSlots /\ answered' = <<>>
  /\ UNCHANGED <<offering, asked, budgetVars, clockVars, resumes>>

-----------------------------------------------------------------------------
(* The calls of a round.                                                   *)

InRound == phase = "tools" /\ index <= Len(requests)

\* The first gated call that can be parked ends the turn; the calls behind it are dropped.
Park ==
  /\ InRound
  /\ requests[index] \in Gated
  /\ phase' = "parked"
  /\ UNCHANGED <<rounds, offering, asked, roundVars, budgetVars, clockVars, resumes>>

\* Mutant: the refused call is not answered.
SkipRefusedPark ==
  /\ InRound
  /\ requests[index] \in Gated
  /\ index' = index + 1
  /\ UNCHANGED <<loopVars, requests, last, slots, answered, budgetVars, clockVars, resumes>>

\* broker.park fails: the failure is the result of the call.
ParkRefused ==
  /\ InRound
  /\ requests[index] \in Gated
  /\ answered' = Append(answered, index)
  /\ index' = index + 1
  /\ UNCHANGED <<loopVars, requests, last, slots, budgetVars, clockVars, resumes>>

\* The read-only calls up to the next gated call.
Batch == {i \in index .. Len(requests) : \A j \in index .. i : requests[j] \in Reads}

StartBatch ==
  /\ InRound
  /\ \E end \in Batch : end + 1 \notin Batch /\ last' = end
  /\ slots' = [i \in Slots |-> IF i \in Batch THEN "waiting" ELSE "none"]
  /\ phase' = "batch"
  /\ UNCHANGED <<rounds, offering, asked, requests, index, answered, budgetVars,
                 clockVars, resumes>>

Settle(i, result) == slots' = [slots EXCEPT ![i] = result]

\* ToolBroker::execute refuses the call: its arguments, tool or scopes are
\* wrong, the deadline has passed, or a reservation fails.  A call refused for
\* its signature has already taken its place in the count.
Refuse(i) ==
  LET sig == requests[i] IN
  /\ phase = "batch"
  /\ slots[i] = "waiting"
  /\ \/ UNCHANGED calls
     \/ /\ ~expired
        /\ calls >= MaxCalls \/ repeats[sig] >= MaxRepeats
        /\ calls' = calls + 1
  /\ Settle(i, "failed")
  /\ UNCHANGED <<loopVars, requests, index, last, answered, repeats, bytes, dispatched,
                 ran, delivered, clockVars, resumes>>

\* Mutant: the call is counted when it returns.
DispatchUncounted(i) ==
  LET sig == requests[i] IN
  /\ phase = "batch"
  /\ slots[i] = "waiting"
  /\ ~expired
  /\ calls < MaxCalls /\ repeats[sig] < MaxRepeats
  /\ repeats' = [repeats EXCEPT ![sig] = @ + 1]
  /\ dispatched' = dispatched + 1
  /\ ran' = [ran EXCEPT ![sig] = @ + 1]
  /\ Settle(i, "running")
  /\ UNCHANGED <<loopVars, requests, index, last, answered, calls, bytes, delivered,
                 clockVars, resumes>>

\* try_reserve_call, try_reserve_signature and the row: no other call of the
\* batch runs in between.
Dispatch(i) ==
  LET sig == requests[i] IN
  /\ phase = "batch"
  /\ slots[i] = "waiting"
  /\ ~expired
  /\ calls < MaxCalls /\ repeats[sig] < MaxRepeats
  /\ calls' = calls + 1
  /\ repeats' = [repeats EXCEPT ![sig] = @ + 1]
  /\ dispatched' = dispatched + 1
  /\ ran' = [ran EXCEPT ![sig] = @ + 1]
  /\ Settle(i, "running")
  /\ UNCHANGED <<loopVars, requests, index, last, answered, bytes, delivered, clockVars,
                 resumes>>

\* The row cannot be written, the egress cannot be built, or the tool fails.
CallFails(i) ==
  /\ phase = "batch"
  /\ slots[i] = "running"
  /\ Settle(i, "failed")
  /\ UNCHANGED <<loopVars, requests, index, last, answered, budgetVars, clockVars, resumes>>

\* Mutant: the size of the result alone is compared.
TakeEachResult(size) ==
  /\ bytes' = bytes + size
  /\ delivered' = IF size <= MaxBytes THEN delivered + size ELSE delivered

\* try_reserve_bytes adds before it compares; a result that does not fit is
\* discarded after the call was made.
TakeResult(size) ==
  /\ bytes' = bytes + size
  /\ delivered' = IF bytes + size <= MaxBytes THEN delivered + size ELSE delivered

CallReturns(i, size) ==
  /\ phase = "batch"
  /\ slots[i] = "running"
  /\ TakeResult(size)
  /\ Settle(i, IF delivered' = delivered + size THEN "succeeded" ELSE "failed")
  /\ UNCHANGED <<loopVars, requests, index, last, answered, calls, repeats, dispatched,
                 ran, clockVars, resumes>>

\* join_all: the results are pushed in the provider's order.
EndBatch ==
  /\ phase = "batch"
  /\ \A i \in index .. last : slots[i] \in {"succeeded", "failed"}
  /\ answered' = answered \o [k \in 1 .. last - index + 1 |-> index + k - 1]
  /\ index' = last + 1
  /\ phase' = "tools"
  /\ UNCHANGED <<rounds, offering, asked, requests, last, slots, budgetVars, clockVars,
                 resumes>>

EndRound ==
  /\ phase = "tools"
  /\ index > Len(requests)
  /\ offering' = (offering /\ rounds < MaxRounds)
  /\ phase' = "ask"
  /\ UNCHANGED <<rounds, asked, roundVars, budgetVars, clockVars, resumes>>

-----------------------------------------------------------------------------
\* A decision: the loop starts over with a fresh budget, from which only the
\* bytes of an approved call's result have been taken.
Resume ==
  /\ phase = "parked"
  /\ resumes < MaxResumes
  /\ resumes' = resumes + 1
  /\ phase' = "ask" /\ rounds' = 0 /\ offering' \in BOOLEAN /\ asked' = 0
  /\ requests' = <<>> /\ index' = 1 /\ last' = 0 /\ slots' = NoSlots /\ answered' = <<>>
  /\ calls' = 0 /\ repeats' = Unused /\ dispatched' = 0 /\ ran' = Unused
  /\ \E size \in {0} \cup Sizes :
       /\ bytes' = size
       /\ delivered' = IF size <= MaxBytes THEN size ELSE 0
  /\ expired' = FALSE /\ overdue' = FALSE

-----------------------------------------------------------------------------
RunBatch(i) ==
  \/ Refuse(i)
  \/ Dispatch(i)
  \/ CallFails(i)
  \/ \E size \in Sizes : CallReturns(i, size)

Loop ==
  \/ Ask \/ EndTurn \/ RequestTools
  \/ Park \/ ParkRefused \/ StartBatch \/ EndBatch \/ EndRound

Next ==
  \/ Loop
  \/ \E i \in Slots : RunBatch(i)
  \/ Resume
  \/ Expire \/ BecomeOverdue

Spec == Init /\ [][Next]_vars

(* The task of the turn runs, and timeout_at bounds every provider round.  *)
(* Whether a tool returns is up to the tool.                               *)
FairSpec ==
  /\ Spec
  /\ WF_vars(Loop)
  /\ \A i \in Slots : WF_vars(Refuse(i) \/ Dispatch(i))

-----------------------------------------------------------------------------
(* Properties.                                                             *)

\* However many calls the rounds request and however they interleave, no more
\* than max_tool_calls read-only calls are dispatched under one budget, and no
\* more than MAX_IDENTICAL_CALLS_PER_TURN of one signature, the repetitions
\* within one batch included.
CallsBounded ==
  /\ dispatched <= MaxCalls
  /\ \A r \in Reads : ran[r] <= MaxRepeats

\* The results handed to the provider under one budget fit max_result_bytes,
\* although their sizes are known only after the calls were made.
BytesBounded == delivered <= MaxBytes

\* The provider is asked at most once more than there may be tool rounds.
RoundsBounded == asked <= MaxRounds + 1

\* Before the provider is asked again every call it requested has its result,
\* once and in the order of the requests, refused and failed calls included.
ResultsInOrder ==
  phase = "ask" => answered = [k \in 1 .. Len(requests) |-> k]

\* A turn whose tools return ends or parks, without help from the clock.
LoopEnds ==
  (\A i \in Slots : []<>(slots[i] # "running" \/ phase # "batch"))
    => (phase = "ask" ~> phase \in {"complete", "error", "parked"})
=============================================================================
