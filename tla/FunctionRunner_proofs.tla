------------------------ MODULE FunctionRunner_proofs ------------------------
(***************************************************************************)
(* Proofs about FunctionRunner, for any runs, models, registry, adapters   *)
(* and number of attempts.                                                 *)
(***************************************************************************)
EXTENDS FunctionRunner, TLAPS

InFlight(r) == pc[r] \in {"ask", "sent", "switching"}

\* A run has switched when it has left the only kind it had tried.
Switches(r) == IF active[r] \in tried[r] THEN 0 ELSE 1
Refusals(r) == IF plain[r] THEN 1 ELSE 0

\* Attempts are answers and the call under way; calls are attempts and what
\* the two negotiations gave back.
CountsOK(r) ==
  /\ pc[r] = "idle" => attempts[r] = 0 /\ answers[r] = 0 /\ asked[r] = 0 /\ ~plain[r]
  /\ pc[r] = "ask" => attempts[r] = answers[r] /\ attempts[r] < Attempts
  /\ pc[r] \in {"sent", "switching"} => attempts[r] = answers[r] + 1
  /\ InFlight(r) => asked[r] = attempts[r] + Refusals(r) + Switches(r)
  /\ pc[r] = "idle" => outcome[r] = "none"
  /\ InFlight(r) => outcome[r] = "none"
  /\ outcome[r] = "invalid" => answers[r] = Attempts
  /\ outcome[r] = "succeeded" => attempts[r] = answers[r]
  /\ asked[r] <= Attempts + 2

\* A run tries its first kind and at most the alternate of it.
TriedOK(r) ==
  InFlight(r) =>
    /\ model[r] \in Models /\ configured[r] \in Kinds /\ active[r] \in Kinds
    /\ \/ tried[r] = {active[r]}
       \/ active[r] \notin tried[r] /\ tried[r] = Alternate(active[r])
    /\ configured[r] # "anthropic" => active[r] # "anthropic"
    /\ pc[r] = "switching" => Untried(r) # {}

\* What a run was refused is not accepted, as long as the service did not move.
SteadyOK(r) ==
  InFlight(r) /\ (r \in steady \/ moves[model[r]] = 0) =>
    /\ active[r] \notin tried[r] => tried[r] \cap accepts[model[r]] = {}
    /\ pc[r] = "switching" => active[r] \notin accepts[model[r]]

\* The memory of a service that did not move is right, if there is a right answer.
MemoryOK(m) ==
  memory[m] # Unknown =>
    /\ memory[m] \in Registered \ {"anthropic"}
    /\ moves[m] = 0 /\ Reachable(m) # {} => memory[m] \in accepts[m]

InformedOK(r) ==
  /\ pc[r] = "idle" => r \notin informed \cup refused
  /\ r \in informed \cap refused /\ model[r] \in Models =>
       moves[model[r]] > 0 \/ Reachable(model[r]) = {}
  /\ r \in informed \cup refused => model[r] \in Models
  /\ InFlight(r) /\ r \in informed /\ moves[model[r]] = 0 /\ Reachable(model[r]) # {} =>
       active[r] \in accepts[model[r]]
  /\ pc[r] = "switching" => r \in refused

IInv ==
  /\ TypeOK
  /\ \A r \in Runs : CountsOK(r)
  /\ \A r \in Runs : TriedOK(r)
  /\ \A r \in Runs : SteadyOK(r)
  /\ \A m \in Models : MemoryOK(m)
  /\ \A r \in Runs : InformedOK(r)

\* The two OpenAI kinds are each other's alternates.
LEMMA AlternateFact ==
  \A kind \in Kinds :
    /\ Alternate(kind) \subseteq Kinds \ {kind, "anthropic"}
    /\ Alternate(kind) # {} => Alternate(kind) \cup {kind} = Kinds \ {"anthropic"}
    /\ Alternate(kind) = {} => kind = "anthropic"
    /\ \A other \in Alternate(kind) : Alternate(other) = {kind} /\ Alternate(kind) = {other}
BY DEF Alternate, Kinds

-----------------------------------------------------------------------------
LEMMA InitIInv == Init => IInv
BY RunnerAssumption DEF Init, IInv, TypeOK, CountsOK, TriedOK, SteadyOK, MemoryOK,
   InformedOK, InFlight, Outcomes

LEMMA RejectKeeps ==
  ASSUME IInv, NEW r \in Runs, Reject(r)
  PROVE  IInv'
<1> USE RunnerAssumption, AlternateFact DEF IInv, TypeOK, TriedOK, InFlight, Untried,
        Reject, Finished, serviceVars, selected, negotiated, histories
<1>1. TypeOK'
  BY DEF CountsOK, Outcomes
<1>2. \A q \in Runs : CountsOK(q)'
  BY DEF CountsOK, Switches, Refusals
<1>3. \A q \in Runs : TriedOK(q)'
  BY DEF MemoryOK
<1>4. \A q \in Runs : SteadyOK(q)'
  BY DEF SteadyOK
<1>5. \A n \in Models : MemoryOK(n)'
  BY DEF SteadyOK, MemoryOK, Reachable
<1>6. \A q \in Runs : InformedOK(q)'
  BY DEF SteadyOK, MemoryOK, InformedOK, Reachable
<1> QED BY <1>1, <1>2, <1>3, <1>4, <1>5, <1>6

LEMMA AskKeeps ==
  ASSUME IInv, NEW r \in Runs, Ask(r)
  PROVE  IInv'
<1> USE RunnerAssumption, AlternateFact DEF IInv, TypeOK, TriedOK, InFlight, Untried,
        Ask, serviceVars, selected, negotiated, histories
<1>1. TypeOK'
  BY DEF CountsOK, Outcomes
<1>2. \A q \in Runs : CountsOK(q)'
  BY DEF CountsOK, Switches, Refusals
<1>3. \A q \in Runs : TriedOK(q)'
  BY DEF MemoryOK
<1>4. \A q \in Runs : SteadyOK(q)'
  BY DEF SteadyOK
<1>5. \A n \in Models : MemoryOK(n)'
  BY DEF SteadyOK, MemoryOK, Reachable
<1>6. \A q \in Runs : InformedOK(q)'
  BY DEF SteadyOK, MemoryOK, InformedOK, Reachable
<1> QED BY <1>1, <1>2, <1>3, <1>4, <1>5, <1>6

LEMMA RefuseSchemaKeeps ==
  ASSUME IInv, NEW r \in Runs, RefuseSchema(r)
  PROVE  IInv'
<1> USE RunnerAssumption, AlternateFact DEF IInv, TypeOK, TriedOK, InFlight, Untried,
        RefuseSchema, SchemaRefused, GiveBack, serviceVars, selected, negotiated,
        histories
<1>1. TypeOK'
  BY DEF CountsOK, Outcomes
<1>2. \A q \in Runs : CountsOK(q)'
  BY DEF CountsOK, Switches, Refusals
<1>3. \A q \in Runs : TriedOK(q)'
  BY DEF MemoryOK
<1>4. \A q \in Runs : SteadyOK(q)'
  BY DEF SteadyOK
<1>5. \A n \in Models : MemoryOK(n)'
  BY DEF SteadyOK, MemoryOK, Reachable
<1>6. \A q \in Runs : InformedOK(q)'
  BY DEF SteadyOK, MemoryOK, InformedOK, Reachable
<1> QED BY <1>1, <1>2, <1>3, <1>4, <1>5, <1>6

LEMMA RefuseProtocolKeeps ==
  ASSUME IInv, NEW r \in Runs, RefuseProtocol(r)
  PROVE  IInv'
<1> USE RunnerAssumption, AlternateFact DEF IInv, TypeOK, TriedOK, InFlight, Untried,
        RefuseProtocol, SchemaRefused, Finished, serviceVars, selected, negotiated,
        histories
<1>1. TypeOK'
  BY DEF CountsOK, Outcomes
<1>2. \A q \in Runs : CountsOK(q)'
  BY DEF CountsOK, Switches, Refusals
<1>3. \A q \in Runs : TriedOK(q)'
  BY DEF MemoryOK
<1>4. \A q \in Runs : SteadyOK(q)'
  BY DEF SteadyOK
<1>5. \A n \in Models : MemoryOK(n)'
  BY DEF SteadyOK, MemoryOK, Reachable
<1>6. \A q \in Runs : InformedOK(q)'
  BY DEF SteadyOK, MemoryOK, InformedOK, Reachable
<1> QED BY <1>1, <1>2, <1>3, <1>4, <1>5, <1>6

LEMMA SwitchProtocolKeeps ==
  ASSUME IInv, NEW r \in Runs, SwitchProtocol(r)
  PROVE  IInv'
<1> USE RunnerAssumption, AlternateFact DEF IInv, TypeOK, TriedOK, InFlight, Untried,
        SwitchProtocol, RememberProtocol, GiveBack, serviceVars, selected, negotiated,
        histories
<1>1. TypeOK'
  BY DEF CountsOK, Outcomes
<1>2. \A q \in Runs : CountsOK(q)'
  BY DEF CountsOK, Switches, Refusals
<1>3. ASSUME NEW q \in Runs PROVE TriedOK(q)'
  <2>1. PICK kind \in Untried(r) : active' = [active EXCEPT ![r] = kind]
    BY DEF SwitchProtocol
  <2>2. kind \in Alternate(active[r]) /\ kind \notin tried[r]
    BY <2>1 DEF Untried
  <2>3. TriedOK(r) /\ pc[r] = "switching"
    BY DEF IInv, SwitchProtocol
  <2>4. tried[r] = {active[r]} /\ active[r] \in Kinds
    BY <2>2, <2>3 DEF TriedOK, InFlight
  <2>5. kind \in Kinds \ {active[r], "anthropic"} /\ Alternate(kind) = {active[r]}
    BY <2>2, <2>4, AlternateFact
  <2>6. CASE q = r
    <3>1. active'[r] = kind /\ tried'[r] = {active[r]} /\ pc'[r] = "ask"
      BY <2>1, <2>4 DEF SwitchProtocol, IInv, TypeOK
    <3> QED BY <2>3, <2>5, <2>6, <3>1 DEF TriedOK, InFlight, SwitchProtocol, selected
  <2>7. CASE q # r
    BY <2>7 DEF IInv, TypeOK, TriedOK, InFlight, Untried, SwitchProtocol, selected
  <2> QED BY <2>6, <2>7
<1>4. \A q \in Runs : SteadyOK(q)'
  BY DEF SteadyOK
<1>5. \A n \in Models : MemoryOK(n)'
  BY DEF SteadyOK, MemoryOK, Reachable
<1>6. \A q \in Runs : InformedOK(q)'
  BY DEF SteadyOK, MemoryOK, InformedOK, Reachable
<1> QED BY <1>1, <1>2, <1>3, <1>4, <1>5, <1>6

LEMMA FailKeeps ==
  ASSUME IInv, NEW r \in Runs, Fail(r)
  PROVE  IInv'
<1> USE RunnerAssumption, AlternateFact DEF IInv, TypeOK, TriedOK, InFlight, Untried,
        Fail, SchemaRefused, Finished, serviceVars, selected, negotiated, histories
<1>1. TypeOK'
  BY DEF CountsOK, Outcomes
<1>2. \A q \in Runs : CountsOK(q)'
  BY DEF CountsOK, Switches, Refusals
<1>3. \A q \in Runs : TriedOK(q)'
  BY DEF MemoryOK
<1>4. \A q \in Runs : SteadyOK(q)'
  BY DEF SteadyOK
<1>5. \A n \in Models : MemoryOK(n)'
  BY DEF SteadyOK, MemoryOK, Reachable
<1>6. \A q \in Runs : InformedOK(q)'
  BY DEF SteadyOK, MemoryOK, InformedOK, Reachable
<1> QED BY <1>1, <1>2, <1>3, <1>4, <1>5, <1>6

LEMMA AcceptOutputKeeps ==
  ASSUME IInv, NEW r \in Runs, AcceptOutput(r)
  PROVE  IInv'
<1> USE RunnerAssumption, AlternateFact DEF IInv, TypeOK, TriedOK, InFlight, Untried,
        AcceptOutput, Answered, SchemaRefused, Finished, serviceVars, selected,
        negotiated, histories
<1>1. TypeOK'
  BY DEF CountsOK, Outcomes
<1>2. \A q \in Runs : CountsOK(q)'
  BY DEF CountsOK, Switches, Refusals
<1>3. \A q \in Runs : TriedOK(q)'
  BY DEF MemoryOK
<1>4. \A q \in Runs : SteadyOK(q)'
  BY DEF SteadyOK
<1>5. \A n \in Models : MemoryOK(n)'
  BY DEF SteadyOK, MemoryOK, Reachable
<1>6. \A q \in Runs : InformedOK(q)'
  BY DEF SteadyOK, MemoryOK, InformedOK, Reachable
<1> QED BY <1>1, <1>2, <1>3, <1>4, <1>5, <1>6

LEMMA RejectOutputKeeps ==
  ASSUME IInv, NEW r \in Runs, RejectOutput(r)
  PROVE  IInv'
<1> USE RunnerAssumption, AlternateFact DEF IInv, TypeOK, TriedOK, InFlight, Untried,
        RejectOutput, Answered, MayRepair, SchemaRefused, Finished, serviceVars,
        selected, negotiated, histories
<1>1. TypeOK'
  BY DEF CountsOK, Outcomes
<1>2. \A q \in Runs : CountsOK(q)'
  BY DEF CountsOK, Switches, Refusals
<1>3. \A q \in Runs : TriedOK(q)'
  BY DEF MemoryOK
<1>4. \A q \in Runs : SteadyOK(q)'
  BY DEF SteadyOK
<1>5. \A n \in Models : MemoryOK(n)'
  BY DEF SteadyOK, MemoryOK, Reachable
<1>6. \A q \in Runs : InformedOK(q)'
  BY DEF SteadyOK, MemoryOK, InformedOK, Reachable
<1> QED BY <1>1, <1>2, <1>3, <1>4, <1>5, <1>6

LEMMA DropKeeps ==
  ASSUME IInv, NEW r \in Runs, Drop(r)
  PROVE  IInv'
<1> USE RunnerAssumption, AlternateFact DEF IInv, TypeOK, TriedOK, InFlight, Untried,
        Drop, Finished, serviceVars, selected, negotiated, histories
<1>1. TypeOK'
  BY DEF CountsOK, Outcomes
<1>2. \A q \in Runs : CountsOK(q)'
  BY DEF CountsOK, Switches, Refusals
<1>3. \A q \in Runs : TriedOK(q)'
  BY DEF MemoryOK
<1>4. \A q \in Runs : SteadyOK(q)'
  BY DEF SteadyOK
<1>5. \A n \in Models : MemoryOK(n)'
  BY DEF SteadyOK, MemoryOK, Reachable
<1>6. \A q \in Runs : InformedOK(q)'
  BY DEF SteadyOK, MemoryOK, InformedOK, Reachable
<1> QED BY <1>1, <1>2, <1>3, <1>4, <1>5, <1>6

LEMMA BeginKeeps ==
  ASSUME IInv, NEW r \in Runs, NEW m \in Models, NEW kind \in Kinds, Begin(r, m, kind)
  PROVE  IInv'
<1> USE RunnerAssumption, AlternateFact DEF IInv, TypeOK, TriedOK, InFlight, Untried,
        Begin, Hint, FirstTried, serviceVars, selected, negotiated, histories
<1>1. TypeOK'
  BY DEF CountsOK, Outcomes
<1>2. \A q \in Runs : CountsOK(q)'
  BY DEF CountsOK, Switches, Refusals
<1>3. \A q \in Runs : TriedOK(q)'
  BY DEF MemoryOK
<1>4. \A q \in Runs : SteadyOK(q)'
  BY DEF SteadyOK
<1>5. \A n \in Models : MemoryOK(n)'
  BY DEF SteadyOK, MemoryOK, Reachable
<1>6. \A q \in Runs : InformedOK(q)'
  BY DEF SteadyOK, MemoryOK, InformedOK, Reachable
<1> QED BY <1>1, <1>2, <1>3, <1>4, <1>5, <1>6

LEMMA ServiceMovesKeeps ==
  ASSUME IInv, NEW m \in Models, ServiceMoves(m)
  PROVE  IInv'
<1> USE RunnerAssumption, AlternateFact DEF IInv, TypeOK, TriedOK, InFlight, Untried,
        ServiceMoves, serviceVars, selected, negotiated, histories
<1>1. TypeOK'
  BY DEF CountsOK, Outcomes
<1>2. \A q \in Runs : CountsOK(q)'
  BY DEF CountsOK, Switches, Refusals
<1>3. \A q \in Runs : TriedOK(q)'
  BY DEF MemoryOK
<1>4. \A q \in Runs : SteadyOK(q)'
  BY DEF SteadyOK
<1>5. \A n \in Models : MemoryOK(n)'
  BY DEF SteadyOK, MemoryOK, Reachable
<1>6. \A q \in Runs : InformedOK(q)'
  BY DEF SteadyOK, MemoryOK, InformedOK, Reachable
<1> QED BY <1>1, <1>2, <1>3, <1>4, <1>5, <1>6

-----------------------------------------------------------------------------
LEMMA NextIInv == IInv /\ [Next]_vars => IInv'
<1> SUFFICES ASSUME IInv, [Next]_vars PROVE IInv'
  OBVIOUS
<1>1. ASSUME NEW r \in Runs, Run(r) PROVE IInv'
  BY <1>1, RejectKeeps, BeginKeeps, AskKeeps, RefuseSchemaKeeps, RefuseProtocolKeeps,
     SwitchProtocolKeeps, FailKeeps, AcceptOutputKeeps, RejectOutputKeeps, DropKeeps
     DEF Run
<1>2. ASSUME NEW m \in Models, ServiceMoves(m) PROVE IInv'
  BY <1>2, ServiceMovesKeeps
<1>3. CASE UNCHANGED vars
  BY <1>3 DEF IInv, TypeOK, CountsOK, TriedOK, SteadyOK, MemoryOK, InformedOK, InFlight,
     Switches, Refusals, Untried, Reachable, vars, serviceVars, selected, negotiated,
     histories
<1> QED BY <1>1, <1>2, <1>3 DEF Next

THEOREM RunnerInvariant == Spec => []IInv
<1> QED BY InitIInv, NextIInv, PTL DEF Spec

\* The state of every run and of the memory is well formed.
THEOREM RunnerTypeCorrect == Spec => []TypeOK
<1>1. IInv => TypeOK
  BY DEF IInv
<1> QED BY <1>1, RunnerInvariant, PTL

\* FUNCTION_OUTPUT_ATTEMPTS and the two negotiations bound the provider calls.
THEOREM ProviderCallsBounded == Spec => []CallsBounded
<1>1. IInv => CallsBounded
  BY DEF IInv, CountsOK, CallsBounded
<1> QED BY <1>1, RunnerInvariant, PTL

\* Negotiation leaves the repair budget alone.
THEOREM NegotiationIsFree == Spec => []RepairBudgetKept
<1>1. IInv => RepairBudgetKept
  BY DEF IInv, CountsOK, RepairBudgetKept
<1> QED BY <1>1, RunnerInvariant, PTL

\* A remembered protocol spares every later run the refusal.
THEOREM RefusalsArePaidOnce == Spec => []RefusalPaidOnce
<1>1. ASSUME IInv, NEW r \in informed \cap refused
      PROVE  moves[model[r]] > 0 \/ Reachable(model[r]) = {}
  <2>1. r \in Runs
    BY <1>1 DEF IInv, TypeOK
  <2> QED BY <1>1, <2>1 DEF IInv, InformedOK
<1>2. IInv => RefusalPaidOnce
  BY <1>1 DEF RefusalPaidOnce
<1> QED BY <1>2, RunnerInvariant, PTL

\* Only a refusal of the second kind ends a run as unserved, and by SteadyOK
\* neither kind is accepted then.
THEOREM ServingProtocolIsReached == Spec => ReachesServingProtocol
<1>1. ASSUME IInv, [Next]_vars, NEW r \in Runs,
             outcome[r] # "unserved", outcome'[r] = "unserved",
             r \in steady, configured[r] # "anthropic"
      PROVE  Reachable(model[r]) = {}
  <2>1. RefuseProtocol(r) /\ Untried(r) = {}
    BY <1>1 DEF IInv, TypeOK, Next, Run, Reject, Begin, Ask, RefuseSchema,
       RefuseProtocol, SwitchProtocol, Fail, AcceptOutput, RejectOutput, Drop, Answered,
       ServiceMoves, Finished, vars, histories
  <2>2. pc[r] = "sent" /\ active[r] \notin accepts[model[r]]
    BY <2>1 DEF RefuseProtocol
  <2>3. TriedOK(r) /\ SteadyOK(r) /\ InFlight(r)
    BY <1>1, <2>2 DEF IInv, InFlight
  <2>4. active[r] \in Kinds \ {"anthropic"}
    BY <1>1, <2>3 DEF TriedOK
  <2>5. Alternate(active[r]) \cup {active[r]} = Kinds \ {"anthropic"}
    BY <2>4, AlternateFact
  <2>6. Alternate(active[r]) \cap Registered \cap accepts[model[r]] = {}
    <3>1. CASE tried[r] = {active[r]}
      <4>1. Alternate(active[r]) \cap tried[r] = {}
        BY <2>4, <3>1, AlternateFact
      <4> QED BY <2>1, <4>1 DEF Untried
    <3>2. CASE active[r] \notin tried[r] /\ tried[r] = Alternate(active[r])
      BY <1>1, <2>3, <3>2 DEF SteadyOK
    <3> QED BY <2>3, <3>1, <3>2 DEF TriedOK
  <2>7. Registered \subseteq Kinds
    BY RunnerAssumption
  <2> QED BY <2>2, <2>5, <2>6, <2>7 DEF Reachable
<1>2. IInv /\ [Next]_vars =>
        \A r \in Runs :
          /\ outcome[r] # "unserved" /\ outcome'[r] = "unserved"
          /\ r \in steady /\ configured[r] # "anthropic"
          => Reachable(model[r]) = {}
  BY <1>1
<1>3. IInv /\ [Next]_vars =>
        [\A r \in Runs :
          /\ outcome[r] # "unserved" /\ outcome'[r] = "unserved"
          /\ r \in steady /\ configured[r] # "anthropic"
          => Reachable(model[r]) = {}]_vars
  BY <1>2
<1> QED BY <1>3, RunnerInvariant, PTL DEF Spec, ReachesServingProtocol
=============================================================================
