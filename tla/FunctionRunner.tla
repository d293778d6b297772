--------------------------- MODULE FunctionRunner ---------------------------
(***************************************************************************)
(* The answer loop of FunctionRunner::run: negotiation of the output       *)
(* format and of the protocol, repair of invalid answers, and the memory   *)
(* of protocols that all runs of the process share.                        *)
(*                                                                         *)
(* A model is a base URL and a model name, the key of that memory.  Which  *)
(* protocols its service accepts may change while the process lives.       *)
(***************************************************************************)
EXTENDS Integers, FiniteSets

CONSTANTS
  Runs,       \* calls of run
  Models,     \* keys of the protocol cache
  Unknown,    \* no entry in the cache, no model
  Registered, \* the kinds in the ProviderRegistry
  Schemaless, \* the kinds whose adapter cannot express a schema
  Attempts,   \* FUNCTION_OUTPUT_ATTEMPTS
  MaxMoves    \* bound on how often a service changes what it accepts

\* ProviderKind.
Kinds == {"openai", "openai_responses", "anthropic"}

ASSUME RunnerAssumption ==
  /\ Registered \subseteq Kinds /\ Schemaless \subseteq Kinds
  /\ Unknown \notin Kinds \cup Models
  /\ Attempts \in Nat \ {0} /\ MaxMoves \in Nat

VARIABLES
  memory,     \* protocol_cache
  accepts,    \* [Models -> the protocols the service accepts]
  moves,      \* [Models -> how often that has changed]
  pc,         \* [Runs -> where the run is]
  model,      \* [Runs -> the model that was selected]
  configured, \* [Runs -> configured_kind]
  active,     \* [Runs -> active_kind]
  tried,      \* [Runs -> tried_kinds]
  plain,      \* [Runs -> without_schema]
  attempts,   \* [Runs -> attempts]
  outcome,    \* [Runs -> how the run ended]
  asked,      \* history: [Runs -> calls of complete]
  answers,    \* history: [Runs -> answers of the model]
  steady,     \* history: the runs during which their service did not move
  informed,   \* history: the runs that started with the protocol known
  refused     \* history: the runs that were refused for their protocol

serviceVars == <<accepts, moves>>
selected == <<model, configured>>
negotiated == <<active, tried, plain>>
histories == <<asked, answers, steady, informed, refused>>
vars == <<memory, serviceVars, pc, selected, negotiated, attempts, outcome, histories>>

Outcomes == {"none", "rejected", "succeeded", "invalid", "upstream", "unserved", "dropped"}

TypeOK ==
  /\ memory \in [Models -> Kinds \cup {Unknown}]
  /\ accepts \in [Models -> SUBSET Kinds]
  /\ moves \in [Models -> 0 .. MaxMoves]
  /\ pc \in [Runs -> {"idle", "ask", "sent", "switching", "done"}]
  /\ model \in [Runs -> Models \cup {Unknown}]
  /\ configured \in [Runs -> Kinds \cup {Unknown}]
  /\ active \in [Runs -> Kinds \cup {Unknown}]
  /\ tried \in [Runs -> SUBSET Kinds]
  /\ plain \in [Runs -> BOOLEAN]
  /\ attempts \in [Runs -> 0 .. Attempts]
  /\ outcome \in [Runs -> Outcomes]
  /\ asked \in [Runs -> Nat] /\ answers \in [Runs -> Nat]
  /\ steady \subseteq Runs /\ informed \subseteq Runs /\ refused \subseteq Runs

Init ==
  /\ memory = [m \in Models |-> Unknown]
  /\ accepts \in [Models -> SUBSET Kinds]
  /\ moves = [m \in Models |-> 0]
  /\ pc = [r \in Runs |-> "idle"]
  /\ model = [r \in Runs |-> Unknown]
  /\ configured = [r \in Runs |-> Unknown]
  /\ active = [r \in Runs |-> Unknown]
  /\ tried = [r \in Runs |-> {}]
  /\ plain = [r \in Runs |-> FALSE]
  /\ attempts = [r \in Runs |-> 0]
  /\ outcome = [r \in Runs |-> "none"]
  /\ asked = [r \in Runs |-> 0]
  /\ answers = [r \in Runs |-> 0]
  /\ steady = Runs
  /\ informed = {}
  /\ refused = {}

-----------------------------------------------------------------------------
\* ProviderKind::alternate_protocol: at most one kind.
Alternate(kind) ==
  CASE kind = "openai" -> {"openai_responses"}
    [] kind = "openai_responses" -> {"openai"}
    [] OTHER -> {}

\* protocol_hint, or else the configured kind.
Hint(kind, m) ==
  IF memory[m] \in Registered THEN memory[m] ELSE kind

\* Mutant: the configured kind counts as tried.
TriedConfigured(kind, m) == {kind, Hint(kind, m)}

\* tried_kinds of a run that starts.
FirstTried(kind, m) == {Hint(kind, m)}

\* alternate_protocol.
Untried(r) == (Alternate(active[r]) \ tried[r]) \cap Registered

Finished(r, result) ==
  /\ pc' = [pc EXCEPT ![r] = "done"]
  /\ outcome' = [outcome EXCEPT ![r] = result]

\* Input, guard, rate limit, settings, secret, catalog or model selection refuse the run.
Reject(r) ==
  /\ pc[r] = "idle"
  /\ Finished(r, "rejected")
  /\ UNCHANGED <<memory, serviceVars, selected, negotiated, attempts, histories>>

\* The catalog was read, so the configured kind is registered.
Begin(r, m, kind) ==
  /\ pc[r] = "idle"
  /\ kind \in Registered
  /\ model' = [model EXCEPT ![r] = m]
  /\ configured' = [configured EXCEPT ![r] = kind]
  /\ active' = [active EXCEPT ![r] = Hint(kind, m)]
  /\ tried' = [tried EXCEPT ![r] = FirstTried(kind, m)]
  /\ informed' = IF memory[m] # Unknown THEN informed \cup {r} ELSE informed
  /\ pc' = [pc EXCEPT ![r] = "ask"]
  /\ UNCHANGED <<memory, serviceVars, plain, attempts, outcome, asked, answers, steady,
                 refused>>

\* The top of the loop, up to the await of complete.
Ask(r) ==
  /\ pc[r] = "ask"
  /\ attempts' = [attempts EXCEPT ![r] = @ + 1]
  /\ asked' = [asked EXCEPT ![r] = @ + 1]
  /\ pc' = [pc EXCEPT ![r] = "sent"]
  /\ UNCHANGED <<memory, serviceVars, selected, negotiated, outcome, answers, steady,
                 informed, refused>>

SchemaRefused(r) == ~plain[r] /\ active[r] \in Schemaless

\* Mutant: the refusal uses up an attempt.
ChargeRefusal(r) == attempts

\* A refusal that negotiates is not an attempt at an answer.
GiveBack(r) == [attempts EXCEPT ![r] = @ - 1]

\* Mutant: the next attempt asks for the schema again.
RefuseSchemaAgain(r) ==
  /\ pc[r] = "sent"
  /\ SchemaRefused(r)
  /\ attempts' = GiveBack(r)
  /\ pc' = [pc EXCEPT ![r] = "ask"]
  /\ UNCHANGED <<memory, serviceVars, selected, negotiated, outcome, histories>>

RefuseSchema(r) ==
  /\ pc[r] = "sent"
  /\ SchemaRefused(r)
  /\ plain' = [plain EXCEPT ![r] = TRUE]
  /\ attempts' = GiveBack(r)
  /\ pc' = [pc EXCEPT ![r] = "ask"]
  /\ UNCHANGED <<memory, serviceVars, selected, active, tried, outcome, histories>>

\* UnsupportedProtocol: the service does not serve the model on this protocol.
RefuseProtocol(r) ==
  /\ pc[r] = "sent"
  /\ ~SchemaRefused(r)
  /\ active[r] \notin accepts[model[r]]
  /\ refused' = refused \cup {r}
  /\ IF Untried(r) = {}
       THEN Finished(r, "unserved")
       ELSE /\ pc' = [pc EXCEPT ![r] = "switching"]
            /\ UNCHANGED outcome
  /\ UNCHANGED <<memory, serviceVars, selected, negotiated, attempts, asked, answers,
                 steady, informed>>

\* Mutant: the refused protocol is remembered.
RememberRefused(r, kind) == memory' = [memory EXCEPT ![model[r]] = active[r]]

\* remember_protocol, before the alternate was asked.
RememberProtocol(r, kind) == memory' = [memory EXCEPT ![model[r]] = kind]

\* The rest of the switch, after the await of its audit entry.
SwitchProtocol(r) ==
  /\ pc[r] = "switching"
  /\ \E kind \in Untried(r) :
       /\ RememberProtocol(r, kind)
       /\ active' = [active EXCEPT ![r] = kind]
  /\ tried' = [tried EXCEPT ![r] = @ \cup {active[r]}]
  /\ attempts' = GiveBack(r)
  /\ pc' = [pc EXCEPT ![r] = "ask"]
  /\ UNCHANGED <<serviceVars, selected, plain, outcome, histories>>

\* Any other failure of the provider, a rate limit or a timeout for instance.
Fail(r) ==
  /\ pc[r] = "sent"
  /\ ~SchemaRefused(r)
  /\ Finished(r, "upstream")
  /\ UNCHANGED <<memory, serviceVars, selected, negotiated, attempts, histories>>

Answered(r) ==
  /\ pc[r] = "sent"
  /\ ~SchemaRefused(r)
  /\ active[r] \in accepts[model[r]]
  /\ answers' = [answers EXCEPT ![r] = @ + 1]
  /\ UNCHANGED <<memory, serviceVars, selected, negotiated, attempts, asked, steady,
                 informed, refused>>

AcceptOutput(r) ==
  /\ Answered(r)
  /\ Finished(r, "succeeded")

MayRepair(r) == attempts[r] < Attempts

\* The output is invalid, or its diagnostics say "failed".
RejectOutput(r) ==
  /\ Answered(r)
  /\ IF MayRepair(r)
       THEN /\ pc' = [pc EXCEPT ![r] = "ask"]
            /\ UNCHANGED outcome
       ELSE Finished(r, "invalid")

\* The client goes away and the future of the request is dropped at its await.
Drop(r) ==
  /\ pc[r] \in {"sent", "switching"}
  /\ Finished(r, "dropped")
  /\ UNCHANGED <<memory, serviceVars, selected, negotiated, attempts, histories>>

\* The environment: a gateway begins to serve a model on other protocols.
ServiceMoves(m) ==
  /\ moves[m] < MaxMoves
  /\ \E protocols \in SUBSET Kinds :
       /\ protocols # accepts[m]
       /\ accepts' = [accepts EXCEPT ![m] = protocols]
  /\ moves' = [moves EXCEPT ![m] = @ + 1]
  /\ steady' = steady \ {r \in Runs : pc[r] \in {"ask", "sent", "switching"} /\ model[r] = m}
  /\ UNCHANGED <<memory, pc, selected, negotiated, attempts, outcome, asked, answers,
                 informed, refused>>

-----------------------------------------------------------------------------
Run(r) ==
  \/ Reject(r)
  \/ \E m \in Models, kind \in Kinds : Begin(r, m, kind)
  \/ Ask(r)
  \/ RefuseSchema(r)
  \/ RefuseProtocol(r)
  \/ SwitchProtocol(r)
  \/ Fail(r)
  \/ AcceptOutput(r)
  \/ RejectOutput(r)
  \/ Drop(r)

Next ==
  \/ \E r \in Runs : Run(r)
  \/ \E m \in Models : ServiceMoves(m)

Spec == Init /\ [][Next]_vars

-----------------------------------------------------------------------------
(* Properties.                                                             *)

\* Attempts are given back by two kinds of refusal, and still a run asks its
\* providers only twice more than it may be answered, whatever other runs put
\* into the shared memory meanwhile.
CallsBounded == \A r \in Runs : asked[r] <= Attempts + 2

\* "the negotiation must not shorten the repair budget": a run gives up only
\* after the model answered badly FUNCTION_OUTPUT_ATTEMPTS times, and the
\* attempts it reports are those answers.
RepairBudgetKept ==
  \A r \in Runs :
    /\ outcome[r] = "invalid" => answers[r] = Attempts
    /\ outcome[r] = "succeeded" => attempts[r] = answers[r]

\* The protocols of an OpenAI service that this process can ask.
Reachable(m) == (accepts[m] \cap Registered) \ {"anthropic"}

\* However stale the memory was, and whatever other runs wrote into it: a run
\* configured for an OpenAI service that serves the model is never turned away
\* for its protocol, if the service did not move during the run.
ReachesServingProtocol ==
  [][\A r \in Runs :
       /\ outcome[r] # "unserved" /\ outcome'[r] = "unserved"
       /\ r \in steady /\ configured[r] # "anthropic"
       => Reachable(model[r]) = {}]_vars

\* "the first, refused request is paid once per process": with a service that
\* does not change, no run that starts with the protocol known is refused.
RefusalPaidOnce ==
  \A r \in informed \cap refused :
    moves[model[r]] > 0 \/ Reachable(model[r]) = {}
=============================================================================
