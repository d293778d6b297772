------------------------------ MODULE ToolBroker ------------------------------
(***************************************************************************)
(* The calls of ToolLoop in detail: what the provider wrote, what the      *)
(* broker and the registry check and in which order, the credential and    *)
(* the request of the tool, the reply, and the result that the loop hands  *)
(* back.  Every step is a step of ToolLoop or leaves its variables alone.  *)
(*                                                                         *)
(* A tool is code of the application: it makes at most one request and     *)
(* hands on the error it gets, or returns one of a few values.             *)
(***************************************************************************)
EXTENDS ToolLoop, ToolContract

CONSTANTS
  Deployments, \* tools, caller and configuration, see DeploymentsAssumption
  Nothing      \* no value

CallsOf(d) == {r \in Reads \cup Gated : d.means[r].tool \in DOMAIN d.tools}

ASSUME DeploymentsAssumption ==
  \A d \in Deployments :
    /\ DOMAIN d.means = Reads \cup Gated
    /\ \A r \in Reads \cup Gated :
         \* a signature is the hash of the canonical arguments
         \A v, w \in d.means[r].spellings : WellFormed(v) /\ Canonical(v) = Canonical(w)
    /\ \A r \in CallsOf(d) : d.tools[d.means[r].tool].gated <=> r \in Gated
    /\ Gated \subseteq CallsOf(d)
    /\ d.batches \subseteq Requests
    /\ \A service \in DOMAIN d.bases : d.bases[service] \in Seq(STRING)
    /\ \A name \in DOMAIN d.tools : d.tools[name].egress.path \in Seq(STRING)
    /\ \A name \in DOMAIN d.tools : \A v \in d.tools[name].returns :
         \/ Weight(v) > d.tools[name].max_bytes
         \/ Weight(Delivered(d.tools[name], v)) \in Sizes

VARIABLES
  deployment, \* fixed
  given,      \* [Slots -> the arguments as the provider wrote them]
  step,       \* [Slots -> "none", "recorded", "unrecorded", "egress" or "sent"]
  bearer,     \* [Slots -> the credential of the call's requests]
  outcome,    \* [Slots -> [code, result]] of the current batch
  told,       \* the outcomes pushed for the calls of the round, in order
  rows,       \* [Slots -> the status of the call's row, or "none"]
  audited,    \* [Slots -> the call's entry in the audit log]
  sent        \* history: [Slots -> the request that reached a service]

callVars == <<given, step, bearer, outcome, sent>>
bookVars == <<rows, audited>>
brokerVars == <<deployment, callVars, told, bookVars>>
bvars == <<vars, brokerVars>>

NoOutcome == [code |-> "none", result |-> Nothing]
Failed(code) == [code |-> code, result |-> Nothing]
NoEntry == [outcome |-> "none", decision |-> "none"]
NoSend == [there |-> FALSE, late |-> FALSE]

Fresh(value) == [i \in Slots |-> value]

BInit ==
  /\ Init
  /\ deployment \in Deployments
  /\ given = Fresh(Nothing) /\ step = Fresh("none") /\ bearer = Fresh("none")
  /\ outcome = Fresh(NoOutcome) /\ told = <<>> /\ sent = Fresh(NoSend)
  /\ rows = Fresh("none") /\ audited = Fresh(NoEntry)

-----------------------------------------------------------------------------
(* The round.                                                              *)

Meaning(i) == deployment.means[requests[i]]
Known(i) == Meaning(i).tool \in DOMAIN deployment.tools
Tool(i) == deployment.tools[Meaning(i).tool]

\* Mutant: the arguments of the request stay as the provider wrote them.
AsWritten(i) == given[i]

Arguments(i) == Canonical(given[i])

BRequestTools ==
  /\ RequestTools
  /\ requests' \in deployment.batches
  /\ \E g \in [DOMAIN requests' -> UNION {deployment.means[r].spellings : r \in Reads \cup Gated}] :
       /\ \A i \in DOMAIN requests' : g[i] \in deployment.means[requests'[i]].spellings
       /\ given' = [i \in Slots |-> IF i \in DOMAIN requests' THEN g[i] ELSE Nothing]
  /\ step' = Fresh("none") /\ bearer' = Fresh("none")
  /\ outcome' = Fresh(NoOutcome) /\ sent' = Fresh(NoSend) /\ told' = <<>>
  /\ rows' = Fresh("none") /\ audited' = Fresh(NoEntry)
  /\ UNCHANGED deployment

\* The checks that park and execute begin with, in their order.
Objection(i) ==
  CASE ~Canonicalizes(given[i]) -> "invalid_arguments"
    [] ~Known(i) -> "unknown"
    [] ~Permitted(Tool(i), deployment.scopes) -> "not_permitted"
    [] OTHER -> "none"

\* A store or an audit log that fails leaves what was there; the broker goes on.
Book(i, statuses, entry) ==
  /\ \E status \in statuses : rows' = [rows EXCEPT ![i] = status]
  /\ \E e \in {entry} \cup (IF deployment.faulty THEN {audited[i]} ELSE {}) :
       audited' = [audited EXCEPT ![i] = e]

Entry(result, verdict) == [outcome |-> result, decision |-> verdict]
Kept(i, status) == {status} \cup (IF deployment.faulty THEN {rows[i]} ELSE {})
StatusOf(code) ==
  CASE code = "ok" -> "succeeded" [] code = "not_permitted" -> "denied" [] OTHER -> "failed"

\* record_failed_call: a row is inserted, unless there is one, and completed.
BookRejection(i, code) ==
  Book(i, Kept(i, StatusOf(code)) \cup (IF deployment.faulty THEN {"running"} ELSE {}),
       Entry(CASE code = "not_permitted" -> "denied"
               [] code \in {"limit_exceeded", "rate_limited", "timeout"} -> code
               [] OTHER -> "failed", "denied"))

\* A call whose arguments or name mean nothing gets no row.
BookObjection(i, code, unknown) ==
  CASE code = "invalid_arguments" -> Book(i, {"none"}, Entry("failed", "denied"))
    [] code = "unknown" -> Book(i, {"none"}, unknown)
    [] OTHER -> BookRejection(i, code)

BPark ==
  /\ Park
  /\ Objection(index) = "none" /\ ValidArguments(Tool(index).input, Arguments(index))
  /\ Book(index, {"awaiting_approval"}, Entry("awaiting_approval", "requested"))
  /\ UNCHANGED <<deployment, callVars, told>>

\* The checks, the quota, and the store that cannot count.
ParkRejection(i) ==
  IF ~ValidArguments(Tool(i).input, Arguments(i)) THEN {"invalid_arguments"}
  ELSE {"rate_limited"} \cup (IF deployment.faulty THEN {"internal"} ELSE {})

BParkRefused ==
  /\ ParkRefused
  /\ \E code \in IF Objection(index) # "none" THEN {Objection(index)} ELSE ParkRejection(index) :
       /\ told' = Append(told, Failed(code))
       /\ \/ Objection(index) # "none" /\ BookObjection(index, code, NoEntry)
          \/ Objection(index) = "none" /\ BookRejection(index, code)
          \* the row of the parked call cannot be written
          \/ code = "internal" /\ UNCHANGED bookVars
  /\ UNCHANGED <<deployment, callVars>>

BEndBatch ==
  /\ EndBatch
  /\ told' = told \o [k \in 1 .. last - index + 1 |-> outcome[index + k - 1]]
  /\ UNCHANGED <<deployment, callVars, bookVars>>

BResume ==
  /\ Resume
  /\ given' = Fresh(Nothing) /\ step' = Fresh("none") /\ bearer' = Fresh("none")
  /\ outcome' = Fresh(NoOutcome) /\ sent' = Fresh(NoSend) /\ told' = <<>>
  /\ rows' = Fresh("none") /\ audited' = Fresh(NoEntry)
  /\ UNCHANGED deployment

\* Steps that the broker has no part in.
Elsewhere ==
  /\ Ask \/ EndTurn \/ StartBatch \/ EndRound \/ Expire \/ BecomeOverdue
  /\ UNCHANGED brokerVars

-----------------------------------------------------------------------------
(* A call of a batch.                                                      *)

Conclude(i, result) ==
  /\ outcome' = [outcome EXCEPT ![i] = result]
  /\ step' = [step EXCEPT ![i] = "none"]
  /\ UNCHANGED <<deployment, given, bearer, told>>

\* Mutant: what the tool returned is booked before its bytes are reserved.
BookOptimistically(i, code) ==
  LET booked == IF code = "limit_exceeded" THEN "ok" ELSE code IN
  Book(i, Kept(i, StatusOf(booked)),
       Entry(IF booked = "ok" THEN "succeeded" ELSE "failed", "allowed"))

\* Once dispatched: complete_call and the entry of the decision.
BookExecution(i, code) ==
  Book(i, Kept(i, StatusOf(code)),
       Entry(IF code = "ok" THEN "succeeded" ELSE "failed", "allowed"))

BRefuse(i) ==
  /\ Refuse(i)
  /\ \/ /\ Objection(i) # "none" /\ calls' = calls
        /\ Conclude(i, Failed(Objection(i)))
        /\ BookObjection(i, Objection(i), Entry("unknown", "denied"))
     \/ /\ Objection(i) = "none"
        /\ LET code == IF expired THEN "timeout" ELSE "limit_exceeded" IN
           /\ calls' = calls <=> expired
           /\ Conclude(i, Failed(code)) /\ BookRejection(i, code)
  /\ UNCHANGED sent

\* The reservations, and the row that is written before anything else happens.
BDispatch(i) ==
  /\ Dispatch(i)
  /\ Objection(i) = "none"
  /\ \/ rows' = [rows EXCEPT ![i] = "running"] /\ step' = [step EXCEPT ![i] = "recorded"]
     \/ deployment.faulty /\ rows' = rows /\ step' = [step EXCEPT ![i] = "unrecorded"]
  /\ UNCHANGED <<deployment, given, bearer, outcome, told, sent, audited>>

Fails(i, code) == CallFails(i) /\ Conclude(i, Failed(code)) /\ UNCHANGED sent

NotRecorded(i) == step[i] = "unrecorded" /\ Fails(i, "internal") /\ UNCHANGED bookVars

\* Where a credential comes from: "none" when the caller has no token.
Credential(i) ==
  IF Tool(i).auth = "minted" THEN "minted"
  ELSE IF deployment.exchanger THEN "exchanged"
  ELSE IF deployment.token THEN "caller" ELSE "none"

\* build_egress: the token service may fail, and the deadline may have passed.
BuildEgress(i) ==
  /\ step[i] = "recorded"
  /\ ~expired /\ (Tool(i).auth = "minted" => deployment.minter)
  /\ bearer' = [bearer EXCEPT ![i] = Credential(i)]
  /\ step' = [step EXCEPT ![i] = "egress"]
  /\ UNCHANGED <<vars, deployment, given, outcome, told, sent, bookVars>>

NoEgress(i) ==
  /\ step[i] = "recorded"
  /\ \/ /\ Credential(i) \in {"minted", "exchanged"}
        /\ Fails(i, "upstream_unavailable") /\ BookRejection(i, "upstream_unavailable")
     \/ expired /\ Fails(i, "timeout") /\ BookRejection(i, "timeout")

\* ToolRegistry::execute before the tool runs: an error, or "ok".
Checked(i) ==
  CASE Weight(Arguments(i)) > MaxArguments -> "invalid_arguments"
    [] ~ValidArguments(Tool(i).input, Arguments(i)) -> "invalid_arguments"
    [] ~Permitted(Tool(i), deployment.scopes) -> "not_permitted"
    [] expired -> "timeout"
    [] OTHER -> "ok"

RefusedByRegistry(i) ==
  /\ step[i] = "egress"
  /\ Checked(i) # "ok"
  /\ Fails(i, Checked(i)) /\ BookExecution(i, Checked(i))

SendOf(i, ask) ==
  [there |-> TRUE, late |-> expired, egress |-> ask.egress, params |-> ask.params,
   path |-> Normalized(Filled(deployment.bases, ask.egress, ask.params)),
   bearer |-> bearer[i], arguments |-> Arguments(i)]

\* The tool asks: ToolExecContext::call looks at the clock, HttpEgress at the target.
Send(i) ==
  /\ step[i] = "egress" /\ Checked(i) = "ok"
  /\ \E ask \in Tool(i).asks :
       LET verdict == Request(deployment.bases, Tool(i).egress, ask) IN
       IF verdict = "ok"
         THEN /\ sent' = [sent EXCEPT ![i] = SendOf(i, ask)]
              /\ step' = [step EXCEPT ![i] = "sent"]
              /\ UNCHANGED <<vars, deployment, given, bearer, outcome, told, bookVars>>
         ELSE Fails(i, verdict) /\ BookExecution(i, verdict)

\* An error status, a broken connection, or the time limit of the client.
Refused(i) ==
  /\ step[i] = "sent"
  /\ \E code \in {StatusError(s) : s \in {404, 429, 500}} \cup {"upstream_unavailable", "timeout"} :
       Fails(i, code) /\ BookExecution(i, code)

\* The tool returns, without a request if it makes none.
Returns(i) ==
  /\ \/ step[i] = "sent"
     \/ step[i] = "egress" /\ Checked(i) = "ok" /\ Tool(i).asks = {}
  /\ \E v \in Tool(i).returns :
       IF Weight(v) > Tool(i).max_bytes
         THEN Fails(i, "result_too_large") /\ BookExecution(i, "result_too_large")
         ELSE LET result == Delivered(Tool(i), v) IN
              /\ CallReturns(i, Weight(result))
              /\ LET code == IF slots'[i] = "succeeded" THEN "ok" ELSE "limit_exceeded" IN
                 /\ Conclude(i, [code |-> code, result |-> IF code = "ok" THEN result ELSE Nothing])
                 /\ BookExecution(i, code)
              /\ UNCHANGED sent

Execute(i) ==
  \/ BRefuse(i) \/ BDispatch(i) \/ NotRecorded(i) \/ BuildEgress(i) \/ NoEgress(i)
  \/ RefusedByRegistry(i) \/ Send(i) \/ Refused(i) \/ Returns(i)

BNext ==
  \/ BRequestTools \/ BPark \/ BParkRefused \/ BEndBatch \/ BResume \/ Elsewhere
  \/ \E i \in Slots : Execute(i)

BSpec == BInit /\ [][BNext]_bvars

BLoop == BRequestTools \/ BPark \/ BParkRefused \/ BEndBatch \/ (Elsewhere /\ Loop)

\* As in ToolLoop, and a tool that was not called yet is called.
BFairSpec ==
  /\ BSpec
  /\ WF_bvars(BLoop)
  /\ \A i \in Slots : WF_bvars(BRefuse(i) \/ BDispatch(i))

-----------------------------------------------------------------------------
(* Properties.                                                             *)

\* The path that a request was declared to have, unless a segment of it is "."
\* or "..": those are resolved, up to the root of the service.
AsDeclared(path, declared) ==
  (\A k \in DOMAIN declared : declared[k] \notin DotSegments) => path = declared

(* Whatever reaches a service was requested from the target the tool       *)
(* declares, at the path it declares unless a parameter is a dot segment,  *)
(* with the kind of credential it declares, with canonical arguments its   *)
(* schema accepts, for a caller who holds every scope it asks for, without *)
(* an approval that it needs, and before the deadline.                     *)
EffectsAsDeclared ==
  \A i \in Slots : sent[i].there =>
    /\ Known(i) /\ ~Tool(i).gated /\ Permitted(Tool(i), deployment.scopes)
    /\ sent[i].egress = Tool(i).egress /\ sent[i].egress.service \in DOMAIN deployment.bases
    /\ AsDeclared(sent[i].path, Filled(deployment.bases, Tool(i).egress, sent[i].params))
    /\ sent[i].bearer = "minted" <=> Tool(i).auth = "minted"
    /\ Canonical(sent[i].arguments) = sent[i].arguments
    /\ ValidArguments(Tool(i).input, sent[i].arguments)
    /\ ~sent[i].late

\* The fields of a result that its schema names, at any depth.
Named(schema, v) ==
  {p \in DOMAIN v : \A k \in 0 .. Len(p) : SchemaPath(Upto(p, k)) \in DOMAIN schema}

Open(p) == \A k \in 1 .. Len(p) - 1 : p[k] \notin SensitiveKeys

(* The provider is told of every call of the round, each under its own     *)
(* position: a result has the fields that the tool's schema names and no   *)
(* other, those of sensitive names masked and the rest as the tool         *)
(* returned it; whoever got one was permitted and wrote valid arguments.   *)
ResultsAsDeclared ==
  phase = "ask" =>
    /\ Len(told) = Len(requests)
    /\ \A i \in DOMAIN told : told[i].code = "ok" =>
         /\ Known(i) /\ ValidArguments(Tool(i).input, Arguments(i))
         /\ \E v \in Tool(i).returns :
              LET r == told[i].result IN
              /\ DOMAIN r = {p \in Named(Tool(i).output, v) : Open(p)}
              /\ \A p \in DOMAIN r : r[p] \in {v[p], Masked}
              /\ \A p \in DOMAIN r \ {<<>>} : p[Len(p)] \in SensitiveKeys => r[p] = Masked

(* Rows and audit entries are written beside the answer to the provider,   *)
(* and may be lost, but never say otherwise: success is recorded for the   *)
(* calls whose result the provider got and for no other, and a call whose  *)
(* request reached a service has its row, and no entry that denies it.     *)
BooksTruthful ==
  /\ phase = "ask" => \A i \in DOMAIN told :
       /\ "succeeded" \in {rows[i], audited[i].outcome} => told[i].code = "ok"
       /\ told[i].code = "ok" => /\ rows[i] \in {"running", "succeeded"}
                                 /\ audited[i] \in {NoEntry, Entry("succeeded", "allowed")}
       /\ rows[i] = "denied" => told[i].code = "not_permitted"
  /\ \A i \in Slots : sent[i].there => rows[i] # "none" /\ audited[i].decision # "denied"
=============================================================================
