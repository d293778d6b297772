----------------------------- MODULE ToolContract -----------------------------
(***************************************************************************)
(* What a tool declares and what the registry and the egress client make   *)
(* of it: arguments are canonicalized and validated against the input      *)
(* schema, requests resolved against the allowlist, results cut down to    *)
(* the output schema and masked.                                           *)
(*                                                                         *)
(* A JSON value is a function from the paths of its nodes to the nodes, a  *)
(* schema a function from paths to rules, in which "*" stands for every    *)
(* position of an array.                                                   *)
(***************************************************************************)
EXTENDS Integers, Sequences, FiniteSets

CONSTANTS
  Bytes,         \* [texts -> their length]
  Nfc,           \* [texts -> their normal form]
  ControlTexts,  \* texts with a control character
  SecretTexts,   \* texts that look like a secret
  SensitiveKeys, \* names of fields that are masked
  Indices,       \* positions in arrays
  MaxArguments   \* MAX_TOOL_ARGUMENT_BYTES

Texts == DOMAIN Bytes

ASSUME TextsAssumption ==
  /\ Nfc \in [Texts -> Texts] /\ Bytes \in [Texts -> Nat]
  /\ \A t \in Texts : Nfc[Nfc[t]] = Nfc[t] /\ (t \in ControlTexts <=> Nfc[t] \in ControlTexts)
  /\ MaxArguments \in Nat

Node(kind, text) == [kind |-> kind, text |-> text]
Masked == Node("string", "[redacted]")

Upto(p, k) == SubSeq(p, 1, k)

\* Serialised length: every node weighs one.
Weight(v) == Cardinality(DOMAIN v)

WellFormed(v) == \A p \in DOMAIN v : v[p].kind = "string" => v[p].text \in Texts

-----------------------------------------------------------------------------
(* Arguments.                                                              *)

Canonicalizes(v) == \A p \in DOMAIN v : v[p].kind = "string" => v[p].text \notin ControlTexts

Canonical(v) ==
  [p \in DOMAIN v |-> IF v[p].kind = "string" THEN Node("string", Nfc[v[p].text]) ELSE v[p]]

SchemaPath(p) == [k \in DOMAIN p |-> IF p[k] \in Indices THEN "*" ELSE p[k]]

\* Nothing is looked at below a rule for null and in an array without a rule for its items.
Unchecked(schema, p) ==
  \E k \in 0 .. Len(p) - 1 :
    LET q == SchemaPath(Upto(p, k)) IN
    /\ q \in DOMAIN schema
    /\ \/ schema[q].type = "null"
       \/ schema[q].type = "array" /\ Append(q, "*") \notin DOMAIN schema

Items(v, p) == {q \in DOMAIN v : Len(q) = Len(p) + 1 /\ Upto(q, Len(p)) = p}

Conforms(rule, v, p) ==
  CASE rule.type = "object" ->
         /\ v[p].kind = "object" /\ rule.strict
         /\ \A key \in rule.required : Append(p, key) \in DOMAIN v
    [] rule.type = "array" ->
         v[p].kind = "array" /\ Cardinality(Items(v, p)) \in rule.min .. rule.max
    [] rule.type = "string" ->
         /\ v[p].kind = "string" /\ Bytes[v[p].text] \in rule.min .. rule.max
         /\ rule.allowed # {} => v[p].text \in rule.allowed
    [] rule.type = "number" -> v[p].kind \in {"integer", "number"}
    [] rule.type \in {"integer", "boolean"} -> v[p].kind = rule.type
    [] rule.type = "null" -> TRUE
    [] OTHER -> FALSE

\* Every node has a rule, which it satisfies.
ValidArguments(schema, v) ==
  /\ schema[<<>>].type = "object"
  /\ \A p \in DOMAIN v :
       \/ Unchecked(schema, p)
       \/ SchemaPath(p) \in DOMAIN schema /\ Conforms(schema[SchemaPath(p)], v, p)

Permitted(tool, scopes) == tool.scopes \subseteq scopes

-----------------------------------------------------------------------------
(* Results.                                                                *)

\* project_output goes on below a node only when the schema and the value
\* agree that it is an object, or that it is an array.
Descends(schema, v, p) ==
  /\ SchemaPath(p) \in DOMAIN schema
  /\ v[p].kind \in {"object", "array"} /\ v[p].kind = schema[SchemaPath(p)].type

Dropped(schema, v, p) ==
  \E k \in 0 .. Len(p) - 1 :
    /\ \A j \in 0 .. k : Descends(schema, v, Upto(p, j))
    /\ v[Upto(p, k)].kind = "object"
    /\ SchemaPath(Upto(p, k + 1)) \notin DOMAIN schema

ProjectOutput(schema, v) == [p \in {q \in DOMAIN v : ~Dropped(schema, v, q)} |-> v[p]]

\* Mutant: a masked field keeps what it contains.
RedactLeaves(v) ==
  [p \in DOMAIN v |->
    IF \/ p # <<>> /\ p[Len(p)] \in SensitiveKeys /\ v[p].kind = "string"
       \/ v[p].kind = "string" /\ v[p].text \in SecretTexts
      THEN Masked ELSE v[p]]

\* A masked field loses what is below it.
RedactSecrets(v) ==
  [p \in {q \in DOMAIN v : \A k \in 1 .. Len(q) - 1 : q[k] \notin SensitiveKeys} |->
    IF \/ p # <<>> /\ p[Len(p)] \in SensitiveKeys
       \/ v[p].kind = "string" /\ v[p].text \in SecretTexts
      THEN Masked ELSE v[p]]

Delivered(tool, v) == RedactSecrets(ProjectOutput(tool.output, v))

-----------------------------------------------------------------------------
(* Egress.                                                                 *)

\* "." and "..", which is_safe_path_param takes for identifiers.
DotSegments == {"dot", "dots"}

\* What resolve says of a request: "ok" or an error.  "bases" are the paths of
\* the services, as sequences of segments.
Resolve(bases, egress, params) ==
  CASE egress.service \notin DOMAIN bases -> "internal"
    [] egress.method \notin {"GET", "POST"} -> "internal"
    [] ~egress.safe -> "internal"
    [] \E name \in DOMAIN params : params[name] \notin {"plain"} \cup DotSegments ->
         "invalid_arguments"
    [] ~(egress.holes \subseteq DOMAIN params) -> "internal"
    [] OTHER -> "ok"

\* The path of the base and the template with its holes filled, each a segment.
Filled(bases, egress, params) ==
  bases[egress.service] \o
    [k \in DOMAIN egress.path |->
      IF egress.path[k] \in egress.holes THEN params[egress.path[k]] ELSE egress.path[k]]

\* Url::set_path takes the dot segments out, and for each ".." the last segment
\* that is left before it.  What remains keeps its place.
TakenBack(path, k) ==
  \E j \in k + 1 .. Len(path) :
    /\ path[j] = "dots"
    /\ Cardinality({l \in k + 1 .. j : path[l] = "dots"})
         > Cardinality({l \in k + 1 .. j : path[l] \notin DotSegments})

Normalized(path) ==
  [k \in {l \in DOMAIN path : path[l] \notin DotSegments /\ ~TakenBack(path, l)} |-> path[k]]

\* HttpEgress::request is bound to the target that the tool declares.
Request(bases, bound, ask) ==
  IF ask.egress # bound THEN "internal" ELSE Resolve(bases, ask.egress, ask.params)

\* Statuses of replies and the errors they become.
StatusError(status) ==
  CASE status = 404 -> "not_found"
    [] status = 429 -> "rate_limited"
    [] status \in 200 .. 299 -> "ok"
    [] OTHER -> "upstream_unavailable"
=============================================================================
