--------------------------- MODULE OpenAiAdapter ---------------------------
(***************************************************************************)
(* The adapter of the Chat Completions API: the request, the verdict on a  *)
(* reply, and the decoder of the stream.                                   *)
(***************************************************************************)
EXTENDS ProviderWire

HasReasoning(request) == ReasoningOverride(request.level)

\* Every message is sent where it stands, system messages included.
Payload(request) ==
  [failure |-> NoFailure,
   system |-> <<>>,
   input |-> Items(request.messages),
   schema |-> request.schema,
   reasoning |-> IF HasReasoning(request) THEN {request.level} ELSE {}]

StripReasoning(payload) == [payload EXCEPT !.reasoning = {}]

-----------------------------------------------------------------------------
(* The catalog.                                                            *)

Levels(item) == IF item.reasons = "no" THEN <<>> ELSE Distinct(item.levels)

ParseCatalog(items) ==
  LET named == Named(items)
  IN [i \in DOMAIN named |-> Capability(named[i], Levels(named[i]))]

Catalog(reply) ==
  CASE reply.status = 0 -> Refuse(Failure(reply.body))
    [] reply.status # 0 /\ reply.body = "unreadable" -> Refuse(Failure("Transport"))
    [] reply.status = 200 /\ reply.body = "items" -> Answer(ParseCatalog(reply.items))
    [] reply.status = 200 /\ reply.body \notin {"items", "unreadable"} ->
         Refuse(Failure("InvalidPayload"))
    [] OTHER -> Refuse(ResponseError(reply, FALSE))

-----------------------------------------------------------------------------
(* Buffered completions.                                                   *)

\* One choice, skipped when it carries nothing at all.  An answer that was cut
\* off is an answer: finish_reason is not read.
ExtractOutcomes(body, answer) ==
  CASE body \in {"answer", "partial"} -> <<answer>>
    [] body = "thought" -> <<[EmptyOutcome EXCEPT !.reasoning = answer.reasoning]>>
    [] OTHER -> <<>>

Useful(outcomes) ==
  IF outcomes = <<>> \/ IsEmpty(Head(outcomes)) THEN <<>> ELSE outcomes

\* A choice with reasoning alone is no reason to ask again, and is not returned either.
Complete(request, reply, answer) ==
  LET outcomes == ExtractOutcomes(reply.body, answer)
  IN CASE reply.status = 0 -> Refuse(Failure(reply.body))
       [] reply.status # 0 /\ reply.body = "unreadable" -> Refuse(Failure("Transport"))
       [] reply.status = 200 /\ outcomes # <<>> ->
            Answer(IF Useful(outcomes) = <<>> THEN EmptyOutcome ELSE Head(Useful(outcomes)))
       [] reply.status = 200 /\ outcomes = <<>> /\ reply.body # "unreadable" ->
            IF HasReasoning(request) THEN Retry("empty") ELSE Refuse(Failure("EmptyResponse"))
       [] OTHER -> FirstRefusal(request, reply, TRUE)

\* After an empty answer any failure of the second request is an invalid payload.
CompleteAgain(cause, reply, answer) ==
  LET useful == Useful(ExtractOutcomes(reply.body, answer))
  IN CASE reply.status = 0 -> Refuse(Failure(reply.body))
       [] reply.status = 200 /\ useful # <<>> -> Answer(Head(useful))
       [] reply.status # 0 /\ (cause = "empty" \/ reply.status = 200) /\ useful = <<>> ->
            Refuse(Failure("InvalidPayload"))
       [] OTHER -> Refuse(ResponseError(reply, TRUE))

-----------------------------------------------------------------------------
(* Streamed completions.                                                   *)

Stream(request, reply) ==
  CASE reply.status = 0 -> Refuse(Failure(reply.body))
    [] reply.status = 200 -> Read
    [] OTHER -> FirstRefusal(request, reply, TRUE)

StreamAgain(reply) ==
  CASE reply.status = 0 -> Refuse(Failure(reply.body))
    [] reply.status = 200 -> Read
    [] OTHER -> Refuse(ResponseError(reply, TRUE))

NewDecoder == Accumulator

\* A fragment without an index opens the next call.
ConsumeToolCall(acc, e) ==
  LET i == IF e.index = NoIndex THEN Cardinality(DOMAIN acc.calls) ELSE e.index
  IN PushInput(Identify(acc, i, e.id), i, e.parts)

Consume(acc, e) ==
  CASE e.type = "[DONE]" -> Done(acc)
    [] e.type = "error" -> Failed(acc)
    [] e.type = "junk" -> PlainText(acc, e.parts)
    [] e.type = "usage" -> Quiet(MergeUsage(acc, e.usage))
    [] e.type = "content" -> Data(PushContent(acc, e.parts), "content", e.parts)
    [] e.type = "reasoning" -> Data(PushReasoning(acc, e.parts), "reasoning", e.parts)
    [] e.type = "tool_calls" -> Quiet(ConsumeToolCall(acc, e))
    [] OTHER -> Quiet(acc)
=============================================================================
