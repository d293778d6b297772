-------------------------- MODULE AnthropicAdapter --------------------------
(***************************************************************************)
(* The adapter of the Messages API.                                        *)
(***************************************************************************)
EXTENDS ProviderWire

HasReasoning(request) == ReasoningOverride(request.level)

KnownBudgets == {"minimal", "low", "medium", "high", "xhigh", "max"}

\* Mutant: an unknown level is dropped.
KnownThinking(level) == [failure |-> NoFailure, block |-> {level} \cap KnownBudgets]

\* A level that asks for no thinking sends no block, an unknown one fails the request.
Thinking(level) ==
  CASE level = "none" -> [failure |-> NoFailure, block |-> {}]
    [] level \in KnownBudgets -> [failure |-> NoFailure, block |-> {level}]
    [] OTHER -> [failure |-> Failure("UnsupportedReasoning"), block |-> {}]

\* Only the first system message is sent.
FirstSystem(messages) ==
  LET systems == Systems(messages)
  IN IF systems = <<>> THEN <<>> ELSE <<Head(systems).text>>

\* A schema is refused, not dropped.
Payload(request) ==
  LET thinking == IF HasReasoning(request) THEN Thinking(request.level)
                  ELSE [failure |-> NoFailure, block |-> {}]
  IN [failure |-> IF request.schema THEN Failure("UnsupportedOutput") ELSE thinking.failure,
      system |-> FirstSystem(request.messages),
      input |-> Items(Others(request.messages)),
      schema |-> FALSE,
      reasoning |-> thinking.block]

StripReasoning(payload) == [payload EXCEPT !.reasoning = {}]

-----------------------------------------------------------------------------
(* The catalog names models and no levels.                                 *)

ParseCatalog(items) ==
  LET named == Named(items)
  IN [i \in DOMAIN named |-> Capability(named[i], <<>>)]

Catalog(reply) ==
  CASE reply.status = 0 -> Refuse(Failure(reply.body))
    [] reply.status # 0 /\ reply.body = "unreadable" -> Refuse(Failure("Transport"))
    [] reply.status = 200 /\ reply.body = "items" -> Answer(ParseCatalog(reply.items))
    [] reply.status = 200 /\ reply.body \notin {"items", "unreadable"} ->
         Refuse(Failure("InvalidPayload"))
    [] OTHER -> Refuse(ResponseError(reply, FALSE))

-----------------------------------------------------------------------------
(* Buffered completions.                                                   *)

\* An answer that was cut off is an answer: stop_reason is not read.
ExtractOutcome(body, answer) ==
  CASE body \in {"answer", "partial"} -> answer
    [] body = "thought" -> [EmptyOutcome EXCEPT !.reasoning = answer.reasoning]
    [] OTHER -> EmptyOutcome

Complete(request, reply, answer) ==
  LET outcome == ExtractOutcome(reply.body, answer)
  IN CASE reply.status = 0 -> Refuse(Failure(reply.body))
       [] reply.status # 0 /\ reply.body = "unreadable" -> Refuse(Failure("Transport"))
       [] reply.status = 200 /\ ~IsEmpty(outcome) -> Answer(outcome)
       [] reply.status = 200 /\ IsEmpty(outcome) /\ reply.body # "unreadable" ->
            IF HasReasoning(request) THEN Retry("empty") ELSE Refuse(Failure("EmptyResponse"))
       [] OTHER -> FirstRefusal(request, reply, FALSE)

CompleteAgain(cause, reply, answer) ==
  LET outcome == ExtractOutcome(reply.body, answer)
  IN CASE reply.status = 0 -> Refuse(Failure(reply.body))
       [] reply.status = 200 /\ ~IsEmpty(outcome) -> Answer(outcome)
       [] reply.status # 0 /\ (cause = "empty" \/ reply.status = 200) /\ IsEmpty(outcome) ->
            Refuse(Failure("InvalidPayload"))
       [] OTHER -> Refuse(ResponseError(reply, FALSE))

-----------------------------------------------------------------------------
(* Streamed completions.                                                   *)

Stream(request, reply) ==
  CASE reply.status = 0 -> Refuse(Failure(reply.body))
    [] reply.status = 200 -> Read
    [] OTHER -> FirstRefusal(request, reply, FALSE)

StreamAgain(reply) ==
  CASE reply.status = 0 -> Refuse(Failure(reply.body))
    [] reply.status = 200 -> Read
    [] OTHER -> Refuse(ResponseError(reply, FALSE))

NewDecoder == Accumulator

\* Both counts together give a total; an event with one of them gives none.
ParseUsage(u) ==
  [u EXCEPT !.total = IF u.prompt > 0 /\ u.completion > 0 THEN u.prompt + u.completion ELSE 0]

Consume(acc, e) ==
  CASE e.type = "message_stop" -> Done(acc)
    [] e.type = "error" -> Failed(acc)
    [] e.type = "junk" -> PlainText(acc, e.parts)
    [] e.type \in {"message_start", "message_delta"} -> Quiet(MergeUsage(acc, ParseUsage(e.usage)))
    [] e.type = "content_block_start" /\ e.kind = "call" ->
         Quiet(SetInitialInput(Identify(acc, e.index, e.id), e.index, e.parts))
    [] e.type = "content_block_delta" /\ e.kind = "thought" ->
         Data(PushReasoning(acc, e.parts), "reasoning", e.parts)
    [] e.type = "content_block_delta" /\ e.kind = "call" ->
         Quiet(PushInput(acc, e.index, e.parts))
    [] e.type = "content_block_delta" /\ e.kind = "text" ->
         Data(PushContent(acc, e.parts), "content", e.parts)
    [] OTHER -> Quiet(acc)
=============================================================================
