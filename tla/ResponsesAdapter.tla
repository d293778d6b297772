-------------------------- MODULE ResponsesAdapter --------------------------
(***************************************************************************)
(* The adapter of the Responses API.                                       *)
(***************************************************************************)
EXTENDS ProviderWire

HasReasoning(request) == ReasoningOverride(request.level)

\* System messages become the instructions; one without a text adds nothing to them.
Instructions(messages) ==
  LET told == Those(messages, {i \in DOMAIN messages : messages[i].role = "system" /\ messages[i].text # ""})
  IN [i \in DOMAIN told |-> told[i].text]

Payload(request) ==
  [failure |-> NoFailure,
   system |-> Instructions(request.messages),
   input |-> Items(Others(request.messages)),
   schema |-> request.schema,
   reasoning |-> IF HasReasoning(request) THEN {request.level} ELSE {}]

StripReasoning(payload) == [payload EXCEPT !.reasoning = {}]

-----------------------------------------------------------------------------
(* The catalog.                                                            *)

Levels(item) == IF item.reasons = "no" THEN <<>> ELSE Distinct(item.levels)

ParseCatalog(items) ==
  LET named == Named(items)
  IN [i \in DOMAIN named |-> Capability(named[i], Levels(named[i]))]

Catalog(reply) ==
  CASE reply.status = 0 -> Refuse(Failure(reply.body))
    [] reply.status # 0 /\ reply.body = "unreadable" -> Refuse(Failure("Transport"))
    [] reply.status = 200 /\ reply.body = "items" -> Answer(ParseCatalog(reply.items))
    [] reply.status = 200 /\ reply.body \notin {"items", "unreadable"} ->
         Refuse(Failure("InvalidPayload"))
    [] OTHER -> Refuse(ResponseError(reply, FALSE))

-----------------------------------------------------------------------------
(* Buffered completions.                                                   *)

\* A body whose status is not "completed" is no answer.
IsCompleted(body) == body \in {"answer", "thought", "empty"}

ExtractOutcome(body, answer) ==
  CASE body = "answer" -> answer
    [] body = "thought" -> [EmptyOutcome EXCEPT !.reasoning = answer.reasoning]
    [] OTHER -> EmptyOutcome

Complete(request, reply, answer) ==
  LET outcome == ExtractOutcome(reply.body, answer)
  IN CASE reply.status = 0 -> Refuse(Failure(reply.body))
       [] reply.status # 0 /\ reply.body = "unreadable" -> Refuse(Failure("Transport"))
       [] reply.status = 200 /\ reply.body # "unreadable" /\ ~IsCompleted(reply.body) ->
            Refuse(Failure("InvalidPayload"))
       [] reply.status = 200 /\ ~IsEmpty(outcome) -> Answer(outcome)
       [] reply.status = 200 /\ IsCompleted(reply.body) /\ IsEmpty(outcome) ->
            IF HasReasoning(request) THEN Retry("empty") ELSE Refuse(Failure("EmptyResponse"))
       [] OTHER -> FirstRefusal(request, reply, TRUE)

CompleteAgain(cause, reply, answer) ==
  LET outcome == ExtractOutcome(reply.body, answer)
  IN CASE reply.status = 0 -> Refuse(Failure(reply.body))
       [] reply.status = 200 /\ ~IsEmpty(outcome) -> Answer(outcome)
       [] reply.status # 0 /\ (cause = "empty" \/ reply.status = 200) /\ IsEmpty(outcome) ->
            Refuse(Failure("InvalidPayload"))
       [] OTHER -> Refuse(ResponseError(reply, TRUE))

-----------------------------------------------------------------------------
(* Streamed completions.                                                   *)

Stream(request, reply) ==
  CASE reply.status = 0 -> Refuse(Failure(reply.body))
    [] reply.status = 200 -> Read
    [] OTHER -> FirstRefusal(request, reply, TRUE)

StreamAgain(reply) ==
  CASE reply.status = 0 -> Refuse(Failure(reply.body))
    [] reply.status = 200 -> Read
    [] OTHER -> Refuse(ResponseError(reply, TRUE))

\* The output indexes whose text, reasoning or arguments arrived as deltas.
NewDecoder ==
  [content |-> <<>>, reasoning |-> <<>>, usage |-> NoUsage, calls |-> <<>>,
   streamed_text |-> {}, streamed_reasoning |-> {}, streamed_arguments |-> {}]

Unless(streamed, parts) == IF streamed THEN <<>> ELSE parts

ConsumeText(acc, e) ==
  LET parts == Unless(e.index \in acc.streamed_text, e.parts)
  IN Data(PushContent(acc, parts), "content", parts)

ConsumeReasoning(acc, e) ==
  LET parts == Unless(e.index \in acc.streamed_reasoning, e.parts)
  IN Data(PushReasoning(acc, parts), "reasoning", parts)

\* A full text, after the item's deltas or instead of them.
ConsumeArguments(acc, e) ==
  Quiet(IF e.index \in acc.streamed_arguments THEN acc ELSE PushInput(acc, e.index, e.parts))

ConsumeItem(acc, e) ==
  CASE e.kind = "text" -> ConsumeText(acc, e)
    [] e.kind = "thought" -> ConsumeReasoning(acc, e)
    [] e.kind = "call" -> ConsumeArguments(Identify(acc, e.index, e.id), e)
    [] OTHER -> Quiet(acc)

Consume(acc, e) ==
  CASE e.type = "[DONE]" -> Done(acc)
    [] e.type = "response.completed" /\ e.kind = "completed" -> Done(MergeUsage(acc, e.usage))
    [] e.type = "response.completed" /\ e.kind # "completed" -> Failed(acc)
    [] e.type \in {"response.failed", "response.incomplete", "response.error"} -> Failed(acc)
    [] e.type = "junk" -> PlainText(acc, e.parts)
    [] e.type = "response.output_text.delta" ->
         Data([PushContent(acc, e.parts) EXCEPT !.streamed_text = @ \cup {e.index}],
              "content", e.parts)
    [] e.type = "response.reasoning_text.delta" ->
         Data([PushReasoning(acc, e.parts) EXCEPT !.streamed_reasoning = @ \cup {e.index}],
              "reasoning", e.parts)
    [] e.type = "response.function_call_arguments.delta" ->
         Quiet([PushInput(acc, e.index, e.parts) EXCEPT !.streamed_arguments = @ \cup {e.index}])
    [] e.type \in {"response.output_text.done", "response.content_part.done"} -> ConsumeText(acc, e)
    [] e.type = "response.reasoning_text.done" -> ConsumeReasoning(acc, e)
    [] e.type = "response.function_call_arguments.done" -> ConsumeArguments(acc, e)
    [] e.type = "response.output_item.added" /\ e.kind = "call" ->
         Quiet(Identify(acc, e.index, e.id))
    [] e.type = "response.output_item.done" -> ConsumeItem(acc, e)
    [] OTHER -> Quiet(acc)
=============================================================================
