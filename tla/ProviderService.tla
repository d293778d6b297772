-------------------------- MODULE ProviderService --------------------------
(***************************************************************************)
(* The model service at the other end, as the adapters' decoders and tests *)
(* know it: how an answer is written as the events of a stream, and what a *)
(* request may be answered with.                                           *)
(*                                                                         *)
(* An answer is a sequence of items, thoughts before texts before calls.   *)
(***************************************************************************)
EXTENDS ProviderWire

Body(answer, i) == [k \in 1 .. answer[i].parts |-> <<i, k>>]

Indices(answer, kind) == SelectSeq([i \in DOMAIN answer |-> i], LAMBDA i : answer[i].kind = kind)
Texts(answer, kind) ==
  FlattenSeq([n \in DOMAIN Indices(answer, kind) |-> Body(answer, Indices(answer, kind)[n])])

\* The counts a service reports for a finished answer.
Counts == [prompt |-> 2, completion |-> 3, total |-> 5]
Started == [prompt |-> 2, completion |-> 1, total |-> 0]
Finished == [prompt |-> 0, completion |-> 3, total |-> 0]

\* What the answer says, however it was transported.
Meant(answer) ==
  [content |-> Texts(answer, "text"), reasoning |-> Texts(answer, "thought"),
   calls |-> [n \in DOMAIN Indices(answer, "call") |->
                [id |-> Indices(answer, "call")[n], args |-> Body(answer, Indices(answer, "call")[n])]],
   usage |-> Counts]

-----------------------------------------------------------------------------
(* Events.                                                                 *)

Event(type) ==
  [type |-> type, kind |-> "none", index |-> NoIndex, id |-> NoId, parts |-> <<>>, usage |-> NoUsage]
Of(type, kind, index, parts) ==
  [Event(type) EXCEPT !.kind = kind, !.index = index, !.parts = parts]
Naming(event, id) == [event EXCEPT !.id = id]
Reporting(event, usage) == [event EXCEPT !.usage = usage]

\* One event for each part, or one for them all.
InParts(style, event) ==
  IF style = "whole" THEN <<event>>
  ELSE [k \in DOMAIN event.parts |-> [event EXCEPT !.parts = <<event.parts[k]>>]]

-----------------------------------------------------------------------------
(* Chat Completions.  Calls are numbered among themselves.                 *)

OpenAiType(kind) == IF kind = "text" THEN "content" ELSE "reasoning"
CallNumber(answer, i) == Cardinality({j \in 1 .. i - 1 : answer[j].kind = "call"})

OpenAiOpen(answer, i) == Naming(Of("tool_calls", "call", CallNumber(answer, i), <<>>), i)
OpenAiCall(answer, i, style) ==
  LET event == Of("tool_calls", "call", CallNumber(answer, i), Body(answer, i))
  IN CASE style = "whole" -> <<Naming(event, i)>>
       [] style = "unindexed" -> <<Naming([event EXCEPT !.index = NoIndex], i)>>
       [] OTHER -> <<OpenAiOpen(answer, i)>> \o InParts(style, event)

OpenAiItem(answer, i, style) ==
  IF answer[i].kind = "call" THEN OpenAiCall(answer, i, style)
  ELSE InParts(style, Of(OpenAiType(answer[i].kind), answer[i].kind, NoIndex, Body(answer, i)))

\* Parallel calls: all opened, then a part of each in turn.
Interleaved(answer) ==
  LET calls == Indices(answer, "call")
      rest == SelectSeq([i \in DOMAIN answer |-> i], LAMBDA i : answer[i].kind # "call")
      turn(k) == SelectSeq(calls, LAMBDA i : k <= answer[i].parts)
      part(i, k) == Of("tool_calls", "call", CallNumber(answer, i), <<<<i, k>>>>)
  IN FlattenSeq([n \in DOMAIN rest |-> OpenAiItem(answer, rest[n], "deltas")])
       \o [n \in DOMAIN calls |-> OpenAiOpen(answer, calls[n])]
       \o FlattenSeq([k \in 1 .. 2 |-> [n \in DOMAIN turn(k) |-> part(turn(k)[n], k)]])

OpenAiScript(answer, style) ==
  (IF style = "interleaved" THEN Interleaved(answer)
   ELSE FlattenSeq([i \in DOMAIN answer |-> OpenAiItem(answer, i, style)]))
    \o <<Reporting(Event("usage"), Counts), Event("[DONE]")>>

-----------------------------------------------------------------------------
(* Responses.  Every item has an output index, counted from zero.          *)

ResponsesDelta(kind) ==
  CASE kind = "text" -> "response.output_text.delta"
    [] kind = "thought" -> "response.reasoning_text.delta"
    [] OTHER -> "response.function_call_arguments.delta"

\* The events that repeat an item when it is complete.
ResponsesDone(kind) ==
  CASE kind = "text" -> <<"response.output_text.done", "response.content_part.done">>
    [] kind = "thought" -> <<"response.reasoning_text.done">>
    [] OTHER -> <<"response.function_call_arguments.done">>

\* "item": the finished item alone; "done": every finished part, no deltas.
ResponsesItem(answer, i, style) ==
  LET kind == answer[i].kind
      body == Body(answer, i)
      id == IF kind = "call" THEN i ELSE NoId
      finals == [n \in DOMAIN ResponsesDone(kind) |-> Of(ResponsesDone(kind)[n], kind, i - 1, body)]
  IN <<Naming(Of("response.output_item.added", kind, i - 1, <<>>), id)>>
       \o (IF style \in {"item", "done"} THEN <<>>
           ELSE InParts(style, Of(ResponsesDelta(kind), kind, i - 1, body)))
       \o (IF style = "item" THEN <<>> ELSE finals)
       \o <<Naming(Of("response.output_item.done", kind, i - 1, body), id)>>

Completed(status) ==
  Reporting([Event("response.completed") EXCEPT !.kind = status], Counts)

ResponsesScript(answer, style) ==
  FlattenSeq([i \in DOMAIN answer |-> ResponsesItem(answer, i, style)]) \o <<Completed("completed")>>

-----------------------------------------------------------------------------
(* Messages.  Every block has an index; usage comes at both ends.          *)

\* "whole": the input of a call comes with the block that opens it.
AnthropicItem(answer, i, style) ==
  LET kind == answer[i].kind
      body == Body(answer, i)
      opening == Naming(Of("content_block_start", kind, i - 1,
                           IF kind = "call" /\ style = "whole" THEN body ELSE <<>>),
                        IF kind = "call" THEN i ELSE NoId)
  IN <<opening>>
       \o (IF kind = "call" /\ style = "whole" THEN <<>>
           ELSE InParts(style, Of("content_block_delta", kind, i - 1, body)))

AnthropicScript(answer, style) ==
  <<Reporting(Event("message_start"), Started)>>
    \o FlattenSeq([i \in DOMAIN answer |-> AnthropicItem(answer, i, style)])
    \o <<Reporting(Event("message_delta"), Finished), Event("message_stop")>>

-----------------------------------------------------------------------------
(* What may come back.                                                     *)

StylesOf(protocol) ==
  CASE protocol = "openai" -> {"deltas", "whole", "interleaved", "unindexed"}
    [] protocol = "responses" -> {"deltas", "whole", "item", "done"}
    [] OTHER -> {"deltas", "whole"}

Script(protocol, answer, style) ==
  CASE protocol = "openai" -> OpenAiScript(answer, style)
    [] protocol = "responses" -> ResponsesScript(answer, style)
    [] OTHER -> AnthropicScript(answer, style)

ErrorEvents(protocol) ==
  CASE protocol = "openai" -> {Event("error")}
    [] protocol = "responses" ->
         {Event("response.failed"), Event("response.incomplete"), Completed("incomplete")}
    [] OTHER -> {Event("error")}

\* A service that fails says so in the place of the rest, and may still end the stream in form.
Failing(protocol, script) ==
  {SubSeq(script, 1, k) \o <<e>> \o end :
     k \in 0 .. Len(script) - 1, e \in ErrorEvents(protocol),
     end \in {<<>>, <<script[Len(script)]>>}}

Scripts(protocol, answer, styles) ==
  LET written == {Script(protocol, answer, s) : s \in styles \cap StylesOf(protocol)}
  IN written \cup UNION {Failing(protocol, s) : s \in written}

Reply(status, hint, body) == [status |-> status, hint |-> hint, body |-> body]

Faults == {Reply(0, NoHint, b) : b \in {"Timeout", "Transport"}}
Refusals ==
  {Reply(s, NoHint, b) : s \in {400, 429, 500}, b \in {"text", "protocol", "unreadable"}}
    \cup {Reply(429, 7, "text")}
Replies ==
  Faults \cup Refusals
    \cup {Reply(200, NoHint, b) : b \in {"answer", "partial", "thought", "empty", "garbled", "unreadable"}}
=============================================================================
