---------------------------- MODULE ProviderWire ----------------------------
(***************************************************************************)
(* What provider.rs gives every adapter: error classes and the retry rule, *)
(* the accumulator of a streamed round, and the reader of its event blocks.*)
(*                                                                         *)
(* Text is a sequence of pieces.  The piece <<i, k>> is the k-th part of   *)
(* the i-th item of the answer; Torn is the text of half an event.         *)
(***************************************************************************)
EXTENDS Integers, Sequences, FiniteSets, SequencesExt

Torn == <<0, 0>>
NoIndex == -1
NoId == 0

-----------------------------------------------------------------------------
(* Errors and the retry without reasoning.                                 *)

NoHint == 0
Failure(code) == [code |-> code, hint |-> NoHint]
NoFailure == Failure("none")

\* A level that is sent: not absent, empty or the sentinel.
ReasoningOverride(level) == level \notin {"absent", "default"}

RetryableReasoningFailure(status) == status \in {400, 404, 405, 415, 422, 502, 503}

\* Mutant: the header is read only where the body is.
HintlessError(reply, namesModel) ==
  IF reply.status = 429 THEN Failure("RateLimited")
  ELSE IF namesModel /\ reply.body = "protocol" THEN Failure("UnsupportedProtocol")
  ELSE Failure("Upstream")

\* A protocol refusal is named only where the request names a model.
ResponseError(reply, namesModel) ==
  IF reply.status = 429 THEN [code |-> "RateLimited", hint |-> reply.hint]
  ELSE IF namesModel /\ reply.body = "protocol" THEN Failure("UnsupportedProtocol")
  ELSE Failure("Upstream")

\* A verdict on a reply: an answer, a failure, or one more request.
Answer(outcome) == [kind |-> "answer", outcome |-> outcome]
Refuse(failure) == [kind |-> "failure", failure |-> failure]
Retry(cause) == [kind |-> "retry", cause |-> cause]
Read == [kind |-> "read"]

\* The verdict on a reply with a failure status, first or second.
FirstRefusal(request, reply, namesModel) ==
  IF ReasoningOverride(request.level) /\ RetryableReasoningFailure(reply.status)
    THEN Retry("refused")
    ELSE Refuse(ResponseError(reply, namesModel))

-----------------------------------------------------------------------------
(* Outcomes and what a request says.                                       *)

NoUsage == [prompt |-> 0, completion |-> 0, total |-> 0]

EmptyOutcome == [content |-> <<>>, reasoning |-> <<>>, calls |-> <<>>, usage |-> NoUsage]
IsEmpty(outcome) == outcome.content = <<>> /\ outcome.calls = <<>>

Said(role, text) == [kind |-> role, about |-> text]

\* The texts, calls and results of a message, in the order they are sent.
MessageItems(m) ==
  CASE m.role = "tool" -> <<Said("result", m.call)>>
    [] m.role = "assistant" /\ m.calls # <<>> ->
         (IF m.text = "" THEN <<>> ELSE <<Said("assistant", m.text)>>)
           \o [i \in DOMAIN m.calls |-> Said("call", m.calls[i])]
    [] OTHER -> <<Said(m.role, m.text)>>

\* The elements of a sequence at some of its indices, in order.
Those(s, indices) == FlattenSeq([i \in DOMAIN s |-> IF i \in indices THEN <<s[i]>> ELSE <<>>])

Systems(messages) == Those(messages, {i \in DOMAIN messages : messages[i].role = "system"})
Others(messages) == Those(messages, {i \in DOMAIN messages : messages[i].role # "system"})

Items(messages) == FlattenSeq([i \in DOMAIN messages |-> MessageItems(messages[i])])

-----------------------------------------------------------------------------
(* Model catalogs.                                                         *)

NoLevel == ""

\* What a provider sends for a model: its name, whether it says that it reasons,
\* the levels of all the places where it may list them, and its default.
CatalogItem(name, reasons, levels, default) ==
  [name |-> name, reasons |-> reasons, levels |-> levels, default |-> default]

\* A level is listed once.
Distinct(levels) ==
  Those(levels, {i \in DOMAIN levels : \A j \in 1 .. i - 1 : levels[j] # levels[i]})

\* An item without a name is skipped.
Named(items) == Those(items, {i \in DOMAIN items : items[i].name # ""})

Capability(item, levels) ==
  [model |-> item.name, levels |-> levels,
   default |-> IF item.default \in ToSet(levels) THEN item.default
               ELSE IF levels = <<>> THEN NoLevel ELSE Head(levels)]

-----------------------------------------------------------------------------
(* StreamAccumulator: the calls are a map from index to partial call.      *)

Accumulator == [content |-> <<>>, reasoning |-> <<>>, usage |-> NoUsage, calls |-> <<>>]

PartialCall == [id |-> NoId, initial |-> <<>>, buffer |-> <<>>]
Entry(calls, i) == IF i \in DOMAIN calls THEN calls[i] ELSE PartialCall
WithEntry(calls, i, e) == [j \in DOMAIN calls \cup {i} |-> IF j = i THEN e ELSE calls[j]]

PushContent(acc, parts) == [acc EXCEPT !.content = @ \o parts]
PushReasoning(acc, parts) == [acc EXCEPT !.reasoning = @ \o parts]

\* A field the event does not carry keeps its value.
MergeUsage(acc, usage) ==
  [acc EXCEPT !.usage = [f \in DOMAIN @ |-> IF usage[f] = 0 THEN @[f] ELSE usage[f]]]

Identify(acc, i, id) ==
  LET e == Entry(acc.calls, i)
  IN [acc EXCEPT !.calls = WithEntry(@, i, [e EXCEPT !.id = IF id = NoId THEN @ ELSE id])]

PushInput(acc, i, parts) ==
  LET e == Entry(acc.calls, i)
  IN [acc EXCEPT !.calls = WithEntry(@, i, [e EXCEPT !.buffer = @ \o parts])]

SetInitialInput(acc, i, parts) ==
  LET e == Entry(acc.calls, i)
  IN [acc EXCEPT !.calls = WithEntry(@, i, IF parts = <<>> THEN e ELSE [e EXCEPT !.initial = parts])]

\* The buffered fragments win over the input the call was opened with.
ToolCalls(calls) ==
  LET order == SetToSortSeq(DOMAIN calls, <)
  IN [n \in DOMAIN order |->
        LET e == calls[order[n]]
        IN [id |-> e.id, args |-> IF e.buffer = <<>> THEN e.initial ELSE e.buffer]]

Outcome(acc) ==
  [content |-> acc.content, reasoning |-> acc.reasoning, calls |-> ToolCalls(acc.calls),
   usage |-> acc.usage]

-----------------------------------------------------------------------------
(* What a decoder makes of one event, and of the events of a chunk.        *)

Data(acc, kind, parts) ==
  [acc |-> acc, signal |-> "data",
   deltas |-> IF parts = <<>> THEN <<>> ELSE <<[kind |-> kind, parts |-> parts]>>]
Quiet(acc) == Data(acc, "none", <<>>)
Done(acc) == [acc |-> acc, signal |-> "done", deltas |-> <<>>]
Failed(acc) == [acc |-> acc, signal |-> "error", deltas |-> <<>>]

\* A payload that is not JSON is taken for text.
PlainText(acc, parts) == Data(PushContent(acc, parts), "content", parts)

\* The bytes of an event block: half its data line, nothing to read yet; the
\* line up to half its payload; the payload; the blank line that ends the block.
BlockBytes == 4
WholeBlocks(bytes) == bytes \div BlockBytes

\* Mutant: a block that was read stays in the buffer.
BlocksAgain(script, from, to) ==
  SubSeq(script, WholeBlocks(from) + (IF WholeBlocks(from) = 0 THEN 1 ELSE 0), WholeBlocks(to))

\* The blocks that the bytes up to "to" complete.
NewBlocks(script, from, to) == SubSeq(script, WholeBlocks(from) + 1, WholeBlocks(to))

\* What is left in the splitter when the stream ends.
Remainder(script, bytes) ==
  CASE bytes % BlockBytes = 2 -> <<[script[WholeBlocks(bytes) + 1] EXCEPT !.type = "junk",
                                                                    !.parts = <<Torn>>]>>
    [] bytes % BlockBytes = 3 -> <<script[WholeBlocks(bytes) + 1]>>
    [] OTHER -> <<>>
=============================================================================
