--------------------------- MODULE ProviderRound ---------------------------
(***************************************************************************)
(* One provider round of a turn: the requests an adapter sends, its one    *)
(* retry without reasoning, and the stream it reads while the turn may be  *)
(* stopped, its client may leave and its deadline may pass.                *)
(***************************************************************************)
EXTENDS ProviderService

CONSTANTS
  Rounds,  \* what a round is asked, and how the service answers: see RoundsAssumption
  MaxChunk \* bound on the bytes that arrive at once

OpenAi == INSTANCE OpenAiAdapter
Responses == INSTANCE ResponsesAdapter
Anthropic == INSTANCE AnthropicAdapter

Protocols == {"openai", "responses", "anthropic"}

\* A chat puts its one system message before the history, a function run before its input.
SystemFirst(messages) == \A i \in DOMAIN messages : messages[i].role = "system" => i = 1

\* The body of a streamed reply is the script.
StreamsOf(r) ==
  IF r.fails THEN Scripts(r.protocol, r.answer, r.styles)
  ELSE {Script(r.protocol, r.answer, s) : s \in r.styles \cap StylesOf(r.protocol)}

ASSUME RoundsAssumption ==
  /\ MaxChunk \in Nat \ {0}
  /\ \A r \in Rounds :
       /\ DOMAIN r = {"protocol", "streamed", "request", "answer", "styles", "fails"}
       /\ r.protocol \in Protocols /\ r.streamed \in BOOLEAN /\ r.fails \in BOOLEAN
       /\ r.request.schema \in BOOLEAN
       /\ r.request.messages \in Seq(ToSet(r.request.messages))
       /\ \A m \in ToSet(r.request.messages) :
            /\ m.role \in {"system", "user", "assistant", "tool"}
            /\ m.calls \in Seq(ToSet(m.calls))
       /\ SystemFirst(r.request.messages)
       /\ r.streamed => \A s \in StreamsOf(r) : s \in Seq(ToSet(s))

VARIABLES
  round,    \* the round, fixed
  pc,       \* "start", "asked", "reading" or "done"
  sent,     \* the payloads sent
  cause,    \* why the second one was sent
  reply,    \* the last reply
  script,   \* the events of the stream
  received, \* its bytes read so far
  acc,      \* ProviderStream::decoder
  finished, \* ProviderStream::finished
  failure,  \* ProviderStream::error
  outbox,   \* deltas returned and not yet sent to the client
  shown,    \* pieces sent to the client
  stop,     \* a stop was requested
  gone,     \* the client has left
  result    \* what the round returned

httpVars == <<sent, cause, reply, script>>
readerVars == <<received, acc, finished, failure>>
clientVars == <<stop, gone>>
vars == <<round, pc, httpVars, readerVars, outbox, shown, clientVars, result>>

-----------------------------------------------------------------------------
(* The adapter of the round.                                               *)

Payload(r) ==
  CASE r.protocol = "openai" -> OpenAi!Payload(r.request)
    [] r.protocol = "responses" -> Responses!Payload(r.request)
    [] OTHER -> Anthropic!Payload(r.request)

StripReasoning(r, payload) ==
  CASE r.protocol = "openai" -> OpenAi!StripReasoning(payload)
    [] r.protocol = "responses" -> Responses!StripReasoning(payload)
    [] OTHER -> Anthropic!StripReasoning(payload)

\* What the body of a reply holds: a partial one breaks off after the first piece.
CutOff(outcome) ==
  [outcome EXCEPT !.content = IF @ = <<>> THEN @ ELSE <<Head(@)>>, !.calls = <<>>]
Held(r, answer) == IF r.body = "partial" THEN CutOff(Meant(answer)) ELSE Meant(answer)

FirstVerdict(r, said) ==
  LET held == Held(said, r.answer) IN
  CASE r.protocol = "openai" /\ ~r.streamed -> OpenAi!Complete(r.request, said, held)
    [] r.protocol = "responses" /\ ~r.streamed -> Responses!Complete(r.request, said, held)
    [] r.protocol = "anthropic" /\ ~r.streamed -> Anthropic!Complete(r.request, said, held)
    [] r.protocol = "openai" /\ r.streamed -> OpenAi!Stream(r.request, said)
    [] r.protocol = "responses" /\ r.streamed -> Responses!Stream(r.request, said)
    [] OTHER -> Anthropic!Stream(r.request, said)

SecondVerdict(r, why, said) ==
  LET held == Held(said, r.answer) IN
  CASE r.protocol = "openai" /\ ~r.streamed -> OpenAi!CompleteAgain(why, said, held)
    [] r.protocol = "responses" /\ ~r.streamed -> Responses!CompleteAgain(why, said, held)
    [] r.protocol = "anthropic" /\ ~r.streamed -> Anthropic!CompleteAgain(why, said, held)
    [] r.protocol = "openai" /\ r.streamed -> OpenAi!StreamAgain(said)
    [] r.protocol = "responses" /\ r.streamed -> Responses!StreamAgain(said)
    [] OTHER -> Anthropic!StreamAgain(said)

NewDecoder(r) == IF r.protocol = "responses" THEN Responses!NewDecoder ELSE Accumulator

Consume(r, a, e) ==
  CASE r.protocol = "openai" -> OpenAi!Consume(a, e)
    [] r.protocol = "responses" -> Responses!Consume(a, e)
    [] OTHER -> Anthropic!Consume(a, e)

-----------------------------------------------------------------------------
Open == [kind |-> "none", outcome |-> EmptyOutcome, failure |-> NoFailure]

Init ==
  /\ round \in Rounds
  /\ pc = "start" /\ sent = <<>> /\ cause = "none" /\ script = <<>>
  /\ reply = Reply(0, NoHint, "none")
  /\ received = 0 /\ acc = NewDecoder(round) /\ finished = FALSE /\ failure = NoFailure
  /\ outbox = <<>> /\ shown = <<>> /\ stop = FALSE /\ gone = FALSE
  /\ result = Open

Return(kind, outcome, why) ==
  /\ pc' = "done"
  /\ result' = [kind |-> kind, outcome |-> outcome, failure |-> why]

Fail(why) == Return("failure", EmptyOutcome, why)

(* The requests.                                                           *)

Begin ==
  /\ pc = "start"
  /\ LET payload == Payload(round) IN
       IF payload.failure # NoFailure
         THEN Fail(payload.failure) /\ UNCHANGED sent
         ELSE pc' = "asked" /\ sent' = <<payload>> /\ UNCHANGED result
  /\ UNCHANGED <<round, cause, reply, script, readerVars, outbox, shown, clientVars>>

Follow(verdict) ==
  CASE verdict.kind = "answer" ->
         /\ Return("answer", verdict.outcome, NoFailure)
         /\ UNCHANGED <<sent, cause, script>>
    [] verdict.kind = "failure" ->
         /\ Fail(verdict.failure)
         /\ UNCHANGED <<sent, cause, script>>
    [] verdict.kind = "retry" ->
         /\ sent' = Append(sent, StripReasoning(round, sent[1]))
         /\ cause' = verdict.cause
         /\ UNCHANGED <<pc, result, script>>
    [] verdict.kind = "read" ->
         /\ pc' = "reading"
         /\ script' \in StreamsOf(round)
         /\ UNCHANGED <<result, sent, cause>>

Hear ==
  /\ pc = "asked"
  /\ reply' \in Replies
  /\ (round.streamed /\ reply'.status = 200) => reply'.body = "answer"
  /\ Follow(IF cause = "none" THEN FirstVerdict(round, reply')
            ELSE SecondVerdict(round, cause, reply'))
  /\ UNCHANGED <<round, readerVars, outbox, shown, clientVars>>

-----------------------------------------------------------------------------
(* The stream.                                                             *)

\* A terminal event does not end the reading of its chunk.
ConsumeEvent(r, s, e) ==
  LET c == Consume(r, s.acc, e)
  IN [acc |-> c.acc, deltas |-> s.deltas \o c.deltas,
      finished |-> s.finished \/ c.signal # "data",
      failure |-> IF c.signal = "error" THEN Failure("Stream") ELSE s.failure]

\* What is read with each further event.
Reading(r, start, events) ==
  LET read[k \in 0 .. Len(events)] ==
        IF k = 0 THEN start ELSE ConsumeEvent(r, read[k - 1], events[k])
  IN  read

ReadEvents(events, ended) ==
  Reading(round, [acc |-> acc, deltas |-> <<>>, finished |-> ended, failure |-> failure], events)[Len(events)]

\* Mutant: the end of the stream is looked at before the error.
AfterReadingEndFirst(s) ==
  /\ acc' = s.acc
  /\ finished' = s.finished
  /\ outbox' = s.deltas
  /\ IF s.deltas # <<>>
       THEN failure' = s.failure /\ UNCHANGED <<pc, result>>
     ELSE IF s.finished
       THEN Return("answer", Outcome(s.acc), NoFailure) /\ UNCHANGED failure
     ELSE UNCHANGED <<failure, pc, result>>

\* The deltas are returned first; an error waits for the next call.
AfterReading(s) ==
  /\ acc' = s.acc
  /\ finished' = s.finished
  /\ outbox' = s.deltas
  /\ IF s.deltas # <<>>
       THEN failure' = s.failure /\ UNCHANGED <<pc, result>>
     ELSE IF s.failure # NoFailure
       THEN Fail(s.failure) /\ failure' = NoFailure
     ELSE IF s.finished
       THEN Return("answer", Outcome(s.acc), NoFailure) /\ UNCHANGED failure
     ELSE UNCHANGED <<failure, pc, result>>

\* The select of the loop looks at the stop and at the client before it reads.
Polling == pc = "reading" /\ outbox = <<>>
Undisturbed == Polling /\ ~stop /\ ~gone

ReadChunk(n) ==
  /\ Undisturbed /\ ~finished
  /\ received + n <= BlockBytes * Len(script)
  /\ received' = received + n
  /\ AfterReading(ReadEvents(NewBlocks(script, received, received + n), finished))
  /\ UNCHANGED <<round, httpVars, shown, clientVars>>

\* The stream ends, in form or not: what is left in the splitter is an event too.
ReadEnd ==
  /\ Undisturbed /\ ~finished
  /\ AfterReading(ReadEvents(Remainder(script, received), TRUE))
  /\ UNCHANGED <<round, httpVars, received, shown, clientVars>>

\* What is left in the splitter is dropped.
ReadFault ==
  /\ Undisturbed /\ ~finished
  /\ finished' = TRUE
  /\ Fail(Failure("Transport"))
  /\ UNCHANGED <<round, httpVars, received, acc, failure, outbox, shown, clientVars>>

\* The call of next after the last deltas.
NextCall ==
  /\ Undisturbed /\ finished
  /\ IF failure # NoFailure
       THEN Fail(failure) /\ failure' = NoFailure
       ELSE Return("answer", Outcome(acc), NoFailure) /\ UNCHANGED failure
  /\ UNCHANGED <<round, httpVars, received, acc, finished, outbox, shown, clientVars>>

\* A stop waits until the deltas of the chunk are sent.
Interrupt ==
  /\ Polling /\ (stop \/ gone)
  /\ Return("interrupted", Outcome(acc), NoFailure)
  /\ UNCHANGED <<round, httpVars, readerVars, outbox, shown, clientVars>>

Send ==
  /\ pc = "reading" /\ outbox # <<>>
  /\ outbox' = Tail(outbox)
  /\ IF gone
       THEN Return("interrupted", Outcome(acc), NoFailure) /\ UNCHANGED shown
       ELSE shown' = shown \o Head(outbox).parts /\ UNCHANGED <<pc, result>>
  /\ UNCHANGED <<round, httpVars, readerVars, clientVars>>

\* run_loop gives the round what is left of the turn's time.
Overrun ==
  /\ pc \in {"asked", "reading"}
  /\ Fail(Failure("Timeout"))
  /\ UNCHANGED <<round, httpVars, readerVars, outbox, shown, clientVars>>

-----------------------------------------------------------------------------
(* The client.                                                             *)

RequestStop ==
  /\ round.streamed /\ ~stop /\ pc # "done"
  /\ stop' = TRUE
  /\ UNCHANGED <<round, pc, httpVars, readerVars, outbox, shown, gone, result>>

Leave ==
  /\ round.streamed /\ ~gone /\ pc # "done"
  /\ gone' = TRUE
  /\ UNCHANGED <<round, pc, httpVars, readerVars, outbox, shown, stop, result>>

Next ==
  \/ Begin \/ Hear
  \/ \E n \in 1 .. MaxChunk : ReadChunk(n)
  \/ ReadEnd \/ ReadFault \/ NextCall \/ Interrupt \/ Send \/ Overrun
  \/ RequestStop \/ Leave

Spec == Init /\ [][Next]_vars

-----------------------------------------------------------------------------
(* Properties.                                                             *)

Parts == (1 .. 4) \X (1 .. 2)
Pieces == Seq(Parts \cup {Torn})
Outcomes == [content : Pieces, reasoning : Pieces, calls : Seq([id : 0 .. 4, args : Pieces]),
             usage : [{"prompt", "completion", "total"} -> Nat]]

(* Every variable keeps its type.                                          *)
TypeOK ==
  /\ round \in Rounds
  /\ pc \in {"start", "asked", "reading", "done"}
  /\ Len(sent) \in 0 .. 2
  /\ cause \in {"none", "empty", "refused"}
  /\ reply \in Replies \cup {Reply(0, NoHint, "none")}
  /\ received \in 0 .. BlockBytes * Len(script)
  /\ Outcome(acc) \in Outcomes
  /\ finished \in BOOLEAN /\ stop \in BOOLEAN /\ gone \in BOOLEAN
  /\ failure \in {NoFailure, Failure("Stream")}
  /\ \A i \in DOMAIN outbox : outbox[i].kind \in {"content", "reasoning"} /\ outbox[i].parts \in Pieces
  /\ shown \in Pieces
  /\ result.kind \in {"none", "answer", "failure", "interrupted"}
  /\ result.outcome \in Outcomes

\* The level that is asked for: none without an override, and none of Anthropic for "none",
\* which is the absence of its thinking block.
LevelOf(r) ==
  IF r.request.level \in {"default", "absent"} \/ (r.request.level = "none" /\ r.protocol = "anthropic")
    THEN {} ELSE {r.request.level}

\* The first request asks for the schema and for the level that was asked for, and no more
\* than that; the second one differs from it only in having no level, and there is no third.
\* None is sent only where Anthropic has no words for the schema or the level.
LevelsAsAsked ==
  /\ Len(sent) <= 2
  /\ \A i \in DOMAIN sent : sent[i].schema = round.request.schema
  /\ sent # <<>> => sent[1].reasoning = LevelOf(round)
  /\ Len(sent) = 2 =>
       /\ round.request.level \notin {"default", "absent"}
       /\ sent[2] = [sent[1] EXCEPT !.reasoning = {}]
  /\ (pc # "start" /\ sent = <<>>) =>
       /\ result.kind = "failure" /\ round.protocol = "anthropic"
       /\ round.request.schema \/ LevelOf(round) \ Anthropic!KnownBudgets # {}

\* What a service hears of some kinds of items, in order.
Heard(input, kinds) == Those(input, {k \in DOMAIN input : input[k].kind \in kinds})

\* What one message has to tell.
HasText(m) == m.text # ""
TextOf(m) ==
  IF m.role = "user" \/ (m.role = "assistant" /\ (HasText(m) \/ m.calls = <<>>))
    THEN <<Said(m.role, m.text)>> ELSE <<>>
CallsOf(m) ==
  IF m.role = "assistant" THEN [i \in DOMAIN m.calls |-> Said("call", m.calls[i])] ELSE <<>>
ResultOf(m) == IF m.role = "tool" THEN <<Said("result", m.call)>> ELSE <<>>

\* The input tells these messages: each text, each call and each result once and in order.
Tells(input, messages) ==
  /\ Heard(input, {"user", "assistant"}) = FlattenSeq([k \in DOMAIN messages |-> TextOf(messages[k])])
  /\ Heard(input, {"call"}) = FlattenSeq([k \in DOMAIN messages |-> CallsOf(messages[k])])
  /\ Heard(input, {"result"}) = FlattenSeq([k \in DOMAIN messages |-> ResultOf(messages[k])])

\* It tells them one after the other: so a result comes after the calls of the messages before.
TellsInOrder(input, messages) ==
  /\ Tells(input, messages)
  /\ \A k \in DOMAIN messages :
       \E n \in 0 .. Len(input) : Tells(SubSeq(input, 1, n), SubSeq(messages, 1, k))

Orders(payload) ==
  LET heard == Heard(payload.input, {"system"})
  IN payload.system \o [k \in DOMAIN heard |-> heard[k].about]

\* The orders are the text of the system message, which has to be there if it is not empty.
Instructs(orders, messages) ==
  LET told == {m \in ToSet(messages) : m.role = "system"}
  IN /\ orders # <<>> => \E m \in told : orders = <<m.text>>
     /\ (\E m \in told : HasText(m)) => orders # <<>>

(* Every request tells the whole conversation, each text, call and result  *)
(* once and in the order of its messages; gives the text of the system     *)
(* message as its only order; and asks for the schema and the level that   *)
(* were asked for, or is not sent.  The second request differs from the    *)
(* first only in having no level, and there is no third.                   *)
RequestsFaithful ==
  /\ \A i \in DOMAIN sent :
       /\ TellsInOrder(sent[i].input, round.request.messages)
       /\ Instructs(Orders(sent[i]), round.request.messages)
  /\ LevelsAsAsked

(* A refused request fails with what the last refusal said: a rate limit   *)
(* with the wait its header states, a protocol refusal where the adapter   *)
(* has a model to name.  After an empty answer the refusal is not looked at.*)
RefusalNamed ==
  (result.kind = "failure" /\ script = <<>> /\ cause # "empty" /\ result.failure.code # "Timeout") =>
    /\ (reply.status = 429 /\ (reply.body # "unreadable" \/ round.streamed)) =>
         result.failure = [code |-> "RateLimited", hint |-> reply.hint]
    /\ (reply.status \in {400, 500} /\ reply.body = "protocol" /\ round.protocol # "anthropic") =>
         result.failure.code = "UnsupportedProtocol"

\* The blocks that were read, the last one perhaps without its blank line.
ReadBlocks == WholeBlocks(received) + (IF received % BlockBytes = 3 /\ finished THEN 1 ELSE 0)
ErrorTypes == {"error", "response.failed", "response.incomplete", "response.error"}
IsError(e) == e.type \in ErrorTypes \/ (e.type = "response.completed" /\ e.kind # "completed")
HasError(events) == \E i \in DOMAIN events : IsError(events[i])

Agrees(outcome, meant) ==
  /\ outcome.content = meant.content /\ outcome.reasoning = meant.reasoning
  /\ outcome.calls = meant.calls
  /\ outcome.usage.prompt = meant.usage.prompt /\ outcome.usage.completion = meant.usage.completion

(* However its bytes were cut into chunks, a stream that was read to its   *)
(* end gives the answer the service wrote: every call with its own         *)
(* arguments, every text once; and an error the service reported before    *)
(* that is never taken for the end of an answer.                           *)
WholeAnswer ==
  result.kind = "answer" =>
    IF script = <<>> THEN reply.body = "answer" => result.outcome = Meant(round.answer)
    ELSE /\ ~HasError(SubSeq(script, 1, ReadBlocks))
         /\ ReadBlocks = Len(script) => Agrees(result.outcome, Meant(round.answer))

\* Thoughts come before texts in every answer.
Text(outcome) == outcome.reasoning \o outcome.content

\* What is made of a script, event after event: of the first k in the k-th place.
ReadWhole(r, s) ==
  Reading(r, [acc |-> NewDecoder(r), deltas |-> <<>>, finished |-> FALSE, failure |-> NoFailure], s)
Made(r, s, k) == ReadWhole(r, s)[k].acc

Events(P) ==
  [type : STRING, kind : STRING, index : Int, id : Nat, parts : Seq(P),
   usage : [{"prompt", "completion", "total"} -> Nat]]

\* What the theorem about the channel assumes: the services write the answer that is
\* meant, event for event, thoughts before texts, and no event repeats or contradicts
\* what the ones before it said.  They may fail at any event.
ServicesContinue(P, rounds) ==
  /\ Torn \in P
  /\ \A r \in rounds :
       /\ Meant(r.answer).content \in Seq(P) /\ Meant(r.answer).reasoning \in Seq(P)
       /\ r.streamed => \A s \in StreamsOf(r) :
            /\ s \in Seq(Events(P))
            /\ \A k \in 0 .. Len(s) : IsPrefix(Text(Made(r, s, k)), Text(Meant(r.answer)))
            /\ \A k \in 0 .. Len(s) - 1 :
                 Made(r, s, k + 1).reasoning # Made(r, s, k).reasoning => Made(r, s, k + 1).content = <<>>

(* Whatever a service writes and however its bytes were cut into chunks,   *)
(* the answer of a stream is what its events make, read one after the      *)
(* other up to where the bytes ended, and no reported error is among them; *)
(* only a stream that breaks off inside an event may add that piece.  The  *)
(* answer of a whole body is that body.                                    *)
ReadInOrder ==
  result.kind = "answer" =>
    IF round.streamed
      THEN \E n \in WholeBlocks(received) .. ReadBlocks :
             /\ \A i \in 1 .. n : script[i] \notin ErrorEvents(round.protocol)
             /\ ReadWhole(round, script)[n].failure = NoFailure
             /\ received % BlockBytes # 2 => result.outcome = Outcome(Made(round, script, n))
      ELSE (reply.body = "answer" /\ ~IsEmpty(Meant(round.answer))) =>
             result.outcome = Meant(round.answer)

Channel ==
  INSTANCE AnswerChannel WITH
    text <- Text(Meant(round.answer)),
    live <- round.streamed,
    kept <- IF result.kind \in {"answer", "interrupted"} THEN Text(result.outcome) ELSE <<>>,
    status <- CASE result.kind = "none" -> "open"
                [] result.kind = "answer" -> "complete"
                [] result.kind = "failure" -> "failed"
                [] OTHER -> "stopped"

(* The round implements the answer channel: pieces are shown once and in   *)
(* order, the round is closed once, and a completed round keeps what was   *)
(* shown, also when chunks end inside an event or a stream is cut short.   *)
ChannelKept == Channel!Spec

(* No piece of an answer is shown twice: the sets of streamed indexes are  *)
(* there so that a later done event does not append a text a second time.  *)
ShownOnce == \A i, j \in DOMAIN shown : i # j => shown[i] # shown[j]
=============================================================================
