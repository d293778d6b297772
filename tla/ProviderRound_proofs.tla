------------------------ MODULE ProviderRound_proofs ------------------------
(***************************************************************************)
(* Proofs about ProviderRound: a refused request fails with what the last  *)
(* refusal said; a round is an answer channel where the services continue  *)
(* what they began (ServicesContinue); an answer is what the events of its *)
(* stream make; and its requests carry the whole conversation and ask for  *)
(* what they were given.                                                   *)
(***************************************************************************)
EXTENDS ProviderRound, SequenceLemmas

-----------------------------------------------------------------------------
(* The verdicts on a reply.                                                *)

\* A verdict is of a known kind, and only what came with status 200 is read.
Formed(said, verdict) ==
  /\ verdict.kind \in {"answer", "failure", "retry", "read"}
  /\ verdict.kind = "read" => said.status = 200
  /\ verdict.kind = "retry" => verdict.cause \in {"empty", "refused"}

\* The failure of a verdict is the one that the reply speaks of.
Names(protocol, streamed, said, why) ==
  /\ (said.status = 429 /\ (said.body # "unreadable" \/ streamed)) =>
       why = [code |-> "RateLimited", hint |-> said.hint]
  /\ (said.status \in {400, 500} /\ said.body = "protocol" /\ protocol # "anthropic") =>
       why.code = "UnsupportedProtocol"

Verdict(protocol, streamed, said, verdict) ==
  /\ Formed(said, verdict)
  /\ verdict.kind = "failure" => Names(protocol, streamed, said, verdict.failure)

LEMMA OpenAiVerdicts ==
  ASSUME NEW request, NEW said, NEW held
  PROVE  /\ Verdict("openai", FALSE, said, OpenAi!Complete(request, said, held))
         /\ Verdict("openai", FALSE, said, OpenAi!CompleteAgain("refused", said, held))
         /\ Formed(said, OpenAi!CompleteAgain("empty", said, held))
         /\ Verdict("openai", TRUE, said, OpenAi!Stream(request, said))
         /\ Verdict("openai", TRUE, said, OpenAi!StreamAgain(said))
<1> USE DEF Verdict, Formed, Names, OpenAi!Refuse, OpenAi!Retry, OpenAi!Answer, OpenAi!Read,
            OpenAi!Failure, OpenAi!FirstRefusal, OpenAi!ResponseError
<1>1. Verdict("openai", FALSE, said, OpenAi!Complete(request, said, held))
  BY DEF OpenAi!Complete
<1>2. /\ Verdict("openai", FALSE, said, OpenAi!CompleteAgain("refused", said, held))
      /\ Formed(said, OpenAi!CompleteAgain("empty", said, held))
  BY DEF OpenAi!CompleteAgain
<1>3. /\ Verdict("openai", TRUE, said, OpenAi!Stream(request, said))
      /\ Verdict("openai", TRUE, said, OpenAi!StreamAgain(said))
  BY DEF OpenAi!Stream, OpenAi!StreamAgain
<1> QED BY <1>1, <1>2, <1>3

LEMMA ResponsesVerdicts ==
  ASSUME NEW request, NEW said, NEW held
  PROVE  /\ Verdict("responses", FALSE, said, Responses!Complete(request, said, held))
         /\ Verdict("responses", FALSE, said, Responses!CompleteAgain("refused", said, held))
         /\ Formed(said, Responses!CompleteAgain("empty", said, held))
         /\ Verdict("responses", TRUE, said, Responses!Stream(request, said))
         /\ Verdict("responses", TRUE, said, Responses!StreamAgain(said))
<1> USE DEF Verdict, Formed, Names, Responses!Refuse, Responses!Retry, Responses!Answer, Responses!Read,
            Responses!Failure, Responses!FirstRefusal, Responses!ResponseError
<1>1. Verdict("responses", FALSE, said, Responses!Complete(request, said, held))
  BY DEF Responses!Complete
<1>2. /\ Verdict("responses", FALSE, said, Responses!CompleteAgain("refused", said, held))
      /\ Formed(said, Responses!CompleteAgain("empty", said, held))
  BY DEF Responses!CompleteAgain
<1>3. /\ Verdict("responses", TRUE, said, Responses!Stream(request, said))
      /\ Verdict("responses", TRUE, said, Responses!StreamAgain(said))
  BY DEF Responses!Stream, Responses!StreamAgain
<1> QED BY <1>1, <1>2, <1>3

LEMMA AnthropicVerdicts ==
  ASSUME NEW request, NEW said, NEW held
  PROVE  /\ Verdict("anthropic", FALSE, said, Anthropic!Complete(request, said, held))
         /\ Verdict("anthropic", FALSE, said, Anthropic!CompleteAgain("refused", said, held))
         /\ Formed(said, Anthropic!CompleteAgain("empty", said, held))
         /\ Verdict("anthropic", TRUE, said, Anthropic!Stream(request, said))
         /\ Verdict("anthropic", TRUE, said, Anthropic!StreamAgain(said))
<1> USE DEF Verdict, Formed, Names, Anthropic!Refuse, Anthropic!Retry, Anthropic!Answer, Anthropic!Read,
            Anthropic!Failure, Anthropic!FirstRefusal, Anthropic!ResponseError
<1>1. Verdict("anthropic", FALSE, said, Anthropic!Complete(request, said, held))
  BY DEF Anthropic!Complete
<1>2. /\ Verdict("anthropic", FALSE, said, Anthropic!CompleteAgain("refused", said, held))
      /\ Formed(said, Anthropic!CompleteAgain("empty", said, held))
  BY DEF Anthropic!CompleteAgain
<1>3. /\ Verdict("anthropic", TRUE, said, Anthropic!Stream(request, said))
      /\ Verdict("anthropic", TRUE, said, Anthropic!StreamAgain(said))
  BY DEF Anthropic!Stream, Anthropic!StreamAgain
<1> QED BY <1>1, <1>2, <1>3

LEMMA FirstVerdicts ==
  ASSUME NEW r \in Rounds, NEW said
  PROVE  Verdict(r.protocol, r.streamed, said, FirstVerdict(r, said))
<1>1. r.protocol \in {"openai", "responses", "anthropic"} /\ r.streamed \in {TRUE, FALSE}
  BY RoundsAssumption DEF Protocols
<1>2. CASE r.protocol = "openai"
  <2>1. CASE r.streamed = TRUE
    <3>1. FirstVerdict(r, said) = OpenAi!Stream(r.request, said)
      BY <1>2, <2>1 DEF FirstVerdict
    <3> QED BY <1>2, <2>1, <3>1, OpenAiVerdicts
  <2>2. CASE r.streamed = FALSE
    <3>1. FirstVerdict(r, said) = OpenAi!Complete(r.request, said, Held(said, r.answer))
      BY <1>2, <2>2 DEF FirstVerdict
    <3> QED BY <1>2, <2>2, <3>1, OpenAiVerdicts
  <2> QED BY <1>1, <2>1, <2>2
<1>3. CASE r.protocol = "responses"
  <2>1. CASE r.streamed = TRUE
    <3>1. FirstVerdict(r, said) = Responses!Stream(r.request, said)
      BY <1>3, <2>1 DEF FirstVerdict
    <3> QED BY <1>3, <2>1, <3>1, ResponsesVerdicts
  <2>2. CASE r.streamed = FALSE
    <3>1. FirstVerdict(r, said) = Responses!Complete(r.request, said, Held(said, r.answer))
      BY <1>3, <2>2 DEF FirstVerdict
    <3> QED BY <1>3, <2>2, <3>1, ResponsesVerdicts
  <2> QED BY <1>1, <2>1, <2>2
<1>4. CASE r.protocol = "anthropic"
  <2>1. CASE r.streamed = TRUE
    <3>1. FirstVerdict(r, said) = Anthropic!Stream(r.request, said)
      BY <1>4, <2>1 DEF FirstVerdict
    <3> QED BY <1>4, <2>1, <3>1, AnthropicVerdicts
  <2>2. CASE r.streamed = FALSE
    <3>1. FirstVerdict(r, said) = Anthropic!Complete(r.request, said, Held(said, r.answer))
      BY <1>4, <2>2 DEF FirstVerdict
    <3> QED BY <1>4, <2>2, <3>1, AnthropicVerdicts
  <2> QED BY <1>1, <2>1, <2>2
<1> QED BY <1>1, <1>2, <1>3, <1>4

\* Behind an empty answer a refusal is not looked at.
LEMMA SecondVerdicts ==
  ASSUME NEW r \in Rounds, NEW said, NEW why \in {"empty", "refused"}
  PROVE  /\ Formed(said, SecondVerdict(r, why, said))
         /\ why = "refused" => Verdict(r.protocol, r.streamed, said, SecondVerdict(r, why, said))
<1>1. r.protocol \in {"openai", "responses", "anthropic"} /\ r.streamed \in {TRUE, FALSE}
  BY RoundsAssumption DEF Protocols
<1>2. CASE r.protocol = "openai"
  <2>1. CASE r.streamed = TRUE
    <3>1. SecondVerdict(r, why, said) = OpenAi!StreamAgain(said)
      BY <1>2, <2>1 DEF SecondVerdict
    <3> QED BY <1>2, <2>1, <3>1, OpenAiVerdicts DEF Verdict
  <2>2. CASE r.streamed = FALSE
    <3>1. SecondVerdict(r, why, said) = OpenAi!CompleteAgain(why, said, Held(said, r.answer))
      BY <1>2, <2>2 DEF SecondVerdict
    <3> QED BY <1>2, <2>2, <3>1, OpenAiVerdicts DEF Verdict
  <2> QED BY <1>1, <2>1, <2>2
<1>3. CASE r.protocol = "responses"
  <2>1. CASE r.streamed = TRUE
    <3>1. SecondVerdict(r, why, said) = Responses!StreamAgain(said)
      BY <1>3, <2>1 DEF SecondVerdict
    <3> QED BY <1>3, <2>1, <3>1, ResponsesVerdicts DEF Verdict
  <2>2. CASE r.streamed = FALSE
    <3>1. SecondVerdict(r, why, said) = Responses!CompleteAgain(why, said, Held(said, r.answer))
      BY <1>3, <2>2 DEF SecondVerdict
    <3> QED BY <1>3, <2>2, <3>1, ResponsesVerdicts DEF Verdict
  <2> QED BY <1>1, <2>1, <2>2
<1>4. CASE r.protocol = "anthropic"
  <2>1. CASE r.streamed = TRUE
    <3>1. SecondVerdict(r, why, said) = Anthropic!StreamAgain(said)
      BY <1>4, <2>1 DEF SecondVerdict
    <3> QED BY <1>4, <2>1, <3>1, AnthropicVerdicts DEF Verdict
  <2>2. CASE r.streamed = FALSE
    <3>1. SecondVerdict(r, why, said) = Anthropic!CompleteAgain(why, said, Held(said, r.answer))
      BY <1>4, <2>2 DEF SecondVerdict
    <3> QED BY <1>4, <2>2, <3>1, AnthropicVerdicts DEF Verdict
  <2> QED BY <1>1, <2>1, <2>2
<1> QED BY <1>1, <1>2, <1>3, <1>4

-----------------------------------------------------------------------------
(* What a refusal turns into.                                              *)

\* RefusalNamed says nothing of a round that goes on: nothing has failed then, a
\* stream is read only after status 200, and nothing was heard before a request.
RefusalInv ==
  /\ pc \in {"start", "asked", "reading", "done"}
  /\ round \in Rounds
  /\ cause \in {"none", "empty", "refused"}
  /\ pc # "done" => result = Open
  /\ pc = "start" => reply.status = 0
  /\ pc = "reading" => reply.status = 200
  /\ RefusalNamed

LEMMA RefusalInit == Init => RefusalInv
BY DEF Init, RefusalInv, RefusalNamed, Open, Reply

\* The loop's reading of a stream fails with status 200 alone.
LEMMA ReadingNames ==
  ASSUME reply.status = 200
  PROVE  RefusalNamed
BY DEF RefusalNamed

LEMMA HearNames ==
  ASSUME RefusalInv, Hear
  PROVE  RefusalInv'
<1> USE DEF RefusalInv
<1> DEFINE verdict == IF cause = "none" THEN FirstVerdict(round, reply')
                      ELSE SecondVerdict(round, cause, reply')
<1>1. Formed(reply', verdict)
  BY FirstVerdicts, SecondVerdicts DEF Verdict
<1>2. cause # "empty" /\ verdict.kind = "failure"
        => Names(round.protocol, round.streamed, reply', verdict.failure)
  BY FirstVerdicts, SecondVerdicts DEF Verdict
<1>3. Follow(verdict) /\ pc = "asked" /\ round' = round
  BY DEF Hear
<1> HIDE DEF verdict
<1>4. CASE verdict.kind = "answer"
  BY <1>3, <1>4 DEF Follow, Return, RefusalNamed
<1>5. CASE verdict.kind = "failure"
  BY <1>2, <1>3, <1>5 DEF Follow, Fail, Return, RefusalNamed, Names
<1>6. CASE verdict.kind = "retry"
  BY <1>1, <1>3, <1>6 DEF Follow, RefusalNamed, Formed, Open
<1>7. CASE verdict.kind = "read"
  BY <1>1, <1>3, <1>7 DEF Follow, RefusalNamed, Formed, Open
<1> QED BY <1>1, <1>4, <1>5, <1>6, <1>7 DEF Formed

LEMMA RefusalStep == RefusalInv /\ [Next]_vars => RefusalInv'
<1> SUFFICES ASSUME RefusalInv, [Next]_vars PROVE RefusalInv'
  OBVIOUS
<1> USE DEF RefusalInv
<1>1. CASE Begin
  BY <1>1 DEF Begin, Fail, Return, RefusalNamed
<1>2. CASE Hear
  BY <1>2, HearNames
<1>3. CASE (\E n \in 1 .. MaxChunk : ReadChunk(n)) \/ ReadEnd
  <2>1. /\ pc = "reading" /\ UNCHANGED <<round, reply, cause>>
        /\ \/ UNCHANGED <<pc, result>>
           \/ pc' = "done"
    BY <1>3 DEF ReadChunk, ReadEnd, AfterReading, Fail, Return, Undisturbed, Polling, httpVars
  <2>2. reply'.status = 200
    BY <2>1
  <2> QED BY <2>1, <2>2 DEF RefusalNamed
<1>4. CASE ReadFault \/ NextCall \/ Interrupt \/ Send
  <2>1. /\ pc = "reading" /\ UNCHANGED <<round, reply, cause>>
        /\ \/ UNCHANGED <<pc, result>>
           \/ pc' = "done"
    BY <1>4 DEF ReadFault, NextCall, Interrupt, Send, Fail, Return, Undisturbed, Polling, httpVars
  <2>2. reply'.status = 200
    BY <2>1
  <2> QED BY <2>1, <2>2 DEF RefusalNamed
<1>5. CASE Overrun
  BY <1>5 DEF Overrun, Fail, Return, Failure, RefusalNamed, httpVars
<1>6. CASE RequestStop \/ Leave \/ UNCHANGED vars
  BY <1>6 DEF RequestStop, Leave, vars, httpVars, RefusalNamed
<1> QED BY <1>1, <1>2, <1>3, <1>4, <1>5, <1>6 DEF Next

\* Whatever a service answers to a first request and to the retry without
\* reasoning, the round fails with what the last refusal said: ResponseError is
\* given the last reply, not the one that made the adapter ask again.
THEOREM RefusalsAreNamed == Spec => []RefusalNamed
<1>1. RefusalInv => RefusalNamed
  BY DEF RefusalInv
<1> QED BY RefusalInit, RefusalStep, <1>1, PTL DEF Spec

-----------------------------------------------------------------------------
(* The decoders: what is shown of an event is what is kept of it.          *)

Decoder(P, a) ==
  /\ {"content", "reasoning"} \subseteq DOMAIN a
  /\ a.content \in Seq(P) /\ a.reasoning \in Seq(P)

\* An event adds a text to the content or to the reasoning, and shows that text.
Adds(P, a, kind, parts, c) ==
  /\ c.deltas = (IF parts = <<>> THEN <<>> ELSE <<[kind |-> kind, parts |-> parts]>>)
  /\ {"content", "reasoning"} \subseteq DOMAIN c.acc
  /\ \/ c.acc.content = a.content \o parts /\ c.acc.reasoning = a.reasoning
     \/ c.acc.content = a.content /\ c.acc.reasoning = a.reasoning \o parts

Kinds == {"none", "content", "reasoning"}
Shows(P, a, c) == \E kind \in Kinds : \E parts \in Seq(P) : Adds(P, a, kind, parts, c)

\* A torn event is shown as content.
Tears(a, c) ==
  /\ c.deltas = <<[kind |-> "content", parts |-> <<Torn>>]>>
  /\ {"content", "reasoning"} \subseteq DOMAIN c.acc
  /\ c.acc.content = a.content \o <<Torn>> /\ c.acc.reasoning = a.reasoning

LEMMA OpenAiData ==
  ASSUME NEW P, NEW a, Decoder(P, a), NEW parts \in Seq(P)
  PROVE  /\ Shows(P, a, OpenAi!Data(OpenAi!PushContent(a, parts), "content", parts))
         /\ Shows(P, a, OpenAi!Data(OpenAi!PushReasoning(a, parts), "reasoning", parts))
<1>1. Adds(P, a, "content", parts, OpenAi!Data(OpenAi!PushContent(a, parts), "content", parts))
  BY DEF Adds, Decoder, OpenAi!Data, OpenAi!PushContent
<1>2. Adds(P, a, "reasoning", parts, OpenAi!Data(OpenAi!PushReasoning(a, parts), "reasoning", parts))
  BY DEF Adds, Decoder, OpenAi!Data, OpenAi!PushReasoning
<1> QED BY <1>1, <1>2, Zenon DEF Shows, Kinds

\* What keeps the texts as they are.
LEMMA OpenAiQuiet ==
  ASSUME NEW P, NEW a, Decoder(P, a), NEW b,
         {"content", "reasoning"} \subseteq DOMAIN b, b.content = a.content, b.reasoning = a.reasoning
  PROVE  /\ Shows(P, a, OpenAi!Quiet(b)) /\ Shows(P, a, OpenAi!Done(b)) /\ Shows(P, a, OpenAi!Failed(b))
<1>1. a.content = a.content \o <<>> /\ <<>> \in Seq(P)
  BY DEF Decoder
<1>2. Adds(P, a, "none", <<>>, OpenAi!Quiet(b))
  BY <1>1 DEF Adds, OpenAi!Quiet, OpenAi!Data
<1>3. Adds(P, a, "none", <<>>, OpenAi!Done(b)) /\ Adds(P, a, "none", <<>>, OpenAi!Failed(b))
  BY <1>1 DEF Adds, OpenAi!Done, OpenAi!Failed
<1> QED BY <1>1, <1>2, <1>3, Zenon DEF Shows, Kinds

LEMMA ResponsesData ==
  ASSUME NEW P, NEW a, Decoder(P, a), NEW parts \in Seq(P)
  PROVE  /\ Shows(P, a, Responses!Data(Responses!PushContent(a, parts), "content", parts))
         /\ Shows(P, a, Responses!Data(Responses!PushReasoning(a, parts), "reasoning", parts))
<1>1. Adds(P, a, "content", parts, Responses!Data(Responses!PushContent(a, parts), "content", parts))
  BY DEF Adds, Decoder, Responses!Data, Responses!PushContent
<1>2. Adds(P, a, "reasoning", parts, Responses!Data(Responses!PushReasoning(a, parts), "reasoning", parts))
  BY DEF Adds, Decoder, Responses!Data, Responses!PushReasoning
<1> QED BY <1>1, <1>2, Zenon DEF Shows, Kinds

\* What keeps the texts as they are.
LEMMA ResponsesQuiet ==
  ASSUME NEW P, NEW a, Decoder(P, a), NEW b,
         {"content", "reasoning"} \subseteq DOMAIN b, b.content = a.content, b.reasoning = a.reasoning
  PROVE  /\ Shows(P, a, Responses!Quiet(b)) /\ Shows(P, a, Responses!Done(b)) /\ Shows(P, a, Responses!Failed(b))
<1>1. a.content = a.content \o <<>> /\ <<>> \in Seq(P)
  BY DEF Decoder
<1>2. Adds(P, a, "none", <<>>, Responses!Quiet(b))
  BY <1>1 DEF Adds, Responses!Quiet, Responses!Data
<1>3. Adds(P, a, "none", <<>>, Responses!Done(b)) /\ Adds(P, a, "none", <<>>, Responses!Failed(b))
  BY <1>1 DEF Adds, Responses!Done, Responses!Failed
<1> QED BY <1>1, <1>2, <1>3, Zenon DEF Shows, Kinds

LEMMA AnthropicData ==
  ASSUME NEW P, NEW a, Decoder(P, a), NEW parts \in Seq(P)
  PROVE  /\ Shows(P, a, Anthropic!Data(Anthropic!PushContent(a, parts), "content", parts))
         /\ Shows(P, a, Anthropic!Data(Anthropic!PushReasoning(a, parts), "reasoning", parts))
<1>1. Adds(P, a, "content", parts, Anthropic!Data(Anthropic!PushContent(a, parts), "content", parts))
  BY DEF Adds, Decoder, Anthropic!Data, Anthropic!PushContent
<1>2. Adds(P, a, "reasoning", parts, Anthropic!Data(Anthropic!PushReasoning(a, parts), "reasoning", parts))
  BY DEF Adds, Decoder, Anthropic!Data, Anthropic!PushReasoning
<1> QED BY <1>1, <1>2, Zenon DEF Shows, Kinds

\* What keeps the texts as they are.
LEMMA AnthropicQuiet ==
  ASSUME NEW P, NEW a, Decoder(P, a), NEW b,
         {"content", "reasoning"} \subseteq DOMAIN b, b.content = a.content, b.reasoning = a.reasoning
  PROVE  /\ Shows(P, a, Anthropic!Quiet(b)) /\ Shows(P, a, Anthropic!Done(b)) /\ Shows(P, a, Anthropic!Failed(b))
<1>1. a.content = a.content \o <<>> /\ <<>> \in Seq(P)
  BY DEF Decoder
<1>2. Adds(P, a, "none", <<>>, Anthropic!Quiet(b))
  BY <1>1 DEF Adds, Anthropic!Quiet, Anthropic!Data
<1>3. Adds(P, a, "none", <<>>, Anthropic!Done(b)) /\ Adds(P, a, "none", <<>>, Anthropic!Failed(b))
  BY <1>1 DEF Adds, Anthropic!Done, Anthropic!Failed
<1> QED BY <1>1, <1>2, <1>3, Zenon DEF Shows, Kinds

\* Usage, calls and what is streamed are beside the texts.
LEMMA OpenAiBeside ==
  ASSUME NEW P, NEW a, Decoder(P, a), NEW i, NEW id, NEW parts, NEW u
  PROVE  \A b \in {a, OpenAi!MergeUsage(a, u), OpenAi!Identify(a, i, id), OpenAi!PushInput(a, i, parts),
                    OpenAi!SetInitialInput(a, i, parts)} :
           Decoder(P, b) /\ b.content = a.content /\ b.reasoning = a.reasoning
BY DEF Decoder, OpenAi!MergeUsage, OpenAi!Identify, OpenAi!PushInput, OpenAi!SetInitialInput

\* Usage, calls and what is streamed are beside the texts.
LEMMA ResponsesBeside ==
  ASSUME NEW P, NEW a, Decoder(P, a), NEW i, NEW id, NEW parts, NEW u
  PROVE  \A b \in {a, Responses!MergeUsage(a, u), Responses!Identify(a, i, id), Responses!PushInput(a, i, parts),
                    Responses!SetInitialInput(a, i, parts)} :
           Decoder(P, b) /\ b.content = a.content /\ b.reasoning = a.reasoning
BY DEF Decoder, Responses!MergeUsage, Responses!Identify, Responses!PushInput, Responses!SetInitialInput

\* Usage, calls and what is streamed are beside the texts.
LEMMA AnthropicBeside ==
  ASSUME NEW P, NEW a, Decoder(P, a), NEW i, NEW id, NEW parts, NEW u
  PROVE  \A b \in {a, Anthropic!MergeUsage(a, u), Anthropic!Identify(a, i, id), Anthropic!PushInput(a, i, parts),
                    Anthropic!SetInitialInput(a, i, parts)} :
           Decoder(P, b) /\ b.content = a.content /\ b.reasoning = a.reasoning
BY DEF Decoder, Anthropic!MergeUsage, Anthropic!Identify, Anthropic!PushInput, Anthropic!SetInitialInput

LEMMA OpenAiShows ==
  ASSUME NEW P, NEW a, Decoder(P, a), NEW e, e.parts \in Seq(P)
  PROVE  Shows(P, a, OpenAi!Consume(a, e))
<1>1. CASE e.type \in {"content", "junk"}
  <2>1. OpenAi!Consume(a, e) = OpenAi!Data(OpenAi!PushContent(a, e.parts), "content", e.parts)
    BY <1>1 DEF OpenAi!Consume, OpenAi!PlainText
  <2> QED BY <2>1, OpenAiData
<1>2. CASE e.type = "reasoning"
  <2>1. OpenAi!Consume(a, e) = OpenAi!Data(OpenAi!PushReasoning(a, e.parts), "reasoning", e.parts)
    BY <1>2 DEF OpenAi!Consume
  <2> QED BY <2>1, OpenAiData
<1>3. CASE e.type \notin {"content", "junk", "reasoning"}
  <2>1. OpenAi!Consume(a, e) \in
          {OpenAi!Done(a), OpenAi!Failed(a), OpenAi!Quiet(OpenAi!MergeUsage(a, e.usage)),
           OpenAi!Quiet(OpenAi!ConsumeToolCall(a, e)), OpenAi!Quiet(a)}
    BY <1>3 DEF OpenAi!Consume
  <2>2. PICK i : OpenAi!ConsumeToolCall(a, e) = OpenAi!PushInput(OpenAi!Identify(a, i, e.id), i, e.parts)
    BY Zenon DEF OpenAi!ConsumeToolCall
  <2>3. \A b \in {a, OpenAi!MergeUsage(a, e.usage), OpenAi!ConsumeToolCall(a, e)} :
          Decoder(P, b) /\ b.content = a.content /\ b.reasoning = a.reasoning
    <3>1. PICK b : b = OpenAi!Identify(a, i, e.id)
      OBVIOUS
    <3>2. Decoder(P, b) /\ b.content = a.content /\ b.reasoning = a.reasoning
      BY <3>1, OpenAiBeside
    <3>3. PICK d : d = OpenAi!PushInput(b, i, e.parts)
      OBVIOUS
    <3>4. Decoder(P, d) /\ d.content = a.content /\ d.reasoning = a.reasoning
      BY <3>2, <3>3, OpenAiBeside
    <3> QED BY <2>2, <3>1, <3>3, <3>4, OpenAiBeside
  <2>4. \A b \in {a, OpenAi!MergeUsage(a, e.usage), OpenAi!ConsumeToolCall(a, e)} :
          Shows(P, a, OpenAi!Quiet(b)) /\ Shows(P, a, OpenAi!Done(b)) /\ Shows(P, a, OpenAi!Failed(b))
    BY <2>3, OpenAiQuiet DEF Decoder
  <2> QED BY <2>1, <2>4
<1> QED BY <1>1, <1>2, <1>3

LEMMA AnthropicShows ==
  ASSUME NEW P, NEW a, Decoder(P, a), NEW e, e.parts \in Seq(P)
  PROVE  Shows(P, a, Anthropic!Consume(a, e))
<1>1. CASE e.type = "junk" \/ (e.type = "content_block_delta" /\ e.kind = "text")
  <2>1. Anthropic!Consume(a, e) = Anthropic!Data(Anthropic!PushContent(a, e.parts), "content", e.parts)
    BY <1>1 DEF Anthropic!Consume, Anthropic!PlainText
  <2> QED BY <2>1, AnthropicData
<1>2. CASE e.type = "content_block_delta" /\ e.kind = "thought"
  <2>1. Anthropic!Consume(a, e) = Anthropic!Data(Anthropic!PushReasoning(a, e.parts), "reasoning", e.parts)
    BY <1>2 DEF Anthropic!Consume
  <2> QED BY <2>1, AnthropicData
<1>3. CASE e.type # "junk" /\ (e.type = "content_block_delta" => e.kind \notin {"text", "thought"})
  <2> DEFINE opened == Anthropic!SetInitialInput(Anthropic!Identify(a, e.index, e.id), e.index, e.parts)
             counted == Anthropic!MergeUsage(a, Anthropic!ParseUsage(e.usage))
             pushed == Anthropic!PushInput(a, e.index, e.parts)
  <2>1. Anthropic!Consume(a, e) \in
          {Anthropic!Done(a), Anthropic!Failed(a), Anthropic!Quiet(counted), Anthropic!Quiet(opened),
           Anthropic!Quiet(pushed), Anthropic!Quiet(a)}
    <3> HIDE DEF opened, counted, pushed
    <3> QED BY <1>3 DEF Anthropic!Consume, opened, counted, pushed
  <2>2. \A b \in {a, counted, opened, pushed} :
          Decoder(P, b) /\ b.content = a.content /\ b.reasoning = a.reasoning
    <3>1. PICK b : b = Anthropic!Identify(a, e.index, e.id)
      OBVIOUS
    <3>2. Decoder(P, b) /\ b.content = a.content /\ b.reasoning = a.reasoning
      BY <3>1, AnthropicBeside
    <3>3. PICK d : d = Anthropic!SetInitialInput(b, e.index, e.parts)
      OBVIOUS
    <3>4. Decoder(P, d) /\ d.content = a.content /\ d.reasoning = a.reasoning
      BY <3>2, <3>3, AnthropicBeside
    <3> QED BY <3>1, <3>3, <3>4, AnthropicBeside
  <2> HIDE DEF opened, counted, pushed
  <2>3. \A b \in {a, counted, opened, pushed} :
          Shows(P, a, Anthropic!Quiet(b)) /\ Shows(P, a, Anthropic!Done(b)) /\ Shows(P, a, Anthropic!Failed(b))
    BY <2>2, AnthropicQuiet DEF Decoder
  <2> QED BY <2>1, <2>3
<1> QED BY <1>1, <1>2, <1>3

\* A text that was streamed is not shown again when its item is complete, and
\* what is noted of the indexes is beside the texts.
LEMMA ResponsesNoted ==
  ASSUME NEW P, NEW a, Decoder(P, a), NEW e, e.parts \in Seq(P)
  PROVE  /\ Shows(P, a, Responses!Data([Responses!PushContent(a, e.parts) EXCEPT
                          !.streamed_text = @ \cup {e.index}], "content", e.parts))
         /\ Shows(P, a, Responses!Data([Responses!PushReasoning(a, e.parts) EXCEPT
                          !.streamed_reasoning = @ \cup {e.index}], "reasoning", e.parts))
         /\ Shows(P, a, Responses!ConsumeText(a, e)) /\ Shows(P, a, Responses!ConsumeReasoning(a, e))
<1>1. Adds(P, a, "content", e.parts, Responses!Data([Responses!PushContent(a, e.parts) EXCEPT
                          !.streamed_text = @ \cup {e.index}], "content", e.parts))
  BY DEF Adds, Decoder, Responses!Data, Responses!PushContent
<1>2. Adds(P, a, "reasoning", e.parts, Responses!Data([Responses!PushReasoning(a, e.parts) EXCEPT
                          !.streamed_reasoning = @ \cup {e.index}], "reasoning", e.parts))
  BY DEF Adds, Decoder, Responses!Data, Responses!PushReasoning
<1>3. \A streamed : Responses!Unless(streamed, e.parts) \in Seq(P)
  BY DEF Responses!Unless
<1>4. Shows(P, a, Responses!ConsumeText(a, e))
  BY <1>3, ResponsesData DEF Responses!ConsumeText
<1>5. Shows(P, a, Responses!ConsumeReasoning(a, e))
  BY <1>3, ResponsesData DEF Responses!ConsumeReasoning
<1> QED BY <1>1, <1>2, <1>4, <1>5, Zenon DEF Shows, Kinds

LEMMA ResponsesShows ==
  ASSUME NEW P, NEW a, Decoder(P, a), NEW e, e.parts \in Seq(P)
  PROVE  Shows(P, a, Responses!Consume(a, e))
<1> DEFINE noted == [Responses!PushInput(a, e.index, e.parts) EXCEPT !.streamed_arguments = @ \cup {e.index}]
           opened == Responses!Identify(a, e.index, e.id)
           counted == Responses!MergeUsage(a, e.usage)
           pushed == Responses!PushInput(a, e.index, e.parts)
           filled == Responses!PushInput(opened, e.index, e.parts)
           Same(b) == Decoder(P, b) /\ b.content = a.content /\ b.reasoning = a.reasoning
           Still(b) == Shows(P, a, Responses!Quiet(b)) /\ Shows(P, a, Responses!Done(b))
                         /\ Shows(P, a, Responses!Failed(b))
<1>1. Same(a) /\ Same(opened) /\ Same(counted) /\ Same(pushed)
  BY ResponsesBeside
<1>2. Same(noted)
  <2>1. PICK b : b = pushed
    OBVIOUS
  <2>2. Same(b) /\ noted = [b EXCEPT !.streamed_arguments = @ \cup {e.index}]
    BY <1>1, <2>1
  <2> HIDE DEF noted
  <2> QED BY <2>2 DEF Decoder
<1>3. Same(filled)
  <2>1. PICK b : b = opened
    OBVIOUS
  <2>2. PICK d : d = Responses!PushInput(b, e.index, e.parts)
    OBVIOUS
  <2>3. Same(b)
    BY <1>1, <2>1
  <2>4. Same(d)
    BY <2>2, <2>3, ResponsesBeside
  <2> QED BY <2>1, <2>2, <2>4
<1>4. \A b \in {a, noted, opened, counted, pushed, filled} : Still(b)
  <2> HIDE DEF noted, opened, counted, pushed, filled
  <2> QED BY <1>1, <1>2, <1>3, ResponsesQuiet DEF Decoder
<1>5. Responses!ConsumeArguments(a, e) \in {Responses!Quiet(a), Responses!Quiet(pushed)}
  BY DEF Responses!ConsumeArguments
<1>6. Responses!ConsumeArguments(opened, e) \in {Responses!Quiet(opened), Responses!Quiet(filled)}
  BY DEF Responses!ConsumeArguments
<1>7. Shows(P, a, Responses!ConsumeItem(a, e))
  <2>1. CASE e.kind \in {"text", "thought"}
    BY <2>1, ResponsesNoted DEF Responses!ConsumeItem
  <2>2. CASE e.kind = "call"
    BY <2>2, <1>4, <1>6 DEF Responses!ConsumeItem
  <2>3. CASE e.kind \notin {"text", "thought", "call"}
    BY <2>3, <1>4 DEF Responses!ConsumeItem
  <2> QED BY <2>1, <2>2, <2>3
<1>8. CASE e.type = "junk"
  BY <1>8, ResponsesData DEF Responses!Consume, Responses!PlainText
<1>9. CASE e.type \in {"response.output_text.delta", "response.reasoning_text.delta"}
  BY <1>9, ResponsesNoted DEF Responses!Consume
<1>10. CASE e.type \in {"response.output_text.done", "response.content_part.done",
                        "response.reasoning_text.done"}
  BY <1>10, ResponsesNoted DEF Responses!Consume
<1>11. CASE e.type = "response.output_item.done"
  BY <1>11, <1>7 DEF Responses!Consume
<1>12. CASE e.type \notin {"junk", "response.output_text.delta", "response.reasoning_text.delta",
                           "response.output_text.done", "response.content_part.done",
                           "response.reasoning_text.done", "response.output_item.done"}
  <2> HIDE DEF noted, opened, counted, pushed, filled
  <2>1. Responses!Consume(a, e) \in
          {Responses!Done(a), Responses!Done(counted), Responses!Failed(a), Responses!Quiet(noted),
           Responses!ConsumeArguments(a, e), Responses!Quiet(opened), Responses!Quiet(a)}
    BY <1>12 DEF Responses!Consume, noted, opened, counted
  <2> QED BY <2>1, <1>4, <1>5
<1> QED BY <1>8, <1>9, <1>10, <1>11, <1>12

LEMMA DecodersShow ==
  ASSUME NEW r \in Rounds, NEW P, NEW a, Decoder(P, a), NEW e, e.parts \in Seq(P)
  PROVE  Shows(P, a, Consume(r, a, e))
<1>1. r.protocol \in {"openai", "responses", "anthropic"}
  BY RoundsAssumption DEF Protocols
<1> QED BY <1>1, OpenAiShows, ResponsesShows, AnthropicShows DEF Consume

LEMMA DecodersTear ==
  ASSUME NEW r \in Rounds, NEW P, NEW a, Decoder(P, a), NEW e, e.type = "junk", e.parts = <<Torn>>
  PROVE  Tears(a, Consume(r, a, e))
<1>1. r.protocol \in {"openai", "responses", "anthropic"}
  BY RoundsAssumption DEF Protocols
<1>2. CASE r.protocol = "openai"
  BY <1>2 DEF Consume, OpenAi!Consume, OpenAi!PlainText, OpenAi!Data, OpenAi!PushContent, Decoder, Tears
<1>3. CASE r.protocol = "responses"
  BY <1>3 DEF Consume, Responses!Consume, Responses!PlainText, Responses!Data, Responses!PushContent,
       Decoder, Tears
<1>4. CASE r.protocol = "anthropic"
  BY <1>4 DEF Consume, Anthropic!Consume, Anthropic!PlainText, Anthropic!Data, Anthropic!PushContent,
       Decoder, Tears
<1> QED BY <1>1, <1>2, <1>3, <1>4

-----------------------------------------------------------------------------
(* The events of a chunk.                                                  *)

Reads(r, start, events, N, read) ==
  read = [d \in 0 .. N |-> IF d = 0 THEN start ELSE ConsumeEvent(r, read[d - 1], events[d])]

LEMMA ReadingExists ==
  ASSUME NEW r, NEW start, NEW events, NEW N \in Nat, N = Len(events)
  PROVE  Reads(r, start, events, N, Reading(r, start, events))
<1> DEFINE F(w, d) == IF d = 0 THEN start ELSE ConsumeEvent(r, w[d - 1], events[d])
           S == {k \in 0 .. N : \E g : g = [d \in 0 .. k |-> F(g, d)]}
<1>1. 0 \in S
  <2> DEFINE g0 == [d \in 0 .. 0 |-> start]
             G == [d \in 0 .. 0 |-> F(g0, d)]
  <2>1. \A d \in 0 .. 0 : G[d] = start
    OBVIOUS
  <2>2. G = [d \in 0 .. 0 |-> G[d]]
    OBVIOUS
  <2>3. g0 = G
    <3> HIDE DEF G
    <3> QED BY <2>1, <2>2
  <2>4. \E g : g = [d \in 0 .. 0 |-> F(g, d)]
    BY <2>3, Zenon
  <2>5. 0 \in 0 .. N
    OBVIOUS
  <2> QED BY <2>4, <2>5
<1>2. ASSUME NEW k \in 0 .. N, k \in S, k < N PROVE k + 1 \in S
  <2>1. PICK g : g = [d \in 0 .. k |-> F(g, d)]
    BY <1>2
  <2>a. ASSUME NEW d \in 0 .. k PROVE g[d] = F(g, d)
    <3> DEFINE G == [e \in 0 .. k |-> F(g, e)]
    <3>1. G[d] = F(g, d)
      OBVIOUS
    <3>2. g = G
      BY <2>1
    <3> HIDE DEF G
    <3> QED BY <3>1, <3>2
  <2> DEFINE h == [d \in 0 .. (k + 1) |-> IF d = k + 1 THEN F(g, d) ELSE g[d]]
  <2>2. ASSUME NEW d \in 0 .. (k + 1) PROVE h[d] = F(h, d)
    <3>1. CASE d = k + 1
      <4>1. d # 0 /\ d - 1 \in 0 .. k /\ d - 1 # k + 1 /\ d - 1 \in 0 .. (k + 1)
        BY <3>1
      <4>2. h[d] = F(g, d) /\ h[d - 1] = g[d - 1]
        BY <3>1, <4>1
      <4> QED BY <4>1, <4>2
    <3>2. CASE d # k + 1
      <4>a. d \in 0 .. k /\ d \in 0 .. (k + 1)
        BY <3>2
      <4>b. h[d] = g[d]
        BY <3>2, <4>a
      <4>1. d \in 0 .. k /\ h[d] = g[d] /\ g[d] = F(g, d)
        BY <2>a, <4>a, <4>b, Zenon
      <4>2. CASE d = 0
        <5>1. F(g, d) = start /\ F(h, d) = start
          BY <4>2
        <5> QED BY <4>1, <5>1, Zenon
      <4>3. CASE d # 0
        <5>1. d - 1 \in 0 .. k /\ d - 1 # k + 1 /\ d - 1 \in 0 .. (k + 1)
          BY <4>1, <4>3
        <5>2. h[d - 1] = g[d - 1]
          BY <5>1
        <5> QED BY <4>1, <4>3, <5>2
      <4> QED BY <4>2, <4>3
    <3> QED BY <3>1, <3>2
  <2>3. h = [d \in 0 .. (k + 1) |-> h[d]]
    OBVIOUS
  <2>4. h = [d \in 0 .. (k + 1) |-> F(h, d)]
    <3> DEFINE G == [d \in 0 .. (k + 1) |-> F(h, d)]
    <3>1. G = [d \in 0 .. (k + 1) |-> G[d]]
      OBVIOUS
    <3>2. ASSUME NEW d \in 0 .. (k + 1) PROVE G[d] = F(h, d)
      OBVIOUS
    <3>3. ASSUME NEW d \in 0 .. (k + 1) PROVE h[d] = G[d]
      BY <2>2, <3>2, Zenon
    <3> HIDE DEF G, h
    <3>4. h = G
      BY <2>3, <3>1, <3>3
    <3> QED BY <3>4 DEF G
  <2>5. k + 1 \in 0 .. N
    BY <1>2
  <2> HIDE DEF h
  <2> QED BY <2>4, <2>5
<1>3. N \in S
  <2>1. N \in 0 .. N /\ N \in Nat
    OBVIOUS
  <2> HIDE DEF S
  <2> QED BY <1>1, <1>2, <2>1, Induct
<1>4. \E g : g = [d \in 0 .. N |-> F(g, d)]
  BY <1>3
<1> QED BY <1>4, Zenon DEF Reading, Reads

\* One event after the other is read.
LEMMA ReadingSteps ==
  ASSUME NEW r, NEW start, NEW events, NEW N \in Nat, N = Len(events),
         NEW read, read = Reading(r, start, events)
  PROVE  /\ read[0] = start
         /\ \A k \in 0 .. N : k < N => read[k + 1] = ConsumeEvent(r, read[k], events[k + 1])
<1> DEFINE G == [d \in 0 .. N |-> IF d = 0 THEN start ELSE ConsumeEvent(r, read[d - 1], events[d])]
<1>1. read = G
  <2>1. Reads(r, start, events, N, read)
    BY ReadingExists
  <2> QED BY <2>1 DEF Reads
<1>2. G[0] = start
  OBVIOUS
<1>3. ASSUME NEW k \in 0 .. N, k < N PROVE G[k + 1] = ConsumeEvent(r, read[k], events[k + 1])
  <2>1. k + 1 \in 0 .. N /\ k + 1 # 0 /\ (k + 1) - 1 = k
    BY <1>3
  <2> QED BY <2>1
<1> HIDE DEF G
<1> QED BY <1>1, <1>2, <1>3, Zenon

-----------------------------------------------------------------------------
(* Beginnings of a text.                                                   *)

Begins(s, t) == Len(s) <= Len(t) /\ \A i \in 1 .. Len(s) : s[i] = t[i]

\* Torn text follows a beginning and nothing follows it.
Comes(s, t) ==
  \/ Begins(s, t)
  \/ /\ Len(s) # 0 /\ s[Len(s)] = Torn
     /\ Len(s) - 1 <= Len(t) /\ \A i \in 1 .. Len(s) - 1 : s[i] = t[i]

LEMMA SubSeqType ==
  ASSUME NEW P, NEW s \in Seq(P), NEW n \in 0 .. Len(s)
  PROVE  /\ SubSeq(s, 1, n) \in Seq(P) /\ Len(SubSeq(s, 1, n)) = n
         /\ \A i \in 1 .. n : SubSeq(s, 1, n)[i] = s[i]
OBVIOUS

LEMMA PrefixBegins ==
  ASSUME NEW P, NEW s \in Seq(P), NEW t \in Seq(P)
  PROVE  /\ IsPrefix(s, t) <=> Begins(s, t)
         /\ Channel!IsPrefix(s, t) <=> Begins(s, t)
<1>1. Len(s) \in Nat /\ Len(t) \in Nat
  OBVIOUS
<1>2. CASE Len(s) <= Len(t)
  <2>1. PICK a : a = SubSeq(s, 1, Len(s))
    OBVIOUS
  <2>2. PICK b : b = SubSeq(t, 1, Len(s))
    OBVIOUS
  <2>3. /\ a \in Seq(P) /\ Len(a) = Len(s) /\ \A i \in 1 .. Len(s) : a[i] = s[i]
        /\ b \in Seq(P) /\ Len(b) = Len(s) /\ \A i \in 1 .. Len(s) : b[i] = t[i]
    BY <1>1, <1>2, <2>1, <2>2, SubSeqType
  <2>4. a = b <=> \A i \in 1 .. Len(s) : a[i] = b[i]
    BY <2>3, SeqEqual
  <2>5. a = b <=> \A i \in 1 .. Len(s) : s[i] = t[i]
    BY <2>3, <2>4
  <2> QED BY <1>2, <2>1, <2>2, <2>5 DEF IsPrefix, Channel!IsPrefix, Begins
<1>3. CASE ~(Len(s) <= Len(t))
  BY <1>3 DEF IsPrefix, Channel!IsPrefix, Begins
<1> QED BY <1>2, <1>3

LEMMA GenuineComes ==
  ASSUME NEW P, NEW s \in Seq(P), Text(Meant(round.answer)) \in Seq(P)
  PROVE  Channel!Genuine(s) <=> Comes(s, Text(Meant(round.answer)))
<1>1. PICK t : t = Text(Meant(round.answer))
  OBVIOUS
<1>2. t \in Seq(P) /\ Len(s) \in Nat /\ Len(t) \in Nat
  BY <1>1
<1>3. Channel!IsPrefix(s, t) <=> Begins(s, t)
  BY <1>2, PrefixBegins
<1>4. s # <<>> <=> Len(s) # 0
  OBVIOUS
<1>5. CASE Len(s) = 0
  BY <1>1, <1>3, <1>4, <1>5 DEF Channel!Genuine, Comes
<1>6. CASE Len(s) # 0
  <2>1. Len(s) - 1 \in 0 .. Len(s)
    BY <1>2, <1>6
  <2>2. PICK a : a = SubSeq(s, 1, Len(s) - 1)
    OBVIOUS
  <2>3. a \in Seq(P) /\ Len(a) = Len(s) - 1 /\ \A i \in 1 .. Len(s) - 1 : a[i] = s[i]
    BY <2>1, <2>2, SubSeqType
  <2>4. Channel!IsPrefix(a, t) <=> Len(s) - 1 <= Len(t) /\ \A i \in 1 .. Len(s) - 1 : s[i] = t[i]
    BY <1>2, <2>3, PrefixBegins DEF Begins
  <2> QED BY <1>1, <1>3, <1>4, <1>6, <2>2, <2>4
        DEF Channel!Genuine, Channel!Last, Channel!Front, Comes
<1> QED BY <1>5, <1>6

LEMMA BeginsMore ==
  ASSUME NEW P, NEW s \in Seq(P), NEW t \in Seq(P), NEW u \in Seq(P)
  PROVE  /\ Begins(s, s) /\ Begins(<<>>, s) /\ Begins(s, s \o t)
         /\ Begins(s, t) => Begins(s, t \o u)
         /\ t # <<>> => s # s \o t
<1>1. /\ s \o t \in Seq(P) /\ Len(s \o t) = Len(s) + Len(t)
      /\ \A i \in 1 .. Len(s) : (s \o t)[i] = s[i]
  BY ConcatProperties
<1>2. /\ t \o u \in Seq(P) /\ Len(t \o u) = Len(t) + Len(u)
      /\ \A i \in 1 .. Len(t) : (t \o u)[i] = t[i]
  BY ConcatProperties
<1>3. Len(s) \in Nat /\ Len(t) \in Nat /\ Len(u) \in Nat /\ Len(<<>>) = 0
  OBVIOUS
<1>4. t # <<>> => Len(t) # 0
  OBVIOUS
<1>5. Begins(s, s) /\ Begins(<<>>, s)
  BY <1>3 DEF Begins
<1>6. Begins(s, s \o t)
  BY <1>1, <1>3 DEF Begins
<1>7. Begins(s, t) => Begins(s, t \o u)
  BY <1>2, <1>3 DEF Begins
<1>8. t # <<>> => s # s \o t
  BY <1>1, <1>3, <1>4
<1> QED BY <1>5, <1>6, <1>7, <1>8

-----------------------------------------------------------------------------
(* Deltas on their way to the client.                                      *)

Deltas(P) == [kind : Kinds, parts : Seq(P) \ {<<>>}]

\* The client has "from"; with the waiting deltas it will have c[1], c[2], ... up
\* to what the decoder has, each of them a beginning of the text.
Waits(P, text, c, waiting, from, to) ==
  /\ waiting \in Seq(Deltas(P))
  /\ c \in [0 .. Len(waiting) -> Seq(P)]
  /\ c[0] = from /\ c[Len(waiting)] = to
  /\ \A i \in 1 .. Len(waiting) : c[i] = c[i - 1] \o waiting[i].parts
  /\ \A i \in 0 .. Len(waiting) : Comes(c[i], text)
  /\ \A i, j \in 0 .. Len(waiting) : i <= j => Begins(c[i], c[j])

Flows(P, text, waiting, from, to) == \E c : Waits(P, text, c, waiting, from, to)

LEMMA FlowsNone ==
  ASSUME NEW P, NEW text, NEW from \in Seq(P), Comes(from, text)
  PROVE  Flows(P, text, <<>>, from, from)
<1>1. Begins(from, from)
  BY BeginsMore
<1>2. PICK c : c = [i \in 0 .. 0 |-> from]
  OBVIOUS
<1>3. Len(<<>>) = 0 /\ <<>> \in Seq(Deltas(P)) /\ c[0] = from /\ c \in [0 .. 0 -> Seq(P)]
  BY <1>2
<1>4. \A i \in 0 .. 0 : i = 0
  OBVIOUS
<1>5. Waits(P, text, c, <<>>, from, from)
  BY <1>1, <1>3, <1>4 DEF Waits
<1> QED BY <1>5 DEF Flows

\* One more delta is decoded.
LEMMA FlowsMore ==
  ASSUME NEW P, NEW text, NEW waiting, NEW from, NEW to, Flows(P, text, waiting, from, to),
         NEW d \in Deltas(P), Comes(to \o d.parts, text)
  PROVE  Flows(P, text, waiting \o <<d>>, from, to \o d.parts)
<1>1. PICK c : Waits(P, text, c, waiting, from, to)
  BY DEF Flows
<1>2. PICK n \in Nat : n = Len(waiting)
  BY <1>1 DEF Waits
<1>3. d.parts \in Seq(P)
  BY DEF Deltas
<1>4. PICK w : w = waiting \o <<d>>
  OBVIOUS
<1>5. w \in Seq(Deltas(P)) /\ Len(w) = n + 1 /\ w[n + 1] = d /\ \A i \in 1 .. n : w[i] = waiting[i]
  <2>1. waiting \in Seq(Deltas(P)) /\ <<d>> \in Seq(Deltas(P)) /\ Len(<<d>>) = 1 /\ <<d>>[1] = d
    BY <1>1 DEF Waits
  <2>2. /\ w \in Seq(Deltas(P)) /\ Len(w) = n + 1
        /\ \A i \in 1 .. n + 1 : w[i] = IF i <= n THEN waiting[i] ELSE <<d>>[i - n]
    BY <1>2, <1>4, <2>1, ConcatProperties
  <2> QED BY <2>1, <2>2
<1>6. PICK e : e = [i \in 0 .. n + 1 |-> IF i = n + 1 THEN to \o d.parts ELSE c[i]]
  OBVIOUS
<1>7. c \in [0 .. n -> Seq(P)] /\ c[0] = from /\ c[n] = to
  BY <1>1, <1>2 DEF Waits
<1>8. to \in Seq(P) /\ to \o d.parts \in Seq(P)
  BY <1>3, <1>7
<1>9. e \in [0 .. n + 1 -> Seq(P)] /\ e[n + 1] = to \o d.parts /\ \A i \in 0 .. n : e[i] = c[i]
  BY <1>6, <1>7, <1>8
<1>10. ASSUME NEW i \in 1 .. n + 1 PROVE e[i] = e[i - 1] \o w[i].parts
  <2>1. CASE i = n + 1
    <3>1. i - 1 = n /\ n \in 0 .. n
      BY <2>1
    <3>2. e[i - 1] = to /\ e[i] = to \o d.parts /\ w[i] = d
      BY <1>5, <1>7, <1>9, <2>1, <3>1
    <3> QED BY <3>2
  <2>2. CASE i # n + 1
    <3>1. i \in 1 .. n /\ i \in 0 .. n /\ i - 1 \in 0 .. n
      BY <2>2
    <3>2. c[i] = c[i - 1] \o waiting[i].parts
      BY <1>1, <1>2, <3>1 DEF Waits
    <3> QED BY <1>5, <1>9, <3>1, <3>2
  <2> QED BY <2>1, <2>2
<1>11. ASSUME NEW i \in 0 .. n + 1 PROVE Comes(e[i], text)
  <2>1. CASE i = n + 1
    BY <1>9, <2>1
  <2>2. CASE i # n + 1
    <3>1. i \in 0 .. n
      BY <2>2
    <3>2. Comes(c[i], text)
      BY <1>1, <1>2, <3>1 DEF Waits
    <3> QED BY <1>9, <3>1, <3>2
  <2> QED BY <2>1, <2>2
<1>12. ASSUME NEW i \in 0 .. n + 1, NEW j \in 0 .. n + 1, i <= j PROVE Begins(e[i], e[j])
  <2>1. CASE j # n + 1
    <3>1. i \in 0 .. n /\ j \in 0 .. n
      BY <1>12, <2>1
    <3> QED BY <1>1, <1>2, <1>9, <1>12, <3>1 DEF Waits
  <2>2. CASE j = n + 1 /\ i # n + 1
    <3>1. i \in 0 .. n /\ n \in 0 .. n /\ i <= n
      BY <1>12, <2>2
    <3>2. Begins(c[i], c[n]) /\ c[i] \in Seq(P)
      BY <1>1, <1>2, <1>7, <3>1 DEF Waits
    <3>3. Begins(c[i], to \o d.parts)
      BY <1>3, <1>7, <1>8, <3>2, BeginsMore
    <3> QED BY <1>9, <2>2, <3>1, <3>3
  <2>3. CASE j = n + 1 /\ i = n + 1
    BY <1>8, <1>9, <2>3, BeginsMore
  <2> QED BY <2>1, <2>2, <2>3
<1>13. 0 \in 0 .. n
  OBVIOUS
<1>14. Waits(P, text, e, w, from, to \o d.parts)
  BY <1>5, <1>7, <1>9, <1>10, <1>11, <1>12, <1>13 DEF Waits
<1> QED BY <1>4, <1>14 DEF Flows

\* The first of the waiting deltas is sent.
LEMMA FlowsOn ==
  ASSUME NEW P, NEW text, NEW waiting, NEW from, NEW to, Flows(P, text, waiting, from, to),
         waiting # <<>>
  PROVE  /\ Flows(P, text, Tail(waiting), from \o Head(waiting).parts, to)
         /\ from \in Seq(P) /\ from \o Head(waiting).parts \in Seq(P)
         /\ Comes(from \o Head(waiting).parts, text)
         /\ Begins(from, from \o Head(waiting).parts) /\ from # from \o Head(waiting).parts
<1>1. PICK c : Waits(P, text, c, waiting, from, to)
  BY DEF Flows
<1>2. waiting \in Seq(Deltas(P))
  BY <1>1 DEF Waits
<1>3. PICK n \in Nat : n = Len(waiting) /\ n # 0
  BY <1>2
<1>4. PICK w : w = Tail(waiting)
  OBVIOUS
<1>5. w \in Seq(Deltas(P)) /\ Len(w) = n - 1 /\ \A i \in 1 .. n - 1 : w[i] = waiting[i + 1]
  BY <1>2, <1>3, <1>4, HeadTailProperties
<1>6. Head(waiting) = waiting[1] /\ waiting[1] \in Deltas(P)
  BY <1>2, <1>3
<1>7. PICK parts : parts = Head(waiting).parts
  OBVIOUS
<1>8. parts \in Seq(P) /\ parts # <<>> /\ parts = waiting[1].parts
  BY <1>6, <1>7 DEF Deltas
<1>9. c \in [0 .. n -> Seq(P)] /\ c[0] = from /\ c[n] = to
  BY <1>1, <1>3 DEF Waits
<1>10. c[1] = from \o parts
  <2>1. 1 \in 1 .. n /\ 1 - 1 = 0
    BY <1>3
  <2>2. c[1] = c[1 - 1] \o waiting[1].parts
    BY <1>1, <1>3, <2>1 DEF Waits
  <2> QED BY <1>8, <1>9, <2>1, <2>2
<1>11. from \in Seq(P) /\ from \o parts \in Seq(P)
  BY <1>8, <1>9
<1>12. Begins(from, from \o parts) /\ from # from \o parts
  BY <1>8, <1>11, BeginsMore
<1>13. Comes(from \o parts, text)
  <2>1. 1 \in 0 .. n
    BY <1>3
  <2> QED BY <1>1, <1>3, <1>10, <2>1 DEF Waits
<1>14. PICK e : e = [i \in 0 .. n - 1 |-> c[i + 1]]
  OBVIOUS
<1>15. \A i \in 0 .. n - 1 : i + 1 \in 0 .. n
  OBVIOUS
<1>16. e \in [0 .. n - 1 -> Seq(P)] /\ \A i \in 0 .. n - 1 : e[i] = c[i + 1]
  BY <1>9, <1>14, <1>15
<1>17. e[0] = from \o parts /\ e[n - 1] = to
  <2>1. 0 \in 0 .. n - 1 /\ n - 1 \in 0 .. n - 1 /\ 0 + 1 = 1 /\ (n - 1) + 1 = n
    BY <1>3
  <2> QED BY <1>9, <1>10, <1>16, <2>1
<1>18. ASSUME NEW i \in 1 .. n - 1 PROVE e[i] = e[i - 1] \o w[i].parts
  <2>1. i \in 0 .. n - 1 /\ i - 1 \in 0 .. n - 1 /\ i + 1 \in 1 .. n /\ (i + 1) - 1 = i /\ (i - 1) + 1 = i
    OBVIOUS
  <2>2. c[i + 1] = c[(i + 1) - 1] \o waiting[i + 1].parts
    BY <1>1, <1>3, <2>1 DEF Waits
  <2> QED BY <1>5, <1>16, <2>1, <2>2
<1>19. ASSUME NEW i \in 0 .. n - 1 PROVE Comes(e[i], text)
  BY <1>1, <1>3, <1>15, <1>16 DEF Waits
<1>20. ASSUME NEW i \in 0 .. n - 1, NEW j \in 0 .. n - 1, i <= j PROVE Begins(e[i], e[j])
  <2>1. i + 1 \in 0 .. n /\ j + 1 \in 0 .. n /\ i + 1 <= j + 1
    BY <1>20
  <2>2. Begins(c[i + 1], c[j + 1])
    BY <1>1, <1>3, <2>1 DEF Waits
  <2> QED BY <1>16, <2>2
<1>21. Waits(P, text, e, w, from \o parts, to)
  BY <1>5, <1>16, <1>17, <1>18, <1>19, <1>20 DEF Waits
<1> QED BY <1>4, <1>7, <1>11, <1>12, <1>13, <1>21 DEF Flows

\* What the decoder has continues what the client has.
LEMMA FlowsEnd ==
  ASSUME NEW P, NEW text, NEW waiting, NEW from, NEW to, Flows(P, text, waiting, from, to)
  PROVE  /\ from \in Seq(P) /\ to \in Seq(P) /\ Comes(to, text) /\ Begins(from, to)
         /\ waiting = <<>> => from = to
<1>1. PICK c : Waits(P, text, c, waiting, from, to)
  BY DEF Flows
<1>2. PICK n \in Nat : n = Len(waiting)
  BY <1>1 DEF Waits
<1>3. 0 \in 0 .. n /\ n \in 0 .. n /\ 0 <= n
  OBVIOUS
<1>4. waiting = <<>> => n = 0
  BY <1>2
<1> QED BY <1>1, <1>2, <1>3, <1>4 DEF Waits

-----------------------------------------------------------------------------
(* Reading a chunk.                                                        *)

LEMMA OutcomeText == \A a : Text(Outcome(a)) = Text(a)
BY DEF Text, Outcome

LEMMA EventFlows ==
  ASSUME NEW P, NEW text, NEW r \in Rounds, NEW a, Decoder(P, a), NEW e, e.parts \in Seq(P),
         NEW c, c = Consume(r, a, e),
         Comes(Text(c.acc), text), c.acc.reasoning # a.reasoning => c.acc.content = <<>>,
         NEW waiting, NEW from, Flows(P, text, waiting, from, Text(a))
  PROVE  Decoder(P, c.acc) /\ Flows(P, text, waiting \o c.deltas, from, Text(c.acc))
<1>1. PICK kind \in Kinds, parts \in Seq(P) : Adds(P, a, kind, parts, c)
  BY DecodersShow DEF Shows
<1>2. a.content \in Seq(P) /\ a.reasoning \in Seq(P)
  BY DEF Decoder
<1>3. a.content \o parts \in Seq(P) /\ a.reasoning \o parts \in Seq(P)
  BY <1>2
<1>4. Decoder(P, c.acc)
  BY <1>1, <1>2, <1>3 DEF Adds, Decoder
<1>5. waiting \in Seq(Deltas(P))
  BY DEF Flows, Waits
<1>6. CASE parts = <<>>
  <2>1. c.deltas = <<>>
    BY <1>1, <1>6 DEF Adds
  <2>2. waiting \o c.deltas = waiting
    BY <1>5, <2>1
  <2>3. a.content \o parts = a.content /\ a.reasoning \o parts = a.reasoning
    BY <1>2, <1>6, ConcatEmptySeq
  <2>4. c.acc.content = a.content /\ c.acc.reasoning = a.reasoning
    BY <1>1, <2>3 DEF Adds
  <2>5. Text(c.acc) = Text(a)
    BY <2>4 DEF Text
  <2> QED BY <1>4, <2>2, <2>5
<1>7. CASE parts # <<>>
  <2>1. PICK d : d = [kind |-> kind, parts |-> parts]
    OBVIOUS
  <2>2. d \in Deltas(P) /\ d.parts = parts /\ c.deltas = <<d>>
    BY <1>1, <1>7, <2>1 DEF Deltas, Adds
  <2>3. Text(c.acc) = Text(a) \o parts
    <3>1. CASE c.acc.content = a.content \o parts /\ c.acc.reasoning = a.reasoning
      <4>1. PICK x, y : x = a.reasoning /\ y = a.content
        OBVIOUS
      <4>2. x \in Seq(P) /\ y \in Seq(P)
        BY <1>2, <4>1
      <4>3. (x \o y) \o parts = x \o (y \o parts)
        BY <4>2
      <4> QED BY <3>1, <4>1, <4>3 DEF Text
    <3>2. CASE c.acc.content = a.content /\ c.acc.reasoning = a.reasoning \o parts
      <4>1. a.reasoning # a.reasoning \o parts
        BY <1>2, <1>7, BeginsMore
      <4>2. a.content = <<>>
        BY <3>2, <4>1
      <4>3. (a.reasoning \o parts) \o <<>> = a.reasoning \o parts /\ a.reasoning \o <<>> = a.reasoning
        BY <1>2, <1>3, ConcatEmptySeq
      <4> QED BY <3>2, <4>2, <4>3 DEF Text
    <3> QED BY <1>1, <3>1, <3>2 DEF Adds
  <2>4. Flows(P, text, waiting \o <<d>>, from, Text(a) \o d.parts)
    BY <2>2, <2>3, FlowsMore
  <2> QED BY <1>4, <2>2, <2>3, <2>4
<1> QED BY <1>6, <1>7

\* The text of half an event comes last.
LEMMA TearFlows ==
  ASSUME NEW P, Torn \in P, NEW text, NEW r \in Rounds, NEW a, Decoder(P, a), NEW e,
         e.type = "junk", e.parts = <<Torn>>, NEW c, c = Consume(r, a, e), Begins(Text(a), text),
         NEW waiting, NEW from, Flows(P, text, waiting, from, Text(a))
  PROVE  Flows(P, text, waiting \o c.deltas, from, Text(c.acc))
<1>1. Tears(a, c)
  BY DecodersTear
<1>2. a.content \in Seq(P) /\ a.reasoning \in Seq(P) /\ <<Torn>> \in Seq(P)
  BY DEF Decoder
<1>3. PICK x, y, z : x = a.reasoning /\ y = a.content /\ z = <<Torn>>
  OBVIOUS
<1>4. Text(c.acc) = Text(a) \o <<Torn>>
  <2>1. x \in Seq(P) /\ y \in Seq(P) /\ z \in Seq(P)
    BY <1>2, <1>3
  <2>2. (x \o y) \o z = x \o (y \o z)
    BY <2>1
  <2> QED BY <1>1, <1>3, <2>2 DEF Tears, Text
<1>5. PICK f : f = Text(a)
  OBVIOUS
<1>6. f \in Seq(P) /\ Len(f) \in Nat
  <2>1. x \in Seq(P) /\ y \in Seq(P) /\ f = x \o y
    BY <1>2, <1>3, <1>5 DEF Text
  <2>2. f \in Seq(P)
    BY <2>1
  <2> QED BY <2>2
<1>7. PICK g : g = f \o <<Torn>>
  OBVIOUS
<1>8. /\ Len(g) = Len(f) + 1 /\ g[Len(f) + 1] = Torn
      /\ \A i \in 1 .. Len(f) : g[i] = f[i]
  <2>1. Len(<<Torn>>) = 1 /\ <<Torn>>[1] = Torn
    OBVIOUS
  <2>3. z \in Seq(P) /\ Len(z) = 1 /\ z[1] = Torn /\ g = f \o z
    BY <1>2, <1>3, <1>7, <2>1
  <2>4. /\ Len(g) = Len(f) + Len(z)
        /\ \A i \in 1 .. Len(f) + Len(z) : g[i] = IF i <= Len(f) THEN f[i] ELSE z[i - Len(f)]
    BY <1>6, <2>3, ConcatProperties
  <2> QED BY <1>6, <2>3, <2>4
<1>9. Comes(g, text)
  BY <1>5, <1>6, <1>8 DEF Comes, Begins
<1>10. PICK d : d = [kind |-> "content", parts |-> <<Torn>>]
  OBVIOUS
<1>11. d \in Deltas(P) /\ d.parts = <<Torn>> /\ c.deltas = <<d>>
  BY <1>1, <1>2, <1>10 DEF Deltas, Kinds, Tears
<1>12. Flows(P, text, waiting \o <<d>>, from, Text(a) \o d.parts)
  BY <1>5, <1>7, <1>9, <1>11, FlowsMore
<1> QED BY <1>4, <1>11, <1>12

-----------------------------------------------------------------------------
(* Reading a script.                                                       *)

LEMMA NewDecoderType ==
  ASSUME NEW P, NEW r
  PROVE  Decoder(P, NewDecoder(r)) /\ Text(NewDecoder(r)) = <<>>
<1>1. /\ {"content", "reasoning"} \subseteq DOMAIN NewDecoder(r)
      /\ NewDecoder(r).content = <<>> /\ NewDecoder(r).reasoning = <<>>
  BY DEF NewDecoder, Responses!NewDecoder, Accumulator
<1>2. <<>> \in Seq(P) /\ <<>> \o <<>> = <<>>
  OBVIOUS
<1> QED BY <1>1, <1>2 DEF Decoder, Text

LEMMA ShowsDecoder ==
  ASSUME NEW P, NEW a, Decoder(P, a), NEW c, Shows(P, a, c)
  PROVE  Decoder(P, c.acc)
<1>1. PICK kind \in Kinds, parts \in Seq(P) : Adds(P, a, kind, parts, c)
  BY DEF Shows
<1>2. a.content \in Seq(P) /\ a.reasoning \in Seq(P)
  BY DEF Decoder
<1>3. a.content \o parts \in Seq(P) /\ a.reasoning \o parts \in Seq(P)
  BY <1>2
<1> QED BY <1>1, <1>2, <1>3 DEF Adds, Decoder

LEMMA MadeBegins ==
  ASSUME NEW P, ServicesContinue(P, Rounds), NEW r \in Rounds, r.streamed, NEW s \in StreamsOf(r)
  PROVE  /\ Torn \in P /\ s \in Seq(Events(P)) /\ Text(Meant(r.answer)) \in Seq(P)
         /\ Made(r, s, 0) = NewDecoder(r)
         /\ \A k \in 0 .. Len(s) : /\ Decoder(P, Made(r, s, k))
                                   /\ Begins(Text(Made(r, s, k)), Text(Meant(r.answer)))
         /\ \A k \in 0 .. Len(s) : k < Len(s) =>
              /\ Made(r, s, k + 1) = Consume(r, Made(r, s, k), s[k + 1]).acc
              /\ Made(r, s, k + 1).reasoning # Made(r, s, k).reasoning
                   => Made(r, s, k + 1).content = <<>>
<1>1. PICK text : text = Text(Meant(r.answer))
  OBVIOUS
<1>2. PICK x, y : x = Meant(r.answer).content /\ y = Meant(r.answer).reasoning
  OBVIOUS
<1>3. x \in Seq(P) /\ y \in Seq(P) /\ text = y \o x
  BY <1>1, <1>2 DEF ServicesContinue, Text
<1>4. text \in Seq(P)
  BY <1>3
<1>5. PICK start, read :
        /\ start = [acc |-> NewDecoder(r), deltas |-> <<>>, finished |-> FALSE, failure |-> NoFailure]
        /\ read = Reading(r, start, s)
  OBVIOUS
<1>6. /\ s \in Seq(Events(P))
      /\ \A k \in 0 .. Len(s) : IsPrefix(Text(read[k].acc), text)
      /\ \A k \in 0 .. Len(s) - 1 :
           read[k + 1].acc.reasoning # read[k].acc.reasoning => read[k + 1].acc.content = <<>>
  <2>1. /\ s \in Seq(Events(P))
        /\ \A k \in 0 .. Len(s) : IsPrefix(Text(Made(r, s, k)), Text(Meant(r.answer)))
        /\ \A k \in 0 .. Len(s) - 1 :
             Made(r, s, k + 1).reasoning # Made(r, s, k).reasoning => Made(r, s, k + 1).content = <<>>
    BY DEF ServicesContinue
  <2> QED BY <1>1, <1>5, <2>1 DEF Made, ReadWhole
<1>7. PICK n \in Nat : n = Len(s)
  BY <1>6
<1>8. /\ read[0] = start
      /\ \A k \in 0 .. n : k < n => read[k + 1] = ConsumeEvent(r, read[k], s[k + 1])
  BY <1>5, <1>7, ReadingSteps
<1>9. read[0].acc = NewDecoder(r)
  BY <1>5, <1>8
<1>10. ASSUME NEW k \in 0 .. n, k < n
       PROVE  read[k + 1].acc = Consume(r, read[k].acc, s[k + 1]).acc
  <2>1. read[k + 1] = ConsumeEvent(r, read[k], s[k + 1])
    BY <1>8, <1>10
  <2> QED BY <2>1 DEF ConsumeEvent
<1>11. \A k \in 0 .. n : k < n => s[k + 1].parts \in Seq(P)
  <2> SUFFICES ASSUME NEW k \in 0 .. n, k < n PROVE s[k + 1].parts \in Seq(P)
    OBVIOUS
  <2>1. s[k + 1] \in Events(P)
    BY <1>6, <1>7
  <2> QED BY <2>1 DEF Events
<1>12. \A k \in 0 .. n : Decoder(P, read[k].acc)
  <2> DEFINE S == {k \in 0 .. n : Decoder(P, read[k].acc)}
  <2>1. 0 \in S
    BY <1>9, NewDecoderType
  <2>2. ASSUME NEW k \in 0 .. n, k \in S, k < n PROVE k + 1 \in S
    <3>1. Decoder(P, read[k].acc)
      BY <2>2
    <3>2. Decoder(P, Consume(r, read[k].acc, s[k + 1]).acc)
      BY <1>11, <2>2, <3>1, DecodersShow, ShowsDecoder
    <3> QED BY <1>10, <2>2, <3>2
  <2>3. \A k \in 0 .. n : k \in S
    <3> HIDE DEF S
    <3> QED BY <2>1, <2>2, Induct
  <2> QED BY <2>3
<1>13. ASSUME NEW k \in 0 .. n PROVE Begins(Text(read[k].acc), text)
  <2>1. PICK u, v : u = read[k].acc.reasoning /\ v = read[k].acc.content
    OBVIOUS
  <2>2. u \in Seq(P) /\ v \in Seq(P) /\ Text(read[k].acc) = u \o v
    BY <1>12, <2>1 DEF Decoder, Text
  <2>3. u \o v \in Seq(P)
    BY <2>2
  <2> QED BY <1>4, <1>6, <1>7, <2>2, <2>3, PrefixBegins
<1>14. \A k \in 0 .. n : k < n => k \in 0 .. n - 1
  OBVIOUS
<1>15. Torn \in P
  BY DEF ServicesContinue
<1> QED BY <1>1, <1>4, <1>5, <1>6, <1>7, <1>9, <1>10, <1>12, <1>13, <1>14, <1>15 DEF Made, ReadWhole

\* What is read of one more event.
After(s, c, t) == t.acc = c.acc /\ t.deltas = s.deltas \o c.deltas /\ (s.finished => t.finished)

LEMMA OneEvent ==
  ASSUME NEW r, NEW s, NEW e
  PROVE  After(s, Consume(r, s.acc, e), ConsumeEvent(r, s, e))
<1> SUFFICES ASSUME NEW c, c = Consume(r, s.acc, e), NEW t, t = ConsumeEvent(r, s, e)
             PROVE  After(s, c, t)
  OBVIOUS
<1>1. PICK d, f, g : /\ d = s.deltas \o c.deltas
                     /\ f = (s.finished \/ c.signal # "data")
                     /\ g = IF c.signal = "error" THEN Failure("Stream") ELSE s.failure
  BY Zenon
<1>2. t = [acc |-> c.acc, deltas |-> d, finished |-> f, failure |-> g]
  BY <1>1, Zenon DEF ConsumeEvent
<1>3. t.acc = c.acc /\ t.deltas = d /\ t.finished = f
  BY <1>2
<1>4. s.finished => f
  BY <1>1, Zenon
<1> QED BY <1>1, <1>3, <1>4, Zenon DEF After

\* The events from one place of a script to a later one.
Between(events, s, from, m) ==
  from + m <= Len(s) /\ Len(events) = m /\ \A i \in 1 .. m : events[i] = s[from + i]

\* The deltas of a chunk continue what was shown, however many events it holds.
LEMMA ChunkFlows ==
  ASSUME NEW P, ServicesContinue(P, Rounds), NEW r \in Rounds, r.streamed, NEW s \in StreamsOf(r),
         NEW text, text = Text(Meant(r.answer)), NEW from \in Nat, NEW m \in Nat,
         NEW events, Between(events, s, from, m),
         NEW start, start.acc = Made(r, s, from), start.deltas = <<>>,
         NEW last, last = Reading(r, start, events)[m]
  PROVE  /\ last.acc = Made(r, s, from + m)
         /\ Flows(P, text, last.deltas, Text(Made(r, s, from)), Text(last.acc))
<1>0. from + m <= Len(s) /\ Len(events) = m /\ \A i \in 1 .. m : events[i] = s[from + i]
  BY DEF Between
<1>9. PICK read : read = Reading(r, start, events)
  OBVIOUS
<1>1. PICK n \in Nat : n = Len(s)
  BY MadeBegins
<1>2. /\ s \in Seq(Events(P)) /\ text \in Seq(P)
      /\ \A k \in 0 .. n : Decoder(P, Made(r, s, k)) /\ Begins(Text(Made(r, s, k)), text)
  BY <1>1, MadeBegins
<1>3. \A k \in 0 .. n : k < n =>
        /\ Made(r, s, k + 1) = Consume(r, Made(r, s, k), s[k + 1]).acc
        /\ Made(r, s, k + 1).reasoning # Made(r, s, k).reasoning => Made(r, s, k + 1).content = <<>>
  BY <1>1, MadeBegins
<1>4. /\ read[0] = start
      /\ \A k \in 0 .. m : k < m => read[k + 1] = ConsumeEvent(r, read[k], events[k + 1])
  <2>1. m = Len(events)
    BY <1>0
  <2> QED BY <1>9, <2>1, ReadingSteps
<1>5. PICK shownBefore : shownBefore = Text(Made(r, s, from))
  OBVIOUS
<1> DEFINE S == {k \in 0 .. m : /\ read[k].acc = Made(r, s, from + k)
                                /\ Flows(P, text, read[k].deltas, shownBefore, Text(read[k].acc))}
<1>6. 0 \in S
  <2>1. from \in 0 .. n /\ from + 0 = from
    BY <1>0, <1>1
  <2>2. Decoder(P, Made(r, s, from)) /\ Begins(shownBefore, text)
    BY <1>2, <1>5, <2>1
  <2>3. PICK x, y : x = Made(r, s, from).reasoning /\ y = Made(r, s, from).content
    OBVIOUS
  <2>4. x \in Seq(P) /\ y \in Seq(P) /\ shownBefore = x \o y
    BY <1>5, <2>2, <2>3 DEF Decoder, Text
  <2>5. shownBefore \in Seq(P)
    BY <2>4
  <2>6. Flows(P, text, <<>>, shownBefore, shownBefore)
    BY <2>2, <2>5, FlowsNone DEF Comes
  <2> QED BY <1>4, <1>5, <2>1, <2>6
<1>7. ASSUME NEW k \in 0 .. m, k \in S, k < m PROVE k + 1 \in S
  <2>1. from + k \in 0 .. n /\ from + k < n /\ (from + k) + 1 = from + (k + 1) /\ k + 1 \in 1 .. m
        /\ from + (k + 1) \in 0 .. n
    BY <1>0, <1>1, <1>7
  <2>2. PICK a, e, c : /\ a = read[k].acc /\ e = events[k + 1] /\ c = Consume(r, a, e)
    OBVIOUS
  <2>3. a = Made(r, s, from + k) /\ Decoder(P, a)
    BY <1>2, <1>7, <2>1, <2>2
  <2>4. e = s[(from + k) + 1] /\ (from + k) + 1 \in 1 .. n
    BY <1>0, <2>1, <2>2
  <2>5. e.parts \in Seq(P)
    <3>1. e \in Events(P)
      BY <1>1, <1>2, <2>4
    <3> QED BY <3>1 DEF Events
  <2>6. c.acc = Made(r, s, from + (k + 1)) /\ (c.acc.reasoning # a.reasoning => c.acc.content = <<>>)
    BY <1>3, <2>1, <2>2, <2>3, <2>4
  <2>7. Comes(Text(c.acc), text)
    BY <1>2, <2>1, <2>6 DEF Comes
  <2>8. Flows(P, text, read[k].deltas, shownBefore, Text(a))
    BY <1>7, <2>2
  <2>9. Flows(P, text, read[k].deltas \o c.deltas, shownBefore, Text(c.acc))
    BY <2>2, <2>3, <2>5, <2>6, <2>7, <2>8, EventFlows
  <2>10. read[k + 1] = ConsumeEvent(r, read[k], e)
    BY <1>4, <1>7, <2>2
  <2>11. read[k + 1].acc = c.acc /\ read[k + 1].deltas = read[k].deltas \o c.deltas
    <3>1. After(read[k], c, read[k + 1])
      BY <2>2, <2>10, OneEvent
    <3> QED BY <3>1, Zenon DEF After
  <2>12. Flows(P, text, read[k + 1].deltas, shownBefore, Text(read[k + 1].acc))
    BY <2>9, <2>11, Zenon
  <2>13. read[k + 1].acc = Made(r, s, from + (k + 1))
    BY <2>6, <2>11, Zenon
  <2>14. k + 1 \in 0 .. m
    BY <1>7
  <2> QED BY <2>12, <2>13, <2>14, Zenon
<1>8. m \in S
  <2>1. m \in 0 .. m
    OBVIOUS
  <2> HIDE DEF S
  <2> QED BY <1>6, <1>7, <2>1, Induct
<1> QED BY <1>5, <1>8, <1>9

\* The same of what is left when the stream ends: half an event, a whole one, or none.
LEMMA RemainderFlows ==
  ASSUME NEW P, ServicesContinue(P, Rounds), NEW r \in Rounds, r.streamed, NEW s \in StreamsOf(r),
         NEW text, text = Text(Meant(r.answer)), NEW bytes \in 0 .. BlockBytes * Len(s),
         NEW start, start.acc = Made(r, s, WholeBlocks(bytes)), start.deltas = <<>>, start.finished,
         NEW events, events = Remainder(s, bytes), NEW n \in Nat, n = Len(events),
         NEW last, last = Reading(r, start, events)[n]
  PROVE  Flows(P, text, last.deltas, Text(start.acc), Text(last.acc)) /\ last.finished
<1>1. s \in Seq(Events(P)) /\ Torn \in P /\ text \in Seq(P)
  BY MadeBegins
<1>2. PICK w \in Nat : /\ w = WholeBlocks(bytes) /\ w <= Len(s)
                       /\ bytes % BlockBytes \in {2, 3} => w + 1 <= Len(s)
  <2>1. Len(s) \in Nat
    BY <1>1
  <2> QED BY <2>1 DEF WholeBlocks, BlockBytes
<1>3. w \in 0 .. Len(s) /\ Decoder(P, Made(r, s, w)) /\ Begins(Text(Made(r, s, w)), text)
  BY <1>1, <1>2, MadeBegins
<1>4. PICK read : read = Reading(r, start, events)
  OBVIOUS
<1>5. read[0] = start /\ \A k \in 0 .. n : k < n => read[k + 1] = ConsumeEvent(r, read[k], events[k + 1])
  BY <1>4, ReadingSteps
<1>6. Flows(P, text, <<>>, Text(start.acc), Text(start.acc))
  <2>1. PICK x, y : x = Made(r, s, w).reasoning /\ y = Made(r, s, w).content
    OBVIOUS
  <2>2. x \in Seq(P) /\ y \in Seq(P) /\ Text(start.acc) = x \o y
    BY <1>2, <1>3, <2>1 DEF Decoder, Text
  <2>3. Text(start.acc) \in Seq(P)
    BY <2>2
  <2> QED BY <1>2, <1>3, <2>3, FlowsNone DEF Comes
<1>7. CASE bytes % BlockBytes \notin {2, 3}
  <2>1. events = <<>>
    BY <1>7 DEF Remainder
  <2>2. n = 0 /\ last = start
    BY <1>4, <1>5, <2>1
  <2> QED BY <1>6, <2>2
<1>8. CASE bytes % BlockBytes \in {2, 3}
  <2>1. PICK e : e = IF bytes % BlockBytes = 2 THEN [s[w + 1] EXCEPT !.type = "junk", !.parts = <<Torn>>]
                     ELSE s[w + 1]
    OBVIOUS
  <2>2. events = <<e>>
    BY <1>2, <1>8, <2>1 DEF Remainder
  <2>3. n = 1 /\ events[1] = e
    BY <2>2
  <2>4. s[w + 1] \in Events(P)
    BY <1>1, <1>2, <1>8
  <2>5. PICK c : c = Consume(r, start.acc, e)
    OBVIOUS
  <2>6. last = ConsumeEvent(r, start, e)
    <3>1. 0 \in 0 .. n /\ 0 < n /\ 0 + 1 = 1
      BY <2>3
    <3>2. read[0 + 1] = ConsumeEvent(r, read[0], events[0 + 1])
      BY <1>5, <3>1
    <3> QED BY <1>4, <1>5, <2>3, <3>1, <3>2
  <2>7. last.acc = c.acc /\ last.deltas = <<>> \o c.deltas /\ last.finished
    <3>1. After(start, c, last)
      BY <2>5, <2>6, OneEvent
    <3>2. last.acc = c.acc /\ last.deltas = start.deltas \o c.deltas /\ last.finished
      BY <3>1, Zenon DEF After
    <3> QED BY <3>2, Zenon
  <2>8. CASE bytes % BlockBytes = 2
    <3>1. e.type = "junk" /\ e.parts = <<Torn>>
      BY <2>1, <2>4, <2>8 DEF Events
    <3>2. Flows(P, text, <<>> \o c.deltas, Text(start.acc), Text(c.acc))
      BY <1>1, <1>2, <1>3, <1>6, <2>5, <3>1, TearFlows
    <3> QED BY <2>7, <3>2
  <2>9. CASE bytes % BlockBytes = 3
    <3>1. e = s[w + 1] /\ e.parts \in Seq(P)
      BY <2>1, <2>4, <2>9 DEF Events
    <3>2. w + 1 \in 0 .. Len(s) /\ w < Len(s)
      BY <1>2, <1>8, <1>1
    <3>3. c.acc = Made(r, s, w + 1) /\ Begins(Text(c.acc), text)
          /\ (c.acc.reasoning # start.acc.reasoning => c.acc.content = <<>>)
      BY <1>2, <1>3, <2>5, <3>1, <3>2, MadeBegins
    <3>4. Flows(P, text, <<>> \o c.deltas, Text(start.acc), Text(c.acc))
      <4>1. Comes(Text(c.acc), text)
        BY <3>3 DEF Comes
      <4>2. Decoder(P, start.acc)
        BY <1>2, <1>3
      <4>3. c.acc.reasoning # start.acc.reasoning => c.acc.content = <<>>
        BY <3>3
      <4> QED BY <1>6, <2>5, <3>1, <4>1, <4>2, <4>3, EventFlows
    <3> QED BY <2>7, <3>4
  <2> QED BY <1>8, <2>8, <2>9
<1> QED BY <1>7, <1>8

-----------------------------------------------------------------------------
(* The steps of the channel.                                               *)

Promised == Text(Meant(round.answer))

LEMMA ShowStep ==
  ASSUME NEW P, Promised \in Seq(P), result = Open, result' = Open, round' = round, round.streamed,
         shown \in Seq(P), shown' \in Seq(P), Comes(shown', Promised), Begins(shown, shown'),
         shown # shown'
  PROVE  Channel!Next
<1>1. PICK old, new : old = shown /\ new = shown'
  OBVIOUS
<1>2. Channel!IsPrefix(old, new)
  BY <1>1, PrefixBegins
<1>3. Channel!Genuine(new)
  BY <1>1, GenuineComes DEF Promised
<1> QED BY <1>1, <1>2, <1>3
      DEF Channel!Next, Channel!Show, Channel!IsStrictPrefix, Open

LEMMA CompleteStep ==
  ASSUME NEW P, Promised \in Seq(P), result = Open, NEW o, NEW why,
         result' = [kind |-> "answer", outcome |-> o, failure |-> why],
         round' = round, shown' = shown, Text(o) \in Seq(P), Comes(Text(o), Promised),
         round.streamed => Text(o) = shown
  PROVE  Channel!Next
<1>1. PICK new : new = Text(o)
  OBVIOUS
<1>2. Channel!Genuine(new)
  BY <1>1, GenuineComes DEF Promised
<1>3. result.kind = "none" /\ result'.kind = "answer" /\ result'.outcome = o
  BY DEF Open
<1> QED BY <1>1, <1>2, <1>3 DEF Channel!Next, Channel!Complete

LEMMA StopStep ==
  ASSUME NEW P, Promised \in Seq(P), result = Open, NEW o, NEW why,
         result' = [kind |-> "interrupted", outcome |-> o, failure |-> why],
         round' = round, shown' = shown, Text(o) \in Seq(P), shown \in Seq(P),
         Comes(Text(o), Promised), Begins(shown, Text(o)), round.streamed
  PROVE  Channel!Next
<1>1. PICK new : new = Text(o)
  OBVIOUS
<1>2. Channel!Genuine(new) /\ Channel!IsPrefix(shown, new)
  BY <1>1, GenuineComes, PrefixBegins DEF Promised
<1>3. result.kind = "none" /\ result'.kind = "interrupted" /\ result'.outcome = o
  BY DEF Open
<1> QED BY <1>1, <1>2, <1>3 DEF Channel!Next, Channel!Stop

LEMMA FailStep ==
  ASSUME result = Open, NEW why, result' = [kind |-> "failure", outcome |-> EmptyOutcome, failure |-> why],
         round' = round, shown' = shown
  PROVE  Channel!Next
BY DEF Channel!Next, Channel!Fail, Open

LEMMA QuietStep ==
  ASSUME result' = result, round' = round, shown' = shown
  PROVE  UNCHANGED Channel!vars
BY DEF Channel!vars

-----------------------------------------------------------------------------
(* Buffered answers.                                                       *)

\* What a buffered answer may be made of the body of a reply.
Extracted(held, o) ==
  \/ o = held
  \/ o = EmptyOutcome
  \/ o = [EmptyOutcome EXCEPT !.reasoning = held.reasoning]

\* A streamed round is read, a buffered one is answered at once.
Returns(streamed, held, verdict) ==
  IF streamed THEN verdict.kind # "answer"
  ELSE verdict.kind # "read" /\ (verdict.kind = "answer" => Extracted(held, verdict.outcome))

LEMMA OpenAiReturns ==
  ASSUME NEW request, NEW said, NEW held, NEW why
  PROVE  /\ Returns(FALSE, held, OpenAi!Complete(request, said, held))
         /\ Returns(FALSE, held, OpenAi!CompleteAgain(why, said, held))
         /\ Returns(TRUE, held, OpenAi!Stream(request, said))
         /\ Returns(TRUE, held, OpenAi!StreamAgain(said))
<1> USE DEF Returns, OpenAi!Refuse, OpenAi!Retry, OpenAi!Answer, OpenAi!Read, OpenAi!FirstRefusal
<1>1. PICK useful : useful = OpenAi!Useful(OpenAi!ExtractOutcomes(said.body, held))
  OBVIOUS
<1>2. useful # <<>> => Extracted(held, Head(useful))
  BY <1>1 DEF OpenAi!Useful, OpenAi!ExtractOutcomes, Extracted, EmptyOutcome, OpenAi!EmptyOutcome,
       NoUsage, OpenAi!NoUsage
<1>3. Extracted(held, OpenAi!EmptyOutcome)
  BY DEF Extracted, EmptyOutcome, OpenAi!EmptyOutcome, NoUsage, OpenAi!NoUsage
<1>4. Returns(FALSE, held, OpenAi!Complete(request, said, held))
  BY <1>1, <1>2, <1>3 DEF OpenAi!Complete
<1>5. Returns(FALSE, held, OpenAi!CompleteAgain(why, said, held))
  BY <1>1, <1>2 DEF OpenAi!CompleteAgain
<1>6. Returns(TRUE, held, OpenAi!Stream(request, said)) /\ Returns(TRUE, held, OpenAi!StreamAgain(said))
  BY DEF OpenAi!Stream, OpenAi!StreamAgain
<1> QED BY <1>4, <1>5, <1>6

LEMMA ResponsesReturns ==
  ASSUME NEW request, NEW said, NEW held, NEW why
  PROVE  /\ Returns(FALSE, held, Responses!Complete(request, said, held))
         /\ Returns(FALSE, held, Responses!CompleteAgain(why, said, held))
         /\ Returns(TRUE, held, Responses!Stream(request, said))
         /\ Returns(TRUE, held, Responses!StreamAgain(said))
<1> USE DEF Returns, Responses!Refuse, Responses!Retry, Responses!Answer, Responses!Read,
            Responses!FirstRefusal
<1>1. PICK o : o = Responses!ExtractOutcome(said.body, held)
  OBVIOUS
<1>2. Extracted(held, o)
  BY <1>1 DEF Responses!ExtractOutcome, Extracted, EmptyOutcome, Responses!EmptyOutcome,
       NoUsage, Responses!NoUsage
<1>3. Returns(FALSE, held, Responses!Complete(request, said, held))
  BY <1>1, <1>2 DEF Responses!Complete
<1>4. Returns(FALSE, held, Responses!CompleteAgain(why, said, held))
  BY <1>1, <1>2 DEF Responses!CompleteAgain
<1>5. /\ Returns(TRUE, held, Responses!Stream(request, said))
      /\ Returns(TRUE, held, Responses!StreamAgain(said))
  BY DEF Responses!Stream, Responses!StreamAgain
<1> QED BY <1>3, <1>4, <1>5

LEMMA AnthropicReturns ==
  ASSUME NEW request, NEW said, NEW held, NEW why
  PROVE  /\ Returns(FALSE, held, Anthropic!Complete(request, said, held))
         /\ Returns(FALSE, held, Anthropic!CompleteAgain(why, said, held))
         /\ Returns(TRUE, held, Anthropic!Stream(request, said))
         /\ Returns(TRUE, held, Anthropic!StreamAgain(said))
<1> USE DEF Returns, Anthropic!Refuse, Anthropic!Retry, Anthropic!Answer, Anthropic!Read,
            Anthropic!FirstRefusal
<1>1. PICK o : o = Anthropic!ExtractOutcome(said.body, held)
  OBVIOUS
<1>2. Extracted(held, o)
  BY <1>1 DEF Anthropic!ExtractOutcome, Extracted, EmptyOutcome, Anthropic!EmptyOutcome,
       NoUsage, Anthropic!NoUsage
<1>3. Returns(FALSE, held, Anthropic!Complete(request, said, held))
  BY <1>1, <1>2 DEF Anthropic!Complete
<1>4. Returns(FALSE, held, Anthropic!CompleteAgain(why, said, held))
  BY <1>1, <1>2 DEF Anthropic!CompleteAgain
<1>5. /\ Returns(TRUE, held, Anthropic!Stream(request, said))
      /\ Returns(TRUE, held, Anthropic!StreamAgain(said))
  BY DEF Anthropic!Stream, Anthropic!StreamAgain
<1> QED BY <1>3, <1>4, <1>5

LEMMA VerdictsReturn ==
  ASSUME NEW r \in Rounds, NEW said, NEW why
  PROVE  /\ Returns(r.streamed, Held(said, r.answer), FirstVerdict(r, said))
         /\ Returns(r.streamed, Held(said, r.answer), SecondVerdict(r, why, said))
<1>1. r.protocol \in {"openai", "responses", "anthropic"} /\ r.streamed \in {TRUE, FALSE}
  BY RoundsAssumption DEF Protocols
<1>2. CASE r.protocol = "openai"
  <2>1. CASE r.streamed = TRUE
    <3>1. FirstVerdict(r, said) = OpenAi!Stream(r.request, said)
          /\ SecondVerdict(r, why, said) = OpenAi!StreamAgain(said)
      BY <1>2, <2>1 DEF FirstVerdict, SecondVerdict
    <3> QED BY <2>1, <3>1, OpenAiReturns
  <2>2. CASE r.streamed = FALSE
    <3>1. FirstVerdict(r, said) = OpenAi!Complete(r.request, said, Held(said, r.answer))
          /\ SecondVerdict(r, why, said) = OpenAi!CompleteAgain(why, said, Held(said, r.answer))
      BY <1>2, <2>2 DEF FirstVerdict, SecondVerdict
    <3> QED BY <2>2, <3>1, OpenAiReturns
  <2> QED BY <1>1, <2>1, <2>2
<1>3. CASE r.protocol = "responses"
  <2>1. CASE r.streamed = TRUE
    <3>1. FirstVerdict(r, said) = Responses!Stream(r.request, said)
          /\ SecondVerdict(r, why, said) = Responses!StreamAgain(said)
      BY <1>3, <2>1 DEF FirstVerdict, SecondVerdict
    <3> QED BY <2>1, <3>1, ResponsesReturns
  <2>2. CASE r.streamed = FALSE
    <3>1. FirstVerdict(r, said) = Responses!Complete(r.request, said, Held(said, r.answer))
          /\ SecondVerdict(r, why, said) = Responses!CompleteAgain(why, said, Held(said, r.answer))
      BY <1>3, <2>2 DEF FirstVerdict, SecondVerdict
    <3> QED BY <2>2, <3>1, ResponsesReturns
  <2> QED BY <1>1, <2>1, <2>2
<1>4. CASE r.protocol = "anthropic"
  <2>1. CASE r.streamed = TRUE
    <3>1. FirstVerdict(r, said) = Anthropic!Stream(r.request, said)
          /\ SecondVerdict(r, why, said) = Anthropic!StreamAgain(said)
      BY <1>4, <2>1 DEF FirstVerdict, SecondVerdict
    <3> QED BY <2>1, <3>1, AnthropicReturns
  <2>2. CASE r.streamed = FALSE
    <3>1. FirstVerdict(r, said) = Anthropic!Complete(r.request, said, Held(said, r.answer))
          /\ SecondVerdict(r, why, said) = Anthropic!CompleteAgain(why, said, Held(said, r.answer))
      BY <1>4, <2>2 DEF FirstVerdict, SecondVerdict
    <3> QED BY <2>2, <3>1, AnthropicReturns
  <2> QED BY <1>1, <2>1, <2>2
<1> QED BY <1>1, <1>2, <1>3, <1>4

\* What is made of a body begins the answer, one that breaks off included.
LEMMA ExtractedComes ==
  ASSUME NEW P, NEW answer, Meant(answer).content \in Seq(P), Meant(answer).reasoning \in Seq(P),
         NEW said, NEW o, Extracted(Held(said, answer), o)
  PROVE  /\ Text(Meant(answer)) \in Seq(P) /\ Text(o) \in Seq(P)
         /\ Comes(Text(o), Text(Meant(answer)))
<1>1. PICK x, y : x = Meant(answer).content /\ y = Meant(answer).reasoning
  OBVIOUS
<1>2. x \in Seq(P) /\ y \in Seq(P) /\ Text(Meant(answer)) = y \o x /\ y \o x \in Seq(P)
  BY <1>1 DEF Text
<1>3. PICK z : z = IF x = <<>> THEN x ELSE <<Head(x)>>
  OBVIOUS
<1>4. Held(said, answer).reasoning = y /\ Held(said, answer).content \in {x, z}
  BY <1>1, <1>3 DEF Held, CutOff, Meant
<1>5. /\ o.reasoning \in {y, <<>>}
      /\ o.content \in {x, z, <<>>}
      /\ o.reasoning = <<>> => o.content = <<>> \/ y = <<>>
  BY <1>4 DEF Extracted, EmptyOutcome
<1>6. ASSUME NEW b \in {x, z, <<>>}
      PROVE  y \o b \in Seq(P) /\ Begins(y \o b, y \o x)
  <2>1. /\ Len(x) \in Nat /\ Len(y) \in Nat
        /\ z \in Seq(P)
        /\ Len(x) = 0 => z \in {x, <<>>}
        /\ Len(x) # 0 => Len(z) = 1 /\ z[1] = x[1]
    BY <1>2, <1>3
  <2>2. CASE b = x
    BY <1>2, <2>2, BeginsMore
  <2>3. CASE b = <<>>
    <3>1. y \o b = y
      BY <1>2, <2>3
    <3> QED BY <1>2, <3>1, BeginsMore
  <2>4. CASE b = z /\ Len(x) # 0
    <3>1. /\ y \o z \in Seq(P) /\ Len(y \o z) = Len(y) + 1 /\ Len(y \o x) = Len(y) + Len(x)
          /\ \A i \in 1 .. Len(y) : (y \o z)[i] = y[i] /\ (y \o x)[i] = y[i]
          /\ (y \o z)[Len(y) + 1] = x[1] /\ (y \o x)[Len(y) + 1] = x[1]
      <4>1. x \in Seq(P) /\ y \in Seq(P) /\ z \in Seq(P) /\ Len(z) = 1 /\ z[1] = x[1]
        BY <1>2, <2>1, <2>4
      <4>2. Len(x) \in Nat /\ Len(x) # 0 /\ Len(y) \in Nat
        BY <2>1, <2>4
      <4>3. /\ y \o z \in Seq(P) /\ Len(y \o z) = Len(y) + 1
            /\ \A i \in 1 .. Len(y) + 1 :
                 (y \o z)[i] = IF i <= Len(y) THEN y[i] ELSE z[i - Len(y)]
        <5>1. /\ y \o z \in Seq(P) /\ Len(y \o z) = Len(y) + Len(z)
              /\ \A i \in 1 .. Len(y) + Len(z) :
                   (y \o z)[i] = IF i <= Len(y) THEN y[i] ELSE z[i - Len(y)]
          BY <4>1, ConcatProperties
        <5>2. Len(z) = 1
          BY <4>1
        <5> QED BY <5>1, <5>2, Zenon
      <4>4. /\ Len(y \o x) = Len(y) + Len(x)
            /\ \A i \in 1 .. Len(y) + Len(x) :
                 (y \o x)[i] = IF i <= Len(y) THEN y[i] ELSE x[i - Len(y)]
        BY <4>1, ConcatProperties
      <4>5. \A i \in 1 .. Len(y) : (y \o z)[i] = y[i] /\ (y \o x)[i] = y[i]
        BY <4>2, <4>3, <4>4
      <4>6. (y \o z)[Len(y) + 1] = x[1] /\ (y \o x)[Len(y) + 1] = x[1]
        <5>1. Len(y) + 1 \in 1 .. Len(y) + 1 /\ Len(y) + 1 \in 1 .. Len(y) + Len(x)
              /\ (Len(y) + 1) - Len(y) = 1 /\ ~(Len(y) + 1 <= Len(y))
          BY <4>2
        <5> QED BY <4>1, <4>3, <4>4, <5>1
      <4> QED BY <4>3, <4>4, <4>5, <4>6
    <3>2. PICK n \in Nat : n = Len(y)
      BY <2>1
    <3>3. PICK p, q : p = y \o z /\ q = y \o x
      OBVIOUS
    <3>4. Len(p) = n + 1 /\ n + 1 <= Len(q)
      BY <2>1, <2>4, <3>1, <3>2, <3>3
    <3>5. ASSUME NEW i \in 1 .. n + 1 PROVE p[i] = q[i]
      <4>1. i \in 1 .. n \/ i = n + 1
        OBVIOUS
      <4> QED BY <3>1, <3>2, <3>3, <4>1
    <3>6. Begins(p, q)
      BY <3>4, <3>5 DEF Begins
    <3> QED BY <2>4, <3>1, <3>3, <3>6
  <2> QED BY <1>6, <2>1, <2>2, <2>3, <2>4
<1>7. Text(o) = o.reasoning \o o.content
  BY DEF Text
<1>8. CASE o.reasoning = y
  BY <1>2, <1>5, <1>6, <1>7, <1>8 DEF Comes
<1>9. CASE o.reasoning = <<>> /\ o.content = <<>>
  <2>1. Text(o) = <<>> /\ <<>> \in Seq(P)
    BY <1>7, <1>9
  <2> QED BY <1>2, <2>1, BeginsMore DEF Comes
<1> QED BY <1>5, <1>8, <1>9

-----------------------------------------------------------------------------
(* The round.                                                              *)

\* Nothing was read before a stream is; what waits to be shown leads from what was
\* shown to what the decoder keeps; and the decoder is where the whole blocks of the
\* bytes received put it, wherever their chunks ended.
Unheard == shown = <<>> /\ outbox = <<>> /\ acc = NewDecoder(round) /\ received = 0

Underway(P) ==
  /\ round.streamed /\ script \in StreamsOf(round)
  /\ received \in 0 .. BlockBytes * Len(script)
  /\ Flows(P, Promised, outbox, shown, Text(acc))
  /\ ~finished => acc = Made(round, script, WholeBlocks(received))

ChannelInv(P) ==
  /\ round \in Rounds
  /\ pc \in {"start", "asked", "reading", "done"}
  /\ pc # "done" => result = Open
  /\ pc \in {"start", "asked"} => Unheard
  /\ pc = "reading" => Underway(P)

Moves == Channel!Next \/ UNCHANGED Channel!vars

LEMMA PromisedType ==
  ASSUME NEW P, ServicesContinue(P, Rounds), round \in Rounds
  PROVE  Promised \in Seq(P)
<1>1. PICK x, y : x = Meant(round.answer).content /\ y = Meant(round.answer).reasoning
  OBVIOUS
<1>2. x \in Seq(P) /\ y \in Seq(P) /\ Promised = y \o x
  BY <1>1 DEF ServicesContinue, Promised, Text
<1> QED BY <1>2

\* What follows the reading of a chunk or of the end.
LEMMA AfterStep ==
  ASSUME NEW P, ServicesContinue(P, Rounds), ChannelInv(P), pc = "reading",
         NEW s, AfterReading(s), Flows(P, Promised, s.deltas, shown, Text(s.acc)),
         received' \in 0 .. BlockBytes * Len(script),
         ~s.finished => s.acc = Made(round, script, WholeBlocks(received')),
         UNCHANGED <<round, httpVars, shown>>
  PROVE  ChannelInv(P)' /\ Moves
<1>1. /\ round' = round /\ shown' = shown /\ script' = script /\ result = Open
      /\ acc' = s.acc /\ finished' = s.finished /\ outbox' = s.deltas
      /\ round \in Rounds /\ round.streamed /\ script \in StreamsOf(round)
      /\ Promised' = Promised
  BY DEF ChannelInv, Underway, AfterReading, httpVars, Promised
<1>2. Underway(P)'
  <2>1. Text(acc)' = Text(s.acc)
    BY <1>1 DEF Text
  <2> QED BY <1>1, <2>1 DEF Underway, Made, ReadWhole
<1>3. \/ UNCHANGED <<pc, result>>
      \/ Fail(s.failure)
      \/ s.deltas = <<>> /\ Return("answer", Outcome(s.acc), NoFailure)
  BY DEF AfterReading
<1>4. CASE UNCHANGED <<pc, result>>
  BY <1>1, <1>2, <1>4, QuietStep DEF ChannelInv, Moves
<1>5. CASE Fail(s.failure)
  <2>1. pc' = "done" /\ result' = [kind |-> "failure", outcome |-> EmptyOutcome, failure |-> s.failure]
    BY <1>5 DEF Fail, Return
  <2>2. Channel!Next
    BY <1>1, <2>1, FailStep
  <2> QED BY <1>1, <2>1, <2>2 DEF ChannelInv, Moves
<1>6. CASE s.deltas = <<>> /\ Return("answer", Outcome(s.acc), NoFailure)
  <2>1. /\ pc' = "done"
        /\ result' = [kind |-> "answer", outcome |-> Outcome(s.acc), failure |-> NoFailure]
    BY <1>6 DEF Return
  <2>2. Text(Outcome(s.acc)) = Text(s.acc)
    BY OutcomeText
  <2>3. Text(s.acc) \in Seq(P) /\ Comes(Text(s.acc), Promised) /\ shown = Text(s.acc)
    BY <1>6, FlowsEnd
  <2>4. Channel!Next
    BY <1>1, <2>1, <2>2, <2>3, PromisedType, CompleteStep
  <2> QED BY <1>1, <2>1, <2>4 DEF ChannelInv, Moves
<1> QED BY <1>3, <1>4, <1>5, <1>6

\* The blocks that more bytes complete.
LEMMA BlocksGrow ==
  ASSUME NEW x \in Nat, NEW n \in Nat, NEW z \in Nat, x + n <= BlockBytes * z
  PROVE  \E from \in Nat, m \in Nat : /\ from = WholeBlocks(x) /\ from + m = WholeBlocks(x + n)
                                      /\ from + m <= z
<1> DEFINE y == x + n
<1>1. x <= y /\ y <= 4 * z /\ y \in Nat
  BY DEF BlockBytes
<1> HIDE DEF y
<1>2. PICK u \in Nat, v \in Nat : u = x \div 4 /\ v = y \div 4
  BY <1>1
<1>3. 4 * u <= x /\ x < 4 * u + 4
  BY <1>2
<1>4. 4 * v <= y /\ y < 4 * v + 4
  BY <1>1, <1>2
<1>5. u <= v /\ v <= z
  BY <1>1, <1>3, <1>4
<1>6. v - u \in Nat /\ u + (v - u) = v
  BY <1>5
<1>7. u = WholeBlocks(x) /\ v = WholeBlocks(y)
  BY <1>2 DEF WholeBlocks, BlockBytes
<1> QED BY <1>5, <1>6, <1>7 DEF y

LEMMA SubSeqBetween ==
  ASSUME NEW E, NEW s \in Seq(E), NEW from \in Nat, NEW m \in Nat, from + m <= Len(s)
  PROVE  /\ Len(SubSeq(s, from + 1, from + m)) = m
         /\ \A i \in 1 .. m : SubSeq(s, from + 1, from + m)[i] = s[from + i]
<1>1. Len(SubSeq(s, from + 1, from + m)) = m
  OBVIOUS
<1>2. \A i \in 1 .. m : SubSeq(s, from + 1, from + m)[i] = s[from + i]
  OBVIOUS
<1> QED BY <1>1, <1>2

LEMMA NewBlocksBetween ==
  ASSUME NEW E, NEW s \in Seq(E), NEW x, NEW y, NEW from \in Nat, NEW m \in Nat,
         from = WholeBlocks(x), from + m = WholeBlocks(y), from + m <= Len(s),
         NEW events, events = NewBlocks(s, x, y)
  PROVE  Between(events, s, from, m)
<1>1. events = SubSeq(s, from + 1, from + m)
  BY DEF NewBlocks
<1>2. Len(events) = m /\ \A i \in 1 .. m : events[i] = s[from + i]
  <2>1. /\ Len(SubSeq(s, from + 1, from + m)) = m
        /\ \A i \in 1 .. m : SubSeq(s, from + 1, from + m)[i] = s[from + i]
    BY SubSeqBetween, Zenon
  <2> QED BY <1>1, <2>1, Zenon
<1> QED BY <1>2 DEF Between

LEMMA ReadChunkStep ==
  ASSUME NEW P, ServicesContinue(P, Rounds), ChannelInv(P), NEW n \in 1 .. MaxChunk, ReadChunk(n)
  PROVE  ChannelInv(P)' /\ Moves
<1>1. /\ pc = "reading" /\ outbox = <<>> /\ ~finished
      /\ round \in Rounds /\ round.streamed /\ script \in StreamsOf(round)
      /\ received \in 0 .. BlockBytes * Len(script)
      /\ Flows(P, Promised, outbox, shown, Text(acc))
      /\ acc = Made(round, script, WholeBlocks(received))
      /\ received + n <= BlockBytes * Len(script) /\ received' = received + n
      /\ AfterReading(ReadEvents(NewBlocks(script, received, received + n), finished))
      /\ UNCHANGED <<round, httpVars, shown>>
  BY DEF ReadChunk, Undisturbed, Polling, ChannelInv, Underway
<1>2. script \in Seq(Events(P)) /\ Len(script) \in Nat
  BY <1>1, MadeBegins
<1>3. n \in Nat /\ received \in Nat /\ received' \in 0 .. BlockBytes * Len(script)
  BY <1>1, <1>2, RoundsAssumption DEF BlockBytes
<1>4. PICK from \in Nat, m \in Nat : /\ from = WholeBlocks(received)
                                     /\ from + m = WholeBlocks(received + n)
                                     /\ from + m <= Len(script)
  <2>1. received \in Nat /\ n \in Nat /\ Len(script) \in Nat /\ received + n <= BlockBytes * Len(script)
    BY <1>1, <1>2, <1>3
  <2> QED BY <2>1, BlocksGrow
<1>5. PICK events : events = NewBlocks(script, received, received + n)
  OBVIOUS
<1>6. Between(events, script, from, m)
  BY <1>2, <1>4, <1>5, NewBlocksBetween
<1>7. PICK start : start = [acc |-> acc, deltas |-> <<>>, finished |-> finished, failure |-> failure]
  OBVIOUS
<1>8. PICK final : final = Reading(round, start, events)[m]
  OBVIOUS
<1>9. /\ final.acc = Made(round, script, from + m)
      /\ Flows(P, Promised, final.deltas, Text(Made(round, script, from)), Text(final.acc))
  <2>1. start.acc = Made(round, script, from) /\ start.deltas = <<>>
    BY <1>1, <1>4, <1>7
  <2>2. round \in Rounds /\ round.streamed /\ script \in StreamsOf(round)
    BY <1>1
  <2>3. from \in Nat /\ m \in Nat
    BY <1>4
  <2>4. Promised = Text(Meant(round.answer))
    BY DEF Promised
  <2> QED BY <1>6, <1>8, <2>1, <2>2, <2>3, <2>4, ChunkFlows
<1>10. AfterReading(final)
  <2>1. ReadEvents(events, finished) = final
    BY <1>6, <1>7, <1>8 DEF ReadEvents, Between
  <2> QED BY <1>1, <1>5, <2>1
<1>11. Flows(P, Promised, final.deltas, shown, Text(final.acc))
  <2>1. shown = Text(acc)
    BY <1>1, FlowsEnd
  <2> QED BY <1>1, <1>4, <1>9, <2>1
<1>12. ~final.finished => final.acc = Made(round, script, WholeBlocks(received'))
  BY <1>1, <1>4, <1>9
<1> QED BY <1>1, <1>3, <1>10, <1>11, <1>12, AfterStep

LEMMA ReadEndStep ==
  ASSUME NEW P, ServicesContinue(P, Rounds), ChannelInv(P), ReadEnd
  PROVE  ChannelInv(P)' /\ Moves
<1>1. /\ pc = "reading" /\ outbox = <<>> /\ ~finished
      /\ round \in Rounds /\ round.streamed /\ script \in StreamsOf(round)
      /\ received \in 0 .. BlockBytes * Len(script) /\ received' = received
      /\ Flows(P, Promised, outbox, shown, Text(acc))
      /\ acc = Made(round, script, WholeBlocks(received))
      /\ AfterReading(ReadEvents(Remainder(script, received), TRUE))
      /\ UNCHANGED <<round, httpVars, shown>>
  BY DEF ReadEnd, Undisturbed, Polling, ChannelInv, Underway
<1>2. PICK events : events = Remainder(script, received)
  OBVIOUS
<1>3. PICK k \in Nat : k = Len(events)
  BY <1>2 DEF Remainder
<1>4. PICK start : start = [acc |-> acc, deltas |-> <<>>, finished |-> TRUE, failure |-> failure]
  OBVIOUS
<1>5. PICK final : final = Reading(round, start, events)[k]
  OBVIOUS
<1>6. Flows(P, Promised, final.deltas, Text(start.acc), Text(final.acc)) /\ final.finished
  <2>1. start.acc = Made(round, script, WholeBlocks(received)) /\ start.deltas = <<>> /\ start.finished
    BY <1>1, <1>4
  <2> QED BY <1>1, <1>2, <1>3, <1>5, <2>1, RemainderFlows DEF Promised
<1>7. AfterReading(final)
  <2>1. ReadEvents(events, TRUE) = final
    BY <1>3, <1>4, <1>5 DEF ReadEvents
  <2> QED BY <1>1, <1>2, <2>1
<1>8. Flows(P, Promised, final.deltas, shown, Text(final.acc))
  <2>1. shown = Text(acc) /\ start.acc = acc
    BY <1>1, <1>4, FlowsEnd
  <2> QED BY <1>6, <2>1
<1> QED BY <1>1, <1>6, <1>7, <1>8, AfterStep

\* A step that ends the round with a failure.
LEMMA FailingStep ==
  ASSUME NEW P, ChannelInv(P), pc # "done", NEW why, Fail(why), UNCHANGED <<round, shown>>
  PROVE  ChannelInv(P)' /\ Moves
<1>1. pc' = "done" /\ result' = [kind |-> "failure", outcome |-> EmptyOutcome, failure |-> why]
  BY DEF Fail, Return
<1>2. result = Open /\ round' \in Rounds
  BY DEF ChannelInv
<1>3. Channel!Next
  BY <1>1, <1>2, FailStep
<1> QED BY <1>1, <1>2, <1>3 DEF ChannelInv, Moves

\* The call after the last deltas, and the end of a round that is stopped.
LEMMA NextCallStep ==
  ASSUME NEW P, ServicesContinue(P, Rounds), ChannelInv(P), NextCall
  PROVE  ChannelInv(P)' /\ Moves
<1>1. /\ pc = "reading" /\ outbox = <<>> /\ UNCHANGED <<round, shown>>
      /\ Fail(failure) \/ Return("answer", Outcome(acc), NoFailure)
  BY DEF NextCall, Undisturbed, Polling
<1>2. CASE Fail(failure)
  BY <1>1, <1>2, FailingStep
<1>3. CASE Return("answer", Outcome(acc), NoFailure)
  <2>1. /\ pc' = "done"
        /\ result' = [kind |-> "answer", outcome |-> Outcome(acc), failure |-> NoFailure]
    BY <1>3 DEF Return
  <2>2. result = Open /\ round' \in Rounds /\ Flows(P, Promised, outbox, shown, Text(acc))
    BY <1>1 DEF ChannelInv, Underway
  <2>3. Text(acc) \in Seq(P) /\ Comes(Text(acc), Promised) /\ shown = Text(acc)
    BY <1>1, <2>2, FlowsEnd
  <2>4. Text(Outcome(acc)) = Text(acc)
    BY OutcomeText
  <2>5. Promised \in Seq(P)
    BY PromisedType DEF ChannelInv
  <2>6. Channel!Next
    BY <1>1, <2>1, <2>2, <2>3, <2>4, <2>5, CompleteStep
  <2> QED BY <2>1, <2>2, <2>6 DEF ChannelInv, Moves
<1> QED BY <1>1, <1>2, <1>3

LEMMA InterruptedStep ==
  ASSUME NEW P, ServicesContinue(P, Rounds), ChannelInv(P), pc = "reading",
         Return("interrupted", Outcome(acc), NoFailure), UNCHANGED <<round, shown>>
  PROVE  ChannelInv(P)' /\ Moves
<1>1. /\ pc' = "done"
      /\ result' = [kind |-> "interrupted", outcome |-> Outcome(acc), failure |-> NoFailure]
  BY DEF Return
<1>2. /\ result = Open /\ round' \in Rounds /\ round.streamed
      /\ Flows(P, Promised, outbox, shown, Text(acc))
  BY DEF ChannelInv, Underway
<1>3. /\ shown \in Seq(P) /\ Text(acc) \in Seq(P) /\ Comes(Text(acc), Promised)
      /\ Begins(shown, Text(acc))
  BY <1>2, FlowsEnd
<1>4. Text(Outcome(acc)) = Text(acc)
  BY OutcomeText
<1>5. Promised \in Seq(P)
  BY PromisedType DEF ChannelInv
<1>6. Channel!Next
  BY <1>1, <1>2, <1>3, <1>4, <1>5, StopStep
<1> QED BY <1>1, <1>2, <1>6 DEF ChannelInv, Moves

LEMMA SendStep ==
  ASSUME NEW P, ServicesContinue(P, Rounds), ChannelInv(P), Send
  PROVE  ChannelInv(P)' /\ Moves
<1>1. /\ pc = "reading" /\ outbox # <<>> /\ outbox' = Tail(outbox)
      /\ UNCHANGED <<round, script, received, acc, finished>>
      /\ \/ Return("interrupted", Outcome(acc), NoFailure) /\ UNCHANGED shown
         \/ shown' = shown \o Head(outbox).parts /\ UNCHANGED <<pc, result>>
  BY DEF Send, httpVars, readerVars
<1>2. CASE Return("interrupted", Outcome(acc), NoFailure) /\ UNCHANGED shown
  BY <1>1, <1>2, InterruptedStep
<1>3. CASE shown' = shown \o Head(outbox).parts /\ UNCHANGED <<pc, result>>
  <2>1. /\ round \in Rounds /\ result = Open /\ Underway(P)
        /\ Flows(P, Promised, outbox, shown, Text(acc))
    BY <1>1 DEF ChannelInv, Underway
  <2>2. /\ Flows(P, Promised, outbox', shown', Text(acc))
        /\ shown \in Seq(P) /\ shown' \in Seq(P) /\ Comes(shown', Promised)
        /\ Begins(shown, shown') /\ shown # shown'
    BY <1>1, <1>3, <2>1, FlowsOn
  <2>3. Promised' = Promised /\ Text(acc)' = Text(acc)
    BY <1>1 DEF Promised, Text
  <2>4. Underway(P)'
    BY <1>1, <2>1, <2>2, <2>3 DEF Underway, Made, ReadWhole
  <2>5. Promised \in Seq(P) /\ round.streamed
    BY <2>1, PromisedType DEF Underway
  <2>6. Channel!Next
    BY <1>1, <1>3, <2>1, <2>2, <2>5, ShowStep
  <2> QED BY <1>1, <1>3, <2>1, <2>4, <2>6 DEF ChannelInv, Moves
<1> QED BY <1>1, <1>2, <1>3

LEMMA BeginStep ==
  ASSUME NEW P, ChannelInv(P), Begin
  PROVE  ChannelInv(P)' /\ Moves
<1>1. /\ pc = "start" /\ UNCHANGED <<round, shown, outbox, acc, received>>
      /\ \/ Fail(Payload(round).failure)
         \/ pc' = "asked" /\ UNCHANGED result
  BY DEF Begin, readerVars
<1>2. CASE Fail(Payload(round).failure)
  BY <1>1, <1>2, FailingStep
<1>3. CASE pc' = "asked" /\ UNCHANGED result
  <2>1. Unheard'
    BY <1>1 DEF ChannelInv, Unheard, NewDecoder
  <2> QED BY <1>1, <1>3, <2>1, QuietStep DEF ChannelInv, Moves
<1> QED BY <1>1, <1>2, <1>3

LEMMA HearStep ==
  ASSUME NEW P, ServicesContinue(P, Rounds), ChannelInv(P), RefusalInv, Hear
  PROVE  ChannelInv(P)' /\ Moves
<1> DEFINE verdict == IF cause = "none" THEN FirstVerdict(round, reply')
                      ELSE SecondVerdict(round, cause, reply')
<1>1. round \in Rounds /\ round.streamed \in BOOLEAN /\ result = Open /\ Unheard
  BY RoundsAssumption DEF ChannelInv, Hear
<1>2. Returns(round.streamed, Held(reply', round.answer), verdict)
  BY <1>1, VerdictsReturn
<1>3. /\ Follow(verdict) /\ pc = "asked"
      /\ UNCHANGED <<round, shown, outbox, received, acc, finished>>
  BY DEF Hear, readerVars
<1>4. verdict.kind \in {"answer", "failure", "retry", "read"}
  BY FirstVerdicts, SecondVerdicts DEF Verdict, Formed, RefusalInv
<1> HIDE DEF verdict
<1>5. CASE verdict.kind = "answer"
  <2>1. /\ pc' = "done"
        /\ result' = [kind |-> "answer", outcome |-> verdict.outcome, failure |-> NoFailure]
    BY <1>3, <1>5 DEF Follow, Return
  <2>2. ~round.streamed /\ Extracted(Held(reply', round.answer), verdict.outcome)
    BY <1>1, <1>2, <1>5 DEF Returns
  <2>3. /\ Promised \in Seq(P) /\ Text(verdict.outcome) \in Seq(P)
        /\ Comes(Text(verdict.outcome), Promised)
    BY <1>1, <2>2, ExtractedComes DEF ServicesContinue, Promised
  <2>4. Channel!Next
    BY <1>1, <1>3, <2>1, <2>2, <2>3, CompleteStep
  <2> QED BY <1>1, <1>3, <2>1, <2>4 DEF ChannelInv, Moves
<1>6. CASE verdict.kind = "failure"
  <2>1. Fail(verdict.failure)
    BY <1>3, <1>6 DEF Follow
  <2> QED BY <1>3, <2>1, FailingStep
<1>7. CASE verdict.kind = "retry"
  <2>1. UNCHANGED <<pc, result>>
    BY <1>3, <1>7 DEF Follow
  <2>2. Unheard'
    BY <1>1, <1>3 DEF Unheard, NewDecoder
  <2> QED BY <1>1, <1>3, <2>1, <2>2, QuietStep DEF ChannelInv, Moves
<1>8. CASE verdict.kind = "read"
  <2>1. pc' = "reading" /\ script' \in StreamsOf(round) /\ UNCHANGED result
    BY <1>3, <1>8 DEF Follow
  <2>2. round.streamed
    BY <1>1, <1>2, <1>8 DEF Returns
  <2>3. PICK new : new = script' /\ new \in StreamsOf(round)
    BY <2>1
  <2>4. new \in Seq(Events(P)) /\ Len(new) \in Nat /\ Made(round, new, 0) = NewDecoder(round)
    BY <1>1, <2>2, <2>3, MadeBegins
  <2>5. Flows(P, Promised, <<>>, <<>>, Text(NewDecoder(round)))
    <3>1. Promised \in Seq(P) /\ <<>> \in Seq(P)
      BY <1>1, PromisedType
    <3>2. Comes(<<>>, Promised)
      BY <3>1, BeginsMore DEF Comes
    <3>3. Flows(P, Promised, <<>>, <<>>, <<>>)
      BY <3>1, <3>2, FlowsNone
    <3>4. Text(NewDecoder(round)) = <<>>
      BY NewDecoderType
    <3> QED BY <3>3, <3>4, Zenon
  <2>6. WholeBlocks(0) = 0 /\ 0 \in 0 .. BlockBytes * Len(new)
    BY <2>4 DEF WholeBlocks, BlockBytes
  <2>7. /\ received' = 0 /\ acc' = NewDecoder(round) /\ outbox' = <<>> /\ shown' = <<>>
        /\ round' = round /\ Promised' = Promised /\ Text(acc)' = Text(NewDecoder(round))
    BY <1>1, <1>3 DEF Unheard, Promised, Text
  <2>8. Underway(P)'
    BY <2>2, <2>3, <2>4, <2>5, <2>6, <2>7 DEF Underway, Made, ReadWhole
  <2> QED BY <1>1, <1>3, <2>1, <2>8, QuietStep DEF ChannelInv, Moves
<1> QED BY <1>4, <1>5, <1>6, <1>7, <1>8

LEMMA ChannelStart ==
  ASSUME NEW P, ServicesContinue(P, Rounds), Init
  PROVE  ChannelInv(P) /\ Channel!Init
<1>1. ChannelInv(P)
  BY DEF Init, ChannelInv, Unheard
<1>2. result.kind = "none" /\ shown = <<>>
  BY DEF Init, Open
<1> QED BY <1>1, <1>2 DEF Channel!Init

LEMMA ChannelStep ==
  ASSUME NEW P, ServicesContinue(P, Rounds), ChannelInv(P), RefusalInv, [Next]_vars
  PROVE  ChannelInv(P)' /\ Moves
<1>1. CASE Begin
  BY <1>1, BeginStep
<1>2. CASE Hear
  BY <1>2, HearStep
<1>3. CASE \E n \in 1 .. MaxChunk : ReadChunk(n)
  BY <1>3, ReadChunkStep
<1>4. CASE ReadEnd
  BY <1>4, ReadEndStep
<1>5. CASE ReadFault
  <2>1. pc = "reading" /\ Fail(Failure("Transport")) /\ UNCHANGED <<round, shown>>
    BY <1>5 DEF ReadFault, Undisturbed, Polling
  <2> QED BY <2>1, FailingStep
<1>6. CASE NextCall
  BY <1>6, NextCallStep
<1>7. CASE Interrupt
  <2>1. /\ pc = "reading" /\ Return("interrupted", Outcome(acc), NoFailure)
        /\ UNCHANGED <<round, shown>>
    BY <1>7 DEF Interrupt, Polling
  <2> QED BY <2>1, InterruptedStep
<1>8. CASE Send
  BY <1>8, SendStep
<1>9. CASE Overrun
  <2>1. pc # "done" /\ Fail(Failure("Timeout")) /\ UNCHANGED <<round, shown>>
    BY <1>9 DEF Overrun
  <2> QED BY <2>1, FailingStep
<1>10. CASE RequestStop \/ Leave \/ UNCHANGED vars
  <2>1. UNCHANGED <<round, pc, script, received, acc, finished, outbox, shown, result>>
    BY <1>10 DEF RequestStop, Leave, vars, httpVars, readerVars
  <2>2. Promised' = Promised /\ Text(acc)' = Text(acc)
    BY <2>1 DEF Promised, Text
  <2>3. Underway(P) => Underway(P)'
    BY <2>1, <2>2 DEF Underway, Made, ReadWhole
  <2>4. Unheard => Unheard'
    BY <2>1 DEF Unheard
  <2> QED BY <2>1, <2>3, <2>4, QuietStep DEF ChannelInv, Moves
<1> QED BY <1>1, <1>2, <1>3, <1>4, <1>5, <1>6, <1>7, <1>8, <1>9, <1>10 DEF Next

\* Where the services continue what they began, every round of every adapter is an
\* answer channel, wherever the chunks end, when the stream is cut short, when the
\* service fails in the middle of it and when a stop, a departure or the deadline
\* comes between two reads: pieces are shown once and in order, the round is closed
\* once, and a completed round keeps what was shown.
THEOREM RoundIsChannel ==
  ASSUME NEW CONSTANT P, ServicesContinue(P, Rounds)
  PROVE  Spec => ChannelKept
<1>1. Init => RefusalInv /\ ChannelInv(P) /\ Channel!Init
  BY RefusalInit, ChannelStart
<1>2. RefusalInv /\ ChannelInv(P) /\ [Next]_vars
        => RefusalInv' /\ ChannelInv(P)' /\ [Channel!Next]_(Channel!vars)
  BY RefusalStep, ChannelStep DEF Moves
<1> QED BY <1>1, <1>2, PTL DEF Spec, ChannelKept, Channel!Spec

-----------------------------------------------------------------------------
(* Answers are whole.                                                      *)

\* Two readings that have come to the same, whatever they showed on the way.
Alike(x, y) == x.acc = y.acc /\ x.failure = y.failure

LEMMA AlikeStep ==
  ASSUME NEW r, NEW x, NEW y, NEW e, Alike(x, y)
  PROVE  /\ Alike(ConsumeEvent(r, x, e), ConsumeEvent(r, y, e))
         /\ x.finished = y.finished =>
              ConsumeEvent(r, x, e).finished = ConsumeEvent(r, y, e).finished
<1>1. PICK c : c = Consume(r, x.acc, e)
  OBVIOUS
<1>2. c = Consume(r, y.acc, e) /\ x.failure = y.failure
  BY <1>1 DEF Alike
<1>3. /\ ConsumeEvent(r, x, e).acc = c.acc /\ ConsumeEvent(r, y, e).acc = c.acc
      /\ ConsumeEvent(r, x, e).failure = IF c.signal = "error" THEN Failure("Stream") ELSE x.failure
      /\ ConsumeEvent(r, y, e).failure = IF c.signal = "error" THEN Failure("Stream") ELSE y.failure
  BY <1>1, <1>2 DEF ConsumeEvent
<1>4. /\ ConsumeEvent(r, x, e).finished = (x.finished \/ c.signal # "data")
      /\ ConsumeEvent(r, y, e).finished = (y.finished \/ c.signal # "data")
  BY <1>1, <1>2, Zenon DEF ConsumeEvent
<1>5. Alike(ConsumeEvent(r, x, e), ConsumeEvent(r, y, e))
  BY <1>2, <1>3 DEF Alike
<1>6. x.finished = y.finished => ConsumeEvent(r, x, e).finished = ConsumeEvent(r, y, e).finished
  BY <1>4, Zenon
<1> QED BY <1>5, <1>6

\* A failure stays, and an error event makes one.
LEMMA FailureStays ==
  ASSUME NEW r, NEW x, NEW e, ConsumeEvent(r, x, e).failure = NoFailure
  PROVE  x.failure = NoFailure /\ Consume(r, x.acc, e).signal # "error"
<1>1. ConsumeEvent(r, x, e).failure =
        IF Consume(r, x.acc, e).signal = "error" THEN Failure("Stream") ELSE x.failure
  BY DEF ConsumeEvent
<1>2. Failure("Stream") # NoFailure
  BY DEF Failure, NoFailure
<1> QED BY <1>1, <1>2

LEMMA ErrorsSignal ==
  ASSUME NEW r \in Rounds, NEW a, NEW e \in ErrorEvents(r.protocol)
  PROVE  Consume(r, a, e).signal = "error"
<1>1. r.protocol \in {"openai", "responses", "anthropic"}
  BY RoundsAssumption DEF Protocols
<1>2. CASE r.protocol = "openai"
  <2>1. e.type = "error"
    BY <1>2 DEF ErrorEvents, Event
  <2> QED BY <1>2, <2>1 DEF Consume, OpenAi!Consume, OpenAi!Failed
<1>3. CASE r.protocol = "responses"
  <2>1. \/ e \in {Event("response.failed"), Event("response.incomplete")}
        \/ e = Completed("incomplete")
    BY <1>3 DEF ErrorEvents
  <2>2. /\ \A t : Event(t).type = t /\ {"type", "kind", "usage"} \subseteq DOMAIN Event(t)
        /\ Completed("incomplete").type = "response.completed"
        /\ Completed("incomplete").kind = "incomplete"
    BY DEF Event, Completed, Reporting
  <2>3. \/ e.type \in {"response.failed", "response.incomplete"}
        \/ e.type = "response.completed" /\ e.kind = "incomplete"
    BY <2>1, <2>2
  <2> QED BY <1>3, <2>3 DEF Consume, Responses!Consume, Responses!Failed
<1>4. CASE r.protocol = "anthropic"
  <2>1. e.type = "error"
    BY <1>4 DEF ErrorEvents, Event
  <2> QED BY <1>4, <2>1 DEF Consume, Anthropic!Consume, Anthropic!Failed
<1> QED BY <1>1, <1>2, <1>3, <1>4

LEMMA WholeSteps ==
  ASSUME NEW r \in Rounds, r.streamed, NEW s \in StreamsOf(r)
  PROVE  /\ s \in Seq(ToSet(s)) /\ Len(s) \in Nat
         /\ ReadWhole(r, s)[0].finished = FALSE /\ ReadWhole(r, s)[0].failure = NoFailure
         /\ ReadWhole(r, s)[0].acc = NewDecoder(r)
         /\ \A k \in 0 .. Len(s) : k < Len(s) =>
              ReadWhole(r, s)[k + 1] = ConsumeEvent(r, ReadWhole(r, s)[k], s[k + 1])
<1>1. s \in Seq(ToSet(s))
  BY RoundsAssumption
<1>2. PICK n \in Nat : n = Len(s)
  BY <1>1
<1>3. PICK start : start = [acc |-> NewDecoder(r), deltas |-> <<>>, finished |-> FALSE, failure |-> NoFailure]
  OBVIOUS
<1>4. PICK read : read = ReadWhole(r, s) /\ read = Reading(r, start, s)
  BY <1>3 DEF ReadWhole
<1>5. read[0] = start /\ \A k \in 0 .. n : k < n => read[k + 1] = ConsumeEvent(r, read[k], s[k + 1])
  BY <1>2, <1>4, ReadingSteps
<1>6. start.finished = FALSE /\ start.failure = NoFailure /\ start.acc = NewDecoder(r)
  BY <1>3
<1>7. read[0].finished = FALSE /\ read[0].failure = NoFailure /\ read[0].acc = NewDecoder(r)
  BY <1>5, <1>6
<1> QED BY <1>1, <1>2, <1>4, <1>5, <1>7

\* A failure ends a reading.
EndedByFailure(x) == x.finished \in BOOLEAN /\ (x.finished = FALSE => x.failure = NoFailure)

LEMMA StillOpen ==
  ASSUME NEW r, NEW x, NEW e, EndedByFailure(x)
  PROVE  /\ EndedByFailure(ConsumeEvent(r, x, e))
         /\ x.finished = TRUE => ConsumeEvent(r, x, e).finished = TRUE
<1>1. PICK c, y : c = Consume(r, x.acc, e) /\ y = ConsumeEvent(r, x, e)
  OBVIOUS
<1>2. y.failure = IF c.signal = "error" THEN Failure("Stream") ELSE x.failure
  BY <1>1 DEF ConsumeEvent
<1>3. y.finished = (x.finished \/ c.signal # "data")
  BY <1>1, Zenon DEF ConsumeEvent
<1>4. y.finished \in BOOLEAN /\ (x.finished = TRUE => y.finished = TRUE)
  BY <1>3, Zenon
<1>5. y.finished = FALSE => x.finished = FALSE /\ c.signal = "data"
  BY <1>3, Zenon DEF EndedByFailure
<1>6. y.finished = FALSE => y.failure = NoFailure
  BY <1>2, <1>5 DEF EndedByFailure
<1>7. EndedByFailure(y)
  BY <1>4, <1>6, Zenon DEF EndedByFailure
<1> QED BY <1>1, <1>4, <1>7

LEMMA WholeOpen ==
  ASSUME NEW r \in Rounds, r.streamed, NEW s \in StreamsOf(r),
         NEW n \in 0 .. Len(s)
  PROVE  EndedByFailure(ReadWhole(r, s)[n])
<1>1. PICK read, l : read = ReadWhole(r, s) /\ l = Len(s)
  OBVIOUS
<1>2. /\ l \in Nat /\ read[0].finished = FALSE /\ read[0].failure = NoFailure
      /\ \A k \in 0 .. l : k < l => read[k + 1] = ConsumeEvent(r, read[k], s[k + 1])
  BY <1>1, WholeSteps
<1> DEFINE S == {k \in 0 .. l : EndedByFailure(read[k])}
<1>3. 0 \in S
  <2>1. 0 \in 0 .. l
    BY <1>2
  <2>2. read[0].finished = FALSE /\ read[0].failure = NoFailure
    BY <1>2
  <2>3. EndedByFailure(read[0])
    BY <2>2, Zenon DEF EndedByFailure
  <2> QED BY <2>1, <2>3
<1>4. ASSUME NEW k \in 0 .. l, k \in S, k < l PROVE k + 1 \in S
  <2>1. read[k + 1] = ConsumeEvent(r, read[k], s[k + 1]) /\ k + 1 \in 0 .. l
    BY <1>2, <1>4
  <2> QED BY <1>4, <2>1, StillOpen
<1>5. n \in S
  <2> HIDE DEF S
  <2> QED BY <1>1, <1>2, <1>3, <1>4, Induct
<1> QED BY <1>1, <1>5

\* Nobody who has read an error event has no failure.
LEMMA NoErrorRead ==
  ASSUME NEW r \in Rounds, r.streamed, NEW s \in StreamsOf(r),
         NEW n \in 0 .. Len(s), ReadWhole(r, s)[n].failure = NoFailure
  PROVE  \A i \in 1 .. n : s[i] \notin ErrorEvents(r.protocol)
<1>1. PICK read, l : read = ReadWhole(r, s) /\ l = Len(s)
  OBVIOUS
<1>2. l \in Nat /\ \A k \in 0 .. l : k < l => read[k + 1] = ConsumeEvent(r, read[k], s[k + 1])
  BY <1>1, WholeSteps
<1> DEFINE S == {k \in 0 .. n : read[k].failure = NoFailure =>
                                 \A i \in 1 .. k : s[i] \notin ErrorEvents(r.protocol)}
<1>4. 0 \in S
  OBVIOUS
<1>5. ASSUME NEW k \in 0 .. n, k \in S, k < n PROVE k + 1 \in S
  <2>1. k \in 0 .. l /\ k < l /\ k + 1 \in 1 .. l /\ k + 1 \in 0 .. n
    BY <1>1, <1>2, <1>5
  <2>2. SUFFICES ASSUME read[k + 1].failure = NoFailure, NEW i \in 1 .. k + 1
                 PROVE  s[i] \notin ErrorEvents(r.protocol)
    BY <2>1
  <2>3. read[k + 1] = ConsumeEvent(r, read[k], s[k + 1])
    BY <1>2, <2>1
  <2>4. read[k].failure = NoFailure /\ Consume(r, read[k].acc, s[k + 1]).signal # "error"
    BY <2>2, <2>3, FailureStays
  <2>5. CASE i \in 1 .. k
    BY <1>5, <2>4, <2>5
  <2>6. CASE i = k + 1
    BY <2>1, <2>4, <2>6, ErrorsSignal
  <2>7. i \in 1 .. k \/ i = k + 1
    OBVIOUS
  <2> QED BY <2>5, <2>6, <2>7
<1>6. n \in S
  <2>1. n \in Nat /\ n \in 0 .. n
    BY <1>1, <1>2
  <2> HIDE DEF S
  <2> QED BY <1>4, <1>5, <2>1, Induct
<1> QED BY <1>1, <1>6

\* ReadBlocks, of any number of bytes.
Blocks(bytes, ended) == WholeBlocks(bytes) + (IF bytes % BlockBytes = 3 /\ ended THEN 1 ELSE 0)

\* What was read of the bytes of a script without an error: an answer that may be returned.
SoundAt(r, s, bytes, a, n) ==
  /\ n \in WholeBlocks(bytes) .. Blocks(bytes, TRUE) /\ n \in 0 .. Len(s)
  /\ ReadWhole(r, s)[n].failure = NoFailure
  /\ bytes % BlockBytes # 2 => a = Made(r, s, n)

Sound(r, s, bytes, a) == \E n : SoundAt(r, s, bytes, a, n)

\* What ReadInOrder says of an outcome.
ReadTo(r, s, bytes, outcome) ==
  \E n \in WholeBlocks(bytes) .. Blocks(bytes, TRUE) :
    /\ \A i \in 1 .. n : s[i] \notin ErrorEvents(r.protocol)
    /\ ReadWhole(r, s)[n].failure = NoFailure
    /\ bytes % BlockBytes # 2 => outcome = Outcome(Made(r, s, n))

LEMMA SoundAnswers ==
  ASSUME NEW r \in Rounds, r.streamed, NEW s \in StreamsOf(r), NEW bytes, NEW a, Sound(r, s, bytes, a)
  PROVE  ReadTo(r, s, bytes, Outcome(a))
<1>1. PICK n : SoundAt(r, s, bytes, a, n)
  BY DEF Sound
<1>2. \A i \in 1 .. n : s[i] \notin ErrorEvents(r.protocol)
  BY <1>1, NoErrorRead DEF SoundAt
<1> QED BY <1>1, <1>2, Zenon DEF SoundAt, ReadTo

\* However many events a chunk holds, reading it is reading the script.
LEMMA WholeChunk ==
  ASSUME NEW r \in Rounds, r.streamed, NEW s \in StreamsOf(r),
         NEW from \in Nat, NEW m \in Nat, NEW events, Between(events, s, from, m),
         NEW start, Alike(start, ReadWhole(r, s)[from]),
         start.finished = ReadWhole(r, s)[from].finished,
         NEW last, last = Reading(r, start, events)[m]
  PROVE  /\ Alike(last, ReadWhole(r, s)[from + m])
         /\ last.finished = ReadWhole(r, s)[from + m].finished
<1>1. PICK read, whole, n : read = Reading(r, start, events) /\ whole = ReadWhole(r, s) /\ n = Len(s)
  OBVIOUS
<1>2. n \in Nat /\ \A k \in 0 .. n : k < n => whole[k + 1] = ConsumeEvent(r, whole[k], s[k + 1])
  BY <1>1, WholeSteps
<1>3. from + m <= n /\ Len(events) = m /\ \A i \in 1 .. m : events[i] = s[from + i]
  BY <1>1 DEF Between
<1>4. read[0] = start /\ \A k \in 0 .. m : k < m => read[k + 1] = ConsumeEvent(r, read[k], events[k + 1])
  <2>1. m = Len(events)
    BY <1>3
  <2> QED BY <1>1, <2>1, ReadingSteps
<1> DEFINE S == {k \in 0 .. m : /\ Alike(read[k], whole[from + k])
                                /\ read[k].finished = whole[from + k].finished}
<1>5. 0 \in S
  <2>1. from + 0 = from /\ 0 \in 0 .. m
    OBVIOUS
  <2> QED BY <1>1, <1>4, <2>1, Zenon
<1>6. ASSUME NEW k \in 0 .. m, k \in S, k < m PROVE k + 1 \in S
  <2>1. /\ from + k \in 0 .. n /\ from + k < n /\ (from + k) + 1 = from + (k + 1)
        /\ k + 1 \in 1 .. m /\ k + 1 \in 0 .. m
    BY <1>2, <1>3, <1>6
  <2>2. PICK e, x, y : e = events[k + 1] /\ x = read[k] /\ y = whole[from + k]
    OBVIOUS
  <2>3. e = s[(from + k) + 1]
    BY <1>3, <2>1, <2>2
  <2>4. read[k + 1] = ConsumeEvent(r, x, e) /\ whole[from + (k + 1)] = ConsumeEvent(r, y, e)
    BY <1>2, <1>4, <1>6, <2>1, <2>2, <2>3
  <2>5. Alike(x, y) /\ x.finished = y.finished
    BY <1>6, <2>2
  <2>6. Alike(read[k + 1], whole[from + (k + 1)])
        /\ read[k + 1].finished = whole[from + (k + 1)].finished
    <3>1. PICK f, g : f = ConsumeEvent(r, x, e) /\ g = ConsumeEvent(r, y, e)
      OBVIOUS
    <3>2. Alike(f, g) /\ f.finished = g.finished
      BY <2>5, <3>1, AlikeStep
    <3> QED BY <2>4, <3>1, <3>2, Zenon
  <2> QED BY <2>1, <2>6, Zenon
<1>7. m \in S
  <2>1. m \in 0 .. m
    OBVIOUS
  <2> HIDE DEF S
  <2> QED BY <1>5, <1>6, <2>1, Induct
<1> QED BY <1>1, <1>7, Zenon

\* What is finished without a failure inside a chunk has been read to its end.
LEMMA FinishedSound ==
  ASSUME NEW r \in Rounds, r.streamed, NEW s \in StreamsOf(r),
         NEW bytes \in 0 .. BlockBytes * Len(s), NEW last,
         Alike(last, ReadWhole(r, s)[WholeBlocks(bytes)]),
         last.finished = ReadWhole(r, s)[WholeBlocks(bytes)].finished,
         last.finished, last.failure = NoFailure
  PROVE  Sound(r, s, bytes, last.acc)
<1>1. PICK w, n : w = WholeBlocks(bytes) /\ n = Len(s)
  OBVIOUS
<1>2. PICK whole : whole = ReadWhole(r, s)
  OBVIOUS
<1>3. n \in Nat /\ whole[0].finished = FALSE
  BY <1>1, <1>2, WholeSteps
<1>4. w \in Nat /\ w <= n /\ (w = n => bytes % BlockBytes = 0)
  <2>1. w = bytes \div 4 /\ bytes \in Nat /\ bytes <= 4 * n
    BY <1>1, <1>3 DEF WholeBlocks, BlockBytes
  <2>2. 4 * w <= bytes /\ bytes < 4 * w + 4 /\ w \in Nat
    BY <2>1
  <2>3. w <= n
    BY <1>3, <2>1, <2>2
  <2>4. ASSUME w = n PROVE bytes % BlockBytes = 0
    <3>1. bytes = 4 * n
      BY <1>3, <2>1, <2>2, <2>4
    <3> QED BY <1>3, <3>1 DEF BlockBytes
  <2> QED BY <2>2, <2>3, <2>4
<1>5. whole[w].finished /\ whole[w].failure = NoFailure /\ last.acc = whole[w].acc
  <2>1. last.acc = whole[w].acc /\ last.failure = whole[w].failure
    BY <1>1, <1>2 DEF Alike
  <2>2. whole[w].finished
    BY <1>1, <1>2, Zenon
  <2> QED BY <2>1, <2>2
<1>6. w \in w .. Blocks(bytes, TRUE)
  BY <1>1, <1>4 DEF Blocks
<1>7. w \in 0 .. Len(s) /\ last.acc = Made(r, s, w)
  BY <1>1, <1>2, <1>3, <1>4, <1>5 DEF Made
<1>8. SoundAt(r, s, bytes, last.acc, w)
  BY <1>1, <1>2, <1>5, <1>6, <1>7 DEF SoundAt
<1> QED BY <1>8 DEF Sound

\* Nor does the end of the stream make an answer of an error.
LEMMA RemainderSound ==
  ASSUME NEW r \in Rounds, r.streamed, NEW s \in StreamsOf(r),
         NEW bytes \in 0 .. BlockBytes * Len(s),
         NEW start, Alike(start, ReadWhole(r, s)[WholeBlocks(bytes)]), start.finished,
         NEW events, events = Remainder(s, bytes), NEW n \in Nat, n = Len(events),
         NEW last, last = Reading(r, start, events)[n], last.failure = NoFailure
  PROVE  Sound(r, s, bytes, last.acc)
<1>1. PICK w, l : w = WholeBlocks(bytes) /\ l = Len(s)
  OBVIOUS
<1>2. PICK whole, read : whole = ReadWhole(r, s) /\ read = Reading(r, start, events)
  OBVIOUS
<1>3. l \in Nat /\ \A k \in 0 .. l : k < l => whole[k + 1] = ConsumeEvent(r, whole[k], s[k + 1])
  BY <1>1, <1>2, WholeSteps
<1>4. w \in 0 .. l /\ (bytes % BlockBytes # 0 => w < l)
  <2>1. w = bytes \div 4 /\ bytes \in Nat /\ bytes <= 4 * l
    BY <1>1, <1>3 DEF WholeBlocks, BlockBytes
  <2>2. 4 * w <= bytes /\ bytes < 4 * w + 4 /\ w \in Nat
    BY <2>1
  <2>3. w <= l
    BY <1>3, <2>1, <2>2
  <2>4. ASSUME w = l PROVE bytes % BlockBytes = 0
    <3>1. bytes = 4 * l
      BY <1>3, <2>1, <2>2, <2>4
    <3> QED BY <1>3, <3>1 DEF BlockBytes
  <2> QED BY <1>3, <2>2, <2>3, <2>4
<1>5. read[0] = start /\ \A k \in 0 .. n : k < n => read[k + 1] = ConsumeEvent(r, read[k], events[k + 1])
  BY <1>2, ReadingSteps
<1>6. last = read[n]
  BY <1>2
<1>7. start.acc = whole[w].acc /\ start.failure = whole[w].failure
  BY <1>1, <1>2 DEF Alike
<1>8. CASE bytes % BlockBytes \notin {2, 3}
  <2>1. events = <<>>
    BY <1>8 DEF Remainder
  <2>2. last = start
    BY <1>5, <1>6, <2>1
  <2>3. Blocks(bytes, TRUE) = w
    BY <1>1, <1>4, <1>8 DEF Blocks
  <2>4. whole[w].failure = NoFailure /\ last.acc = Made(r, s, w)
    BY <1>2, <1>7, <2>2 DEF Made
  <2>5. w \in w .. w /\ w \in 0 .. l
    BY <1>3, <1>4
  <2>6. SoundAt(r, s, bytes, last.acc, w)
    BY <1>1, <1>2, <2>3, <2>4, <2>5, Zenon DEF SoundAt
  <2> QED BY <2>6 DEF Sound
<1>9. CASE bytes % BlockBytes \in {2, 3}
  <2>1. PICK e : e = IF bytes % BlockBytes = 2 THEN [s[w + 1] EXCEPT !.type = "junk", !.parts = <<Torn>>]
                     ELSE s[w + 1]
    OBVIOUS
  <2>2. events = <<e>>
    BY <1>1, <1>9, <2>1 DEF Remainder
  <2>3. n = 1 /\ events[1] = e
    BY <2>2
  <2>4. last = ConsumeEvent(r, start, e)
    <3>1. 0 \in 0 .. n /\ 0 < n /\ 0 + 1 = 1
      BY <2>3
    <3>2. read[0 + 1] = ConsumeEvent(r, read[0], events[0 + 1])
      BY <1>5, <3>1
    <3> QED BY <1>5, <1>6, <2>3, <3>1, <3>2
  <2>5. w < l /\ w \in 0 .. l /\ w \in Nat
    BY <1>3, <1>4, <1>9
  <2>6. CASE bytes % BlockBytes = 2
    <3>1. Blocks(bytes, TRUE) = w /\ ~(bytes % BlockBytes # 2)
      BY <1>1, <1>3, <2>5, <2>6 DEF Blocks
    <3>2. whole[w].failure = NoFailure
      BY <1>7, <2>4, FailureStays
    <3>3. w \in w .. w
      BY <2>5
    <3>4. SoundAt(r, s, bytes, last.acc, w)
      BY <1>1, <1>2, <2>5, <3>1, <3>2, <3>3, Zenon DEF SoundAt
    <3> QED BY <3>4 DEF Sound
  <2>7. CASE bytes % BlockBytes = 3
    <3>1. Blocks(bytes, TRUE) = w + 1 /\ w + 1 \in 0 .. l
      BY <1>1, <1>3, <2>5, <2>7 DEF Blocks
    <3>2. e = s[w + 1]
      BY <2>1, <2>7
    <3>3. whole[w + 1] = ConsumeEvent(r, whole[w], e)
      BY <1>3, <2>5, <3>2
    <3>4. Alike(last, whole[w + 1])
      <4>1. Alike(start, whole[w])
        BY <1>7 DEF Alike
      <4> QED BY <2>4, <3>3, <4>1, AlikeStep
    <3>5. whole[w + 1].failure = NoFailure /\ last.acc = Made(r, s, w + 1)
      BY <1>2, <3>4 DEF Alike, Made
    <3>6. w + 1 \in w .. w + 1
      BY <2>5
    <3>7. SoundAt(r, s, bytes, last.acc, w + 1)
      BY <1>1, <1>2, <3>1, <3>5, <3>6 DEF SoundAt
    <3> QED BY <3>7 DEF Sound
  <2> QED BY <1>9, <2>6, <2>7
<1> QED BY <1>8, <1>9

LEMMA RemainderEnds ==
  ASSUME NEW r, NEW s, NEW bytes, NEW start, start.finished = TRUE,
         NEW events, events = Remainder(s, bytes), NEW n \in Nat, n = Len(events),
         NEW last, last = Reading(r, start, events)[n]
  PROVE  last.finished = TRUE
<1>1. PICK read : read = Reading(r, start, events)
  OBVIOUS
<1>2. read[0] = start /\ \A k \in 0 .. n : k < n => read[k + 1] = ConsumeEvent(r, read[k], events[k + 1])
  BY <1>1, ReadingSteps
<1>3. n \in {0, 1}
  BY DEF Remainder
<1>4. CASE n = 0
  BY <1>1, <1>2, <1>4
<1>5. CASE n = 1
  <2>1. 0 \in 0 .. n /\ 0 < n /\ 0 + 1 = 1
    BY <1>5
  <2>2. last = ConsumeEvent(r, start, events[1])
    <3>1. read[0 + 1] = ConsumeEvent(r, read[0], events[0 + 1])
      BY <1>2, <2>1
    <3> QED BY <1>1, <1>2, <1>5, <2>1, <3>1
  <2>3. EndedByFailure(start)
    BY Zenon DEF EndedByFailure
  <2> QED BY <2>2, <2>3, StillOpen, Zenon
<1> QED BY <1>3, <1>4, <1>5

\* A whole body is returned as it is.
AsHeld(held, verdict) == verdict.kind = "answer" => verdict.outcome = held

LEMMA OpenAiAsHeld ==
  ASSUME NEW request, NEW said, said.body = "answer", NEW held, ~IsEmpty(held), NEW why
  PROVE  /\ AsHeld(held, OpenAi!Complete(request, said, held))
         /\ AsHeld(held, OpenAi!CompleteAgain(why, said, held))
<1> USE DEF AsHeld, OpenAi!Refuse, OpenAi!Retry, OpenAi!Answer, OpenAi!FirstRefusal
<1>1. PICK outcomes : outcomes = OpenAi!ExtractOutcomes(said.body, held)
  OBVIOUS
<1>2. outcomes = <<held>>
  BY <1>1 DEF OpenAi!ExtractOutcomes
<1>3. outcomes # <<>> /\ Head(outcomes) = held /\ OpenAi!Useful(outcomes) = outcomes
  <2>1. ~OpenAi!IsEmpty(held)
    BY DEF IsEmpty, OpenAi!IsEmpty
  <2> QED BY <1>2, <2>1 DEF OpenAi!Useful
<1>4. AsHeld(held, OpenAi!Complete(request, said, held))
  BY <1>1, <1>3 DEF OpenAi!Complete
<1>5. AsHeld(held, OpenAi!CompleteAgain(why, said, held))
  BY <1>1, <1>3 DEF OpenAi!CompleteAgain
<1> QED BY <1>4, <1>5

LEMMA ResponsesAsHeld ==
  ASSUME NEW request, NEW said, said.body = "answer", NEW held, NEW why
  PROVE  /\ AsHeld(held, Responses!Complete(request, said, held))
         /\ AsHeld(held, Responses!CompleteAgain(why, said, held))
<1> USE DEF AsHeld, Responses!Refuse, Responses!Retry, Responses!Answer, Responses!FirstRefusal
<1>1. Responses!ExtractOutcome(said.body, held) = held
  BY DEF Responses!ExtractOutcome
<1>2. AsHeld(held, Responses!Complete(request, said, held))
  BY <1>1 DEF Responses!Complete
<1>3. AsHeld(held, Responses!CompleteAgain(why, said, held))
  BY <1>1 DEF Responses!CompleteAgain
<1> QED BY <1>2, <1>3

LEMMA AnthropicAsHeld ==
  ASSUME NEW request, NEW said, said.body = "answer", NEW held, NEW why
  PROVE  /\ AsHeld(held, Anthropic!Complete(request, said, held))
         /\ AsHeld(held, Anthropic!CompleteAgain(why, said, held))
<1> USE DEF AsHeld, Anthropic!Refuse, Anthropic!Retry, Anthropic!Answer, Anthropic!FirstRefusal
<1>1. Anthropic!ExtractOutcome(said.body, held) = held
  BY DEF Anthropic!ExtractOutcome
<1>2. AsHeld(held, Anthropic!Complete(request, said, held))
  BY <1>1 DEF Anthropic!Complete
<1>3. AsHeld(held, Anthropic!CompleteAgain(why, said, held))
  BY <1>1 DEF Anthropic!CompleteAgain
<1> QED BY <1>2, <1>3

LEMMA VerdictsAsHeld ==
  ASSUME NEW r \in Rounds, r.streamed = FALSE, ~IsEmpty(Meant(r.answer)),
         NEW said, said.body = "answer", NEW why
  PROVE  /\ AsHeld(Meant(r.answer), FirstVerdict(r, said))
         /\ AsHeld(Meant(r.answer), SecondVerdict(r, why, said))
<1>1. r.protocol \in {"openai", "responses", "anthropic"}
  BY RoundsAssumption DEF Protocols
<1>2. PICK held : held = Held(said, r.answer)
  OBVIOUS
<1>3. held = Meant(r.answer)
  BY <1>2 DEF Held
<1>4. CASE r.protocol = "openai"
  <2>1. /\ FirstVerdict(r, said) = OpenAi!Complete(r.request, said, held)
        /\ SecondVerdict(r, why, said) = OpenAi!CompleteAgain(why, said, held)
    BY <1>2, <1>4 DEF FirstVerdict, SecondVerdict
  <2> QED BY <1>3, <2>1, OpenAiAsHeld
<1>5. CASE r.protocol = "responses"
  <2>1. /\ FirstVerdict(r, said) = Responses!Complete(r.request, said, held)
        /\ SecondVerdict(r, why, said) = Responses!CompleteAgain(why, said, held)
    BY <1>2, <1>5 DEF FirstVerdict, SecondVerdict
  <2> QED BY <1>3, <2>1, ResponsesAsHeld
<1>6. CASE r.protocol = "anthropic"
  <2>1. /\ FirstVerdict(r, said) = Anthropic!Complete(r.request, said, held)
        /\ SecondVerdict(r, why, said) = Anthropic!CompleteAgain(why, said, held)
    BY <1>2, <1>6 DEF FirstVerdict, SecondVerdict
  <2> QED BY <1>3, <2>1, AnthropicAsHeld
<1> QED BY <1>1, <1>4, <1>5, <1>6

\* ReadInOrder says nothing of a round that goes on: until it is finished, reading in
\* chunks has come to where reading the whole blocks alone would; when it is finished
\* without a failure that waits to be returned, what was read is sound.
ReadSoFar ==
  /\ round.streamed /\ script \in StreamsOf(round)
  /\ received \in 0 .. BlockBytes * Len(script)
  /\ ~finished =>
       /\ acc = ReadWhole(round, script)[WholeBlocks(received)].acc
       /\ failure = ReadWhole(round, script)[WholeBlocks(received)].failure
       /\ finished = ReadWhole(round, script)[WholeBlocks(received)].finished
  /\ finished /\ failure = NoFailure => Sound(round, script, received, acc)

WholeInv ==
  /\ round \in Rounds
  /\ pc \in {"start", "asked", "reading", "done"}
  /\ pc # "done" => result = Open
  /\ finished \in BOOLEAN
  /\ pc \in {"start", "asked"} =>
       /\ script = <<>> /\ received = 0 /\ acc = NewDecoder(round)
       /\ finished = FALSE /\ failure = NoFailure
  /\ pc = "reading" => ReadSoFar
  /\ ReadInOrder

\* No answer, nothing to show.
LEMMA WholeOther ==
  ASSUME WholeInv, round' = round, finished' \in BOOLEAN, result'.kind # "answer", pc' = "done"
  PROVE  WholeInv'
BY DEF WholeInv, ReadInOrder

\* What is returned of a sound reading is whole.
LEMMA WholeReturn ==
  ASSUME WholeInv, round.streamed, script \in StreamsOf(round),
         UNCHANGED <<round, script>>, finished', finished' \in BOOLEAN, NEW a,
         Sound(round, script, received', a), Return("answer", Outcome(a), NoFailure)
  PROVE  WholeInv'
<1>1. round \in Rounds
  BY DEF WholeInv
<1>2. PICK bytes : bytes = received'
  OBVIOUS
<1>3. ReadTo(round, script, bytes, Outcome(a))
  BY <1>1, <1>2, SoundAnswers
<1>4. ReadBlocks' = Blocks(bytes, TRUE)
  BY <1>2 DEF ReadBlocks, Blocks
<1>5. /\ pc' = "done"
      /\ result' = [kind |-> "answer", outcome |-> Outcome(a), failure |-> NoFailure]
  BY DEF Return
<1>6. ReadInOrder'
  BY <1>2, <1>3, <1>4, <1>5 DEF ReadInOrder, ReadTo
<1> QED BY <1>1, <1>5, <1>6 DEF WholeInv

\* The state of the reader after a chunk or the end.
LEMMA WholeAfter ==
  ASSUME WholeInv, pc = "reading", failure = NoFailure,
         NEW s, AfterReading(s),
         s.finished \in BOOLEAN, received' \in 0 .. BlockBytes * Len(script),
         s.finished = FALSE => LET whole == ReadWhole(round, script)[WholeBlocks(received')]
                               IN  Alike(s, whole) /\ s.finished = whole.finished,
         s.finished = TRUE /\ s.failure = NoFailure
           => Sound(round, script, received', s.acc),
         UNCHANGED <<round, script>>
  PROVE  WholeInv'
<1>1. /\ round \in Rounds /\ result = Open /\ round.streamed /\ script \in StreamsOf(round)
      /\ round' = round /\ script' = script /\ acc' = s.acc /\ finished' = s.finished
  BY DEF WholeInv, ReadSoFar, AfterReading
<1>2. \/ UNCHANGED <<pc, result>> /\ failure' = s.failure
      \/ Fail(s.failure)
      \/ s.failure = NoFailure /\ s.finished /\ Return("answer", Outcome(s.acc), NoFailure)
  <2>1. IF s.deltas # <<>> THEN failure' = s.failure /\ UNCHANGED <<pc, result>>
        ELSE IF s.failure # NoFailure THEN Fail(s.failure) /\ failure' = NoFailure
        ELSE IF s.finished THEN Return("answer", Outcome(s.acc), NoFailure) /\ UNCHANGED failure
        ELSE UNCHANGED <<failure, pc, result>>
    BY Zenon DEF AfterReading
  <2>2. CASE s.deltas = <<>> /\ s.failure = NoFailure /\ ~s.finished
    <3>1. s.deltas = <<>> /\ s.failure = NoFailure
      BY <2>2
    <3>2. UNCHANGED <<failure, pc, result>>
      BY <2>1, <2>2, Zenon
    <3> QED BY <3>1, <3>2
  <2>3. CASE ~(s.deltas = <<>> /\ s.failure = NoFailure /\ ~s.finished)
    BY <2>1, <2>3, Zenon
  <2> QED BY <2>2, <2>3
<1>3. CASE UNCHANGED <<pc, result>> /\ failure' = s.failure
  <2>1. ReadSoFar'
    BY <1>1, <1>3 DEF ReadSoFar, Alike
  <2>2. result'.kind # "answer"
    BY <1>1, <1>3 DEF Open
  <2> QED BY <1>1, <1>3, <2>1, <2>2 DEF WholeInv, ReadInOrder
<1>4. CASE Fail(s.failure)
  BY <1>1, <1>4, WholeOther DEF Fail, Return
<1>5. CASE s.failure = NoFailure /\ s.finished /\ Return("answer", Outcome(s.acc), NoFailure)
  <2>1. Sound(round, script, received', s.acc) /\ finished'
    BY <1>1, <1>5
  <2> QED BY <1>1, <1>5, <2>1, WholeReturn
<1> QED BY <1>2, <1>3, <1>4, <1>5

LEMMA WholeReadChunk ==
  ASSUME WholeInv, NEW n \in 1 .. MaxChunk, ReadChunk(n)
  PROVE  WholeInv'
<1>1. /\ pc = "reading" /\ finished = FALSE
      /\ round \in Rounds /\ round.streamed /\ script \in StreamsOf(round)
      /\ received \in 0 .. BlockBytes * Len(script)
      /\ received + n <= BlockBytes * Len(script) /\ received' = received + n
      /\ AfterReading(ReadEvents(NewBlocks(script, received, received + n), finished))
      /\ UNCHANGED <<round, script>>
  BY DEF ReadChunk, Undisturbed, Polling, WholeInv, ReadSoFar, httpVars
<1>2. script \in Seq(ToSet(script)) /\ Len(script) \in Nat
  BY <1>1, WholeSteps
<1>3. n \in Nat /\ received \in Nat /\ received' \in 0 .. BlockBytes * Len(script)
  BY <1>1, <1>2, RoundsAssumption DEF BlockBytes
<1>4. PICK from \in Nat, m \in Nat : /\ from = WholeBlocks(received)
                                     /\ from + m = WholeBlocks(received + n)
                                     /\ from + m <= Len(script)
  <2>1. received \in Nat /\ n \in Nat /\ Len(script) \in Nat /\ received + n <= BlockBytes * Len(script)
    BY <1>1, <1>2, <1>3
  <2> QED BY <2>1, BlocksGrow
<1>5. PICK events : events = NewBlocks(script, received, received + n)
  OBVIOUS
<1>6. Between(events, script, from, m)
  BY <1>2, <1>4, <1>5, NewBlocksBetween
<1>7. PICK start : start = [acc |-> acc, deltas |-> <<>>, finished |-> finished, failure |-> failure]
  OBVIOUS
<1>8. PICK final, whole : /\ final = Reading(round, start, events)[m]
                          /\ whole = ReadWhole(round, script)[from + m]
  OBVIOUS
<1>9. Alike(final, whole) /\ final.finished = whole.finished
  <2>1. /\ start.acc = acc /\ start.failure = failure /\ start.finished = finished
    BY <1>7
  <2>2. Alike(start, ReadWhole(round, script)[from])
        /\ start.finished = ReadWhole(round, script)[from].finished
    BY <1>1, <1>4, <2>1 DEF WholeInv, ReadSoFar, Alike
  <2>3. round \in Rounds /\ round.streamed /\ script \in StreamsOf(round)
    BY <1>1
  <2> QED BY <1>4, <1>6, <1>8, <2>2, <2>3, WholeChunk
<1>10. AfterReading(final)
  <2>1. ReadEvents(events, finished) = final
    BY <1>6, <1>7, <1>8 DEF ReadEvents, Between
  <2> QED BY <1>1, <1>5, <2>1
<1>11. final.finished \in BOOLEAN /\ failure = NoFailure
  <2>1. from \in 0 .. Len(script) /\ from + m \in 0 .. Len(script)
    BY <1>2, <1>4
  <2>2. ReadWhole(round, script)[from].finished = FALSE => ReadWhole(round, script)[from].failure = NoFailure
    BY <1>1, <2>1, WholeOpen, Zenon DEF EndedByFailure
  <2>3. whole.finished \in BOOLEAN
    BY <1>1, <1>8, <2>1, WholeOpen DEF EndedByFailure
  <2> QED BY <1>1, <1>4, <1>9, <2>2, <2>3 DEF WholeInv, ReadSoFar
<1>12. final.finished = TRUE /\ final.failure = NoFailure
         => Sound(round, script, received', final.acc)
  <2>1. whole = ReadWhole(round, script)[WholeBlocks(received')]
    BY <1>1, <1>4, <1>8
  <2> QED BY <1>1, <1>3, <1>9, <2>1, FinishedSound
<1>13. whole = ReadWhole(round, script)[WholeBlocks(received')]
  BY <1>1, <1>4, <1>8
<1> QED BY <1>1, <1>3, <1>9, <1>10, <1>11, <1>12, <1>13, WholeAfter

LEMMA WholeReadEnd ==
  ASSUME WholeInv, ReadEnd
  PROVE  WholeInv'
<1>1. /\ pc = "reading" /\ finished = FALSE
      /\ round \in Rounds /\ round.streamed /\ script \in StreamsOf(round)
      /\ received \in 0 .. BlockBytes * Len(script) /\ received' = received
      /\ AfterReading(ReadEvents(Remainder(script, received), TRUE))
      /\ UNCHANGED <<round, script>>
  BY DEF ReadEnd, Undisturbed, Polling, WholeInv, ReadSoFar, httpVars
<1>2. PICK w : w = WholeBlocks(received)
  OBVIOUS
<1>3. /\ acc = ReadWhole(round, script)[w].acc /\ failure = ReadWhole(round, script)[w].failure
      /\ ReadWhole(round, script)[w].finished = FALSE
  BY <1>1, <1>2 DEF WholeInv, ReadSoFar
<1>4. failure = NoFailure
  <2>1. w \in 0 .. Len(script)
    <3>1. Len(script) \in Nat
      BY <1>1, WholeSteps
    <3> QED BY <1>1, <1>2, <3>1 DEF WholeBlocks, BlockBytes
  <2>2. EndedByFailure(ReadWhole(round, script)[w])
    BY <1>1, <2>1, WholeOpen
  <2> QED BY <1>3, <2>2 DEF EndedByFailure
<1>5. PICK events, k : events = Remainder(script, received) /\ k = Len(events)
  OBVIOUS
<1>6. k \in Nat
  BY <1>5 DEF Remainder
<1>7. PICK start : start = [acc |-> acc, deltas |-> <<>>, finished |-> TRUE, failure |-> failure]
  OBVIOUS
<1>8. PICK final : final = Reading(round, start, events)[k]
  OBVIOUS
<1>9. Alike(start, ReadWhole(round, script)[WholeBlocks(received)]) /\ start.finished = TRUE
  BY <1>2, <1>3, <1>7 DEF Alike
<1>10. AfterReading(final)
  <2>1. ReadEvents(events, TRUE) = final
    BY <1>5, <1>7, <1>8 DEF ReadEvents
  <2> QED BY <1>1, <1>5, <2>1
<1>11. final.finished = TRUE
  BY <1>5, <1>6, <1>8, <1>9, RemainderEnds
<1>12. final.failure = NoFailure => Sound(round, script, received', final.acc)
  BY <1>1, <1>5, <1>6, <1>8, <1>9, RemainderSound
<1> QED BY <1>1, <1>4, <1>10, <1>11, <1>12, WholeAfter

\* A step that reads nothing and returns nothing.
LEMMA WholeQuiet ==
  ASSUME WholeInv, pc # "done", pc' = pc \/ (pc = "start" /\ pc' = "asked"),
         UNCHANGED <<round, script, received, acc, finished, failure, result>>
  PROVE  WholeInv'
<1>1. result = Open
  BY DEF WholeInv
<1>2. pc = "reading" => ReadSoFar'
  BY DEF WholeInv, ReadSoFar
<1>3. ReadInOrder'
  BY <1>1 DEF ReadInOrder, Open
<1> QED BY <1>2, <1>3 DEF WholeInv

LEMMA WholeBegin ==
  ASSUME WholeInv, Begin
  PROVE  WholeInv'
<1>1. /\ pc = "start" /\ UNCHANGED <<round, script, received, acc, finished, failure>>
      /\ \/ Fail(Payload(round).failure)
         \/ pc' = "asked" /\ UNCHANGED result
  BY DEF Begin, readerVars
<1>2. CASE Fail(Payload(round).failure)
  <2>1. round' = round /\ finished' \in BOOLEAN
    BY <1>1 DEF WholeInv
  <2>2. pc' = "done" /\ result'.kind # "answer"
    BY <1>2 DEF Fail, Return
  <2> QED BY <2>1, <2>2, WholeOther
<1>3. CASE pc' = "asked" /\ UNCHANGED result
  BY <1>1, <1>3, WholeQuiet
<1> QED BY <1>1, <1>2, <1>3

LEMMA WholeHear ==
  ASSUME WholeInv, RefusalInv, Hear
  PROVE  WholeInv'
<1> DEFINE verdict == IF cause = "none" THEN FirstVerdict(round, reply')
                      ELSE SecondVerdict(round, cause, reply')
<1>1. /\ round \in Rounds /\ round.streamed \in {TRUE, FALSE} /\ result = Open
      /\ script = <<>> /\ received = 0 /\ acc = NewDecoder(round)
      /\ finished = FALSE /\ failure = NoFailure
  BY RoundsAssumption DEF WholeInv, Hear
<1>2. Returns(round.streamed, Held(reply', round.answer), verdict)
  BY <1>1, VerdictsReturn
<1>3. /\ Follow(verdict) /\ pc = "asked"
      /\ UNCHANGED <<round, received, acc, finished, failure>>
  BY DEF Hear, readerVars
<1>4. verdict.kind \in {"answer", "failure", "retry", "read"}
  BY FirstVerdicts, SecondVerdicts DEF Verdict, Formed, RefusalInv
<1>5. (round.streamed = FALSE /\ reply'.body = "answer" /\ ~IsEmpty(Meant(round.answer))) =>
        AsHeld(Meant(round.answer), verdict)
  BY <1>1, VerdictsAsHeld
<1> HIDE DEF verdict
<1>6. CASE verdict.kind = "answer"
  <2>1. /\ pc' = "done" /\ script' = script
        /\ result' = [kind |-> "answer", outcome |-> verdict.outcome, failure |-> NoFailure]
    BY <1>3, <1>6 DEF Follow, Return
  <2>2. round.streamed = FALSE
    BY <1>1, <1>2, <1>6 DEF Returns
  <2>3. (reply'.body = "answer" /\ ~IsEmpty(Meant(round.answer))) => verdict.outcome = Meant(round.answer)
    BY <1>5, <1>6, <2>2 DEF AsHeld
  <2>4. PICK outcome : outcome = verdict.outcome
    OBVIOUS
  <2>5. result'.outcome = outcome
    BY <2>1, <2>4
  <2>6. round'.streamed = FALSE /\ round' = round
    BY <1>3, <2>2
  <2>7. ReadInOrder'
    BY <2>3, <2>4, <2>5, <2>6, Zenon DEF ReadInOrder
  <2> QED BY <1>1, <1>3, <2>1, <2>7 DEF WholeInv
<1>7. CASE verdict.kind = "failure"
  <2>1. Fail(verdict.failure)
    BY <1>3, <1>7 DEF Follow
  <2>2. pc' = "done" /\ result'.kind # "answer"
    BY <2>1 DEF Fail, Return
  <2> QED BY <1>1, <1>3, <2>2, WholeOther
<1>8. CASE verdict.kind = "retry"
  <2>1. UNCHANGED <<pc, result, script>>
    BY <1>3, <1>8 DEF Follow
  <2> QED BY <1>3, <2>1, WholeQuiet
<1>9. CASE verdict.kind = "read"
  <2>1. pc' = "reading" /\ script' \in StreamsOf(round) /\ UNCHANGED result
    BY <1>3, <1>9 DEF Follow
  <2>2. round.streamed
    BY <1>1, <1>2, <1>9 DEF Returns
  <2>3. PICK new : new = script' /\ new \in StreamsOf(round)
    BY <2>1
  <2>4. /\ Len(new) \in Nat
        /\ ReadWhole(round, new)[0].finished = FALSE /\ ReadWhole(round, new)[0].failure = NoFailure
        /\ ReadWhole(round, new)[0].acc = NewDecoder(round)
    BY <1>1, <2>2, <2>3, WholeSteps
  <2>5. WholeBlocks(0) = 0 /\ 0 \in 0 .. BlockBytes * Len(new)
    BY <2>4 DEF WholeBlocks, BlockBytes
  <2>6. /\ received' = 0 /\ acc' = NewDecoder(round) /\ finished' = FALSE /\ failure' = NoFailure
        /\ round' = round
    BY <1>1, <1>3
  <2>7. ReadSoFar'
    BY <2>2, <2>3, <2>4, <2>5, <2>6 DEF ReadSoFar
  <2>8. ReadInOrder'
    BY <1>1, <2>1 DEF ReadInOrder, Open
  <2> QED BY <1>1, <2>1, <2>6, <2>7, <2>8 DEF WholeInv
<1> QED BY <1>4, <1>6, <1>7, <1>8, <1>9

LEMMA WholeNextCall ==
  ASSUME WholeInv, NextCall
  PROVE  WholeInv'
<1>1. /\ pc = "reading" /\ finished /\ UNCHANGED <<round, script, received, acc, finished>>
      /\ finished' \in BOOLEAN /\ round.streamed /\ script \in StreamsOf(round)
  BY DEF NextCall, Undisturbed, Polling, httpVars, WholeInv, ReadSoFar
<1>2. \/ Fail(failure)
      \/ failure = NoFailure /\ Return("answer", Outcome(acc), NoFailure)
  BY DEF NextCall
<1>3. CASE Fail(failure)
  <2>1. pc' = "done" /\ result'.kind # "answer"
    BY <1>3 DEF Fail, Return
  <2> QED BY <1>1, <2>1, WholeOther
<1>4. CASE failure = NoFailure /\ Return("answer", Outcome(acc), NoFailure)
  <2>1. Sound(round, script, received', acc)
    BY <1>1, <1>4 DEF WholeInv, ReadSoFar
  <2> QED BY <1>1, <1>4, <2>1, WholeReturn
<1> QED BY <1>2, <1>3, <1>4

LEMMA WholeStart == Init => WholeInv
<1> SUFFICES ASSUME Init PROVE WholeInv
  OBVIOUS
<1>1. result.kind # "answer"
  BY DEF Init, Open
<1> QED BY <1>1 DEF Init, WholeInv, ReadInOrder

LEMMA WholeStep ==
  ASSUME WholeInv, RefusalInv, [Next]_vars
  PROVE  WholeInv'
<1>0. finished \in BOOLEAN
  BY DEF WholeInv
<1>1. CASE Begin
  BY <1>1, WholeBegin
<1>2. CASE Hear
  BY <1>2, WholeHear
<1>3. CASE \E n \in 1 .. MaxChunk : ReadChunk(n)
  BY <1>3, WholeReadChunk
<1>4. CASE ReadEnd
  BY <1>4, WholeReadEnd
<1>5. CASE ReadFault
  <2>1. pc' = "done" /\ result'.kind # "answer" /\ round' = round /\ finished' \in BOOLEAN
    BY <1>5 DEF ReadFault, Fail, Return
  <2> QED BY <2>1, WholeOther
<1>6. CASE NextCall
  BY <1>6, WholeNextCall
<1>7. CASE Interrupt
  <2>1. pc' = "done" /\ result'.kind # "answer" /\ round' = round /\ finished' \in BOOLEAN
    BY <1>0, <1>7 DEF Interrupt, Return, readerVars
  <2> QED BY <2>1, WholeOther
<1>8. CASE Send
  <2>1. /\ pc = "reading" /\ UNCHANGED <<round, script, received, acc, finished, failure>>
        /\ Return("interrupted", Outcome(acc), NoFailure) \/ UNCHANGED <<pc, result>>
    BY <1>8 DEF Send, httpVars, readerVars
  <2>2. CASE Return("interrupted", Outcome(acc), NoFailure)
    <3>1. pc' = "done" /\ result'.kind # "answer"
      BY <2>2 DEF Return
    <3> QED BY <1>0, <2>1, <3>1, WholeOther
  <2>3. CASE UNCHANGED <<pc, result>>
    BY <2>1, <2>3, WholeQuiet
  <2> QED BY <2>1, <2>2, <2>3
<1>9. CASE Overrun
  <2>1. pc' = "done" /\ result'.kind # "answer" /\ round' = round /\ finished' \in BOOLEAN
    BY <1>0, <1>9 DEF Overrun, Fail, Return, readerVars
  <2> QED BY <2>1, WholeOther
<1>10. CASE RequestStop \/ Leave
  <2>1. /\ pc # "done" /\ pc' = pc
        /\ UNCHANGED <<round, script, received, acc, finished, failure, result>>
    BY <1>10 DEF RequestStop, Leave, httpVars, readerVars
  <2> QED BY <2>1, WholeQuiet
<1>11. CASE UNCHANGED vars
  <2>1. UNCHANGED <<round, pc, reply, script, received, acc, finished, failure, result>>
    BY <1>11 DEF vars, httpVars, readerVars
  <2>2. ReadInOrder' /\ (ReadSoFar => ReadSoFar')
    BY <2>1 DEF WholeInv, ReadInOrder, ReadBlocks, ReadSoFar
  <2> QED BY <2>1, <2>2 DEF WholeInv
<1> QED BY <1>1, <1>2, <1>3, <1>4, <1>5, <1>6, <1>7, <1>8, <1>9, <1>10, <1>11 DEF Next

\* Whatever the services write, however the bytes of a stream were cut into chunks and at
\* whatever byte it ended, its answer is what its events make, read one after the other,
\* and no error that was reported before its end is among them; and the answer of a whole
\* body is that body.
THEOREM AnswersAreRead == Spec => []ReadInOrder
<1>1. Init => RefusalInv /\ WholeInv
  BY RefusalInit, WholeStart
<1>2. RefusalInv /\ WholeInv /\ [Next]_vars => RefusalInv' /\ WholeInv'
  BY RefusalStep, WholeStep
<1>3. WholeInv => ReadInOrder
  BY DEF WholeInv
<1> QED BY <1>1, <1>2, <1>3, PTL DEF Spec


-----------------------------------------------------------------------------
(* The requests.                                                           *)

\* A request is sent again only where there was a level to leave out.
Again(request, verdict) == verdict.kind = "retry" => ReasoningOverride(request.level)

LEMMA OverrideAgrees ==
  ASSUME NEW level
  PROVE  /\ OpenAi!ReasoningOverride(level) <=> ReasoningOverride(level)
         /\ Responses!ReasoningOverride(level) <=> ReasoningOverride(level)
         /\ Anthropic!ReasoningOverride(level) <=> ReasoningOverride(level)
BY DEF ReasoningOverride, OpenAi!ReasoningOverride, Responses!ReasoningOverride,
       Anthropic!ReasoningOverride

LEMMA OpenAiAgain ==
  ASSUME NEW request, NEW said, NEW held, NEW why
  PROVE  /\ Again(request, OpenAi!Complete(request, said, held))
         /\ Again(request, OpenAi!Stream(request, said))
         /\ OpenAi!CompleteAgain(why, said, held).kind # "retry"
         /\ OpenAi!StreamAgain(said).kind # "retry"
<1> USE DEF Again, OpenAi!Refuse, OpenAi!Retry, OpenAi!Answer, OpenAi!Read,
            OpenAi!FirstRefusal, OpenAi!HasReasoning
<1>1. Again(request, OpenAi!Complete(request, said, held))
  BY OverrideAgrees DEF OpenAi!Complete
<1>2. Again(request, OpenAi!Stream(request, said))
  BY OverrideAgrees DEF OpenAi!Stream
<1>3. OpenAi!CompleteAgain(why, said, held).kind # "retry"
  BY DEF OpenAi!CompleteAgain
<1>4. OpenAi!StreamAgain(said).kind # "retry"
  BY DEF OpenAi!StreamAgain
<1> QED BY <1>1, <1>2, <1>3, <1>4

LEMMA ResponsesAgain ==
  ASSUME NEW request, NEW said, NEW held, NEW why
  PROVE  /\ Again(request, Responses!Complete(request, said, held))
         /\ Again(request, Responses!Stream(request, said))
         /\ Responses!CompleteAgain(why, said, held).kind # "retry"
         /\ Responses!StreamAgain(said).kind # "retry"
<1> USE DEF Again, Responses!Refuse, Responses!Retry, Responses!Answer, Responses!Read,
            Responses!FirstRefusal, Responses!HasReasoning
<1>1. Again(request, Responses!Complete(request, said, held))
  BY OverrideAgrees DEF Responses!Complete
<1>2. Again(request, Responses!Stream(request, said))
  BY OverrideAgrees DEF Responses!Stream
<1>3. Responses!CompleteAgain(why, said, held).kind # "retry"
  BY DEF Responses!CompleteAgain
<1>4. Responses!StreamAgain(said).kind # "retry"
  BY DEF Responses!StreamAgain
<1> QED BY <1>1, <1>2, <1>3, <1>4

LEMMA AnthropicAgain ==
  ASSUME NEW request, NEW said, NEW held, NEW why
  PROVE  /\ Again(request, Anthropic!Complete(request, said, held))
         /\ Again(request, Anthropic!Stream(request, said))
         /\ Anthropic!CompleteAgain(why, said, held).kind # "retry"
         /\ Anthropic!StreamAgain(said).kind # "retry"
<1> USE DEF Again, Anthropic!Refuse, Anthropic!Retry, Anthropic!Answer, Anthropic!Read,
            Anthropic!FirstRefusal, Anthropic!HasReasoning
<1>1. Again(request, Anthropic!Complete(request, said, held))
  BY OverrideAgrees DEF Anthropic!Complete
<1>2. Again(request, Anthropic!Stream(request, said))
  BY OverrideAgrees DEF Anthropic!Stream
<1>3. Anthropic!CompleteAgain(why, said, held).kind # "retry"
  BY DEF Anthropic!CompleteAgain
<1>4. Anthropic!StreamAgain(said).kind # "retry"
  BY DEF Anthropic!StreamAgain
<1> QED BY <1>1, <1>2, <1>3, <1>4

LEMMA VerdictsAgain ==
  ASSUME NEW r \in Rounds, NEW said, NEW why
  PROVE  /\ Again(r.request, FirstVerdict(r, said))
         /\ SecondVerdict(r, why, said).kind # "retry"
<1>1. r.protocol \in {"openai", "responses", "anthropic"} /\ r.streamed \in {TRUE, FALSE}
  BY RoundsAssumption DEF Protocols
<1>2. PICK held : held = Held(said, r.answer)
  OBVIOUS
<1>3. CASE r.protocol = "openai"
  <2>1. CASE r.streamed = TRUE
    <3>1. /\ FirstVerdict(r, said) = OpenAi!Stream(r.request, said)
          /\ SecondVerdict(r, why, said) = OpenAi!StreamAgain(said)
      BY <1>3, <2>1 DEF FirstVerdict, SecondVerdict
    <3> QED BY <3>1, OpenAiAgain
  <2>2. CASE r.streamed = FALSE
    <3>1. /\ FirstVerdict(r, said) = OpenAi!Complete(r.request, said, held)
          /\ SecondVerdict(r, why, said) = OpenAi!CompleteAgain(why, said, held)
      BY <1>2, <1>3, <2>2 DEF FirstVerdict, SecondVerdict
    <3> QED BY <3>1, OpenAiAgain
  <2> QED BY <1>1, <2>1, <2>2
<1>4. CASE r.protocol = "responses"
  <2>1. CASE r.streamed = TRUE
    <3>1. /\ FirstVerdict(r, said) = Responses!Stream(r.request, said)
          /\ SecondVerdict(r, why, said) = Responses!StreamAgain(said)
      BY <1>4, <2>1 DEF FirstVerdict, SecondVerdict
    <3> QED BY <3>1, ResponsesAgain
  <2>2. CASE r.streamed = FALSE
    <3>1. /\ FirstVerdict(r, said) = Responses!Complete(r.request, said, held)
          /\ SecondVerdict(r, why, said) = Responses!CompleteAgain(why, said, held)
      BY <1>2, <1>4, <2>2 DEF FirstVerdict, SecondVerdict
    <3> QED BY <3>1, ResponsesAgain
  <2> QED BY <1>1, <2>1, <2>2
<1>5. CASE r.protocol = "anthropic"
  <2>1. CASE r.streamed = TRUE
    <3>1. /\ FirstVerdict(r, said) = Anthropic!Stream(r.request, said)
          /\ SecondVerdict(r, why, said) = Anthropic!StreamAgain(said)
      BY <1>5, <2>1 DEF FirstVerdict, SecondVerdict
    <3> QED BY <3>1, AnthropicAgain
  <2>2. CASE r.streamed = FALSE
    <3>1. /\ FirstVerdict(r, said) = Anthropic!Complete(r.request, said, held)
          /\ SecondVerdict(r, why, said) = Anthropic!CompleteAgain(why, said, held)
      BY <1>2, <1>5, <2>2 DEF FirstVerdict, SecondVerdict
    <3> QED BY <3>1, AnthropicAgain
  <2> QED BY <1>1, <2>1, <2>2
<1> QED BY <1>1, <1>3, <1>4, <1>5

\* What the payload of an adapter asks for, and where the adapter refuses instead.
Asked(r, payload) ==
  /\ payload.failure = NoFailure =>
       payload.schema = r.request.schema /\ payload.reasoning = LevelOf(r)
  /\ payload.failure # NoFailure =>
       r.protocol = "anthropic" /\ (r.request.schema \/ LevelOf(r) \ Anthropic!KnownBudgets # {})

LEMMA PayloadAsked ==
  ASSUME NEW r \in Rounds
  PROVE  /\ Asked(r, Payload(r))
         /\ StripReasoning(r, Payload(r)) = [Payload(r) EXCEPT !.reasoning = {}]
         /\ StripReasoning(r, Payload(r)).schema = Payload(r).schema
<1>1. r.protocol \in {"openai", "responses", "anthropic"} /\ r.request.schema \in {TRUE, FALSE}
  BY RoundsAssumption DEF Protocols
<1>2. PICK request, level, asked :
        request = r.request /\ level = request.level /\ asked = LevelOf(r)
  OBVIOUS
<1>3. CASE r.protocol = "openai"
  <2>1. Payload(r) = OpenAi!Payload(request)
    BY <1>2, <1>3 DEF Payload
  <2>2. asked = IF ReasoningOverride(level) THEN {level} ELSE {}
    BY <1>2, <1>3 DEF LevelOf, ReasoningOverride
  <2>3. /\ OpenAi!Payload(request).failure = NoFailure
        /\ OpenAi!Payload(request).schema = request.schema
        /\ OpenAi!Payload(request).reasoning = asked
    BY <1>2, <2>2, OverrideAgrees
       DEF OpenAi!Payload, OpenAi!HasReasoning, OpenAi!NoFailure, NoFailure, OpenAi!Failure, Failure,
           OpenAi!NoHint, NoHint
  <2>4. StripReasoning(r, Payload(r)) = [Payload(r) EXCEPT !.reasoning = {}]
    BY <1>3 DEF StripReasoning, OpenAi!StripReasoning
  <2>5. StripReasoning(r, Payload(r)).schema = Payload(r).schema
    BY <2>1, <2>4 DEF OpenAi!Payload
  <2>6. Asked(r, Payload(r))
    BY <1>2, <2>1, <2>3 DEF Asked
  <2> QED BY <2>4, <2>5, <2>6
<1>4. CASE r.protocol = "responses"
  <2>1. Payload(r) = Responses!Payload(request)
    BY <1>2, <1>4 DEF Payload
  <2>2. asked = IF ReasoningOverride(level) THEN {level} ELSE {}
    BY <1>2, <1>4 DEF LevelOf, ReasoningOverride
  <2>3. /\ Responses!Payload(request).failure = NoFailure
        /\ Responses!Payload(request).schema = request.schema
        /\ Responses!Payload(request).reasoning = asked
    BY <1>2, <2>2, OverrideAgrees
       DEF Responses!Payload, Responses!HasReasoning, Responses!NoFailure, NoFailure,
           Responses!Failure, Failure, Responses!NoHint, NoHint
  <2>4. StripReasoning(r, Payload(r)) = [Payload(r) EXCEPT !.reasoning = {}]
    BY <1>4 DEF StripReasoning, Responses!StripReasoning
  <2>5. StripReasoning(r, Payload(r)).schema = Payload(r).schema
    BY <2>1, <2>4 DEF Responses!Payload
  <2>6. Asked(r, Payload(r))
    BY <1>2, <2>1, <2>3 DEF Asked
  <2> QED BY <2>4, <2>5, <2>6
<1>5. CASE r.protocol = "anthropic"
  <2>1. Payload(r) = Anthropic!Payload(request)
    BY <1>2, <1>5 DEF Payload
  <2>2. asked = IF ReasoningOverride(level) /\ level # "none" THEN {level} ELSE {}
    BY <1>2, <1>5 DEF LevelOf, ReasoningOverride
  <2>3. /\ Anthropic!Payload(request).failure = NoFailure =>
             /\ Anthropic!Payload(request).schema = request.schema
             /\ Anthropic!Payload(request).reasoning = asked
        /\ Anthropic!Payload(request).failure # NoFailure =>
             request.schema \/ asked \ Anthropic!KnownBudgets # {}
    <3>1. PICK known : known = Anthropic!KnownBudgets
      OBVIOUS
    <3>2. "none" \notin known
      BY <3>1 DEF Anthropic!KnownBudgets
    <3>3. CASE request.schema
      <4>1. Anthropic!Payload(request).failure # NoFailure
        BY <3>3 DEF Anthropic!Payload, Anthropic!Failure, NoFailure, Failure
      <4> QED BY <3>3, <4>1
    <3>4. CASE ~request.schema /\ ~ReasoningOverride(level)
      <4>1. /\ Anthropic!Payload(request).failure = NoFailure
            /\ Anthropic!Payload(request).schema = FALSE
            /\ Anthropic!Payload(request).reasoning = {}
        BY <1>2, <3>4, OverrideAgrees
           DEF Anthropic!Payload, Anthropic!HasReasoning, Failure, NoFailure, NoHint,
               Anthropic!Failure, Anthropic!NoFailure, Anthropic!NoHint
      <4> QED BY <1>1, <1>2, <2>2, <3>4, <4>1
    <3>5. CASE ~request.schema /\ ReasoningOverride(level)
      <4>1. /\ Anthropic!Payload(request).failure = Anthropic!Thinking(level).failure
            /\ Anthropic!Payload(request).schema = FALSE
            /\ Anthropic!Payload(request).reasoning = Anthropic!Thinking(level).block
        BY <1>2, <3>5, OverrideAgrees DEF Anthropic!Payload, Anthropic!HasReasoning
      <4>2. CASE level = "none"
        <5>1. Anthropic!Thinking(level).failure = NoFailure /\ Anthropic!Thinking(level).block = {}
          BY <3>1, <3>2, <4>2 DEF Anthropic!Thinking, Failure, NoFailure, NoHint, Anthropic!Failure,
                      Anthropic!NoFailure, Anthropic!NoHint
        <5> QED BY <1>1, <1>2, <2>2, <3>5, <4>1, <4>2, <5>1
      <4>3. CASE level # "none" /\ level \in known
        <5>1. Anthropic!Thinking(level).failure = NoFailure /\ Anthropic!Thinking(level).block = {level}
          BY <3>1, <4>3 DEF Anthropic!Thinking, Failure, NoFailure, NoHint, Anthropic!Failure,
                      Anthropic!NoFailure, Anthropic!NoHint
        <5> QED BY <1>1, <1>2, <2>2, <3>5, <4>1, <4>3, <5>1
      <4>4. CASE level # "none" /\ level \notin known
        <5>1. Anthropic!Thinking(level).failure # NoFailure
          BY <3>1, <4>4 DEF Anthropic!Thinking, Failure, NoFailure, Anthropic!Failure
        <5> QED BY <2>2, <3>1, <3>5, <4>1, <4>4, <5>1
      <4> QED BY <4>2, <4>3, <4>4
    <3> QED BY <3>3, <3>4, <3>5
  <2>4. StripReasoning(r, Payload(r)) = [Payload(r) EXCEPT !.reasoning = {}]
    BY <1>5 DEF StripReasoning, Anthropic!StripReasoning
  <2>5. StripReasoning(r, Payload(r)).schema = Payload(r).schema
    BY <2>1, <2>4 DEF Anthropic!Payload
  <2>6. Asked(r, Payload(r))
    BY <1>2, <1>5, <2>1, <2>3 DEF Asked
  <2> QED BY <2>4, <2>5, <2>6
<1> QED BY <1>1, <1>3, <1>4, <1>5


\* What was sent: nothing, the payload, or the payload and then what is left of it
\* without the level; and the cause says which.
Retried(r) == <<Payload(r), StripReasoning(r, Payload(r))>>

RequestInv ==
  /\ round \in Rounds
  /\ cause \in {"none", "empty", "refused"}
  /\ \/ pc = "start" /\ sent = <<>> /\ cause = "none"
     \/ /\ pc = "done" /\ Payload(round).failure # NoFailure
        /\ sent = <<>> /\ cause = "none" /\ result.kind = "failure"
     \/ /\ pc # "start" /\ Payload(round).failure = NoFailure
        /\ sent = <<Payload(round)>> /\ cause = "none"
     \/ /\ pc # "start" /\ Payload(round).failure = NoFailure
        /\ sent = Retried(round) /\ cause # "none"
        /\ ReasoningOverride(round.request.level)

LEMMA RequestsAsAsked ==
  ASSUME RequestInv
  PROVE  LevelsAsAsked
<1>1. round \in Rounds
  BY DEF RequestInv
<1>2. PICK payload, level, schema, asked :
        payload = Payload(round) /\ level = round.request.level /\ schema = round.request.schema
          /\ asked = LevelOf(round)
  OBVIOUS
<1>3. PICK again : again = StripReasoning(round, payload)
  OBVIOUS
<1>4. payload.failure = NoFailure =>
        /\ payload.schema = schema /\ payload.reasoning = asked
        /\ again = [payload EXCEPT !.reasoning = {}] /\ again.schema = schema
  BY <1>1, <1>2, <1>3, PayloadAsked DEF Asked
<1>5. CASE sent = <<>>
  <2>1. Len(sent) = 0 /\ DOMAIN sent = {}
    BY <1>5
  <2>2. pc # "start" => result.kind = "failure" /\ payload.failure # NoFailure
    <3>1. <<payload>> # <<>> /\ <<payload, again>> # <<>>
      OBVIOUS
    <3> QED BY <1>2, <1>3, <1>5, <3>1, Zenon DEF RequestInv, Retried
  <2>3. payload.failure # NoFailure =>
          round.protocol = "anthropic" /\ (schema \/ asked \ Anthropic!KnownBudgets # {})
    BY <1>1, <1>2, PayloadAsked DEF Asked
  <2> QED BY <1>2, <1>5, <2>1, <2>2, <2>3 DEF LevelsAsAsked
<1>6. CASE payload.failure = NoFailure /\ sent = <<payload>>
  <2>1. Len(sent) = 1 /\ DOMAIN sent = {1} /\ sent[1] = payload /\ sent # <<>>
    BY <1>6
  <2> QED BY <1>2, <1>4, <1>6, <2>1 DEF LevelsAsAsked
<1>7. CASE payload.failure = NoFailure /\ sent = <<payload, again>> /\ ReasoningOverride(level)
  <2>1. Len(sent) = 2 /\ DOMAIN sent = {1, 2} /\ sent[1] = payload /\ sent[2] = again /\ sent # <<>>
    BY <1>7
  <2>2. level \notin {"default", "absent"}
    BY <1>7 DEF ReasoningOverride
  <2> QED BY <1>2, <1>4, <1>7, <2>1, <2>2 DEF LevelsAsAsked
<1> QED BY <1>2, <1>3, <1>5, <1>6, <1>7 DEF RequestInv, Retried

LEMMA RequestQuiet ==
  ASSUME RequestInv, UNCHANGED <<round, sent, cause>>,
         UNCHANGED <<pc, result>> \/ (sent # <<>> /\ pc' # "start")
  PROVE  RequestInv'
<1>1. Payload(round)' = Payload(round) /\ Retried(round)' = Retried(round)
  BY DEF Payload, Retried, StripReasoning
<1> QED BY <1>1 DEF RequestInv

LEMMA AppendOne ==
  ASSUME NEW a, NEW b
  PROVE  Append(<<a>>, b) = <<a, b>> /\ <<a>> # <<>> /\ <<a, b>> # <<>>
<1>1. PICK s, t, u, S : s = <<a>> /\ t = <<a, b>> /\ u = Append(s, b) /\ S = {a, b}
  OBVIOUS
<1>2. /\ s \in Seq(S) /\ Len(s) = 1 /\ s[1] = a
      /\ t \in Seq(S) /\ Len(t) = 2 /\ t[1] = a /\ t[2] = b
  BY <1>1
<1>3. u \in Seq(S) /\ Len(u) = 2 /\ u[1] = a /\ u[2] = b
  <2>1. b \in S
    BY <1>1
  <2> QED BY <1>1, <1>2, <2>1, AppendProperties
<1>4. \A i \in 1 .. 2 : i = 1 \/ i = 2
  OBVIOUS
<1>5. u = t
  <2>1. \A i \in 1 .. 2 : u[i] = t[i]
    BY <1>2, <1>3, <1>4
  <2>2. u \in Seq(S) /\ t \in Seq(S) /\ Len(u) = Len(t) /\ Len(u) = 2
    BY <1>2, <1>3
  <2>3. \A i \in 1 .. Len(u) : u[i] = t[i]
    BY <2>1, <2>2, Zenon
  <2> QED BY <2>2, <2>3, SeqEqual, Zenon
<1>6. Len(<<>>) = 0
  OBVIOUS
<1>7. s # <<>> /\ t # <<>>
  <2>1. Len(s) # Len(<<>>) /\ Len(t) # Len(<<>>)
    BY <1>2, <1>6
  <2> QED BY <2>1, Zenon
<1> QED BY <1>1, <1>5, <1>7

LEMMA RequestHear ==
  ASSUME RequestInv, Hear
  PROVE  RequestInv'
<1> DEFINE verdict == IF cause = "none" THEN FirstVerdict(round, reply')
                      ELSE SecondVerdict(round, cause, reply')
<1>1. round \in Rounds /\ round' = round /\ pc = "asked" /\ Follow(verdict)
  BY DEF RequestInv, Hear
<1>2. /\ verdict.kind \in {"answer", "failure", "retry", "read"}
      /\ verdict.kind = "retry" => verdict.cause \in {"empty", "refused"}
  BY FirstVerdicts, SecondVerdicts DEF Verdict, Formed, RequestInv
<1>3. verdict.kind = "retry" => cause = "none" /\ ReasoningOverride(round.request.level)
  BY <1>1, VerdictsAgain DEF Again
<1> HIDE DEF verdict
<1>4. CASE verdict.kind = "retry"
  <2>1. /\ sent' = Append(sent, StripReasoning(round, sent[1])) /\ cause' = verdict.cause
        /\ pc' = pc
    BY <1>1, <1>4 DEF Follow
  <2>2. Payload(round).failure = NoFailure /\ sent = <<Payload(round)>>
    BY <1>1, <1>3, <1>4 DEF RequestInv
  <2>3. sent' = Retried(round)
    <3>1. PICK payload : payload = Payload(round) /\ sent = <<payload>>
      BY <2>2
    <3>2. sent[1] = payload
      BY <3>1
    <3>3. PICK again : again = StripReasoning(round, payload)
      OBVIOUS
    <3>4. Append(<<payload>>, again) = <<payload, again>>
      BY AppendOne
    <3> QED BY <2>1, <3>1, <3>2, <3>3, <3>4, Zenon DEF Retried
  <2>4. cause' \in {"empty", "refused"} /\ pc' # "start"
    BY <1>1, <1>2, <1>4, <2>1
  <2> QED BY <1>1, <1>3, <1>4, <2>2, <2>3, <2>4 DEF RequestInv, Payload, Retried, StripReasoning
<1>5. CASE verdict.kind \in {"answer", "failure", "read"}
  <2>1. UNCHANGED <<sent, cause>> /\ pc' \in {"reading", "done"}
    BY <1>1, <1>5 DEF Follow, Fail, Return
  <2>2. sent # <<>>
    BY <1>1, AppendOne, Zenon DEF RequestInv, Retried
  <2> QED BY <1>1, <2>1, <2>2, RequestQuiet
<1> QED BY <1>2, <1>4, <1>5

LEMMA RequestStart == Init => RequestInv
BY DEF Init, RequestInv

LEMMA RequestUnderway ==
  ASSUME RequestInv, pc \in {"asked", "reading"}
  PROVE  sent # <<>>
<1>1. <<Payload(round)>> # <<>> /\ Retried(round) # <<>>
  BY AppendOne, Zenon DEF Retried
<1> QED BY <1>1, Zenon DEF RequestInv

LEMMA RequestStep ==
  ASSUME RequestInv, [Next]_vars
  PROVE  RequestInv'
<1>1. CASE Begin
  <2>1. /\ pc = "start" /\ UNCHANGED <<round, cause>>
        /\ \/ /\ pc' = "done" /\ sent' = sent /\ result'.kind = "failure"
              /\ Payload(round).failure # NoFailure
           \/ pc' = "asked" /\ sent' = <<Payload(round)>> /\ Payload(round).failure = NoFailure
    BY <1>1 DEF Begin, Fail, Return
  <2>2. round' = round /\ round \in Rounds /\ cause' = "none" /\ Payload(round)' = Payload(round)
    <3>1. round' = round /\ round \in Rounds /\ Payload(round)' = Payload(round)
      BY <2>1 DEF RequestInv, Payload
    <3>2. cause = "none"
      BY <2>1 DEF RequestInv
    <3> QED BY <2>1, <3>1, <3>2
  <2>3. sent = <<>>
    BY <2>1 DEF RequestInv
  <2> QED BY <2>1, <2>2, <2>3 DEF RequestInv
<1>2. CASE Hear
  BY <1>2, RequestHear
<1>3. CASE \E n \in 1 .. MaxChunk : ReadChunk(n)
  <2>1. UNCHANGED <<round, sent, cause>> /\ pc = "reading" /\ pc' \in {pc, "done"}
    BY <1>3 DEF ReadChunk, Undisturbed, Polling, AfterReading, Fail, Return, httpVars
  <2> QED BY <2>1, RequestUnderway, RequestQuiet
<1>4. CASE ReadEnd
  <2>1. UNCHANGED <<round, sent, cause>> /\ pc = "reading" /\ pc' \in {pc, "done"}
    BY <1>4 DEF ReadEnd, Undisturbed, Polling, AfterReading, Fail, Return, httpVars
  <2> QED BY <2>1, RequestUnderway, RequestQuiet
<1>5. CASE ReadFault \/ NextCall \/ Interrupt \/ Send \/ Overrun
  <2>1. /\ UNCHANGED <<round, sent, cause>> /\ pc \in {"asked", "reading"}
        /\ pc' \in {pc, "done"}
    BY <1>5 DEF ReadFault, NextCall, Interrupt, Send, Overrun, Undisturbed, Polling, Fail, Return,
                httpVars
  <2> QED BY <2>1, RequestUnderway, RequestQuiet
<1>6. CASE RequestStop \/ Leave \/ UNCHANGED vars
  <2>1. UNCHANGED <<round, sent, cause, pc, result>>
    BY <1>6 DEF RequestStop, Leave, vars, httpVars
  <2> QED BY <2>1, RequestQuiet
<1> QED BY <1>1, <1>2, <1>3, <1>4, <1>5, <1>6 DEF Next

\* A request asks for the schema and the level it was given or is not sent, the second
\* request of a round leaves out the level and nothing else, and there is no third,
\* however often the service refuses.
THEOREM LevelsKept == Spec => []LevelsAsAsked
<1>1. RequestInv /\ [Next]_vars => RequestInv'
  BY RequestStep
<1> QED BY <1>1, RequestStart, RequestsAsAsked, PTL DEF Spec


-----------------------------------------------------------------------------
(* What a request says.                                                    *)

\* What can be said of messages.
Sayings(M) ==
  {Said("result", m.call) : m \in M} \cup {Said(m.role, m.text) : m \in M}
    \cup UNION {{Said("call", m.calls[i]) : i \in DOMAIN m.calls} : m \in M}

Messages(M) ==
  \A m \in M : /\ m.role \in {"system", "user", "assistant", "tool"}
               /\ m.calls \in Seq(ToSet(m.calls))

\* The functions whose results are put together: an adapter sends the items of every message
\* or of all but the system ones, and a service hears some kinds of them.
Sent(M) == [m \in M |-> MessageItems(m)]
Spoken(M) == [m \in M |-> IF m.role # "system" THEN MessageItems(m) ELSE <<>>]
Speakers(M) == [m \in M |-> IF m.role # "system" THEN <<m>> ELSE <<>>]
Ear(X, kinds) == [x \in X |-> IF x.kind \in kinds THEN <<x>> ELSE <<>>]

TextKinds == {"user", "assistant"}
OpeningOf(m) == IF HasText(m) THEN <<Said("assistant", m.text)>> ELSE <<>>

LEMMA ItemsAre ==
  ASSUME NEW m
  PROVE  /\ m.role = "tool" => MessageItems(m) = <<Said("result", m.call)>>
         /\ m.role = "assistant" /\ m.calls # <<>> => MessageItems(m) = OpeningOf(m) \o CallsOf(m)
         /\ m.role # "tool" /\ ~(m.role = "assistant" /\ m.calls # <<>>) =>
              MessageItems(m) = <<Said(m.role, m.text)>>
<1>1. CASE m.role = "tool"
  BY <1>1 DEF MessageItems
<1>2. CASE m.role = "assistant" /\ m.calls # <<>>
  <2>1. m.role # "tool"
    BY <1>2
  <2>2. MessageItems(m) = OpeningOf(m) \o CallsOf(m)
    BY <1>2, <2>1, Zenon DEF MessageItems, OpeningOf, CallsOf, HasText
  <2> QED BY <1>2, <2>1, <2>2
<1>3. CASE m.role # "tool" /\ ~(m.role = "assistant" /\ m.calls # <<>>)
  BY <1>3, Zenon DEF MessageItems
<1> QED BY <1>1, <1>2, <1>3

LEMMA EarType ==
  ASSUME NEW X, NEW kinds
  PROVE  Ear(X, kinds) \in [X -> Seq(X)]
<1>1. \A x \in X : <<x>> \in Seq(X)
  OBVIOUS
<1>2. <<>> \in Seq(X)
  BY EmptySeq
<1> QED BY <1>1, <1>2 DEF Ear

LEMMA EarOne ==
  ASSUME NEW X, NEW kinds, NEW x \in X
  PROVE  Gathered(<<x>>, Ear(X, kinds)) = IF x.kind \in kinds THEN <<x>> ELSE <<>>
<1>1. PICK e : e = Ear(X, kinds)
  OBVIOUS
<1>2. e \in [X -> Seq(X)]
  BY <1>1, EarType
<1>3. Gathered(<<x>>, e) = e[x]
  BY <1>2, GatheredOne
<1> QED BY <1>1, <1>3, Zenon DEF Ear

\* Of items of one kind all are heard or none.
LEMMA EarAll ==
  ASSUME NEW X, NEW kinds, NEW kind, NEW s \in Seq(X), \A i \in 1 .. Len(s) : s[i].kind = kind
  PROVE  Gathered(s, Ear(X, kinds)) = IF kind \in kinds THEN s ELSE <<>>
<1>1. PICK e : e = Ear(X, kinds)
  OBVIOUS
<1>2. e \in [X -> Seq(X)]
  BY <1>1, EarType
<1>3. \A i \in 1 .. Len(s) : s[i] \in X
  BY ElementOfSeq
<1>4. \A i \in 1 .. Len(s) : e[s[i]] = IF kind \in kinds THEN <<s[i]>> ELSE <<>>
  BY <1>1, <1>3, Zenon DEF Ear
<1>5. CASE kind \in kinds
  <2>1. \A i \in 1 .. Len(s) : e[s[i]] = <<s[i]>>
    BY <1>4, <1>5
  <2>2. Gathered(s, e) = s
    BY <1>2, <2>1, GatheredSame
  <2> QED BY <1>1, <1>5, <2>2, Zenon
<1>6. CASE kind \notin kinds
  <2>1. \A i \in 1 .. Len(s) : e[s[i]] = <<>>
    BY <1>4, <1>6
  <2>2. Gathered(s, e) = IF s = <<>> THEN <<>> ELSE e[s[1]]
    <3>1. AfterFirst(s, e)
      BY <2>1 DEF AfterFirst
    <3> QED BY <1>2, <3>1, GatheredFirst
  <2>3. s # <<>> => e[s[1]] = <<>>
    <3>1. s # <<>> => 1 \in 1 .. Len(s)
      BY EmptySeq
    <3> QED BY <2>1, <3>1
  <2> QED BY <1>1, <1>6, <2>2, <2>3, Zenon
<1> QED BY <1>5, <1>6

LEMMA CallsType ==
  ASSUME NEW M, Messages(M), NEW m \in M, NEW X, X = Sayings(M)
  PROVE  /\ CallsOf(m) \in Seq(X) /\ \A i \in 1 .. Len(CallsOf(m)) : CallsOf(m)[i].kind = "call"
         /\ m.calls = <<>> => CallsOf(m) = <<>>
<1>1. PICK calls, n, told :
        calls = m.calls /\ n = Len(calls) /\ told = [i \in DOMAIN calls |-> Said("call", calls[i])]
  OBVIOUS
<1>2. calls \in Seq(ToSet(calls))
  BY <1>1 DEF Messages
<1>3. n \in Nat /\ DOMAIN calls = 1 .. n
  BY <1>1, <1>2, LenProperties
<1>4. \A i \in 1 .. n : Said("call", calls[i]) \in X /\ Said("call", calls[i]).kind = "call"
  <2>1. \A i \in DOMAIN calls : Said("call", calls[i]) \in X
    BY <1>1 DEF Sayings
  <2>2. \A i \in 1 .. n : Said("call", calls[i]).kind = "call"
    BY DEF Said
  <2> QED BY <1>3, <2>1, <2>2
<1>5. told \in [1 .. n -> X]
  BY <1>1, <1>3, <1>4
<1>6. /\ told \in Seq(X) /\ Len(told) = n /\ \A i \in 1 .. n : told[i].kind = "call"
      /\ calls = <<>> => told = <<>>
  <2>1. told \in Seq(X) /\ Len(told) = n
    BY <1>3, <1>5
  <2>2. \A i \in 1 .. n : told[i].kind = "call"
    BY <1>1, <1>3, <1>4
  <2>3. calls = <<>> => told = <<>>
    BY <1>1, <2>1
  <2> QED BY <2>1, <2>2, <2>3
<1>7. CASE m.role = "assistant"
  <2>1. CallsOf(m) = told
    BY <1>1, <1>7, Zenon DEF CallsOf
  <2> QED BY <1>1, <1>6, <2>1
<1>8. CASE m.role # "assistant"
  <2>1. PICK none : none = <<>>
    OBVIOUS
  <2>2. none \in Seq(X) /\ Len(none) = 0
    BY <2>1, EmptySeq
  <2>3. CallsOf(m) = none
    BY <1>8, <2>1, Zenon DEF CallsOf
  <2> QED BY <2>1, <2>2, <2>3
<1> QED BY <1>7, <1>8

LEMMA MessageSays ==
  ASSUME NEW M, Messages(M), NEW m \in M, NEW X, X = Sayings(M)
  PROVE  MessageItems(m) \in Seq(X) /\ (m.role = "assistant" => OpeningOf(m) \in Seq(X))
<1>1. Said("result", m.call) \in X /\ Said(m.role, m.text) \in X
  BY DEF Sayings
<1>2. ASSUME NEW Y, NEW y \in Y PROVE <<y>> \in Seq(Y) /\ <<>> \in Seq(Y)
  BY <1>2
<1>3. m.role = "assistant" => OpeningOf(m) \in Seq(X)
  BY <1>1, <1>2, Zenon DEF OpeningOf
<1>4. CASE m.role = "tool"
  BY <1>1, <1>2, <1>3, <1>4, ItemsAre, Zenon
<1>5. CASE m.role = "assistant" /\ m.calls # <<>>
  <2>1. MessageItems(m) = OpeningOf(m) \o CallsOf(m)
    BY <1>5, ItemsAre
  <2>2. OpeningOf(m) \o CallsOf(m) \in Seq(X)
    BY <1>3, <1>5, CallsType, ConcatProperties
  <2> QED BY <1>3, <2>1, <2>2, Zenon
<1>6. CASE m.role # "tool" /\ ~(m.role = "assistant" /\ m.calls # <<>>)
  BY <1>1, <1>2, <1>3, <1>6, ItemsAre, Zenon
<1> QED BY <1>4, <1>5, <1>6

\* What is heard of a message: its text, its calls, its result, its order.
LEMMA MessageHeard ==
  ASSUME NEW M, Messages(M), NEW m \in M, NEW X, X = Sayings(M), NEW s, s = MessageItems(m)
  PROVE  /\ Gathered(s, Ear(X, TextKinds)) = TextOf(m)
         /\ Gathered(s, Ear(X, {"call"})) = CallsOf(m)
         /\ Gathered(s, Ear(X, {"result"})) = ResultOf(m)
         /\ Gathered(s, Ear(X, {"system"})) = IF m.role = "system" THEN <<Said(m.role, m.text)>> ELSE <<>>
<1>1. m.role \in {"system", "user", "assistant", "tool"}
  BY DEF Messages
<1>2. \A kind, about : Said(kind, about).kind = kind
  BY DEF Said
<1>3. Said("result", m.call) \in X /\ Said(m.role, m.text) \in X
  BY DEF Sayings
<1>4. m.role # "assistant" => CallsOf(m) = <<>>
  BY Zenon DEF CallsOf
<1>5. m.calls = <<>> => CallsOf(m) = <<>>
  BY CallsType
<1>6. CASE m.role = "tool"
  <2>1. PICK x : x = Said("result", m.call)
    OBVIOUS
  <2>2. s = <<x>> /\ x \in X /\ x.kind = "result"
    BY <1>2, <1>3, <1>6, <2>1, ItemsAre
  <2>3. TextOf(m) = <<>> /\ ResultOf(m) = <<x>>
    BY <1>6, <2>1, Zenon DEF TextOf, ResultOf
  <2>4. \A kinds : Gathered(s, Ear(X, kinds)) = IF "result" \in kinds THEN <<x>> ELSE <<>>
    <3> SUFFICES ASSUME NEW kinds
                 PROVE  Gathered(s, Ear(X, kinds)) = IF "result" \in kinds THEN <<x>> ELSE <<>>
      OBVIOUS
    <3>1. Gathered(<<x>>, Ear(X, kinds)) = IF x.kind \in kinds THEN <<x>> ELSE <<>>
      BY <2>2, EarOne
    <3> QED BY <2>2, <3>1, Zenon
  <2>5. "result" \notin TextKinds /\ "result" \notin {"call"} /\ "result" \notin {"system"}
        /\ "result" \in {"result"}
    BY DEF TextKinds
  <2>6. m.role # "assistant" /\ m.role # "system"
    BY <1>6
  <2> QED BY <1>4, <2>3, <2>4, <2>5, <2>6, Zenon
<1>7. CASE m.role = "assistant" /\ m.calls # <<>>
  <2>1. PICK a, b : a = OpeningOf(m) /\ b = CallsOf(m)
    OBVIOUS
  <2>2. s = a \o b /\ a \in Seq(X) /\ b \in Seq(X)
    BY <1>7, <2>1, ItemsAre, MessageSays, CallsType
  <2>3. PICK x : x = Said(m.role, m.text)
    OBVIOUS
  <2>4. x \in X /\ x.kind = "assistant"
    BY <1>2, <1>3, <1>7, <2>3
  <2>5. a = TextOf(m)
    <3>1. m.role # "user"
      BY <1>7
    <3> QED BY <1>7, <2>1, <3>1, Zenon DEF OpeningOf, TextOf
  <2>6. a \in {<<>>, <<x>>}
    BY <1>7, <2>1, <2>3, Zenon DEF OpeningOf
  <2>7. \A i \in 1 .. Len(a) : a[i].kind = "assistant"
    <3>1. Len(<<x>>) = 1 /\ <<x>>[1] = x /\ Len(<<>>) = 0
      OBVIOUS
    <3>2. CASE a = <<>>
      BY <3>1, <3>2
    <3>3. CASE a = <<x>>
      BY <2>4, <3>1, <3>3
    <3> QED BY <2>6, <3>2, <3>3
  <2>8. \A kinds : Gathered(a, Ear(X, kinds)) = IF "assistant" \in kinds THEN a ELSE <<>>
    <3> SUFFICES ASSUME NEW kinds
                 PROVE  Gathered(a, Ear(X, kinds)) = IF "assistant" \in kinds THEN a ELSE <<>>
      OBVIOUS
    <3> QED BY <2>2, <2>7, EarAll
  <2>9. \A kinds : Gathered(b, Ear(X, kinds)) = IF "call" \in kinds THEN b ELSE <<>>
    <3> SUFFICES ASSUME NEW kinds
                 PROVE  Gathered(b, Ear(X, kinds)) = IF "call" \in kinds THEN b ELSE <<>>
      OBVIOUS
    <3>1. \A i \in 1 .. Len(b) : b[i].kind = "call"
      BY <2>1, CallsType
    <3> QED BY <2>2, <3>1, EarAll
  <2>a. \A kinds : Gathered(s, Ear(X, kinds)) = Gathered(a, Ear(X, kinds)) \o Gathered(b, Ear(X, kinds))
    <3> SUFFICES ASSUME NEW kinds
                 PROVE  Gathered(s, Ear(X, kinds)) = Gathered(a, Ear(X, kinds)) \o Gathered(b, Ear(X, kinds))
      OBVIOUS
    <3>1. PICK e : e = Ear(X, kinds)
      OBVIOUS
    <3>2. e \in [X -> Seq(X)]
      BY <3>1, EarType
    <3>3. Gathered(s, e) = Gathered(a, e) \o Gathered(b, e)
      BY <2>2, <3>2, GatheredConcat, Zenon
    <3> QED BY <3>1, <3>3, Zenon
  <2>b. a \o <<>> = a /\ <<>> \o b = b /\ <<>> \o <<>> = <<>>
    BY <2>2, ConcatEmptySeq, EmptySeq
  <2>c. /\ "assistant" \in TextKinds /\ "call" \notin TextKinds
        /\ "assistant" \notin {"call"} /\ "call" \in {"call"}
        /\ "assistant" \notin {"result"} /\ "call" \notin {"result"}
        /\ "assistant" \notin {"system"} /\ "call" \notin {"system"}
    BY DEF TextKinds
  <2>d. m.role # "tool" /\ m.role # "system"
    BY <1>7
  <2>e. ResultOf(m) = <<>>
    BY <2>d, Zenon DEF ResultOf
  <2>f. Gathered(s, Ear(X, TextKinds)) = a
    BY <2>8, <2>9, <2>a, <2>b, <2>c, Zenon
  <2>g. Gathered(s, Ear(X, {"call"})) = b
    BY <2>8, <2>9, <2>a, <2>b, <2>c, Zenon
  <2>h. Gathered(s, Ear(X, {"result"})) = <<>> /\ Gathered(s, Ear(X, {"system"})) = <<>>
    BY <2>8, <2>9, <2>a, <2>b, <2>c, Zenon
  <2> QED BY <2>1, <2>5, <2>d, <2>e, <2>f, <2>g, <2>h, Zenon
<1>8. CASE m.role # "tool" /\ ~(m.role = "assistant" /\ m.calls # <<>>)
  <2>1. PICK x, role : x = Said(m.role, m.text) /\ role = m.role
    OBVIOUS
  <2>2. s = <<x>> /\ x \in X /\ x.kind = role
    BY <1>2, <1>3, <1>8, <2>1, ItemsAre
  <2>3. role \in {"system", "user", "assistant"}
    BY <1>1, <1>8, <2>1
  <2>4. CallsOf(m) = <<>>
    BY <1>4, <1>5, <1>8, Zenon
  <2>5. ResultOf(m) = <<>>
    BY <1>8, Zenon DEF ResultOf
  <2>6. \A kinds : Gathered(s, Ear(X, kinds)) = IF role \in kinds THEN <<x>> ELSE <<>>
    <3> SUFFICES ASSUME NEW kinds
                 PROVE  Gathered(s, Ear(X, kinds)) = IF role \in kinds THEN <<x>> ELSE <<>>
      OBVIOUS
    <3>1. Gathered(<<x>>, Ear(X, kinds)) = IF x.kind \in kinds THEN <<x>> ELSE <<>>
      BY <2>2, EarOne
    <3> QED BY <2>2, <3>1, Zenon
  <2>7. role \notin {"call"} /\ role \notin {"result"} /\ (role \in {"system"} <=> role = "system")
        /\ (role \in TextKinds <=> role # "system")
    BY <2>3 DEF TextKinds
  <2>8. TextOf(m) = IF role # "system" THEN <<x>> ELSE <<>>
    <3>1. role # "system" => m.role = "user" \/ (m.role = "assistant" /\ (HasText(m) \/ m.calls = <<>>))
      BY <1>8, <2>1, <2>3
    <3>2. role = "system" => ~(m.role = "user" \/ (m.role = "assistant" /\ (HasText(m) \/ m.calls = <<>>)))
      BY <2>1
    <3> QED BY <2>1, <3>1, <3>2, Zenon DEF TextOf
  <2> QED BY <2>1, <2>4, <2>5, <2>6, <2>7, <2>8, Zenon
<1> QED BY <1>6, <1>7, <1>8

LEMMA ThoseGathered ==
  ASSUME NEW s, NEW I, NEW f, \A i \in DOMAIN s : f[s[i]] = IF i \in I THEN <<s[i]>> ELSE <<>>
  PROVE  Those(s, I) = Gathered(s, f)
<1>1. PICK a : a = [i \in DOMAIN s |-> IF i \in I THEN <<s[i]>> ELSE <<>>]
  OBVIOUS
<1>2. Each(s, f) = a
  BY <1>1, Zenon DEF Each
<1> QED BY <1>1, <1>2, Zenon DEF Those, Gathered

LEMMA HeardGathered ==
  ASSUME NEW X, NEW s \in Seq(X), NEW kinds
  PROVE  Heard(s, kinds) = Gathered(s, Ear(X, kinds))
<1>1. PICK I, e : I = {k \in DOMAIN s : s[k].kind \in kinds} /\ e = Ear(X, kinds)
  OBVIOUS
<1>2. \A i \in DOMAIN s : s[i] \in X
  BY LenProperties, ElementOfSeq
<1>3. \A i \in DOMAIN s : e[s[i]] = IF i \in I THEN <<s[i]>> ELSE <<>>
  BY <1>1, <1>2, Zenon DEF Ear
<1>4. Those(s, I) = Gathered(s, e)
  BY <1>3, ThoseGathered
<1> QED BY <1>1, <1>4, Zenon DEF Heard

LEMMA OthersGathered ==
  ASSUME NEW M, NEW s \in Seq(M)
  PROVE  Others(s) = Gathered(s, Speakers(M))
<1>1. PICK I, f : I = {i \in DOMAIN s : s[i].role # "system"} /\ f = Speakers(M)
  OBVIOUS
<1>2. \A i \in DOMAIN s : s[i] \in M
  BY LenProperties, ElementOfSeq
<1>3. \A i \in DOMAIN s : f[s[i]] = IF i \in I THEN <<s[i]>> ELSE <<>>
  BY <1>1, <1>2, Zenon DEF Speakers
<1>4. Those(s, I) = Gathered(s, f)
  BY <1>3, ThoseGathered
<1> QED BY <1>1, <1>4, Zenon DEF Others

LEMMA ItemsGathered ==
  ASSUME NEW M, NEW s \in Seq(M)
  PROVE  Items(s) = Gathered(s, Sent(M))
<1>1. PICK f : f = Sent(M)
  OBVIOUS
<1>2. \A i \in DOMAIN s : s[i] \in M
  BY LenProperties, ElementOfSeq
<1>3. \A i \in DOMAIN s : f[s[i]] = MessageItems(s[i])
  BY <1>1, <1>2, Zenon DEF Sent
<1>4. Each(s, f) = [i \in DOMAIN s |-> MessageItems(s[i])]
  BY <1>3, Zenon DEF Each
<1> QED BY <1>1, <1>4, Zenon DEF Items, Gathered

LEMMA SentType ==
  ASSUME NEW M, Messages(M), NEW X, X = Sayings(M)
  PROVE  /\ Sent(M) \in [M -> Seq(X)] /\ Spoken(M) \in [M -> Seq(X)]
         /\ Speakers(M) \in [M -> Seq(M)]
<1>1. \A m \in M : MessageItems(m) \in Seq(X)
  BY MessageSays
<1>2. <<>> \in Seq(X) /\ <<>> \in Seq(M)
  BY EmptySeq
<1>3. \A m \in M : <<m>> \in Seq(M)
  OBVIOUS
<1>4. Sent(M) \in [M -> Seq(X)]
  BY <1>1 DEF Sent
<1>5. Spoken(M) \in [M -> Seq(X)]
  BY <1>1, <1>2 DEF Spoken
<1>6. Speakers(M) \in [M -> Seq(M)]
  BY <1>2, <1>3 DEF Speakers
<1> QED BY <1>4, <1>5, <1>6

LEMMA ItemsOthers ==
  ASSUME NEW M, Messages(M), NEW s \in Seq(M)
  PROVE  Items(Others(s)) = Gathered(s, Spoken(M)) /\ Others(s) \in Seq(M)
<1>1. PICK X, f, g, h : X = Sayings(M) /\ f = Speakers(M) /\ g = Sent(M) /\ h = Spoken(M)
  OBVIOUS
<1>2. f \in [M -> Seq(M)] /\ g \in [M -> Seq(X)] /\ h \in [M -> Seq(X)]
  BY <1>1, SentType
<1>3. ASSUME NEW m \in M PROVE h[m] = Gathered(f[m], g)
  <2>1. CASE m.role # "system"
    <3>1. f[m] = <<m>> /\ h[m] = g[m]
      BY <1>1, <2>1, Zenon DEF Speakers, Sent, Spoken
    <3>2. Gathered(<<m>>, g) = g[m]
      BY <1>2, GatheredOne
    <3> QED BY <3>1, <3>2, Zenon
  <2>2. CASE m.role = "system"
    <3>1. f[m] = <<>> /\ h[m] = <<>>
      BY <1>1, <2>2, Zenon DEF Speakers, Spoken
    <3> QED BY <3>1, GatheredNone, Zenon
  <2> QED BY <2>1, <2>2
<1>4. PICK t : t = Others(s)
  OBVIOUS
<1>5. t = Gathered(s, f)
  BY <1>1, <1>4, OthersGathered
<1>6. t \in Seq(M)
  <2>1. PICK a : a = Each(s, f)
    OBVIOUS
  <2>2. GatheredFrom(M, a, s, f)
    BY <1>2, <2>1, GatheredType
  <2> QED BY <1>5, <2>2 DEF GatheredFrom
<1>7. Items(t) = Gathered(t, g)
  BY <1>1, <1>6, ItemsGathered
<1>8. Gathered(Gathered(s, f), g) = Gathered(s, h)
  <2>1. Composed(M, M, X, f, g, h)
    BY <1>2, <1>3 DEF Composed
  <2> QED BY <2>1, GatheredThrough, SMT
<1> QED BY <1>1, <1>4, <1>5, <1>6, <1>7, <1>8, Zenon

\* What is heard of an input is what is heard of each of its messages.
HeardBy(M, X, f, kinds) == [m \in M |-> Gathered(f[m], Ear(X, kinds))]

LEMMA HeardOf ==
  ASSUME NEW M, NEW X, NEW f \in [M -> Seq(X)], NEW s \in Seq(M), NEW kinds,
         NEW input, input = Gathered(s, f), NEW h, h = HeardBy(M, X, f, kinds)
  PROVE  Heard(input, kinds) = Gathered(s, h) /\ h \in [M -> Seq(X)]
<1>0. h = [m \in M |-> Gathered(f[m], Ear(X, kinds))]
  BY DEF HeardBy
<1>1. PICK e : e = Ear(X, kinds)
  OBVIOUS
<1>2. e \in [X -> Seq(X)]
  BY <1>1, EarType
<1>3. ASSUME NEW m \in M PROVE h[m] = Gathered(f[m], e) /\ h[m] \in Seq(X)
  <2>1. PICK x, a : x = f[m] /\ a = Each(x, e)
    OBVIOUS
  <2>2. x \in Seq(X)
    BY <2>1
  <2>3. GatheredFrom(X, a, x, e)
    BY <1>2, <2>1, <2>2, GatheredType
  <2>4. h[m] = Gathered(x, e)
    BY <1>0, <1>1, <2>1, Zenon
  <2> QED BY <2>1, <2>3, <2>4, Zenon DEF GatheredFrom
<1>4. h \in [M -> Seq(X)]
  <2>1. DOMAIN h = M /\ h = [m \in M |-> h[m]]
    BY <1>0
  <2> QED BY <1>3, <2>1
<1>5. input \in Seq(X)
  <2>1. PICK a : a = Each(s, f)
    OBVIOUS
  <2>2. GatheredFrom(X, a, s, f)
    BY <2>1, GatheredType
  <2> QED BY <2>2 DEF GatheredFrom
<1>6. Heard(input, kinds) = Gathered(input, e)
  BY <1>1, <1>5, HeardGathered
<1>7. Gathered(Gathered(s, f), e) = Gathered(s, h)
  <2>1. Composed(M, X, X, f, e, h)
    BY <1>2, <1>3, <1>4 DEF Composed
  <2> QED BY <2>1, GatheredThrough, SMT
<1> QED BY <1>4, <1>6, <1>7, Zenon

\* An adapter sends of each message what there is to tell of it, system messages apart.
LEMMA MessageTold ==
  ASSUME NEW M, Messages(M), NEW f, f = Sent(M) \/ f = Spoken(M), NEW m \in M, NEW X, X = Sayings(M)
  PROVE  /\ Gathered(f[m], Ear(X, TextKinds)) = TextOf(m)
         /\ Gathered(f[m], Ear(X, {"call"})) = CallsOf(m)
         /\ Gathered(f[m], Ear(X, {"result"})) = ResultOf(m)
<1>1. CASE f[m] = MessageItems(m)
  BY <1>1, MessageHeard
<1>2. CASE f[m] # MessageItems(m)
  <2>1. f = Spoken(M)
    BY <1>2 DEF Sent
  <2>2. f[m] = <<>> /\ m.role = "system"
    BY <1>2, <2>1, Zenon DEF Spoken
  <2>3. m.role # "user" /\ m.role # "assistant" /\ m.role # "tool"
    BY <2>2
  <2>4. TextOf(m) = <<>> /\ CallsOf(m) = <<>> /\ ResultOf(m) = <<>>
    BY <2>3, Zenon DEF TextOf, CallsOf, ResultOf
  <2> QED BY <2>2, <2>4, GatheredNone, Zenon
<1> QED BY <1>1, <1>2

\* Of every message f sends, T is what is heard.
Telling(M, X, f, kinds, T) ==
  f \in [M -> Seq(X)] /\ \A m \in M : Gathered(f[m], Ear(X, kinds)) = T[m]

LEMMA HeardTold ==
  ASSUME NEW M, NEW X, NEW f, NEW s \in Seq(M), NEW kinds, NEW T, Telling(M, X, f, kinds, T),
         NEW told, told = [k \in DOMAIN s |-> T[s[k]]]
  PROVE  Heard(Gathered(s, f), kinds) = FlattenSeq(told)
<1>0. f \in [M -> Seq(X)] /\ \A m \in M : Gathered(f[m], Ear(X, kinds)) = T[m]
  BY DEF Telling
<1>1. PICK input, h : input = Gathered(s, f) /\ h = HeardBy(M, X, f, kinds)
  OBVIOUS
<1>2. Heard(input, kinds) = Gathered(s, h)
  <2>1. input = Gathered(s, f) /\ h = HeardBy(M, X, f, kinds) /\ f \in [M -> Seq(X)]
    BY <1>0, <1>1
  <2>2. Heard(input, kinds) = Gathered(s, h) /\ h \in [M -> Seq(X)]
    BY ONLY <2>1, HeardOf, s \in Seq(M), SMT
  <2> QED BY <2>2
<1>3. \A k \in DOMAIN s : s[k] \in M
  BY LenProperties, ElementOfSeq
<1>4. \A k \in DOMAIN s : h[s[k]] = T[s[k]]
  BY <1>0, <1>1, <1>3, Zenon DEF HeardBy
<1>5. Each(s, h) = told
  BY <1>4, Zenon DEF Each
<1> QED BY <1>1, <1>2, <1>5, Zenon DEF Gathered

LEMMA ToldWhole ==
  ASSUME NEW M, Messages(M), NEW f, f = Sent(M) \/ f = Spoken(M), NEW s \in Seq(M)
  PROVE  Tells(Gathered(s, f), s)
<1>1. PICK X : X = Sayings(M)
  OBVIOUS
<1>2. f \in [M -> Seq(X)]
  BY <1>1, SentType
<1>3. PICK texts, calls, results :
        /\ texts = [m \in M |-> TextOf(m)] /\ calls = [m \in M |-> CallsOf(m)]
        /\ results = [m \in M |-> ResultOf(m)]
  OBVIOUS
<1>4. /\ Telling(M, X, f, TextKinds, texts) /\ Telling(M, X, f, {"call"}, calls)
      /\ Telling(M, X, f, {"result"}, results)
  <2>1. ASSUME NEW m \in M
        PROVE  /\ Gathered(f[m], Ear(X, TextKinds)) = texts[m]
               /\ Gathered(f[m], Ear(X, {"call"})) = calls[m]
               /\ Gathered(f[m], Ear(X, {"result"})) = results[m]
    <3>1. /\ Gathered(f[m], Ear(X, TextKinds)) = TextOf(m)
          /\ Gathered(f[m], Ear(X, {"call"})) = CallsOf(m)
          /\ Gathered(f[m], Ear(X, {"result"})) = ResultOf(m)
      BY <1>1, MessageTold
    <3>2. texts[m] = TextOf(m) /\ calls[m] = CallsOf(m) /\ results[m] = ResultOf(m)
      BY <1>3, Zenon
    <3> QED BY <3>1, <3>2, Zenon
  <2> QED BY <1>2, <2>1, Zenon DEF Telling
<1>5. PICK a, b, c : /\ a = [k \in DOMAIN s |-> texts[s[k]]] /\ b = [k \in DOMAIN s |-> calls[s[k]]]
                     /\ c = [k \in DOMAIN s |-> results[s[k]]]
  OBVIOUS
<1>6. \A k \in DOMAIN s : s[k] \in M
  BY LenProperties, ElementOfSeq
<1>7. /\ a = [k \in DOMAIN s |-> TextOf(s[k])] /\ b = [k \in DOMAIN s |-> CallsOf(s[k])]
      /\ c = [k \in DOMAIN s |-> ResultOf(s[k])]
  BY <1>3, <1>5, <1>6, Zenon
<1>8. PICK input : input = Gathered(s, f)
  OBVIOUS
<1>9. Heard(input, TextKinds) = FlattenSeq(a)
  BY <1>4, <1>5, <1>8, HeardTold
<1>a. Heard(input, {"call"}) = FlattenSeq(b)
  BY <1>4, <1>5, <1>8, HeardTold
<1>b. Heard(input, {"result"}) = FlattenSeq(c)
  BY <1>4, <1>5, <1>8, HeardTold
<1> QED BY <1>7, <1>8, <1>9, <1>a, <1>b, Zenon DEF Tells, TextKinds

\* Some first part of the input tells any first part of the messages.
LEMMA ToldInOrder ==
  ASSUME NEW M, Messages(M), NEW f, f = Sent(M) \/ f = Spoken(M), NEW s \in Seq(M)
  PROVE  TellsInOrder(Gathered(s, f), s)
<1>1. PICK X, input : X = Sayings(M) /\ input = Gathered(s, f)
  OBVIOUS
<1>2. f \in [M -> Seq(X)]
  BY <1>1, SentType
<1>3. ASSUME NEW k \in DOMAIN s
      PROVE  \E n \in 0 .. Len(input) : Tells(SubSeq(input, 1, n), SubSeq(s, 1, k))
  <2>1. PICK p, q : p = SubSeq(s, 1, k) /\ q = SubSeq(s, k + 1, Len(s))
    OBVIOUS
  <2>2. Len(s) \in Nat /\ k \in 1 .. Len(s)
    BY LenProperties
  <2>3. p \in Seq(M) /\ q \in Seq(M)
    <3>1. \A i \in 1 .. Len(s) : s[i] \in M
      BY ElementOfSeq
    <3>2. 1 \in Int /\ k \in Int /\ k + 1 \in Int /\ Len(s) \in Int
          /\ (\A i \in 1 .. k : s[i] \in M) /\ \A i \in k + 1 .. Len(s) : s[i] \in M
      BY <2>2, <3>1
    <3>3. p \in Seq(M)
      BY <2>1, <3>2, SubSeqProperties
    <3>4. q \in Seq(M)
      BY <2>1, <3>2, SubSeqProperties
    <3> QED BY <3>3, <3>4
  <2>4. p \o q = s
    <3>1. s = SubSeq(s, 1, k) \o SubSeq(s, k + 1, Len(s))
      <4>1. /\ 1 \in 1 .. Len(s) + 1 /\ k \in 1 - 1 .. Len(s) /\ Len(s) \in k .. Len(s)
        BY <2>2
      <4>2. SubSeq(s, 1, k) \o SubSeq(s, k + 1, Len(s)) = SubSeq(s, 1, Len(s))
        BY <4>1, ConcatAdjacentSubSeq
      <4> QED BY <4>2, SubSeqFull
    <3> QED BY <2>1, <3>1
  <2>5. PICK u, v : u = Gathered(p, f) /\ v = Gathered(q, f)
    OBVIOUS
  <2>6. u \in Seq(X) /\ v \in Seq(X)
    <3>1. PICK a, b : a = Each(p, f) /\ b = Each(q, f)
      OBVIOUS
    <3>2. GatheredFrom(X, a, p, f) /\ GatheredFrom(X, b, q, f)
      BY <1>2, <2>3, <3>1, GatheredType
    <3> QED BY <2>5, <3>2 DEF GatheredFrom
  <2>7. input = u \o v
    <3>1. Gathered(p \o q, f) = Gathered(p, f) \o Gathered(q, f)
      BY <1>2, <2>3, GatheredConcat
    <3> QED BY <1>1, <2>4, <2>5, <3>1, Zenon
  <2>8. SubSeq(input, 1, Len(u)) = u /\ Len(u) \in 0 .. Len(input)
    BY <2>6, <2>7
  <2>9. Tells(u, p)
    BY <2>3, <2>5, ToldWhole, Zenon
  <2> QED BY <2>1, <2>8, <2>9
<1> QED BY <1>1, <1>3, ToldWhole, Zenon DEF TellsInOrder

\* A conversation opens with its system message or has none.
Opens(s) == s # <<>> /\ s[1].role = "system"

LEMMA OnlyOpening ==
  ASSUME NEW M, NEW s \in Seq(M), SystemFirst(s), NEW X, NEW f \in [M -> Seq(X)],
         \A m \in M : m.role # "system" => f[m] = <<>>
  PROVE  Gathered(s, f) = IF Opens(s) THEN f[s[1]] ELSE <<>>
<1>1. DOMAIN s = 1 .. Len(s) /\ Len(s) \in Nat /\ \A i \in 1 .. Len(s) : s[i] \in M
  BY LenProperties, ElementOfSeq
<1>2. \A i \in 1 .. Len(s) : i # 1 => f[s[i]] = <<>>
  BY <1>1 DEF SystemFirst
<1>3. Gathered(s, f) = IF s = <<>> THEN <<>> ELSE f[s[1]]
  <2>1. AfterFirst(s, f)
    BY <1>2 DEF AfterFirst
  <2> QED BY <2>1, GatheredFirst
<1>4. s # <<>> => s[1] \in M
  <2>1. s # <<>> => 1 \in 1 .. Len(s)
    BY <1>1, EmptySeq
  <2> QED BY <1>1, <2>1
<1>5. (s # <<>> /\ ~Opens(s)) => f[s[1]] = <<>>
  BY <1>4 DEF Opens
<1>6. Opens(s) => s # <<>>
  BY DEF Opens
<1> QED BY <1>3, <1>5, <1>6, Zenon

LEMMA OpeningInstructs ==
  ASSUME NEW M, NEW s \in Seq(M), SystemFirst(s), NEW orders,
         Opens(s) => orders = <<s[1].text>> \/ (orders = <<>> /\ ~HasText(s[1])),
         ~Opens(s) => orders = <<>>
  PROVE  Instructs(orders, s)
<1>1. DOMAIN s = 1 .. Len(s) /\ Len(s) \in Nat /\ (s # <<>> => 1 \in 1 .. Len(s))
  BY LenProperties, EmptySeq
<1>2. PICK told : told = {m \in ToSet(s) : m.role = "system"}
  OBVIOUS
<1>3. ASSUME NEW m \in told PROVE Opens(s) /\ m = s[1]
  <2>1. PICK i \in DOMAIN s : m = s[i]
    BY <1>2, <1>3 DEF ToSet
  <2>2. m.role = "system"
    BY <1>2, <1>3
  <2>3. i = 1
    BY <2>1, <2>2 DEF SystemFirst
  <2>4. s # <<>>
    <3>1. Len(s) # 0
      BY <1>1, <2>1
    <3> QED BY <3>1, EmptySeq
  <2> QED BY <2>1, <2>2, <2>3, <2>4 DEF Opens
<1>4. Opens(s) => s[1] \in told
  BY <1>1, <1>2 DEF Opens, ToSet
<1>5. PICK one : one = <<s[1].text>>
  OBVIOUS
<1>6. one # <<>>
  BY <1>5
<1>7. orders # <<>> => \E m \in told : orders = <<m.text>>
  BY <1>4, <1>5, Zenon
<1>8. (\E m \in told : HasText(m)) => orders # <<>>
  <2> SUFFICES ASSUME NEW m \in told, HasText(m) PROVE orders # <<>>
    OBVIOUS
  <2>1. Opens(s) /\ HasText(s[1])
    BY <1>3, Zenon
  <2> QED BY <1>5, <1>6, <2>1, Zenon
<1> QED BY <1>2, <1>7, <1>8, Zenon DEF Instructs

\* What an input orders of itself.
Ordered(input) == LET heard == Heard(input, {"system"}) IN [k \in DOMAIN heard |-> heard[k].about]

AboutOf(heard) == [k \in DOMAIN heard |-> heard[k].about]

LEMMA AboutThese ==
  ASSUME NEW heard
  PROVE  /\ heard = <<>> => AboutOf(heard) = <<>>
         /\ \A role, x : heard = <<Said(role, x)>> => AboutOf(heard) = <<x>>
<1>1. PICK abouts : abouts = AboutOf(heard)
  OBVIOUS
<1>2. ASSUME heard = <<>> PROVE abouts = <<>>
  <2>1. DOMAIN heard = 1 .. 0
    BY <1>2
  <2>2. abouts = [k \in 1 .. 0 |-> heard[k].about]
    BY <1>1, <2>1 DEF AboutOf
  <2> QED BY <2>2
<1>3. ASSUME NEW role, NEW x, heard = <<Said(role, x)>> PROVE abouts = <<x>>
  <2>1. PICK said : said = Said(role, x)
    OBVIOUS
  <2>2. heard = <<said>> /\ said.about = x
    BY <1>3, <2>1 DEF Said
  <2>3. DOMAIN heard = 1 .. 1 /\ heard[1].about = x
    BY <2>2
  <2>4. abouts = [k \in 1 .. 1 |-> x]
    BY <1>1, <2>3 DEF AboutOf
  <2> QED BY <2>4
<1> QED BY <1>1, <1>2, <1>3

LEMMA SentOrders ==
  ASSUME NEW M, Messages(M), NEW s \in Seq(M), SystemFirst(s)
  PROVE  /\ Ordered(Gathered(s, Sent(M))) = IF Opens(s) THEN <<s[1].text>> ELSE <<>>
         /\ Ordered(Gathered(s, Spoken(M))) = <<>>
<1>1. PICK X, f, g : X = Sayings(M) /\ f = Sent(M) /\ g = Spoken(M)
  OBVIOUS
<1>2. f \in [M -> Seq(X)] /\ g \in [M -> Seq(X)]
  BY <1>1, SentType
<1>3. PICK kinds, h, l : kinds = {"system"} /\ h = HeardBy(M, X, f, kinds) /\ l = HeardBy(M, X, g, kinds)
  OBVIOUS
<1>4. PICK input, others : input = Gathered(s, f) /\ others = Gathered(s, g)
  OBVIOUS
<1>5. Heard(input, kinds) = Gathered(s, h) /\ h \in [M -> Seq(X)]
  <2>1. input = Gathered(s, f) /\ h = HeardBy(M, X, f, kinds) /\ f \in [M -> Seq(X)]
    BY <1>2, <1>3, <1>4
  <2> QED BY ONLY <2>1, HeardOf, s \in Seq(M), SMT
<1>6. Heard(others, kinds) = Gathered(s, l) /\ l \in [M -> Seq(X)]
  <2>1. others = Gathered(s, g) /\ l = HeardBy(M, X, g, kinds) /\ g \in [M -> Seq(X)]
    BY <1>2, <1>3, <1>4
  <2> QED BY ONLY <2>1, HeardOf, s \in Seq(M), SMT
<1>7. ASSUME NEW m \in M
      PROVE  /\ h[m] = IF m.role = "system" THEN <<Said(m.role, m.text)>> ELSE <<>>
             /\ l[m] = <<>>
  <2>1. PICK e, items : e = Ear(X, kinds) /\ items = MessageItems(m) /\ kinds = {"system"}
    BY <1>3
  <2>2. Gathered(items, e) = IF m.role = "system" THEN <<Said(m.role, m.text)>> ELSE <<>>
    BY <1>1, <2>1, MessageHeard, Zenon
  <2>3. h[m] = Gathered(items, e)
    BY <1>1, <1>3, <2>1, Zenon DEF HeardBy, Sent
  <2>4. l[m] = Gathered(g[m], e)
    BY <1>3, <2>1, Zenon DEF HeardBy
  <2>5. g[m] = IF m.role # "system" THEN items ELSE <<>>
    BY <1>1, <2>1, Zenon DEF Spoken
  <2>6. l[m] = <<>>
    BY <2>2, <2>4, <2>5, GatheredNone, Zenon
  <2> QED BY <2>2, <2>3, <2>6, Zenon
<1>8. Gathered(s, h) = IF Opens(s) THEN h[s[1]] ELSE <<>>
  <2>1. \A m \in M : m.role # "system" => h[m] = <<>>
    BY <1>7, Zenon
  <2> QED BY <1>5, <2>1, OnlyOpening
<1>9. Gathered(s, l) = <<>>
  <2>1. \A m \in M : m.role # "system" => l[m] = <<>>
    BY <1>7
  <2>2. Gathered(s, l) = IF Opens(s) THEN l[s[1]] ELSE <<>>
    BY <1>6, <2>1, OnlyOpening
  <2>3. Opens(s) => s[1] \in M
    BY LenProperties, EmptySeq, ElementOfSeq DEF Opens
  <2> QED BY <1>7, <2>2, <2>3, Zenon
<1>a. Opens(s) => s[1] \in M /\ s[1].role = "system"
  BY LenProperties, EmptySeq, ElementOfSeq DEF Opens
<1>d. Ordered(others) = <<>>
  <2>1. PICK heard : heard = Heard(others, kinds) /\ kinds = {"system"}
    BY <1>3
  <2> QED BY <1>6, <1>9, <2>1, AboutThese, Zenon DEF Ordered, AboutOf
<1>e. Ordered(input) = IF Opens(s) THEN <<s[1].text>> ELSE <<>>
  <2>1. PICK heard : heard = Heard(input, kinds) /\ kinds = {"system"}
    BY <1>3
  <2>2. CASE Opens(s)
    <3>1. PICK role, x : role = s[1].role /\ x = s[1].text
      OBVIOUS
    <3>2. heard = <<Said(role, x)>>
      BY <1>5, <1>7, <1>8, <1>a, <2>1, <2>2, <3>1, Zenon
    <3>3. AboutOf(heard) = <<x>>
      BY <3>2, AboutThese, Zenon
    <3> QED BY <2>1, <2>2, <3>1, <3>3, Zenon DEF Ordered, AboutOf
  <2>3. CASE ~Opens(s)
    <3>1. heard = <<>>
      BY <1>5, <1>8, <2>1, <2>3, Zenon
    <3> QED BY <2>1, <2>3, <3>1, AboutThese, Zenon DEF Ordered, AboutOf
  <2> QED BY <2>2, <2>3
<1> QED BY <1>1, <1>4, <1>d, <1>e, Zenon

\* Of some system messages only the opening one can be there.
LEMMA OpeningThose ==
  ASSUME NEW M, NEW s \in Seq(M), SystemFirst(s), NEW L,
         \A m \in M \cap L : m.role = "system",
         NEW I, \A i \in DOMAIN s : i \in I <=> s[i] \in L
  PROVE  Those(s, I) = IF Opens(s) /\ s[1] \in L THEN <<s[1]>> ELSE <<>>
<1>1. PICK f : f = [m \in M |-> IF m \in L THEN <<m>> ELSE <<>>]
  OBVIOUS
<1>2. f \in [M -> Seq(M)]
  <2>1. <<>> \in Seq(M) /\ \A m \in M : <<m>> \in Seq(M)
    BY EmptySeq
  <2> QED BY <1>1, <2>1
<1>3. \A i \in DOMAIN s : s[i] \in M
  BY LenProperties, ElementOfSeq
<1>4. \A i \in DOMAIN s : f[s[i]] = IF i \in I THEN <<s[i]>> ELSE <<>>
  BY <1>1, <1>3, Zenon
<1>5. Those(s, I) = Gathered(s, f)
  BY <1>4, ThoseGathered
<1>6. Gathered(s, f) = IF Opens(s) THEN f[s[1]] ELSE <<>>
  <2>1. \A m \in M : m.role # "system" => f[m] = <<>>
    BY <1>1, Zenon
  <2> QED BY <1>2, <2>1, OnlyOpening
<1>7. Opens(s) => s[1] \in M
  BY LenProperties, EmptySeq, ElementOfSeq DEF Opens
<1> QED BY <1>1, <1>5, <1>6, <1>7, Zenon

TextsOf(told) == [i \in DOMAIN told |-> told[i].text]

LEMMA TextsThese ==
  ASSUME NEW told
  PROVE  /\ told = <<>> => TextsOf(told) = <<>>
         /\ \A m : told = <<m>> => TextsOf(told) = <<m.text>>
<1>1. PICK texts : texts = TextsOf(told)
  OBVIOUS
<1>2. ASSUME told = <<>> PROVE texts = <<>>
  <2>1. DOMAIN told = 1 .. 0
    BY <1>2
  <2>2. texts = [i \in 1 .. 0 |-> told[i].text]
    BY <1>1, <2>1 DEF TextsOf
  <2> QED BY <2>2
<1>3. ASSUME NEW m, told = <<m>> PROVE texts = <<m.text>>
  <2>1. DOMAIN told = 1 .. 1 /\ told[1].text = m.text
    BY <1>3
  <2>2. texts = [i \in 1 .. 1 |-> m.text]
    BY <1>1, <2>1 DEF TextsOf
  <2> QED BY <2>2
<1> QED BY <1>1, <1>2, <1>3

LEMMA InstructionsAre ==
  ASSUME NEW M, NEW s \in Seq(M), SystemFirst(s)
  PROVE  Responses!Instructions(s) = IF Opens(s) /\ HasText(s[1]) THEN <<s[1].text>> ELSE <<>>
<1>1. PICK I, L : /\ I = {i \in DOMAIN s : s[i].role = "system" /\ HasText(s[i])}
                  /\ L = {m \in M : m.role = "system" /\ HasText(m)}
  OBVIOUS
<1>2. PICK told : told = Those(s, I)
  OBVIOUS
<1>3. Responses!Instructions(s) = TextsOf(told)
  <2>1. Responses!Those(s, I) = Those(s, I)
    BY Zenon DEF Responses!Those, Those, Responses!FlattenSeq, FlattenSeq
  <2> QED BY <1>1, <1>2, <2>1, Zenon DEF Responses!Instructions, HasText, TextsOf
<1>4. \A i \in DOMAIN s : s[i] \in M
  BY LenProperties, ElementOfSeq
<1>5. /\ \A i \in DOMAIN s : i \in I <=> s[i] \in L
      /\ \A m \in M \cap L : m.role = "system"
  BY <1>1, <1>4
<1>6. told = IF Opens(s) /\ s[1] \in L THEN <<s[1]>> ELSE <<>>
  BY <1>2, <1>5, OpeningThose
<1>7. Opens(s) => (s[1] \in L <=> HasText(s[1]))
  <2>1. Opens(s) => s[1] \in M /\ s[1].role = "system"
    BY LenProperties, EmptySeq, ElementOfSeq DEF Opens
  <2> QED BY <1>1, <2>1
<1> QED BY <1>3, <1>6, <1>7, TextsThese, Zenon

LEMMA FirstSystemIs ==
  ASSUME NEW M, NEW s \in Seq(M), SystemFirst(s)
  PROVE  Anthropic!FirstSystem(s) = IF Opens(s) THEN <<s[1].text>> ELSE <<>>
<1>1. PICK I, L : I = {i \in DOMAIN s : s[i].role = "system"} /\ L = {m \in M : m.role = "system"}
  OBVIOUS
<1>2. PICK told : told = Those(s, I)
  OBVIOUS
<1>3. Anthropic!Systems(s) = told
  <2>1. Anthropic!Those(s, I) = Those(s, I)
    BY Zenon DEF Anthropic!Those, Those, Anthropic!FlattenSeq, FlattenSeq
  <2> QED BY <1>1, <1>2, <2>1, Zenon DEF Anthropic!Systems
<1>4. \A i \in DOMAIN s : s[i] \in M
  BY LenProperties, ElementOfSeq
<1>5. /\ \A i \in DOMAIN s : i \in I <=> s[i] \in L
      /\ \A m \in M \cap L : m.role = "system"
  BY <1>1, <1>4
<1>6. told = IF Opens(s) /\ s[1] \in L THEN <<s[1]>> ELSE <<>>
  BY <1>2, <1>5, OpeningThose
<1>7. Opens(s) => s[1] \in L
  <2>1. Opens(s) => s[1] \in M /\ s[1].role = "system"
    BY LenProperties, EmptySeq, ElementOfSeq DEF Opens
  <2> QED BY <1>1, <2>1
<1>8. PICK m, one : m = s[1] /\ one = <<m>>
  OBVIOUS
<1>9. one # <<>> /\ Head(one) = m
  BY <1>8
<1>a. CASE Opens(s)
  <2>1. told = one
    BY <1>6, <1>7, <1>8, <1>a, Zenon
  <2> QED BY <1>3, <1>8, <1>9, <1>a, <2>1, Zenon DEF Anthropic!FirstSystem
<1>b. CASE ~Opens(s)
  <2>1. told = <<>>
    BY <1>6, <1>b, Zenon
  <2> QED BY <1>3, <1>b, <2>1, Zenon DEF Anthropic!FirstSystem
<1> QED BY <1>a, <1>b

LEMMA WiresAgree ==
  ASSUME NEW messages
  PROVE  /\ OpenAi!Items(messages) = Items(messages)
         /\ Responses!Items(Responses!Others(messages)) = Items(Others(messages))
         /\ Anthropic!Items(Anthropic!Others(messages)) = Items(Others(messages))
         /\ Anthropic!Systems(messages) = Systems(messages)
<1>1. OpenAi!Items(messages) = Items(messages)
  BY Zenon DEF OpenAi!Items, Items, OpenAi!FlattenSeq, FlattenSeq, OpenAi!MessageItems, MessageItems,
               OpenAi!Said, Said
<1>2. Responses!Others(messages) = Others(messages)
  BY Zenon DEF Responses!Others, Others, Responses!Those, Those, Responses!FlattenSeq, FlattenSeq
<1>3. \A ms : Responses!Items(ms) = Items(ms)
  BY Zenon DEF Responses!Items, Items, Responses!FlattenSeq, FlattenSeq,
               Responses!MessageItems, MessageItems, Responses!Said, Said
<1>4. Anthropic!Systems(messages) = Systems(messages) /\ Anthropic!Others(messages) = Others(messages)
  BY Zenon DEF Anthropic!Systems, Systems, Anthropic!Others, Others, Anthropic!Those, Those,
               Anthropic!FlattenSeq, FlattenSeq
<1>5. \A ms : Anthropic!Items(ms) = Items(ms)
  BY Zenon DEF Anthropic!Items, Items, Anthropic!FlattenSeq, FlattenSeq,
               Anthropic!MessageItems, MessageItems, Anthropic!Said, Said
<1> QED BY <1>1, <1>2, <1>3, <1>4, <1>5, Zenon

\* The payload tells the messages and gives their orders.
Faithful(messages, payload) ==
  TellsInOrder(payload.input, messages) /\ Instructs(Orders(payload), messages)

LEMMA OrdersAre ==
  ASSUME NEW payload, NEW orders, NEW ordered, payload.system = orders,
         Ordered(payload.input) = ordered, NEW T, orders \in Seq(T), ordered \in Seq(T)
  PROVE  /\ orders = <<>> => Orders(payload) = ordered
         /\ ordered = <<>> => Orders(payload) = orders
<1>1. Orders(payload) = orders \o ordered
  BY Zenon DEF Orders, Ordered
<1>2. <<>> \o ordered = ordered /\ orders \o <<>> = orders
  BY ConcatEmptySeq
<1> QED BY <1>1, <1>2, Zenon

LEMMA PayloadFaithful ==
  ASSUME NEW r \in Rounds
  PROVE  /\ Faithful(r.request.messages, Payload(r))
         /\ StripReasoning(r, Payload(r)).input = Payload(r).input
         /\ StripReasoning(r, Payload(r)).system = Payload(r).system
<1>1. PICK request, messages, M :
        request = r.request /\ messages = request.messages /\ M = ToSet(messages)
  OBVIOUS
<1>2. messages \in Seq(M) /\ Messages(M) /\ SystemFirst(messages)
  BY <1>1, RoundsAssumption DEF Messages
<1>3. PICK all, others : all = Gathered(messages, Sent(M)) /\ others = Gathered(messages, Spoken(M))
  OBVIOUS
<1>4. TellsInOrder(all, messages) /\ TellsInOrder(others, messages)
  BY <1>2, <1>3, ToldInOrder, Zenon
<1>5. Items(messages) = all /\ Items(Others(messages)) = others
  BY <1>2, <1>3, ItemsGathered, ItemsOthers, Zenon
<1>6. PICK opens, text, one :
        opens = Opens(messages) /\ text = messages[1].text /\ one = <<text>>
  OBVIOUS
<1>7. Ordered(all) = (IF opens THEN one ELSE <<>>) /\ Ordered(others) = <<>>
  BY <1>2, <1>3, <1>6, SentOrders, Zenon
<1>8. one \in Seq({text}) /\ <<>> \in Seq({text})
  <2>1. one \in Seq({text})
    BY <1>6
  <2> QED BY <2>1, EmptySeq
<1>9. r.protocol \in {"openai", "responses", "anthropic"}
  BY RoundsAssumption DEF Protocols
<1>a. PICK payload : payload = Payload(r)
  OBVIOUS
<1>b. ASSUME NEW orders, Orders(payload) = orders,
             opens => (orders = one \/ (orders = <<>> /\ ~HasText(messages[1]))),
             ~opens => orders = <<>>
      PROVE  Instructs(Orders(payload), messages)
  BY <1>2, <1>6, <1>b, OpeningInstructs, Zenon
<1>c. CASE r.protocol = "openai"
  <2>1. payload = OpenAi!Payload(request)
    BY <1>1, <1>a, <1>c DEF Payload
  <2>2. payload.input = OpenAi!Items(messages) /\ payload.system = <<>>
    BY <1>1, <2>1 DEF OpenAi!Payload
  <2>3. payload.input = all
    BY <1>5, <2>2, WiresAgree, Zenon
  <2>4. StripReasoning(r, payload).input = payload.input /\ StripReasoning(r, payload).system = payload.system
    BY <1>c, <2>1 DEF StripReasoning, OpenAi!StripReasoning, OpenAi!Payload
  <2>5. PICK ordered : ordered = Ordered(all)
    OBVIOUS
  <2>6. ordered \in Seq({text}) /\ (opens => ordered = one) /\ (~opens => ordered = <<>>)
    BY <1>7, <1>8, <2>5, Zenon
  <2>7. Orders(payload) = ordered
    BY <1>8, <2>2, <2>3, <2>5, <2>6, OrdersAre, Zenon
  <2>8. Instructs(Orders(payload), messages)
    BY <1>b, <2>6, <2>7, Zenon
  <2> QED BY <1>1, <1>4, <1>a, <2>3, <2>4, <2>8, Zenon DEF Faithful
<1>d. CASE r.protocol = "responses"
  <2>1. payload = Responses!Payload(request)
    BY <1>1, <1>a, <1>d DEF Payload
  <2>2. PICK orders : orders = Responses!Instructions(messages)
    OBVIOUS
  <2>3. payload.input = Responses!Items(Responses!Others(messages)) /\ payload.system = orders
    BY <1>1, <2>1, <2>2 DEF Responses!Payload
  <2>4. payload.input = others
    BY <1>5, <2>3, WiresAgree, Zenon
  <2>5. orders = IF opens /\ HasText(messages[1]) THEN one ELSE <<>>
    BY <1>2, <1>6, <2>2, InstructionsAre, Zenon
  <2>6. orders \in Seq({text})
    BY <1>8, <2>5, Zenon
  <2>7. Orders(payload) = orders
    BY <1>7, <1>8, <2>3, <2>4, <2>6, OrdersAre, Zenon
  <2>8. Instructs(Orders(payload), messages)
    BY <1>b, <2>5, <2>7, Zenon
  <2>9. StripReasoning(r, payload).input = payload.input /\ StripReasoning(r, payload).system = payload.system
    BY <1>d, <2>1 DEF StripReasoning, Responses!StripReasoning, Responses!Payload
  <2> QED BY <1>1, <1>4, <1>a, <2>4, <2>8, <2>9, Zenon DEF Faithful
<1>e. CASE r.protocol = "anthropic"
  <2>1. payload = Anthropic!Payload(request)
    BY <1>1, <1>a, <1>e DEF Payload
  <2>2. PICK orders : orders = Anthropic!FirstSystem(messages)
    OBVIOUS
  <2>3. payload.input = Anthropic!Items(Anthropic!Others(messages)) /\ payload.system = orders
    BY <1>1, <2>1, <2>2 DEF Anthropic!Payload
  <2>4. payload.input = others
    BY <1>5, <2>3, WiresAgree, Zenon
  <2>5. orders = IF opens THEN one ELSE <<>>
    BY <1>2, <1>6, <2>2, FirstSystemIs, Zenon
  <2>6. orders \in Seq({text})
    BY <1>8, <2>5, Zenon
  <2>7. Orders(payload) = orders
    BY <1>7, <1>8, <2>3, <2>4, <2>6, OrdersAre, Zenon
  <2>8. Instructs(Orders(payload), messages)
    BY <1>b, <2>5, <2>7, Zenon
  <2>9. StripReasoning(r, payload).input = payload.input /\ StripReasoning(r, payload).system = payload.system
    BY <1>e, <2>1 DEF StripReasoning, Anthropic!StripReasoning, Anthropic!Payload
  <2> QED BY <1>1, <1>4, <1>a, <2>4, <2>8, <2>9, Zenon DEF Faithful
<1> QED BY <1>9, <1>c, <1>d, <1>e

LEMMA RequestsSay ==
  ASSUME RequestInv
  PROVE  RequestsFaithful
<1>1. round \in Rounds
  BY DEF RequestInv
<1>2. PICK messages, payload, again :
        messages = round.request.messages /\ payload = Payload(round)
          /\ again = StripReasoning(round, payload)
  OBVIOUS
<1>3. Faithful(messages, payload) /\ Faithful(messages, again)
  <2>1. Faithful(messages, payload) /\ again.input = payload.input /\ again.system = payload.system
    BY <1>1, <1>2, PayloadFaithful, Zenon
  <2> QED BY <2>1, Zenon DEF Faithful, Orders
<1>4. sent \in {<<>>, <<payload>>, <<payload, again>>}
  BY <1>2 DEF RequestInv, Retried
<1>5. \A i \in DOMAIN sent : Faithful(messages, sent[i])
  BY <1>3, <1>4
<1>6. LevelsAsAsked
  BY RequestsAsAsked
<1> QED BY <1>2, <1>5, <1>6, Zenon DEF RequestsFaithful, Faithful

\* Every request tells the whole conversation, each text, call and result once and in the
\* order of its messages, and gives the text of the system message as its only order; and
\* the first one asks for the schema and the level that were asked for, or is not sent:
\* for every conversation, however long, and however often the service refuses.
THEOREM RequestsSayAll == Spec => []RequestsFaithful
<1>1. RequestInv /\ [Next]_vars => RequestInv'
  BY RequestStep
<1> QED BY <1>1, RequestStart, RequestsSay, PTL DEF Spec
=============================================================================
