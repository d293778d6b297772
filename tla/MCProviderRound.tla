-------------------------- MODULE MCProviderRound --------------------------
(* Small instances of ProviderRound.  Requests vary with a plain answer,   *)
(* answers with a plain request.                                           *)
EXTENDS ProviderRound

Message(role, text) == [role |-> role, text |-> text, calls |-> <<>>, call |-> NoId]
Calling(text, calls) == [Message("assistant", text) EXCEPT !.calls = calls]
ToolResult(id) == [Message("tool", "") EXCEPT !.call = id]

Question == <<Message("system", "s"), Message("user", "q")>>
Conversation ==
  Question \o <<Calling("a", <<1, 2>>), ToolResult(1), ToolResult(2), Calling("", <<3>>), ToolResult(3)>>

Unprompted == <<Message("system", ""), Message("user", "q")>>

Request(level, schema, messages) == [level |-> level, schema |-> schema, messages |-> messages]
Item(kind, parts) == [kind |-> kind, parts |-> parts]

PlainRequest == Request("default", FALSE, Question)
PlainAnswer == <<Item("text", 1)>>

Requests == {Request(l, s, m) : l \in {"default", "none", "high", "odd"}, s \in BOOLEAN,
                                m \in {Question, Conversation, Unprompted}}
Answers == {<<Item("thought", 1), Item("text", 2)>>,
            <<Item("text", 1), Item("call", 2), Item("call", 1)>>,
            <<Item("thought", 2), Item("call", 0)>>,
            <<Item("text", 1), Item("text", 1)>>}

Asking ==
  {[protocol |-> p, streamed |-> s, request |-> r, answer |-> PlainAnswer,
    styles |-> {"whole"}, fails |-> FALSE] : p \in Protocols, s \in BOOLEAN, r \in Requests}

Answering(answers, styles, fails) ==
  {[protocol |-> p, streamed |-> TRUE, request |-> PlainRequest, answer |-> a,
    styles |-> styles, fails |-> fails] : p \in Protocols, a \in answers}

AllRounds == Asking \cup Answering(Answers, {"deltas", "whole", "interleaved", "unindexed", "item"}, TRUE)

\* Services that send every finished part and no deltas.
DoneRounds == Answering({<<Item("text", 1)>>}, {"done"}, FALSE)

\* The services of the rounds continue what they began; those that send every finished
\* part do not, and for them the channel is not kept.
ASSUME ServicesOfTheRounds ==
  /\ ServicesContinue(Parts \cup {Torn}, AllRounds)
  /\ ~ServicesContinue(Parts \cup {Torn}, DoneRounds)
=============================================================================
