--------------------------- MODULE AnswerChannel ---------------------------
(***************************************************************************)
(* What a provider round promises to the turn that runs it: the pieces of  *)
(* the answer are shown once and in order, the round is closed once, and   *)
(* what is kept of a completed round is what was shown.                    *)
(***************************************************************************)
EXTENDS Sequences, SequencesExt

CONSTANT Torn \* the text of half an event

VARIABLES
  text,   \* the pieces of the answer, thoughts first
  live,   \* the pieces are shown as they arrive
  shown,  \* the pieces shown so far
  kept,   \* the pieces the turn goes on with
  status  \* "open", "complete", "failed" or "stopped"

vars == <<text, live, shown, kept, status>>

\* A part of the answer that ends where the answer does, or where the stream was torn.
Genuine(pieces) ==
  \/ IsPrefix(pieces, text)
  \/ /\ pieces # <<>>
     /\ Last(pieces) = Torn
     /\ IsPrefix(Front(pieces), text)

Init ==
  /\ shown = <<>> /\ kept = <<>> /\ status = "open"

Show ==
  /\ status = "open" /\ live
  /\ Genuine(shown')
  /\ IsStrictPrefix(shown, shown')
  /\ UNCHANGED <<text, live, kept, status>>

Complete ==
  /\ status = "open" /\ status' = "complete"
  /\ Genuine(kept')
  /\ live => kept' = shown
  /\ UNCHANGED <<text, live, shown>>

Fail ==
  /\ status = "open" /\ status' = "failed"
  /\ UNCHANGED <<text, live, shown, kept>>

\* A chunk is decoded before its pieces are shown: more may be kept than was shown.
Stop ==
  /\ status = "open" /\ status' = "stopped"
  /\ live
  /\ Genuine(kept')
  /\ IsPrefix(shown, kept')
  /\ UNCHANGED <<text, live, shown>>

Next == Show \/ Complete \/ Fail \/ Stop

Spec == Init /\ [][Next]_vars
=============================================================================
