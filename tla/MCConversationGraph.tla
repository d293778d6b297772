------------------------- MODULE MCConversationGraph -------------------------
(***************************************************************************)
(* ConversationGraph with interchangeable threads, for safety only.        *)
(***************************************************************************)
EXTENDS ConversationGraph, TLC

Symmetry == Permutations(Threads)
=============================================================================
