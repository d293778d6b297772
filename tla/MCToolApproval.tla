--------------------------- MODULE MCToolApproval ---------------------------
(* Small instances of ToolApproval.                                        *)
EXTENDS ToolApproval, TLC

Symmetry == Permutations(Calls) \cup Permutations(Approvals)
=============================================================================
