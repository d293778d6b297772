-------------------------- MODULE MCFunctionRunner --------------------------
(* Small instances of FunctionRunner.                                      *)
EXTENDS FunctionRunner, TLC

Symmetry == Permutations(Runs)
=============================================================================
