-------------------------- MODULE MCTurnLifecycle --------------------------
(* Small instances of TurnLifecycle.                                       *)
EXTENDS TurnLifecycle, TLC

Symmetry == Permutations(Calls) \cup Permutations(Approvals)

\* Everything may go wrong, including the time limits.
FaultyWorlds == {[faults |-> TRUE, timely |-> FALSE, blocks |-> 1]}
\* Nothing goes wrong but what clients and clocks do.
ReliableWorlds == {[faults |-> FALSE, timely |-> TRUE, blocks |-> 3]}
SmallWorlds == {[faults |-> FALSE, timely |-> TRUE, blocks |-> 1]}
AllWorlds == FaultyWorlds \cup ReliableWorlds
=============================================================================
