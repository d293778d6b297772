---------------------------- MODULE ToolCallStore ----------------------------
(***************************************************************************)
(* The clypeus_tool_calls table as its ApprovalStore methods change it.    *)
(* Each method is one operator from a table to a table, so that the        *)
(* machines that share the table (ToolApproval, TurnLifecycle) use the     *)
(* same definitions.  The memory store runs every method under one mutex   *)
(* and the SQL store runs it as one statement: a method is one atomic      *)
(* step of the machines.                                                   *)
(*                                                                         *)
(* All rows belong to one (scope, subject, tool): the filter that selects  *)
(* them is the identity here.                                              *)
(***************************************************************************)
EXTENDS Integers, FiniteSets

CONSTANTS
  Calls,      \* provider tool call ids: the primary key of the table
  Approvals,  \* approval ids (Uuid::new_v4 in submit_approval)
  NoApproval  \* approval_id IS NULL

ASSUME NoApprovalAssumption == NoApproval \notin Approvals

\* ToolCallStatus; "requested" is never written by the code, and "absent"
\* stands for a row that does not exist.
RowStatus == {"awaiting_approval", "approved", "denied", "running",
              "succeeded", "failed", "expired"}
Settled == {"denied", "succeeded", "failed", "expired"}

Row == [status : RowStatus \cup {"absent"}, approval : Approvals \cup {NoApproval}]
Table == [Calls -> Row]

EmptyTable == [c \in Calls |-> [status |-> "absent", approval |-> NoApproval]]

IsAwaiting(table, c) == table[c].status = "awaiting_approval"

\* Mutant: the row is inserted in the state the enum starts with.
RecordRequested(table, c, status) ==
  IF table[c].status = "absent"
    THEN [table EXCEPT ![c] = [status |-> "requested", approval |-> NoApproval]]
    ELSE table

\* Insert unless the id is taken.
RecordToolCall(table, c, status) ==
  IF table[c].status = "absent"
    THEN [table EXCEPT ![c] = [status |-> status, approval |-> NoApproval]]
    ELSE table

\* Compare-and-set from awaiting_approval; a caller that finds the row in any
\* other state gets Conflict and the table is unchanged.
MarkApproved(table, c, approval) ==
  IF IsAwaiting(table, c)
    THEN [table EXCEPT ![c] = [status |-> "approved", approval |-> approval]]
    ELSE table

MarkDenied(table, c) ==
  IF IsAwaiting(table, c) THEN [table EXCEPT ![c].status = "denied"] ELSE table

\* An approval id that is given replaces the stored one (COALESCE).
Bind(stored, given) == IF given = NoApproval THEN stored ELSE given

\* Unconditional.
MarkRunning(table, c, approval) ==
  [table EXCEPT ![c] = [status |-> "running", approval |-> Bind(@.approval, approval)]]

\* Unconditional.
CompleteToolCall(table, c, status, approval) ==
  [table EXCEPT ![c] = [status |-> status, approval |-> Bind(@.approval, approval)]]

\* Mutant: the sweep has no filter on the status.
ExpireEveryLapsedCall(table, lapsed) ==
  [c \in Calls |-> IF table[c].status # "absent" /\ c \in lapsed
                     THEN [table[c] EXCEPT !.status = "expired"] ELSE table[c]]

\* Mutant: the sweep filters on the wrong status.
ExpireApprovedCalls(table, lapsed) ==
  [c \in Calls |-> IF table[c].status = "approved" /\ c \in lapsed
                     THEN [table[c] EXCEPT !.status = "expired"] ELSE table[c]]

\* lapsed is the set of calls with expires_at < now.
ExpireToolCalls(table, lapsed) ==
  [c \in Calls |-> IF IsAwaiting(table, c) /\ c \in lapsed
                     THEN [table[c] EXCEPT !.status = "expired"] ELSE table[c]]

\* Rows of the last 24 hours that are neither denied nor expired.  The window
\* is longer than any behaviour considered here, so no row ages out of it.
CountRecentToolCalls(table) ==
  Cardinality({c \in Calls : table[c].status \notin {"absent", "denied", "expired"}})
=============================================================================
