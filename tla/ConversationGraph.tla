-------------------------- MODULE ConversationGraph --------------------------
(***************************************************************************)
(* Threads and their branched messages: begin_turn (new, edit, regenerate) *)
(* with the history it is answered from, activate_message, delete_thread.  *)
(*                                                                         *)
(* One module for the three stores, which differ in what may interleave:   *)
(* the memory store runs a method under one mutex; SQLite has a pool of    *)
(* one connection, which a transaction keeps and single statements share;  *)
(* PostgreSQL interleaves statements and shows writes at the commit.       *)
(*                                                                         *)
(* Turn n is the n-th to take its timestamp, so numbers order created_at.  *)
(* All rows are of one scope and subject.                                  *)
(***************************************************************************)
EXTENDS Integers, FiniteSets

CONSTANTS
  Threads,     \* the threads that exist at first
  Activations, \* requests of activate_message
  Deletions,   \* requests of delete_thread
  MaxTurns,    \* bound on the requests that begin a turn
  Stores,      \* subset of {"memory", "sqlite", "postgres"}
  Root,        \* no message
  Nobody       \* no request, no thread

Turns == 1 .. MaxTurns
Ids == Turns \X {"user", "assistant"}
Kinds == {"new", "edit", "regenerate"}

ASSUME GraphAssumption ==
  /\ MaxTurns \in Nat
  /\ Stores \subseteq {"memory", "sqlite", "postgres"}
  /\ Root \notin Ids
  /\ Nobody \notin Turns \cup Activations \cup Deletions \cup Threads
  /\ Activations \cap Deletions = {}
  /\ Turns \cap (Activations \cup Deletions) = {}

VARIABLES
  store,   \* which store this is
  holder,  \* the request that holds the mutex, or SQLite's connection
  threads, \* clypeus_threads
  leaf,    \* [Threads -> active_leaf_message_id]
  rows,    \* the ids in clypeus_messages
  parent,  \* [Ids -> parent_message_id]
  home,    \* [Ids -> thread_id]
  version, \* [Ids -> version]
  pc,      \* [Turns -> where the request is]
  thread,  \* [Turns -> its thread]
  target,  \* [Turns -> TurnTarget]
  base,    \* [Turns -> the parent of the first message it inserts]
  number,  \* [Turns -> the version of that message]
  prompt,  \* [Turns -> the messages of its history]
  actPc, chosen,   \* [Activations -> where it is, and the message it is about]
  delPc, doomed, found \* [Deletions -> where it is, its thread, the messages it saw]

lockVars == <<store, holder>>
graphVars == <<threads, leaf, rows, parent, home, version>>
turnVars == <<pc, thread, target, base, number, prompt>>
actVars == <<actPc, chosen>>
delVars == <<delPc, doomed, found>>
vars == <<lockVars, graphVars, turnVars, actVars, delVars>>

NoTarget == [kind |-> "new", message |-> Root]

TypeOK ==
  /\ store \in Stores
  /\ holder \in Turns \cup Activations \cup Deletions \cup {Nobody}
  /\ threads \subseteq Threads
  /\ leaf \in [Threads -> Ids \cup {Root}]
  /\ rows \subseteq Ids
  /\ parent \in [Ids -> Ids \cup {Root}]
  /\ home \in [Ids -> Threads \cup {Nobody}]
  /\ version \in [Ids -> Nat]
  /\ pc \in [Turns -> {"idle", "called", "opened", "counted", "begun", "prompted", "refused"}]
  /\ thread \in [Turns -> Threads \cup {Nobody}]
  /\ target \in [Turns -> [kind : Kinds, message : Ids \cup {Root}]]
  /\ base \in [Turns -> Ids \cup {Root}]
  /\ number \in [Turns -> Nat]
  /\ prompt \in [Turns -> SUBSET Ids]
  /\ actPc \in [Activations -> {"idle", "loaded", "chosen", "done"}]
  /\ chosen \in [Activations -> Ids \cup {Root}]
  /\ delPc \in [Deletions -> {"idle", "looked", "deleting", "done"}]
  /\ doomed \in [Deletions -> Threads \cup {Nobody}]
  /\ found \in [Deletions -> SUBSET Ids]

Init ==
  /\ store \in Stores /\ holder = Nobody
  /\ threads = Threads /\ leaf = [t \in Threads |-> Root]
  /\ rows = {} /\ parent = [m \in Ids |-> Root]
  /\ home = [m \in Ids |-> Nobody] /\ version = [m \in Ids |-> 0]
  /\ pc = [n \in Turns |-> "idle"] /\ thread = [n \in Turns |-> Nobody]
  /\ target = [n \in Turns |-> NoTarget]
  /\ base = [n \in Turns |-> Root] /\ number = [n \in Turns |-> 0]
  /\ prompt = [n \in Turns |-> {}]
  /\ actPc = [a \in Activations |-> "idle"] /\ chosen = [a \in Activations |-> Root]
  /\ delPc = [d \in Deletions |-> "idle"] /\ doomed = [d \in Deletions |-> Nobody]
  /\ found = [d \in Deletions |-> {}]

-----------------------------------------------------------------------------
Question(n) == <<n, "user">>
Answer(n) == <<n, "assistant">>
IsAnswer(m) == m[2] = "assistant"

Children(t, m) == {x \in rows : home[x] = t /\ parent[x] = m}

\* The walk of thread_view and history_for_message: up to the first message
\* without a parent, or whose parent is missing.
Chain(m) ==
  LET up[d \in 0 .. 2 * MaxTurns] ==
        IF d = 0 THEN {m} \cap rows
        ELSE up[d - 1] \cup ({parent[x] : x \in up[d - 1]} \cap rows)
  IN  up[2 * MaxTurns]

\* A statement can run: nobody else holds the mutex or the only connection.
CanRun(q) == store = "postgres" \/ holder \in {Nobody, q}

\* What is held after a statement inside a transaction, after one outside, and
\* at the end of a method.
InTransaction(q) == holder' = IF store = "postgres" THEN Nobody ELSE q
AlsoInMutex(q) == holder' = IF store = "memory" THEN q ELSE Nobody
Release == holder' = Nobody

-----------------------------------------------------------------------------
(* begin_turn, as the handlers call it.                                    *)

\* The timestamp is taken under the mutex, or before the transaction.
Stamp(n) ==
  IF store = "memory" THEN holder = Nobody /\ holder' = n ELSE UNCHANGED holder

\* Mutant: the handler takes the thread of the request for the message's.
CallAnyThread(n) ==
  /\ pc[n] = "idle"
  /\ \A k \in Turns : k < n => pc[k] # "idle"
  /\ \E t \in Threads, m \in rows \cup {Root}, kind \in Kinds :
       /\ (kind = "new") <=> (m = Root)
       /\ thread' = [thread EXCEPT ![n] = t]
       /\ target' = [target EXCEPT ![n] = [kind |-> kind, message |-> m]]
  /\ Stamp(n)
  /\ pc' = [pc EXCEPT ![n] = "called"]
  /\ UNCHANGED <<store, graphVars, base, number, prompt, actVars, delVars>>

\* Edit and regenerate name a message, which the handler has read: its thread
\* is the thread of the turn.
Call(n) ==
  /\ pc[n] = "idle"
  /\ \A k \in Turns : k < n => pc[k] # "idle"
  /\ \/ \E t \in Threads :
          /\ thread' = [thread EXCEPT ![n] = t]
          /\ target' = [target EXCEPT ![n] = NoTarget]
     \/ \E m \in rows, kind \in {"edit", "regenerate"} :
          /\ thread' = [thread EXCEPT ![n] = home[m]]
          /\ target' = [target EXCEPT ![n] = [kind |-> kind, message |-> m]]
  /\ Stamp(n)
  /\ pc' = [pc EXCEPT ![n] = "called"]
  /\ UNCHANGED <<store, graphVars, base, number, prompt, actVars, delVars>>

\* The locals of a call end with it.
Forget(n) ==
  /\ target' = [target EXCEPT ![n] = NoTarget]
  /\ base' = [base EXCEPT ![n] = Root]
  /\ number' = [number EXCEPT ![n] = 0]

Refused(n) ==
  /\ pc' = [pc EXCEPT ![n] = "refused"]
  /\ Forget(n)
  /\ Release

\* Mutant: the thread is not looked up again.
OpenBlindly(n) ==
  /\ pc[n] = "called"
  /\ CanRun(n)
  /\ pc' = [pc EXCEPT ![n] = "opened"]
  /\ base' = [base EXCEPT ![n] = leaf[thread[n]]]
  /\ InTransaction(n)
  /\ UNCHANGED <<store, graphVars, thread, target, number, prompt, actVars, delVars>>

\* The transaction begins and loads the thread.
Open(n) ==
  /\ pc[n] = "called"
  /\ CanRun(n)
  /\ IF thread[n] \in threads
       THEN /\ pc' = [pc EXCEPT ![n] = "opened"]
            /\ base' = [base EXCEPT ![n] = leaf[thread[n]]]
            /\ InTransaction(n)
            /\ UNCHANGED <<target, number>>
       ELSE Refused(n)
  /\ UNCHANGED <<store, graphVars, thread, prompt, actVars, delVars>>

\* The named message is there, and has the role that its kind asks for.  Only
\* the SQL stores look for it in the thread of the turn.
TargetOK(n) ==
  LET m == target[n].message
      There(x) == x \in rows /\ (store = "memory" \/ home[x] = thread[n])
  IN
  \/ target[n].kind = "new"
  \/ target[n].kind = "edit" /\ There(m) /\ ~IsAnswer(m)
  \/ target[n].kind = "regenerate" /\ There(m) /\ IsAnswer(m) /\ There(parent[m])

\* Under what the first new message is inserted: beside the edited question, or
\* beside the regenerated answer.
Parent(n) == IF target[n].kind = "new" THEN base[n] ELSE parent[target[n].message]

\* Mutant: all messages of the thread are counted.
CountThread(t, m) == 1 + Cardinality({x \in rows : home[x] = t})

\* next_sibling_version.
NextVersion(t, m) == 1 + Cardinality(Children(t, m))

\* The target is loaded and its siblings are counted, on the connection of the
\* transaction.
Count(n) ==
  /\ pc[n] = "opened"
  /\ IF TargetOK(n)
       THEN /\ pc' = [pc EXCEPT ![n] = "counted"]
            /\ base' = [base EXCEPT ![n] = Parent(n)]
            /\ number' = [number EXCEPT ![n] = NextVersion(thread[n], Parent(n))]
            /\ UNCHANGED <<holder, target>>
       ELSE Refused(n)
  /\ UNCHANGED <<store, graphVars, thread, prompt, actVars, delVars>>

\* The rows are inserted and the answer becomes the active leaf.  A thread that
\* was deleted meanwhile is not updated.
Commit(n) ==
  LET again == target[n].kind = "regenerate"
      new == IF again THEN {Answer(n)} ELSE {Question(n), Answer(n)}
      first == IF again THEN Answer(n) ELSE Question(n)
  IN
  /\ pc[n] = "counted"
  /\ rows' = rows \cup new
  /\ home' = [m \in Ids |-> IF m \in new THEN thread[n] ELSE home[m]]
  /\ parent' = [m \in Ids |-> IF m = first THEN base[n]
                              ELSE IF m \in new THEN first ELSE parent[m]]
  /\ version' = [m \in Ids |-> IF m = first THEN number[n]
                               ELSE IF m \in new THEN 1 ELSE version[m]]
  /\ leaf' = IF thread[n] \in threads THEN [leaf EXCEPT ![thread[n]] = Answer(n)] ELSE leaf
  /\ pc' = [pc EXCEPT ![n] = "begun"]
  /\ Forget(n)
  /\ Release
  /\ UNCHANGED <<store, threads, thread, prompt, actVars, delVars>>

\* A statement fails, or the client goes away while the method awaits one.
Rollback(n) ==
  /\ store # "memory"
  /\ pc[n] \in {"called", "opened", "counted"}
  /\ pc' = [pc EXCEPT ![n] = "refused"]
  /\ Forget(n)
  /\ holder' = IF holder = n THEN Nobody ELSE holder
  /\ UNCHANGED <<store, graphVars, thread, prompt, actVars, delVars>>

\* Mutant: the memory store does not look the message up.
ReadAnyPrompt(n) ==
  /\ pc[n] = "begun"
  /\ CanRun(n)
  /\ pc' = [pc EXCEPT ![n] = "prompted"]
  /\ prompt' = [prompt EXCEPT ![n] = Chain(Answer(n))]
  /\ UNCHANGED <<lockVars, graphVars, thread, target, base, number, actVars, delVars>>

\* history_for_message, in a statement of its own.  Only the memory store
\* refuses a message that is gone.
ReadPrompt(n) ==
  /\ pc[n] = "begun"
  /\ CanRun(n)
  /\ IF store = "memory" /\ Answer(n) \notin rows
       THEN /\ pc' = [pc EXCEPT ![n] = "refused"]
            /\ UNCHANGED prompt
       ELSE /\ pc' = [pc EXCEPT ![n] = "prompted"]
            /\ prompt' = [prompt EXCEPT ![n] = Chain(Answer(n))]
  /\ UNCHANGED <<lockVars, graphVars, thread, target, base, number, actVars, delVars>>

-----------------------------------------------------------------------------
(* activate_message.                                                       *)

LoadTarget(a) ==
  /\ actPc[a] = "idle"
  /\ CanRun(a)
  /\ \E m \in rows :
       /\ home[m] \in threads
       /\ chosen' = [chosen EXCEPT ![a] = m]
  /\ actPc' = [actPc EXCEPT ![a] = "loaded"]
  /\ AlsoInMutex(a)
  /\ UNCHANGED <<store, graphVars, turnVars, delVars>>

\* Mutant: the selected message itself becomes the leaf.
TakeSelected(t, m) == {m}

\* An answer itself; of a question, its newest answer.
NewestAnswer(t, m) ==
  LET answers == {x \in Children(t, m) : IsAnswer(x)} IN
  IF IsAnswer(m) \/ answers = {}
    THEN {m}
    ELSE {x \in answers : \A y \in answers : y[1] <= x[1]}

ChooseLeaf(a) ==
  /\ actPc[a] = "loaded"
  /\ CanRun(a)
  /\ \E m \in NewestAnswer(home[chosen[a]], chosen[a]) : chosen' = [chosen EXCEPT ![a] = m]
  /\ actPc' = [actPc EXCEPT ![a] = "chosen"]
  /\ AlsoInMutex(a)
  /\ UNCHANGED <<store, graphVars, turnVars, delVars>>

SetLeaf(a) ==
  LET t == home[chosen[a]] IN
  /\ actPc[a] = "chosen"
  /\ CanRun(a)
  /\ leaf' = IF t \in threads THEN [leaf EXCEPT ![t] = chosen[a]] ELSE leaf
  /\ actPc' = [actPc EXCEPT ![a] = "done"]
  /\ chosen' = [chosen EXCEPT ![a] = Root]
  /\ Release
  /\ UNCHANGED <<store, threads, rows, parent, home, version, turnVars, delVars>>

-----------------------------------------------------------------------------
(* delete_thread.                                                          *)

LookUpThread(d) ==
  /\ delPc[d] = "idle"
  /\ CanRun(d)
  /\ \E t \in threads : doomed' = [doomed EXCEPT ![d] = t]
  /\ delPc' = [delPc EXCEPT ![d] = "looked"]
  /\ AlsoInMutex(d)
  /\ UNCHANGED <<store, graphVars, turnVars, actVars, found>>

\* The transaction deletes the messages it sees.
DeleteMessages(d) ==
  /\ delPc[d] = "looked"
  /\ CanRun(d)
  /\ found' = [found EXCEPT ![d] = {m \in rows : home[m] = doomed[d]}]
  /\ delPc' = [delPc EXCEPT ![d] = "deleting"]
  /\ InTransaction(d)
  /\ UNCHANGED <<store, graphVars, turnVars, actVars, doomed>>

\* Mutant: the messages are left behind.
DeleteThreadOnly(d) ==
  /\ delPc[d] = "deleting"
  /\ threads' = threads \ {doomed[d]}
  /\ delPc' = [delPc EXCEPT ![d] = "done"]
  /\ doomed' = [doomed EXCEPT ![d] = Nobody]
  /\ found' = [found EXCEPT ![d] = {}]
  /\ Release
  /\ UNCHANGED <<store, leaf, rows, parent, home, version, turnVars, actVars>>

DeleteThread(d) ==
  /\ delPc[d] = "deleting"
  /\ rows' = rows \ found[d]
  /\ threads' = threads \ {doomed[d]}
  /\ delPc' = [delPc EXCEPT ![d] = "done"]
  /\ doomed' = [doomed EXCEPT ![d] = Nobody]
  /\ found' = [found EXCEPT ![d] = {}]
  /\ Release
  /\ UNCHANGED <<store, leaf, parent, home, version, turnVars, actVars>>

-----------------------------------------------------------------------------
BeginTurn(n) == Call(n) \/ Open(n) \/ Count(n) \/ Commit(n) \/ Rollback(n)
ActivateMessage(a) == LoadTarget(a) \/ ChooseLeaf(a) \/ SetLeaf(a)
Delete(d) == LookUpThread(d) \/ DeleteMessages(d) \/ DeleteThread(d)

Next ==
  \/ \E n \in Turns : BeginTurn(n) \/ ReadPrompt(n)
  \/ \E a \in Activations : ActivateMessage(a)
  \/ \E d \in Deletions : Delete(d)

Spec == Init /\ [][Next]_vars

-----------------------------------------------------------------------------
(* Properties.                                                             *)

\* Whatever interleaves, the walk from any message of a thread ends, stays in
\* the thread and arrives at its beginning: no branch is cut off or circular.
BranchesComplete ==
  \A m \in rows : home[m] \in threads =>
    LET walk == Chain(m) IN
    /\ \A x \in walk : home[x] = home[m]
    /\ \E x \in walk : parent[x] = Root

\* A turn always continues after an answer: the active leaf is one of the
\* thread's answers, and no two questions or answers follow each other.
RolesAlternate ==
  /\ \A t \in threads : leaf[t] # Root =>
       leaf[t] \in rows /\ home[leaf[t]] = t /\ IsAnswer(leaf[t])
  /\ \A m \in rows : parent[m] # Root => (IsAnswer(m) <=> ~IsAnswer(parent[m]))

\* Where transactions are serial, no message outlives its thread.
NoOrphans ==
  store # "postgres" => \A m \in rows : home[m] \in threads

\* Where transactions are serial, the versions of a message are numbered
\* without gaps or repetitions; in the memory store the numbers also agree with
\* the timestamps, by which its view numbers the versions again.
VersionsNumbered ==
  \A m \in rows : LET all == Children(home[m], parent[m]) IN
    /\ store # "postgres" => {version[x] : x \in all} = 1 .. Cardinality(all)
    /\ store = "memory" => \A x \in all : version[x] < version[m] <=> x[1] < m[1]

\* A turn is answered from its whole branch, its own question included, and
\* from nothing else, unless its thread was deleted and the store is SQL.
Branch(m) ==
  LET up[d \in 0 .. 2 * MaxTurns] ==
        IF d = 0 THEN {m} ELSE up[d - 1] \cup ({parent[x] : x \in up[d - 1]} \cap Ids)
  IN  up[2 * MaxTurns]

PromptIsBranch ==
  \A n \in Turns : pc[n] = "prompted" =>
    \/ prompt[n] = Branch(Answer(n))
    \/ store # "memory" /\ thread[n] \notin threads
=============================================================================
