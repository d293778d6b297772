------------------------ MODULE ConversationGraph_proofs ------------------------
(***************************************************************************)
(* Proofs about ConversationGraph: the graph keeps its types, its branches *)
(* are complete, its roles alternate, nothing outlives its thread, versions*)
(* are numbered, and a turn is answered from its branch.                   *)
(*                                                                         *)
(* What the recursive walks compute is proved by induction over the set of *)
(* the depths at which a fact holds.                                       *)
(***************************************************************************)
EXTENDS ConversationGraph, FiniteSetTheorems, WellFoundedInduction, TLAPS

-----------------------------------------------------------------------------
(* Induction, and the walks up a branch.                                   *)

\* A set of numbers has a least element.
LEMMA Least ==
  ASSUME NEW T \in SUBSET Nat, T # {}
  PROVE  \E x \in T : \A y \in T : ~(y < x)
<1> DEFINE R == OpToRel(<, Nat)
<1>1. IsWellFoundedOn(R, Nat)
  BY NatLessThanWellFounded, Zenon
<1>2. \A x, y \in Nat : <<x, y>> \in R <=> x < y
  BY Zenon DEF OpToRel
<1> HIDE DEF R
<1>3. \E x \in T : \A y \in T : ~ (<<y, x>> \in R)
  BY <1>1, WFMin, Zenon
<1> QED BY <1>2, <1>3

\* What holds at the start and is passed on holds throughout.
LEMMA Induct ==
  ASSUME NEW N \in Nat, NEW S, 0 \in S, \A k \in 0 .. N : k \in S /\ k < N => k + 1 \in S
  PROVE  \A k \in 0 .. N : k \in S
<1> SUFFICES ASSUME NEW j \in 0 .. N, j \notin S PROVE FALSE
  OBVIOUS
<1> DEFINE T == {k \in 0 .. N : k \notin S}
<1>1. T \in SUBSET Nat /\ T # {}
  OBVIOUS
<1>2. PICK x \in T : \A y \in T : ~(y < x)
  BY <1>1, Least, Zenon
<1>3. x # 0 /\ x - 1 \in 0 .. N /\ x - 1 < N /\ x - 1 < x /\ (x - 1) + 1 = x
  BY <1>2
<1>4. x - 1 \in S
  BY <1>2, <1>3
<1>5. x \in S
  BY <1>3, <1>4
<1> QED BY <1>2, <1>5

Depth == 2 * MaxTurns

LEMMA DepthType == Depth \in Nat
BY GraphAssumption DEF Depth

\* Chain and Branch are the same walk: from "first", over the parents "p", as
\* long as they are in "inside".
Ascent(first, p, inside) ==
  CHOOSE up : up = [d \in 0 .. Depth |->
    IF d = 0 THEN first ELSE up[d - 1] \cup ({p[x] : x \in up[d - 1]} \cap inside)]

LEMMA ChainIsAscent == \A m : Chain(m) = Ascent({m} \cap rows, parent, rows)[Depth]
BY Zenon DEF Chain, Ascent, Depth

LEMMA BranchIsAscent == \A m : Branch(m) = Ascent({m}, parent, Ids)[Depth]
BY Zenon DEF Branch, Ascent, Depth

\* There is such a walk.
LEMMA AscentExists ==
  ASSUME NEW first, NEW p, NEW inside, NEW up, up = Ascent(first, p, inside)
  PROVE  up = [d \in 0 .. Depth |->
             IF d = 0 THEN first ELSE up[d - 1] \cup ({p[x] : x \in up[d - 1]} \cap inside)]
<1> DEFINE F(w, d) == IF d = 0 THEN first ELSE w[d - 1] \cup ({p[x] : x \in w[d - 1]} \cap inside)
           S == {k \in 0 .. Depth : \E g : g = [d \in 0 .. k |-> F(g, d)]}
<1>1. 0 \in S
  <2> DEFINE g0 == [d \in 0 .. 0 |-> first]
             G == [d \in 0 .. 0 |-> F(g0, d)]
  <2>1. \A d \in 0 .. 0 : G[d] = first
    OBVIOUS
  <2>2. G = [d \in 0 .. 0 |-> G[d]]
    OBVIOUS
  <2>3. g0 = G
    <3> HIDE DEF G
    <3> QED BY <2>1, <2>2
  <2>4. \E g : g = [d \in 0 .. 0 |-> F(g, d)]
    BY <2>3, Zenon
  <2>5. 0 \in 0 .. Depth
    BY DepthType
  <2> QED BY <2>4, <2>5
<1>2. ASSUME NEW k \in 0 .. Depth, k \in S, k < Depth PROVE k + 1 \in S
  <2>1. PICK g : g = [d \in 0 .. k |-> F(g, d)]
    BY <1>2
  <2>a. ASSUME NEW d \in 0 .. k PROVE g[d] = F(g, d)
    <3> DEFINE G == [e \in 0 .. k |-> F(g, e)]
    <3>1. G[d] = F(g, d)
      OBVIOUS
    <3>2. g = G
      BY <2>1
    <3> HIDE DEF G
    <3> QED BY <3>1, <3>2
  <2> DEFINE h == [d \in 0 .. (k + 1) |-> IF d = k + 1 THEN F(g, d) ELSE g[d]]
  <2>2. ASSUME NEW d \in 0 .. (k + 1) PROVE h[d] = F(h, d)
    <3>1. CASE d = k + 1
      <4>1. d # 0 /\ d - 1 \in 0 .. k /\ d - 1 # k + 1 /\ d - 1 \in 0 .. (k + 1)
        BY <3>1
      <4>2. h[d] = F(g, d) /\ h[d - 1] = g[d - 1]
        BY <3>1, <4>1
      <4> QED BY <4>1, <4>2
    <3>2. CASE d # k + 1
      <4>a. d \in 0 .. k /\ d \in 0 .. (k + 1)
        BY <3>2
      <4>b. h[d] = g[d]
        BY <3>2, <4>a
      <4>1. d \in 0 .. k /\ h[d] = g[d] /\ g[d] = F(g, d)
        BY <2>a, <4>a, <4>b, Zenon
      <4>2. CASE d = 0
        <5>1. F(g, d) = first /\ F(h, d) = first
          BY <4>2
        <5> QED BY <4>1, <5>1, Zenon
      <4>3. CASE d # 0
        <5>1. d - 1 \in 0 .. k /\ d - 1 # k + 1 /\ d - 1 \in 0 .. (k + 1)
          BY <4>1, <4>3
        <5>2. h[d - 1] = g[d - 1]
          BY <5>1
        <5> QED BY <4>1, <4>3, <5>2
      <4> QED BY <4>2, <4>3
    <3> QED BY <3>1, <3>2
  <2>3. h = [d \in 0 .. (k + 1) |-> h[d]]
    OBVIOUS
  <2>4. h = [d \in 0 .. (k + 1) |-> F(h, d)]
    <3> DEFINE G == [d \in 0 .. (k + 1) |-> F(h, d)]
    <3>1. G = [d \in 0 .. (k + 1) |-> G[d]]
      OBVIOUS
    <3>2. ASSUME NEW d \in 0 .. (k + 1) PROVE G[d] = F(h, d)
      OBVIOUS
    <3>3. ASSUME NEW d \in 0 .. (k + 1) PROVE h[d] = G[d]
      BY <2>2, <3>2, Zenon
    <3> HIDE DEF G, h
    <3>4. h = G
      BY <2>3, <3>1, <3>3
    <3> QED BY <3>4 DEF G
  <2>5. k + 1 \in 0 .. Depth
    BY <1>2, DepthType
  <2> HIDE DEF h
  <2> QED BY <2>4, <2>5
<1>3. Depth \in S
  <2>1. Depth \in 0 .. Depth /\ Depth \in Nat
    BY DepthType
  <2> HIDE DEF S
  <2> QED BY <1>1, <1>2, <2>1, Induct
<1>4. \E g : g = [d \in 0 .. Depth |-> F(g, d)]
  BY <1>3
<1> QED BY <1>4, Zenon DEF Ascent

\* What a walk does at its beginning and from one depth to the next.
LEMMA AscentSteps ==
  ASSUME NEW first, NEW p, NEW inside, NEW up, up = Ascent(first, p, inside)
  PROVE  /\ up[0] = first
         /\ \A d \in 0 .. Depth : d < Depth =>
              up[d + 1] = up[d] \cup ({p[x] : x \in up[d]} \cap inside)
<1> DEFINE G == [d \in 0 .. Depth |->
                  IF d = 0 THEN first ELSE up[d - 1] \cup ({p[x] : x \in up[d - 1]} \cap inside)]
<1>1. up = G
  BY AscentExists
<1>2. G[0] = first
  BY DepthType
<1>3. ASSUME NEW d \in 0 .. Depth, d < Depth
      PROVE  G[d + 1] = up[d] \cup ({p[x] : x \in up[d]} \cap inside)
  <2>1. d + 1 \in 0 .. Depth /\ d + 1 # 0 /\ (d + 1) - 1 = d
    BY <1>3, DepthType
  <2> QED BY <2>1
<1> HIDE DEF G
<1>4. up[0] = first /\ \A d \in 0 .. Depth : d < Depth =>
        up[d + 1] = up[d] \cup ({p[x] : x \in up[d]} \cap inside)
  BY <1>1, <1>2, <1>3, Zenon
<1> QED BY <1>4, Zenon

\* The same, message by message.
Climbs(up, first, p, inside) ==
  /\ up[0] = first
  /\ \A d \in 0 .. Depth : \A y : d < Depth =>
       (y \in up[d + 1] <=> y \in up[d] \/ (y \in inside /\ \E x \in up[d] : y = p[x]))

LEMMA AscentClimbs ==
  ASSUME NEW first, NEW p, NEW inside, NEW up, up = Ascent(first, p, inside)
  PROVE  Climbs(up, first, p, inside)
<1>1. /\ up[0] = first
      /\ \A d \in 0 .. Depth : d < Depth => up[d + 1] = up[d] \cup ({p[x] : x \in up[d]} \cap inside)
  BY AscentSteps
<1> QED BY <1>1 DEF Climbs

\* A walk that stays inside visits only what it starts from and what is inside.
LEMMA AscentWithin ==
  ASSUME NEW first, NEW p, NEW inside, NEW all, first \subseteq all, inside \subseteq all,
         NEW up, up = Ascent(first, p, inside)
  PROVE  \A d \in 0 .. Depth : up[d] \subseteq all
<1> DEFINE S == {d \in 0 .. Depth : up[d] \subseteq all}
<1>0. up[0] = first /\ \A d \in 0 .. Depth : d < Depth =>
        up[d + 1] = up[d] \cup ({p[x] : x \in up[d]} \cap inside)
  BY AscentSteps
<1>1. 0 \in S
  BY <1>0, DepthType
<1>2. ASSUME NEW d \in 0 .. Depth, d \in S, d < Depth PROVE d + 1 \in S
  <2>1. d + 1 \in 0 .. Depth
    BY <1>2, DepthType
  <2> QED BY <1>0, <1>2, <2>1
<1>3. \A d \in 0 .. Depth : d \in S
  <2> HIDE DEF S
  <2> QED BY <1>1, <1>2, DepthType, Induct, Zenon
<1> QED BY <1>3
-----------------------------------------------------------------------------
(* The graph: types, links between messages, and what requests prepared.   *)

Known(m) == home[m] # Nobody

\* Where a request of begin_turn is before it has inserted anything, and from
\* where on it has a thread.
Before == {"idle", "called", "opened", "counted"}
Within == {"called", "opened", "counted"}

\* Messages are inserted once and deleted with their thread: of the threads that
\* exist all of them are there.
Kept ==
  /\ \A m \in rows : home[m] \in Threads
  /\ \A m \in Ids : home[m] \in threads => m \in rows

\* A message continues one of its thread, of the other role; an answer always
\* continues a question, and a question has its answer since it was inserted.
Linked ==
  \A m \in Ids : Known(m) =>
    /\ parent[m] # Root =>
         /\ home[parent[m]] = home[m]
         /\ IsAnswer(m) <=> ~IsAnswer(parent[m])
    /\ IsAnswer(m) => parent[m] # Root
    /\ ~IsAnswer(m) => home[Answer(m[1])] = home[m] /\ parent[Answer(m[1])] = m

\* A request names a message of its thread and inserts under one of its thread,
\* whose role is the other than that of the message it inserts.
PreparedAt(n) ==
  /\ pc[n] \in Before => ~Known(Question(n)) /\ ~Known(Answer(n))
  /\ pc[n] \in Within => thread[n] \in Threads
  /\ pc[n] \in Within /\ target[n].kind # "new" =>
       target[n].message \in Ids /\ home[target[n].message] = thread[n]
  /\ pc[n] \in {"opened", "counted"} /\ base[n] # Root => home[base[n]] = thread[n]
  /\ pc[n] = "opened" /\ base[n] # Root => IsAnswer(base[n])
  /\ pc[n] = "counted" =>
       IF target[n].kind = "regenerate" THEN base[n] # Root /\ ~IsAnswer(base[n])
                                        ELSE base[n] # Root => IsAnswer(base[n])
  /\ pc[n] \in {"begun", "prompted"} => thread[n] \in Threads /\ home[Answer(n)] = thread[n]

Prepared == \A n \in Turns : PreparedAt(n)

\* The leaf of a thread, and the one that an activation is about to set.
Leaves ==
  /\ \A t \in Threads : leaf[t] # Root => home[leaf[t]] = t /\ IsAnswer(leaf[t])
  /\ \A a \in Activations :
       /\ actPc[a] \in {"loaded", "chosen"} => chosen[a] # Root /\ home[chosen[a]] \in Threads
       /\ actPc[a] = "chosen" /\ home[chosen[a]] \in threads => IsAnswer(chosen[a])

\* A deletion deletes messages of its thread.
Doomed ==
  \A d \in Deletions :
    /\ delPc[d] \in {"looked", "deleting"} => doomed[d] \in Threads
    /\ delPc[d] # "deleting" => found[d] = {}
    /\ \A m \in found[d] : home[m] = doomed[d]

GraphInv == TypeOK /\ Kept /\ Linked /\ Prepared /\ Leaves /\ Doomed


LEMMA Constants ==
  /\ \A n \in Turns : Question(n) \in Ids /\ Answer(n) \in Ids /\ Question(n) # Answer(n)
                     /\ IsAnswer(Answer(n)) /\ ~IsAnswer(Question(n))
                     /\ Question(n)[1] = n /\ Answer(n)[1] = n
  /\ \A m \in Ids : m[1] \in Turns /\ m = (IF IsAnswer(m) THEN Answer(m[1]) ELSE Question(m[1]))
  /\ Root \notin Ids /\ Nobody \notin Threads
  /\ Turns \subseteq Nat
BY GraphAssumption DEF Question, Answer, IsAnswer, Ids, Turns

LEMMA ChainType == TypeOK => \A m : Chain(m) \subseteq rows
<1> SUFFICES ASSUME TypeOK, NEW m PROVE Ascent({m} \cap rows, parent, rows)[Depth] \subseteq rows
  BY ChainIsAscent
<1>1. {m} \cap rows \subseteq rows /\ Depth \in 0 .. Depth
  BY DepthType
<1> QED BY <1>1, AscentWithin

LEMMA FiniteIds == IsFiniteSet(Turns) /\ IsFiniteSet(Ids)
<1>1. IsFiniteSet(Turns) /\ IsFiniteSet({"user", "assistant"})
  <2>1. {"user", "assistant"} = ({} \cup {"user"}) \cup {"assistant"}
    OBVIOUS
  <2>2. IsFiniteSet(({} \cup {"user"}) \cup {"assistant"})
    BY FS_EmptySet, FS_AddElement, Zenon
  <2>3. 1 \in Int /\ MaxTurns \in Int
    BY GraphAssumption
  <2>4. IsFiniteSet(Turns)
    BY <2>3, FS_Interval, Zenon DEF Turns
  <2> QED BY <2>1, <2>2, <2>4
<1> QED BY <1>1, FS_Product DEF Ids

\* The versions counted are numbers.
LEMMA VersionType ==
  ASSUME TypeOK
  PROVE  \A t, m : /\ IsFiniteSet(Children(t, m)) /\ Cardinality(Children(t, m)) \in Nat
                   /\ NextVersion(t, m) \in Nat
<1> SUFFICES ASSUME NEW t, NEW m
             PROVE  /\ IsFiniteSet(Children(t, m)) /\ Cardinality(Children(t, m)) \in Nat
                    /\ NextVersion(t, m) \in Nat
  OBVIOUS
<1>1. Children(t, m) \in SUBSET Ids
  BY DEF Children, TypeOK
<1>2. IsFiniteSet(Children(t, m)) /\ Cardinality(Children(t, m)) \in Nat
  BY <1>1, FiniteIds, FS_Subset, FS_CardinalityType
<1> QED BY <1>2 DEF NextVersion

\* What a commit does to the graph.
LEMMA CommitShape ==
  ASSUME TypeOK, NEW n \in Turns, Commit(n)
  PROVE  \E new \in SUBSET Ids, first \in Ids :
           /\ new \subseteq {Question(n), Answer(n)} /\ Answer(n) \in new /\ first \in new
           /\ IF target[n].kind = "regenerate"
                THEN new = {Answer(n)} /\ first = Answer(n)
                ELSE new = {Question(n), Answer(n)} /\ first = Question(n)
           /\ rows' = rows \cup new
           /\ \A m \in Ids \ new :
                home'[m] = home[m] /\ parent'[m] = parent[m] /\ version'[m] = version[m]
           /\ \A m \in new : home'[m] = thread[n]
           /\ parent'[first] = base[n] /\ version'[first] = number[n]
           /\ first # Answer(n) => parent'[Answer(n)] = Question(n) /\ version'[Answer(n)] = 1
<1> DEFINE again == target[n].kind = "regenerate"
           new == IF again THEN {Answer(n)} ELSE {Question(n), Answer(n)}
           first == IF again THEN Answer(n) ELSE Question(n)
<1>1. new \in SUBSET Ids /\ first \in Ids /\ first \in new /\ Answer(n) \in new
  BY Constants
<1>2. /\ rows' = rows \cup new
      /\ home' = [m \in Ids |-> IF m \in new THEN thread[n] ELSE home[m]]
      /\ parent' = [m \in Ids |-> IF m = first THEN base[n]
                                  ELSE IF m \in new THEN first ELSE parent[m]]
      /\ version' = [m \in Ids |-> IF m = first THEN number[n]
                                   ELSE IF m \in new THEN 1 ELSE version[m]]
  BY Zenon DEF Commit
<1>3. /\ \A m \in Ids \ new :
           home'[m] = home[m] /\ parent'[m] = parent[m] /\ version'[m] = version[m]
      /\ \A m \in new : home'[m] = thread[n]
      /\ parent'[first] = base[n] /\ version'[first] = number[n]
  <2> HIDE DEF new, first
  <2> QED BY <1>1, <1>2
<1>4. first # Answer(n) => parent'[Answer(n)] = Question(n) /\ version'[Answer(n)] = 1
  BY <1>1, <1>2, Constants
<1> QED BY <1>1, <1>2, <1>3, <1>4

LEMMA TypeStep ==
  ASSUME TypeOK, Prepared, [Next]_vars
  PROVE  TypeOK'
<1> USE DEF graphVars, turnVars, actVars, delVars, lockVars
<1>0. NoTarget \in [kind : Kinds, message : Ids \cup {Root}]
  BY DEF NoTarget, Kinds
<1>1. ASSUME NEW n \in Turns, Call(n) PROVE TypeOK'
  <2>1. /\ thread' \in [Turns -> Threads \cup {Nobody}]
        /\ target' \in [Turns -> [kind : Kinds, message : Ids \cup {Root}]]
    <3>1. CASE \E t \in Threads : /\ thread' = [thread EXCEPT ![n] = t]
                                  /\ target' = [target EXCEPT ![n] = NoTarget]
      BY <1>0, <3>1 DEF TypeOK
    <3>2. ASSUME NEW m \in rows, NEW kind \in {"edit", "regenerate"},
                 thread' = [thread EXCEPT ![n] = home[m]],
                 target' = [target EXCEPT ![n] = [kind |-> kind, message |-> m]]
          PROVE  /\ thread' \in [Turns -> Threads \cup {Nobody}]
                 /\ target' \in [Turns -> [kind : Kinds, message : Ids \cup {Root}]]
      <4>1. [kind |-> kind, message |-> m] \in [kind : Kinds, message : Ids \cup {Root}]
        BY DEF Kinds, TypeOK
      <4> QED BY <3>2, <4>1 DEF TypeOK
    <3> QED BY <1>1, <3>1, <3>2 DEF Call
  <2>2. holder' \in Turns \cup Activations \cup Deletions \cup {Nobody}
    BY <1>1 DEF Call, Stamp, TypeOK
  <2> QED BY <1>1, <2>1, <2>2 DEF Call, TypeOK
<1>2. ASSUME NEW n \in Turns, Open(n) PROVE TypeOK'
  <2>1. thread[n] \in threads => leaf[thread[n]] \in Ids \cup {Root}
    BY DEF TypeOK
  <2>2. /\ pc' \in [Turns -> {"idle", "called", "opened", "counted", "begun", "prompted", "refused"}]
        /\ target' \in [Turns -> [kind : Kinds, message : Ids \cup {Root}]]
        /\ base' \in [Turns -> Ids \cup {Root}] /\ number' \in [Turns -> Nat]
        /\ holder' \in {n, Nobody}
    <3>1. CASE thread[n] \in threads
      <4>1. /\ pc' = [pc EXCEPT ![n] = "opened"]
            /\ base' = [base EXCEPT ![n] = leaf[thread[n]]]
            /\ InTransaction(n)
            /\ UNCHANGED <<target, number>>
        BY <1>2, <3>1 DEF Open
      <4> QED BY <2>1, <3>1, <4>1 DEF InTransaction, TypeOK
    <3>2. CASE thread[n] \notin threads
      <4>1. Refused(n)
        BY <1>2, <3>2 DEF Open
      <4> QED BY <1>0, <4>1 DEF Refused, Forget, Release, TypeOK
    <3> QED BY <3>1, <3>2
  <2> QED BY <1>2, <2>2 DEF Open, TypeOK
<1>3. ASSUME NEW n \in Turns, Count(n) PROVE TypeOK'
  <2>1. NextVersion(thread[n], Parent(n)) \in Nat
    BY VersionType
  <2>2. Parent(n) \in Ids \cup {Root}
    <3>1. target[n].kind # "new" => target[n].message \in Ids
      BY <1>3 DEF Count, Prepared, PreparedAt, Within
    <3> QED BY <3>1 DEF Parent, TypeOK
  <2>3. /\ pc' \in [Turns -> {"idle", "called", "opened", "counted", "begun", "prompted", "refused"}]
        /\ base' \in [Turns -> Ids \cup {Root}] /\ number' \in [Turns -> Nat]
        /\ target' \in [Turns -> [kind : Kinds, message : Ids \cup {Root}]]
        /\ holder' \in {holder, Nobody}
    <3>1. CASE TargetOK(n)
      <4>1. /\ pc' = [pc EXCEPT ![n] = "counted"]
            /\ base' = [base EXCEPT ![n] = Parent(n)]
            /\ number' = [number EXCEPT ![n] = NextVersion(thread[n], Parent(n))]
            /\ UNCHANGED <<holder, target>>
        BY <1>3, <3>1 DEF Count
      <4> QED BY <2>1, <2>2, <4>1 DEF TypeOK
    <3>2. CASE ~TargetOK(n)
      <4>1. Refused(n)
        BY <1>3, <3>2 DEF Count
      <4> QED BY <1>0, <4>1 DEF Refused, Forget, Release, TypeOK
    <3> QED BY <3>1, <3>2
  <2> QED BY <1>3, <2>3 DEF Count, TypeOK
<1>4. ASSUME NEW n \in Turns, Commit(n) PROVE TypeOK'
  <2>1. thread[n] \in Threads /\ pc[n] = "counted"
    BY <1>4 DEF Commit, Prepared, PreparedAt, Within
  <2>2. /\ rows' \subseteq Ids /\ home' \in [Ids -> Threads \cup {Nobody}]
        /\ parent' \in [Ids -> Ids \cup {Root}] /\ version' \in [Ids -> Nat]
    BY <1>4, <2>1, Constants DEF Commit, TypeOK
  <2>3. leaf' \in [Threads -> Ids \cup {Root}]
    BY <1>4, Constants DEF Commit, TypeOK
  <2>4. /\ target' \in [Turns -> [kind : Kinds, message : Ids \cup {Root}]]
        /\ base' \in [Turns -> Ids \cup {Root}] /\ number' \in [Turns -> Nat]
        /\ pc' \in [Turns -> {"idle", "called", "opened", "counted", "begun", "prompted", "refused"}]
        /\ holder' = Nobody
        /\ UNCHANGED <<store, threads, thread, prompt, actVars, delVars>>
    BY <1>0, <1>4 DEF Commit, Forget, Release, TypeOK
  <2> QED BY <2>2, <2>3, <2>4 DEF TypeOK
<1>5. ASSUME NEW n \in Turns, Rollback(n) PROVE TypeOK'
  BY <1>0, <1>5 DEF Rollback, Forget, TypeOK
<1>6. ASSUME NEW n \in Turns, ReadPrompt(n) PROVE TypeOK'
  <2>1. Chain(Answer(n)) \subseteq Ids
    BY ChainType DEF TypeOK
  <2>2. prompt' \in [Turns -> SUBSET Ids]
    BY <1>6, <2>1 DEF ReadPrompt, TypeOK
  <2>3. pc' \in [Turns -> {"idle", "called", "opened", "counted", "begun", "prompted", "refused"}]
    BY <1>6 DEF ReadPrompt, TypeOK
  <2>4. UNCHANGED <<lockVars, graphVars, thread, target, base, number, actVars, delVars>>
    BY <1>6 DEF ReadPrompt
  <2> QED BY <2>2, <2>3, <2>4 DEF TypeOK
<1>7. ASSUME NEW a \in Activations, ActivateMessage(a) PROVE TypeOK'
  <2>1. CASE LoadTarget(a)
    BY <2>1 DEF LoadTarget, AlsoInMutex, TypeOK
  <2>2. CASE ChooseLeaf(a)
    <3>1. NewestAnswer(home[chosen[a]], chosen[a]) \subseteq Ids \cup {Root}
      BY DEF NewestAnswer, Children, TypeOK
    <3> QED BY <2>2, <3>1 DEF ChooseLeaf, AlsoInMutex, TypeOK
  <2>3. CASE SetLeaf(a)
    BY <2>3 DEF SetLeaf, Release, TypeOK
  <2> QED BY <1>7, <2>1, <2>2, <2>3 DEF ActivateMessage
<1>8. ASSUME NEW d \in Deletions, Delete(d) PROVE TypeOK'
  <2>1. CASE LookUpThread(d)
    BY <2>1 DEF LookUpThread, AlsoInMutex, TypeOK
  <2>2. CASE DeleteMessages(d)
    BY <2>2 DEF DeleteMessages, InTransaction, TypeOK
  <2>3. CASE DeleteThread(d)
    BY <2>3 DEF DeleteThread, Release, TypeOK
  <2> QED BY <1>8, <2>1, <2>2, <2>3 DEF Delete
<1>9. CASE UNCHANGED vars
  BY <1>9 DEF vars, TypeOK
<1> QED BY <1>1, <1>2, <1>3, <1>4, <1>5, <1>6, <1>7, <1>8, <1>9 DEF Next, BeginTurn
\* What a step does to the graph: it inserts the messages of one request, whose
\* thread was known, deletes a thread with messages it has found, or nothing.
LEMMA GraphSteps ==
  [Next]_vars =>
    \/ \E n \in Turns : Commit(n)
    \/ \E d \in Deletions : DeleteThread(d)
    \/ UNCHANGED <<threads, rows, parent, home, version>>
<1> SUFFICES ASSUME [Next]_vars,
                    ~ \E n \in Turns : Commit(n), ~ \E d \in Deletions : DeleteThread(d)
             PROVE  UNCHANGED <<threads, rows, parent, home, version>>
  OBVIOUS
<1> USE DEF graphVars
<1>1. ASSUME NEW n \in Turns, BeginTurn(n) \/ ReadPrompt(n)
      PROVE  UNCHANGED <<threads, rows, parent, home, version>>
  BY <1>1 DEF BeginTurn, ReadPrompt, Call, Open, Count, Rollback
<1>2. ASSUME NEW a \in Activations, ActivateMessage(a)
      PROVE  UNCHANGED <<threads, rows, parent, home, version>>
  BY <1>2 DEF ActivateMessage, LoadTarget, ChooseLeaf, SetLeaf
<1>3. ASSUME NEW d \in Deletions, Delete(d)
      PROVE  UNCHANGED <<threads, rows, parent, home, version>>
  BY <1>3 DEF Delete, LookUpThread, DeleteMessages
<1>4. CASE UNCHANGED vars
  BY <1>4 DEF vars
<1> QED BY <1>1, <1>2, <1>3, <1>4 DEF Next

\* A message stays what it is: its thread, parent and version.
LEMMA Grows ==
  ASSUME GraphInv, [Next]_vars
  PROVE  /\ threads' \subseteq threads
         /\ \A m \in Ids : Known(m) =>
              home'[m] = home[m] /\ parent'[m] = parent[m] /\ version'[m] = version[m]
         /\ \A m \in Ids : ~Known(m) /\ Known(m)' =>
              \E n \in Turns : Commit(n) /\ m \in {Question(n), Answer(n)} /\ home'[m] = thread[n]
<1>1. ASSUME NEW n \in Turns, Commit(n)
      PROVE  /\ threads' \subseteq threads
             /\ \A m \in Ids : Known(m) =>
                  home'[m] = home[m] /\ parent'[m] = parent[m] /\ version'[m] = version[m]
             /\ \A m \in Ids : ~Known(m) /\ Known(m)' =>
                  m \in {Question(n), Answer(n)} /\ home'[m] = thread[n]
  <2>1. PICK new \in SUBSET Ids :
          /\ new \subseteq {Question(n), Answer(n)}
          /\ \A m \in Ids \ new :
               home'[m] = home[m] /\ parent'[m] = parent[m] /\ version'[m] = version[m]
          /\ \A m \in new : home'[m] = thread[n]
    BY <1>1, CommitShape DEF GraphInv
  <2>2. \A m \in new : ~Known(m)
    BY <1>1, <2>1 DEF GraphInv, Prepared, PreparedAt, Before, Commit
  <2>3. threads' = threads
    BY <1>1 DEF Commit
  <2> QED BY <2>1, <2>2, <2>3 DEF Known
<1>2. ASSUME NEW d \in Deletions, DeleteThread(d)
      PROVE  threads' \subseteq threads /\ UNCHANGED <<parent, home, version>>
  BY <1>2 DEF DeleteThread
<1>3. CASE threads' \subseteq threads /\ UNCHANGED <<parent, home, version>>
  BY <1>3 DEF Known
<1> QED BY <1>1, <1>2, <1>3, GraphSteps

LEMMA KeptStep == GraphInv /\ [Next]_vars => Kept'
<1> SUFFICES ASSUME GraphInv, [Next]_vars PROVE Kept'
  OBVIOUS
<1> USE DEF GraphInv
<1>1. ASSUME NEW n \in Turns, Commit(n) PROVE Kept'
  <2>1. PICK new \in SUBSET Ids :
          /\ rows' = rows \cup new
          /\ \A m \in Ids \ new : home'[m] = home[m]
          /\ \A m \in new : home'[m] = thread[n]
    BY <1>1, CommitShape
  <2>2. thread[n] \in Threads /\ threads' = threads
    BY <1>1 DEF Commit, Prepared, PreparedAt, Within
  <2> QED BY <2>1, <2>2 DEF Kept, TypeOK
<1>2. ASSUME NEW d \in Deletions, DeleteThread(d) PROVE Kept'
  <2>1. /\ rows' = rows \ found[d] /\ threads' = threads \ {doomed[d]} /\ home' = home
        /\ \A m \in found[d] : home[m] = doomed[d]
    BY <1>2 DEF DeleteThread, Doomed
  <2> QED BY <2>1 DEF Kept
<1>3. CASE UNCHANGED <<threads, rows, parent, home, version>>
  BY <1>3 DEF Kept
<1> QED BY <1>1, <1>2, <1>3, GraphSteps

LEMMA LinkedStep == GraphInv /\ [Next]_vars => Linked'
<1> SUFFICES ASSUME GraphInv, [Next]_vars PROVE Linked'
  OBVIOUS
<1> USE DEF GraphInv
<1>1. ASSUME NEW n \in Turns, Commit(n) PROVE Linked'
  <2>0. /\ thread[n] \in Threads /\ thread[n] # Nobody
        /\ base[n] \in Ids \cup {Root} /\ (base[n] # Root => home[base[n]] = thread[n])
        /\ IF target[n].kind = "regenerate" THEN base[n] # Root /\ ~IsAnswer(base[n])
                                            ELSE base[n] # Root => IsAnswer(base[n])
    BY <1>1, Constants DEF Commit, Prepared, PreparedAt, Within, TypeOK
  <2>1. PICK new \in SUBSET Ids, first \in Ids :
          /\ new \subseteq {Question(n), Answer(n)} /\ Answer(n) \in new /\ first \in new
          /\ IF target[n].kind = "regenerate"
               THEN new = {Answer(n)} /\ first = Answer(n)
               ELSE new = {Question(n), Answer(n)} /\ first = Question(n)
          /\ \A m \in Ids \ new : home'[m] = home[m] /\ parent'[m] = parent[m]
          /\ \A m \in new : home'[m] = thread[n]
          /\ parent'[first] = base[n]
          /\ first # Answer(n) => parent'[Answer(n)] = Question(n)
    BY <1>1, CommitShape
  <2>2. ASSUME NEW m \in Ids, Known(m)' PROVE
          /\ parent'[m] # Root =>
               /\ home'[parent'[m]] = home'[m]
               /\ IsAnswer(m) <=> ~IsAnswer(parent'[m])
          /\ IsAnswer(m) => parent'[m] # Root
          /\ ~IsAnswer(m) => home'[Answer(m[1])] = home'[m] /\ parent'[Answer(m[1])] = m
    <3>1. CASE m \notin new
      <4>1. Known(m) /\ home'[m] = home[m] /\ parent'[m] = parent[m]
        BY <2>1, <2>2, <3>1 DEF Known
      <4>2. parent[m] # Root => parent[m] \in Ids /\ Known(parent[m])
        BY <4>1 DEF Linked, Known, TypeOK
      <4>3. ~IsAnswer(m) => Answer(m[1]) \in Ids /\ Known(Answer(m[1]))
        BY <4>1, Constants DEF Linked, Known
      <4> QED BY <4>1, <4>2, <4>3, Grows DEF Linked
    <3>2. CASE m = first
      <4>1. base[n] # Root => home'[base[n]] = thread[n]
        BY <2>0, Grows DEF Known
      <4> QED BY <2>0, <2>1, <3>2, <4>1, Constants
    <3>3. CASE m = Answer(n) /\ m # first
      BY <2>0, <2>1, <3>3, Constants
    <3> QED BY <2>1, <3>1, <3>2, <3>3
  <2> QED BY <2>2 DEF Linked
<1>2. CASE UNCHANGED <<home, parent>>
  BY <1>2 DEF Linked, Known
<1>3. ASSUME NEW d \in Deletions, DeleteThread(d) PROVE UNCHANGED <<home, parent>>
  BY <1>3 DEF DeleteThread
<1> QED BY <1>1, <1>2, <1>3, GraphSteps

\* What other requests do does not disturb what a request has prepared.
LEMMA PreparedStays ==
  ASSUME GraphInv, [Next]_vars, NEW n \in Turns, pc'[n] = pc[n],
         thread'[n] = thread[n], target'[n] = target[n], base'[n] = base[n]
  PROVE  PreparedAt(n)'
<1> USE DEF GraphInv
<1>1. PreparedAt(n) /\ base[n] \in Ids \cup {Root}
  BY DEF Prepared, TypeOK
<1>2. ~Commit(n)
  BY DEF Commit, TypeOK
<1>3. \A m \in {Question(n), Answer(n)} : ~Known(m) => ~Known(m)'
  BY <1>2, Grows, Constants
<1>4. \A m \in Ids : home[m] \in Threads => home'[m] = home[m]
  BY Grows, Constants DEF Known
<1> QED BY <1>1, <1>3, <1>4, Constants DEF PreparedAt, Within

\* An action of one request leaves what the others have prepared.
LEMMA OthersStay ==
  ASSUME TypeOK, [Next]_vars, NEW n \in Turns, BeginTurn(n) \/ ReadPrompt(n), NEW k \in Turns, k # n
  PROVE  pc'[k] = pc[k] /\ thread'[k] = thread[k] /\ target'[k] = target[k] /\ base'[k] = base[k]
<1>1. ASSUME Call(n) PROVE UNCHANGED base /\ pc' = [pc EXCEPT ![n] = "called"]
                           /\ thread'[k] = thread[k] /\ target'[k] = target[k]
  BY <1>1 DEF Call, TypeOK
<1>2. ASSUME Open(n) PROVE UNCHANGED thread /\ pc'[k] = pc[k] /\ target'[k] = target[k] /\ base'[k] = base[k]
  BY <1>2 DEF Open, Refused, Forget, TypeOK
<1>3. ASSUME Count(n) PROVE UNCHANGED thread /\ pc'[k] = pc[k] /\ target'[k] = target[k] /\ base'[k] = base[k]
  BY <1>3 DEF Count, Refused, Forget, TypeOK
<1>4. ASSUME Commit(n) PROVE UNCHANGED thread /\ pc'[k] = pc[k] /\ target'[k] = target[k] /\ base'[k] = base[k]
  BY <1>4 DEF Commit, Forget, TypeOK
<1>5. ASSUME Rollback(n) PROVE UNCHANGED thread /\ pc'[k] = pc[k] /\ target'[k] = target[k] /\ base'[k] = base[k]
  BY <1>5 DEF Rollback, Forget, TypeOK
<1>6. ASSUME ReadPrompt(n) PROVE UNCHANGED <<thread, target, base>> /\ pc'[k] = pc[k]
  BY <1>6 DEF ReadPrompt, TypeOK
<1>7. pc' = [pc EXCEPT ![n] = "called"] => pc'[k] = pc[k]
  BY DEF TypeOK
<1> QED BY <1>1, <1>2, <1>3, <1>4, <1>5, <1>6, <1>7 DEF BeginTurn

LEMMA PreparedStep == GraphInv /\ [Next]_vars => Prepared'
<1> SUFFICES ASSUME GraphInv, [Next]_vars PROVE Prepared'
  OBVIOUS
<1> USE DEF GraphInv
<1>1. ASSUME UNCHANGED turnVars PROVE Prepared'
  <2>1. UNCHANGED <<pc, thread, target, base>>
    BY <1>1 DEF turnVars
  <2> QED BY <2>1, PreparedStays DEF Prepared
<1>2. ASSUME NEW n \in Turns, BeginTurn(n) \/ ReadPrompt(n) PROVE Prepared'
  <2>1. ASSUME NEW k \in Turns, k # n PROVE PreparedAt(k)'
    BY <1>2, <2>1, OthersStay, PreparedStays
  <2>2. /\ PreparedAt(n)
        /\ \A m \in Ids : home[m] \in Threads => home'[m] = home[m]
    BY Grows, Constants DEF Known, Prepared, TypeOK
  <2>a. \A m \in {Question(n), Answer(n)} : ~Commit(n) /\ ~Known(m) => ~Known(m)'
    <3>1. ASSUME NEW k \in Turns, Commit(k), ~Commit(n) PROVE FALSE
      <4>1. k # n /\ pc[k] = "counted" /\ pc'[k] = "begun"
        BY <3>1 DEF Commit, TypeOK
      <4> QED BY <1>2, <4>1, OthersStay
    <3> QED BY <3>1, Grows, Constants
  <2>3. CASE Call(n)
    <3>1. pc[n] = "idle" /\ pc'[n] = "called" /\ ~Commit(n)
      BY <2>3 DEF Call, Commit, TypeOK
    <3>2. /\ thread'[n] \in Threads
          /\ target'[n].kind # "new" =>
               target'[n].message \in Ids /\ home[target'[n].message] = thread'[n]
      <4>1. CASE \E t \in Threads : /\ thread' = [thread EXCEPT ![n] = t]
                                    /\ target' = [target EXCEPT ![n] = NoTarget]
        BY <4>1 DEF TypeOK, NoTarget
      <4>2. CASE \E m \in rows, kind \in {"edit", "regenerate"} :
                   /\ thread' = [thread EXCEPT ![n] = home[m]]
                   /\ target' = [target EXCEPT ![n] = [kind |-> kind, message |-> m]]
        BY <4>2 DEF TypeOK, Kept
      <4> QED BY <2>3, <4>1, <4>2 DEF Call
    <3>3. PreparedAt(n)'
      BY <2>2, <2>a, <3>1, <3>2 DEF PreparedAt, Before, Within
    <3> QED BY <2>1, <3>3 DEF Prepared
  <2>4. ASSUME pc'[n] = "refused" PROVE Prepared'
    BY <2>1, <2>4 DEF Prepared, PreparedAt, Before, Within
  <2>5. CASE Open(n) /\ thread[n] \in threads
    <3>1. /\ pc[n] = "called" /\ pc'[n] = "opened" /\ ~Commit(n)
          /\ target'[n] = target[n] /\ thread'[n] = thread[n]
          /\ base'[n] = leaf[thread[n]]
      BY <2>5 DEF Open, Commit, TypeOK
    <3>2. leaf[thread[n]] # Root =>
            leaf[thread[n]] \in Ids /\ home[leaf[thread[n]]] = thread[n] /\ IsAnswer(leaf[thread[n]])
      BY <2>5 DEF Leaves, TypeOK
    <3>3. PreparedAt(n)'
      BY <2>2, <2>a, <3>1, <3>2 DEF PreparedAt, Before, Within
    <3> QED BY <2>1, <3>3 DEF Prepared
  <2>6. CASE Count(n) /\ TargetOK(n)
    <3>1. /\ pc[n] = "opened" /\ pc'[n] = "counted" /\ ~Commit(n)
          /\ target'[n] = target[n] /\ thread'[n] = thread[n]
          /\ base'[n] = Parent(n)
      BY <2>6 DEF Count, Commit, TypeOK
    <3>2. /\ Parent(n) # Root => Parent(n) \in Ids /\ home[Parent(n)] = thread[n]
          /\ IF target[n].kind = "regenerate" THEN Parent(n) # Root /\ ~IsAnswer(Parent(n))
                                              ELSE Parent(n) # Root => IsAnswer(Parent(n))
      <4>1. CASE target[n].kind = "new"
        BY <2>2, <3>1, <4>1 DEF PreparedAt, Parent, TypeOK
      <4>2. CASE target[n].kind # "new"
        <5> DEFINE m == target[n].message
        <5>1. m \in Ids /\ home[m] = thread[n] /\ thread[n] \in Threads /\ Known(m)
          BY <2>2, <3>1, <4>2, Constants DEF PreparedAt, Within, Known
        <5>2. parent[m] # Root => /\ parent[m] \in Ids /\ home[parent[m]] = thread[n]
                                  /\ IsAnswer(m) <=> ~IsAnswer(parent[m])
          BY <5>1 DEF Linked, TypeOK
        <5>3. \/ target[n].kind = "edit" /\ ~IsAnswer(m)
              \/ (target[n].kind = "regenerate" /\ IsAnswer(m) /\ parent[m] \in rows)
          BY <2>6, <4>2 DEF TargetOK
        <5>4. Parent(n) = parent[m] /\ Root \notin rows
          BY <4>2, Constants DEF Parent, TypeOK
        <5> HIDE DEF m
        <5> QED BY <5>2, <5>3, <5>4
      <4> QED BY <4>1, <4>2
    <3>3. PreparedAt(n)'
      BY <2>2, <2>a, <3>1, <3>2 DEF PreparedAt, Before, Within
    <3> QED BY <2>1, <3>3 DEF Prepared
  <2>7. CASE Commit(n)
    <3>1. pc[n] = "counted" /\ pc'[n] = "begun" /\ thread'[n] = thread[n] /\ home'[Answer(n)] = thread[n]
      <4>1. home'[Answer(n)] = thread[n]
        BY <2>7, CommitShape
      <4> QED BY <2>7, <4>1 DEF Commit, TypeOK
    <3>2. PreparedAt(n)'
      BY <2>2, <3>1 DEF PreparedAt, Before, Within
    <3> QED BY <2>1, <3>2 DEF Prepared
  <2>8. CASE ReadPrompt(n) /\ pc'[n] = "prompted"
    <3>1. pc[n] = "begun" /\ thread'[n] = thread[n]
      BY <2>8 DEF ReadPrompt
    <3>2. PreparedAt(n)'
      BY <2>2, <2>8, <3>1, Constants DEF PreparedAt, Before, Within
    <3> QED BY <2>1, <3>2 DEF Prepared
  <2>9. \/ pc'[n] = "refused" \/ Call(n) \/ (Open(n) /\ thread[n] \in threads)
        \/ (Count(n) /\ TargetOK(n)) \/ Commit(n) \/ (ReadPrompt(n) /\ pc'[n] = "prompted")
    <3>1. Open(n) /\ thread[n] \notin threads => pc'[n] = "refused"
      BY DEF Open, Refused, TypeOK
    <3>2. Count(n) /\ ~TargetOK(n) => pc'[n] = "refused"
      BY DEF Count, Refused, TypeOK
    <3>3. Rollback(n) => pc'[n] = "refused"
      BY DEF Rollback, TypeOK
    <3>4. ReadPrompt(n) => pc'[n] \in {"refused", "prompted"}
      BY DEF ReadPrompt, TypeOK
    <3> QED BY <1>2, <3>1, <3>2, <3>3, <3>4 DEF BeginTurn
  <2> QED BY <2>3, <2>4, <2>5, <2>6, <2>7, <2>8, <2>9
<1>3. ASSUME NEW a \in Activations, ActivateMessage(a) PROVE UNCHANGED turnVars
  BY <1>3 DEF ActivateMessage, LoadTarget, ChooseLeaf, SetLeaf
<1>4. ASSUME NEW d \in Deletions, Delete(d) PROVE UNCHANGED turnVars
  BY <1>4 DEF Delete, LookUpThread, DeleteMessages, DeleteThread
<1>5. UNCHANGED vars => UNCHANGED turnVars
  BY DEF vars
<1> QED BY <1>1, <1>2, <1>3, <1>4, <1>5 DEF Next

LEMMA LeavesStep == GraphInv /\ [Next]_vars => Leaves'
<1> SUFFICES ASSUME GraphInv, [Next]_vars PROVE Leaves'
  OBVIOUS
<1> USE DEF GraphInv
<1>0. /\ \A m \in Ids : home[m] \in Threads => home'[m] = home[m]
      /\ threads' \subseteq threads /\ threads \subseteq Threads
  BY Grows, Constants DEF Known, TypeOK
<1>1. ASSUME UNCHANGED <<leaf, actPc, chosen>> PROVE Leaves'
  BY <1>0, <1>1 DEF Leaves, TypeOK
<1>2. ASSUME NEW n \in Turns, Commit(n) PROVE Leaves'
  <2>1. home'[Answer(n)] = thread[n] /\ IsAnswer(Answer(n)) /\ Answer(n) \in Ids
    BY <1>2, CommitShape, Constants
  <2>2. /\ leaf' = IF thread[n] \in threads THEN [leaf EXCEPT ![thread[n]] = Answer(n)] ELSE leaf
        /\ actPc' = actPc /\ chosen' = chosen
    BY <1>2 DEF Commit, actVars
  <2>3. ASSUME NEW t \in Threads, leaf'[t] # Root
        PROVE  home'[leaf'[t]] = t /\ IsAnswer(leaf'[t])
    <3>1. CASE leaf'[t] = Answer(n) /\ thread[n] = t
      BY <2>1, <3>1
    <3>2. CASE leaf'[t] = leaf[t]
      BY <1>0, <2>3, <3>2 DEF Leaves, TypeOK
    <3> QED BY <2>2, <3>1, <3>2 DEF TypeOK
  <2>4. ASSUME NEW a \in Activations
        PROVE  /\ actPc'[a] \in {"loaded", "chosen"} => chosen'[a] # Root /\ home'[chosen'[a]] \in Threads
               /\ actPc'[a] = "chosen" /\ home'[chosen'[a]] \in threads' => IsAnswer(chosen'[a])
    BY <1>0, <2>2 DEF Leaves, TypeOK
  <2> QED BY <2>3, <2>4 DEF Leaves
<1>3. ASSUME NEW a \in Activations, ActivateMessage(a) PROVE Leaves'
  <2>0. /\ UNCHANGED <<home, threads, rows, parent>>
        /\ \A b \in Activations : b # a => actPc'[b] = actPc[b] /\ chosen'[b] = chosen[b]
    BY <1>3 DEF ActivateMessage, LoadTarget, ChooseLeaf, SetLeaf, graphVars, TypeOK
  <2>1. ASSUME \A t \in Threads : leaf'[t] # Root => home[leaf'[t]] = t /\ IsAnswer(leaf'[t]),
               actPc'[a] \in {"loaded", "chosen"} => chosen'[a] # Root /\ home[chosen'[a]] \in Threads,
               actPc'[a] = "chosen" /\ home[chosen'[a]] \in threads => IsAnswer(chosen'[a])
        PROVE  Leaves'
    BY <2>0, <2>1 DEF Leaves
  <2>2. CASE LoadTarget(a)
    <3>1. leaf' = leaf /\ actPc'[a] = "loaded" /\ chosen'[a] \in rows /\ home[chosen'[a]] \in threads
      BY <2>2 DEF LoadTarget, graphVars, TypeOK
    <3> QED BY <1>0, <2>1, <3>1, Constants DEF Leaves, TypeOK
  <2>3. CASE ChooseLeaf(a)
    <3> DEFINE c == chosen[a]
               answers == {x \in Children(home[c], c) : IsAnswer(x)}
    <3>1. leaf' = leaf /\ c \in Ids /\ home[c] \in Threads /\ Known(c)
      BY <2>3, Constants DEF ChooseLeaf, graphVars, Leaves, Known, TypeOK
    <3>2. chosen'[a] \in NewestAnswer(home[c], c)
      BY <2>3 DEF ChooseLeaf, TypeOK
    <3>3. \/ chosen'[a] = c /\ (IsAnswer(c) \/ answers = {})
          \/ chosen'[a] \in answers
      BY <3>2, Zenon DEF NewestAnswer
    <3>4. ~IsAnswer(c) /\ home[c] \in threads => answers # {}
      <4>1. ASSUME ~IsAnswer(c), home[c] \in threads PROVE Answer(c[1]) \in answers
        <5>1. /\ Answer(c[1]) \in Ids /\ IsAnswer(Answer(c[1]))
              /\ home[Answer(c[1])] = home[c] /\ parent[Answer(c[1])] = c
          BY <3>1, <4>1, Constants DEF Linked
        <5>2. Answer(c[1]) \in rows
          BY <4>1, <5>1 DEF Kept
        <5> QED BY <5>1, <5>2 DEF Children
      <4> QED BY <4>1
    <3>5. chosen'[a] \in answers => /\ chosen'[a] \in Ids /\ home[chosen'[a]] = home[c]
                                    /\ IsAnswer(chosen'[a])
      BY DEF Children, TypeOK
    <3> HIDE DEF c, answers
    <3>6. chosen'[a] \in Ids /\ home[chosen'[a]] = home[c] /\ (home[c] \in threads => IsAnswer(chosen'[a]))
      BY <3>1, <3>3, <3>4, <3>5
    <3> QED BY <2>1, <3>1, <3>6, Constants DEF Leaves
  <2>4. CASE SetLeaf(a)
    <3>1. /\ actPc[a] = "chosen" /\ actPc'[a] = "done"
          /\ leaf' = IF home[chosen[a]] \in threads
                       THEN [leaf EXCEPT ![home[chosen[a]]] = chosen[a]] ELSE leaf
      BY <2>4 DEF SetLeaf, TypeOK
    <3>2. home[chosen[a]] \in threads => IsAnswer(chosen[a])
      BY <3>1 DEF Leaves
    <3>3. ASSUME NEW t \in Threads, leaf'[t] # Root PROVE home[leaf'[t]] = t /\ IsAnswer(leaf'[t])
      BY <3>1, <3>2, <3>3 DEF Leaves, TypeOK
    <3> QED BY <2>1, <3>1, <3>3
  <2> QED BY <1>3, <2>2, <2>3, <2>4 DEF ActivateMessage
<1>4. ASSUME NEW n \in Turns, BeginTurn(n) \/ ReadPrompt(n), ~Commit(n) PROVE UNCHANGED <<leaf, actPc, chosen>>
  BY <1>4 DEF BeginTurn, ReadPrompt, Call, Open, Count, Rollback, graphVars, actVars
<1>5. ASSUME NEW d \in Deletions, Delete(d) PROVE UNCHANGED <<leaf, actPc, chosen>>
  BY <1>5 DEF Delete, LookUpThread, DeleteMessages, DeleteThread, graphVars, actVars
<1>6. UNCHANGED vars => UNCHANGED <<leaf, actPc, chosen>>
  BY DEF vars, graphVars, actVars
<1> QED BY <1>1, <1>2, <1>3, <1>4, <1>5, <1>6 DEF Next

LEMMA DoomedStep == GraphInv /\ [Next]_vars => Doomed'
<1> SUFFICES ASSUME GraphInv, [Next]_vars PROVE Doomed'
  OBVIOUS
<1> USE DEF GraphInv
<1>1. ASSUME UNCHANGED delVars PROVE Doomed'
  <2>1. \A m \in Ids : home[m] \in Threads => home'[m] = home[m]
    BY Grows, Constants DEF Known
  <2>2. UNCHANGED <<delPc, doomed, found>>
    BY <1>1 DEF delVars
  <2> QED BY <2>1, <2>2 DEF Doomed, TypeOK
<1>2. ASSUME NEW d \in Deletions, Delete(d) PROVE Doomed'
  <2>1. home' = home
    BY <1>2 DEF Delete, LookUpThread, DeleteMessages, DeleteThread, graphVars
  <2>2. CASE LookUpThread(d)
    BY <2>1, <2>2 DEF LookUpThread, Doomed, TypeOK
  <2>3. CASE DeleteMessages(d)
    BY <2>1, <2>3 DEF DeleteMessages, Doomed, TypeOK
  <2>4. CASE DeleteThread(d)
    BY <2>1, <2>4 DEF DeleteThread, Doomed, TypeOK
  <2> QED BY <1>2, <2>2, <2>3, <2>4 DEF Delete
<1>3. ASSUME NEW n \in Turns, BeginTurn(n) \/ ReadPrompt(n) PROVE UNCHANGED delVars
  BY <1>3 DEF BeginTurn, ReadPrompt, Call, Open, Count, Commit, Rollback
<1>4. ASSUME NEW a \in Activations, ActivateMessage(a) PROVE UNCHANGED delVars
  BY <1>4 DEF ActivateMessage, LoadTarget, ChooseLeaf, SetLeaf
<1>5. UNCHANGED vars => UNCHANGED delVars
  BY DEF vars
<1> QED BY <1>1, <1>2, <1>3, <1>4, <1>5 DEF Next

LEMMA GraphInit == Init => GraphInv
<1> SUFFICES ASSUME Init PROVE GraphInv
  OBVIOUS
<1>1. TypeOK
  BY DEF Init, TypeOK, NoTarget, Kinds
<1>2. Kept /\ Linked /\ Leaves /\ Doomed
  BY Constants DEF Init, Kept, Linked, Leaves, Doomed, Known
<1>3. Prepared
  BY Constants DEF Init, Prepared, PreparedAt, Known, Within
<1> QED BY <1>1, <1>2, <1>3 DEF GraphInv

LEMMA GraphStep == GraphInv /\ [Next]_vars => GraphInv'
BY TypeStep, KeptStep, LinkedStep, PreparedStep, LeavesStep, DoomedStep DEF GraphInv

\* Whatever interleaves, every message keeps its thread, a parent in it and the
\* other role than its parent, and requests insert only below such messages.
THEOREM GraphKept == Spec => []GraphInv
BY GraphInit, GraphStep, PTL DEF Spec

\* The variables keep their types: no version is counted that is no number, no
\* message gets a parent that is none (begin_turn, activate_message,
\* delete_thread).
THEOREM GraphTypeCorrect == Spec => []TypeOK
<1>1. GraphInv => TypeOK
  BY DEF GraphInv
<1> QED BY <1>1, GraphKept, PTL

\* A turn continues after an answer, and no two questions or answers follow
\* each other, whatever begin_turn, activate_message and delete_thread interleave.
THEOREM TurnsFollowAnswers == Spec => []RolesAlternate
<1>1. GraphInv => RolesAlternate
  <2> SUFFICES ASSUME GraphInv PROVE RolesAlternate
    OBVIOUS
  <2>1. ASSUME NEW t \in threads, leaf[t] # Root
        PROVE  leaf[t] \in rows /\ home[leaf[t]] = t /\ IsAnswer(leaf[t])
    <3>1. t \in Threads /\ leaf[t] \in Ids
      BY <2>1 DEF GraphInv, TypeOK
    <3> QED BY <2>1, <3>1 DEF GraphInv, Leaves, Kept
  <2>2. ASSUME NEW m \in rows, parent[m] # Root PROVE IsAnswer(m) <=> ~IsAnswer(parent[m])
    <3>1. m \in Ids /\ Known(m)
      BY Constants DEF GraphInv, Kept, Known, TypeOK
    <3> QED BY <2>2, <3>1 DEF GraphInv, Linked
  <2> QED BY <2>1, <2>2 DEF RolesAlternate
<1> QED BY <1>1, GraphKept, PTL

-----------------------------------------------------------------------------
(* Where transactions are serial, one request at a time is inside one.     *)

TurnLocked(n) ==
  /\ pc[n] \in {"opened", "counted"} => holder = n /\ thread[n] \in threads
  /\ store = "memory" /\ pc[n] = "called" => holder = n

\* A deletion has found all that there is to delete.
DeletionLocked(d) ==
  delPc[d] = "deleting" =>
    /\ holder = d
    /\ \A m \in rows : home[m] = doomed[d] => m \in found[d]

Locked ==
  store # "postgres" =>
    /\ \A n \in Turns : TurnLocked(n)
    /\ \A d \in Deletions : DeletionLocked(d)

SerialInv == GraphInv /\ Locked /\ NoOrphans

LEMMA Requests ==
  /\ \A n \in Turns : n # Nobody /\ n \notin Activations /\ n \notin Deletions
  /\ \A d \in Deletions : d # Nobody /\ d \notin Activations
BY GraphAssumption

\* A step of a request of begin_turn leaves the others outside of transactions.
LEMMA TurnLocks ==
  ASSUME SerialInv, store # "postgres", [Next]_vars,
         NEW n \in Turns, BeginTurn(n) \/ ReadPrompt(n)
  PROVE  /\ \A k \in Turns : TurnLocked(k)'
         /\ \A d \in Deletions : DeletionLocked(d)'
<1> USE DEF SerialInv, GraphInv
<1>0. UNCHANGED <<store, threads, delPc, doomed, found>>
  BY DEF BeginTurn, ReadPrompt, Call, Open, Count, Commit, Rollback, graphVars, lockVars, delVars
<1>1. \/ holder = n /\ holder' \in {n, Nobody}
      \/ holder = Nobody /\ holder' \in {n, Nobody}
      \/ holder' = holder
  <2>1. CASE Call(n)
    BY <2>1 DEF Call, Stamp
  <2>2. CASE Open(n)
    BY <2>2 DEF Open, CanRun, InTransaction, Refused, Release
  <2>3. CASE Count(n)
    BY <2>3 DEF Count, Refused, Release, Locked, TurnLocked
  <2>4. CASE Commit(n)
    BY <2>4 DEF Commit, Release, Locked, TurnLocked
  <2>5. CASE Rollback(n)
    BY <2>5 DEF Rollback
  <2>6. CASE ReadPrompt(n)
    BY <2>6 DEF ReadPrompt, lockVars
  <2> QED BY <2>1, <2>2, <2>3, <2>4, <2>5, <2>6 DEF BeginTurn
<1>2. ASSUME NEW k \in Turns, k # n PROVE TurnLocked(k)'
  <2>1. pc'[k] = pc[k] /\ thread'[k] = thread[k]
    BY <1>2, OthersStay
  <2> QED BY <1>0, <1>1, <1>2, <2>1, Requests DEF Locked, TurnLocked
<1>3. TurnLocked(n)'
  <2>1. CASE Call(n)
    <3>1. pc'[n] = "called" /\ (store = "memory" => holder' = n)
      BY <2>1 DEF Call, Stamp, TypeOK
    <3> QED BY <1>0, <3>1 DEF TurnLocked
  <2>2. CASE Open(n)
    <3>1. CASE thread[n] \in threads
      <4>1. pc'[n] = "opened" /\ holder' = n /\ thread'[n] = thread[n]
        BY <2>2, <3>1 DEF Open, InTransaction, TypeOK
      <4> QED BY <1>0, <3>1, <4>1 DEF TurnLocked
    <3>2. CASE thread[n] \notin threads
      <4>1. pc'[n] = "refused"
        BY <2>2, <3>2 DEF Open, Refused, TypeOK
      <4> QED BY <4>1 DEF TurnLocked
    <3> QED BY <3>1, <3>2
  <2>3. CASE Count(n)
    <3>1. CASE TargetOK(n)
      <4>1. pc[n] = "opened" /\ pc'[n] = "counted" /\ holder' = holder /\ thread'[n] = thread[n]
        BY <2>3, <3>1 DEF Count, TypeOK
      <4> QED BY <1>0, <4>1 DEF Locked, TurnLocked
    <3>2. CASE ~TargetOK(n)
      <4>1. pc'[n] = "refused"
        BY <2>3, <3>2 DEF Count, Refused, TypeOK
      <4> QED BY <4>1 DEF TurnLocked
    <3> QED BY <3>1, <3>2
  <2>4. CASE Commit(n)
    BY <2>4 DEF Commit, TurnLocked, TypeOK
  <2>5. CASE Rollback(n)
    BY <2>5 DEF Rollback, TurnLocked, TypeOK
  <2>6. CASE ReadPrompt(n)
    BY <2>6 DEF ReadPrompt, TurnLocked, TypeOK
  <2> QED BY <2>1, <2>2, <2>3, <2>4, <2>5, <2>6 DEF BeginTurn
<1>4. ASSUME NEW d \in Deletions, delPc'[d] = "deleting" PROVE DeletionLocked(d)'
  <2>1. delPc[d] = "deleting" /\ holder = d /\ \A m \in rows : home[m] = doomed[d] => m \in found[d]
    BY <1>0, <1>4 DEF Locked, DeletionLocked
  <2>2. holder' = d /\ ~Commit(n)
    BY <1>1, <2>1, Requests DEF Commit, Locked, TurnLocked
  <2>3. UNCHANGED <<rows, home>>
    BY <2>2 DEF BeginTurn, ReadPrompt, Call, Open, Count, Rollback, graphVars
  <2> QED BY <1>0, <2>1, <2>2, <2>3 DEF DeletionLocked
<1> QED BY <1>2, <1>3, <1>4 DEF DeletionLocked

\* So does a step of an activation or of a deletion.
LEMMA RequestLocks ==
  ASSUME SerialInv, store # "postgres", [Next]_vars, NEW q \in Activations \cup Deletions,
         (q \in Activations /\ ActivateMessage(q)) \/ (q \in Deletions /\ Delete(q))
  PROVE  /\ \A k \in Turns : TurnLocked(k)'
         /\ \A d \in Deletions : DeletionLocked(d)'
<1> USE DEF SerialInv, GraphInv
<1>0. UNCHANGED <<store, pc, thread, home>>
  BY DEF ActivateMessage, LoadTarget, ChooseLeaf, SetLeaf, Delete, LookUpThread, DeleteMessages,
         DeleteThread, graphVars, turnVars
<1>1. holder \in {Nobody, q}
  <2>1. CASE q \in Activations /\ ActivateMessage(q)
    BY <2>1 DEF ActivateMessage, LoadTarget, ChooseLeaf, SetLeaf, CanRun
  <2>2. CASE q \in Deletions /\ Delete(q)
    BY <2>2 DEF Delete, LookUpThread, DeleteMessages, DeleteThread, CanRun, Locked, DeletionLocked
  <2> QED BY <2>1, <2>2
<1>2. ASSUME NEW k \in Turns PROVE TurnLocked(k)'
  BY <1>0, <1>1, Requests DEF Locked, TurnLocked
<1>3. ASSUME NEW d \in Deletions, delPc'[d] = "deleting" PROVE DeletionLocked(d)'
  <2>1. CASE delPc[d] = "deleting" /\ ~DeleteMessages(q)
    <3>1. holder = d
      BY <2>1 DEF Locked, DeletionLocked
    <3>2. q = d /\ q \in Deletions
      BY <1>1, <3>1, Requests
    <3>3. delPc[q] = "deleting" => delPc'[q] = "done"
      BY <2>1, <3>2, Requests DEF Delete, LookUpThread, DeleteThread, TypeOK
    <3> QED BY <1>3, <2>1, <3>2, <3>3
  <2>2. CASE DeleteMessages(q) /\ q \in Deletions
    <3>1. /\ holder' = q /\ rows' = rows
          /\ found' = [found EXCEPT ![q] = {m \in rows : home[m] = doomed[q]}]
          /\ delPc' = [delPc EXCEPT ![q] = "deleting"] /\ doomed' = doomed
      BY <2>2 DEF DeleteMessages, InTransaction, graphVars
    <3>2. d = q
      <4>1. d # q => delPc[d] = "deleting"
        BY <1>3, <3>1 DEF TypeOK
      <4>2. delPc[q] = "looked"
        BY <2>2 DEF DeleteMessages
      <4> QED BY <1>1, <2>2, <4>1, <4>2, Requests DEF Locked, DeletionLocked
    <3> QED BY <1>0, <3>1, <3>2 DEF DeletionLocked, TypeOK
  <2>3. CASE delPc[d] # "deleting" /\ ~(DeleteMessages(q) /\ q \in Deletions)
    BY <1>3, <2>3, Requests
    DEF ActivateMessage, LoadTarget, ChooseLeaf, SetLeaf, Delete, LookUpThread, DeleteThread,
        delVars, TypeOK
  <2>4. DeleteMessages(q) => q \in Deletions
    BY DEF DeleteMessages, ActivateMessage, LoadTarget, ChooseLeaf, SetLeaf, actVars, TypeOK
  <2> QED BY <2>1, <2>2, <2>3, <2>4
<1> QED BY <1>2, <1>3 DEF DeletionLocked

LEMMA SameStore == [Next]_vars => store' = store
BY DEF Next, BeginTurn, ReadPrompt, Call, Open, Count, Commit, Rollback, ActivateMessage,
       LoadTarget, ChooseLeaf, SetLeaf, Delete, LookUpThread, DeleteMessages, DeleteThread,
       lockVars, vars

LEMMA SerialStep == SerialInv /\ [Next]_vars => SerialInv'
<1> SUFFICES ASSUME SerialInv, [Next]_vars PROVE SerialInv'
  OBVIOUS
<1>1. GraphInv'
  BY GraphStep DEF SerialInv
<1>2. store' = store
  BY SameStore
<1>3. Locked'
  <2>1. CASE UNCHANGED vars
    BY <2>1 DEF vars, lockVars, graphVars, turnVars, delVars, SerialInv, Locked, TurnLocked,
                DeletionLocked
  <2> QED BY <1>2, <2>1, TurnLocks, RequestLocks DEF Next, Locked
<1>4. NoOrphans'
  <2> SUFFICES ASSUME store # "postgres", NEW m \in rows' PROVE home'[m] \in threads'
    BY <1>2 DEF NoOrphans
  <2> USE DEF SerialInv, GraphInv
  <2>1. ASSUME NEW n \in Turns, Commit(n) PROVE home'[m] \in threads'
    <3>1. thread[n] \in threads /\ threads' = threads
      BY <2>1 DEF Commit, Locked, TurnLocked
    <3>2. home'[m] = thread[n] \/ (m \in rows /\ home'[m] = home[m])
      BY <2>1, CommitShape DEF TypeOK
    <3> QED BY <3>1, <3>2 DEF NoOrphans
  <2>2. ASSUME NEW d \in Deletions, DeleteThread(d) PROVE home'[m] \in threads'
    <3>1. /\ rows' = rows \ found[d] /\ threads' = threads \ {doomed[d]} /\ home' = home
          /\ delPc[d] = "deleting"
      BY <2>2 DEF DeleteThread
    <3> QED BY <3>1 DEF NoOrphans, Locked, DeletionLocked
  <2>3. CASE UNCHANGED <<threads, rows, parent, home, version>>
    BY <2>3 DEF NoOrphans
  <2> QED BY <2>1, <2>2, <2>3, GraphSteps
<1> QED BY <1>1, <1>3, <1>4 DEF SerialInv

LEMMA SerialInit == Init => SerialInv
BY GraphInit DEF Init, SerialInv, Locked, TurnLocked, DeletionLocked, NoOrphans

\* No message outlives its thread in the memory store and in SQLite:
\* delete_thread deletes the messages it has seen and the thread in one
\* transaction, within which begin_turn inserts nothing.
THEOREM ThreadsTakeMessagesAlong == Spec => []NoOrphans
<1>1. SerialInv => NoOrphans
  BY DEF SerialInv
<1> QED BY <1>1, SerialInit, SerialStep, PTL DEF Spec

-----------------------------------------------------------------------------
(* The versions of a message are numbered, in the memory store in the order*)
(* of their timestamps.                                                    *)

\* The versions under a parent have no gaps, and the one that a transaction has
\* counted is the next.
Numbered ==
  store # "postgres" =>
    /\ \A t \in Threads, p \in Ids \cup {Root} :
         {version[x] : x \in Children(t, p)} = 1 .. Cardinality(Children(t, p))
    /\ \A n \in Turns : pc[n] = "counted" => number[n] = NextVersion(thread[n], base[n])

\* In the memory store a request has the mutex since its timestamp, so that a
\* message is inserted after all that are older.
Ordered ==
  \A x, m \in rows : home[x] = home[m] /\ parent[x] = parent[m] =>
    (version[x] < version[m] <=> x[1] < m[1])

InOrder ==
  /\ \A n, k \in Turns : k < n /\ pc[n] # "idle" => pc[k] # "idle"
  /\ store = "memory" =>
       /\ \A n, k \in Turns : pc[n] \in Within /\ n < k => pc[k] = "idle"
       /\ Ordered

VersionInv == SerialInv /\ Numbered /\ InOrder

\* The message that a commit inserts first.
First(n) == IF target[n].kind = "regenerate" THEN Answer(n) ELSE Question(n)

\* A commit inserts one new version of a message, and the first answer of a new
\* question.
LEMMA CommitChildren ==
  ASSUME GraphInv, [Next]_vars, NEW n \in Turns, Commit(n), NEW t \in Threads, NEW p \in Ids \cup {Root}
  PROVE  /\ First(n) \in Ids \ rows /\ Answer(n) \in Ids \ rows
         /\ t = thread[n] /\ p = base[n] => Children(t, p)' = Children(t, p) \cup {First(n)}
         /\ t = thread[n] /\ p = Question(n) /\ First(n) = Question(n) =>
              Children(t, p) = {} /\ Children(t, p)' = {Answer(n)} /\ p # base[n]
         /\ /\ ~(t = thread[n] /\ p = base[n])
            /\ ~(t = thread[n] /\ p = Question(n) /\ First(n) = Question(n))
            => Children(t, p)' = Children(t, p)
         /\ version'[First(n)] = number[n]
         /\ First(n) # Answer(n) => version'[Answer(n)] = 1
         /\ \A x \in rows : home'[x] = home[x] /\ parent'[x] = parent[x] /\ version'[x] = version[x]
         /\ rows' = rows \cup {First(n), Answer(n)}
         /\ home'[First(n)] = thread[n] /\ home'[Answer(n)] = thread[n]
         /\ parent'[First(n)] = base[n]
         /\ First(n) # Answer(n) => parent'[Answer(n)] = Question(n)
<1> USE DEF GraphInv
<1>1. PICK new \in SUBSET Ids, first \in Ids :
        /\ IF target[n].kind = "regenerate"
             THEN new = {Answer(n)} /\ first = Answer(n)
             ELSE new = {Question(n), Answer(n)} /\ first = Question(n)
        /\ rows' = rows \cup new
        /\ \A m \in new : home'[m] = thread[n]
        /\ parent'[first] = base[n] /\ version'[first] = number[n]
        /\ first # Answer(n) => parent'[Answer(n)] = Question(n) /\ version'[Answer(n)] = 1
  BY CommitShape
<1>2. first = First(n) /\ new = {First(n), Answer(n)}
  BY <1>1, Constants DEF First
<1>3. ~Known(Question(n)) /\ ~Known(Answer(n)) /\ pc[n] = "counted" /\ thread[n] \in Threads
  BY DEF Commit, Prepared, PreparedAt, Before, Within
<1>4. \A x \in rows : x \in Ids /\ Known(x)
  BY Constants DEF Kept, Known, TypeOK
<1>5. \A x \in rows : home'[x] = home[x] /\ parent'[x] = parent[x] /\ version'[x] = version[x]
  BY <1>4, Grows
<1>6. base[n] # Question(n)
  BY <1>3, Constants DEF Prepared, PreparedAt, Known, TypeOK
<1>7. \A x \in rows : parent[x] # Question(n)
  BY <1>3, <1>4, Constants DEF Linked, Known
<1>8. First(n) \in {Question(n), Answer(n)} /\ Question(n) \notin rows /\ Answer(n) \notin rows
  BY <1>3, <1>4 DEF First
<1>9. /\ rows' = rows \cup {First(n), Answer(n)}
      /\ home'[First(n)] = thread[n] /\ home'[Answer(n)] = thread[n]
      /\ parent'[First(n)] = base[n] /\ version'[First(n)] = number[n]
      /\ First(n) # Answer(n) => parent'[Answer(n)] = Question(n) /\ version'[Answer(n)] = 1
  BY <1>1, <1>2
<1>10. Children(t, p)' = {x \in rows' : home'[x] = t /\ parent'[x] = p}
  BY DEF Children
<1>11. t = thread[n] /\ p = base[n] => Children(t, p)' = Children(t, p) \cup {First(n)}
  BY <1>5, <1>6, <1>8, <1>9, <1>10 DEF Children
<1>12. t = thread[n] /\ p = Question(n) /\ First(n) = Question(n) =>
         Children(t, p) = {} /\ Children(t, p)' = {Answer(n)} /\ p # base[n]
  BY <1>5, <1>6, <1>7, <1>8, <1>9, <1>10, Constants DEF Children
<1>13. ASSUME ~(t = thread[n] /\ p = base[n]),
              ~(t = thread[n] /\ p = Question(n) /\ First(n) = Question(n))
       PROVE  Children(t, p)' = Children(t, p)
  BY <1>5, <1>8, <1>9, <1>10, <1>13 DEF Children
<1> QED BY <1>5, <1>8, <1>9, <1>11, <1>12, <1>13, Constants

LEMMA SameChildren ==
  UNCHANGED <<rows, home, parent>> => \A t, p : Children(t, p)' = Children(t, p)
BY DEF Children

\* The numbers of a set's versions, when one is added.
LEMMA OneMore ==
  ASSUME NEW c \in Nat PROVE (1 .. c) \cup {c + 1} = 1 .. (c + 1)
OBVIOUS

\* While a request is inside its transaction nobody commits or deletes.
LEMMA Alone ==
  ASSUME SerialInv, store # "postgres", NEW k \in Turns, pc[k] \in {"opened", "counted"}
  PROVE  /\ \A n \in Turns : pc[n] \in {"opened", "counted"} => n = k
         /\ \A d \in Deletions : delPc[d] # "deleting"
BY Requests DEF SerialInv, Locked, TurnLocked, DeletionLocked

LEMMA NumberedStep == VersionInv /\ [Next]_vars => Numbered'
<1> SUFFICES ASSUME VersionInv, [Next]_vars, store # "postgres" PROVE Numbered'
  BY SameStore DEF Numbered
<1> USE DEF VersionInv, SerialInv, GraphInv
<1>1. ASSUME NEW t \in Threads, NEW p \in Ids \cup {Root}
      PROVE  {version'[x] : x \in Children(t, p)'} = 1 .. Cardinality(Children(t, p)')
  <2> DEFINE old == Children(t, p)
  <2>1. /\ {version[x] : x \in old} = 1 .. Cardinality(old)
        /\ IsFiniteSet(old) /\ Cardinality(old) \in Nat /\ old \subseteq rows
    <3>1. {version[x] : x \in old} = 1 .. Cardinality(old)
      BY DEF Numbered
    <3>2. old \subseteq rows
      BY DEF Children
    <3> QED BY <3>1, <3>2, VersionType
  <2>2. ASSUME NEW n \in Turns, Commit(n)
        PROVE  {version'[x] : x \in Children(t, p)'} = 1 .. Cardinality(Children(t, p)')
    <3>1. \A x \in rows : version'[x] = version[x]
      BY <2>2, CommitChildren
    <3>2. CASE t = thread[n] /\ p = base[n]
      <4>1. Children(t, p)' = old \cup {First(n)} /\ First(n) \notin old
        BY <2>1, <2>2, <3>2, CommitChildren
      <4>2. Cardinality(Children(t, p)') = Cardinality(old) + 1
        BY <2>1, <4>1, FS_AddElement
      <4>3. version'[First(n)] = Cardinality(old) + 1
        <5>1. number[n] = NextVersion(t, p)
          BY <2>2, <3>2 DEF Commit, Numbered
        <5>2. version'[First(n)] = number[n]
          BY <2>2, CommitChildren
        <5> QED BY <2>1, <5>1, <5>2 DEF NextVersion
      <4>4. {version'[x] : x \in Children(t, p)'} = {version[x] : x \in old} \cup {Cardinality(old) + 1}
        BY <2>1, <3>1, <4>1, <4>3
      <4> HIDE DEF old
      <4> QED BY <2>1, <4>2, <4>4, OneMore
    <3>3. CASE t = thread[n] /\ p = Question(n) /\ First(n) = Question(n)
      <4>1. Children(t, p)' = {Answer(n)} /\ version'[Answer(n)] = 1
        BY <2>2, <3>3, CommitChildren, Constants
      <4>2. Cardinality({Answer(n)}) = 1
        BY FS_Singleton
      <4> QED BY <4>1, <4>2
    <3>4. CASE /\ ~(t = thread[n] /\ p = base[n])
               /\ ~(t = thread[n] /\ p = Question(n) /\ First(n) = Question(n))
      <4>1. Children(t, p)' = old
        BY <2>2, <3>4, CommitChildren
      <4> QED BY <2>1, <3>1, <4>1
    <3> QED BY <3>2, <3>3, <3>4
  <2>3. ASSUME NEW d \in Deletions, DeleteThread(d)
        PROVE  {version'[x] : x \in Children(t, p)'} = 1 .. Cardinality(Children(t, p)')
    <3>1. /\ rows' = rows \ found[d] /\ home' = home /\ parent' = parent /\ version' = version
          /\ delPc[d] = "deleting"
      BY <2>3 DEF DeleteThread
    <3>2. CASE t = doomed[d]
      <4>1. Children(t, p)' = {}
        BY <3>1, <3>2 DEF Children, Locked, DeletionLocked
      <4>2. Cardinality({}) = 0
        BY FS_EmptySet
      <4> QED BY <4>1, <4>2
    <3>3. CASE t # doomed[d]
      <4>1. Children(t, p)' = old
        BY <3>1, <3>3 DEF Children, Doomed
      <4> QED BY <2>1, <3>1, <4>1
    <3> QED BY <3>2, <3>3
  <2>4. CASE UNCHANGED <<threads, rows, parent, home, version>>
    <3>1. Children(t, p)' = old
      BY <2>4, SameChildren
    <3> QED BY <2>1, <2>4, <3>1
  <2> QED BY <2>2, <2>3, <2>4, GraphSteps
<1>2. ASSUME NEW k \in Turns, pc'[k] = "counted"
      PROVE  number'[k] = 1 + Cardinality({x \in rows' : home'[x] = thread'[k] /\ parent'[x] = base'[k]})
  <2>1. CASE Count(k)
    <3>1. /\ number'[k] = NextVersion(thread[k], Parent(k)) /\ base'[k] = Parent(k)
          /\ thread'[k] = thread[k]
      <4>1. TargetOK(k)
        BY <1>2, <2>1 DEF Count, Refused, TypeOK
      <4> QED BY <2>1, <4>1 DEF Count, TypeOK
    <3>2. UNCHANGED <<rows, home, parent>>
      BY <2>1 DEF Count, graphVars
    <3> QED BY <3>1, <3>2 DEF NextVersion, Children
  <2>2. ASSUME ~Count(k)
        PROVE  /\ pc[k] = "counted" /\ number'[k] = number[k]
               /\ thread'[k] = thread[k] /\ base'[k] = base[k]
    <3>1. ASSUME NEW n \in Turns, BeginTurn(n) \/ ReadPrompt(n)
          PROVE  /\ pc[k] = "counted" /\ number'[k] = number[k]
                 /\ thread'[k] = thread[k] /\ base'[k] = base[k]
      <4>1. n # k
        BY <1>2, <2>2, <3>1
        DEF BeginTurn, ReadPrompt, Call, Open, Commit, Rollback, Refused, TypeOK
      <4>2. number'[k] = number[k]
        BY <3>1, <4>1 DEF BeginTurn, ReadPrompt, Call, Open, Count, Commit, Rollback, Refused,
                          Forget, TypeOK
      <4> QED BY <1>2, <3>1, <4>1, <4>2, OthersStay
    <3>2. CASE UNCHANGED turnVars
      BY <1>2, <3>2 DEF turnVars
    <3>3. ASSUME NEW a \in Activations, ActivateMessage(a) PROVE UNCHANGED turnVars
      BY <3>3 DEF ActivateMessage, LoadTarget, ChooseLeaf, SetLeaf
    <3>4. ASSUME NEW d \in Deletions, Delete(d) PROVE UNCHANGED turnVars
      BY <3>4 DEF Delete, LookUpThread, DeleteMessages, DeleteThread
    <3>5. UNCHANGED vars => UNCHANGED turnVars
      BY DEF vars
    <3> QED BY <3>1, <3>2, <3>3, <3>4, <3>5 DEF Next
  <2>3. CASE ~Count(k)
    <3>1. \A n \in Turns : ~Commit(n)
      <4>1. ASSUME NEW n \in Turns, Commit(n) PROVE FALSE
        <5>1. pc[n] = "counted" /\ pc'[n] = "begun"
          BY <4>1 DEF Commit, TypeOK
        <5> QED BY <1>2, <2>2, <2>3, <5>1, Alone
      <4> QED BY <4>1
    <3>2. \A d \in Deletions : ~DeleteThread(d)
      BY <2>2, <2>3, Alone DEF DeleteThread
    <3>3. UNCHANGED <<rows, home, parent>>
      BY <3>1, <3>2, GraphSteps
    <3> QED BY <2>2, <2>3, <3>3 DEF Numbered, NextVersion, Children
  <2> QED BY <2>1, <2>3
<1> QED BY <1>1, <1>2 DEF Numbered, NextVersion, Children

\* Who has begun stays so; who is within had been, or has just been called.
LEMMA Begun ==
  ASSUME TypeOK, [Next]_vars, NEW n \in Turns
  PROVE  /\ pc[n] # "idle" => pc'[n] # "idle"
         /\ pc[n] = "idle" /\ pc'[n] # "idle" => Call(n)
         /\ pc'[n] \in Within => pc[n] \in Within \/ Call(n)
<1>1. ASSUME NEW k \in Turns, BeginTurn(k) \/ ReadPrompt(k), k # n PROVE pc'[n] = pc[n]
  BY <1>1, OthersStay
<1>2. ASSUME BeginTurn(n) \/ ReadPrompt(n)
      PROVE  pc'[n] # "idle" /\ (Call(n) \/ (pc[n] # "idle" /\ (pc'[n] \in Within => pc[n] \in Within)))
  BY <1>2 DEF BeginTurn, ReadPrompt, Call, Open, Count, Commit, Rollback, Refused, Within, TypeOK
<1>3. ASSUME NEW a \in Activations, ActivateMessage(a) PROVE pc' = pc
  BY <1>3 DEF ActivateMessage, LoadTarget, ChooseLeaf, SetLeaf, turnVars
<1>4. ASSUME NEW d \in Deletions, Delete(d) PROVE pc' = pc
  BY <1>4 DEF Delete, LookUpThread, DeleteMessages, DeleteThread, turnVars
<1>5. UNCHANGED vars => pc' = pc
  BY DEF vars, turnVars
<1>6. pc'[n] = pc[n] \/ (BeginTurn(n) \/ ReadPrompt(n))
  BY <1>1, <1>3, <1>4, <1>5 DEF Next
<1> QED BY <1>2, <1>6

\* Versions below a number are those of the messages that it counts.
LEMMA Below ==
  ASSUME VersionInv, store # "postgres", NEW x \in rows
  PROVE  /\ x \in Children(home[x], parent[x])
         /\ version[x] < NextVersion(home[x], parent[x]) /\ version[x] \in Nat
         /\ NextVersion(home[x], parent[x]) \in Nat
<1> USE DEF VersionInv, SerialInv, GraphInv
<1>1. x \in Children(home[x], parent[x])
  BY DEF Children
<1>2. home[x] \in Threads /\ parent[x] \in Ids \cup {Root} /\ version[x] \in Nat
  BY DEF Kept, TypeOK
<1>3. version[x] \in 1 .. Cardinality(Children(home[x], parent[x]))
  <2>1. {version[y] : y \in Children(home[x], parent[x])} = 1 .. Cardinality(Children(home[x], parent[x]))
    BY <1>2 DEF Numbered
  <2> QED BY <1>1, <2>1
<1>4. Cardinality(Children(home[x], parent[x])) \in Nat
  BY VersionType
<1> QED BY <1>1, <1>2, <1>3, <1>4 DEF NextVersion

LEMMA OrderedStep == VersionInv /\ [Next]_vars /\ store = "memory" => Ordered'
<1> SUFFICES ASSUME VersionInv, [Next]_vars, store = "memory",
                    NEW x \in rows', NEW m \in rows', home'[x] = home'[m], parent'[x] = parent'[m]
             PROVE  version'[x] < version'[m] <=> x[1] < m[1]
  BY DEF Ordered
<1> USE DEF VersionInv, SerialInv, GraphInv
<1>0. Ordered
  BY DEF InOrder
<1>1. ASSUME NEW n \in Turns, Commit(n) PROVE version'[x] < version'[m] <=> x[1] < m[1]
  <2>0. /\ thread[n] \in Threads /\ base[n] \in Ids \cup {Root} /\ pc[n] = "counted"
        /\ number[n] = NextVersion(thread[n], base[n])
    BY <1>1 DEF Commit, Prepared, PreparedAt, Within, TypeOK, Numbered
  <2>1. /\ First(n) \in Ids \ rows /\ Answer(n) \in Ids \ rows
        /\ version'[First(n)] = number[n]
        /\ \A y \in rows : home'[y] = home[y] /\ parent'[y] = parent[y] /\ version'[y] = version[y]
        /\ rows' = rows \cup {First(n), Answer(n)}
        /\ home'[First(n)] = thread[n] /\ home'[Answer(n)] = thread[n]
        /\ parent'[First(n)] = base[n]
        /\ First(n) # Answer(n) => parent'[Answer(n)] = Question(n)
    BY <1>1, <2>0, CommitChildren
  <2>2. ~Known(Question(n)) /\ ~Known(Answer(n)) /\ base[n] # Question(n)
    BY <2>0, Constants DEF Prepared, PreparedAt, Before, Known, TypeOK
  <2>3. \A y \in rows : y \in Ids /\ Known(y) /\ parent[y] # Question(n)
    BY <2>2, Constants DEF Kept, Linked, Known, TypeOK
  <2>4. \A y \in rows : y[1] \in Turns /\ y[1] < n
    <3>1. ASSUME NEW y \in rows PROVE y[1] \in Turns /\ y[1] < n
      <4>1. y \in Ids /\ y[1] \in Turns /\ Known(y) /\ y \in {Question(y[1]), Answer(y[1])}
        BY <2>3, Constants
      <4>2. pc[y[1]] # "idle" /\ y[1] # n
        BY <2>2, <4>1 DEF Prepared, PreparedAt, Before
      <4>3. ~(n < y[1])
        BY <2>0, <4>1, <4>2 DEF InOrder, Within
      <4> QED BY <4>1, <4>2, <4>3, Constants
    <3> QED BY <3>1
  <2>5. First(n)[1] = n /\ Answer(n)[1] = n /\ n \in Nat
    BY Constants DEF First
  <2>6. CASE x \in rows /\ m \in rows
    BY <1>0, <2>1, <2>6 DEF Ordered
  <2>7. ASSUME NEW y \in rows, home'[y] = home'[First(n)], parent'[y] = parent'[First(n)]
        PROVE  version'[y] < version'[First(n)] /\ ~(version'[First(n)] < version'[y])
    <3>1. home[y] = thread[n] /\ parent[y] = base[n] /\ version'[y] = version[y]
      BY <2>1, <2>7
    <3>2. version[y] < number[n] /\ version[y] \in Nat /\ number[n] \in Nat
      BY <2>0, <3>1, Below
    <3> QED BY <2>1, <3>1, <3>2
  <2>8. \A y \in rows : First(n) # Answer(n) => parent'[y] # parent'[Answer(n)]
    BY <2>1, <2>3
  <2>9. First(n) # Answer(n) => parent'[First(n)] # parent'[Answer(n)]
    BY <2>1, <2>2
  <2>10. CASE x \in rows /\ m \notin rows
    <3>1. m = First(n)
      BY <2>1, <2>8, <2>10
    <3> QED BY <2>4, <2>5, <2>7, <2>10, <3>1
  <2>11. CASE x \notin rows /\ m \in rows
    <3>1. x = First(n)
      BY <2>1, <2>8, <2>11
    <3>2. m[1] < n /\ m[1] \in Nat
      BY <2>4, <2>11, Constants
    <3> QED BY <2>5, <2>7, <2>11, <3>1, <3>2
  <2>12. CASE x \notin rows /\ m \notin rows
    <3>1. x = m
      BY <2>1, <2>9, <2>12
    <3>2. m \in Ids /\ version'[m] \in Nat
      <4>1. TypeOK'
        BY TypeStep
      <4> QED BY <4>1 DEF TypeOK
    <3>3. m[1] \in Nat
      BY <3>2, Constants
    <3> QED BY <3>1, <3>2, <3>3
  <2> QED BY <2>6, <2>10, <2>11, <2>12
<1>2. ASSUME NEW d \in Deletions, DeleteThread(d) PROVE version'[x] < version'[m] <=> x[1] < m[1]
  <2>1. rows' = rows \ found[d] /\ UNCHANGED <<parent, home, version>>
    BY <1>2 DEF DeleteThread
  <2> QED BY <1>0, <2>1 DEF Ordered
<1>3. CASE UNCHANGED <<threads, rows, parent, home, version>>
  BY <1>0, <1>3 DEF Ordered
<1> QED BY <1>1, <1>2, <1>3, GraphSteps

LEMMA InOrderStep == VersionInv /\ [Next]_vars => InOrder'
<1> SUFFICES ASSUME VersionInv, [Next]_vars PROVE InOrder'
  OBVIOUS
<1> USE DEF VersionInv, SerialInv, GraphInv
<1>1. ASSUME NEW n \in Turns, NEW k \in Turns, k < n, pc'[n] # "idle" PROVE pc'[k] # "idle"
  <2>1. CASE pc[n] # "idle"
    BY <1>1, <2>1, Begun DEF InOrder
  <2>2. CASE pc[n] = "idle"
    <3>1. Call(n)
      BY <1>1, <2>2, Begun
    <3> QED BY <1>1, <3>1, Begun DEF Call
  <2> QED BY <2>1, <2>2
<1>2. ASSUME NEW n \in Turns, NEW k \in Turns, store = "memory", pc'[n] \in Within, n < k
      PROVE  pc'[k] = "idle"
  <2>1. pc[k] = "idle"
    <3>1. CASE pc[n] \in Within
      BY <1>2, <3>1 DEF InOrder
    <3>2. CASE Call(n)
      BY <1>2, <3>2 DEF InOrder, Call
    <3> QED BY <1>2, <3>1, <3>2, Begun
  <2>2. ~Call(k)
    <3>1. ASSUME Call(k) PROVE FALSE
      <4>1. pc[n] \in Within => holder = n
        BY <1>2 DEF Within, Locked, TurnLocked
      <4>2. holder = Nobody
        BY <1>2, <3>1 DEF Call, Stamp
      <4>3. Call(n)
        BY <1>2, <4>1, <4>2, Requests, Begun
      <4> QED BY <1>2, <3>1, <4>3 DEF Call
    <3> QED BY <3>1
  <2> QED BY <2>1, <2>2, Begun
<1>3. store' = "memory" => Ordered'
  BY OrderedStep, SameStore
<1> QED BY <1>1, <1>2, <1>3, SameStore DEF InOrder

LEMMA VersionStep == VersionInv /\ [Next]_vars => VersionInv'
BY SerialStep, NumberedStep, InOrderStep DEF VersionInv

LEMMA VersionInit == Init => VersionInv
<1> SUFFICES ASSUME Init PROVE VersionInv
  OBVIOUS
<1>1. \A t \in Threads, p \in Ids \cup {Root} :
        {version[x] : x \in Children(t, p)} = 1 .. Cardinality(Children(t, p))
  <2>1. \A t, p : Children(t, p) = {}
    BY DEF Init, Children
  <2>2. Cardinality({}) = 0
    BY FS_EmptySet
  <2> QED BY <2>1, <2>2
<1>2. Numbered
  BY <1>1 DEF Init, Numbered
<1>3. InOrder
  BY DEF Init, InOrder, Ordered, Within
<1> QED BY <1>2, <1>3, SerialInit DEF VersionInv

\* Where transactions are serial, the versions of a message are numbered without
\* gaps or repetitions (next_sibling_version), and in the memory store in the
\* order of the timestamps.
THEOREM VersionsStayNumbered == Spec => []VersionsNumbered
<1>1. VersionInv => VersionsNumbered
  <2> SUFFICES ASSUME VersionInv, NEW m \in rows
               PROVE  LET all == Children(home[m], parent[m]) IN
                 /\ store # "postgres" => {version[x] : x \in all} = 1 .. Cardinality(all)
                 /\ store = "memory" => \A x \in all : version[x] < version[m] <=> x[1] < m[1]
    BY DEF VersionsNumbered
  <2>1. home[m] \in Threads /\ parent[m] \in Ids \cup {Root}
    BY DEF VersionInv, SerialInv, GraphInv, Kept, TypeOK
  <2>2. store # "postgres" =>
          {version[x] : x \in Children(home[m], parent[m])} = 1 .. Cardinality(Children(home[m], parent[m]))
    BY <2>1 DEF VersionInv, Numbered
  <2>3. store = "memory" =>
          \A x \in Children(home[m], parent[m]) : version[x] < version[m] <=> x[1] < m[1]
    BY DEF VersionInv, InOrder, Ordered, Children
  <2> QED BY <2>2, <2>3
<1> QED BY <1>1, VersionInit, VersionStep, PTL DEF Spec

-----------------------------------------------------------------------------
(* The walk up a branch ends at the beginning of its thread.               *)

\* The turns whose messages have been inserted: each adds two at most.
Committed == {n \in Turns : Known(Answer(n))}

\* No message is below itself, and none is deeper than there are messages.
Ranked ==
  \E rank \in [Ids -> Nat] : \A m \in Ids : Known(m) =>
    /\ rank[m] < 2 * Cardinality(Committed)
    /\ parent[m] # Root => rank[parent[m]] < rank[m]

LEMMA CommittedType ==
  /\ IsFiniteSet(Committed) /\ Cardinality(Committed) \in Nat
  /\ Cardinality(Committed) <= MaxTurns
<1>1. 1 \in Int /\ MaxTurns \in Int /\ MaxTurns \in Nat
  BY GraphAssumption
<1>2. Cardinality(Turns) = MaxTurns
  <2>1. Cardinality(1 .. MaxTurns) = IF 1 > MaxTurns THEN 0 ELSE MaxTurns - 1 + 1
    BY <1>1, FS_Interval, Zenon
  <2> QED BY <1>1, <2>1 DEF Turns
<1>3. Committed \in SUBSET Turns
  BY DEF Committed
<1>4. IsFiniteSet(Committed) /\ Cardinality(Committed) <= Cardinality(Turns)
  BY <1>3, FiniteIds, FS_Subset
<1> QED BY <1>2, <1>4, FS_CardinalityType

LEMMA RankedStep == GraphInv /\ Ranked /\ [Next]_vars => Ranked'
<1> SUFFICES ASSUME GraphInv, Ranked, [Next]_vars PROVE Ranked'
  OBVIOUS
<1> USE DEF GraphInv
<1>1. ASSUME NEW n \in Turns, Commit(n) PROVE Ranked'
  <2>1. PICK rank \in [Ids -> Nat] : \A m \in Ids : Known(m) =>
          /\ rank[m] < 2 * Cardinality(Committed)
          /\ parent[m] # Root => rank[parent[m]] < rank[m]
    BY DEF Ranked
  <2> DEFINE K == Cardinality(Committed)
             next == [m \in Ids |-> IF m = First(n) THEN 2 * K
                                    ELSE IF m = Answer(n) THEN 2 * K + 1 ELSE rank[m]]
  <2>2. K \in Nat /\ IsFiniteSet(Committed)
    BY CommittedType
  <2>3. /\ ~Known(Question(n)) /\ ~Known(Answer(n)) /\ First(n) \in {Question(n), Answer(n)}
        /\ thread[n] \in Threads /\ thread[n] # Nobody
        /\ base[n] \in Ids \cup {Root} /\ (base[n] # Root => Known(base[n]))
    BY <1>1, Constants DEF Commit, Prepared, PreparedAt, Before, Within, Known, First, TypeOK
  <2>4. /\ First(n) \in Ids /\ Answer(n) \in Ids
        /\ home'[First(n)] = thread[n] /\ home'[Answer(n)] = thread[n]
        /\ parent'[First(n)] = base[n]
        /\ First(n) # Answer(n) => parent'[Answer(n)] = First(n)
    BY <1>1, <2>3, CommitChildren, Constants
  <2>5. \A m \in Ids : Known(m)' /\ ~Known(m) => m \in {First(n), Answer(n)}
    <3>1. \A m \in Ids \ {First(n), Answer(n)} : home'[m] = home[m]
      BY <1>1, CommitShape DEF First
    <3> QED BY <3>1 DEF Known
  <2>6. \A m \in Ids : Known(m) => /\ m # First(n) /\ m # Answer(n)
                                   /\ parent'[m] = parent[m]
                                   /\ parent[m] # Root => parent[m] \in Ids /\ Known(parent[m])
    BY <2>3, Grows DEF Linked, Known, TypeOK
  <2>7. Cardinality(Committed)' = K + 1
    <3>1. Committed' = Committed \cup {n} /\ n \notin Committed
      <4>1. Known(Answer(n))'
        BY <2>3, <2>4 DEF Known
      <4>2. ASSUME NEW k \in Turns, k # n PROVE Known(Answer(k))' <=> Known(Answer(k))
        <5>1. Answer(k) \in Ids /\ Answer(k) # Question(n) /\ Answer(k) # Answer(n)
          BY <4>2, Constants
        <5>2. Known(Answer(k)) => Known(Answer(k))'
          BY <5>1, Grows DEF Known
        <5> QED BY <2>3, <2>5, <5>1, <5>2
      <4> QED BY <2>3, <4>1, <4>2 DEF Committed
    <3> QED BY <2>2, <3>1, FS_AddElement
  <2>8. next \in [Ids -> Nat]
    BY <2>2
  <2>9. ASSUME NEW m \in Ids, Known(m)'
        PROVE  /\ next[m] < 2 * (K + 1)
               /\ parent'[m] # Root => next[parent'[m]] < next[m]
    <3>1. CASE Known(m)
      <4>1. next[m] = rank[m] /\ rank[m] < 2 * K /\ rank[m] \in Nat
        BY <2>1, <2>6, <3>1
      <4>2. parent'[m] # Root => /\ parent'[m] = parent[m] /\ next[parent[m]] = rank[parent[m]]
                                 /\ rank[parent[m]] < rank[m]
        BY <2>1, <2>6, <3>1
      <4> HIDE DEF next, K
      <4> QED BY <2>2, <4>1, <4>2
    <3>2. CASE m = First(n)
      <4>1. next[m] = 2 * K
        BY <3>2
      <4>2. parent'[m] # Root => next[parent'[m]] = rank[base[n]] /\ rank[base[n]] < 2 * K
        BY <2>1, <2>3, <2>4, <2>6, <3>2
      <4> HIDE DEF next, K
      <4> QED BY <2>2, <4>1, <4>2
    <3>3. CASE m = Answer(n) /\ m # First(n)
      <4>1. next[m] = 2 * K + 1 /\ parent'[m] = First(n) /\ next[First(n)] = 2 * K
        BY <2>4, <3>3
      <4> HIDE DEF next, K
      <4> QED BY <2>2, <4>1
    <3> QED BY <2>5, <2>9, <3>1, <3>2, <3>3
  <2> HIDE DEF next, K
  <2> QED BY <2>7, <2>8, <2>9 DEF Ranked
<1>2. CASE UNCHANGED <<parent, home>>
  BY <1>2 DEF Ranked, Committed, Known
<1>3. ASSUME NEW d \in Deletions, DeleteThread(d) PROVE UNCHANGED <<parent, home>>
  BY <1>3 DEF DeleteThread
<1> QED BY <1>1, <1>2, <1>3, GraphSteps

\* In a thread that exists the walk misses nothing of the branch.
LEMMA ChainIsBranch ==
  ASSUME GraphInv, NEW m \in rows, home[m] \in threads
  PROVE  Chain(m) = Branch(m) /\ \A x \in Chain(m) : x \in rows /\ home[x] = home[m]
<1> USE DEF GraphInv
<1> DEFINE kin == {x \in rows : home[x] = home[m]}
<1>1. PICK c : c = Ascent({m} \cap rows, parent, rows)
  OBVIOUS
<1>2. PICK b : b = Ascent({m}, parent, Ids)
  OBVIOUS
<1>3. /\ c[0] = {m}
      /\ \A d \in 0 .. Depth : \A y : d < Depth =>
           (y \in c[d + 1] <=> y \in c[d] \/ (y \in rows /\ \E x \in c[d] : y = parent[x]))
  <2>1. Climbs(c, {m} \cap rows, parent, rows) /\ {m} \cap rows = {m}
    BY <1>1, AscentClimbs
  <2> QED BY <2>1 DEF Climbs
<1>4. /\ b[0] = {m}
      /\ \A d \in 0 .. Depth : \A y : d < Depth =>
           (y \in b[d + 1] <=> y \in b[d] \/ (y \in Ids /\ \E x \in b[d] : y = parent[x]))
  <2>1. Climbs(b, {m}, parent, Ids)
    BY <1>2, AscentClimbs
  <2> QED BY <2>1 DEF Climbs
<1>5. \A x \in kin : parent[x] \in Ids => parent[x] \in kin
  BY Constants DEF Linked, Kept, Known, TypeOK
<1> DEFINE S == {d \in 0 .. Depth : c[d] = b[d] /\ c[d] \subseteq kin}
<1>6. 0 \in S
  BY <1>3, <1>4, DepthType
<1>7. ASSUME NEW d \in 0 .. Depth, d \in S, d < Depth PROVE d + 1 \in S
  <2>1. d + 1 \in 0 .. Depth
    BY <1>7, DepthType
  <2>2. c[d] = b[d] /\ c[d] \subseteq kin
    BY <1>7
  <2>3. kin \subseteq rows /\ rows \subseteq Ids
    BY DEF TypeOK
  <2> HIDE DEF kin
  <2>4. /\ \A y : y \in c[d + 1] <=> y \in c[d] \/ (y \in rows /\ \E x \in c[d] : y = parent[x])
        /\ \A y : y \in b[d + 1] <=> y \in b[d] \/ (y \in Ids /\ \E x \in b[d] : y = parent[x])
    BY <1>3, <1>4, <1>7
  <2>5. \A y : y \in c[d + 1] => y \in kin
    BY <1>5, <2>2, <2>3, <2>4
  <2>6. \A y : y \in c[d + 1] <=> y \in b[d + 1]
    BY <1>5, <2>2, <2>3, <2>4
  <2> QED BY <2>1, <2>5, <2>6
<1>8. Depth \in S
  <2> HIDE DEF S
  <2> QED BY <1>6, <1>7, DepthType, Induct
<1>9. Chain(m) = c[Depth] /\ Branch(m) = b[Depth]
  BY <1>1, <1>2, ChainIsAscent, BranchIsAscent
<1> QED BY <1>8, <1>9

LEMMA ChainEnds ==
  ASSUME GraphInv, Ranked, NEW m \in rows, home[m] \in threads
  PROVE  \E x \in Chain(m) : parent[x] = Root
<1> USE DEF GraphInv
<1>1. PICK c : c = Ascent({m} \cap rows, parent, rows)
  OBVIOUS
<1>2. /\ c[0] = {m}
      /\ \A d \in 0 .. Depth : \A y : d < Depth =>
           (y \in c[d + 1] <=> y \in c[d] \/ (y \in rows /\ \E x \in c[d] : y = parent[x]))
  <2>1. Climbs(c, {m} \cap rows, parent, rows) /\ {m} \cap rows = {m}
    BY <1>1, AscentClimbs
  <2> QED BY <2>1 DEF Climbs
<1>3. PICK rank \in [Ids -> Nat] : \A x \in Ids : Known(x) =>
        /\ rank[x] < 2 * Cardinality(Committed)
        /\ parent[x] # Root => rank[parent[x]] < rank[x]
  BY DEF Ranked
<1>4. PICK K \in Nat : K = 2 * Cardinality(Committed) /\ K <= Depth
  <2>1. Cardinality(Committed) \in Nat /\ Cardinality(Committed) <= MaxTurns /\ MaxTurns \in Nat
    BY CommittedType, GraphAssumption
  <2>2. \A k, n \in Nat : k <= n => 2 * k \in Nat /\ 2 * k <= 2 * n
    OBVIOUS
  <2> QED BY <2>1, <2>2 DEF Depth
<1> DEFINE Near(d) == \E x \in c[d] : /\ x \in rows /\ home[x] = home[m]
                                      /\ parent[x] = Root \/ rank[x] + d < K
           S == {d \in 0 .. Depth : Near(d)}
<1>5. 0 \in S
  <2>1. m \in Ids /\ Known(m) /\ rank[m] + 0 = rank[m]
    BY <1>3, Constants DEF Kept, Known, TypeOK
  <2>2. rank[m] + 0 < K /\ m \in c[0]
    BY <1>2, <1>3, <1>4, <2>1
  <2> QED BY <2>2, DepthType
<1>6. ASSUME NEW d \in 0 .. Depth, d \in S, d < Depth PROVE d + 1 \in S
  <2>1. d + 1 \in 0 .. Depth
    BY <1>6, DepthType
  <2>2. PICK x \in c[d] : /\ x \in rows /\ home[x] = home[m]
                          /\ parent[x] = Root \/ rank[x] + d < K
    BY <1>6
  <2>3. \A y : y \in c[d + 1] <=> y \in c[d] \/ (y \in rows /\ \E z \in c[d] : y = parent[z])
    BY <1>2, <1>6
  <2>4. CASE parent[x] = Root
    BY <2>1, <2>2, <2>3, <2>4
  <2>5. CASE parent[x] # Root
    <3>1. x \in Ids /\ Known(x) /\ parent[x] \in Ids
      BY <2>2, <2>5, Constants DEF Kept, Known, TypeOK
    <3>2. home[parent[x]] = home[m] /\ parent[x] \in rows
      BY <2>2, <2>5, <3>1 DEF Linked, Kept
    <3>3. rank[parent[x]] < rank[x] /\ rank[parent[x]] \in Nat /\ rank[x] \in Nat
      BY <1>3, <2>5, <3>1
    <3>4. rank[parent[x]] + (d + 1) < K
      BY <1>4, <2>2, <2>5, <3>3
    <3>5. parent[x] \in c[d + 1]
      BY <2>2, <2>3, <3>2
    <3>6. Near(d + 1)
      BY <3>2, <3>4, <3>5, Zenon
    <3> QED BY <2>1, <3>6
  <2> QED BY <2>4, <2>5
<1>7. Depth \in S
  <2> HIDE DEF S
  <2> QED BY <1>5, <1>6, DepthType, Induct
<1>8. PICK x \in c[Depth] : x \in rows /\ (parent[x] = Root \/ rank[x] + Depth < K)
  BY <1>7
<1>9. rank[x] \in Nat
  BY <1>3, <1>8 DEF TypeOK
<1> QED BY <1>1, <1>4, <1>8, <1>9, DepthType, ChainIsAscent

LEMMA RankedInit == Init => Ranked
<1> SUFFICES ASSUME Init PROVE Ranked
  OBVIOUS
<1>1. [m \in Ids |-> 0] \in [Ids -> Nat] /\ \A m \in Ids : ~Known(m)
  BY DEF Init, Known
<1> QED BY <1>1 DEF Ranked

\* Whatever interleaves, the walk of thread_view and history_for_message stays
\* in the thread of a message and ends at the beginning of that thread.
THEOREM BranchesStayComplete == Spec => []BranchesComplete
<1>1. GraphInv /\ Ranked => BranchesComplete
  BY ChainIsBranch, ChainEnds DEF BranchesComplete
<1>2. Spec => [](GraphInv /\ Ranked)
  BY GraphInit, GraphStep, RankedInit, RankedStep, PTL DEF Spec
<1> QED BY <1>1, <1>2, PTL

-----------------------------------------------------------------------------
(* What a turn is answered from.                                           *)

\* A message's branch is fixed when the message is inserted.
LEMMA BranchStays ==
  ASSUME GraphInv, [Next]_vars, NEW m \in Ids, Known(m)
  PROVE  Branch(m)' = Branch(m)
<1> USE DEF GraphInv
<1>1. PICK b : b = Ascent({m}, parent, Ids)
  OBVIOUS
<1>2. PICK c : c = Ascent({m}, parent', Ids)
  OBVIOUS
<1>3. Climbs(b, {m}, parent, Ids) /\ Climbs(c, {m}, parent', Ids)
  BY <1>1, <1>2, AscentClimbs
<1>4. b[0] = {m} /\ c[0] = {m}
  BY <1>3 DEF Climbs
<1>5. \A x \in Ids : Known(x) => parent'[x] = parent[x] /\ (parent[x] \in Ids => Known(parent[x]))
  BY Grows, Constants DEF Linked, Known
<1> DEFINE S == {d \in 0 .. Depth : b[d] = c[d] /\ \A x \in b[d] : x \in Ids /\ Known(x)}
<1>6. 0 \in S
  BY <1>4, DepthType
<1>7. ASSUME NEW d \in 0 .. Depth, d \in S, d < Depth PROVE d + 1 \in S
  <2>1. d + 1 \in 0 .. Depth
    BY <1>7, DepthType
  <2>2. b[d] = c[d] /\ \A x \in b[d] : x \in Ids /\ Known(x)
    BY <1>7
  <2>3. \A y : y \in b[d + 1] <=> y \in b[d] \/ (y \in Ids /\ \E x \in b[d] : y = parent[x])
    BY <1>3, <1>7 DEF Climbs
  <2>4. \A y : y \in c[d + 1] <=> y \in c[d] \/ (y \in Ids /\ \E x \in c[d] : y = parent'[x])
    BY <1>3, <1>7 DEF Climbs
  <2>5. \A y : y \in b[d + 1] => y \in Ids /\ Known(y)
    BY <1>5, <2>2, <2>3
  <2>6. \A y : y \in b[d + 1] <=> y \in c[d + 1]
    BY <1>5, <2>2, <2>3, <2>4
  <2> QED BY <2>1, <2>5, <2>6
<1>8. Depth \in S
  <2> HIDE DEF S
  <2> QED BY <1>6, <1>7, DepthType, Induct
<1>9. Branch(m)' = c[Depth]
  BY <1>2, Zenon DEF Branch, Ascent, Depth
<1>10. Branch(m) = b[Depth]
  BY <1>1, BranchIsAscent
<1> QED BY <1>8, <1>9, <1>10

PromptInv == SerialInv /\ PromptIsBranch

LEMMA PromptStep == PromptInv /\ [Next]_vars => PromptInv'
<1> SUFFICES ASSUME PromptInv, [Next]_vars, NEW n \in Turns, pc'[n] = "prompted"
             PROVE  prompt'[n] = Branch(Answer(n))' \/ (store' # "memory" /\ thread'[n] \notin threads')
  BY SerialStep DEF PromptInv, PromptIsBranch
<1> USE DEF PromptInv, SerialInv, GraphInv
<1>1. ASSUME pc[n] \in {"begun", "prompted"} PROVE Branch(Answer(n))' = Branch(Answer(n))
  BY <1>1, BranchStays, Constants DEF Prepared, PreparedAt, Known
<1>2. CASE ReadPrompt(n)
  <2>1. /\ pc[n] = "begun" /\ prompt'[n] = Chain(Answer(n))
        /\ store = "memory" => Answer(n) \in rows
        /\ UNCHANGED <<store, threads, thread>>
    BY <1>2 DEF ReadPrompt, lockVars, graphVars, TypeOK
  <2>2. home[Answer(n)] = thread[n]
    BY <2>1 DEF Prepared, PreparedAt
  <2>3. CASE thread[n] \in threads
    <3>1. Answer(n) \in rows
      BY <2>2, <2>3, Constants DEF Kept
    <3>2. Chain(Answer(n)) = Branch(Answer(n))
      BY <2>2, <2>3, <3>1, ChainIsBranch
    <3> QED BY <1>1, <2>1, <3>2
  <2>4. CASE thread[n] \notin threads
    BY <2>1, <2>2, <2>4 DEF NoOrphans
  <2> QED BY <2>3, <2>4
<1>3. CASE ~ReadPrompt(n)
  <2>1. pc[n] = "prompted" /\ prompt'[n] = prompt[n] /\ thread'[n] = thread[n]
    <3>1. ASSUME NEW k \in Turns, BeginTurn(k) \/ ReadPrompt(k)
          PROVE  pc[n] = "prompted" /\ prompt'[n] = prompt[n] /\ thread'[n] = thread[n]
      <4>1. k # n
        BY <1>3, <3>1 DEF BeginTurn, Call, Open, Count, Commit, Rollback, Refused, TypeOK
      <4>2. prompt'[n] = prompt[n]
        BY <3>1, <4>1 DEF BeginTurn, ReadPrompt, Call, Open, Count, Commit, Rollback, TypeOK
      <4> QED BY <3>1, <4>1, <4>2, OthersStay
    <3>2. CASE UNCHANGED turnVars
      BY <3>2 DEF turnVars
    <3>3. ASSUME NEW a \in Activations, ActivateMessage(a) PROVE UNCHANGED turnVars
      BY <3>3 DEF ActivateMessage, LoadTarget, ChooseLeaf, SetLeaf
    <3>4. ASSUME NEW d \in Deletions, Delete(d) PROVE UNCHANGED turnVars
      BY <3>4 DEF Delete, LookUpThread, DeleteMessages, DeleteThread
    <3>5. UNCHANGED vars => UNCHANGED turnVars
      BY DEF vars
    <3> QED BY <3>1, <3>2, <3>3, <3>4, <3>5 DEF Next
  <2>2. threads' \subseteq threads
    BY Grows
  <2> QED BY <1>1, <2>1, <2>2, SameStore DEF PromptIsBranch
<1> QED BY <1>2, <1>3

\* A turn is answered from the whole branch above its answer and from nothing
\* else (history_for_message), unless its thread was deleted and the store is SQL.
THEOREM PromptsAreBranches == Spec => []PromptIsBranch
<1>1. Init => PromptInv
  BY SerialInit DEF Init, PromptInv, PromptIsBranch
<1>2. PromptInv => PromptIsBranch
  BY DEF PromptInv
<1> QED BY <1>1, <1>2, PromptStep, PTL DEF Spec
===============================================================================
