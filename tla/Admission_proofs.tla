--------------------------- MODULE Admission_proofs ---------------------------
(***************************************************************************)
(* Proofs about Admission and ScopeSettings: the settings keep their types *)
(* and the fields no update named, the flag of the API key tells the truth *)
(* about the file, the rate limiter keeps its word, and what a request     *)
(* goes on with was advertised, not too long ago.                          *)
(***************************************************************************)
EXTENDS Admission, SequenceLemmas

\* What an update through the SQL stores needs: it reads the row and writes it
\* back in two statements.
OneWriter ==
  \A w \in Worlds : w.store = "sql" => \A a, b \in w.admins : a = b

-----------------------------------------------------------------------------
(* The settings of a scope.                                                *)

\* The steps that touch the settings.
ScopeStep == (\E a \in Admins : PutScopeSettings(a)) \/ Start \/ Seed \/ Crash

\* Of the steps of Admission the others leave the settings alone.
LEMMA ScopeSteps == [Next]_vars => ScopeStep \/ UNCHANGED scopeVars
<1> SUFFICES ASSUME [Next]_vars PROVE ScopeStep \/ UNCHANGED scopeVars
  OBVIOUS
<1>1. ASSUME NEW c \in Callers, Step(c) PROVE UNCHANGED scopeVars
  BY <1>1 DEF Step, Ask, GetSettings, GetKey, UseCache, FetchCatalog, Answered, Arrived, FetchFails
<1>2. ASSUME NEW u \in Urls, Offer(u) PROVE UNCHANGED scopeVars
  BY <1>2 DEF Offer
<1>3. CASE Tick
  BY <1>3 DEF Tick
<1>4. CASE Settings
  BY <1>4 DEF Settings, ScopeStep
<1>5. CASE Die
  BY <1>5 DEF Die, ScopeStep
<1>6. CASE UNCHANGED vars
  BY <1>6 DEF vars
<1> QED BY <1>1, <1>2, <1>3, <1>4, <1>5, <1>6 DEF Next

\* What a request asks and the row it read, by where it is: a request is about
\* the key until it has dealt with the file, and only the SQL stores leave a
\* request between reading and writing.  Before the process serves there are
\* no requests, and while it writes the key of its seed it has one.
Requests ==
  /\ phase # "serving" => Busy = {}
  /\ phase = "seeding" => world.seed # None
  /\ phase \in {"opening", "writing"} => world.seed # None /\ world.seed.key # None
  /\ \A a \in Admins :
       /\ at[a] # "idle" => a \in world.admins
       /\ at[a] \in {"opening", "writing"} => asks[a].key \in Keys
       /\ at[a] = "deleting" => asks[a].key = Blank
       /\ at[a] = "merging" => world.store = "sql"

ScopeInv == ScopeTypeOK /\ Requests

\* A merged row is a row.
LEMMA MergeType ==
  ASSUME NEW old \in Rows, NEW update \in UpdateRequests \cup Seeds,
         NEW flag \in {None, "present", "absent"}
  PROVE  Merge(old, update, flag) \in Rows
<1>1. /\ update.kind \in Kinds \cup {None}
      /\ update.url \in Urls \cup {None, Blank}
      /\ update.model \in Models \cup {None, Blank}
  BY DEF UpdateRequests, Seeds
<1>2. Given(update.kind, old.kind) \in Kinds
  BY <1>1, ValuesAssumption DEF Given, Rows
<1>3. /\ Given(update.url, old.url) \in Urls \cup {None}
      /\ Given(update.model, old.model) \in Models \cup {None}
  BY <1>1 DEF Given, Rows
<1> QED BY <1>2, <1>3 DEF Merge, Rows

\* What a write does to the row it read it does to the values that were named.
LEMMA UpsertMerges ==
  ASSUME NEW old \in Rows, NEW update \in UpdateRequests \cup Seeds,
         NEW flag \in {None, "present", "absent"}, named \in Rows, Upsert(old, update, flag)
  PROVE  /\ row' = Merge(old, update, flag) /\ row' \in Rows
         /\ named' = Merge(named, update, flag) /\ named' \in Rows
<1>1. named = [exists |-> named.exists, kind |-> named.kind, url |-> named.url,
               model |-> named.model, flag |-> named.flag]
  BY DEF Rows
<1>2. row' = Merge(old, update, flag) /\ named' = Merge(named, update, flag)
  BY <1>1 DEF Upsert, Merge, Rows
<1>3. Merge(old, update, flag) \in Rows /\ Merge(named, update, flag) \in Rows
  BY MergeType
<1> QED BY <1>2, <1>3

LEMMA FlagType == ASSUME NEW a \in Admins PROVE Flag(a) \in {None, "present", "absent"}
BY DEF Flag

\* What a dropped request may leave running.
Operations == [stage : {"none", "opening", "writing", "deleting"}, key : Keys \cup {None, Blank}]

LEMMA ScopeInvInit == Init => ScopeInv
<1> SUFFICES ASSUME Init PROVE ScopeInv
  OBVIOUS
<1>1. NoRow \in Rows /\ NoUpdate \in UpdateRequests
  BY DEF NoRow, Rows, Kinds, NoUpdate, UpdateRequests
<1>2. ScopeTypeOK
  <2>1. NoOperation \in Operations
    BY DEF NoOperation, Operations
  <2>2. adrift \in [Admins -> Operations]
    BY <2>1 DEF Init, ScopeInit
  <2>3. /\ world \in Worlds /\ row \in Rows /\ named \in Rows /\ crashes \in 0 .. world.crashes
        /\ asks \in [Admins -> UpdateRequests] /\ read \in [Admins -> Rows]
    BY <1>1, WorldsAssumption DEF Init, ScopeInit
  <2>4. /\ file \in Keys \cup {None, Blank} /\ alone \subseteq Admins
        /\ settled \in BOOLEAN /\ orphaned \in BOOLEAN
        /\ phase \in {"down", "seeding", "opening", "writing", "serving"}
        /\ at \in [Admins -> {"idle", "opening", "writing", "deleting", "row", "merging"}]
    BY DEF Init, ScopeInit
  <2> QED BY <2>2, <2>3, <2>4 DEF ScopeTypeOK, Operations
<1> QED BY <1>2 DEF Init, ScopeInit, ScopeInv, Requests, Busy

\* How a request of an administrator keeps the types.
LEMMA PutKeepsTypes ==
  ASSUME ScopeInv, NEW a \in Admins, PutScopeSettings(a)
  PROVE  ScopeTypeOK'
<1> USE DEF ScopeInv, ScopeTypeOK, settingsVars, processVars, requestVars, historyVars
<1>0. NoRow \in Rows /\ NoUpdate \in UpdateRequests /\ asks[a] \in UpdateRequests
  BY DEF NoRow, Rows, Kinds, NoUpdate, UpdateRequests
<1>k. asks[a].key \in Keys \cup {None, Blank}
  BY <1>0 DEF UpdateRequests
<1>1. CASE Submit(a)
  <2> PICK u \in Updates :
        /\ asks' = [asks EXCEPT ![a] = u]
        /\ at' = [at EXCEPT ![a] = IF u.key = None THEN "row"
                                   ELSE IF u.key = Blank THEN "deleting" ELSE "opening"]
        /\ alone' = IF u.key = None THEN alone
                    ELSE IF KeyRequests \cup Adrift = {} THEN {a} ELSE {}
    BY <1>1 DEF Submit
  <2> u \in UpdateRequests
    BY WorldsAssumption
  <2> QED BY <1>1 DEF Submit
<1>2. CASE PutFails(a)
  BY <1>2, <1>0 DEF PutFails, End
<1>3. CASE OpenKeyFile(a)
  BY <1>3 DEF OpenKeyFile
<1>4. CASE WriteKeyFile(a)
  BY <1>4, <1>k DEF WriteKeyFile
<1>5. CASE DeleteKeyFile(a)
  <2>1. orphaned' \in BOOLEAN /\ file' \in {None, file}
    BY <1>5 DEF DeleteKeyFile
  <2> QED BY <1>5, <2>1 DEF DeleteKeyFile
<1>6. CASE ReadRow(a)
  BY <1>6 DEF ReadRow
<1>7. ASSUME NEW old \in Rows, Upsert(old, asks[a], Flag(a)), Acknowledge(a),
             UNCHANGED <<world, file, processVars, adrift, alone, orphaned>>
      PROVE  ScopeTypeOK'
  <2>1. row' \in Rows /\ named' \in Rows
    <3>1. Flag(a) \in {None, "present", "absent"}
      BY FlagType
    <3> QED BY <1>7, <1>0, <3>1, UpsertMerges
  <2>3. settled' \in BOOLEAN
    <3>1. settled' = IF AboutKey(a) THEN a \in alone ELSE settled
      BY <1>7 DEF Acknowledge
    <3>2. (a \in alone) \in BOOLEAN
      BY SMT
    <3>3. (IF AboutKey(a) THEN a \in alone ELSE settled) \in BOOLEAN
      BY <3>2, Zenon
    <3> QED BY <3>1, <3>3, Zenon
  <2> QED BY <1>7, <1>0, <2>1, <2>3 DEF Acknowledge, End
<1>8. CASE WriteRow(a)
  BY <1>8, <1>7 DEF WriteRow
<1>9. CASE UpsertUnderMutex(a)
  BY <1>9, <1>7 DEF UpsertUnderMutex
<1>10. CASE Abandon(a)
  <2>1. adrift' = adrift \/ (/\ at[a] \in {"opening", "writing", "deleting"}
                             /\ adrift' = [adrift EXCEPT ![a] = [stage |-> at[a], key |-> asks[a].key]])
    BY <1>10 DEF Abandon
  <2>2. adrift' \in [Admins -> Operations]
    BY <1>k, <2>1 DEF Operations
  <2> QED BY <1>10, <1>0, <2>2 DEF Abandon, End, Operations
<1>11. CASE DriftOn(a)
  <2>1. adrift[a] \in Operations /\ NoOperation \in Operations /\ adrift \in [Admins -> Operations]
    BY DEF Operations, NoOperation
  <2>2. adrift' \in [Admins -> Operations]
    BY <1>11, <2>1 DEF DriftOn, Operations
  <2>3. file' \in Keys \cup {None, Blank}
    BY <1>11, <2>1 DEF DriftOn, Operations
  <2> QED BY <1>11, <2>2, <2>3 DEF DriftOn, Operations
<1> QED BY <1>1, <1>2, <1>3, <1>4, <1>5, <1>6, <1>8, <1>9, <1>10, <1>11 DEF PutScopeSettings

\* How the process starts, seeds and dies.
LEMMA ProcessKeepsTypes ==
  ASSUME ScopeInv, Start \/ Seed \/ Crash
  PROVE  ScopeTypeOK'
<1> USE DEF ScopeInv, ScopeTypeOK, settingsVars, processVars, requestVars, historyVars
<1>0. NoRow \in Rows /\ NoUpdate \in UpdateRequests
  BY DEF NoRow, Rows, Kinds, NoUpdate, UpdateRequests
<1>1. CASE Start
  BY <1>1 DEF Start
<1>2. CASE SeedRow
  <2>1. world.seed \in Seeds
    BY <1>2, WorldsAssumption DEF SeedRow, Requests
  <2>2. row' \in Rows /\ named' \in Rows
    BY <1>2, <2>1, UpsertMerges DEF SeedRow
  <2> QED BY <1>2, <2>2 DEF SeedRow
<1>3. CASE SeedOpensKeyFile
  BY <1>3 DEF SeedOpensKeyFile
<1>4. CASE SeedKey
  <2>1. world.seed \in Seeds
    BY <1>4, WorldsAssumption DEF SeedKey, Requests
  <2> QED BY <1>4, <2>1 DEF SeedKey, Seeds
<1>5. CASE Crash
  <2>1. crashes' \in 0 .. world.crashes
    BY <1>5, WorldsAssumption DEF Crash
  <2>2. settled' \in BOOLEAN /\ orphaned' \in BOOLEAN
    BY <1>5 DEF Crash
  <2>3. adrift' \in [Admins -> Operations]
    BY <1>5 DEF Crash, Operations, NoOperation
  <2> QED BY <1>5, <1>0, <2>1, <2>2, <2>3 DEF Crash, Operations
<1> QED BY <1>1, <1>2, <1>3, <1>4, <1>5 DEF Seed

LEMMA RequestsStep == ScopeInv /\ [Next]_vars => Requests'
<1> SUFFICES ASSUME ScopeInv, [Next]_vars PROVE Requests'
  OBVIOUS
<1> USE DEF ScopeInv, ScopeTypeOK, settingsVars, processVars, requestVars, historyVars, Busy
<1>1. ASSUME NEW a \in Admins, PutScopeSettings(a) PROVE Requests'
  <2>0. asks[a] \in UpdateRequests
    OBVIOUS
  <2>1. CASE Submit(a)
    <3> PICK u \in Updates :
          /\ asks' = [asks EXCEPT ![a] = u]
          /\ at' = [at EXCEPT ![a] = IF u.key = None THEN "row"
                                     ELSE IF u.key = Blank THEN "deleting" ELSE "opening"]
      BY <2>1 DEF Submit
    <3> u.key \in Keys \cup {None, Blank}
      BY WorldsAssumption DEF UpdateRequests
    <3> QED BY <2>1 DEF Submit, Serving, Requests
  <2>2. CASE PutFails(a)
    BY <2>2 DEF PutFails, End, Requests
  <2>3. CASE OpenKeyFile(a)
    BY <2>3 DEF OpenKeyFile, Requests
  <2>4. CASE WriteKeyFile(a)
    BY <2>4 DEF WriteKeyFile, Requests
  <2>5. CASE DeleteKeyFile(a)
    BY <2>5 DEF DeleteKeyFile, Requests
  <2>6. CASE ReadRow(a)
    BY <2>6 DEF ReadRow, Requests
  <2>7. CASE WriteRow(a)
    BY <2>7 DEF WriteRow, Acknowledge, End, Requests
  <2>8. CASE UpsertUnderMutex(a)
    BY <2>8 DEF UpsertUnderMutex, Acknowledge, End, Requests
  <2>9. CASE Abandon(a)
    BY <2>9 DEF Abandon, End, Requests
  <2>10. CASE DriftOn(a)
    BY <2>10 DEF DriftOn, Requests
  <2> QED BY <1>1, <2>1, <2>2, <2>3, <2>4, <2>5, <2>6, <2>7, <2>8, <2>9, <2>10 DEF PutScopeSettings
<1>2. CASE Start
  BY <1>2 DEF Start, Requests
<1>3. CASE Seed
  BY <1>3 DEF Seed, SeedRow, SeedOpensKeyFile, SeedKey, Requests
<1>4. CASE Crash
  BY <1>4 DEF Crash, Requests
<1>5. CASE UNCHANGED scopeVars
  BY <1>5 DEF scopeVars, Requests
<1> QED BY <1>1, <1>2, <1>3, <1>4, <1>5, ScopeSteps DEF ScopeStep

LEMMA ScopeInvStep == ScopeInv /\ [Next]_vars => ScopeInv'
<1> SUFFICES ASSUME ScopeInv, [Next]_vars PROVE ScopeTypeOK'
  BY RequestsStep DEF ScopeInv
<1>1. CASE UNCHANGED scopeVars
  BY <1>1 DEF ScopeInv, ScopeTypeOK, scopeVars, settingsVars, processVars, requestVars, historyVars
<1> QED BY <1>1, ScopeSteps, PutKeepsTypes, ProcessKeepsTypes DEF ScopeStep

(* The settings stay well-typed: a row holds a kind, a URL and a model or  *)
(* none, never the blank an update clears a field with.                    *)
THEOREM ScopeTypeCorrect == Spec => []ScopeTypeOK
<1>1. ScopeInv => ScopeTypeOK
  BY DEF ScopeInv
<1> QED BY <1>1, ScopeInvInit, ScopeInvStep, PTL DEF Spec
-----------------------------------------------------------------------------
(* Updates and the fields they do not name.                                *)

\* A request that has read the row holds the row: where reading and writing are
\* apart there is no other writer, not even the seed, which runs before the
\* first request and after the last.
KeptInv ==
  /\ ScopeInv
  /\ UnnamedFieldsKept
  /\ \A a \in Admins : at[a] = "merging" => read[a] = row

\* One write, of a request or the seed, from the row.
LEMMA WriteKeeps ==
  ASSUME ScopeTypeOK, UnnamedFieldsKept, NEW update \in UpdateRequests \cup Seeds,
         NEW flag \in {None, "present", "absent"}, Upsert(row, update, flag)
  PROVE  UnnamedFieldsKept'
<1>1. row \in Rows /\ named \in Rows /\ row = named
  BY DEF ScopeTypeOK, UnnamedFieldsKept
<1> QED BY <1>1, UpsertMerges DEF UnnamedFieldsKept

LEMMA KeptStep ==
  ASSUME OneWriter, KeptInv, [Next]_vars
  PROVE  KeptInv'
<1>0. ScopeInv' /\ ScopeTypeOK /\ Requests /\ UnnamedFieldsKept
  BY ScopeInvStep DEF KeptInv, ScopeInv
<1> SUFFICES UnnamedFieldsKept' /\ \A a \in Admins : (at[a] = "merging" => read[a] = row)'
  BY <1>0 DEF KeptInv
<1> USE DEF settingsVars, processVars, requestVars, historyVars
<1>t. at \in [Admins -> {"idle", "opening", "writing", "deleting", "row", "merging"}]
  BY <1>0 DEF ScopeTypeOK
<1>1. ASSUME NEW a \in Admins, PutScopeSettings(a), UNCHANGED <<row, named>>,
             read' = [read EXCEPT ![a] = row] \/ at'[a] # "merging",
             \A b \in Admins \ {a} : at'[b] = at[b] /\ read'[b] = read[b]
      PROVE  UnnamedFieldsKept' /\ \A b \in Admins : (at[b] = "merging" => read[b] = row)'
  <2>1. read \in [Admins -> Rows]
    BY <1>0 DEF ScopeTypeOK
  <2> QED BY <1>0, <1>1, <2>1 DEF KeptInv, UnnamedFieldsKept
<1>2. ASSUME NEW a \in Admins, Upsert(row, asks[a], Flag(a)), Acknowledge(a),
             world.store = "memory" \/ at[a] = "merging", UNCHANGED world
      PROVE  UnnamedFieldsKept' /\ \A b \in Admins : (at[b] = "merging" => read[b] = row)'
  <2>1. UnnamedFieldsKept'
    <3>1. asks[a] \in UpdateRequests /\ Flag(a) \in {None, "present", "absent"}
      BY <1>0, FlagType DEF ScopeTypeOK
    <3> QED BY <1>0, <1>2, <3>1, WriteKeeps
  <2>2. ASSUME NEW b \in Admins PROVE at'[b] # "merging"
    <3>1. CASE b = a
      BY <1>2, <1>t, <3>1 DEF Acknowledge, End
    <3>2. CASE b # a
      <4>1. at[b] # "merging"
        BY <1>0, <1>2, <3>2, WorldsAssumption DEF Requests, OneWriter, ScopeTypeOK
      <4> QED BY <1>2, <1>t, <3>2, <4>1 DEF Acknowledge, End
    <3> QED BY <3>1, <3>2
  <2> QED BY <2>1, <2>2
<1>3. ASSUME NEW a \in Admins, PutScopeSettings(a)
      PROVE  UnnamedFieldsKept' /\ \A b \in Admins : (at[b] = "merging" => read[b] = row)'
  <2>t. read \in [Admins -> Rows]
    BY <1>0 DEF ScopeTypeOK
  <2>1. CASE Submit(a)
    BY <1>1, <1>3, <1>t, <2>1 DEF Submit
  <2>2. CASE PutFails(a)
    BY <1>1, <1>3, <1>t, <2>t, <2>2 DEF PutFails, End
  <2>3. CASE OpenKeyFile(a)
    BY <1>1, <1>3, <1>t, <2>3 DEF OpenKeyFile
  <2>4. CASE WriteKeyFile(a)
    BY <1>1, <1>3, <1>t, <2>4 DEF WriteKeyFile
  <2>5. CASE DeleteKeyFile(a)
    BY <1>1, <1>3, <1>t, <2>5 DEF DeleteKeyFile
  <2>6. CASE ReadRow(a)
    BY <1>1, <1>3, <1>t, <2>t, <2>6 DEF ReadRow
  <2>7. CASE WriteRow(a)
    <3>1. read[a] = row
      BY <2>7 DEF WriteRow, KeptInv
    <3> QED BY <1>2, <2>7, <3>1 DEF WriteRow
  <2>8. CASE UpsertUnderMutex(a)
    BY <1>2, <2>8 DEF UpsertUnderMutex
  <2>9. CASE Abandon(a)
    BY <1>1, <1>3, <1>t, <2>t, <2>9 DEF Abandon, End
  <2>10. CASE DriftOn(a)
    <3>1. UNCHANGED <<row, named, at, read>>
      BY <2>10 DEF DriftOn
    <3> QED BY <3>1 DEF KeptInv, UnnamedFieldsKept
  <2> QED BY <1>3, <2>1, <2>2, <2>3, <2>4, <2>5, <2>6, <2>7, <2>8, <2>9, <2>10 DEF PutScopeSettings
<1>4. ASSUME Start \/ SeedOpensKeyFile \/ SeedKey \/ UNCHANGED scopeVars
      PROVE  UNCHANGED <<row, named, at, read>>
  BY <1>4 DEF Start, SeedOpensKeyFile, SeedKey, scopeVars
<1>5. CASE SeedRow
  <2>1. world.seed \in Seeds
    BY <1>0, <1>5, WorldsAssumption DEF SeedRow, Requests, ScopeTypeOK
  <2>2. UnnamedFieldsKept'
    BY <1>0, <1>5, <2>1, WriteKeeps DEF SeedRow
  <2>3. \A a \in Admins : at'[a] = "idle"
    BY <1>0, <1>5 DEF SeedRow, Requests, Busy
  <2> QED BY <2>2, <2>3
<1>6. CASE Crash
  BY <1>0, <1>6 DEF Crash, UnnamedFieldsKept
<1>7. CASE UNCHANGED <<row, named, at, read>>
  BY <1>7 DEF KeptInv, UnnamedFieldsKept
<1> QED BY <1>3, <1>4, <1>5, <1>6, <1>7, ScopeSteps DEF ScopeStep, Seed

(* Partial update: every field of the row has the value that the last      *)
(* write which named it gave, in the memory store for any number of        *)
(* administrators, in the SQL stores for one at a time.                    *)
THEOREM FieldsKept == ASSUME OneWriter PROVE Spec => []UnnamedFieldsKept
<1>1. Init => KeptInv
  BY ScopeInvInit DEF KeptInv, Init, ScopeInit, UnnamedFieldsKept
<1>2. KeptInv /\ [Next]_vars => KeptInv'
  BY KeptStep
<1>3. KeptInv => UnnamedFieldsKept
  BY DEF KeptInv
<1> QED BY <1>1, <1>2, <1>3, PTL DEF Spec
-----------------------------------------------------------------------------
(* The flag of the API key.                                                *)

FlagTrue == IF row.flag THEN file \in Keys ELSE file = None \/ orphaned

\* No request has touched the key file yet.
Untouched == \A a \in KeyRequests : at[a] \in {"opening", "deleting"}

\* No start of the process will write a key.
Seedless == world.seed = None \/ world.seed.key = None

\* A request that nothing disturbed is the only one about the key, no operation
\* is adrift, and the file is as it left it, or as a delete that failed did.
\* The flag is set before the key of the seed is written; a death in between is
\* followed by a start that writes it again.  What is adrift was left by a
\* request that did not come to its end, and does not outlive the process.
KeyInv ==
  /\ \A a \in KeyRequests \cap alone :
       /\ KeyRequests = {a} /\ Adrift = {}
       /\ at[a] \in {"row", "merging"} =>
            IF asks[a].key = Blank THEN file = None \/ orphaned ELSE file = asks[a].key
  /\ phase # "serving" => Adrift = {}
  /\ settled => Adrift = {}
  /\ phase \in {"opening", "writing"} => row.flag
  /\ settled /\ Untouched /\ (phase = "serving" \/ (phase \in {"down", "seeding"} /\ Seedless))
       => FlagTrue

LEMMA KeyStepOfRequest ==
  ASSUME KeptInv, KeyInv, NEW a \in Admins, PutScopeSettings(a)
  PROVE  KeyInv'
<1> USE DEF settingsVars, processVars, requestVars, historyVars
<1>d. adrift' = adrift => Adrift' = Adrift
  BY DEF Adrift
<1>0. /\ ScopeTypeOK /\ Requests
      /\ at \in [Admins -> {"idle", "opening", "writing", "deleting", "row", "merging"}]
      /\ asks \in [Admins -> UpdateRequests] /\ asks[a].key \in Keys \cup {None, Blank}
      /\ file \in Keys \cup {None, Blank} /\ settled \in BOOLEAN /\ orphaned \in BOOLEAN
  <2>1. ScopeTypeOK /\ Requests
    BY DEF KeptInv, ScopeInv
  <2> QED BY <2>1 DEF ScopeTypeOK, UpdateRequests
<1>1. CASE Submit(a)
  <2>0. phase = "serving" /\ at[a] = "idle"
    BY <1>1 DEF Submit, Serving
  <2> PICK u \in Updates :
        /\ asks' = [asks EXCEPT ![a] = u]
        /\ at' = [at EXCEPT ![a] = IF u.key = None THEN "row"
                                   ELSE IF u.key = Blank THEN "deleting" ELSE "opening"]
        /\ alone' = IF u.key = None THEN alone
                    ELSE IF KeyRequests \cup Adrift = {} THEN {a} ELSE {}
    BY <1>1 DEF Submit
  <2>1. CASE u.key = None
    <3>1. KeyRequests' = KeyRequests /\ alone' = alone /\ a \notin KeyRequests
      BY <1>0, <2>0, <2>1 DEF KeyRequests, Busy, AboutKey
    <3>2. Untouched' => Untouched
      BY <1>0, <3>1 DEF Untouched, KeyRequests, Busy
    <3> QED BY <1>d, <1>0, <1>1, <2>0, <3>1, <3>2
            DEF Submit, KeyInv, FlagTrue, Seedless, KeyRequests, Busy
  <2>2. CASE u.key # None
    <3>1. KeyRequests' = KeyRequests \cup {a} /\ a \notin KeyRequests
      BY <1>0, <2>0, <2>2 DEF KeyRequests, Busy, AboutKey
    <3>2. Untouched' => Untouched
      BY <1>0, <3>1 DEF Untouched, KeyRequests, Busy
    <3>3. at'[a] \in {"deleting", "opening"}
      BY <1>0, <2>2
    <3>4. \A b \in KeyRequests' \cap alone' : b = a /\ KeyRequests' = {a} /\ Adrift = {}
      BY <2>2, <3>1
    <3> QED BY <1>d, <1>0, <1>1, <2>0, <3>2, <3>3, <3>4 DEF Submit, KeyInv, FlagTrue, Seedless
  <2> QED BY <2>1, <2>2
<1>2. CASE PutFails(a)
  <2>1. KeyRequests' = KeyRequests \ {a}
    BY <1>0, <1>2 DEF PutFails, End, KeyRequests, Busy, AboutKey
  <2>2. Untouched' => Untouched
    BY <1>0, <1>2, <2>1 DEF PutFails, End, Untouched, KeyRequests, Busy
  <2>3. \A b \in KeyRequests' : b # a /\ at'[b] = at[b] /\ asks'[b] = asks[b]
    BY <1>0, <1>2, <2>1 DEF PutFails, End, KeyRequests, Busy
  <2> QED BY <1>d, <1>0, <1>2, <2>1, <2>2, <2>3 DEF PutFails, KeyInv, FlagTrue, Seedless
<1>3. CASE OpenKeyFile(a)
  <2>1. KeyRequests' = KeyRequests /\ a \in KeyRequests /\ at'[a] = "writing"
    BY <1>0, <1>3, ValuesAssumption DEF OpenKeyFile, KeyRequests, Busy, AboutKey, Requests
  <2>2. ~Untouched'
    BY <2>1 DEF Untouched
  <2> QED BY <1>d, <1>0, <1>3, <2>1, <2>2 DEF OpenKeyFile, KeyInv
<1>4. CASE WriteKeyFile(a)
  <2>1. /\ KeyRequests' = KeyRequests /\ a \in KeyRequests /\ at'[a] = "row"
        /\ asks[a].key # Blank
    BY <1>0, <1>4, ValuesAssumption DEF WriteKeyFile, KeyRequests, Busy, AboutKey, Requests
  <2>2. ~Untouched'
    BY <2>1 DEF Untouched
  <2> QED BY <1>d, <1>0, <1>4, <2>1, <2>2 DEF WriteKeyFile, KeyInv
<1>5. CASE DeleteKeyFile(a)
  <2>1. /\ KeyRequests' = KeyRequests /\ a \in KeyRequests /\ at'[a] = "row"
        /\ asks[a].key = Blank
    BY <1>0, <1>5, ValuesAssumption DEF DeleteKeyFile, KeyRequests, Busy, AboutKey, Requests
  <2>2. ~Untouched'
    BY <2>1 DEF Untouched
  <2>3. alone' = alone /\ (file' = None \/ orphaned')
    BY <1>5 DEF DeleteKeyFile
  <2> QED BY <1>d, <1>0, <1>5, <2>1, <2>2, <2>3 DEF DeleteKeyFile, KeyInv
<1>6. CASE ReadRow(a)
  <2>1. KeyRequests' = KeyRequests /\ (a \in KeyRequests => ~Untouched /\ ~Untouched')
    BY <1>0, <1>6 DEF ReadRow, KeyRequests, Busy, AboutKey, Untouched
  <2>2. Untouched' => Untouched
    BY <1>0, <1>6, <2>1 DEF ReadRow, Untouched
  <2> QED BY <1>d, <1>0, <1>6, <2>1, <2>2 DEF ReadRow, KeyInv, FlagTrue, Seedless
<1>7. ASSUME NEW old, old = row, at[a] \in {"row", "merging"}, Upsert(old, asks[a], Flag(a)),
             Acknowledge(a), UNCHANGED <<world, file, processVars, adrift, alone, orphaned>>
      PROVE  KeyInv'
  <2>0. /\ phase = "serving"
        /\ row'.flag = IF Flag(a) = None THEN row.flag ELSE Flag(a) = "present"
    BY <1>0, <1>7 DEF Requests, Busy, Upsert, Merge
  <2>1. KeyRequests' = KeyRequests \ {a}
    BY <1>0, <1>7 DEF Acknowledge, End, KeyRequests, Busy, AboutKey
  <2>2. \A b \in KeyRequests' : b # a /\ at'[b] = at[b] /\ asks'[b] = asks[b]
    BY <1>0, <1>7, <2>1 DEF Acknowledge, End, KeyRequests, Busy
  <2>3. CASE ~AboutKey(a)
    <3>1. a \notin KeyRequests /\ row'.flag = row.flag /\ settled' = settled
      BY <1>7, <2>0, <2>3 DEF KeyRequests, AboutKey, Flag, Acknowledge
    <3>2. Untouched' => Untouched
      BY <2>1, <2>2, <3>1 DEF Untouched
    <3> QED BY <1>d, <1>7, <2>0, <2>1, <2>2, <3>1, <3>2 DEF KeyInv, FlagTrue, Seedless
  <2>4. CASE AboutKey(a) /\ a \in alone
    <3>1. /\ KeyRequests = {a} /\ Adrift = {}
          /\ IF asks[a].key = Blank THEN file = None \/ orphaned ELSE file = asks[a].key
      BY <1>0, <1>7, <2>4 DEF KeyInv, KeyRequests, Busy
    <3>2. row'.flag = (asks[a].key # Blank)
      BY <2>0, <2>4, ValuesAssumption DEF Flag, AboutKey
    <3>3. FlagTrue'
      BY <1>0, <1>7, <2>4, <3>1, <3>2 DEF FlagTrue, AboutKey
    <3>4. Adrift' = {}
      BY <1>7, <3>1 DEF Adrift
    <3> QED BY <1>7, <2>0, <2>1, <3>1, <3>3, <3>4 DEF KeyInv
  <2>5. CASE AboutKey(a) /\ a \notin alone
    <3>1. ~settled'
      BY <1>7, <2>5 DEF Acknowledge
    <3> QED BY <1>d, <1>7, <2>0, <2>1, <2>2, <3>1 DEF KeyInv
  <2> QED BY <2>3, <2>4, <2>5
<1>8. CASE WriteRow(a)
  BY <1>7, <1>8 DEF WriteRow, KeptInv
<1>9. CASE UpsertUnderMutex(a)
  BY <1>7, <1>9 DEF UpsertUnderMutex
<1>10. CASE Abandon(a)
  <2>0. phase = "serving"
    BY <1>0, <1>10 DEF Abandon, Requests, Busy
  <2>1. KeyRequests' = KeyRequests \ {a}
    BY <1>0, <1>10 DEF Abandon, End, KeyRequests, Busy, AboutKey
  <2>2. \A b \in KeyRequests' : b # a /\ at'[b] = at[b] /\ asks'[b] = asks[b]
    BY <1>0, <1>10, <2>1 DEF Abandon, End, KeyRequests, Busy
  <2>3. CASE AboutKey(a)
    <3>1. ~settled' /\ a \in KeyRequests
      BY <1>0, <1>10, <2>3 DEF Abandon, KeyRequests, Busy
    <3>2. KeyRequests' \cap alone' = {}
      BY <1>10, <2>1, <3>1 DEF Abandon, KeyInv
    <3> QED BY <1>10, <2>0, <3>1, <3>2 DEF Abandon, KeyInv
  <2>4. CASE ~AboutKey(a)
    <3>1. settled' = settled /\ a \notin KeyRequests
      BY <1>10, <2>4 DEF Abandon, KeyRequests
    <3>2. file' = file /\ adrift' = adrift
      BY <1>0, <1>10, <2>4, ValuesAssumption DEF Abandon, Requests, AboutKey
    <3>3. Untouched' => Untouched
      BY <2>1, <2>2, <3>1 DEF Untouched
    <3> QED BY <1>d, <1>10, <2>0, <2>1, <2>2, <3>1, <3>2, <3>3 DEF Abandon, KeyInv, FlagTrue, Seedless
  <2> QED BY <2>3, <2>4
<1>11. CASE DriftOn(a)
  <2>1. Adrift # {} /\ ~settled /\ phase = "serving" /\ KeyRequests \cap alone = {}
    BY <1>11 DEF DriftOn, KeyInv
  <2>2. KeyRequests' = KeyRequests /\ alone' = alone /\ settled' = settled /\ phase' = phase
    BY <1>11 DEF DriftOn, KeyRequests, Busy, AboutKey
  <2> QED BY <2>1, <2>2 DEF KeyInv
<1> QED BY <1>1, <1>2, <1>3, <1>4, <1>5, <1>6, <1>8, <1>9, <1>10, <1>11 DEF PutScopeSettings

LEMMA KeyStep ==
  ASSUME KeptInv, KeyInv, [Next]_vars
  PROVE  KeyInv'
<1> USE DEF settingsVars, processVars, requestVars, historyVars
<1>d. adrift' = adrift => Adrift' = Adrift
  BY DEF Adrift
<1>0. ScopeTypeOK /\ Requests
  BY DEF KeptInv, ScopeInv
<1>1. ASSUME Start \/ Seed \/ Crash PROVE KeyRequests' = {} /\ Untouched'
  <2>1. \A a \in Admins : at'[a] = "idle"
    BY <1>0, <1>1
       DEF Start, Seed, SeedRow, SeedOpensKeyFile, SeedKey, Crash, Requests, Busy
  <2> QED BY <2>1 DEF KeyRequests, Busy, Untouched
<1>2. ASSUME phase # "serving" PROVE KeyRequests = {} /\ Untouched
  BY <1>0, <1>2 DEF Requests, KeyRequests, Busy, Untouched
<1>3. CASE Start
  BY <1>d, <1>1, <1>2, <1>3 DEF Start, KeyInv, FlagTrue, Seedless
<1>4. CASE SeedRow
  <2>1. row'.flag = IF world.seed.key = None THEN row.flag ELSE TRUE
    BY <1>4, ValuesAssumption DEF SeedRow, Upsert, Merge
  <2> QED BY <1>d, <1>0, <1>1, <1>2, <1>4, <2>1 DEF Seed, SeedRow, KeyInv, FlagTrue, Seedless, Requests
<1>5. CASE SeedOpensKeyFile
  BY <1>d, <1>1, <1>5 DEF Seed, SeedOpensKeyFile, KeyInv
<1>6. CASE SeedKey
  <2>1. world.seed.key \in Keys
    BY <1>0, <1>6, WorldsAssumption DEF SeedKey, Requests, ScopeTypeOK, Seeds
  <2> QED BY <1>d, <1>1, <1>6, <2>1 DEF Seed, SeedKey, KeyInv, FlagTrue
<1>7. CASE Crash
  <2>1. settled' => settled /\ KeyRequests = {}
    BY <1>7 DEF Crash
  <2>2. KeyRequests = {} => Untouched
    BY DEF Untouched
  <2>3. phase \in {"opening", "writing"} => ~Seedless
    BY <1>0 DEF Requests, Seedless
  <2>4. phase \in {"seeding", "opening", "writing", "serving"}
    BY <1>0, <1>7 DEF Crash, ScopeTypeOK
  <2>5. settled' /\ Seedless' => FlagTrue'
    BY <1>7, <2>1, <2>2, <2>3, <2>4 DEF Crash, KeyInv, FlagTrue, Seedless, NoRow
  <2>6. Adrift' = {}
    BY <1>7 DEF Crash, Adrift
  <2> QED BY <1>1, <1>7, <2>5, <2>6 DEF Crash, KeyInv
<1>8. CASE UNCHANGED scopeVars
  BY <1>8
     DEF scopeVars, KeyInv, KeyRequests, Busy, AboutKey, Adrift, Untouched, FlagTrue, Seedless
<1> QED BY <1>3, <1>4, <1>5, <1>6, <1>7, <1>8, KeyStepOfRequest, ScopeSteps DEF ScopeStep, Seed

(* Once the last request about the key came to its end with no other one   *)
(* beside it, neither running nor adrift, the flag that administrators see *)
(* tells the truth about the key file, whatever failed, died or was seeded *)
(* before and since; a key that the row does not tell of was left by a     *)
(* delete that failed or by the row of a memory store that died.           *)
THEOREM FlagTellsTheTruth == ASSUME OneWriter PROVE Spec => []KeyFlagTruthful
<1>1. Init => KeptInv /\ KeyInv
  <2> SUFFICES ASSUME Init PROVE KeptInv /\ KeyInv
    OBVIOUS
  <2>1. KeptInv
    BY ScopeInvInit DEF KeptInv, Init, ScopeInit, UnnamedFieldsKept
  <2>2. FlagTrue /\ alone = {} /\ phase = "down" /\ Adrift = {}
    BY DEF Init, ScopeInit, FlagTrue, NoRow, Adrift
  <2> QED BY <2>1, <2>2 DEF KeyInv
<1>2. KeptInv /\ KeyInv /\ [Next]_vars => KeptInv' /\ KeyInv'
  BY KeptStep, KeyStep
<1>3. KeyInv => KeyFlagTruthful
  BY DEF KeyInv, KeyFlagTruthful, Untouched, FlagTrue, Serving
<1> QED BY <1>1, <1>2, <1>3, PTL DEF Spec
-----------------------------------------------------------------------------
(* The rate limiter.                                                       *)

Buckets == [tokens : 0 .. Capacity * Window, at : Nat]

\* What a request was promised, and by which limiter.
LimiterTypeInv ==
  /\ now \in Nat
  /\ bucket \in [Routes -> Buckets]
  /\ admitted \in [Routes -> Seq(Nat)]
  /\ stage \in [Callers -> {"idle", "admitted", "limited", "settings", "resolved", "fetching",
                            "answered", "done", "refused"}]
  /\ route \in [Callers -> Routes]
  /\ promise \in [Callers -> [until : Nat, after : Nat]]

\* A bucket is never dated ahead of the clock.  Whatever was admitted since an
\* admission, with what the bucket still holds, fits into a full bucket and
\* what has flowed in since.
FlowsIn(r) ==
  /\ bucket[r].at <= now
  /\ \A i \in DOMAIN admitted[r] :
       (Len(admitted[r]) - i + 1) * Window + bucket[r].tokens
         <= Capacity * Window + (bucket[r].at - admitted[r][i]) * Capacity

\* The first half of LimiterKeepsItsWord.
Bounded(r) ==
  \A i, j \in DOMAIN admitted[r] : i <= j =>
    (j - i + 1) * Window <= Capacity * Window + (admitted[r][j] - admitted[r][i]) * Capacity

\* As long as nobody is admitted, the bucket will hold a token at the time a
\* limited request was promised one.
Promised(c) ==
  stage[c] = "limited" =>
    /\ promise[c].after <= Len(admitted[route[c]])
    /\ promise[c].after = Len(admitted[route[c]]) =>
         bucket[route[c]].tokens + (promise[c].until - bucket[route[c]].at) * Capacity >= Window

LimiterInv ==
  /\ LimiterTypeInv
  /\ \A r \in Routes : FlowsIn(r) /\ Bounded(r)
  /\ \A c \in Callers : Promised(c)

\* A full bucket holds a token.
LEMMA FullBucket == /\ Capacity \in Nat /\ Window \in Nat /\ Capacity * Window \in Nat
                    /\ Capacity > 0 /\ Window > 0 /\ Capacity * Window >= Window
<1>1. Capacity \in Nat /\ Window \in Nat /\ Capacity > 0 /\ Window > 0
  BY AdmissionAssumption
<1>2. ASSUME NEW x \in Nat, NEW y \in Nat, x > 0 PROVE x * y \in Nat /\ x * y >= y
  <2>1. x * y = (x - 1) * y + y /\ (x - 1) * y \in Nat
    BY <1>2
  <2> QED BY <1>2, <2>1
<1> QED BY <1>1, <1>2

\* The account of a bucket, in integers: "n" tokens taken since "then", "t" left
\* when it was last "dated", "u" left at "time".
LEMMA FlowSum ==
  ASSUME NEW n \in Int, NEW t \in Int, NEW u \in Int,
         NEW time \in Int, NEW dated \in Int, NEW then \in Int,
         n * Window + t <= Capacity * Window + (dated - then) * Capacity,
         u <= t + (time - dated) * Capacity
  PROVE  n * Window + u <= Capacity * Window + (time - then) * Capacity
BY FullBucket

LEMMA Products == \A x \in Int : x * Window \in Int /\ x * Capacity \in Int
BY FullBucket

LEMMA FlowTaken ==
  ASSUME NEW n \in Int, NEW t \in Int, NEW time \in Int, NEW then \in Int,
         n * Window + t <= Capacity * Window + (time - then) * Capacity
  PROVE  (n + 1) * Window + (t - Window) <= Capacity * Window + (time - then) * Capacity
BY FullBucket

LEMMA FlowBound ==
  ASSUME NEW n \in Int, NEW t \in Nat, NEW time \in Int, NEW then \in Int,
         n * Window + t <= Capacity * Window + (time - then) * Capacity
  PROVE  n * Window <= Capacity * Window + (time - then) * Capacity
BY FullBucket

LEMMA FlowPromised ==
  ASSUME NEW t \in Int, NEW u \in Int, NEW time \in Int, NEW dated \in Int, NEW until \in Int,
         t + (until - dated) * Capacity >= Window,
         u = t + (time - dated) * Capacity
  PROVE  u + (until - time) * Capacity >= Window
BY FullBucket

\* What the type invariant says of a bucket and its admissions.
LEMMA LimiterTypes ==
  ASSUME LimiterTypeInv, NEW r \in Routes
  PROVE  /\ now \in Nat /\ bucket[r] \in Buckets
         /\ bucket[r].at \in Nat /\ bucket[r].at \in Int
         /\ bucket[r].tokens \in Nat /\ bucket[r].tokens \in Int
         /\ bucket[r].tokens <= Capacity * Window
         /\ admitted[r] \in Seq(Nat) /\ Len(admitted[r]) \in Nat
         /\ DOMAIN admitted[r] = 1 .. Len(admitted[r])
         /\ \A i \in DOMAIN admitted[r] : i \in Nat /\ admitted[r][i] \in Nat
<1>1. now \in Nat /\ bucket[r] \in Buckets /\ admitted[r] \in Seq(Nat)
  BY DEF LimiterTypeInv
<1>2. /\ bucket[r].at \in Nat /\ bucket[r].tokens \in Nat
      /\ bucket[r].tokens <= Capacity * Window
  BY <1>1, FullBucket DEF Buckets
<1>3. /\ Len(admitted[r]) \in Nat
      /\ DOMAIN admitted[r] = 1 .. Len(admitted[r])
      /\ \A i \in DOMAIN admitted[r] : i \in Nat /\ admitted[r][i] \in Nat
  BY <1>1
<1> QED BY <1>1, <1>2, <1>3

LEMMA MoreTime ==
  ASSUME NEW x \in Int, NEW y \in Int, x <= y
  PROVE  x * Capacity <= y * Capacity
<1>1. (y - x) * Capacity >= 0
  BY FullBucket
<1>2. y * Capacity = x * Capacity + (y - x) * Capacity
  BY FullBucket
<1> QED BY <1>1, <1>2, FullBucket

\* What a refill makes of a bucket.
LEMMA RefillIs ==
  ASSUME NEW b \in Buckets, now \in Nat, b.at <= now
  PROVE  /\ Refill(b) \in Buckets /\ Refill(b).at = now
         /\ Refill(b).tokens <= b.tokens + (now - b.at) * Capacity
         /\ \/ Refill(b).tokens = Capacity * Window
            \/ Refill(b).tokens = b.tokens + (now - b.at) * Capacity
<1>1. (now - b.at) * Capacity \in Nat
  BY FullBucket DEF Buckets
<1> QED BY <1>1, FullBucket DEF Refill, Buckets

\* The wait is rounded up.
LEMMA RetryIsEnough ==
  ASSUME NEW b \in Buckets, b.tokens < Window
  PROVE  /\ RetryAfter(b) \in Nat
         /\ b.tokens + RetryAfter(b) * Capacity >= Window
<1> DEFINE n == Window - b.tokens + Capacity - 1
<1>1. b.tokens \in Nat /\ n \in Nat
  BY FullBucket DEF Buckets
<1>2. ASSUME NEW x \in Nat PROVE x \div Capacity \in Nat
  BY FullBucket
<1>3. ASSUME NEW x \in Nat PROVE x < Capacity * (x \div Capacity) + Capacity
  BY FullBucket
<1>4. n \div Capacity \in Nat /\ n < Capacity * (n \div Capacity) + Capacity
  BY <1>1, <1>2, <1>3
<1>5. RetryAfter(b) = n \div Capacity
  BY DEF RetryAfter
<1> QED BY <1>1, <1>4, <1>5, FullBucket
\* A refill keeps the account of the bucket.
LEMMA RefillFlows ==
  ASSUME LimiterTypeInv, NEW r \in Routes, FlowsIn(r), NEW i \in DOMAIN admitted[r]
  PROVE  (Len(admitted[r]) - i + 1) * Window + Refill(bucket[r]).tokens
           <= Capacity * Window + (now - admitted[r][i]) * Capacity
<1>1. /\ Len(admitted[r]) - i + 1 \in Int /\ admitted[r][i] \in Int
      /\ bucket[r].at \in Int /\ bucket[r].tokens \in Int /\ now \in Int
  BY LimiterTypes
<1>2. (Len(admitted[r]) - i + 1) * Window + bucket[r].tokens
        <= Capacity * Window + (bucket[r].at - admitted[r][i]) * Capacity
  BY DEF FlowsIn
<1>3. bucket[r] \in Buckets /\ now \in Nat /\ bucket[r].at <= now
  BY LimiterTypes DEF FlowsIn
<1>4. /\ Refill(bucket[r]) \in Buckets
      /\ Refill(bucket[r]).tokens <= bucket[r].tokens + (now - bucket[r].at) * Capacity
  BY <1>3, RefillIs
<1>5. Refill(bucket[r]).tokens \in Int
  BY <1>4, FullBucket DEF Buckets
<1> QED BY <1>1, <1>2, <1>4, <1>5, FlowSum, Zenon

\* The request gets a token.
LEMMA AdmitKeeps ==
  ASSUME LimiterInv, NEW r \in Routes, NEW b, b = Refill(bucket[r]), b.tokens >= Window,
         bucket' = [bucket EXCEPT ![r] = [b EXCEPT !.tokens = @ - Window]],
         admitted' = [admitted EXCEPT ![r] = Append(@, now)], now' = now
  PROVE  /\ bucket' \in [Routes -> Buckets] /\ admitted' \in [Routes -> Seq(Nat)]
         /\ \A s \in Routes : FlowsIn(s)' /\ Bounded(s)'
         /\ Len(admitted'[r]) = Len(admitted[r]) + 1
<1> DEFINE len == Len(admitted[r])
<1>1. /\ LimiterTypeInv /\ FlowsIn(r) /\ Bounded(r)
      /\ now \in Nat /\ now \in Int /\ admitted[r] \in Seq(Nat) /\ len \in Nat
      /\ DOMAIN admitted[r] = 1 .. len /\ \A i \in DOMAIN admitted[r] : admitted[r][i] \in Nat
      /\ bucket[r] \in Buckets /\ bucket[r].at <= now
  BY LimiterTypes DEF LimiterInv, FlowsIn
<1>2. /\ b \in Buckets /\ b.at = now /\ b.tokens \in Nat /\ b.tokens \in Int
      /\ b.tokens <= Capacity * Window
  BY <1>1, RefillIs, FullBucket DEF Buckets
<1>3. /\ b.tokens - Window \in 0 .. Capacity * Window /\ b.tokens - Window \in Nat
  BY <1>2, FullBucket
<1>4. /\ bucket'[r] = [b EXCEPT !.tokens = b.tokens - Window]
      /\ admitted'[r] = Append(admitted[r], now)
      /\ \A s \in Routes \ {r} : bucket'[s] = bucket[s] /\ admitted'[s] = admitted[s]
  BY <1>1 DEF LimiterTypeInv
<1>5. /\ bucket'[r].at = now /\ bucket'[r].tokens = b.tokens - Window /\ bucket'[r] \in Buckets
  BY <1>2, <1>3, <1>4 DEF Buckets
<1>6. /\ admitted'[r] \in Seq(Nat) /\ Len(admitted'[r]) = len + 1
      /\ admitted'[r][len + 1] = now
      /\ \A i \in DOMAIN admitted[r] : admitted'[r][i] = admitted[r][i]
      /\ DOMAIN admitted'[r] = DOMAIN admitted[r] \cup {len + 1}
  BY <1>1, <1>4
<1>7. ASSUME NEW i \in DOMAIN admitted'[r]
      PROVE  ((len + 1) - i + 1) * Window + (b.tokens - Window)
               <= Capacity * Window + (now - admitted'[r][i]) * Capacity
  <2>1. CASE i \in DOMAIN admitted[r]
    <3>1. (len - i + 1) * Window + b.tokens
            <= Capacity * Window + (now - admitted'[r][i]) * Capacity
      BY <1>1, <1>6, <2>1, RefillFlows
    <3>2. len - i + 1 \in Int /\ admitted'[r][i] \in Int /\ (len + 1) - i + 1 = (len - i + 1) + 1
      BY <1>1, <1>6, <2>1
    <3>3. ((len - i + 1) + 1) * Window + (b.tokens - Window)
            <= Capacity * Window + (now - admitted'[r][i]) * Capacity
      BY <1>1, <1>2, <3>1, <3>2, FlowTaken, Zenon
    <3> QED BY <3>2, <3>3, Zenon
  <2>2. CASE i = len + 1
    <3>1. (len + 1) - i + 1 = 1 /\ now - admitted'[r][i] = 0
      BY <1>1, <1>6, <2>2
    <3>2. 1 * Window + (b.tokens - Window) <= Capacity * Window + 0 * Capacity
      BY <1>2, FullBucket
    <3> QED BY <3>1, <3>2, Zenon
  <2> QED BY <1>6, <2>1, <2>2
<1>8. ASSUME NEW i \in DOMAIN admitted'[r], NEW j \in DOMAIN admitted'[r], i <= j
      PROVE  (j - i + 1) * Window
               <= Capacity * Window + (admitted'[r][j] - admitted'[r][i]) * Capacity
  <2>1. CASE j \in DOMAIN admitted[r]
    <3>1. i \in DOMAIN admitted[r]
      BY <1>1, <1>6, <1>8, <2>1
    <3>2. (j - i + 1) * Window
               <= Capacity * Window + (admitted[r][j] - admitted[r][i]) * Capacity
      BY <1>1, <1>8, <2>1, <3>1 DEF Bounded
    <3> QED BY <1>6, <2>1, <3>1, <3>2, Zenon
  <2>2. CASE j = len + 1
    <3>1. admitted'[r][j] = now
      BY <1>6, <2>2
    <3>2. (len + 1) - i + 1 \in Int /\ admitted'[r][i] \in Int
      BY <1>1, <1>6
    <3>3. ((len + 1) - i + 1) * Window
            <= Capacity * Window + (now - admitted'[r][i]) * Capacity
      BY <1>1, <1>3, <1>7, <3>2, FlowBound, Zenon
    <3> QED BY <2>2, <3>1, <3>3, Zenon
  <2> QED BY <1>6, <2>1, <2>2
<1>9. Bounded(r)'
  BY <1>8 DEF Bounded
<1>10. FlowsIn(r)'
  <2>1. bucket'[r].at <= now'
    BY <1>1, <1>5
  <2>2. ASSUME NEW i \in DOMAIN admitted'[r]
        PROVE  (Len(admitted'[r]) - i + 1) * Window + bucket'[r].tokens
                 <= Capacity * Window + (bucket'[r].at - admitted'[r][i]) * Capacity
    BY <1>5, <1>6, <1>7, Zenon
  <2> QED BY <2>1, <2>2 DEF FlowsIn
<1>11. ASSUME NEW s \in Routes \ {r} PROVE FlowsIn(s)' /\ Bounded(s)'
  <2>1. FlowsIn(s) /\ Bounded(s) /\ bucket'[s] = bucket[s] /\ admitted'[s] = admitted[s]
    BY <1>4 DEF LimiterInv
  <2> QED BY <2>1, Zenon DEF FlowsIn, Bounded
<1> QED BY <1>1, <1>5, <1>6, <1>9, <1>10, <1>11 DEF LimiterTypeInv

\* The request is told how long to wait.
LEMMA LimitKeeps ==
  ASSUME LimiterInv, NEW r \in Routes, NEW b, b = Refill(bucket[r]), b.tokens < Window,
         bucket' = [bucket EXCEPT ![r] = b], UNCHANGED <<admitted, now>>
  PROVE  /\ bucket' \in [Routes -> Buckets]
         /\ \A s \in Routes : FlowsIn(s)' /\ Bounded(s)'
         /\ b \in Buckets /\ b.at = now
         /\ \A u \in Int : bucket[r].tokens + (u - bucket[r].at) * Capacity >= Window
              => b.tokens + (u - now) * Capacity >= Window
<1>1. /\ LimiterTypeInv /\ FlowsIn(r) /\ Bounded(r) /\ now \in Nat /\ now \in Int
      /\ bucket[r] \in Buckets /\ bucket[r].at <= now
      /\ bucket[r].at \in Int /\ bucket[r].tokens \in Int
  BY LimiterTypes DEF LimiterInv, FlowsIn
<1>2. /\ b \in Buckets /\ b.at = now /\ b.tokens \in Int /\ b.tokens # Capacity * Window
  BY <1>1, RefillIs, FullBucket DEF Buckets
<1>3. b.tokens = bucket[r].tokens + (now - bucket[r].at) * Capacity
  BY <1>1, <1>2, RefillIs, Zenon
<1>4. /\ bucket'[r] = b /\ admitted' = admitted /\ now' = now
      /\ \A s \in Routes \ {r} : bucket'[s] = bucket[s]
      /\ bucket' \in [Routes -> Buckets]
  BY <1>1, <1>2 DEF LimiterTypeInv
<1>5. FlowsIn(r)'
  <2>1. bucket'[r].at <= now'
    BY <1>1, <1>2, <1>4
  <2>2. ASSUME NEW i \in DOMAIN admitted[r]
        PROVE  (Len(admitted[r]) - i + 1) * Window + b.tokens
                 <= Capacity * Window + (b.at - admitted[r][i]) * Capacity
    BY <1>1, <1>2, RefillFlows, Zenon
  <2> QED BY <1>4, <2>1, <2>2, Zenon DEF FlowsIn
<1>6. Bounded(r)'
  BY <1>1, <1>4, Zenon DEF Bounded
<1>7. ASSUME NEW s \in Routes \ {r} PROVE FlowsIn(s)' /\ Bounded(s)'
  <2>1. FlowsIn(s) /\ Bounded(s) /\ bucket'[s] = bucket[s]
    BY <1>4 DEF LimiterInv
  <2> QED BY <1>4, <2>1, Zenon DEF FlowsIn, Bounded
<1>8. ASSUME NEW u \in Int, bucket[r].tokens + (u - bucket[r].at) * Capacity >= Window
      PROVE  b.tokens + (u - now) * Capacity >= Window
  <2> DEFINE t == bucket[r].tokens
             a == bucket[r].at
             x == b.tokens
  <2>1. /\ t \in Int /\ a \in Int /\ x \in Int /\ now \in Int
        /\ t + (u - a) * Capacity >= Window /\ x = t + (now - a) * Capacity
    BY <1>1, <1>2, <1>3, <1>8, Zenon
  <2> HIDE DEF t, a, x
  <2>2. x + (u - now) * Capacity >= Window
    BY <2>1, FullBucket
  <2> QED BY <2>2 DEF x
<1>9. \A s \in Routes : FlowsIn(s)' /\ Bounded(s)'
  BY <1>5, <1>6, <1>7
<1> QED BY <1>2, <1>4, <1>8, <1>9, Zenon
LEMMA LimiterInit == Init => LimiterInv
<1> SUFFICES ASSUME Init PROVE LimiterInv
  OBVIOUS
<1>1. now = 0 /\ Full \in Buckets /\ Full.at = 0
  BY FullBucket DEF Init, Full, Buckets
<1>2. LimiterTypeInv
  BY <1>1 DEF Init, LimiterTypeInv, NoPromise, Routes
<1>3. ASSUME NEW r \in Routes PROVE FlowsIn(r) /\ Bounded(r)
  BY <1>1 DEF Init, FlowsIn, Bounded
<1>4. ASSUME NEW c \in Callers PROVE Promised(c)
  BY DEF Init, Promised
<1> QED BY <1>2, <1>3, <1>4 DEF LimiterInv

LEMMA AskKeeps ==
  ASSUME LimiterInv, NEW c \in Callers, Ask(c)
  PROVE  LimiterInv'
<1> PICK r \in Routes, w \in Wants :
      LET b == Refill(bucket[r]) IN
      /\ route' = [route EXCEPT ![c] = r]
      /\ IF b.tokens >= Window
           THEN /\ bucket' = [bucket EXCEPT ![r] = [b EXCEPT !.tokens = @ - Window]]
                /\ admitted' = [admitted EXCEPT ![r] = Append(@, now)]
                /\ stage' = [stage EXCEPT ![c] = "admitted"]
                /\ UNCHANGED promise
           ELSE /\ bucket' = [bucket EXCEPT ![r] = b]
                /\ promise' = [promise EXCEPT ![c] = [until |-> now + RetryAfter(b),
                                                      after |-> Len(admitted[r])]]
                /\ stage' = [stage EXCEPT ![c] = "limited"]
                /\ UNCHANGED admitted
  BY Zenon DEF Ask
<1> DEFINE b == Refill(bucket[r])
<1>0. /\ LimiterTypeInv /\ now' = now /\ stage[c] = "idle"
      /\ route'[c] = r /\ \A d \in Callers \ {c} : route'[d] = route[d]
      /\ route' \in [Callers -> Routes]
  BY DEF LimiterInv, LimiterTypeInv, Ask
<1>t. /\ now \in Nat /\ bucket[r] \in Buckets /\ Len(admitted[r]) \in Nat
      /\ bucket[r].at <= now
  BY <1>0, LimiterTypes DEF LimiterInv, FlowsIn
<1>b. b \in Buckets
  BY <1>t, RefillIs
<1>1. CASE b.tokens >= Window
  <2>1. /\ bucket' \in [Routes -> Buckets] /\ admitted' \in [Routes -> Seq(Nat)]
        /\ \A s \in Routes : FlowsIn(s)' /\ Bounded(s)'
        /\ Len(admitted'[r]) = Len(admitted[r]) + 1
    BY <1>0, <1>1, AdmitKeeps
  <2>2. LimiterTypeInv'
    BY <1>0, <1>1, <2>1 DEF LimiterTypeInv
  <2>3. ASSUME NEW d \in Callers PROVE Promised(d)'
    <3>1. CASE d = c
      BY <1>0, <1>1, <3>1 DEF Promised, LimiterTypeInv
    <3>2. CASE d # c /\ route[d] # r
      <4>1. /\ stage'[d] = stage[d] /\ promise'[d] = promise[d] /\ route'[d] = route[d]
            /\ bucket'[route[d]] = bucket[route[d]] /\ admitted'[route[d]] = admitted[route[d]]
        BY <1>0, <1>1, <3>2 DEF LimiterTypeInv
      <4>2. Promised(d)
        BY DEF LimiterInv
      <4> QED BY <4>1, <4>2, Zenon DEF Promised
    <3>3. CASE d # c /\ route[d] = r
      <4>1. stage'[d] = stage[d] /\ promise'[d] = promise[d] /\ route'[d] = r
        BY <1>0, <1>1, <3>3 DEF LimiterTypeInv
      <4>2. promise[d].after \in Nat
        BY <1>0 DEF LimiterTypeInv
      <4>3. stage[d] = "limited" => promise[d].after <= Len(admitted[r])
        BY <3>3 DEF LimiterInv, Promised
      <4>4. stage[d] = "limited" => promise[d].after < Len(admitted'[r])
        BY <1>t, <2>1, <4>2, <4>3
      <4>5. /\ stage[d] = "limited" => promise[d].after <= Len(admitted'[r])
            /\ stage[d] = "limited" => promise[d].after # Len(admitted'[r])
        BY <1>t, <2>1, <4>2, <4>4
      <4> QED BY <4>1, <4>5, Zenon DEF Promised
    <3> QED BY <3>1, <3>2, <3>3
  <2> QED BY <2>1, <2>2, <2>3 DEF LimiterInv
<1>2. CASE ~(b.tokens >= Window)
  <2>0. b.tokens < Window /\ b.tokens \in Int
    BY <1>2, <1>b, FullBucket DEF Buckets
  <2>1. /\ bucket' \in [Routes -> Buckets]
        /\ \A s \in Routes : FlowsIn(s)' /\ Bounded(s)'
        /\ b \in Buckets /\ b.at = now
        /\ \A u \in Int : bucket[r].tokens + (u - bucket[r].at) * Capacity >= Window
             => b.tokens + (u - now) * Capacity >= Window
    BY <1>0, <1>2, <2>0, LimitKeeps
  <2>2. /\ RetryAfter(b) \in Nat /\ b.tokens + RetryAfter(b) * Capacity >= Window
    BY <1>b, <2>0, RetryIsEnough
  <2>3. /\ now + RetryAfter(b) \in Nat /\ (now + RetryAfter(b)) - now = RetryAfter(b)
        /\ Len(admitted[r]) <= Len(admitted[r])
    BY <1>t, <2>2
  <2>4. /\ stage' = [stage EXCEPT ![c] = "limited"]
        /\ promise' = [promise EXCEPT ![c] = [until |-> now + RetryAfter(b),
                                              after |-> Len(admitted[r])]]
        /\ bucket' = [bucket EXCEPT ![r] = b] /\ admitted' = admitted
    BY <1>2
  <2>5. LimiterTypeInv'
    BY <1>0, <1>t, <2>1, <2>3, <2>4 DEF LimiterTypeInv
  <2>6. ASSUME NEW d \in Callers PROVE Promised(d)'
    <3>0. bucket'[r] = b
      BY <1>0, <2>4 DEF LimiterTypeInv
    <3>1. CASE d = c
      <4>1. /\ promise'[d].until = now + RetryAfter(b) /\ promise'[d].after = Len(admitted[r])
            /\ route'[d] = r
        BY <1>0, <2>4, <3>1 DEF LimiterTypeInv
      <4>2. b.tokens + ((now + RetryAfter(b)) - now) * Capacity >= Window
        BY <2>2, <2>3, Zenon
      <4> QED BY <2>1, <2>3, <2>4, <3>0, <4>1, <4>2, Zenon DEF Promised
    <3>2. CASE d # c
      <4>1. stage'[d] = stage[d] /\ promise'[d] = promise[d] /\ route'[d] = route[d]
        BY <1>0, <2>4, <3>2 DEF LimiterTypeInv
      <4>2. Promised(d) /\ promise[d].until \in Int
        BY <1>0 DEF LimiterInv, LimiterTypeInv
      <4>3. CASE route[d] = r
        BY <2>1, <2>4, <3>0, <4>1, <4>2, <4>3, Zenon DEF Promised
      <4>4. CASE route[d] # r
        <5>1. bucket'[route[d]] = bucket[route[d]]
          BY <1>0, <2>4, <4>4 DEF LimiterTypeInv
        <5> QED BY <2>4, <4>1, <4>2, <5>1, Zenon DEF Promised
      <4> QED BY <4>3, <4>4
    <3> QED BY <3>1, <3>2
  <2> QED BY <2>1, <2>5, <2>6 DEF LimiterInv
<1> QED BY <1>1, <1>2
\* The steps of a request that was let in, and those of the world around it.
LEMMA OthersKeep ==
  ASSUME LimiterInv, UNCHANGED <<limiterVars, route>>, now' \in Nat, now <= now',
         stage' \in [Callers -> {"idle", "admitted", "limited", "settings", "resolved",
                                "fetching", "answered", "done", "refused"}],
         \A c \in Callers : stage'[c] = "limited" => stage[c] = "limited"
  PROVE  LimiterInv'
<1> USE DEF limiterVars
<1>1. LimiterTypeInv'
  BY DEF LimiterInv, LimiterTypeInv
<1>2. ASSUME NEW r \in Routes PROVE FlowsIn(r)' /\ Bounded(r)'
  <2>1. bucket[r].at <= now'
    BY LimiterTypes DEF LimiterInv, FlowsIn
  <2> QED BY <2>1, Zenon DEF LimiterInv, FlowsIn, Bounded
<1>3. ASSUME NEW c \in Callers PROVE Promised(c)'
  BY Zenon DEF LimiterInv, Promised
<1> QED BY <1>1, <1>2, <1>3 DEF LimiterInv

LEMMA DieKeeps == LimiterInv /\ Die => LimiterInv'
<1> SUFFICES ASSUME LimiterInv, Die PROVE LimiterInv'
  OBVIOUS
<1>1. now \in Nat /\ Full \in Buckets /\ Full.at = now
  BY FullBucket DEF LimiterInv, LimiterTypeInv, Full, Buckets
<1>2. /\ bucket' = [r \in Routes |-> Full] /\ admitted' = [r \in Routes |-> <<>>] /\ now' = now
      /\ promise' = [c \in Callers |-> NoPromise] /\ route' = route
      /\ stage' = [c \in Callers |-> IF stage[c] \in {"idle", "done"} THEN stage[c] ELSE "refused"]
  BY DEF Die, FreshProcess
<1>3. LimiterTypeInv'
  BY <1>1, <1>2 DEF LimiterInv, LimiterTypeInv, NoPromise
<1>4. ASSUME NEW r \in Routes PROVE FlowsIn(r)' /\ Bounded(r)'
  BY <1>1, <1>2 DEF FlowsIn, Bounded
<1>5. ASSUME NEW c \in Callers PROVE Promised(c)'
  BY <1>2 DEF Promised
<1> QED BY <1>3, <1>4, <1>5 DEF LimiterInv

LEMMA LimiterStep == LimiterInv /\ [Next]_vars => LimiterInv'
<1> SUFFICES ASSUME LimiterInv, [Next]_vars PROVE LimiterInv'
  OBVIOUS
<1>0. /\ now \in Nat /\ now <= now
      /\ stage \in [Callers -> {"idle", "admitted", "limited", "settings", "resolved",
                                "fetching", "answered", "done", "refused"}]
  BY DEF LimiterInv, LimiterTypeInv
<1>1. ASSUME NEW c \in Callers, Step(c) PROVE LimiterInv'
  <2>1. CASE Ask(c)
    BY <2>1, AskKeeps
  <2>2. ASSUME ~Ask(c)
        PROVE  /\ UNCHANGED <<limiterVars, route, now>>
               /\ \E s \in {"settings", "resolved", "fetching", "answered", "done", "refused"} :
                    stage' = [stage EXCEPT ![c] = s]
    BY <1>1, <2>2 DEF Step, GetSettings, GetKey, UseCache, FetchCatalog, Answered, Arrived,
                      FetchFails, Refuse, Pick
  <2>3. CASE ~Ask(c)
    <3>1. /\ UNCHANGED <<limiterVars, route>> /\ now' \in Nat /\ now <= now'
          /\ stage' \in [Callers -> {"idle", "admitted", "limited", "settings", "resolved",
                                    "fetching", "answered", "done", "refused"}]
          /\ \A d \in Callers : stage'[d] = "limited" => stage[d] = "limited"
      BY <1>0, <2>2, <2>3
    <3> QED BY <3>1, OthersKeep
  <2> QED BY <2>1, <2>3
<1>2. ASSUME (\E u \in Urls : Offer(u)) \/ Settings \/ UNCHANGED vars
      PROVE  UNCHANGED <<limiterVars, route, stage, now>>
  BY <1>2 DEF Offer, Settings, vars, callerVars
<1>3. CASE Tick
  <2>1. now' = now + 1 /\ UNCHANGED <<limiterVars, route, stage>>
    BY <1>3 DEF Tick, callerVars
  <2>2. now' \in Nat /\ now <= now'
    BY <1>0, <2>1
  <2> QED BY <1>0, <2>1, <2>2, OthersKeep
<1>4. CASE UNCHANGED <<limiterVars, route, stage, now>>
  BY <1>0, <1>4, OthersKeep
<1>5. CASE Die
  BY <1>5, DieKeeps
<1> QED BY <1>1, <1>2, <1>3, <1>4, <1>5 DEF Next

(* Between any two admissions the limiter lets in no more than a full      *)
(* bucket and what flowed in since the first of them; and a request that   *)
(* was told to wait finds a token then if nobody took it: for any capacity *)
(* and window, any number of requests and any schedule of their arrivals.  *)
THEOREM LimiterKeepsWord == Spec => []LimiterKeepsItsWord
<1>1. LimiterInv => LimiterKeepsItsWord
  <2> SUFFICES ASSUME LimiterInv PROVE LimiterKeepsItsWord
    OBVIOUS
  <2>1. ASSUME NEW r \in Routes, NEW c \in Callers, stage[c] = "limited", route[c] = r,
               promise[c].after = Len(admitted[r]), now >= promise[c].until
        PROVE  Refill(bucket[r]).tokens >= Window
    <3> DEFINE t == bucket[r].tokens
               a == bucket[r].at
               u == promise[c].until
               k == Refill(bucket[r]).tokens
    <3>1. /\ t \in Int /\ a \in Int /\ u \in Int /\ now \in Int /\ u <= now
          /\ bucket[r] \in Buckets /\ now \in Nat /\ bucket[r].at <= now
      BY <2>1, LimiterTypes DEF LimiterInv, LimiterTypeInv, FlowsIn
    <3>2. t + (u - a) * Capacity >= Window
      BY <2>1, Zenon DEF LimiterInv, Promised
    <3>3. k = Capacity * Window \/ k = t + (now - a) * Capacity
      BY <3>1, RefillIs, Zenon
    <3> HIDE DEF t, a, u, k
    <3>4. u - a \in Int /\ now - a \in Int /\ u - a <= now - a
      BY <3>1
    <3>5. (u - a) * Capacity <= (now - a) * Capacity
      BY <3>4, MoreTime, Zenon
    <3>6. (u - a) * Capacity \in Int /\ (now - a) * Capacity \in Int
      BY <3>4, Products, Zenon
    <3>7. k >= Window
      BY <3>1, <3>2, <3>3, <3>5, <3>6, FullBucket
    <3> QED BY <3>7 DEF k
  <2>2. ASSUME NEW r \in Routes PROVE Bounded(r)
    BY DEF LimiterInv
  <2> QED BY <2>1, <2>2, Zenon DEF LimiterKeepsItsWord, Bounded
<1> QED BY <1>1, LimiterInit, LimiterStep, PTL DEF Spec


-----------------------------------------------------------------------------
(* The selection.                                                          *)

\* The model that an adapter makes of an item of a catalog names it, and levels that
\* are the item's.
LEMMA ModelTold ==
  ASSUME NEW kind, NEW items, NEW i \in DOMAIN items, NEW models, NEW j,
         NEW item, item = items[i], NEW levels, NEW default,
         models[j] = [model |-> item.name, levels |-> levels, default |-> default],
         ToSet(levels) = {} \/ (kind # "anthropic" /\ item.reasons # "no" /\ ToSet(levels) \subseteq ToSet(item.levels))
  PROVE  /\ Advertises(kind, items, models[j].model, None)
         /\ \A l \in ToSet(models[j].levels) : Advertises(kind, items, models[j].model, l)
<1>1. models[j].model = item.name /\ models[j].levels = levels
  OBVIOUS
<1>2. items[i].name = item.name
  OBVIOUS
<1>3. Advertises(kind, items, item.name, None)
  BY <1>2, Zenon DEF Advertises
<1>4. ASSUME NEW l \in ToSet(levels) PROVE Advertises(kind, items, item.name, l)
  <2>1. kind # "anthropic" /\ items[i].reasons # "no" /\ l \in ToSet(items[i].levels)
    <3>1. ToSet(levels) # {}
      BY <1>4, Zenon
    <3> QED BY <1>4, <3>1, Zenon
  <2> QED BY <1>2, <2>1, Zenon DEF Advertises
<1> QED BY <1>1, <1>3, <1>4, Zenon

LEMMA ThoseAre ==
  ASSUME NEW s, NEW I
  PROVE  OpenAi!Those(s, I) = Picked(s, I) /\ Responses!Those(s, I) = Picked(s, I)
           /\ Anthropic!Those(s, I) = Picked(s, I)
<1>1. OpenAi!Those(s, I) = Picked(s, I)
  BY Zenon DEF OpenAi!Those, OpenAi!FlattenSeq, Picked, FlattenSeq
<1>2. Responses!Those(s, I) = Picked(s, I)
  BY Zenon DEF Responses!Those, Responses!FlattenSeq, Picked, FlattenSeq
<1>3. Anthropic!Those(s, I) = Picked(s, I)
  BY Zenon DEF Anthropic!Those, Anthropic!FlattenSeq, Picked, FlattenSeq
<1> QED BY <1>1, <1>2, <1>3

\* A sequence of elements of another one.
PartOf(t, s) ==
  /\ DOMAIN t \subseteq Nat
  /\ \A j \in DOMAIN t : \E i \in DOMAIN s : t[j] = s[i]
  /\ ToSet(t) \subseteq ToSet(s)

\* What is picked from a sequence is in it.
LEMMA PickedFrom ==
  ASSUME NEW s, s \in Seq(ToSet(s)), NEW I, NEW t, t = Picked(s, I)
  PROVE  PartOf(t, s)
<1>1. PICK X : X = ToSet(s)
  OBVIOUS
<1>2. PICK Z : Z = {s[i] : i \in DOMAIN s \cap I}
  OBVIOUS
<1>3. t \in Seq(Z)
  BY <1>1, <1>2, PickedType, Zenon
<1>4. DOMAIN t = 1 .. Len(t) /\ Len(t) \in Nat /\ \A j \in 1 .. Len(t) : t[j] \in Z
  BY <1>3, LenProperties, ElementOfSeq
<1>5. \A j \in DOMAIN t : \E i \in DOMAIN s : t[j] = s[i]
  BY <1>2, <1>4
<1>6. ToSet(t) \subseteq ToSet(s)
  BY <1>5 DEF ToSet
<1>7. DOMAIN t \subseteq Nat
  BY <1>4
<1> QED BY <1>5, <1>6, <1>7, Zenon DEF PartOf

\* A model of a catalog is made of the item of a place, and has levels of it or none.
MadeOf(kind, items, models, j, i) ==
  \E levels, default :
    /\ models[j] = [model |-> items[i].name, levels |-> levels, default |-> default]
    /\ \/ ToSet(levels) = {}
       \/ kind # "anthropic" /\ items[i].reasons # "no" /\ ToSet(levels) \subseteq ToSet(items[i].levels)

LEMMA MadeTells ==
  ASSUME NEW kind, NEW items, NEW models, DOMAIN models \subseteq Nat,
         \A j \in DOMAIN models : \E i \in DOMAIN items : MadeOf(kind, items, models, j, i)
  PROVE  Tells(models, kind, items)
<1> SUFFICES ASSUME NEW j \in DOMAIN models
             PROVE  /\ Advertises(kind, items, models[j].model, None)
                    /\ \A l \in ToSet(models[j].levels) : Advertises(kind, items, models[j].model, l)
  BY Zenon DEF Tells
<1>1. PICK i \in DOMAIN items : MadeOf(kind, items, models, j, i)
  OBVIOUS
<1>2. PICK levels, default :
        /\ models[j] = [model |-> items[i].name, levels |-> levels, default |-> default]
        /\ \/ ToSet(levels) = {}
           \/ kind # "anthropic" /\ items[i].reasons # "no" /\ ToSet(levels) \subseteq ToSet(items[i].levels)
  BY <1>1, Zenon DEF MadeOf
<1>3. PICK item : item = items[i]
  OBVIOUS
<1> QED BY <1>2, <1>3, ModelTold, Zenon

LEMMA NoLevels == ToSet(<<>>) = {}
<1>1. DOMAIN <<>> = {}
  OBVIOUS
<1> QED BY <1>1 DEF ToSet

LEMMA OpenAiTells ==
  ASSUME NEW items, items \in Seq(ToSet(items)),
         \A item \in ToSet(items) : item.levels \in Seq(ToSet(item.levels))
  PROVE  Tells(OpenAi!Catalog(CatalogReply(items)).outcome, "openai", items)
<1>1. PICK models : models = OpenAi!Catalog(CatalogReply(items)).outcome
  OBVIOUS
<1>2. PICK chosen : chosen = OpenAi!Named(items)
  OBVIOUS
<1>3. models = [j \in DOMAIN chosen |-> OpenAi!Capability(chosen[j], OpenAi!Levels(chosen[j]))]
  <2>1. OpenAi!Catalog(CatalogReply(items)) = OpenAi!Answer(OpenAi!ParseCatalog(items))
    BY DEF OpenAi!Catalog, CatalogReply
  <2>2. OpenAi!Answer(OpenAi!ParseCatalog(items)).outcome = OpenAi!ParseCatalog(items)
    BY DEF OpenAi!Answer
  <2> QED BY <1>1, <1>2, <2>1, <2>2, Zenon DEF OpenAi!ParseCatalog
<1>4. DOMAIN chosen \subseteq Nat /\ \A j \in DOMAIN chosen : \E i \in DOMAIN items : chosen[j] = items[i]
  <2>1. PICK I : chosen = Picked(items, I)
    BY <1>2, ThoseAre, Zenon DEF OpenAi!Named
  <2>2. PartOf(chosen, items)
    BY <2>1, PickedFrom, Zenon
  <2> QED BY <2>2, Zenon DEF PartOf
<1>5. ASSUME NEW j \in DOMAIN chosen PROVE \E i \in DOMAIN items : MadeOf("openai", items, models, j, i)
  <2>1. PICK i \in DOMAIN items : chosen[j] = items[i]
    BY <1>4
  <2>2. PICK item : item = items[i]
    OBVIOUS
  <2>3. item.levels \in Seq(ToSet(item.levels))
    BY <2>2 DEF ToSet
  <2>4. PICK levels : levels = OpenAi!Levels(item)
    OBVIOUS
  <2>5. ToSet(levels) = {} \/ (item.reasons # "no" /\ ToSet(levels) \subseteq ToSet(item.levels))
    <3>1. CASE item.reasons = "no"
      BY <2>4, <3>1, NoLevels, Zenon DEF OpenAi!Levels
    <3>2. CASE item.reasons # "no"
      <4>1. PICK given : given = item.levels
        OBVIOUS
      <4>2. PICK I : levels = Picked(given, I)
        BY <2>4, <3>2, <4>1, ThoseAre, Zenon DEF OpenAi!Levels, OpenAi!Distinct
      <4>3. ToSet(levels) \subseteq ToSet(given)
        BY <2>3, <4>1, <4>2, PickedFrom, Zenon DEF PartOf
      <4> QED BY <3>2, <4>1, <4>3, Zenon
    <3> QED BY <3>1, <3>2
  <2>6. PICK default : models[j] = [model |-> item.name, levels |-> levels, default |-> default]
    BY <1>3, <2>1, <2>2, <2>4 DEF OpenAi!Capability
  <2>7. MadeOf("openai", items, models, j, i)
    BY <2>2, <2>5, <2>6, Zenon DEF MadeOf
  <2> QED BY <2>7
<1>6. DOMAIN models = DOMAIN chosen
  BY <1>3
<1> QED BY <1>1, <1>4, <1>5, <1>6, MadeTells, Zenon

LEMMA ResponsesTells ==
  ASSUME NEW items, items \in Seq(ToSet(items)),
         \A item \in ToSet(items) : item.levels \in Seq(ToSet(item.levels))
  PROVE  Tells(Responses!Catalog(CatalogReply(items)).outcome, "responses", items)
<1>1. PICK models : models = Responses!Catalog(CatalogReply(items)).outcome
  OBVIOUS
<1>2. PICK chosen : chosen = Responses!Named(items)
  OBVIOUS
<1>3. models = [j \in DOMAIN chosen |-> Responses!Capability(chosen[j], Responses!Levels(chosen[j]))]
  <2>1. Responses!Catalog(CatalogReply(items)) = Responses!Answer(Responses!ParseCatalog(items))
    BY DEF Responses!Catalog, CatalogReply
  <2>2. Responses!Answer(Responses!ParseCatalog(items)).outcome = Responses!ParseCatalog(items)
    BY DEF Responses!Answer
  <2> QED BY <1>1, <1>2, <2>1, <2>2, Zenon DEF Responses!ParseCatalog
<1>4. DOMAIN chosen \subseteq Nat /\ \A j \in DOMAIN chosen : \E i \in DOMAIN items : chosen[j] = items[i]
  <2>1. PICK I : chosen = Picked(items, I)
    BY <1>2, ThoseAre, Zenon DEF Responses!Named
  <2>2. PartOf(chosen, items)
    BY <2>1, PickedFrom, Zenon
  <2> QED BY <2>2, Zenon DEF PartOf
<1>5. ASSUME NEW j \in DOMAIN chosen PROVE \E i \in DOMAIN items : MadeOf("responses", items, models, j, i)
  <2>1. PICK i \in DOMAIN items : chosen[j] = items[i]
    BY <1>4
  <2>2. PICK item : item = items[i]
    OBVIOUS
  <2>3. item.levels \in Seq(ToSet(item.levels))
    BY <2>2 DEF ToSet
  <2>4. PICK levels : levels = Responses!Levels(item)
    OBVIOUS
  <2>5. ToSet(levels) = {} \/ (item.reasons # "no" /\ ToSet(levels) \subseteq ToSet(item.levels))
    <3>1. CASE item.reasons = "no"
      BY <2>4, <3>1, NoLevels, Zenon DEF Responses!Levels
    <3>2. CASE item.reasons # "no"
      <4>1. PICK given : given = item.levels
        OBVIOUS
      <4>2. PICK I : levels = Picked(given, I)
        BY <2>4, <3>2, <4>1, ThoseAre, Zenon DEF Responses!Levels, Responses!Distinct
      <4>3. ToSet(levels) \subseteq ToSet(given)
        BY <2>3, <4>1, <4>2, PickedFrom, Zenon DEF PartOf
      <4> QED BY <3>2, <4>1, <4>3, Zenon
    <3> QED BY <3>1, <3>2
  <2>6. PICK default : models[j] = [model |-> item.name, levels |-> levels, default |-> default]
    BY <1>3, <2>1, <2>2, <2>4 DEF Responses!Capability
  <2>7. MadeOf("responses", items, models, j, i)
    BY <2>2, <2>5, <2>6, Zenon DEF MadeOf
  <2> QED BY <2>7
<1>6. DOMAIN models = DOMAIN chosen
  BY <1>3
<1> QED BY <1>1, <1>4, <1>5, <1>6, MadeTells, Zenon

LEMMA AnthropicTells ==
  ASSUME NEW kind, NEW items, items \in Seq(ToSet(items))
  PROVE  Tells(Anthropic!Catalog(CatalogReply(items)).outcome, kind, items)
<1>1. PICK models : models = Anthropic!Catalog(CatalogReply(items)).outcome
  OBVIOUS
<1>2. PICK chosen : chosen = Anthropic!Named(items)
  OBVIOUS
<1>3. models = [j \in DOMAIN chosen |-> Anthropic!Capability(chosen[j], <<>>)]
  <2>1. Anthropic!Catalog(CatalogReply(items)) = Anthropic!Answer(Anthropic!ParseCatalog(items))
    BY DEF Anthropic!Catalog, CatalogReply
  <2>2. Anthropic!Answer(Anthropic!ParseCatalog(items)).outcome = Anthropic!ParseCatalog(items)
    BY DEF Anthropic!Answer
  <2> QED BY <1>1, <1>2, <2>1, <2>2, Zenon DEF Anthropic!ParseCatalog
<1>4. DOMAIN chosen \subseteq Nat /\ \A j \in DOMAIN chosen : \E i \in DOMAIN items : chosen[j] = items[i]
  <2>1. PICK I : chosen = Picked(items, I)
    BY <1>2, ThoseAre, Zenon DEF Anthropic!Named
  <2>2. PartOf(chosen, items)
    BY <2>1, PickedFrom, Zenon
  <2> QED BY <2>2, Zenon DEF PartOf
<1>5. ASSUME NEW j \in DOMAIN chosen PROVE \E i \in DOMAIN items : MadeOf(kind, items, models, j, i)
  <2>1. PICK i \in DOMAIN items : chosen[j] = items[i]
    BY <1>4
  <2>2. PICK item : item = items[i]
    OBVIOUS
  <2>3. PICK levels : levels = <<>>
    OBVIOUS
  <2>4. PICK default : models[j] = [model |-> item.name, levels |-> levels, default |-> default]
    BY <1>3, <2>1, <2>2, <2>3 DEF Anthropic!Capability
  <2>5. MadeOf(kind, items, models, j, i)
    BY <2>2, <2>3, <2>4, NoLevels, Zenon DEF MadeOf
  <2> QED BY <2>5
<1>6. DOMAIN models = DOMAIN chosen
  BY <1>3
<1> QED BY <1>1, <1>4, <1>5, <1>6, MadeTells, Zenon

(* Whatever a provider offers, however many models and however many levels *)
(* of each, the catalog its adapter makes of it names no model and no level *)
(* that was not offered: skipping nameless items and listing a level once  *)
(* adds nothing, and an adapter without levels gives none.                 *)
THEOREM CatalogsTrue == CatalogsTell(Shelves)
<1> SUFFICES ASSUME NEW kind \in Kinds, NEW items \in Shelves
             PROVE  Tells(CatalogVerdict(kind, CatalogReply(items)).outcome, kind, items)
  BY Zenon DEF CatalogsTell
<1>1. /\ items \in Seq(ToSet(items))
      /\ \A item \in ToSet(items) : item.levels \in Seq(ToSet(item.levels))
  BY AdmissionAssumption
<1>2. PICK reply : reply = CatalogReply(items)
  OBVIOUS
<1>3. CASE kind = "openai"
  <2>1. CatalogVerdict(kind, reply) = OpenAi!Catalog(reply)
    BY <1>3 DEF CatalogVerdict
  <2> QED BY <1>1, <1>2, <1>3, <2>1, OpenAiTells, Zenon
<1>4. CASE kind = "responses"
  <2>1. CatalogVerdict(kind, reply) = Responses!Catalog(reply)
    BY <1>4 DEF CatalogVerdict
  <2> QED BY <1>1, <1>2, <1>4, <2>1, ResponsesTells, Zenon
<1>5. CASE kind # "openai" /\ kind # "responses"
  <2>1. CatalogVerdict(kind, reply) = Anthropic!Catalog(reply)
    BY <1>5 DEF CatalogVerdict
  <2> QED BY <1>1, <1>2, <2>1, AnthropicTells, Zenon
<1> QED BY <1>3, <1>4, <1>5

LEMMA LeastIsIn ==
  ASSUME NEW T \in SUBSET Nat, T # {}
  PROVE  Min(T) \in T
<1>1. PICK x \in T : \A y \in T : ~(y < x)
  BY Least, Zenon
<1>2. ASSUME NEW y \in T PROVE x <= y
  BY <1>1
<1> QED BY <1>2, Zenon DEF Min

LEMMA SomeEntry ==
  ASSUME NEW models, DOMAIN models \subseteq Nat, NEW model, Places(models, model) # {}
  PROVE  \E i \in DOMAIN models : Find(models, model) = models[i] /\ models[i].model = model
<1>1. PICK T : T = Places(models, model)
  OBVIOUS
<1>2. T \in SUBSET Nat /\ T # {}
  BY <1>1 DEF Places
<1>3. PICK i : i = Min(T) /\ i \in T
  BY <1>2, LeastIsIn
<1>4. i \in DOMAIN models /\ models[i].model = model /\ Find(models, model) = models[i]
  BY <1>1, <1>3, Zenon DEF Places, Find
<1> QED BY <1>4

\* A choice from a catalog that tells the truth is one the provider advertised, and
\* what the request names is what it gets.
LEMMA ChoiceTold ==
  ASSUME NEW models, NEW kind, NEW items, Tells(models, kind, items), NEW default, NEW w,
         NEW p \in SelectModel(models, default, w)
  PROVE  /\ p.at = now /\ Advertises(kind, items, p.model, p.level)
         /\ w.model # None => p.model = w.model
         /\ w.level \notin {None, Sentinel} => p.level = w.level
<1>1. PICK model : model = ChosenModel(models, default, w.model)
  OBVIOUS
<1>2. /\ Places(models, model) # {}
      /\ p \in {[model |-> model, level |-> l, at |-> now] : l \in ChosenLevel(Find(models, model), w.level)}
  BY <1>1, Zenon DEF SelectModel
<1>3. PICK l \in ChosenLevel(Find(models, model), w.level) : p = [model |-> model, level |-> l, at |-> now]
  BY <1>2
<1>4. PICK i \in DOMAIN models : Find(models, model) = models[i] /\ models[i].model = model
  BY <1>2, SomeEntry DEF Tells
<1>5. PICK entry : entry = models[i] /\ l \in ChosenLevel(entry, w.level)
  BY <1>3, <1>4
<1>6. /\ l = None \/ l \in ToSet(entry.levels)
      /\ w.level \notin {None, Sentinel} => l = w.level
  BY <1>5 DEF ChosenLevel
<1>7. Advertises(kind, items, model, l)
  BY <1>4, <1>5, <1>6 DEF Tells
<1>8. w.model # None => model = w.model
  BY <1>1 DEF ChosenModel
<1>9. p.model = model /\ p.level = l /\ p.at = now
  BY <1>3
<1> QED BY <1>6, <1>7, <1>8, <1>9, Zenon

\* What a request goes on with, by what it asked, whom, and when.
Selected(r, w, tg, p) ==
  /\ p.at \in Nat /\ p.at <= now
  /\ \E t \in 0 .. p.at :
       /\ p.at - t <= OldestAge(r)
       /\ \E items \in offered[tg.url][t] : Advertises(tg.kind, items, p.model, p.level)
  /\ w.model # None => p.model = w.model
  /\ w.level \notin {None, Sentinel} => p.level = w.level

\* A catalog that was on offer at one of the times.
Dated(models, kind, url, from, to) ==
  \E t \in Nat : /\ from <= t /\ t <= to
                 /\ \E items \in offered[url][t] : Tells(models, kind, items)

\* A request knows its target; the wait for a catalog is within the timeout, and what
\* arrived was offered during the wait.
RequestOf(s, r, w, tg, b, models, p) ==
  /\ s \in {"settings", "resolved", "fetching", "answered", "done"} => tg.kind \in Kinds /\ tg.url \in Urls
  /\ s \in {"fetching", "answered"} => b <= now /\ now <= b + CatalogTimeout
  /\ s = "answered" => Dated(models, tg.kind, tg.url, b, now)
  /\ s = "done" => Selected(r, w, tg, p)

\* An entry of the cache was offered no longer before its date than a fetch may take.
EntryHolds(kind, url, e) ==
  e.there => /\ e.at \in Nat /\ e.at <= now
             /\ \E b \in Nat : e.at <= b + CatalogTimeout /\ Dated(e.models, kind, url, b, e.at)

Stages == {"idle", "admitted", "limited", "settings", "resolved", "fetching", "answered", "done", "refused"}

OffersKept ==
  /\ now \in 0 .. MaxTime
  /\ shelf \in [Urls -> Shelves]
  /\ offered \in [Urls -> [0 .. MaxTime -> SUBSET Shelves]]
  /\ \A u \in Urls : shelf[u] \in offered[u][now]

SelectionTypes ==
  /\ stage \in [Callers -> Stages] /\ route \in [Callers -> Routes] /\ began \in [Callers -> Nat]
  /\ target \in [Callers -> Rows]
  /\ want = [c \in Callers |-> want[c]] /\ catalog = [c \in Callers |-> catalog[c]]
  /\ picked = [c \in Callers |-> picked[c]]
  /\ cache = [k \in Kinds \X Urls |-> cache[k]]

RequestHolds(c) ==
  RequestOf(stage[c], route[c], want[c], target[c], began[c], catalog[c], picked[c])

CacheHolds == \A kind \in Kinds, u \in Urls : EntryHolds(kind, u, cache[<<kind, u>>])

SelectionInv ==
  /\ OffersKept /\ SelectionTypes /\ CacheHolds
  /\ \A c \in Callers : RequestHolds(c)

\* The clock goes on and what was offered stays written.
Later ==
  /\ now' \in Nat /\ now <= now'
  /\ \A u \in Urls, t \in Nat : t <= now => offered[u][t] \subseteq offered'[u][t]

LEMMA DatedLater ==
  ASSUME Later, now \in Nat, NEW models, NEW kind, NEW url \in Urls, NEW b, NEW to \in Nat, to <= now,
         Dated(models, kind, url, b, to)
  PROVE  Dated(models, kind, url, b, to)'
<1>1. PICK t \in Nat : /\ b <= t /\ t <= to
                      /\ \E items \in offered[url][t] : Tells(models, kind, items)
  BY Zenon DEF Dated
<1>2. PICK items \in offered[url][t] : Tells(models, kind, items)
  BY <1>1
<1>3. t <= now
  BY <1>1
<1>4. items \in offered'[url][t]
  BY <1>2, <1>3 DEF Later
<1> QED BY <1>1, <1>2, <1>4, Zenon DEF Dated

LEMMA SelectedLater ==
  ASSUME Later, now \in Nat, NEW r, NEW w, NEW tg, tg.url \in Urls, NEW p, Selected(r, w, tg, p)
  PROVE  Selected(r, w, tg, p)'
<1>0. PICK t \in 0 .. p.at :
        /\ p.at - t <= OldestAge(r)
        /\ \E items \in offered[tg.url][t] : Advertises(tg.kind, items, p.model, p.level)
  BY Zenon DEF Selected
<1>1. PICK items \in offered[tg.url][t] : Advertises(tg.kind, items, p.model, p.level)
  BY <1>0
<1>2. p.at \in Nat /\ p.at <= now /\ t \in Nat /\ t <= now
  BY <1>0 DEF Selected
<1>3. items \in offered'[tg.url][t] /\ p.at <= now'
  BY <1>0, <1>1, <1>2 DEF Later
<1> QED BY <1>0, <1>1, <1>2, <1>3, Zenon DEF Selected


\* A request that waits while the clock goes on no further than its timeout.
LEMMA RequestLater ==
  ASSUME Later, now \in Nat, NEW s, NEW r, NEW w, NEW tg, NEW b, NEW models, NEW p,
         RequestOf(s, r, w, tg, b, models, p), s = "done" => tg.url \in Urls,
         s \in {"fetching", "answered"} => b \in Nat /\ now' <= b + CatalogTimeout
  PROVE  RequestOf(s, r, w, tg, b, models, p)'
<1>1. s \in {"settings", "resolved", "fetching", "answered", "done"} => tg.kind \in Kinds /\ tg.url \in Urls
  BY DEF RequestOf
<1>2. s \in {"fetching", "answered"} => b <= now' /\ now' <= b + CatalogTimeout
  BY DEF RequestOf, Later
<1>3. ASSUME s = "answered" PROVE Dated(models, tg.kind, tg.url, b, now)'
  <2>1. Dated(models, tg.kind, tg.url, b, now) /\ tg.url \in Urls
    BY <1>3 DEF RequestOf
  <2>2. PICK t \in Nat : /\ b <= t /\ t <= now
                         /\ \E items \in offered[tg.url][t] : Tells(models, tg.kind, items)
    BY <2>1, Zenon DEF Dated
  <2>3. PICK items \in offered[tg.url][t] : Tells(models, tg.kind, items)
    BY <2>2
  <2>4. items \in offered'[tg.url][t] /\ t <= now'
    BY <2>1, <2>2, <2>3 DEF Later
  <2> QED BY <2>2, <2>3, <2>4, Zenon DEF Dated
<1>4. s = "done" => Selected(r, w, tg, p)'
  BY SelectedLater DEF RequestOf
<1> QED BY <1>1, <1>2, <1>3, <1>4, Zenon DEF RequestOf

LEMMA EntryLater ==
  ASSUME Later, now \in Nat, NEW kind, NEW url \in Urls, NEW e, EntryHolds(kind, url, e)
  PROVE  EntryHolds(kind, url, e)'
<1>1. SUFFICES ASSUME e.there PROVE EntryHolds(kind, url, e)'
  BY DEF EntryHolds
<1>2. e.at \in Nat /\ e.at <= now
  BY <1>1 DEF EntryHolds
<1>3. PICK b \in Nat : e.at <= b + CatalogTimeout /\ Dated(e.models, kind, url, b, e.at)
  BY <1>1, Zenon DEF EntryHolds
<1>4. Dated(e.models, kind, url, b, e.at)'
  BY <1>2, <1>3, DatedLater
<1>5. e.at <= now'
  BY <1>2 DEF Later
<1> QED BY <1>2, <1>3, <1>4, <1>5, Zenon DEF EntryHolds

\* The steps that leave the providers and the clock alone.
LEMMA StandStill ==
  ASSUME now \in Nat, UNCHANGED <<now, offered>>
  PROVE  Later
BY DEF Later

\* A step of one request, by what it makes of that request and of the cache.
LEMMA OneRequest ==
  ASSUME SelectionInv, SelectionTypes', CacheHolds', UNCHANGED <<now, shelf, offered>>,
         NEW c \in Callers, RequestHolds(c)',
         \A d \in Callers \ {c} :
           /\ stage'[d] = stage[d] /\ route'[d] = route[d] /\ want'[d] = want[d]
           /\ target'[d] = target[d] /\ began'[d] = began[d] /\ catalog'[d] = catalog[d]
           /\ picked'[d] = picked[d]
  PROVE  SelectionInv'
<1>1. OffersKept'
  BY DEF SelectionInv, OffersKept
<1>2. ASSUME NEW d \in Callers PROVE RequestHolds(d)'
  <2>1. CASE d = c
    BY <2>1
  <2>2. CASE d # c
    <3>1. RequestHolds(d)
      BY DEF SelectionInv
    <3>2. RequestOf(stage[d], route[d], want[d], target[d], began[d], catalog[d], picked[d])'
            = RequestOf(stage[d], route[d], want[d], target[d], began[d], catalog[d], picked[d])
      BY <2>2 DEF RequestOf, Dated, Selected
    <3> QED BY <3>1, <3>2 DEF RequestHolds
  <2> QED BY <2>1, <2>2
<1> QED BY <1>1, <1>2 DEF SelectionInv


\* What Pick makes of a catalog that was on offer not too long ago.
LEMMA PickHolds ==
  ASSUME NEW c \in Callers, NEW models, NEW b \in Nat, NEW to \in Nat, to <= now, now \in Nat,
         now <= b + OldestAge(route[c]), target[c].kind \in Kinds, target[c].url \in Urls,
         Dated(models, target[c].kind, target[c].url, b, to), Pick(c, models),
         SelectionTypes, UNCHANGED <<now, offered, route, want, target>>
  PROVE  /\ stage' \in [Callers -> Stages] /\ picked' = [d \in Callers |-> picked'[d]]
         /\ RequestHolds(c)'
         /\ \A d \in Callers \ {c} : stage'[d] = stage[d] /\ picked'[d] = picked[d]
<1>1. PICK choice : choice = SelectModel(models, target[c].model, want[c])
  OBVIOUS
<1>2. stage \in [Callers -> Stages] /\ picked = [d \in Callers |-> picked[d]]
  BY DEF SelectionTypes
<1>3. CASE choice = {}
  <2>1. stage' = [stage EXCEPT ![c] = "refused"] /\ picked' = picked
    BY <1>1, <1>3 DEF Pick
  <2>2. stage'[c] = "refused" /\ stage' \in [Callers -> Stages]
    BY <1>2, <2>1 DEF Stages
  <2>3. RequestHolds(c)'
    BY <2>2 DEF RequestHolds, RequestOf
  <2> QED BY <1>2, <2>1, <2>2, <2>3
<1>4. CASE choice # {}
  <2>1. PICK p \in choice : /\ stage' = [stage EXCEPT ![c] = "done"]
                            /\ picked' = [picked EXCEPT ![c] = p]
    BY <1>1, <1>4 DEF Pick
  <2>2. stage'[c] = "done" /\ picked'[c] = p /\ stage' \in [Callers -> Stages] /\ picked' = [d \in Callers |-> picked'[d]]
    BY <1>2, <2>1 DEF Stages
  <2>3. PICK t \in Nat : /\ b <= t /\ t <= to
                         /\ \E items \in offered[target[c].url][t] : Tells(models, target[c].kind, items)
    BY Zenon DEF Dated
  <2>4. PICK items \in offered[target[c].url][t] : Tells(models, target[c].kind, items)
    BY <2>3
  <2>5. /\ p.at = now /\ Advertises(target[c].kind, items, p.model, p.level)
        /\ want[c].model # None => p.model = want[c].model
        /\ want[c].level \notin {None, Sentinel} => p.level = want[c].level
    BY <1>1, <2>4, ChoiceTold
  <2>6. OldestAge(route[c]) \in Int
    BY AdmissionAssumption DEF OldestAge
  <2>7. t \in 0 .. now /\ now - t <= OldestAge(route[c])
    BY <2>3, <2>6
  <2>8. PICK r, w, tg, x, y : /\ r = route[c] /\ w = want[c] /\ tg = target[c]
                              /\ x = began'[c] /\ y = catalog'[c]
    OBVIOUS
  <2>9. Selected(r, w, tg, p)
    <3>1. p.at \in Nat /\ p.at <= now /\ t \in 0 .. p.at /\ p.at - t <= OldestAge(r)
      BY <2>5, <2>7, <2>8
    <3>2. items \in offered[tg.url][t] /\ Advertises(tg.kind, items, p.model, p.level)
      BY <2>4, <2>5, <2>8
    <3>3. /\ w.model # None => p.model = w.model
          /\ w.level \notin {None, Sentinel} => p.level = w.level
      BY <2>5, <2>8
    <3> QED BY <3>1, <3>2, <3>3, Zenon DEF Selected
  <2>10. RequestOf("done", r, w, tg, x, y, p)'
    <3>1. Selected(r, w, tg, p)'
      BY <2>9 DEF Selected
    <3> QED BY <2>8, <3>1 DEF RequestOf
  <2>11. RequestHolds(c)'
    <3>1. /\ stage'[c] = "done" /\ route'[c] = r /\ want'[c] = w /\ target'[c] = tg
          /\ began'[c] = x /\ catalog'[c] = y /\ picked'[c] = p
      BY <2>2, <2>8
    <3> QED BY <2>10, <3>1, Zenon DEF RequestHolds
  <2> QED BY <1>2, <2>1, <2>2, <2>11
<1> QED BY <1>3, <1>4


LEMMA CacheStands ==
  ASSUME SelectionInv, UNCHANGED <<now, offered, cache>>
  PROVE  CacheHolds'
<1>1. CacheHolds /\ now \in Nat /\ Later
  BY AdmissionAssumption, StandStill DEF SelectionInv, OffersKept
<1>2. ASSUME NEW kind \in Kinds, NEW u \in Urls PROVE EntryHolds(kind, u, cache[<<kind, u>>])'
  <2>1. PICK e : e = cache[<<kind, u>>] /\ cache'[<<kind, u>>] = e
    OBVIOUS
  <2>2. EntryHolds(kind, u, e)
    BY <1>1, <2>1 DEF CacheHolds
  <2>3. EntryHolds(kind, u, e)'
    BY <1>1, <2>2, EntryLater
  <2> QED BY <2>1, <2>3, Zenon DEF EntryHolds
<1> QED BY <1>2, Zenon DEF CacheHolds

LEMMA SelectionAsk ==
  ASSUME SelectionInv, NEW c \in Callers, Ask(c)
  PROVE  SelectionInv'
<1>1. PICK r \in Routes, w \in Wants, s \in {"admitted", "limited"} :
        /\ route' = [route EXCEPT ![c] = r] /\ want' = [want EXCEPT ![c] = w]
        /\ stage' = [stage EXCEPT ![c] = s]
  <2>1. PICK r \in Routes, w \in Wants :
          /\ route' = [route EXCEPT ![c] = r] /\ want' = [want EXCEPT ![c] = w]
          /\ \/ stage' = [stage EXCEPT ![c] = "admitted"]
             \/ stage' = [stage EXCEPT ![c] = "limited"]
    BY DEF Ask
  <2> QED BY <2>1
<1>2. UNCHANGED <<now, shelf, offered, target, began, catalog, picked, cache>>
  BY DEF Ask, providerVars
<1>3. SelectionTypes
  BY DEF SelectionInv
<1>4. SelectionTypes' /\ stage'[c] = s
  BY <1>1, <1>2, <1>3 DEF SelectionTypes, Stages
<1>5. RequestHolds(c)'
  BY <1>4 DEF RequestHolds, RequestOf
<1>6. CacheHolds'
  BY <1>2, CacheStands
<1>7. \A d \in Callers \ {c} :
        /\ stage'[d] = stage[d] /\ route'[d] = route[d] /\ want'[d] = want[d]
        /\ target'[d] = target[d] /\ began'[d] = began[d] /\ catalog'[d] = catalog[d]
        /\ picked'[d] = picked[d]
  BY <1>1, <1>2, <1>3 DEF SelectionTypes
<1> QED BY <1>2, <1>4, <1>5, <1>6, <1>7, OneRequest

\* A step that moves one request on, and writes at most its target and its wait.
LEMMA MovesOn ==
  ASSUME SelectionInv, NEW c \in Callers, NEW s \in Stages \ {"answered", "done"},
         stage' = [stage EXCEPT ![c] = s],
         NEW tg \in Rows, target' = [target EXCEPT ![c] = tg],
         NEW b \in Nat, began' = [began EXCEPT ![c] = b],
         s \in {"settings", "resolved", "fetching"} => tg.kind \in Kinds /\ tg.url \in Urls,
         s = "fetching" => b = now,
         NEW models, catalog' = [catalog EXCEPT ![c] = models],
         UNCHANGED <<now, shelf, offered, route, want, picked, cache>>
  PROVE  SelectionInv'
<1>1. SelectionTypes /\ now \in Nat
  BY AdmissionAssumption DEF SelectionInv, OffersKept
<1>2. SelectionTypes' /\ stage'[c] = s /\ target'[c] = tg /\ began'[c] = b
  BY <1>1 DEF SelectionTypes
<1>3. RequestHolds(c)'
  <2>1. s = "fetching" => b <= now /\ now <= b + CatalogTimeout
    BY <1>1, AdmissionAssumption
  <2> QED BY <1>2, <2>1 DEF RequestHolds, RequestOf
<1>4. CacheHolds'
  BY CacheStands
<1>5. \A d \in Callers \ {c} :
        /\ stage'[d] = stage[d] /\ route'[d] = route[d] /\ want'[d] = want[d]
        /\ target'[d] = target[d] /\ began'[d] = began[d] /\ catalog'[d] = catalog[d]
        /\ picked'[d] = picked[d]
  BY <1>1 DEF SelectionTypes
<1> QED BY <1>2, <1>3, <1>4, <1>5, OneRequest

LEMMA Stays ==
  ASSUME SelectionTypes, NEW c \in Callers
  PROVE  /\ target = [target EXCEPT ![c] = target[c]] /\ target[c] \in Rows
         /\ began = [began EXCEPT ![c] = began[c]] /\ began[c] \in Nat
         /\ catalog = [catalog EXCEPT ![c] = catalog[c]]
<1>1. catalog = [d \in Callers |-> catalog[d]] => catalog = [catalog EXCEPT ![c] = catalog[c]]
  OBVIOUS
<1> QED BY <1>1 DEF SelectionTypes

LEMMA SelectionTarget ==
  ASSUME SelectionInv, ScopeInv, NEW c \in Callers, GetSettings(c) \/ GetKey(c)
  PROVE  SelectionInv'
<1>0. SelectionTypes /\ RequestHolds(c)
  BY DEF SelectionInv
<1>1. /\ target = [target EXCEPT ![c] = target[c]] /\ target[c] \in Rows
      /\ began = [began EXCEPT ![c] = began[c]] /\ began[c] \in Nat
      /\ catalog = [catalog EXCEPT ![c] = catalog[c]]
  BY <1>0, Stays
<1>2. CASE GetSettings(c)
  <2>1. /\ UNCHANGED <<now, shelf, offered, route, want, began, catalog, picked, cache>>
        /\ \/ row.url # None /\ stage' = [stage EXCEPT ![c] = "settings"]
              /\ target' = [target EXCEPT ![c] = row]
           \/ stage' = [stage EXCEPT ![c] = "refused"] /\ target' = target
    BY <1>2 DEF GetSettings, Refuse, providerVars
  <2>2. row \in Rows /\ (row.url # None => row.kind \in Kinds /\ row.url \in Urls)
    BY DEF ScopeInv, ScopeTypeOK, Rows
  <2>4. CASE stage' = [stage EXCEPT ![c] = "refused"] /\ target' = target
    <3>1. PICK s \in Stages \ {"answered", "done"} :
            s = "refused" /\ s \notin {"settings", "resolved", "fetching"}
      BY DEF Stages
    <3> QED BY <1>1, <2>1, <2>4, <3>1, MovesOn
  <2>5. CASE /\ row.url # None /\ stage' = [stage EXCEPT ![c] = "settings"]
             /\ target' = [target EXCEPT ![c] = row]
    <3>1. PICK s \in Stages \ {"answered", "done"} : s = "settings" /\ s # "fetching"
      BY DEF Stages
    <3> QED BY <1>1, <2>1, <2>2, <2>5, <3>1, MovesOn
  <2> QED BY <2>1, <2>4, <2>5
<1>3. CASE GetKey(c)
  <2>1. PICK s \in {"refused", "resolved"} : stage' = [stage EXCEPT ![c] = s]
    BY <1>3 DEF GetKey, Refuse
  <2>2. UNCHANGED <<now, shelf, offered, route, want, target, began, catalog, picked, cache>>
    BY <1>3 DEF GetKey, providerVars
  <2>3. target[c].kind \in Kinds /\ target[c].url \in Urls
    BY <1>0, <1>3 DEF GetKey, RequestHolds, RequestOf
  <2>4. s \in Stages \ {"answered", "done"} /\ s # "fetching"
    BY DEF Stages
  <2> QED BY <1>1, <2>1, <2>2, <2>3, <2>4, MovesOn
<1> QED BY <1>2, <1>3

LEMMA SelectionFetch ==
  ASSUME SelectionInv, NEW c \in Callers, FetchCatalog(c) \/ FetchFails(c)
  PROVE  SelectionInv'
<1>0. SelectionTypes /\ RequestHolds(c) /\ now \in Nat
  BY AdmissionAssumption DEF SelectionInv, OffersKept
<1>1. /\ target = [target EXCEPT ![c] = target[c]] /\ target[c] \in Rows
      /\ began = [began EXCEPT ![c] = began[c]] /\ began[c] \in Nat
      /\ catalog = [catalog EXCEPT ![c] = catalog[c]]
  BY <1>0, Stays
<1>2. PICK s, x \in Stages \ {"answered", "done"} :
        s = "refused" /\ s \notin {"settings", "resolved", "fetching"} /\ x = "fetching"
  BY DEF Stages
<1>3. CASE FetchCatalog(c)
  <2>1. /\ UNCHANGED <<now, shelf, offered, route, want, target, catalog, picked, cache>>
        /\ \/ stage' = [stage EXCEPT ![c] = "fetching"] /\ began' = [began EXCEPT ![c] = now]
           \/ stage' = [stage EXCEPT ![c] = "refused"] /\ began' = began
    BY <1>3 DEF FetchCatalog, Refuse, providerVars
  <2>2. target[c].kind \in Kinds /\ target[c].url \in Urls
    BY <1>0, <1>3 DEF FetchCatalog, RequestHolds, RequestOf
  <2>3. CASE stage' = [stage EXCEPT ![c] = "fetching"] /\ began' = [began EXCEPT ![c] = now]
    BY <1>0, <1>1, <1>2, <2>1, <2>2, <2>3, MovesOn
  <2>4. CASE stage' = [stage EXCEPT ![c] = "refused"] /\ began' = began
    BY <1>1, <1>2, <2>1, <2>4, MovesOn
  <2> QED BY <2>1, <2>3, <2>4
<1>4. CASE FetchFails(c)
  <2>1. /\ UNCHANGED <<now, shelf, offered, route, want, target, picked, cache>>
        /\ stage' = [stage EXCEPT ![c] = "refused"] /\ began' = [began EXCEPT ![c] = 0]
        /\ catalog' = [catalog EXCEPT ![c] = <<>>]
    BY <1>4 DEF FetchFails, Refuse, Forget, providerVars
  <2> QED BY <1>1, <1>2, <2>1, MovesOn
<1> QED BY <1>3, <1>4

LEMMA SelectionUseCache ==
  ASSUME SelectionInv, NEW c \in Callers, UseCache(c)
  PROVE  SelectionInv'
<1>0. SelectionTypes /\ RequestHolds(c) /\ CacheHolds /\ now \in Nat
  BY AdmissionAssumption DEF SelectionInv, OffersKept
<1>1. /\ stage[c] = "resolved" /\ route[c] = "function" /\ Cached(c)
      /\ Pick(c, cache[EntryOf(target[c])].models)
      /\ UNCHANGED <<now, shelf, offered, route, want, target, began, catalog, cache>>
  BY DEF UseCache, providerVars
<1>2. target[c].kind \in Kinds /\ target[c].url \in Urls
  BY <1>0, <1>1 DEF RequestHolds, RequestOf
<1>3. PICK e : e = cache[<<target[c].kind, target[c].url>>]
  OBVIOUS
<1>4. e.there /\ CatalogTTL # 0 /\ now - e.at < CatalogTTL /\ Pick(c, e.models)
  BY <1>1, <1>3, Zenon DEF Cached, EntryOf
<1>5. EntryHolds(target[c].kind, target[c].url, e)
  BY <1>0, <1>2, <1>3 DEF CacheHolds
<1>6. e.at \in Nat /\ e.at <= now
  BY <1>4, <1>5 DEF EntryHolds
<1>7. PICK b \in Nat : e.at <= b + CatalogTimeout
                       /\ Dated(e.models, target[c].kind, target[c].url, b, e.at)
  BY <1>4, <1>5, Zenon DEF EntryHolds
<1>8. now <= b + OldestAge(route[c])
  BY <1>0, <1>1, <1>4, <1>6, <1>7, AdmissionAssumption DEF OldestAge
<1>9. /\ stage' \in [Callers -> Stages] /\ picked' = [d \in Callers |-> picked'[d]]
      /\ RequestHolds(c)'
      /\ \A d \in Callers \ {c} : stage'[d] = stage[d] /\ picked'[d] = picked[d]
  BY <1>0, <1>1, <1>2, <1>4, <1>6, <1>7, <1>8, PickHolds
<1>10. SelectionTypes'
  BY <1>0, <1>1, <1>9 DEF SelectionTypes
<1>11. CacheHolds'
  BY <1>1, CacheStands
<1>12. \A d \in Callers \ {c} :
        /\ stage'[d] = stage[d] /\ route'[d] = route[d] /\ want'[d] = want[d]
        /\ target'[d] = target[d] /\ began'[d] = began[d] /\ catalog'[d] = catalog[d]
        /\ picked'[d] = picked[d]
  BY <1>1, <1>9
<1> QED BY <1>1, <1>9, <1>10, <1>11, <1>12, OneRequest

\* The provider's answer is its catalog of this moment, as the adapter reads it.
LEMMA SelectionAnswered ==
  ASSUME SelectionInv, NEW c \in Callers, Answered(c)
  PROVE  SelectionInv'
<1>0. SelectionTypes /\ RequestHolds(c) /\ now \in Nat /\ OffersKept
  BY AdmissionAssumption DEF SelectionInv, OffersKept
<1>1. PICK models : models = CatalogVerdict(target[c].kind, CatalogReply(shelf[target[c].url])).outcome
  OBVIOUS
<1>2. /\ stage[c] = "fetching" /\ stage' = [stage EXCEPT ![c] = "answered"]
      /\ catalog' = [catalog EXCEPT ![c] = models]
      /\ UNCHANGED <<now, shelf, offered, route, want, target, began, picked, cache>>
  BY <1>1 DEF Answered, providerVars
<1>3. /\ target[c].kind \in Kinds /\ target[c].url \in Urls
      /\ began[c] <= now /\ now <= began[c] + CatalogTimeout
  BY <1>0, <1>2 DEF RequestHolds, RequestOf
<1>4. PICK items : items = shelf[target[c].url] /\ items \in Shelves /\ items \in offered[target[c].url][now]
  BY <1>0, <1>3 DEF OffersKept
<1>5. Tells(models, target[c].kind, items)
  BY <1>1, <1>3, <1>4, CatalogsTrue, Zenon DEF CatalogsTell
<1>6. PICK tg, b : tg = target[c] /\ b = began[c] /\ tg = target'[c] /\ b = began'[c] /\ b \in Nat
  BY <1>0, <1>2 DEF SelectionTypes
<1>7. Dated(models, tg.kind, tg.url, b, now)
  <2>1. b <= now /\ now <= now
    BY <1>0, <1>3, <1>6
  <2>2. items \in offered[tg.url][now] /\ Tells(models, tg.kind, items)
    BY <1>4, <1>5, <1>6
  <2> QED BY <1>0, <2>1, <2>2, Zenon DEF Dated
<1>8. Dated(models, tg.kind, tg.url, b, now)'
  BY <1>2, <1>7 DEF Dated
<1>9. SelectionTypes' /\ stage'[c] = "answered" /\ catalog'[c] = models
  BY <1>0, <1>2 DEF SelectionTypes, Stages
<1>10. RequestHolds(c)'
  BY <1>2, <1>3, <1>6, <1>8, <1>9 DEF RequestHolds, RequestOf
<1>11. CacheHolds'
  BY <1>2, CacheStands
<1>12. \A d \in Callers \ {c} :
        /\ stage'[d] = stage[d] /\ route'[d] = route[d] /\ want'[d] = want[d]
        /\ target'[d] = target[d] /\ began'[d] = began[d] /\ catalog'[d] = catalog[d]
        /\ picked'[d] = picked[d]
  BY <1>0, <1>2 DEF SelectionTypes
<1> QED BY <1>2, <1>9, <1>10, <1>11, <1>12, OneRequest

\* What arrived is dated now, which is within the timeout of when it was asked for.
LEMMA SelectionArrived ==
  ASSUME SelectionInv, NEW c \in Callers, Arrived(c)
  PROVE  SelectionInv'
<1>0. SelectionTypes /\ RequestHolds(c) /\ CacheHolds /\ now \in Nat
  BY AdmissionAssumption DEF SelectionInv, OffersKept
<1>1. PICK kind, url, b, models :
        kind = target[c].kind /\ url = target[c].url /\ b = began[c] /\ models = catalog[c]
  OBVIOUS
<1>2. /\ stage[c] = "answered" /\ Pick(c, models)
      /\ began' = [began EXCEPT ![c] = 0] /\ catalog' = [catalog EXCEPT ![c] = <<>>]
      /\ UNCHANGED <<now, shelf, offered, route, want, target>>
  BY <1>1 DEF Arrived, Forget, providerVars
<1>3. /\ kind \in Kinds /\ url \in Urls /\ b \in Nat /\ now <= b + CatalogTimeout
      /\ Dated(models, kind, url, b, now)
  BY <1>0, <1>1, <1>2 DEF RequestHolds, RequestOf, SelectionTypes
<1>4. now <= b + OldestAge(route[c])
  BY <1>0, <1>3, AdmissionAssumption DEF OldestAge
<1>5. /\ stage' \in [Callers -> Stages] /\ picked' = [d \in Callers |-> picked'[d]]
      /\ RequestHolds(c)'
      /\ \A d \in Callers \ {c} : stage'[d] = stage[d] /\ picked'[d] = picked[d]
  BY <1>0, <1>1, <1>2, <1>3, <1>4, PickHolds
<1>6. PICK e : e = [there |-> TRUE, at |-> now, models |-> models]
  OBVIOUS
<1>7. cache' = [cache EXCEPT ![<<kind, url>>] = e] \/ cache' = cache
  BY <1>1, <1>6 DEF Arrived, EntryOf
<1>8. SelectionTypes'
  <2>1. /\ route' \in [Callers -> Routes] /\ target' \in [Callers -> Rows]
        /\ want' = [d \in Callers |-> want'[d]] /\ began' \in [Callers -> Nat]
        /\ catalog' = [d \in Callers |-> catalog'[d]]
    BY <1>0, <1>2 DEF SelectionTypes
  <2>2. cache' = [k \in Kinds \X Urls |-> cache'[k]]
    BY <1>0, <1>7 DEF SelectionTypes
  <2> QED BY <1>5, <2>1, <2>2 DEF SelectionTypes
<1>9. EntryHolds(kind, url, e)
  <2>1. e.at = now /\ e.models = models
    BY <1>6
  <2>2. Dated(e.models, kind, url, b, e.at) /\ e.at <= b + CatalogTimeout /\ e.at <= now /\ e.at \in Nat
    BY <1>0, <1>3, <2>1
  <2> QED BY <1>3, <2>2, Zenon DEF EntryHolds
<1>10. CacheHolds'
  <2>1. ASSUME NEW k \in Kinds, NEW u \in Urls PROVE EntryHolds(k, u, cache[<<k, u>>])'
    <3>1. PICK f : f = cache'[<<k, u>>]
      OBVIOUS
    <3>2. EntryHolds(k, u, f)
      <4>1. CASE f = cache[<<k, u>>]
        BY <1>0, <4>1 DEF CacheHolds
      <4>2. CASE k = kind /\ u = url /\ f = e
        BY <1>9, <4>2
      <4>3. f = cache[<<k, u>>] \/ (k = kind /\ u = url /\ f = e)
        BY <1>0, <1>7, <3>1 DEF SelectionTypes
      <4> QED BY <4>1, <4>2, <4>3
    <3>3. EntryHolds(k, u, f)'
      BY <1>0, <1>2, <3>2, StandStill, EntryLater
    <3> QED BY <3>1, <3>3, Zenon DEF EntryHolds
  <2> QED BY <2>1, Zenon DEF CacheHolds
<1>11. \A d \in Callers \ {c} :
        /\ stage'[d] = stage[d] /\ route'[d] = route[d] /\ want'[d] = want[d]
        /\ target'[d] = target[d] /\ began'[d] = began[d] /\ catalog'[d] = catalog[d]
        /\ picked'[d] = picked[d]
  BY <1>0, <1>2, <1>5 DEF SelectionTypes
<1> QED BY <1>2, <1>5, <1>8, <1>10, <1>11, OneRequest

\* The process dies with its cache and with the requests that are under way.
LEMMA SelectionDie ==
  ASSUME SelectionInv, Die
  PROVE  SelectionInv'
<1>0. SelectionTypes /\ OffersKept
  BY DEF SelectionInv
<1>1. /\ stage' = [c \in Callers |-> IF stage[c] \in {"idle", "done"} THEN stage[c] ELSE "refused"]
      /\ cache' = [k \in Kinds \X Urls |-> NoEntry]
      /\ UNCHANGED <<now, shelf, offered, route, want, target, began, catalog, picked>>
  BY DEF Die, FreshProcess, providerVars
<1>2. OffersKept'
  BY <1>0, <1>1 DEF OffersKept
<1>3. SelectionTypes'
  <2>1. stage' \in [Callers -> Stages] /\ cache' = [k \in Kinds \X Urls |-> cache'[k]]
    BY <1>0, <1>1 DEF SelectionTypes, Stages
  <2> QED BY <1>0, <1>1, <2>1 DEF SelectionTypes
<1>4. CacheHolds'
  BY <1>1 DEF CacheHolds, EntryHolds, NoEntry
<1>5. ASSUME NEW c \in Callers PROVE RequestHolds(c)'
  <2>1. PICK r, w, tg, b, models, p :
          /\ r = route[c] /\ w = want[c] /\ tg = target[c] /\ b = began[c]
          /\ models = catalog[c] /\ p = picked[c]
    OBVIOUS
  <2>2. /\ r = route'[c] /\ w = want'[c] /\ tg = target'[c] /\ b = began'[c]
        /\ models = catalog'[c] /\ p = picked'[c]
    BY <1>1, <2>1
  <2>3. CASE stage[c] # "done"
    <3>1. stage'[c] \notin {"settings", "resolved", "fetching", "answered", "done"}
      BY <1>1, <2>3
    <3> QED BY <3>1 DEF RequestHolds, RequestOf
  <2>4. CASE stage[c] = "done"
    <3>1. Selected(r, w, tg, p) /\ tg.kind \in Kinds /\ tg.url \in Urls /\ stage'[c] = "done"
      BY <1>1, <2>1, <2>4 DEF SelectionInv, RequestHolds, RequestOf
    <3>2. Selected(r, w, tg, p)'
      BY <1>1, <3>1 DEF Selected
    <3>3. RequestOf("done", r, w, tg, b, models, p)'
      BY <3>1, <3>2 DEF RequestOf
    <3> QED BY <2>2, <3>1, <3>3, Zenon DEF RequestHolds
  <2> QED BY <2>3, <2>4
<1> QED BY <1>2, <1>3, <1>4, <1>5 DEF SelectionInv

\* The providers and the clock go on while the requests wait.
LEMMA WorldGoesOn ==
  ASSUME SelectionInv, Later, OffersKept', UNCHANGED <<callerVars, cache>>,
         \A c \in Callers :
           stage[c] \in {"fetching", "answered"} => now' <= began[c] + CatalogTimeout
  PROVE  SelectionInv'
<1>0. SelectionTypes /\ CacheHolds /\ now \in Nat
  BY AdmissionAssumption DEF SelectionInv, OffersKept
<1>1. UNCHANGED <<stage, route, want, target, began, catalog, picked, cache>>
  BY DEF callerVars
<1>2. SelectionTypes'
  BY <1>0, <1>1 DEF SelectionTypes
<1>3. CacheHolds'
  <2>1. ASSUME NEW kind \in Kinds, NEW u \in Urls PROVE EntryHolds(kind, u, cache[<<kind, u>>])'
    <3>1. PICK e : e = cache[<<kind, u>>] /\ cache'[<<kind, u>>] = e
      BY <1>1
    <3>2. EntryHolds(kind, u, e)
      BY <1>0, <3>1 DEF CacheHolds
    <3>3. EntryHolds(kind, u, e)'
      BY <1>0, <3>2, EntryLater
    <3> QED BY <3>1, <3>3, Zenon DEF EntryHolds
  <2> QED BY <2>1, Zenon DEF CacheHolds
<1>4. ASSUME NEW c \in Callers PROVE RequestHolds(c)'
  <2>1. PICK s, r, w, tg, b, models, p :
          /\ s = stage[c] /\ r = route[c] /\ w = want[c] /\ tg = target[c] /\ b = began[c]
          /\ models = catalog[c] /\ p = picked[c]
    OBVIOUS
  <2>2. /\ s = stage'[c] /\ r = route'[c] /\ w = want'[c] /\ tg = target'[c] /\ b = began'[c]
        /\ models = catalog'[c] /\ p = picked'[c]
    BY <1>1, <2>1
  <2>3. RequestOf(s, r, w, tg, b, models, p)
    BY <2>1 DEF SelectionInv, RequestHolds
  <2>4. s = "done" => tg.url \in Urls
    BY <2>3 DEF RequestOf
  <2>5. b \in Nat /\ (s \in {"fetching", "answered"} => now' <= b + CatalogTimeout)
    BY <1>0, <2>1 DEF SelectionTypes
  <2>6. RequestOf(s, r, w, tg, b, models, p)'
    BY <1>0, <2>3, <2>4, <2>5, RequestLater
  <2> QED BY <2>2, <2>6, Zenon DEF RequestHolds
<1> QED BY <1>2, <1>3, <1>4 DEF SelectionInv

LEMMA SelectionOffer ==
  ASSUME SelectionInv, NEW u \in Urls, Offer(u)
  PROVE  SelectionInv'
<1>1. now \in 0 .. MaxTime /\ now \in Nat /\ OffersKept /\ SelectionTypes
  BY AdmissionAssumption DEF SelectionInv, OffersKept
<1>2. PICK s \in Shelves : /\ shelf' = [shelf EXCEPT ![u] = s]
                           /\ offered' = [offered EXCEPT ![u][now] = @ \cup {s}]
  BY DEF Offer
<1>3. now' = now /\ UNCHANGED <<callerVars, cache>>
  BY DEF Offer
<1>4. OffersKept'
  BY <1>1, <1>2, <1>3 DEF OffersKept
<1>5. Later
  BY <1>1, <1>2, <1>3 DEF Later, OffersKept
<1>6. \A c \in Callers : stage[c] \in {"fetching", "answered"} => now' <= began[c] + CatalogTimeout
  BY <1>3 DEF SelectionInv, RequestHolds, RequestOf
<1> QED BY <1>3, <1>4, <1>5, <1>6, WorldGoesOn

LEMMA SelectionTick ==
  ASSUME SelectionInv, ScopeInv, Tick
  PROVE  SelectionInv'
<1>1. now \in 0 .. MaxTime /\ now \in Nat /\ OffersKept /\ SelectionTypes /\ MaxTime \in Nat
  BY AdmissionAssumption DEF SelectionInv, OffersKept
<1>2. world.clock \in 0 .. MaxTime
  BY AdmissionAssumption DEF ScopeInv, ScopeTypeOK
<1>3. /\ now' = now + 1 /\ now < world.clock
      /\ offered' = [u \in Urls |-> [offered[u] EXCEPT ![now + 1] = {shelf[u]}]]
      /\ UNCHANGED <<shelf, callerVars, cache>>
  BY DEF Tick
<1>4. now + 1 \in 0 .. MaxTime
  BY <1>1, <1>2, <1>3
<1>5. OffersKept'
  BY <1>1, <1>3, <1>4 DEF OffersKept
<1>6. Later
  BY <1>1, <1>3 DEF Later, OffersKept
<1>7. ASSUME NEW c \in Callers, stage[c] \in {"fetching", "answered"}
      PROVE  now' <= began[c] + CatalogTimeout
  <2>1. now < began[c] + CatalogTimeout /\ began[c] \in Nat
    BY <1>1, <1>7 DEF Tick, SelectionTypes
  <2> QED BY <1>1, <1>3, <2>1, AdmissionAssumption
<1> QED BY <1>3, <1>5, <1>6, <1>7, WorldGoesOn

LEMMA SelectionInit == Init => SelectionInv
<1> SUFFICES ASSUME Init PROVE SelectionInv
  OBVIOUS
<1>1. world \in Worlds /\ world.shelf \in [Urls -> Shelves]
  BY AdmissionAssumption DEF Init, ScopeInit
<1>2. OffersKept
  <2>1. now = 0 /\ shelf \in [Urls -> Shelves] /\ MaxTime \in Nat
    BY <1>1, AdmissionAssumption DEF Init
  <2>2. offered = [u \in Urls |-> [t \in 0 .. MaxTime |-> IF t = 0 THEN {shelf[u]} ELSE {}]]
    BY DEF Init
  <2> QED BY <2>1, <2>2 DEF OffersKept
<1>3. SelectionTypes
  BY DEF Init, SelectionTypes, Stages, Routes, NoRow, Rows, Kinds
<1>4. CacheHolds
  BY DEF Init, CacheHolds, EntryHolds, NoEntry
<1>5. \A c \in Callers : RequestHolds(c)
  BY DEF Init, RequestHolds, RequestOf
<1> QED BY <1>2, <1>3, <1>4, <1>5 DEF SelectionInv

LEMMA SelectionStep == SelectionInv /\ ScopeInv /\ [Next]_vars => SelectionInv'
<1> SUFFICES ASSUME SelectionInv, ScopeInv, [Next]_vars PROVE SelectionInv'
  OBVIOUS
<1>1. ASSUME NEW c \in Callers, Step(c) PROVE SelectionInv'
  BY <1>1, SelectionAsk, SelectionTarget, SelectionUseCache, SelectionFetch, SelectionAnswered,
     SelectionArrived DEF Step
<1>2. ASSUME NEW u \in Urls, Offer(u) PROVE SelectionInv'
  BY <1>2, SelectionOffer
<1>3. CASE Tick
  BY <1>3, SelectionTick
<1>4. CASE Settings \/ UNCHANGED vars
  <2>1. UNCHANGED <<now, shelf, offered, callerVars, cache>>
    BY <1>4 DEF Settings, vars, providerVars
  <2>2. Later /\ OffersKept'
    BY <2>1, AdmissionAssumption, StandStill DEF SelectionInv, OffersKept
  <2>3. \A c \in Callers : stage[c] \in {"fetching", "answered"} => now' <= began[c] + CatalogTimeout
    BY <2>1 DEF SelectionInv, RequestHolds, RequestOf
  <2> QED BY <2>1, <2>2, <2>3, WorldGoesOn
<1>5. CASE Die
  BY <1>5, SelectionDie
<1> QED BY <1>1, <1>2, <1>3, <1>4, <1>5 DEF Next

(* Every request that goes on has a model and a level that the provider it *)
(* goes to did advertise, for its kind, not longer ago than the cache and  *)
(* the timeout allow, and what the request names is what it gets: for any  *)
(* number of requests, changes of the settings and of the catalogs, crashes, *)
(* catalogs of any length and a clock of any length.                       *)
THEOREM SelectionsAdvertised == Spec => []SelectionAdvertised
<1>1. SelectionInv => SelectionAdvertised
  <2> SUFFICES ASSUME SelectionInv, NEW c \in Callers, stage[c] = "done"
               PROVE  /\ \E t \in 0 .. picked[c].at :
                           /\ picked[c].at - t <= OldestAge(route[c])
                           /\ \E items \in offered[target[c].url][t] :
                                Advertises(target[c].kind, items, picked[c].model, picked[c].level)
                      /\ want[c].model # None => picked[c].model = want[c].model
                      /\ want[c].level \notin {None, Sentinel} => picked[c].level = want[c].level
    BY DEF SelectionAdvertised
  <2>1. Selected(route[c], want[c], target[c], picked[c])
    BY DEF SelectionInv, RequestHolds, RequestOf
  <2> QED BY <2>1, Zenon DEF Selected
<1>2. SelectionInv /\ ScopeInv /\ [Next]_vars => SelectionInv'
  BY SelectionStep
<1> QED BY <1>1, <1>2, SelectionInit, ScopeInvInit, ScopeInvStep, PTL DEF Spec
===============================================================================
