---------------------------- MODULE ScopeSettings ----------------------------
(***************************************************************************)
(* The provider settings of a scope: the row, the API key that the secret  *)
(* store keeps in a file or reads from the environment, the requests that  *)
(* change both, and the seed that every start of the process applies.      *)
(*                                                                         *)
(* The memory store updates the row under its mutex and loses it with the  *)
(* process; the SQL stores read it and write it back in two statements.    *)
(***************************************************************************)
EXTENDS Integers, FiniteSets

CONSTANTS
  Admins,  \* administrators, each with one request at a time
  Updates, \* the requests, see UpdateRequests
  Urls,    \* base URLs
  BadUrls, \* those that validate_base_url refuses
  Keys,    \* API keys
  Worlds,  \* deployments, see WorldsAssumption
  None,    \* no value; in a request, a field that is not named
  Blank    \* the empty string

Kinds == {"openai", "responses", "anthropic"}
Models == {"m1", "m2"}

\* A field is kept, cleared or given a value; the key likewise.
UpdateRequests ==
  [kind : Kinds \cup {None}, url : Urls \cup {None, Blank}, model : Models \cup {None, Blank},
   key : Keys \cup {None, Blank}]

Seeds == [kind : Kinds, url : Urls, model : Models \cup {None}, key : Keys \cup {None}]

ASSUME WorldsAssumption ==
  /\ Updates \subseteq UpdateRequests
  /\ BadUrls \subseteq Urls
  /\ \A w \in Worlds :
       /\ w.store \in {"memory", "sql"}
       /\ w.admins \subseteq Admins
       /\ w.seed \in Seeds \cup {None}
       /\ w.crashes \in Nat
       /\ w.env \in Keys \cup {None}
       /\ w.directory \in BOOLEAN
       /\ w.leavers \subseteq Admins

\* The absence of a value and the empty string are no values.
ASSUME ValuesAssumption ==
  /\ None # Blank
  /\ {None, Blank} \cap (Kinds \cup Urls \cup Models \cup Keys \cup {"present", "absent"}) = {}

VARIABLES
  world,   \* the deployment, fixed
  row,     \* the row of clypeus_settings
  file,    \* the key file: None, Blank while it is being written, or a key
  phase,   \* of the process: "down", "seeding", "opening", "writing" or "serving"
  crashes, \* how often it died
  at,      \* [Admins -> where the request is]
  asks,    \* [Admins -> its request]
  read,    \* [Admins -> the row it read]
  adrift,  \* [Admins -> the file operation that a dropped request left running]
  named,   \* history: the value that the last write of a field which named it gave
  alone,   \* history: requests about the key that no other one disturbed
  settled, \* history: the last request about the key was one of them and came to its end
  orphaned \* history: the file holds what a failed delete left there, or a row that died

settingsVars == <<row, file>>
processVars == <<phase, crashes>>
requestVars == <<at, asks, read>>
historyVars == <<named, alone, settled, orphaned>>
scopeVars == <<world, settingsVars, processVars, requestVars, adrift, historyVars>>

NoRow == [exists |-> FALSE, kind |-> "openai", url |-> None, model |-> None, flag |-> FALSE]
NoUpdate == [kind |-> None, url |-> None, model |-> None, key |-> None]
NoOperation == [stage |-> "none", key |-> None]

ScopeInit ==
  /\ world \in Worlds
  /\ row = NoRow /\ file = None
  /\ phase = "down" /\ crashes = 0
  /\ at = [a \in Admins |-> "idle"]
  /\ asks = [a \in Admins |-> NoUpdate]
  /\ read = [a \in Admins |-> NoRow]
  /\ adrift = [a \in Admins |-> NoOperation]
  /\ named = NoRow /\ alone = {} /\ settled = TRUE /\ orphaned = FALSE

Serving == phase = "serving"

-----------------------------------------------------------------------------
(* The settings store.                                                     *)

Given(value, old) == IF value = None THEN old ELSE IF value = Blank THEN None ELSE value

\* Mutant: a field that the update does not name falls back to its default.
MergeDefaults(old, update, flag) ==
  [exists |-> TRUE,
   kind |-> Given(update.kind, "openai"),
   url |-> Given(update.url, old.url),
   model |-> Given(update.model, old.model),
   flag |-> IF flag = None THEN old.flag ELSE flag = "present"]

\* "flag" is api_key_present: None, "present" or "absent".
Merge(old, update, flag) ==
  [exists |-> TRUE,
   kind |-> Given(update.kind, old.kind),
   url |-> Given(update.url, old.url),
   model |-> Given(update.model, old.model),
   flag |-> IF flag = None THEN old.flag ELSE flag = "present"]

\* The row and its history after an update is merged into what was read.
Upsert(old, update, flag) ==
  /\ row' = Merge(old, update, flag)
  /\ named' = [named EXCEPT
       !.exists = TRUE,
       !.kind = Given(update.kind, @), !.url = Given(update.url, @), !.model = Given(update.model, @),
       !.flag = IF flag = None THEN @ ELSE flag = "present"]

-----------------------------------------------------------------------------
(* put_scope_settings.                                                     *)

ValidBaseUrl(url) == url \notin BadUrls

AboutKey(a) == asks[a].key # None
Busy == {a \in Admins : at[a] # "idle"}
KeyRequests == {a \in Busy : AboutKey(a)}
Adrift == {a \in Admins : adrift[a] # NoOperation}

Submit(a) ==
  /\ Serving /\ a \in world.admins /\ at[a] = "idle"
  /\ \E u \in Updates :
       /\ ValidBaseUrl(u.url)
       /\ asks' = [asks EXCEPT ![a] = u]
       /\ at' = [at EXCEPT ![a] = IF u.key = None THEN "row"
                                  ELSE IF u.key = Blank THEN "deleting" ELSE "opening"]
       /\ alone' = IF u.key = None THEN alone
                   ELSE IF KeyRequests \cup Adrift = {} THEN {a} ELSE {}
  /\ UNCHANGED <<world, settingsVars, processVars, read, adrift, named, settled, orphaned>>

\* The request ends, in form or not.
End(a) ==
  /\ at' = [at EXCEPT ![a] = "idle"]
  /\ asks' = [asks EXCEPT ![a] = NoUpdate]
  /\ read' = [read EXCEPT ![a] = NoRow]

\* SecretStore::put refuses without a directory, and before anything is written.
PutFails(a) ==
  /\ at[a] = "opening"
  /\ End(a)
  /\ UNCHANGED <<world, settingsVars, processVars, adrift, historyVars>>

\* fs::write truncates the file, then writes it.
OpenKeyFile(a) ==
  /\ at[a] = "opening" /\ world.directory
  /\ file' = Blank
  /\ at' = [at EXCEPT ![a] = "writing"]
  /\ UNCHANGED <<world, row, processVars, asks, read, adrift, historyVars>>

\* All keys have one length, so that the last of two writers wins.
WriteKeyFile(a) ==
  /\ at[a] = "writing"
  /\ file' = asks[a].key
  /\ orphaned' = FALSE
  /\ at' = [at EXCEPT ![a] = "row"]
  /\ UNCHANGED <<world, row, processVars, asks, read, adrift, named, alone, settled>>

\* An error of the delete is ignored: the flag is cleared all the same.
DeleteKeyFile(a) ==
  /\ at[a] = "deleting"
  /\ \/ world.directory /\ file' = None /\ orphaned' = FALSE
     \/ file' = file /\ orphaned' = (file # None)
  /\ at' = [at EXCEPT ![a] = "row"]
  /\ UNCHANGED <<world, row, processVars, asks, read, adrift, named, alone, settled>>

\* Mutant: clearing the key leaves the flag as it is.
FlagOfPut(a) == IF asks[a].key \in {None, Blank} THEN None ELSE "present"

Flag(a) ==
  IF asks[a].key = None THEN None ELSE IF asks[a].key = Blank THEN "absent" ELSE "present"

Acknowledge(a) ==
  /\ End(a)
  /\ settled' = IF AboutKey(a) THEN a \in alone ELSE settled

ReadRow(a) ==
  /\ at[a] = "row" /\ world.store = "sql"
  /\ read' = [read EXCEPT ![a] = row]
  /\ at' = [at EXCEPT ![a] = "merging"]
  /\ UNCHANGED <<world, settingsVars, processVars, asks, adrift, historyVars>>

WriteRow(a) ==
  /\ at[a] = "merging"
  /\ Upsert(read[a], asks[a], Flag(a))
  /\ Acknowledge(a)
  /\ UNCHANGED <<world, file, processVars, adrift, alone, orphaned>>

UpsertUnderMutex(a) ==
  /\ at[a] = "row" /\ world.store = "memory"
  /\ Upsert(row, asks[a], Flag(a))
  /\ Acknowledge(a)
  /\ UNCHANGED <<world, file, processVars, adrift, alone, orphaned>>

\* A step fails, or the client goes away while the handler awaits it.  What was
\* handed to a blocking thread of the file system goes on without the handler.
\* Bound: one operation adrift per administrator, of those that leave.
Abandon(a) ==
  /\ at[a] # "idle"
  /\ \/ UNCHANGED adrift
     \/ /\ a \in world.leavers /\ a \notin Adrift
        /\ world.directory /\ at[a] \in {"opening", "writing", "deleting"}
        /\ adrift' = [adrift EXCEPT ![a] = [stage |-> at[a], key |-> asks[a].key]]
  /\ End(a)
  /\ settled' = IF AboutKey(a) THEN FALSE ELSE settled
  /\ UNCHANGED <<world, settingsVars, processVars, named, alone, orphaned>>

\* An operation that nobody waits for opens the file, ends, or fails.
DriftOn(a) ==
  /\ a \in Adrift
  /\ \/ /\ adrift[a].stage = "opening"
        /\ file' = Blank
        /\ adrift' = [adrift EXCEPT ![a].stage = "writing"]
        /\ UNCHANGED orphaned
     \/ /\ adrift[a].stage # "opening"
        /\ file' = IF adrift[a].stage = "writing" THEN adrift[a].key ELSE None
        /\ adrift' = [adrift EXCEPT ![a] = NoOperation]
        /\ orphaned' = FALSE
     \/ /\ adrift' = [adrift EXCEPT ![a] = NoOperation]
        /\ UNCHANGED <<file, orphaned>>
  /\ UNCHANGED <<world, row, processVars, requestVars, named, alone, settled>>

PutScopeSettings(a) ==
  \/ Submit(a) \/ PutFails(a) \/ OpenKeyFile(a) \/ WriteKeyFile(a)
  \/ DeleteKeyFile(a) \/ ReadRow(a) \/ WriteRow(a) \/ UpsertUnderMutex(a) \/ Abandon(a)
  \/ DriftOn(a)

-----------------------------------------------------------------------------
(* Starts and crashes.                                                     *)

Start ==
  /\ phase = "down"
  /\ phase' = IF world.seed = None THEN "serving" ELSE "seeding"
  /\ UNCHANGED <<world, settingsVars, crashes, requestVars, adrift, historyVars>>

\* The row first, then the key.  Nothing else runs yet, so that reading and
\* writing the row are one step.
SeedRow ==
  /\ phase = "seeding"
  /\ Upsert(row, world.seed, IF world.seed.key = None THEN None ELSE "present")
  /\ phase' = IF world.seed.key = None THEN "serving" ELSE "opening"
  /\ UNCHANGED <<world, file, crashes, requestVars, adrift, alone, settled, orphaned>>

SeedOpensKeyFile ==
  /\ phase = "opening" /\ world.directory
  /\ file' = Blank
  /\ phase' = "writing"
  /\ UNCHANGED <<world, row, crashes, requestVars, adrift, historyVars>>

SeedKey ==
  /\ phase = "writing"
  /\ file' = world.seed.key
  /\ phase' = "serving"
  /\ settled' = TRUE /\ orphaned' = FALSE
  /\ UNCHANGED <<world, row, crashes, requestVars, adrift, named, alone>>

Seed == SeedRow \/ SeedOpensKeyFile \/ SeedKey

\* A start that fails in its seed ends the process too.
Crash ==
  /\ phase # "down" /\ crashes < world.crashes
  /\ phase' = "down" /\ crashes' = crashes + 1
  /\ row' = IF world.store = "memory" THEN NoRow ELSE row
  /\ named' = IF world.store = "memory" THEN NoRow ELSE named
  /\ at' = [a \in Admins |-> "idle"]
  /\ asks' = [a \in Admins |-> NoUpdate]
  /\ read' = [a \in Admins |-> NoRow]
  /\ adrift' = [a \in Admins |-> NoOperation]
  /\ settled' = (settled /\ KeyRequests = {})
  /\ orphaned' = IF world.store = "memory" THEN file # None ELSE orphaned
  /\ UNCHANGED <<world, file, alone>>

-----------------------------------------------------------------------------
(* What a reader of the settings gets.                                     *)

\* The environment wins over the file.
StoredKey == IF world.env # None THEN world.env ELSE file

-----------------------------------------------------------------------------
(* Properties.                                                             *)

Rows == [exists : BOOLEAN, kind : Kinds, url : Urls \cup {None}, model : Models \cup {None},
         flag : BOOLEAN]

ScopeTypeOK ==
  /\ world \in Worlds
  /\ row \in Rows /\ named \in Rows
  /\ file \in Keys \cup {None, Blank}
  /\ phase \in {"down", "seeding", "opening", "writing", "serving"}
  /\ crashes \in 0 .. world.crashes
  /\ at \in [Admins -> {"idle", "opening", "writing", "deleting", "row", "merging"}]
  /\ asks \in [Admins -> UpdateRequests]
  /\ read \in [Admins -> Rows]
  /\ adrift \in [Admins -> [stage : {"none", "opening", "writing", "deleting"},
                            key : Keys \cup {None, Blank}]]
  /\ alone \subseteq Admins /\ settled \in BOOLEAN /\ orphaned \in BOOLEAN

(* Partial update: every field of the row has the value that the last      *)
(* write which named it gave, whichever requests were merged in between.   *)
UnnamedFieldsKept == row = named

(* Once the last request about the key came to its end with no other one   *)
(* beside it, neither running nor adrift, the flag that administrators see *)
(* tells the truth about the key file, whatever failed, died or was seeded *)
(* before and since.  A key that the row does not tell of is one that a    *)
(* delete failed to remove, which put_scope_settings ignores, or one that  *)
(* outlived the row of a memory store.                                     *)
KeyFlagTruthful ==
  (Serving /\ settled /\ KeyRequests = {}) =>
    /\ row.flag => file \in Keys
    /\ ~row.flag => file = None \/ orphaned
=============================================================================
