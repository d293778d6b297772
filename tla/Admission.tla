------------------------------ MODULE Admission ------------------------------
(***************************************************************************)
(* How a turn or a function run is let in: the rate limiter, the provider  *)
(* target of its scope, the catalog of that provider (kept for a while by  *)
(* the function runner, fetched by every turn) and the choice of a model   *)
(* and a reasoning level, while ScopeSettings changes the target and the   *)
(* provider changes its catalog.                                           *)
(*                                                                         *)
(* All requests are of one subject.  Time is in ticks.                     *)
(***************************************************************************)
EXTENDS ScopeSettings, Sequences, SequencesExt

CONSTANTS
  Callers,        \* requests, each made once
  Wants,          \* what they ask for: [model, level]
  Shelves,        \* catalogs that a provider may offer: sequences of CatalogItem
  Capacity,       \* RateLimitConfig::max_requests
  Window,         \* RateLimitConfig::window
  CatalogTTL,     \* FunctionRunner::catalog_ttl
  CatalogTimeout, \* MODEL_CATALOG_TIMEOUT
  MaxTime         \* bound on the clock

OpenAi == INSTANCE OpenAiAdapter
Responses == INSTANCE ResponsesAdapter
Anthropic == INSTANCE AnthropicAdapter
Wire == INSTANCE ProviderWire

ASSUME AdmissionAssumption ==
  /\ Capacity \in Nat \ {0} /\ Window \in Nat \ {0}
  /\ CatalogTTL \in Nat /\ CatalogTimeout \in Nat /\ MaxTime \in Nat
  /\ \A s \in Shelves : s \in Seq(ToSet(s)) /\ \A item \in ToSet(s) : item.levels \in Seq(ToSet(item.levels))
  /\ \A w \in Worlds :
       /\ w.callers \subseteq Callers
       /\ w.clock \in 0 .. MaxTime
       /\ w.shelf \in [Urls -> Shelves]
       /\ w.changing \subseteq Urls

Routes == {"turn", "function"} \* the chat limiter and that of the functions

VARIABLES
  now,      \* the clock
  shelf,    \* [Urls -> what the provider there offers]
  offered,  \* history: [Urls -> [times -> what it offered then]]
  bucket,   \* [Routes -> tokens, in units of 1 / Window, and last_refill]
  admitted, \* history: [Routes -> the times of the admissions of this process]
  stage,    \* [Callers -> where the request is]
  route,    \* [Callers -> "turn" or "function"]
  want,     \* [Callers -> what it asks for]
  target,   \* [Callers -> the settings it read]
  began,    \* [Callers -> when it asked for the catalog]
  catalog,  \* [Callers -> the catalog it received]
  cache,    \* FunctionRunner::catalog_cache
  picked,   \* [Callers -> what it goes on with, and when]
  promise   \* history: [Callers -> the wait it was told when it was limited]

providerVars == <<shelf, offered>>
limiterVars == <<bucket, admitted, promise>>
callerVars == <<stage, route, want, target, began, catalog, picked>>
vars == <<scopeVars, now, providerVars, limiterVars, callerVars, cache>>

Full == [tokens |-> Capacity * Window, at |-> now]
NoEntry == [there |-> FALSE, at |-> 0, models |-> <<>>]
NoWant == [model |-> None, level |-> None]
NoPick == [model |-> None, level |-> None, at |-> 0]
NoPromise == [until |-> 0, after |-> 0]

FreshProcess ==
  /\ bucket' = [r \in Routes |-> Full]
  /\ admitted' = [r \in Routes |-> <<>>]
  /\ promise' = [c \in Callers |-> NoPromise]
  /\ cache' = [k \in Kinds \X Urls |-> NoEntry]

Init ==
  /\ ScopeInit
  /\ now = 0
  /\ shelf = world.shelf
  /\ offered = [u \in Urls |-> [t \in 0 .. MaxTime |-> IF t = 0 THEN {shelf[u]} ELSE {}]]
  /\ bucket = [r \in Routes |-> Full]
  /\ admitted = [r \in Routes |-> <<>>]
  /\ promise = [c \in Callers |-> NoPromise]
  /\ cache = [k \in Kinds \X Urls |-> NoEntry]
  /\ stage = [c \in Callers |-> "idle"]
  /\ route = [c \in Callers |-> "turn"]
  /\ want = [c \in Callers |-> NoWant]
  /\ target = [c \in Callers |-> NoRow]
  /\ began = [c \in Callers |-> 0]
  /\ catalog = [c \in Callers |-> <<>>]
  /\ picked = [c \in Callers |-> NoPick]

-----------------------------------------------------------------------------
(* InMemoryRateLimiter.                                                    *)

\* Mutant: what a full bucket cannot take is kept.
RefillBeyond(b) == [tokens |-> b.tokens + (now - b.at) * Capacity, at |-> now]

Refill(b) ==
  LET tokens == b.tokens + (now - b.at) * Capacity
  IN [tokens |-> IF tokens > Capacity * Window THEN Capacity * Window ELSE tokens, at |-> now]

\* The ticks until a token is there, rounded up.
RetryAfter(b) == (Window - b.tokens + Capacity - 1) \div Capacity

-----------------------------------------------------------------------------
(* select_model.                                                           *)

Sentinel == "default"

\* Where a catalog has a model, and its first entry.
Places(models, model) == {i \in DOMAIN models : models[i].model = model}
Find(models, model) == models[Min(Places(models, model))]

ChosenModel(models, default, wanted) ==
  IF wanted # None THEN wanted
  ELSE IF default # None /\ Places(models, default) # {} THEN default
  ELSE IF models # <<>> THEN Head(models).model ELSE None

\* The levels a request may go on with: at most one.
ChosenLevel(capability, level) ==
  CASE level = None ->
         {IF /\ capability.default \in ToSet(capability.levels)
             /\ capability.default \notin {Wire!NoLevel, Sentinel}
            THEN capability.default ELSE None}
    [] level = Sentinel -> {None}
    [] OTHER -> {level} \cap ToSet(capability.levels)

SelectModel(models, default, w) ==
  LET model == ChosenModel(models, default, w.model)
  IN IF Places(models, model) = {} THEN {}
     ELSE {[model |-> model, level |-> l, at |-> now] :
             l \in ChosenLevel(Find(models, model), w.level)}

\* The request goes on with its choice, or is refused.
Pick(c, models) ==
  LET choice == SelectModel(models, target[c].model, want[c]) IN
  IF choice = {}
    THEN /\ stage' = [stage EXCEPT ![c] = "refused"] /\ UNCHANGED picked
    ELSE /\ stage' = [stage EXCEPT ![c] = "done"]
         /\ picked' = [picked EXCEPT ![c] = CHOOSE p \in choice : TRUE]

-----------------------------------------------------------------------------
(* The requests.                                                           *)

Ask(c) ==
  /\ Serving /\ c \in world.callers /\ stage[c] = "idle"
  /\ \E r \in Routes, w \in Wants :
       LET b == Refill(bucket[r]) IN
       /\ route' = [route EXCEPT ![c] = r]
       /\ want' = [want EXCEPT ![c] = w]
       /\ IF b.tokens >= Window
            THEN /\ bucket' = [bucket EXCEPT ![r] = [b EXCEPT !.tokens = @ - Window]]
                 /\ admitted' = [admitted EXCEPT ![r] = Append(@, now)]
                 /\ stage' = [stage EXCEPT ![c] = "admitted"]
                 /\ UNCHANGED promise
            ELSE /\ bucket' = [bucket EXCEPT ![r] = b]
                 /\ promise' = [promise EXCEPT ![c] = [until |-> now + RetryAfter(b),
                                                       after |-> Len(admitted[r])]]
                 /\ stage' = [stage EXCEPT ![c] = "limited"]
                 /\ UNCHANGED admitted
  /\ UNCHANGED <<scopeVars, now, providerVars, target, began, catalog, picked, cache>>

Refuse(c) == stage' = [stage EXCEPT ![c] = "refused"]

GetSettings(c) ==
  /\ stage[c] = "admitted"
  /\ IF row.url # None
       THEN /\ stage' = [stage EXCEPT ![c] = "settings"]
            /\ target' = [target EXCEPT ![c] = row]
       ELSE Refuse(c) /\ UNCHANGED target
  /\ UNCHANGED <<scopeVars, now, providerVars, limiterVars, route, want, began, catalog, picked, cache>>

\* A turn goes on with an empty key, a function run does not.
GetKey(c) ==
  /\ stage[c] = "settings"
  /\ IF StoredKey = None \/ (StoredKey = Blank /\ route[c] = "function")
       THEN Refuse(c)
       ELSE stage' = [stage EXCEPT ![c] = "resolved"]
  /\ UNCHANGED <<scopeVars, now, providerVars, limiterVars, route, want, target, began, catalog,
                 picked, cache>>

EntryOf(t) == <<t.kind, t.url>>

\* Mutant: an entry never ages.
ThereIsEntry(c) == cache[EntryOf(target[c])].there

Cached(c) ==
  LET entry == cache[EntryOf(target[c])]
  IN CatalogTTL # 0 /\ entry.there /\ now - entry.at < CatalogTTL

UseCache(c) ==
  /\ stage[c] = "resolved" /\ route[c] = "function" /\ Cached(c)
  /\ Pick(c, cache[EntryOf(target[c])].models)
  /\ UNCHANGED <<scopeVars, now, providerVars, limiterVars, route, want, target, began, catalog, cache>>

\* The adapter validates the base URL once more.
FetchCatalog(c) ==
  /\ stage[c] = "resolved"
  /\ route[c] = "function" => ~Cached(c)
  /\ IF ValidBaseUrl(target[c].url)
       THEN /\ stage' = [stage EXCEPT ![c] = "fetching"]
            /\ began' = [began EXCEPT ![c] = now]
       ELSE Refuse(c) /\ UNCHANGED began
  /\ UNCHANGED <<scopeVars, now, providerVars, limiterVars, route, want, target, catalog, picked, cache>>

CatalogVerdict(kind, reply) ==
  CASE kind = "openai" -> OpenAi!Catalog(reply)
    [] kind = "responses" -> Responses!Catalog(reply)
    [] OTHER -> Anthropic!Catalog(reply)

\* The provider writes its answer, which has yet to arrive.
CatalogReply(items) == [status |-> 200, hint |-> 0, body |-> "items", items |-> items]

Answered(c) ==
  /\ stage[c] = "fetching"
  /\ catalog' = [catalog EXCEPT
       ![c] = CatalogVerdict(target[c].kind, CatalogReply(shelf[target[c].url])).outcome]
  /\ stage' = [stage EXCEPT ![c] = "answered"]
  /\ UNCHANGED <<scopeVars, now, providerVars, limiterVars, route, want, target, began, picked, cache>>

\* The locals of a fetch end with it.
Forget(c) ==
  /\ began' = [began EXCEPT ![c] = 0]
  /\ catalog' = [catalog EXCEPT ![c] = <<>>]

\* The entry is dated when it is stored.
Arrived(c) ==
  /\ stage[c] = "answered"
  /\ cache' = IF route[c] = "function" /\ CatalogTTL # 0
                THEN [cache EXCEPT ![EntryOf(target[c])] =
                        [there |-> TRUE, at |-> now, models |-> catalog[c]]]
                ELSE cache
  /\ Pick(c, catalog[c])
  /\ Forget(c)
  /\ UNCHANGED <<scopeVars, now, providerVars, limiterVars, route, want, target>>

\* A fault, a refusal, a body that is no catalog, or the timeout: nothing is cached.
FetchFails(c) ==
  /\ stage[c] \in {"fetching", "answered"}
  /\ Refuse(c)
  /\ Forget(c)
  /\ UNCHANGED <<scopeVars, now, providerVars, limiterVars, route, want, target, picked, cache>>

Step(c) ==
  \/ Ask(c) \/ GetSettings(c) \/ GetKey(c) \/ UseCache(c) \/ FetchCatalog(c)
  \/ Answered(c) \/ Arrived(c) \/ FetchFails(c)

-----------------------------------------------------------------------------
(* The rest of the world.                                                  *)

\* Bound: each provider changes its catalog once.
Offer(u) ==
  /\ u \in world.changing /\ shelf[u] = world.shelf[u]
  /\ \E s \in Shelves \ {shelf[u]} :
       /\ shelf' = [shelf EXCEPT ![u] = s]
       /\ offered' = [offered EXCEPT ![u][now] = @ \cup {s}]
  /\ UNCHANGED <<scopeVars, now, limiterVars, callerVars, cache>>

\* A fetch that is due has timed out before the clock moves on.
Tick ==
  /\ now < world.clock
  /\ \A c \in Callers : stage[c] \in {"fetching", "answered"} => now < began[c] + CatalogTimeout
  /\ now' = now + 1
  /\ offered' = [u \in Urls |-> [offered[u] EXCEPT ![now + 1] = {shelf[u]}]]
  /\ UNCHANGED <<scopeVars, shelf, limiterVars, callerVars, cache>>

Settings ==
  /\ \/ \E a \in Admins : PutScopeSettings(a)
     \/ Start \/ Seed
  /\ UNCHANGED <<now, providerVars, limiterVars, callerVars, cache>>

\* The limiter and the cache are lost with the process, and the requests in it.
Die ==
  /\ Crash
  /\ FreshProcess
  /\ stage' = [c \in Callers |-> IF stage[c] \in {"idle", "done"} THEN stage[c] ELSE "refused"]
  /\ UNCHANGED <<now, providerVars, route, want, target, began, catalog, picked>>

Next ==
  \/ \E c \in Callers : Step(c)
  \/ \E u \in Urls : Offer(u)
  \/ Tick \/ Settings \/ Die

Spec == Init /\ [][Next]_vars

-----------------------------------------------------------------------------
(* Properties.                                                             *)

\* What a catalog says, read without the adapters.
Advertises(kind, items, model, level) ==
  \E i \in DOMAIN items :
    /\ items[i].name = model
    /\ level # None =>
         kind # "anthropic" /\ items[i].reasons # "no" /\ level \in ToSet(items[i].levels)

\* How old the catalog of a choice can be: the wait for it, and for a function
\* run its time in the cache.
OldestAge(r) ==
  CatalogTimeout + (IF r = "function" /\ CatalogTTL # 0 THEN CatalogTTL - 1 ELSE 0)

(* Every request that goes on has a model and a level that the provider it *)
(* goes to did advertise, for its kind, not longer ago than the cache and  *)
(* the timeout allow; what the request names is what it gets.              *)
SelectionAdvertised ==
  \A c \in Callers : stage[c] = "done" =>
    LET p == picked[c] IN
    /\ \E t \in 0 .. p.at :
         /\ p.at - t <= OldestAge(route[c])
         /\ \E items \in offered[target[c].url][t] : Advertises(target[c].kind, items, p.model, p.level)
    /\ want[c].model # None => p.model = want[c].model
    /\ want[c].level \notin {None, Sentinel} => p.level = want[c].level

\* A catalog names nothing but what the provider advertises.
Tells(models, kind, items) ==
  /\ DOMAIN models \subseteq Nat
  /\ \A i \in DOMAIN models :
       /\ Advertises(kind, items, models[i].model, None)
       /\ \A l \in ToSet(models[i].levels) : Advertises(kind, items, models[i].model, l)

\* So do the catalogs that the adapters make of what the providers offer.
CatalogsTell(shelves) ==
  \A kind \in Kinds, items \in shelves :
    Tells(CatalogVerdict(kind, CatalogReply(items)).outcome, kind, items)

(* Between any two admissions the limiter lets in no more than a full      *)
(* bucket and what flowed in since the first of them; and a request that   *)
(* was told to wait so many ticks finds a token then if nobody took it.    *)
LimiterKeepsItsWord ==
  \A r \in Routes :
    /\ \A i, j \in DOMAIN admitted[r] : i <= j =>
         (j - i + 1) * Window <= Capacity * Window + (admitted[r][j] - admitted[r][i]) * Capacity
    /\ \A c \in Callers :
         (stage[c] = "limited" /\ route[c] = r /\ promise[c].after = Len(admitted[r])
            /\ now >= promise[c].until) =>
           Refill(bucket[r]).tokens >= Window
=============================================================================
