# Clypeus in TLA+

Clypeus is a server and library that puts a chat model between a user and the
user's business tools: it keeps conversations, calls model providers, offers
tools to the model, lets a person approve the calls that change something, and
runs structured "functions". This directory models the parts of it whose
correctness depends on the order in which concurrent things happen, checks them
with TLC and proves the most important properties with TLAPS. Paths below are
relative to `src/crates/`.

## 1. Inventory

### Tool-call table (`ApprovalStore`)
*State.* One row per tool call in `clypeus_tool_calls`: a status
(`awaiting_approval`, `approved`, `denied`, `running`, `succeeded`, `failed`,
`expired`), the id of the approval that was bound to it, its expiry.
*Operations.* `record_tool_call` (insert or ignore), `mark_tool_call_approved`
and `mark_tool_call_denied` (only an awaiting row, report whether they won),
`mark_tool_call_running` and `complete_tool_call` (unconditional; the SQL
version keeps an approval id that is already bound), `expire_tool_calls`,
`count_recent_tool_calls`. Each is one SQL statement or one critical section.
*Correct when* each row follows its life cycle although two of the writes are
unconditional.

### Approval protocol (`ToolBroker::park`, `submit_approval`, `execute_approved`)
*State.* The table, the approvals inserted so far, and per request the grant it
carries. *Operations.* A gated call is parked; a client allows or denies it; the
stop handler refuses it; a sweep expires it every 60 seconds; an allowed call is
executed under a one-shot grant. *Hard:* two decisions, a stop and an expiry race
for one row; every handler awaits the store several times between checks; the
process can die anywhere. *Correct when* a call reaches upstream at most once,
only under a recorded approval its row names, never after somebody was told that
it was refused; and every parked call resolves.

### Turn lifecycle (`Orchestrator`, `TurnRegistry`, `TurnGuard`, `stop_message`, stale sweep)
*State.* The assistant message (status and content), the registry from message to
cancellable task, the tasks (the original and one per decision), and the watch
channel of each. *Operations.* `run_turn` spawns a task or, for a buffered turn,
runs it in the request; a task runs provider rounds, may park, persists an
outcome; a decision resumes the turn in a new task; a stop signals the registered
task, waits up to 15 seconds, refuses pending calls, or finalizes the message
itself; guards of dropped tasks finalize in a detached task; a sweep settles
stale pending messages. *Hard:* all of these write the same message without a
condition on what they overwrite. *Correct when* one task at a time owns a
message, a stop finds it, what a stop answered is final, what was streamed is
kept, and no message stays pending.

### Tool loop (`run_loop`, `execute_parallel`, `ToolBroker::execute`, `TurnToolBudget`)
*State.* Rounds so far, the calls of the current round, atomics that count calls,
repeated signatures and result bytes, a deadline. *Operations.* Ask the provider,
look at its calls in order, run maximal batches of read-only calls concurrently,
answer refused calls, stop at the first gated call that parks. *Hard:* concurrent
reservations, sizes known only afterwards, order of results. *Correct when* the
limits hold, the transcript answers each requested call once and in order, and
the loop ends.

### Function runner (`functions.rs`)
*State.* The memory of which protocol a model answered on; per run the attempts used, whether the schema was dropped, the protocols
tried. *Operations.* `run` with its retry, negotiation and repair loops.
*Hard:* attempts given back, memory shared by concurrent runs.

### Conversation graph (memory and SQL stores, thread handlers)
*State.* Threads, messages with parent, version and status, the active leaf.
*Operations.* `begin_turn` (new, edit, regenerate), `activate_message`, delete,
`thread_view`, `history_for_message`. *Hard:* concurrent turns on one thread;
numbering of siblings; a finalization after deletion.

### Scope settings and provider secrets (`put_scope_settings`, `SettingsStore`, the key file, the seed)
*State.* A settings row per scope, a key per scope in a file or the environment, a
flag in the row that says whether there is a key. *Operations.* An update opens, writes
or deletes the key file, then merges the row; the SQL upsert reads and writes in separate
statements; every start applies the seed, the row first and the key second; turns and
function runs read the row, then the key. *Hard:* lost updates, a failure or a crash
between the two writes, a reader of a file that is being written. *Correct when* an update
changes what it names and no more, and the flag is true of the file.

### Admission of a request (rate limiter, provider target, catalog, selection)
*State.* Token buckets by route and subject, the catalog cache of the function runner.
*Operations.* `check` refills and takes a token; the provider is resolved; its catalog is
fetched or found in the cache; `select_model` chooses. *Hard:* settings and catalogs change
between these steps; fetches overlap; tokens are fractions. *Correct when* what is chosen was
advertised, by the provider that is asked, and recently; and the limiter keeps its bounds and its promise.

### Provider adapters and stream accumulator (OpenAI chat, OpenAI responses, Anthropic)
*State.* Of a round: the payload, the reply, the bytes that have not made an event yet, calls
by index, the answer so far, events that wait to be shown. *Operations.* Send, retry once
without reasoning, read a chunk, decode its events, show, complete, stop. *Hard:* chunks that
end anywhere, three ways to say one thing twice, errors behind text, a stop or a deadline between
two chunks. *Correct when* the answer is what the service wrote, however it was cut, and what was shown is what is kept.

### Tool registry, egress and broker (`ToolRegistry::execute`, `HttpEgress`, `ToolBroker::execute`)
*State.* Tools with their schemas, scopes and targets (fixed); of a call: its arguments, its
credential, its row and its audit entry. *Operations.* Canonicalize, look up, check scopes, reserve,
record, fetch a credential, validate, request, project, redact, reserve bytes, record and audit.
*Hard:* the same checks stand in `park`, `execute` and the registry; the clock is read three times; rows
and entries may fail to be written. *Correct when* only what was declared reaches a service, only declared
and masked results reach the provider, and the books never contradict the answer.

### Parts without protocol
Prompt profiles (static text), guard classifier (one call with a verdict), principals and JWKS
verification (checks without state), audit paging and metrics, SSE encoding, context, configuration,
HTTP surface, conformance suite and tests. `PROJECT.json` lists each with the reason it is not modelled.

### Interactions
`handlers.rs` calls the orchestrator and the broker; the orchestrator parks and
executes through the broker; broker, orchestrator, stop handler and maintenance
share the two tables and nothing else, except that a stop reaches a task through
the registry. Parking a call and parking the turn are two writes; deciding a call
and resuming its turn are two more, with a provider lookup between them.

## 2. Plan

| order | module | models | status |
|---|---|---|---|
| 1 | `ToolCallStore` | the table as operators, used by 2 and 3 | done |
| 2 | `ToolApproval` | the approval protocol | done, proved |
| 3 | `TurnLifecycle` | one message, its tasks, stops, sweeps | done, proved |
| 4 | `ToolLoop` | rounds, batches and budget of one turn | done, proved |
| 5 | `FunctionRunner` | attempts, negotiation, protocol memory | done, proved |
| 6 | `ConversationGraph` | threads, versions, active leaf, history | done, proved |
| 7 | `AnswerChannel`; `ProviderWire`, three adapters, `ProviderService`, `ProviderRound` | one provider round; implements the channel | done, proved, refinement proved |
| 8 | `ScopeSettings`, `Admission` | settings, keys, seed; limiter, catalogs, selection | done, proved |
| 9 | `ToolContract`, `ToolBroker` | the calls of 4 in detail; implements 4 | done, proved, refinement proved |
| 10 | `SequenceLemmas` | what `FlattenSeq` and a choice of elements do to a sequence, for the proofs of 7 and 8 | done, proved |
| 11 | `OneShotCall` | abstract call that `ToolApproval` implements | not written: `ApprovedOnce`, `RefusalHolds` and `SettledRowsStay` state what it would |

`ToolCallStore` has no behaviour of its own: `ToolApproval` and `TurnLifecycle` EXTEND it, so
both use one translation of the store. `TurnLifecycle` abstracts `ExecuteApproved` of `ToolApproval`
to one step; `ToolLoop` opens up what `TurnLifecycle` calls a round, `ProviderRound` what `ToolLoop`
calls asking, and `ToolBroker` what it calls a call. `Admission` EXTENDS `ScopeSettings` and uses the
adapters' catalogs; `AnswerChannel` is the abstract specification of a provider round and `ToolLoop` that
of the broker.

## 3. How the modules correspond to the code

**`ToolCallStore`** has one operator per store method. A row is its status and
its approval; the expiry instant is the set `lapsed` of the callers, since
only "over or not" is compared.

**`ToolApproval`** splits every handler at its store accesses. A request of
`submit_approval` goes `idle -> allow/deny/late -> inserted -> granted`, then its grant
goes `granted -> checked -> running -> executed -> done` through `execute_approved`;
any of these may end in a refusal, in `dead` (the process restarted), in `lost`
(the store refused the completion), in `hung` (the tool never answers: `registry.execute` has no timeout) or in
`dropped`. A request in `Buffered` (`stream=false`) executes in its handler, which is dropped with its connection at any
await (`HandlerDropped`), also after `mark_running`; a streamed one has handed its grant to a task by then. A
parking turn may be dropped likewise (`TurnDropped`). A statement of a dropped handler is taken to be executed before the
request ends or not at all. Replays are further uses of an existing grant,
which the library allows an embedder and the server never makes. `effects` is the
history of calls that reached upstream with the executor that sent them.
A park rejected before anything is recorded leaves no trace in any row and is
modelled as such (`ParkInvalid`).

**`TurnLifecycle`** has one message. Every task is split at its awaits; `work`
holds its locals, `guards` the finalizations its drop may have detached. Text is
a set of block numbers, so "kept exactly as streamed" is a subset relation. A world chooses
the environment: `faults` allows store failures, panics and crashes; `timely` makes tasks
react within the 15 seconds of a stop and the stale limit. The constant `Patient` makes clients stop
a turn only once its id was streamed and decide only after the stream that announced the park ended.
A property that needs a kind of world states it. A consumer that leaves costs the turn its last round when the usage
event of that round is what cannot be sent (`LoseRound`, `orchestrator.rs:974`); a stop whose client leaves is
dropped where it is (`StopDropped`).

**`ToolLoop`** has one loop and its resumptions. A call is its signature. The two
reservations of `execute` happen without an await between them, so they are one
step; the tool call itself is split into dispatch and return. The budget is
renewed by each decision (`server/src/handlers.rs:911`), as in the code.

**`ToolBroker`** EXTENDS `ToolLoop` and refines each of its call steps. A deployment fixes the tools,
what each signature means (the tool and the spellings of its arguments), the caller's scopes and token,
the minter, the exchanger, the allowlist, and whether stores and audit log may fail. `step` is
where a running call is: recorded, unrecorded because its row could not be written, with its egress,
sent. The checks of `execute`, of `park` and of the registry are three operators, because the code has them
three times and in different orders. A tool is code of the application: it makes at most one of
the requests `asks` and returns one of the values `returns`.

**`ToolContract`** is data. A JSON value is a function from the paths of its nodes to nodes, so that
"a field at any depth" is a path; a schema is a function from paths to rules, with `"*"` for the positions
of an array. Text is a member of a set with a length, a normal form and two predicates: has a control
character, looks like a secret. Parameters of a path are odd (refused), plain, or one of the dot segments `.` and `..`, which
`is_safe_path_param` accepts; `Resolve` fills them into the template and, as `Url::set_path` does, takes back the segment
before a `..` (`TakenBack`, `Normalized`). A hole of a template is a whole segment, and a trailing slash is ignored.

**`FunctionRunner`** has any number of runs and one memory. A model stands for a key
of `protocol_cache`, the base URL and the model name. What a service accepts is a
variable that may change; which kinds cannot express a schema is a constant, because
it is a property of the registered adapter (in this repository only Anthropic's; the run
adds a second, as an embedder's adapter may be, so that both negotiations meet in one run).
Everything that refuses a run before its loop is `Reject`. The await of the
audit entry between the refusal and `remember_protocol` is why a switch is two steps.

**`ConversationGraph`** is one module for three stores. `holder` is what keeps steps
apart: the memory store's mutex, kept through a method; SQLite's only connection, kept
through a transaction; nothing on PostgreSQL, whose transactions show their rows at
`Commit`. A turn is numbered by its timestamp, which `Stamp` takes under the mutex or before
the transaction, so a number orders `created_at`. Reads of one transaction that nothing
separates are one step. The handlers' order of calls (read the message, `begin_turn`,
`history_for_message`) is `Call`, `Open` to `Commit`, `ReadPrompt`. Threads exist at first,
because creating one touches nothing else; content, status and tool calls are left out,
`TurnLifecycle` has them.

**`ProviderWire`** holds what every adapter shares: error classes, the retry rule, the reader
of event blocks, the accumulator. **`OpenAiAdapter`**, **`ResponsesAdapter`** and **`AnthropicAdapter`** each have
the payload, the catalog, the verdicts on a first and a second reply, and the decoder. **`ProviderService`** is the
other end (external): how a service of that protocol writes an answer, in the styles that decoders and
tests of the adapters know. **`ProviderRound`** runs one round: requests, the chunks
of the stream, the deadline, a stop, a client that leaves. Text is a sequence of pieces `<<item, part>>`; an
event is a few bytes so that a chunk may end inside it, and a stream cut there ends in the piece `Torn`. A
conversation opens with at most one system message (`SystemFirst`), because both builders of requests write it so
(`server/src/handlers.rs:690`, `core/src/functions.rs:688`); what Anthropic's adapter does with further ones
(`provider-anthropic/src/lib.rs:356`) therefore never arises.

**`ScopeSettings`** has one scope. A world fixes the store, the seed, the environment key, the
administrators and how often the process may die. An administrator is at one of the awaits of
`put_scope_settings`; opening the file for writing truncates it, which is a step of its own. File operations run in
a blocking thread, which goes on when the handler is dropped: the operation is then `adrift` and opens, writes, deletes or fails
at any later time (`DriftOn`), after other requests have begun or ended and until the process dies. `named` is the
history of what the last write that named a field said, `alone` and `settled` say whether the last key request had
another beside it, running or adrift, and came to its end, and `orphaned` that the file holds what a failed delete left, or a row that died.

**`Admission`** has callers that each make one request, of a turn or of a function run: `Limit`,
`ResolveSettings`, `ResolveKey`, the catalog (asked for, answered, timed out, or from the cache) and `Select`.
Tokens are counted in units of one tick's inflow, so that fractions are integers. `offered` is the history of
what each URL advertised at each tick.

Every map entry of `PROJECT.json` gives the lines of a definition. Operators whose
comment starts with "Mutant" are plausible mistakes at the definition they stand
before: they show that the properties of the runs can fail.

## 4. Runs

| run | instance | shows |
|---|---|---|
| `approval_protocol` | 2 calls, 2 decisions (`a1` buffered), 1 replayed grant (buffered), quota 2 | `OneShot`, `EffectNamesItsApproval`, `RefusedNeverRuns`, `SettledIsFinal`, `ClosedWindowStaysClosed`, `SpentGrantStaysSpent`, `ParkedCallsResolve`, `ExecutionsSettle` |
| `turn` | 2 calls, 2 decisions, 1 stop; a world where everything may fail, a reliable one with 3 blocks | `OneTaskPerTurn`, `StopFindsTurn`, `StreamedTextKept`, `StopIsFinal`, `StoppedParkedTurnStays` |
| `turn_liveness` | 1 call, 1 decision, 1 stop, both modes, faults, impatient clients | `StopReturns` |
| `tool_broker` | 17 deployments; 2 read-only and 1 gated signature, batches of up to 3, 2 rounds, 3 calls, 1 resumption | the limits, `ResultsInOrder`, `EffectsAsDeclared`, `ResultsAsDeclared`, `BooksTruthful`, `LoopEnds` |
| `function_runner` | 2 runs, 1 model, 3 attempts, 3 kinds, the service moves twice | `CallsBounded`, `RepairBudgetKept`, `RefusalPaidOnce`, `ReachesServingProtocol` |
| `conversation_graph` | 3 stores, 2 threads, 3 turns, 1 activation, 1 deletion | `BranchesComplete`, `RolesAlternate`, `PromptIsBranch`; `NoOrphans`, `VersionsNumbered` where the store serialises |
| `provider_round` | 3 protocols, buffered and streamed; 24 requests (3 conversations, one with an empty system message) with a plain answer, 4 answers in 5 styles with a plain request; faults, every cut into chunks | `RequestsFaithful`, `RefusalNamed`, `WholeAnswer`, `ReadInOrder`; `ChannelKept`: implements `AnswerChannel` |
| `admission` | 8 worlds: memory with 2 administrators, SQL with 1, with a crash and three seeds; 2 callers against a provider that changes its catalog; both | `UnnamedFieldsKept`, `KeyFlagTruthful`, `SelectionAdvertised`, `LimiterKeepsItsWord` |
| `turn_late_approval`, `turn_eager_decision`, `provider_done_text`, `settings_lost_update` | the smallest instance of each | the four disagreements of section 6 |

**Bounds.** A race for one row needs two decisions, and the stop and the sweep as
third and fourth parties; a second call lets a request and a row be confused with
another's. Two calls and two decisions let a turn park, resume, park again
and resume again, which is the shortest way for a second resumption to meet the first.
Three blocks are one before the park, one after the resumption and one in a
round that is interrupted. A batch of three overruns a limit of two repetitions
or three calls while others are in flight; sizes 1 to 3 against 4 bytes make
an early large result displace a later small one and the reverse. One resumption
shows the renewed budget. The deployments of `MCToolBroker` each break one thing (a scope, a schema, a
service, a target, a parameter, a path with dot segments, a credential, a size, a store), because nothing relates two of them.
Runs of functions meet only in the memory of one model, which one other run can bring into every state; two moves
make it wrong and right again. Three turns are the fewest in which two race on what a third
left, and a second thread is what a branch could stray into. An answer of three items has two calls beside a text, or
a call without arguments; events of 4 bytes and chunks of up to 9 (`MaxChunk`) give every position of a cut
relative to two events. A clock of 3 ticks passes a window of 2, a cache of 2 and a timeout of 1; one
token (`Capacity`) is where refill matters most. One administrator of a world without callers may leave an operation adrift, one
at a time (`leavers`), which meets the later requests of that administrator and of another. `MaxBlocks`, `MaxBatch`, `MaxResumes`, `MaxMoves`,
`MaxTurns`, `MaxChunk`, `MaxTime` and the deaths of a world are bounds of the models
alone; `MaxRounds`, `MaxCalls`, `MaxBytes`, `MaxRepeats`, `MaxArguments`, `WriteQuota`, `Attempts`, `Capacity`, `Window`, `CatalogTTL`
and `CatalogTimeout` are the code's.
Symmetry is used for calls, decisions, runs and threads, only in runs without liveness.

**Fairness.** `approval_protocol`: time passes, the 60-second tick runs, and a handler that passed its check goes on
unless something the code leaves open ends it: a restart, a dropped connection of a buffered approval, a tool
that hangs. No client need decide. `turn_liveness`: none for any task. Only the steps of a stop handler whose client
stays are weakly fair, so that `StopReturns` holds although tasks hang, panic or vanish. `tool_broker`: the
task's own steps are weakly fair because `timeout_at` bounds each provider round, and so is the beginning of a call that waits
in a batch; `LoopEnds` assumes that tools return, since `registry.execute` has no timeout of its own. `CHECK_DEADLOCK FALSE`
stands in every configuration: the protocols end when clients have made their requests.

## 5. Proofs

`ToolApproval_proofs` proves, for any finite or infinite sets of calls, decisions and
replays and any quota, from the assumptions that the identifiers are distinct:
`TypeCorrect`, `EffectsAreTraceable`, `RefusalHolds`, `GrantIsSpentOnce`; and,
when no embedder replays, `ApprovedOnce`, `WindowsStayClosed`, `SettledRowsStay`.
None of the invariants is inductive as it stands. `RefusedNeverRuns` says nothing
of a request that is about to execute, so the inductive invariant relates each
position of a request to what the row must say there (who holds a grant
has its call and its recorded approval; a row that was ever approved is never
awaiting again; a refused row is settled), and, without replays, that at most one
request per call is past the binding. The refused, lapsed and executed sets only
grow, and the invariant says why no step adds to two that must stay apart.

`ToolBroker_proofs` proves of the loop, for all limits, sizes and batch lengths `LoopTypeCorrect`,
`CallLimitsHold`, `ByteLimitHolds`, `RoundLimitHolds` and
`TranscriptComplete`. The limits follow from the counts never falling behind the
histories (`CountsAgree`); the round limit from `RoundsAgree`, which says that tools
are only offered while `rounds < MaxRounds` and ties `asked` to `rounds` in every phase;
the order of results from `ResultsAgree`: outside a batch, the positions answered are exactly
those before `index`.

It proves of the broker, for every deployment, whatever providers write and tools ask for,
`BrokerImplementsLoop` (`BSpec => Spec`: every behaviour in detail is one of the tool loop),
hence `BrokerKeepsLimits`, and `RequestsDeclared` (`BSpec => []EffectsAsDeclared`). The refinement
needs an invariant: only a running call of the batch takes a step of its own (`StepsAgree`,
`BatchAgrees`), because a call that returns must have been dispatched for the loop to
take its result. `RequestsDeclared` follows what is checked where: whoever is past `execute` has the
scopes and a known tool, a call in a batch is read-only, the credential was fetched for its tool, and the
registry looks at the canonical arguments and at the clock last. That arguments stay canonical rests on
`CanonicalTwice`: to normalize twice is to normalize once, and a well-formed text stays well formed
(assumed of the text set, as Unicode promises it).

It also proves that the books agree. `BooksInv` follows one call of the batch through its life: untouched, nothing is
written of it (`Untouched`); under way, its row and audit entry are what its position allows
(`Underway`); told, they are what the result says or missing because their write failed (`Booked`), and the result was earned by checks the call went through (`AllEarned`).
`BooksAgree` and `ResultsFollowSchema` are read off it. The latter assumes `ReturnsFit`, that tools return values of the kind their
schema describes: `project_output` clones a value of another kind (`core/src/tools.rs:722`), so for other tools
the property is false. The deployments of the run satisfy the assumption.

`FunctionRunner_proofs` proves for any runs, models, registry, adapters and number of
attempts `RunnerTypeCorrect`, `ProviderCallsBounded`, `NegotiationIsFree`,
`RefusalsArePaidOnce` and `ServingProtocolIsReached`. The invariant counts: an attempt is an answer
or the call under way, a call is an attempt or one of two refusals that gave theirs back
(`CountsOK`); a run has tried its first kind or both (`TriedOK`); what a run was refused stays
refused while the service does not move (`SteadyOK`), which makes the memory of an unmoved
service right (`MemoryOK`) and spares whoever starts from it (`InformedOK`). No step of the
proof says how many other runs write to the memory.

`TurnLifecycle_proofs` proves, for any tasks, rounds, stops and worlds, `TypeCorrect` and
`StoppedTextKept` without assumption, and four results that assume something of the clients (the text claim is itself about turns never parked, while no task dies).
`OneTask` and `StopAlwaysFinds` assume `Patient`: nobody decides a call before the task that parked it is gone. Without it
`StopFindsTurn` is false, as `turn_eager_decision` shows of what follows from it. Their invariant (`HolderInv`) says who holds the turn: a task does from
the decision that won to its end, at most one does, at most one call awaits a decision, while one does its holder is
past its last round, and a decision that can still win finds nobody. `StoppedTextKept` needs to know, block by block, that what
was shown is stored or still in the buffer of a task that lives, except the last block of a consumer that left (`TextInv`). `RefusedTurnStays` and `StopsAreFinal` also assume a streamed
turn and that tasks react to a stop in time: a task that outlives the 15 seconds a stop waits overwrites what the stop wrote.

`Admission_proofs` proves, for any providers, requests, capacity and window, `ScopeTypeCorrect`, `FieldsKept`,
`FlagTellsTheTruth`, `LimiterKeepsWord` and `SelectionsAdvertised`. The two about settings assume `OneWriter`: one administrator at a time in a SQL
world, any number on the memory store, whose update holds its lock; `settings_lost_update` shows the first false otherwise. `KeyInv` holds
across a death between any two writes, of the seed too, because it says of each position what is stored so far, and across
operations that are adrift, because a request that begins beside one is not `alone`. `FlagTellsTheTruth` claims both directions: a
flag that says there is a key is right; a key the flag does not tell of is there only because a delete failed, which
`put_scope_settings` ignores, or because a memory store lost its row. For the
limiter, that nothing flows into a bucket twice (`FlowsIn`), what the admissions between two bound (`Bounded`) and what a refusal
promised (`Promised`) are each an inequality between products of variables, which lemmas on numbers decide.
`SelectionsAdvertised` follows the age of a catalog from hand to hand (`SelectionInv`): what a request received was on offer between
its question and now (`RequestOf`), within the timeout, since a fetch that is due ends before the clock moves; an entry of the cache
was on offer no longer before its date than one fetch takes (`EntryHolds`), because it is dated when it is stored and not when it was asked for,
so that a function run may go on with a catalog that is older than the cache's time to live by the timeout (`OldestAge`). A choice made from such a catalog
was advertised (`ChoiceTold`). Settings and catalogs change and the process dies between any two of these steps. That an adapter's reading of a catalog names nothing
that the provider did not advertise (`CatalogsTell`) is proved for catalogs of any length as `CatalogsTrue`, from what a choice of elements
can contain (`PickedType`); TLC also evaluates it for the catalogs of the run and for every one of up to two items of a small kind (`CatalogsOfTheShelves`).

`ConversationGraph_proofs` proves, for any threads and number of turns, in all three stores, `GraphKept`, `GraphTypeCorrect`,
`TurnsFollowAnswers`, `ThreadsTakeMessagesAlong`, `VersionsStayNumbered`, `BranchesStayComplete` and `PromptsAreBranches`.
`GraphInv` holds in all stores and says what a request may have read before it writes: its parent is an answer of its thread. `SerialInv`
adds what a lock or a serial transaction keeps (no message is added to a thread being deleted), `VersionInv` that versions are counted under
that lock. That a walk ends needs a measure (`Ranked`): ranks fall along parents and stay below the number of possible
messages. What the walk, a recursive function of its depth, has collected is shown by taking the least depth where it
would be wrong (`Least`, `Induct`), which needs no induction over an operator.

`ProviderRound_proofs` proves, for any rounds and chunks of any size, `RefusalsAreNamed` and, for services that continue
their answer, `RoundIsChannel` (`Spec => ChannelKept`, the refinement of `AnswerChannel`). The first follows from what a verdict
of each adapter says of its reply, for one reply and for a second one (`FirstVerdicts`, `SecondVerdicts`). The second rests on
three facts: whatever the event, a decoder shows exactly the text it adds to what it keeps (`DecodersShow`); the decoder is
where the whole blocks of the bytes received put it, so that chunks and their ends leave no trace (`ChunkFlows`, `RemainderFlows`); and what waits in the
outbox leads from what was shown to what is kept, piece by piece through genuine beginnings of the answer (`Flows`,
in `ChannelInv`), so a stop or a departure between two pieces leaves a beginning. The assumption,
`ServicesContinue`, is on what a service writes: every further event extends a beginning of the answer, thoughts before texts; it may fail or be cut anywhere.
It is a sentence about sequences of events alone, with no chunk, stop, fault or clock in it. TLC evaluates it for the rounds of the run (`ServicesOfTheRounds`), and finds it
false, as it must be, for the services of `provider_done_text`, for which the channel is not kept.

`AnswersAreRead` (`Spec => []ReadInOrder`) is the third theorem of that module and assumes nothing of services. Its invariant `WholeInv` says that until a stream is finished,
reading in chunks has come to where reading its whole blocks alone would (`ReadSoFar`, kept by `WholeChunk`), and that a reader finished
without a failure has read soundly (`Sound`): no event it read failed, and it holds what reading them in order makes. The cases are where
bytes end: before an event, inside its text, or before its blank line (`RemainderSound`); a terminal event before the end of its chunk
(`FinishedSound`); an error held back behind text (`NoErrorRead`, `ErrorsSignal`). A stream broken off inside an event may add that piece as text,
which the property excepts. What the events of a service make when they are read in order is a matter of its style: that it is the answer
that was meant (`WholeAnswer`) is model-checked for the styles of the run and false for the one of `provider_done_text`.

`LevelsKept` (`Spec => []LevelsAsAsked`) is the part of `RequestsFaithful` about options: a first request asks for exactly the schema and the level,
Anthropic's sends none where it cannot say them, the second differs in having no level, and there is no third. `RequestInv` says what was sent and why; only a request with a level is sent again, and
a second verdict never asks for another request (`VerdictsAgain`, for all three adapters, buffered and streamed).

`RequestsSayAll` (`Spec => []RequestsFaithful`) adds the conversation, of any length and with any number of calls in a message. The property
names no operator of the adapters: what is heard on the wire, by kind of item, is compared with the texts, calls and results that the messages have. An
adapter puts together what each message becomes, and a choice of kinds from that is what the choices from each message put
together (`GatheredThrough`, applied in `Telling`, `HeardTold` and `ToldInOrder`); `WiresAgree` says that the three adapters share these
operators. That the system message is the only order follows from its being the first message or none (`OnlyOpening`, `SentOrders`,
`InstructionsAre`), wherever the protocol puts it; one without a text instructs nobody.

`SequenceLemmas` is what two of these proofs share. `FlattenSeq` is a recursive function of the community modules; a set of numbers that holds 0 and the successor of
each of its members below `n` holds `n` (`Induct`, from a least counterexample, `Least`), which gives its partial sums (`FlattenSums`), its type and its
concatenation, and from them what is kept of a sequence (`KeptType`, `KeptConcat`, `KeptNone`, `KeptSome`, `KeptAll`), picked from it (`PickedType`) or
gathered from its elements one after the other (`GatheredThrough`, `GatheredFirst`). This is why
`ProviderWire` chooses elements of a sequence with `FlattenSeq` (`Those`): `SelectSeq` takes an operator, which no theorem here can be about.

*Only model-checked:* the temporal properties
`ParkedCallsResolve`, `ExecutionsSettle`, `StopReturns`, `LoopEnds`,
because liveness under fairness and ENABLED are beyond the prover; and `WholeAnswer`, which depends on what services write. No module uses RECURSIVE operators.

## 6. Where the code and its documents disagree

Four runs expect a violation; each quotes the sentence it refutes in `PROJECT.json`.

* `turn_late_approval`: `stop_message` decides from a snapshot read before it
  waited; a call parked meanwhile stays decidable and resumes the stopped turn.
* `turn_eager_decision`: `waiting_approval` is streamed before the parking task
  drops its slot; the drop removes the registry entry of a turn that was resumed
  at once, and a stop gets `None` and waits for nobody while the resumed task works.
* `provider_done_text`: a Responses service that sends finished events without deltas has its
  text shown and kept once per finished event (arguments likewise).
* `settings_lost_update`: the SQL upsert writes back every column it read, so of two
  administrators one undoes fields the other named.

Met while modelling and left without a run, because a model of its own would only repeat one line of code:

*Turns.* A buffered turn is not registered and `finalize_assistant` overwrites whatever status it finds
(`store-memory/src/lib.rs:541`), so a turn that ends late overwrites `stopped`, which `docs/api.md:41` calls terminal. A turn
that parked and is stopped keeps the text of its last round only (`orchestrator.rs:1073`; `docs/api.md:43`). A turn whose
consumer leaves between a round's last text and its usage event loses the text of that round: the return at
`orchestrator.rs:982` comes before `content.push_str` at 1005, whose comment says "a later stop persists exactly
what the consumer already saw", while `docs/api.md:43` says "kept exactly as streamed" (`StreamedTextKept` excepts that block). The detached write of a drop guard may overwrite a later status.

*Approvals.* `execute_approved` does not check `expires_at` (`core/src/broker.rs:829`), so a window open when the
decision was loaded may be over at the execution, while `docs/architecture.md:71`
lists "the approval window still open" (`ClosedWindowStaysClosed` states what does hold);
the write quota is counted before the row is recorded (`broker.rs:898`), so concurrent
parks overshoot it; two uses of one grant that both read `approved` both run
(`broker.rs:829` to `866`; `SpentGrantStaysSpent` states what does hold, and `SettledIsFinal` is
claimed only without replays); each resumption gets fresh limits
(`handlers.rs:911`) although `orchestrator.rs:43` speaks of a turn across all rounds. A buffered approval whose connection closes after
`mark_running` leaves its row running for ever, as does a tool that never returns. Ids of tool calls come from the
provider and are a global key with insert-or-ignore: a repeated id parks nothing, and `record_failed_call` with the id of a parked
call overwrites its status.

*Tools.* Parameters `.` and `..` pass `is_safe_path_param` (`broker.rs:399`) and are resolved by `Url::set_path` (`broker.rs:362`), so the
path of such a request is not the template's, while the repository's `README.md:11` says "Path parameters are restricted to identifiers";
it stays at the declared service, and `EffectsAsDeclared` states the path for all other parameters. `project_output` passes a value on whole when its shape differs from its schema, and a schema without a type accepts
anything. Lengths of strings are counted in bytes although the messages speak of characters. Invalid arguments of an ungated
call are found after it has used up budget. The time limit of the HTTP client is computed when the egress is built, so a request
sent late may end after the deadline (`EffectsAsDeclared` is about its start). A call whose row cannot be written, a park of an unknown
tool and a park whose row cannot be written leave no audit entry; audit pages are counted by offset, so entries appended between two
pages repeat some.

*Functions.* `remember_protocol` is called before the alternate has answered (`functions.rs:803`), while its comment
calls the memory "which protocol answered for a model". When a service offers a model on
Anthropic's protocol only, a run configured for OpenAI leaves such an entry, and
`protocol_hint` then sends runs configured for Anthropic at the same base URL to the OpenAI
kinds, which are never left again: `ReachesServingProtocol` is therefore stated for OpenAI
configurations.

*Conversation graph.* `store.rs:508` says that `activate_message` switches "to `message` and
everything below it", but an answer becomes the leaf itself and hides what is below
it (`store-memory/src/lib.rs:661`), and a question leads to its newest answer only. On PostgreSQL,
where nothing locks the thread, two turns that start together number siblings alike, and
a turn that begins while its thread is deleted leaves rows without a thread: `VersionsNumbered` and
`NoOrphans` exclude it. On SQLite and PostgreSQL the timestamp is taken before the transaction,
so a view may order siblings differently than their stored versions; the order is stated for
the memory store. The memory store looks for an edited message without asking whether it is in
the turn's thread; `BranchesComplete` therefore rests on the handlers, which take the thread
from the message.

*Providers.* After an empty answer, the OpenAI adapter hides the refusal of its second request, a rate
limit included (`provider-openai/src/lib.rs:230`, against `core/src/provider.rs:882`: "A `429` is a rate limit whatever else the body
says"). Anthropic's total of tokens is computed per event and merged with the first one's, so it is
stale (`provider-anthropic/src/lib.rs:562`; `WholeAnswer` compares the other counts); its buffered texts are joined with line breaks and
its streamed ones are not; only the first system message is sent; level `none` retries an identical payload. OpenAI and Anthropic accept
answers cut by a length limit, Responses refuses them. A reasoning-only 2xx answer of OpenAI is returned as an empty outcome without the retry.
Buffered blank arguments become a string. Fragments of calls without an index open a call each.
A stream cut cleanly before its terminal event is a normal answer, and half an event may become text (`Torn`); a terminal event
does not end the reading of its chunk; a stop is not looked at until the headers of a reply have arrived.

*Settings and admission.* The seed is applied at every start over what administrators changed, while `server/src/state.rs:265`
and `server/src/config.rs:28` speak of a fresh deployment. The row and the key are read in two awaits, so a new key can meet an old URL and
the reverse. A turn goes on with an empty key (a file being written), a function run refuses it. The SQL store clamps
timeouts and token limits, the memory store does not. An error of deleting the key is ignored while the flag is cleared (`handlers.rs:1178`), although `store.rs:102` says "removes the stored key";
the memory store loses its row at a restart while the key file stays; two key requests at once, or one cut
short, may leave a flag that is wrong, also later, when the file operation of the one cut short lands; this is why `KeyFlagTruthful` is about
a last key request that came to its end with no other beside it. The catalog
cache is stamped when a fetch ends, and neither key nor headers are part of its key. Buckets of the limiter are never removed
(`rate_limit.rs:149`).

## 7. Not modelled

Scopes and subjects: every row of a model belongs to one of each, so
the filters of the store are the identity. Payloads, digests, wording and formats, prompt profiles and the
context they are filled with. Repeated tool-call ids. Audit pages, exports and purges, and metrics. Token
verification and JWKS refresh. Registry size and the
approval of one call by two deployments sharing a database, except as far as a decision
needs nothing but the tables. That SQLite's one pooled connection is never asked for twice is seen
from the transactions, all of whose statements run on the transaction (`store-sql/src/lib.rs:318`); the
models give them the connection. A message awaiting approval whose resumption failed
stays so: no maintenance settles it, hence there is no such liveness property. The tool that an
application registers, the services it asks and the model service are external.
