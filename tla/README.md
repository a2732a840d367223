# Verification of yhub

TLA+ models of [yhub](../src/README.md), the collaboration server that
distributes Yjs documents through redis and persists them in postgres and
object storage, together with the runs that model-check them and proofs about
them. Paths below are relative to the root of the repository; `stream.js`,
`index.js`, `persistence.js`, `server.js` and so on are the files of its `src/`
directory. `PROJECT.json` lists runs, mutants, the lines each definition
models, hazards, findings and theorems.

## The system

A *room* is a triple of organisation, document and branch. A change to a room is
a message on the room's redis stream. Servers send the messages of the stream to
the websockets of the room; workers merge them, some time later, with what is in
postgres, store the result as a new row and trim the stream.

| Component | State | Operations | Source |
|---|---|---|---|
| Room streams, worker stream, quarantine | one stream per room, the worker stream with the pending compact tasks, the set of rooms with disabled compaction, quarantine keys | `addMessage`, `trimMessages`, `disableCompaction`, `enableCompaction` (Lua scripts, atomic); `quarantine`, `unquarantine`, `clearMessages`, `deleteQuarantineStreams` (one or two round trips) | `stream.js` |
| Compaction worker | what the current run has read | `_runTask`, `getDoc`, `unsafePersistDoc` | `index.js` |
| Leases of worker tasks | idle times in the consumer group, tasks in flight in each process | claim loop, lease renewal, abandonment, `stopWorker`; `claimTasks`, `renewTasks` | `index.js`, `stream.js` |
| Persistence, S3 plugin | rows of `yhub_ydoc_v1`, tombstones, objects in S3 and the timers that will remove them | `store`, `retrieveDoc`, `deleteReferences`, `storeTombstone`, `purgeDoc`; upload, download, delayed removal | `persistence.js`, `plugins/s3.js` |
| Deletion | tombstone, stream, cached responses, rows, assets | `deleteDoc` (soft, hard), `restoreDoc`, `getTombstones` | `index.js` |
| Document reads | - | `getDoc` | `index.js` |
| Subscriptions, websocket server | subscribers with their clocks, connection state | `subscribe`, `unsubscribe`, the read loop; open, message, close, permission re-checks, kicks | `stream.js`, `server.js` |
| Compute pool | worker threads, queue of tasks | `run`, results, time-outs, exits, `destroy` | `compute.js` |
| Response cache | keys with a time to live | `cachedGet`, `deleteCachedResponses` | `stream.js` |
| Agents | a document and awareness that forward their changes | `agentTask` | `agents.js` |
| HTTP api and endpoints | each request: its body, whether its client is gone | gate, authentication, body, handlers, errors | `api.js`, `builtin-api.js` |
| CORS | the configuration; in front of the hub, browsers and shared caches | `resolveCors`, `originAllowed`, headers of responses and preflights | `cors.js`, `api.js` |

Components meet in redis and postgres: servers, endpoints and agents write with
`addMessage`; its script enqueues a compact task when it creates the stream; a
worker claims the task, reads the stream and the rows, and ends with
`trimMessages`, whose script acknowledges the task and leaves a successor if
messages remain. Deletion writes the tombstone that `store` checks inside its
INSERT, and kicks connections through the stream.

What is hard, and what makes each part correct:

* **Tasks.** Whether a task exists is nowhere stored; it is inferred from the
  existence of the stream key. A stream without a task is never compacted; two
  tasks compact one room concurrently. Correct: exactly one task per stream that
  may be compacted (`AtMostOneTask`, `NotStranded`, `NoStrayTask`).
* **Compaction** takes seconds to minutes, a lease can be lost, so two runs can
  overlap anywhere; a run can fail after any await. Correct: nothing written is
  lost, a row contains everything up to its clock, what can be recovered never
  goes back, and everything is persisted in the end (`NothingLost`,
  `RowsComplete`, `ImplementsDocStore`, `EventuallyPersisted`, `StreamDrains`).
* **Versions and their objects.** A version is four uploads and an INSERT, a
  superseded object is removed by a timer that nobody waits for, readers fetch
  objects long after they listed rows, and two runs at one clock upload to the
  same path. Correct: what was written stays readable, the newest row has its
  object, an object in use is not replaced by another content
  (`StaysRetrievable`, `NewestHasObject`, `SameContent`).
* **Deletion** runs next to compaction that has read everything before, to
  requests that have read the tombstone before, to restorations and to itself.
  Correct: a purged room stays erased, a hard deletion is final, a soft one loses
  nothing, no response from before it is served, and what is marked as purged has no
  rows, since retention never looks at it again (`PurgedStaysErased`, `HardIsFinal`,
  `AckedIsKept`, `CacheDropped`, `PurgedIsErased`).
* **Requests** await authentication, an upload, documents and computations, may be
  aborted at each of them, and check the tombstone several awaits before they
  write. Correct: who acts met the document alive, an agent's errors reach its caller
  (`ActsOnLiveDocument`, `AgentErrorsSurface`).
* **Leases** expire while a renewal is on its way, while a run is stuck, or with
  their process. Correct: punctual workers do not share a task, a run that comes
  back late releases nothing that is not its own, nobody acks a task that it never
  took, and every task is completed (`ImplementsTaskLeases`, `HoldsItsRuns`,
  `EveryTaskCompletes`).
* **CORS** has three parties that must agree: the gate, the headers and the
  browser, over a configuration that is merged from two, with caches in between.
  Correct: no page reads or reaches more than is configured, and what is
  configured works (`ForeignersReadNothing`, `ForeignersReachNothing`,
  `ConfiguredAreServed`, `PreflightIsHonoured`).
* **Reads** combine two stores that change meanwhile: which updates can a reader
  miss, and for how long (`StreamFirstComplete`, `MissedIsPersisted`).
* **Quarantine** moves streams around while they are written; correct: no message
  is lost and no permission re-check delivered again (`MessagesSurvive`,
  `AuthChecksNotReplayed`).
* **Subscriptions.** Connections with different clocks share one read per room;
  they come, go and are closed by the server while a read is under way, and stream
  ids start again when a key is replaced. Correct: nothing is missed or delivered
  twice, the loop knows exactly the open connections and never sleeps while
  somebody waits, and a deletion or a loss of access reaches every connection
  (`NothingMissed`, `DeliversOnceInOrder`, `SubscribedIffSynced`, `CatchesUp`,
  `KickReaches`, `OpeningIsCovered`, `RecheckReaches`, `RevokedIsDisconnected`).
* **Compute pool.** Result, error, exit and time-out of a worker thread come in
  any order. Correct: each task is settled once, by its own result, and a task
  that waits is always woken (`ImplementsTaskPool`, `LateResultsAreHarmless`,
  `EveryTaskIsSettled`).

## Modules

| Module | Models | Extends or refines |
|---|---|---|
| `RoomStream` | all redis keys of rooms and tasks, any number of rooms | - |
| `RoomStreamProofs` | proofs about `RoomStream` | extends `RoomStream` |
| `Compaction` | one room: its stream and task, the rows, several runs of `_runTask`, writers, hard deletion | - |
| `DocStore` | what storage promises: a document that only grows until it is erased | - |
| `CompactionImplements` | the two refinements of `Compaction` | `DocStore`, `RoomStream` by INSTANCE |
| `CompactionProofs` | proofs about `Compaction`, its two refinements and `DocReader` | extends `CompactionImplements`, `DocReader` |
| `DocReader` | readers calling `getDoc` next to the workers | extends `Compaction` |
| `Subscriptions` | one server: its websocket handlers, the subscription loop, and the directives that disconnect | - |
| `SubscriptionsProofs` | proofs about `Subscriptions` | extends `Subscriptions` |
| `ComputePool` | the pool of compute workers of one process, their threads and timers | `TaskPool` by INSTANCE |
| `TaskPool` | what a pool promises its callers | - |
| `ComputePoolProofs` | proofs about `ComputePool` and its refinement of `TaskPool` | extends `ComputePool` |
| `Assets` | one room: its rows and their objects, several runs of `_runTask`, hard deletion, imports | - |
| `AssetsProofs` | proofs about `Assets` | extends `Assets` |
| `Endpoints` | one document: requests to the api, agents, cached responses, deletion and restoration | - |
| `EndpointsProofs` | proofs about `Endpoints` | extends `Endpoints` |
| `WorkerLease` | the worker stream as a queue with leases, the claim and renewal loops of several processes | `TaskLeases` by INSTANCE |
| `TaskLeases` | what the worker stream promises the workers | - |
| `WorkerLeaseProofs` | proofs about `WorkerLease` and its refinement of `TaskLeases` | extends `WorkerLease` |
| `Cors` | configuration, gate and headers, as operators | - |
| `CorsBrowser` | the routes of the api with a browser and a shared cache | extends `Cors` |
| `CorsProofs` | proofs about `CorsBrowser` | extends `CorsBrowser` |
| `MC*` | symmetry sets and small sets for the runs | |

### RoomStream

`live` is the set of rooms whose key exists: redis keeps a stream key with no
entries, so this is state of its own (`clearMessages` relies on it). `pending`
gives each task id its room. `quarantined` is the content of each quarantine
key, `op` what a caller holds between the two round trips of a call: the room
whose orphan NOP it removes, the entries it has read, the keys it has listed.
One action stands for one script or MULTI:

| Action | Code |
|---|---|
| `AddMessage`, `TrimMessages`, `DisableCompaction`, `EnableCompaction` | the Lua scripts of the same name |
| `Quarantine`, `QuarantineMissing`, `QuarantineCleanup` | `quarantine`: the MULTI on an existing key; on a missing key, and the DEL that follows |
| `UnquarantineRead`, `UnquarantineWrite` | `unquarantine`: XRANGE, then the MULTI |
| `ListQuarantines`, `DropQuarantines` | `deleteQuarantineStreams`: SCAN, then DEL |
| `ClearMessages` | `clearMessages` |
| `OperatorCrash` | the process of a caller ends between the two |
| `TrimAborts` | `trimMessages` with the clock of an imported row |

A clock is a natural number that grows for ever. The real one is a pair of
milliseconds and a sequence number and restarts with a new key; `Subscriptions`
has such clocks. Cutoffs of a trim are all that `min(minId + 1, now - maxAge)`
can be. The pending list of the consumer group and the entries of the worker
stream are one thing here: the scripts create and remove both together.

`Imported` are the rooms whose newest row may come from `unsafePersistDoc`. Its clock
`<ms>-I` is a clock for the code, but `incStreamId` of the trim script does not parse it
and the script ends in an error, with the task acknowledged and deleted by then
(`TrimAborts`). `NotStranded` leaves these rooms out, and says of all others that they
are not stranded; the remaining properties hold of the imported ones as well.

`CleanupExclusive` states an assumption that the code does not establish:
between the two round trips of a quarantine of a missing key nobody writes to
the room or enables its compaction, and the DEL is not lost to a crash. The
passing run and four of the theorems make it; `quarantine_loss` drops it and
shows what happens without it.

### Compaction, DocStore, CompactionImplements

Each worker is one run of `_runTask`. `pc` and `todo` are its position: the two
reads of the first `Promise.all` in any order, `PreCheck`, `GetDoc` (postgres
only, with the messages already read, and the re-check after the merge),
`Store`, then `DeleteReferences` and `TrimMessages` in any order. `Claim` takes
any pending task, also one that another run works on; that covers expired
leases, abandoned runs and stolen tasks. `Fail` ends a run anywhere and covers
rejected awaits, killed compute tasks and crashes of a process; the run's
variables are its memory, nothing else is lost. When one branch of the last
`Promise.all` is rejected the other still completes in the code; in the model
it may or may not, which allows more.

A message is its clock, and the content of a document is the set of the update
and prune messages it reflects: enough to say that an update is missing, was
resurrected or is in two rows. A row is one content; its four assets and the
objects they are kept in are the subject of `Assets`. All rows are those of runs:
imports are in `Assets`, and the trim that aborts at their clock is in `RoomStream`
(here `Imported` is empty). Hard deletion is the sequence of round trips of
`deleteDoc` and `purgeDoc`, which may stop anywhere and be repeated. Soft
deletion changes nothing here: compaction keeps running.

`DocStore` is the promise: `recoverable`, what can be got back from rows and
stream together, only grows by writes, until it is erased for good.
`CompactionImplements` maps `recoverable` to the rows and the messages that are
on the stream, so every store, delete and trim must be a stutter. The second
mapping makes the room of `Compaction` the only room of a `RoomStream`; it ties
the two models of the scripts together and carries the theorems over.

### DocReader

A reader remembers what had been written when it started (`base`), reads rows
and stream in either order, and merges as `getDoc` does. `order` records which
request was served first.

### Subscriptions

Code between two awaits of the server is one action, and so is each command or
query it awaits. A connection `conn[u]` is a `WSUser` with what its open handler
has read so far; `subs` and `subUpdates` are the maps of the same name, `loop` is
where `_runSub` is and what its last XREAD returned. One server is modelled; all
others are writes to the stream. Servers share no subscription state.

| Action | Code |
|---|---|
| `Upgrade`, `ReadRows`, `ReadStream`, `Opened`, `OpenChecked`, `OpenAfterCheck` | upgrade and open handlers; the two reads of `getDoc` in any order |
| `ClientMessage`, `ClientCloses`, `Reconnect` | message and close handlers; a new connection of the same user |
| `AuthAnswers`, `Revoke` | `WSUser.recheckAuth`: the answer of the auth plugin, and the close that follows |
| `LoopStarts`, `RedisAnswers`, `ReadFails`, `Deliver` | `_runSub`: the connection or the wait after an error, XREAD, and the delivery to all subscribers with the next turn |
| `Compact`, `Trim`, `Quarantine`, `Unquarantine`, `ApiWrite` | what workers, operators and other processes do to the stream, in one step each |
| `StoreTombstone`, `ClearMessages`, `ClearFails`, `AddTombstone`, `DropQuarantined`, `DeleteFails` | `deleteDoc`, soft or hard, repeated, failing anywhere, to the quarantine keys that `purgeDoc` drops |
| `Drain` | `_runTask` of a hard-deleted room: a trim with a lifetime of 0 |
| `ChangeAccess`, `RecheckAuth` | a change in the authority of the auth plugin; `YHub.recheckAuth` |

A clock is `<<ms, seq>>`, assigned as redis does it, and starts again when the key
is new. A delivery that a connection cannot take (backpressure) closes it.
Two assumptions are guards with a name: `Outlived`, `minMessageLifetime` is longer
than an open handler and a turn of the loop take; `MayReset`, a key does not go
away in the very millisecond of its last entry. `Outlived` is about rooms that are not
hard-deleted. `Drain` waits for nobody: it takes whatever the worker has read, at any
time after the tombstone, as the code does with a task that is older than the deletion.
`KickReaches` and `RecheckReaches` say which steps may take a directive from somebody who
has not got it, and that no other step does.

### ComputePool, TaskPool

The main thread is an event loop, so every handler is one step that ends with
`drain`. `workers[i]` has all `ComputeWorker`s that were ever made for place `i` of
`pool.workers`, each with its thread: the last is the one that is there, the others
were replaced and are still heard of. `Drain` says what the loop of `drain` comes to:
the longest prefix of the queue that finds free places goes to these in order
(`IsPlacement`), and a place whose worker is dead gets a new one (`Given`). A thread
is heard of only by a posted result (`OnMessage`), an uncaught error (`OnError`) and
its exit (`OnExit`); `TaskTimeout` terminates a thread that may have answered just
before. `TaskPool` knows tasks that wait, run and are settled; `ImplementsTaskPool`
maps the running tasks to those some worker holds the callbacks of.

### Assets

`Compaction` one level down: a version is a row in `rows` and an object in
`objects` at the same clock, and what a run reads is a SELECT (`SelectRows`) and
one GET per row (`GetObject`), between which other runs may delete rows and
timers remove objects. `Upload` and `Insert` are the two halves of `store`;
`Insert` also starts the timers of the superseded objects, as `deleteReferences`
does before it sends its DELETE. The four columns of a row are one object. The
pre-check of a run is one step here, tasks are left out (any number of runs may
overlap), and `Operations` says which of deletion, import and failure may happen.

Two constants name what the code relies on and does not establish:

* `LateRemoval`: the ten seconds before a removal outlast every read that still
  needs the object. With `FALSE` TLC finds `StaysRetrievable` violated: a run lists
  a row, another supersedes it and its object is removed, the first reads nothing
  for it, and uploads what is left to the path of the second, at the same clock
  (`stream.js:664`: "both workers write the same assets").
* `CleanImports`: `unsafePersistDoc` is called for a room whose stream is
  persisted, and nobody writes meanwhile. With `FALSE` TLC finds
  `StaysRetrievable` violated: see the known gaps.

### Endpoints

A request goes from `Arrive` (everything up to the first await, with the origin
gate) through `Authenticated` and `ReadBody` to the handler of its kind; each
stretch between two awaits is an action, whatever is awaited may be rejected
(`HandlerFails`), and `Abort` may come at any time until the response. `AnswerError`
is the catch, which waits for the upload. The kinds are `get`, `patch` (as which
`rollback` and `prune` behave), `awareness`, `changeset` (and `activity`),
`delete`, and `agent`, an endpoint that runs `agentTask`. `deletion` has one call of
`deleteDoc` per request or operator with the branches of its `Promise.all` in any
order; `restore` is `restoreDoc` with its two statements. When a command of a branch
fails (`BranchFails`) the caller has its error at once, and the other branches go on
behind it: the stream may still be cleared, the message sent (also when clearing failed:
`finally`) and the cache scanned. `DeletionFails` is a statement of `purgeDoc` that fails,
and the end of the process. `seen` is history: the states the document was in while a
request waited.

`raced`, `late` and `undone` mark what the windows that are open in the code have let
through, so that `HardIsFinal`, `CacheDropped` and `PurgedIsErased` say exactly what holds
around them: see the known gaps. Each statement of postgres is one step; an INSERT of
`store` that has looked for the tombstone before it was committed, and commits after the
purge has listed the rows, is not modelled. The three calls that `purgeDoc` makes at once
are independent; here it is the erasure of the rows and then the mark.

### WorkerLease, TaskLeases

A task is pending in the consumer group with an idle time; `Claim` is XAUTOCLAIM
from '0', `Renew` XCLAIM with a min-idle of 0. `Workers` are calls of `startWorker`; those
of one process share nothing, so a worker that is stopped and started again in its process
is two of them, and the runs of the first go on. A worker has the two loops of
`startWorker` and its `inflight` map; a run is a record with the number that tells
it from other runs of the same task, as `run` does in the code by identity. Time
passes in ticks for all; a loop that misses its interval, or redis that answers
late, sets `late`, once and for all, and that leases are exclusive is said of
punctual processes only: the code promises no more. Stopped workers and abandoned
runs go on computing without a lease, which `Compaction` allows for. `MaxFaults`
bounds failures, wedged runs, lost replies, late loops, stops and crashes together.

`TaskLeases` knows the tasks that each worker holds, from the moment redis has given
them away, and those that stray: still computed by a stopped worker or an abandoned
run. A worker takes (`Take`), lets go (`LetGo`), and whoever took a task is done with
it (`Done`); there are no idle times, runs or replies. `ImplementsTaskLeases` maps the
held tasks to `inflight` and the reply on its way. It implies `LeaseIsExclusive`, which
says the same of runs and is a theorem only.

### Cors, CorsBrowser

`Cors` has `resolveCors` (`MayStart`, `ResolveCors`), `originAllowed` and the two
writers as operators on origins (scheme, labels, port), configurations (functions
on the fields that are present; an endpoint may also inherit or disable, which is not the same as an empty
override of a server without cors: that does not start) and headers (functions on the names that are
written). `CorsBrowser` adds what they are for: a page that fetches through a
browser, with a preflight where the standard asks for one, the gate, and a cache
in front of the hub that serves a response to all requests its `Vary` does not
tell apart. Browser and cache are external; they are modelled from what the
comments of `cors.js` rely on. What is configured is defined independently of the
code's matching: `Names` compares label by label from the end. The match by prefix and
suffix of the text is a match of labels because what follows a star begins with a dot, which
`wildcardRegex` (`cors.js:22-30`) sees to.

## Runs

All runs were made with the bounds given here; states are distinct states.

| Run | Bounds | States | What it shows |
|---|---|---|---|
| `room_stream` | 2 rooms, one of them imported, 3 tasks, 1 quarantine key, 2 operators, 4 clocks | 118 512 | types, task discipline, quarantine loses and replays nothing |
| `quarantine_loss` | as above, no `CleanupExclusive` | violation | finding 1 |
| `compaction` | 2 runs, 3 tasks, 2 clocks | 244 315 | the safety of compaction and deletion; implements `DocStore` and `RoomStream` |
| `compaction_liveness` | 1 run, 1 reader, 2 tasks, 2 clocks | 330 889 | liveness; what a read can and cannot miss |
| `assets` | 2 runs, 2 clocks; deletion, imports and failures | 130 309 | nothing becomes unreadable |
| `endpoints` | a request of 5 kinds and one of 2, 1 operator | 3 171 805 | requests next to deletion and restoration |
| `subscriptions` | 2 users of 1 room, 2 messages, 2 milliseconds, 1 entry per read; trims and quarantine | 248 081 | what is delivered, to whom |
| `subscriptions_liveness` | 1 user, 2 messages, 2 milliseconds, 1 entry per read; re-checks, deletion with drain | 1 160 399 | the loop runs when it must; deletions and lost access reach connections |
| `changed_while_opening` | 1 user, 3 messages; re-checks, trims and deletion | violation | finding 2 |
| `worker_lease` | 2 workers with concurrency 1, 2 tasks, 1 fault, leases of 2 ticks | 190 534 | implements `TaskLeases`, tasks are completed |
| `compute_pool` | 2 workers, 3 tasks for them and 1 small one | 166 674 | safety, liveness, implements `TaskPool` |
| `cors` | 8 origins, 11 server and 7 endpoint configurations, 3 sets of headers | 207 089 | who reads and reaches what |

Each module has a type invariant. It is the first conjunct of an invariant of the
run (`NoStrayTask`, `RowsComplete`, `StreamFirstComplete`, `StaysRetrievable`, `ActsOnLiveDocument`,
`SubscribedIffSynced`, `HoldsItsRuns`, `LateResultsAreHarmless`,
`ConfiguredAreServed`).

Why the bounds are enough to be interesting: two rooms show that the tasks of
one do not leak into the other; three task ids allow two tasks of one room next
to a fresh one; two operators reach every overlap of two calls, for instance two
unquarantines of the same key. Two runs with two messages reach two runs at the
same clock, a run that is a compaction behind the other, a late trim after the
successor task was enqueued, and a straggler after a purge; what takes more
messages or runs is covered by the proofs, for every bound. Two users of one room
are what it takes to share a read with different clocks; with two messages and one
per read one of them can be behind by a full read; two milliseconds are enough for
the key to be replaced. Three tasks for two workers let one wait while a worker is
replaced and the other computes; the order of a longer queue is left to the proof.
Two runs of `Assets` with two clocks have a version to supersede, a straggler at the
clock of the other, and an import; the inductive invariant has been checked with
three clocks as well. Two requests are what a race of two handlers takes: one patches
or is answered from the cache, the other does anything else, next to a hard deletion
by an operator and a restoration; any number of requests of any kinds is left to the
proof. Two tasks and two workers let a task move from one to the other and back; a
lease of two ticks with renewals every tick is the shortest in which punctual workers
keep their leases; one fault is enough for a wedged run whose replacement is running,
for a crash with leases, and for a renewal that fails. Several entries in one
`inflight` are left to the proof.
The configurations of `cors` differ in one thing each, valid and invalid ones, so that each check of
`resolveCors` decides somewhere. Every property of
a passing run has a mutant in `PROJECT.json`: a small change of a mapped
definition (a definition commented as a slip, next to the original) that makes
the run fail.

`ImplementsRoomStream` meets a run that trims with a task it no longer owns in two
ways: the other run has taken and acknowledged it, or compaction was disabled and
enabled meanwhile.

Liveness properties that say "again and again, if P has come about then so has Q"
are written `[]<>(P => Q)`; for a P that does not go away this is P ~> Q, and TLC
needs less for it.

*Fairness.*

* `FairSpec` of `Compaction`: weak fairness of each worker's `Run`. The claim
  loop of `startWorker` polls as long as the process runs, and a run whose awaits
  are answered goes on. Failures are not fair, and `EventuallyPersisted` is
  conditional on them to stop (`RunsStopFailing`) and on compaction being enabled;
  `StreamDrains` also on messages growing older than `minMessageLifetime`
  (`MessagesAge`).
* `FairSpec` of `Subscriptions`: weak fairness of the loop, of the answers of the
  auth plugin and of the close after one. `_runSub` catches every error and goes
  on after a pause. Strong fairness of `RedisAnswers`: redis does not refuse
  every read for ever, although single reads may fail again and again. Nothing
  is assumed of clients, writers and workers.
* `FairSpec` of `WorkerLease`: weak fairness of time, of both loops (they catch
  every error and go on) on some process, of who replaces a process whose worker was stopped, and
  of the end of every run that is not wedged: `_runTask` ends or is killed by the
  compute pool. A wedged run never ends; faults are bounded, so they stop.
* `FairSpec` of `ComputePool`: weak fairness of the events of the threads and the
  timers of the tasks, taken together: node delivers some event as long as there is one. A thread need never answer.

Deadlock is checked in every run; no model stops.

## Findings

1. **A message deleted with the orphan NOP** (`quarantine_loss`,
   `stream.js:440`). A message written between the MULTI and the DEL is gone.
   `stream.js:436`: "Clean it up and report the no-op".
2. **Changes that slip through the opening of a connection** (`changed_while_opening`,
   `index.js:243`). `server.js:407` says that the open handler refuses a client "whose
   document was deleted between the upgrade and this initial sync", "a window the stream
   cannot cover"; `server.js:417` says of a permission re-check in this window: "would
   be silently consumed - re-check once here instead". Both look at what `getDoc` has
   read and subscribe at its `lastClock`, but the two reads of `getDoc` run concurrently.
   Rows read, tombstone stored, deletion announced, stream read: no tombstone is seen,
   the clock is past the announcement, `getDoc` ignores announcements, and the client
   stays connected to a deleted document; this is what the run finds. Stream read,
   re-check written, row stored that covers it, rows read: the clock is that of the row,
   the re-check is behind it, and the connection keeps access it has lost; the run finds
   this with `Operations = {"recheck", "trim"}`. Whoever is synced when a deletion is
   announced or a re-check is written is told (`KickReachesAll`, `RecheckReachesAll`), unless a worker drains
   the hard-deleted room first (next section).

### Known gaps

Seen while modelling; no run of their own shows them. Where a constant or a
variable stands for one, TLC shows it when that is changed.

* The announcement of a hard deletion may be trimmed before it is read (`index.js:193`:
  "Safe because a task is only claimed after taskDebounce, long after every subscriber has
  seen the kick that was added when the document was deleted"). The debounce runs from the
  creation of the task, and a task is created with the key, not with the kick:
  `clearMessages` keeps both. The task may be due when the deletion happens; while the
  subscription loop waits three seconds after an error (`stream.js:353`), the worker drains
  the room with a lifetime of 0, and the clients stay connected. The purge of quarantine
  keys can take an announcement that was quarantined in the meantime. `KickReaches` names
  both steps (`Drain`, `DropQuarantined`); without its exemption TLC finds it violated.
* A trim to the clock `<ms>-I` of an imported row aborts in `incStreamId`, once the clock is
  older than `minMessageLifetime`, after XACK and XDEL (`stream.js:195-212`): the stream
  stays without a task and grows (`STORAGE-ARCHITECTURE.md:285`: "If messages remain after
  trim, a new task is re-queued"). `TrimAborts` of `RoomStream`; `NotStranded` fails when it
  does not leave `Imported` out.

* `unsafePersistDoc` stamps its row with the current time, so pending updates count
  as persisted and are trimmed, and a run that was merging supersedes rows without
  it (`index.js:438`; `persistence.js:181`: "nothing that was already on the stream
  is lost before it is trimmed"). `CleanImports` of `Assets` excludes it. Two imports
  in one millisecond have one key: the second replaces the objects of the first.
* A reader that needs an object more than ten seconds after it listed the row gets
  nothing for it and is not told (`LateRemoval` of `Assets`).
* An object without a row: a run that uploads after a hard deletion and whose INSERT
  is refused, or a removal that fails. A repeated purge lists rows only, so it does
  not find them (`index.js:368`: "re-runs the purge, which is how a compaction that
  was still in flight the first time gets cleaned up").
* A row without an object: the timers start before the DELETE is sent, and it may
  fail (`persistence.js:420`: "it always removes the row before the asset it points
  at"). `NewestHasObject` says which row is never hit.
* `restoreDoc` may undo a hard deletion that comes between its two statements
  (`index.js:361`: "cannot be undone"); `raced` of `Endpoints` marks it, and `undone` what
  it may leave: a purge that goes on for a document without a tombstone, or with a soft one.
* A response that is stored after `deleteCachedResponses` has looked is served until
  it expires (`stream.js:698`); `late` of `Endpoints` marks it.
* A write whose handler read the tombstone before a hard deletion lands on the stream
  of the deleted room, where a worker trims it.
* An agent with `clearAwareness: false` ends before its last forward is answered, and
  an error of it is reported nowhere (`agents.js:46`: "forwarding errors are surfaced
  to the caller"). `AgentErrorsSurface` speaks of the others.
* PATCH with an update and awareness answers 500 when only the second write fails,
  and the update stays.
* Requests that a browser sends in no-cors mode (an image, a form) carry no `Origin`
  or are not preflighted; `CorsBrowser` has fetches in cors mode only. A handler that
  writes its own `Access-Control-Allow-Origin` decides for itself.

* Without `CleanupExclusive` a room can also get a second task: quarantine an idle
  room with disabled compaction, enable it before the DEL. The task stays, the
  key goes, the next write enqueues another (`STORAGE-ARCHITECTURE.md:362`: "at
  most one pending task per live room").
* `getDoc` with the rows read first misses updates that are stored and trimmed
  before the stream is read (`server.js:467`: "we send the full initial state at
  the beginning"). `StreamFirstComplete` shows that the order of the two reads
  decides, `MissedIsPersisted` that nothing is lost for good. Reading the stream
  first is no remedy for the open handler: that is the order of finding 2.
* Re-checks that are quarantined before every server has read them are dropped by
  `unquarantine` as delivered (`stream.js:515`). The properties about directives
  leave this out; `changed_while_opening` and `subscriptions_liveness` have no
  quarantine.
* An entry written, and the whole stream trimmed or renamed, in one millisecond
  would restart the ids below the clocks of subscribers (`MayReset`).
* The clock of an imported row is `<ms>-I`. A client that connects afterwards
  subscribes at it, redis refuses the XREAD, and the loop of the whole server
  retries it for as long as that client stays (`index.js:438`). `Subscriptions` has no
  imports.
* `destroy` of the compute pool leaves its queue: the exit events of its workers
  start new threads for the tasks that wait (`compute.js:403`). The model does
  what the code does, and `EveryTaskIsSettled` holds of it.

## Proofs

`RoomStreamProofs`, for every set of rooms, operators, task and quarantine ids
and every bound:

| Theorem | States | Assumes |
|---|---|---|
| `TypeCorrect` | `TypeOK` | - |
| `OneTaskPerRoom` | `AtMostOneTask` | `CleanupExclusive` |
| `NoStreamStranded` | `NotStranded`, which leaves `Imported` out | `CleanupExclusive` |
| `NoTaskAstray` | `NoStrayTask` | `CleanupExclusive` |
| `MessagesAreKept` | `MessagesSurvive` | `CleanupExclusive` |
| `AuthChecksStayQuarantined` | `AuthChecksNotReplayed` | - |

*Types.* `TypeOK` needs `WellFormed`: operators and quarantine keys name a room
and sets of entries are finite, because unquarantine counts the entries it
writes again to give them clocks up to the new `lastId` (`RewrittenType`).

*Tasks.* None of the three task properties is inductive alone. `TrimMessages` of
a room with two tasks leaves one without a stream; a write to a room with a stray
task enqueues a second one; so they are proved together, per room (`RoomInv`).
`QuarantineCleanup` would leave a task behind if one could exist, so `RoomInv`
also says that a room in a cleanup has none; it is there that `CleanupExclusive`
is used. Two lemmas carry the steps: `EnqueueTask` (a new task for a room whose
only tasks are acknowledged by the same script) and `WriteTask` (a write).

*Messages.* The invariant is that a cleanup finds no message next to its NOP and
that what an operator is about to write again is what the key still holds,
unless somebody was faster (`MessageInv`). It holds because a qid is never used
again while somebody refers to it. `StoredStays` reduces "no message is lost" to
the stream and the keys that change.

`CorsProofs`, for every set of pages, server and endpoint configurations and sets of
headers (`PagesAssumption`: pages are on origins, the null origin or the api's own;
`ConfigsAssumption`: so are the entries of a valid configuration):

| Theorem | States |
|---|---|
| `ReadSafe` | `ForeignersReadNothing` |
| `ReachSafe` | `ForeignersReachNothing` |
| `PreflightSafe` | `PreflightIsHonoured` |
| `ConfiguredServed` | `ConfiguredAreServed` |

Neither property is inductive: a page reads what a shared cache holds. The invariant
(`IInv`) adds that each cached response has the headers the present configuration
gives to the origin it was made for (`SharedOK`), and that what was preflighted has
passed the check of the preflight's headers (`PreflightedOK`). `ResponseHeaders` and
`PreflightHeaders` say which headers the writers write, `MatchesAreNamed` that the
suffix match of the code implies the comparison of labels, `AllowedIsConfigured` that
what is allowed is configured, through the merge and all defaults.
`ConfiguredServed` is the other direction. `NamedMatch` and `ConfiguredIsAllowed` show
that what is named is matched, `PreflightServes` and `ReceiveServes` that a browser
then finds the headers it looks for; it is blocked only if it asks for more than is
configured (`Overreaches`), and `SharedOK` extends this to what a cache has stored.

`CompactionProofs`, for any number of runs, tasks and messages (`NoTaskAssumption`,
`MaxClockAssumption`):

| Theorem | States |
|---|---|
| `NothingIsLost` | `NothingLost` |
| `RowsAreComplete` | `RowsComplete` |
| `PurgeIsFinal` | `PurgedStaysErased` |
| `ImplementsStore` | `ImplementsDocStore` |
| `ImplementsStream` | `ImplementsRoomStream` |

The properties are not inductive: a trim loses nothing because of what the run stored
many steps before, and a reference can be deleted because of what it read before
that. `IInv` says what a run may rely on although others go on meanwhile. Until the
room is erased (`Data`): whatever was written is on the stream or covered by a row
that is not older (`Covered`); a row holds exactly what was written up to its clock
(`RowComplete`); a snapshot has all messages up to its last but for what a row covers
by now (`SnapOK`); a document about to be stored is complete, and all its references
are older than it (`StoreOK`); a run that trims up to a clock knows it to be persisted,
and one that still has to delete references knows its own clock to be covered
(`FinishOK`). The crux is `Advances`: rows may be superseded, in any order and by
several runs, but the newest never goes back, so what is covered stays covered. It
holds because references are those read together with the merged rows
(`Superseded`), never listed again. After the tombstone nothing of this matters; what
counts then is that a purge has listed all rows there are (`Purge`), since none are
added. For the refinement, `RecoverableIsWritten` shows that a reader of rows and
stream gets what was written, and `WrittenStep` that only clients write. That the
room is one of `RoomStream` needs no more than `IInv`: `RedisAdds`, `RedisTrims` and
`RedisOperates` map the scripts to those of `RoomStream`, and everything else is a
stutter (`RedisStep`). A trim is the step that could go wrong: its minId is a clock of
the stream because no run holds a newer one (`Bound`).

`AssetsProofs`, for any number of runs, messages and imports, under the two
constants that name what the code relies on, `LateRemoval` and `CleanImports` (the
types need neither):

| Theorem | States |
|---|---|
| `Retrievability` | `StaysRetrievable` |
| `NewestIsRetrievable` | `NewestHasObject` |
| `SameContentHolds` | `SameContent` |

The argument of `CompactionProofs` does not carry over: rows and objects go at
different times, an object may go although its row never does, and a run reads
objects one by one while others remove them. `IInv` separates the clocks that are
*doomed*, because a timer or a DELETE is on its way, from those that last (`Doomed`,
`Lasting`): each doomed one is replaced by a newer one that lasts and has a complete
object (`Replaced`), and what rows stand for is in objects that last (`RowsOK`). A run
that is still reading finds the rest of what it needs in the objects it waits for
(`GettingOK`; here `LateRemoval` is used), and a run that stores has a complete
version (`StoringOK`), so two runs at one clock upload the same (`OfRun`, hence
`SameContent`). An import has the newest clock, and everything below it is covered
(`ImportOK`; here `CleanImports` is used). That a newest row exists and is not doomed
needs the greatest element of a finite set of clocks (`GreatestExists`), from the
well-foundedness of the natural numbers.

The last part of `CompactionProofs` is about `DocReader`, for any number of readers
next to any number of runs:

| Theorem | States |
|---|---|
| `StreamFirstReadsAreComplete` | `StreamFirstComplete` |
| `MissedChangesArePersisted` | `MissedIsPersisted` |

`getDoc` joins what it has read of the rows and of the stream at two times.
`ReaderIInv` adds to `IInv` what each half contributes: the rows all changes up to
their clock (`RowsRead`), the stream all but those that a row covers and the stream has
lost for good (`StreamRead`). The latter stays true while workers go on, because
covered messages stay covered (`Advances`) and a stream gets only new entries
(`LogGrows`). With the stream first, the covering row is there when the rows are read
(`FirstComplete`); with the rows first it may not be, and then `StreamRead` says that
the next read finds it.

`EndpointsProofs`, for any number of requests and deletions:

| Theorem | States |
|---|---|
| `HandlersActOnLiveDocument` | `ActsOnLiveDocument` |
| `AckedChangesAreKept` | `AckedIsKept` |
| `DeletionDropsCache` | `CacheDropped` |
| `AgentErrorsReachCaller` | `AgentErrorsSurface` |
| `PurgedDocumentsAreErased` | `PurgedIsErased` |
| `HardDeletionIsFinal` | `HardIsFinal` |

What a handler does is decided by a tombstone that it read some awaits before, so
`IInv` says of each request what its position tells about what it has met
(`SeenOK`) and about its agent (`AgentOK`). A soft deletion keeps
messages and rows because only hard ones have them to clear, and then the document is
marked erased (`Erasure`). The cache needs most: once the last deletion has scanned,
nobody who computes may store a response from before it (`Fills`: what is computed is
stale then, and a restoration that drops the tombstone starts over), and what is still
there a deletion has listed and will drop (`CacheOK`). Steps that change only one
request are reduced to what they may do to its record (`Becomes`, `StepsTo`), so each
handler needs one case per position. `AckedIsKept` is inductive with `Erasure`. For
`PurgedIsErased` the rows stay away from the moment a hard deletion has erased them, before
it is marked (`PurgeOK`): as long as no restoration has dropped a hard tombstone there is one
for every hard deletion under way, and no compaction stores a row.

`WorkerLeaseProofs`, for any number of processes and tasks and all intervals that leave
a renewal the time it needs (`LeaseAssumption`: `ReplyWithin + RenewEvery < Debounce`):

| Theorem | States |
|---|---|
| `WorkersHoldTheirRuns` | `HoldsItsRuns` |
| `LeasesAreExclusive` | `LeaseIsExclusive` |
| `ImplementsLeases` | `ImplementsTaskLeases` |

What redis has given to a worker counts as held before the worker knows of it
(`Holds`): a claim that is answered late must find its tasks still its own. In time, the
lease of a task in flight is no older than the last turn of the renewal loop plus one
reply, that of a task in a reply no older than the claim (`Leases`), so neither is stale
(`HeldIsFresh`) and a claim takes nothing from a live worker (`ClaimStep`). `Named` says
that the map of a process and its runs name each other one to one, across runs that end
late, wedge or are abandoned; it holds because a number is not used again while a run
of the same task has it (`FreshIsNew`). For the refinement, a run that ends is in the
hands of its worker or astray (`RunsAreTaken`, from `Named`) and takes at most its own
task from there (`RunIsGone`); a claim is a `Take` because what is held is fresh and the
tasks in flight and in the reply together are within the concurrency (`ClaimIsTake`);
every other step of the loops lets go of something, or of nothing (`LeasesLetGo`).

`ComputePoolProofs`, for any finite set of tasks and any size of the pool
(`PoolAssumption`):

| Theorem | States |
|---|---|
| `LateResultsHarmless` | `LateResultsAreHarmless` |
| `ImplementsPromises` | `ImplementsTaskPool` |

The invariant is about one worker (`WorkerOK`: it has the task it holds before it, or
its result posted, and nothing else; a dead one holds none), one place (`PlaceOK`:
only the last worker may be alive), the places together (no task is held twice), the
queue (no task repeats or is held) and the promises of both. That a worker which
lost its task by a time-out is dead for good is what keeps a late result from the next
task. `DrainOK` says what a drain does to places and queue, for every placement it may
choose, and that the tasks it starts are a prefix of the queue; `SettleOK` what a
result, an error and a time-out do to a promise. A step of the pool is then one of
`TaskPool` with as many starts as places were filled; the bound on running tasks is
the cardinality of the places that hold one (`HeldIsBounded`).

`SubscriptionsProofs`, for any number of rooms, connections and messages and any COUNT
of a read (`RoomOfAssumption`, `BoundsAssumption`), under the two assumptions that are
guards of the model, `Outlived` (of rooms that are not drained) and `MayReset`:

| Theorem | States |
|---|---|
| `SubscribersAreSynced` | `SubscribedIffSynced` |
| `SyncedMissNothing` | `NothingMissed` |
| `DeliveriesInOrder` | `DeliversOnceInOrder` |
| `KickReachesAll` | `KickReaches` |
| `RecheckReachesAll` | `RecheckReaches` |

Two clocks stand between an entry and a connection, that of the connection and the one
its room is read from in the shared loop, which goes back whenever somebody subscribes
with an older one. `IInv` says of the first what it stands for: all that is not after it
was sent (`HasAll`), and what is after it is newer than all that was sent
(`HasNoneLater`); of the second, that nothing falls between the two (`IsServed`), also
of the one in `subUpdates` that a turn of the loop has not yet merged. A delivery moves
the second to the last entry of a read that was started before others subscribed, trimmed
or wrote, so what that read leaves on the stream must be after all it returns
(`ResultOK`); this is where `COUNT` comes in (`OldestIs`). The numbers of writes and the
ids of redis agree (`Sorted`) but for what `unquarantine` repeats, and the ids of a key
that went away and came back are after all that anybody has seen (`Past`, from
`MayReset`). The open handler gets its clock and its content from rows and stream, which
agree by `RowsOK`. For `KickReaches` the announcement is on the stream after the clock
of the connection, in a read that will be delivered, or in quarantine (`Pending`), and
`KickOK` says that nothing else has its number. A trim of a room that
is not drained takes only what was `Outlived`, a quarantine keeps it and `unquarantine` writes it again with a later id, and whoever
it is delivered to leaves. `RecheckReaches` is the same for a re-check (`IsTold`), and
goes on from there: a delivery turns it into a question to the auth plugin and forgets no
earlier one (`LoopAsks`), and while the access differs every answer closes the connection
(`HandleAsks`). It starts where the connection is synced; before that it fails, which is
finding 2. The proof has few lemmas per
action because the actions are few kinds of step: on a stream (`StreamStep`, from
`Appends`), on the server with the streams as they are (`ServerStep`), of one connection
(`UserStep`), and of the loop (`ReadStep`, `DeliverTo`).

Every invariant and every action property of the passing runs, and every refinement, is
stated by a theorem. Only model-checked, for the bounds above, is liveness
(`EventuallyPersisted`, `StreamDrains`, `CatchesUp`, `RevokedIsDisconnected`,
`EveryTaskCompletes`, `EveryTaskIsSettled`), which is out of the prover's reach under
fairness. `MessagesSurvive` without `CleanupExclusive`, and `OpeningIsCovered`, are what the
code does not do: TLC shows how (see Findings).

## What is not modelled

Formatting and encoding of keys and messages, logging, metrics and events.
The content of Yjs updates: merging is a set union. Prune directives change the
document like any message here; that they remove content from older rows needs a
model of its own. Failures of postgres, and of redis outside the subscription
loop: a command is executed once or the run fails. Awareness states of
connections, and an initial state that exceeds the backpressure limit of a new
socket (a hazard at `server.js:436`). What a compute task computes. Routing, schemas
and quotas of the api. The retention sweep that calls `deleteDoc` for what
`getTombstones` lists. Start-up scripts, logging,
tests and demos. See `components` in `PROJECT.json`.

## Plan

Done, in this order: `RoomStream` with its proofs, `Compaction` with `DocStore` and
the two refinements, `DocReader`, `Subscriptions`, `ComputePool` with `TaskPool`; then
`Assets`, `Endpoints`, `WorkerLease` with `TaskLeases`, and `Cors` with `CorsBrowser`; the proofs about
`Cors`, `Compaction`, `Endpoints`, `WorkerLease`, `DocReader`, `Assets`,
`ComputePool` and `Subscriptions`, and that `Compaction` implements `RoomStream`. What would follow:

1. An abstract retention that `Endpoints` and `Assets` implement: a deleted document
   is either restorable in full or gone in full, with the retention sweep.
2. `WorkerLease` composed with `Compaction`: its runs refine `Claim` and `Fail`.
3. Directives with several servers and quarantine of what not all have read.
4. Pruned content: sets of changes that a version has dropped.
5. An abstract subscriber, who is sent the log of its room in order, with
   `Subscriptions` shown to implement it from its `IInv`.
