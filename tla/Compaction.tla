----------------------------- MODULE Compaction -----------------------------
(***************************************************************************)
(* One room and the workers that compact it: YHub._runTask and the part of *)
(* YHub.getDoc, Persistence.store and Persistence.deleteReferences that it *)
(* calls, next to clients that keep writing, operators that disable and    *)
(* enable compaction, and a hard deletion of the room.                     *)
(*                                                                         *)
(* A worker here is one run of _runTask.  Any idle run may claim a pending *)
(* task at any time, also one that another run is working on: a lease that *)
(* expired, a run that was abandoned, and a process that renews a task it  *)
(* lost all come to that.  A run may end after any of its steps: a         *)
(* rejected await, a killed compute task and a crash all leave the task    *)
(* pending and lose what the run had read.                                 *)
(*                                                                         *)
(* Every await is a step of its own; the awaits of one Promise.all are     *)
(* outstanding together, under "todo", and complete in any order.          *)
(*                                                                         *)
(* Abstractions.  A redis clock is a natural number, and a message is its  *)
(* clock.  The content of a document is the set of the clocks of the       *)
(* update and prune messages it reflects.  A row holds one content: its    *)
(* four assets are written and read together.  Rows come from runs only:   *)
(* an imported one has a clock that the trim script cannot parse, which is *)
(* TrimAborts of RoomStream, and what it covers is in Assets.  The bounds  *)
(* are MaxClock and TaskIds.                                               *)
(***************************************************************************)
EXTENDS Integers

CONSTANTS
  Workers,        \* concurrent runs of _runTask, over all processes
  TaskIds,        \* ids of worker stream entries, recycled once nobody refers to them
  MaxClock,       \* bounds the messages ever added to the room
  NoTask

ASSUME NoTaskAssumption == NoTask \notin TaskIds
ASSUME MaxClockAssumption == MaxClock \in Nat

VARIABLES
  live,      \* does the stream key exist?
  log,       \* the clocks of the entries of the stream
  lastId,    \* the greatest clock assigned so far
  written,   \* the clocks of all update and prune messages ever written
  pending,   \* the pending compact tasks of the room
  disabled,  \* is compaction of the room disabled?
  rows,      \* the rows of the room in yhub_ydoc_v1
  deletion,  \* how far deleteDoc(room, { hard: true }) got
  listed,    \* the rows a purge found
  pc,        \* where each run is
  todo,      \* the awaits of the current Promise.all that are outstanding
  task,      \* the task of each run
  snap,      \* the stream as read by each run
  pre,       \* the clock and the tombstone read by the pre-check of each run
  doc        \* the merged document each run is about to store

streamVars == <<live, log, lastId, written, pending, disabled>>
erasureVars == <<deletion, listed>>
runVars == <<pc, todo, task, snap, pre, doc>>
vars == <<live, log, lastId, written, pending, disabled, rows, deletion, listed,
          pc, todo, task, snap, pre, doc>>

Clocks == 0 .. MaxClock
Rows == [t : Clocks, content : SUBSET Clocks]

NoSnap == [messages |-> {}, last |-> 0]
NoPre == [clock |-> 0, hard |-> FALSE]
NoDoc == [content |-> {}, clock |-> 0, refs |-> {}]

Init ==
  /\ live = FALSE /\ log = {} /\ lastId = 0 /\ written = {}
  /\ pending = {} /\ disabled = FALSE
  /\ rows = {} /\ deletion = "none" /\ listed = {}
  /\ pc = [w \in Workers |-> "idle"]
  /\ todo = [w \in Workers |-> {}]
  /\ task = [w \in Workers |-> NoTask]
  /\ snap = [w \in Workers |-> NoSnap]
  /\ pre = [w \in Workers |-> NoPre]
  /\ doc = [w \in Workers |-> NoDoc]

(* What storage holds: the rows are merged, the clock is that of the newest. *)
Content(R) == UNION {r.content : r \in R}
Times(R) == {r.t : r \in R}
IsLastClock(R, n) == n \in Times(R) \union {0} /\ \A m \in Times(R) : m <= n

IsLastEntry(S, n) == n \in S \union {0} /\ \A m \in S : m <= n

MaxOf(a, b) == IF a < b THEN b ELSE a

Hard == deletion # "none"

-----------------------------------------------------------------------------
(* The stream, see RoomStream. *)

FreshTask(t) == t \notin pending /\ \A w \in Workers : task[w] # t

EnqueueInto(p) == \E t \in TaskIds : FreshTask(t) /\ pending' = p \union {t}

(* addMessage: an update or prune changes the document, any other message does not. *)
AddMessage(changesDoc) ==
  /\ lastId < MaxClock
  /\ lastId' = lastId + 1
  /\ log' = log \union {lastId + 1}
  /\ written' = IF changesDoc THEN written \union {lastId + 1} ELSE written
  /\ live' = TRUE
  /\ IF live \/ disabled THEN UNCHANGED pending ELSE EnqueueInto(pending)
  /\ UNCHANGED <<disabled, rows, erasureVars, runVars>>

DisableCompaction ==
  /\ disabled' = TRUE
  /\ pending' = {}
  /\ UNCHANGED <<live, log, lastId, written, rows, erasureVars, runVars>>

EnableCompaction ==
  /\ disabled
  /\ disabled' = FALSE
  /\ IF live THEN EnqueueInto(pending) ELSE UNCHANGED pending
  /\ UNCHANGED <<live, log, lastId, written, rows, erasureVars, runVars>>

-----------------------------------------------------------------------------
(* _runTask *)

Claim(w) ==
  /\ pc[w] = "idle"
  /\ \E t \in pending : task' = [task EXCEPT ![w] = t]
  /\ pc' = [pc EXCEPT ![w] = "reading"]
  /\ todo' = [todo EXCEPT ![w] = {"stream", "clock"}]
  /\ UNCHANGED <<streamVars, rows, erasureVars, snap, pre, doc>>

ReadStream(w) ==
  /\ pc[w] = "reading" /\ "stream" \in todo[w]
  /\ \E n \in log \union {0} :
       /\ IsLastEntry(log, n)
       /\ snap' = [snap EXCEPT ![w] = [messages |-> log, last |-> n]]
  /\ todo' = [todo EXCEPT ![w] = @ \ {"stream"}]
  /\ UNCHANGED <<streamVars, rows, erasureVars, pc, task, pre, doc>>

ReadClock(w) ==
  /\ pc[w] = "reading" /\ "clock" \in todo[w]
  /\ \E n \in Times(rows) \union {0} :
       /\ IsLastClock(rows, n)
       /\ pre' = [pre EXCEPT ![w] = [clock |-> n, hard |-> Hard]]
  /\ todo' = [todo EXCEPT ![w] = @ \ {"clock"}]
  /\ UNCHANGED <<streamVars, rows, erasureVars, pc, task, snap, doc>>

(* The run goes on to trim, and only to trim, messages up to clock. *)
TrimOnly(w, clock) ==
  /\ pc' = [pc EXCEPT ![w] = "finish"]
  /\ todo' = [todo EXCEPT ![w] = {"trim"}]
  /\ doc' = [doc EXCEPT ![w] = [NoDoc EXCEPT !.clock = clock]]

(* No update or prune of the stream is newer than the newest row. *)
NothingNew(w) == \A m \in snap[w].messages \intersect written : m <= pre[w].clock

PreCheck(w) ==
  /\ pc[w] = "reading" /\ todo[w] = {}
  /\ IF pre[w].hard \/ NothingNew(w)
     THEN TrimOnly(w, MaxOf(pre[w].clock, snap[w].last))
     ELSE pc' = [pc EXCEPT ![w] = "getDoc"] /\ UNCHANGED <<todo, doc>>
  /\ UNCHANGED <<streamVars, rows, erasureVars, task, snap, pre>>

(* A slip: the older rows are left out. *)
MergedWithoutRows(w, clock) == {m \in snap[w].messages \intersect written : m > clock}

(* The rows merged with the messages that are newer than the newest row. *)
Merged(w, clock) ==
  Content(rows) \union {m \in snap[w].messages \intersect written : m > clock}

(* Another run stored this clock in the meantime. *)
Outdated(w, clock) == ~(clock < MaxOf(clock, snap[w].last))

(* getDoc with the messages the pre-check read, the merge and the re-check after it. *)
GetDoc(w) ==
  /\ pc[w] = "getDoc"
  /\ \E n \in Times(rows) \union {0} :
       /\ IsLastClock(rows, n)
       /\ IF Outdated(w, n)
          THEN TrimOnly(w, MaxOf(n, snap[w].last))
          ELSE /\ pc' = [pc EXCEPT ![w] = "store"]
               /\ doc' = [doc EXCEPT ![w] = [content |-> Merged(w, n),
                                             clock |-> MaxOf(n, snap[w].last),
                                             refs |-> Times(rows)]]
               /\ UNCHANGED todo
  /\ UNCHANGED <<streamVars, rows, erasureVars, task, snap, pre>>

(* A slip: the tombstone is only looked at by the pre-check. *)
InsertedWithoutBarrier(t, content) ==
  IF t \in Times(rows) THEN rows ELSE rows \union {[t |-> t, content |-> content]}

(* INSERT ... WHERE NOT EXISTS a hard tombstone ON CONFLICT DO NOTHING *)
Inserted(t, content) ==
  IF Hard \/ t \in Times(rows) THEN rows ELSE rows \union {[t |-> t, content |-> content]}

Store(w) ==
  /\ pc[w] = "store"
  /\ rows' = Inserted(doc[w].clock, doc[w].content)
  /\ pc' = [pc EXCEPT ![w] = "finish"]
  /\ todo' = [todo EXCEPT ![w] = {"references", "trim"}]
  /\ UNCHANGED <<streamVars, erasureVars, task, snap, pre, doc>>

(* The run is over and the variables of w are those of an idle worker. *)
Reset(w) ==
  /\ pc' = [pc EXCEPT ![w] = "idle"]
  /\ todo' = [todo EXCEPT ![w] = {}]
  /\ task' = [task EXCEPT ![w] = NoTask]
  /\ snap' = [snap EXCEPT ![w] = NoSnap]
  /\ pre' = [pre EXCEPT ![w] = NoPre]
  /\ doc' = [doc EXCEPT ![w] = NoDoc]

Completed(w, step) ==
  IF todo[w] = {step} THEN Reset(w)
  ELSE /\ todo' = [todo EXCEPT ![w] = @ \ {step}]
       /\ UNCHANGED <<pc, task, snap, pre, doc>>

(* A slip: the references are listed again when they are deleted. *)
SupersededListedAgain(w) == Times(rows)

(* The references that getDoc read together with the rows it merged. *)
Superseded(w) == doc[w].refs

DeleteReferences(w) ==
  /\ pc[w] = "finish" /\ "references" \in todo[w]
  /\ rows' = {r \in rows : r.t \notin Superseded(w)}
  /\ Completed(w, "references")
  /\ UNCHANGED <<streamVars, erasureVars>>

(* A slip: the result of XACK is ignored. *)
AcksAlways(w) == task[w] # NoTask

(* XACK of the task of w returns 1. *)
Acks(w) == task[w] \in pending

(* A slip: whatever is old enough goes, also what was never persisted. *)
CutoffOfAge(w) == 0 .. lastId + 1

(* min(minId + 1, now - maxAge): what is older than minMessageLifetime depends on the time. *)
Cutoff(w) == 0 .. doc[w].clock + 1

(* A slip: the key is never deleted. *)
LiveWithoutDel(kept) == live

LiveAfterTrim(kept) == live /\ kept # {}

(* A slip: no successor task. *)
SuccessorForgotten(w, kept) == pending' = pending \ {task[w]}

Successor(w, kept) ==
  IF kept = {} THEN pending' = pending \ {task[w]} ELSE EnqueueInto(pending \ {task[w]})

TrimMessages(w) ==
  /\ pc[w] = "finish" /\ "trim" \in todo[w]
  /\ IF Acks(w)
     THEN \E cutoff \in Cutoff(w) :
            LET kept == {i \in log : i >= cutoff} IN
            /\ log' = kept
            /\ live' = LiveAfterTrim(kept)
            /\ Successor(w, kept)
     ELSE UNCHANGED <<log, live, pending>>
  /\ Completed(w, "trim")
  /\ UNCHANGED <<lastId, written, disabled, rows, erasureVars>>

(* A rejected await, a killed compute task or a crash of the process. *)
Fail(w) ==
  /\ pc[w] # "idle"
  /\ Reset(w)
  /\ UNCHANGED <<streamVars, rows, erasureVars>>
-----------------------------------------------------------------------------
(* deleteDoc(room, { hard: true }) and the purge it ends with, one round trip *)
(* at a time.  A soft deletion changes nothing that this module models.       *)

StoreTombstone ==
  /\ deletion = "none"
  /\ deletion' = "tombstone"
  /\ UNCHANGED <<streamVars, rows, listed, runVars>>

ClearMessages ==
  /\ deletion = "tombstone"
  /\ deletion' = "cleared"
  /\ log' = {}
  /\ UNCHANGED <<live, lastId, written, pending, disabled, rows, listed, runVars>>

AddTombstoneMessage ==
  /\ deletion = "cleared" /\ lastId < MaxClock
  /\ deletion' = "kicked"
  /\ lastId' = lastId + 1
  /\ log' = log \union {lastId + 1}
  /\ live' = TRUE
  /\ IF live \/ disabled THEN UNCHANGED pending ELSE EnqueueInto(pending)
  /\ UNCHANGED <<written, disabled, rows, listed, runVars>>

ListRows ==
  /\ deletion = "kicked"
  /\ deletion' = "listed"
  /\ listed' = Times(rows)
  /\ UNCHANGED <<streamVars, rows, runVars>>

PurgeRows ==
  /\ deletion = "listed"
  /\ deletion' = "purged"
  /\ rows' = {r \in rows : r.t \notin listed}
  /\ listed' = {}
  /\ UNCHANGED <<streamVars, runVars>>

(* deleteDoc is called again, because it failed, crashed, or to be sure. *)
RepeatDeletion ==
  /\ Hard
  /\ deletion' = "tombstone"
  /\ listed' = {}
  /\ UNCHANGED <<streamVars, rows, runVars>>

-----------------------------------------------------------------------------
Run(w) ==
  \/ Claim(w) \/ ReadStream(w) \/ ReadClock(w) \/ PreCheck(w)
  \/ GetDoc(w) \/ Store(w) \/ DeleteReferences(w) \/ TrimMessages(w)

Client == \E changesDoc \in BOOLEAN : AddMessage(changesDoc)

Deletion ==
  \/ StoreTombstone \/ ClearMessages \/ AddTombstoneMessage
  \/ ListRows \/ PurgeRows \/ RepeatDeletion

Operator == DisableCompaction \/ EnableCompaction

Next == (\E w \in Workers : Run(w) \/ Fail(w)) \/ Client \/ Deletion \/ Operator

Spec == Init /\ [][Next]_vars

(* A worker process polls for tasks and runs what it claimed to its end.  *)
FairSpec == Spec /\ \A w \in Workers : WF_vars(Run(w))

-----------------------------------------------------------------------------
TypeOK ==
  /\ live \in BOOLEAN /\ disabled \in BOOLEAN /\ (~live => log = {})
  /\ lastId \in Clocks
  /\ log \in SUBSET (1 .. lastId) /\ written \in SUBSET (1 .. lastId)
  /\ pending \in SUBSET TaskIds
  /\ rows \in SUBSET Rows
  /\ deletion \in {"none", "tombstone", "cleared", "kicked", "listed", "purged"}
  /\ listed \in SUBSET Clocks
  /\ pc \in [Workers -> {"idle", "reading", "getDoc", "store", "finish"}]
  /\ todo \in [Workers -> SUBSET {"stream", "clock", "references", "trim"}]
  /\ task \in [Workers -> TaskIds \union {NoTask}]
  /\ snap \in [Workers -> [messages : SUBSET Clocks, last : Clocks]]
  /\ pre \in [Workers -> [clock : Clocks, hard : BOOLEAN]]
  /\ doc \in [Workers -> [content : SUBSET Clocks, clock : Clocks, refs : SUBSET Clocks]]

(* No update is lost: whatever was written is on the stream or in a row,    *)
(* until a hard deletion erases it (persistence.js:181, index.js:188).      *)
NothingLost == ~Hard => written \subseteq Content(rows) \union log

(* The updates and prunes up to a clock. *)
UpTo(n) == {m \in written : m <= n}

(* A row stands for everything up to its clock: getDoc skips the messages   *)
(* of the stream that are not newer than the newest row.  Hence "both       *)
(* workers write the same assets" (stream.js:664), whatever each of them    *)
(* read.  The variables have their types.                                   *)
RowsComplete == TypeOK /\ \A r \in rows : ~Hard => r.content = UpTo(r.t)

(* A purge leaves nothing behind, and no run that was still computing when  *)
(* the room was deleted brings a row back (persistence.js:175).             *)
PurgedStaysErased == deletion = "purged" => rows = {}

(* If runs stop failing and compaction is not disabled, every update is     *)
(* persisted in the end.                                                    *)
RunsStopFailing == <>[][\A w \in Workers : ~Fail(w)]_vars

EventuallyPersisted ==
  RunsStopFailing =>
    \A i \in 1 .. MaxClock : []<>(i \in written => i \in Content(rows) \/ Hard \/ disabled)

(* Messages grow older than minMessageLifetime: from some time on a trim    *)
(* goes as far as its minId.                                                *)
MessagesAge ==
  <>[][\A w \in Workers : (TrimMessages(w) /\ Acks(w)) =>
          log' = {i \in log : i > doc[w].clock}]_vars

(* Once nobody writes any more the stream of the room is removed, together  *)
(* with its task.                                                           *)
StreamDrains ==
  RunsStopFailing /\ MessagesAge => <>[](~live /\ pending = {}) \/ []<>disabled
=============================================================================
