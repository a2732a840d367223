----------------------------- MODULE RoomStream -----------------------------
(***************************************************************************)
(* The redis side of the hub, src/src/stream.js: one stream key per room,  *)
(* the worker stream that holds the compact tasks, the set of rooms whose  *)
(* compaction is disabled, and the quarantine keys.                        *)
(*                                                                         *)
(* Each redis command, Lua script and MULTI is one atomic step.  A call    *)
(* that is made of two round trips - quarantine of a missing key,          *)
(* unquarantine, deleteQuarantineStreams - is two actions of an operator,  *)
(* and whatever is listed or read by the first is used by the second.      *)
(*                                                                         *)
(* Abstractions.  A redis clock is a natural number: within one key ids    *)
(* grow, and the model lets them grow across DEL and RENAME too.  An entry *)
(* remembers under "origin" the clock it was first written with, so that   *)
(* a message keeps its identity when unquarantine writes it again.  A task *)
(* id is recycled once its task is gone.  The bounds are MaxClock, TaskIds *)
(* and Qids.                                                               *)
(***************************************************************************)
EXTENDS Integers, FiniteSets

CONSTANTS
  Rooms,            \* the rooms (org, docid, branch)
  TaskIds,          \* ids of worker stream entries; bounds the tasks that exist at once
  Qids,             \* quarantine ids; bounds the quarantine keys that exist at once
  Operators,        \* callers of the calls that take two round trips
  Imported,         \* rooms that unsafePersistDoc has stored a document of
  MaxClock,         \* bounds the entries ever added to room streams
  CleanupExclusive, \* is a room left alone while quarantine removes its orphan NOP?
  None

ASSUME NoneAssumption == None \notin Rooms
ASSUME ImportedAssumption == Imported \subseteq Rooms
ASSUME CleanupExclusiveAssumption == CleanupExclusive \in BOOLEAN
ASSUME MaxClockAssumption == MaxClock \in Nat

VARIABLES
  live,         \* the rooms whose stream key exists
  log,          \* the entries under the stream key of each room
  lastId,       \* the greatest clock assigned so far
  pending,      \* the room of each pending compact task, None for a free id
  disabled,     \* the rooms in the compaction_disabled set
  quarantined,  \* the quarantine key of each qid
  op            \* what each operator is in the middle of

streamVars == <<live, log, lastId, pending, disabled>>
vars == <<live, log, lastId, pending, disabled, quarantined, op>>

(* "auth" is auth:check:v1, "m" every other message, "nop" the marker of quarantine. *)
Kinds == {"m", "auth", "nop"}
Entries == [id : Nat, origin : Nat, kind : Kinds]
NoKey == [room |-> None, entries |-> {}]
Busy(pc, r, qids, es) == [pc |-> pc, room |-> r, qids |-> qids, entries |-> es]
Idle == Busy("idle", None, {}, {})

Init ==
  /\ live = {}
  /\ log = [r \in Rooms |-> {}]
  /\ lastId = 0
  /\ pending = [t \in TaskIds |-> None]
  /\ disabled = {}
  /\ quarantined = [q \in Qids |-> NoKey]
  /\ op = [o \in Operators |-> Idle]

-----------------------------------------------------------------------------
(* Quarantine of a room that has no stream creates an orphan NOP and removes *)
(* it in a second round trip.                                                *)
CleaningUp(r) == \E o \in Operators : op[o].pc = "cleanup" /\ op[o].room = r

(* Nothing in the code keeps other callers off the room in between: with     *)
(* CleanupExclusive the model assumes that nobody writes to it or enables    *)
(* its compaction then, and that the operator gets to the second round trip. *)
Undisturbed(r) == CleanupExclusive => ~CleaningUp(r)

(* XADD of a task under a fresh id to the worker stream, and XREADGROUP to   *)
(* make it pending, in the script that has acked and deleted "acked".        *)
Enqueue(r, acked) ==
  \E n \in TaskIds :
    /\ pending[n] = None
    /\ pending' = [t \in TaskIds |-> IF t = n THEN r
                                    ELSE IF t \in acked THEN None ELSE pending[t]]

(* A slip: the set of disabled rooms is not looked at. *)
NeedsTaskIgnoringDisabled(r) == r \notin live

(* The condition under which the addMessage script enqueues a task. *)
NeedsTask(r) == r \notin live /\ r \notin disabled

EnqueueIfNeeded(r) ==
  IF NeedsTask(r) THEN Enqueue(r, {}) ELSE UNCHANGED pending

(* The entries under the key of r become es, and ids up to n are used up. *)
SetLog(r, es, n) ==
  /\ log' = [log EXCEPT ![r] = es]
  /\ lastId' = n

Fresh(kind) == [id |-> lastId + 1, origin |-> lastId + 1, kind |-> kind]

AddMessage(r, kind) ==
  /\ Undisturbed(r)
  /\ lastId < MaxClock
  /\ EnqueueIfNeeded(r)
  /\ live' = live \union {r}
  /\ SetLog(r, log[r] \union {Fresh(kind)}, lastId + 1)
  /\ UNCHANGED <<disabled, quarantined, op>>

-----------------------------------------------------------------------------
(* trimMessages.  A task that is not pending any more acks 0 and changes     *)
(* nothing.  cutoff is the MINID argument: min(minId + 1, now - maxAge), so  *)
(* anything up to minId + 1 depending on the time.                           *)

Kept(r, cutoff) == {e \in log[r] : e.id >= cutoff}

(* A slip: no successor. *)
SuccessorForgotten(r, t, kept) == pending' = [pending EXCEPT ![t] = None]

(* The acked task is gone; a stream that still has entries gets a successor. *)
Successor(r, t, kept) ==
  IF kept = {}
  THEN pending' = [pending EXCEPT ![t] = None]
  ELSE Enqueue(r, {t})

LiveAfterTrim(r, kept) == IF kept = {} THEN live \ {r} ELSE live

TrimMessages(r, minId, cutoff, t) ==
  /\ cutoff <= minId + 1
  /\ pending[t] = r
  /\ LET kept == Kept(r, cutoff) IN
       /\ Successor(r, t, kept)
       /\ SetLog(r, kept, lastId)
       /\ live' = LiveAfterTrim(r, kept)
  /\ UNCHANGED <<disabled, quarantined, op>>

(* The newest row of a room may be an import, and minId its clock            *)
(* "<milliseconds>-I".  Once that is older than minMessageLifetime the       *)
(* script cannot increment it and ends there: with the task acked and        *)
(* deleted, and the stream neither trimmed nor given a successor.            *)
TrimAborts(r, t) ==
  /\ r \in Imported
  /\ pending[t] = r
  /\ pending' = [pending EXCEPT ![t] = None]
  /\ UNCHANGED <<live, log, lastId, disabled, quarantined, op>>

-----------------------------------------------------------------------------
(* disableCompaction, enableCompaction *)

DisableCompaction(r) ==
  /\ disabled' = disabled \union {r}
  /\ pending' = [t \in TaskIds |-> IF pending[t] = r THEN None ELSE pending[t]]
  /\ UNCHANGED <<live, log, lastId, quarantined, op>>

EnableCompaction(r) ==
  /\ Undisturbed(r)
  /\ r \in disabled
  /\ disabled' = disabled \ {r}
  /\ IF r \in live THEN Enqueue(r, {}) ELSE UNCHANGED pending
  /\ UNCHANGED <<live, log, lastId, quarantined, op>>

-----------------------------------------------------------------------------
(* quarantine: MULTI rename live -> key of a fresh qid, XADD nop. *)

QidIsFresh(q) == quarantined[q] = NoKey /\ \A o \in Operators : q \notin op[o].qids

(* A slip: no NOP is left behind. *)
LiveAfterRenameWithoutNop(r) == live \ {r}

(* The NOP keeps the key of r in existence. *)
LiveAfterRename(r) == live \union {r}

Quarantine(o, r) ==
  /\ op[o] = Idle /\ r \in live /\ lastId < MaxClock
  /\ \E q \in Qids :
       /\ QidIsFresh(q)
       /\ quarantined' = [quarantined EXCEPT ![q] = [room |-> r, entries |-> log[r]]]
  /\ live' = LiveAfterRename(r)
  /\ SetLog(r, IF r \in live' THEN {Fresh("nop")} ELSE {}, lastId + 1)
  /\ UNCHANGED <<pending, disabled, op>>

(* The rename of a missing key fails, the XADD of the same MULTI still runs ... *)
QuarantineMissing(o, r) ==
  /\ op[o] = Idle /\ r \notin live /\ lastId < MaxClock
  /\ op' = [op EXCEPT ![o] = Busy("cleanup", r, {}, {})]
  /\ live' = live \union {r}
  /\ SetLog(r, {Fresh("nop")}, lastId + 1)
  /\ UNCHANGED <<pending, disabled, quarantined>>

(* ... and the orphan NOP is removed by a DEL of the live key in a later round trip. *)
QuarantineCleanup(o) ==
  /\ op[o].pc = "cleanup"
  /\ live' = live \ {op[o].room}
  /\ SetLog(op[o].room, {}, lastId)
  /\ op' = [op EXCEPT ![o] = Idle]
  /\ UNCHANGED <<pending, disabled, quarantined>>

-----------------------------------------------------------------------------
(* unquarantine: XRANGE of the key, then one MULTI of addMessages and a DEL. *)

UnquarantineRead(o, q) ==
  /\ op[o] = Idle /\ quarantined[q] # NoKey
  /\ op' = [op EXCEPT ![o] = Busy("reinject", quarantined[q].room, {q},
                                  quarantined[q].entries)]
  /\ UNCHANGED <<streamVars, quarantined>>

(* Slips: every message is written again, or the newest is left out. *)
ReplayableWithAuth(es) == {e \in es : e.kind # "nop"}
ReplayableWithoutLast(es) == {e \in es : e.kind = "m" /\ \E f \in es : f.id > e.id}

(* NOPs and auth:check directives are not written again. *)
Replayable(es) == {e \in es : e.kind = "m"}

(* es written again in order, with the clocks that follow lastId. *)
Rewritten(es) ==
  {[id |-> lastId + Cardinality({f \in es : f.id <= e.id}),
    origin |-> e.origin, kind |-> e.kind] : e \in es}

UnquarantineWrite(o) ==
  /\ op[o].pc = "reinject"
  /\ LET r == op[o].room
         es == Replayable(op[o].entries)
     IN /\ Undisturbed(r)
        /\ lastId + Cardinality(es) <= MaxClock
        /\ IF es = {} THEN UNCHANGED <<pending, live>>
           ELSE EnqueueIfNeeded(r) /\ live' = live \union {r}
        /\ SetLog(r, log[r] \union Rewritten(es), lastId + Cardinality(es))
  /\ quarantined' = [q \in Qids |-> IF q \in op[o].qids THEN NoKey ELSE quarantined[q]]
  /\ op' = [op EXCEPT ![o] = Idle]
  /\ UNCHANGED disabled

-----------------------------------------------------------------------------
(* clearMessages: XTRIM MAXLEN 0 leaves the key in place. *)

ClearMessages(r) ==
  /\ SetLog(r, {}, lastId)
  /\ UNCHANGED <<live, pending, disabled, quarantined, op>>

(* deleteQuarantineStreams: SCAN for the keys of the room, then DEL what was found. *)
ListQuarantines(o, r) ==
  LET found == {q \in Qids : quarantined[q].room = r} IN
  /\ op[o] = Idle /\ found # {}
  /\ op' = [op EXCEPT ![o] = Busy("drop", r, found, {})]
  /\ UNCHANGED <<streamVars, quarantined>>

DropQuarantines(o) ==
  /\ op[o].pc = "drop"
  /\ quarantined' = [q \in Qids |-> IF q \in op[o].qids THEN NoKey ELSE quarantined[q]]
  /\ op' = [op EXCEPT ![o] = Idle]
  /\ UNCHANGED streamVars

(* The process of an operator ends between the two round trips of a call. *)
OperatorCrash(o) ==
  /\ op[o] # Idle
  /\ CleanupExclusive => op[o].pc # "cleanup"
  /\ op' = [op EXCEPT ![o] = Idle]
  /\ UNCHANGED <<streamVars, quarantined>>

-----------------------------------------------------------------------------
Stream(r) ==
  \/ \E kind \in {"m", "auth"} : AddMessage(r, kind)
  \/ \E minId \in 0 .. lastId, t \in TaskIds :
       \E cutoff \in 0 .. minId + 1 : TrimMessages(r, minId, cutoff, t)
  \/ \E t \in TaskIds : TrimAborts(r, t)
  \/ DisableCompaction(r)
  \/ EnableCompaction(r)
  \/ ClearMessages(r)

Operate(o) ==
  \/ \E r \in Rooms : Quarantine(o, r) \/ QuarantineMissing(o, r) \/ ListQuarantines(o, r)
  \/ \E q \in Qids : UnquarantineRead(o, q)
  \/ QuarantineCleanup(o)
  \/ UnquarantineWrite(o)
  \/ DropQuarantines(o)
  \/ OperatorCrash(o)

Next == (\E r \in Rooms : Stream(r)) \/ (\E o \in Operators : Operate(o))

Spec == Init /\ [][Next]_vars

-----------------------------------------------------------------------------
TypeOK ==
  /\ live \in SUBSET Rooms
  /\ lastId \in Nat
  /\ log \in [Rooms -> SUBSET {e \in Entries : e.id <= lastId}]
  /\ \A r \in Rooms \ live : log[r] = {}
  /\ pending \in [TaskIds -> Rooms \union {None}]
  /\ disabled \in SUBSET Rooms
  /\ quarantined \in [Qids -> [room : Rooms \union {None}, entries : SUBSET Entries]]
  /\ op \in [Operators -> [pc : {"idle", "cleanup", "reinject", "drop"},
                           room : Rooms \union {None},
                           qids : SUBSET Qids, entries : SUBSET Entries]]

HasTask(r) == \E t \in TaskIds : pending[t] = r

(* The worker queue holds at most one pending task per room                *)
(* (STORAGE-ARCHITECTURE.md:287 and 362): two would let two workers        *)
(* compact the room at the same clock.                                     *)
AtMostOneTask ==
  \A t1, t2 \in TaskIds : pending[t1] # None /\ pending[t1] = pending[t2] => t1 = t2

(* A stream that exists has a task, unless compaction of the room is       *)
(* disabled: only the creation of the key enqueues one, so a key that is   *)
(* left without a task is never compacted and grows for ever.  Rooms with  *)
(* imported documents are left out: TrimAborts strands their streams.      *)
NotStranded == \A r \in live \ (disabled \union Imported) : HasTask(r) \/ CleaningUp(r)

(* A task exists only for a stream that exists, and never for a room whose *)
(* compaction is disabled: with a task left behind, the next write that    *)
(* creates the key enqueues a second one.  The variables have their types. *)
NoStrayTask == TypeOK /\ \A r \in Rooms : HasTask(r) => r \in live \ disabled

(* The messages of a room that exist somewhere, by the clock of the first write. *)
Stored(r) ==
  {e.origin : e \in {f \in log[r] : f.kind = "m"}} \union
  {e.origin : e \in {f \in UNION {quarantined[q].entries :
                                  q \in {p \in Qids : quarantined[p].room = r}} :
                      f.kind = "m"}}

(* What a step may do to the messages of r: keep them all, trim the stream   *)
(* with a task of r, clear the stream (hard deletion), or drop the           *)
(* quarantine keys that an operator has listed (purge).                      *)
KeepsMessages(r) ==
  \/ Stored(r) \subseteq Stored(r)'
  \/ \E t \in TaskIds : pending[t] = r /\ log'[r] \subseteq log[r] /\ pending[t] # pending'[t]
  \/ log'[r] = {} /\ r \in live'
  \/ \E o \in Operators : op[o].pc = "drop" /\ op'[o] = Idle

(* Moving a stream to quarantine and back loses no message, also when two    *)
(* operators do it at the same time and the stream is written meanwhile.     *)
MessagesSurvive == [][\A r \in Rooms : KeepsMessages(r)]_vars

(* A permission re-check that has been quarantined is never delivered again: *)
(* replaying it would disconnect users who reconnected in the meantime.      *)
ReplaysNoAuthCheck(r) == \A e \in log'[r] \ log[r] : e.kind = "auth" => e.origin = e.id

AuthChecksNotReplayed == [][\A r \in Rooms : ReplaysNoAuthCheck(r)]_vars
=============================================================================
