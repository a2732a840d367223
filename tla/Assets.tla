------------------------------- MODULE Assets -------------------------------
(***************************************************************************)
(* The versions of one room in postgres and the objects they refer to in   *)
(* S3: Persistence.store, retrieveDoc, deleteReferences and purgeDoc with  *)
(* the plugin S3PersistenceV1, as concurrent runs of YHub._runTask, a hard *)
(* deletion and unsafePersistDoc use them.                                 *)
(*                                                                         *)
(* Compaction reads and writes a version in one step.  Here a version is a *)
(* row that was inserted after its object was uploaded, a read is a SELECT *)
(* followed by one GET for each row, and a superseded object is removed by *)
(* a timer that was started before its row was deleted.                    *)
(*                                                                         *)
(* Abstractions.  The four assets of a version are one object, and the     *)
(* room is one whose assets are references (branch main).  All messages    *)
(* are updates.  The pre-check of a run is one step; Compaction takes it   *)
(* apart.  A set holds the clocks for which a removal is scheduled:        *)
(* several may be, and firing leaves the clock in the set or not.  The     *)
(* bound is MaxClock.                                                      *)
(***************************************************************************)
EXTENDS Integers

CONSTANTS
  Workers,        \* concurrent runs of _runTask
  MaxClock,       \* bounds the clocks of messages and imports
  Operations,     \* which of delete, import, fail may happen
  LateRemoval,    \* does the delay of a removal outlast every read that needs the object?
  CleanImports    \* is a room imported into only while its stream is persisted and nobody writes?

ASSUME MaxClockAssumption == MaxClock \in Nat
ASSUME FlagsAssumption == LateRemoval \in BOOLEAN /\ CleanImports \in BOOLEAN

VARIABLES
  lastId,    \* the time of redis: the greatest clock so far
  written,   \* what was acknowledged: messages added and imports inserted
  log,       \* the stream of the room
  rows,      \* the clocks of the rows in yhub_ydoc_v1
  objects,   \* the objects in S3
  timers,    \* the clocks whose object a timer will remove
  deletion,  \* where deleteDoc(room, { hard: true }) is
  listed,    \* the rows a purge found
  import,    \* where unsafePersistDoc is, and its clock
  run        \* where each run of _runTask is

streamVars == <<lastId, written, log>>
storeVars == <<rows, objects, timers>>
deletionVars == <<deletion, listed>>
vars == <<streamVars, storeVars, deletionVars, import, run>>

Clocks == 0 .. MaxClock
NewestOf(S) == CHOOSE n \in S \union {0} : \A m \in S : m <= n
MaxOf(a, b) == IF a < b THEN b ELSE a

(* seen are the messages and refs the rows that a run has read, gets and todo *)
(* the requests that are outstanding, content what it has got so far.         *)
NoRun == [pc |-> "idle", seen |-> {}, refs |-> {}, gets |-> {}, todo |-> {},
          content |-> {}, clock |-> 0]
NoImport == [pc |-> "idle", clock |-> 0]

Init ==
  /\ lastId = 0 /\ written = {} /\ log = {}
  /\ rows = {} /\ objects = {} /\ timers = {}
  /\ deletion = "none" /\ listed = {}
  /\ import = NoImport
  /\ run = [w \in Workers |-> NoRun]

Hard == deletion # "none"
Stored == {o.t : o \in objects}
ContentAt(t) == UNION {o.content : o \in {p \in objects : p.t = t}}
Retrievable == UNION {ContentAt(t) : t \in rows}

-----------------------------------------------------------------------------
(* S3PersistenceV1 and Persistence.store *)

(* The path of an object is its clock: putObject replaces what is there. *)
PutObject(t, content) ==
  objects' = {o \in objects : o.t # t} \union {[t |-> t, content |-> content]}

(* INSERT ... WHERE NOT EXISTS a hard tombstone ON CONFLICT DO NOTHING *)
RowsInserted(t) == IF Hard THEN rows ELSE rows \union {t}

(* The assumption LateRemoval: nobody waits for the object any more. *)
IsUnread(t) == \A w \in Workers : t \notin run[w].gets

(* The callback of setTimeout in delete, after ten seconds. *)
RemoveObject(t) ==
  /\ t \in timers
  /\ LateRemoval => IsUnread(t)
  /\ objects' = {o \in objects : o.t # t}
  /\ \E left \in {timers, timers \ {t}} : timers' = left
  /\ UNCHANGED <<streamVars, rows, deletionVars, import, run>>

(* removeObject fails, or the process ends before the timer fires. *)
LoseTimer(t) ==
  /\ "fail" \in Operations /\ t \in timers
  /\ timers' = timers \ {t}
  /\ UNCHANGED <<streamVars, rows, objects, deletionVars, import, run>>

-----------------------------------------------------------------------------
(* The stream. *)

AddMessage ==
  /\ lastId < MaxClock
  /\ CleanImports => import.pc = "idle"
  /\ lastId' = lastId + 1
  /\ written' = written \union {lastId + 1}
  /\ log' = log \union {lastId + 1}
  /\ UNCHANGED <<storeVars, deletionVars, import, run>>

-----------------------------------------------------------------------------
(* _runTask *)

(* The pre-check: read the stream and the newest row, and go on if there is  *)
(* something new.                                                            *)
Begin(w) ==
  /\ run[w].pc = "idle" /\ log # {}
  /\ run' = [run EXCEPT ![w] =
       IF Hard \/ NewestOf(log) <= NewestOf(rows)
       THEN [NoRun EXCEPT !.pc = "finish", !.todo = {"trim"},
                          !.clock = MaxOf(NewestOf(rows), NewestOf(log))]
       ELSE [NoRun EXCEPT !.pc = "selecting", !.seen = log]]
  /\ UNCHANGED <<streamVars, storeVars, deletionVars, import>>

(* retrieveAssets: the rows, with the references they hold. *)
SelectRows(w) ==
  /\ run[w].pc = "selecting"
  /\ run' = [run EXCEPT ![w].pc = "getting", ![w].refs = rows, ![w].gets = rows]
  /\ UNCHANGED <<streamVars, storeVars, deletionVars, import>>

(* retrieve: a missing object adds nothing to the document, and the read goes on. *)
GetObject(w, t) ==
  /\ t \in run[w].gets
  /\ run' = [run EXCEPT ![w].gets = @ \ {t}, ![w].content = @ \union ContentAt(t)]
  /\ UNCHANGED <<streamVars, storeVars, deletionVars, import>>

(* A slip: no re-check after the merge. *)
OutdatedNever(w) == FALSE

(* The newest row is not older than the messages: somebody has stored them. *)
Outdated(w) == NewestOf(run[w].seen) <= NewestOf(run[w].refs)

(* A slip: older rows are not merged again. *)
MergedOfMessages(w) == run[w].seen

(* The versions merged with the messages after the newest of them. *)
Merged(w) ==
  run[w].content \union {m \in run[w].seen : m > NewestOf(run[w].refs)}

(* The merge and the re-check after it. *)
Merge(w) ==
  /\ run[w].pc = "getting" /\ run[w].gets = {}
  /\ run' = [run EXCEPT ![w] =
       IF Outdated(w)
       THEN [NoRun EXCEPT !.pc = "finish", !.todo = {"trim"}, !.clock = NewestOf(run[w].refs)]
       ELSE [run[w] EXCEPT !.pc = "uploading", !.content = Merged(w), !.clock = NewestOf(run[w].seen)]]
  /\ UNCHANGED <<streamVars, storeVars, deletionVars, import>>

(* store: the uploads ... *)
Upload(w) ==
  /\ run[w].pc = "uploading"
  /\ PutObject(run[w].clock, run[w].content)
  /\ run' = [run EXCEPT ![w].pc = "inserting"]
  /\ UNCHANGED <<streamVars, rows, timers, deletionVars, import>>

(* A slip: the rows that are there now are superseded. *)
SupersededNow(w) == RowsInserted(run[w].clock)

(* The rows that getDoc has merged. *)
Superseded(w) == run[w].refs

(* ... and the INSERT.  What getDoc merged is superseded now: deleteReferences *)
(* starts the removal of its objects and then sends the DELETE of its rows,    *)
(* next to the trim.                                                           *)
Insert(w) ==
  /\ run[w].pc = "inserting"
  /\ rows' = RowsInserted(run[w].clock)
  /\ timers' = timers \union Superseded(w)
  /\ run' = [run EXCEPT ![w].pc = "finish", ![w].refs = Superseded(w), ![w].todo = {"delete", "trim"}]
  /\ UNCHANGED <<streamVars, objects, deletionVars, import>>

Answered(w, request) ==
  run' = [run EXCEPT ![w] =
            IF run[w].todo = {request} THEN NoRun ELSE [run[w] EXCEPT !.todo = @ \ {request}]]

DeleteRows(w) ==
  /\ run[w].pc = "finish" /\ "delete" \in run[w].todo
  /\ rows' = rows \ run[w].refs
  /\ Answered(w, "delete")
  /\ UNCHANGED <<streamVars, objects, timers, deletionVars, import>>

(* Messages that are persisted, and of them only those that are old enough. *)
TrimMessages(w) ==
  /\ run[w].pc = "finish" /\ "trim" \in run[w].todo
  /\ \E cutoff \in 0 .. run[w].clock + 1 : log' = {m \in log : m >= cutoff}
  /\ Answered(w, "trim")
  /\ UNCHANGED <<lastId, written, storeVars, deletionVars, import>>

(* A request that fails, or a crash. *)
Fail(w) ==
  /\ "fail" \in Operations /\ run[w].pc # "idle"
  /\ run' = [run EXCEPT ![w] = NoRun]
  /\ UNCHANGED <<streamVars, storeVars, deletionVars, import>>

-----------------------------------------------------------------------------
(* deleteDoc(room, { hard: true }) and purgeDoc; it may be called again at any *)
(* time, because it failed or to be sure.                                      *)

StoreTombstone ==
  /\ "delete" \in Operations /\ deletion # "tombstone"
  /\ deletion' = "tombstone" /\ listed' = {}
  /\ UNCHANGED <<streamVars, storeVars, import, run>>

ClearMessages ==
  /\ deletion = "tombstone"
  /\ deletion' = "cleared" /\ log' = {}
  /\ UNCHANGED <<lastId, written, storeVars, listed, import, run>>

(* retrieveAssets with onlyReferences, and the start of deleteReferences. *)
ListReferences ==
  /\ deletion = "cleared"
  /\ deletion' = "listed" /\ listed' = rows
  /\ timers' = timers \union rows
  /\ UNCHANGED <<streamVars, rows, objects, import, run>>

PurgeRows ==
  /\ deletion = "listed"
  /\ deletion' = "purged" /\ rows' = rows \ listed /\ listed' = {}
  /\ UNCHANGED <<streamVars, objects, timers, import, run>>

-----------------------------------------------------------------------------
(* unsafePersistDoc: a version whose clock is the time at which it begins. *)

BeginImport ==
  /\ "import" \in Operations /\ import.pc = "idle" /\ lastId < MaxClock
  /\ CleanImports => NewestOf(log) <= NewestOf(rows)
  /\ lastId' = lastId + 1
  /\ import' = [pc |-> "uploading", clock |-> lastId + 1]
  /\ UNCHANGED <<written, log, storeVars, deletionVars, run>>

UploadImport ==
  /\ import.pc = "uploading"
  /\ PutObject(import.clock, {import.clock})
  /\ import' = [import EXCEPT !.pc = "inserting"]
  /\ UNCHANGED <<streamVars, rows, timers, deletionVars, run>>

InsertImport ==
  /\ import.pc = "inserting"
  /\ rows' = RowsInserted(import.clock)
  /\ written' = written \union {import.clock}
  /\ import' = NoImport
  /\ UNCHANGED <<lastId, log, objects, timers, deletionVars, run>>

FailImport ==
  /\ "fail" \in Operations /\ import.pc # "idle"
  /\ import' = NoImport
  /\ UNCHANGED <<streamVars, storeVars, deletionVars, run>>

-----------------------------------------------------------------------------
Run(w) ==
  \/ Begin(w) \/ SelectRows(w) \/ (\E t \in Clocks : GetObject(w, t)) \/ Merge(w)
  \/ Upload(w) \/ Insert(w) \/ DeleteRows(w) \/ TrimMessages(w)

Plugin == \E t \in Clocks : RemoveObject(t) \/ LoseTimer(t)

Deletion == StoreTombstone \/ ClearMessages \/ ListReferences \/ PurgeRows

Import == BeginImport \/ UploadImport \/ InsertImport \/ FailImport

Next == AddMessage \/ (\E w \in Workers : Run(w) \/ Fail(w)) \/ Plugin \/ Deletion \/ Import

Spec == Init /\ [][Next]_vars

-----------------------------------------------------------------------------
TypeOK ==
  /\ lastId \in Clocks
  /\ written \subseteq 1 .. lastId /\ log \subseteq written
  /\ rows \subseteq 1 .. lastId /\ timers \subseteq 1 .. lastId
  /\ objects \in SUBSET [t : 1 .. lastId, content : SUBSET Clocks]
  /\ \A o, p \in objects : o.t = p.t => o = p
  /\ deletion \in {"none", "tombstone", "cleared", "listed", "purged"}
  /\ listed \subseteq Clocks
  /\ import \in [pc : {"idle", "uploading", "inserting"}, clock : Clocks]
  /\ run \in [Workers -> [pc : {"idle", "selecting", "getting", "uploading", "inserting", "finish"},
                          seen : SUBSET Clocks, refs : SUBSET Clocks,
                          gets : SUBSET Clocks, todo : SUBSET {"delete", "trim"},
                          content : SUBSET Clocks, clock : Clocks]]

(* No update is lost: what was written is on the stream, or in an object    *)
(* that a row refers to, until a hard deletion erases it.  (index.js:201:   *)
(* a row may hold "the only copy of the document".)  The variables have     *)
(* their types, and no clock has two objects.                               *)
StaysRetrievable == TypeOK /\ (~Hard => written \subseteq log \union Retrievable)

(* A reference to a missing object "reads back as silently missing content" *)
(* (index.js:32).  The removal of an object starts before its row is        *)
(* deleted, so there may be such rows; but the newest row has its object.   *)
NewestHasObject == ~Hard /\ rows # {} => NewestOf(rows) \in Stored

(* "Both workers write the same assets" (stream.js:664): an object that a   *)
(* row refers to is not replaced by one with other content.                 *)
SameContent ==
  [][\A t \in rows \intersect rows' : t \in Stored /\ t \in Stored' /\ ~Hard =>
        ContentAt(t) = ContentAt(t)']_vars
=============================================================================
