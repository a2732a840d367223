-------------------------- MODULE CompactionProofs --------------------------
(***************************************************************************)
(* Proofs about Compaction, for any number of runs, tasks and messages,    *)
(* and at the end about the readers of DocReader next to them.             *)
(*                                                                         *)
(* Neither NothingLost nor RowsComplete is inductive.  A trim loses        *)
(* nothing because the run that trims has stored, or has found, a row for  *)
(* all it trims; a row is complete because what a run has read from the    *)
(* stream, some awaits ago, is still complete but for what newer rows      *)
(* hold.  The invariant (IInv) says this of the variables of each run, and *)
(* rests on the newest row never being deleted: the references that a run  *)
(* deletes are older than the row it has stored.                           *)
(*                                                                         *)
(* What Compaction implements, a DocStore and a RoomStream, is proved step *)
(* by step after that.                                                     *)
(*                                                                         *)
(* A read puts together what it has read of the rows and of the stream at  *)
(* two times, so its invariant (ReaderIInv) says of each half what it      *)
(* contributes: the rows all changes up to their clock (RowsRead), the     *)
(* stream all but those that are stored and trimmed (StreamRead).  That    *)
(* the latter stay stored is part of IInv, which readers do not touch.     *)
(***************************************************************************)
EXTENDS CompactionImplements, DocReader, SequenceTheorems, TLAPS

(* There is a row for the message m, or for what comes after it. *)
Covered(m) == \E r \in rows : m <= r.t

(* There is a row for all changes up to the clock n. *)
Persisted(n) == \A m \in written : m <= n => Covered(m)

(* Nothing that a row or a run holds is newer than the stream, and a run    *)
(* that read a hard tombstone is right.                                     *)
RunBound(w) ==
  /\ snap[w].last <= lastId /\ \A m \in snap[w].messages : m <= snap[w].last
  /\ pre[w].clock <= lastId /\ (pre[w].hard => Hard)
  /\ doc[w].clock <= lastId

Bound ==
  /\ \A r \in rows : r.t <= lastId
  /\ \A w \in Workers : RunBound(w)

RowComplete(r) == r.content = UpTo(r.t)

(* All references are older than the document that supersedes them. *)
RefsAreOlder(w) == \A t \in doc[w].refs : t < doc[w].clock

(* What a run knows.                                                        *)
SnapOK(w) == \A m \in written : m <= snap[w].last => m \in snap[w].messages \/ Covered(m)
StoreOK(w) == pc[w] = "store" => doc[w].content = UpTo(doc[w].clock) /\ RefsAreOlder(w)
FinishOK(w) ==
  pc[w] = "finish" =>
    /\ Persisted(doc[w].clock)
    /\ "references" \in todo[w] => RefsAreOlder(w) /\ Covered(doc[w].clock)
RunOK(w) == SnapOK(w) /\ Persisted(pre[w].clock) /\ StoreOK(w) /\ FinishOK(w)

Data ==
  /\ \A r \in rows : RowComplete(r)
  /\ \A m \in written : m \in log \/ Covered(m)
  /\ \A w \in Workers : RunOK(w)

(* A purge has listed all rows that are there. *)
Purge ==
  /\ deletion = "listed" => Times(rows) \subseteq listed
  /\ PurgedStaysErased

IInv == TypeOK /\ Bound /\ Purge /\ (~Hard => Data)

-----------------------------------------------------------------------------
(* Types *)

Snaps == [messages : SUBSET Clocks, last : Clocks]
Pres == [clock : Clocks, hard : BOOLEAN]
Docs == [content : SUBSET Clocks, clock : Clocks, refs : SUBSET Clocks]
Steps == {"stream", "clock", "references", "trim"}
Positions == {"idle", "reading", "getDoc", "store", "finish"}

(* The variables of the stream and those of the runs, apart.                *)
StreamType ==
  /\ live \in BOOLEAN /\ disabled \in BOOLEAN /\ (~live => log = {})
  /\ lastId \in Clocks
  /\ log \in SUBSET (1 .. lastId) /\ written \in SUBSET (1 .. lastId)
  /\ pending \in SUBSET TaskIds

StorageType ==
  /\ rows \in SUBSET Rows
  /\ deletion \in {"none", "tombstone", "cleared", "kicked", "listed", "purged"}
  /\ listed \in SUBSET Clocks

RunType ==
  /\ pc \in [Workers -> Positions]
  /\ todo \in [Workers -> SUBSET Steps]
  /\ task \in [Workers -> TaskIds \union {NoTask}]
  /\ snap \in [Workers -> Snaps]
  /\ pre \in [Workers -> Pres]
  /\ doc \in [Workers -> Docs]

(* TypeOK by parts. *)
LEMMA Types == TypeOK <=> StreamType /\ StorageType /\ RunType
BY DEF TypeOK, StreamType, StorageType, RunType, Snaps, Pres, Docs, Steps, Positions

(* The empty values have their types. *)
LEMMA Empty == 0 \in Clocks /\ NoSnap \in Snaps /\ NoPre \in Pres /\ NoDoc \in Docs
BY MaxClockAssumption DEF Clocks, NoSnap, NoPre, NoDoc, Snaps, Pres, Docs

(* The later of two clocks is a clock. *)
LEMMA MaxOfType ==
  ASSUME NEW a \in Clocks, NEW b \in Clocks
  PROVE  MaxOf(a, b) \in Clocks /\ a <= MaxOf(a, b) /\ b <= MaxOf(a, b)
BY MaxClockAssumption DEF MaxOf, Clocks

(* The types of the initial state. *)
LEMMA TypeInit == Init => TypeOK
<1> SUFFICES ASSUME Init PROVE StreamType /\ StorageType /\ RunType
  BY Types
<1>1. StreamType
  BY Empty DEF Init, StreamType
<1>2. StorageType
  BY DEF Init, StorageType
<1>3. RunType
  BY Empty DEF Init, RunType, Positions
<1> QED BY <1>1, <1>2, <1>3

(* A message more, and a task for it if the stream needs one. *)
LEMMA AppendType ==
  ASSUME StreamType, lastId < MaxClock, lastId' = lastId + 1,
         log' = log \union {lastId + 1}, live' = TRUE, UNCHANGED disabled,
         written' = written \/ written' = written \union {lastId + 1},
         UNCHANGED pending \/ EnqueueInto(pending)
  PROVE  StreamType'
<1>1. lastId \in Nat /\ lastId + 1 \in Clocks
  BY MaxClockAssumption DEF StreamType, Clocks
<1>2. 1 .. lastId \subseteq 1 .. lastId' /\ lastId + 1 \in 1 .. lastId'
  BY <1>1
<1>4. log' \in SUBSET (1 .. lastId') /\ written' \in SUBSET (1 .. lastId')
  <2>1. log \subseteq 1 .. lastId /\ written \subseteq 1 .. lastId
    BY DEF StreamType
  <2> QED BY <1>2, <2>1
<1>3. pending' \in SUBSET TaskIds
  BY DEF StreamType, EnqueueInto
<1> QED BY <1>1, <1>3, <1>4 DEF StreamType

(* A stream that is trimmed, with any tasks. *)
LEMMA TrimType ==
  ASSUME StreamType, live' \in BOOLEAN, disabled' \in BOOLEAN, ~live' => log' = {},
         log' \subseteq log, UNCHANGED <<lastId, written>>, pending' \in SUBSET TaskIds
  PROVE  StreamType'
BY DEF StreamType

(* The run of w gets new values, the others keep theirs. *)
LEMMA RunTypeStep ==
  ASSUME RunType, NEW w \in Workers,
         NEW a \in Positions, pc' = pc \/ pc' = [pc EXCEPT ![w] = a],
         NEW b \in SUBSET Steps, todo' = todo \/ todo' = [todo EXCEPT ![w] = b],
         NEW t \in TaskIds \union {NoTask}, task' = task \/ task' = [task EXCEPT ![w] = t],
         NEW s \in Snaps, snap' = snap \/ snap' = [snap EXCEPT ![w] = s],
         NEW p \in Pres, pre' = pre \/ pre' = [pre EXCEPT ![w] = p],
         NEW d \in Docs, doc' = doc \/ doc' = [doc EXCEPT ![w] = d]
  PROVE  RunType'
BY DEF RunType

(* The end of a run. *)
LEMMA ResetType ==
  ASSUME RunType, NEW w \in Workers, Reset(w)
  PROVE  RunType'
<1>1. "idle" \in Positions /\ {} \in SUBSET Steps
  BY DEF Positions
<1> QED BY <1>1, Empty, RunTypeStep DEF Reset

(* The run of w goes on to trim. *)
LEMMA TrimOnlyType ==
  ASSUME RunType, NEW w \in Workers, NEW clock \in Clocks, TrimOnly(w, clock),
         UNCHANGED <<task, snap, pre>>
  PROVE  RunType'
<1>1. "finish" \in Positions /\ {"trim"} \in SUBSET Steps
  BY DEF Positions, Steps
<1>2. [NoDoc EXCEPT !.clock = clock] \in Docs
  BY DEF NoDoc, Docs
<1> QED BY <1>1, <1>2, Empty, RunTypeStep DEF TrimOnly

(* One step of _runTask. *)
LEMMA TypeOfRun ==
  ASSUME StreamType, StorageType, RunType, NEW w \in Workers, Run(w) \/ Fail(w)
  PROVE  StreamType' /\ StorageType' /\ RunType'
<1> USE DEF streamVars, erasureVars
<1>n. \A n \in Times(rows) \union {0} : n \in Clocks
  BY Empty DEF StorageType, Rows, Times
<1>s. snap[w] \in Snaps /\ pre[w] \in Pres /\ doc[w] \in Docs
  BY DEF RunType
<1>l. log \in SUBSET Clocks /\ \A n \in log \union {0} : n \in Clocks
  <2>1. 1 .. lastId \subseteq Clocks
    BY MaxClockAssumption DEF StreamType, Clocks
  <2> QED BY <2>1, Empty DEF StreamType
<1>t. todo[w] \in SUBSET Steps /\ \A x : todo[w] \ {x} \in SUBSET Steps
  BY DEF RunType
<1>u. ASSUME UNCHANGED streamVars PROVE StreamType'
  BY <1>u DEF StreamType
<1>v. ASSUME UNCHANGED <<rows, deletion, listed>> PROVE StorageType'
  BY <1>v DEF StorageType
<1>c. ASSUME NEW x, Completed(w, x) PROVE RunType'
  <2>1. CASE todo[w] = {x}
    BY <1>c, <2>1, ResetType DEF Completed
  <2>2. CASE todo[w] # {x}
    BY <1>c, <2>2, <1>t DEF Completed, RunType
  <2> QED BY <2>1, <2>2
<1>1. ASSUME Claim(w) PROVE StreamType' /\ StorageType' /\ RunType'
  <2>1. PICK t \in pending : task' = [task EXCEPT ![w] = t]
    BY <1>1 DEF Claim
  <2>2. t \in TaskIds \union {NoTask}
    BY <2>1 DEF StreamType
  <2>3. "reading" \in Positions /\ {"stream", "clock"} \in SUBSET Steps
    BY DEF Positions, Steps
  <2>4. RunType'
    BY <1>1, <2>1, <2>2, <2>3, Empty, RunTypeStep DEF Claim
  <2> QED BY <1>1, <1>u, <1>v, <2>4 DEF Claim
<1>2. ASSUME ReadStream(w) PROVE StreamType' /\ StorageType' /\ RunType'
  <2>1. PICK n \in log \union {0} : snap' = [snap EXCEPT ![w] = [messages |-> log, last |-> n]]
    BY <1>2 DEF ReadStream
  <2>2. [messages |-> log, last |-> n] \in Snaps
    BY <1>l DEF Snaps
  <2>3. RunType'
    BY <1>2, <1>t, <2>1, <2>2 DEF ReadStream, RunType
  <2> QED BY <1>2, <1>u, <1>v, <2>3 DEF ReadStream
<1>3. ASSUME ReadClock(w) PROVE StreamType' /\ StorageType' /\ RunType'
  <2>1. PICK n \in Times(rows) \union {0} : pre' = [pre EXCEPT ![w] = [clock |-> n, hard |-> Hard]]
    BY <1>3 DEF ReadClock
  <2>2. [clock |-> n, hard |-> Hard] \in Pres
    BY <1>n DEF Pres, Hard
  <2>3. RunType'
    BY <1>3, <1>t, <2>1, <2>2 DEF ReadClock, RunType
  <2> QED BY <1>3, <1>u, <1>v, <2>3 DEF ReadClock
<1>4. ASSUME PreCheck(w) PROVE StreamType' /\ StorageType' /\ RunType'
  <2>1. MaxOf(pre[w].clock, snap[w].last) \in Clocks
    BY <1>s, MaxOfType DEF Snaps, Pres
  <2>2. CASE TrimOnly(w, MaxOf(pre[w].clock, snap[w].last))
    BY <1>4, <1>u, <1>v, <2>1, <2>2, TrimOnlyType DEF PreCheck
  <2>3. CASE pc' = [pc EXCEPT ![w] = "getDoc"] /\ UNCHANGED <<todo, doc>>
    <3>1. RunType'
      BY <1>4, <2>3 DEF PreCheck, RunType, Positions
    <3> QED BY <1>4, <1>u, <1>v, <3>1 DEF PreCheck
  <2> QED BY <1>4, <2>2, <2>3 DEF PreCheck
<1>5. ASSUME GetDoc(w) PROVE StreamType' /\ StorageType' /\ RunType'
  <2>1. PICK n \in Times(rows) \union {0} :
          IF Outdated(w, n) THEN TrimOnly(w, MaxOf(n, snap[w].last))
          ELSE /\ pc' = [pc EXCEPT ![w] = "store"]
               /\ doc' = [doc EXCEPT ![w] = [content |-> Merged(w, n),
                                             clock |-> MaxOf(n, snap[w].last),
                                             refs |-> Times(rows)]]
               /\ UNCHANGED todo
    BY <1>5 DEF GetDoc
  <2>2. MaxOf(n, snap[w].last) \in Clocks
    BY <1>s, <1>n, MaxOfType DEF Snaps
  <2>3. CASE TrimOnly(w, MaxOf(n, snap[w].last))
    BY <1>5, <1>u, <1>v, <2>2, <2>3, TrimOnlyType DEF GetDoc
  <2>4. CASE ~Outdated(w, n)
    <3> DEFINE d == [content |-> Merged(w, n), clock |-> MaxOf(n, snap[w].last),
                     refs |-> Times(rows)]
    <3>1. Merged(w, n) \in SUBSET Clocks
      BY <1>s DEF Merged, Content, StorageType, Rows, Snaps
    <3>2. d \in Docs
      BY <1>n, <2>2, <3>1 DEF Docs
    <3> HIDE DEF d
    <3>3. doc' = [doc EXCEPT ![w] = d] /\ pc' = [pc EXCEPT ![w] = "store"] /\ todo' = todo
      BY <2>1, <2>4 DEF d
    <3>4. RunType'
      BY <1>5, <3>2, <3>3 DEF GetDoc, RunType, Positions
    <3> QED BY <1>5, <1>u, <1>v, <3>4 DEF GetDoc
  <2> QED BY <2>1, <2>3, <2>4
<1>6. ASSUME Store(w) PROVE StreamType' /\ StorageType' /\ RunType'
  <2>1. [t |-> doc[w].clock, content |-> doc[w].content] \in Rows
    BY <1>s DEF Docs, Rows
  <2>2. rows' \in SUBSET Rows
    BY <1>6, <2>1 DEF Store, Inserted, StorageType
  <2>3. RunType'
    BY <1>6 DEF Store, RunType, Positions, Steps
  <2> QED BY <1>6, <1>u, <2>2, <2>3 DEF Store, StorageType
<1>7. ASSUME DeleteReferences(w) PROVE StreamType' /\ StorageType' /\ RunType'
  <2>1. StorageType'
    BY <1>7 DEF DeleteReferences, StorageType
  <2> QED BY <1>7, <1>u, <1>c, <2>1 DEF DeleteReferences
<1>8. ASSUME TrimMessages(w) PROVE StreamType' /\ StorageType' /\ RunType'
  <2>1. CASE Acks(w)
    <3>1. PICK cutoff \in Cutoff(w) :
            LET kept == {i \in log : i >= cutoff} IN
            log' = kept /\ live' = LiveAfterTrim(kept) /\ Successor(w, kept)
      BY <1>8, <2>1 DEF TrimMessages
    <3>2. log' \subseteq log /\ live' = LiveAfterTrim(log') /\ Successor(w, log')
      BY <3>1
    <3>3. pending' \in SUBSET TaskIds
      BY <3>2 DEF Successor, EnqueueInto, StreamType
    <3>4. live' \in BOOLEAN /\ (~live' => log' = {})
      BY <3>2 DEF LiveAfterTrim, StreamType
    <3>5. StreamType'
      BY <1>8, <3>2, <3>3, <3>4, TrimType DEF TrimMessages, StreamType
    <3> QED BY <1>8, <1>v, <1>c, <3>5 DEF TrimMessages
  <2>2. CASE ~Acks(w)
    BY <1>8, <1>u, <1>v, <1>c, <2>2 DEF TrimMessages
  <2> QED BY <2>1, <2>2
<1>9. ASSUME Fail(w) PROVE StreamType' /\ StorageType' /\ RunType'
  BY <1>9, <1>u, <1>v, ResetType DEF Fail
<1> QED BY <1>1, <1>2, <1>3, <1>4, <1>5, <1>6, <1>7, <1>8, <1>9 DEF Run

(* All other steps leave the runs alone. *)
LEMMA TypeOfOthers ==
  ASSUME StreamType, StorageType, RunType, Client \/ Deletion \/ Operator
  PROVE  StreamType' /\ StorageType' /\ RunType'
<1> USE DEF streamVars, erasureVars, runVars
<1>r. ASSUME UNCHANGED runVars PROVE RunType'
  BY <1>r DEF RunType
<1>u. ASSUME UNCHANGED streamVars PROVE StreamType'
  BY <1>u DEF StreamType
<1>v. ASSUME UNCHANGED <<rows, deletion, listed>> PROVE StorageType'
  BY <1>v DEF StorageType
<1>1. ASSUME NEW changesDoc \in BOOLEAN, AddMessage(changesDoc)
      PROVE  StreamType' /\ StorageType' /\ RunType'
  BY <1>1, <1>r, <1>v, AppendType DEF AddMessage
<1>2. ASSUME Operator PROVE StreamType' /\ StorageType' /\ RunType'
  BY <1>2, <1>r, <1>v DEF Operator, DisableCompaction, EnableCompaction, EnqueueInto, StreamType
<1>3. ASSUME StoreTombstone \/ RepeatDeletion PROVE StreamType' /\ StorageType' /\ RunType'
  BY <1>3, <1>r, <1>u DEF StoreTombstone, RepeatDeletion, StorageType
<1>4. ASSUME ClearMessages PROVE StreamType' /\ StorageType' /\ RunType'
  BY <1>4, <1>r DEF ClearMessages, StreamType, StorageType
<1>5. ASSUME AddTombstoneMessage PROVE StreamType' /\ StorageType' /\ RunType'
  <2>1. StreamType'
    BY <1>5, AppendType DEF AddTombstoneMessage
  <2>2. StorageType'
    BY <1>5 DEF AddTombstoneMessage, StorageType
  <2> QED BY <1>5, <1>r, <2>1, <2>2 DEF AddTombstoneMessage
<1>6. ASSUME ListRows PROVE StreamType' /\ StorageType' /\ RunType'
  <2>1. Times(rows) \in SUBSET Clocks
    BY DEF StorageType, Rows, Times
  <2> QED BY <1>6, <1>r, <1>u, <2>1 DEF ListRows, StorageType
<1>7. ASSUME PurgeRows PROVE StreamType' /\ StorageType' /\ RunType'
  BY <1>7, <1>r, <1>u DEF PurgeRows, StorageType
<1> QED BY <1>1, <1>2, <1>3, <1>4, <1>5, <1>6, <1>7 DEF Client, Deletion, Operator

(* Every step keeps the types. *)
THEOREM TypeStep == TypeOK /\ [Next]_vars => TypeOK'
<1> SUFFICES ASSUME StreamType, StorageType, RunType, [Next]_vars
             PROVE  StreamType' /\ StorageType' /\ RunType'
  BY Types DEF TypeOK, StreamType, StorageType, RunType, Snaps, Pres, Docs, Steps, Positions
<1>1. CASE UNCHANGED vars
  BY <1>1 DEF vars, StreamType, StorageType, RunType
<1>2. CASE Next
  BY <1>2, TypeOfRun, TypeOfOthers DEF Next
<1> QED BY <1>1, <1>2

-----------------------------------------------------------------------------
(* Nothing is newer than the stream. *)

(* Initially all clocks are 0. *)
LEMMA BoundInit == Init => Bound
BY MaxClockAssumption DEF Init, Bound, RunBound, NoSnap, NoPre, NoDoc

(* The clocks of a run that does not move stay behind the stream. *)
LEMMA RunBoundStays ==
  ASSUME TypeOK, TypeOK', NEW w \in Workers, RunBound(w), lastId <= lastId', Hard => Hard',
         snap'[w] = snap[w], pre'[w] = pre[w], doc'[w] = doc[w]
  PROVE  RunBound(w)'
<1>0. lastId \in Nat /\ lastId' \in Nat
  BY MaxClockAssumption DEF TypeOK, Clocks
<1>1. snap[w].last \in Nat /\ pre[w].clock \in Nat /\ doc[w].clock \in Nat
  BY MaxClockAssumption, Types DEF RunType, Snaps, Pres, Docs, Clocks
<1>2. snap[w].last <= lastId' /\ pre[w].clock <= lastId' /\ doc[w].clock <= lastId'
  BY <1>0, <1>1 DEF RunBound
<1> QED BY <1>2 DEF RunBound

(* Only one run moves at a time. *)
LEMMA OthersStay ==
  ASSUME TypeOK, NEW w \in Workers, Run(w) \/ Fail(w), NEW v \in Workers, v # w
  PROVE  /\ pc'[v] = pc[v] /\ todo'[v] = todo[v] /\ snap'[v] = snap[v]
         /\ pre'[v] = pre[v] /\ doc'[v] = doc[v]
<1> USE DEF runVars, erasureVars, streamVars
<1>1. ASSUME Reset(w)
      PROVE  /\ pc'[v] = pc[v] /\ todo'[v] = todo[v] /\ snap'[v] = snap[v]
             /\ pre'[v] = pre[v] /\ doc'[v] = doc[v]
  BY <1>1, Types DEF Reset, RunType
<1>2. ASSUME NEW x, Completed(w, x)
      PROVE  /\ pc'[v] = pc[v] /\ todo'[v] = todo[v] /\ snap'[v] = snap[v]
             /\ pre'[v] = pre[v] /\ doc'[v] = doc[v]
  BY <1>1, <1>2, Types DEF Completed, RunType
<1>3. CASE Claim(w) \/ ReadStream(w) \/ ReadClock(w) \/ Store(w)
  BY <1>3, Types DEF Claim, ReadStream, ReadClock, Store, RunType
<1>4. CASE PreCheck(w) \/ GetDoc(w)
  BY <1>4, Types DEF PreCheck, GetDoc, TrimOnly, RunType
<1>5. CASE DeleteReferences(w) \/ TrimMessages(w) \/ Fail(w)
  BY <1>1, <1>2, <1>5 DEF DeleteReferences, TrimMessages, Fail
<1> QED BY <1>3, <1>4, <1>5 DEF Run

(* A run does not write to the stream, and does not delete the document. *)
LEMMA RunLeaves ==
  ASSUME NEW w \in Workers, Run(w) \/ Fail(w)
  PROVE  UNCHANGED <<lastId, written, disabled, deletion, listed>>
BY DEF Run, Fail, Claim, ReadStream, ReadClock, PreCheck, GetDoc, Store, DeleteReferences,
       TrimMessages, streamVars, erasureVars

(* The run that moves has read its clocks from the stream or the rows. *)
LEMMA RunBoundMoves ==
  ASSUME TypeOK, TypeOK', Bound, NEW w \in Workers, Run(w) \/ Fail(w)
  PROVE  RunBound(w)'
<1> USE DEF streamVars, erasureVars, runVars
<1>1. lastId' = lastId /\ lastId \in Nat /\ (Hard => Hard')
  BY RunLeaves, Types, MaxClockAssumption DEF StreamType, Hard, Clocks
<1>2. RunBound(w)
  BY DEF Bound
<1>3. log \subseteq 1 .. lastId /\ \A r \in rows : r.t \in Nat /\ r.t <= lastId
  BY Types DEF Bound, StreamType, StorageType, Rows, Clocks
<1>4. \A n \in Times(rows) \union {0} : n \in Nat /\ n <= lastId
  BY <1>1, <1>3 DEF Times
<1>5. pre[w].clock \in Nat /\ snap[w].last \in Nat /\ doc[w].clock \in Nat
  BY Types DEF RunType, Pres, Snaps, Docs, Clocks
<1>6. \A a, b \in Nat : a <= lastId /\ b <= lastId => MaxOf(a, b) <= lastId
  BY DEF MaxOf
<1>r. ASSUME Reset(w) PROVE RunBound(w)'
  <2>1. snap'[w] = NoSnap /\ pre'[w] = NoPre /\ doc'[w] = NoDoc
    BY <1>r, Types DEF Reset, RunType
  <2> QED BY <1>1, <2>1 DEF RunBound, NoSnap, NoPre, NoDoc
<1>s. ASSUME snap'[w] = snap[w], pre'[w] = pre[w], doc'[w] = doc[w] PROVE RunBound(w)'
  BY <1>1, <1>2, <1>s, RunBoundStays
<1>t. ASSUME NEW n, n <= lastId, TrimOnly(w, n), snap' = snap, pre' = pre PROVE RunBound(w)'
  <2>1. doc'[w].clock = n
    BY <1>t, Types DEF TrimOnly, RunType, NoDoc
  <2> QED BY <1>1, <1>2, <1>t, <2>1 DEF RunBound
<1>c. ASSUME NEW x, Completed(w, x) PROVE RunBound(w)'
  BY <1>c, <1>r, <1>s DEF Completed
<1>7. CASE Claim(w) \/ Store(w)
  BY <1>7, <1>s DEF Claim, Store
<1>8. CASE ReadStream(w)
  <2>1. PICK n \in log \union {0} :
          IsLastEntry(log, n) /\ snap' = [snap EXCEPT ![w] = [messages |-> log, last |-> n]]
    BY <1>8 DEF ReadStream
  <2>2. snap'[w] = [messages |-> log, last |-> n]
    BY <2>1, Types DEF RunType
  <2>3. n <= lastId /\ \A m \in log : m <= n
    BY <1>1, <1>3, <2>1 DEF IsLastEntry
  <2> QED BY <1>1, <1>2, <1>8, <2>2, <2>3 DEF ReadStream, RunBound
<1>9. CASE ReadClock(w)
  <2>1. PICK n \in Times(rows) \union {0} : pre' = [pre EXCEPT ![w] = [clock |-> n, hard |-> Hard]]
    BY <1>9 DEF ReadClock
  <2>2. pre'[w] = [clock |-> n, hard |-> Hard]
    BY <2>1, Types DEF RunType
  <2> QED BY <1>1, <1>2, <1>4, <1>9, <2>2 DEF ReadClock, RunBound
<1>10. CASE PreCheck(w)
  <2>1. CASE TrimOnly(w, MaxOf(pre[w].clock, snap[w].last))
    <3>1. MaxOf(pre[w].clock, snap[w].last) <= lastId
      BY <1>2, <1>5, <1>6 DEF RunBound
    <3> QED BY <1>10, <1>t, <2>1, <3>1 DEF PreCheck
  <2>2. CASE UNCHANGED doc
    BY <1>10, <1>s, <2>2 DEF PreCheck
  <2> QED BY <1>10, <2>1, <2>2 DEF PreCheck
<1>11. CASE GetDoc(w)
  <2>1. PICK n \in Times(rows) \union {0} :
          IF Outdated(w, n) THEN TrimOnly(w, MaxOf(n, snap[w].last))
          ELSE doc' = [doc EXCEPT ![w] = [content |-> Merged(w, n),
                                          clock |-> MaxOf(n, snap[w].last),
                                          refs |-> Times(rows)]]
    BY <1>11 DEF GetDoc
  <2>2. MaxOf(n, snap[w].last) <= lastId
    BY <1>2, <1>4, <1>5, <1>6 DEF RunBound
  <2>3. CASE Outdated(w, n)
    BY <1>11, <1>t, <2>1, <2>2, <2>3 DEF GetDoc
  <2>4. CASE ~Outdated(w, n)
    <3>1. doc'[w].clock = MaxOf(n, snap[w].last)
      BY <2>1, <2>4, Types DEF RunType
    <3> QED BY <1>1, <1>2, <1>11, <2>2, <3>1 DEF GetDoc, RunBound
  <2> QED BY <2>3, <2>4
<1>12. CASE DeleteReferences(w) \/ TrimMessages(w) \/ Fail(w)
  BY <1>12, <1>c, <1>r DEF DeleteReferences, TrimMessages, Fail
<1> QED BY <1>7, <1>8, <1>9, <1>10, <1>11, <1>12 DEF Run

(* What a step may add to the rows: the document of a run. *)
LEMMA RowsStep ==
  ASSUME [Next]_vars, NEW r \in rows', r \notin rows
  PROVE  ~Hard /\ \E w \in Workers :
           Store(w) /\ r = [t |-> doc[w].clock, content |-> doc[w].content]
<1> USE DEF streamVars, erasureVars, runVars
<1>1. ASSUME NEW w \in Workers, Run(w) PROVE Store(w)
  BY <1>1 DEF Run, Claim, ReadStream, ReadClock, PreCheck, GetDoc, DeleteReferences, TrimMessages
<1>2. PICK w \in Workers : Store(w)
  BY <1>1 DEF Next, Fail, Client, AddMessage, Deletion, StoreTombstone, ClearMessages,
              AddTombstoneMessage, ListRows, PurgeRows, RepeatDeletion, Operator,
              DisableCompaction, EnableCompaction, vars
<1> QED BY <1>2 DEF Store, Inserted

(* The stream only gets newer, and a deletion is not undone. *)
LEMMA LastIdStep ==
  ASSUME TypeOK, [Next]_vars
  PROVE  lastId \in Nat /\ lastId' \in Nat /\ lastId <= lastId' /\ (Hard => Hard')
<1>1. lastId \in Nat
  BY Types, MaxClockAssumption DEF StreamType, Clocks
<1>2. (lastId' = lastId \/ lastId' = lastId + 1) /\ (Hard => Hard')
  BY RunLeaves DEF Next, vars, Client, AddMessage, Deletion, StoreTombstone, ClearMessages,
     AddTombstoneMessage, ListRows, PurgeRows, RepeatDeletion, Operator,
     DisableCompaction, EnableCompaction, streamVars, erasureVars, Hard
<1> QED BY <1>1, <1>2

(* Deletions, clients and operators leave the runs alone. *)
LEMMA RunsStay ==
  ASSUME UNCHANGED vars \/ Client \/ Deletion \/ Operator
  PROVE  UNCHANGED runVars
BY DEF vars, runVars, Client, AddMessage, Deletion, StoreTombstone, ClearMessages,
   AddTombstoneMessage, ListRows, PurgeRows, RepeatDeletion, Operator,
   DisableCompaction, EnableCompaction

(* Every step keeps all clocks behind the stream. *)
THEOREM BoundStep == TypeOK /\ TypeOK' /\ Bound /\ [Next]_vars => Bound'
<1> SUFFICES ASSUME TypeOK, TypeOK', Bound, [Next]_vars
             PROVE  Bound'
  OBVIOUS
<1>1. lastId \in Nat /\ lastId' \in Nat /\ lastId <= lastId' /\ (Hard => Hard')
  BY LastIdStep
<1>2. ASSUME NEW r \in rows' PROVE r.t <= lastId'
  <2>0. r.t \in Nat
    BY Types, MaxClockAssumption DEF StorageType, Rows, Clocks, TypeOK
  <2>1. CASE r \in rows
    BY <1>1, <2>0, <2>1 DEF Bound
  <2>2. CASE r \notin rows
    <3>1. PICK w \in Workers : r = [t |-> doc[w].clock, content |-> doc[w].content]
      BY <2>2, RowsStep
    <3>2. r.t <= lastId
      BY <3>1 DEF Bound, RunBound
    <3> QED BY <1>1, <2>0, <3>2
  <2> QED BY <2>1, <2>2
<1>3. ASSUME NEW w \in Workers PROVE RunBound(w)'
  <2>1. CASE Run(w) \/ Fail(w)
    BY <2>1, RunBoundMoves
  <2>2. CASE \E v \in Workers : v # w /\ (Run(v) \/ Fail(v))
    BY <1>1, <2>2, OthersStay, RunBoundStays DEF Bound
  <2>3. CASE UNCHANGED vars \/ Client \/ Deletion \/ Operator
    BY <1>1, <2>3, RunsStay, RunBoundStays DEF Bound, runVars
  <2> QED BY <2>1, <2>2, <2>3 DEF Next
<1> QED BY <1>2, <1>3 DEF Bound

-----------------------------------------------------------------------------
(* What rows and runs hold is complete.                                    *)

(* Initially there is nothing to be complete. *)
LEMMA DataInit == Init => Data
BY DEF Init, Data, RunOK, SnapOK, Persisted, StoreOK, FinishOK

(* Clocks are numbers. *)
LEMMA Numbers ==
  ASSUME TypeOK
  PROVE  /\ lastId \in Nat
         /\ \A m \in written : m \in Nat /\ 1 <= m /\ m <= lastId
         /\ \A m \in log : m \in Nat
         /\ \A r \in rows : r.t \in Nat
         /\ \A n \in Times(rows) \union {0} : n \in Nat
         /\ \A w \in Workers :
              /\ snap[w].last \in Nat /\ pre[w].clock \in Nat /\ doc[w].clock \in Nat
              /\ \A m \in snap[w].messages : m \in Nat
              /\ \A m \in doc[w].refs : m \in Nat
<1>1. \A n \in Clocks : n \in Nat
  BY MaxClockAssumption DEF Clocks
<1>2. /\ lastId \in Nat
      /\ \A m \in written : m \in Nat /\ 1 <= m /\ m <= lastId
      /\ \A m \in log : m \in Nat
  <2>1. written \subseteq 1 .. lastId /\ log \subseteq 1 .. lastId /\ lastId \in Clocks
    BY Types DEF StreamType
  <2> QED BY <1>1, <2>1
<1>3. \A r \in rows : r.t \in Nat
  BY <1>1, Types DEF StorageType, Rows
<1>4. ASSUME NEW w \in Workers
      PROVE  /\ snap[w].last \in Nat /\ pre[w].clock \in Nat /\ doc[w].clock \in Nat
             /\ \A m \in snap[w].messages : m \in Nat
             /\ \A m \in doc[w].refs : m \in Nat
  <2>1. snap[w] \in Snaps /\ pre[w] \in Pres /\ doc[w] \in Docs
    BY Types DEF RunType
  <2> QED BY <1>1, <2>1 DEF Snaps, Pres, Docs
<1> QED BY <1>2, <1>3, <1>4 DEF Times

(* Changes are only added, with newer clocks; and the newest row stays, or *)
(* a newer one comes.                                                       *)
Advances ==
  /\ \A m \in written : m \in written'
  /\ \A m \in written' : m \in written \/ lastId < m
  /\ \A r \in rows : \E s \in rows' : r.t <= s.t

(* So does every step, as long as the document is not erased: the rows that *)
(* DeleteReferences deletes are older than one that stays.                  *)
LEMMA AdvancesStep ==
  ASSUME TypeOK, TypeOK', Data, ~Hard', [Next]_vars
  PROVE  Advances
<1> USE DEF streamVars, erasureVars, runVars
<1>n. /\ lastId \in Nat /\ (\A r \in rows : r.t \in Nat)
      /\ \A w \in Workers : doc[w].clock \in Nat /\ \A m \in doc[w].refs : m \in Nat
  BY Numbers
<1>1. ASSUME rows \subseteq rows', written' = written PROVE Advances
  BY <1>n, <1>1 DEF Advances
<1>2. ASSUME NEW w \in Workers, Run(w) \/ Fail(w) PROVE Advances
  <2>1. written' = written
    BY <1>2, RunLeaves
  <2>2. CASE DeleteReferences(w)
    <3>1. rows' = {r \in rows : r.t \notin doc[w].refs} /\ pc[w] = "finish" /\ "references" \in todo[w]
      BY <2>2 DEF DeleteReferences, Superseded
    <3>2. RefsAreOlder(w) /\ Covered(doc[w].clock)
      BY <3>1 DEF Data, RunOK, FinishOK
    <3>3. PICK s \in rows : doc[w].clock <= s.t
      BY <3>2 DEF Covered
    <3>4. \A t \in doc[w].refs : t < s.t
      BY <1>n, <3>2, <3>3 DEF RefsAreOlder
    <3>5. s \in rows'
      BY <1>n, <3>1, <3>4
    <3>6. ASSUME NEW r \in rows PROVE \E q \in rows' : r.t <= q.t
      <4>1. CASE r.t \in doc[w].refs
        BY <1>n, <3>4, <3>5, <4>1
      <4>2. CASE r.t \notin doc[w].refs
        BY <1>n, <3>1, <4>2
      <4> QED BY <4>1, <4>2
    <3> QED BY <2>1, <3>6 DEF Advances
  <2>3. CASE ~DeleteReferences(w)
    <3>1. rows \subseteq rows'
      BY <1>2, <2>3 DEF Run, Fail, Claim, ReadStream, ReadClock, PreCheck, GetDoc, Store, Inserted,
         TrimMessages
    <3> QED BY <1>1, <2>1, <3>1
  <2> QED BY <2>2, <2>3
<1>3. ASSUME Client PROVE Advances
  BY <1>n, <1>3 DEF Client, AddMessage, Advances
<1>4. ASSUME Deletion \/ Operator \/ UNCHANGED vars PROVE Advances
  BY <1>1, <1>4 DEF Deletion, StoreTombstone, ClearMessages, AddTombstoneMessage, ListRows,
     PurgeRows, RepeatDeletion, Operator, DisableCompaction, EnableCompaction, vars, Hard
<1> QED BY <1>2, <1>3, <1>4 DEF Next

(* What has a row keeps one. *)
LEMMA CoveredStays ==
  ASSUME TypeOK, TypeOK', Advances, NEW m \in Nat, Covered(m)
  PROVE  Covered(m)'
<1>1. PICK r \in rows : m <= r.t
  BY DEF Covered
<1>2. PICK s \in rows' : r.t <= s.t
  BY DEF Advances
<1>3. r.t \in Nat
  BY Numbers
<1>4. s.t \in Nat
  BY MaxClockAssumption DEF TypeOK, Rows, Clocks
<1> QED BY <1>1, <1>2, <1>3, <1>4 DEF Covered

(* What is complete up to a clock that the stream has reached stays so.     *)
LEMMA UpToStays ==
  ASSUME TypeOK, TypeOK', Advances, NEW n \in Nat, n <= lastId
  PROVE  /\ \A m \in written' : m <= n => m \in written
         /\ UpTo(n)' = UpTo(n)
         /\ Persisted(n) => Persisted(n)'
<1>1. lastId \in Nat /\ \A m \in written : m \in Nat
  BY Numbers
<1>2. \A m \in written' : m \in Nat
  BY DEF TypeOK
<1>3. \A m \in written' : m <= n => m \in written
  BY <1>1, <1>2 DEF Advances
<1>4. UpTo(n)' = UpTo(n)
  BY <1>3 DEF UpTo, Advances
<1>5. ASSUME Persisted(n), NEW m \in written', m <= n PROVE Covered(m)'
  BY <1>1, <1>3, <1>5, CoveredStays DEF Persisted
<1> QED BY <1>3, <1>4, <1>5 DEF Persisted

(* A run that does not move, or only has one await less outstanding.        *)
LEMMA RunStays ==
  ASSUME TypeOK, TypeOK', Bound, Advances, NEW w \in Workers, RunOK(w),
         pc'[w] = pc[w], todo'[w] \subseteq todo[w],
         snap'[w] = snap[w], pre'[w] = pre[w], doc'[w] = doc[w]
  PROVE  RunOK(w)'
<1>1. PICK last \in Nat : last = snap[w].last
  BY Numbers
<1>2. PICK clock \in Nat : clock = pre[w].clock
  BY Numbers
<1>3. PICK time \in Nat : time = doc[w].clock
  BY Numbers
<1>4. last <= lastId /\ clock <= lastId /\ time <= lastId
  BY <1>1, <1>2, <1>3 DEF Bound, RunBound
<1>5. SnapOK(w)'
  <2> SUFFICES ASSUME NEW m \in written', m <= last
               PROVE  m \in snap[w].messages \/ Covered(m)'
    BY <1>1 DEF SnapOK
  <2>1. m \in written
    BY <1>4, UpToStays
  <2>2. m \in Nat
    BY <2>1, Numbers
  <2> QED BY <1>1, <2>1, <2>2, CoveredStays DEF RunOK, SnapOK
<1>6. Persisted(pre[w].clock)'
  <2>1. Persisted(clock)
    BY <1>2 DEF RunOK
  <2>2. Persisted(clock)'
    BY <1>4, <2>1, UpToStays
  <2> QED BY <1>2, <2>2 DEF Persisted
<1>7. StoreOK(w)'
  <2>1. UpTo(time)' = UpTo(time)
    BY <1>4, UpToStays
  <2>2. UpTo(doc[w].clock)' = UpTo(time)' /\ UpTo(doc[w].clock) = UpTo(time)
    BY <1>3 DEF UpTo
  <2> QED BY <2>1, <2>2 DEF RunOK, StoreOK, RefsAreOlder
<1>8. FinishOK(w)'
  <2> SUFFICES ASSUME pc[w] = "finish"
               PROVE  /\ Persisted(doc[w].clock)'
                      /\ "references" \in todo[w] => RefsAreOlder(w)' /\ Covered(doc[w].clock)'
    BY DEF FinishOK
  <2>1. Persisted(time) /\ ("references" \in todo[w] => RefsAreOlder(w) /\ Covered(time))
    BY <1>3 DEF RunOK, FinishOK
  <2>2. Persisted(time)' /\ (Covered(time) => Covered(time)')
    BY <1>4, <2>1, UpToStays, CoveredStays
  <2>3. Persisted(time)' <=> Persisted(doc[w].clock)'
    BY <1>3 DEF Persisted
  <2>4. Covered(time)' <=> Covered(doc[w].clock)'
    BY <1>3 DEF Covered
  <2> QED BY <2>1, <2>2, <2>3, <2>4 DEF RefsAreOlder
<1> QED BY <1>5, <1>6, <1>7, <1>8 DEF RunOK

(* A run that starts again knows nothing. *)
LEMMA ResetOK ==
  ASSUME TypeOK, TypeOK', NEW w \in Workers, Reset(w)
  PROVE  RunOK(w)'
<1>1. pc'[w] = "idle" /\ snap'[w] = NoSnap /\ pre'[w] = NoPre
  BY Types DEF Reset, RunType
<1>2. \A m \in written' : m \in Nat /\ 1 <= m
  BY DEF TypeOK
<1>3. SnapOK(w)' /\ Persisted(pre[w].clock)'
  BY <1>1, <1>2 DEF SnapOK, Persisted, NoSnap, NoPre
<1> QED BY <1>1, <1>3 DEF RunOK, StoreOK, FinishOK

(* The end of one of the last two awaits. *)
LEMMA CompletedOK ==
  ASSUME TypeOK, TypeOK', Bound, Advances, NEW w \in Workers, RunOK(w), NEW x, Completed(w, x)
  PROVE  RunOK(w)'
<1>1. CASE todo[w] = {x}
  BY <1>1, ResetOK DEF Completed
<1>2. CASE todo[w] # {x}
  <2>1. todo'[w] = todo[w] \ {x} /\ UNCHANGED <<pc, snap, pre, doc>>
    BY <1>2, Types DEF Completed, RunType
  <2> QED BY <2>1, RunStays
<1> QED BY <1>1, <1>2

(* A run that trims up to a clock for which all rows are there. *)
LEMMA TrimOnlyOK ==
  ASSUME TypeOK, TypeOK', Bound, Advances, NEW w \in Workers, RunOK(w),
         NEW n \in Nat, n <= lastId, Persisted(n), TrimOnly(w, n), UNCHANGED <<snap, pre>>
  PROVE  RunOK(w)'
<1>1. pc'[w] = "finish" /\ todo'[w] = {"trim"} /\ doc'[w].clock = n
  BY Types DEF TrimOnly, RunType, NoDoc
<1>2. PICK last \in Nat : last = snap[w].last
  BY Numbers
<1>3. PICK clock \in Nat : clock = pre[w].clock
  BY Numbers
<1>4. last <= lastId /\ clock <= lastId
  BY <1>2, <1>3 DEF Bound, RunBound
<1>5. SnapOK(w)'
  <2> SUFFICES ASSUME NEW m \in written', m <= last
               PROVE  m \in snap[w].messages \/ Covered(m)'
    BY <1>2 DEF SnapOK
  <2>1. m \in written
    BY <1>4, UpToStays
  <2>2. m \in Nat
    BY <2>1, Numbers
  <2> QED BY <1>2, <2>1, <2>2, CoveredStays DEF RunOK, SnapOK
<1>6. Persisted(pre[w].clock)'
  <2>1. Persisted(clock)
    BY <1>3 DEF RunOK
  <2>2. Persisted(clock)'
    BY <1>4, <2>1, UpToStays
  <2> QED BY <1>3, <2>2 DEF Persisted
<1>7. Persisted(n)'
  BY UpToStays
<1>8. FinishOK(w)'
  BY <1>1, <1>7 DEF FinishOK, Persisted
<1> QED BY <1>1, <1>5, <1>6, <1>8 DEF RunOK, StoreOK

(* What the newest row stands for is persisted. *)
LEMMA TimesArePersisted ==
  ASSUME TypeOK, NEW n \in Times(rows) \union {0}
  PROVE  Persisted(n)
BY Numbers DEF Persisted, Covered, Times

(* What getDoc merges is complete: the rows up to the newest of them, and   *)
(* what the run has read of the stream from there.                          *)
LEMMA MergedIsComplete ==
  ASSUME TypeOK, Bound, Data, NEW w \in Workers,
         NEW n \in Times(rows) \union {0}, IsLastClock(rows, n), ~Outdated(w, n)
  PROVE  /\ Merged(w, n) = UpTo(MaxOf(n, snap[w].last))
         /\ n < MaxOf(n, snap[w].last)
<1> DEFINE last == snap[w].last
<1>1. n \in Nat /\ last \in Nat /\ (\A m \in written : m \in Nat)
      /\ \A r \in rows : r.t \in Nat
  BY Numbers
<1>2. MaxOf(n, last) = last /\ n < last
  BY <1>1 DEF Outdated, MaxOf
<1>3. \A r \in rows : r.t <= n
  BY DEF IsLastClock, Times
<1>4. \A m \in written : n < m => ~Covered(m)
  BY <1>1, <1>3 DEF Covered
<1>5. \A m \in written : m <= last /\ n < m => m \in snap[w].messages
  BY <1>4 DEF Data, RunOK, SnapOK
<1>6. \A m \in snap[w].messages : m <= last
  BY DEF Bound, RunBound
<1>7. Content(rows) = UpTo(n)
  <2>1. \A r \in rows : r.content = {m \in written : m <= r.t}
    BY DEF Data, RowComplete, UpTo
  <2>2. ASSUME NEW m \in Content(rows) PROVE m \in UpTo(n)
    <3>1. PICK r \in rows : m \in r.content
      BY <2>2 DEF Content
    <3>2. m \in written /\ m <= r.t
      BY <2>1, <3>1
    <3> QED BY <1>1, <1>3, <3>2 DEF UpTo
  <2>3. ASSUME NEW m \in UpTo(n) PROVE m \in Content(rows)
    <3>1. m \in written /\ m <= n
      BY <2>3 DEF UpTo
    <3>2. n \in Times(rows)
      BY <1>1, <3>1, Numbers
    <3>3. PICK r \in rows : r.t = n
      BY <3>2 DEF Times
    <3> QED BY <2>1, <3>1, <3>3 DEF Content
  <2> QED BY <2>2, <2>3
<1>8. Merged(w, n) = {m \in written : m <= n} \union {m \in snap[w].messages \intersect written : m > n}
  BY <1>7 DEF Merged, UpTo
<1>9. Merged(w, n) = {m \in written : m <= last}
  <2>1. ASSUME NEW m \in written PROVE m <= last <=> m <= n \/ (m \in snap[w].messages /\ m > n)
    BY <1>1, <1>2, <1>5, <1>6
  <2> QED BY <1>8, <2>1
<1> QED BY <1>2, <1>9 DEF UpTo

(* The run that moves. *)
LEMMA RunMoves ==
  ASSUME TypeOK, TypeOK', Bound, Data, Advances, ~Hard, NEW w \in Workers, Run(w) \/ Fail(w)
  PROVE  RunOK(w)'
<1> USE DEF streamVars, erasureVars, runVars
<1>1. RunOK(w) /\ RunBound(w)
  BY DEF Data, Bound
<1>2. /\ written' = written /\ lastId \in Nat
      /\ snap[w].last \in Nat /\ pre[w].clock \in Nat /\ doc[w].clock \in Nat
      /\ \A m \in written : m \in Nat
  BY RunLeaves, Numbers
<1>3. CASE Claim(w)
  <2>1. pc'[w] = "reading" /\ UNCHANGED <<snap, pre, doc, rows>>
    BY <1>3, Types DEF Claim, RunType
  <2> QED BY <1>1, <1>2, <2>1 DEF RunOK, SnapOK, Persisted, Covered, StoreOK, FinishOK
<1>4. CASE ReadStream(w)
  <2>1. PICK n \in log \union {0} : snap' = [snap EXCEPT ![w] = [messages |-> log, last |-> n]]
    BY <1>4 DEF ReadStream
  <2>2. /\ snap'[w] = [messages |-> log, last |-> n] /\ pc[w] = "reading"
        /\ UNCHANGED <<pc, pre, doc, rows>>
    BY <1>4, <2>1, Types DEF ReadStream, RunType
  <2>3. \A m \in written : m \in log \/ Covered(m)
    BY DEF Data
  <2>4. SnapOK(w)'
    BY <1>2, <2>2, <2>3 DEF SnapOK, Covered
  <2> QED BY <1>1, <1>2, <2>2, <2>4 DEF RunOK, Persisted, Covered, StoreOK, FinishOK
<1>5. CASE ReadClock(w)
  <2>1. PICK n \in Times(rows) \union {0} : pre' = [pre EXCEPT ![w] = [clock |-> n, hard |-> Hard]]
    BY <1>5 DEF ReadClock
  <2>2. /\ pre'[w] = [clock |-> n, hard |-> Hard] /\ pc[w] = "reading"
        /\ UNCHANGED <<pc, snap, doc, rows>>
    BY <1>5, <2>1, Types DEF ReadClock, RunType
  <2>3. Persisted(n)
    BY TimesArePersisted
  <2> QED BY <1>1, <1>2, <2>2, <2>3 DEF RunOK, SnapOK, Persisted, Covered, StoreOK, FinishOK
<1>6. CASE PreCheck(w)
  <2> DEFINE n == MaxOf(pre[w].clock, snap[w].last)
  <2>1. CASE NothingNew(w) /\ TrimOnly(w, n)
    <3>1. PICK c \in Nat : c = n
      BY <1>2 DEF MaxOf
    <3>2. c <= lastId
      BY <1>1, <1>2, <3>1 DEF MaxOf, RunBound
    <3>3. ASSUME NEW m \in written, m <= n PROVE Covered(m)
      <4>1. CASE m <= pre[w].clock
        BY <1>1, <4>1 DEF RunOK, Persisted
      <4>2. CASE m <= snap[w].last /\ m \in snap[w].messages
        BY <1>1, <2>1, <4>2 DEF NothingNew, RunOK, Persisted
      <4>3. CASE m <= snap[w].last /\ m \notin snap[w].messages
        BY <1>1, <4>3 DEF RunOK, SnapOK
      <4> QED BY <1>2, <3>3, <4>1, <4>2, <4>3 DEF MaxOf
    <3>4. Persisted(c) /\ TrimOnly(w, c)
      BY <2>1, <3>1, <3>3 DEF Persisted
    <3> QED BY <1>1, <1>6, <3>2, <3>4, TrimOnlyOK DEF PreCheck
  <2>2. CASE pc' = [pc EXCEPT ![w] = "getDoc"] /\ UNCHANGED <<todo, doc>>
    <3>1. pc'[w] = "getDoc" /\ UNCHANGED <<snap, pre, rows>>
      BY <1>6, <2>2, Types DEF PreCheck, RunType
    <3> QED BY <1>1, <1>2, <2>2, <3>1 DEF RunOK, SnapOK, Persisted, Covered, StoreOK, FinishOK
  <2>3. ~pre[w].hard
    BY <1>1 DEF RunBound
  <2> QED BY <1>6, <2>1, <2>2, <2>3 DEF PreCheck
<1>7. CASE GetDoc(w)
  <2>1. PICK n \in Times(rows) \union {0} :
          /\ IsLastClock(rows, n)
          /\ IF Outdated(w, n) THEN TrimOnly(w, MaxOf(n, snap[w].last))
             ELSE /\ pc' = [pc EXCEPT ![w] = "store"]
                  /\ doc' = [doc EXCEPT ![w] = [content |-> Merged(w, n),
                                                clock |-> MaxOf(n, snap[w].last),
                                                refs |-> Times(rows)]]
                  /\ UNCHANGED todo
    BY <1>7 DEF GetDoc
  <2>2. n \in Nat
    BY Numbers
  <2>3. CASE Outdated(w, n)
    <3>1. MaxOf(n, snap[w].last) = n
      BY <1>2, <2>2, <2>3 DEF Outdated, MaxOf
    <3>2. n <= lastId
      BY <1>2 DEF Bound, Times
    <3> QED BY <1>1, <1>7, <2>1, <2>2, <2>3, <3>1, <3>2, TimesArePersisted, TrimOnlyOK DEF GetDoc
  <2>4. CASE ~Outdated(w, n)
    <3>1. /\ pc'[w] = "store" /\ doc'[w].content = Merged(w, n)
          /\ doc'[w].clock = MaxOf(n, snap[w].last) /\ doc'[w].refs = Times(rows)
          /\ UNCHANGED <<snap, pre, rows>>
      BY <1>7, <2>1, <2>4, Types DEF GetDoc, RunType
    <3>2. Merged(w, n) = UpTo(MaxOf(n, snap[w].last)) /\ n < MaxOf(n, snap[w].last)
      BY <2>1, <2>4, MergedIsComplete
    <3>3. \A t \in Times(rows) : t < MaxOf(n, snap[w].last)
      <4>1. \A t \in Times(rows) : t <= n
        BY <2>1 DEF IsLastClock
      <4>2. MaxOf(n, snap[w].last) \in Nat /\ \A t \in Times(rows) : t \in Nat
        BY <1>2, <2>2, Numbers DEF MaxOf
      <4> QED BY <2>2, <3>2, <4>1, <4>2
    <3>4. StoreOK(w)'
      BY <1>2, <3>1, <3>2, <3>3 DEF StoreOK, UpTo, RefsAreOlder
    <3> QED BY <1>1, <1>2, <3>1, <3>4 DEF RunOK, SnapOK, Persisted, Covered, FinishOK
  <2> QED BY <2>3, <2>4
<1>8. CASE Store(w)
  <2>1. /\ pc[w] = "store" /\ pc'[w] = "finish" /\ rows' = Inserted(doc[w].clock, doc[w].content)
        /\ UNCHANGED <<snap, pre, doc>>
    BY <1>8, Types DEF Store, RunType
  <2>2. rows \subseteq rows' /\ \E r \in rows' : r.t = doc[w].clock
    <3>1. CASE doc[w].clock \in Times(rows)
      BY <2>1, <3>1 DEF Inserted, Times
    <3>2. CASE doc[w].clock \notin Times(rows)
      <4> DEFINE r == [t |-> doc[w].clock, content |-> doc[w].content]
      <4>1. rows' = rows \union {r}
        BY <2>1, <3>2 DEF Inserted
      <4>2. r.t = doc[w].clock
        OBVIOUS
      <4> QED BY <4>1, <4>2
    <3> QED BY <3>1, <3>2
  <2>3. RefsAreOlder(w)'
    BY <1>1, <2>1 DEF RunOK, StoreOK, RefsAreOlder
  <2>4. Covered(doc[w].clock)' /\ Persisted(doc[w].clock)'
    BY <1>2, <2>1, <2>2 DEF Covered, Persisted
  <2>5. SnapOK(w)' /\ Persisted(pre[w].clock)'
    BY <1>1, <1>2, <2>1, <2>2 DEF RunOK, SnapOK, Persisted, Covered
  <2> QED BY <2>1, <2>3, <2>4, <2>5 DEF RunOK, StoreOK, FinishOK
<1>9. CASE DeleteReferences(w) \/ TrimMessages(w)
  BY <1>1, <1>9, CompletedOK DEF DeleteReferences, TrimMessages
<1>10. CASE Fail(w)
  BY <1>10, ResetOK DEF Fail
<1> QED BY <1>3, <1>4, <1>5, <1>6, <1>7, <1>8, <1>9, <1>10 DEF Run

(* A stream only loses what has a row, until the document is erased.        *)
LEMMA LogStep ==
  ASSUME TypeOK, Data, ~Hard', [Next]_vars, NEW m \in log, m \in written, m \notin log'
  PROVE  Covered(m)
<1> USE DEF streamVars, erasureVars, runVars
<1>1. \E w \in Workers : TrimMessages(w) /\ Acks(w)
  BY DEF Next, Run, Fail, Claim, ReadStream, ReadClock, PreCheck, GetDoc, Store, DeleteReferences,
     TrimMessages, Client, AddMessage, Deletion, StoreTombstone, ClearMessages,
     AddTombstoneMessage, ListRows, PurgeRows, RepeatDeletion, Operator,
     DisableCompaction, EnableCompaction, vars, Hard
<1>2. PICK w \in Workers : TrimMessages(w) /\ Acks(w)
  BY <1>1
<1>3. PICK cutoff \in 0 .. doc[w].clock + 1 : log' = {i \in log : i >= cutoff}
  BY <1>2 DEF TrimMessages, Cutoff
<1>4. m \in Nat /\ doc[w].clock \in Nat
  BY Numbers
<1>5. m <= doc[w].clock
  BY <1>3, <1>4
<1>6. pc[w] = "finish" /\ RunOK(w)
  BY <1>2 DEF TrimMessages, Data
<1> QED BY <1>5, <1>6 DEF RunOK, FinishOK, Persisted

(* Every step keeps rows and runs complete. *)
THEOREM DataStep ==
  TypeOK /\ TypeOK' /\ Bound /\ (~Hard => Data) /\ [Next]_vars => (~Hard => Data)'
<1> SUFFICES ASSUME TypeOK, TypeOK', Bound, ~Hard => Data, [Next]_vars, ~Hard'
             PROVE  Data'
  BY DEF Hard
<1>1. ~Hard /\ Data
  BY LastIdStep
<1>2. Advances
  BY <1>1, AdvancesStep
<1>3. ASSUME NEW r \in rows' PROVE RowComplete(r)'
  <2>1. RowComplete(r) /\ r.t \in Nat /\ r.t <= lastId
    <3>1. CASE r \in rows
      BY <1>1, <3>1, Numbers DEF Data, Bound
    <3>2. CASE r \notin rows
      <4>1. PICK w \in Workers : Store(w) /\ r = [t |-> doc[w].clock, content |-> doc[w].content]
        BY <3>2, RowsStep
      <4>2. doc[w].content = UpTo(doc[w].clock)
        BY <1>1, <4>1 DEF Store, Data, RunOK, StoreOK
      <4> QED BY <4>1, <4>2, Numbers DEF RowComplete, UpTo, Bound, RunBound
    <3> QED BY <3>1, <3>2
  <2> DEFINE n == r.t
  <2>2. UpTo(n)' = UpTo(n)
    BY <1>2, <2>1, UpToStays
  <2> QED BY <2>1, <2>2 DEF RowComplete
<1>4. ASSUME NEW m \in written' PROVE m \in log' \/ Covered(m)'
  <2>1. CASE m \in written
    <3>1. m \in Nat /\ (m \in log \/ Covered(m))
      BY <1>1, <2>1, Numbers DEF Data
    <3>2. m \in log' \/ Covered(m)
      BY <1>1, <2>1, <3>1, LogStep
    <3> QED BY <1>2, <3>1, <3>2, CoveredStays
  <2>2. CASE m \notin written
    <3>1. \E changesDoc \in BOOLEAN : AddMessage(changesDoc)
      BY <2>2, RunLeaves DEF Next, vars, Client, Deletion, StoreTombstone, ClearMessages,
         AddTombstoneMessage, ListRows, PurgeRows, RepeatDeletion, Operator,
         DisableCompaction, EnableCompaction, streamVars
    <3> QED BY <2>2, <3>1 DEF AddMessage
  <2> QED BY <2>1, <2>2
<1>5. ASSUME NEW w \in Workers PROVE RunOK(w)'
  <2>1. RunOK(w)
    BY <1>1 DEF Data
  <2>2. CASE Run(w) \/ Fail(w)
    BY <1>1, <1>2, <2>2, RunMoves
  <2>3. CASE \E v \in Workers : v # w /\ (Run(v) \/ Fail(v))
    BY <1>2, <2>1, <2>3, OthersStay, RunStays
  <2>4. CASE UNCHANGED vars \/ Client \/ Deletion \/ Operator
    BY <1>2, <2>1, <2>4, RunsStay, RunStays DEF runVars
  <2> QED BY <2>2, <2>3, <2>4 DEF Next
<1> QED BY <1>3, <1>4, <1>5 DEF Data

-----------------------------------------------------------------------------
(* Erasure *)

(* Rows are not added once there is a hard tombstone, so a purge has listed *)
(* all of them.                                                             *)
THEOREM PurgeStep == Purge /\ [Next]_vars => Purge'
<1> SUFFICES ASSUME Purge, [Next]_vars PROVE Purge'
  OBVIOUS
<1> USE DEF streamVars, erasureVars, runVars
<1>1. CASE ListRows \/ PurgeRows
  BY <1>1 DEF ListRows, PurgeRows, Purge, PurgedStaysErased, Times
<1>2. CASE StoreTombstone \/ ClearMessages \/ AddTombstoneMessage \/ RepeatDeletion
  BY <1>2 DEF StoreTombstone, ClearMessages, AddTombstoneMessage, RepeatDeletion,
     Purge, PurgedStaysErased
<1>3. CASE UNCHANGED <<deletion, listed>>
  <2>1. Hard => rows' \subseteq rows
    BY RowsStep
  <2> QED BY <1>3, <2>1 DEF Purge, PurgedStaysErased, Times, Hard
<1>4. (\E w \in Workers : Run(w) \/ Fail(w)) => UNCHANGED <<deletion, listed>>
  BY RunLeaves
<1> QED BY <1>1, <1>2, <1>3, <1>4 DEF Next, vars, Client, AddMessage, Deletion, Operator,
       DisableCompaction, EnableCompaction

-----------------------------------------------------------------------------
(* The invariant and what follows from it. *)

(* IInv holds in every reachable state. *)
THEOREM Invariant == Spec => []IInv
<1>1. Init => IInv
  BY TypeInit, BoundInit, DataInit DEF Init, IInv, Purge, PurgedStaysErased
<1>2. IInv /\ [Next]_vars => IInv'
  BY TypeStep, BoundStep, DataStep, PurgeStep DEF IInv
<1> QED BY <1>1, <1>2, PTL DEF Spec

(* No update is lost: whatever was written is on the stream or in a row.    *)
THEOREM NothingIsLost == Spec => []NothingLost
<1>1. IInv => NothingLost
  BY Numbers DEF IInv, Data, NothingLost, Covered, RowComplete, UpTo, Content
<1> QED BY <1>1, Invariant, PTL

(* A row stands for everything up to its clock.                             *)
THEOREM RowsAreComplete == Spec => []RowsComplete
<1>1. IInv => RowsComplete
  BY DEF IInv, Data, RowsComplete, RowComplete
<1> QED BY <1>1, Invariant, PTL

(* After a purge no run brings a row back.                                  *)
THEOREM PurgeIsFinal == Spec => []PurgedStaysErased
<1>1. IInv => PurgedStaysErased
  BY DEF IInv, Purge
<1> QED BY <1>1, Invariant, PTL

-----------------------------------------------------------------------------
(* Compaction implements DocStore. *)

(* What can be recovered from rows and stream is what was written.          *)
LEMMA RecoverableIsWritten ==
  ASSUME TypeOK, Data
  PROVE  Content(rows) \union (written \intersect log) = written
<1>1. \A r \in rows : r.content = {m \in written : m <= r.t}
  BY DEF Data, RowComplete, UpTo
<1>2. Content(rows) \subseteq written
  BY <1>1 DEF Content
<1>3. ASSUME NEW m \in written, m \notin log PROVE m \in Content(rows)
  <2>1. PICK r \in rows : m <= r.t
    BY <1>3 DEF Data, Covered
  <2> QED BY <1>1, <2>1 DEF Content
<1> QED BY <1>2, <1>3

(* Only clients write.                                                      *)
LEMMA WrittenStep ==
  ASSUME TypeOK, [Next]_vars, written' # written
  PROVE  written' = written \union {lastId + 1} /\ lastId + 1 \in 1 .. MaxClock \ written
<1>1. \E changesDoc \in BOOLEAN : AddMessage(changesDoc)
  BY RunLeaves DEF Next, vars, Client, Deletion, StoreTombstone, ClearMessages,
     AddTombstoneMessage, ListRows, PurgeRows, RepeatDeletion, Operator,
     DisableCompaction, EnableCompaction, streamVars
<1> QED BY <1>1, Numbers, MaxClockAssumption DEF AddMessage

Recoverable == IF Hard THEN {} ELSE Content(rows) \union (written \intersect log)

ReaderGetsWritten == Recoverable = IF Hard THEN {} ELSE written

(* Hence the reader of a room that is not erased gets what was written.     *)
LEMMA RecoverableWritten == IInv => ReaderGetsWritten
  BY RecoverableIsWritten DEF IInv, Recoverable, ReaderGetsWritten

(* Each step is a write, the erasure, or nothing that a reader could see.   *)
LEMMA AbstractStep ==
  IInv /\ IInv' /\ [Next]_vars => [Abstract!Next]_<<Recoverable, Hard>>
<1>1. IInv' => ReaderGetsWritten'
  BY RecoverableWritten, PTL
<1> SUFFICES ASSUME IInv, IInv', [Next]_vars, ~UNCHANGED <<Recoverable, Hard>>
             PROVE  Abstract!Next
  OBVIOUS
<1>2. Recoverable = IF Hard THEN {} ELSE written
  BY RecoverableWritten DEF ReaderGetsWritten
<1>3. Recoverable' = IF Hard' THEN {} ELSE written'
  BY <1>1 DEF ReaderGetsWritten
<1>4. TypeOK /\ (Hard => Hard') /\ Hard \in BOOLEAN /\ Hard' \in BOOLEAN
  BY LastIdStep DEF IInv, Hard
<1>5. ~Hard
  BY <1>2, <1>3, <1>4
<1>6. CASE Hard'
  <2>1. Recoverable' = {}
    BY <1>3, <1>6
  <2>2. ~Hard /\ Recoverable' = {} /\ Hard' = TRUE
    BY <2>1, <1>4, <1>5, <1>6
  <2> QED BY <2>2 DEF Abstract!Next, Abstract!Erase, Recoverable
<1>7. CASE ~Hard'
  <2>1. Recoverable = written /\ Recoverable' = written' /\ Hard' = Hard
    BY <1>2, <1>3, <1>4, <1>5, <1>7
  <2>2. written' # written
    BY <2>1
  <2>3. written' = written \union {lastId + 1} /\ lastId + 1 \in 1 .. MaxClock \ written
    BY <1>4, <2>2, WrittenStep
  <2>4. lastId + 1 \in 1 .. MaxClock /\ lastId + 1 \notin Recoverable
        /\ Recoverable' = Recoverable \union {lastId + 1}
    BY <2>1, <2>3
  <2>5. Abstract!Write(lastId + 1)
    BY <2>1, <2>4, <1>5 DEF Abstract!Write, Recoverable
  <2> QED BY <2>4, <2>5 DEF Abstract!Next
<1> QED BY <1>6, <1>7

(* Compaction is invisible: any number of runs, in any order, ended         *)
(* anywhere, leave what can be recovered alone (DocStore).                  *)
THEOREM ImplementsStore == Spec => ImplementsDocStore
<1>1. Init => Abstract!Init
  BY DEF Init, Abstract!Init, Hard, Content
<1> QED BY <1>1, AbstractStep, Invariant, PTL DEF Spec, ImplementsDocStore, Abstract!Spec, Recoverable
-----------------------------------------------------------------------------
(* Compaction uses redis as RoomStream allows. *)

(* The room, its stream and its tasks as RoomStream sees them. *)
KeyOf(b) == {r \in {"room"} : b}
EntriesOf(S) == {[id |-> i, origin |-> i, kind |-> "m"] : i \in S}
LogOf(S) == [r \in {"room"} |-> EntriesOf(S)]
PendingOf(P) == [t \in TaskIds |-> IF t \in P THEN "room" ELSE "none"]

(* A key that exists or not. *)
LEMMA KeyIs ==
  ASSUME NEW b \in BOOLEAN
  PROVE  /\ b => KeyOf(b) = {"room"}
         /\ ~b => KeyOf(b) = {}
         /\ "room" \in KeyOf(b) <=> b
  BY DEF KeyOf

(* A stream with other entries, and some of its tasks. *)
LEMMA LogIs ==
  ASSUME NEW S, NEW T
  PROVE  /\ LogOf(S)["room"] = EntriesOf(S)
         /\ LogOf(T) = [LogOf(S) EXCEPT !["room"] = EntriesOf(T)]
  BY DEF LogOf

(* A stream with one more entry. *)
LEMMA EntriesAdded ==
  ASSUME NEW S, NEW n
  PROVE  EntriesOf(S \union {n}) = EntriesOf(S) \union {[id |-> n, origin |-> n, kind |-> "m"]}
  BY DEF EntriesOf

(* What a trim keeps of the entries. *)
LEMMA EntriesKept ==
  ASSUME NEW S, NEW cutoff
  PROVE  /\ {e \in EntriesOf(S) : e.id >= cutoff} = EntriesOf({i \in S : i >= cutoff})
         /\ EntriesOf(S) = {} <=> S = {}
<1>1. ASSUME NEW e \in EntriesOf(S), e.id >= cutoff PROVE e \in EntriesOf({i \in S : i >= cutoff})
  <2>1. PICK i \in S : e = [id |-> i, origin |-> i, kind |-> "m"]
    BY DEF EntriesOf
  <2>2. e.id = i
    BY <2>1
  <2> QED BY <1>1, <2>1, <2>2 DEF EntriesOf
<1>2. ASSUME NEW e \in EntriesOf({i \in S : i >= cutoff}) PROVE e \in EntriesOf(S) /\ e.id >= cutoff
  <2>1. PICK i \in S : i >= cutoff /\ e = [id |-> i, origin |-> i, kind |-> "m"]
    BY DEF EntriesOf
  <2>2. e.id = i
    BY <2>1
  <2> QED BY <2>1, <2>2 DEF EntriesOf
<1>3. {e \in EntriesOf(S) : e.id >= cutoff} = EntriesOf({i \in S : i >= cutoff})
  BY <1>1, <1>2
<1>4. EntriesOf(S) = {} <=> S = {}
  BY DEF EntriesOf
<1> QED BY <1>3, <1>4

(* A task is pending for the room, or its id is free. *)
LEMMA PendingIs ==
  ASSUME NEW P, NEW t \in TaskIds
  PROVE  /\ PendingOf(P)[t] = "none" <=> t \notin P
         /\ PendingOf(P)[t] = "room" <=> t \in P
  BY DEF PendingOf

(* A fresh task, in the place of one that is acked or of none. *)
LEMMA EnqueueStep ==
  ASSUME NEW acked \in SUBSET TaskIds, EnqueueInto(pending \ acked)
  PROVE  Redis!Enqueue("room", acked)
<1>1. PICK n \in TaskIds : n \notin pending /\ pending' = (pending \ acked) \union {n}
  BY DEF EnqueueInto, FreshTask
<1>2. PendingOf(pending)[n] = "none"
  BY <1>1, PendingIs
<1>3. PendingOf(pending') = [t \in TaskIds |-> IF t = n THEN "room"
                               ELSE IF t \in acked THEN "none" ELSE PendingOf(pending)[t]]
  BY <1>1 DEF PendingOf
<1> QED BY <1>2, <1>3 DEF Redis!Enqueue, PendingOf

(* The writes. *)
LEMMA RedisAdds ==
  ASSUME TypeOK, lastId < MaxClock, lastId' = lastId + 1, log' = log \union {lastId + 1},
         live' = TRUE, disabled' = disabled,
         IF live \/ disabled THEN UNCHANGED pending ELSE EnqueueInto(pending)
  PROVE  Redis!AddMessage("room", "m")
<1>1. live \in BOOLEAN /\ disabled \in BOOLEAN
  BY DEF TypeOK
<1>2. Redis!Undisturbed("room")
  BY DEF Redis!Undisturbed, Redis!CleaningUp
<1>3. Redis!NeedsTask("room") <=> ~live /\ ~disabled
  BY <1>1 DEF Redis!NeedsTask
<1>4. Redis!EnqueueIfNeeded("room")
  <2>1. CASE live \/ disabled
    BY <1>3, <2>1 DEF Redis!EnqueueIfNeeded
  <2>2. CASE ~(live \/ disabled)
    <3>1. EnqueueInto(pending \ {})
      BY <2>2
    <3> QED BY <1>3, <2>2, <3>1, EnqueueStep DEF Redis!EnqueueIfNeeded
  <2> QED BY <2>1, <2>2
<1>5. KeyOf(live') = KeyOf(live) \union {"room"} /\ KeyOf(disabled') = KeyOf(disabled)
  BY <1>1 DEF KeyOf
<1>6. LogOf(log') = [LogOf(log) EXCEPT !["room"] = LogOf(log)["room"] \union
                       {[id |-> lastId + 1, origin |-> lastId + 1, kind |-> "m"]}]
  BY LogIs, EntriesAdded
<1>7. Redis!SetLog("room", LogOf(log)["room"] \union {Redis!Fresh("m")}, lastId + 1)
  BY <1>6 DEF Redis!SetLog, Redis!Fresh, LogOf, EntriesOf
<1> QED BY <1>2, <1>4, <1>5, <1>7 DEF Redis!AddMessage, KeyOf, LogOf, EntriesOf

(* A trim, with the task that is acked and the one that follows it. *)
LEMMA RedisTrims ==
  ASSUME TypeOK, Bound, NEW w \in Workers, TypeOK', TrimMessages(w), Acks(w)
  PROVE  Redis!Stream("room")
<1> DEFINE minId == doc[w].clock
<1>0. PICK t \in TaskIds : t = task[w] /\ t \in pending
  BY DEF TypeOK, Acks
<1>1. PICK cutoff \in 0 .. minId + 1 :
        /\ log' = {i \in log : i >= cutoff}
        /\ live' = LiveAfterTrim({i \in log : i >= cutoff})
        /\ Successor(w, {i \in log : i >= cutoff})
  BY DEF TrimMessages, Cutoff
<1> DEFINE kept == {i \in log : i >= cutoff}
<1>2. t \in TaskIds /\ t \in pending /\ {t} \in SUBSET TaskIds
  BY <1>0
<1>3. lastId \in Nat /\ minId \in Nat /\ minId <= lastId
  BY MaxClockAssumption DEF TypeOK, Bound, RunBound, Clocks
<1>4. live \in BOOLEAN /\ lastId' = lastId /\ disabled' = disabled
  BY DEF TypeOK, TrimMessages
<1> HIDE DEF minId
<1>5. Redis!Kept("room", cutoff) = EntriesOf(kept)
  BY EntriesKept, LogIs DEF Redis!Kept, LogOf, EntriesOf
<1>6. EntriesOf(kept) = {} <=> kept = {}
  BY EntriesKept
<1>7. log' = kept
  BY <1>1
<1> HIDE DEF kept
<1>8. PendingOf(pending)[t] = "room"
  BY <1>2, PendingIs
<1>9. Redis!Successor("room", t, EntriesOf(kept))
  <2>1. CASE kept = {}
    <3>1. pending' = pending \ {t}
      BY <1>0, <1>1, <2>1 DEF Successor, kept
    <3>2. PendingOf(pending') = [PendingOf(pending) EXCEPT ![t] = "none"]
      BY <1>2, <3>1 DEF PendingOf
    <3> QED BY <1>6, <2>1, <3>2 DEF Redis!Successor, PendingOf
  <2>2. CASE kept # {}
    <3>1. EnqueueInto(pending \ {t})
      BY <1>0, <1>1, <2>2 DEF Successor, kept
    <3>2. Redis!Enqueue("room", {t})
      BY <1>2, <3>1, EnqueueStep
    <3> QED BY <1>6, <2>2, <3>2 DEF Redis!Successor
  <2> QED BY <2>1, <2>2
<1>10. Redis!SetLog("room", EntriesOf(kept), lastId)
  BY <1>4, <1>7, LogIs DEF Redis!SetLog, LogOf, EntriesOf
<1>11. KeyOf(live') = Redis!LiveAfterTrim("room", EntriesOf(kept)) /\ KeyOf(disabled') = KeyOf(disabled)
  <2>1. live' <=> live /\ kept # {}
    BY <1>1 DEF LiveAfterTrim, kept
  <2>2. live' \in BOOLEAN
    BY DEF TypeOK
  <2>3. KeyOf(live') = IF kept = {} THEN KeyOf(live) \ {"room"} ELSE KeyOf(live)
    BY <1>4, <2>1, <2>2, KeyIs
  <2> QED BY <1>4, <1>6, <2>3 DEF Redis!LiveAfterTrim, KeyOf
<1>12. Redis!TrimMessages("room", minId, cutoff, t)
  <2>1. cutoff <= minId + 1
    BY <1>3
  <2>2. Redis!Successor("room", t, Redis!Kept("room", cutoff))
    BY ONLY <1>5, <1>9 DEF Redis!Successor, Redis!Enqueue
  <2>3. Redis!SetLog("room", Redis!Kept("room", cutoff), lastId)
    BY ONLY <1>5, <1>10 DEF Redis!SetLog
  <2>4. KeyOf(live') = Redis!LiveAfterTrim("room", Redis!Kept("room", cutoff))
    BY ONLY <1>5, <1>11 DEF Redis!LiveAfterTrim
  <2> QED BY ONLY <1>8, <1>11, <2>1, <2>2, <2>3, <2>4 DEF Redis!TrimMessages, KeyOf, LogOf, EntriesOf, PendingOf
<1>13. minId \in 0 .. lastId
  BY <1>3
<1> QED BY <1>2, <1>12, <1>13 DEF Redis!Stream

(* The operators and the deletion. *)
LEMMA RedisOperates ==
  ASSUME TypeOK, TypeOK', DisableCompaction \/ EnableCompaction \/ ClearMessages
  PROVE  Redis!Stream("room")
<1>1. live \in BOOLEAN /\ disabled \in BOOLEAN /\ live' \in BOOLEAN /\ disabled' \in BOOLEAN
  BY DEF TypeOK
<1>2. CASE DisableCompaction
  <2>1. /\ disabled' = TRUE /\ pending' = {} /\ live' = live /\ log' = log /\ lastId' = lastId
    BY <1>2 DEF DisableCompaction
  <2>2. KeyOf(disabled') = KeyOf(disabled) \union {"room"}
    BY <1>1, <2>1, KeyIs
  <2>3. PendingOf(pending') =
          [t \in TaskIds |-> IF PendingOf(pending)[t] = "room" THEN "none" ELSE PendingOf(pending)[t]]
    BY <2>1 DEF PendingOf
  <2>4. Redis!DisableCompaction("room")
    BY <2>1, <2>2, <2>3 DEF Redis!DisableCompaction, KeyOf, PendingOf
  <2> QED BY <2>4 DEF Redis!Stream
<1>3. CASE EnableCompaction
  <2>1. /\ disabled /\ disabled' = FALSE /\ live' = live /\ log' = log /\ lastId' = lastId
        /\ IF live THEN EnqueueInto(pending) ELSE UNCHANGED pending
    BY <1>3 DEF EnableCompaction
  <2>2. "room" \in KeyOf(disabled) /\ KeyOf(disabled') = KeyOf(disabled) \ {"room"}
    BY <1>1, <2>1, KeyIs
  <2>3. IF "room" \in KeyOf(live) THEN Redis!Enqueue("room", {}) ELSE PendingOf(pending') = PendingOf(pending)
    <3>1. CASE live
      <4>1. EnqueueInto(pending \ {})
        BY <2>1, <3>1
      <4>2. Redis!Enqueue("room", {})
        BY <4>1, EnqueueStep
      <4> QED BY <1>1, <3>1, <4>2, KeyIs
    <3>2. CASE ~live
      BY <1>1, <2>1, <3>2, KeyIs
    <3> QED BY <3>1, <3>2
  <2>4. Redis!Undisturbed("room")
    BY DEF Redis!Undisturbed, Redis!CleaningUp
  <2>5. Redis!EnableCompaction("room")
    BY <2>1, <2>2, <2>3, <2>4 DEF Redis!EnableCompaction, KeyOf, PendingOf
  <2> QED BY <2>5 DEF Redis!Stream
<1>4. CASE ClearMessages
  <2>1. log' = {} /\ live' = live /\ lastId' = lastId /\ pending' = pending /\ disabled' = disabled
    BY <1>4 DEF ClearMessages
  <2>2. LogOf(log') = [LogOf(log) EXCEPT !["room"] = {}]
    BY <2>1, LogIs DEF EntriesOf
  <2>3. Redis!SetLog("room", {}, lastId)
    BY <2>1, <2>2 DEF Redis!SetLog, LogOf, EntriesOf
  <2>4. Redis!ClearMessages("room")
    BY <2>1, <2>3 DEF Redis!ClearMessages
  <2> QED BY <2>4 DEF Redis!Stream
<1> QED BY <1>2, <1>3, <1>4

(* Each step is one of RoomStream, or leaves redis alone. *)
LEMMA RedisStep ==
  IInv /\ IInv' /\ [Next]_vars => [Redis!Next]_(Redis!vars)
<1> SUFFICES ASSUME IInv, IInv', [Next]_vars PROVE [Redis!Next]_(Redis!vars)
  OBVIOUS
<1>1. TypeOK /\ TypeOK' /\ Bound
  BY DEF IInv
<1>2. ASSUME Redis!Stream("room") PROVE Redis!Next
  BY <1>2 DEF Redis!Next
<1>3. ASSUME live' = live, log' = log, lastId' = lastId, pending' = pending, disabled' = disabled
      PROVE  UNCHANGED Redis!vars
  BY <1>3 DEF Redis!vars
<1>4. ASSUME NEW w \in Workers, Run(w) \/ Fail(w) PROVE [Redis!Next]_(Redis!vars)
  <2>1. CASE TrimMessages(w) /\ Acks(w)
    BY <1>1, <1>2, <2>1, RedisTrims
  <2>2. CASE TrimMessages(w) /\ ~Acks(w)
    BY <1>3, <2>2 DEF TrimMessages
  <2>3. CASE ~TrimMessages(w)
    BY <1>3, <1>4, <2>3 DEF Run, Claim, ReadStream, ReadClock, PreCheck, GetDoc, Store,
       DeleteReferences, Fail, streamVars
  <2> QED BY <2>1, <2>2, <2>3
<1>5. CASE Client \/ AddTombstoneMessage
  <2>1. /\ lastId < MaxClock /\ lastId' = lastId + 1 /\ log' = log \union {lastId + 1}
        /\ live' = TRUE /\ disabled' = disabled
        /\ IF live \/ disabled THEN UNCHANGED pending ELSE EnqueueInto(pending)
    BY <1>5 DEF Client, AddMessage, AddTombstoneMessage
  <2>2. Redis!AddMessage("room", "m")
    BY <1>1, <2>1, RedisAdds
  <2> QED BY <1>2, <2>2 DEF Redis!Stream
<1>6. CASE Operator \/ ClearMessages
  BY <1>1, <1>2, <1>6, RedisOperates DEF Operator
<1>7. CASE StoreTombstone \/ ListRows \/ PurgeRows \/ RepeatDeletion
  BY <1>3, <1>7 DEF StoreTombstone, ListRows, PurgeRows, RepeatDeletion, streamVars
<1>8. CASE UNCHANGED vars
  BY <1>3, <1>8 DEF vars
<1> QED BY <1>4, <1>5, <1>6, <1>7, <1>8 DEF Next, Deletion

(* Whatever is true of a room of RoomStream - one task at most, none astray, *)
(* no stream without one - is true of the room that the workers compact.     *)
THEOREM ImplementsStream == Spec => ImplementsRoomStream
<1>1. Init => Redis!Init
  BY DEF Init, Redis!Init, Redis!NoKey
<1> QED BY <1>1, RedisStep, Invariant, PTL DEF Spec, ImplementsRoomStream, Redis!Spec

-----------------------------------------------------------------------------
(* Readers. *)

Orders ==
  {<<>>, <<"rows">>, <<"stream">>, <<"rows", "stream">>, <<"stream", "rows">>}

Reads ==
  [pc : {"idle", "reading", "done"}, todo : SUBSET {"rows", "stream"},
   base : SUBSET Clocks, stored : SUBSET Clocks, clock : Clocks,
   messages : SUBSET Clocks, last : Clocks, order : Orders]

(* Which of its requests a read has an answer to.                          *)
Phase(x) ==
  \/ x.pc = "idle"
  \/ x.pc = "reading" /\ x.todo = {"rows", "stream"} /\ x.order = <<>>
  \/ x.pc = "reading" /\ x.todo = {"rows"} /\ x.order = <<"stream">>
  \/ x.pc = "reading" /\ x.todo = {"stream"} /\ x.order = <<"rows">>
  \/ x.pc = "done" /\ x.todo = {} /\ x.order \in {<<"rows", "stream">>, <<"stream", "rows">>}

Has(x, request) == x.pc # "idle" /\ request \notin x.todo

(* The rows held all changes up to their clock.                            *)
RowsRead(x) == Has(x, "rows") => \A m \in x.base : m <= x.clock => m \in x.stored

(* What the stream did not hold any more has a row.                        *)
StreamRead(x) ==
  Has(x, "stream") => \A m \in x.base : m \in x.messages \/ (Covered(m) /\ m \notin log)

(* With the stream first, that row was there when the rows were read.      *)
FirstComplete(x) == x.pc = "done" /\ x.order = <<"stream", "rows">> => x.base \subseteq Result(x)

ReadOK(x) == x.base \subseteq written /\ RowsRead(x) /\ StreamRead(x) /\ FirstComplete(x)

ReaderIInv ==
  /\ IInv
  /\ \A r \in Readers : reader[r] \in Reads /\ Phase(reader[r])
  /\ reader = [r \in Readers |-> reader[r]]
  /\ ~Hard => \A r \in Readers : ReadOK(reader[r])

-----------------------------------------------------------------------------
(* The workers go on. *)

(* A stream gets only entries that are newer than all there are.           *)
LEMMA LogGrows ==
  ASSUME TypeOK, [Next]_vars, NEW m \in log'
  PROVE  m \in log \/ m = lastId + 1
<1> USE DEF streamVars, erasureVars, runVars
<1>1. CASE UNCHANGED log
  BY <1>1
<1>2. ASSUME NEW w \in Workers, Run(w) \/ Fail(w) PROVE m \in log
  BY <1>2 DEF Run, Fail, Claim, ReadStream, ReadClock, PreCheck, GetDoc, Store,
     DeleteReferences, TrimMessages
<1>3. CASE Client
  BY <1>3 DEF Client, AddMessage
<1>4. CASE Deletion
  BY <1>4 DEF Deletion, StoreTombstone, ClearMessages, AddTombstoneMessage, ListRows,
     PurgeRows, RepeatDeletion
<1>5. CASE Operator \/ UNCHANGED vars
  BY <1>5 DEF Operator, DisableCompaction, EnableCompaction, vars
<1> QED BY <1>2, <1>3, <1>4, <1>5 DEF Next

(* What a read has got stays true whatever the workers do.                 *)
LEMMA ReadStays ==
  ASSUME IInv, IInv', [Next]_vars, ~Hard', NEW x, ReadOK(x)
  PROVE  ReadOK(x)'
<1>1. TypeOK /\ TypeOK' /\ Bound /\ ~Hard /\ Data
  BY LastIdStep DEF IInv
<1>2. Advances
  BY <1>1, AdvancesStep
<1>3. x.base \subseteq written /\ written \subseteq written'
  BY <1>2 DEF ReadOK, Advances
<1>4. ASSUME NEW m \in x.base, Covered(m), m \notin log PROVE Covered(m)' /\ m \notin log'
  <2>1. m \in written /\ m \in Nat /\ m <= lastId /\ lastId \in Nat
    BY <1>1, <1>3, Numbers
  <2>2. Covered(m)'
    BY <1>1, <1>2, <1>4, <2>1, CoveredStays
  <2>3. m # lastId + 1
    BY <2>1
  <2> QED BY <1>1, <1>4, <2>2, <2>3, LogGrows
<1>5. StreamRead(x)'
  BY <1>4 DEF ReadOK, StreamRead, Has
<1> QED BY <1>3, <1>5 DEF ReadOK, RowsRead, FirstComplete, Has, Result

(* A step of Compaction leaves the readers as they are.                    *)
LEMMA CompactionStep ==
  ASSUME ReaderIInv, IInv', [Next]_vars, UNCHANGED reader
  PROVE  ReaderIInv'
<1>1. ASSUME ~Hard', NEW r \in Readers PROVE ReadOK(reader[r])'
  <2>1. ~Hard
    BY <1>1, LastIdStep DEF ReaderIInv, IInv
  <2>2. PICK x : x = reader[r]
    OBVIOUS
  <2>3. ReadOK(x)
    BY <2>1, <2>2 DEF ReaderIInv
  <2>4. ReadOK(x)'
    BY <1>1, <2>3, ReadStays DEF ReaderIInv
  <2>5. reader'[r] = x
    BY <2>2
  <2> QED BY <2>4, <2>5 DEF ReadOK, RowsRead, StreamRead, FirstComplete, Has, Result
<1> QED BY <1>1 DEF ReaderIInv, Phase

-----------------------------------------------------------------------------
(* A read goes on. *)

(* Readers change nothing that workers, clients or operators see.          *)
LEMMA InvariantStep == IInv /\ [Next]_vars => IInv'
BY TypeStep, BoundStep, DataStep, PurgeStep DEF IInv

(* The read of r gets new values, the others keep theirs.                  *)
LEMMA ReaderStep ==
  ASSUME ReaderIInv, NEW r \in Readers, UNCHANGED vars,
         NEW q, reader' = [reader EXCEPT ![r] = q],
         q \in Reads, Phase(q), ~Hard => ReadOK(q)
  PROVE  ReaderIInv'
<1>1. IInv'
  BY InvariantStep DEF ReaderIInv
<1>2. /\ reader'[r] = q /\ \A s \in Readers \ {r} : reader'[s] = reader[s]
      /\ reader' = [s \in Readers |-> reader'[s]]
  BY DEF ReaderIInv
<1>3. written' = written /\ rows' = rows /\ log' = log /\ Hard' = Hard
  BY DEF vars, Hard
<1>4. \A x : ReadOK(x)' <=> ReadOK(x)
  BY <1>3 DEF ReadOK, RowsRead, StreamRead, FirstComplete, Has, Result, Covered
<1>5. \A s \in Readers : reader'[s] \in Reads /\ Phase(reader'[s])
  BY <1>2 DEF ReaderIInv
<1>6. ASSUME ~Hard', NEW s \in Readers PROVE ReadOK(reader[s])'
  <2>1. PICK x : x = reader'[s]
    OBVIOUS
  <2>2. x = q \/ x = reader[s]
    BY <1>2, <2>1
  <2>3. ReadOK(x)
    BY <1>3, <1>6, <2>2 DEF ReaderIInv
  <2>4. ReadOK(x)'
    BY <1>4, <2>3
  <2> QED BY <2>1, <2>4 DEF ReadOK, RowsRead, StreamRead, FirstComplete, Has, Result
<1>7. (\A s \in Readers : reader[s] \in Reads /\ Phase(reader[s]))'
  BY <1>5 DEF Phase
<1> QED BY <1>1, <1>2, <1>6, <1>7 DEF ReaderIInv

(* The reads that are over.                                                *)
LEMMA NoReadOK == NoRead \in Reads /\ Phase(NoRead) /\ ReadOK(NoRead)
<1>1. 0 \in Clocks
  BY Empty
<1>2. NoRead \in Reads
  BY <1>1 DEF NoRead, Reads, Orders
<1>3. NoRead.pc = "idle" /\ NoRead.base = {}
  BY DEF NoRead
<1> QED BY <1>2, <1>3 DEF Phase, ReadOK, RowsRead, StreamRead, FirstComplete, Has

(* A read keeps its type when fields get values of theirs.                 *)
LEMMA ReadTypes ==
  ASSUME NEW x \in Reads, NEW a \in {"idle", "reading", "done"},
         NEW b \in SUBSET {"rows", "stream"}, NEW o \in Orders,
         NEW m \in SUBSET Clocks, NEW n \in Clocks
  PROVE  /\ [x EXCEPT !.pc = a, !.base = m, !.todo = b] \in Reads
         /\ [x EXCEPT !.todo = b, !.order = o, !.pc = a] \in Reads
         /\ [x EXCEPT !.stored = m, !.clock = n] \in Reads
         /\ [x EXCEPT !.messages = m, !.last = n] \in Reads
BY DEF Reads

(* A read begins.                                                          *)
LEMMA StartStep ==
  ASSUME ReaderIInv, NEW r \in Readers, StartRead(r)
  PROVE  ReaderIInv'
<1> DEFINE q == [NoRead EXCEPT !.pc = "reading", !.base = written, !.todo = {"rows", "stream"}]
<1>1. reader' = [reader EXCEPT ![r] = q] /\ UNCHANGED vars
  BY DEF StartRead
<1>2. written \in SUBSET Clocks
  BY MaxClockAssumption DEF ReaderIInv, IInv, TypeOK, Clocks
<1>3. q \in Reads
  <2>1. <<>> \in Orders /\ 0 \in Clocks
    BY Empty DEF Orders
  <2> QED BY <1>2, <2>1, NoReadOK, ReadTypes
<1>4. q.pc = "reading" /\ q.todo = {"rows", "stream"} /\ q.base = written /\ q.order = <<>>
  BY DEF NoRead
<1> HIDE DEF q
<1>5. Phase(q) /\ ReadOK(q)
  BY <1>4 DEF Phase, ReadOK, RowsRead, StreamRead, FirstComplete, Has
<1> QED BY <1>1, <1>3, <1>5, ReaderStep

(* The second of two answers is put after the first.                       *)
LEMMA AppendAnswer ==
  ASSUME NEW S, NEW a \in S, NEW b \in S
  PROVE  Append(<<>>, b) = <<b>> /\ Append(<<a>>, b) = <<a, b>>
<1>1. Append(<<>>, b) = <<b>>
  OBVIOUS
<1>2. PICK s : s = Append(<<a>>, b)
  OBVIOUS
<1>3. PICK t : t = <<a, b>>
  OBVIOUS
<1>4. s \in Seq(S) /\ Len(s) = 2 /\ s[1] = a /\ s[2] = b
  <2>1. <<a>> \in Seq(S) /\ Len(<<a>>) = 1
    OBVIOUS
  <2> QED BY <1>2, <2>1, AppendProperties
<1>5. t \in Seq(S) /\ Len(t) = 2 /\ t[1] = a /\ t[2] = b
  BY <1>3
<1>6. \A i \in 1 .. Len(s) : s[i] = t[i]
  <2>1. \A i \in 1 .. 2 : i = 1 \/ i = 2
    OBVIOUS
  <2> QED BY <1>4, <1>5, <2>1
<1>7. s = t
  BY <1>4, <1>5, <1>6, SeqEqual
<1> QED BY <1>1, <1>2, <1>3, <1>7

(* An answer arrives.                                                      *)
LEMMA AnsweredFields ==
  ASSUME ReaderIInv, NEW r \in Readers, NEW a \in {"rows", "stream"},
         reader[r].pc = "reading", a \in reader[r].todo
  PROVE  LET x == reader[r]
             y == Answered(r, a) IN
         /\ y \in Reads /\ y.base = x.base /\ y.stored = x.stored
         /\ y.clock = x.clock /\ y.messages = x.messages /\ y.last = x.last
         /\ \/ y.pc = "reading" /\ a = "rows" /\ y.todo = {"stream"} /\ y.order = <<"rows">>
            \/ y.pc = "reading" /\ a = "stream" /\ y.todo = {"rows"} /\ y.order = <<"stream">>
            \/ y.pc = "done" /\ a = "rows" /\ y.todo = {} /\ y.order = <<"stream", "rows">>
            \/ y.pc = "done" /\ a = "stream" /\ y.todo = {} /\ y.order = <<"rows", "stream">>
         /\ y.pc = "done" => \A other \in {"rows", "stream"} \ {a} : Has(x, other)
<1>0. PICK x : x = reader[r]
  OBVIOUS
<1>1. PICK p \in {"reading", "done"} : p = IF x.todo = {a} THEN "done" ELSE "reading"
  OBVIOUS
<1>2. PICK b : b = x.todo \ {a}
  OBVIOUS
<1>3. PICK o : o = Append(x.order, a)
  OBVIOUS
<1>4. x \in Reads /\ Phase(x) /\ x.pc = "reading" /\ a \in x.todo
  BY <1>0 DEF ReaderIInv
<1>5. \/ p = "reading" /\ a = "rows" /\ b = {"stream"} /\ o = <<"rows">>
      \/ p = "reading" /\ a = "stream" /\ b = {"rows"} /\ o = <<"stream">>
      \/ p = "done" /\ a = "rows" /\ b = {} /\ o = <<"stream", "rows">>
      \/ p = "done" /\ a = "stream" /\ b = {} /\ o = <<"rows", "stream">>
  <2>1. CASE x.todo = {"rows", "stream"} /\ x.order = <<>>
    <3>1. p = "reading" /\ (a = "rows" => b = {"stream"}) /\ (a = "stream" => b = {"rows"})
      BY <1>1, <1>2, <2>1
    <3>2. o = <<a>>
      BY <1>3, <2>1, AppendAnswer
    <3> QED BY <3>1, <3>2
  <2>2. CASE x.todo = {"rows"} /\ x.order = <<"stream">>
    <3>1. a = "rows" /\ p = "done" /\ b = {}
      BY <1>1, <1>2, <1>4, <2>2
    <3>2. o = <<"stream", "rows">>
      BY <1>3, <2>2, <3>1, AppendAnswer
    <3> QED BY <3>1, <3>2
  <2>3. CASE x.todo = {"stream"} /\ x.order = <<"rows">>
    <3>1. a = "stream" /\ p = "done" /\ b = {}
      BY <1>1, <1>2, <1>4, <2>3
    <3>2. o = <<"rows", "stream">>
      BY <1>3, <2>3, <3>1, AppendAnswer
    <3> QED BY <3>1, <3>2
  <2> QED BY <1>4, <2>1, <2>2, <2>3 DEF Phase
<1> DEFINE y == [x EXCEPT !.todo = b, !.order = o, !.pc = p]
<1>6. Answered(r, a) = y
  BY <1>0, <1>1, <1>2, <1>3 DEF Answered
<1>7. y \in Reads
  <2>1. o \in Orders /\ b \in SUBSET {"rows", "stream"} /\ 0 \in Clocks
    BY <1>5, Empty DEF Orders
  <2> QED BY <1>4, <2>1, ReadTypes
<1>8. x = [pc |-> x.pc, todo |-> x.todo, base |-> x.base, stored |-> x.stored,
           clock |-> x.clock, messages |-> x.messages, last |-> x.last, order |-> x.order]
  BY <1>4 DEF Reads
<1>9. /\ y.pc = p /\ y.todo = b /\ y.order = o
      /\ y.base = x.base /\ y.stored = x.stored
      /\ y.clock = x.clock /\ y.messages = x.messages /\ y.last = x.last
  BY <1>8
<1> HIDE DEF y
<1>10. ASSUME y.pc = "done", NEW other \in {"rows", "stream"} \ {a} PROVE Has(x, other)
  <2>1. p = "done"
    BY <1>9, <1>10
  <2>2. x.todo = {a}
    BY <1>1, <2>1
  <2> QED BY <1>4, <2>2 DEF Has
<1> QED BY <1>0, <1>5, <1>6, <1>7, <1>9, <1>10

(* The rows arrive.                                                        *)
LEMMA RowsStepOfRead ==
  ASSUME ReaderIInv, NEW r \in Readers, ReadRows(r)
  PROVE  ReaderIInv'
<1>1. PICK n \in Times(rows) \union {0} :
        /\ IsLastClock(rows, n)
        /\ reader' = [reader EXCEPT ![r] =
                       [Answered(r, "rows") EXCEPT !.stored = Content(rows), !.clock = n]]
  BY DEF ReadRows
<1>2. UNCHANGED vars /\ reader[r].pc = "reading" /\ "rows" \in reader[r].todo
  BY DEF ReadRows
<1>3. PICK x : x = reader[r]
  OBVIOUS
<1>4. PICK y : y = Answered(r, "rows")
  OBVIOUS
<1>5. PICK c : c = Content(rows)
  OBVIOUS
<1>6. /\ y \in Reads /\ y.base = x.base /\ y.messages = x.messages
      /\ \/ y.pc = "reading" /\ y.todo = {"stream"} /\ y.order = <<"rows">>
         \/ y.pc = "done" /\ y.todo = {} /\ y.order = <<"stream", "rows">>
  BY <1>2, <1>3, <1>4, AnsweredFields
<1>7. c \in SUBSET Clocks /\ n \in Clocks
  BY <1>5, Empty DEF ReaderIInv, IInv, TypeOK, Rows, Content, Times
<1> DEFINE q == [y EXCEPT !.stored = c, !.clock = n]
<1>8. q \in Reads
  <2>1. {} \in SUBSET {"rows", "stream"} /\ <<>> \in Orders
    BY DEF Orders
  <2> QED BY <1>6, <1>7, <2>1, ReadTypes
<1>9. /\ q.pc = y.pc /\ q.todo = y.todo /\ q.order = y.order /\ q.base = y.base
      /\ q.messages = y.messages /\ q.stored = c /\ q.clock = n
  <2>1. y = [pc |-> y.pc, todo |-> y.todo, base |-> y.base, stored |-> y.stored,
             clock |-> y.clock, messages |-> y.messages, last |-> y.last, order |-> y.order]
    BY <1>6 DEF Reads
  <2> QED BY <2>1
<1>10. reader' = [reader EXCEPT ![r] = q]
  BY <1>1, <1>4, <1>5
<1> HIDE DEF q
<1>11. Phase(q)
  BY <1>6, <1>9 DEF Phase
<1>12. ASSUME ~Hard PROVE ReadOK(q)
  <2>1. Data /\ TypeOK
    BY <1>12 DEF ReaderIInv, IInv
  <2>2. x \in Reads /\ Phase(x) /\ ReadOK(x) /\ x.pc = "reading" /\ "rows" \in x.todo
    BY <1>2, <1>3, <1>12 DEF ReaderIInv
  <2>3. q.base = x.base /\ q.base \subseteq written
    BY <1>6, <1>9, <2>2 DEF ReadOK
  <2>4. \A m \in written : m <= n => m \in c
    <3> SUFFICES ASSUME NEW m \in written, m <= n PROVE m \in c
      OBVIOUS
    <3>1. n \in Times(rows)
      BY <1>1, <2>1, Numbers
    <3>2. PICK s \in rows : s.t = n
      BY <3>1 DEF Times
    <3>3. m \in s.content
      BY <2>1, <3>2 DEF Data, RowComplete, UpTo
    <3> QED BY <1>5, <3>2, <3>3 DEF Content
  <2>5. RowsRead(q)
    BY <1>9, <2>3, <2>4 DEF RowsRead
  <2>6. q.order = <<"stream", "rows">> \/ q.order = <<"rows">>
    BY <1>6, <1>9
  <2>7. ASSUME q.pc = "done"
        PROVE  \A m \in q.base : m \in q.messages \/ (Covered(m) /\ m \notin log)
    <3>1. y.pc = "done"
      BY <1>9, <2>7
    <3>2. Has(x, "stream")
      BY <1>2, <1>3, <1>4, <3>1, AnsweredFields
    <3> QED BY <1>6, <1>9, <2>2, <3>2 DEF ReadOK, StreamRead
  <2>8. StreamRead(q)
    <3>1. CASE q.pc = "done"
      BY <2>7, <3>1 DEF StreamRead
    <3>2. CASE q.pc # "done"
      BY <1>6, <1>9, <3>2 DEF StreamRead, Has
    <3> QED BY <3>1, <3>2
  <2>9. FirstComplete(q)
    <3> SUFFICES ASSUME q.pc = "done", NEW m \in q.base PROVE m \in Result(q)
      BY DEF FirstComplete
    <3>1. m \in written /\ m \in Nat /\ n \in Nat
      BY <2>1, <2>3, Numbers
    <3>2. CASE m <= n
      BY <1>9, <2>4, <3>1, <3>2 DEF Result
    <3>3. CASE ~(m <= n)
      <4>1. ~Covered(m)
        BY <1>1, <2>1, <3>1, <3>3, Numbers DEF Covered, IsLastClock, Times
      <4>2. m \in q.messages
        BY <2>7, <4>1
      <4> QED BY <1>9, <3>1, <3>3, <4>2 DEF Result
    <3> QED BY <3>2, <3>3
  <2> QED BY <2>3, <2>5, <2>8, <2>9 DEF ReadOK
<1> QED BY <1>2, <1>8, <1>10, <1>11, <1>12, ReaderStep

(* The messages arrive.                                                    *)
LEMMA MessagesStepOfRead ==
  ASSUME ReaderIInv, NEW r \in Readers, ReadMessages(r)
  PROVE  ReaderIInv'
<1>1. PICK n \in log \union {0} :
        /\ IsLastEntry(log, n)
        /\ reader' = [reader EXCEPT ![r] =
                       [Answered(r, "stream") EXCEPT !.messages = log \intersect written, !.last = n]]
  BY DEF ReadMessages
<1>2. UNCHANGED vars /\ reader[r].pc = "reading" /\ "stream" \in reader[r].todo
  BY DEF ReadMessages
<1>3. PICK x : x = reader[r]
  OBVIOUS
<1>4. PICK y : y = Answered(r, "stream")
  OBVIOUS
<1>5. PICK c : c = log \intersect written
  OBVIOUS
<1>6. /\ y \in Reads /\ y.base = x.base /\ y.stored = x.stored /\ y.clock = x.clock
      /\ \/ y.pc = "reading" /\ y.todo = {"rows"} /\ y.order = <<"stream">>
         \/ y.pc = "done" /\ y.todo = {} /\ y.order = <<"rows", "stream">>
  BY <1>2, <1>3, <1>4, AnsweredFields
<1>7. c \in SUBSET Clocks /\ n \in Clocks
  BY <1>5, Empty, MaxClockAssumption DEF ReaderIInv, IInv, TypeOK, Clocks
<1> DEFINE q == [y EXCEPT !.messages = c, !.last = n]
<1>8. q \in Reads
  <2>1. {} \in SUBSET {"rows", "stream"} /\ <<>> \in Orders
    BY DEF Orders
  <2> QED BY <1>6, <1>7, <2>1, ReadTypes
<1>9. /\ q.pc = y.pc /\ q.todo = y.todo /\ q.order = y.order /\ q.base = y.base
      /\ q.messages = c /\ q.stored = y.stored /\ q.clock = y.clock
  <2>1. y = [pc |-> y.pc, todo |-> y.todo, base |-> y.base, stored |-> y.stored,
             clock |-> y.clock, messages |-> y.messages, last |-> y.last, order |-> y.order]
    BY <1>6 DEF Reads
  <2> QED BY <2>1
<1>10. reader' = [reader EXCEPT ![r] = q]
  BY <1>1, <1>4, <1>5
<1> HIDE DEF q
<1>11. Phase(q)
  BY <1>6, <1>9 DEF Phase
<1>12. ASSUME ~Hard PROVE ReadOK(q)
  <2>1. Data /\ TypeOK
    BY <1>12 DEF ReaderIInv, IInv
  <2>2. x \in Reads /\ Phase(x) /\ ReadOK(x) /\ x.pc = "reading" /\ "stream" \in x.todo
    BY <1>2, <1>3, <1>12 DEF ReaderIInv
  <2>3. q.base = x.base /\ q.base \subseteq written
    BY <1>6, <1>9, <2>2 DEF ReadOK
  <2>4. StreamRead(q)
    BY <1>5, <1>9, <2>1, <2>3 DEF StreamRead, Data
  <2>5. RowsRead(q)
    <3>1. CASE q.pc = "done"
      <4>1. Has(x, "rows")
        <5>1. y.pc = "done"
          BY <1>9, <3>1
        <5> QED BY <1>2, <1>3, <1>4, <5>1, AnsweredFields
      <4> QED BY <1>6, <1>9, <2>2, <4>1 DEF ReadOK, RowsRead
    <3>2. CASE q.pc # "done"
      BY <1>6, <1>9, <3>2 DEF RowsRead, Has
    <3> QED BY <3>1, <3>2
  <2>6. q.order # <<"stream", "rows">>
    <3>1. <<"rows", "stream">> # <<"stream", "rows">> /\ <<"stream">> # <<"stream", "rows">>
      OBVIOUS
    <3> QED BY <1>6, <1>9, <3>1
  <2> QED BY <2>3, <2>4, <2>5, <2>6 DEF ReadOK, FirstComplete
<1> QED BY <1>2, <1>8, <1>10, <1>11, <1>12, ReaderStep

(* The invariant.                                                          *)
THEOREM ReaderInvariant == ReaderSpec => []ReaderIInv
<1>1. ReaderInit => ReaderIInv
  <2> SUFFICES ASSUME ReaderInit PROVE ReaderIInv
    OBVIOUS
  <2>1. IInv
    BY TypeInit, BoundInit, DataInit DEF ReaderInit, Init, IInv, Purge, PurgedStaysErased
  <2>2. \A r \in Readers : reader[r] = NoRead
    BY DEF ReaderInit
  <2>3. reader = [r \in Readers |-> reader[r]]
    BY DEF ReaderInit
  <2>4. \A r \in Readers : reader[r] \in Reads /\ Phase(reader[r]) /\ ReadOK(reader[r])
    BY <2>2, NoReadOK
  <2> QED BY <2>1, <2>3, <2>4 DEF ReaderIInv
<1>2. ReaderIInv /\ [ReaderNext]_readerVars => ReaderIInv'
  <2> SUFFICES ASSUME ReaderIInv, [ReaderNext]_readerVars PROVE ReaderIInv'
    OBVIOUS
  <2>1. CASE [Next]_vars /\ UNCHANGED reader
    BY <2>1, InvariantStep, CompactionStep DEF ReaderIInv
  <2>2. ASSUME NEW r \in Readers, Read(r) PROVE ReaderIInv'
    <3>1. CASE StartRead(r)
      BY <3>1, StartStep
    <3>2. CASE ReadRows(r)
      BY <3>2, RowsStepOfRead
    <3>3. CASE ReadMessages(r)
      BY <3>3, MessagesStepOfRead
    <3>4. CASE EndRead(r)
      BY <3>4, NoReadOK, ReaderStep DEF EndRead
    <3> QED BY <2>2, <3>1, <3>2, <3>3, <3>4 DEF Read
  <2> QED BY <2>1, <2>2 DEF ReaderNext, readerVars
<1> QED BY <1>1, <1>2, PTL DEF ReaderSpec

-----------------------------------------------------------------------------
(* A read whose stream request is served first misses nothing.             *)
THEOREM StreamFirstReadsAreComplete == ReaderSpec => []StreamFirstComplete
<1>1. ReaderIInv => StreamFirstComplete
  <2> SUFFICES ASSUME ReaderIInv PROVE StreamFirstComplete
    OBVIOUS
  <2>1. reader \in [Readers -> Reads]
    BY DEF ReaderIInv
  <2>2. ReaderTypeOK
    BY <2>1 DEF ReaderTypeOK, Reads, Orders
  <2>3. ASSUME NEW r \in Readers, Done(r), reader[r].order[1] = "stream"
        PROVE  reader[r].base \subseteq Result(reader[r])
    <3>1. PICK x : x = reader[r]
      OBVIOUS
    <3>2. Phase(x) /\ x.pc = "done" /\ ReadOK(x) /\ x.order[1] = "stream"
      BY <2>3, <3>1 DEF ReaderIInv, Done
    <3>3. x.order = <<"stream", "rows">>
      <4>1. <<"rows", "stream">>[1] = "rows"
        OBVIOUS
      <4> QED BY <3>2, <4>1 DEF Phase
    <3> QED BY <3>1, <3>2, <3>3 DEF ReadOK, FirstComplete
  <2> QED BY <2>2, <2>3 DEF StreamFirstComplete
<1> QED BY <1>1, ReaderInvariant, PTL

(* What a read misses has been stored and trimmed in between.              *)
THEOREM MissedChangesArePersisted == ReaderSpec => []MissedIsPersisted
<1>1. ReaderIInv => MissedIsPersisted
  <2> SUFFICES ASSUME ReaderIInv, NEW r \in Readers, Done(r),
                      NEW m \in reader[r].base, m \notin Result(reader[r])
               PROVE  m \in Content(rows) /\ m \notin log
    BY DEF MissedIsPersisted
  <2>1. PICK x : x = reader[r]
    OBVIOUS
  <2>2. Phase(x) /\ x.pc = "done" /\ ReadOK(x) /\ x \in Reads
    BY <2>1 DEF ReaderIInv, Done
  <2>3. TypeOK /\ Data
    BY DEF ReaderIInv, IInv, Done
  <2>4. m \in x.base /\ m \in written /\ m \in Nat /\ x.clock \in Nat
    <3>1. m \in x.base /\ m \in written
      BY <2>1, <2>2 DEF ReadOK
    <3> QED BY <2>2, <2>3, <3>1, Numbers, MaxClockAssumption DEF Reads, Clocks
  <2>5. Has(x, "rows") /\ Has(x, "stream")
    BY <2>2 DEF Phase, Has
  <2>6. m \notin x.stored /\ (m \in x.messages => ~(m > x.clock))
    BY <2>1 DEF Result
  <2>7. ~(m <= x.clock)
    BY <2>2, <2>4, <2>5, <2>6 DEF ReadOK, RowsRead
  <2>8. m \notin x.messages
    BY <2>4, <2>6, <2>7
  <2>9. Covered(m) /\ m \notin log
    BY <2>2, <2>4, <2>5, <2>8 DEF ReadOK, StreamRead
  <2> QED BY <2>3, <2>4, <2>9 DEF Data, Covered, RowComplete, UpTo, Content
<1> QED BY <1>1, ReaderInvariant, PTL
=============================================================================
