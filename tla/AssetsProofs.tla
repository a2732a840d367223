---------------------------- MODULE AssetsProofs ----------------------------
(***************************************************************************)
(* Proofs about Assets, for any number of runs, messages and imports.      *)
(*                                                                         *)
(* A run reads rows and objects, removes what it has merged, and may do    *)
(* either long after others have stored something else.  The invariant     *)
(* (IInv) rests on three sets.  What is doomed, because a timer or a       *)
(* DELETE is on its way, is replaced by a newer row with a complete        *)
(* object; the rows that are not doomed hold all that rows stand for; and  *)
(* a run that reads still finds in the objects it waits for what it has    *)
(* not got yet.  The last one needs LateRemoval, and that nothing is       *)
(* missing below a row that is imported needs CleanImports.                *)
(***************************************************************************)
EXTENDS Assets, TLAPS, WellFoundedInduction

UpTo(n) == {m \in written : m <= n}

(* There is a row for the message m, or for what comes after it. *)
Covered(m) == \E t \in rows : m <= t

(* The clocks whose object or row is about to go. *)
Removing(w) == IF run[w].pc = "finish" /\ "delete" \in run[w].todo THEN run[w].refs ELSE {}
Doomed == timers \union UNION {Removing(w) : w \in Workers}
Lasting == rows \ Doomed

(* The object at t holds everything up to its clock; there is a newer one   *)
(* that does, in a row that stays.                                          *)
Complete(t) == UpTo(t) \subseteq ContentAt(t)
Replaced(t) == \E r \in Lasting : t < r /\ Complete(r)
Safe(t) == Complete(t) \/ Replaced(t)

(* An object at the clock of a message was stored by a run.                 *)
OfRun(m) == \A o \in objects : o.t = m => o.content = UpTo(m)

(* Whatever has a clock was written before.                                 *)
RunBound(w) ==
  /\ run[w].seen \subseteq written /\ run[w].refs \subseteq written
  /\ run[w].gets \subseteq run[w].refs
  /\ run[w].pc # "getting" => run[w].gets = {}
  /\ run[w].clock \in written \union {0}
  /\ run[w].pc \in {"selecting", "getting"} => run[w].seen # {}
  /\ run[w].pc \in {"uploading", "inserting"} => run[w].clock \in run[w].seen
Bound ==
  /\ rows \subseteq written /\ timers \subseteq written
  /\ import.pc # "idle" => import.clock \in 1 .. lastId
  /\ \A w \in Workers : RunBound(w)

(* What a run has read is complete but for what it can still find.          *)
SeenBy(w, m) == \E s \in run[w].seen : m <= s
ReferredBy(w, m) == \E t \in run[w].refs : m <= t
SelectingOK(w) ==
  run[w].pc = "selecting" =>
    /\ run[w].content = {}
    /\ \A m \in written : SeenBy(w, m) => m \in run[w].seen \/ Covered(m)
GettingOK(w) ==
  run[w].pc = "getting" =>
    /\ \A m \in written : SeenBy(w, m) => m \in run[w].seen \/ ReferredBy(w, m)
    /\ \A m \in written : ReferredBy(w, m) => Covered(m)
    /\ \A m \in written : ReferredBy(w, m) =>
         m \in run[w].content \/ \E t \in run[w].gets : m \in ContentAt(t)
    /\ \A m \in run[w].content : m \in written /\ ReferredBy(w, m)
StoringOK(w) ==
  run[w].pc \in {"uploading", "inserting"} =>
    /\ run[w].content = UpTo(run[w].clock)
    /\ \A t \in run[w].refs : t < run[w].clock
    /\ run[w].pc = "inserting" => Safe(run[w].clock)
FinishOK(w) ==
  run[w].pc = "finish" => \A m \in written : m <= run[w].clock => Covered(m)
RunOK(w) ==
  /\ \A m \in run[w].seen : OfRun(m)
  /\ SelectingOK(w) /\ GettingOK(w) /\ StoringOK(w) /\ FinishOK(w)

(* Nothing is written while a version is imported.                          *)
ImportOK ==
  import.pc # "idle" =>
    /\ import.clock = lastId /\ lastId \notin written
    /\ \A m \in written : Covered(m)
    /\ import.pc = "inserting" => lastId \in ContentAt(lastId)

RowsOK ==
  /\ \A m \in written : m \in log \/ Covered(m)
  /\ \A m \in written : Covered(m) => \E r \in Lasting : m \in ContentAt(r)
  /\ \A t \in Doomed : Replaced(t)
ObjectsOK ==
  /\ \A o \in objects : o.content \subseteq UpTo(o.t) \union {o.t}
  /\ \A m \in log : OfRun(m)
Data == RowsOK /\ ObjectsOK /\ ImportOK /\ \A w \in Workers : RunOK(w)

IInv == TypeOK /\ Bound /\ (~Hard => Data)

-----------------------------------------------------------------------------
(* Clocks *)

(* A set of clocks has a greatest element. *)
LEMMA GreatestExists ==
  ASSUME NEW S \in SUBSET Clocks, S # {}
  PROVE  \E n \in S : \A m \in S : m <= n
<1> DEFINE R == {p \in Nat \X Nat : p[1] < p[2]}
           T == {i \in Nat : MaxClock - i \in S}
<1>0. \A n \in S : n \in Nat /\ MaxClock - n \in Nat /\ MaxClock - (MaxClock - n) = n
  BY MaxClockAssumption DEF Clocks
<1>1. IsWellFoundedOn(R, Nat)
  BY NatLessThanWellFounded DEF OpToRel
<1>2. T \subseteq Nat /\ T # {}
  <2>1. PICK n \in S : TRUE
    OBVIOUS
  <2>2. MaxClock - n \in T
    BY <1>0, <2>1
  <2> QED BY <2>2
<1>3. PICK i \in T : \A j \in T : <<j, i>> \notin R
  <2> HIDE DEF R, T
  <2> QED BY <1>1, <1>2, WFMin
<1>4. \A j \in T : ~(j < i)
  BY <1>3
<1>5. MaxClock - i \in S
  BY <1>3
<1>6. \A m \in S : m <= MaxClock - i
  <2> TAKE m \in S
  <2>1. MaxClock - m \in T
    BY <1>0
  <2>2. ~(MaxClock - m < i) /\ i \in Nat /\ m \in Nat /\ MaxClock \in Nat
    BY <1>0, <1>4, <2>1, <1>3, MaxClockAssumption
  <2> QED BY <2>2
<1> QED BY <1>5, <1>6

(* NewestOf is the greatest clock of a set, or 0. *)
LEMMA Newest ==
  ASSUME NEW S \in SUBSET Clocks
  PROVE  /\ NewestOf(S) \in S \union {0}
         /\ NewestOf(S) \in Clocks
         /\ \A m \in S : m <= NewestOf(S)
<1>1. \E n \in S \union {0} : \A m \in S : m <= n
  BY GreatestExists
<1>2. 0 \in Clocks
  BY MaxClockAssumption DEF Clocks
<1> QED BY <1>1, <1>2 DEF NewestOf

-----------------------------------------------------------------------------
(* Types *)

Positions == {"idle", "selecting", "getting", "uploading", "inserting", "finish"}
Requests == {"delete", "trim"}
Runs == [pc : Positions, seen : SUBSET Clocks, refs : SUBSET Clocks, gets : SUBSET Clocks,
         todo : SUBSET Requests, content : SUBSET Clocks, clock : Clocks]

StreamType == lastId \in Clocks /\ written \subseteq 1 .. lastId /\ log \subseteq written
StoreType ==
  /\ rows \subseteq 1 .. lastId /\ timers \subseteq 1 .. lastId
  /\ objects \in SUBSET [t : 1 .. lastId, content : SUBSET Clocks]
  /\ \A o, p \in objects : o.t = p.t => o = p
DeletionType ==
  /\ deletion \in {"none", "tombstone", "cleared", "listed", "purged"}
  /\ listed \subseteq Clocks
ImportType == import \in [pc : {"idle", "uploading", "inserting"}, clock : Clocks]
RunType == run \in [Workers -> Runs]

(* TypeOK by parts. *)
LEMMA Types == TypeOK <=> StreamType /\ StoreType /\ DeletionType /\ ImportType /\ RunType
BY DEF TypeOK, StreamType, StoreType, DeletionType, ImportType, RunType, Runs, Positions, Requests

(* All that was written has a clock. *)
LEMMA WrittenClocks ==
  ASSUME StreamType
  PROVE  /\ written \subseteq Clocks /\ 0 \in Clocks /\ lastId \in Nat
         /\ \A m \in written : m \in Nat /\ 1 <= m /\ m <= lastId
BY MaxClockAssumption DEF StreamType, Clocks

(* The empty values have their types. *)
LEMMA Empty == NoRun \in Runs /\ NoImport \in [pc : {"idle", "uploading", "inserting"}, clock : Clocks]
BY MaxClockAssumption DEF Clocks, NoRun, NoImport, Runs, Positions

(* A run that only has to trim. *)
LEMMA TrimOnlyIs ==
  ASSUME NEW n \in Clocks
  PROVE  [NoRun EXCEPT !.pc = "finish", !.todo = {"trim"}, !.clock = n] \in Runs
<1>1. ASSUME NEW x \in Runs, NEW p \in Positions, NEW d \in SUBSET Requests
      PROVE  [x EXCEPT !.pc = p, !.todo = d, !.clock = n] \in Runs
  BY <1>1 DEF Runs
<1>2. "finish" \in Positions /\ {"trim"} \in SUBSET Requests
  BY DEF Positions, Requests
<1> QED BY <1>1, <1>2, Empty
(* And one that has read the stream. *)
LEMMA SelectingIs ==
  ASSUME NEW S \in SUBSET Clocks
  PROVE  [NoRun EXCEPT !.pc = "selecting", !.seen = S] \in Runs
<1>1. ASSUME NEW x \in Runs, NEW p \in Positions
      PROVE  [x EXCEPT !.pc = p, !.seen = S] \in Runs
  BY <1>1 DEF Runs
<1>2. "selecting" \in Positions
  BY DEF Positions
<1> QED BY <1>1, <1>2, Empty

(* The run of w is now x, the others are what they were. *)
LEMMA MoveTo ==
  ASSUME RunType, NEW w \in Workers, NEW x \in Runs, run' = [run EXCEPT ![w] = x]
  PROVE  RunType' /\ run'[w] = x /\ \A v \in Workers : v # w => run'[v] = run[v]
BY DEF RunType

(* Steps of a run, by the fields of its record. *)
LEMMA BeginIs ==
  ASSUME RunType, StreamType, StoreType, Bound, NEW w \in Workers, Begin(w)
  PROVE  /\ RunType' /\ \A v \in Workers : v # w => run'[v] = run[v]
         /\ \/ /\ Hard \/ NewestOf(log) <= NewestOf(rows)
               /\ run'[w] = [NoRun EXCEPT !.pc = "finish", !.todo = {"trim"},
                               !.clock = MaxOf(NewestOf(rows), NewestOf(log))]
               /\ MaxOf(NewestOf(rows), NewestOf(log)) \in written \union {0}
            \/ /\ log # {} /\ run'[w] = [NoRun EXCEPT !.pc = "selecting", !.seen = log]
<1>1. rows \in SUBSET Clocks /\ log \in SUBSET Clocks
  BY WrittenClocks DEF StreamType, Bound
<1> DEFINE n == MaxOf(NewestOf(rows), NewestOf(log))
           x == [NoRun EXCEPT !.pc = "finish", !.todo = {"trim"}, !.clock = n]
           y == [NoRun EXCEPT !.pc = "selecting", !.seen = log]
<1>2. n \in written \union {0} /\ n \in Clocks
  BY <1>1, Newest, WrittenClocks DEF MaxOf, Bound, StreamType
<1> HIDE DEF n
<1>3. x \in Runs /\ y \in Runs
  BY <1>1, <1>2, TrimOnlyIs, SelectingIs DEF x, y
<1>4. \/ (Hard \/ NewestOf(log) <= NewestOf(rows)) /\ run' = [run EXCEPT ![w] = x]
      \/ log # {} /\ run' = [run EXCEPT ![w] = y]
  BY DEF Begin, n
<1> HIDE DEF x, y
<1>5. RunType' /\ \A v \in Workers : v # w => run'[v] = run[v]
  BY <1>3, <1>4, MoveTo
<1>6. \/ (Hard \/ NewestOf(log) <= NewestOf(rows)) /\ run'[w] = x
      \/ log # {} /\ run'[w] = y
  BY <1>3, <1>4, MoveTo
<1> QED BY <1>2, <1>5, <1>6 DEF x, y, n

(* The rows are read ... *)
LEMMA SelectIs ==
  ASSUME RunType, StreamType, Bound, NEW w \in Workers, SelectRows(w)
  PROVE  /\ RunType' /\ \A v \in Workers : v # w => run'[v] = run[v]
         /\ run'[w] = [run[w] EXCEPT !.pc = "getting", !.refs = rows, !.gets = rows]
<1> DEFINE x == [run[w] EXCEPT !.pc = "getting", !.refs = rows, !.gets = rows]
<1>1. rows \in SUBSET Clocks
  BY WrittenClocks DEF Bound
<1>2. x \in Runs
  BY <1>1 DEF RunType, Runs, Positions
<1>3. run' = [run EXCEPT ![w] = x]
  BY DEF SelectRows
<1> HIDE DEF x
<1>4. RunType' /\ run'[w] = x /\ \A v \in Workers : v # w => run'[v] = run[v]
  BY <1>2, <1>3, MoveTo
<1> QED BY <1>4 DEF x

(* ... and one object. *)
LEMMA GetIs ==
  ASSUME RunType, StoreType, NEW w \in Workers, NEW t, GetObject(w, t)
  PROVE  /\ RunType' /\ \A v \in Workers : v # w => run'[v] = run[v]
         /\ run'[w] = [run[w] EXCEPT !.gets = @ \ {t}, !.content = @ \union ContentAt(t)]
<1> DEFINE x == [run[w] EXCEPT !.gets = @ \ {t}, !.content = @ \union ContentAt(t)]
<1>1. ContentAt(t) \subseteq Clocks
  BY DEF StoreType, ContentAt
<1>2. x \in Runs
  BY <1>1 DEF RunType, Runs
<1>3. run' = [run EXCEPT ![w] = x]
  BY DEF GetObject
<1> HIDE DEF x
<1>4. RunType' /\ run'[w] = x /\ \A v \in Workers : v # w => run'[v] = run[v]
  BY <1>2, <1>3, MoveTo
<1> QED BY <1>4 DEF x

(* What a run has is merged, or found to be old. *)
LEMMA MergeIs ==
  ASSUME RunType, StreamType, Bound, NEW w \in Workers, Merge(w)
  PROVE  /\ RunType' /\ \A v \in Workers : v # w => run'[v] = run[v]
         /\ NewestOf(run[w].refs) \in written \union {0}
         /\ \A t \in run[w].refs : t <= NewestOf(run[w].refs)
         /\ \/ /\ Outdated(w)
               /\ run'[w] = [NoRun EXCEPT !.pc = "finish", !.todo = {"trim"},
                                          !.clock = NewestOf(run[w].refs)]
            \/ /\ ~Outdated(w) /\ NewestOf(run[w].seen) \in run[w].seen
               /\ run'[w] = [run[w] EXCEPT !.pc = "uploading", !.content = Merged(w),
                                           !.clock = NewestOf(run[w].seen)]
<1> DEFINE n == NewestOf(run[w].refs)
           k == NewestOf(run[w].seen)
           x == [NoRun EXCEPT !.pc = "finish", !.todo = {"trim"}, !.clock = n]
           y == [run[w] EXCEPT !.pc = "uploading", !.content = Merged(w), !.clock = k]
<1>0. run[w].refs \in SUBSET Clocks /\ run[w].seen \in SUBSET Clocks /\ run[w].content \in SUBSET Clocks
  BY DEF RunType, Runs
<1>1. n \in run[w].refs \union {0} /\ n \in Clocks /\ \A t \in run[w].refs : t <= n
  BY <1>0, Newest
<1>2. k \in run[w].seen \union {0} /\ k \in Clocks
  BY <1>0, Newest
<1>3. ~Outdated(w) => k \in run[w].seen
  BY <1>0, <1>1, <1>2, MaxClockAssumption DEF Outdated, Clocks
<1>4. Merged(w) \in SUBSET Clocks
  BY <1>0 DEF Merged
<1>5. n \in written \union {0}
  BY <1>1 DEF Bound, RunBound
<1>6. \/ Outdated(w) /\ run' = [run EXCEPT ![w] = x]
      \/ ~Outdated(w) /\ run' = [run EXCEPT ![w] = y]
  BY DEF Merge
<1> HIDE DEF n, k
<1>7. x \in Runs
  BY <1>1, TrimOnlyIs
<1>a. y \in Runs
  <2>1. run[w] \in Runs /\ "uploading" \in Positions
    BY DEF RunType, Positions
  <2> QED BY <1>2, <1>4, <2>1 DEF Runs
<1> HIDE DEF x, y
<1>8. RunType' /\ \A v \in Workers : v # w => run'[v] = run[v]
  BY <1>6, <1>7, <1>a, MoveTo
<1>9. \/ Outdated(w) /\ run'[w] = x
      \/ ~Outdated(w) /\ run'[w] = y
  BY <1>6, <1>7, <1>a, MoveTo
<1> QED BY <1>1, <1>3, <1>5, <1>8, <1>9 DEF x, y, n, k

(* The object is stored ... *)
LEMMA UploadIs ==
  ASSUME RunType, NEW w \in Workers, Upload(w)
  PROVE  /\ RunType' /\ \A v \in Workers : v # w => run'[v] = run[v]
         /\ run'[w] = [run[w] EXCEPT !.pc = "inserting"]
<1> DEFINE x == [run[w] EXCEPT !.pc = "inserting"]
<1>2. x \in Runs
  BY DEF RunType, Runs, Positions
<1>3. run' = [run EXCEPT ![w] = x]
  BY DEF Upload
<1> HIDE DEF x
<1>4. RunType' /\ run'[w] = x /\ \A v \in Workers : v # w => run'[v] = run[v]
  BY <1>2, <1>3, MoveTo
<1> QED BY <1>4 DEF x

(* ... and its row. *)
LEMMA InsertIs ==
  ASSUME RunType, NEW w \in Workers, Insert(w)
  PROVE  /\ RunType' /\ \A v \in Workers : v # w => run'[v] = run[v]
         /\ run'[w] = [run[w] EXCEPT !.pc = "finish", !.todo = {"delete", "trim"}]
<1> DEFINE x == [run[w] EXCEPT !.pc = "finish", !.refs = run[w].refs, !.todo = {"delete", "trim"}]
           y == [run[w] EXCEPT !.pc = "finish", !.todo = {"delete", "trim"}]
<1>1. run[w] \in Runs
  BY DEF RunType
<1>2. x = y /\ y \in Runs
  BY <1>1 DEF Runs, Positions, Requests
<1>3. run' = [run EXCEPT ![w] = x]
  BY DEF Insert, Superseded
<1> HIDE DEF x, y
<1>4. RunType' /\ run'[w] = y /\ \A v \in Workers : v # w => run'[v] = run[v]
  BY <1>2, <1>3, MoveTo
<1> QED BY <1>4 DEF y

(* One of the last requests is answered. *)
LEMMA AnsweredIs ==
  ASSUME RunType, NEW w \in Workers, NEW r, Answered(w, r)
  PROVE  /\ RunType' /\ \A v \in Workers : v # w => run'[v] = run[v]
         /\ run'[w] = NoRun \/ run'[w] = [run[w] EXCEPT !.todo = @ \ {r}]
<1> DEFINE x == IF run[w].todo = {r} THEN NoRun ELSE [run[w] EXCEPT !.todo = @ \ {r}]
<1>2. x \in Runs
  BY Empty DEF RunType, Runs
<1>3. run' = [run EXCEPT ![w] = x]
  BY DEF Answered
<1> HIDE DEF x
<1>4. RunType' /\ run'[w] = x /\ \A v \in Workers : v # w => run'[v] = run[v]
  BY <1>2, <1>3, MoveTo
<1> QED BY <1>4 DEF x

(* A run ends. *)
LEMMA FailIs ==
  ASSUME RunType, NEW w \in Workers, Fail(w)
  PROVE  RunType' /\ run'[w] = NoRun /\ \A v \in Workers : v # w => run'[v] = run[v]
BY Empty, MoveTo DEF Fail

-----------------------------------------------------------------------------
(* Every step keeps the types, and everything that has a clock was written. *)

(* The types of the initial state. *)
LEMMA TypeInit == Init => TypeOK /\ Bound
<1> SUFFICES ASSUME Init PROVE TypeOK /\ Bound
  OBVIOUS
<1>1. StreamType /\ StoreType /\ DeletionType /\ ImportType
  BY Empty, MaxClockAssumption
  DEF Init, StreamType, StoreType, DeletionType, ImportType, NoImport, Clocks
<1>2. RunType
  BY Empty DEF Init, RunType
<1>3. Bound
  BY DEF Init, Bound, RunBound, NoImport, NoRun
<1> QED BY <1>1, <1>2, <1>3, Types

(* The bounds of a run that does not move. *)
LEMMA RunBoundStays ==
  ASSUME NEW v \in Workers, RunBound(v), run'[v] = run[v], written \subseteq written'
  PROVE  RunBound(v)'
BY DEF RunBound

(* An idle run has no bounds. *)
LEMMA NoRunBound ==
  ASSUME NEW v \in Workers, run'[v] = NoRun
  PROVE  RunBound(v)'
BY DEF RunBound, NoRun

(* An object more. *)
LEMMA PutType ==
  ASSUME StoreType, NEW t \in 1 .. lastId, NEW c \in SUBSET Clocks, PutObject(t, c),
         UNCHANGED <<rows, timers, lastId>>
  PROVE  StoreType'
<1>1. objects' = {o \in objects : o.t # t} \union {[t |-> t, content |-> c]}
  BY DEF PutObject
<1>2. [t |-> t, content |-> c] \in [t : 1 .. lastId, content : SUBSET Clocks]
  OBVIOUS
<1>3. objects' \in SUBSET [t : 1 .. lastId, content : SUBSET Clocks]
  BY <1>1, <1>2 DEF StoreType
<1>4. \A o, p \in objects' : o.t = p.t => o = p
  BY <1>1 DEF StoreType
<1> QED BY <1>3, <1>4 DEF StoreType

(* A later time. *)
LEMMA StoreTypeLater ==
  ASSUME StoreType, UNCHANGED storeVars, lastId \in Nat, lastId' = lastId + 1
  PROVE  StoreType'
<1>1. 1 .. lastId \subseteq 1 .. lastId'
  OBVIOUS
<1>2. [t : 1 .. lastId, content : SUBSET Clocks] \subseteq [t : 1 .. lastId', content : SUBSET Clocks]
  BY <1>1
<1> QED BY <1>1, <1>2 DEF StoreType, storeVars

(* A step of a run. *)
LEMMA TypeOfRun ==
  ASSUME TypeOK, Bound, NEW w \in Workers, Run(w) \/ Fail(w)
  PROVE  TypeOK' /\ Bound'
<1> USE DEF streamVars, storeVars, deletionVars
<1>0. StreamType /\ StoreType /\ DeletionType /\ ImportType /\ RunType /\ RunBound(w)
  BY Types DEF Bound
<1>w. written' = written /\ lastId' = lastId /\ import' = import /\ log' \subseteq log
  BY DEF Run, Fail, Begin, SelectRows, GetObject, Merge, Upload, Insert, DeleteRows, TrimMessages
<1>d. DeletionType' /\ ImportType' /\ StreamType'
  <2>1. UNCHANGED <<deletion, listed>>
    BY DEF Run, Fail, Begin, SelectRows, GetObject, Merge, Upload, Insert, DeleteRows, TrimMessages
  <2> QED BY <1>0, <1>w, <2>1 DEF DeletionType, ImportType, StreamType
<1>r. ASSUME RunType', RunBound(w)', \A v \in Workers : v # w => run'[v] = run[v], StoreType',
             rows' \subseteq written, timers' \subseteq written
      PROVE  TypeOK' /\ Bound'
  <2>1. \A v \in Workers : RunBound(v)'
    BY <1>r, <1>w, RunBoundStays DEF Bound
  <2>2. Bound'
    BY <1>r, <1>w, <2>1 DEF Bound
  <2>3. TypeOK'
    BY <1>d, <1>r DEF TypeOK, StreamType, StoreType, DeletionType, ImportType, RunType, Runs,
                      Positions, Requests
  <2> QED BY <2>2, <2>3
<1>s. ASSUME UNCHANGED storeVars PROVE StoreType' /\ rows' \subseteq written /\ timers' \subseteq written
  BY <1>0, <1>s, <1>w DEF StoreType, Bound
<1>q. run[w] \in Runs
  BY <1>0 DEF RunType
<1>1. CASE Begin(w)
  <2>1. RunBound(w)'
    <3>1. CASE run'[w] = [NoRun EXCEPT !.pc = "finish", !.todo = {"trim"},
                               !.clock = MaxOf(NewestOf(rows), NewestOf(log))]
      <4>1. run'[w].clock \in written \union {0} \/ run'[w].pc = "selecting"
        BY <1>0, <1>1, BeginIs DEF NoRun
      <4> DEFINE n == MaxOf(NewestOf(rows), NewestOf(log))
      <4> HIDE DEF n
      <4>2. /\ run'[w].pc = "finish" /\ run'[w].seen = {} /\ run'[w].refs = {}
            /\ run'[w].gets = {}
        BY <3>1 DEF NoRun, n
      <4>3. run'[w].clock \in written' \union {0}
        BY <1>w, <4>1, <4>2
      <4> QED BY <4>2, <4>3 DEF RunBound
    <3>2. CASE log # {} /\ run'[w] = [NoRun EXCEPT !.pc = "selecting", !.seen = log]
      BY <1>0, <1>w, <3>2 DEF RunBound, NoRun, StreamType
    <3> QED BY <1>0, <1>1, <3>1, <3>2, BeginIs
  <2>2. UNCHANGED storeVars
    BY <1>1 DEF Begin
  <2> QED BY <1>0, <1>1, <1>r, <1>s, <2>1, <2>2, BeginIs
<1>2. CASE SelectRows(w)
  <2>1. run'[w] = [run[w] EXCEPT !.pc = "getting", !.refs = rows, !.gets = rows]
    BY <1>0, <1>2, SelectIs
  <2>4. /\ run'[w].pc = "getting" /\ run'[w].refs = rows /\ run'[w].gets = rows
        /\ run'[w].seen = run[w].seen /\ run'[w].clock = run[w].clock
    BY <1>q, <2>1 DEF Runs
  <2>5. rows \subseteq written /\ run[w].pc = "selecting"
    BY <1>2 DEF Bound, SelectRows
  <2>2. RunBound(w)'
    BY <1>0, <1>w, <2>4, <2>5 DEF RunBound
  <2>3. UNCHANGED storeVars
    BY <1>2 DEF SelectRows
  <2> QED BY <1>0, <1>2, <1>r, <1>s, <2>2, <2>3, SelectIs
<1>3. ASSUME NEW t \in Clocks, GetObject(w, t) PROVE TypeOK' /\ Bound'
  <2>1. run'[w] = [run[w] EXCEPT !.gets = @ \ {t}, !.content = @ \union ContentAt(t)]
    BY <1>0, <1>3, GetIs
  <2>2. RunBound(w)'
    BY <1>0, <1>q, <1>w, <2>1 DEF RunBound, Runs
  <2>3. UNCHANGED storeVars
    BY <1>3 DEF GetObject
  <2>4. RunType' /\ \A v \in Workers : v # w => run'[v] = run[v]
    BY <1>0, <1>3, GetIs
  <2> QED BY <1>r, <1>s, <2>2, <2>3, <2>4
<1>4. CASE Merge(w)
  <2>1. RunBound(w)'
    <3>1. CASE /\ run'[w] = [NoRun EXCEPT !.pc = "finish", !.todo = {"trim"},
                                          !.clock = NewestOf(run[w].refs)]
               /\ NewestOf(run[w].refs) \in written \union {0}
      BY <1>w, <3>1 DEF RunBound, NoRun
    <3>2. CASE /\ NewestOf(run[w].seen) \in run[w].seen
               /\ run'[w] = [run[w] EXCEPT !.pc = "uploading", !.content = Merged(w),
                                           !.clock = NewestOf(run[w].seen)]
      <4>1. /\ run'[w].pc = "uploading" /\ run'[w].clock = NewestOf(run[w].seen)
            /\ run'[w].seen = run[w].seen /\ run'[w].refs = run[w].refs /\ run'[w].gets = run[w].gets
        BY <1>q, <3>2 DEF Runs
      <4>2. run[w].gets = {}
        BY <1>4 DEF Merge
      <4> QED BY <1>0, <1>w, <3>2, <4>1, <4>2 DEF RunBound
    <3> QED BY <1>0, <1>4, <3>1, <3>2, MergeIs
  <2>2. UNCHANGED storeVars
    BY <1>4 DEF Merge
  <2> QED BY <1>0, <1>4, <1>r, <1>s, <2>1, <2>2, MergeIs
<1>5. CASE Upload(w)
  <2>1. run'[w] = [run[w] EXCEPT !.pc = "inserting"]
    BY <1>0, <1>5, UploadIs
  <2>2. RunBound(w)'
    BY <1>0, <1>5, <1>q, <1>w, <2>1 DEF RunBound, Runs, Upload
  <2>3. run[w].clock \in 1 .. lastId /\ run[w].content \in SUBSET Clocks
    BY <1>0, <1>5, <1>q DEF RunBound, Runs, Upload, StreamType
  <2>4. StoreType' /\ rows' \subseteq written /\ timers' \subseteq written
    BY <1>0, <1>5, <2>3, PutType DEF Upload, Bound
  <2> QED BY <1>0, <1>5, <1>r, <2>2, <2>4, UploadIs
<1>6. CASE Insert(w)
  <2>1. run'[w] = [run[w] EXCEPT !.pc = "finish", !.todo = {"delete", "trim"}]
    BY <1>0, <1>6, InsertIs
  <2>6. /\ run'[w].pc = "finish" /\ run'[w].clock = run[w].clock
        /\ run'[w].seen = run[w].seen /\ run'[w].refs = run[w].refs /\ run'[w].gets = run[w].gets
    BY <1>q, <2>1 DEF Runs
  <2>7. run[w].gets = {}
    BY <1>0, <1>6 DEF Insert, RunBound
  <2>2. RunBound(w)'
    BY <1>0, <1>w, <2>6, <2>7 DEF RunBound
  <2>3. run[w].clock \in written /\ run[w].refs \subseteq written
    BY <1>0, <1>6 DEF RunBound, Insert
  <2>4. rows' \subseteq written /\ timers' \subseteq written
    BY <1>6, <2>3 DEF Insert, RowsInserted, Superseded, Bound
  <2>5. StoreType'
    BY <1>0, <1>6, <1>w, <2>4 DEF StoreType, Insert, StreamType
  <2> QED BY <1>0, <1>6, <1>r, <2>2, <2>4, <2>5, InsertIs
<1>a. ASSUME NEW x, Answered(w, x)
      PROVE RunType' /\ RunBound(w)' /\ \A v \in Workers : v # w => run'[v] = run[v]
  <2>1. CASE run'[w] = NoRun
    BY <1>0, <1>a, <2>1, AnsweredIs, NoRunBound
  <2>2. CASE run'[w] = [run[w] EXCEPT !.todo = @ \ {x}]
    <3>1. RunBound(w)'
      BY <1>0, <1>q, <1>w, <2>2 DEF RunBound, Runs
    <3> QED BY <1>0, <1>a, <3>1, AnsweredIs
  <2> QED BY <1>0, <1>a, <2>1, <2>2, AnsweredIs
<1>7. CASE DeleteRows(w)
  <2>1. StoreType' /\ rows' \subseteq written /\ timers' \subseteq written
    BY <1>0, <1>7, <1>w DEF DeleteRows, StoreType, Bound
  <2>2. Answered(w, "delete")
    BY <1>7 DEF DeleteRows
  <2> QED BY <1>a, <1>r, <2>1, <2>2
<1>8. CASE TrimMessages(w)
  <2>1. Answered(w, "trim") /\ UNCHANGED storeVars
    BY <1>8 DEF TrimMessages
  <2> QED BY <1>a, <1>r, <1>s, <2>1
<1>9. CASE Fail(w)
  <2>1. UNCHANGED storeVars
    BY <1>9 DEF Fail
  <2> QED BY <1>0, <1>9, <1>r, <1>s, <2>1, FailIs, NoRunBound
<1> QED BY <1>1, <1>2, <1>3, <1>4, <1>5, <1>6, <1>7, <1>8, <1>9 DEF Run

(* All other steps leave the runs alone. *)
LEMMA TypeOfOthers ==
  ASSUME TypeOK, Bound, AddMessage \/ Plugin \/ Deletion \/ Import
  PROVE  TypeOK' /\ Bound'
<1> USE DEF streamVars, storeVars, deletionVars
<1>0. StreamType /\ StoreType /\ DeletionType /\ ImportType /\ RunType
  BY Types
<1>c. rows \subseteq Clocks /\ lastId \in Nat /\ lastId \in Clocks /\ rows \subseteq 1 .. lastId
  BY <1>0, WrittenClocks DEF Bound, StreamType, StoreType
<1>r. ASSUME run' = run, written \subseteq written', StreamType', StoreType', DeletionType', ImportType',
             rows' \subseteq written', timers' \subseteq written',
             import'.pc # "idle" => import'.clock \in 1 .. lastId'
      PROVE  TypeOK' /\ Bound'
  <2>1. \A v \in Workers : RunBound(v)'
    BY <1>r, RunBoundStays DEF Bound
  <2>2. Bound'
    BY <1>r, <2>1 DEF Bound
  <2>3. RunType'
    BY <1>0, <1>r DEF RunType
  <2>4. TypeOK'
    BY <1>r, <2>3 DEF TypeOK, StreamType, StoreType, DeletionType, ImportType, RunType, Runs,
                      Positions, Requests
  <2> QED BY <2>2, <2>4
<1>s. ASSUME UNCHANGED streamVars PROVE StreamType' /\ written \subseteq written'
  BY <1>0, <1>s DEF StreamType
<1>d. ASSUME UNCHANGED deletionVars PROVE DeletionType'
  BY <1>0, <1>d DEF DeletionType
<1>i. ASSUME UNCHANGED <<import, lastId>>
      PROVE  ImportType' /\ (import'.pc # "idle" => import'.clock \in 1 .. lastId')
  BY <1>0, <1>i DEF ImportType, Bound
<1>t. ASSUME UNCHANGED <<storeVars, lastId, written>>
      PROVE  StoreType' /\ rows' \subseteq written' /\ timers' \subseteq written'
  BY <1>0, <1>t DEF StoreType, Bound
<1>1. CASE AddMessage
  <2>1. StreamType' /\ written \subseteq written'
    BY <1>0, <1>1, <1>c, MaxClockAssumption DEF AddMessage, StreamType, Clocks
  <2>2. StoreType'
    BY <1>0, <1>1, <1>c, StoreTypeLater DEF AddMessage
  <2>3. DeletionType' /\ run' = run
    BY <1>1, <1>d DEF AddMessage
  <2>4. rows' \subseteq written' /\ timers' \subseteq written'
    BY <1>1, <2>1 DEF AddMessage, Bound
  <2>5. ImportType' /\ (import'.pc # "idle" => import'.clock \in 1 .. lastId')
    BY <1>0, <1>1, <1>c DEF AddMessage, ImportType, Bound
  <2> QED BY <1>r, <2>1, <2>2, <2>3, <2>4, <2>5
<1>2. ASSUME NEW t \in Clocks, RemoveObject(t) \/ LoseTimer(t) PROVE TypeOK' /\ Bound'
  <2>1. objects' \subseteq objects /\ timers' \subseteq timers
    BY <1>2 DEF RemoveObject, LoseTimer
  <2>2. UNCHANGED <<streamVars, rows, deletionVars, import, run>>
    BY <1>2 DEF RemoveObject, LoseTimer
  <2>3. StoreType' /\ rows' \subseteq written' /\ timers' \subseteq written'
    BY <1>0, <2>1, <2>2 DEF StoreType, Bound
  <2> QED BY <1>r, <1>s, <1>d, <1>i, <2>2, <2>3
<1>3. CASE Deletion
  <2>1. UNCHANGED <<lastId, written, objects, import, run>> /\ log' \subseteq log
    BY <1>3 DEF Deletion, StoreTombstone, ClearMessages, ListReferences, PurgeRows
  <2>2. rows' \subseteq rows /\ timers' \subseteq timers \union rows
    BY <1>3 DEF Deletion, StoreTombstone, ClearMessages, ListReferences, PurgeRows
  <2>3. DeletionType'
    BY <1>0, <1>3, <1>c DEF Deletion, StoreTombstone, ClearMessages, ListReferences, PurgeRows, DeletionType
  <2>4. StreamType' /\ written \subseteq written'
    BY <1>0, <2>1 DEF StreamType
  <2>5. StoreType' /\ rows' \subseteq written' /\ timers' \subseteq written'
    BY <1>0, <2>1, <2>2 DEF StoreType, Bound
  <2> QED BY <1>r, <1>i, <2>1, <2>3, <2>4, <2>5
<1>4. CASE BeginImport
  <2>1. StreamType' /\ written \subseteq written'
    BY <1>0, <1>4, <1>c, MaxClockAssumption DEF BeginImport, StreamType, Clocks
  <2>2. StoreType' /\ rows' \subseteq written' /\ timers' \subseteq written'
    BY <1>0, <1>4, <1>c, StoreTypeLater DEF BeginImport, Bound
  <2>3. lastId + 1 \in Clocks /\ lastId + 1 \in 1 .. lastId + 1
    BY <1>4, <1>c, MaxClockAssumption DEF BeginImport, Clocks
  <2>4. ImportType' /\ (import'.pc # "idle" => import'.clock \in 1 .. lastId')
    BY <1>4, <2>3 DEF BeginImport, ImportType
  <2> QED BY <1>4, <1>r, <1>d, <2>1, <2>2, <2>4 DEF BeginImport
<1>5. CASE UploadImport
  <2>1. import.clock \in 1 .. lastId /\ {import.clock} \in SUBSET Clocks
    BY <1>0, <1>5 DEF UploadImport, Bound, ImportType
  <2>2. StoreType'
    BY <1>0, <1>5, <2>1, PutType DEF UploadImport
  <2>3. rows' \subseteq written' /\ timers' \subseteq written'
    BY <1>5 DEF UploadImport, Bound
  <2>4. ImportType' /\ (import'.pc # "idle" => import'.clock \in 1 .. lastId')
    BY <1>0, <1>5, <2>1 DEF UploadImport, ImportType
  <2> QED BY <1>5, <1>r, <1>s, <1>d, <2>2, <2>3, <2>4 DEF UploadImport
<1>6. CASE InsertImport
  <2>1. import.clock \in 1 .. lastId
    BY <1>6 DEF InsertImport, Bound
  <2>2. StreamType' /\ written \subseteq written'
    BY <1>0, <1>6, <2>1 DEF InsertImport, StreamType
  <2>3. StoreType' /\ rows' \subseteq written' /\ timers' \subseteq written'
    BY <1>0, <1>6, <2>1 DEF InsertImport, RowsInserted, StoreType, Bound
  <2>4. ImportType' /\ (import'.pc # "idle" => import'.clock \in 1 .. lastId')
    BY <1>6, Empty DEF InsertImport, ImportType, NoImport
  <2> QED BY <1>6, <1>r, <1>d, <2>2, <2>3, <2>4 DEF InsertImport
<1>7. CASE FailImport
  <2>1. ImportType' /\ (import'.pc # "idle" => import'.clock \in 1 .. lastId')
    BY <1>7, Empty DEF FailImport, ImportType, NoImport
  <2> QED BY <1>7, <1>r, <1>s, <1>d, <1>t, <2>1 DEF FailImport
<1> QED BY <1>1, <1>2, <1>3, <1>4, <1>5, <1>6, <1>7 DEF Plugin, Import

(* All steps keep the types and the bounds, whatever the assumptions about   *)
(* removals and imports.                                                     *)
THEOREM TypeStep == TypeOK /\ Bound /\ [Next]_vars => TypeOK' /\ Bound'
<1> SUFFICES ASSUME TypeOK, Bound, [Next]_vars PROVE TypeOK' /\ Bound'
  OBVIOUS
<1>1. CASE UNCHANGED vars
  BY <1>1 DEF vars, streamVars, storeVars, deletionVars, TypeOK, Bound, RunBound
<1>2. CASE Next
  BY <1>2, TypeOfRun, TypeOfOthers DEF Next
<1> QED BY <1>1, <1>2

-----------------------------------------------------------------------------
(* What the steps do to the store, as long as the document is not deleted. *)

(* What is written later has a greater clock. *)
Later == written \subseteq written' /\ \A m \in written' \ written, n \in written : n < m

(* Objects of different clocks are different objects. *)
LEMMA PutFacts ==
  ASSUME NEW t, NEW c, PutObject(t, c)
  PROVE  /\ ContentAt(t)' = c
         /\ \A s : s # t => ContentAt(s)' = ContentAt(s)
         /\ \A o \in objects' : (o \in objects /\ o.t # t) \/ (o.t = t /\ o.content = c)
<1>1. objects' = {o \in objects : o.t # t} \union {[t |-> t, content |-> c]}
  BY DEF PutObject
<1>2. {p \in objects' : p.t = t} = {[t |-> t, content |-> c]}
  BY <1>1
<1>3. ContentAt(t)' = c
  <2> DEFINE x == [t |-> t, content |-> c]
  <2>1. x.content = c
    OBVIOUS
  <2>2. {p \in objects' : p.t = t} = {x}
    BY <1>2
  <2> HIDE DEF x
  <2>3. UNION {o.content : o \in {x}} = c
    BY <2>1
  <2> QED BY <2>2, <2>3 DEF ContentAt
<1>4. ASSUME NEW s, s # t PROVE ContentAt(s)' = ContentAt(s)
  <2>1. {p \in objects' : p.t = s} = {p \in objects : p.t = s}
    BY <1>1, <1>4
  <2> QED BY <2>1 DEF ContentAt
<1>5. \A o \in objects' : (o \in objects /\ o.t # t) \/ (o.t = t /\ o.content = c)
  BY <1>1
<1> QED BY <1>3, <1>4, <1>5

(* What was written up to a clock stays the same. *)
LEMMA UpToStays ==
  ASSUME TypeOK, TypeOK', Later, NEW t \in written
  PROVE  UpTo(t)' = UpTo(t)
<1>1. \A m \in written' : m \in Nat
  BY Types, WrittenClocks DEF TypeOK, StreamType, Clocks
<1>2. t \in Nat
  BY Types, WrittenClocks
<1>3. \A m \in written' : m <= t => m \in written
  BY <1>1, <1>2 DEF Later
<1> QED BY <1>3 DEF UpTo, Later

(* Of an object whose clock was written, nothing is newer than its clock.   *)
LEMMA ContentUpTo ==
  ASSUME ObjectsOK, TypeOK, NEW t \in written
  PROVE  ContentAt(t) \subseteq UpTo(t)
<1>1. t \in UpTo(t)
  BY Types, WrittenClocks DEF UpTo
<1> QED BY <1>1 DEF ObjectsOK, ContentAt

(* The rows that stay keep their content; and no row is added.              *)
LastingStay ==
  Later /\ Lasting \subseteq Lasting' /\ \A r \in Lasting : ContentAt(r) \subseteq ContentAt(r)'
RowsLast == LastingStay /\ rows' \subseteq rows /\ Doomed' \subseteq Doomed

(* Then what is replaced stays replaced, and what has a row has one.        *)
LEMMA ReplacedStays ==
  ASSUME TypeOK, TypeOK', Bound, LastingStay, NEW t, Replaced(t)
  PROVE  Replaced(t)'
<1>1. PICK r \in Lasting : t < r /\ Complete(r)
  BY DEF Replaced
<1>2. r \in written
  BY DEF Lasting, Bound
<1>3. UpTo(r)' = UpTo(r)
  BY <1>2, UpToStays DEF LastingStay
<1>4. Complete(r)' /\ r \in Lasting'
  BY <1>1, <1>3 DEF LastingStay, Complete
<1> QED BY <1>1, <1>4 DEF Replaced

(* What has a row keeps one that stays, or gets a newer one. *)
LEMMA CoveredStays ==
  ASSUME TypeOK, Bound, RowsOK, Lasting \subseteq Lasting', NEW m \in written, Covered(m)
  PROVE  Covered(m)'
<1>1. PICK t \in rows : m <= t
  BY DEF Covered
<1>2. CASE t \in Lasting
  BY <1>1, <1>2 DEF Lasting, Covered
<1>3. CASE t \in Doomed
  <2>1. PICK r \in Lasting : t < r
    BY <1>3 DEF RowsOK, Replaced
  <2>2. m \in Nat /\ t \in Nat /\ r \in Nat
    BY <1>1, <2>1, Types, WrittenClocks DEF Bound, Lasting
  <2>3. m <= r /\ r \in rows'
    BY <1>1, <2>1, <2>2 DEF Lasting
  <2> QED BY <2>3 DEF Covered
<1> QED BY <1>2, <1>3 DEF Lasting

(* The rows that stay hold what they held. *)
LEMMA RowsStay ==
  ASSUME TypeOK, TypeOK', Bound, RowsOK, RowsLast, \A m \in written' : m \in log => m \in log' \/ Covered(m),
         \A m \in written' \ written : m \in log'
  PROVE  RowsOK'
<1>1. \A m \in written' : m \in log' \/ Covered(m)'
  <2>1. ASSUME NEW m \in written PROVE m \in log' \/ Covered(m)'
    BY <2>1, CoveredStays DEF RowsOK, RowsLast, LastingStay, Later
  <2> QED BY <2>1
<1>2. ASSUME NEW m \in written', Covered(m)'
      PROVE  \E r \in Lasting' : m \in ContentAt(r)'
  <2>1. PICK t \in rows' : m <= t
    BY <1>2 DEF Covered
  <2>2. t \in rows /\ t \in written
    BY <2>1 DEF RowsLast, LastingStay, Bound
  <2>3. m \in Nat /\ t \in Nat
    BY <2>2, Types, WrittenClocks DEF TypeOK, StreamType, Clocks
  <2>4. m \in written
    BY <1>2, <2>1, <2>2, <2>3 DEF RowsLast, LastingStay, Later
  <2>5. Covered(m)
    BY <2>1, <2>2 DEF Covered
  <2>6. PICK r \in Lasting : m \in ContentAt(r)
    BY <2>4, <2>5 DEF RowsOK
  <2> QED BY <2>6 DEF RowsLast, LastingStay
<1>3. \A t \in Doomed' : Replaced(t)'
  BY ReplacedStays DEF RowsLast, LastingStay, RowsOK
<1> QED BY <1>1, <1>2, <1>3 DEF RowsOK

(* What a run that does not move knows stays true.                          *)
LEMMA RunStays ==
  ASSUME TypeOK, TypeOK', Bound, Later, NEW v \in Workers, RunOK(v), run'[v] = run[v],
         \A m \in written : Covered(m) => Covered(m)',
         \A m \in written : OfRun(m) => OfRun(m)',
         \A m \in written : Safe(m) => Safe(m)',
         \A t \in run[v].gets : ContentAt(t) \subseteq ContentAt(t)'
  PROVE  RunOK(v)'
<1>1. RunBound(v)
  BY DEF Bound
<1>n. /\ \A m \in written' : m \in Nat /\ 1 <= m
      /\ \A m \in written : m \in Nat
  BY Types, WrittenClocks DEF TypeOK, StreamType, Clocks
<1>2. \A m \in written', n \in written : m <= n => m \in written
  BY <1>n DEF Later
<1>3. \A m : SeenBy(v, m)' = SeenBy(v, m) /\ ReferredBy(v, m)' = ReferredBy(v, m)
  BY DEF SeenBy, ReferredBy
<1>4. \A m \in written' : SeenBy(v, m) \/ ReferredBy(v, m) => m \in written
  BY <1>1, <1>2 DEF SeenBy, ReferredBy, RunBound
<1>5. \A m \in run'[v].seen : OfRun(m)'
  BY <1>1 DEF RunOK, RunBound
<1>6. SelectingOK(v)'
  BY <1>3, <1>4 DEF RunOK, SelectingOK
<1>7. GettingOK(v)'
  <2> SUFFICES ASSUME run[v].pc = "getting" PROVE GettingOK(v)'
    BY DEF GettingOK
  <2>1. \A m \in written' : SeenBy(v, m) => m \in run[v].seen \/ ReferredBy(v, m)
    BY <1>4 DEF RunOK, GettingOK
  <2>2. \A m \in written' : ReferredBy(v, m) => Covered(m)'
    BY <1>4 DEF RunOK, GettingOK
  <2>3. \A m \in written' : ReferredBy(v, m) => m \in run[v].content \/ \E t \in run[v].gets : m \in ContentAt(t)'
    BY <1>4 DEF RunOK, GettingOK
  <2>4. \A m \in run[v].content : m \in written' /\ ReferredBy(v, m)
    BY DEF RunOK, GettingOK, Later
  <2> QED BY <1>3, <2>1, <2>2, <2>3, <2>4 DEF GettingOK
<1>8. StoringOK(v)'
  <2> SUFFICES ASSUME run[v].pc \in {"uploading", "inserting"} PROVE StoringOK(v)'
    BY DEF StoringOK
  <2>1. run[v].clock \in written
    BY <1>1 DEF RunBound
  <2>2. UpTo(run[v].clock)' = UpTo(run[v].clock)
    BY <2>1, UpToStays
  <2> QED BY <2>1, <2>2 DEF RunOK, StoringOK
<1>9. FinishOK(v)'
  <2> SUFFICES ASSUME run[v].pc = "finish", NEW m \in written', m <= run[v].clock PROVE Covered(m)'
    BY DEF FinishOK
  <2>1. run[v].clock \in written
    BY <1>1, <1>n DEF RunBound
  <2>2. m \in written
    BY <1>2, <2>1
  <2> QED BY <2>2 DEF RunOK, FinishOK
<1> QED BY <1>5, <1>6, <1>7, <1>8, <1>9 DEF RunOK

(* Less is doomed. *)
LEMMA LessIsDoomed ==
  ASSUME NEW w \in Workers, timers' \subseteq timers, Removing(w)' \subseteq Removing(w),
         \A v \in Workers : v # w => run'[v] = run[v]
  PROVE  Doomed' \subseteq Doomed
<1>1. \A v \in Workers : Removing(v)' \subseteq Removing(v)
  BY DEF Removing
<1> QED BY <1>1 DEF Doomed

(* A step that leaves the store alone. *)
Quiet == Later /\ rows' = rows /\ objects' = objects /\ Doomed' \subseteq Doomed

(* Such a step changes nothing that anybody relies on. *)
LEMMA QuietKeeps ==
  ASSUME TypeOK, TypeOK', Bound, RowsOK, ObjectsOK, Quiet
  PROVE  /\ RowsLast
         /\ \A t : ContentAt(t)' = ContentAt(t)
         /\ \A m \in written : Covered(m) => Covered(m)'
         /\ \A m \in written : OfRun(m) => OfRun(m)'
         /\ \A m \in written : Safe(m) => Safe(m)'
         /\ \A o \in objects' : o.content \subseteq UpTo(o.t)' \union {o.t}
<1>1. \A t : ContentAt(t)' = ContentAt(t)
  BY DEF Quiet, ContentAt
<1>2. RowsLast
  BY <1>1 DEF Quiet, RowsLast, LastingStay, Lasting
<1>3. \A m \in written : Covered(m) => Covered(m)'
  BY DEF Quiet, Covered
<1>4. \A m \in written : UpTo(m)' = UpTo(m)
  BY UpToStays DEF Quiet
<1>5. \A m \in written : OfRun(m) => OfRun(m)'
  BY <1>4 DEF Quiet, OfRun
<1>6. \A m \in written : Safe(m) => Safe(m)'
  <2> TAKE m \in written
  <2>1. Complete(m) => Complete(m)'
    BY <1>1, <1>4 DEF Complete
  <2>2. Replaced(m) => Replaced(m)'
    BY <1>2, ReplacedStays DEF RowsLast
  <2> QED BY <2>1, <2>2 DEF Safe
<1>7. \A o \in objects' : o.content \subseteq UpTo(o.t)' \union {o.t}
  BY DEF Quiet, ObjectsOK, UpTo, Later
<1> QED BY <1>1, <1>2, <1>3, <1>5, <1>6, <1>7

(* A step of a run that leaves the store alone keeps the invariant, if what *)
(* it learns is right.                                                      *)
LEMMA QuietRun ==
  ASSUME TypeOK, TypeOK', Bound, Data, NEW w \in Workers,
         UNCHANGED <<written, lastId, rows, objects, import>>, timers' \subseteq timers,
         \A m \in log : m \in log' \/ Covered(m), log' \subseteq log,
         \A v \in Workers : v # w => run'[v] = run[v],
         Removing(w)' \subseteq Removing(w), RunOK(w)'
  PROVE  Data'
<1>1. Quiet
  BY LessIsDoomed DEF Quiet, Later
<1>2. \A v \in Workers : RunOK(v)'
  <2>1. \A v \in Workers : v # w => RunOK(v)'
    BY <1>1, QuietKeeps, RunStays DEF Quiet, Data
  <2> QED BY <2>1
<1>3. RowsOK'
  BY <1>1, QuietKeeps, RowsStay DEF Data
<1>4. ObjectsOK'
  <2>1. \A m \in log' : m \in written /\ m \in log
    BY Types DEF StreamType
  <2> QED BY <1>1, <2>1, QuietKeeps DEF Data, ObjectsOK
<1>5. ImportOK'
  <2>1. \A m \in written : Covered(m) => Covered(m)'
    BY <1>1, QuietKeeps DEF Data
  <2>2. ContentAt(lastId)' = ContentAt(lastId)
    BY <1>1, QuietKeeps DEF Data
  <2> QED BY <2>1, <2>2 DEF Data, ImportOK
<1> QED BY <1>2, <1>3, <1>4, <1>5 DEF Data

(* A run that is over, and one that has only to trim, knows what it needs.  *)
LEMMA NoRunOK ==
  ASSUME NEW w \in Workers, run'[w] = NoRun
  PROVE  RunOK(w)' /\ Removing(w)' = {}
BY DEF RunOK, SelectingOK, GettingOK, StoringOK, FinishOK, Removing, NoRun

(* All that a run may trim up to n has rows. *)
LEMMA TrimOnlyOK ==
  ASSUME NEW w \in Workers, NEW n,
         run'[w] = [NoRun EXCEPT !.pc = "finish", !.todo = {"trim"}, !.clock = n],
         \A m \in written' : m <= n => Covered(m)'
  PROVE  RunOK(w)' /\ Removing(w)' = {}
<1>1. /\ run'[w].pc = "finish" /\ run'[w].todo = {"trim"} /\ run'[w].clock = n
      /\ run'[w].seen = {} /\ run'[w].refs = {}
  BY DEF NoRun
<1> QED BY <1>1 DEF RunOK, SelectingOK, GettingOK, StoringOK, FinishOK, Removing

(* The pre-check of a run. *)
LEMMA DataBegin ==
  ASSUME TypeOK, TypeOK', Bound, ~Hard, Data, NEW w \in Workers, Begin(w)
  PROVE  Data'
<1> USE DEF streamVars, storeVars, deletionVars
<1>1. UNCHANGED <<lastId, written, log, rows, objects, timers, import>>
  BY DEF Begin
<1>2. RunType /\ StreamType /\ StoreType
  BY Types
<1>3. rows \in SUBSET Clocks /\ log \in SUBSET Clocks /\ log \subseteq written
  BY <1>2, WrittenClocks DEF StreamType, Bound
<1>4. \A v \in Workers : v # w => run'[v] = run[v]
  BY <1>2, BeginIs
<1>5. CASE /\ NewestOf(log) <= NewestOf(rows)
           /\ run'[w] = [NoRun EXCEPT !.pc = "finish", !.todo = {"trim"},
                               !.clock = MaxOf(NewestOf(rows), NewestOf(log))]
  <2>1. MaxOf(NewestOf(rows), NewestOf(log)) = NewestOf(rows)
    <3>1. NewestOf(rows) \in Nat /\ NewestOf(log) \in Nat
      BY <1>3, Newest DEF Clocks
    <3> QED BY <1>5, <3>1 DEF MaxOf
  <2>2. NewestOf(rows) \in rows \union {0}
    BY <1>3, Newest
  <2>3. \A m \in written' : m <= NewestOf(rows) => Covered(m)'
    BY <1>1, <1>2, <2>2, WrittenClocks DEF Covered
  <2>4. RunOK(w)' /\ Removing(w)' = {}
    BY <1>5, <2>1, <2>3, TrimOnlyOK
  <2> QED BY <1>1, <1>4, <2>4, QuietRun
<1>6. CASE run'[w] = [NoRun EXCEPT !.pc = "selecting", !.seen = log]
  <2>1. /\ run'[w].pc = "selecting" /\ run'[w].seen = log /\ run'[w].content = {}
    BY <1>6 DEF NoRun
  <2>2. \A m \in written' : m \in log \/ Covered(m)'
    BY <1>1 DEF Data, RowsOK, Covered
  <2>3. \A m \in log : OfRun(m)'
    BY <1>1 DEF Data, ObjectsOK, OfRun, UpTo
  <2>4. RunOK(w)' /\ Removing(w)' = {}
    BY <2>1, <2>2, <2>3 DEF RunOK, SelectingOK, GettingOK, StoringOK, FinishOK, Removing
  <2> QED BY <1>1, <1>4, <2>4, QuietRun
<1> QED BY <1>2, <1>5, <1>6, BeginIs

(* A run reads the rows: what they stand for is in their objects ... *)
LEMMA DataSelect ==
  ASSUME TypeOK, TypeOK', Bound, Data, NEW w \in Workers, SelectRows(w)
  PROVE  Data'
<1> USE DEF streamVars, storeVars, deletionVars
<1>1. UNCHANGED <<lastId, written, log, rows, objects, timers, import>>
  BY DEF SelectRows
<1>2. RunType /\ StreamType /\ run[w] \in Runs
  BY Types DEF RunType
<1>3. /\ \A v \in Workers : v # w => run'[v] = run[v]
      /\ run'[w] = [run[w] EXCEPT !.pc = "getting", !.refs = rows, !.gets = rows]
  BY <1>2, SelectIs
<1>4. /\ run'[w].pc = "getting" /\ run'[w].refs = rows /\ run'[w].gets = rows
      /\ run'[w].seen = run[w].seen /\ run'[w].content = run[w].content
  BY <1>2, <1>3 DEF Runs
<1>5. run[w].pc = "selecting" /\ run[w].content = {} /\ RunOK(w)
  BY DEF SelectRows, Data, RunOK, SelectingOK
<1>6. \A m : /\ SeenBy(w, m)' = SeenBy(w, m) /\ ReferredBy(w, m)' = Covered(m)
             /\ Covered(m)' = Covered(m) /\ ContentAt(m)' = ContentAt(m)
  BY <1>1, <1>4 DEF SeenBy, ReferredBy, Covered, ContentAt
<1>7. GettingOK(w)'
  <2>1. \A m \in written' : SeenBy(w, m)' => m \in run'[w].seen \/ ReferredBy(w, m)'
    BY <1>1, <1>4, <1>5, <1>6 DEF RunOK, SelectingOK
  <2>2. \A m \in written' : ReferredBy(w, m)' => Covered(m)'
    BY <1>6
  <2>3. \A m \in written' : ReferredBy(w, m)' => \E t \in run'[w].gets : m \in ContentAt(t)'
    BY <1>1, <1>4, <1>6 DEF Data, RowsOK, Lasting
  <2>4. run'[w].content = {}
    BY <1>4, <1>5
  <2> QED BY <2>1, <2>2, <2>3, <2>4 DEF GettingOK
<1>8. \A m \in run'[w].seen : OfRun(m)'
  BY <1>1, <1>4, <1>5 DEF RunOK, OfRun, UpTo
<1>9. RunOK(w)' /\ Removing(w)' = {}
  BY <1>4, <1>7, <1>8 DEF RunOK, SelectingOK, StoringOK, FinishOK, Removing
<1> QED BY <1>1, <1>3, <1>9, QuietRun

(* ... and gets them one by one. *)
LEMMA DataGet ==
  ASSUME TypeOK, TypeOK', Bound, Data, NEW w \in Workers, NEW t, GetObject(w, t)
  PROVE  Data'
<1> USE DEF streamVars, storeVars, deletionVars
<1>1. UNCHANGED <<lastId, written, log, rows, objects, timers, import>>
  BY DEF GetObject
<1>2. RunType /\ StreamType /\ StoreType /\ run[w] \in Runs
  BY Types DEF RunType
<1>3. /\ \A v \in Workers : v # w => run'[v] = run[v]
      /\ run'[w] = [run[w] EXCEPT !.gets = @ \ {t}, !.content = @ \union ContentAt(t)]
  BY <1>2, GetIs
<1>4. /\ run'[w].pc = run[w].pc /\ run'[w].refs = run[w].refs /\ run'[w].seen = run[w].seen
      /\ run'[w].gets = run[w].gets \ {t} /\ run'[w].content = run[w].content \union ContentAt(t)
      /\ run'[w].todo = run[w].todo
  BY <1>2, <1>3 DEF Runs
<1>5. run[w].pc = "getting" /\ t \in run[w].gets /\ t \in run[w].refs /\ t \in written
  BY DEF GetObject, Bound, RunBound
<1>o. RunOK(w) /\ GettingOK(w)
  BY DEF Data, RunOK
<1>6. \A m : /\ SeenBy(w, m)' = SeenBy(w, m) /\ ReferredBy(w, m)' = ReferredBy(w, m)
             /\ Covered(m)' = Covered(m) /\ ContentAt(m)' = ContentAt(m)
  BY <1>1, <1>4 DEF SeenBy, ReferredBy, Covered, ContentAt
<1>7. GettingOK(w)'
  <2>1. \A m \in written' : SeenBy(w, m)' => m \in run'[w].seen \/ ReferredBy(w, m)'
    BY <1>1, <1>4, <1>5, <1>6, <1>o DEF GettingOK
  <2>2. \A m \in written' : ReferredBy(w, m)' => Covered(m)'
    BY <1>1, <1>5, <1>6, <1>o DEF GettingOK
  <2>3. \A m \in written' : ReferredBy(w, m)' =>
          m \in run'[w].content \/ \E s \in run'[w].gets : m \in ContentAt(s)'
    BY <1>1, <1>4, <1>5, <1>6, <1>o DEF GettingOK
  <2>4. \A m \in ContentAt(t) : m \in written /\ m <= t
    BY <1>5, ContentUpTo DEF Data, UpTo
  <2>5. \A m \in run'[w].content : m \in written' /\ ReferredBy(w, m)'
    BY <1>1, <1>4, <1>5, <1>6, <1>o, <2>4 DEF GettingOK, ReferredBy
  <2> QED BY <2>1, <2>2, <2>3, <2>5 DEF GettingOK
<1>8. \A m \in run'[w].seen : OfRun(m)'
  BY <1>1, <1>4, <1>o DEF RunOK, OfRun, UpTo
<1>9. RunOK(w)' /\ Removing(w)' = {}
  BY <1>4, <1>5, <1>7, <1>8 DEF RunOK, SelectingOK, StoringOK, FinishOK, Removing
<1> QED BY <1>1, <1>3, <1>9, QuietRun

(* A run that has got everything has the document up to its newest message. *)
LEMMA MergedUpTo ==
  ASSUME TypeOK, Bound, NEW w \in Workers, Merge(w), RunOK(w),
         ~Outdated(w), NewestOf(run[w].seen) \in run[w].seen
  PROVE  /\ Merged(w) = UpTo(NewestOf(run[w].seen))
         /\ \A t \in run[w].refs : t < NewestOf(run[w].seen)
<1> DEFINE k == NewestOf(run[w].seen)
           n == NewestOf(run[w].refs)
<1>1. RunType /\ StreamType /\ RunBound(w) /\ run[w].pc = "getting" /\ run[w].gets = {}
  BY Types DEF Bound, Merge
<1>2. run[w].refs \in SUBSET Clocks /\ run[w].seen \in SUBSET Clocks
  BY <1>1 DEF RunType, Runs
<1>3. /\ n \in run[w].refs \union {0} /\ n \in Nat /\ \A t \in run[w].refs : t \in Nat /\ t <= n
      /\ k \in written /\ k \in Nat /\ \A m \in run[w].seen : m \in Nat /\ m <= k
  BY <1>1, <1>2, Newest, WrittenClocks DEF RunBound, Clocks
<1>4. n < k
  BY <1>3 DEF Outdated
<1>5. \A m \in written : m \in Nat /\ 1 <= m
  BY <1>1, WrittenClocks
<1> HIDE DEF k, n
<1>6. GettingOK(w)
  BY DEF RunOK
<1>7. ASSUME NEW m \in Merged(w) PROVE m \in UpTo(k)
  <2>1. CASE m \in run[w].content
    <3>1. m \in written /\ \E t \in run[w].refs : m <= t
      BY <1>1, <1>6, <2>1 DEF GettingOK, ReferredBy
    <3> QED BY <1>3, <1>4, <1>5, <3>1 DEF UpTo
  <2>2. CASE m \in run[w].seen
    BY <1>1, <1>3, <2>2 DEF UpTo, RunBound
  <2> QED BY <2>1, <2>2 DEF Merged
<1>8. ASSUME NEW m \in UpTo(k) PROVE m \in Merged(w)
  <2>1. m \in written /\ SeenBy(w, m)
    BY NewestOf(run[w].seen) \in run[w].seen DEF UpTo, SeenBy, k
  <2>2. CASE ReferredBy(w, m)
    BY <1>1, <1>6, <2>1, <2>2 DEF GettingOK, Merged
  <2>3. CASE ~ReferredBy(w, m)
    <3>1. m \in run[w].seen
      BY <1>1, <1>6, <2>1, <2>3 DEF GettingOK
    <3>2. n < m
      <4>1. m \in Nat /\ 1 <= m /\ \A t \in run[w].refs : ~(m <= t)
        BY <1>5, <2>1, <2>3 DEF ReferredBy
      <4>2. CASE n = 0
        BY <4>1, <4>2
      <4>3. CASE n \in run[w].refs
        <5>1. ~(m <= n) /\ n \in Nat
          BY <1>3, <4>1, <4>3
        <5> QED BY <4>1, <5>1
      <4> QED BY <1>3, <4>2, <4>3
    <3> QED BY <3>1, <3>2 DEF Merged, n
  <2> QED BY <2>2, <2>3
<1>9. Merged(w) = UpTo(k)
  BY <1>7, <1>8
<1>a. \A t \in run[w].refs : t < k
  BY <1>3, <1>4
<1> QED BY <1>9, <1>a DEF k

(* A run merges what it has got, or finds that all of it is stored. *)
LEMMA DataMerge ==
  ASSUME TypeOK, TypeOK', Bound, Data, NEW w \in Workers, Merge(w)
  PROVE  Data'
<1> USE DEF streamVars, storeVars, deletionVars
<1>1. UNCHANGED <<lastId, written, log, rows, objects, timers, import>>
  BY DEF Merge
<1>2. RunType /\ StreamType /\ run[w] \in Runs
  BY Types DEF RunType
<1>3. \A v \in Workers : v # w => run'[v] = run[v]
  BY <1>2, MergeIs
<1>5. run[w].pc = "getting" /\ RunOK(w) /\ run[w].refs \in SUBSET Clocks
  BY <1>2 DEF Merge, Data, Runs
<1>6. CASE run'[w] = [NoRun EXCEPT !.pc = "finish", !.todo = {"trim"}, !.clock = NewestOf(run[w].refs)]
  <2>1. NewestOf(run[w].refs) \in run[w].refs \union {0}
    BY <1>5, Newest
  <2>2. \A m \in written' : m <= NewestOf(run[w].refs) => ReferredBy(w, m)
    BY <1>1, <1>2, <2>1, WrittenClocks DEF ReferredBy
  <2>3. \A m \in written' : m <= NewestOf(run[w].refs) => Covered(m)'
    BY <1>1, <1>5, <2>2 DEF RunOK, GettingOK, Covered
  <2>4. RunOK(w)' /\ Removing(w)' = {}
    BY <1>6, <2>3, TrimOnlyOK
  <2> QED BY <1>1, <1>3, <2>4, QuietRun
<1>7. CASE /\ ~Outdated(w) /\ NewestOf(run[w].seen) \in run[w].seen
           /\ run'[w] = [run[w] EXCEPT !.pc = "uploading", !.content = Merged(w),
                                       !.clock = NewestOf(run[w].seen)]
  <2>1. /\ run'[w].pc = "uploading" /\ run'[w].content = Merged(w)
        /\ run'[w].clock = NewestOf(run[w].seen)
        /\ run'[w].seen = run[w].seen /\ run'[w].refs = run[w].refs
    BY <1>2, <1>7 DEF Runs
  <2>2. /\ run'[w].content = UpTo(run[w].clock)' /\ \A t \in run'[w].refs : t < run'[w].clock
    BY <1>1, <1>5, <1>7, <2>1, MergedUpTo DEF UpTo
  <2>3. \A m \in run'[w].seen : OfRun(m)'
    BY <1>1, <1>5, <2>1 DEF RunOK, OfRun, UpTo
  <2>4. RunOK(w)' /\ Removing(w)' = {}
    BY <2>1, <2>2, <2>3 DEF RunOK, SelectingOK, GettingOK, StoringOK, FinishOK, Removing
  <2> QED BY <1>1, <1>3, <2>4, QuietRun
<1> QED BY <1>2, <1>6, <1>7, MergeIs

(* A run that waits for its last requests, and one whose last one is answered. *)
LEMMA AnsweredOK ==
  ASSUME TypeOK, Bound, NEW w \in Workers, run[w].pc = "finish", RunOK(w), NEW x, Answered(w, x),
         UNCHANGED <<written, objects>>, \A m \in written : Covered(m) => Covered(m)'
  PROVE  /\ RunOK(w)' /\ Removing(w)' \subseteq Removing(w)
         /\ \A v \in Workers : v # w => run'[v] = run[v]
<1>1. RunType /\ run[w] \in Runs /\ RunBound(w)
  BY Types DEF RunType, Bound
<1>2. CASE run'[w] = NoRun
  BY <1>1, <1>2, NoRunOK, AnsweredIs
<1>3. CASE run'[w] = [run[w] EXCEPT !.todo = @ \ {x}]
  <2>1. /\ run'[w].pc = run[w].pc /\ run'[w].refs = run[w].refs /\ run'[w].seen = run[w].seen
        /\ run'[w].clock = run[w].clock /\ run'[w].todo = run[w].todo \ {x}
    BY <1>1, <1>3 DEF Runs
  <2>2. \A m \in run'[w].seen : OfRun(m)'
    BY <2>1 DEF RunOK, OfRun, UpTo
  <2>3. FinishOK(w)'
    BY <2>1 DEF RunOK, FinishOK
  <2>4. RunOK(w)' /\ Removing(w)' \subseteq Removing(w)
    BY <2>1, <2>2, <2>3 DEF RunOK, SelectingOK, GettingOK, StoringOK, Removing
  <2> QED BY <1>1, <2>4, AnsweredIs
<1> QED BY <1>1, <1>2, <1>3, AnsweredIs

(* What is trimmed has rows. *)
LEMMA DataTrim ==
  ASSUME TypeOK, TypeOK', Bound, Data, NEW w \in Workers, TrimMessages(w)
  PROVE  Data'
<1> USE DEF streamVars, storeVars, deletionVars
<1>1. UNCHANGED <<lastId, written, rows, objects, timers, import>> /\ Answered(w, "trim")
  BY DEF TrimMessages
<1>2. RunType /\ StreamType /\ run[w].pc = "finish" /\ RunOK(w)
  BY Types DEF TrimMessages, Data
<1>3. PICK cutoff \in 0 .. run[w].clock + 1 : log' = {m \in log : m >= cutoff}
  BY DEF TrimMessages
<1>4. \A m \in log : m \in log' \/ Covered(m)
  <2> SUFFICES ASSUME NEW m \in log, ~(m >= cutoff) PROVE Covered(m)
    BY <1>3
  <2>1. m \in written /\ m \in Nat /\ run[w].clock \in Nat
    BY <1>2, WrittenClocks DEF StreamType, RunType, Runs, Clocks
  <2>2. m <= run[w].clock
    BY <1>3, <2>1
  <2> QED BY <1>2, <2>1, <2>2 DEF RunOK, FinishOK
<1>5. \A m \in written : Covered(m) => Covered(m)'
  BY <1>1 DEF Covered
<1>6. /\ RunOK(w)' /\ Removing(w)' \subseteq Removing(w)
      /\ \A v \in Workers : v # w => run'[v] = run[v]
  BY <1>1, <1>2, <1>5, AnsweredOK
<1>7. log' \subseteq log
  BY <1>3
<1> QED BY <1>1, <1>4, <1>6, <1>7, QuietRun

(* A run that fails forgets what it knew. *)
LEMMA DataFail ==
  ASSUME TypeOK, TypeOK', Bound, Data, NEW w \in Workers, Fail(w)
  PROVE  Data'
<1> USE DEF streamVars, storeVars, deletionVars
<1>1. UNCHANGED <<lastId, written, log, rows, objects, timers, import>>
  BY DEF Fail
<1>2. RunType
  BY Types
<1>3. /\ RunOK(w)' /\ Removing(w)' \subseteq Removing(w)
      /\ \A v \in Workers : v # w => run'[v] = run[v]
  BY <1>2, FailIs, NoRunOK
<1> QED BY <1>1, <1>3, QuietRun

(* A step that neither a run nor an import makes, and that leaves the rows   *)
(* alone: only messages and removed objects.                                 *)
LEMMA DataOthers ==
  ASSUME TypeOK, TypeOK', Bound, Data, LateRemoval, CleanImports,
         AddMessage \/ Plugin \/ BeginImport \/ FailImport
  PROVE  Data'
<1> USE DEF streamVars, storeVars, deletionVars
<1>0. StreamType /\ StoreType /\ lastId \in Nat
  BY Types, WrittenClocks
<1>1. rows' = rows /\ run' = run /\ timers' \subseteq timers
  BY DEF AddMessage, Plugin, RemoveObject, LoseTimer, BeginImport, FailImport
<1>2. Later
  BY <1>0, WrittenClocks DEF Later, AddMessage, Plugin, RemoveObject, LoseTimer, BeginImport, FailImport
<1>3. Doomed' \subseteq Doomed /\ Lasting \subseteq Lasting'
  BY <1>1 DEF Doomed, Lasting, Removing
<1>4. ASSUME objects' = objects, log \subseteq log', \A m \in written' \ written : m \in log',
             \A m \in log' \ log : OfRun(m)', ImportOK'
      PROVE  Data'
  <2>1. Quiet
    BY <1>1, <1>2, <1>3, <1>4 DEF Quiet
  <2>2. \A v \in Workers : RunOK(v)'
    BY <1>1, <1>2, <2>1, QuietKeeps, RunStays DEF Data
  <2>3. RowsOK'
    BY <1>4, <2>1, QuietKeeps, RowsStay DEF Data
  <2>4. ObjectsOK'
    <3>1. \A m \in log : m \in written
      BY <1>0 DEF StreamType
    <3> QED BY <1>4, <2>1, <3>1, QuietKeeps DEF Data, ObjectsOK
  <2> QED BY <1>4, <2>2, <2>3, <2>4 DEF Data
<1>5. CASE AddMessage
  <2>1. objects' = objects /\ lastId' = lastId + 1 /\ log' = log \union {lastId + 1}
        /\ written' = written \union {lastId + 1}
    BY <1>5 DEF AddMessage
  <2>2. \A m \in log' \ log : OfRun(m)'
    BY <1>0, <2>1 DEF OfRun, StoreType
  <2>3. ImportOK'
    BY <1>5 DEF AddMessage, ImportOK
  <2> QED BY <1>4, <2>1, <2>2, <2>3
<1>6. ASSUME NEW t \in Clocks, RemoveObject(t) PROVE Data'
  <2>1. UNCHANGED <<lastId, written, log, import>> /\ objects' = {o \in objects : o.t # t}
    BY <1>6 DEF RemoveObject
  <2>2. t \in Doomed /\ t \in written /\ \A v \in Workers : t \notin run[v].gets
    BY <1>6 DEF RemoveObject, Doomed, Bound, IsUnread
  <2>3. \A s : s # t => ContentAt(s)' = ContentAt(s)
    <3> TAKE s
    <3> HAVE s # t
    <3>1. {p \in objects' : p.t = s} = {p \in objects : p.t = s}
      BY <2>1
    <3> QED BY <3>1 DEF ContentAt
  <2>4. RowsLast
    BY <1>1, <1>2, <1>3, <2>2, <2>3 DEF RowsLast, LastingStay, Lasting
  <2>5. \A m \in written : UpTo(m)' = UpTo(m) /\ Covered(m)' = Covered(m)
    BY <1>1, <2>1 DEF UpTo, Covered
  <2>6. \A m \in written : OfRun(m) => OfRun(m)'
    BY <2>1, <2>5 DEF OfRun
  <2>7. \A m \in written : Safe(m) => Safe(m)'
    <3> TAKE m \in written
    <3>1. CASE m = t
      BY <2>2, <2>4, <3>1, ReplacedStays DEF RowsLast, Safe, Data, RowsOK
    <3>2. CASE m # t
      BY <2>3, <2>4, <2>5, <3>2, ReplacedStays DEF RowsLast, Safe, Complete
    <3> QED BY <3>1, <3>2
  <2>8. \A v \in Workers : RunOK(v)'
    <3> TAKE v \in Workers
    <3>1. \A s \in run[v].gets : ContentAt(s) \subseteq ContentAt(s)'
      BY <2>2, <2>3
    <3> QED BY <1>1, <1>2, <2>5, <2>6, <2>7, <3>1, RunStays DEF Data
  <2>9. RowsOK'
    BY <2>1, <2>4, RowsStay DEF Data
  <2>10. ObjectsOK'
    <3>1. \A m \in log' : m \in written /\ m \in log
      BY <1>0, <2>1 DEF StreamType
    <3>2. \A o \in objects' : o \in objects /\ UpTo(o.t)' = UpTo(o.t)
      BY <2>1 DEF UpTo
    <3> QED BY <2>6, <3>1, <3>2 DEF Data, ObjectsOK
  <2>11. ImportOK'
    <3>1. import.pc # "idle" => lastId # t
      BY <2>2 DEF Data, ImportOK
    <3> QED BY <2>1, <2>3, <2>5, <3>1 DEF Data, ImportOK
  <2> QED BY <2>8, <2>9, <2>10, <2>11 DEF Data
<1>7. ASSUME NEW t \in Clocks, LoseTimer(t) PROVE Data'
  <2>1. UNCHANGED <<lastId, written, log, objects, import>>
    BY <1>7 DEF LoseTimer
  <2>2. ImportOK'
    BY <1>1, <2>1 DEF Data, ImportOK, Covered, ContentAt
  <2> QED BY <1>4, <2>1, <2>2
<1>8. CASE BeginImport
  <2>1. UNCHANGED <<written, log, objects>> /\ lastId' = lastId + 1
        /\ import' = [pc |-> "uploading", clock |-> lastId + 1] /\ NewestOf(log) <= NewestOf(rows)
    BY <1>8 DEF BeginImport
  <2>2. \A m \in written : m <= lastId /\ m \in Nat
    BY <1>0, WrittenClocks
  <2>3. rows \in SUBSET Clocks /\ log \in SUBSET Clocks /\ log \subseteq written
    BY <1>0, WrittenClocks DEF StreamType, Bound
  <2>4. ASSUME NEW m \in log PROVE Covered(m)
    <3>1. NewestOf(rows) \in rows \union {0} /\ NewestOf(rows) \in Nat
      BY <2>3, Newest DEF Clocks
    <3>2. m <= NewestOf(log) /\ NewestOf(log) \in Nat /\ m \in Nat /\ 1 <= m
      BY <1>0, <2>3, <2>4, Newest, WrittenClocks DEF Clocks
    <3>3. m <= NewestOf(rows) /\ NewestOf(rows) \in rows
      BY <2>1, <3>1, <3>2
    <3> QED BY <3>3 DEF Covered
  <2>5. \A m \in written' : Covered(m)'
    BY <1>1, <2>1, <2>4 DEF Data, RowsOK, Covered
  <2>6. lastId' \notin written'
    BY <1>0, <2>1, <2>2
  <2>7. ImportOK'
    BY <2>1, <2>5, <2>6 DEF ImportOK
  <2> QED BY <1>4, <2>1, <2>7
<1>9. CASE FailImport
  <2>1. UNCHANGED <<lastId, written, log, objects>> /\ import'.pc = "idle"
    BY <1>9 DEF FailImport, NoImport
  <2>2. ImportOK'
    BY <2>1 DEF ImportOK
  <2> QED BY <1>4, <2>1, <2>2
<1> QED BY <1>5, <1>6, <1>7, <1>8, <1>9 DEF Plugin

(* An object is stored: under this clock it has always had this content.    *)
LEMMA DataUpload ==
  ASSUME TypeOK, TypeOK', Bound, Data, NEW w \in Workers, Upload(w)
  PROVE  Data'
<1> USE DEF streamVars, storeVars, deletionVars
<1>k. PICK k : k = run[w].clock
  OBVIOUS
<1>0. RunType /\ StreamType /\ StoreType /\ run[w] \in Runs /\ RunBound(w) /\ RunOK(w)
  BY Types DEF RunType, Bound, Data
<1>1. UNCHANGED <<lastId, written, log, rows, timers, import>> /\ PutObject(k, run[w].content)
      /\ run[w].pc = "uploading"
  BY <1>k DEF Upload
<1>2. k \in written /\ k \in run[w].seen /\ run[w].content = UpTo(k)
  BY <1>0, <1>1, <1>k DEF RunBound, RunOK, StoringOK
<1>3. /\ ContentAt(k)' = UpTo(k) /\ \A s : s # k => ContentAt(s)' = ContentAt(s)
      /\ \A o \in objects' : (o \in objects /\ o.t # k) \/ (o.t = k /\ o.content = UpTo(k))
  <2>1. PICK c : c = UpTo(k)
    OBVIOUS
  <2>2. PutObject(k, c)
    BY <1>1, <1>2, <2>1
  <2> QED BY <2>1, <2>2, PutFacts
<1>4. \A m \in written : UpTo(m)' = UpTo(m) /\ Covered(m)' = Covered(m)
  BY <1>1 DEF UpTo, Covered
<1>5. /\ \A v \in Workers : v # w => run'[v] = run[v]
      /\ run'[w].pc = "inserting" /\ run'[w].clock = k /\ run'[w].content = run[w].content
      /\ run'[w].seen = run[w].seen /\ run'[w].refs = run[w].refs
  BY <1>0, <1>k, UploadIs DEF Runs
<1>6. Doomed' \subseteq Doomed /\ Lasting \subseteq Lasting'
  <2>1. Removing(w)' = {}
    BY <1>5 DEF Removing
  <2>2. Doomed' \subseteq Doomed
    BY <1>1, <1>5, <2>1, LessIsDoomed
  <2> QED BY <1>1, <2>2 DEF Lasting
<1>7. \A s \in written : ContentAt(s) \subseteq ContentAt(s)'
  BY <1>2, <1>3, ContentUpTo DEF Data
<1>8. Later
  BY <1>1 DEF Later
<1>9. RowsLast
  BY <1>1, <1>6, <1>7, <1>8 DEF RowsLast, LastingStay, Lasting, Bound
<1>10. \A m \in written : OfRun(m) => OfRun(m)'
  BY <1>3, <1>4 DEF OfRun
<1>11. \A m \in written : Safe(m) => Safe(m)'
  <2> TAKE m \in written
  <2>1. Complete(m) => Complete(m)'
    BY <1>4, <1>7 DEF Complete
  <2>2. Replaced(m) => Replaced(m)'
    BY <1>9, ReplacedStays DEF RowsLast
  <2> QED BY <2>1, <2>2 DEF Safe
<1>12. ASSUME NEW v \in Workers, v # w PROVE RunOK(v)'
  <2>1. \A s \in run[v].gets : ContentAt(s) \subseteq ContentAt(s)'
    BY <1>7 DEF Bound, RunBound
  <2> QED BY <1>4, <1>5, <1>8, <1>10, <1>11, <1>12, <2>1, RunStays DEF Data
<1>13. RunOK(w)'
  <2>1. Safe(k)'
    <3>1. UpTo(k)' \subseteq ContentAt(k)'
      BY <1>2, <1>3, <1>4
    <3> QED BY <3>1 DEF Safe, Complete
  <2>2. \A m \in run'[w].seen : OfRun(m)'
    BY <1>0, <1>5, <1>10 DEF RunOK, RunBound
  <2>3. run'[w].content = UpTo(k)' /\ \A t \in run'[w].refs : t < run'[w].clock
    <3>1. \A t \in run[w].refs : t < k
      BY <1>0, <1>1, <1>k DEF RunOK, StoringOK
    <3> QED BY <1>2, <1>4, <1>5, <3>1
  <2>4. StoringOK(w)'
    BY <1>5, <2>1, <2>3 DEF StoringOK
  <2> QED BY <1>5, <2>2, <2>4 DEF RunOK, SelectingOK, GettingOK, FinishOK
<1>14. RowsOK'
  BY <1>1, <1>9, RowsStay DEF Data
<1>15. ObjectsOK'
  <2>1. \A m \in log' : OfRun(m)'
    BY <1>0, <1>1, <1>10 DEF Data, ObjectsOK, StreamType
  <2>2. \A o \in objects' : o.content \subseteq UpTo(o.t)' \union {o.t}
    BY <1>1, <1>3 DEF Data, ObjectsOK, UpTo
  <2> QED BY <2>1, <2>2 DEF ObjectsOK
<1>16. ImportOK'
  <2>1. import.pc # "idle" => lastId # k
    BY <1>2 DEF Data, ImportOK
  <2> QED BY <1>1, <1>3, <1>4, <2>1 DEF Data, ImportOK
<1> QED BY <1>12, <1>13, <1>14, <1>15, <1>16 DEF Data

(* The rows that a run has replaced go: they were doomed.                   *)
LEMMA DataDeleteRows ==
  ASSUME TypeOK, TypeOK', Bound, Data, NEW w \in Workers, DeleteRows(w)
  PROVE  Data'
<1> USE DEF streamVars, storeVars, deletionVars
<1>0. StreamType /\ run[w].pc = "finish" /\ RunOK(w)
  BY Types DEF DeleteRows, Data
<1>1. UNCHANGED <<lastId, written, log, objects, timers, import>> /\ Answered(w, "delete")
      /\ rows' = rows \ run[w].refs
  BY DEF DeleteRows
<1>2. run[w].refs \subseteq Doomed
  BY DEF DeleteRows, Doomed, Removing
<1>3. \A v \in Workers : v # w => run'[v] = run[v]
  BY <1>1, Types, AnsweredIs
<1>4. Removing(w)' \subseteq Removing(w)
  <2>1. run[w] \in Runs
    BY Types DEF RunType
  <2>2. CASE run'[w] = NoRun
    BY <2>2, NoRunOK
  <2>3. CASE run'[w] = [run[w] EXCEPT !.todo = @ \ {"delete"}]
    BY <2>1, <2>3 DEF Removing, Runs
  <2> QED BY <1>1, <2>2, <2>3, Types, AnsweredIs
<1>5. Doomed' \subseteq Doomed
  BY <1>1, <1>3, <1>4, LessIsDoomed
<1>6. Lasting \subseteq Lasting'
  BY <1>1, <1>2, <1>5 DEF Lasting
<1>7. \A s : ContentAt(s)' = ContentAt(s)
  BY <1>1 DEF ContentAt
<1>8. Later /\ RowsLast
  BY <1>1, <1>5, <1>6, <1>7 DEF Later, RowsLast, LastingStay
<1>9. \A m \in written : Covered(m) => Covered(m)'
  BY <1>6, CoveredStays DEF Data
<1>10. \A m : UpTo(m)' = UpTo(m)
  BY <1>1 DEF UpTo
<1>11. \A m \in written : OfRun(m) => OfRun(m)'
  BY <1>1, <1>10 DEF OfRun
<1>12. \A m \in written : Safe(m) => Safe(m)'
  BY <1>7, <1>8, <1>10, ReplacedStays DEF Safe, Complete, RowsLast
<1>13. \A v \in Workers : RunOK(v)'
  <2>1. \A v \in Workers : v # w => RunOK(v)'
    BY <1>3, <1>7, <1>8, <1>9, <1>11, <1>12, RunStays DEF Data
  <2>2. RunOK(w)'
    BY <1>0, <1>1, <1>9, AnsweredOK
  <2> QED BY <2>1, <2>2
<1>14. RowsOK'
  BY <1>1, <1>8, RowsStay DEF Data
<1>15. ObjectsOK'
  BY <1>0, <1>1, <1>10, <1>11 DEF Data, ObjectsOK, StreamType
<1>16. ImportOK'
  BY <1>1, <1>7, <1>9 DEF Data, ImportOK
<1> QED BY <1>13, <1>14, <1>15, <1>16 DEF Data

(* A row is inserted and its predecessors are doomed: the new row replaces  *)
(* them, or what has replaced it in the meantime.                           *)
LEMMA DataInsert ==
  ASSUME TypeOK, TypeOK', Bound, ~Hard, Data, NEW w \in Workers, Insert(w)
  PROVE  Data'
<1> USE DEF streamVars, storeVars, deletionVars
<1>k. PICK k : k = run[w].clock
  OBVIOUS
<1>f. PICK refs : refs = run[w].refs
  OBVIOUS
<1>0. RunType /\ StreamType /\ run[w] \in Runs /\ RunBound(w) /\ RunOK(w) /\ StoringOK(w)
  BY Types DEF RunType, Bound, Data, RunOK
<1>1. UNCHANGED <<lastId, written, log, objects, import>> /\ run[w].pc = "inserting"
      /\ rows' = rows \union {k} /\ timers' = timers \union refs
  BY <1>k, <1>f DEF Insert, RowsInserted, Superseded
<1>2. k \in written /\ refs \subseteq written /\ \A t \in refs : t < k
  BY <1>0, <1>1, <1>k, <1>f DEF RunBound, StoringOK
<1>3. Safe(k)
  BY <1>0, <1>1, <1>k DEF StoringOK
<1>4. /\ \A v \in Workers : v # w => run'[v] = run[v]
      /\ run'[w].pc = "finish" /\ run'[w].clock = k /\ run'[w].refs = refs
      /\ run'[w].seen = run[w].seen
  BY <1>0, <1>k, <1>f, InsertIs DEF Runs
<1>5. Doomed' \subseteq Doomed \union refs
  <2>1. \A v \in Workers : Removing(v)' \subseteq Removing(v) \union refs
    BY <1>4 DEF Removing
  <2> QED BY <1>1, <2>1 DEF Doomed
<1>n. \A m \in written : m \in Nat
  BY <1>0, WrittenClocks
<1>6. \A t : UpTo(t)' = UpTo(t) /\ ContentAt(t)' = ContentAt(t) /\ Complete(t)' = Complete(t)
  BY <1>1 DEF UpTo, ContentAt, Complete
<1>7. PICK top \in Lasting' : top \in written /\ k <= top /\ Complete(top)
  <2>1. CASE Replaced(k)
    <3>1. PICK r \in Lasting : k < r /\ Complete(r)
      BY <2>1 DEF Replaced
    <3>2. r \in written /\ r \in rows /\ r \notin Doomed
      BY DEF Lasting, Bound
    <3>3. r \notin refs /\ k <= r
      BY <1>2, <1>n, <3>1, <3>2
    <3> QED BY <1>1, <1>5, <3>1, <3>2, <3>3 DEF Lasting
  <2>2. CASE Complete(k) /\ ~Replaced(k)
    <3>1. k \notin Doomed
      BY <2>2 DEF Data, RowsOK
    <3>2. k \notin refs /\ k <= k
      BY <1>2, <1>n
    <3> QED BY <1>1, <1>2, <1>5, <2>2, <3>1, <3>2 DEF Lasting
  <2> QED BY <1>3, <2>1, <2>2 DEF Safe
<1>8. ASSUME NEW r \in Lasting PROVE r \in written /\ (r \in Lasting' \/ (r \in refs /\ r < top))
  <2>1. r \in written
    BY DEF Lasting, Bound
  <2>2. CASE r \in refs
    BY <1>2, <1>7, <1>n, <2>1, <2>2
  <2>3. CASE r \notin refs
    BY <1>1, <1>5, <2>1, <2>3 DEF Lasting
  <2> QED BY <2>2, <2>3
<1>9. ASSUME NEW t \in written, Replaced(t) PROVE Replaced(t)'
  <2>1. PICK r \in Lasting : t < r /\ Complete(r)
    BY <1>9 DEF Replaced
  <2>2. CASE r \in Lasting'
    BY <1>6, <2>1, <2>2 DEF Replaced
  <2>3. CASE r < top
    <3>1. t < top
      BY <1>7, <1>8, <1>9, <1>n, <2>1, <2>3
    <3> QED BY <1>6, <1>7, <3>1 DEF Replaced
  <2> QED BY <1>8, <2>2, <2>3
<1>10. \A t \in refs : Replaced(t)'
  <2> TAKE t \in refs
  <2>1. t < top
    BY <1>2, <1>7, <1>n
  <2> QED BY <1>6, <1>7, <2>1 DEF Replaced
<1>11. \A m \in written : Covered(m) => Covered(m)'
  BY <1>1 DEF Covered
<1>12. RowsOK'
  <2>1. \A m \in written' : m \in log' \/ Covered(m)'
    BY <1>1, <1>11 DEF Data, RowsOK
  <2>2. ASSUME NEW m \in written', Covered(m)'
        PROVE  \E r \in Lasting' : m \in ContentAt(r)'
    <3>t. ASSUME m <= top PROVE m \in ContentAt(top)'
      BY <1>1, <1>6, <1>7, <2>2, <3>t DEF Complete, UpTo
    <3>1. CASE Covered(m)
      <4>1. PICK r \in Lasting : m \in ContentAt(r)
        BY <1>1, <2>2, <3>1 DEF Data, RowsOK
      <4>2. CASE r \in Lasting'
        BY <1>6, <4>1, <4>2
      <4>3. CASE r < top
        <5>1. m \in UpTo(r)
          BY <1>8, <4>1, ContentUpTo DEF Data
        <5>2. m <= top
          BY <1>1, <1>7, <1>8, <1>n, <2>2, <4>3, <5>1 DEF UpTo
        <5> QED BY <1>7, <3>t, <5>2
      <4> QED BY <1>8, <4>2, <4>3
    <3>2. CASE ~Covered(m)
      <4>1. m <= k
        BY <1>1, <2>2, <3>2 DEF Covered
      <4>2. m <= top
        BY <1>1, <1>2, <1>7, <1>n, <2>2, <4>1
      <4> QED BY <1>7, <3>t, <4>2
    <3> QED BY <3>1, <3>2
  <2>3. \A t \in Doomed' : Replaced(t)'
    <3>1. Doomed \subseteq written
      BY DEF Doomed, Bound, Removing, RunBound
    <3> QED BY <1>5, <1>9, <1>10, <3>1 DEF Data, RowsOK
  <2> QED BY <2>1, <2>2, <2>3 DEF RowsOK
<1>13. \A m : OfRun(m)' = OfRun(m)
  BY <1>1 DEF OfRun, UpTo
<1>14. \A m \in written : Safe(m) => Safe(m)'
  BY <1>6, <1>9 DEF Safe
<1>15. \A v \in Workers : v # w => RunOK(v)'
  <2>1. Later
    BY <1>1 DEF Later
  <2> QED BY <1>4, <1>6, <1>11, <1>13, <1>14, <2>1, RunStays DEF Data
<1>16. RunOK(w)'
  <2>1. \A m \in written' : m <= run'[w].clock => Covered(m)'
    BY <1>1, <1>4 DEF Covered
  <2>2. \A m \in run'[w].seen : OfRun(m)'
    BY <1>0, <1>4, <1>13 DEF RunOK
  <2> QED BY <1>4, <2>1, <2>2 DEF RunOK, SelectingOK, GettingOK, StoringOK, FinishOK
<1>17. ObjectsOK'
  BY <1>1, <1>13 DEF Data, ObjectsOK, UpTo
<1>18. ImportOK'
  BY <1>1, <1>6, <1>11 DEF Data, ImportOK
<1> QED BY <1>12, <1>15, <1>16, <1>17, <1>18 DEF Data

(* The object of an import: nothing else has its clock. *)
LEMMA DataUploadImport ==
  ASSUME TypeOK, TypeOK', Bound, Data, UploadImport
  PROVE  Data'
<1> USE DEF streamVars, storeVars, deletionVars
<1>k. PICK k : k = lastId
  OBVIOUS
<1>0. StreamType /\ import.pc = "uploading" /\ import.clock = k /\ k \notin written
  BY <1>k, Types DEF UploadImport, Data, ImportOK
<1>1. UNCHANGED <<lastId, written, log, rows, timers, run>> /\ PutObject(k, {k})
      /\ import'.clock = k
  BY <1>0, Types DEF UploadImport, ImportType
<1>2. /\ ContentAt(k)' = {k} /\ \A s : s # k => ContentAt(s)' = ContentAt(s)
      /\ \A o \in objects' : (o \in objects /\ o.t # k) \/ (o.t = k /\ o.content = {k})
  BY <1>1, PutFacts
<1>3. \A s \in written : ContentAt(s)' = ContentAt(s)
  BY <1>0, <1>2
<1>4. \A m : UpTo(m)' = UpTo(m) /\ Covered(m)' = Covered(m)
  BY <1>1 DEF UpTo, Covered
<1>5. Doomed' = Doomed /\ Lasting' = Lasting
  BY <1>1 DEF Doomed, Lasting, Removing
<1>6. Later /\ RowsLast
  BY <1>1, <1>3, <1>5 DEF RowsLast, LastingStay, Later, Lasting, Bound
<1>7. \A m \in written : OfRun(m) => OfRun(m)'
  BY <1>0, <1>2, <1>4 DEF OfRun
<1>8. \A m \in written : Safe(m) => Safe(m)'
  BY <1>3, <1>4, <1>6, ReplacedStays DEF Safe, Complete, RowsLast
<1>9. \A v \in Workers : RunOK(v)'
  <2> TAKE v \in Workers
  <2>1. \A s \in run[v].gets : ContentAt(s) \subseteq ContentAt(s)'
    BY <1>3 DEF Bound, RunBound
  <2> QED BY <1>1, <1>4, <1>6, <1>7, <1>8, <2>1, RunStays DEF Data
<1>10. RowsOK'
  BY <1>1, <1>6, RowsStay DEF Data
<1>11. ObjectsOK'
  <2>1. \A m \in log' : OfRun(m)'
    BY <1>0, <1>1, <1>7 DEF Data, ObjectsOK, StreamType
  <2>2. \A o \in objects' : o.content \subseteq UpTo(o.t)' \union {o.t}
    BY <1>1, <1>2 DEF Data, ObjectsOK, UpTo
  <2> QED BY <2>1, <2>2 DEF ObjectsOK
<1>12. ImportOK'
  BY <1>0, <1>1, <1>2, <1>4, <1>k DEF Data, ImportOK
<1> QED BY <1>9, <1>10, <1>11, <1>12 DEF Data

(* Its row: all that was written before has rows. *)
LEMMA DataInsertImport ==
  ASSUME TypeOK, TypeOK', Bound, ~Hard, Data, InsertImport
  PROVE  Data'
<1> USE DEF streamVars, storeVars, deletionVars
<1>k. PICK k : k = lastId
  OBVIOUS
<1>0. /\ StreamType /\ import.clock = k /\ k \notin written /\ k \in ContentAt(k)
      /\ \A m \in written : Covered(m)
  BY <1>k, Types DEF InsertImport, Data, ImportOK
<1>1. UNCHANGED <<lastId, log, objects, timers, run>> /\ rows' = rows \union {k}
      /\ written' = written \union {k} /\ import' = NoImport
  BY <1>0 DEF InsertImport, RowsInserted
<1>n. k \in Nat /\ \A m \in written : m \in Nat /\ m <= k
  BY <1>0, <1>k, WrittenClocks
<1>2. Later
  BY <1>0, <1>1, <1>n DEF Later
<1>3. \A s : ContentAt(s)' = ContentAt(s)
  BY <1>1 DEF ContentAt
<1>4. Doomed' = Doomed /\ k \notin Doomed
  <2>1. Doomed \subseteq written
    BY DEF Doomed, Bound, Removing, RunBound
  <2> QED BY <1>0, <1>1, <2>1 DEF Doomed, Removing
<1>5. Lasting' = Lasting \union {k}
  BY <1>1, <1>4 DEF Lasting
<1>6. LastingStay
  BY <1>2, <1>3, <1>5 DEF LastingStay
<1>7. \A m \in written : UpTo(m)' = UpTo(m)
  BY <1>2, UpToStays
<1>8. \A m \in written : Covered(m)'
  BY <1>0, <1>1 DEF Covered
<1>9. \A m \in written : OfRun(m) => OfRun(m)'
  BY <1>1, <1>7 DEF OfRun
<1>10. \A m \in written : Safe(m) => Safe(m)'
  BY <1>3, <1>6, <1>7, ReplacedStays DEF Safe, Complete
<1>11. \A v \in Workers : RunOK(v)'
  BY <1>1, <1>2, <1>3, <1>8, <1>9, <1>10, RunStays DEF Data
<1>12. RowsOK'
  <2>1. Covered(k)'
    BY <1>1, <1>n DEF Covered
  <2>2. \A m \in written : \E r \in Lasting' : m \in ContentAt(r)'
    BY <1>0, <1>3, <1>5 DEF Data, RowsOK
  <2>3. k \in Lasting' /\ k \in ContentAt(k)'
    BY <1>0, <1>3, <1>5
  <2>4. \A t \in Doomed' : Replaced(t)'
    BY <1>4, <1>6, ReplacedStays DEF Data, RowsOK
  <2> QED BY <1>1, <1>8, <2>1, <2>2, <2>3, <2>4 DEF RowsOK
<1>13. ObjectsOK'
  <2>1. \A m \in log' : OfRun(m)'
    BY <1>0, <1>1, <1>9 DEF Data, ObjectsOK, StreamType
  <2>2. \A o \in objects' : o.content \subseteq UpTo(o.t)' \union {o.t}
    BY <1>1 DEF Data, ObjectsOK, UpTo
  <2> QED BY <2>1, <2>2 DEF ObjectsOK
<1>14. ImportOK'
  BY <1>1 DEF ImportOK, NoImport
<1> QED BY <1>11, <1>12, <1>13, <1>14 DEF Data

-----------------------------------------------------------------------------
(* The invariant *)

(* It holds at first. *)
LEMMA InvInit == Init => IInv
<1> SUFFICES ASSUME Init PROVE IInv
  OBVIOUS
<1>1. TypeOK /\ Bound
  BY TypeInit
<1>2. RowsOK /\ ObjectsOK /\ ImportOK
  <2>1. Doomed = {}
    BY DEF Init, Doomed, Removing, NoRun
  <2> QED BY <2>1 DEF Init, RowsOK, ObjectsOK, ImportOK, Covered, NoImport
<1>3. \A w \in Workers : RunOK(w)
  BY DEF Init, NoRun, RunOK, SelectingOK, GettingOK, StoringOK, FinishOK
<1> QED BY <1>1, <1>2, <1>3 DEF IInv, Data

(* Every step keeps it, if removals are late and imports are clean. *)
THEOREM InvStep ==
  ASSUME LateRemoval, CleanImports
  PROVE  IInv /\ [Next]_vars => IInv'
<1> SUFFICES ASSUME IInv, [Next]_vars PROVE IInv'
  OBVIOUS
<1>1. TypeOK /\ Bound /\ TypeOK' /\ Bound'
  BY TypeStep DEF IInv
<1>2. ASSUME ~Hard' PROVE Data'
  <2>1. CASE UNCHANGED vars
    <3>1. ~Hard /\ Data
      BY <1>2, <2>1 DEF vars, deletionVars, Hard, IInv
    <3>2. \A w \in Workers : RunOK(w)'
      BY <2>1, <3>1 DEF vars, streamVars, storeVars, deletionVars, Data, RunOK, SelectingOK, GettingOK,
        StoringOK, FinishOK, Safe, Replaced, Complete, Covered, OfRun, UpTo, ContentAt, SeenBy,
        ReferredBy, Lasting, Doomed, Removing
    <3>3. RowsOK' /\ ObjectsOK' /\ ImportOK'
      BY <2>1, <3>1 DEF vars, streamVars, storeVars, deletionVars, Data, RowsOK, ObjectsOK, ImportOK,
        Replaced, Complete, Covered, OfRun, UpTo, ContentAt, Lasting, Doomed, Removing
    <3> QED BY <3>2, <3>3 DEF Data
  <2>2. CASE Deletion
    BY <1>2, <2>2 DEF Deletion, StoreTombstone, ClearMessages, ListReferences, PurgeRows, Hard
  <2>3. CASE AddMessage \/ (\E w \in Workers : Run(w) \/ Fail(w)) \/ Plugin \/ Import
    <3>1. deletion' = deletion
      BY <2>3 DEF AddMessage, Run, Fail, Begin, SelectRows, GetObject, Merge, Upload, Insert,
        DeleteRows, TrimMessages, Plugin, RemoveObject, LoseTimer, Import, BeginImport,
        UploadImport, InsertImport, FailImport, deletionVars
    <3>2. ~Hard /\ Data
      BY <1>2, <3>1 DEF Hard, IInv
    <3>3. ASSUME NEW w \in Workers, Run(w) \/ Fail(w) PROVE Data'
      BY <1>1, <3>2, <3>3, DataBegin, DataSelect, DataGet, DataMerge, DataUpload, DataInsert,
         DataDeleteRows, DataTrim, DataFail DEF Run
    <3>4. CASE AddMessage \/ Plugin \/ BeginImport \/ FailImport
      BY <1>1, <3>2, <3>4, DataOthers
    <3>5. CASE UploadImport \/ InsertImport
      BY <1>1, <3>2, <3>5, DataUploadImport, DataInsertImport
    <3> QED BY <2>3, <3>3, <3>4, <3>5 DEF Import
  <2> QED BY <2>1, <2>2, <2>3 DEF IInv, Next
<1> QED BY <1>1, <1>2 DEF IInv

(* The invariant holds as long as the room lives. *)
THEOREM InvHolds ==
  ASSUME LateRemoval, CleanImports
  PROVE  Spec => []IInv
BY InvInit, InvStep, PTL DEF Spec

-----------------------------------------------------------------------------
(* The types need neither of the assumptions. *)
THEOREM TypesHold == Spec => [](TypeOK /\ Bound)
BY TypeInit, TypeStep, PTL DEF Spec

(* No update is lost: whatever was written is on the stream, or in an object *)
(* that a row refers to, for any number of runs, crashes, lost timers and    *)
(* imports, until the document is deleted for good.                          *)
LEMMA InvRetrievable == IInv => StaysRetrievable
<1> SUFFICES ASSUME IInv, ~Hard, NEW m \in written PROVE m \in log \union Retrievable
  BY DEF StaysRetrievable, IInv
<1>1. RowsOK
  BY DEF IInv, Data
<1>2. CASE m \in log
  BY <1>2
<1>3. CASE m \notin log
  <2>1. PICK r \in Lasting : m \in ContentAt(r)
    BY <1>1, <1>3 DEF RowsOK
  <2> QED BY <2>1 DEF Lasting, Retrievable
<1> QED BY <1>2, <1>3

(* StaysRetrievable, for every number of runs, messages and imports. *)
THEOREM Retrievability ==
  ASSUME LateRemoval, CleanImports
  PROVE  Spec => []StaysRetrievable
BY InvHolds, InvRetrievable, PTL

(* The newest row has its object: what is removed has been replaced by a     *)
(* newer row.                                                                *)
LEMMA InvNewest == IInv => NewestHasObject
<1> SUFFICES ASSUME IInv, ~Hard, rows # {} PROVE NewestOf(rows) \in Stored
  BY DEF NewestHasObject
<1>1. RowsOK /\ ObjectsOK /\ Bound /\ TypeOK /\ StreamType
  BY Types DEF IInv, Data
<1>2. PICK n : n = NewestOf(rows)
  OBVIOUS
<1>3. n \in rows /\ n \in written /\ \A m \in rows : m <= n
  <2>1. rows \in SUBSET Clocks
    BY <1>1, WrittenClocks DEF Bound
  <2>2. n \in rows \union {0} /\ \A m \in rows : m <= n
    BY <1>2, <2>1, Newest
  <2>3. n # 0
    BY <1>1, <2>2, WrittenClocks DEF Bound
  <2> QED BY <1>1, <2>2, <2>3 DEF Bound
<1>4. n \in Nat /\ n <= n
  BY <1>1, <1>3, WrittenClocks
<1>5. PICK r \in Lasting : n \in ContentAt(r)
  BY <1>1, <1>3, <1>4 DEF RowsOK, Covered
<1>6. r \in rows /\ r \in written /\ r \in Nat
  BY <1>1, WrittenClocks DEF Lasting, Bound
<1>7. n <= r
  BY <1>1, <1>5, <1>6, ContentUpTo DEF UpTo
<1>8. r = n
  BY <1>3, <1>4, <1>6, <1>7
<1> QED BY <1>2, <1>5, <1>8 DEF ContentAt, Stored

(* NewestHasObject: no reader of the newest row misses its object. *)
THEOREM NewestIsRetrievable ==
  ASSUME LateRemoval, CleanImports
  PROVE  Spec => []NewestHasObject
BY InvHolds, InvNewest, PTL

(* Two runs that store the same clock store the same content, and so does a  *)
(* run that stores what is already there.                                    *)
SameContentStep ==
  \A t \in rows \intersect rows' :
    t \in Stored /\ t \in Stored' /\ ~Hard => ContentAt(t) = ContentAt(t)'

LEMMA StepSameContent == IInv /\ [Next]_vars => SameContentStep
<1> SUFFICES ASSUME IInv, [Next]_vars, ~Hard, NEW t \in rows, t \in Stored, t \in Stored'
             PROVE  ContentAt(t)' = ContentAt(t)
  BY DEF SameContentStep
<1> USE DEF streamVars, storeVars, deletionVars
<1>0. Bound /\ TypeOK /\ Data /\ t \in written
  BY DEF IInv, Bound
<1>1. CASE objects' = objects
  BY <1>1 DEF ContentAt
<1>2. ASSUME NEW w \in Workers, Upload(w) PROVE ContentAt(t)' = ContentAt(t)
  <2>1. PICK k : k = run[w].clock
    OBVIOUS
  <2>2. PICK c : c = run[w].content
    OBVIOUS
  <2>3. PutObject(k, c) /\ run[w].pc = "uploading"
    BY <1>2, <2>1, <2>2 DEF Upload
  <2>4. c = UpTo(k) /\ OfRun(k)
    BY <1>0, <2>1, <2>2, <2>3 DEF Data, RunOK, StoringOK, Bound, RunBound
  <2>5. ContentAt(k)' = c /\ \A s : s # k => ContentAt(s)' = ContentAt(s)
    BY <2>3, PutFacts
  <2>6. CASE t = k
    <3>1. PICK o \in objects : o.t = t
      BY DEF Stored
    <3>2. \A p \in objects : p.t = t => p.content = c
      BY <2>4, <2>6 DEF OfRun
    <3>3. ContentAt(t) = c
      BY <3>1, <3>2 DEF ContentAt
    <3> QED BY <2>5, <2>6, <3>3
  <2> QED BY <2>5, <2>6
<1>3. ASSUME NEW s, RemoveObject(s) PROVE ContentAt(t)' = ContentAt(t)
  <2>1. objects' = {o \in objects : o.t # s}
    BY <1>3 DEF RemoveObject
  <2>2. t # s
    BY <2>1 DEF Stored
  <2>3. {p \in objects' : p.t = t} = {p \in objects : p.t = t}
    BY <2>1, <2>2
  <2> QED BY <2>3 DEF ContentAt
<1>4. CASE UploadImport
  <2>1. PICK k : k = import.clock
    OBVIOUS
  <2>2. PutObject(k, {k}) /\ k \notin written
    BY <1>0, <1>4, <2>1 DEF UploadImport, Data, ImportOK
  <2> QED BY <1>0, <2>2, PutFacts
<1> QED BY <1>1, <1>2, <1>3, <1>4
  DEF Next, vars, AddMessage, Run, Fail, Begin, SelectRows, GetObject, Merge, Insert, DeleteRows,
      TrimMessages, Plugin, LoseTimer, Deletion, StoreTombstone, ClearMessages, ListReferences,
      PurgeRows, Import, BeginImport, InsertImport, FailImport

(* SameContent: an object that a row refers to is never replaced by another. *)
THEOREM SameContentHolds ==
  ASSUME LateRemoval, CleanImports
  PROVE  Spec => SameContent
<1>1. IInv /\ [Next]_vars => [SameContentStep]_vars
  BY StepSameContent
<1>2. Spec => [][SameContentStep]_vars
  BY <1>1, InvHolds, PTL DEF Spec
<1> QED BY <1>2 DEF SameContent, SameContentStep
=============================================================================
