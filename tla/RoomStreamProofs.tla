-------------------------- MODULE RoomStreamProofs --------------------------
(***************************************************************************)
(* Proofs about RoomStream: its types, and the discipline of its tasks for *)
(* any number of rooms, operators, quarantine keys and messages.           *)
(*                                                                         *)
(* The task invariants are not inductive alone.  The DEL that ends a       *)
(* quarantine of a missing key would leave a task behind, if one could     *)
(* exist; so the induction also carries that none does (RoomInv), which in *)
(* turn needs that nobody touches the room in between, the assumption      *)
(* CleanupExclusive.                                                       *)
(***************************************************************************)
EXTENDS RoomStream, FiniteSetTheorems, TLAPS

(* What operators hold and what quarantine keys contain belongs to a room, *)
(* and all sets of entries are finite, so that clocks can be counted out.  *)
WellFormed ==
  /\ \A q \in Qids : quarantined[q] # NoKey => quarantined[q].room \in Rooms
  /\ \A o \in Operators : op[o].pc # "idle" => op[o].room \in Rooms
  /\ \A r \in Rooms : IsFiniteSet(log[r])
  /\ \A q \in Qids : IsFiniteSet(quarantined[q].entries)
  /\ \A o \in Operators : IsFiniteSet(op[o].entries)

(* The task invariants for one room: a task only for a live room, one for  *)
(* each live room without imports, and none where an orphan NOP is being   *)
(* removed.                                                                *)
RoomInv(r) ==
  /\ HasTask(r) => r \in live \ disabled
  /\ r \in live \ (disabled \union Imported) => HasTask(r) \/ CleaningUp(r)
  /\ CleaningUp(r) => ~HasTask(r)

TaskInv == AtMostOneTask /\ \A r \in Rooms : RoomInv(r)

-----------------------------------------------------------------------------
(* Entries that are written again get clocks above lastId, in the type of  *)
(* entries and below the next lastId.                                      *)
LEMMA RewrittenType ==
  ASSUME lastId \in Nat, NEW es \in SUBSET Entries, IsFiniteSet(es)
  PROVE  /\ Cardinality(es) \in Nat
         /\ Rewritten(es) \in SUBSET {e \in Entries : e.id <= lastId + Cardinality(es)}
         /\ IsFiniteSet(Rewritten(es))
<1> DEFINE Rank(e) == Cardinality({f \in es : f.id <= e.id})
           Again(e) == [id |-> lastId + Rank(e), origin |-> e.origin, kind |-> e.kind]
<1>1. Cardinality(es) \in Nat
  BY FS_CardinalityType
<1>2. \A e \in es : Rank(e) \in Nat /\ Rank(e) <= Cardinality(es)
  <2> TAKE e \in es
  <2>1. {f \in es : f.id <= e.id} \in SUBSET es
    OBVIOUS
  <2>2. IsFiniteSet({f \in es : f.id <= e.id})
    BY <2>1, FS_Subset
  <2> QED
    BY <2>1, <2>2, FS_Subset, FS_CardinalityType
<1>3. Rewritten(es) = {Again(e) : e \in es}
  BY DEF Rewritten
<1>4. \A e \in es : Again(e) \in Entries /\ Again(e).id <= lastId + Cardinality(es)
  <2> TAKE e \in es
  <2>1. e.origin \in Nat /\ e.kind \in Kinds
    BY DEF Entries
  <2> HIDE DEF Rank
  <2>2. lastId + Rank(e) \in Nat /\ lastId + Rank(e) <= lastId + Cardinality(es)
    BY <1>1, <1>2
  <2> QED
    BY <2>1, <2>2 DEF Entries
<1>5. IsFiniteSet({Again(e) : e \in es})
  <2> DEFINE f == [e \in es |-> Again(e)]
  <2> HIDE DEF Again
  <2>1. f \in Surjection(es, {Again(e) : e \in es})
    BY DEF Surjection
  <2> QED BY <2>1, FS_Surjection
<1> HIDE DEF Again
<1> QED BY <1>1, <1>3, <1>4, <1>5

-----------------------------------------------------------------------------
(* Types *)

TypeInv == TypeOK /\ WellFormed

(* Enqueue gives a task id a room. *)
LEMMA EnqueueType ==
  ASSUME pending \in [TaskIds -> Rooms \union {None}],
         NEW r \in Rooms, NEW acked, Enqueue(r, acked)
  PROVE  pending' \in [TaskIds -> Rooms \union {None}]
BY DEF Enqueue

(* So does the conditional form that addMessage uses. *)
LEMMA EnqueueIfNeededType ==
  ASSUME pending \in [TaskIds -> Rooms \union {None}],
         NEW r \in Rooms, EnqueueIfNeeded(r)
  PROVE  pending' \in [TaskIds -> Rooms \union {None}]
BY EnqueueType DEF EnqueueIfNeeded

(* SetLog with a finite set of entries whose clocks are at most n. *)
LEMMA SetLogType ==
  ASSUME TypeOK, WellFormed,
         NEW r \in Rooms, NEW es, NEW n \in Nat, lastId <= n,
         es \in SUBSET {e \in Entries : e.id <= n}, IsFiniteSet(es), SetLog(r, es, n)
  PROVE  /\ lastId' \in Nat
         /\ log' \in [Rooms -> SUBSET {e \in Entries : e.id <= lastId'}]
         /\ \A s \in Rooms : log'[s] = IF s = r THEN es ELSE log[s]
         /\ \A s \in Rooms : IsFiniteSet(log'[s])
<1>1. lastId' = n /\ log' = [log EXCEPT ![r] = es]
  BY DEF SetLog
<1>2. \A s \in Rooms : log'[s] = IF s = r THEN es ELSE log[s]
  BY <1>1 DEF TypeOK
<1>3. \A s \in Rooms : log[s] \in SUBSET {e \in Entries : e.id <= n}
  <2>1. lastId \in Nat /\ \A s \in Rooms : log[s] \in SUBSET {e \in Entries : e.id <= lastId}
    BY DEF TypeOK
  <2>2. \A e \in Entries : e.id \in Nat
    BY DEF Entries
  <2> QED BY <2>1, <2>2
<1>4. log' \in [Rooms -> SUBSET {e \in Entries : e.id <= n}]
  BY <1>1, <1>3 DEF TypeOK
<1>5. \A s \in Rooms : IsFiniteSet(log'[s])
  BY <1>2 DEF WellFormed
<1> QED BY <1>1, <1>2, <1>4, <1>5

(* A fresh entry has the next clock. *)
LEMMA FreshType ==
  ASSUME lastId \in Nat, NEW kind \in Kinds
  PROVE  Fresh(kind) \in Entries /\ Fresh(kind).id = lastId + 1
BY DEF Fresh, Entries

(* What a trim keeps is finite and below lastId. *)
LEMMA KeptType ==
  ASSUME TypeOK, WellFormed, NEW r \in Rooms, NEW cutoff
  PROVE  /\ Kept(r, cutoff) \in SUBSET {e \in Entries : e.id <= lastId}
         /\ IsFiniteSet(Kept(r, cutoff))
<1>1. Kept(r, cutoff) \in SUBSET log[r]
  BY DEF Kept
<1>2. IsFiniteSet(log[r])
  BY DEF WellFormed
<1>3. log[r] \in SUBSET {e \in Entries : e.id <= lastId}
  BY DEF TypeOK
<1> QED BY <1>1, <1>2, <1>3, FS_Subset

(* A stream with a fresh entry, or only that, is below the next lastId. *)
LEMMA AppendType ==
  ASSUME TypeOK, WellFormed, NEW r \in Rooms, NEW kind \in Kinds
  PROVE  /\ log[r] \union {Fresh(kind)} \in SUBSET {e \in Entries : e.id <= lastId + 1}
         /\ IsFiniteSet(log[r] \union {Fresh(kind)})
         /\ {Fresh(kind)} \in SUBSET {e \in Entries : e.id <= lastId + 1}
         /\ IsFiniteSet({Fresh(kind)})
<1>1. IsFiniteSet(log[r]) /\ log[r] \in SUBSET {e \in Entries : e.id <= lastId} /\ lastId \in Nat
  BY DEF TypeOK, WellFormed
<1>2. \A e \in Entries : e.id \in Nat
  BY DEF Entries
<1>3. \A e \in Entries : e.id <= lastId => e.id <= lastId + 1
  BY <1>1, <1>2
<1>4. Fresh(kind) \in Entries /\ Fresh(kind).id <= lastId + 1
  BY <1>1, FreshType
<1>5. {Fresh(kind)} \in SUBSET {e \in Entries : e.id <= lastId + 1}
  BY <1>4
<1>6. log[r] \in SUBSET {e \in Entries : e.id <= lastId + 1}
  BY <1>1, <1>3
<1>7. IsFiniteSet({Fresh(kind)}) /\ IsFiniteSet(log[r] \union {Fresh(kind)})
  BY <1>1, FS_AddElement, FS_Singleton
<1> QED BY <1>5, <1>6, <1>7

(* Every step keeps the types and the well-formedness they need. *)
THEOREM TypeStep == TypeInv /\ [Next]_vars => TypeInv'
<1> SUFFICES ASSUME TypeOK, WellFormed, [Next]_vars
             PROVE  TypeOK' /\ WellFormed'
  BY DEF TypeInv
<1>n. lastId \in Nat /\ lastId + 1 \in Nat /\ lastId <= lastId + 1 /\ lastId <= lastId
  BY DEF TypeOK
<1>1. ASSUME NEW r \in Rooms, NEW kind \in {"m", "auth"}, AddMessage(r, kind)
      PROVE  TypeOK' /\ WellFormed'
  <2>1. SetLog(r, log[r] \union {Fresh(kind)}, lastId + 1) /\ EnqueueIfNeeded(r)
    BY <1>1 DEF AddMessage
  <2>2. kind \in Kinds
    BY DEF Kinds
  <2>3. /\ lastId' \in Nat
        /\ log' \in [Rooms -> SUBSET {e \in Entries : e.id <= lastId'}]
        /\ \A s \in Rooms : log'[s] = IF s = r THEN log[r] \union {Fresh(kind)} ELSE log[s]
        /\ \A s \in Rooms : IsFiniteSet(log'[s])
    BY <1>n, <2>1, <2>2, AppendType, SetLogType
  <2>4. pending' \in [TaskIds -> Rooms \union {None}]
    BY <2>1, EnqueueIfNeededType DEF TypeOK
  <2>5. live' = live \union {r} /\ UNCHANGED <<disabled, quarantined, op>>
    BY <1>1 DEF AddMessage
  <2> QED BY <2>3, <2>4, <2>5 DEF TypeOK, WellFormed
<1>2. ASSUME NEW r \in Rooms, NEW minId, NEW t \in TaskIds, NEW cutoff,
             TrimMessages(r, minId, cutoff, t)
      PROVE  TypeOK' /\ WellFormed'
  <2> DEFINE kept == Kept(r, cutoff)
  <2>1. SetLog(r, kept, lastId) /\ Successor(r, t, kept) /\ live' = LiveAfterTrim(r, kept)
    BY <1>2 DEF TrimMessages
  <2>2. UNCHANGED <<disabled, quarantined, op>>
    BY <1>2 DEF TrimMessages
  <2> HIDE DEF kept
  <2>3. /\ lastId' \in Nat
        /\ log' \in [Rooms -> SUBSET {e \in Entries : e.id <= lastId'}]
        /\ \A s \in Rooms : log'[s] = IF s = r THEN kept ELSE log[s]
        /\ \A s \in Rooms : IsFiniteSet(log'[s])
    BY <1>n, <2>1, KeptType, SetLogType DEF kept
  <2>4. pending' \in [TaskIds -> Rooms \union {None}]
    BY <2>1, EnqueueType DEF TypeOK, Successor
  <2>5. live' = IF kept = {} THEN live \ {r} ELSE live
    BY <2>1 DEF LiveAfterTrim
  <2>6. live' \in SUBSET Rooms
    BY <2>5 DEF TypeOK
  <2>7. \A s \in Rooms \ live' : log'[s] = {}
    <3> TAKE s \in Rooms \ live'
    <3>1. s \in Rooms /\ log'[s] = IF s = r THEN kept ELSE log[s]
      BY <2>3
    <3>2. CASE s = r /\ kept = {}
      BY <3>1, <3>2
    <3>3. CASE s # r \/ kept # {}
      <4>1. s \in Rooms \ live
        BY <2>5, <3>3
      <4>2. log[s] = {} /\ (s = r => r \notin live)
        BY <4>1 DEF TypeOK
      <4>3. kept \in SUBSET log[r]
        BY DEF kept, Kept
      <4> QED BY <3>1, <4>2, <4>3
    <3> QED BY <3>2, <3>3
  <2> QED BY <2>2, <2>3, <2>4, <2>6, <2>7 DEF TypeOK, WellFormed
<1>3. ASSUME NEW r \in Rooms, DisableCompaction(r)
      PROVE  TypeOK' /\ WellFormed'
  BY <1>3 DEF TypeOK, WellFormed, DisableCompaction
<1>4. ASSUME NEW r \in Rooms, EnableCompaction(r)
      PROVE  TypeOK' /\ WellFormed'
  <2>1. pending' \in [TaskIds -> Rooms \union {None}]
    BY <1>4, EnqueueType DEF TypeOK, EnableCompaction
  <2> QED BY <1>4, <2>1 DEF TypeOK, WellFormed, EnableCompaction
<1>5. ASSUME NEW r \in Rooms, ClearMessages(r)
      PROVE  TypeOK' /\ WellFormed'
  <2>1. SetLog(r, {}, lastId) /\ UNCHANGED <<live, pending, disabled, quarantined, op>>
    BY <1>5 DEF ClearMessages
  <2>2. /\ lastId' \in Nat
        /\ log' \in [Rooms -> SUBSET {e \in Entries : e.id <= lastId'}]
        /\ \A s \in Rooms : log'[s] = IF s = r THEN {} ELSE log[s]
        /\ \A s \in Rooms : IsFiniteSet(log'[s])
    BY <1>n, <2>1, FS_EmptySet, SetLogType
  <2> QED BY <2>1, <2>2 DEF TypeOK, WellFormed
<1>6. ASSUME NEW o \in Operators, NEW r \in Rooms, Quarantine(o, r)
      PROVE  TypeOK' /\ WellFormed'
  <2>1. r \in live /\ live' = live /\ SetLog(r, {Fresh("nop")}, lastId + 1)
    BY <1>6 DEF Quarantine, LiveAfterRename
  <2>2. UNCHANGED <<pending, disabled, op>>
    BY <1>6 DEF Quarantine
  <2>3. PICK q \in Qids :
          quarantined' = [quarantined EXCEPT ![q] = [room |-> r, entries |-> log[r]]]
    BY <1>6 DEF Quarantine
  <2>4. /\ lastId' \in Nat
        /\ log' \in [Rooms -> SUBSET {e \in Entries : e.id <= lastId'}]
        /\ \A s \in Rooms : log'[s] = IF s = r THEN {Fresh("nop")} ELSE log[s]
        /\ \A s \in Rooms : IsFiniteSet(log'[s])
    BY <1>n, <2>1, AppendType, SetLogType DEF Kinds
  <2>5. log[r] \in SUBSET Entries /\ IsFiniteSet(log[r])
    BY DEF TypeOK, WellFormed
  <2> QED BY <2>1, <2>2, <2>3, <2>4, <2>5 DEF TypeOK, WellFormed
<1>7. ASSUME NEW o \in Operators, NEW r \in Rooms, QuarantineMissing(o, r)
      PROVE  TypeOK' /\ WellFormed'
  <2>1. SetLog(r, {Fresh("nop")}, lastId + 1) /\ live' = live \union {r}
    BY <1>7 DEF QuarantineMissing
  <2>2. op' = [op EXCEPT ![o] = [pc |-> "cleanup", room |-> r, qids |-> {}, entries |-> {}]]
    BY <1>7 DEF QuarantineMissing, Busy
  <2>3. UNCHANGED <<pending, disabled, quarantined>>
    BY <1>7 DEF QuarantineMissing
  <2>4. /\ lastId' \in Nat
        /\ log' \in [Rooms -> SUBSET {e \in Entries : e.id <= lastId'}]
        /\ \A s \in Rooms : log'[s] = IF s = r THEN {Fresh("nop")} ELSE log[s]
        /\ \A s \in Rooms : IsFiniteSet(log'[s])
    BY <1>n, <2>1, AppendType, SetLogType DEF Kinds
  <2> QED BY <2>1, <2>2, <2>3, <2>4, FS_EmptySet DEF TypeOK, WellFormed
<1>8. ASSUME NEW o \in Operators, NEW r \in Rooms, ListQuarantines(o, r)
      PROVE  TypeOK' /\ WellFormed'
  <2> DEFINE found == {q \in Qids : quarantined[q].room = r}
  <2>1. op' = [op EXCEPT ![o] = [pc |-> "drop", room |-> r, qids |-> found, entries |-> {}]]
    BY <1>8 DEF ListQuarantines, Busy
  <2>2. UNCHANGED <<streamVars, quarantined>>
    BY <1>8 DEF ListQuarantines
  <2> QED BY <2>1, <2>2, FS_EmptySet DEF TypeOK, WellFormed, streamVars
<1>9. ASSUME NEW o \in Operators, NEW q \in Qids, UnquarantineRead(o, q)
      PROVE  TypeOK' /\ WellFormed'
  <2>1. op' = [op EXCEPT ![o] = [pc |-> "reinject", room |-> quarantined[q].room,
                                 qids |-> {q}, entries |-> quarantined[q].entries]]
    BY <1>9 DEF UnquarantineRead, Busy
  <2>2. quarantined[q].room \in Rooms /\ IsFiniteSet(quarantined[q].entries)
        /\ quarantined[q].entries \in SUBSET Entries
    BY <1>9 DEF UnquarantineRead, WellFormed, TypeOK
  <2>3. UNCHANGED <<streamVars, quarantined>>
    BY <1>9 DEF UnquarantineRead
  <2> QED BY <2>1, <2>2, <2>3 DEF TypeOK, WellFormed, streamVars
<1> DEFINE OpIdle(o) == op' = [op EXCEPT ![o] = [pc |-> "idle", room |-> None,
                                                 qids |-> {}, entries |-> {}]]
<1>i. ASSUME NEW o \in Operators, OpIdle(o)
      PROVE  /\ op' \in [Operators -> [pc : {"idle", "cleanup", "reinject", "drop"},
                                       room : Rooms \union {None},
                                       qids : SUBSET Qids, entries : SUBSET Entries]]
             /\ \A p \in Operators : op'[p].pc # "idle" => op'[p].room \in Rooms
             /\ \A p \in Operators : IsFiniteSet(op'[p].entries)
  BY <1>i, FS_EmptySet DEF TypeOK, WellFormed
<1>10. ASSUME NEW o \in Operators, QuarantineCleanup(o)
       PROVE  TypeOK' /\ WellFormed'
  <2>1. op[o].room \in Rooms
    BY <1>10 DEF QuarantineCleanup, WellFormed
  <2>2. /\ SetLog(op[o].room, {}, lastId) /\ live' = live \ {op[o].room}
        /\ OpIdle(o) /\ UNCHANGED <<pending, disabled, quarantined>>
    BY <1>10 DEF QuarantineCleanup, Idle, Busy
  <2>3. /\ lastId' \in Nat
        /\ log' \in [Rooms -> SUBSET {e \in Entries : e.id <= lastId'}]
        /\ \A s \in Rooms : log'[s] = IF s = op[o].room THEN {} ELSE log[s]
        /\ \A s \in Rooms : IsFiniteSet(log'[s])
    BY <1>n, <2>1, <2>2, FS_EmptySet, SetLogType
  <2> HIDE DEF OpIdle
  <2> QED BY <1>i, <2>2, <2>3 DEF TypeOK, WellFormed
<1>q. ASSUME NEW o \in Operators,
             quarantined' = [q \in Qids |-> IF q \in op[o].qids THEN NoKey ELSE quarantined[q]]
      PROVE  /\ quarantined' \in [Qids -> [room : Rooms \union {None}, entries : SUBSET Entries]]
             /\ \A q \in Qids : quarantined'[q] # NoKey => quarantined'[q].room \in Rooms
             /\ \A q \in Qids : IsFiniteSet(quarantined'[q].entries)
  BY <1>q, FS_EmptySet DEF TypeOK, WellFormed, NoKey
<1>11. ASSUME NEW o \in Operators, UnquarantineWrite(o)
       PROVE  TypeOK' /\ WellFormed'
  <2> DEFINE r == op[o].room
             es == Replayable(op[o].entries)
             n == lastId + Cardinality(es)
  <2>1. r \in Rooms
    BY <1>11 DEF UnquarantineWrite, WellFormed
  <2>2. es \in SUBSET Entries /\ IsFiniteSet(es)
    <3>1. es \in SUBSET op[o].entries
      BY DEF Replayable
    <3>2. op[o].entries \in SUBSET Entries /\ IsFiniteSet(op[o].entries)
      BY DEF TypeOK, WellFormed
    <3> QED BY <3>1, <3>2, FS_Subset
  <2>3. /\ SetLog(r, log[r] \union Rewritten(es), n)
        /\ OpIdle(o)
        /\ quarantined' = [q \in Qids |-> IF q \in op[o].qids THEN NoKey ELSE quarantined[q]]
        /\ UNCHANGED disabled
    BY <1>11 DEF UnquarantineWrite, Idle, Busy
  <2>4. \/ UNCHANGED <<pending, live>>
        \/ EnqueueIfNeeded(r) /\ live' = live \union {r}
    BY <1>11 DEF UnquarantineWrite
  <2>4a. es = {} => UNCHANGED <<pending, live>>
    BY <1>11 DEF UnquarantineWrite
  <2>4b. es # {} => live' = live \union {r}
    BY <1>11 DEF UnquarantineWrite
  <2> HIDE DEF es, OpIdle
  <2>5. /\ Cardinality(es) \in Nat
        /\ Rewritten(es) \in SUBSET {e \in Entries : e.id <= n}
        /\ IsFiniteSet(Rewritten(es))
    BY <1>n, <2>2, RewrittenType
  <2>6. n \in Nat /\ lastId <= n
    BY <1>n, <2>5
  <2>7. /\ log[r] \union Rewritten(es) \in SUBSET {e \in Entries : e.id <= n}
        /\ IsFiniteSet(log[r] \union Rewritten(es))
    <3>1. IsFiniteSet(log[r]) /\ log[r] \in SUBSET {e \in Entries : e.id <= lastId}
      BY <2>1 DEF TypeOK, WellFormed
    <3>2. \A e \in Entries : e.id \in Nat
      BY DEF Entries
    <3>3. \A e \in Entries : e.id <= lastId => e.id <= n
      BY <1>n, <2>6, <3>2
    <3> QED BY <2>5, <3>1, <3>3, FS_Union
  <2> HIDE DEF n, r
  <2>8. /\ lastId' \in Nat
        /\ log' \in [Rooms -> SUBSET {e \in Entries : e.id <= lastId'}]
        /\ \A s \in Rooms : log'[s] = IF s = r THEN log[r] \union Rewritten(es) ELSE log[s]
        /\ \A s \in Rooms : IsFiniteSet(log'[s])
    BY <2>1, <2>3, <2>6, <2>7, SetLogType
  <2>9. pending' \in [TaskIds -> Rooms \union {None}] /\ live' \in SUBSET Rooms
    BY <2>1, <2>4, EnqueueIfNeededType DEF TypeOK
  <2>10. es = {} => Rewritten(es) = {}
    BY DEF Rewritten
  <2>11. \A s \in Rooms \ live' : log'[s] = {}
    BY <2>1, <2>4a, <2>4b, <2>8, <2>10 DEF TypeOK
  <2>12. disabled' \in SUBSET Rooms
    BY <2>3 DEF TypeOK
  <2> QED BY <1>i, <1>q, <2>3, <2>8, <2>9, <2>11, <2>12 DEF TypeOK, WellFormed
<1>12. ASSUME NEW o \in Operators, DropQuarantines(o)
       PROVE  TypeOK' /\ WellFormed'
  <2>1. /\ OpIdle(o) /\ UNCHANGED streamVars
        /\ quarantined' = [q \in Qids |-> IF q \in op[o].qids THEN NoKey ELSE quarantined[q]]
    BY <1>12 DEF DropQuarantines, Idle, Busy
  <2> HIDE DEF OpIdle
  <2> QED BY <1>i, <1>q, <2>1 DEF TypeOK, WellFormed, streamVars
<1>13. ASSUME NEW o \in Operators, OperatorCrash(o)
       PROVE  TypeOK' /\ WellFormed'
  <2>1. OpIdle(o) /\ UNCHANGED <<streamVars, quarantined>>
    BY <1>13 DEF OperatorCrash, Idle, Busy
  <2> HIDE DEF OpIdle
  <2> QED BY <1>i, <2>1 DEF TypeOK, WellFormed, streamVars
<1>14. ASSUME NEW r \in Rooms, NEW t \in TaskIds, TrimAborts(r, t)
       PROVE  TypeOK' /\ WellFormed'
  BY <1>14 DEF TrimAborts, TypeOK, WellFormed
<1>15. CASE UNCHANGED vars
  BY <1>15 DEF TypeOK, WellFormed, vars
<1> HIDE DEF OpIdle
<1> QED BY <1>1, <1>2, <1>3, <1>4, <1>5, <1>6, <1>7, <1>8, <1>9, <1>10, <1>11, <1>12,
           <1>13, <1>14, <1>15 DEF Next, Stream, Operate

(* The initial state is well-typed. *)
LEMMA TypeInit == Init => TypeInv
<1> SUFFICES ASSUME Init PROVE TypeOK /\ WellFormed
  BY DEF TypeInv
<1>1. log = [r \in Rooms |-> {}] /\ lastId = 0 /\ live = {} /\ disabled = {}
      /\ pending = [t \in TaskIds |-> None]
  BY DEF Init
<1>2. quarantined = [q \in Qids |-> [room |-> None, entries |-> {}]]
  BY DEF Init, NoKey
<1>3. op = [o \in Operators |-> [pc |-> "idle", room |-> None, qids |-> {}, entries |-> {}]]
  BY DEF Init, Idle, Busy
<1>4. TypeOK
  BY <1>1, <1>2, <1>3 DEF TypeOK
<1>5. WellFormed
  BY <1>1, <1>2, <1>3, FS_EmptySet DEF WellFormed, NoKey
<1> QED BY <1>4, <1>5

(* Types, for any set of rooms, operators, task ids and quarantine ids. *)
THEOREM TypeCorrect == Spec => []TypeOK
<1>1. TypeInv => TypeOK
  BY DEF TypeInv
<1> QED BY <1>1, TypeInit, TypeStep, PTL DEF Spec

-----------------------------------------------------------------------------
(* Tasks *)

(* Where the only tasks of a room are the acked ones, Enqueue leaves it with *)
(* one task, and leaves the tasks of the other rooms alone.                  *)
LEMMA EnqueueTask ==
  ASSUME TypeOK, AtMostOneTask, NEW r \in Rooms, NEW acked, Enqueue(r, acked),
         \A t \in TaskIds : pending[t] = r <=> t \in acked
  PROVE  /\ AtMostOneTask' /\ HasTask(r)'
         /\ \A s \in Rooms \ {r} : HasTask(s)' <=> HasTask(s)
<1>1. PICK n \in TaskIds :
        /\ pending[n] = None
        /\ pending' = [t \in TaskIds |-> IF t = n THEN r
                                        ELSE IF t \in acked THEN None ELSE pending[t]]
  BY DEF Enqueue
<1>2. pending'[n] = r
  BY <1>1
<1>3. \A t \in TaskIds \ {n} : pending'[t] = IF pending[t] = r THEN None ELSE pending[t]
  BY <1>1
<1>4. AtMostOneTask'
  BY <1>2, <1>3 DEF AtMostOneTask
<1>5. \A s \in Rooms \ {r} : HasTask(s)' <=> HasTask(s)
  BY <1>1, <1>2, <1>3, NoneAssumption DEF HasTask
<1> QED BY <1>2, <1>4, <1>5 DEF HasTask

(* Taking the tasks of a room away leaves the tasks of the others alone. *)
LEMMA RemoveTasks ==
  ASSUME TypeOK, AtMostOneTask, NEW r \in Rooms,
         pending' = [t \in TaskIds |-> IF pending[t] = r THEN None ELSE pending[t]]
  PROVE  /\ AtMostOneTask' /\ ~HasTask(r)'
         /\ \A s \in Rooms \ {r} : HasTask(s)' <=> HasTask(s)
<1>1. AtMostOneTask'
  BY DEF AtMostOneTask
<1>2. ~HasTask(r)'
  BY NoneAssumption DEF HasTask
<1>3. \A s \in Rooms \ {r} : HasTask(s)' <=> HasTask(s)
  BY NoneAssumption DEF HasTask
<1> QED BY <1>1, <1>2, <1>3

(* A write to a room that nobody cleans up: a key that comes into existence  *)
(* gets its task, an existing one has it already.                            *)
LEMMA WriteTask ==
  ASSUME TypeOK, TaskInv, NEW r \in Rooms, ~CleaningUp(r), EnqueueIfNeeded(r),
         live' = live \union {r}, disabled' = disabled,
         \A s \in Rooms : CleaningUp(s)' <=> CleaningUp(s)
  PROVE  TaskInv'
<1>1. AtMostOneTask /\ \A s \in Rooms : RoomInv(s)
  BY DEF TaskInv
<1>2. CASE NeedsTask(r)
  <2>1. Enqueue(r, {}) /\ ~HasTask(r)
    BY <1>1, <1>2 DEF EnqueueIfNeeded, NeedsTask, RoomInv
  <2>2. /\ AtMostOneTask' /\ HasTask(r)'
        /\ \A s \in Rooms \ {r} : HasTask(s)' <=> HasTask(s)
    <3>1. \A t \in TaskIds : pending[t] = r <=> t \in {}
      BY <2>1 DEF HasTask
    <3> QED BY <1>1, <2>1, <3>1, EnqueueTask
  <2>3. ASSUME NEW s \in Rooms PROVE RoomInv(s)'
    BY <1>1, <1>2, <2>2 DEF RoomInv, NeedsTask
  <2> QED BY <2>2, <2>3 DEF TaskInv
<1>3. CASE ~NeedsTask(r)
  <2>1. pending' = pending
    BY <1>3 DEF EnqueueIfNeeded
  <2>2. AtMostOneTask' /\ \A s \in Rooms : HasTask(s)' <=> HasTask(s)
    BY <1>1, <2>1 DEF AtMostOneTask, HasTask
  <2>3. ASSUME NEW s \in Rooms PROVE RoomInv(s)'
    BY <1>1, <1>3, <2>2 DEF RoomInv, NeedsTask
  <2> QED BY <2>2, <2>3 DEF TaskInv
<1> QED BY <1>2, <1>3

(* A step of an operator that is not, and does not get, in a cleanup. *)
LEMMA SameCleaning ==
  ASSUME TypeOK, NEW o \in Operators, NEW v, op' = [op EXCEPT ![o] = v],
         op[o].pc # "cleanup", v.pc # "cleanup"
  PROVE  \A s \in Rooms : CleaningUp(s)' <=> CleaningUp(s)
<1>1. \A p \in Operators : op'[p] = IF p = o THEN v ELSE op[p]
  BY DEF TypeOK
<1> QED BY <1>1 DEF CleaningUp

(* A step that leaves tasks, streams and cleanups alone. *)
LEMMA SameTasks ==
  ASSUME TaskInv, UNCHANGED <<pending, live, disabled>>,
         \A s \in Rooms : CleaningUp(s)' <=> CleaningUp(s)
  PROVE  TaskInv'
<1>1. AtMostOneTask /\ \A s \in Rooms : RoomInv(s)
  BY DEF TaskInv
<1>2. AtMostOneTask' /\ \A s \in Rooms : HasTask(s)' <=> HasTask(s)
  BY <1>1 DEF AtMostOneTask, HasTask
<1>3. ASSUME NEW s \in Rooms PROVE RoomInv(s)'
  BY <1>1, <1>2 DEF RoomInv
<1> QED BY <1>2, <1>3 DEF TaskInv

(* The task invariant is inductive, given the types. *)
THEOREM TaskStep == CleanupExclusive /\ TypeInv /\ TaskInv /\ [Next]_vars => TaskInv'
<1> SUFFICES ASSUME CleanupExclusive, TypeOK, WellFormed, TaskInv, [Next]_vars
             PROVE  TaskInv'
  BY DEF TypeInv
<1>a. AtMostOneTask /\ \A s \in Rooms : RoomInv(s)
  BY DEF TaskInv
<1>o. op' = op => \A s \in Rooms : CleaningUp(s)' <=> CleaningUp(s)
  BY DEF CleaningUp
<1>i. ASSUME NEW o \in Operators, op[o].pc # "cleanup", op' = [op EXCEPT ![o] = Idle]
      PROVE  \A s \in Rooms : CleaningUp(s)' <=> CleaningUp(s)
  <2>1. Idle.pc # "cleanup"
    BY DEF Idle, Busy
  <2> QED BY <1>i, <2>1, SameCleaning
<1>1. ASSUME NEW r \in Rooms, NEW kind \in {"m", "auth"}, AddMessage(r, kind)
      PROVE  TaskInv'
  BY <1>1, <1>o, WriteTask DEF AddMessage, Undisturbed
<1>2. ASSUME NEW r \in Rooms, NEW minId, NEW t \in TaskIds, NEW cutoff,
             TrimMessages(r, minId, cutoff, t)
      PROVE  TaskInv'
  <2> DEFINE kept == Kept(r, cutoff)
  <2>1. pending[t] = r /\ Successor(r, t, kept) /\ live' = LiveAfterTrim(r, kept)
        /\ disabled' = disabled /\ op' = op
    BY <1>2 DEF TrimMessages
  <2> HIDE DEF kept
  <2>2. HasTask(r) /\ \A u \in TaskIds : pending[u] = r <=> u = t
    BY <1>a, <2>1, NoneAssumption DEF HasTask, AtMostOneTask
  <2>3. CASE kept = {}
    <3>1. pending' = [u \in TaskIds |-> IF pending[u] = r THEN None ELSE pending[u]]
      BY <2>1, <2>2, <2>3 DEF Successor, TypeOK
    <3>2. /\ AtMostOneTask' /\ ~HasTask(r)'
          /\ \A s \in Rooms \ {r} : HasTask(s)' <=> HasTask(s)
      BY <1>a, <3>1, RemoveTasks
    <3>3. ASSUME NEW s \in Rooms PROVE RoomInv(s)'
      BY <1>a, <1>o, <2>1, <2>3, <3>2 DEF RoomInv, LiveAfterTrim
    <3> QED BY <3>2, <3>3 DEF TaskInv
  <2>4. CASE kept # {}
    <3>1. Enqueue(r, {t}) /\ \A u \in TaskIds : pending[u] = r <=> u \in {t}
      BY <2>1, <2>2, <2>4 DEF Successor
    <3>2. /\ AtMostOneTask' /\ HasTask(r)'
          /\ \A s \in Rooms \ {r} : HasTask(s)' <=> HasTask(s)
      BY <1>a, <3>1, EnqueueTask
    <3>3. ASSUME NEW s \in Rooms PROVE RoomInv(s)'
      BY <1>a, <1>o, <2>1, <2>2, <2>4, <3>2 DEF RoomInv, LiveAfterTrim
    <3> QED BY <3>2, <3>3 DEF TaskInv
  <2> QED BY <2>3, <2>4
<1>3. ASSUME NEW r \in Rooms, DisableCompaction(r)
      PROVE  TaskInv'
  <2>1. /\ AtMostOneTask' /\ ~HasTask(r)'
        /\ \A s \in Rooms \ {r} : HasTask(s)' <=> HasTask(s)
    BY <1>3, <1>a, RemoveTasks DEF DisableCompaction
  <2>2. ASSUME NEW s \in Rooms PROVE RoomInv(s)'
    BY <1>3, <1>a, <1>o, <2>1 DEF RoomInv, DisableCompaction
  <2> QED BY <2>1, <2>2 DEF TaskInv
<1>4. ASSUME NEW r \in Rooms, EnableCompaction(r)
      PROVE  TaskInv'
  <2>1. ~CleaningUp(r) /\ r \in disabled /\ disabled' = disabled \ {r} /\ live' = live /\ op' = op
    BY <1>4 DEF EnableCompaction, Undisturbed
  <2>2. ~HasTask(r)
    BY <1>a, <2>1 DEF RoomInv
  <2>3. CASE r \in live
    <3>1. Enqueue(r, {}) /\ \A u \in TaskIds : pending[u] = r <=> u \in {}
      BY <1>4, <2>2, <2>3 DEF EnableCompaction, HasTask
    <3>2. /\ AtMostOneTask' /\ HasTask(r)'
          /\ \A s \in Rooms \ {r} : HasTask(s)' <=> HasTask(s)
      BY <1>a, <3>1, EnqueueTask
    <3>3. ASSUME NEW s \in Rooms PROVE RoomInv(s)'
      BY <1>a, <1>o, <2>1, <2>3, <3>2 DEF RoomInv
    <3> QED BY <3>2, <3>3 DEF TaskInv
  <2>4. CASE r \notin live
    <3>1. pending' = pending
      BY <1>4, <2>4 DEF EnableCompaction
    <3>2. AtMostOneTask' /\ \A s \in Rooms : HasTask(s)' <=> HasTask(s)
      BY <1>a, <3>1 DEF AtMostOneTask, HasTask
    <3>3. ASSUME NEW s \in Rooms PROVE RoomInv(s)'
      BY <1>a, <1>o, <2>1, <2>4, <3>2 DEF RoomInv
    <3> QED BY <3>2, <3>3 DEF TaskInv
  <2> QED BY <2>3, <2>4
<1>5. ASSUME NEW r \in Rooms, ClearMessages(r)
      PROVE  TaskInv'
  BY <1>5, <1>o, SameTasks DEF ClearMessages
<1>6. ASSUME NEW o \in Operators, NEW r \in Rooms, Quarantine(o, r)
      PROVE  TaskInv'
  <2>1. live' = live
    BY <1>6 DEF Quarantine, LiveAfterRename
  <2> QED BY <1>6, <1>o, <2>1, SameTasks DEF Quarantine
<1>7. ASSUME NEW o \in Operators, NEW r \in Rooms, QuarantineMissing(o, r)
      PROVE  TaskInv'
  <2>1. r \notin live /\ live' = live \union {r} /\ pending' = pending /\ disabled' = disabled
        /\ op[o].pc # "cleanup" /\ op' = [op EXCEPT ![o] = Busy("cleanup", r, {}, {})]
    BY <1>7 DEF QuarantineMissing, Idle, Busy
  <2>2. ~HasTask(r)
    BY <1>a, <2>1 DEF RoomInv
  <2>3. AtMostOneTask' /\ \A s \in Rooms : HasTask(s)' <=> HasTask(s)
    BY <1>a, <2>1 DEF AtMostOneTask, HasTask
  <2>4. CleaningUp(r)' /\ \A s \in Rooms \ {r} : CleaningUp(s)' <=> CleaningUp(s)
    <3>1. \A p \in Operators : op'[p] = IF p = o THEN Busy("cleanup", r, {}, {}) ELSE op[p]
      BY <2>1 DEF TypeOK
    <3> QED BY <2>1, <3>1 DEF CleaningUp, Busy
  <2>5. ASSUME NEW s \in Rooms PROVE RoomInv(s)'
    BY <1>a, <2>1, <2>2, <2>3, <2>4 DEF RoomInv
  <2> QED BY <2>3, <2>5 DEF TaskInv
<1>8. ASSUME NEW o \in Operators, NEW r \in Rooms, ListQuarantines(o, r)
      PROVE  TaskInv'
  <2>1. \A s \in Rooms : CleaningUp(s)' <=> CleaningUp(s)
    BY <1>8, SameCleaning DEF ListQuarantines, Idle, Busy
  <2> QED BY <1>8, <2>1, SameTasks DEF ListQuarantines, streamVars
<1>9. ASSUME NEW o \in Operators, NEW q \in Qids, UnquarantineRead(o, q)
      PROVE  TaskInv'
  <2> DEFINE v == Busy("reinject", quarantined[q].room, {q}, quarantined[q].entries)
  <2>1. \A s \in Rooms : CleaningUp(s)' <=> CleaningUp(s)
    <3>1. op' = [op EXCEPT ![o] = v] /\ op[o].pc # "cleanup" /\ v.pc # "cleanup"
      BY <1>9 DEF UnquarantineRead, Idle, Busy
    <3> HIDE DEF v
    <3> QED BY <3>1, SameCleaning
  <2> QED BY <1>9, <2>1, SameTasks DEF UnquarantineRead, streamVars
<1>10. ASSUME NEW o \in Operators, QuarantineCleanup(o)
       PROVE  TaskInv'
  <2> DEFINE r == op[o].room
  <2>1. live' = live \ {r} /\ pending' = pending /\ disabled' = disabled
        /\ op[o].pc = "cleanup" /\ op' = [op EXCEPT ![o] = Idle]
    BY <1>10 DEF QuarantineCleanup
  <2>2. r \in Rooms /\ CleaningUp(r)
    BY <2>1 DEF WellFormed, CleaningUp
  <2>3. ~HasTask(r)
    BY <1>a, <2>2 DEF RoomInv
  <2>4. AtMostOneTask' /\ \A s \in Rooms : HasTask(s)' <=> HasTask(s)
    BY <1>a, <2>1 DEF AtMostOneTask, HasTask
  <2>5. \A s \in Rooms \ {r} : CleaningUp(s)' <=> CleaningUp(s)
    <3>1. \A p \in Operators : op'[p] = IF p = o THEN Idle ELSE op[p]
      BY <2>1 DEF TypeOK
    <3> QED BY <2>1, <3>1 DEF CleaningUp, Idle, Busy
  <2> HIDE DEF r
  <2>6. ASSUME NEW s \in Rooms PROVE RoomInv(s)'
    BY <1>a, <2>1, <2>2, <2>3, <2>4, <2>5 DEF RoomInv
  <2> QED BY <2>4, <2>6 DEF TaskInv
<1>11. ASSUME NEW o \in Operators, UnquarantineWrite(o)
       PROVE  TaskInv'
  <2> DEFINE r == op[o].room
             es == Replayable(op[o].entries)
  <2>1. \A s \in Rooms : CleaningUp(s)' <=> CleaningUp(s)
    BY <1>11, <1>i DEF UnquarantineWrite
  <2>2. r \in Rooms /\ ~CleaningUp(r) /\ disabled' = disabled
    BY <1>11 DEF UnquarantineWrite, WellFormed, Undisturbed
  <2>3. \/ UNCHANGED <<pending, live>>
        \/ EnqueueIfNeeded(r) /\ live' = live \union {r}
    BY <1>11 DEF UnquarantineWrite
  <2> HIDE DEF r
  <2>4. CASE UNCHANGED <<pending, live>>
    BY <2>1, <2>2, <2>4, SameTasks
  <2>5. CASE EnqueueIfNeeded(r) /\ live' = live \union {r}
    BY <2>1, <2>2, <2>5, WriteTask
  <2> QED BY <2>3, <2>4, <2>5
<1>12. ASSUME NEW o \in Operators, DropQuarantines(o)
       PROVE  TaskInv'
  <2>1. \A s \in Rooms : CleaningUp(s)' <=> CleaningUp(s)
    BY <1>12, <1>i DEF DropQuarantines
  <2> QED BY <1>12, <2>1, SameTasks DEF DropQuarantines, streamVars
<1>13. ASSUME NEW o \in Operators, OperatorCrash(o)
       PROVE  TaskInv'
  <2>1. \A s \in Rooms : CleaningUp(s)' <=> CleaningUp(s)
    BY <1>13, <1>i DEF OperatorCrash
  <2> QED BY <1>13, <2>1, SameTasks DEF OperatorCrash, streamVars
<1>14. ASSUME NEW r \in Rooms, NEW t \in TaskIds, TrimAborts(r, t)
       PROVE  TaskInv'
  <2>1. /\ r \in Imported /\ pending[t] = r /\ live' = live /\ disabled' = disabled /\ op' = op
        /\ pending' = [pending EXCEPT ![t] = None]
    BY <1>14 DEF TrimAborts
  <2>2. pending' = [u \in TaskIds |-> IF pending[u] = r THEN None ELSE pending[u]]
    BY <1>a, <2>1, NoneAssumption DEF AtMostOneTask, TypeOK
  <2>3. /\ AtMostOneTask' /\ ~HasTask(r)'
        /\ \A s \in Rooms \ {r} : HasTask(s)' <=> HasTask(s)
    BY <1>a, <2>2, RemoveTasks
  <2>4. ASSUME NEW s \in Rooms PROVE RoomInv(s)'
    BY <1>a, <1>o, <2>1, <2>3 DEF RoomInv
  <2> QED BY <2>3, <2>4 DEF TaskInv
<1>15. CASE UNCHANGED vars
  BY <1>15, <1>o, SameTasks DEF vars
<1> QED BY <1>1, <1>2, <1>3, <1>4, <1>5, <1>6, <1>7, <1>8, <1>9, <1>10, <1>11, <1>12,
           <1>13, <1>14, <1>15 DEF Next, Stream, Operate

(* With a room left alone while quarantine removes its orphan NOP, the     *)
(* invariant of the tasks holds from the beginning, and has the three      *)
(* properties of the worker queue as its consequences.                     *)
THEOREM TaskDiscipline ==
  ASSUME CleanupExclusive PROVE Spec => [](TypeInv /\ TaskInv)
<1>1. Init => TypeInv /\ TaskInv
  <2> SUFFICES ASSUME Init PROVE TaskInv
    BY TypeInit
  <2>1. pending = [t \in TaskIds |-> None] /\ live = {}
    BY DEF Init
  <2>2. op = [o \in Operators |-> [pc |-> "idle", room |-> None, qids |-> {}, entries |-> {}]]
    BY DEF Init, Idle, Busy
  <2>3. AtMostOneTask /\ \A r \in Rooms : ~HasTask(r) /\ ~CleaningUp(r)
    BY <2>1, <2>2, NoneAssumption DEF AtMostOneTask, HasTask, CleaningUp
  <2> QED BY <2>1, <2>3 DEF TaskInv, RoomInv
<1>2. TypeInv /\ TaskInv /\ [Next]_vars => (TypeInv /\ TaskInv)'
  BY TypeStep, TaskStep
<1> QED BY <1>1, <1>2, PTL DEF Spec

(* The worker queue never holds two tasks of one room. *)
THEOREM OneTaskPerRoom ==
  ASSUME CleanupExclusive PROVE Spec => []AtMostOneTask
<1>1. TypeInv /\ TaskInv => AtMostOneTask
  BY DEF TaskInv
<1> QED BY <1>1, TaskDiscipline, PTL

(* No stream is left without a task, unless its compaction is disabled or a  *)
(* document was imported into its room.                                      *)
THEOREM NoStreamStranded ==
  ASSUME CleanupExclusive PROVE Spec => []NotStranded
<1>1. TypeInv /\ TaskInv => NotStranded
  BY DEF TaskInv, RoomInv, NotStranded, TypeInv, TypeOK
<1> QED BY <1>1, TaskDiscipline, PTL

(* No task outlives its stream or the permission to compact its room. *)
THEOREM NoTaskAstray ==
  ASSUME CleanupExclusive PROVE Spec => []NoStrayTask
<1>1. TypeInv /\ TaskInv => NoStrayTask
  BY DEF TaskInv, RoomInv, NoStrayTask, TypeInv
<1> QED BY <1>1, TaskDiscipline, PTL

-----------------------------------------------------------------------------
(* Messages *)

(* While an orphan NOP is being removed no message is next to it, and what an *)
(* operator is going to write again is what the quarantine key still holds,  *)
(* unless another operator was faster.                                       *)
NoMessageCleaned == \A r \in Rooms : CleaningUp(r) => \A e \in log[r] : e.kind # "m"

ReinjectsWhatIsKept ==
  \A o \in Operators : op[o].pc = "reinject" =>
    \E q \in Qids : /\ op[o].qids = {q}
                    /\ \/ quarantined[q] = NoKey
                       \/ quarantined[q] = [room |-> op[o].room, entries |-> op[o].entries]

MessageInv == NoMessageCleaned /\ ReinjectsWhatIsKept

(* The messages of es are still somewhere in room r after the step. *)
Stay(r, es) == \A e \in es : e.kind = "m" => e.origin \in Stored(r)'

(* Where the messages are that count as stored. *)
LEMMA StoredBy ==
  ASSUME NEW r, NEW c
  PROVE  c \in Stored(r) <=>
           \/ \E e \in log[r] : e.kind = "m" /\ e.origin = c
           \/ \E q \in Qids : quarantined[q].room = r /\
                \E e \in quarantined[q].entries : e.kind = "m" /\ e.origin = c
<1>1. ASSUME NEW q \in Qids, quarantined[q].room = r, NEW e \in quarantined[q].entries,
             e.kind = "m", e.origin = c
      PROVE  c \in Stored(r)
  <2>1. e \in UNION {quarantined[p].entries : p \in {k \in Qids : quarantined[k].room = r}}
    BY <1>1
  <2> QED BY <1>1, <2>1 DEF Stored
<1>2. ASSUME NEW e \in log[r], e.kind = "m", e.origin = c
      PROVE  c \in Stored(r)
  BY <1>2 DEF Stored
<1>3. ASSUME c \in Stored(r)
      PROVE  \/ \E e \in log[r] : e.kind = "m" /\ e.origin = c
             \/ \E q \in Qids : quarantined[q].room = r /\
                  \E e \in quarantined[q].entries : e.kind = "m" /\ e.origin = c
  BY <1>3 DEF Stored
<1> QED BY <1>1, <1>2, <1>3

(* The same after the step. *)
LEMMA StoredByNext ==
  ASSUME NEW r, NEW c
  PROVE  c \in Stored(r)' <=>
           \/ \E e \in log'[r] : e.kind = "m" /\ e.origin = c
           \/ \E q \in Qids : quarantined'[q].room = r /\
                \E e \in quarantined'[q].entries : e.kind = "m" /\ e.origin = c
<1>1. ASSUME NEW q \in Qids, quarantined'[q].room = r, NEW e \in quarantined'[q].entries,
             e.kind = "m", e.origin = c
      PROVE  c \in Stored(r)'
  <2>1. e \in UNION {quarantined'[p].entries : p \in {k \in Qids : quarantined'[k].room = r}}
    BY <1>1
  <2> QED BY <1>1, <2>1 DEF Stored
<1>2. ASSUME NEW e \in log'[r], e.kind = "m", e.origin = c
      PROVE  c \in Stored(r)'
  BY <1>2 DEF Stored
<1>3. ASSUME c \in Stored(r)'
      PROVE  \/ \E e \in log'[r] : e.kind = "m" /\ e.origin = c
             \/ \E q \in Qids : quarantined'[q].room = r /\
                  \E e \in quarantined'[q].entries : e.kind = "m" /\ e.origin = c
  BY <1>3 DEF Stored
<1> QED BY <1>1, <1>2, <1>3

(* If the messages of the stream and of the quarantine keys that change stay, *)
(* all messages of the room do.                                              *)
LEMMA StoredStays ==
  ASSUME NEW r, Stay(r, log[r]),
         \A q \in Qids : quarantined[q].room = r =>
           quarantined'[q] = quarantined[q] \/ Stay(r, quarantined[q].entries)
  PROVE  Stored(r) \subseteq Stored(r)'
<1> SUFFICES ASSUME NEW c \in Stored(r) PROVE c \in Stored(r)'
  OBVIOUS
<1>1. CASE \E e \in log[r] : e.kind = "m" /\ e.origin = c
  BY <1>1 DEF Stay
<1>2. ASSUME NEW q \in Qids, quarantined[q].room = r,
             NEW e \in quarantined[q].entries, e.kind = "m", e.origin = c
      PROVE  c \in Stored(r)'
  <2>1. CASE quarantined'[q] = quarantined[q]
    BY <1>2, <2>1, StoredByNext
  <2>2. CASE Stay(r, quarantined[q].entries)
    BY <1>2, <2>2 DEF Stay
  <2> QED BY <1>2, <2>1, <2>2
<1> QED BY <1>1, <1>2, StoredBy

(* A step under which cleaned rooms gain no message. *)
LEMMA NoMessageStep ==
  ASSUME NoMessageCleaned,
         \A s \in Rooms : CleaningUp(s)' =>
           \/ CleaningUp(s) /\ log'[s] \subseteq log[s]
           \/ \A e \in log'[s] : e.kind # "m"
  PROVE  NoMessageCleaned'
BY DEF NoMessageCleaned

(* A step that starts no reinjection and only drops keys or fills unheld ones. *)
LEMMA ReinjectStep ==
  ASSUME ReinjectsWhatIsKept,
         \A p \in Operators : op'[p] = op[p] \/ op'[p].pc # "reinject",
         \A q \in Qids : \/ quarantined'[q] = quarantined[q]
                         \/ quarantined'[q] = NoKey
                         \/ \A p \in Operators : q \notin op[p].qids
  PROVE  ReinjectsWhatIsKept'
<1> SUFFICES ASSUME NEW o \in Operators, op'[o].pc = "reinject"
             PROVE  \E q \in Qids :
                      /\ op'[o].qids = {q}
                      /\ \/ quarantined'[q] = NoKey
                         \/ quarantined'[q] = [room |-> op'[o].room, entries |-> op'[o].entries]
  BY DEF ReinjectsWhatIsKept, NoKey
<1>1. op'[o] = op[o]
  OBVIOUS
<1>2. PICK q \in Qids :
        /\ op[o].qids = {q}
        /\ \/ quarantined[q] = NoKey
           \/ quarantined[q] = [room |-> op[o].room, entries |-> op[o].entries]
  BY <1>1 DEF ReinjectsWhatIsKept
<1>3. quarantined'[q] = quarantined[q] \/ quarantined'[q] = NoKey
  BY <1>2
<1> QED BY <1>1, <1>2, <1>3

(* The invariant about messages is inductive. *)
THEOREM MessageStep == CleanupExclusive /\ TypeInv /\ MessageInv /\ [Next]_vars => MessageInv'
<1> SUFFICES ASSUME CleanupExclusive, TypeOK, WellFormed, MessageInv, [Next]_vars
             PROVE  NoMessageCleaned' /\ ReinjectsWhatIsKept'
  BY DEF TypeInv, MessageInv
<1>a. NoMessageCleaned /\ ReinjectsWhatIsKept
  BY DEF MessageInv
<1>o. op' = op => \A s \in Rooms : CleaningUp(s)' <=> CleaningUp(s)
  BY DEF CleaningUp
<1>p. ASSUME NEW o \in Operators, NEW v, op' = [op EXCEPT ![o] = v]
      PROVE  \A p \in Operators : op'[p] = IF p = o THEN v ELSE op[p]
  BY <1>p DEF TypeOK
<1>c. ASSUME NEW o \in Operators, NEW v, op' = [op EXCEPT ![o] = v], v.pc # "cleanup"
      PROVE  \A s \in Rooms : CleaningUp(s)' => CleaningUp(s)
  BY <1>c, <1>p DEF CleaningUp
<1>l. ASSUME NEW r \in Rooms, NEW es, NEW n, SetLog(r, es, n)
      PROVE  \A s \in Rooms : log'[s] = IF s = r THEN es ELSE log[s]
  BY <1>l DEF TypeOK, SetLog
<1>n. \A e \in {Fresh("nop")} : e.kind # "m"
  BY DEF Fresh
<1>1. ASSUME NEW r \in Rooms, NEW kind \in {"m", "auth"}, AddMessage(r, kind)
      PROVE  NoMessageCleaned' /\ ReinjectsWhatIsKept'
  <2>1. ~CleaningUp(r) /\ op' = op /\ quarantined' = quarantined
    BY <1>1 DEF AddMessage, Undisturbed
  <2>2. \A s \in Rooms \ {r} : log'[s] = log[s]
    BY <1>1, <1>l DEF AddMessage
  <2> QED BY <1>a, <1>o, <2>1, <2>2, NoMessageStep, ReinjectStep
<1>2. ASSUME NEW r \in Rooms, NEW minId, NEW t \in TaskIds, NEW cutoff,
             TrimMessages(r, minId, cutoff, t)
      PROVE  NoMessageCleaned' /\ ReinjectsWhatIsKept'
  <2>1. op' = op /\ quarantined' = quarantined /\ SetLog(r, Kept(r, cutoff), lastId)
    BY <1>2 DEF TrimMessages
  <2>2. \A s \in Rooms : log'[s] \subseteq log[s]
    BY <2>1, <1>l DEF Kept
  <2> QED BY <1>a, <1>o, <2>1, <2>2, NoMessageStep, ReinjectStep
<1>3. ASSUME UNCHANGED <<log, quarantined, op>>
      PROVE  NoMessageCleaned' /\ ReinjectsWhatIsKept'
  BY <1>3, <1>a, <1>o, NoMessageStep, ReinjectStep
<1>4. ASSUME NEW r \in Rooms, ClearMessages(r)
      PROVE  NoMessageCleaned' /\ ReinjectsWhatIsKept'
  <2>1. op' = op /\ quarantined' = quarantined /\ SetLog(r, {}, lastId)
    BY <1>4 DEF ClearMessages
  <2>2. \A s \in Rooms : log'[s] \subseteq log[s]
    BY <2>1, <1>l
  <2> QED BY <1>a, <1>o, <2>1, <2>2, NoMessageStep, ReinjectStep
<1>5. ASSUME NEW o \in Operators, NEW r \in Rooms, Quarantine(o, r)
      PROVE  NoMessageCleaned' /\ ReinjectsWhatIsKept'
  <2>1. SetLog(r, {Fresh("nop")}, lastId + 1) /\ op' = op
    BY <1>5 DEF Quarantine, LiveAfterRename
  <2>2. \A s \in Rooms : log'[s] = IF s = r THEN {Fresh("nop")} ELSE log[s]
    BY <2>1, <1>l
  <2>3. NoMessageCleaned'
    BY <1>a, <1>n, <1>o, <2>1, <2>2, NoMessageStep
  <2>4. PICK q \in Qids : /\ \A p \in Operators : q \notin op[p].qids
                          /\ quarantined' = [quarantined EXCEPT ![q] =
                                               [room |-> r, entries |-> log[r]]]
    BY <1>5 DEF Quarantine, QidIsFresh
  <2>5. \A k \in Qids \ {q} : quarantined'[k] = quarantined[k]
    BY <2>4 DEF TypeOK
  <2> QED BY <1>a, <2>1, <2>3, <2>4, <2>5, ReinjectStep
<1>6. ASSUME NEW o \in Operators, NEW r \in Rooms, QuarantineMissing(o, r)
      PROVE  NoMessageCleaned' /\ ReinjectsWhatIsKept'
  <2>1. SetLog(r, {Fresh("nop")}, lastId + 1) /\ quarantined' = quarantined
        /\ op' = [op EXCEPT ![o] = Busy("cleanup", r, {}, {})]
    BY <1>6 DEF QuarantineMissing
  <2>2. \A s \in Rooms : log'[s] = IF s = r THEN {Fresh("nop")} ELSE log[s]
    BY <2>1, <1>l
  <2>3. \A p \in Operators : op'[p] = IF p = o THEN Busy("cleanup", r, {}, {}) ELSE op[p]
    BY <2>1, <1>p
  <2>4. \A s \in Rooms \ {r} : CleaningUp(s)' => CleaningUp(s)
    BY <2>3 DEF CleaningUp, Busy
  <2>5. NoMessageCleaned'
    BY <1>a, <1>n, <2>2, <2>4, NoMessageStep
  <2>6. \A p \in Operators : op'[p] = op[p] \/ op'[p].pc # "reinject"
    BY <2>3 DEF Busy
  <2> QED BY <1>a, <2>1, <2>5, <2>6, ReinjectStep
<1>7. ASSUME NEW o \in Operators, NEW r \in Rooms, ListQuarantines(o, r)
      PROVE  NoMessageCleaned' /\ ReinjectsWhatIsKept'
  <2> DEFINE v == Busy("drop", r, {q \in Qids : quarantined[q].room = r}, {})
  <2>1. op' = [op EXCEPT ![o] = v] /\ log' = log /\ quarantined' = quarantined
    BY <1>7 DEF ListQuarantines, streamVars
  <2>2. v.pc # "cleanup" /\ v.pc # "reinject"
    BY DEF Busy
  <2> HIDE DEF v
  <2>3. NoMessageCleaned'
    BY <1>a, <1>c, <2>1, <2>2, NoMessageStep
  <2>4. \A p \in Operators : op'[p] = op[p] \/ op'[p].pc # "reinject"
    BY <1>p, <2>1, <2>2
  <2> QED BY <1>a, <2>1, <2>3, <2>4, ReinjectStep
<1>8. ASSUME NEW o \in Operators, NEW q \in Qids, UnquarantineRead(o, q)
      PROVE  NoMessageCleaned' /\ ReinjectsWhatIsKept'
  <2> DEFINE v == Busy("reinject", quarantined[q].room, {q}, quarantined[q].entries)
  <2>1. op' = [op EXCEPT ![o] = v] /\ log' = log /\ quarantined' = quarantined
    BY <1>8 DEF UnquarantineRead, streamVars
  <2>2. /\ v.pc = "reinject" /\ v.qids = {q}
        /\ quarantined[q] = [room |-> v.room, entries |-> v.entries]
    BY DEF Busy, TypeOK
  <2> HIDE DEF v
  <2>3. NoMessageCleaned'
    BY <1>a, <1>c, <2>1, <2>2, NoMessageStep
  <2>4. \A p \in Operators : op'[p] = IF p = o THEN v ELSE op[p]
    BY <2>1, <1>p
  <2>5. ASSUME NEW p \in Operators, op'[p].pc = "reinject"
        PROVE  \E k \in Qids :
                 /\ op'[p].qids = {k}
                 /\ \/ quarantined[k] = NoKey
                    \/ quarantined[k] = [room |-> op'[p].room, entries |-> op'[p].entries]
    <3>1. CASE p = o
      BY <2>2, <2>4, <3>1
    <3>2. CASE p # o
      BY <1>a, <2>4, <2>5, <3>2 DEF ReinjectsWhatIsKept
    <3> QED BY <3>1, <3>2
  <2> QED BY <2>1, <2>3, <2>5 DEF ReinjectsWhatIsKept, NoKey
<1>i. Idle.pc = "idle"
  BY DEF Idle, Busy
<1>9. ASSUME NEW o \in Operators, QuarantineCleanup(o)
      PROVE  NoMessageCleaned' /\ ReinjectsWhatIsKept'
  <2>1. SetLog(op[o].room, {}, lastId) /\ op' = [op EXCEPT ![o] = Idle]
        /\ quarantined' = quarantined /\ op[o].room \in Rooms
    BY <1>9 DEF QuarantineCleanup, WellFormed
  <2>2. \A s \in Rooms : log'[s] \subseteq log[s]
    BY <2>1, <1>l
  <2>3. \A s \in Rooms : CleaningUp(s)' => CleaningUp(s)
    BY <1>c, <1>i, <2>1
  <2>4. \A p \in Operators : op'[p] = op[p] \/ op'[p].pc # "reinject"
    BY <1>i, <1>p, <2>1
  <2>5. NoMessageCleaned'
    BY <1>a, <2>2, <2>3, NoMessageStep
  <2> QED BY <1>a, <2>1, <2>4, <2>5, ReinjectStep
<1>d. ASSUME NEW o \in Operators,
             quarantined' = [q \in Qids |-> IF q \in op[o].qids THEN NoKey ELSE quarantined[q]]
      PROVE  \A q \in Qids : quarantined'[q] = quarantined[q] \/ quarantined'[q] = NoKey
  BY <1>d
<1>10. ASSUME NEW o \in Operators, UnquarantineWrite(o)
       PROVE  NoMessageCleaned' /\ ReinjectsWhatIsKept'
  <2> DEFINE r == op[o].room
             es == Replayable(op[o].entries)
  <2>1. r \in Rooms /\ ~CleaningUp(r)
    BY <1>10 DEF UnquarantineWrite, WellFormed, Undisturbed
  <2>2. SetLog(r, log[r] \union Rewritten(es), lastId + Cardinality(es))
        /\ op' = [op EXCEPT ![o] = Idle]
        /\ quarantined' = [q \in Qids |-> IF q \in op[o].qids THEN NoKey ELSE quarantined[q]]
    BY <1>10 DEF UnquarantineWrite
  <2> HIDE DEF r, es
  <2>3. \A s \in Rooms \ {r} : log'[s] = log[s]
    BY <1>l, <2>1, <2>2
  <2>4. \A s \in Rooms : CleaningUp(s)' => CleaningUp(s)
    BY <1>c, <1>i, <2>2
  <2>5. NoMessageCleaned'
    BY <1>a, <2>1, <2>3, <2>4, NoMessageStep
  <2>6. \A p \in Operators : op'[p] = op[p] \/ op'[p].pc # "reinject"
    BY <1>i, <1>p, <2>2
  <2> QED BY <1>a, <1>d, <2>2, <2>5, <2>6, ReinjectStep
<1>11. ASSUME NEW o \in Operators, DropQuarantines(o)
       PROVE  NoMessageCleaned' /\ ReinjectsWhatIsKept'
  <2>1. op' = [op EXCEPT ![o] = Idle] /\ log' = log
        /\ quarantined' = [q \in Qids |-> IF q \in op[o].qids THEN NoKey ELSE quarantined[q]]
    BY <1>11 DEF DropQuarantines, streamVars
  <2>2. \A p \in Operators : op'[p] = op[p] \/ op'[p].pc # "reinject"
    BY <1>i, <1>p, <2>1
  <2>3. NoMessageCleaned'
    BY <1>a, <1>c, <1>i, <2>1, NoMessageStep
  <2> QED BY <1>a, <1>d, <2>1, <2>2, <2>3, ReinjectStep
<1>12. ASSUME NEW o \in Operators, OperatorCrash(o)
       PROVE  NoMessageCleaned' /\ ReinjectsWhatIsKept'
  <2>1. op' = [op EXCEPT ![o] = Idle] /\ log' = log /\ quarantined' = quarantined
    BY <1>12 DEF OperatorCrash, streamVars
  <2>2. \A p \in Operators : op'[p] = op[p] \/ op'[p].pc # "reinject"
    BY <1>i, <1>p, <2>1
  <2>3. NoMessageCleaned'
    BY <1>a, <1>c, <1>i, <2>1, NoMessageStep
  <2> QED BY <1>a, <2>1, <2>2, <2>3, ReinjectStep
<1>13. ASSUME NEW r \in Rooms, DisableCompaction(r) \/ EnableCompaction(r)
       PROVE  NoMessageCleaned' /\ ReinjectsWhatIsKept'
  BY <1>3, <1>13 DEF DisableCompaction, EnableCompaction
<1>14. ASSUME NEW r \in Rooms, NEW t \in TaskIds, TrimAborts(r, t)
       PROVE  NoMessageCleaned' /\ ReinjectsWhatIsKept'
  BY <1>3, <1>14 DEF TrimAborts
<1>15. CASE UNCHANGED vars
  BY <1>3, <1>15 DEF vars
<1> QED BY <1>1, <1>2, <1>4, <1>5, <1>6, <1>7, <1>8, <1>9, <1>10, <1>11, <1>12,
           <1>13, <1>14, <1>15 DEF Next, Stream, Operate

(* Nobody reinjects or cleans up in the initial state. *)
LEMMA MessageInit == Init => MessageInv
<1> SUFFICES ASSUME Init PROVE NoMessageCleaned /\ ReinjectsWhatIsKept
  BY DEF MessageInv
<1>1. \A o \in Operators : op[o].pc = "idle"
  BY DEF Init, Idle, Busy
<1> QED BY <1>1 DEF NoMessageCleaned, ReinjectsWhatIsKept, CleaningUp

(* Every step keeps the messages it may not drop. *)
THEOREM KeepsMessagesStep ==
  CleanupExclusive /\ TypeInv /\ MessageInv /\ [Next]_vars
    => [\A r \in Rooms : KeepsMessages(r)]_vars
<1> SUFFICES ASSUME CleanupExclusive, TypeOK, WellFormed, MessageInv, Next, NEW s \in Rooms
             PROVE  KeepsMessages(s)
  BY DEF TypeInv
<1>a. NoMessageCleaned /\ ReinjectsWhatIsKept
  BY DEF MessageInv
<1>l. ASSUME NEW r \in Rooms, NEW es, NEW n, SetLog(r, es, n)
      PROVE  \A p \in Rooms : log'[p] = IF p = r THEN es ELSE log[p]
  BY <1>l DEF TypeOK, SetLog
<1>s. ASSUME log[s] \subseteq log'[s] PROVE Stay(s, log[s])
  BY <1>s, StoredByNext DEF Stay
<1>q. ASSUME quarantined' = quarantined, Stay(s, log[s]) PROVE KeepsMessages(s)
  BY <1>q, StoredStays DEF KeepsMessages
<1>1. ASSUME NEW r \in Rooms, NEW kind \in {"m", "auth"}, AddMessage(r, kind)
      PROVE  KeepsMessages(s)
  BY <1>1, <1>l, <1>q, <1>s DEF AddMessage
<1>2. ASSUME NEW r \in Rooms, NEW minId, NEW t \in TaskIds, NEW cutoff,
             TrimMessages(r, minId, cutoff, t)
      PROVE  KeepsMessages(s)
  <2>1. SetLog(r, Kept(r, cutoff), lastId) /\ quarantined' = quarantined
        /\ pending[t] = r /\ Successor(r, t, Kept(r, cutoff))
    BY <1>2 DEF TrimMessages
  <2>2. pending'[t] # r
    BY <2>1, NoneAssumption DEF Successor, Enqueue, TypeOK
  <2>3. \A p \in Rooms : log'[p] = IF p = r THEN Kept(r, cutoff) ELSE log[p]
    BY <2>1, <1>l
  <2>4. CASE s = r
    <3>1. log'[s] \subseteq log[s]
      BY <2>3, <2>4 DEF Kept
    <3> QED BY <2>1, <2>2, <2>4, <3>1 DEF KeepsMessages
  <2>5. CASE s # r
    BY <1>q, <1>s, <2>1, <2>3, <2>5
  <2> QED BY <2>4, <2>5
<1>3. ASSUME UNCHANGED <<log, quarantined>>
      PROVE  KeepsMessages(s)
  BY <1>3, <1>q, <1>s
<1>4. ASSUME NEW r \in Rooms, ClearMessages(r)
      PROVE  KeepsMessages(s)
  <2>1. SetLog(r, {}, lastId) /\ live' = live /\ quarantined' = quarantined
    BY <1>4 DEF ClearMessages
  <2>2. \A p \in Rooms : log'[p] = IF p = r THEN {} ELSE log[p]
    BY <2>1, <1>l
  <2>3. CASE s = r /\ s \in live
    BY <2>1, <2>2, <2>3 DEF KeepsMessages
  <2>4. CASE s # r \/ s \notin live
    <3>1. log[s] \subseteq log'[s]
      BY <2>2, <2>4 DEF TypeOK
    <3> QED BY <1>q, <1>s, <2>1, <3>1
  <2> QED BY <2>3, <2>4
<1>5. ASSUME NEW o \in Operators, NEW r \in Rooms, Quarantine(o, r)
      PROVE  KeepsMessages(s)
  <2>1. SetLog(r, {Fresh("nop")}, lastId + 1)
    BY <1>5 DEF Quarantine, LiveAfterRename
  <2>2. \A p \in Rooms : log'[p] = IF p = r THEN {Fresh("nop")} ELSE log[p]
    BY <2>1, <1>l
  <2>3. PICK q \in Qids : /\ quarantined[q] = NoKey
                          /\ quarantined' = [quarantined EXCEPT ![q] =
                                               [room |-> r, entries |-> log[r]]]
    BY <1>5 DEF Quarantine, QidIsFresh
  <2>4. quarantined'[q] = [room |-> r, entries |-> log[r]]
        /\ \A k \in Qids \ {q} : quarantined'[k] = quarantined[k]
    BY <2>3 DEF TypeOK
  <2>5. Stay(s, log[s])
    <3>1. CASE s = r
      BY <2>4, <3>1, StoredByNext DEF Stay
    <3>2. CASE s # r
      BY <1>s, <2>2, <3>2
    <3> QED BY <3>1, <3>2
  <2>6. \A k \in Qids : quarantined[k].room = s => quarantined'[k] = quarantined[k]
    BY <2>3, <2>4, NoneAssumption DEF NoKey
  <2> QED BY <2>5, <2>6, StoredStays DEF KeepsMessages
<1>6. ASSUME NEW o \in Operators, NEW r \in Rooms, QuarantineMissing(o, r)
      PROVE  KeepsMessages(s)
  <2>1. SetLog(r, {Fresh("nop")}, lastId + 1) /\ quarantined' = quarantined /\ r \notin live
    BY <1>6 DEF QuarantineMissing
  <2>2. log[s] \subseteq log'[s]
    BY <2>1, <1>l DEF TypeOK
  <2> QED BY <1>q, <1>s, <2>1, <2>2
<1>7. ASSUME NEW o \in Operators, QuarantineCleanup(o)
      PROVE  KeepsMessages(s)
  <2>1. SetLog(op[o].room, {}, lastId) /\ quarantined' = quarantined
        /\ op[o].room \in Rooms /\ CleaningUp(op[o].room)
    BY <1>7 DEF QuarantineCleanup, WellFormed, CleaningUp
  <2>2. \A p \in Rooms : log'[p] = IF p = op[o].room THEN {} ELSE log[p]
    BY <2>1, <1>l
  <2>3. Stay(s, log[s])
    <3>1. CASE s = op[o].room
      BY <1>a, <2>1, <3>1 DEF NoMessageCleaned, Stay
    <3>2. CASE s # op[o].room
      BY <1>s, <2>2, <3>2
    <3> QED BY <3>1, <3>2
  <2> QED BY <1>q, <2>1, <2>3
<1>8. ASSUME NEW o \in Operators, UnquarantineWrite(o)
      PROVE  KeepsMessages(s)
  <2> DEFINE r == op[o].room
             es == Replayable(op[o].entries)
  <2>1. r \in Rooms /\ op[o].pc = "reinject"
    BY <1>8 DEF UnquarantineWrite, WellFormed
  <2>2. SetLog(r, log[r] \union Rewritten(es), lastId + Cardinality(es))
        /\ quarantined' = [q \in Qids |-> IF q \in op[o].qids THEN NoKey ELSE quarantined[q]]
    BY <1>8 DEF UnquarantineWrite
  <2>3. \A p \in Rooms : log'[p] = IF p = r THEN log[r] \union Rewritten(es) ELSE log[p]
    BY <1>l, <2>1, <2>2
  <2>4. Stay(s, log[s])
    BY <1>s, <2>3
  <2>5. PICK q \in Qids :
          /\ op[o].qids = {q}
          /\ \/ quarantined[q] = NoKey
             \/ quarantined[q] = [room |-> r, entries |-> op[o].entries]
    BY <1>a, <2>1 DEF ReinjectsWhatIsKept
  <2>6. \A k \in Qids \ {q} : quarantined'[k] = quarantined[k]
    BY <2>2, <2>5
  <2>7. ASSUME quarantined[q].room = s
        PROVE  Stay(s, quarantined[q].entries)
    <3>1. quarantined[q] = [room |-> r, entries |-> op[o].entries] /\ s = r
      BY <2>5, <2>7, NoneAssumption DEF NoKey
    <3>2. ASSUME NEW e \in op[o].entries, e.kind = "m"
          PROVE  e.origin \in Stored(s)'
      <4> DEFINE f == [id |-> lastId + Cardinality({g \in es : g.id <= e.id}),
                       origin |-> e.origin, kind |-> e.kind]
      <4>1. e \in es
        BY <3>2 DEF Replayable
      <4>2. f \in Rewritten(es)
        BY <4>1 DEF Rewritten
      <4>3. f \in log'[s] /\ f.kind = "m" /\ f.origin = e.origin
        BY <2>1, <2>3, <3>1, <3>2, <4>2
      <4> HIDE DEF f
      <4> QED BY <4>3, StoredByNext
    <3> QED BY <3>1, <3>2 DEF Stay
  <2> QED BY <2>4, <2>6, <2>7, StoredStays DEF KeepsMessages
<1>9. ASSUME NEW o \in Operators, DropQuarantines(o)
      PROVE  KeepsMessages(s)
  BY <1>9 DEF DropQuarantines, KeepsMessages, TypeOK
<1> QED BY <1>1, <1>2, <1>3, <1>4, <1>5, <1>6, <1>7, <1>8, <1>9
        DEF Next, Stream, Operate, DisableCompaction, EnableCompaction, ListQuarantines,
            UnquarantineRead, OperatorCrash, TrimAborts, streamVars

(* No message is lost between the stream and its quarantine keys. *)
THEOREM MessagesAreKept ==
  ASSUME CleanupExclusive PROVE Spec => MessagesSurvive
<1>1. Init => TypeInv /\ MessageInv
  BY TypeInit, MessageInit
<1>2. TypeInv /\ MessageInv /\ [Next]_vars => (TypeInv /\ MessageInv)'
  BY TypeStep, MessageStep
<1>3. TypeInv /\ MessageInv /\ [Next]_vars => [\A r \in Rooms : KeepsMessages(r)]_vars
  BY KeepsMessagesStep
<1> QED BY <1>1, <1>2, <1>3, PTL DEF Spec, MessagesSurvive

(* What a step adds to a stream under the kind of a re-check is new. *)
THEOREM ReplaysNoAuthCheckStep ==
  TypeInv /\ [Next]_vars => [\A r \in Rooms : ReplaysNoAuthCheck(r)]_vars
<1> SUFFICES ASSUME TypeOK, WellFormed, Next, NEW s \in Rooms
             PROVE  ReplaysNoAuthCheck(s)
  BY DEF TypeInv
<1>l. ASSUME NEW r \in Rooms, NEW es, NEW n, SetLog(r, es, n),
             \A e \in es \ log[r] : e.kind = "auth" => e.origin = e.id
      PROVE  ReplaysNoAuthCheck(s)
  BY <1>l DEF TypeOK, SetLog, ReplaysNoAuthCheck
<1>f. \A kind \in Kinds : Fresh(kind).origin = Fresh(kind).id
  BY DEF Fresh
<1>1. ASSUME NEW r \in Rooms, NEW kind \in {"m", "auth"}, AddMessage(r, kind)
      PROVE  ReplaysNoAuthCheck(s)
  BY <1>1, <1>f, <1>l DEF AddMessage, Kinds
<1>2. ASSUME NEW r \in Rooms, NEW minId, NEW t \in TaskIds, NEW cutoff,
             TrimMessages(r, minId, cutoff, t)
      PROVE  ReplaysNoAuthCheck(s)
  BY <1>2, <1>l DEF TrimMessages, Kept
<1>3. ASSUME UNCHANGED log PROVE ReplaysNoAuthCheck(s)
  BY <1>3 DEF ReplaysNoAuthCheck
<1>4. ASSUME NEW r \in Rooms, ClearMessages(r)
      PROVE  ReplaysNoAuthCheck(s)
  BY <1>4, <1>l DEF ClearMessages
<1>5. ASSUME NEW o \in Operators, NEW r \in Rooms,
             Quarantine(o, r) \/ QuarantineMissing(o, r)
      PROVE  ReplaysNoAuthCheck(s)
  BY <1>5, <1>f, <1>l DEF Quarantine, QuarantineMissing, LiveAfterRename, Kinds
<1>6. ASSUME NEW o \in Operators, QuarantineCleanup(o)
      PROVE  ReplaysNoAuthCheck(s)
  BY <1>6, <1>l DEF QuarantineCleanup, WellFormed
<1>7. ASSUME NEW o \in Operators, UnquarantineWrite(o)
      PROVE  ReplaysNoAuthCheck(s)
  <2> DEFINE r == op[o].room
             es == Replayable(op[o].entries)
  <2>1. r \in Rooms /\ SetLog(r, log[r] \union Rewritten(es), lastId + Cardinality(es))
    BY <1>7 DEF UnquarantineWrite, WellFormed
  <2>2. \A e \in es : e.kind = "m"
    BY DEF Replayable
  <2> HIDE DEF es
  <2>3. \A e \in Rewritten(es) : e.kind = "m"
    <3> TAKE e \in Rewritten(es)
    <3>1. PICK f \in es : e = [id |-> lastId + Cardinality({g \in es : g.id <= f.id}),
                               origin |-> f.origin, kind |-> f.kind]
      BY DEF Rewritten
    <3>2. e.kind = f.kind
      BY ONLY <3>1
    <3> QED BY <2>2, <3>2
  <2> QED BY <1>l, <2>1, <2>3
<1> QED BY <1>1, <1>2, <1>3, <1>4, <1>5, <1>6, <1>7
        DEF Next, Stream, Operate, DisableCompaction, EnableCompaction, ListQuarantines,
            UnquarantineRead, DropQuarantines, OperatorCrash, TrimAborts, streamVars

(* A quarantined permission re-check is never written again. *)
THEOREM AuthChecksStayQuarantined == Spec => AuthChecksNotReplayed
<1> QED BY TypeInit, TypeStep, ReplaysNoAuthCheckStep, PTL DEF Spec, AuthChecksNotReplayed
=============================================================================
