-------------------------- MODULE WorkerLeaseProofs --------------------------
(***************************************************************************)
(* Proofs about WorkerLease, for any number of processes and tasks, and    *)
(* any intervals that leave a renewal enough time (LeaseAssumption).       *)
(*                                                                         *)
(* That no task is computed twice follows from how old a lease can be: no  *)
(* older than the time since the last turn of the renewal loop plus the    *)
(* time the claim took to be answered (Leases).  The claim that is not     *)
(* answered yet counts as holding what redis has given away (Holds).       *)
(***************************************************************************)
EXTENDS WorkerLease, FiniteSetTheorems, WellFoundedInduction, TLAPS

WorkerStates ==
  [alive : BOOLEAN, renews : BOOLEAN, timer : Nat, claiming : BOOLEAN,
   reply : SUBSET Tasks, waited : Nat]

RunStates ==
  [worker : Workers, task : Tasks, n : 1 .. MaxRuns, age : 0 .. MaxDuration + 1,
   wedged : BOOLEAN, abandoned : BOOLEAN]

Types ==
  /\ pending \subseteq 1 .. (next - 1) /\ next \in 1 .. MaxTasks + 1
  /\ idle \in [Tasks -> 0 .. Debounce]
  /\ worker \in [Workers -> WorkerStates]
  /\ inflight = [w \in Workers |-> inflight[w]]
  /\ \A w \in Workers : inflight[w] \in [DOMAIN inflight[w] -> 1 .. MaxRuns]
  /\ runs \subseteq RunStates
  /\ late \in BOOLEAN /\ faults \in 0 .. MaxFaults

(* The tasks of w exist, and are no more than it may have at a time.       *)
Bounded(w) ==
  /\ Holds(w) \subseteq 1 .. (next - 1)
  /\ Cardinality(DOMAIN inflight[w]) + Cardinality(worker[w].reply) <= Concurrency[w]
  /\ worker[w].reply # {} => worker[w].claiming
  /\ worker[w].alive => worker[w].renews

SameRun(r, s) == r.worker = s.worker /\ r.task = s.task /\ r.n = s.n

(* inflight names exactly the runs that are not abandoned.                 *)
Named ==
  /\ \A r, s \in runs : SameRun(r, s) => r = s
  /\ \A r \in runs : ~r.abandoned <=> Held(r.worker, r)
  /\ \A w \in Workers : \A t \in DOMAIN inflight[w] :
       \E r \in runs : r.worker = w /\ r.task = t /\ r.n = inflight[w][t]

(* How old the leases of w are.                                            *)
Leases(w) ==
  /\ worker[w].renews => worker[w].timer <= RenewEvery
  /\ worker[w].claiming => worker[w].waited <= ReplyWithin
  /\ \A t \in worker[w].reply \intersect pending : idle[t] <= worker[w].waited
  /\ worker[w].alive =>
       \A t \in DOMAIN inflight[w] \intersect pending : idle[t] <= worker[w].timer + ReplyWithin

Disjoint == \A v, w \in Workers :
  worker[v].alive /\ worker[w].alive /\ Holds(v) \intersect Holds(w) # {} => v = w

InTime == ~late => Disjoint /\ \A w \in Workers : Leases(w)

IInv == Types /\ (\A w \in Workers : Bounded(w)) /\ Named /\ InTime

-----------------------------------------------------------------------------
(* Numbers and finite sets. *)

(* A set of natural numbers that is not empty has a least element. *)
LEMMA LeastElement ==
  ASSUME NEW S \in SUBSET Nat, S # {}
  PROVE  Min(S) \in S /\ \A y \in S : Min(S) <= y
<1>1. \E x \in S : \A y \in S : ~(<<y, x>> \in OpToRel(<, Nat))
  BY NatLessThanWellFounded, WFMin
<1>2. PICK x \in S : \A y \in S : ~(<<y, x>> \in OpToRel(<, Nat))
  BY <1>1
<1>3. ASSUME NEW y \in S PROVE x <= y
  <2>1. ASSUME y < x PROVE FALSE
    <3>1. OpToRel(<, Nat) = {ss \in Nat \X Nat : ss[1] < ss[2]}
      BY Zenon DEF OpToRel
    <3>2. <<y, x>> \in {ss \in Nat \X Nat : ss[1] < ss[2]}
      BY <2>1
    <3> QED BY <1>2, <3>1, <3>2
  <2> QED BY <2>1
<1> QED BY <1>3 DEF Min

(* The first n of a set are no more than n. *)
LEMMA FirstAreFew ==
  ASSUME NEW S \in SUBSET Nat, IsFiniteSet(S), NEW n \in Nat
  PROVE  First(n, S) \subseteq S /\ IsFiniteSet(First(n, S)) /\ Cardinality(First(n, S)) <= n
<1> DEFINE F == First(n, S)
<1> DEFINE below(t) == {u \in S : u < t}
<1> DEFINE f == [t \in F |-> Cardinality(below(t))]
<1>1. F \subseteq S /\ IsFiniteSet(F)
  BY FS_Subset DEF First
<1>2. ASSUME NEW t \in F PROVE Cardinality(below(t)) \in 0 .. (n - 1)
  <2>1. IsFiniteSet(below(t))
    BY FS_Subset
  <2>2. Cardinality(below(t)) \in Nat /\ Cardinality(below(t)) < n
    BY <2>1, FS_CardinalityType DEF First
  <2> QED BY <2>2
<1>3. ASSUME NEW t \in F, NEW u \in F, t < u PROVE f[t] # f[u]
  <2>0. t \in S /\ u \in S /\ t \in Nat /\ u \in Nat
    BY <1>1
  <2>1. below(t) \subseteq below(u) /\ t \in below(u) /\ t \notin below(t)
    <3>1. ASSUME NEW y \in S, y < t PROVE y < u
      <4>1. y \in Nat
        OBVIOUS
      <4> QED BY <1>3, <2>0, <3>1, <4>1
    <3>2. below(t) \subseteq below(u)
      BY <3>1
    <3>3. t \in below(u)
      BY <1>3, <2>0
    <3>4. ~(t < t)
      BY <2>0
    <3>5. t \notin below(t)
      BY <3>4
    <3> QED BY <3>2, <3>3, <3>5
  <2>2. IsFiniteSet(below(u))
    BY FS_Subset
  <2>3. Cardinality(below(t)) # Cardinality(below(u))
    BY <2>1, <2>2, FS_Subset
  <2> QED BY <2>3
<1>4. IsFiniteSet(0 .. (n - 1)) /\ Cardinality(0 .. (n - 1)) = n
  BY FS_Interval
<1>5. f \in [F -> 0 .. (n - 1)]
  BY <1>2
<1>6. Cardinality(F) \in Nat
  BY <1>1, FS_CardinalityType
<1>7. ASSUME n < Cardinality(F) PROVE FALSE
  <2> HIDE DEF f, F
  <2>1. \E t, u \in F : t # u /\ f[t] = f[u]
    BY <1>1, <1>4, <1>5, <1>7, FS_PigeonHole
  <2>2. PICK t \in F, u \in F : t # u /\ f[t] = f[u]
    BY <2>1
  <2>3. t \in Nat /\ u \in Nat
    BY <1>1
  <2>4. t < u \/ u < t
    BY <2>2, <2>3
  <2> QED BY <1>3, <2>2, <2>4
<1> QED BY <1>1, <1>6, <1>7

(* The constants are numbers.                                              *)
LEMMA Constants ==
  /\ MaxTasks \in Nat \ {0} /\ ScanFactor \in Nat \ {0} /\ Debounce \in Nat \ {0}
  /\ RenewEvery \in Nat \ {0} /\ MaxDuration \in Nat \ {0} /\ MaxRuns \in Nat \ {0}
  /\ ReplyWithin \in Nat /\ MaxFaults \in Nat
  /\ Concurrency \in [Workers -> Nat \ {0}]
  /\ ReplyWithin + RenewEvery < Debounce
BY LeaseAssumption

(* Tasks are numbers, and there are finitely many.                         *)
LEMMA TaskSets ==
  ASSUME NEW S \in SUBSET Tasks
  PROVE  S \in SUBSET Nat /\ IsFiniteSet(S) /\ Cardinality(S) \in Nat
<1>1. IsFiniteSet(Tasks) /\ Tasks \subseteq Nat
  BY Constants, FS_Interval DEF Tasks
<1>2. IsFiniteSet(S)
  BY <1>1, FS_Subset
<1> QED BY <1>1, <1>2, FS_CardinalityType

-----------------------------------------------------------------------------
(* What a process holds. *)

(* What a process holds are tasks, finitely many.                          *)
LEMMA HeldTasks ==
  ASSUME IInv, NEW w \in Workers
  PROVE  /\ DOMAIN inflight[w] \in SUBSET Tasks /\ IsFiniteSet(DOMAIN inflight[w])
         /\ worker[w].reply \in SUBSET Tasks /\ IsFiniteSet(worker[w].reply)
         /\ Cardinality(DOMAIN inflight[w]) \in Nat /\ Cardinality(worker[w].reply) \in Nat
         /\ pending \in SUBSET Tasks
<1>1. next \in 1 .. MaxTasks + 1 /\ pending \subseteq 1 .. (next - 1)
  BY DEF IInv, Types
<1>2. 1 .. (next - 1) \subseteq Tasks
  BY <1>1, Constants DEF Tasks
<1>3. Holds(w) \subseteq Tasks
  BY <1>2 DEF IInv, Bounded
<1>4. DOMAIN inflight[w] \in SUBSET Tasks /\ worker[w].reply \in SUBSET Tasks
  BY <1>3 DEF Holds
<1> QED BY <1>1, <1>2, <1>4, TaskSets

(* Tasks are never taken back.                                             *)
LEMMA IntervalGrows ==
  ASSUME NEW m \in Nat, NEW n \in Nat, m <= n
  PROVE  1 .. (m - 1) \subseteq 1 .. (n - 1)
OBVIOUS

(* Whoever holds no more than before is within its bounds.                 *)
LEMMA Shrinking ==
  ASSUME IInv, next' \in Nat, next <= next', NEW w \in Workers,
         DOMAIN inflight'[w] \subseteq DOMAIN inflight[w],
         worker'[w].reply \subseteq worker[w].reply,
         worker'[w].reply # {} => worker'[w].claiming,
         worker'[w].alive => worker'[w].renews
  PROVE  Bounded(w)'
<1>1. Bounded(w) /\ next \in Nat
  BY Constants DEF IInv, Types
<1>2. (Holds(w))' \subseteq Holds(w)
  BY DEF Holds
<1>3. (Holds(w))' \subseteq 1 .. (next' - 1)
  <2>0. next \in Nat /\ next' \in Nat /\ next <= next'
    BY <1>1
  <2>1. 1 .. (next - 1) \subseteq 1 .. (next' - 1)
    BY <2>0, IntervalGrows
  <2> QED BY <1>1, <1>2, <2>1 DEF Bounded
<1>4. /\ Cardinality(DOMAIN inflight'[w]) \in Nat
      /\ Cardinality(worker'[w].reply) \in Nat
      /\ Cardinality(DOMAIN inflight'[w]) <= Cardinality(DOMAIN inflight[w])
      /\ Cardinality(worker'[w].reply) <= Cardinality(worker[w].reply)
  <2>1. DOMAIN inflight'[w] \in SUBSET Tasks /\ worker'[w].reply \in SUBSET Tasks
    BY HeldTasks
  <2>2. Cardinality(DOMAIN inflight'[w]) \in Nat /\ Cardinality(worker'[w].reply) \in Nat
    BY <2>1, TaskSets
  <2>3. Cardinality(DOMAIN inflight'[w]) <= Cardinality(DOMAIN inflight[w])
    BY HeldTasks, FS_Subset
  <2>4. Cardinality(worker'[w].reply) <= Cardinality(worker[w].reply)
    BY HeldTasks, FS_Subset
  <2> QED BY <2>2, <2>3, <2>4
<1>5. Concurrency[w] \in Nat
  BY Constants
<1>6. Cardinality(DOMAIN inflight[w]) + Cardinality(worker[w].reply) <= Concurrency[w]
  BY <1>1 DEF Bounded
<1>7. Cardinality(DOMAIN inflight'[w]) + Cardinality(worker'[w].reply) <= Concurrency[w]
  BY <1>4, <1>5, <1>6, HeldTasks
<1> QED BY <1>3, <1>7 DEF Bounded

(* If nobody alive holds more than before, no two hold the same.           *)
LEMMA StillDisjoint ==
  ASSUME Disjoint,
         \A w \in Workers :
           (worker'[w].alive => worker[w].alive /\ (Holds(w))' \subseteq Holds(w))
           \/ (Holds(w))' = {}
  PROVE  Disjoint'
BY DEF Disjoint

(* A task in the hands of a live worker whose loops are in time is younger *)
(* than a claim would want it.                                             *)
LEMMA HeldIsFresh ==
  ASSUME IInv, ~late, NEW w \in Workers, worker[w].alive,
         NEW t \in Holds(w) \intersect pending
  PROVE  ~IsStale(t)
<1>1. Leases(w) /\ Bounded(w) /\ worker[w].renews
  BY DEF IInv, InTime, Bounded
<1>2. t \in Tasks /\ idle[t] \in Nat
  BY HeldTasks DEF IInv, Types
<1>3. worker[w].timer \in Nat /\ worker[w].waited \in Nat
  BY DEF IInv, Types, WorkerStates
<1>4. CASE t \in worker[w].reply
  <2>1. idle[t] <= worker[w].waited /\ worker[w].waited <= ReplyWithin
    BY <1>1, <1>4 DEF Leases, Bounded
  <2> QED BY <1>2, <1>3, <2>1, Constants DEF IsStale
<1>5. CASE t \in DOMAIN inflight[w]
  <2>1. idle[t] <= worker[w].timer + ReplyWithin /\ worker[w].timer <= RenewEvery
    BY <1>1, <1>5 DEF Leases
  <2> QED BY <1>2, <1>3, <2>1, Constants DEF IsStale
<1> QED BY <1>4, <1>5 DEF Holds

(* Steps that leave the loops alone, or end those of a process.            *)
Quiet(w) ==
  \/ worker'[w] = worker[w]
  \/ worker'[w] = Answered(w)
  \/ worker'[w] = [worker[w] EXCEPT !.alive = FALSE]

(* What such a step may do to a process.                                   *)
LEMMA QuietFields ==
  ASSUME IInv, NEW w \in Workers, Quiet(w)
  PROVE  /\ worker'[w].renews = worker[w].renews /\ worker'[w].timer = worker[w].timer
         /\ worker'[w].alive => worker[w].alive
         /\ worker'[w].claiming
              => worker[w].claiming /\ worker'[w].waited = worker[w].waited
         /\ \/ worker'[w].reply = {}
            \/ /\ worker'[w].reply = worker[w].reply
               /\ worker'[w].waited = worker[w].waited
               /\ worker'[w].claiming = worker[w].claiming
<1>1. worker[w] \in WorkerStates
  BY DEF IInv, Types
<1>2. CASE worker'[w] = worker[w]
  BY <1>2
<1>3. CASE worker'[w] = Answered(w)
  <2>1. /\ Answered(w).renews = worker[w].renews /\ Answered(w).timer = worker[w].timer
        /\ Answered(w).alive = worker[w].alive /\ Answered(w).claiming = FALSE
        /\ Answered(w).reply = {}
    BY <1>1 DEF Answered, WorkerStates
  <2> QED BY <1>3, <2>1
<1>4. CASE worker'[w] = [worker[w] EXCEPT !.alive = FALSE]
  BY <1>1, <1>4 DEF WorkerStates
<1> QED BY <1>2, <1>3, <1>4 DEF Quiet

(* It makes no lease older.                                                *)
LEMMA QuietLeases ==
  ASSUME IInv, NEW w \in Workers, Leases(w), Quiet(w),
         DOMAIN inflight'[w] \subseteq DOMAIN inflight[w],
         pending' \intersect Holds(w) \subseteq pending,
         \A t \in Tasks : idle'[t] \in Nat /\ idle'[t] <= idle[t]
  PROVE  Leases(w)'
<1>1. worker[w] \in WorkerStates
  BY DEF IInv, Types
<1>2. /\ worker'[w].renews = worker[w].renews /\ worker'[w].timer = worker[w].timer
      /\ worker'[w].alive => worker[w].alive
      /\ worker'[w].claiming
           => worker[w].claiming /\ worker'[w].waited = worker[w].waited
      /\ \/ worker'[w].reply = {}
         \/ worker'[w].reply = worker[w].reply /\ worker'[w].waited = worker[w].waited
  BY QuietFields
<1>3. worker[w].timer \in Nat /\ worker[w].waited \in Nat /\ ReplyWithin \in Nat
  BY <1>1, Constants DEF WorkerStates
<1>4. \A t \in Tasks : idle[t] \in Nat
  BY DEF IInv, Types
<1>5. ASSUME NEW t \in worker'[w].reply \intersect pending' PROVE idle'[t] <= worker'[w].waited
  <2>1. worker'[w].reply = worker[w].reply /\ worker'[w].waited = worker[w].waited
    BY <1>2, <1>5
  <2>2. t \in worker[w].reply \intersect pending /\ t \in Tasks
    BY <1>5, <2>1, HeldTasks DEF Holds
  <2>3. idle[t] <= worker[w].waited /\ idle'[t] <= idle[t]
    BY <2>2 DEF Leases
  <2> QED BY <1>3, <1>4, <2>1, <2>2, <2>3
<1>6. ASSUME worker'[w].alive, NEW t \in DOMAIN inflight'[w] \intersect pending'
      PROVE  idle'[t] <= worker'[w].timer + ReplyWithin
  <2>1. t \in DOMAIN inflight[w] \intersect pending /\ t \in Tasks /\ worker[w].alive
    BY <1>2, <1>6, HeldTasks DEF Holds
  <2>2. idle[t] <= worker[w].timer + ReplyWithin /\ idle'[t] <= idle[t]
    BY <2>1 DEF Leases
  <2> QED BY <1>2, <1>3, <1>4, <2>1, <2>2
<1>7. worker'[w].renews => worker'[w].timer <= RenewEvery
  BY <1>2 DEF Leases
<1>8. worker'[w].claiming => worker'[w].waited <= ReplyWithin
  BY <1>2 DEF Leases
<1> QED BY <1>5, <1>6, <1>7, <1>8 DEF Leases

-----------------------------------------------------------------------------
(* Runs and the entries that name them. *)

RunTypes ==
  /\ inflight = [w \in Workers |-> inflight[w]]
  /\ \A w \in Workers : inflight[w] \in [DOMAIN inflight[w] -> 1 .. MaxRuns]
  /\ runs \subseteq RunStates

(* A step that starts no run: it may end or abandon some.                  *)
NoneStarts ==
  /\ RunTypes' /\ Named'
  /\ \A w \in Workers : DOMAIN inflight'[w] \subseteq DOMAIN inflight[w]

(* Nothing happens to the runs.                                            *)
LEMMA RunsStay ==
  ASSUME IInv, UNCHANGED <<inflight, runs>>
  PROVE  NoneStarts
<1>1. RunTypes /\ Named
  BY DEF IInv, Types, RunTypes
<1>2. RunTypes'
  BY <1>1 DEF RunTypes
<1>3. Named'
  BY <1>1 DEF Named, Held, SameRun
<1> QED BY <1>2, <1>3 DEF NoneStarts

(* A run ends, and takes its entry with it when it is still its own.       *)
LEMMA RunEnds ==
  ASSUME IInv, NEW r \in runs, EndRun(r)
  PROVE  NoneStarts
<1>1. RunTypes /\ Named /\ r \in RunStates
  BY DEF IInv, Types, RunTypes
<1>2. r.worker \in Workers
  BY <1>1 DEF RunStates
<1>3. runs' = runs \ {r}
  BY DEF EndRun
<1>4. CASE ~Held(r.worker, r)
  <2>1. inflight' = inflight
    BY <1>4 DEF EndRun, Leaves
  <2>2. RunTypes'
    BY <1>1, <1>3, <2>1 DEF RunTypes
  <2>3. ASSUME NEW w \in Workers, NEW t \in DOMAIN inflight'[w]
        PROVE  \E s \in runs' : s.worker = w /\ s.task = t /\ s.n = inflight'[w][t]
    <3>1. PICK s \in runs : s.worker = w /\ s.task = t /\ s.n = inflight[w][t]
      BY <1>1, <2>1, <2>3 DEF Named
    <3>2. Held(s.worker, s)
      BY <2>1, <2>3, <3>1 DEF Held
    <3>3. s # r
      BY <1>4, <3>2
    <3> QED BY <1>3, <2>1, <3>1, <3>3
  <2>4. Named'
    BY <1>1, <1>3, <2>1, <2>3 DEF Named, Held, SameRun
  <2> QED BY <2>1, <2>2, <2>4 DEF NoneStarts
<1>5. CASE Held(r.worker, r)
  <2> DEFINE v == r.worker
  <2> DEFINE left == DOMAIN inflight[v] \ {r.task}
  <2>1. inflight' = [inflight EXCEPT ![v] = [t \in left |-> inflight[v][t]]]
    BY <1>5 DEF EndRun, Leaves, Restrict
  <2>2. /\ inflight'[v] = [t \in left |-> inflight[v][t]]
        /\ \A w \in Workers \ {v} : inflight'[w] = inflight[w]
        /\ inflight' = [w \in Workers |-> inflight'[w]]
    BY <1>1, <1>2, <2>1 DEF RunTypes
  <2>3. \A w \in Workers : DOMAIN inflight'[w] \subseteq DOMAIN inflight[w]
    BY <2>2
  <2>4. \A w \in Workers : \A t \in DOMAIN inflight'[w] :
          inflight'[w][t] = inflight[w][t] /\ ~(w = v /\ t = r.task)
    BY <2>2
  <2>5. \A w \in Workers : \A t \in DOMAIN inflight[w] :
          ~(w = v /\ t = r.task) => t \in DOMAIN inflight'[w]
    BY <2>2
  <2>6. RunTypes'
    <3>1. ASSUME NEW w \in Workers
          PROVE  inflight'[w] \in [DOMAIN inflight'[w] -> 1 .. MaxRuns]
      <4>1. CASE w = v
        <5>1. inflight[v] \in [DOMAIN inflight[v] -> 1 .. MaxRuns]
          BY <1>1, <1>2 DEF RunTypes
        <5>2. \A t \in left : inflight[v][t] \in 1 .. MaxRuns
          BY <5>1
        <5> QED BY <2>2, <4>1, <5>2
      <4>2. CASE w # v
        BY <1>1, <2>2, <4>2 DEF RunTypes
      <4> QED BY <4>1, <4>2
    <3> QED BY <1>1, <1>3, <2>2, <3>1 DEF RunTypes
  <2> HIDE DEF left
  <2>7. ASSUME NEW s \in runs, s # r
        PROVE  Held(s.worker, s)' <=> Held(s.worker, s)
    <3>1. s.worker \in Workers
      BY <1>1 DEF RunTypes, RunStates
    <3>2. Held(s.worker, s) => ~(s.worker = v /\ s.task = r.task)
      <4>1. ASSUME Held(s.worker, s), s.worker = v, s.task = r.task PROVE FALSE
        <5>1. SameRun(s, r)
          BY <1>5, <4>1 DEF SameRun, Held
        <5> QED BY <1>1, <2>7, <5>1 DEF Named
      <4> QED BY <4>1
    <3>3. (Held(s.worker, s))' <=>
            s.task \in DOMAIN inflight'[s.worker] /\ inflight'[s.worker][s.task] = s.n
      BY DEF Held
    <3> QED BY <2>3, <2>4, <2>5, <3>1, <3>2, <3>3 DEF Held
  <2>8. ASSUME NEW w \in Workers, NEW t \in DOMAIN inflight'[w]
        PROVE  \E s \in runs' : s.worker = w /\ s.task = t /\ s.n = inflight'[w][t]
    <3>1. t \in DOMAIN inflight[w] /\ inflight'[w][t] = inflight[w][t] /\ ~(w = v /\ t = r.task)
      BY <2>3, <2>4, <2>8
    <3>2. PICK s \in runs : s.worker = w /\ s.task = t /\ s.n = inflight[w][t]
      BY <1>1, <3>1 DEF Named
    <3>3. s # r
      BY <3>1, <3>2
    <3> QED BY <1>3, <3>1, <3>2, <3>3
  <2>9. Named'
    <3>1. \A p, q \in runs' : SameRun(p, q) => p = q
      BY <1>1, <1>3 DEF Named
    <3>2. ASSUME NEW s \in runs' PROVE ~s.abandoned <=> (Held(s.worker, s))'
      <4>1. s \in runs /\ s # r
        BY <1>3
      <4>2. ~s.abandoned <=> Held(s.worker, s)
        BY <1>1, <4>1 DEF Named
      <4> QED BY <2>7, <4>1, <4>2
    <3> QED BY <2>8, <3>1, <3>2 DEF Named, SameRun
  <2> QED BY <2>3, <2>6, <2>9 DEF NoneStarts
<1> QED BY <1>4, <1>5

(* All runs of a process end.                                              *)
LEMMA RunsEnd ==
  ASSUME IInv, NEW w \in Workers, EndProcess(w)
  PROVE  NoneStarts
<1>1. RunTypes /\ Named
  BY DEF IInv, Types, RunTypes
<1>2. runs' = {r \in runs : r.worker # w} /\ inflight' = [inflight EXCEPT ![w] = NoRuns]
  BY DEF EndProcess
<1>3. /\ DOMAIN inflight'[w] = {} /\ inflight'[w] = NoRuns
      /\ \A v \in Workers \ {w} : inflight'[v] = inflight[v]
      /\ inflight' = [v \in Workers |-> inflight'[v]]
  BY <1>1, <1>2 DEF RunTypes, NoRuns
<1>4. \A v \in Workers : DOMAIN inflight'[v] \subseteq DOMAIN inflight[v]
  BY <1>3
<1>5. RunTypes'
  <2>1. ASSUME NEW v \in Workers
        PROVE  inflight'[v] \in [DOMAIN inflight'[v] -> 1 .. MaxRuns]
    <3>1. CASE v = w
      <4>1. NoRuns \in [{} -> 1 .. MaxRuns]
        BY DEF NoRuns
      <4> QED BY <1>3, <3>1, <4>1
    <3>2. CASE v # w
      BY <1>1, <1>3, <3>2 DEF RunTypes
    <3> QED BY <3>1, <3>2
  <2> QED BY <1>1, <1>2, <1>3, <2>1 DEF RunTypes
<1>6. \A p, q \in runs' : SameRun(p, q) => p = q
  BY <1>1, <1>2 DEF Named
<1>7. ASSUME NEW r \in runs' PROVE ~r.abandoned <=> (Held(r.worker, r))'
  <2>1. r \in runs /\ r.worker # w /\ r.worker \in Workers
    BY <1>1, <1>2 DEF RunTypes, RunStates
  <2>2. ~r.abandoned <=> Held(r.worker, r)
    BY <1>1, <2>1 DEF Named
  <2>3. inflight'[r.worker] = inflight[r.worker]
    BY <1>3, <2>1
  <2> QED BY <2>2, <2>3 DEF Held
<1>8. ASSUME NEW v \in Workers, NEW t \in DOMAIN inflight'[v]
      PROVE  \E r \in runs' : r.worker = v /\ r.task = t /\ r.n = inflight'[v][t]
  <2>1. v # w /\ inflight'[v] = inflight[v]
    BY <1>3, <1>8
  <2> QED BY <1>1, <1>2, <1>8, <2>1 DEF Named
<1>9. Named'
  BY <1>6, <1>7, <1>8 DEF Named, SameRun
<1> QED BY <1>4, <1>5, <1>9 DEF NoneStarts

(* Runs grow older, or wedge.                                              *)
LEMMA RunsChange ==
  ASSUME IInv, UNCHANGED inflight, runs' \subseteq RunStates,
         \A s \in runs' : \E r \in runs : SameRun(r, s) /\ s.abandoned = r.abandoned,
         \A r \in runs : \E s \in runs' : SameRun(r, s),
         \A p, q \in runs' : SameRun(p, q) => p = q
  PROVE  NoneStarts
<1>1. RunTypes /\ Named
  BY DEF IInv, Types, RunTypes
<1>2. RunTypes'
  BY <1>1 DEF RunTypes
<1>3. ASSUME NEW s \in runs' PROVE ~s.abandoned <=> (Held(s.worker, s))'
  <2>1. PICK r \in runs : SameRun(r, s) /\ s.abandoned = r.abandoned
    OBVIOUS
  <2>2. ~r.abandoned <=> Held(r.worker, r)
    BY <1>1 DEF Named
  <2>3. (Held(s.worker, s))' <=> Held(r.worker, r)
    BY <2>1 DEF Held, SameRun
  <2> QED BY <2>1, <2>2, <2>3
<1>4. ASSUME NEW v \in Workers, NEW t \in DOMAIN inflight'[v]
      PROVE  \E s \in runs' : s.worker = v /\ s.task = t /\ s.n = inflight'[v][t]
  <2>1. PICK r \in runs : r.worker = v /\ r.task = t /\ r.n = inflight[v][t]
    BY <1>1, <1>4 DEF Named
  <2>2. PICK s \in runs' : SameRun(r, s)
    OBVIOUS
  <2> QED BY <2>1, <2>2 DEF SameRun
<1>5. Named'
  BY <1>3, <1>4 DEF Named, SameRun
<1> QED BY <1>2, <1>5 DEF NoneStarts

(* A run wedges.                                                           *)
LEMMA RunWedges ==
  ASSUME IInv, NEW r \in runs, Wedge(r)
  PROVE  NoneStarts
<1> DEFINE q == [r EXCEPT !.wedged = TRUE]
<1>1. RunTypes /\ Named /\ r \in RunStates
  BY DEF IInv, Types, RunTypes
<1>2. runs' = (runs \ {r}) \union {q} /\ UNCHANGED inflight
  BY DEF Wedge
<1>3. q \in RunStates /\ SameRun(r, q) /\ q.abandoned = r.abandoned
  BY <1>1 DEF RunStates, SameRun
<1> HIDE DEF q
<1>4. runs' \subseteq RunStates
  BY <1>1, <1>2, <1>3 DEF RunTypes
<1>5. \A s \in runs' : \E p \in runs : SameRun(p, s) /\ s.abandoned = p.abandoned
  BY <1>2, <1>3 DEF SameRun
<1>6. \A p \in runs : \E s \in runs' : SameRun(p, s)
  BY <1>2, <1>3 DEF SameRun
<1>7. ASSUME NEW p \in runs', NEW s \in runs', SameRun(p, s) PROVE p = s
  <2>1. CASE p \in runs \ {r} /\ s \in runs \ {r}
    BY <1>1, <1>7, <2>1 DEF Named
  <2>2. CASE p \in runs \ {r} /\ s = q
    <3>1. SameRun(p, r)
      BY <1>3, <1>7, <2>2 DEF SameRun
    <3> QED BY <1>1, <2>2, <3>1 DEF Named
  <2>3. CASE p = q /\ s \in runs \ {r}
    <3>1. SameRun(r, s)
      BY <1>3, <1>7, <2>3 DEF SameRun
    <3> QED BY <1>1, <2>3, <3>1 DEF Named
  <2>4. CASE p = q /\ s = q
    BY <2>4
  <2> QED BY <1>2, <2>1, <2>2, <2>3, <2>4
<1> QED BY <1>2, <1>4, <1>5, <1>6, <1>7, RunsChange

(* All runs grow older.                                                    *)
LEMMA RunsAge ==
  ASSUME IInv, UNCHANGED inflight,
         runs' = {[r EXCEPT !.age = AtMost(@ + 1, MaxDuration + 1)] : r \in runs}
  PROVE  NoneStarts
<1> DEFINE older(r) == [r EXCEPT !.age = AtMost(@ + 1, MaxDuration + 1)]
<1>1. RunTypes /\ Named
  BY DEF IInv, Types, RunTypes
<1>2. runs' = {older(r) : r \in runs}
  OBVIOUS
<1>3. ASSUME NEW r \in runs
      PROVE  older(r) \in RunStates /\ SameRun(r, older(r)) /\ older(r).abandoned = r.abandoned
  <2>1. r \in RunStates
    BY <1>1 DEF RunTypes
  <2>2. AtMost(r.age + 1, MaxDuration + 1) \in 0 .. MaxDuration + 1
    BY <2>1, Constants DEF RunStates, AtMost
  <2> QED BY <2>1, <2>2 DEF RunStates, SameRun
<1> HIDE DEF older
<1>4. runs' \subseteq RunStates
  BY <1>2, <1>3
<1>5. \A s \in runs' : \E r \in runs : SameRun(r, s) /\ s.abandoned = r.abandoned
  BY <1>2, <1>3
<1>6. \A r \in runs : \E s \in runs' : SameRun(r, s)
  BY <1>2, <1>3
<1>7. ASSUME NEW p \in runs', NEW s \in runs', SameRun(p, s) PROVE p = s
  <2>1. PICK a \in runs : p = older(a)
    BY <1>2
  <2>2. PICK b \in runs : s = older(b)
    BY <1>2
  <2>3. SameRun(a, b)
    BY <1>3, <1>7, <2>1, <2>2 DEF SameRun
  <2> QED BY <1>1, <2>1, <2>2, <2>3 DEF Named
<1> QED BY <1>4, <1>5, <1>6, <1>7, RunsChange

(* A turn of the renewal loop abandons what is overdue.                    *)
LEMMA RunsLetGo ==
  ASSUME IInv, NEW w \in Workers, Turn(w)
  PROVE  NoneStarts /\ DOMAIN inflight'[w] = Kept(w)
<1> DEFINE gone(r) == [r EXCEPT !.abandoned = TRUE]
<1>1. RunTypes /\ Named
  BY DEF IInv, Types, RunTypes
<1>2. /\ inflight' = [inflight EXCEPT ![w] = [t \in Kept(w) |-> inflight[w][t]]]
      /\ runs' = (runs \ LetGo(w)) \union {gone(r) : r \in LetGo(w)}
  BY DEF Turn, Restrict
<1>3. /\ inflight'[w] = [t \in Kept(w) |-> inflight[w][t]]
      /\ \A v \in Workers \ {w} : inflight'[v] = inflight[v]
      /\ inflight' = [v \in Workers |-> inflight'[v]]
  BY <1>1, <1>2 DEF RunTypes
<1>4. /\ Kept(w) \subseteq DOMAIN inflight[w] /\ LetGo(w) \subseteq runs
      /\ \A r \in LetGo(w) : Held(w, r) /\ r.task \notin Kept(w)
  BY DEF Kept, LetGo
<1>5. ASSUME NEW r \in LetGo(w)
      PROVE  gone(r) \in RunStates /\ SameRun(r, gone(r)) /\ gone(r).abandoned = TRUE
  <2>1. r \in RunStates
    BY <1>1, <1>4 DEF RunTypes
  <2> QED BY <2>1 DEF RunStates, SameRun
<1> HIDE DEF gone
<1>6. \A v \in Workers : DOMAIN inflight'[v] \subseteq DOMAIN inflight[v]
  BY <1>3, <1>4
<1>7. RunTypes'
  <2>1. ASSUME NEW v \in Workers
        PROVE  inflight'[v] \in [DOMAIN inflight'[v] -> 1 .. MaxRuns]
    <3>1. CASE v = w
      <4>1. inflight[w] \in [DOMAIN inflight[w] -> 1 .. MaxRuns]
        BY <1>1 DEF RunTypes
      <4>2. \A t \in Kept(w) : inflight[w][t] \in 1 .. MaxRuns
        BY <1>4, <4>1
      <4> QED BY <1>3, <3>1, <4>2
    <3>2. CASE v # w
      BY <1>1, <1>3, <3>2 DEF RunTypes
    <3> QED BY <3>1, <3>2
  <2>2. runs' \subseteq RunStates
    BY <1>1, <1>2, <1>5 DEF RunTypes
  <2> QED BY <1>3, <2>1, <2>2 DEF RunTypes
<1>8. \A s \in runs' : \/ s \in runs \ LetGo(w)
                       \/ s.abandoned /\ \E r \in LetGo(w) : s = gone(r) /\ SameRun(r, s)
  BY <1>2, <1>5
<1>9. ASSUME NEW p \in runs', NEW s \in runs', SameRun(p, s) PROVE p = s
  <2>1. CASE p \in runs \ LetGo(w) /\ s \in runs \ LetGo(w)
    BY <1>1, <1>9, <2>1 DEF Named
  <2>2. CASE p \in runs \ LetGo(w) /\ s \notin runs \ LetGo(w)
    <3>1. PICK r \in LetGo(w) : s = gone(r) /\ SameRun(r, s)
      BY <1>8, <2>2
    <3>2. SameRun(p, r)
      BY <1>9, <3>1 DEF SameRun
    <3> QED BY <1>1, <1>4, <2>2, <3>2 DEF Named
  <2>3. CASE p \notin runs \ LetGo(w) /\ s \in runs \ LetGo(w)
    <3>1. PICK r \in LetGo(w) : p = gone(r) /\ SameRun(r, p)
      BY <1>8, <2>3
    <3>2. SameRun(r, s)
      BY <1>9, <3>1 DEF SameRun
    <3> QED BY <1>1, <1>4, <2>3, <3>2 DEF Named
  <2>4. CASE p \notin runs \ LetGo(w) /\ s \notin runs \ LetGo(w)
    <3>1. PICK a \in LetGo(w) : p = gone(a) /\ SameRun(a, p)
      BY <1>8, <2>4
    <3>2. PICK b \in LetGo(w) : s = gone(b) /\ SameRun(b, s)
      BY <1>8, <2>4
    <3>3. SameRun(a, b)
      BY <1>9, <3>1, <3>2 DEF SameRun
    <3>4. a = b
      BY <1>1, <1>4, <3>3 DEF Named
    <3> QED BY <3>1, <3>2, <3>4
  <2> QED BY <2>1, <2>2, <2>3, <2>4
<1>10. ASSUME NEW r \in runs \ LetGo(w) PROVE Held(r.worker, r)' <=> Held(r.worker, r)
  <2>1. r.worker \in Workers
    BY <1>1 DEF RunTypes, RunStates
  <2>2. CASE r.worker # w
    <3>1. inflight'[r.worker] = inflight[r.worker]
      BY <1>3, <2>1, <2>2
    <3> QED BY <3>1 DEF Held
  <2>3. CASE r.worker = w
    <3>1. ASSUME Held(w, r), r.task \notin Kept(w) PROVE FALSE
      <4>1. PICK s \in LetGo(w) : s.task = r.task
        BY <3>1 DEF Kept, Held
      <4>2. SameRun(r, s)
        BY <1>4, <3>1, <4>1 DEF Held, SameRun
      <4> QED BY <1>1, <1>4, <4>2 DEF Named
    <3>2. ASSUME r.task \in Kept(w) PROVE inflight'[w][r.task] = inflight[w][r.task]
      BY <1>3, <3>2
    <3>3. DOMAIN inflight'[w] = Kept(w)
      BY <1>3
    <3> QED BY <1>4, <2>3, <3>1, <3>2, <3>3 DEF Held
  <2> QED BY <2>2, <2>3
<1>11. ASSUME NEW s \in runs' PROVE ~s.abandoned <=> (Held(s.worker, s))'
  <2>1. CASE s \in runs \ LetGo(w)
    <3>1. ~s.abandoned <=> Held(s.worker, s)
      BY <1>1, <2>1 DEF Named
    <3> QED BY <1>10, <2>1, <3>1
  <2>2. CASE s \notin runs \ LetGo(w)
    <3>1. PICK r \in LetGo(w) : s.abandoned /\ SameRun(r, s)
      BY <1>8, <2>2
    <3>2. s.worker = w /\ s.task \notin Kept(w)
      BY <1>4, <3>1 DEF Held, SameRun
    <3>3. DOMAIN inflight'[w] = Kept(w)
      BY <1>3
    <3> QED BY <3>1, <3>2, <3>3 DEF Held
  <2> QED BY <2>1, <2>2
<1>12. ASSUME NEW v \in Workers, NEW t \in DOMAIN inflight'[v]
       PROVE  \E s \in runs' : s.worker = v /\ s.task = t /\ s.n = inflight'[v][t]
  <2>1. t \in DOMAIN inflight[v] /\ (v = w => t \in Kept(w)) /\ inflight'[v][t] = inflight[v][t]
    BY <1>3, <1>4, <1>12
  <2>2. PICK r \in runs : r.worker = v /\ r.task = t /\ r.n = inflight[v][t]
    BY <1>1, <2>1 DEF Named
  <2>3. r \notin LetGo(w)
    BY <1>4, <2>1, <2>2 DEF Held
  <2> QED BY <1>2, <2>1, <2>2, <2>3
<1>13. Named'
  BY <1>9, <1>11, <1>12 DEF Named, SameRun
<1> QED BY <1>3, <1>6, <1>7, <1>13 DEF NoneStarts

-----------------------------------------------------------------------------
(* Steps that start no run and claim nothing. *)

LoopTypes ==
  /\ pending \subseteq 1 .. (next - 1) /\ next \in 1 .. MaxTasks + 1
  /\ idle \in [Tasks -> 0 .. Debounce]
  /\ worker \in [Workers -> WorkerStates]
  /\ late \in BOOLEAN /\ faults \in 0 .. MaxFaults

(* The invariant after a step in which nobody gets more than it had.       *)
LEMMA NobodyGets ==
  ASSUME IInv, NoneStarts, LoopTypes', next <= next',
         \A w \in Workers :
           /\ worker'[w].reply \subseteq worker[w].reply
           /\ worker'[w].reply # {} => worker'[w].claiming
           /\ worker'[w].alive => worker'[w].renews
           /\ worker'[w].alive => worker[w].alive \/ (Holds(w))' = {},
         ~late' => ~late /\ \A w \in Workers : Leases(w)'
  PROVE  IInv'
<1>1. Types'
  BY DEF NoneStarts, RunTypes, LoopTypes, Types
<1>2. next' \in Nat
  BY Constants DEF LoopTypes
<1>3. \A w \in Workers : Bounded(w)'
  BY <1>2, Shrinking DEF NoneStarts
<1>4. Named'
  BY DEF NoneStarts
<1>5. \A w \in Workers : (Holds(w))' \subseteq Holds(w)
  BY DEF Holds, NoneStarts
<1>6. ASSUME ~late' PROVE Disjoint'
  <2>1. Disjoint
    BY <1>6 DEF IInv, InTime
  <2> QED BY <1>5, <2>1, StillDisjoint
<1>7. InTime'
  BY <1>6 DEF InTime
<1> QED BY <1>1, <1>3, <1>4, <1>7 DEF IInv

(* A fault is counted.                                                     *)
LEMMA FaultType ==
  ASSUME IInv, Fault
  PROVE  faults' \in 0 .. MaxFaults
<1>1. faults \in 0 .. MaxFaults /\ MaxFaults \in Nat
  BY Constants DEF IInv, Types
<1> QED BY <1>1 DEF Fault

(* The invariant after a step that leaves the loops alone.                 *)
LEMMA QuietStep ==
  ASSUME IInv, NoneStarts, LoopTypes', next <= next', late' = late,
         \A w \in Workers : Quiet(w) /\ pending' \intersect Holds(w) \subseteq pending,
         \A t \in Tasks : idle'[t] <= idle[t]
  PROVE  IInv'
<1>1. ASSUME NEW w \in Workers
      PROVE  /\ worker'[w].reply \subseteq worker[w].reply
             /\ worker'[w].reply # {} => worker'[w].claiming
             /\ worker'[w].alive => worker'[w].renews
             /\ worker'[w].alive => worker[w].alive
  <2>1. /\ worker[w].reply # {} => worker[w].claiming
        /\ worker[w].alive => worker[w].renews
    BY DEF IInv, Bounded
  <2> QED BY <2>1, QuietFields
<1>2. \A t \in Tasks : idle'[t] \in Nat
  BY Constants DEF LoopTypes
<1>3. ASSUME ~late', NEW w \in Workers PROVE Leases(w)'
  <2>1. Leases(w)
    BY <1>3 DEF IInv, InTime
  <2>2. DOMAIN inflight'[w] \subseteq DOMAIN inflight[w]
    BY DEF NoneStarts
  <2> QED BY <1>2, <2>1, <2>2, QuietLeases
<1> QED BY <1>1, <1>3, NobodyGets

(* Nothing happens to the tasks.                                           *)
LEMMA TasksStay ==
  ASSUME IInv, UNCHANGED redisVars
  PROVE  /\ next <= next' /\ pending' = pending
         /\ \A t \in Tasks : idle'[t] <= idle[t]
         /\ pending' \subseteq 1 .. (next' - 1) /\ next' \in 1 .. MaxTasks + 1
         /\ idle' \in [Tasks -> 0 .. Debounce]
<1>1. /\ pending \subseteq 1 .. (next - 1) /\ next \in 1 .. MaxTasks + 1
      /\ idle \in [Tasks -> 0 .. Debounce] /\ MaxTasks \in Nat /\ Debounce \in Nat
  BY Constants DEF IInv, Types
<1>2. pending' = pending /\ next' = next /\ idle' = idle
  BY DEF redisVars
<1> QED BY <1>1, <1>2

(* A run fails.                                                            *)
LEMMA FailStep ==
  ASSUME IInv, NEW r \in runs, Fail(r)
  PROVE  IInv'
<1>1. UNCHANGED <<redisVars, worker, late>> /\ NoneStarts /\ faults' \in 0 .. MaxFaults
  BY RunEnds, FaultType DEF Fail
<1>2. LoopTypes'
  BY <1>1, TasksStay DEF LoopTypes, IInv, Types
<1>3. \A w \in Workers : Quiet(w)
  BY <1>1 DEF Quiet
<1> QED BY <1>1, <1>2, <1>3, TasksStay, QuietStep

(* A run wedges.                                                           *)
LEMMA WedgeStep ==
  ASSUME IInv, NEW r \in runs, Wedge(r)
  PROVE  IInv'
<1>1. UNCHANGED <<redisVars, worker, late>> /\ NoneStarts /\ faults' \in 0 .. MaxFaults
  BY RunWedges, FaultType DEF Wedge
<1>2. LoopTypes'
  BY <1>1, TasksStay DEF LoopTypes, IInv, Types
<1>3. \A w \in Workers : Quiet(w)
  BY <1>1 DEF Quiet
<1> QED BY <1>1, <1>2, <1>3, TasksStay, QuietStep

(* A reply is lost.                                                        *)
LEMMA LoseReplyStep ==
  ASSUME IInv, NEW w \in Workers, LoseReply(w)
  PROVE  IInv'
<1>1. /\ UNCHANGED <<redisVars, inflight, runs, late>> /\ faults' \in 0 .. MaxFaults
      /\ worker' = [worker EXCEPT ![w] = Answered(w)]
  BY FaultType DEF LoseReply
<1>2. worker \in [Workers -> WorkerStates]
  BY DEF IInv, Types
<1>3. Answered(w) \in WorkerStates
  BY <1>2 DEF Answered, WorkerStates
<1>4. worker' \in [Workers -> WorkerStates] /\ \A v \in Workers : Quiet(v)
  BY <1>1, <1>2, <1>3 DEF Quiet
<1>5. LoopTypes'
  BY <1>1, <1>4, TasksStay DEF LoopTypes, IInv, Types
<1>6. NoneStarts
  BY <1>1, RunsStay
<1> QED BY <1>1, <1>4, <1>5, <1>6, TasksStay, QuietStep

(* A worker is stopped.                                                    *)
LEMMA StopStep ==
  ASSUME IInv, NEW w \in Workers, Stop(w)
  PROVE  IInv'
<1>1. /\ UNCHANGED <<redisVars, inflight, runs, late>> /\ faults' \in 0 .. MaxFaults
      /\ worker' = [worker EXCEPT ![w] = [worker[w] EXCEPT !.alive = FALSE]]
  BY FaultType DEF Stop
<1>2. worker \in [Workers -> WorkerStates]
  BY DEF IInv, Types
<1>3. [worker[w] EXCEPT !.alive = FALSE] \in WorkerStates
  BY <1>2 DEF WorkerStates
<1>4. worker' \in [Workers -> WorkerStates] /\ \A v \in Workers : Quiet(v)
  BY <1>1, <1>2, <1>3 DEF Quiet
<1>5. LoopTypes'
  BY <1>1, <1>4, TasksStay DEF LoopTypes, IInv, Types
<1>6. NoneStarts
  BY <1>1, RunsStay
<1> QED BY <1>1, <1>4, <1>5, <1>6, TasksStay, QuietStep

(* The next task is nobody's.                                              *)
LEMMA NextIsNew ==
  ASSUME IInv, NEW w \in Workers
  PROVE  next \notin Holds(w) /\ next \in Nat
<1>1. Holds(w) \subseteq 1 .. (next - 1) /\ next \in Nat
  BY Constants DEF IInv, Bounded, Types
<1>2. next \notin 1 .. (next - 1)
  BY <1>1
<1> QED BY <1>1, <1>2

(* A task is added.                                                        *)
LEMMA AddTaskStep ==
  ASSUME IInv, AddTask
  PROVE  IInv'
<1>1. /\ UNCHANGED <<idle, worker, inflight, runs, late, faults>> /\ next \in Tasks
      /\ pending' = pending \union {next} /\ next' = next + 1
  BY DEF AddTask
<1>2. NoneStarts /\ \A w \in Workers : Quiet(w)
  BY <1>1, RunsStay DEF Quiet
<1>3. \A w \in Workers : pending' \intersect Holds(w) \subseteq pending
  BY <1>1, NextIsNew
<1>4. /\ next' \in 1 .. MaxTasks + 1 /\ next <= next' /\ MaxTasks \in Nat
      /\ next \in 1 .. (next' - 1) /\ next \in Nat /\ next' \in Nat
  BY <1>1, Constants DEF Tasks
<1>5. pending' \subseteq 1 .. (next' - 1)
  <2>1. 1 .. (next - 1) \subseteq 1 .. (next' - 1)
    BY <1>4, IntervalGrows
  <2> QED BY <1>1, <1>4, <2>1 DEF IInv, Types
<1>6. LoopTypes'
  BY <1>1, <1>4, <1>5 DEF LoopTypes, IInv, Types
<1>7. \A t \in Tasks : idle'[t] <= idle[t]
  BY <1>1, Constants DEF IInv, Types
<1> QED BY <1>1, <1>2, <1>3, <1>4, <1>6, <1>7, QuietStep

(* A run ends and acks its task.                                           *)
LEMMA CompleteStep ==
  ASSUME IInv, NEW r \in runs, Complete(r)
  PROVE  IInv'
<1>1. /\ NoneStarts /\ UNCHANGED <<worker, late, faults>>
      /\ idle' = [idle EXCEPT ![r.task] = 0]
      /\ \/ pending' = pending \ {r.task} /\ next' = next
         \/ /\ next \in Tasks /\ next' = next + 1
            /\ pending' = (pending \ {r.task}) \union {next}
  BY RunEnds DEF Complete
<1>2. \A w \in Workers : Quiet(w)
  BY <1>1 DEF Quiet
<1>3. \A w \in Workers : pending' \intersect Holds(w) \subseteq pending
  BY <1>1, NextIsNew
<1>4. /\ idle \in [Tasks -> 0 .. Debounce] /\ Debounce \in Nat
      /\ next \in 1 .. MaxTasks + 1 /\ MaxTasks \in Nat /\ pending \subseteq 1 .. (next - 1)
  BY Constants DEF IInv, Types
<1>5. idle' \in [Tasks -> 0 .. Debounce] /\ \A t \in Tasks : idle'[t] <= idle[t]
  <2>1. /\ \A t \in Tasks : idle'[t] = IF t = r.task THEN 0 ELSE idle[t]
        /\ idle' = [t \in Tasks |-> idle'[t]]
    BY <1>1, <1>4
  <2>2. \A t \in Tasks : idle[t] \in 0 .. Debounce
    BY <1>4
  <2>3. 0 \in 0 .. Debounce /\ \A n \in 0 .. Debounce : 0 <= n /\ n <= n
    BY <1>4
  <2> QED BY <2>1, <2>2, <2>3
<1>6. next' \in 1 .. MaxTasks + 1 /\ next <= next' /\ pending' \subseteq 1 .. (next' - 1)
  <2>1. CASE pending' = pending \ {r.task} /\ next' = next
    <3>1. next \in Nat
      BY <1>4
    <3>2. pending' \subseteq 1 .. (next - 1)
      <4>1. pending \subseteq 1 .. (next - 1)
        BY <1>4
      <4> QED BY <2>1, <4>1, Zenon
    <3>3. next <= next
      BY <3>1
    <3> QED BY <1>4, <2>1, <3>2, <3>3
  <2>2. CASE next \in Tasks /\ next' = next + 1 /\ pending' = (pending \ {r.task}) \union {next}
    <3>1. /\ next' \in 1 .. MaxTasks + 1 /\ next <= next' /\ next \in 1 .. (next' - 1)
          /\ next \in Nat /\ next' \in Nat
      BY <1>4, <2>2 DEF Tasks
    <3>2. 1 .. (next - 1) \subseteq 1 .. (next' - 1)
      BY <3>1, IntervalGrows
    <3> QED BY <1>4, <2>2, <3>1, <3>2
  <2> QED BY <1>1, <2>1, <2>2
<1>7. LoopTypes'
  BY <1>1, <1>5, <1>6 DEF LoopTypes, IInv, Types
<1> QED BY <1>1, <1>2, <1>3, <1>5, <1>6, <1>7, QuietStep

(* A process ends, or is replaced.                                         *)
LEMMA EndProcessStep ==
  ASSUME IInv, NEW w \in Workers, EndProcess(w), faults' \in 0 .. MaxFaults
  PROVE  IInv'
<1>1. /\ worker' = [worker EXCEPT ![w] = NewWorker]
      /\ UNCHANGED <<redisVars, late>> /\ NoneStarts
  BY RunsEnd DEF EndProcess
<1>2. worker \in [Workers -> WorkerStates] /\ NewWorker \in WorkerStates
  BY DEF IInv, Types, NewWorker, WorkerStates
<1>3. worker' \in [Workers -> WorkerStates] /\ worker'[w] = NewWorker
      /\ \A v \in Workers \ {w} : worker'[v] = worker[v]
  BY <1>1, <1>2
<1>4. LoopTypes'
  BY <1>1, <1>3, TasksStay DEF LoopTypes, IInv, Types
<1>5. DOMAIN inflight'[w] = {}
  <2>1. inflight = [v \in Workers |-> inflight[v]]
    BY DEF IInv, Types
  <2> QED BY <2>1 DEF EndProcess, NoRuns
<1>6. /\ worker'[w].reply = {} /\ worker'[w].renews /\ ~worker'[w].claiming
      /\ worker'[w].timer = 0 /\ worker'[w].waited = 0
  BY <1>3 DEF NewWorker
<1>7. (Holds(w))' = {}
  BY <1>5, <1>6 DEF Holds
<1>8. ASSUME NEW v \in Workers
      PROVE  /\ worker'[v].reply \subseteq worker[v].reply
             /\ worker'[v].reply # {} => worker'[v].claiming
             /\ worker'[v].alive => worker'[v].renews
             /\ worker'[v].alive => worker[v].alive \/ (Holds(v))' = {}
  <2>1. CASE v = w
    BY <1>6, <1>7, <2>1
  <2>2. CASE v # w
    BY <1>3, <2>2 DEF IInv, Bounded
  <2> QED BY <2>1, <2>2
<1>9. ASSUME ~late', NEW v \in Workers PROVE Leases(v)'
  <2>1. Leases(v)
    BY <1>1, <1>9 DEF IInv, InTime
  <2>2. CASE v = w
    BY <1>5, <1>6, <2>2, Constants DEF Leases
  <2>3. CASE v # w
    <3>1. Quiet(v)
      BY <1>3, <2>3 DEF Quiet
    <3>2. DOMAIN inflight'[v] \subseteq DOMAIN inflight[v]
      BY <1>1 DEF NoneStarts
    <3>3. \A t \in Tasks : idle'[t] \in Nat /\ idle'[t] <= idle[t]
      BY <1>1, TasksStay, Constants DEF LoopTypes
    <3>4. pending' \intersect Holds(v) \subseteq pending
      BY <1>1, TasksStay
    <3> QED BY <2>1, <3>1, <3>2, <3>3, <3>4, QuietLeases
  <2> QED BY <2>2, <2>3
<1> QED BY <1>1, <1>4, <1>8, <1>9, TasksStay, NobodyGets

(* A turn of the renewal loop, whether or not redis takes the renewal.     *)
LEMMA TurnStep ==
  ASSUME IInv, NEW w \in Workers, Turn(w), UNCHANGED <<pending, next>>,
         idle' \in [Tasks -> 0 .. Debounce], late' \in BOOLEAN, faults' \in 0 .. MaxFaults,
         ~late' => ~late /\ \A t \in Tasks :
           idle'[t] = IF t \in pending \intersect Kept(w) THEN 0 ELSE idle[t]
  PROVE  IInv'
<1>1. /\ NoneStarts /\ DOMAIN inflight'[w] = Kept(w)
      /\ worker' = [worker EXCEPT ![w].timer = 0, ![w].renews = worker[w].alive]
      /\ worker[w].renews
  BY RunsLetGo DEF Turn
<1>2. worker \in [Workers -> WorkerStates]
  BY DEF IInv, Types
<1>3. /\ worker' \in [Workers -> WorkerStates]
      /\ \A v \in Workers \ {w} : worker'[v] = worker[v]
      /\ worker'[w].timer = 0 /\ worker'[w].renews = worker[w].alive
      /\ worker'[w].alive = worker[w].alive /\ worker'[w].claiming = worker[w].claiming
      /\ worker'[w].reply = worker[w].reply /\ worker'[w].waited = worker[w].waited
  <2>1. worker[w] \in WorkerStates /\ worker[w].alive \in BOOLEAN
    BY <1>2 DEF WorkerStates
  <2>2. [worker[w] EXCEPT !.timer = 0, !.renews = worker[w].alive] \in WorkerStates
    BY <2>1 DEF WorkerStates
  <2>3. worker'[w] = [worker[w] EXCEPT !.timer = 0, !.renews = worker[w].alive]
    BY <1>1, <1>2
  <2>4. worker' \in [Workers -> WorkerStates] /\ \A v \in Workers \ {w} : worker'[v] = worker[v]
    BY <1>1, <1>2, <2>2
  <2> QED BY <2>1, <2>3, <2>4 DEF WorkerStates
<1>4. LoopTypes' /\ next <= next'
  BY <1>3, Constants DEF LoopTypes, IInv, Types
<1>5. ASSUME NEW v \in Workers
      PROVE  /\ worker'[v].reply \subseteq worker[v].reply
             /\ worker'[v].reply # {} => worker'[v].claiming
             /\ worker'[v].alive => worker'[v].renews
             /\ worker'[v].alive => worker[v].alive
  <2>1. /\ worker[v].reply # {} => worker[v].claiming
        /\ worker[v].alive => worker[v].renews
    BY DEF IInv, Bounded
  <2>2. CASE v = w
    BY <1>3, <2>1, <2>2
  <2>3. CASE v # w
    BY <1>3, <2>1, <2>3
  <2> QED BY <2>2, <2>3
<1>6. ASSUME ~late', NEW v \in Workers PROVE Leases(v)'
  <2>1. Leases(v) /\ ~late
    BY <1>6 DEF IInv, InTime
  <2>2. /\ \A t \in Tasks : idle'[t] \in Nat /\ idle[t] \in Nat /\ idle'[t] <= idle[t]
        /\ \A t \in pending \intersect Kept(w) : idle'[t] = 0
    <3>1. \A t \in Tasks : idle[t] \in Nat
      BY Constants DEF IInv, Types
    <3>2. \A t \in Tasks : idle'[t] = IF t \in pending \intersect Kept(w) THEN 0 ELSE idle[t]
      BY <1>6
    <3> QED BY <3>1, <3>2, HeldTasks
  <2>3. CASE v = w
    <3>1. /\ worker[w].timer \in Nat /\ worker[w].waited \in Nat
          /\ ReplyWithin \in Nat /\ RenewEvery \in Nat
      BY <1>2, Constants DEF WorkerStates
    <3>2. worker'[w].renews => worker'[w].timer <= RenewEvery
      BY <1>3, <3>1
    <3>3. worker'[w].claiming => worker'[w].waited <= ReplyWithin
      BY <1>3, <2>1, <2>3 DEF Leases
    <3>4. ASSUME NEW t \in worker'[w].reply \intersect pending'
          PROVE  idle'[t] <= worker'[w].waited
      <4>1. t \in worker[w].reply \intersect pending /\ t \in Tasks
        BY <1>3, HeldTasks
      <4>2. idle[t] <= worker[w].waited
        BY <2>1, <2>3, <4>1 DEF Leases
      <4> QED BY <1>3, <2>2, <3>1, <4>1, <4>2
    <3>5. ASSUME NEW t \in DOMAIN inflight'[w] \intersect pending'
          PROVE  idle'[t] <= worker'[w].timer + ReplyWithin
      <4>1. idle'[t] = 0
        BY <1>1, <2>2
      <4> QED BY <1>3, <3>1, <4>1
    <3> QED BY <2>3, <3>2, <3>3, <3>4, <3>5 DEF Leases
  <2>4. CASE v # w
    <3>1. Quiet(v)
      BY <1>3, <2>4 DEF Quiet
    <3>2. DOMAIN inflight'[v] \subseteq DOMAIN inflight[v]
      BY <1>1 DEF NoneStarts
    <3> QED BY <2>1, <2>2, <3>1, <3>2, QuietLeases
  <2> QED BY <2>3, <2>4
<1> QED BY <1>1, <1>4, <1>5, <1>6, NobodyGets

(* A renewal that redis takes, and one that fails.                         *)
LEMMA RenewStep ==
  ASSUME IInv, NEW w \in Workers, Renew(w) \/ RenewalFails(w)
  PROVE  IInv'
<1>1. CASE Renew(w)
  <2>1. /\ Turn(w) /\ UNCHANGED <<pending, next, late, faults>>
        /\ idle' = [t \in Tasks |-> IF t \in pending \intersect Kept(w) THEN 0 ELSE idle[t]]
    BY <1>1 DEF Renew
  <2>2. idle' \in [Tasks -> 0 .. Debounce]
    <3>1. \A t \in Tasks : idle[t] \in 0 .. Debounce
      BY DEF IInv, Types
    <3>2. 0 \in 0 .. Debounce
      BY Constants
    <3> QED BY <2>1, <3>1, <3>2
  <2>3. late' \in BOOLEAN /\ faults' \in 0 .. MaxFaults
    BY <2>1 DEF IInv, Types
  <2> QED BY <2>1, <2>2, <2>3, TurnStep
<1>2. CASE RenewalFails(w)
  <2>1. /\ Turn(w) /\ late' = TRUE /\ UNCHANGED redisVars /\ faults' \in 0 .. MaxFaults
    BY <1>2, FaultType DEF RenewalFails
  <2>2. UNCHANGED <<pending, next>> /\ idle' \in [Tasks -> 0 .. Debounce]
    BY <2>1, TasksStay DEF redisVars
  <2> QED BY <2>1, <2>2, TurnStep
<1> QED BY <1>1, <1>2

(* Time passes: in time, no lease gets older than its loop allows.         *)
LEMMA TickStep ==
  ASSUME IInv, Tick
  PROVE  IInv'
<1> DEFINE timer(w) == IF late' \/ ~worker[w].renews THEN 0 ELSE worker[w].timer + 1
<1> DEFINE waited(w) == IF late' \/ ~worker[w].claiming THEN 0 ELSE worker[w].waited + 1
<1>1. /\ worker' = [w \in Workers |->
                      [worker[w] EXCEPT !.timer = timer(w), !.waited = waited(w)]]
      /\ idle' = [t \in Tasks |->
                    IF t \in pending THEN AtMost(idle[t] + 1, Debounce) ELSE idle[t]]
      /\ UNCHANGED <<pending, next, inflight>>
  BY DEF Tick
<1>2. NoneStarts
  BY RunsAge DEF Tick
<1>3. late' \in BOOLEAN /\ faults' \in 0 .. MaxFaults
  <2>1. CASE ~late /\ \E w \in Workers : IsLate(w)
    BY <2>1, FaultType DEF Tick
  <2>2. CASE ~(~late /\ \E w \in Workers : IsLate(w))
    <3>1. UNCHANGED <<late, faults>>
      BY <2>2 DEF Tick
    <3> QED BY <3>1 DEF IInv, Types
  <2> QED BY <2>1, <2>2
<1>4. ~late' => ~late /\ \A w \in Workers : ~IsLate(w)
  <2>1. CASE ~late /\ \E w \in Workers : IsLate(w)
    <3>1. late' = TRUE
      BY <2>1 DEF Tick
    <3> QED BY <3>1
  <2>2. CASE ~(~late /\ \E w \in Workers : IsLate(w))
    <3>1. late' = late
      BY <2>2 DEF Tick
    <3> QED BY <2>2, <3>1, Zenon
  <2> QED BY <2>1, <2>2
<1>5. \A w \in Workers : worker[w] \in WorkerStates
  BY DEF IInv, Types
<1>6. \A w \in Workers : timer(w) \in Nat /\ waited(w) \in Nat
  BY <1>5 DEF WorkerStates
<1>7. ASSUME NEW w \in Workers
      PROVE  /\ worker'[w] \in WorkerStates
             /\ worker'[w].timer = timer(w) /\ worker'[w].waited = waited(w)
             /\ worker'[w].alive = worker[w].alive /\ worker'[w].renews = worker[w].renews
             /\ worker'[w].claiming = worker[w].claiming /\ worker'[w].reply = worker[w].reply
  <2> HIDE DEF timer, waited
  <2> QED BY <1>1, <1>5, <1>6 DEF WorkerStates
<1>8. worker' \in [Workers -> WorkerStates]
  <2> HIDE DEF timer, waited
  <2>1. worker' = [w \in Workers |-> worker'[w]]
    BY <1>1
  <2> QED BY <1>7, <2>1
<1>9. /\ \A t \in Tasks : idle[t] \in Nat /\ idle'[t] \in Nat /\ idle'[t] <= idle[t] + 1
      /\ idle' \in [Tasks -> 0 .. Debounce]
  <2>1. Debounce \in Nat /\ \A t \in Tasks : idle[t] \in 0 .. Debounce
    BY Constants DEF IInv, Types
  <2>2. ASSUME NEW t \in Tasks
        PROVE  idle'[t] \in 0 .. Debounce /\ idle'[t] <= idle[t] + 1
    <3>1. idle'[t] = IF t \in pending THEN AtMost(idle[t] + 1, Debounce) ELSE idle[t]
      BY <1>1
    <3> QED BY <2>1, <3>1 DEF AtMost
  <2>3. idle' = [t \in Tasks |-> idle'[t]]
    BY <1>1
  <2> QED BY <2>1, <2>2, <2>3
<1>10. LoopTypes' /\ next <= next'
  <2>1. /\ pending' = pending /\ next' = next /\ next \in 1 .. MaxTasks + 1 /\ MaxTasks \in Nat
        /\ pending \subseteq 1 .. (next - 1)
    BY <1>1, Constants DEF IInv, Types
  <2>2. next <= next' /\ next' \in 1 .. MaxTasks + 1 /\ pending' \subseteq 1 .. (next' - 1)
    BY <2>1
  <2> QED BY <1>3, <1>8, <1>9, <2>2 DEF LoopTypes
<1>11. ASSUME ~late', NEW w \in Workers PROVE Leases(w)'
  <2>1. Leases(w) /\ Bounded(w) /\ ~IsLate(w)
    BY <1>4, <1>11 DEF IInv, InTime
  <2>2. /\ worker[w].timer \in Nat /\ worker[w].waited \in Nat
        /\ ReplyWithin \in Nat /\ RenewEvery \in Nat
    BY <1>5, Constants DEF WorkerStates
  <2>3. /\ worker'[w].renews => worker'[w].timer = worker[w].timer + 1
        /\ worker'[w].claiming => worker'[w].waited = worker[w].waited + 1
    BY <1>7, <1>11
  <2> HIDE DEF timer, waited
  <2>4. worker'[w].renews => worker'[w].timer <= RenewEvery
    BY <1>7, <2>1, <2>2, <2>3 DEF IsLate
  <2>5. worker'[w].claiming => worker'[w].waited <= ReplyWithin
    BY <1>7, <2>1, <2>2, <2>3 DEF IsLate
  <2>6. ASSUME NEW t \in worker'[w].reply \intersect pending'
        PROVE  idle'[t] <= worker'[w].waited
    <3>1. t \in worker[w].reply \intersect pending /\ t \in Tasks
      BY <1>1, <1>7, HeldTasks
    <3>2. idle[t] <= worker[w].waited /\ worker[w].claiming
      BY <2>1, <3>1 DEF Leases, Bounded
    <3>3. idle'[t] <= idle[t] + 1 /\ idle'[t] \in Nat /\ idle[t] \in Nat
      BY <1>9, <3>1
    <3>4. worker'[w].waited = worker[w].waited + 1
      BY <1>7, <2>3, <3>2
    <3> QED BY <2>2, <3>2, <3>3, <3>4
  <2>7. ASSUME worker'[w].alive, NEW t \in DOMAIN inflight'[w] \intersect pending'
        PROVE  idle'[t] <= worker'[w].timer + ReplyWithin
    <3>1. t \in DOMAIN inflight[w] \intersect pending /\ t \in Tasks /\ worker[w].alive
      BY <1>1, <1>7, <2>7, HeldTasks
    <3>2. idle[t] <= worker[w].timer + ReplyWithin /\ worker[w].renews
      BY <2>1, <3>1 DEF Leases, Bounded
    <3>3. idle'[t] <= idle[t] + 1 /\ idle'[t] \in Nat /\ idle[t] \in Nat
      BY <1>9, <3>1
    <3>4. worker'[w].timer = worker[w].timer + 1
      BY <1>7, <2>3, <3>2
    <3> QED BY <2>2, <3>2, <3>3, <3>4
  <2> QED BY <2>4, <2>5, <2>6, <2>7 DEF Leases
<1>12. \A w \in Workers :
           /\ worker'[w].reply \subseteq worker[w].reply
           /\ worker'[w].reply # {} => worker'[w].claiming
           /\ worker'[w].alive => worker'[w].renews
           /\ worker'[w].alive => worker[w].alive
  <2>1. \A w \in Workers : /\ worker[w].reply # {} => worker[w].claiming
                           /\ worker[w].alive => worker[w].renews
    BY DEF IInv, Bounded
  <2> HIDE DEF timer, waited
  <2> QED BY <1>7, <2>1
<1> QED BY <1>2, <1>4, <1>10, <1>11, <1>12, NobodyGets

-----------------------------------------------------------------------------
(* A claim, and its answer. *)

(* What redis gives away is pending and stale, and no more than is free.   *)
LEMMA ClaimedTasks ==
  ASSUME IInv, NEW w \in Workers, Cardinality(DOMAIN inflight[w]) < Concurrency[w]
  PROVE  /\ Claimed(w) \subseteq pending /\ \A t \in Claimed(w) : IsStale(t)
         /\ Cardinality(DOMAIN inflight[w]) + Cardinality(Claimed(w)) <= Concurrency[w]
<1> DEFINE n == Free(w)
<1> DEFINE examined == First(ScanFactor * n, pending)
<1> DEFINE stale == {t \in examined : IsStale(t)}
<1>1. /\ Concurrency[w] \in Nat /\ Cardinality(DOMAIN inflight[w]) \in Nat
      /\ n = Concurrency[w] - Cardinality(DOMAIN inflight[w]) /\ ScanFactor \in Nat
  BY Constants, HeldTasks DEF Free
<1>2. n \in Nat
  BY <1>1
<1> HIDE DEF n
<1>3. examined \subseteq pending
  BY DEF First
<1>4. stale \in SUBSET Nat /\ IsFiniteSet(stale)
  <2>1. stale \in SUBSET Tasks
    BY <1>3, HeldTasks
  <2> QED BY <2>1, TaskSets
<1>5. /\ First(n, stale) \subseteq stale /\ IsFiniteSet(First(n, stale))
      /\ Cardinality(First(n, stale)) <= n
  BY <1>2, <1>4, FirstAreFew
<1>6. Claimed(w) = First(n, stale)
  BY DEF Claimed, n
<1>7. Cardinality(First(n, stale)) \in Nat
  BY <1>5, FS_CardinalityType
<1> QED BY <1>1, <1>2, <1>3, <1>5, <1>6, <1>7

(* Redis gives tasks to w: nobody who is alive and in time holds them.     *)
LEMMA ClaimStep ==
  ASSUME IInv, NEW w \in Workers, Claim(w)
  PROVE  IInv'
<1>1. /\ worker[w].alive /\ ~worker[w].claiming
      /\ Cardinality(DOMAIN inflight[w]) < Concurrency[w]
      /\ UNCHANGED <<pending, next, inflight, runs, late, faults>>
      /\ idle' = [t \in Tasks |-> IF t \in Claimed(w) THEN 0 ELSE idle[t]]
      /\ worker' = [worker EXCEPT ![w].claiming = TRUE, ![w].reply = Claimed(w),
                                  ![w].waited = 0]
  BY DEF Claim
<1>2. /\ Claimed(w) \subseteq pending /\ \A t \in Claimed(w) : IsStale(t)
      /\ Cardinality(DOMAIN inflight[w]) + Cardinality(Claimed(w)) <= Concurrency[w]
  BY <1>1, ClaimedTasks
<1>3. worker \in [Workers -> WorkerStates] /\ pending \in SUBSET Tasks
  BY HeldTasks DEF IInv, Types
<1>4. /\ worker' \in [Workers -> WorkerStates]
      /\ \A v \in Workers \ {w} : worker'[v] = worker[v]
      /\ worker'[w].claiming /\ worker'[w].reply = Claimed(w) /\ worker'[w].waited = 0
      /\ worker'[w].alive /\ worker'[w].renews = worker[w].renews
      /\ worker'[w].timer = worker[w].timer
  <2>1. Claimed(w) \in SUBSET Tasks
    BY <1>2, <1>3
  <2> QED BY <1>1, <1>3, <2>1 DEF WorkerStates
<1>5. /\ \A t \in Tasks : idle[t] \in Nat /\ idle'[t] \in Nat /\ idle'[t] <= idle[t]
      /\ \A t \in Claimed(w) : idle'[t] = 0
      /\ idle' \in [Tasks -> 0 .. Debounce]
  <2>1. Debounce \in Nat /\ \A t \in Tasks : idle[t] \in 0 .. Debounce
    BY Constants DEF IInv, Types
  <2>2. \A t \in Tasks : idle'[t] = IF t \in Claimed(w) THEN 0 ELSE idle[t]
    BY <1>1
  <2>3. \A t \in Tasks : idle'[t] \in 0 .. Debounce /\ idle'[t] <= idle[t]
    BY <2>1, <2>2
  <2>4. idle' = [t \in Tasks |-> idle'[t]]
    BY <1>1
  <2> QED BY <1>2, <1>3, <2>1, <2>2, <2>3, <2>4
<1>6. Types'
  BY <1>1, <1>4, <1>5 DEF Types, IInv
<1>7. Named'
  <2>1. NoneStarts
    BY <1>1, RunsStay
  <2> QED BY <2>1 DEF NoneStarts
<1>8. (Holds(w))' = DOMAIN inflight[w] \union Claimed(w)
  BY <1>1, <1>4 DEF Holds
<1>9. \A v \in Workers \ {w} : (Holds(v))' = Holds(v)
  BY <1>1, <1>4 DEF Holds
<1>10. ASSUME NEW v \in Workers PROVE Bounded(v)'
  <2>1. Bounded(v) /\ next' = next
    BY <1>1 DEF IInv
  <2>2. CASE v # w
    BY <1>1, <1>4, <1>9, <2>1, <2>2 DEF Bounded
  <2>3. CASE v = w
    <3>1. (Holds(w))' \subseteq 1 .. (next' - 1)
      <4>1. pending \subseteq 1 .. (next - 1) /\ DOMAIN inflight[w] \subseteq 1 .. (next - 1)
        BY <2>1, <2>3 DEF Bounded, Holds, IInv, Types
      <4> QED BY <1>2, <1>8, <2>1, <4>1
    <3>2. Cardinality(DOMAIN inflight'[w]) + Cardinality(worker'[w].reply) <= Concurrency[w]
      BY <1>1, <1>2, <1>4
    <3>3. worker'[w].alive => worker'[w].renews
      BY <1>1, <1>4, <2>1, <2>3 DEF Bounded
    <3> QED BY <1>4, <2>3, <3>1, <3>2, <3>3 DEF Bounded
  <2> QED BY <2>2, <2>3
<1>11. ASSUME ~late', NEW v \in Workers \ {w}, worker[v].alive
       PROVE  Holds(v) \intersect (Holds(w))' = {}
  <2>1. Disjoint /\ ~late
    BY <1>1, <1>11 DEF IInv, InTime
  <2>2. Holds(v) \intersect DOMAIN inflight[w] = {}
    BY <1>1, <1>11, <2>1 DEF Disjoint, Holds
  <2>3. Holds(v) \intersect Claimed(w) = {}
    BY <1>2, <1>11, <2>1, HeldIsFresh
  <2> QED BY <1>8, <2>2, <2>3
<1>12. ASSUME ~late' PROVE Disjoint'
  <2>1. Disjoint
    BY <1>1, <1>12 DEF IInv, InTime
  <2> SUFFICES ASSUME NEW u \in Workers, NEW v \in Workers,
                      worker'[u].alive, worker'[v].alive,
                      (Holds(u))' \intersect (Holds(v))' # {}, u # v
               PROVE  FALSE
    BY DEF Disjoint
  <2>2. CASE u = w
    BY <1>4, <1>9, <1>11, <1>12, <2>2
  <2>3. CASE v = w
    BY <1>4, <1>9, <1>11, <1>12, <2>3
  <2>4. CASE u # w /\ v # w
    BY <1>4, <1>9, <2>1, <2>4 DEF Disjoint
  <2> QED BY <2>2, <2>3, <2>4
<1>13. ASSUME ~late', NEW v \in Workers PROVE Leases(v)'
  <2>1. Leases(v)
    BY <1>1, <1>13 DEF IInv, InTime
  <2>2. CASE v = w
    <3>1. /\ worker[w].timer \in Nat /\ ReplyWithin \in Nat
      BY <1>3, Constants DEF WorkerStates
    <3>2. worker'[w].renews => worker'[w].timer <= RenewEvery
      BY <1>4, <2>1, <2>2 DEF Leases
    <3>3. worker'[w].waited <= ReplyWithin
      BY <1>4, <3>1
    <3>4. \A t \in worker'[w].reply : idle'[t] <= worker'[w].waited
      BY <1>4, <1>5
    <3>5. ASSUME NEW t \in DOMAIN inflight'[w] \intersect pending'
          PROVE  idle'[t] <= worker'[w].timer + ReplyWithin
      <4>1. t \in DOMAIN inflight[w] \intersect pending /\ t \in Tasks
        BY <1>1, <1>3
      <4>2. idle[t] <= worker[w].timer + ReplyWithin
        BY <1>1, <2>1, <2>2, <4>1 DEF Leases
      <4> QED BY <1>4, <1>5, <3>1, <4>1, <4>2
    <3> QED BY <2>2, <3>2, <3>3, <3>4, <3>5 DEF Leases
  <2>3. CASE v # w
    <3>1. Quiet(v)
      BY <1>4, <2>3 DEF Quiet
    <3>2. DOMAIN inflight'[v] \subseteq DOMAIN inflight[v]
          /\ pending' \intersect Holds(v) \subseteq pending
      BY <1>1
    <3> QED BY <1>5, <2>1, <3>1, <3>2, QuietLeases
  <2> QED BY <2>2, <2>3
<1>14. InTime'
  BY <1>12, <1>13 DEF InTime
<1> QED BY <1>6, <1>7, <1>10, <1>14 DEF IInv

(* A fresh run has a number that no run of its task has.                   *)
LEMMA FreshIsNew ==
  ASSUME IInv, NEW w \in Workers, NEW t \in Tasks
  PROVE  /\ FreshRun(w, t) \in 1 .. MaxRuns + 1
         /\ \A r \in runs : r.worker = w /\ r.task = t => r.n # FreshRun(w, t)
<1> DEFINE free == (1 .. MaxRuns + 1) \ {r.n : r \in RunsOf(w, t)}
<1>1. MaxRuns \in Nat
  BY Constants
<1>2. \A r \in RunsOf(w, t) : r.n \in 1 .. MaxRuns
  BY DEF RunsOf, IInv, Types, RunStates
<1>3. MaxRuns + 1 \in free /\ free \in SUBSET Nat
  BY <1>1, <1>2
<1>4. Min(free) \in free
  BY <1>3, LeastElement
<1>5. FreshRun(w, t) \in free
  BY <1>4 DEF FreshRun
<1> QED BY <1>5 DEF RunsOf

(* The reply is read: its tasks are computed, unless they already are.     *)
LEMMA RunsStart ==
  ASSUME IInv, NEW w \in Workers, StartRuns(w)
  PROVE  /\ RunTypes' /\ Named'
         /\ DOMAIN inflight'[w] = Holds(w)
         /\ \A v \in Workers \ {w} : inflight'[v] = inflight[v]
<1> DEFINE n(t) == FreshRun(w, t)
<1> DEFINE new(t) == [worker |-> w, task |-> t, n |-> n(t), age |-> 0, wedged |-> FALSE,
                      abandoned |-> FALSE]
<1> DEFINE entries == [t \in DOMAIN inflight[w] \union NewTasks(w) |->
                         IF t \in NewTasks(w) THEN n(t) ELSE inflight[w][t]]
<1>1. RunTypes /\ Named
  BY DEF IInv, Types, RunTypes
<1>2. /\ inflight' = [inflight EXCEPT ![w] = entries]
      /\ runs' = runs \union {new(t) : t \in NewTasks(w)}
  BY DEF StartRuns
<1>3. NewTasks(w) \subseteq Tasks /\ NewTasks(w) \intersect DOMAIN inflight[w] = {}
  BY HeldTasks DEF NewTasks
<1>4. \A t \in NewTasks(w) :
        n(t) \in 1 .. MaxRuns /\ \A r \in runs : r.worker = w /\ r.task = t => r.n # n(t)
  <2>1. ASSUME NEW t \in NewTasks(w) PROVE n(t) \in 1 .. MaxRuns
    <3>1. n(t) \in 1 .. MaxRuns + 1 /\ n(t) <= MaxRuns /\ MaxRuns \in Nat
      BY <1>3, FreshIsNew, Constants DEF StartRuns
    <3> HIDE DEF n
    <3> QED BY <3>1
  <2> QED BY <1>3, <2>1, FreshIsNew
<1> HIDE DEF n
<1>5. /\ inflight'[w] = entries
      /\ \A v \in Workers \ {w} : inflight'[v] = inflight[v]
      /\ inflight' = [v \in Workers |-> inflight'[v]]
  BY <1>1, <1>2 DEF RunTypes
<1>6. /\ DOMAIN inflight'[w] = DOMAIN inflight[w] \union NewTasks(w)
      /\ \A t \in NewTasks(w) : inflight'[w][t] = n(t)
      /\ \A t \in DOMAIN inflight[w] : inflight'[w][t] = inflight[w][t]
  BY <1>3, <1>5
<1>7. \A t \in NewTasks(w) :
        /\ new(t) \in RunStates /\ new(t).worker = w /\ new(t).task = t /\ new(t).n = n(t)
        /\ new(t).abandoned = FALSE
  <2>1. 0 \in 0 .. MaxDuration + 1
    BY Constants
  <2> QED BY <1>3, <1>4, <2>1 DEF RunStates
<1> HIDE DEF new, entries
<1>8. RunTypes'
  <2>1. ASSUME NEW v \in Workers
        PROVE  inflight'[v] \in [DOMAIN inflight'[v] -> 1 .. MaxRuns]
    <3>1. CASE v = w
      <4>1. inflight[w] \in [DOMAIN inflight[w] -> 1 .. MaxRuns]
        BY <1>1 DEF RunTypes
      <4>2. \A t \in DOMAIN inflight[w] \union NewTasks(w) : inflight'[w][t] \in 1 .. MaxRuns
        BY <1>4, <1>6, <4>1
      <4>3. inflight'[w] = [t \in DOMAIN inflight'[w] |-> inflight'[w][t]]
        BY <1>5 DEF entries
      <4> QED BY <1>6, <3>1, <4>2, <4>3
    <3>2. CASE v # w
      BY <1>1, <1>5, <3>2 DEF RunTypes
    <3> QED BY <3>1, <3>2
  <2>2. runs' \subseteq RunStates
    BY <1>1, <1>2, <1>7 DEF RunTypes
  <2> QED BY <1>5, <2>1, <2>2 DEF RunTypes
<1>9. \A s \in runs' : s \in runs \/ \E t \in NewTasks(w) : s = new(t)
  BY <1>2
<1>10. ASSUME NEW p \in runs', NEW s \in runs', SameRun(p, s) PROVE p = s
  <2>1. CASE p \in runs /\ s \in runs
    BY <1>1, <1>10, <2>1 DEF Named
  <2>2. CASE p \in runs /\ s \notin runs
    BY <1>4, <1>7, <1>9, <1>10, <2>2 DEF SameRun
  <2>3. CASE p \notin runs /\ s \in runs
    BY <1>4, <1>7, <1>9, <1>10, <2>3 DEF SameRun
  <2>4. CASE p \notin runs /\ s \notin runs
    BY <1>7, <1>9, <1>10, <2>4 DEF SameRun
  <2> QED BY <2>1, <2>2, <2>3, <2>4
<1>11. ASSUME NEW s \in runs' PROVE ~s.abandoned <=> (Held(s.worker, s))'
  <2>1. CASE s \in runs
    <3>1. s.worker \in Workers /\ (~s.abandoned <=> Held(s.worker, s))
      BY <1>1, <2>1 DEF RunTypes, RunStates, Named
    <3>2. (Held(s.worker, s))' <=>
            s.task \in DOMAIN inflight'[s.worker] /\ inflight'[s.worker][s.task] = s.n
      BY DEF Held
    <3>3. CASE s.worker # w
      BY <1>5, <3>1, <3>2, <3>3 DEF Held
    <3>4. CASE s.worker = w /\ s.task \in NewTasks(w)
      <4>1. ~Held(s.worker, s)
        BY <1>3, <3>4 DEF Held
      <4>2. inflight'[w][s.task] = n(s.task) /\ s.n # n(s.task)
        BY <1>4, <1>6, <2>1, <3>4
      <4> QED BY <3>1, <3>2, <3>4, <4>1, <4>2
    <3>5. CASE s.worker = w /\ s.task \notin NewTasks(w)
      BY <1>6, <3>1, <3>2, <3>5 DEF Held
    <3> QED BY <3>3, <3>4, <3>5
  <2>2. CASE s \notin runs
    <3>1. PICK t \in NewTasks(w) : s = new(t)
      BY <1>9, <2>2
    <3> QED BY <1>6, <1>7, <3>1 DEF Held
  <2> QED BY <2>1, <2>2
<1>12. ASSUME NEW v \in Workers, NEW t \in DOMAIN inflight'[v]
       PROVE  \E s \in runs' : s.worker = v /\ s.task = t /\ s.n = inflight'[v][t]
  <2>1. CASE v = w /\ t \in NewTasks(w)
    <3>1. new(t) \in runs'
      BY <1>2, <2>1
    <3> QED BY <1>6, <1>7, <2>1, <3>1
  <2>2. CASE v # w \/ t \notin NewTasks(w)
    <3>1. t \in DOMAIN inflight[v] /\ inflight'[v][t] = inflight[v][t]
      BY <1>5, <1>6, <1>12, <2>2
    <3>2. PICK r \in runs : r.worker = v /\ r.task = t /\ r.n = inflight[v][t]
      BY <1>1, <3>1 DEF Named
    <3> QED BY <1>2, <3>1, <3>2
  <2> QED BY <2>1, <2>2
<1>13. Named'
  BY <1>10, <1>11, <1>12 DEF Named, SameRun
<1>14. DOMAIN inflight'[w] = Holds(w)
  BY <1>6 DEF Holds, NewTasks
<1> QED BY <1>5, <1>8, <1>13, <1>14

(* What w holds is the same before and after it reads the reply.           *)
LEMMA StartRunsStep ==
  ASSUME IInv, NEW w \in Workers, StartRuns(w)
  PROVE  IInv'
<1>1. /\ RunTypes' /\ Named' /\ DOMAIN inflight'[w] = Holds(w)
      /\ \A v \in Workers \ {w} : inflight'[v] = inflight[v]
      /\ UNCHANGED <<redisVars, late, faults>> /\ worker[w].claiming
      /\ worker' = [worker EXCEPT ![w] = Answered(w)]
  BY RunsStart DEF StartRuns
<1>2. worker \in [Workers -> WorkerStates]
  BY DEF IInv, Types
<1>3. /\ Answered(w) \in WorkerStates
      /\ Answered(w).renews = worker[w].renews /\ Answered(w).timer = worker[w].timer
      /\ Answered(w).alive = worker[w].alive /\ Answered(w).claiming = FALSE
      /\ Answered(w).reply = {}
  BY <1>2 DEF Answered, WorkerStates
<1>4. /\ worker' \in [Workers -> WorkerStates] /\ worker'[w] = Answered(w)
      /\ \A v \in Workers \ {w} : worker'[v] = worker[v]
  BY <1>1, <1>2, <1>3
<1>5. pending' = pending /\ next' = next /\ idle' = idle
  BY <1>1 DEF redisVars
<1>6. Types'
  BY <1>1, <1>4, <1>5 DEF Types, RunTypes, IInv
<1>7. \A v \in Workers : (Holds(v))' = Holds(v)
  <2>1. (Holds(w))' = Holds(w)
    BY <1>1, <1>3, <1>4 DEF Holds
  <2>2. ASSUME NEW v \in Workers \ {w} PROVE (Holds(v))' = Holds(v)
    BY <1>1, <1>4 DEF Holds
  <2> QED BY <2>1, <2>2
<1>8. ASSUME NEW v \in Workers PROVE Bounded(v)'
  <2>1. Bounded(v)
    BY DEF IInv
  <2>2. CASE v # w
    BY <1>1, <1>4, <1>5, <1>7, <2>1, <2>2 DEF Bounded
  <2>3. CASE v = w
    <3> DEFINE D == DOMAIN inflight[w]
    <3> DEFINE R == worker[w].reply
    <3>1. /\ IsFiniteSet(D) /\ IsFiniteSet(R)
          /\ Cardinality(D) \in Nat /\ Cardinality(R) \in Nat /\ Concurrency[w] \in Nat
          /\ Cardinality(D) + Cardinality(R) <= Concurrency[w]
      BY <2>1, <2>3, HeldTasks, Constants DEF Bounded
    <3>2. DOMAIN inflight'[w] = D \union R
      BY <1>1 DEF Holds
    <3> HIDE DEF D, R
    <3>3. /\ Cardinality(D \union R) = Cardinality(D) + Cardinality(R) - Cardinality(D \intersect R)
          /\ IsFiniteSet(D \union R)
      BY <3>1, FS_Union
    <3>4. Cardinality(D \intersect R) \in Nat /\ Cardinality(D \union R) \in Nat
      BY <3>1, <3>3, FS_Intersection, FS_CardinalityType
    <3>5. Cardinality(D \union R) <= Concurrency[w]
      BY <3>1, <3>3, <3>4
    <3>6. Cardinality(worker'[w].reply) = 0
      BY <1>3, <1>4, FS_EmptySet
    <3>7. Cardinality(DOMAIN inflight'[w]) + Cardinality(worker'[w].reply) <= Concurrency[w]
      BY <3>2, <3>4, <3>5, <3>6
    <3>8. (Holds(w))' \subseteq 1 .. (next' - 1)
      BY <1>5, <1>7, <2>1, <2>3 DEF Bounded
    <3>9. /\ worker'[w].reply # {} => worker'[w].claiming
          /\ worker'[w].alive => worker'[w].renews
      BY <1>3, <1>4, <2>1, <2>3 DEF Bounded
    <3> QED BY <2>3, <3>7, <3>8, <3>9 DEF Bounded
  <2> QED BY <2>2, <2>3
<1>9. \A v \in Workers : worker'[v].alive = worker[v].alive
  BY <1>3, <1>4
<1>10. ASSUME ~late' PROVE Disjoint'
  <2>1. Disjoint
    BY <1>1, <1>10 DEF IInv, InTime
  <2> QED BY <1>7, <1>9, <2>1, StillDisjoint
<1>11. ASSUME ~late', NEW v \in Workers PROVE Leases(v)'
  <2>1. Leases(v)
    BY <1>1, <1>11 DEF IInv, InTime
  <2>2. CASE v # w
    BY <1>1, <1>4, <1>5, <2>1, <2>2 DEF Leases
  <2>3. CASE v = w
    <3>1. /\ worker[w].timer \in Nat /\ worker[w].waited \in Nat /\ ReplyWithin \in Nat
      BY <1>2, Constants DEF WorkerStates
    <3>2. worker[w].waited <= ReplyWithin
      BY <1>1, <2>1, <2>3 DEF Leases
    <3>3. ASSUME worker[w].alive, NEW t \in Holds(w) \intersect pending
          PROVE  idle[t] <= worker[w].timer + ReplyWithin
      <4>1. CASE t \in DOMAIN inflight[w]
        BY <2>1, <2>3, <3>3, <4>1 DEF Leases
      <4>2. CASE t \in worker[w].reply
        <5>1. idle[t] <= worker[w].waited /\ t \in Tasks
          BY <2>1, <2>3, <3>3, <4>2, HeldTasks DEF Leases
        <5>2. idle[t] \in Nat
          BY <5>1, Constants DEF IInv, Types
        <5> QED BY <3>1, <3>2, <5>1, <5>2
      <4> QED BY <3>3, <4>1, <4>2 DEF Holds
    <3>4. worker'[w].renews => worker'[w].timer <= RenewEvery
      BY <1>3, <1>4, <2>1, <2>3 DEF Leases
    <3> QED BY <1>1, <1>3, <1>4, <1>5, <2>3, <3>3, <3>4 DEF Leases
  <2> QED BY <2>2, <2>3
<1>12. InTime'
  BY <1>10, <1>11 DEF InTime
<1> QED BY <1>1, <1>6, <1>8, <1>12 DEF IInv

-----------------------------------------------------------------------------
(* The initial state: no tasks, no runs.                                   *)
LEMMA InitInvariant == Init => IInv
<1> SUFFICES ASSUME Init PROVE IInv
  OBVIOUS
<1>1. Types
  <2>1. /\ 1 \in 1 .. MaxTasks + 1 /\ 0 \in 0 .. Debounce /\ 0 \in 0 .. MaxFaults
    BY Constants
  <2>2. NewWorker \in WorkerStates
    BY DEF NewWorker, WorkerStates
  <2>3. DOMAIN NoRuns = {} /\ NoRuns \in [{} -> 1 .. MaxRuns]
    BY DEF NoRuns
  <2> QED BY <2>1, <2>2, <2>3 DEF Init, Types
<1>2. ASSUME NEW w \in Workers
      PROVE  /\ DOMAIN inflight[w] = {} /\ worker[w].reply = {} /\ ~worker[w].claiming
             /\ worker[w].renews /\ worker[w].timer = 0
  BY DEF Init, NoRuns, NewWorker
<1>3. ASSUME NEW w \in Workers PROVE Bounded(w) /\ Leases(w)
  <2>1. Cardinality({}) = 0 /\ Concurrency[w] \in Nat /\ RenewEvery \in Nat
    BY Constants, FS_EmptySet
  <2>2. DOMAIN inflight[w] = {} /\ worker[w].reply = {} /\ Holds(w) = {}
    BY <1>2 DEF Holds
  <2>3. Cardinality(DOMAIN inflight[w]) + Cardinality(worker[w].reply) <= Concurrency[w]
    BY <2>1, <2>2
  <2> QED BY <1>2, <2>1, <2>2, <2>3 DEF Bounded, Leases
<1>4. Named
  BY <1>2 DEF Init, Named
<1>5. Disjoint
  BY <1>2 DEF Disjoint, Holds
<1> QED BY <1>1, <1>3, <1>4, <1>5 DEF IInv, InTime

(* Every step keeps the invariant.                                         *)
LEMMA NextInvariant == IInv /\ [Next]_vars => IInv'
<1> SUFFICES ASSUME IInv, [Next]_vars PROVE IInv'
  OBVIOUS
<1>1. CASE AddTask
  BY <1>1, AddTaskStep
<1>2. CASE Tick
  BY <1>2, TickStep
<1>3. ASSUME NEW w \in Workers, Claim(w) PROVE IInv'
  BY <1>3, ClaimStep
<1>4. ASSUME NEW w \in Workers, LoseReply(w) PROVE IInv'
  BY <1>4, LoseReplyStep
<1>5. ASSUME NEW w \in Workers, StartRuns(w) PROVE IInv'
  BY <1>5, StartRunsStep
<1>6. ASSUME NEW w \in Workers, Renew(w) \/ RenewalFails(w) PROVE IInv'
  BY <1>6, RenewStep
<1>7. ASSUME NEW w \in Workers, Stop(w) PROVE IInv'
  BY <1>7, StopStep
<1>8. ASSUME NEW w \in Workers, Crash(w) \/ Replace(w) PROVE IInv'
  <2>1. EndProcess(w)
    BY <1>8 DEF Crash, Replace
  <2>2. faults' \in 0 .. MaxFaults
    <3>1. CASE Fault
      BY <3>1, FaultType
    <3>2. CASE UNCHANGED faults
      BY <3>2 DEF IInv, Types
    <3> QED BY <1>8, <3>1, <3>2 DEF Crash, Replace
  <2> QED BY <2>1, <2>2, EndProcessStep
<1>9. ASSUME NEW r \in runs, Complete(r) PROVE IInv'
  BY <1>9, CompleteStep
<1>10. ASSUME NEW r \in runs, Fail(r) PROVE IInv'
  BY <1>10, FailStep
<1>11. ASSUME NEW r \in runs, Wedge(r) PROVE IInv'
  BY <1>11, WedgeStep
<1>12. CASE UNCHANGED vars
  <2>1. /\ pending' = pending /\ idle' = idle /\ next' = next /\ worker' = worker
        /\ inflight' = inflight /\ runs' = runs /\ late' = late /\ faults' = faults
    BY <1>12 DEF vars, redisVars
  <2>2. Types' /\ Named' /\ InTime' /\ \A w \in Workers : Bounded(w)'
    BY <2>1 DEF IInv, Types, Named, Held, InTime, Disjoint, Leases, Bounded, Holds
  <2> QED BY <2>2 DEF IInv
<1> QED
  BY <1>1, <1>2, <1>3, <1>4, <1>5, <1>6, <1>7, <1>8, <1>9, <1>10, <1>11, <1>12 DEF Next

(* IInv holds in every reachable state. *)
THEOREM Invariant == Spec => []IInv
BY InitInvariant, NextInvariant, PTL DEF Spec

(* A process holds the runs that it started and neither ended nor          *)
(* abandoned, and never more than its taskConcurrency.                     *)
THEOREM WorkersHoldTheirRuns == Spec => []HoldsItsRuns
<1>1. IInv => TypeOK
  <2> SUFFICES ASSUME IInv PROVE TypeOK
    OBVIOUS
  <2>1. Types /\ \A w \in Workers : worker[w].reply # {} => worker[w].claiming
    BY DEF IInv, Bounded
  <2> QED BY <2>1 DEF Types, TypeOK, WorkerStates, RunStates
<1>2. ASSUME IInv, NEW w \in Workers PROVE Cardinality(DOMAIN inflight[w]) <= Concurrency[w]
  <2>1. /\ Cardinality(DOMAIN inflight[w]) \in Nat /\ Cardinality(worker[w].reply) \in Nat
        /\ Concurrency[w] \in Nat
        /\ Cardinality(DOMAIN inflight[w]) + Cardinality(worker[w].reply) <= Concurrency[w]
    BY <1>2, HeldTasks, Constants DEF IInv, Bounded
  <2> QED BY <2>1
<1>3. ASSUME IInv, NEW w \in Workers
      PROVE  {<<t, inflight[w][t]>> : t \in DOMAIN inflight[w]}
               = {<<r.task, r.n>> : r \in {s \in runs : s.worker = w /\ ~s.abandoned}}
  <2>1. ASSUME NEW t \in DOMAIN inflight[w]
        PROVE  \E r \in runs : /\ r.worker = w /\ ~r.abandoned
                               /\ r.task = t /\ r.n = inflight[w][t]
    <3>1. PICK r \in runs : r.worker = w /\ r.task = t /\ r.n = inflight[w][t]
      BY <1>3, <2>1 DEF IInv, Named
    <3>2. ~r.abandoned
      BY <1>3, <2>1, <3>1 DEF IInv, Named, Held
    <3> QED BY <3>1, <3>2
  <2>2. ASSUME NEW r \in runs, r.worker = w, ~r.abandoned
        PROVE  r.task \in DOMAIN inflight[w] /\ inflight[w][r.task] = r.n
    BY <1>3, <2>2 DEF IInv, Named, Held
  <2> QED BY <2>1, <2>2
<1>4. IInv => HoldsItsRuns
  BY <1>1, <1>2, <1>3 DEF HoldsItsRuns
<1> QED BY <1>4, Invariant, PTL

(* As long as loops and replies are in time, no task is computed by two    *)
(* workers that are alive and have not let go of it.                       *)
THEOREM LeasesAreExclusive == Spec => []LeaseIsExclusive
<1>1. ASSUME IInv, ~late, NEW r \in runs, NEW s \in runs, r.task = s.task,
             ~r.abandoned, ~s.abandoned, worker[r.worker].alive, worker[s.worker].alive
      PROVE  r = s
  <2>1. r.worker \in Workers /\ s.worker \in Workers
    BY <1>1 DEF IInv, Types, RunStates
  <2>2. Held(r.worker, r) /\ Held(s.worker, s)
    BY <1>1 DEF IInv, Named
  <2>3. r.task \in Holds(r.worker) \intersect Holds(s.worker)
    BY <1>1, <2>2 DEF Held, Holds
  <2>4. r.worker = s.worker
    BY <1>1, <2>1, <2>3 DEF IInv, InTime, Disjoint
  <2>5. SameRun(r, s)
    BY <1>1, <2>2, <2>4 DEF Held, SameRun
  <2> QED BY <1>1, <2>5 DEF IInv, Named
<1>2. IInv => LeaseIsExclusive
  BY <1>1 DEF LeaseIsExclusive
<1> QED BY <1>2, Invariant, PTL

-----------------------------------------------------------------------------
(* The workers share the tasks as TaskLeases has it: every step is one of   *)
(* TaskLeases, or it changes nothing that TaskLeases knows.                  *)

HeldMap == [w \in Workers |-> HeldBy(w)]

(* The workers other than w hold what they held.                           *)
OthersHold(w) == \A v \in Workers \ {w} : (HeldBy(v))' = HeldBy(v)

(* Strays, by cases.                                                       *)
LEMMA StrayTasks ==
  ASSUME NEW t
  PROVE  /\ t \in Strays <=> \/ \E w \in Workers : ~worker[w].alive /\ t \in Holds(w)
                             \/ \E r \in runs : r.abandoned /\ r.task = t
         /\ t \in Strays' <=> \/ \E w \in Workers : ~worker'[w].alive /\ t \in (Holds(w))'
                              \/ \E r \in runs' : r.abandoned /\ r.task = t
BY DEF Strays

(* If nobody stops and no run is abandoned, nothing new strays.            *)
LEMMA NoneStray ==
  ASSUME \A w \in Workers : ~worker'[w].alive => ~worker[w].alive /\ (Holds(w))' \subseteq Holds(w),
         \A s \in runs' : s.abandoned => \E r \in runs : r.abandoned /\ r.task = s.task
  PROVE  Strays' \subseteq Strays
<1> SUFFICES ASSUME NEW t \in Strays' PROVE t \in Strays
  OBVIOUS
<1>1. CASE \E w \in Workers : ~worker'[w].alive /\ t \in (Holds(w))'
  BY <1>1, StrayTasks
<1>2. CASE \E r \in runs' : r.abandoned /\ r.task = t
  BY <1>2, StrayTasks
<1> QED BY <1>1, <1>2, StrayTasks

(* Nor does anything come back.                                            *)
LEMMA NoneReturns ==
  ASSUME NEW T,
         \A w \in Workers : ~worker[w].alive => ~worker'[w].alive /\ Holds(w) \ T \subseteq (Holds(w))',
         \A r \in runs : r.abandoned /\ r.task \notin T => \E s \in runs' : s.abandoned /\ s.task = r.task
  PROVE  Strays \ T \subseteq Strays'
<1> SUFFICES ASSUME NEW t \in Strays, t \notin T PROVE t \in Strays'
  OBVIOUS
<1>1. CASE \E w \in Workers : ~worker[w].alive /\ t \in Holds(w)
  BY <1>1, StrayTasks
<1>2. CASE \E r \in runs : r.abandoned /\ r.task = t
  BY <1>2, StrayTasks
<1> QED BY <1>1, <1>2, StrayTasks

(* Nothing happens that TaskLeases knows of.                               *)
LEMMA LeasesStutter ==
  ASSUME \A w \in Workers : (HeldBy(w))' = HeldBy(w), Strays' = Strays,
         UNCHANGED <<pending, next, late>>
  PROVE  UNCHANGED Leased!vars
<1>1. HeldMap' = HeldMap
  BY DEF HeldMap
<1> QED BY <1>1 DEF Leased!vars, HeldMap

(* A worker lets go of tasks.                                              *)
LEMMA LeasesLetGo ==
  ASSUME NEW w \in Workers, OthersHold(w), (HeldBy(w))' \subseteq HeldBy(w),
         Strays' \subseteq Strays \union HeldBy(w), late' \in {late, TRUE},
         UNCHANGED <<pending, next>>
  PROVE  Leased!Next
<1>1. HeldMap[w] = HeldBy(w)
  BY DEF HeldMap
<1>2. HeldMap' = [HeldMap EXCEPT ![w] = (HeldBy(w))']
  BY DEF HeldMap, OthersHold
<1>3. Leased!LetGo(w)
  BY <1>1, <1>2 DEF Leased!LetGo, HeldMap
<1> QED BY <1>3 DEF Leased!Next

-----------------------------------------------------------------------------
(* A run is in the hands of its worker, or astray.                         *)
LEMMA RunsAreTaken ==
  ASSUME IInv, NEW r \in runs
  PROVE  /\ r.worker \in Workers /\ r.task \in Tasks
         /\ r.task \in Strays \union HeldBy(r.worker)
<1>1. r.worker \in Workers /\ r.task \in Tasks /\ r.abandoned \in BOOLEAN
  BY DEF IInv, Types, RunStates
<1>2. CASE r.abandoned
  BY <1>1, <1>2, StrayTasks
<1>3. CASE ~r.abandoned
  <2>1. r.task \in Holds(r.worker)
    BY <1>3 DEF IInv, Named, Held, Holds
  <2> QED BY <1>1, <2>1, StrayTasks DEF HeldBy
<1> QED BY <1>1, <1>2, <1>3

(* A run that ends takes at most its own task from its worker, and from    *)
(* what is astray.                                                         *)
LEMMA RunIsGone ==
  ASSUME IInv, NEW r \in runs, EndRun(r), UNCHANGED worker
  PROVE  /\ OthersHold(r.worker)
         /\ (HeldBy(r.worker))' \in {HeldBy(r.worker), HeldBy(r.worker) \ {r.task}}
         /\ Strays' \in {Strays, Strays \ {r.task}}
<1> DEFINE w == r.worker
<1>1. w \in Workers /\ inflight = [v \in Workers |-> inflight[v]]
  BY RunsAreTaken DEF IInv, Types
<1>2. /\ \A v \in Workers \ {w} : inflight'[v] = inflight[v]
      /\ DOMAIN inflight'[w] \in {DOMAIN inflight[w], DOMAIN inflight[w] \ {r.task}}
  <2>1. CASE Leaves(r)
    <3>1. inflight' = [inflight EXCEPT ![w] = [t \in DOMAIN inflight[w] \ {r.task} |-> inflight[w][t]]]
      BY <2>1 DEF EndRun, Restrict
    <3> QED BY <1>1, <3>1
  <2>2. CASE ~Leaves(r)
    BY <2>2 DEF EndRun
  <2> QED BY <2>1, <2>2
<1>3. \A v \in Workers \ {w} : (Holds(v))' = Holds(v)
  BY <1>2 DEF Holds
<1>4. /\ (Holds(w))' \subseteq Holds(w) /\ Holds(w) \ {r.task} \subseteq (Holds(w))'
  BY <1>2 DEF Holds
<1> HIDE DEF w
<1>5. OthersHold(w)
  BY <1>3 DEF OthersHold, HeldBy
<1>6. /\ (HeldBy(w))' \subseteq HeldBy(w) /\ HeldBy(w) \ {r.task} \subseteq (HeldBy(w))'
  BY <1>4 DEF HeldBy
<1>7. \A v \in Workers : (Holds(v))' \subseteq Holds(v) /\ Holds(v) \ {r.task} \subseteq (Holds(v))'
  BY <1>3, <1>4
<1>8. runs' = runs \ {r}
  BY DEF EndRun
<1>9. Strays' \subseteq Strays
  BY <1>7, <1>8, NoneStray
<1>10. Strays \ {r.task} \subseteq Strays'
  <2>1. \A s \in runs : s.abandoned /\ s.task \notin {r.task} => s \in runs'
    BY <1>8
  <2> QED BY <1>7, <2>1, NoneReturns
<1>11. (HeldBy(w))' \in {HeldBy(w), HeldBy(w) \ {r.task}}
  BY <1>6
<1>12. Strays' \in {Strays, Strays \ {r.task}}
  BY <1>9, <1>10
<1> QED BY <1>5, <1>11, <1>12 DEF w

-----------------------------------------------------------------------------
(* Steps of the workers. *)

\* A task that is added is a task of TaskLeases that is added.
LEMMA AddIsAdd ==
  ASSUME AddTask
  PROVE  Leased!Next
<1>1. UNCHANGED <<worker, inflight, runs, late>>
  BY DEF AddTask
<1>2. HeldMap' = HeldMap
  BY <1>1 DEF HeldMap, HeldBy, Holds
<1>3. Strays' = Strays
  BY <1>1 DEF Strays, Holds
<1>4. Leased!Tasks = Tasks
  BY DEF Leased!Tasks, Tasks
<1>5. Leased!Add
  BY <1>1, <1>2, <1>3, <1>4 DEF AddTask, Leased!Add, HeldMap
<1> QED BY <1>5 DEF Leased!Next

(* TaskLeases counts as WorkerLease does.                                  *)
LEMMA SameCardinality == \A S : Leased!Cardinality(S) = Cardinality(S)
  BY DEF Leased!Cardinality, Cardinality

(* What redis gives away is taken.                                         *)
LEMMA ClaimIsTake ==
  ASSUME IInv, NEW w \in Workers, Claim(w)
  PROVE  Leased!Next
<1> DEFINE ts == Claimed(w)
<1>1. /\ worker[w].alive /\ ~worker[w].claiming /\ ts # {}
      /\ Cardinality(DOMAIN inflight[w]) < Concurrency[w]
      /\ UNCHANGED <<pending, next, inflight, runs, late>>
      /\ worker' = [worker EXCEPT ![w].claiming = TRUE, ![w].reply = ts, ![w].waited = 0]
  BY DEF Claim
<1>2. /\ ts \subseteq pending /\ \A t \in ts : IsStale(t)
      /\ Cardinality(DOMAIN inflight[w]) + Cardinality(ts) <= Concurrency[w]
  BY <1>1, ClaimedTasks
<1> HIDE DEF ts
<1>3. worker \in [Workers -> WorkerStates]
  BY DEF IInv, Types
<1>4. /\ \A v \in Workers \ {w} : worker'[v] = worker[v]
      /\ worker'[w].reply = ts /\ worker'[w].alive
  BY <1>1, <1>3 DEF WorkerStates
<1>5. HeldBy(w) = DOMAIN inflight[w] /\ (HeldBy(w))' = HeldBy(w) \union ts
  <2>1. worker[w].reply = {}
    BY <1>1 DEF IInv, Bounded
  <2> QED BY <1>1, <1>4, <2>1 DEF HeldBy, Holds
<1>6. \A v \in Workers \ {w} : (Holds(v))' = Holds(v)
  BY <1>1, <1>4 DEF Holds
<1>7. HeldMap' = [HeldMap EXCEPT ![w] = HeldMap[w] \union ts] /\ HeldMap[w] = HeldBy(w)
  <2>1. OthersHold(w)
    BY <1>4, <1>6 DEF OthersHold, HeldBy
  <2> QED BY <1>5, <2>1 DEF HeldMap, OthersHold
<1>8. Cardinality(HeldBy(w) \union ts) <= Concurrency[w]
  <2> DEFINE D == DOMAIN inflight[w]
  <2>1. /\ IsFiniteSet(D) /\ Cardinality(D) \in Nat /\ pending \in SUBSET Tasks
        /\ Concurrency[w] \in Nat
    BY HeldTasks, Constants
  <2>2. IsFiniteSet(ts) /\ Cardinality(ts) \in Nat
    BY <1>2, <2>1, TaskSets
  <2> HIDE DEF D
  <2>3. /\ Cardinality(D \union ts) = Cardinality(D) + Cardinality(ts) - Cardinality(D \intersect ts)
        /\ IsFiniteSet(D \union ts)
    BY <2>1, <2>2, FS_Union
  <2>4. Cardinality(D \intersect ts) \in Nat /\ Cardinality(D \union ts) \in Nat
    BY <2>1, <2>3, FS_Intersection, FS_CardinalityType
  <2>5. Cardinality(D) + Cardinality(ts) <= Concurrency[w]
    BY <1>2 DEF D
  <2>6. Cardinality(D \union ts) <= Concurrency[w]
    BY <2>1, <2>2, <2>3, <2>4, <2>5
  <2> QED BY <1>5, <2>6 DEF D
<1>9. ASSUME ~late, NEW v \in Workers PROVE HeldBy(v) \intersect ts = {}
  <2>1. CASE worker[v].alive
    BY <1>2, <1>9, <2>1, HeldIsFresh DEF HeldBy
  <2>2. CASE ~worker[v].alive
    BY <2>2 DEF HeldBy
  <2> QED BY <2>1, <2>2
<1>10. late \/ \A v \in Workers : HeldMap[v] \intersect ts = {}
  BY <1>9 DEF HeldMap
<1>11. Strays' = Strays
  <2>1. \A v \in Workers : ~worker[v].alive <=> ~worker'[v].alive
    BY <1>1, <1>4
  <2>2. \A v \in Workers : ~worker[v].alive => (Holds(v))' = Holds(v)
    BY <1>1, <1>6
  <2>3. Strays' \subseteq Strays
    BY <1>1, <2>1, <2>2, NoneStray
  <2>4. Strays \ {} \subseteq Strays'
    BY <1>1, <2>1, <2>2, NoneReturns
  <2> QED BY <2>3, <2>4
<1>12. ts \in (SUBSET pending) \ {{}}
  BY <1>1, <1>2
<1>13. Leased!Cardinality(HeldMap[w] \union ts) <= Concurrency[w]
  BY <1>7, <1>8, SameCardinality
<1>14. UNCHANGED <<pending, next, Strays, late>>
  BY <1>1, <1>11
<1>15. Leased!Take(w)
  BY <1>7, <1>10, <1>12, <1>13, <1>14, Zenon DEF Leased!Take, HeldMap
<1> QED BY <1>15 DEF Leased!Next

(* A reply that is lost takes tasks with it that nobody computes.          *)
LEMMA LoseReplyLetsGo ==
  ASSUME IInv, NEW w \in Workers, LoseReply(w)
  PROVE  Leased!Next
<1>1. /\ UNCHANGED <<redisVars, inflight, runs, late>>
      /\ worker' = [worker EXCEPT ![w] = Answered(w)]
  BY DEF LoseReply
<1>2. worker \in [Workers -> WorkerStates]
  BY DEF IInv, Types
<1>3. /\ \A v \in Workers \ {w} : worker'[v] = worker[v]
      /\ worker'[w].reply = {} /\ worker'[w].alive = worker[w].alive
  BY <1>1, <1>2 DEF Answered, WorkerStates
<1>4. \A v \in Workers : (Holds(v))' \subseteq Holds(v) /\ worker'[v].alive = worker[v].alive
  BY <1>1, <1>3 DEF Holds
<1>5. OthersHold(w)
  BY <1>1, <1>3 DEF OthersHold, HeldBy, Holds
<1>6. (HeldBy(w))' \subseteq HeldBy(w)
  BY <1>4 DEF HeldBy
<1>7. Strays' \subseteq Strays
  BY <1>1, <1>4, NoneStray
<1>8. UNCHANGED <<pending, next>> /\ late' \in {late, TRUE}
  BY <1>1 DEF redisVars
<1> QED BY <1>5, <1>6, <1>7, <1>8, LeasesLetGo

(* What a worker holds does not change when it reads the reply.            *)
LEMMA StartRunsStutters ==
  ASSUME IInv, NEW w \in Workers, StartRuns(w)
  PROVE  UNCHANGED Leased!vars
<1>1. /\ DOMAIN inflight'[w] = Holds(w)
      /\ \A v \in Workers \ {w} : inflight'[v] = inflight[v]
  BY RunsStart
<1>2. /\ UNCHANGED <<redisVars, late>> /\ worker' = [worker EXCEPT ![w] = Answered(w)]
      /\ runs' = runs \union
           {[worker |-> w, task |-> t, n |-> FreshRun(w, t), age |-> 0, wedged |-> FALSE,
             abandoned |-> FALSE] : t \in NewTasks(w)}
  BY DEF StartRuns
<1>3. worker \in [Workers -> WorkerStates]
  BY DEF IInv, Types
<1>4. /\ \A v \in Workers \ {w} : worker'[v] = worker[v]
      /\ worker'[w].reply = {} /\ worker'[w].alive = worker[w].alive
  BY <1>2, <1>3 DEF Answered, WorkerStates
<1>5. \A v \in Workers : (Holds(v))' = Holds(v) /\ worker'[v].alive = worker[v].alive
  BY <1>1, <1>4 DEF Holds
<1>6. \A v \in Workers : (HeldBy(v))' = HeldBy(v)
  BY <1>5 DEF HeldBy
<1>7. \A s \in runs' : s.abandoned => s \in runs
  BY <1>2
<1>8. runs \subseteq runs'
  BY <1>2
<1>9. Strays' \subseteq Strays
  BY <1>5, <1>7, NoneStray
<1>10. Strays \ {} \subseteq Strays'
  BY <1>5, <1>8, NoneReturns
<1>11. Strays' = Strays /\ UNCHANGED <<pending, next, late>>
  BY <1>2, <1>9, <1>10 DEF redisVars
<1> QED BY <1>6, <1>11, LeasesStutter

(* Runs that are abandoned go astray.                                      *)
LEMMA TurnLetsGo ==
  ASSUME IInv, NEW w \in Workers, Turn(w), UNCHANGED <<pending, next>>, late' \in {late, TRUE}
  PROVE  Leased!Next
<1>1. /\ DOMAIN inflight'[w] = Kept(w) /\ inflight' = [inflight EXCEPT ![w] = Restrict(@, Kept(w))]
      /\ runs' = (runs \ LetGo(w)) \union {[r EXCEPT !.abandoned = TRUE] : r \in LetGo(w)}
      /\ worker' = [worker EXCEPT ![w].timer = 0, ![w].renews = worker[w].alive]
  BY RunsLetGo DEF Turn
<1>2. /\ worker \in [Workers -> WorkerStates] /\ inflight = [v \in Workers |-> inflight[v]]
      /\ runs \subseteq RunStates
  BY DEF IInv, Types
<1>3. /\ \A v \in Workers \ {w} : worker'[v] = worker[v] /\ inflight'[v] = inflight[v]
      /\ worker'[w].reply = worker[w].reply /\ worker'[w].alive = worker[w].alive
  BY <1>1, <1>2 DEF WorkerStates
<1>4. Kept(w) \subseteq DOMAIN inflight[w]
  BY DEF Kept
<1>5. \A v \in Workers : (Holds(v))' \subseteq Holds(v) /\ worker'[v].alive = worker[v].alive
  BY <1>1, <1>3, <1>4 DEF Holds
<1>6. OthersHold(w)
  BY <1>3 DEF OthersHold, HeldBy, Holds
<1>7. (HeldBy(w))' \subseteq HeldBy(w)
  BY <1>5 DEF HeldBy
<1>8. ASSUME NEW t \in Strays' PROVE t \in Strays \union HeldBy(w)
  <2>1. CASE \E v \in Workers : ~worker'[v].alive /\ t \in (Holds(v))'
    BY <1>5, <2>1, StrayTasks
  <2>2. CASE \E s \in runs' : s.abandoned /\ s.task = t
    <3>1. PICK s \in runs' : s.abandoned /\ s.task = t
      BY <2>2
    <3>2. CASE s \in runs
      BY <3>1, <3>2, StrayTasks
    <3>3. CASE s \notin runs
      <4>1. PICK r \in LetGo(w) : s = [r EXCEPT !.abandoned = TRUE]
        BY <1>1, <3>3
      <4>2. r \in runs /\ r.worker = w
        BY DEF LetGo, Held
      <4>3. s.task = r.task
        BY <1>2, <4>1, <4>2 DEF RunStates
      <4> QED BY <3>1, <4>2, <4>3, RunsAreTaken
    <3> QED BY <3>2, <3>3
  <2> QED BY <2>1, <2>2, StrayTasks
<1> QED BY <1>6, <1>7, <1>8, LeasesLetGo

(* What a stopped worker holds goes astray.                                *)
LEMMA StopLetsGo ==
  ASSUME IInv, NEW w \in Workers, Stop(w)
  PROVE  Leased!Next
<1>1. /\ UNCHANGED <<redisVars, inflight, runs, late>> /\ worker[w].alive
      /\ worker' = [worker EXCEPT ![w].alive = FALSE]
  BY DEF Stop
<1>2. worker \in [Workers -> WorkerStates]
  BY DEF IInv, Types
<1>3. /\ \A v \in Workers \ {w} : worker'[v] = worker[v]
      /\ worker'[w].reply = worker[w].reply /\ ~worker'[w].alive
  BY <1>1, <1>2 DEF WorkerStates
<1>4. \A v \in Workers : (Holds(v))' = Holds(v)
  BY <1>1, <1>3 DEF Holds
<1>5. OthersHold(w) /\ (HeldBy(w))' = {} /\ HeldBy(w) = Holds(w)
  BY <1>1, <1>3, <1>4 DEF OthersHold, HeldBy
<1>6. ASSUME NEW t \in Strays' PROVE t \in Strays \union HeldBy(w)
  <2>1. CASE \E v \in Workers : ~worker'[v].alive /\ t \in (Holds(v))'
    <3>1. PICK v \in Workers : ~worker'[v].alive /\ t \in Holds(v)
      BY <1>4, <2>1
    <3>2. CASE v = w
      BY <1>5, <3>1, <3>2
    <3>3. CASE v # w
      BY <1>3, <3>1, <3>3, StrayTasks
    <3> QED BY <3>2, <3>3
  <2>2. CASE \E r \in runs' : r.abandoned /\ r.task = t
    BY <1>1, <2>2, StrayTasks
  <2> QED BY <2>1, <2>2, StrayTasks
<1>7. UNCHANGED <<pending, next>> /\ late' \in {late, TRUE}
  BY <1>1 DEF redisVars
<1> QED BY <1>5, <1>6, <1>7, LeasesLetGo

(* A process that ends holds nothing, and computes nothing.                *)
LEMMA EndProcessLetsGo ==
  ASSUME IInv, NEW w \in Workers, EndProcess(w)
  PROVE  Leased!Next
<1>1. /\ UNCHANGED <<redisVars, late>> /\ worker' = [worker EXCEPT ![w] = NewWorker]
      /\ inflight' = [inflight EXCEPT ![w] = NoRuns] /\ runs' = {r \in runs : r.worker # w}
  BY DEF EndProcess
<1>2. worker \in [Workers -> WorkerStates] /\ inflight = [v \in Workers |-> inflight[v]]
  BY DEF IInv, Types
<1>3. /\ \A v \in Workers \ {w} : worker'[v] = worker[v] /\ inflight'[v] = inflight[v]
      /\ worker'[w].reply = {} /\ worker'[w].alive /\ DOMAIN inflight'[w] = {}
  BY <1>1, <1>2 DEF NewWorker, NoRuns
<1>4. (Holds(w))' = {} /\ \A v \in Workers \ {w} : (Holds(v))' = Holds(v)
  BY <1>3 DEF Holds
<1>5. OthersHold(w) /\ (HeldBy(w))' = {}
  BY <1>3, <1>4 DEF OthersHold, HeldBy
<1>6. Strays' \subseteq Strays
  <2>1. \A v \in Workers : ~worker'[v].alive => ~worker[v].alive /\ (Holds(v))' \subseteq Holds(v)
    BY <1>3, <1>4
  <2>2. runs' \subseteq runs
    BY <1>1
  <2> QED BY <2>1, <2>2, NoneStray
<1>7. UNCHANGED <<pending, next>> /\ late' \in {late, TRUE}
  BY <1>1 DEF redisVars
<1> QED BY <1>5, <1>6, <1>7, LeasesLetGo

(* Whoever is late is.                                                     *)
LEMMA TickLetsGo ==
  ASSUME IInv, Tick
  PROVE  [Leased!Next]_(Leased!vars)
<1>1. /\ UNCHANGED <<pending, next, inflight>>
      /\ runs' = {[r EXCEPT !.age = AtMost(@ + 1, MaxDuration + 1)] : r \in runs}
  BY DEF Tick
<1>2. \A v \in Workers : /\ worker'[v].alive = worker[v].alive
                         /\ worker'[v].reply = worker[v].reply
  <2>1. \A v \in Workers : worker[v] \in WorkerStates
    BY DEF IInv, Types
  <2> QED BY <2>1 DEF Tick, WorkerStates
<1>3. \A v \in Workers : (Holds(v))' = Holds(v)
  BY <1>1, <1>2 DEF Holds
<1>4. \A v \in Workers : (HeldBy(v))' = HeldBy(v)
  BY <1>2, <1>3 DEF HeldBy
<1>5. /\ \A s \in runs' : s.abandoned => \E r \in runs : r.abandoned /\ r.task = s.task
      /\ \A r \in runs : r.abandoned => \E s \in runs' : s.abandoned /\ s.task = r.task
  <2> DEFINE older(r) == [r EXCEPT !.age = AtMost(@ + 1, MaxDuration + 1)]
  <2>1. \A r \in runs : older(r).abandoned = r.abandoned /\ older(r).task = r.task
    BY DEF IInv, Types, RunStates
  <2>2. runs' = {older(r) : r \in runs}
    BY <1>1
  <2> HIDE DEF older
  <2> QED BY <2>1, <2>2
<1>6. Strays' = Strays
  <2>1. Strays' \subseteq Strays
    BY <1>2, <1>3, <1>5, NoneStray
  <2>2. Strays \ {} \subseteq Strays'
    BY <1>2, <1>3, <1>5, NoneReturns
  <2> QED BY <2>1, <2>2
<1>7. CASE ~late /\ \E w \in Workers : IsLate(w)
  <2>1. PICK w \in Workers : IsLate(w)
    BY <1>7
  <2>2. late' \in {late, TRUE}
    BY <1>7 DEF Tick
  <2>3. Leased!Next
    BY <1>1, <1>4, <1>6, <2>2, LeasesLetGo DEF OthersHold
  <2> QED BY <2>3
<1>8. CASE ~(~late /\ \E w \in Workers : IsLate(w))
  <2>1. late' = late
    BY <1>8 DEF Tick
  <2> QED BY <1>1, <1>4, <1>6, <2>1, LeasesStutter
<1> QED BY <1>7, <1>8

(* A run that completes has taken its task.                                *)
LEMMA CompleteIsDone ==
  ASSUME IInv, NEW r \in runs, Complete(r)
  PROVE  Leased!Next
<1> DEFINE w == r.worker
<1> DEFINE t == r.task
<1>1. w \in Workers /\ t \in Tasks /\ t \in Strays \union HeldBy(w)
  BY RunsAreTaken
<1>2. /\ EndRun(r) /\ UNCHANGED <<worker, late>>
      /\ \/ pending' = pending \ {t} /\ UNCHANGED next
         \/ /\ t \in pending /\ next \in Tasks
            /\ pending' = (pending \ {t}) \union {next}
            /\ next' = next + 1
  BY DEF Complete
<1>3. /\ OthersHold(w) /\ (HeldBy(w))' \in {HeldBy(w), HeldBy(w) \ {t}}
      /\ Strays' \in {Strays, Strays \ {t}}
  BY <1>2, RunIsGone
<1> HIDE DEF w, t
<1>4. HeldMap[w] = HeldBy(w)
  BY <1>1 DEF HeldMap
<1>5. HeldMap' = HeldMap \/ HeldMap' = [HeldMap EXCEPT ![w] = HeldMap[w] \ {t}]
  <2>1. CASE (HeldBy(w))' = HeldBy(w)
    BY <1>3, <2>1 DEF HeldMap, OthersHold
  <2>2. CASE (HeldBy(w))' = HeldBy(w) \ {t}
    BY <1>3, <1>4, <2>2 DEF HeldMap, OthersHold
  <2> QED BY <1>3, <2>1, <2>2
<1>6. t \in Strays \union UNION {HeldMap[v] : v \in Workers}
  BY <1>1, <1>4
<1>7. Leased!Tasks = Tasks
  BY DEF Leased!Tasks, Tasks
<1>8. Leased!Done(t)
  BY <1>1, <1>2, <1>3, <1>5, <1>6, <1>7 DEF Leased!Done, HeldMap
<1> QED BY <1>1, <1>7, <1>8 DEF Leased!Next

\* A run that fails lets go of its task, and nobody else's hold changes.
LEMMA FailLetsGo ==
  ASSUME IInv, NEW r \in runs, Fail(r)
  PROVE  Leased!Next
<1>1. EndRun(r) /\ UNCHANGED <<redisVars, worker, late>> /\ r.worker \in Workers
  BY RunsAreTaken DEF Fail
<1>2. /\ OthersHold(r.worker) /\ (HeldBy(r.worker))' \subseteq HeldBy(r.worker)
      /\ Strays' \subseteq Strays
  BY <1>1, RunIsGone
<1>3. UNCHANGED <<pending, next>> /\ late' \in {late, TRUE}
  BY <1>1 DEF redisVars
<1> QED BY <1>1, <1>2, <1>3, LeasesLetGo

\* That a run stops making progress changes no lease.
LEMMA WedgeStutters ==
  ASSUME IInv, NEW r \in runs, Wedge(r)
  PROVE  UNCHANGED Leased!vars
<1> DEFINE q == [r EXCEPT !.wedged = TRUE]
<1>1. runs' = (runs \ {r}) \union {q} /\ UNCHANGED <<redisVars, worker, inflight, late>>
  BY DEF Wedge
<1>2. q.abandoned = r.abandoned /\ q.task = r.task
  BY DEF IInv, Types, RunStates
<1> HIDE DEF q
<1>3. /\ \A s \in runs' : s.abandoned => \E p \in runs : p.abandoned /\ p.task = s.task
      /\ \A p \in runs : p.abandoned => \E s \in runs' : s.abandoned /\ s.task = p.task
  BY <1>1, <1>2
<1>4. \A v \in Workers : /\ (Holds(v))' = Holds(v) /\ (HeldBy(v))' = HeldBy(v)
                         /\ worker'[v].alive = worker[v].alive
  BY <1>1 DEF Holds, HeldBy
<1>5. Strays' \subseteq Strays
  BY <1>3, <1>4, NoneStray
<1>6. Strays \ {} \subseteq Strays'
  BY <1>3, <1>4, NoneReturns
<1>7. Strays' = Strays /\ UNCHANGED <<pending, next, late>>
  BY <1>1, <1>5, <1>6 DEF redisVars
<1> QED BY <1>4, <1>7, LeasesStutter

(* At first nobody holds anything.                                         *)
LEMMA LeasesInit == Init => Leased!Init
<1> SUFFICES ASSUME Init PROVE Leased!Init
  OBVIOUS
<1>1. \A w \in Workers : Holds(w) = {} /\ HeldBy(w) = {}
  BY DEF Init, Holds, HeldBy, NewWorker, NoRuns
<1>2. HeldMap = [w \in Workers |-> {}]
  BY <1>1 DEF HeldMap
<1>3. Strays = {}
  <2>1. ASSUME NEW t \in Strays PROVE FALSE
    BY <1>1, StrayTasks DEF Init
  <2> QED BY <2>1
<1> QED BY <1>2, <1>3 DEF Init, Leased!Init, HeldMap

(* Every step is one of TaskLeases.                                        *)
LEMMA LeasesStep == IInv /\ [Next]_vars => [Leased!Next]_(Leased!vars)
<1> SUFFICES ASSUME IInv, [Next]_vars PROVE [Leased!Next]_(Leased!vars)
  OBVIOUS
<1>1. CASE AddTask
  BY <1>1, AddIsAdd
<1>2. CASE Tick
  BY <1>2, TickLetsGo
<1>3. ASSUME NEW w \in Workers, Claim(w) PROVE Leased!Next
  BY <1>3, ClaimIsTake
<1>4. ASSUME NEW w \in Workers, LoseReply(w) PROVE Leased!Next
  BY <1>4, LoseReplyLetsGo
<1>5. ASSUME NEW w \in Workers, StartRuns(w) PROVE UNCHANGED Leased!vars
  BY <1>5, StartRunsStutters
<1>6. ASSUME NEW w \in Workers, Renew(w) \/ RenewalFails(w) PROVE Leased!Next
  <2>1. Turn(w) /\ UNCHANGED <<pending, next>> /\ late' \in {late, TRUE}
    BY <1>6 DEF Renew, RenewalFails, redisVars
  <2> QED BY <2>1, TurnLetsGo
<1>7. ASSUME NEW w \in Workers, Stop(w) PROVE Leased!Next
  BY <1>7, StopLetsGo
<1>8. ASSUME NEW w \in Workers, Crash(w) \/ Replace(w) PROVE Leased!Next
  BY <1>8, EndProcessLetsGo DEF Crash, Replace
<1>9. ASSUME NEW r \in runs, Complete(r) PROVE Leased!Next
  BY <1>9, CompleteIsDone
<1>10. ASSUME NEW r \in runs, Fail(r) PROVE Leased!Next
  BY <1>10, FailLetsGo
<1>11. ASSUME NEW r \in runs, Wedge(r) PROVE UNCHANGED Leased!vars
  BY <1>11, WedgeStutters
<1>12. CASE UNCHANGED vars
  <2>1. UNCHANGED <<pending, next, late, worker, inflight, runs>>
    BY <1>12 DEF vars, redisVars
  <2>2. \A v \in Workers : (HeldBy(v))' = HeldBy(v)
    BY <2>1 DEF HeldBy, Holds
  <2>3. Strays' = Strays
    BY <2>1 DEF Strays, Holds
  <2> QED BY <2>1, <2>2, <2>3, LeasesStutter
<1> QED
  BY <1>1, <1>2, <1>3, <1>4, <1>5, <1>6, <1>7, <1>8, <1>9, <1>10, <1>11, <1>12 DEF Next

(* The workers share the tasks as TaskLeases has it: nobody takes more than *)
(* it may have or, in time, what another one holds, and a task is done by    *)
(* somebody who took it.                                                     *)
THEOREM ImplementsLeases == Spec => ImplementsTaskLeases
<1>1. Init => Leased!Init
  BY LeasesInit
<1>2. IInv /\ [Next]_vars => [Leased!Next]_(Leased!vars)
  BY LeasesStep
<1> QED
  BY <1>1, <1>2, Invariant, PTL DEF Spec, ImplementsTaskLeases, Leased!Spec

=============================================================================
