-------------------------- MODULE ComputePoolProofs --------------------------
(***************************************************************************)
(* Proofs about ComputePool, for any number of tasks and any size of the   *)
(* pool: late results reach no other task, and the pool implements         *)
(* TaskPool.                                                               *)
(*                                                                         *)
(* The invariant is about one worker, one place, and all of them.  A       *)
(* worker that holds a task has it before it, or has posted its result,    *)
(* and nothing else; one that is idle has nothing on its way; one that is  *)
(* dead holds nothing, whatever is still on its way.  In a place only the  *)
(* last worker may be alive.  No two places hold the same task, the queue  *)
(* repeats none and holds none that is held, and the promises of both are  *)
(* pending.                                                                *)
(***************************************************************************)
EXTENDS ComputePool, SequenceTheorems, FiniteSetTheorems, TLAPS

WorkerType ==
    [isDead : BOOLEAN, task : Tasks \cup {NoTask},
     state : {"up", "failed", "exiting", "exited"},
     inbox : Tasks \cup {NoTask}, posted : Seq(Tasks)]

\* A worker that holds a task has it to do, or to deliver, and is not dead.
WorkerOK(x) ==
    /\ x \in WorkerType
    /\ x.isDead => x.task = NoTask
    /\ ~x.isDead /\ x.task = NoTask => x.inbox = NoTask /\ x.posted = <<>>
    /\ x.task # NoTask =>
         \/ x.inbox = x.task /\ x.posted = <<>>
         \/ x.inbox = NoTask /\ x.posted = <<x.task>>

PlaceOK(s) ==
    /\ s \in Seq(WorkerType)
    /\ \A n \in 1 .. Len(s) : WorkerOK(s[n])
    /\ \A n \in 1 .. Len(s) : n # Len(s) => s[n].isDead

TaskAt(s) == IF s = <<>> THEN NoTask ELSE Current(s).task

PlacesOK(ws) ==
    /\ ws \in [Slots -> Seq(WorkerType)]
    /\ \A i \in Slots : PlaceOK(ws[i])
    /\ \A i, j \in Slots : TaskAt(ws[i]) = TaskAt(ws[j]) /\ TaskAt(ws[i]) # NoTask => i = j

QueueOK(q, ws) ==
    /\ q \in Seq(Tasks \ Small)
    /\ \A a, b \in 1 .. Len(q) : q[a] = q[b] => a = b
    /\ \A a \in 1 .. Len(q), i \in Slots : q[a] # TaskAt(ws[i])

PromiseOK(p, q, ws) ==
    /\ p \in [Tasks -> {"uncalled", "pending", "rejected"} \cup Tasks]
    /\ \A a \in 1 .. Len(q) : p[q[a]] = "pending"
    /\ \A i \in Slots : TaskAt(ws[i]) # NoTask => p[TaskAt(ws[i])] = "pending"

IInv == PlacesOK(workers) /\ QueueOK(queue, workers) /\ PromiseOK(promise, queue, workers)

HeldIn(ws) == {TaskAt(ws[i]) : i \in Slots} \ {NoTask}

-----------------------------------------------------------------------------
(* One place. *)

\* The last worker of a place is in order.
LEMMA CurrentOK ==
    ASSUME NEW s, PlaceOK(s), s # <<>>
    PROVE  /\ Len(s) \in Nat /\ Len(s) \in 1 .. Len(s)
           /\ Current(s) = s[Len(s)] /\ WorkerOK(Current(s)) /\ Current(s) \in WorkerType
<1>1. s \in Seq(WorkerType)
  BY DEF PlaceOK
<1>2. Len(s) \in Nat /\ Len(s) # 0
  BY <1>1, EmptySeq
<1>3. Len(s) \in 1 .. Len(s)
  BY <1>2
<1>4. WorkerOK(s[Len(s)])
  BY <1>3 DEF PlaceOK
<1> QED
  BY <1>2, <1>3, <1>4 DEF Current, WorkerOK

\* A place holds a task, or none.
LEMMA TaskAtType ==
    ASSUME NEW s, PlaceOK(s)
    PROVE  TaskAt(s) \in Tasks \cup {NoTask}
<1>1. CASE s = <<>>
  BY <1>1 DEF TaskAt
<1>2. CASE s # <<>>
  BY <1>2, CurrentOK DEF TaskAt, WorkerType
<1> QED
  BY <1>1, <1>2

\* A free place holds no task.
LEMMA FreePlace ==
    ASSUME NEW s, PlaceOK(s), IsFree(s)
    PROVE  TaskAt(s) = NoTask
<1>1. CASE s = <<>>
  BY <1>1 DEF TaskAt
<1>2. CASE s # <<>>
  BY <1>2, CurrentOK DEF TaskAt, IsFree, WorkerOK
<1> QED
  BY <1>1, <1>2

\* A task makes its worker hold it, to do it.
LEMMA GivenWorker ==
    ASSUME NEW x \in WorkerType, NEW t \in Tasks, ~x.isDead, x.posted = <<>>
    PROVE  /\ WorkerOK([x EXCEPT !.task = t, !.inbox = t])
           /\ [x EXCEPT !.task = t, !.inbox = t].task = t
<1> DEFINE y == [x EXCEPT !.task = t, !.inbox = t]
<1>1. /\ y \in WorkerType /\ y.task = t /\ y.inbox = t
      /\ y.posted = <<>> /\ y.isDead = x.isDead
  BY DEF WorkerType
<1> HIDE DEF y
<1>2. t # NoTask
  BY PoolAssumption
<1>3. WorkerOK(y)
  BY <1>1, <1>2 DEF WorkerOK
<1> QED
  BY <1>1, <1>3 DEF y

\* A place that is given a task is in order and holds it.
LEMMA GivenOK ==
    ASSUME NEW s, PlaceOK(s), IsFree(s), NEW t \in Tasks
    PROVE  /\ PlaceOK(Given(s, t)) /\ TaskAt(Given(s, t)) = t
           /\ Given(s, t) \in Seq(WorkerType)
<1>1. s \in Seq(WorkerType) /\ Len(s) \in Nat
  BY DEF PlaceOK
<1>2. CASE s = <<>> \/ Current(s).isDead
  <2> DEFINE x == [NewWorker EXCEPT !.task = t, !.inbox = t]
             r == Append(s, x)
  <2>1. WorkerOK(x) /\ x.task = t
    <3>1. NewWorker \in WorkerType /\ ~NewWorker.isDead /\ NewWorker.posted = <<>>
      BY EmptySeq DEF NewWorker, WorkerType
    <3> QED
      BY <3>1, GivenWorker
  <2>2. Given(s, t) = r
    BY <1>2 DEF Given
  <2> HIDE DEF x
  <2>3. x \in WorkerType
    BY <2>1 DEF WorkerOK
  <2>4. /\ r \in Seq(WorkerType) /\ Len(r) = Len(s) + 1 /\ r # <<>>
        /\ \A n \in 1 .. Len(s) : r[n] = s[n]
        /\ r[Len(s) + 1] = x
    BY <1>1, <2>3, AppendProperties
  <2> HIDE DEF r
  <2>5. TaskAt(r) = t
    BY <2>1, <2>4 DEF TaskAt, Current
  <2>6. \A n \in 1 .. Len(r) : n \in 1 .. Len(s) \/ n = Len(s) + 1
    BY <1>1, <2>4
  <2>7. \A n \in 1 .. Len(r) : WorkerOK(r[n])
    BY <2>1, <2>4, <2>6 DEF PlaceOK
  <2>8. \A n \in 1 .. Len(s) : s[n].isDead
    BY <1>2 DEF PlaceOK, Current
  <2>9. \A n \in 1 .. Len(r) : n # Len(r) => r[n].isDead
    BY <2>4, <2>6, <2>8
  <2> QED
    BY <2>2, <2>4, <2>5, <2>7, <2>9 DEF PlaceOK
<1>3. CASE ~(s = <<>> \/ Current(s).isDead)
  <2> DEFINE x == [Current(s) EXCEPT !.task = t, !.inbox = t]
             r == [s EXCEPT ![Len(s)] = x]
  <2>1. /\ Current(s) = s[Len(s)] /\ WorkerOK(Current(s)) /\ Current(s) \in WorkerType
        /\ Len(s) \in 1 .. Len(s)
    BY <1>3, CurrentOK
  <2>2. WorkerOK(x) /\ x.task = t
    <3>1. ~Current(s).isDead /\ Current(s).posted = <<>>
      BY <1>3, <2>1 DEF IsFree, WorkerOK
    <3> QED
      BY <2>1, <3>1, GivenWorker
  <2>3. Given(s, t) = r
    BY <1>3 DEF Given
  <2> HIDE DEF x
  <2>4. x \in WorkerType
    BY <2>2 DEF WorkerOK
  <2>5. /\ r \in Seq(WorkerType) /\ Len(r) = Len(s)
        /\ \A n \in 1 .. Len(s) : r[n] = IF n = Len(s) THEN x ELSE s[n]
    BY <1>1, <2>1, <2>4, ExceptSeq
  <2> HIDE DEF r
  <2>6. TaskAt(r) = t
    <3>1. r # <<>>
      BY <1>1, <2>1, <2>5, EmptySeq
    <3>2. r[Len(r)] = x
      BY <2>1, <2>5
    <3> QED
      BY <2>2, <3>1, <3>2 DEF TaskAt, Current
  <2>7. \A n \in 1 .. Len(r) : WorkerOK(r[n])
    BY <2>2, <2>5 DEF PlaceOK
  <2>8. \A n \in 1 .. Len(r) : n # Len(r) => r[n].isDead
    BY <2>5 DEF PlaceOK
  <2> QED
    BY <2>3, <2>5, <2>6, <2>7, <2>8 DEF PlaceOK
<1> QED
  BY <1>2, <1>3

\* So is a place one of whose workers has become x, if that is as dead as it was.
LEMMA PutOK ==
    ASSUME NEW s, PlaceOK(s), NEW n \in 1 .. Len(s), NEW x, WorkerOK(x),
           s[n].isDead => x.isDead
    PROVE  LET r == [s EXCEPT ![n] = x] IN
           /\ PlaceOK(r) /\ r \in Seq(WorkerType)
           /\ TaskAt(r) = IF n = Len(s) THEN x.task ELSE TaskAt(s)
           /\ n = Len(s) => TaskAt(s) = s[n].task
           /\ n # Len(s) => s[n].task = NoTask /\ x.task = NoTask
<1> DEFINE r == [s EXCEPT ![n] = x]
<1>1. s \in Seq(WorkerType) /\ Len(s) \in Nat /\ x \in WorkerType
  BY DEF PlaceOK, WorkerOK
<1>2. /\ r \in Seq(WorkerType) /\ Len(r) = Len(s)
      /\ \A k \in 1 .. Len(s) : r[k] = IF k = n THEN x ELSE s[k]
  BY <1>1, ExceptSeq
<1> HIDE DEF r
<1>3. s # <<>> /\ r # <<>>
  BY <1>1, <1>2, EmptySeq
<1>4. Len(s) \in 1 .. Len(s)
  BY <1>3, CurrentOK
<1>5. r[Len(r)] = IF n = Len(s) THEN x ELSE s[Len(s)]
  BY <1>2, <1>4
<1>6. TaskAt(r) = IF n = Len(s) THEN x.task ELSE TaskAt(s)
  BY <1>3, <1>5 DEF TaskAt, Current
<1>7. n = Len(s) => TaskAt(s) = s[n].task
  BY <1>3 DEF TaskAt, Current
<1>8. n # Len(s) => s[n].isDead /\ WorkerOK(s[n])
  BY DEF PlaceOK
<1>9. n # Len(s) => s[n].task = NoTask /\ x.task = NoTask
  BY <1>8 DEF WorkerOK
<1>10. \A k \in 1 .. Len(r) : WorkerOK(r[k])
  BY <1>2 DEF PlaceOK
<1>11. \A k \in 1 .. Len(r) : k # Len(r) => r[k].isDead
  BY <1>2 DEF PlaceOK
<1>12. PlaceOK(r)
  BY <1>2, <1>10, <1>11 DEF PlaceOK
<1> QED
  BY <1>2, <1>6, <1>7, <1>9, <1>12 DEF r

-----------------------------------------------------------------------------
(* All places. *)

\* The tasks that workers hold are those that the last workers hold.
LEMMA AllHeld ==
    ASSUME NEW ws, PlacesOK(ws)
    PROVE  {ws[w[1]][w[2]].task : w \in UNION {{i} \X DOMAIN ws[i] : i \in Slots}} \ {NoTask}
             = HeldIn(ws)
<1> DEFINE W == UNION {{i} \X DOMAIN ws[i] : i \in Slots}
           H == {ws[w[1]][w[2]].task : w \in W} \ {NoTask}
<1>1. ASSUME NEW i \in Slots PROVE PlaceOK(ws[i]) /\ DOMAIN ws[i] = 1 .. Len(ws[i])
  <2>1. PlaceOK(ws[i]) /\ ws[i] \in Seq(WorkerType)
    BY DEF PlacesOK
  <2> QED
    BY <2>1, LenProperties
<1>2. ASSUME NEW t \in H PROVE t \in HeldIn(ws)
  <2>1. PICK w \in W : t = ws[w[1]][w[2]].task /\ t # NoTask
    OBVIOUS
  <2>2. PICK i \in Slots : w \in {i} \X DOMAIN ws[i]
    OBVIOUS
  <2>3. PICK n \in DOMAIN ws[i] : w = <<i, n>>
    BY <2>2
  <2>4. PlaceOK(ws[i]) /\ n \in 1 .. Len(ws[i]) /\ t = ws[i][n].task
    BY <1>1, <2>1, <2>3
  <2>5. WorkerOK(ws[i][n]) /\ (n # Len(ws[i]) => ws[i][n].isDead)
    BY <2>4 DEF PlaceOK
  <2>6. n = Len(ws[i])
    BY <2>1, <2>4, <2>5 DEF WorkerOK
  <2>7. ws[i] # <<>>
    <3>1. Len(<<>>) = 0
      OBVIOUS
    <3>2. Len(ws[i]) # 0
      BY <1>1, <2>4, LenProperties DEF PlacesOK
    <3> QED BY <3>1, <3>2, Zenon
  <2>8. t = TaskAt(ws[i])
    BY <2>4, <2>6, <2>7 DEF TaskAt, Current
  <2> QED
    BY <2>1, <2>8 DEF HeldIn
<1>3. ASSUME NEW t \in HeldIn(ws) PROVE t \in H
  <2>1. PICK i \in Slots : t = TaskAt(ws[i]) /\ t # NoTask
    BY DEF HeldIn
  <2>2. ws[i] # <<>>
    BY <2>1 DEF TaskAt
  <2>3. Len(ws[i]) \in DOMAIN ws[i] /\ t = ws[i][Len(ws[i])].task
    BY <1>1, <2>1, <2>2, CurrentOK DEF TaskAt
  <2> DEFINE w == <<i, Len(ws[i])>>
  <2>4. w \in {i} \X DOMAIN ws[i]
    BY <2>3
  <2>5. w \in W /\ w[1] = i /\ w[2] = Len(ws[i])
    BY <2>4
  <2> QED
    BY <2>1, <2>3, <2>5
<1>4. H = HeldIn(ws)
  BY <1>2, <1>3
<1> QED
  BY <1>4

\* There are at most as many as places.
LEMMA HeldIsBounded ==
    ASSUME NEW ws
    PROVE  IsFiniteSet(HeldIn(ws)) /\ Cardinality(HeldIn(ws)) <= MaxPoolSize
<1> DEFINE f == [i \in Slots |-> TaskAt(ws[i])]
           T == {TaskAt(ws[i]) : i \in Slots}
<1>1. IsFiniteSet(Slots) /\ Cardinality(Slots) = MaxPoolSize /\ MaxPoolSize \in Nat
  <2>1. MaxPoolSize \in Nat /\ MaxPoolSize >= 1
    BY PoolAssumption
  <2>2. IsFiniteSet(1 .. MaxPoolSize) /\ Cardinality(1 .. MaxPoolSize) = MaxPoolSize - 1 + 1
    BY <2>1, FS_Interval
  <2> QED
    BY <2>1, <2>2 DEF Slots
<1>2. f \in Surjection(Slots, T)
  BY DEF Surjection
<1>3. IsFiniteSet(T) /\ Cardinality(T) <= MaxPoolSize
  BY <1>1, <1>2, FS_Surjection
<1>4. HeldIn(ws) \in SUBSET T
  BY DEF HeldIn
<1>5. IsFiniteSet(HeldIn(ws)) /\ Cardinality(HeldIn(ws)) <= Cardinality(T)
  BY <1>3, <1>4, FS_Subset
<1>6. Cardinality(HeldIn(ws)) \in Nat /\ Cardinality(T) \in Nat
  BY <1>3, <1>5, FS_CardinalityType
<1> QED
  BY <1>1, <1>3, <1>5, <1>6

\* A worker w that becomes x, with its task or with none.
LEMMA WithOK ==
    ASSUME PlacesOK(workers), NEW w \in Workers, NEW x, WorkerOK(x),
           Worker(w).isDead => x.isDead,
           x.task \in {Worker(w).task, NoTask}
    PROVE  /\ PlacesOK(With(w, x))
           /\ x.task = Worker(w).task => \A i \in Slots : TaskAt(With(w, x)[i]) = TaskAt(workers[i])
           /\ x.task = NoTask => \A i \in Slots :
                TaskAt(With(w, x)[i]) =
                  IF TaskAt(workers[i]) = Worker(w).task THEN NoTask ELSE TaskAt(workers[i])
           /\ Worker(w).task # NoTask => \E i \in Slots : TaskAt(workers[i]) = Worker(w).task
           /\ WorkerOK(Worker(w))
<1>0. PICK i \in Slots : w \in {i} \X DOMAIN workers[i]
  BY DEF Workers
<1>1. PICK n \in DOMAIN workers[i] : w = <<i, n>>
  BY <1>0
<1>2. PlaceOK(workers[i]) /\ workers[i] \in Seq(WorkerType)
  BY DEF PlacesOK
<1>3. n \in 1 .. Len(workers[i])
  BY <1>2, LenProperties
<1>4. Worker(w) = workers[i][n] /\ w[1] = i /\ w[2] = n
  BY <1>1 DEF Worker
<1> DEFINE s == workers[i]
           r == [s EXCEPT ![n] = x]
           ws == With(w, x)
<1>5. ws = [workers EXCEPT ![i] = r]
  BY <1>4 DEF With
<1>6. /\ PlaceOK(r) /\ r \in Seq(WorkerType)
      /\ TaskAt(r) = IF n = Len(s) THEN x.task ELSE TaskAt(s)
      /\ n = Len(s) => TaskAt(s) = s[n].task
      /\ n # Len(s) => s[n].task = NoTask /\ x.task = NoTask
  BY <1>2, <1>3, <1>4, PutOK
<1> HIDE DEF r, ws
<1>7. /\ ws \in [Slots -> Seq(WorkerType)]
      /\ \A j \in Slots : ws[j] = IF j = i THEN r ELSE workers[j]
  BY <1>5, <1>6 DEF PlacesOK
<1>8. \A j \in Slots : PlaceOK(ws[j])
  BY <1>6, <1>7 DEF PlacesOK
<1>9. TaskAt(r) \in {TaskAt(s), NoTask}
  BY <1>4, <1>6
<1>10. \A j \in Slots : TaskAt(ws[j]) \in {TaskAt(workers[j]), NoTask}
  BY <1>7, <1>9
<1>11. PlacesOK(ws)
  BY <1>7, <1>8, <1>10 DEF PlacesOK
<1>12. x.task = Worker(w).task => \A j \in Slots : TaskAt(ws[j]) = TaskAt(workers[j])
  BY <1>4, <1>6, <1>7
<1>13. WorkerOK(Worker(w))
  BY <1>2, <1>3, <1>4 DEF PlaceOK
<1>14. Worker(w).task # NoTask => n = Len(s) /\ TaskAt(workers[i]) = Worker(w).task
  BY <1>4, <1>6
<1>15. ASSUME x.task = NoTask, NEW j \in Slots
       PROVE  TaskAt(ws[j]) = IF TaskAt(workers[j]) = Worker(w).task THEN NoTask ELSE TaskAt(workers[j])
  <2>1. CASE j = i
    BY <1>4, <1>6, <1>7, <1>15, <2>1
  <2>2. CASE j # i
    <3>1. TaskAt(ws[j]) = TaskAt(workers[j])
      BY <1>7, <2>2
    <3>2. TaskAt(workers[j]) = Worker(w).task => TaskAt(workers[j]) = NoTask
      BY <1>14, <2>2 DEF PlacesOK
    <3> QED
      BY <3>1, <3>2
  <2> QED
    BY <2>1, <2>2
<1> QED
  BY <1>11, <1>12, <1>13, <1>14, <1>15 DEF ws

-----------------------------------------------------------------------------
(* drain *)

\* A drain starts the first tasks of the queue, each in a place that was free.
LEMMA DrainOK ==
    ASSUME NEW q, NEW ws, PlacesOK(ws), QueueOK(q, ws), Drain(q, ws)
    PROVE  /\ PlacesOK(workers') /\ QueueOK(queue', workers')
           /\ \E n \in 0 .. Len(q) :
                /\ queue' = SubSeq(q, n + 1, Len(q))
                /\ HeldIn(workers') = HeldIn(ws) \cup {q[a] : a \in 1 .. n}
           /\ \A i \in Slots :
                \/ TaskAt(workers'[i]) = TaskAt(ws[i])
                \/ \E a \in 1 .. Len(q) : TaskAt(workers'[i]) = q[a]
           /\ \A b \in 1 .. Len(queue') : \E a \in 1 .. Len(q) : queue'[b] = q[a]
<1> DEFINE Free == {i \in Slots : IsFree(ws[i])}
<1>1. PICK n \in 0 .. Len(q) : \E place \in [1 .. n -> Free] :
        /\ IsPlacement(place, n, q, ws)
        /\ queue' = SubSeq(q, n + 1, Len(q))
        /\ workers' = [i \in Slots |->
               IF i \in Range(place) THEN Given(ws[i], q[Inverse(place, 1 .. n, Slots)[i]])
               ELSE ws[i]]
  BY DEF Drain
<1>2. PICK place \in [1 .. n -> Free] :
        /\ IsPlacement(place, n, q, ws)
        /\ queue' = SubSeq(q, n + 1, Len(q))
        /\ workers' = [i \in Slots |->
               IF i \in Range(place) THEN Given(ws[i], q[Inverse(place, 1 .. n, Slots)[i]])
               ELSE ws[i]]
  BY <1>1
<1>3. /\ q \in Seq(Tasks \ Small) /\ Len(q) \in Nat /\ n \in Nat /\ n <= Len(q)
      /\ \A a \in 1 .. Len(q) : q[a] \in Tasks
  <2>1. q \in Seq(Tasks \ Small)
    BY DEF QueueOK
  <2>2. Len(q) \in Nat
    BY <2>1
  <2>3. \A a \in 1 .. Len(q) : q[a] \in Tasks
    BY <2>1, ElementOfSeq
  <2> QED
    BY <2>1, <2>2, <2>3
<1>4. \A a \in 1 .. n : place[a] \in Slots /\ IsFree(ws[place[a]])
  BY <1>2
<1>5. \A a, b \in 1 .. n : place[a] = place[b] => a = b
  <2>1. \A a, b \in 1 .. n : a < b => place[a] < place[b]
    BY <1>2 DEF IsPlacement
  <2>2. \A a \in 1 .. n : place[a] \in Int
    BY <1>4, PoolAssumption DEF Slots
  <2>3. ASSUME NEW a \in 1 .. n, NEW b \in 1 .. n, place[a] = place[b] PROVE a = b
    <3>1. ~(a < b) /\ ~(b < a)
      BY <2>1, <2>2, <2>3
    <3>2. a \in Int /\ b \in Int
      OBVIOUS
    <3> QED
      BY <3>1, <3>2
  <2> QED
    BY <2>3
<1>6. Range(place) = {place[a] : a \in 1 .. n}
  BY DEF Range
<1>7. ASSUME NEW a \in 1 .. n
      PROVE  workers'[place[a]] = Given(ws[place[a]], q[a])
  <2> DEFINE i == place[a]
             c == CHOOSE s \in 1 .. n : i \in Range(place) => place[s] = i
  <2>1. i \in Slots /\ i \in Range(place)
    BY <1>4, <1>6
  <2>2. c \in 1 .. n /\ place[c] = i
    BY <2>1
  <2>3. c = a
    BY <1>5, <2>2
  <2>4. Inverse(place, 1 .. n, Slots)[i] = c
    BY <2>1 DEF Inverse
  <2> HIDE DEF c
  <2>5. workers'[i] = Given(ws[i], q[Inverse(place, 1 .. n, Slots)[i]])
    BY <1>2, <2>1
  <2> QED
    BY <2>3, <2>4, <2>5
<1>8. ASSUME NEW i \in Slots, i \notin Range(place)
      PROVE  workers'[i] = ws[i]
  BY <1>2, <1>8
<1>9. ASSUME NEW a \in 1 .. n
      PROVE  /\ PlaceOK(workers'[place[a]]) /\ TaskAt(workers'[place[a]]) = q[a]
             /\ workers'[place[a]] \in Seq(WorkerType)
  <2>1. PlaceOK(ws[place[a]]) /\ IsFree(ws[place[a]]) /\ q[a] \in Tasks
    BY <1>3, <1>4 DEF PlacesOK
  <2> QED
    BY <1>7, <2>1, GivenOK
<1>10. \A i \in Slots : PlaceOK(workers'[i]) /\ workers'[i] \in Seq(WorkerType)
  <2> SUFFICES ASSUME NEW i \in Slots
               PROVE  PlaceOK(workers'[i]) /\ workers'[i] \in Seq(WorkerType)
    OBVIOUS
  <2>1. CASE i \in Range(place)
    BY <1>6, <1>9, <2>1
  <2>2. CASE i \notin Range(place)
    BY <1>8, <2>2 DEF PlacesOK
  <2> QED
    BY <2>1, <2>2
<1>11. workers' \in [Slots -> Seq(WorkerType)]
  <2>1. workers' = [i \in Slots |-> workers'[i]]
    BY <1>2
  <2> QED
    BY <1>10, <2>1
<1>12. \A i \in Slots :
        \/ i \notin Range(place) /\ TaskAt(workers'[i]) = TaskAt(ws[i])
        \/ \E a \in 1 .. n : i = place[a] /\ TaskAt(workers'[i]) = q[a]
  BY <1>6, <1>8, <1>9
<1>13. \A a, b \in 1 .. Len(q) : q[a] = q[b] => a = b
  BY DEF QueueOK
<1>14. \A a \in 1 .. Len(q), i \in Slots : q[a] # TaskAt(ws[i])
  BY DEF QueueOK
<1>15. \A a \in 1 .. n : a \in 1 .. Len(q)
  BY <1>3
<1>16. ASSUME NEW i \in Slots, NEW j \in Slots,
              TaskAt(workers'[i]) = TaskAt(workers'[j]), TaskAt(workers'[i]) # NoTask
       PROVE  i = j
  <2>1. CASE TaskAt(workers'[i]) = TaskAt(ws[i]) /\ TaskAt(workers'[j]) = TaskAt(ws[j])
    BY <1>16, <2>1 DEF PlacesOK
  <2>2. ASSUME NEW a \in 1 .. n, i = place[a], TaskAt(workers'[i]) = q[a] PROVE i = j
    BY <1>12, <1>13, <1>14, <1>15, <1>16, <2>2
  <2>3. ASSUME NEW a \in 1 .. n, j = place[a], TaskAt(workers'[j]) = q[a] PROVE i = j
    BY <1>12, <1>13, <1>14, <1>15, <1>16, <2>3
  <2> QED
    BY <1>12, <2>1, <2>2, <2>3
<1>17. PlacesOK(workers')
  BY <1>10, <1>11, <1>16 DEF PlacesOK
<1>18. /\ queue' \in Seq(Tasks \ Small) /\ Len(queue') = Len(q) - n
       /\ \A b \in 1 .. Len(queue') : queue'[b] = q[n + b] /\ n + b \in 1 .. Len(q)
  <2>1. \A a \in n + 1 .. Len(q) : q[a] \in Tasks \ Small
    BY <1>3, ElementOfSeq
  <2>2. /\ queue' \in Seq(Tasks \ Small)
        /\ Len(queue') = IF n + 1 <= Len(q) THEN Len(q) - (n + 1) + 1 ELSE 0
        /\ \A b \in 1 .. Len(q) - (n + 1) + 1 : queue'[b] = q[n + 1 + b - 1]
    BY <1>2, <1>3, <2>1, SubSeqProperties
  <2>3. Len(queue') = Len(q) - n
    BY <1>3, <2>2
  <2>4. \A b \in 1 .. Len(queue') : b \in 1 .. Len(q) - (n + 1) + 1 /\ n + 1 + b - 1 = n + b
    BY <1>3, <2>3
  <2>5. \A b \in 1 .. Len(queue') : n + b \in 1 .. Len(q)
    BY <1>3, <2>3
  <2> QED
    BY <2>2, <2>3, <2>4, <2>5
<1>19. QueueOK(queue', workers')
  <2>1. ASSUME NEW a \in 1 .. Len(queue'), NEW b \in 1 .. Len(queue'), queue'[a] = queue'[b]
        PROVE  a = b
    <3>1. n + a = n + b
      BY <1>13, <1>18, <2>1
    <3>2. a \in Int /\ b \in Int /\ n \in Int
      BY <1>3
    <3> QED
      BY <3>1, <3>2
  <2>2. ASSUME NEW b \in 1 .. Len(queue'), NEW i \in Slots
        PROVE  queue'[b] # TaskAt(workers'[i])
    <3>1. queue'[b] = q[n + b] /\ n + b \in 1 .. Len(q)
      BY <1>18
    <3>2. ASSUME NEW a \in 1 .. n PROVE q[a] # q[n + b]
      <4>1. a # n + b
        BY <1>3
      <4> QED
        BY <1>13, <1>15, <3>1, <4>1
    <3> QED
      BY <1>12, <1>14, <3>1, <3>2
  <2> QED
    BY <1>18, <2>1, <2>2 DEF QueueOK
<1>20. HeldIn(workers') = HeldIn(ws) \cup {q[a] : a \in 1 .. n}
  <2>1. ASSUME NEW t \in HeldIn(workers') PROVE t \in HeldIn(ws) \cup {q[a] : a \in 1 .. n}
    BY <1>12, <2>1 DEF HeldIn
  <2>2. ASSUME NEW t \in HeldIn(ws) PROVE t \in HeldIn(workers')
    <3>1. PICK i \in Slots : t = TaskAt(ws[i]) /\ t # NoTask
      BY <2>2 DEF HeldIn
    <3>2. i \notin Range(place)
      BY <1>4, <1>6, <3>1, FreePlace DEF PlacesOK
    <3> QED
      BY <1>8, <3>1, <3>2 DEF HeldIn
  <2>3. ASSUME NEW a \in 1 .. n PROVE q[a] \in HeldIn(workers')
    <3>1. q[a] # NoTask
      BY <1>3, <1>15, PoolAssumption
    <3> QED
      BY <1>4, <1>9, <3>1 DEF HeldIn
  <2> QED
    BY <2>1, <2>2, <2>3
<1>21. \A i \in Slots :
        \/ TaskAt(workers'[i]) = TaskAt(ws[i])
        \/ \E a \in 1 .. Len(q) : TaskAt(workers'[i]) = q[a]
  BY <1>12, <1>15
<1>22. \A b \in 1 .. Len(queue') : \E a \in 1 .. Len(q) : queue'[b] = q[a]
  BY <1>18
<1> QED
  BY <1>2, <1>17, <1>19, <1>20, <1>21, <1>22

-----------------------------------------------------------------------------
(* The parts that the steps are made of. *)

\* What runs, for the callers, now and after a step.
LEMMA HeldIsHeldIn == IInv => Held = HeldIn(workers)
  BY AllHeld DEF IInv, Held, Workers, Worker

LEMMA HeldIsHeldInNext == PlacesOK(workers') => Held' = HeldIn(workers')
  BY AllHeld DEF Held, Workers, Worker

\* The instance counts as this module does.
LEMMA SameCardinality == \A S : Promised!Cardinality(S) = Cardinality(S)
  BY DEF Promised!Cardinality, Cardinality

\* A queue whose tasks, with those that are held, are pending is drained into
\* such a one, as TaskPool starts tasks.
LEMMA DrainStep ==
    ASSUME NEW q, NEW ws, PlacesOK(ws), QueueOK(q, ws), PromiseOK(promise', q, ws), Drain(q, ws)
    PROVE  IInv' /\ Promised!Start(q, HeldIn(ws))
<1>1. /\ PlacesOK(workers') /\ QueueOK(queue', workers')
      /\ \A i \in Slots :
           \/ TaskAt(workers'[i]) = TaskAt(ws[i])
           \/ \E a \in 1 .. Len(q) : TaskAt(workers'[i]) = q[a]
      /\ \A b \in 1 .. Len(queue') : \E a \in 1 .. Len(q) : queue'[b] = q[a]
  BY DrainOK
<1>2. PICK n \in 0 .. Len(q) :
        /\ queue' = SubSeq(q, n + 1, Len(q))
        /\ HeldIn(workers') = HeldIn(ws) \cup {q[a] : a \in 1 .. n}
  BY DrainOK
<1>3. PromiseOK(promise', queue', workers')
  <2>1. /\ promise' \in [Tasks -> {"uncalled", "pending", "rejected"} \cup Tasks]
        /\ \A a \in 1 .. Len(q) : promise'[q[a]] = "pending"
        /\ \A i \in Slots : TaskAt(ws[i]) # NoTask => promise'[TaskAt(ws[i])] = "pending"
    BY DEF PromiseOK
  <2>2. \A a \in 1 .. Len(queue') : promise'[queue'[a]] = "pending"
    BY <1>1, <2>1
  <2>3. ASSUME NEW i \in Slots, TaskAt(workers'[i]) # NoTask
        PROVE  promise'[TaskAt(workers'[i])] = "pending"
    BY <1>1, <2>1, <2>3
  <2> QED
    BY <2>1, <2>2, <2>3 DEF PromiseOK
<1>4. IInv'
  BY <1>1, <1>3 DEF IInv
<1>5. Held' = HeldIn(ws) \cup {q[a] : a \in 1 .. n}
  BY <1>1, <1>2, HeldIsHeldInNext
<1>6. Cardinality(Held') <= MaxPoolSize
  <2>1. Held' = HeldIn(workers')
    BY <1>1, HeldIsHeldInNext
  <2>2. Cardinality(HeldIn(workers')) <= MaxPoolSize
    BY HeldIsBounded
  <2> QED
    BY <2>1, <2>2
<1>7. Promised!Start(q, HeldIn(ws))
  BY <1>2, <1>5, <1>6, SameCardinality DEF Promised!Start
<1> QED
  BY <1>4, <1>7

\* A worker that ends its task, if it has one: with its result, or rejected.
LEMMA SettleOK ==
    ASSUME IInv, NEW w \in Workers, NEW x, WorkerOK(x), Worker(w).isDead => x.isDead,
           x.task = NoTask, NEW outcome, Settle(w, outcome),
           Worker(w).task # NoTask => outcome \in {"rejected", Worker(w).task}
    PROVE  /\ PlacesOK(With(w, x)) /\ QueueOK(queue, With(w, x))
           /\ PromiseOK(promise', queue, With(w, x))
           /\ HeldIn(With(w, x)) = HeldIn(workers) \ {Worker(w).task}
           /\ Worker(w).task = NoTask => promise' = promise
           /\ Worker(w).task # NoTask =>
                /\ Worker(w).task \in HeldIn(workers) /\ Worker(w).task \in Tasks
                /\ promise' = [promise EXCEPT ![Worker(w).task] = outcome]
<1> DEFINE ws == With(w, x)
           t == Worker(w).task
<1>1. PlacesOK(workers) /\ QueueOK(queue, workers) /\ PromiseOK(promise, queue, workers)
  BY DEF IInv
<1>2. /\ PlacesOK(ws) /\ WorkerOK(Worker(w))
      /\ \A i \in Slots : TaskAt(ws[i]) = IF TaskAt(workers[i]) = t THEN NoTask ELSE TaskAt(workers[i])
      /\ t # NoTask => \E i \in Slots : TaskAt(workers[i]) = t
  BY <1>1, WithOK
<1>3. t \in Tasks \cup {NoTask}
  BY <1>2 DEF WorkerOK, WorkerType
<1>4. promise' = IF t # NoTask /\ promise[t] = "pending" THEN [promise EXCEPT ![t] = outcome] ELSE promise
  BY DEF Settle
<1> HIDE DEF ws, t
<1>5. queue \in Seq(Tasks \ Small) /\ \A a \in 1 .. Len(queue) : queue[a] \in Tasks
  <2>1. queue \in Seq(Tasks \ Small)
    BY <1>1 DEF QueueOK
  <2> QED
    BY <2>1, ElementOfSeq
<1>6. QueueOK(queue, ws)
  <2>1. ASSUME NEW a \in 1 .. Len(queue), NEW i \in Slots PROVE queue[a] # TaskAt(ws[i])
    <3>1. queue[a] # TaskAt(workers[i]) /\ queue[a] # NoTask
      BY <1>1, <1>5, PoolAssumption DEF QueueOK
    <3> QED
      BY <1>2, <3>1
  <2> QED
    BY <1>1, <2>1 DEF QueueOK
<1>7. HeldIn(ws) = HeldIn(workers) \ {t}
  BY <1>2 DEF HeldIn
<1>8. t # NoTask =>
        /\ t \in HeldIn(workers) /\ t \in Tasks
        /\ promise' = [promise EXCEPT ![t] = outcome]
  BY <1>1, <1>2, <1>3, <1>4 DEF HeldIn, PromiseOK
<1>9. t = NoTask => promise' = promise
  BY <1>4
<1>10. PromiseOK(promise', queue, ws)
  <2>1. CASE t = NoTask
    BY <1>1, <1>2, <1>9, <2>1 DEF PromiseOK
  <2>2. CASE t # NoTask
    <3>1. promise \in [Tasks -> {"uncalled", "pending", "rejected"} \cup Tasks]
      BY <1>1 DEF PromiseOK
    <3>2. outcome \in {"rejected"} \cup Tasks
      BY <1>8, <2>2 DEF t
    <3>3. /\ promise' \in [Tasks -> {"uncalled", "pending", "rejected"} \cup Tasks]
          /\ \A u \in Tasks : u # t => promise'[u] = promise[u]
      BY <1>8, <2>2, <3>1, <3>2
    <3>4. ASSUME NEW a \in 1 .. Len(queue) PROVE promise'[queue[a]] = "pending"
      <4>1. queue[a] # t
        BY <1>1, <1>2, <2>2 DEF QueueOK
      <4> QED
        BY <1>1, <1>5, <3>3, <4>1 DEF PromiseOK
    <3>5. ASSUME NEW i \in Slots, TaskAt(ws[i]) # NoTask PROVE promise'[TaskAt(ws[i])] = "pending"
      <4>1. TaskAt(ws[i]) = TaskAt(workers[i]) /\ TaskAt(workers[i]) # t
        BY <1>2, <3>5
      <4>2. TaskAt(workers[i]) \in Tasks
        BY <1>1, <3>5, <4>1, TaskAtType DEF PlacesOK
      <4> QED
        BY <1>1, <3>3, <3>5, <4>1, <4>2 DEF PromiseOK
    <3> QED
      BY <3>3, <3>4, <3>5 DEF PromiseOK
  <2> QED
    BY <2>1, <2>2
<1> QED
  BY <1>2, <1>6, <1>7, <1>8, <1>9, <1>10 DEF ws, t

\* What a step of the pool is for its callers.
Allowed == [Promised!Next]_(Promised!vars)

\* A handler that settles and drains is a step of TaskPool; so is one that
\* settles and does not drain.
LEMMA SettleStep ==
    ASSUME IInv, NEW w \in Workers, NEW x, WorkerOK(x), Worker(w).isDead => x.isDead,
           x.task = NoTask, NEW outcome, Settle(w, outcome),
           Worker(w).task # NoTask => outcome \in {"rejected", Worker(w).task},
           \/ Drain(queue, With(w, x))
           \/ workers' = With(w, x) /\ queue' = queue
    PROVE  IInv' /\ Allowed
<1> DEFINE ws == With(w, x)
           t == Worker(w).task
<1>1. /\ PlacesOK(ws) /\ QueueOK(queue, ws) /\ PromiseOK(promise', queue, ws)
      /\ HeldIn(ws) = HeldIn(workers) \ {t}
      /\ t = NoTask => promise' = promise
      /\ t # NoTask =>
           /\ t \in HeldIn(workers) /\ t \in Tasks
           /\ promise' = [promise EXCEPT ![t] = outcome]
  BY SettleOK
<1>2. t # NoTask => outcome \in {"rejected", t}
  OBVIOUS
<1>3. Held = HeldIn(workers)
  BY HeldIsHeldIn
<1> HIDE DEF ws, t
<1>4. IInv' /\ Promised!Start(queue, HeldIn(ws))
  <2>1. CASE Drain(queue, ws)
    BY <1>1, <2>1, DrainStep
  <2>2. CASE workers' = ws /\ queue' = queue
    <3>1. IInv'
      BY <1>1, <2>2 DEF IInv
    <3>2. Held' = HeldIn(ws)
      BY <1>1, <2>2, HeldIsHeldInNext
    <3>3. queue \in Seq(Tasks \ Small) /\ Len(queue) \in Nat
      BY <1>1 DEF QueueOK
    <3>4. queue' = SubSeq(queue, 0 + 1, Len(queue))
      BY <2>2, <3>3, SubSeqFull
    <3>5. {queue[i] : i \in 1 .. 0} = {}
      OBVIOUS
    <3>6. 0 \in 0 .. Len(queue)
      BY <3>3
    <3>7. Held' = HeldIn(ws) \cup {queue[i] : i \in 1 .. 0}
      BY <3>2, <3>5
    <3> QED
      BY <3>1, <3>4, <3>6, <3>7 DEF Promised!Start
  <2> QED
    BY <2>1, <2>2 DEF ws
<1>5. CASE t = NoTask
  <2>1. HeldIn(ws) = Held
    BY <1>1, <1>3, <1>5 DEF HeldIn
  <2>2. Promised!StartWaiting
    BY <1>1, <1>4, <1>5, <2>1 DEF Promised!StartWaiting
  <2> QED
    BY <1>4, <2>2 DEF Allowed, Promised!Next
<1>6. CASE t # NoTask
  <2>1. Promised!Settle(t)
    BY <1>1, <1>2, <1>3, <1>4, <1>6 DEF Promised!Settle
  <2> QED
    BY <1>1, <1>4, <1>6, <2>1 DEF Allowed, Promised!Next
<1> QED
  BY <1>5, <1>6

-----------------------------------------------------------------------------
(* The steps. *)

\* A worker that is finished and dead is in order.
LEMMA FinishedDeadOK ==
    ASSUME NEW y \in WorkerType, NEW s \in {"up", "failed", "exiting", "exited"}
    PROVE  LET x == [FinishedDead(y) EXCEPT !.state = s] IN
           WorkerOK(x) /\ x.isDead /\ x.task = NoTask
<1> DEFINE x == [FinishedDead(y) EXCEPT !.state = s]
<1>1. x \in WorkerType /\ x.isDead /\ x.task = NoTask
  BY DEF FinishedDead, Finished, WorkerType
<1> HIDE DEF x
<1>2. WorkerOK(x)
  BY <1>1 DEF WorkerOK
<1> QED
  BY <1>1, <1>2 DEF x

\* Every worker is in order, the replaced ones too.
LEMMA WorkerIsOK ==
    ASSUME IInv, NEW w \in Workers
    PROVE  WorkerOK(Worker(w)) /\ Worker(w) \in WorkerType
<1>1. PlacesOK(workers)
  BY DEF IInv
<1>2. PICK i \in Slots : w \in {i} \X DOMAIN workers[i]
  BY DEF Workers
<1>3. PICK n \in DOMAIN workers[i] : w = <<i, n>>
  BY <1>2
<1>4. PlaceOK(workers[i]) /\ workers[i] \in Seq(WorkerType)
  BY <1>1 DEF PlacesOK
<1>5. n \in 1 .. Len(workers[i])
  BY <1>4, LenProperties
<1>6. WorkerOK(workers[i][n])
  BY <1>4, <1>5 DEF PlaceOK
<1> QED
  BY <1>3, <1>6 DEF Worker, WorkerOK

\* A step of a thread is none for the callers.
LEMMA ThreadStep ==
    ASSUME IInv, NEW w \in Workers, NEW x, WorkerOK(x), x.isDead = Worker(w).isDead,
           x.task = Worker(w).task, Thread(w, x)
    PROVE  IInv' /\ Allowed
<1> DEFINE ws == With(w, x)
<1>1. workers' = ws /\ queue' = queue /\ promise' = promise
  BY DEF Thread
<1>2. PlacesOK(ws) /\ \A i \in Slots : TaskAt(ws[i]) = TaskAt(workers[i])
  BY WithOK DEF IInv
<1> HIDE DEF ws
<1>3. IInv'
  BY <1>1, <1>2 DEF IInv, QueueOK, PromiseOK
<1>4. Held' = Held
  <2>1. HeldIn(ws) = HeldIn(workers)
    BY <1>2 DEF HeldIn
  <2>2. Held' = HeldIn(workers')
    BY <1>1, <1>2, HeldIsHeldInNext
  <2> QED
    BY <1>1, <2>1, <2>2, HeldIsHeldIn
<1> QED
  BY <1>1, <1>3, <1>4 DEF Allowed, Promised!vars

\* A thread posts its result, fails or ends: whatever it held it still holds.
LEMMA ThreadPostsStep ==
    ASSUME IInv, NEW w \in Workers, ThreadPosts(w)
    PROVE  IInv' /\ Allowed
<1> DEFINE y == Worker(w)
           p == Append(y.posted, y.inbox)
           x == [y EXCEPT !.inbox = NoTask, !.posted = p]
<1>1. WorkerOK(y) /\ y \in WorkerType
  BY WorkerIsOK
<1>2. y.inbox # NoTask /\ Thread(w, x)
  BY DEF ThreadPosts
<1> HIDE DEF y
<1>3. y.inbox \in Tasks /\ y.posted \in Seq(Tasks)
  BY <1>1, <1>2 DEF WorkerType
<1>4. p \in Seq(Tasks) /\ (y.posted = <<>> => p = <<y.inbox>>)
  <2>1. p \in Seq(Tasks)
    BY <1>3, AppendProperties
  <2>2. ASSUME y.posted = <<>> PROVE p = <<y.inbox>>
    <3>1. Len(p) = 1 /\ p[1] = y.inbox
      BY <1>3, <2>2, AppendProperties
    <3>2. <<y.inbox>> \in Seq(Tasks) /\ Len(<<y.inbox>>) = 1 /\ <<y.inbox>>[1] = y.inbox
      BY <1>3
    <3>3. \A i \in 1 .. 1 : p[i] = <<y.inbox>>[i]
      BY <3>1, <3>2
    <3> HIDE DEF p
    <3> QED
      BY <2>1, <3>1, <3>2, <3>3, SeqEqual
  <2> QED
    BY <2>1, <2>2
<1> HIDE DEF p
<1>5. /\ x \in WorkerType /\ x.isDead = y.isDead /\ x.task = y.task
      /\ x.inbox = NoTask /\ x.posted = p
  BY <1>1, <1>4 DEF WorkerType
<1> HIDE DEF x
<1>6. y.task # NoTask => y.inbox = y.task /\ y.posted = <<>>
  BY <1>1, <1>2 DEF WorkerOK
<1>7. y.task = NoTask => y.isDead
  BY <1>1, <1>2 DEF WorkerOK
<1>8. WorkerOK(x)
  BY <1>1, <1>4, <1>5, <1>6, <1>7 DEF WorkerOK
<1> QED
  BY <1>2, <1>5, <1>8, ThreadStep DEF y

LEMMA ThreadEndsStep ==
    ASSUME IInv, NEW w \in Workers, ThreadFails(w) \/ ThreadExits(w)
    PROVE  IInv' /\ Allowed
<1> DEFINE y == Worker(w)
<1>1. PICK s \in {"failed", "exiting"} : Thread(w, [y EXCEPT !.state = s])
  BY DEF ThreadFails, ThreadExits
<1> DEFINE x == [y EXCEPT !.state = s]
<1>2. WorkerOK(y) /\ y \in WorkerType
  BY WorkerIsOK
<1>3. /\ x \in WorkerType /\ x.isDead = y.isDead /\ x.task = y.task
      /\ x.inbox = y.inbox /\ x.posted = y.posted
  BY <1>2 DEF WorkerType
<1>4. Thread(w, x)
  BY <1>1
<1> HIDE DEF x, y
<1>5. WorkerOK(x)
  BY <1>2, <1>3 DEF WorkerOK
<1> QED
  BY <1>3, <1>4, <1>5, ThreadStep DEF y

\* A result reaches the task whose callbacks are set, or none.
LEMMA OnMessageStep ==
    ASSUME IInv, NEW w \in Workers, OnMessage(w)
    PROVE  IInv' /\ Allowed
<1> DEFINE y == Worker(w)
           p == Tail(y.posted)
           x == [Finished(y) EXCEPT !.posted = p]
<1>1. WorkerOK(y) /\ y \in WorkerType
  BY WorkerIsOK
<1>2. y.posted # <<>> /\ Settle(w, Head(y.posted)) /\ Drain(queue, With(w, x))
  BY DEF OnMessage
<1> HIDE DEF y
<1>3. y.posted \in Seq(Tasks) /\ y.task \in Tasks \cup {NoTask}
  BY <1>1 DEF WorkerType
<1>4. p \in Seq(Tasks)
  BY <1>2, <1>3, HeadTailProperties
<1>5. y.task # NoTask => y.posted = <<y.task>> /\ y.inbox = NoTask
  BY <1>1, <1>2 DEF WorkerOK
<1>6. y.task = NoTask => y.isDead
  BY <1>1, <1>2 DEF WorkerOK
<1>7. y.task # NoTask => Head(y.posted) = y.task /\ p = <<>>
  BY <1>3, <1>5
<1> HIDE DEF p
<1>8. /\ x \in WorkerType /\ x.isDead = y.isDead /\ x.task = NoTask
      /\ x.inbox = y.inbox /\ x.posted = p
  BY <1>1, <1>4 DEF WorkerType, Finished
<1> HIDE DEF x
<1>9. WorkerOK(x)
  BY <1>5, <1>6, <1>7, <1>8 DEF WorkerOK
<1> QED
  BY <1>2, <1>7, <1>8, <1>9, SettleStep DEF y

\* An error, an exit and a time-out reject the task, if there is one, and leave
\* a worker that is dead.
LEMMA OnErrorStep ==
    ASSUME IInv, NEW w \in Workers, OnError(w)
    PROVE  IInv' /\ Allowed
<1> DEFINE x == [FinishedDead(Worker(w)) EXCEPT !.state = "exiting"]
<1>1. WorkerOK(x) /\ x.isDead /\ x.task = NoTask
  BY WorkerIsOK, FinishedDeadOK
<1>2. Settle(w, "rejected") /\ Drain(queue, With(w, x))
  BY DEF OnError
<1> HIDE DEF x
<1> QED
  BY <1>1, <1>2, SettleStep

LEMMA OnExitStep ==
    ASSUME IInv, NEW w \in Workers, OnExit(w)
    PROVE  IInv' /\ Allowed
<1> DEFINE x == [FinishedDead(Worker(w)) EXCEPT !.state = "exited"]
<1>1. WorkerOK(x) /\ x.isDead /\ x.task = NoTask
  BY WorkerIsOK, FinishedDeadOK
<1>2. Settle(w, "rejected") /\ Drain(queue, With(w, x))
  BY DEF OnExit
<1> HIDE DEF x
<1> QED
  BY <1>1, <1>2, SettleStep

\* So does the termination of a worker.
LEMMA TerminatedOK ==
    ASSUME NEW y \in WorkerType
    PROVE  WorkerOK(Terminated(y)) /\ Terminated(y).isDead /\ Terminated(y).task = NoTask
<1>1. PICK s \in {"up", "failed", "exiting", "exited"} :
        s = IF y.state = "up" THEN "exiting" ELSE y.state
  BY DEF WorkerType
<1>2. Terminated(y) = [FinishedDead(y) EXCEPT !.state = s]
  BY <1>1 DEF Terminated
<1> QED
  BY <1>2, FinishedDeadOK

LEMMA TaskTimeoutStep ==
    ASSUME IInv, NEW w \in Workers, TaskTimeout(w)
    PROVE  IInv' /\ Allowed
<1> DEFINE x == Terminated(Worker(w))
<1>1. WorkerOK(x) /\ x.isDead /\ x.task = NoTask
  BY WorkerIsOK, TerminatedOK
<1>2. Settle(w, "rejected") /\ workers' = With(w, x) /\ queue' = queue
  BY DEF TaskTimeout
<1> HIDE DEF x
<1> QED
  BY <1>1, <1>2, SettleStep

-----------------------------------------------------------------------------
(* The calls. *)

\* A small task is settled at once.
LEMMA CallSmallStep ==
    ASSUME IInv, NEW t \in Tasks, CallSmall(t)
    PROVE  IInv' /\ Allowed
<1>1. PICK outcome \in {t, "rejected"} : promise' = [promise EXCEPT ![t] = outcome]
  BY DEF CallSmall
<1>2. promise[t] = "uncalled" /\ queue' = queue /\ workers' = workers
  BY DEF CallSmall
<1>3. PlacesOK(workers) /\ QueueOK(queue, workers) /\ PromiseOK(promise, queue, workers)
  BY DEF IInv
<1>4. promise \in [Tasks -> {"uncalled", "pending", "rejected"} \cup Tasks]
  BY <1>3 DEF PromiseOK
<1>5. /\ promise' \in [Tasks -> {"uncalled", "pending", "rejected"} \cup Tasks]
      /\ \A u : u \in Tasks /\ promise[u] = "pending" => promise'[u] = "pending"
  <2>1. promise' \in [Tasks -> {"uncalled", "pending", "rejected"} \cup Tasks]
    BY <1>1, <1>4
  <2>2. ASSUME NEW u \in Tasks, promise[u] = "pending" PROVE promise'[u] = "pending"
    <3>1. u # t
      BY <1>2, <2>2
    <3> QED
      BY <1>1, <1>4, <2>2, <3>1
  <2> QED
    BY <2>1, <2>2
<1>6. PromiseOK(promise', queue, workers)
  <2>1. \A a \in 1 .. Len(queue) : queue[a] \in Tasks
    <3>1. queue \in Seq(Tasks \ Small)
      BY <1>3 DEF QueueOK
    <3> QED
      BY <3>1, ElementOfSeq
  <2>2. \A i \in Slots : TaskAt(workers[i]) # NoTask => TaskAt(workers[i]) \in Tasks
    BY <1>3, TaskAtType DEF PlacesOK
  <2> QED
    BY <1>3, <1>5, <2>1, <2>2 DEF PromiseOK
<1>7. IInv'
  BY <1>2, <1>3, <1>6 DEF IInv
<1>8. Held' = Held
  BY <1>2, <1>3, HeldIsHeldIn, HeldIsHeldInNext
<1>9. Promised!CallInline(t)
  BY <1>1, <1>2, <1>8 DEF Promised!CallInline
<1> QED
  BY <1>7, <1>9 DEF Allowed, Promised!Next

\* What is called is queued, and some of the queue may start at once.
LEMMA RunStep ==
    ASSUME IInv, NEW t \in Tasks, Run(t)
    PROVE  IInv' /\ Allowed
<1> DEFINE q == Append(queue, t)
<1>1. /\ t \notin Small /\ promise[t] = "uncalled"
      /\ promise' = [promise EXCEPT ![t] = "pending"]
      /\ Drain(q, workers)
  BY DEF Run
<1>2. PlacesOK(workers) /\ QueueOK(queue, workers) /\ PromiseOK(promise, queue, workers)
  BY DEF IInv
<1>3. queue \in Seq(Tasks \ Small) /\ Len(queue) \in Nat
  BY <1>2 DEF QueueOK
<1>4. promise \in [Tasks -> {"uncalled", "pending", "rejected"} \cup Tasks]
  BY <1>2 DEF PromiseOK
<1>5. /\ q \in Seq(Tasks \ Small) /\ Len(q) = Len(queue) + 1
      /\ \A a \in 1 .. Len(queue) : q[a] = queue[a]
      /\ q[Len(queue) + 1] = t
  BY <1>1, <1>3, AppendProperties
<1> HIDE DEF q
<1>6. /\ promise' \in [Tasks -> {"uncalled", "pending", "rejected"} \cup Tasks]
      /\ promise'[t] = "pending" /\ \A u \in Tasks : u # t => promise'[u] = promise[u]
  BY <1>1, <1>4
<1>7. \A a \in 1 .. Len(q) : a \in 1 .. Len(queue) \/ a = Len(queue) + 1
  BY <1>3, <1>5
<1>8. \A a \in 1 .. Len(queue) : queue[a] # t /\ queue[a] \in Tasks
  <2>1. \A a \in 1 .. Len(queue) : queue[a] # t
    BY <1>1, <1>2 DEF PromiseOK
  <2> QED
    BY <1>3, <2>1, ElementOfSeq
<1>9. \A i \in Slots : TaskAt(workers[i]) # t /\ TaskAt(workers[i]) \in Tasks \cup {NoTask}
  <2>1. t # NoTask
    BY PoolAssumption
  <2>2. \A i \in Slots : TaskAt(workers[i]) # t
    BY <1>1, <1>2, <2>1 DEF PromiseOK
  <2> QED
    BY <1>2, <2>2, TaskAtType DEF PlacesOK
<1>10. QueueOK(q, workers)
  <2>1. ASSUME NEW a \in 1 .. Len(q), NEW b \in 1 .. Len(q), q[a] = q[b] PROVE a = b
    BY <1>2, <1>5, <1>7, <1>8, <2>1 DEF QueueOK
  <2>2. \A a \in 1 .. Len(q), i \in Slots : q[a] # TaskAt(workers[i])
    BY <1>2, <1>5, <1>7, <1>9 DEF QueueOK
  <2> QED
    BY <1>5, <2>1, <2>2 DEF QueueOK
<1>11. PromiseOK(promise', q, workers)
  <2>1. \A a \in 1 .. Len(q) : promise'[q[a]] = "pending"
    BY <1>2, <1>5, <1>6, <1>7, <1>8 DEF PromiseOK
  <2>2. \A i \in Slots : TaskAt(workers[i]) # NoTask => promise'[TaskAt(workers[i])] = "pending"
    BY <1>2, <1>6, <1>9 DEF PromiseOK
  <2> QED
    BY <1>6, <2>1, <2>2 DEF PromiseOK
<1>12. IInv' /\ Promised!Start(q, HeldIn(workers))
  BY <1>1, <1>2, <1>10, <1>11, DrainStep
<1>13. Promised!Call(t)
  BY <1>1, <1>12, HeldIsHeldIn DEF Promised!Call, q
<1> QED
  BY <1>12, <1>13 DEF Allowed, Promised!Next

\* A destroyed pool holds no task, and has rejected those that it held.
LEMMA DestroyStep ==
    ASSUME IInv, Destroy
    PROVE  IInv' /\ Allowed
<1>1. /\ queue' = queue
      /\ workers' = [i \in Slots |->
           IF workers[i] = <<>> THEN <<>>
           ELSE [workers[i] EXCEPT ![Len(workers[i])] = Terminated(Current(workers[i]))]]
      /\ promise' = [t \in Tasks |->
           IF \E i \in Slots : workers[i] # <<>> /\ Current(workers[i]).task = t
           THEN "rejected" ELSE promise[t]]
  BY DEF Destroy
<1>2. PlacesOK(workers) /\ QueueOK(queue, workers) /\ PromiseOK(promise, queue, workers)
  BY DEF IInv
<1>3. \A i \in Slots :
        PlaceOK(workers'[i]) /\ workers'[i] \in Seq(WorkerType) /\ TaskAt(workers'[i]) = NoTask
  <2> SUFFICES ASSUME NEW i \in Slots
               PROVE  /\ PlaceOK(workers'[i]) /\ workers'[i] \in Seq(WorkerType)
                      /\ TaskAt(workers'[i]) = NoTask
    OBVIOUS
  <2>1. PlaceOK(workers[i]) /\ workers[i] \in Seq(WorkerType)
    BY <1>2 DEF PlacesOK
  <2>2. CASE workers[i] = <<>>
    BY <1>1, <2>1, <2>2 DEF TaskAt
  <2>3. CASE workers[i] # <<>>
    <3> DEFINE s == workers[i]
               x == Terminated(Current(s))
    <3>1. /\ Len(s) \in 1 .. Len(s) /\ Current(s) = s[Len(s)]
          /\ Current(s) \in WorkerType
      BY <2>1, <2>3, CurrentOK
    <3>2. WorkerOK(x) /\ x.isDead /\ x.task = NoTask
      BY <3>1, TerminatedOK
    <3>3. workers'[i] = [s EXCEPT ![Len(s)] = x]
      BY <1>1, <2>3
    <3> HIDE DEF x
    <3> QED
      BY <2>1, <3>1, <3>2, <3>3, PutOK
  <2> QED
    BY <2>2, <2>3
<1>4. PlacesOK(workers')
  <2>1. workers' = [i \in Slots |-> workers'[i]]
    BY <1>1
  <2>2. workers' \in [Slots -> Seq(WorkerType)]
    BY <1>3, <2>1
  <2> QED
    BY <1>3, <2>2 DEF PlacesOK
<1>5. queue \in Seq(Tasks \ Small) /\ \A a \in 1 .. Len(queue) : queue[a] \in Tasks
  <2>1. queue \in Seq(Tasks \ Small)
    BY <1>2 DEF QueueOK
  <2> QED
    BY <2>1, ElementOfSeq
<1>6. QueueOK(queue', workers')
  BY <1>1, <1>2, <1>3, <1>5, PoolAssumption DEF QueueOK
<1>7. Held = HeldIn(workers) /\ Held' = {}
  <2>1. HeldIn(workers') = {}
    BY <1>3 DEF HeldIn
  <2> QED
    BY <1>4, <2>1, HeldIsHeldIn, HeldIsHeldInNext
<1>8. ASSUME NEW t \in Tasks
      PROVE  (\E i \in Slots : workers[i] # <<>> /\ Current(workers[i]).task = t) <=> t \in Held
  <2>1. t # NoTask
    BY PoolAssumption
  <2> QED
    BY <1>7, <2>1 DEF HeldIn, TaskAt
<1>9. promise' = [t \in Tasks |-> IF t \in Held THEN "rejected" ELSE promise[t]]
  BY <1>1, <1>8
<1>10. Promised!RejectAll
  BY <1>1, <1>7, <1>9 DEF Promised!RejectAll
<1>11. PromiseOK(promise', queue', workers')
  <2>1. promise' \in [Tasks -> {"uncalled", "pending", "rejected"} \cup Tasks]
    BY <1>2, <1>9 DEF PromiseOK
  <2>2. ASSUME NEW a \in 1 .. Len(queue) PROVE promise'[queue[a]] = "pending"
    <3>1. queue[a] \notin HeldIn(workers)
      BY <1>2 DEF QueueOK, HeldIn
    <3> QED
      BY <1>2, <1>5, <1>7, <1>9, <3>1 DEF PromiseOK
  <2> QED
    BY <1>1, <1>3, <2>1, <2>2 DEF PromiseOK
<1>12. IInv'
  BY <1>4, <1>6, <1>11 DEF IInv
<1> QED
  BY <1>10, <1>12 DEF Allowed, Promised!Next

\* Nothing changes when nothing happens; at first nothing was called.
LEMMA StutterStep ==
    ASSUME IInv, UNCHANGED vars
    PROVE  IInv' /\ Allowed
<1>1. queue' = queue /\ workers' = workers /\ promise' = promise
  BY DEF vars
<1>2. IInv'
  BY <1>1 DEF IInv
<1>3. Held' = Held
  BY <1>1, HeldIsHeldIn, HeldIsHeldInNext DEF IInv
<1> QED
  BY <1>1, <1>2, <1>3 DEF Allowed, Promised!vars

LEMMA InitOK == Init => IInv /\ Promised!Init
<1> SUFFICES ASSUME Init PROVE IInv /\ Promised!Init
  OBVIOUS
<1>1. /\ queue = <<>> /\ workers = [i \in Slots |-> <<>>]
      /\ promise = [t \in Tasks |-> "uncalled"]
  BY DEF Init
<1>2. \A i \in Slots : workers[i] = <<>> /\ PlaceOK(workers[i]) /\ TaskAt(workers[i]) = NoTask
  <2>1. <<>> \in Seq(WorkerType) /\ Len(<<>>) = 0
    BY EmptySeq
  <2>2. PlaceOK(<<>>)
    BY <2>1 DEF PlaceOK
  <2> QED
    BY <1>1, <2>2 DEF TaskAt
<1>3. PlacesOK(workers)
  BY <1>1, <1>2, EmptySeq DEF PlacesOK
<1>4. QueueOK(queue, workers)
  <2>1. <<>> \in Seq(Tasks \ Small) /\ Len(<<>>) = 0
    BY EmptySeq
  <2> QED
    BY <1>1, <2>1 DEF QueueOK
<1>5. PromiseOK(promise, queue, workers)
  <2>1. Len(queue) = 0
    BY <1>1
  <2>2. promise \in [Tasks -> {"uncalled", "pending", "rejected"} \cup Tasks]
    BY <1>1
  <2> QED
    BY <1>2, <2>1, <2>2 DEF PromiseOK
<1>6. IInv
  BY <1>3, <1>4, <1>5 DEF IInv
<1>7. Held = {}
  BY <1>2, <1>6, HeldIsHeldIn DEF HeldIn
<1> QED
  BY <1>1, <1>6, <1>7 DEF Promised!Init

\* The induction step, and the step of the refinement.
LEMMA StepOK == IInv /\ [Next]_vars => IInv' /\ Allowed
<1> SUFFICES ASSUME IInv, [Next]_vars PROVE IInv' /\ Allowed
  OBVIOUS
<1>1. ASSUME NEW t \in Tasks, CallSmall(t) PROVE IInv' /\ Allowed
  BY <1>1, CallSmallStep
<1>2. ASSUME NEW t \in Tasks, Run(t) PROVE IInv' /\ Allowed
  BY <1>2, RunStep
<1>3. ASSUME NEW w \in Workers, ThreadPosts(w) PROVE IInv' /\ Allowed
  BY <1>3, ThreadPostsStep
<1>4. ASSUME NEW w \in Workers, ThreadFails(w) \/ ThreadExits(w) PROVE IInv' /\ Allowed
  BY <1>4, ThreadEndsStep
<1>5. ASSUME NEW w \in Workers, OnMessage(w) PROVE IInv' /\ Allowed
  BY <1>5, OnMessageStep
<1>6. ASSUME NEW w \in Workers, OnError(w) PROVE IInv' /\ Allowed
  BY <1>6, OnErrorStep
<1>7. ASSUME NEW w \in Workers, OnExit(w) PROVE IInv' /\ Allowed
  BY <1>7, OnExitStep
<1>8. ASSUME NEW w \in Workers, TaskTimeout(w) PROVE IInv' /\ Allowed
  BY <1>8, TaskTimeoutStep
<1>9. CASE Destroy
  BY <1>9, DestroyStep
<1>10. CASE UNCHANGED vars
  BY <1>10, StutterStep
<1> QED
  BY <1>1, <1>2, <1>3, <1>4, <1>5, <1>6, <1>7, <1>8, <1>9, <1>10 DEF Next, Event

-----------------------------------------------------------------------------
\* The inductive invariant: what one worker, one place, the places together and
\* the queue keep.
THEOREM PoolInvariant == Spec => []IInv
<1>1. Init => IInv
  BY InitOK
<1>2. IInv /\ [Next]_vars => IInv'
  BY StepOK
<1> QED
  BY <1>1, <1>2, PTL DEF Spec

\* A result that is still on its way reaches only the task it belongs to, and
\* the variables have their types.
THEOREM LateResultsHarmless == Spec => []LateResultsAreHarmless
<1>1. IInv => LateResultsAreHarmless
  <2> SUFFICES ASSUME IInv PROVE LateResultsAreHarmless
    OBVIOUS
  <2>1. TypeOK
    BY DEF IInv, PlacesOK, QueueOK, PromiseOK, TypeOK, WorkerType
  <2>2. ASSUME NEW w \in Workers, Worker(w).posted # <<>>
        PROVE  \/ Worker(w).task = Head(Worker(w).posted)
               \/ Worker(w).isDead /\ Worker(w).task = NoTask
    <3> DEFINE y == Worker(w)
    <3>1. WorkerOK(y) /\ y \in WorkerType
      BY WorkerIsOK
    <3> HIDE DEF y
    <3>2. CASE y.task # NoTask
      <4>1. y.posted = <<y.task>>
        BY <2>2, <3>1, <3>2 DEF WorkerOK, y
      <4> QED
        BY <4>1 DEF y
    <3>3. CASE y.task = NoTask
      BY <2>2, <3>1, <3>3 DEF WorkerOK, WorkerType, y
    <3> QED
      BY <3>2, <3>3
  <2> QED
    BY <2>1, <2>2 DEF LateResultsAreHarmless
<1> QED
  BY <1>1, PoolInvariant, PTL

\* The pool keeps the promises of TaskPool: a called task starts in its turn,
\* beside at most MaxPoolSize - 1 others, and is settled once, with its own
\* result or a rejection.
THEOREM ImplementsPromises == Spec => ImplementsTaskPool
<1>1. Init => Promised!Init
  BY InitOK
<1>2. IInv /\ [Next]_vars => [Promised!Next]_(Promised!vars)
  BY StepOK DEF Allowed
<1> QED
  BY <1>1, <1>2, PoolInvariant, PTL DEF Spec, ImplementsTaskPool, Promised!Spec
=============================================================================
