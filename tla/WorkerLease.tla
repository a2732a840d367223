----------------------------- MODULE WorkerLease -----------------------------
(***************************************************************************)
(* The leases of the tasks on the worker stream: startWorker, _renewLeases *)
(* and stopWorker of src/src/index.js over claimTasks and renewTasks of    *)
(* src/src/stream.js.  A task is an entry of the worker stream that is     *)
(* pending in its consumer group, and its lease is its idle time: a worker *)
(* claims tasks that idled for taskDebounce and renews those it computes.  *)
(*                                                                         *)
(* Abstractions.  What a run does is in Compaction: here it ends and acks  *)
(* its task in one step, which may leave a successor, or fails.  A task's  *)
(* owner does not matter to XAUTOCLAIM, and to XCLAIM with a min-idle of 0 *)
(* neither.  Time passes in ticks, for all processes alike.                *)
(***************************************************************************)
EXTENDS Naturals, FiniteSets, FiniteSetsExt, Functions

CONSTANTS
  Workers,       \* calls of startWorker: those of one process share nothing
  MaxTasks,      \* bound: tasks that are ever enqueued
  Concurrency,   \* worker.taskConcurrency of each
  ScanFactor,    \* XAUTOCLAIM examines ScanFactor * COUNT entries (10 in redis)
  Debounce,      \* redis.taskDebounce, in ticks
  RenewEvery,    \* the interval of _renewLeases
  ReplyWithin,   \* how long redis takes to answer when it is punctual
  MaxDuration,   \* computePool.taskTimeout
  MaxRuns,       \* bound: runs of a task in a process at a time
  MaxFaults      \* bound: failures, wedged runs, lost replies, late loops, stops, crashes

ASSUME LeaseAssumption ==
  /\ {MaxTasks, ScanFactor, Debounce, RenewEvery, MaxDuration, MaxRuns}
       \subseteq Nat \ {0}
  /\ Concurrency \in [Workers -> Nat \ {0}]
  /\ {ReplyWithin, MaxFaults} \subseteq Nat
  /\ ReplyWithin + RenewEvery < Debounce

Tasks == 1 .. MaxTasks

VARIABLES
  pending,    \* the tasks that are pending
  idle,       \* the idle time of each, up to Debounce
  next,       \* the id of the next task
  worker,     \* the loops of each process
  inflight,   \* the map of each process from its tasks to the runs that hold them
  runs,       \* the runs that have not ended
  late,       \* has a loop or a reply ever been late, or a renewal failed?
  faults

redisVars == <<pending, idle, next>>
vars == <<redisVars, worker, inflight, runs, late, faults>>

(* alive is shouldRun, renews says that the loop of _renewLeases is still    *)
(* there, timer is the time since its last turn.  claiming and reply are the *)
(* await of claimTasks and what redis answers, waited is how long it took.   *)
NewWorker ==
  [alive |-> TRUE, renews |-> TRUE, timer |-> 0, claiming |-> FALSE, reply |-> {}, waited |-> 0]
NoRuns == [t \in {} |-> 0]

Init ==
  /\ pending = {} /\ idle = [t \in Tasks |-> 0] /\ next = 1
  /\ worker = [w \in Workers |-> NewWorker]
  /\ inflight = [w \in Workers |-> NoRuns]
  /\ runs = {}
  /\ late = FALSE /\ faults = 0

Fault == faults < MaxFaults /\ faults' = faults + 1

AtMost(n, max) == IF n > max THEN max ELSE n

-----------------------------------------------------------------------------
(* addMessage of a room without a task. *)
AddTask ==
  /\ next \in Tasks
  /\ pending' = pending \union {next}
  /\ next' = next + 1
  /\ UNCHANGED <<idle, worker, inflight, runs, late, faults>>

(* A slip: the lease ends when the next renewal is due. *)
IsStaleEarly(t) == idle[t] >= Debounce - 1
IsStale(t) == idle[t] >= Debounce

(* The first n of a set of ids. *)
First(n, S) == {t \in S : Cardinality({u \in S : u < t}) < n}
Free(w) == Concurrency[w] - Cardinality(DOMAIN inflight[w])

(* XAUTOCLAIM from '0' with COUNT free. *)
Claimed(w) == First(Free(w), {t \in First(ScanFactor * Free(w), pending) : IsStale(t)})

Claim(w) ==
  /\ worker[w].alive /\ ~worker[w].claiming
  /\ Cardinality(DOMAIN inflight[w]) < Concurrency[w] /\ Claimed(w) # {}
  /\ idle' = [t \in Tasks |-> IF t \in Claimed(w) THEN 0 ELSE idle[t]]
  /\ worker' = [worker EXCEPT ![w].claiming = TRUE, ![w].reply = Claimed(w), ![w].waited = 0]
  /\ UNCHANGED <<pending, next, inflight, runs, late, faults>>

Answered(w) == [worker[w] EXCEPT !.claiming = FALSE, !.reply = {}, !.waited = 0]

LoseReply(w) ==
  /\ worker[w].claiming /\ Fault
  /\ worker' = [worker EXCEPT ![w] = Answered(w)]
  /\ UNCHANGED <<redisVars, inflight, runs, late>>

(* Tasks that are in flight here are not run a second time. *)
NewTasks(w) == worker[w].reply \ DOMAIN inflight[w]

RunsOf(w, t) == {r \in runs : r.worker = w /\ r.task = t}
FreshRun(w, t) == Min((1 .. MaxRuns + 1) \ {r.n : r \in RunsOf(w, t)})
Held(w, r) == r.worker = w /\ r.task \in DOMAIN inflight[w] /\ inflight[w][r.task] = r.n

StartRuns(w) ==
  /\ worker[w].claiming
  /\ \A t \in NewTasks(w) : FreshRun(w, t) <= MaxRuns
  /\ inflight' = [inflight EXCEPT ![w] =
       [t \in DOMAIN @ \union NewTasks(w) |->
          IF t \in NewTasks(w) THEN FreshRun(w, t) ELSE inflight[w][t]]]
  /\ runs' = runs \union
       {[worker |-> w, task |-> t, n |-> FreshRun(w, t), age |-> 0, wedged |-> FALSE,
         abandoned |-> FALSE] : t \in NewTasks(w)}
  /\ worker' = [worker EXCEPT ![w] = Answered(w)]
  /\ UNCHANGED <<redisVars, late, faults>>

-----------------------------------------------------------------------------
(* _runTask *)

(* A slip: a run that ends takes the entry of its task with it. *)
LeavesAny(r) == r.task \in DOMAIN inflight[r.worker]

(* An abandoned run must not delete the entry of the run that replaced it. *)
Leaves(r) == Held(r.worker, r)

EndRun(r) ==
  /\ runs' = runs \ {r}
  /\ inflight' = IF Leaves(r)
                 THEN [inflight EXCEPT ![r.worker] = Restrict(@, DOMAIN @ \ {r.task})]
                 ELSE inflight

(* trimMessages acks the task, unless it was acked before, and leaves a      *)
(* successor as long as the stream is not empty.                             *)
Complete(r) ==
  /\ EndRun(r)
  /\ idle' = [idle EXCEPT ![r.task] = 0]
  /\ \/ pending' = pending \ {r.task} /\ UNCHANGED next
     \/ /\ r.task \in pending /\ next \in Tasks
        /\ pending' = (pending \ {r.task}) \union {next}
        /\ next' = next + 1
  /\ UNCHANGED <<worker, late, faults>>

Fail(r) ==
  /\ Fault /\ EndRun(r)
  /\ UNCHANGED <<redisVars, worker, late>>

(* A socket that never answers: the run may end much later, or never. *)
Wedge(r) ==
  /\ ~r.wedged /\ Fault
  /\ runs' = (runs \ {r}) \union {[r EXCEPT !.wedged = TRUE]}
  /\ UNCHANGED <<redisVars, worker, inflight, late>>

-----------------------------------------------------------------------------
(* _renewLeases *)

(* A slip: a run is waited for. *)
NeverOverdue(r) == FALSE
Overdue(r) == r.age > MaxDuration

LetGo(w) == {r \in runs : Held(w, r) /\ Overdue(r)}
Kept(w) == DOMAIN inflight[w] \ {r.task : r \in LetGo(w)}

(* A turn of the loop: overdue runs are abandoned, the others renewed. *)
Turn(w) ==
  /\ worker[w].renews
  /\ inflight' = [inflight EXCEPT ![w] = Restrict(@, Kept(w))]
  /\ runs' = (runs \ LetGo(w)) \union {[r EXCEPT !.abandoned = TRUE] : r \in LetGo(w)}
  /\ worker' = [worker EXCEPT ![w].timer = 0, ![w].renews = worker[w].alive]

(* XCLAIM with a min-idle of 0; what is not pending any more is not claimed. *)
Renew(w) ==
  /\ Turn(w)
  /\ idle' = [t \in Tasks |-> IF t \in pending \intersect Kept(w) THEN 0 ELSE idle[t]]
  /\ UNCHANGED <<pending, next, late, faults>>

RenewalFails(w) ==
  /\ Turn(w) /\ Fault
  /\ late' = TRUE
  /\ UNCHANGED redisVars

-----------------------------------------------------------------------------
(* stopWorker: the runs go on, and so does a claim that is not answered, also *)
(* when the same process starts a worker again, which is another of Workers. *)
Stop(w) ==
  /\ worker[w].alive /\ Fault
  /\ worker' = [worker EXCEPT ![w].alive = FALSE]
  /\ UNCHANGED <<redisVars, inflight, runs, late>>

EndProcess(w) ==
  /\ worker' = [worker EXCEPT ![w] = NewWorker]
  /\ inflight' = [inflight EXCEPT ![w] = NoRuns]
  /\ runs' = {r \in runs : r.worker # w}
  /\ UNCHANGED <<redisVars, late>>

(* The process crashes, and starts again when it pleases. *)
Crash(w) == worker[w].alive /\ Fault /\ EndProcess(w)

(* A process whose worker was stopped ends, and another takes its place. *)
Replace(w) == ~worker[w].alive /\ UNCHANGED faults /\ EndProcess(w)

(* A tick; that a loop is late is a fault, and from then on any may be. *)
IsLate(w) ==
  \/ worker[w].renews /\ worker[w].timer >= RenewEvery
  \/ worker[w].claiming /\ worker[w].waited >= ReplyWithin
Tick ==
  /\ IF ~late /\ \E w \in Workers : IsLate(w)
     THEN late' = TRUE /\ Fault
     ELSE UNCHANGED <<late, faults>>
  /\ worker' = [w \in Workers |-> [worker[w] EXCEPT
       !.timer = IF late' \/ ~worker[w].renews THEN 0 ELSE @ + 1,
       !.waited = IF late' \/ ~worker[w].claiming THEN 0 ELSE @ + 1]]
  /\ idle' = [t \in Tasks |-> IF t \in pending THEN AtMost(idle[t] + 1, Debounce) ELSE idle[t]]
  /\ runs' = {[r EXCEPT !.age = AtMost(@ + 1, MaxDuration + 1)] : r \in runs}
  /\ UNCHANGED <<pending, next, inflight>>

Next ==
  \/ AddTask \/ Tick
  \/ \E w \in Workers :
       \/ Claim(w) \/ LoseReply(w) \/ StartRuns(w) \/ Renew(w) \/ RenewalFails(w)
       \/ Stop(w) \/ Crash(w) \/ Replace(w)
  \/ \E r \in runs : Complete(r) \/ Fail(r) \/ Wedge(r)

Spec == Init /\ [][Next]_vars

(* Time passes, loops take their turns, redis answers, who stops a worker    *)
(* starts another, and of the runs all but the wedged ones end.              *)
Poll(w) == Claim(w) \/ StartRuns(w) \/ Replace(w)
Finish(w) == \E r \in runs : r.worker = w /\ ~r.wedged /\ Complete(r)
Fairness ==
  /\ WF_vars(Tick)
  /\ WF_vars(\E w \in Workers : Poll(w))
  /\ WF_vars(\E w \in Workers : Renew(w))
  /\ WF_vars(\E w \in Workers : Finish(w))
FairSpec == Spec /\ Fairness

-----------------------------------------------------------------------------
(* Type invariant; a reply is there only while it is waited for.             *)
TypeOK ==
  /\ pending \subseteq 1 .. (next - 1) /\ next \in 1 .. MaxTasks + 1
  /\ idle \in [Tasks -> 0 .. Debounce]
  /\ worker \in [Workers ->
       [alive : BOOLEAN, renews : BOOLEAN, timer : Nat, claiming : BOOLEAN,
        reply : SUBSET Tasks, waited : Nat]]
  /\ \A w \in Workers : worker[w].reply # {} => worker[w].claiming
  /\ \A w \in Workers : inflight[w] \in [DOMAIN inflight[w] -> 1 .. MaxRuns]
  /\ \A r \in runs :
       r \in [worker : Workers, task : Tasks, n : 1 .. MaxRuns, age : 0 .. MaxDuration + 1,
              wedged : BOOLEAN, abandoned : BOOLEAN]
  /\ late \in BOOLEAN /\ faults \in 0 .. MaxFaults

(* A process holds the runs that it started and neither ended nor abandoned, *)
(* and never more than its taskConcurrency: a run that ends late releases    *)
(* nothing of its replacement.  The variables have their types.              *)
HoldsItsRuns ==
  TypeOK /\ \A w \in Workers :
    /\ Cardinality(DOMAIN inflight[w]) <= Concurrency[w]
    /\ {<<t, inflight[w][t]>> : t \in DOMAIN inflight[w]}
         = {<<r.task, r.n>> : r \in {s \in runs : s.worker = w /\ ~s.abandoned}}

(* As long as the loops take their turns in time and redis answers in time,  *)
(* no task is computed by two workers, but for runs that were abandoned or   *)
(* whose worker was stopped.                                                 *)
LeaseIsExclusive ==
  ~late =>
    \A r, s \in {x \in runs : ~x.abandoned /\ worker[x.worker].alive} :
      r.task = s.task => r = s

(* The workers share the tasks as TaskLeases has it.  A claim that is not    *)
(* answered yet counts as holding what redis has given away (Holds), and     *)
(* what may be computed without a lease are the tasks of stopped workers and *)
(* those of abandoned runs.                                                  *)
Holds(w) == DOMAIN inflight[w] \union worker[w].reply
HeldBy(w) == IF worker[w].alive THEN Holds(w) ELSE {}
Strays ==
  (UNION {Holds(w) : w \in {v \in Workers : ~worker[v].alive}})
    \union {r.task : r \in {s \in runs : s.abandoned}}
Leased == INSTANCE TaskLeases WITH
  held <- [w \in Workers |-> HeldBy(w)], stray <- Strays

(* No worker takes more tasks than it may have nor, as long as everybody is  *)
(* in time, one that another holds, be it running or on its way to it; what  *)
(* is let go can be taken again; and a task leaves the worker stream only    *)
(* when somebody who took it is done with it.                                *)
ImplementsTaskLeases == Leased!Spec

(* Every task is completed, whatever run of it fails, wedges or loses its    *)
(* process: its lease ends and another run takes over.                       *)
EveryTaskCompletes == \A t \in Tasks : []<>(t \notin pending)
=============================================================================
