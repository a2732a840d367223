---------------------------- MODULE ComputePool -----------------------------
(***************************************************************************)
(* The pool of worker threads of one process (src/src/compute.js and the   *)
(* message loop of src/src/compute-worker.js).                             *)
(*                                                                         *)
(* The pool lives on the event loop of the main thread, so every handler   *)
(* below is one step: it ends with drain, which hands queued tasks to      *)
(* workers.  A thread runs beside it and is heard of only through events:  *)
(* a posted result, an uncaught error, its exit.  The result and the error *)
(* arrive on different ports, in either order; the exit comes after both.  *)
(* What a task computes is abstracted to the task itself.                  *)
(***************************************************************************)
EXTENDS Naturals, Sequences, FiniteSets, Functions

CONSTANTS
    Tasks,         \* the tasks that are ever handed to the pool
    Small,         \* those below the size at which a thread is worth its cost
    MaxPoolSize,   \* pool.maxPoolSize
    NoTask         \* no callbacks are set; nothing was posted

ASSUME PoolAssumption ==
    /\ IsFiniteSet(Tasks)
    /\ Small \subseteq Tasks
    /\ MaxPoolSize \in Nat \ {0}
    /\ NoTask \notin Tasks

VARIABLES
    queue,     \* pool.queue
    workers,   \* all workers that were ever made for each place of pool.workers;
               \* the last of them is the one that is there
    promise    \* what the caller of each task sees

vars == <<queue, workers, promise>>

Slots == 1 .. MaxPoolSize

\* A ComputeWorker is dead or not, and holds the callbacks and the timer of a
\* task (isComputing iff it holds one).  Its thread has a state, the task that
\* was posted to it, and its results that were not delivered yet.
NewWorker ==
    [isDead |-> FALSE, task |-> NoTask, state |-> "up", inbox |-> NoTask, posted |-> <<>>]

Workers == UNION {{i} \X DOMAIN workers[i] : i \in Slots}
Worker(w) == workers[w[1]][w[2]]

\* The workers when w has become x.
With(w, x) == [workers EXCEPT ![w[1]] = [workers[w[1]] EXCEPT ![w[2]] = x]]

Init ==
    /\ queue = <<>>
    /\ workers = [i \in Slots |-> <<>>]
    /\ promise = [t \in Tasks |-> "uncalled"]

-----------------------------------------------------------------------------
(* drain                                                                   *)

Current(s) == s[Len(s)]

\* getFreeWorker adds a worker, replaces a dead one or takes an idle one ...
IsFree(s) == s = <<>> \/ Current(s).isDead \/ Current(s).task = NoTask

\* ... and ComputeWorker.run sets its callbacks and its timer and posts the
\* task; a thread that is gone never looks at it.
Given(s, t) ==
    IF s = <<>> \/ Current(s).isDead
    THEN Append(s, [NewWorker EXCEPT !.task = t, !.inbox = t])
    ELSE [s EXCEPT ![Len(s)] = [Current(s) EXCEPT !.task = t, !.inbox = t]]

\* The workers ws are handed the tasks of q, oldest first, from the first place
\* on: the task at a goes to place[a], until no task or no worker is left.
IsPlacement(place, n, q, ws) ==
    /\ \A a, b \in 1 .. n : a < b => place[a] < place[b]
    /\ \A i \in Slots \ Range(place) :
        IsFree(ws[i]) => n = Len(q) /\ \A a \in 1 .. n : place[a] < i

Drain(q, ws) ==
    \E n \in 0 .. Len(q) : \E place \in [1 .. n -> {i \in Slots : IsFree(ws[i])}] :
        /\ IsPlacement(place, n, q, ws)
        /\ queue' = SubSeq(q, n + 1, Len(q))
        /\ workers' = [i \in Slots |->
               IF i \in Range(place) THEN Given(ws[i], q[Inverse(place, 1 .. n, Slots)[i]])
               ELSE ws[i]]

\* finishWorker drops the callbacks and the timer.
Finished(x) == [x EXCEPT !.task = NoTask]

FinishedDead(x) == [Finished(x) EXCEPT !.isDead = TRUE]

(* A slip: the worker of a task that timed out counts as idle. *)
TerminatedIdle(x) == [Finished(x) EXCEPT !.state = IF x.state = "up" THEN "exiting" ELSE x.state]

\* worker.terminate() interrupts the thread; what it posted is still delivered.
Terminated(x) == [FinishedDead(x) EXCEPT !.state = IF x.state = "up" THEN "exiting" ELSE x.state]

\* The first settling of a promise counts; an absent callback settles nothing.
Settle(w, outcome) ==
    LET t == Worker(w).task
    IN  promise' = IF t # NoTask /\ promise[t] = "pending"
                   THEN [promise EXCEPT ![t] = outcome]
                   ELSE promise

-----------------------------------------------------------------------------
(* The calls.                                                              *)

\* mergeUpdates and computeStateVector compute a small input at once.
CallSmall(t) ==
    /\ t \in Small
    /\ promise[t] = "uncalled"
    /\ \E outcome \in {t, "rejected"} : promise' = [promise EXCEPT ![t] = outcome]
    /\ UNCHANGED <<queue, workers>>

Run(t) ==
    /\ t \notin Small
    /\ promise[t] = "uncalled"
    /\ promise' = [promise EXCEPT ![t] = "pending"]
    /\ Drain(Append(queue, t), workers)

\* Terminates the workers of the pool; nothing is drained before they exit.
Destroy ==
    /\ \E i \in Slots : workers[i] # <<>>
    /\ workers' = [i \in Slots |->
           IF workers[i] = <<>> THEN <<>>
           ELSE [workers[i] EXCEPT ![Len(workers[i])] = Terminated(Current(workers[i]))]]
    /\ promise' = [t \in Tasks |->
           IF \E i \in Slots : workers[i] # <<>> /\ Current(workers[i]).task = t
           THEN "rejected" ELSE promise[t]]
    /\ UNCHANGED queue

-----------------------------------------------------------------------------
(* The threads.                                                            *)

Thread(w, x) ==
    /\ Worker(w).state = "up"
    /\ workers' = With(w, x)
    /\ UNCHANGED <<queue, promise>>

\* A task is answered by one message.
ThreadPosts(w) ==
    /\ Worker(w).inbox # NoTask
    /\ Thread(w, [Worker(w) EXCEPT !.inbox = NoTask,
                              !.posted = Append(Worker(w).posted, Worker(w).inbox)])

\* An uncaught error, or no memory left; also while the thread is idle.
ThreadFails(w) == Thread(w, [Worker(w) EXCEPT !.state = "failed"])

\* The thread ends without an error.
ThreadExits(w) == Thread(w, [Worker(w) EXCEPT !.state = "exiting"])

-----------------------------------------------------------------------------
(* The handlers of their events, and of the timer of a task.               *)

OnMessage(w) ==
    /\ Worker(w).posted # <<>>
    /\ Settle(w, Head(Worker(w).posted))
    /\ Drain(queue, With(w, [Finished(Worker(w)) EXCEPT !.posted = Tail(Worker(w).posted)]))

(* A slip: the callbacks are dropped before the task is rejected. *)
OnErrorSilent(w) ==
    /\ Worker(w).state = "failed"
    /\ UNCHANGED promise
    /\ Drain(queue, With(w, [FinishedDead(Worker(w)) EXCEPT !.state = "exiting"]))

OnError(w) ==
    /\ Worker(w).state = "failed"
    /\ Settle(w, "rejected")
    /\ Drain(queue, With(w, [FinishedDead(Worker(w)) EXCEPT !.state = "exiting"]))

IsGone(w) == Worker(w).state = "exiting" /\ Worker(w).posted = <<>>

(* A slip: only a result makes the pool look at its queue. *)
OnExitNoDrain(w) ==
    /\ IsGone(w)
    /\ Settle(w, "rejected")
    /\ workers' = With(w, [FinishedDead(Worker(w)) EXCEPT !.state = "exited"])
    /\ UNCHANGED queue

OnExit(w) ==
    /\ IsGone(w)
    /\ Settle(w, "rejected")
    /\ Drain(queue, With(w, [FinishedDead(Worker(w)) EXCEPT !.state = "exited"]))

\* The timer of a task is armed as long as the worker holds the task.  It does
\* not drain: the exit it causes does.
TaskTimeout(w) ==
    /\ Worker(w).task # NoTask
    /\ Settle(w, "rejected")
    /\ workers' = With(w, Terminated(Worker(w)))
    /\ UNCHANGED queue

-----------------------------------------------------------------------------
Event(w) == OnMessage(w) \/ OnError(w) \/ OnExit(w) \/ TaskTimeout(w)

Next ==
    \/ \E t \in Tasks : CallSmall(t) \/ Run(t)
    \/ \E w \in Workers : ThreadPosts(w) \/ ThreadFails(w) \/ ThreadExits(w) \/ Event(w)
    \/ Destroy

Spec == Init /\ [][Next]_vars

\* node delivers the events of the threads and fires the timers; nothing says
\* that a thread ever finishes a task.
FairSpec == Spec /\ WF_vars(\E w \in Workers : Event(w))

-----------------------------------------------------------------------------
(* What the callers are promised.                                          *)

Held == {Worker(w).task : w \in Workers} \ {NoTask}

\* The tasks that were started are the ones some worker holds callbacks of.
Promised == INSTANCE TaskPool WITH waiting <- queue, running <- Held

\* The pool keeps the promises of TaskPool: first come, first started; at most
\* MaxPoolSize at a time; each promise settled once, by its own result or by a
\* rejection, whatever order the result, the error, the exit, the time-out and
\* a destroy come in.
ImplementsTaskPool == Promised!Spec

\* Every task handed to the pool is settled, if events are delivered and timers
\* fire: a thread that never answers is killed, and its exit starts the tasks
\* that wait (compute.js:142-152, 171-174).
EveryTaskIsSettled == Promised!EveryTaskIsSettled

-----------------------------------------------------------------------------
TypeOK ==
    /\ queue \in Seq(Tasks \ Small)
    /\ workers \in [Slots -> Seq([isDead : BOOLEAN, task : Tasks \cup {NoTask},
                                  state : {"up", "failed", "exiting", "exited"},
                                  inbox : Tasks \cup {NoTask}, posted : Seq(Tasks)])]
    /\ promise \in [Tasks -> {"uncalled", "pending", "rejected"} \cup Tasks]

\* A result that is still on its way can only reach the task it belongs to: the
\* worker holds that task, or is dead and holds none.  Were the worker of a task
\* that timed out used again, the late message would settle the next task with
\* the result of the one before (compute.js:126-132, 178-184).
\* The variables have their types.
LateResultsAreHarmless ==
    TypeOK /\ \A w \in Workers : Worker(w).posted # <<>> =>
        \/ Worker(w).task = Head(Worker(w).posted)
        \/ Worker(w).isDead /\ Worker(w).task = NoTask
=============================================================================
