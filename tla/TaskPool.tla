------------------------------ MODULE TaskPool ------------------------------
(***************************************************************************)
(* What a compute pool promises its callers (src/src/compute.js): a called *)
(* task waits its turn, runs beside at most MaxPoolSize - 1 others, and    *)
(* its promise is settled once, by its own result or by a rejection.       *)
(* Workers, threads and their events are details of ComputePool.           *)
(***************************************************************************)
EXTENDS Naturals, Sequences, FiniteSets

CONSTANTS
    Tasks,        \* the tasks that are ever handed to the pool
    MaxPoolSize   \* pool.maxPoolSize

VARIABLES
    promise,      \* what the caller of each task sees
    waiting,      \* the tasks that have not been started, oldest first
    running       \* the tasks that are being computed

vars == <<promise, waiting, running>>

\* A settled promise holds "rejected", or the task whose result it got.
Settled(t) == promise[t] \in {"rejected"} \cup Tasks

Init ==
    /\ promise = [t \in Tasks |-> "uncalled"]
    /\ waiting = <<>>
    /\ running = {}

\* The oldest of the tasks in ws are started, as many as the pool cares to:
\* none, if a worker is about to be replaced.
Start(ws, rs) ==
    \E n \in 0 .. Len(ws) :
        /\ waiting' = SubSeq(ws, n + 1, Len(ws))
        /\ running' = rs \cup {ws[i] : i \in 1 .. n}
        /\ n > 0 => Cardinality(running') <= MaxPoolSize

Call(t) ==
    /\ promise[t] = "uncalled"
    /\ promise' = [promise EXCEPT ![t] = "pending"]
    /\ Start(Append(waiting, t), running)

\* A small task is computed by the caller, who waits for nobody.
CallInline(t) ==
    /\ promise[t] = "uncalled"
    /\ \E outcome \in {"rejected", t} : promise' = [promise EXCEPT ![t] = outcome]
    /\ UNCHANGED <<waiting, running>>

\* One running task gets its result or is rejected; others may start.
Settle(t) ==
    /\ t \in running
    /\ \E outcome \in {"rejected", t} : promise' = [promise EXCEPT ![t] = outcome]
    /\ Start(waiting, running \ {t})

\* Several running tasks are rejected at once: the pool is destroyed.
RejectAll ==
    /\ promise' = [t \in Tasks |-> IF t \in running THEN "rejected" ELSE promise[t]]
    /\ running' = {}
    /\ UNCHANGED waiting

\* A worker was replaced: waiting tasks start without another one being settled.
StartWaiting ==
    /\ Start(waiting, running)
    /\ UNCHANGED promise

Next ==
    \/ \E t \in Tasks : Call(t) \/ CallInline(t) \/ Settle(t)
    \/ RejectAll
    \/ StartWaiting

Spec == Init /\ [][Next]_vars

\* Whoever hands a task to the pool hears of it again.
EveryTaskIsSettled == \A t \in Tasks : []<>(promise[t] # "pending")
=============================================================================
