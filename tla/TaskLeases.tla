----------------------------- MODULE TaskLeases -----------------------------
(***************************************************************************)
(* What the worker stream promises to the workers of src/src/index.js: a   *)
(* worker takes no more tasks than it may have at a time and, as long as   *)
(* everybody is in time, none that another one holds; what it lets go may  *)
(* be taken again; and a task leaves the stream only by the hands of       *)
(* somebody who took it.  Idle times, intervals, runs and replies are      *)
(* details of WorkerLease.                                                 *)
(***************************************************************************)
EXTENDS Naturals, FiniteSets

CONSTANTS
    Workers,
    MaxTasks,      \* bound: tasks that are ever added
    Concurrency    \* how many tasks each worker may hold

VARIABLES
    pending,       \* the tasks that are not done
    next,          \* the next task
    held,          \* the tasks that each worker holds
    stray,         \* tasks that may still be computed by who has let them go
    late           \* has somebody been late?

vars == <<pending, next, held, stray, late>>

Tasks == 1 .. MaxTasks

Init ==
    /\ pending = {} /\ next = 1
    /\ held = [w \in Workers |-> {}] /\ stray = {}
    /\ late = FALSE

Add ==
    /\ next \in Tasks
    /\ pending' = pending \cup {next}
    /\ next' = next + 1
    /\ UNCHANGED <<held, stray, late>>

Take(w) ==
    \E ts \in (SUBSET pending) \ {{}} :
        /\ Cardinality(held[w] \cup ts) <= Concurrency[w]
        /\ late \/ \A v \in Workers : held[v] \cap ts = {}
        /\ held' = [held EXCEPT ![w] = @ \cup ts]
        /\ UNCHANGED <<pending, next, stray, late>>

\* A worker gives up some of its tasks, or all of them because it ends; it may
\* go on to compute them, or what it had let go before may end.
LetGo(w) ==
    /\ \E ts \in SUBSET held[w] : held' = [held EXCEPT ![w] = ts]
    /\ stray' \in SUBSET (stray \cup held[w])
    /\ late' \in {late, TRUE}
    /\ UNCHANGED <<pending, next>>

\* A task is done: it leaves the stream unless it has left before, and in its
\* place may come a successor.
Done(t) ==
    /\ t \in stray \cup UNION {held[w] : w \in Workers}
    /\ \/ UNCHANGED held
       \/ \E w \in Workers : held' = [held EXCEPT ![w] = @ \ {t}]
    /\ stray' \in {stray, stray \ {t}}
    /\ \/ pending' = pending \ {t} /\ UNCHANGED next
       \/ /\ t \in pending /\ next \in Tasks
          /\ pending' = (pending \ {t}) \cup {next}
          /\ next' = next + 1
    /\ UNCHANGED late

Next ==
    \/ Add
    \/ \E w \in Workers : Take(w) \/ LetGo(w)
    \/ \E t \in Tasks : Done(t)

Spec == Init /\ [][Next]_vars
=============================================================================
