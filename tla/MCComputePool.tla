--------------------------- MODULE MCComputePool ----------------------------
EXTENDS ComputePool, TLC

CONSTANTS t1, t2, t3, t4

\* Two workers and three tasks for them: one task waits while both are busy,
\* and one worker is replaced while the other computes.  t4 needs no worker.
FourTasks == {t1, t2, t3, t4}
=============================================================================
