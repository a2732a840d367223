---------------------------- MODULE MCWorkerLease ----------------------------
(* Model checking of WorkerLease: two workers, each with one task at a time. *)
EXTENDS WorkerLease, TLC

CONSTANTS w1, w2
ConcurrencyOf == w1 :> 1 @@ w2 :> 1
=============================================================================
