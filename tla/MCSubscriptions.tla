-------------------------- MODULE MCSubscriptions --------------------------
(* Model checking of Subscriptions: who connects to which room. *)
EXTENDS Subscriptions, TLC

CONSTANTS u1, u2, r1, r2
SameRoom == [u \in Users |-> r1]
TwoRooms == (u1 :> r1) @@ (u2 :> r2)
Symmetry == Permutations(Users)
=============================================================================
