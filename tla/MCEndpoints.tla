----------------------------- MODULE MCEndpoints -----------------------------
(* Model checking of Endpoints: a request of any kind but patch meets a      *)
(* patch, or one that is answered from the cache or computes what is cached. *)
EXTENDS Endpoints, TLC

CONSTANTS r1, r2
KindsOf == r1 :> (AllKinds \ {"patch"}) @@ r2 :> {"changeset", "patch"}
=============================================================================
