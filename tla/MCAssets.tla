------------------------------ MODULE MCAssets ------------------------------
(* Model checking of Assets: the runs are interchangeable. *)
EXTENDS Assets, TLC

Symmetry == Permutations(Workers)
=============================================================================
