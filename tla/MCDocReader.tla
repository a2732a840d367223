----------------------------- MODULE MCDocReader -----------------------------
(* Model checking of DocReader and of the progress of its worker. *)
EXTENDS DocReader, TLC
=============================================================================
