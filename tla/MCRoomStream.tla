---------------------------- MODULE MCRoomStream ----------------------------
(* Model checking of RoomStream: sets of model values and their symmetry. *)
EXTENDS RoomStream, TLC

(* Rooms with and without imports are not alike. *)
Symmetry == Permutations(TaskIds) \union Permutations(Qids) \union Permutations(Operators)
=============================================================================
