---------------------------- MODULE MCCompaction ----------------------------
(* Model checking of Compaction: workers and task ids are interchangeable. *)
EXTENDS CompactionImplements, TLC

Symmetry == Permutations(Workers) \union Permutations(TaskIds)
=============================================================================
