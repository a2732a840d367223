------------------------------ MODULE DocStore ------------------------------
(***************************************************************************)
(* What the hub promises for one room, whoever compacts it: the document   *)
(* is the set of the changes ever written, until it is erased for good.    *)
(* Compaction is invisible.                                                *)
(***************************************************************************)
EXTENDS Integers

CONSTANT Changes

VARIABLES
  recoverable,  \* the changes that a reader of storage and stream can get back
  erased        \* was the document hard-deleted?

Init == recoverable = {} /\ erased = FALSE

Write(c) ==
  /\ ~erased
  /\ c \notin recoverable
  /\ recoverable' = recoverable \union {c}
  /\ UNCHANGED erased

Erase ==
  /\ ~erased
  /\ recoverable' = {}
  /\ erased' = TRUE

Next == (\E c \in Changes : Write(c)) \/ Erase

Spec == Init /\ [][Next]_<<recoverable, erased>>
=============================================================================
