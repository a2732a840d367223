------------------------ MODULE CompactionImplements ------------------------
(***************************************************************************)
(* What Compaction implements.  Seen through storage and stream together   *)
(* it is a DocStore; seen through redis it is a RoomStream with one room   *)
(* and no quarantine, so what is proved of RoomStream holds of the room    *)
(* that the workers compact.                                               *)
(***************************************************************************)
EXTENDS Compaction

Abstract == INSTANCE DocStore WITH
  Changes <- 1 .. MaxClock,
  recoverable <- IF Hard THEN {} ELSE Content(rows) \union (written \intersect log),
  erased <- Hard

Redis == INSTANCE RoomStream WITH
  Rooms <- {"room"},
  Qids <- {},
  Operators <- {},
  Imported <- {},
  CleanupExclusive <- TRUE,
  None <- "none",
  live <- {r \in {"room"} : live},
  log <- [r \in {"room"} |-> {[id |-> i, origin |-> i, kind |-> "m"] : i \in log}],
  pending <- [t \in TaskIds |-> IF t \in pending THEN "room" ELSE "none"],
  disabled <- {r \in {"room"} : disabled},
  quarantined <- [q \in {} |-> {}],
  op <- [o \in {} |-> {}]

(* Compaction changes neither what can be recovered nor anything that is    *)
(* erased: rows, references and trims of any number of runs, in any order,  *)
(* are invisible.                                                           *)
ImplementsDocStore == Abstract!Spec

(* Every step of the workers, clients and operators is a step of RoomStream *)
(* or leaves redis alone: a late worker's trim in particular.               *)
ImplementsRoomStream == Redis!Spec
=============================================================================
