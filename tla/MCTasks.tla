------------------------------ MODULE MCTasks ------------------------------
(***************************************************************************)
(* Two Runs of an Epic of two Tasks, of which the one that comes later in  *)
(* the order blocks the other.                                             *)
(***************************************************************************)
EXTENDS Tasks, TLC

MCTask == {"t1", "t2"}
MCBlocks == [t \in MCTask |-> IF t = "t1" THEN {"t2"} ELSE {}]
MCPlace == [t \in MCTask |-> IF t = "t1" THEN 1 ELSE 2]
MCSymmetry == Permutations(Run)
=============================================================================
