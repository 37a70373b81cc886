------------------------------ MODULE EventLog ------------------------------
(***************************************************************************)
(* What a Run Journal promises (attractor-journal, spec C3): one growing   *)
(* log of Events with growing numbers, and a follower that is given each   *)
(* of them once and in order.  A power loss may take back a suffix, but    *)
(* then the follower starts again too.                                     *)
(***************************************************************************)
EXTENDS Naturals, Sequences

CONSTANT Event   \* [seq, id, must]

VARIABLES log, seen

Init == log = <<>> /\ seen = <<>>

Record ==
    /\ \E e \in Event :
        /\ \A i \in DOMAIN log : log[i].seq < e.seq
        /\ log' = Append(log, e)
    /\ UNCHANGED seen

Deliver ==
    /\ \E k \in Len(seen) + 1 .. Len(log) : seen' = SubSeq(log, 1, k)
    /\ UNCHANGED log

Lose ==
    /\ \E k \in 0 .. Len(log) : log' = SubSeq(log, 1, k)
    /\ seen' = <<>>

Spec == Init /\ [][Record \/ Deliver \/ Lose]_<<log, seen>>

(* Whatever is in the log and stays there is delivered.                    *)
LiveSpec == Spec /\ WF_<<log, seen>>(Deliver)
=============================================================================
