---------------------------- MODULE MCHumanGate ----------------------------
(***************************************************************************)
(* Two gates whose node ids become the same in a file name, visited in a   *)
(* loop.                                                                   *)
(***************************************************************************)
EXTENDS HumanGate

MCGate == {"a.b", "a_b"}
MCSlug == [g \in MCGate |-> "a_b"]
MCVisits == <<"a.b", "a_b", "a.b">>
=============================================================================
