--------------------------- MODULE MCRunLifecycle ---------------------------
(***************************************************************************)
(* Three `pas run` processes: all of one Pipeline, or of two Pipelines of  *)
(* one worktree, one of the processes running a directory of both.         *)
(***************************************************************************)
EXTENDS RunLifecycle

MCPid == 1..3
OneJob == [p \in MCPid |-> <<"a">>]
Directory == [p \in MCPid |->
    CASE p = 1 -> <<"a", "b">> [] p = 2 -> <<"b">> [] OTHER -> <<"a">>]
ThreeJobs == [p \in MCPid |->
    CASE p = 1 -> <<"a">> [] p = 2 -> <<"b">> [] OTHER -> <<"c">>]
NobodyAsks == [p \in MCPid |-> "none"]
ThirdAsks == [p \in MCPid |-> IF p = 3 THEN "r1" ELSE "none"]
=============================================================================
