------------------------------ MODULE MCEngine ------------------------------
(***************************************************************************)
(* A plan of two halves, of which its first node picks one.  The upper half*)
(* has a task with retries and a goal gate, a quality node in a fix loop,  *)
(* and an edge that resets the quality budget; the lower one a human gate  *)
(* whose answer is a label, goal gates with different retry targets and    *)
(* one with none, a loop_restart edge, and a node without edges.           *)
(*                                                                         *)
(*     start -> work -> check -> ship -> exit                              *)
(*       |       ^---fix--+        |                                       *)
(*       |       ^------next task--+                                       *)
(*       +----> build -> lint -> review -> exit                            *)
(*                ^---again/new----+                                       *)
(*                                 +-> park                                *)
(***************************************************************************)
EXTENDS Engine

MCNode == {"start", "work", "check", "ship", "build", "lint", "review", "park", "exit"}
MCRank == [n \in MCNode |->
    CASE n = "build" -> 1 [] n = "check" -> 2 [] n = "exit" -> 3 [] n = "lint" -> 4 [] n = "park" -> 5
      [] n = "review" -> 6 [] n = "ship" -> 7 [] n = "start" -> 8 [] n = "work" -> 9]
MCNormal == [l \in {"none", "upper", "lower", "ship", "again", "new", "park"} |-> l]

Plain(from, to) ==
    [from |-> from, to |-> to, conditional |-> FALSE, clauses |-> {},
     label |-> NoLabel, weight |-> 0,
     loop_restart |-> FALSE, reset_quality |-> FALSE]
Named(from, to, label) == [Plain(from, to) EXCEPT !.label = label]

When(from, to, key, value) ==
    [Plain(from, to) EXCEPT !.conditional = TRUE,
        !.clauses = {[key |-> key, op |-> "=", value |-> value]}]

MCEdges == [n \in MCNode |->
    CASE n = "start" -> <<Named("start", "work", "upper"), Named("start", "build", "lower")>>
      [] n = "work"  -> <<Plain("work", "check")>>
      [] n = "check" -> <<When("check", "ship", "outcome", "success"),
                          When("check", "work", "outcome", "fail")>>
      [] n = "ship"  -> <<Plain("ship", "exit"),
                          [When("ship", "work", "context", "more")
                              EXCEPT !.reset_quality = TRUE]>>
      [] n = "build"  -> <<Plain("build", "lint")>>
      [] n = "lint"   -> <<Plain("lint", "review")>>
      [] n = "review" -> <<Named("review", "exit", "ship"),
                           Named("review", "build", "again"),
                           [Named("review", "build", "new")
                               EXCEPT !.loop_restart = TRUE],
                           Named("review", "park", "park")>>
      [] OTHER -> <<>>]

Result(kind, status, cost) ==
    [kind |-> kind, status |-> status, cost |-> cost, label |-> NoLabel,
     suggested |-> <<>>, context |-> "unset", reserved |-> FALSE,
     print |-> FALSE]
Ok(status) == Result("ok", status, 0)
Answer(status, label) == [Ok(status) EXCEPT !.label = label]

MCResults == [n \in MCNode |->
    CASE n = "start" -> {Answer("success", "upper"), Answer("success", "lower")}
      [] n = "work"  -> {Ok("success"), Ok("fail"), Result("ok", "retry", 1),
                         Result("retryable", "fail", 0),
                         Result("ok", "success", 1)}
      [] n = "check" -> {Ok("success"), Result("fatal", "fail", 0),
                         [Ok("fail") EXCEPT !.print = TRUE]}
      [] n = "ship"  -> {[Ok("success") EXCEPT !.context = "more"],
                         [Ok("success") EXCEPT !.context = "done"],
                         [Ok("success") EXCEPT !.reserved = TRUE]}
      [] n = "build"  -> {Ok("success"), Ok("fail")}
      [] n = "lint"   -> {Ok("success"), [Ok("fail") EXCEPT !.print = TRUE]}
      [] n = "review" -> {Answer("success", l) : l \in {"ship", "again", "new", "park"}}
                         \cup {Answer("skipped", "ship")}
      [] n = "park"   -> {Ok("success"), Ok("fail")}
      [] n = "exit"   -> {Ok("success")}]

MCMaxAttempts == [n \in MCNode |-> IF n = "work" THEN 2 ELSE 1]
MCGates == {"work", "build", "lint", "review"}
MCRetryChain == [g \in MCGates |->
    CASE g = "work" -> <<"work", "nobody", "start", "nobody">>
      [] g = "build" -> <<"build", "nobody", "nobody", "nobody">>
      [] g = "lint" -> <<"nobody", "lint", "nobody", "nobody">>
      [] OTHER -> <<"nobody", "nobody", "nobody", "nobody">>]
MCContexts == {"more", "done"}
=============================================================================
