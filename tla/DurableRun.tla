----------------------------- MODULE DurableRun -----------------------------
(***************************************************************************)
(* What a Run promises whoever starts it: one walk of the plan, whatever   *)
(* happens to the processes that work on it.  There is no process here, no *)
(* memory and no file: who kills, stops or resumes a Run, and a disk that  *)
(* is full, changes nothing of it.                                         *)
(***************************************************************************)
EXTENDS Naturals, Sequences

CONSTANTS
    Node, Start, Exits,
    Edges,          \* [Node -> Seq([to, loop_restart, ...])]
    Gates,
    Jumps,          \* [Gates -> where a failing gate sends the walk]
    MaxAttempts, Waiting,
    MaxSteps, MaxBudget,
    Statuses, Passing, NoStatus

VARIABLES
    at,             \* the node the walk is at
    path,           \* the nodes it has been through
    outcome,        \* [Node -> what the node last came to]
    steps,          \* attempts counted
    cost,           \* what they cost
    runs,           \* handlers started
    tried           \* of these, in the current visit of the node

walk == <<at, path, outcome>>
vars == <<at, path, outcome, steps, cost, runs, tried>>

NoOutcome == [n \in Node |-> NoStatus]

Failing == {g \in Gates : outcome[g] \notin Passing \cup {NoStatus}}

Init ==
    /\ at = Start
    /\ path = <<>>
    /\ outcome = NoOutcome
    /\ steps = 0
    /\ cost = 0
    /\ runs = 0
    /\ tried = 0

(* An exit with a failing gate is never tried: the gate says where the     *)
(* walk goes on.                                                           *)
SentBack ==
    /\ at \in Exits
    /\ tried = 0
    /\ \E g \in Failing : at' \in Jumps[g]
    /\ tried' = 0

(* An attempt is counted before anything is run for it.                    *)
Begin ==
    /\ steps < MaxSteps
    /\ ~(cost > MaxBudget)
    /\ steps' = steps + 1
    /\ SentBack \/ UNCHANGED <<at, tried>>
    /\ UNCHANGED <<path, outcome, cost, runs>>

(* A stop may come when the walk has been sent back and nothing is begun.  *)
Turn ==
    /\ SentBack
    /\ UNCHANGED <<path, outcome, steps, cost, runs>>

(* No handler is started that was not counted, none more often than its    *)
(* node allows, and none at an exit whose gates fail.                      *)
Execute ==
    /\ runs < steps
    /\ at \notin Waiting => tried < MaxAttempts[at]
    /\ at \in Exits => Failing = {}
    /\ runs' = runs + 1
    /\ tried' = tried + 1
    /\ UNCHANGED <<walk, steps, cost>>

(* An attempt that is followed by another one has cost something.          *)
Charge ==
    /\ tried > 0
    /\ cost' > cost
    /\ UNCHANGED <<walk, steps, runs, tried>>

(* The node has run and the walk goes on along one of its edges, or begins *)
(* again if the edge says so.                                              *)
Advance ==
    /\ tried > 0
    /\ at \notin Exits
    /\ \E i \in DOMAIN Edges[at], status \in Statuses :
        LET e == Edges[at][i]
        IN  /\ at' = e.to
            /\ path' = IF e.loop_restart THEN <<>> ELSE Append(path, at)
            /\ outcome' = IF e.loop_restart THEN NoOutcome ELSE [outcome EXCEPT ![at] = status]
    /\ cost' >= cost
    /\ tried' = 0
    /\ UNCHANGED <<steps, runs>>

(* The walk is over when an exit, or a node without edges, has run and no  *)
(* gate of an exit fails.  What is started then is another Run.            *)
Close ==
    /\ tried > 0
    /\ IF at \in Exits THEN Failing = {} ELSE DOMAIN Edges[at] = {}
    /\ at' = Start
    /\ path' = <<>>
    /\ outcome' = NoOutcome
    /\ steps' = 0 /\ cost' = 0 /\ runs' = 0 /\ tried' = 0

Next == Begin \/ Turn \/ Execute \/ Charge \/ Advance \/ Close

Spec == Init /\ [][Next]_vars
=============================================================================
