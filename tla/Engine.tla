------------------------------- MODULE Engine -------------------------------
(***************************************************************************)
(* The pipeline executor of attractor-pipeline/src/engine.rs: one process  *)
(* walks the graph from node to node, invokes the node's handler up to     *)
(* max_attempts times, chooses an edge, and writes checkpoint.json so that *)
(* a process that dies (or is stopped, or fails) can be followed by one    *)
(* that goes on.  Everything in `mem` dies with the process; `ckpt`        *)
(* survives.                                                               *)
(*                                                                         *)
(* A step of this module ends where the code awaits something that takes   *)
(* effect outside the process: a checkpoint write, a handler, the removal  *)
(* of the checkpoint.  A crash, or the SIGTERM that drops the executor's   *)
(* future, may come between any two steps.                                 *)
(***************************************************************************)
EXTENDS EdgeSelection, FiniteSets

CONSTANTS
    Node,           \* node ids of the compiled plan
    Start, Exits,   \* plan.start_id(), the nodes plan.is_exit() accepts
    Edges,          \* [Node -> Seq(edge)], outgoing edges in graph order
    MaxAttempts,    \* [Node -> 1..], resolved.invocation.max_attempts
    Waiting,        \* nodes whose handler has resumes_interrupted_attempt()
    Quality,        \* nodes with HandlerIdentity::Quality
    MaxFix,         \* quality_max_fix_iterations, one value for all nodes
    Gates,          \* nodes with goal_gate=true
    RetryChain,     \* [Gates -> the targets its node and then the graph name]
    MaxSteps, MaxBudget,
    Results,        \* [Node -> set of what its handler may return]
    Contexts, NoContext,  \* values of the one context key conditions read
    DiskMayFail,    \* whether a checkpoint write or removal may fail
    NoNode          \* None: Option<String>

(* What compiling and validating the plan guarantees of the graph, and     *)
(* what the type of a handler's result does of the results.                *)
Statuses == {"success", "partial_success", "retry", "fail", "skipped"}

ASSUME PlanAssumption ==
    /\ Start \in Node
    /\ Exits \subseteq Node
    /\ Quality \subseteq Node \ Exits
    /\ Gates \subseteq Node
    /\ NoNode \notin Node
    /\ \A n \in Node : \A i \in DOMAIN Edges[n] : Edges[n][i].to \in Node
    /\ RetryChain \in [Gates -> Seq((Node \ Exits) \cup {NoNode})]

ASSUME LimitAssumption ==
    /\ MaxAttempts \in [Node -> Nat \ {0}]
    /\ MaxSteps \in Nat
    /\ MaxFix \in Nat \ {0}
    /\ DiskMayFail \in BOOLEAN

ASSUME ResultAssumption ==
    \A n \in Node : \A r \in Results[n] :
        /\ r.kind \in {"ok", "retryable", "fatal"}
        /\ r.status \in Statuses
        /\ r.cost \in Nat
        /\ r.context \in Contexts \cup {NoContext}
        /\ Choosable(Edges[n], r)

VARIABLES
    pc,       \* where the process is; "off" when there is none
    mem,      \* the locals of run_inner, with ExecutionProgress
    ckpt,     \* checkpoint.json: <<>> or <<a record like mem>>
    stop,     \* control/stop exists
    end,      \* how the last process ended
    execs,    \* history: handler executions begun since the Run began
    visit,    \* history: executions begun in the current visit of a node
    last      \* history: [node -> status] of what handlers really returned

vars == <<pc, mem, ckpt, stop, end, execs, visit, last>>

Satisfying == {"success", "partial_success"}
NoStatus == "none"

Keys == Quality \X (Node \cup {NoNode})

(* Err(error) of the engine, by cause, and the three ways it returns Ok or *)
(* not at all.                                                             *)
Ends == {"never", "completed", "stopped", "crashed", "budget", "steps",
         "retries", "fix_limit", "gate", "handler", "disk"}

Resumable == Ends \ {"completed"}

Fresh == [node    |-> Start,
          prev    |-> NoNode,
          steps   |-> 0,
          cost    |-> 0,
          active  |-> NoNode,
          used    |-> 0,
          done    |-> <<>>,
          outcome |-> [n \in Node |-> NoStatus],
          context |-> NoContext,
          loops   |-> [k \in Keys |-> 0],
          prints  |-> {}]

Init ==
    /\ pc = "off"
    /\ mem = Fresh
    /\ ckpt = <<>>
    /\ stop = FALSE
    /\ end = "never"
    /\ execs = 0
    /\ visit = 0
    /\ last = [n \in Node |-> NoStatus]

----------------------------------------------------------------------------
(* Ending a process.  Its memory is gone; the checkpoint stays.            *)
EndWith(cause) ==
    /\ pc' = "off"
    /\ end' = cause
    /\ mem' = Fresh

(* CheckpointData::save takes the locals as they are, except for the node  *)
(* to resume at and the node the walk came from, which the caller names.   *)
SnapshotOfCompleted(m, current, previous) == [m EXCEPT !.prev = previous]

Snapshot(m, current, previous) ==
    [m EXCEPT !.node = current, !.prev = previous]

(* save_checkpoint writes a temporary file and renames it: the old one or  *)
(* the new one is on disk, never a mix.  A failed write ends the Run.      *)
SaveAnd(snapshot, memory, next) ==
    \/ /\ ckpt' = <<snapshot>>
       /\ mem' = memory
       /\ pc' = next
       /\ UNCHANGED end
    \/ /\ DiskMayFail
       /\ EndWith("disk")
       /\ UNCHANGED ckpt

(* What load_checkpoint gives back to the locals of run_inner.             *)
RestoredWithoutAttempts == IF ckpt = <<>> THEN Fresh ELSE [ckpt[1] EXCEPT !.used = 0]
RestoredWithoutPrevious == IF ckpt = <<>> THEN Fresh ELSE [ckpt[1] EXCEPT !.prev = NoNode]
RestoredWithoutOutcomes ==
    IF ckpt = <<>> THEN Fresh ELSE [ckpt[1] EXCEPT !.outcome = Fresh.outcome]

Restored == IF ckpt = <<>> THEN Fresh ELSE ckpt[1]

(* A process starts: from the checkpoint when there is one, else with a    *)
(* new Run (and a new history).  The Attempt it belongs to has removed a   *)
(* stop request left by an earlier one.                                    *)
Launch ==
    /\ pc = "off"
    /\ end \in Resumable
    /\ pc' = "top"
    /\ stop' = FALSE
    /\ mem' = Restored
    /\ IF ckpt = <<>>
       THEN /\ execs' = 0
            /\ visit' = 0
            /\ last' = [n \in Node |-> NoStatus]
       ELSE UNCHANGED <<execs, visit, last>>
    /\ UNCHANGED <<ckpt, end>>

(* `pas stop` or the Monitor writes control/stop.                          *)
RequestStop ==
    /\ pc # "off"
    /\ ~stop
    /\ stop' = TRUE
    /\ UNCHANGED <<pc, mem, ckpt, end, execs, visit, last>>

Crash ==
    /\ pc # "off"
    /\ EndWith("crashed")
    /\ UNCHANGED <<ckpt, stop, execs, visit, last>>

----------------------------------------------------------------------------
(* The head of the loop: budget, stop request, goal gates, quality budget. *)
OverBudget == mem.cost > MaxBudget

StepsLeft == mem.steps < MaxSteps

AtTop == pc = "top" /\ ~OverBudget

FailingGates == {g \in Gates : mem.outcome[g] \notin Satisfying \cup {NoStatus}}

(* The first target set of: the node's retry_target, its fallback, the     *)
(* graph's retry_target, its fallback; none when none is set.              *)
RetryTargets(g) ==
    {RetryChain[g][i] : i \in
        FirstOf({i \in DOMAIN RetryChain[g] : RetryChain[g][i] # NoNode})}

BudgetExhausted ==
    /\ pc \in {"top", "attempt"}
    /\ OverBudget
    /\ pc = "attempt" => StepsLeft
    /\ EndWith("budget")
    /\ UNCHANGED <<ckpt, stop, execs, visit, last>>

HonourStop ==
    /\ AtTop
    /\ mem.node \notin Exits
    /\ stop
    /\ \/ ckpt' = <<Snapshot(mem, mem.node, mem.prev)>> /\ EndWith("stopped")
       \/ DiskMayFail /\ EndWith("disk") /\ UNCHANGED ckpt
    /\ UNCHANGED <<stop, execs, visit, last>>

GateRetryStays ==
    /\ AtTop
    /\ mem.node \in Exits
    /\ FailingGates # {}
    /\ UNCHANGED vars

(* check_goal_gates walks a HashMap, so any failing gate may be the one    *)
(* whose target is used.  The jump is not saved.                           *)
GateRetry ==
    /\ AtTop
    /\ mem.node \in Exits
    /\ \E g \in FailingGates : \E target \in RetryTargets(g) :
            mem' = [mem EXCEPT !.node = target]
    /\ visit' = 0
    /\ UNCHANGED <<pc, ckpt, stop, end, execs, last>>

GateUnsatisfied ==
    /\ AtTop
    /\ mem.node \in Exits
    /\ \E g \in FailingGates : RetryTargets(g) = {}
    /\ EndWith("gate")
    /\ UNCHANGED <<ckpt, stop, execs, visit, last>>

(* The rest of the loop's head and invoke_node up to its attempt loop: a   *)
(* quality node's entry is counted in memory first, then the attempts      *)
(* already begun in this visit decide whether another one is allowed.      *)
MayEnter ==
    /\ AtTop
    /\ IF mem.node \in Exits THEN FailingGates = {} ELSE ~stop

Counted ==
    IF mem.node \in Quality
    THEN [mem EXCEPT !.loops[<<mem.node, mem.prev>>] = @ + 1]
    ELSE mem

FixLimitReached ==
    /\ mem.node \in Quality
    /\ mem.loops[<<mem.node, mem.prev>>] + 1 > MaxFix

Activated(m) ==
    IF m.active = m.node THEN m
    ELSE [m EXCEPT !.active = m.node, !.used = 0]

Enter ==
    /\ MayEnter
    /\ ~FixLimitReached
    /\ Activated(mem).used < MaxAttempts[mem.node]
    /\ mem' = Activated(Counted)
    /\ pc' = "attempt"
    /\ UNCHANGED <<ckpt, stop, end, execs, visit, last>>

FixLimitExceeded ==
    /\ MayEnter
    /\ FixLimitReached
    /\ EndWith("fix_limit")
    /\ UNCHANGED <<ckpt, stop, execs, visit, last>>

RetriesExhausted ==
    /\ MayEnter
    /\ ~FixLimitReached
    /\ Activated(mem).used >= MaxAttempts[mem.node]
    /\ EndWith("retries")
    /\ UNCHANGED <<ckpt, stop, execs, visit, last>>

----------------------------------------------------------------------------
(* One pass of invoke_node's attempt loop.                                 *)
MaxStepsExceeded ==
    /\ pc = "attempt"
    /\ ~StepsLeft
    /\ EndWith("steps")
    /\ UNCHANGED <<ckpt, stop, execs, visit, last>>

(* The step is counted and saved before the handler runs.  An attempt that *)
(* waits for a person is saved as not begun, but counts in memory.         *)
Begun == [mem EXCEPT !.steps = @ + 1, !.used = @ + 1]

BegunOnDiskAlways == Begun

BegunOnDisk ==
    IF mem.node \in Waiting THEN [Begun EXCEPT !.used = mem.used] ELSE Begun

BeginAttempt ==
    /\ pc = "attempt"
    /\ StepsLeft
    /\ ~OverBudget
    /\ SaveAnd(Snapshot(BegunOnDisk, mem.node, mem.prev), Begun, "begun")
    /\ UNCHANGED <<stop, execs, visit, last>>

StartHandler ==
    /\ pc = "begun"
    /\ pc' = "running"
    /\ execs' = execs + 1
    /\ visit' = visit + 1
    /\ UNCHANGED <<mem, ckpt, stop, end, last>>

HasMoreAttempts == mem.used < MaxAttempts[mem.node]

(* Ok(Retry) with attempts left adds the attempt's cost and saves it when  *)
(* there is one; a retryable error does neither.                           *)
HandlerRetries ==
    /\ pc = "running"
    /\ HasMoreAttempts
    /\ \E r \in Results[mem.node] :
        \/ /\ r.kind = "ok" /\ r.status = "retry"
           /\ last' = [last EXCEPT ![mem.node] = "retry"]
           /\ IF r.cost = 0
              THEN pc' = "attempt" /\ UNCHANGED <<mem, ckpt, end>>
              ELSE LET m == [mem EXCEPT !.cost = @ + r.cost]
                   IN  SaveAnd(Snapshot(m, m.node, m.prev), m, "attempt")
        \/ /\ r.kind = "retryable"
           /\ pc' = "attempt"
           /\ UNCHANGED <<mem, ckpt, end, last>>
    /\ UNCHANGED <<stop, execs, visit>>

HandlerFails ==
    /\ pc = "running"
    /\ \E r \in Results[mem.node] :
        \/ r.kind = "fatal"
        \/ r.kind = "retryable" /\ ~HasMoreAttempts
    /\ EndWith("handler")
    /\ UNCHANGED <<ckpt, stop, execs, visit, last>>

(* What invoke_node returns as the outcome of the visit.                   *)
Returned ==
    {r \in Results[mem.node] :
        r.kind = "ok" /\ (r.status = "retry" => ~HasMoreAttempts)}

(* completed_nodes, node_outcomes, cost, footprint and context updates.    *)
Recorded(r) ==
    [mem EXCEPT !.done = Append(@, mem.node),
                !.outcome[mem.node] = r.status,
                !.cost = IF mem.node \in Exits THEN @ ELSE @ + r.cost,
                !.prints = IF mem.node \in Quality
                              /\ r.status = "fail" /\ r.print
                           THEN @ \cup {mem.node} ELSE @,
                !.context = IF r.context = NoContext THEN @ ELSE r.context]

Resolve(r, m) ==
    [key \in {"outcome", "preferred_label", "context"} |->
        CASE key = "outcome" -> r.status
          [] key = "preferred_label" -> r.label
          [] OTHER -> m.context]

(* A version that forgets the nodes of a restarted loop, not their         *)
(* outcomes.                                                               *)
FollowKeepingOutcomes(m, e) ==
    [m EXCEPT !.active = NoNode,
              !.used = 0,
              !.done = IF e.loop_restart THEN <<>> ELSE @,
              !.loops = IF e.reset_quality THEN [k \in Keys |-> 0] ELSE @,
              !.prints = IF e.reset_quality THEN {} ELSE @]

(* What following an edge clears: the attempts of the visit that is over,  *)
(* and what loop_restart and reset_quality_loop_state say.                 *)
Follow(m, e) ==
    [m EXCEPT !.active = NoNode,
              !.used = 0,
              !.done = IF e.loop_restart THEN <<>> ELSE @,
              !.outcome = IF e.loop_restart
                          THEN [n \in Node |-> NoStatus] ELSE @,
              !.loops = IF e.reset_quality THEN [k \in Keys |-> 0] ELSE @,
              !.prints = IF e.reset_quality THEN {} ELSE @]

EdgeChosen(r, m) ==
    {Edges[m.node][i] : i \in SelectEdge(Edges[m.node], r, Resolve(r, m))}

(* A node that is not an exit returned an outcome: record it, choose an    *)
(* edge, save.  Without an edge a failed node is an error, and any other   *)
(* outcome ends the walk here.                                             *)
HandlerReturns ==
    /\ pc = "running"
    /\ mem.node \notin Exits
    /\ \E r \in Returned :
        /\ last' = [last EXCEPT ![mem.node] = r.status]
        /\ LET m == Recorded(r)
           IN  IF r.reserved
               THEN EndWith("handler") /\ UNCHANGED <<ckpt, visit>>
               ELSE \/ \E e \in EdgeChosen(r, m) :
                        /\ LET f == Follow(m, e)
                           IN  SaveAnd(Snapshot(f, e.to, m.node),
                                       [f EXCEPT !.node = e.to, !.prev = m.node],
                                       "top")
                        /\ visit' = IF pc' = "top" THEN 0 ELSE visit
                    \/ /\ EdgeChosen(r, m) = {}
                       /\ IF r.status = "fail"
                          THEN EndWith("handler")
                          ELSE /\ mem' = [m EXCEPT !.active = NoNode,
                                                   !.used = 0]
                               /\ pc' = "finish"
                               /\ UNCHANGED end
                       /\ UNCHANGED <<ckpt, visit>>
    /\ UNCHANGED <<stop, execs>>

(* The exit handler's outcome ends the walk; nothing is saved.             *)
ExitReturns ==
    /\ pc = "running"
    /\ mem.node \in Exits
    /\ \E r \in Returned :
        /\ last' = [last EXCEPT ![mem.node] = r.status]
        /\ IF r.reserved THEN EndWith("handler")
           ELSE /\ mem' = [Recorded(r) EXCEPT !.active = NoNode, !.used = 0]
                /\ pc' = "finish"
                /\ UNCHANGED end
    /\ UNCHANGED <<ckpt, stop, execs, visit>>

(* Phase 5: clear_checkpoint, before the result is returned.               *)
Finalize ==
    /\ pc = "finish"
    /\ \/ ckpt' = <<>> /\ pc' = "cleared" /\ UNCHANGED <<mem, end>>
       \/ DiskMayFail /\ EndWith("disk") /\ UNCHANGED ckpt
    /\ UNCHANGED <<stop, execs, visit, last>>

Complete ==
    /\ pc = "cleared"
    /\ pc' = "off"
    /\ end' = "completed"
    /\ UNCHANGED <<mem, ckpt, stop, execs, visit, last>>

----------------------------------------------------------------------------
HandlerStep == HandlerRetries \/ HandlerFails \/ HandlerReturns \/ ExitReturns

EngineStep ==
    \/ BudgetExhausted \/ HonourStop \/ GateRetry \/ GateUnsatisfied
    \/ Enter \/ FixLimitExceeded \/ RetriesExhausted
    \/ MaxStepsExceeded \/ BeginAttempt \/ StartHandler
    \/ Finalize \/ Complete

Next == Launch \/ RequestStop \/ Crash \/ EngineStep \/ HandlerStep

Spec == Init /\ [][Next]_vars

(* The executor's future is polled until it ends, and every handler but    *)
(* one that waits for a person returns: provider and tool commands end,    *)
(* and the node timeout drops those that do not.  Nothing makes an         *)
(* operator start, stop or kill a process.                                 *)
Fairness ==
    /\ WF_vars(EngineStep)
    /\ WF_vars(mem.node \notin Waiting /\ HandlerStep)

FairSpec == Spec /\ Fairness

----------------------------------------------------------------------------
Progress ==
    [node    : Node,
     prev    : Node \cup {NoNode},
     steps   : 0..MaxSteps,
     cost    : Nat,
     active  : Node \cup {NoNode},
     used    : Nat,
     done    : Seq(Node),
     outcome : [Node -> Statuses \cup {NoStatus}],
     context : Contexts \cup {NoContext},
     loops   : [Keys -> Nat],
     prints  : SUBSET Quality]

\* checkpoint.json: absent, or one record.
File == {f \in Seq(Progress) : Len(f) <= 1}

PcValues == {"off", "top", "attempt", "begun", "running", "finish", "cleared"}

(* Every variable has its type, and no count of steps passes max_steps,    *)
(* in memory or on disk (ExecutionProgress, PipelineCheckpoint).           *)
TypeOK ==
    /\ pc \in PcValues
    /\ mem \in Progress
    /\ ckpt \in File
    /\ stop \in BOOLEAN
    /\ end \in Ends
    /\ execs \in Nat
    /\ visit \in Nat
    /\ last \in [Node -> Statuses \cup {NoStatus}]

Saved == ckpt # <<>>

(* max_steps bounds the handlers a Run starts over all its processes,      *)
(* however they died: a step is on disk before its handler starts          *)
(* (invoke_node saves at line 544, executes at 556).                       *)
ExecutionsBounded == execs <= MaxSteps

(* ExecutionsBounded is not inductive: what bounds the executions is that  *)
(* each of them is preceded by a saved step.  ExecInv says so, as a count: *)
(* the checkpoint is never behind the executions, is one ahead of them     *)
(* while a handler is about to start, and agrees with the memory of a live *)
(* process.                                                                *)
Live == {"top", "attempt", "begun", "running", "finish"}

ExecInv ==
    /\ execs <= MaxSteps
    /\ Saved => execs <= ckpt[1].steps
    /\ ~Saved /\ pc \in {"top", "attempt"} => execs = 0
    /\ pc \in {"begun", "running", "finish"} => Saved
    /\ pc = "begun" => execs + 1 <= ckpt[1].steps
    /\ Saved /\ pc \in Live => mem.steps = ckpt[1].steps

(* One visit of a node starts its handler at most max_attempts times, over *)
(* all the processes that work on the visit, except where a waiting        *)
(* attempt is asked again (active_node_attempts in the checkpoint).        *)
VisitBounded ==
    pc = "running" /\ mem.node \notin Waiting => visit <= MaxAttempts[mem.node]

(* While a handler runs, the checkpoint already says so: a process that    *)
(* dies now is followed by one at this node, with this step counted.       *)
RunningIsDurable ==
    pc \in {"begun", "running"} =>
        /\ Saved
        /\ ckpt[1].node = mem.node
        /\ ckpt[1].active = mem.node
        /\ ckpt[1].steps = mem.steps
        /\ mem.node \notin Waiting => ckpt[1].used = mem.used

(* Between two stages everything the walk has learnt is on disk, so a stop *)
(* or a crash there loses nothing; only the jump of a goal-gate retry is   *)
(* not saved, and is decided again from the exit (engine.rs 911-915).      *)
TopIsDurable ==
    pc = "top" =>
        IF ckpt = <<>> THEN mem = Fresh \/ mem = [Fresh EXCEPT !.node = mem.node]
        ELSE \/ mem = ckpt[1]
             \/ /\ ckpt[1].node \in Exits
                /\ \E g \in Gates : mem.node \in RetryTargets(g)
                /\ mem = [ckpt[1] EXCEPT !.node = mem.node]

Targets(n) == {Edges[n][i].to : i \in DOMAIN Edges[n]}

(* From m the walk goes on to n: along an edge, or by way of an exit whose *)
(* goal gates sent it back.                                                *)
Leads(m, n) ==
    \/ n \in Targets(m)
    \/ /\ Targets(m) \cap Exits # {}
       /\ \E g \in Gates : n \in RetryTargets(g)

IsWalk(seq, n) ==
    \A i \in DOMAIN seq :
        Leads(seq[i], IF i = Len(seq) THEN n ELSE seq[i + 1])

(* completed_nodes is a walk of the graph that leads to the current node,  *)
(* on disk and in memory, across every crash and resume: no node of the    *)
(* walk is skipped and none is recorded twice for one visit.               *)
CompletedIsWalk ==
    /\ pc \in {"top", "attempt", "begun", "running"} => IsWalk(mem.done, mem.node)
    /\ Saved => IsWalk(ckpt[1].done, ckpt[1].node)

(* A walk that ends at an exit ends with every visited goal gate satisfied *)
(* by what its handler last returned, in whichever process that was        *)
(* (enforce_goal_gates reads node_outcomes, which the checkpoint carries). *)
GatesHoldAtExit ==
    pc = "finish" /\ mem.node \in Exits =>
        \A g \in Gates \ Exits : last[g] \in Satisfying \cup {NoStatus}

(* A human gate is never given up because of an interrupted wait: the      *)
(* attempt is asked again on resume rather than counted as used            *)
(* (engine.rs 537-545).                                                    *)
WaitSurvives ==
    [][end' = "retries" /\ pc # "off" => mem.node \notin Waiting]_vars

(* The checkpoint of a Run never goes back: steps and cost only grow and   *)
(* completed nodes are only added, or dropped by a loop_restart edge       *)
(* (save overwrites the only copy there is).                               *)
NeverRewinds ==
    [][ckpt # <<>> /\ ckpt' # <<>> =>
        LET old == ckpt[1]
            new == ckpt'[1]
        IN  /\ new.steps >= old.steps
            /\ new.cost >= old.cost
            /\ \/ new.done = <<>>
               \/ /\ Len(new.done) >= Len(old.done)
                  /\ \A i \in DOMAIN old.done : new.done[i] = old.done[i]]_vars

(* clear_checkpoint runs only when the walk is over: no other step loses   *)
(* the only recovery artifact.                                             *)
ClearedOnlyAtEnd ==
    [][Saved /\ ckpt' = <<>> => pc = "finish"]_vars

(* Every process comes to an end: the goal-gate, quality and edge loops    *)
(* all consume steps (docs/execution-capabilities.md: max_steps "remains   *)
(* the global execution safety bound").                                    *)
ProcessEnds == (pc # "off") ~> (pc = "off" \/ (pc = "running" /\ mem.node \in Waiting))


(* However many processes work on a Run: no more handlers are executed     *)
(* than --max-steps, and none more often in one visit of its node than its *)
(* attempts allow (run_from_start: the step is counted and the attempt     *)
(* saved before the handler is called).                                    *)
BudgetsHold == TypeOK /\ ExecutionsBounded /\ VisitBounded

(* A process that dies anywhere, while a handler runs or between two       *)
(* stages, leaves a checkpoint.json that its successor can go on from      *)
(* without skipping, repeating or inventing anything (save_checkpoint).    *)
NothingIsLost == RunningIsDurable /\ TopIsDurable

(* A Run can be resumed until its walk is over: the checkpoint never goes  *)
(* back, is removed at the end only, and a gate that waited when its       *)
(* process died can wait again.                                            *)
RunStaysResumable == NeverRewinds /\ ClearedOnlyAtEnd /\ WaitSurvives

----------------------------------------------------------------------------
(* The walk as checkpoint.json has it, and the executions of its Run.  A   *)
(* Run without a checkpoint is one that has not begun.                     *)
Durable == IF Saved THEN ckpt[1] ELSE Fresh

Run == INSTANCE DurableRun WITH
    Jumps   <- [g \in Gates |-> RetryTargets(g)],
    Passing <- Satisfying,
    at      <- Durable.node,
    path    <- Durable.done,
    outcome <- Durable.outcome,
    steps   <- Durable.steps,
    cost    <- Durable.cost,
    runs    <- IF Saved THEN execs ELSE 0,
    tried   <- IF Saved THEN visit ELSE 0

(* All the processes of a Run together walk the plan once: a crash, a stop *)
(* or a failed write anywhere, and the start of the next process, are      *)
(* steps that change nothing (run_from_start, save_checkpoint,             *)
(* load_checkpoint, clear_checkpoint).                                     *)
ImplementsDurableRun == Run!Spec

----------------------------------------------------------------------------
(* What the documentation says of the executor and the code does not do.   *)

(* docs/guide.md:156, goal_gate: "this node must succeed for the pipeline  *)
(* to complete".                                                           *)
GateMustSucceed ==
    end = "completed" /\ pc = "off" =>
        \A g \in Gates : last[g] \in Satisfying \cup {NoStatus}

(* docs/guide.md:721, of a Run that `pas kill` ended in a stage: "Resume   *)
(* with the same `pas run` command".  A resumed process is not refused     *)
(* before it has run anything.                                             *)
ResumeIsPossible == [][end = "crashed" => end' # "retries"]_vars
=============================================================================
