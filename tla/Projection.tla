----------------------------- MODULE Projection -----------------------------
(***************************************************************************)
(* The Monitor's picture of a Run: RunView::apply folds the Events of the  *)
(* journal (monitor/projection.rs), derive turns the result into Findings  *)
(* (findings.rs), log_entries links log rows to transcripts (views/run.rs).*)
(* Pure operators; time is counted in Events, so that the Event numbered n *)
(* was written at time n.                                                  *)
(*                                                                         *)
(* An Event is a record with a type, its seq and attempt and the fields    *)
(* its type needs.  Free text, pids, argv, hashes and titles are left out. *)
(***************************************************************************)
EXTENDS Integers, Sequences, FiniteSets, TLC, SequencesExt

CONSTANTS
    None,           \* an absent Option
    CrashAfter,     \* CRASH_AFTER, in Events
    NodeTimeout,    \* the timeout every node has, in Events
    LoopK           \* LOOP_K

Greater(a, b) == IF a > b THEN a ELSE b

Count(s, Test(_)) == Len(SelectSeq(s, Test))

(* HashMap::entry(k).or_insert(d), then set to val.                        *)
Put(f, k, val) == (k :> val) @@ f
At(f, k, default) == IF k \in DOMAIN f THEN f[k] ELSE default

----------------------------------------------------------------------------
(* RunView::default.                                                       *)
EmptyView ==
    [last |-> 0, status |-> "unknown", attempts |-> <<>>, node |-> None,
     visits |-> <<>>, nodeStatus |-> <<>>, steps |-> 0, cost |-> 0,
     invocations |-> <<>>, retries |-> <<>>, failures |-> <<>>, error |-> FALSE,
     tasks |-> <<>>, children |-> {}, task |-> None, blocked |-> 0,
     commits |-> <<>>, gate |-> None, answered |-> {}, stop |-> FALSE,
     maxSteps |-> None, maxBudget |-> None, shared |-> FALSE]

NewTask == [status |-> "", visits |-> <<>>, upstream |-> None]

(* The Attempt with the largest number; there is none before any Event.    *)
LastAttempt(v) ==
    IF DOMAIN v.attempts = {} THEN None
    ELSE v.attempts[CHOOSE a \in DOMAIN v.attempts :
                      \A b \in DOMAIN v.attempts : b <= a]

(* The bookkeeping that every known Event gets before its own effect.      *)
Touched(v, e) ==
    LET new == [started |-> 0, beat |-> 0, ended |-> None,
                event |-> e.seq, activity |-> e.seq]
        old == At(v.attempts, e.attempt, new)
        a   == [old EXCEPT !.event = Greater(@, e.seq),
                           !.activity = IF e.type = "Heartbeat" THEN @
                                        ELSE Greater(@, e.seq)]
    IN  [v EXCEPT !.last = Greater(@, e.seq),
                  !.attempts = Put(@, e.attempt, a)]

StatusOfReason(reason) ==
    IF reason \in {"completed", "stopped"} THEN reason ELSE "failed"

(* recompute_status.                                                       *)
Restated(v) ==
    LET a == LastAttempt(v)
    IN  [v EXCEPT !.status = IF a.ended = None THEN "running"
                             ELSE StatusOfReason(a.ended)]

(* AttemptEnded: nothing is under way any more and nobody is asked.        *)
AttemptIsOver(v, e) == [v EXCEPT !.attempts[e.attempt].ended = e.reason, !.node = None, !.gate = None]

(* EpicSnapshot: the Tasks become those of the snapshot; one that was known*)
(* keeps what the Run did in it.                                           *)
Snapshotted(v, tasks) ==
    [v EXCEPT !.children = DOMAIN tasks,
              !.tasks = [t \in DOMAIN tasks |->
                  [At(v.tasks, t, NewTask) EXCEPT !.status = tasks[t]]]]

Started(v, n) ==
    LET t == v.task
        k == At(v.tasks, t, NewTask)
    IN  [v EXCEPT
            !.steps = @ + 1, !.node = n,
            !.visits = Put(@, n, At(@, n, 0) + 1),
            !.tasks = IF t = None THEN @
                      ELSE Put(@, t, [k EXCEPT !.visits = Put(@, n, At(@, n, 0) + 1)])]

AddCommits(v, e) ==
    [v EXCEPT !.commits = @ \o SelectSeq(e.commits,
        LAMBDA c : \A i \in DOMAIN v.commits : v.commits[i] # c)]

(* What an invocation cost belongs to the Task under way.                  *)
Invoked(v, e) ==
    [v EXCEPT !.cost = @ + e.cost,
              !.invocations = Append(@, [id |-> e.seq, node |-> e.node, task |-> v.task,
                                         asked |-> e.asked, actual |-> e.actual, cost |-> e.cost])]

AnsweredGate(v, question) ==
    [v EXCEPT !.gate = IF @ = question THEN None ELSE @, !.answered = @ \cup {question}]

(* The match of RunView::apply.                                            *)
Effect(v, e) ==
    CASE e.type = "RunStarted" ->
           [v EXCEPT !.maxSteps = e.maxSteps, !.maxBudget = e.maxBudget,
                     !.shared = e.shared]
      [] e.type = "AttemptStarted" -> [v EXCEPT !.attempts[e.attempt].started = e.seq]
      [] e.type = "AttemptEnded" -> AttemptIsOver(v, e)
      [] e.type = "Heartbeat" -> [v EXCEPT !.attempts[e.attempt].beat = e.seq]
      [] e.type = "PipelineCompleted" -> [v EXCEPT !.node = None]
      [] e.type = "PipelineFailed" -> [v EXCEPT !.node = None, !.error = TRUE]
      [] e.type = "StageStarted" -> Started(v, e.node)
      [] e.type = "StageCompleted" -> [v EXCEPT !.nodeStatus = Put(@, e.node, e.status)]
      [] e.type = "StageFailed" ->
           [v EXCEPT !.nodeStatus = Put(@, e.node, "failed"),
                     !.failures = Append(@, [node |-> e.node, seq |-> e.seq])]
      [] e.type = "StageRetrying" ->
           [v EXCEPT !.retries = Append(@, [node |-> e.node, retry |-> e.retry, seq |-> e.seq])]
      [] e.type = "EpicSnapshot" -> Snapshotted(v, e.tasks)
      [] e.type = "TaskClaimed" ->
           [v EXCEPT !.tasks = Put(@, e.task, [At(@, e.task, NewTask) EXCEPT !.status = "in_progress"]),
                     !.task = e.task, !.blocked = 0]
      [] e.type = "TaskSelectionBlocked" -> [v EXCEPT !.blocked = e.seq]
      [] e.type = "TaskClosed" ->
           [v EXCEPT !.tasks = Put(@, e.task, [At(@, e.task, NewTask) EXCEPT
                                   !.status = "closed", !.upstream = e.upstream]),
                     !.task = IF @ = e.task THEN None ELSE @]
      [] e.type = "LlmInvoked" -> Invoked(v, e)
      [] e.type = "CommitsCreated" -> AddCommits(v, e)
      [] e.type = "HumanInputRequested" -> [v EXCEPT !.gate = e.question]
      [] e.type = "HumanInputAnswered" -> AnsweredGate(v, e.question)
      [] e.type = "StopRequested" -> [v EXCEPT !.stop = TRUE]
      [] OTHER -> v

(* RunView::apply.  An Event of a type this version does not know is       *)
(* dropped before any bookkeeping.                                         *)
Apply(v, e) == IF e.type = "Unknown" THEN v ELSE Restated(Effect(Touched(v, e), e))

Fold(events) == FoldLeft(Apply, EmptyView, events)

(* RunView::epic, its two numbers.                                         *)
ProgressOfKnown(v) ==
    [closed |-> Cardinality({t \in DOMAIN v.tasks : v.tasks[t].status = "closed"}),
     total |-> Cardinality(DOMAIN v.tasks)]
Progress(v) ==
    [closed |-> Cardinality({t \in v.children : v.tasks[t].status = "closed"}),
     total |-> Cardinality(v.children)]

(* task_rollup: what the invocations attributed to a Task cost.            *)
TaskCost(v, t) ==
    FoldLeft(LAMBDA sum, i : IF i.task = t THEN sum + i.cost ELSE sum, 0, v.invocations)

----------------------------------------------------------------------------
(* Findings.  A Finding is its rule and what it points at.                 *)
SignOfLife(a) ==
    IF a.beat # 0 THEN a.beat ELSE IF a.started # 0 THEN a.started ELSE a.event

IsCrashed(v, now, alive) ==
    LET a == LastAttempt(v)
    IN  /\ a # None
        /\ a.ended = None
        /\ now - SignOfLife(a) > CrashAfter
        /\ ~(a.started # 0 /\ alive)

IsStalled(v, now) ==
    LET a == LastAttempt(v)
    IN  /\ a # None
        /\ a.ended = None
        /\ v.node # None
        /\ a.beat # 0 /\ now - a.beat <= CrashAfter
        /\ now - a.activity > NodeTimeout

OverBudget(v) ==
    \/ v.maxBudget \notin {None, 0} /\ v.cost * 100 >= v.maxBudget * 80
    \/ v.maxSteps \notin {None, 0} /\ v.steps * 100 >= v.maxSteps * 80

Finding(rule, about) == <<rule, about>>

(* derive, as a set: the order of its output is the order of the rules.    *)
Findings(v, now, alive) ==
    LET When(cond, f) == IF cond THEN {f} ELSE {}
        crashed == IsCrashed(v, now, alive)
    IN  UNION {
          When(crashed, Finding("crashed", None)),
          When(~crashed /\ IsStalled(v, now), Finding("stalled", v.node)),
          {Finding("stage_failed", f.seq) : f \in ToSet(v.failures)},
          {Finding("retrying", f.seq) : f \in {r \in ToSet(v.retries) : r.retry >= 2}},
          UNION {{Finding("loop_suspicion", <<t, n>>) :
                    n \in {m \in DOMAIN v.tasks[t].visits : v.tasks[t].visits[m] > LoopK}} :
                 t \in DOMAIN v.tasks},
          When(OverBudget(v), Finding("budget", None)),
          When(v.blocked # 0, Finding("blocked", v.blocked)),
          {Finding("model_mismatch", i.id) :
             i \in {j \in ToSet(v.invocations) :
                      j.asked # None /\ j.actual # None /\ j.asked # j.actual}},
          {Finding("unsafe_commit", t) :
             t \in {u \in DOMAIN v.tasks : v.tasks[u].upstream = FALSE}},
          When(v.shared, Finding("shared_workdir", None)),
          When(v.gate # None, Finding("human_gate_waiting", v.gate))}

(* current_status: what the Run page shows and the controls are gated by.  *)
ShownStatus(v, missing, now, alive) ==
    IF missing THEN "missing"
    ELSE IF IsCrashed(v, now, alive) THEN "crashed"
    ELSE IF v.status = "unknown" THEN "running" ELSE v.status

(* controls::allowed.                                                      *)
Allowed(status) ==
    [stop   |-> status = "running",
     kill   |-> status = "running",
     resume |-> status \in {"stopped", "failed", "crashed"},
     rerun  |-> status \in {"completed", "stopped", "failed", "crashed"}]

(* journal/status.rs derive_status, which `pas runs`, `pas stop` and       *)
(* `pas kill` use: the same question, asked of the Events themselves.      *)
DeriveStatus(events, startedAt, now, alive) ==
    LET last == {i \in DOMAIN events :
                   \A j \in DOMAIN events : events[j].attempt <= events[i].attempt}
        Of(type) == {i \in last : events[i].type = type}
        Latest(set) == CHOOSE i \in set : \A j \in set : j <= i
        Earliest(set) == CHOOSE i \in set : \A j \in set : j >= i
        seen == IF Of("Heartbeat") # {} THEN events[Latest(Of("Heartbeat"))].seq
                ELSE IF Of("AttemptStarted") # {} THEN events[Latest(Of("AttemptStarted"))].seq
                ELSE startedAt
        pid  == Of("Heartbeat") \cup Of("AttemptStarted") # {}
    IN  IF Of("AttemptEnded") # {}
        THEN StatusOfReason(events[Earliest(Of("AttemptEnded"))].reason)
        ELSE IF now - seen > CrashAfter /\ ~(pid /\ alive) THEN "crashed" ELSE "running"

----------------------------------------------------------------------------
(* The Event log of the Run page.  A row is an Event and the invocation its*)
(* transcript link opens, or None.                                         *)
IsStage(e) == e.type \in {"StageStarted", "StageCompleted", "StageFailed"}

(* Which visit of its node an Event belongs to: how often the node started.*)
VisitOf(events, i) ==
    Cardinality({j \in 1 .. i : events[j].type = "StageStarted" /\ events[j].node = events[i].node})

SameVisit(events, i, j) ==
    /\ events[i].node = events[j].node
    /\ VisitOf(events, i) = VisitOf(events, j)

(* log_entries.                                                            *)
LogLinks(events) ==
    [i \in DOMAIN events |->
        IF events[i].type = "LlmInvoked" THEN events[i].seq
        ELSE IF ~IsStage(events[i]) THEN None
        ELSE LET codergen == \E j \in DOMAIN events :
                                /\ events[j].type = "StageStarted" /\ events[j].codergen
                                /\ SameVisit(events, i, j)
                 calls == {j \in DOMAIN events :
                             events[j].type = "LlmInvoked" /\ SameVisit(events, i, j)}
             IN  IF codergen /\ calls # {}
                 THEN events[CHOOSE j \in calls : \A k \in calls : k <= j].seq
                 ELSE None]

(* LOG_SCRIPT, note(): what one more row does to the links.  open[n] holds *)
(* the rows of the visit of n under way, or {} when n is no codergen node. *)
Note(page, e) ==
    LET i    == Len(page.links) + 1
        rows == IF "node" \in DOMAIN e THEN At(page.open, e.node, {}) ELSE {}
    IN  CASE e.type = "StageStarted" ->
               [page EXCEPT !.links = Append(@, None),
                            !.open = Put(@, e.node, IF e.codergen THEN {i} ELSE {})]
          [] e.type \in {"StageCompleted", "StageFailed"} ->
               [page EXCEPT !.links = Append(@, None),
                            !.open = IF rows # {} THEN Put(@, e.node, rows \cup {i}) ELSE @]
          [] e.type = "LlmInvoked" ->
               [page EXCEPT !.links = [j \in 1 .. i |-> IF j \in rows \cup {i} THEN e.seq ELSE @[j]]]
          [] OTHER -> [page EXCEPT !.links = Append(@, None)]

(* A page that was rendered after the first k Events and is live since.    *)
(* The script notes the rendered rows first, which already have their links*)
LiveLinks(events, k) ==
    LET rendered == FoldLeft(Note, [links |-> <<>>, open |-> <<>>], SubSeq(events, 1, k))
        first    == [rendered EXCEPT !.links = LogLinks(SubSeq(events, 1, k))]
    IN  FoldLeft(Note, first, SubSeq(events, k + 1, Len(events))).links
=============================================================================
