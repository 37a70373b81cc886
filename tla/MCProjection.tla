---------------------------- MODULE MCProjection ----------------------------
(***************************************************************************)
(* Every short journal of the shape RunLifecycle produces (AttemptsAreBlocks*)
(* there), over three small alphabets of Events, and what the Monitor makes *)
(* of it: the view, the Findings, the status and the links of the log.      *)
(***************************************************************************)
EXTENDS Projection

CONSTANTS MaxEvents     \* length of a journal

VARIABLES
    hist,       \* the journal
    alphabet    \* which Events this journal is made of

Lifecycle ==
    {[type |-> "Heartbeat"], [type |-> "StageStarted", node |-> "n", codergen |-> TRUE],
     [type |-> "PipelineCompleted"], [type |-> "PipelineFailed"],
     [type |-> "AttemptEnded", reason |-> "completed"],
     [type |-> "AttemptEnded", reason |-> "max_steps"],
     [type |-> "HumanInputRequested", question |-> "q"],
     [type |-> "HumanInputRequested", question |-> "r"],
     [type |-> "HumanInputAnswered", question |-> "q"],
     [type |-> "Unknown"], [type |-> "StopRequested"]}

TaskEvents ==
    {[type |-> "EpicSnapshot", tasks |-> ("t" :> "open")],
     [type |-> "EpicSnapshot", tasks |-> ("t" :> "open") @@ ("u" :> "closed")],
     [type |-> "TaskClaimed", task |-> "t"], [type |-> "TaskClaimed", task |-> "u"],
     [type |-> "TaskClosed", task |-> "t", upstream |-> TRUE],
     [type |-> "TaskClosed", task |-> "u", upstream |-> FALSE],
     [type |-> "TaskSelectionBlocked"],
     [type |-> "StageStarted", node |-> "n", codergen |-> TRUE],
     [type |-> "LlmInvoked", node |-> "n", cost |-> 1, asked |-> "a", actual |-> "b"]}

LogEvents ==
    {[type |-> "StageStarted", node |-> "n", codergen |-> TRUE],
     [type |-> "StageStarted", node |-> "m", codergen |-> FALSE],
     [type |-> "StageCompleted", node |-> "n", status |-> "success"],
     [type |-> "StageFailed", node |-> "n"],
     [type |-> "StageRetrying", node |-> "n", retry |-> 2],
     [type |-> "CommitsCreated", node |-> "n", commits |-> <<"c", "d">>],
     [type |-> "CommitsCreated", node |-> "m", commits |-> <<"d">>],
     [type |-> "LlmInvoked", node |-> "n", cost |-> 1, asked |-> None, actual |-> "b"]}

Alphabets == {Lifecycle, TaskEvents, LogEvents}

Started0(type) == [type |-> type, maxSteps |-> 2, maxBudget |-> 2, shared |-> TRUE]

(* The Attempt under way: how often an Attempt was started.                *)
AttemptNow == Cardinality({i \in DOMAIN hist : hist[i].type = "AttemptStarted"})
AttemptOver == hist # <<>> /\ hist[Len(hist)].type = "AttemptEnded"

Record(e, attempt) ==
    hist' = Append(hist, e @@ [seq |-> Len(hist) + 1, attempt |-> attempt])

Init ==
    /\ hist = <<>>
    /\ alphabet \in Alphabets

BeginRun ==
    /\ hist = <<>>
    /\ Record(Started0("RunStarted"), 1)
    /\ UNCHANGED alphabet

(* The first Attempt, or a new one after an end or a crash.                *)
BeginAttempt ==
    /\ hist # <<>> /\ Len(hist) < MaxEvents
    /\ Record([type |-> "AttemptStarted"], AttemptNow + 1)
    /\ UNCHANGED alphabet

Happen ==
    /\ AttemptNow > 0 /\ ~AttemptOver /\ Len(hist) < MaxEvents
    /\ \E e \in alphabet : Record(e, AttemptNow)
    /\ UNCHANGED alphabet

Next == BeginRun \/ BeginAttempt \/ Happen

----------------------------------------------------------------------------
View == Fold(hist)
Latest(set) == CHOOSE i \in set : \A j \in set : j <= i
Indices(Test(_)) == {i \in DOMAIN hist : Test(hist[i])}
After(i, Test(_)) == \E j \in i + 1 .. Len(hist) : Test(hist[j])

(* The current node is the one that started last, unless its Attempt or the*)
(* Pipeline has ended since; the pending gate is the question asked last,  *)
(* unless it was answered or its Attempt ended (RunView::apply).           *)
OpenIsOpen ==
    LET stages == Indices(LAMBDA e : e.type = "StageStarted")
        asked  == Indices(LAMBDA e : e.type = "HumanInputRequested")
        Over(e) == e.type \in {"AttemptEnded", "PipelineCompleted", "PipelineFailed"}
    IN  /\ View.node = IF stages = {} \/ After(Latest(stages), Over) THEN None
                       ELSE hist[Latest(stages)].node
        /\ View.gate = IF asked = {} THEN None
                       ELSE LET q == hist[Latest(asked)].question
                            IN  IF \E j \in Latest(asked) + 1 .. Len(hist) :
                                      \/ hist[j].type = "AttemptEnded"
                                      \/ hist[j].type = "HumanInputAnswered" /\ hist[j].question = q
                                THEN None ELSE q

(* The page and the commands agree about the status of a Run as soon as an *)
(* Attempt of it is recorded, at every time and whether or not its process *)
(* is alive; so a control the page offers is one that `pas` accepts.       *)
StatusAgrees ==
    AttemptNow > 0 =>
      \A now \in Len(hist) .. Len(hist) + CrashAfter + 1 : \A alive \in BOOLEAN :
         ShownStatus(View, FALSE, now, alive) = DeriveStatus(hist, 0, now, alive)

(* The same for every Run of the Run Index, as the comment at              *)
(* findings.rs:181 says.  A Run that died before its first Event is        *)
(* "running" on the page for ever.                                         *)
AlwaysAgrees ==
    \A now \in Len(hist) .. Len(hist) + CrashAfter + 1 :
       ShownStatus(View, FALSE, now, FALSE) = DeriveStatus(hist, 0, now, FALSE)

(* The Task that was under way before the Event i.                         *)
TaskAt(i) ==
    LET claims == {j \in 1 .. i - 1 : hist[j].type = "TaskClaimed"}
        t == hist[Latest(claims)].task
    IN  IF \/ claims = {}
           \/ \E j \in Latest(claims) + 1 .. i - 1 : hist[j].type = "TaskClosed" /\ hist[j].task = t
        THEN None ELSE t

(* What a Run did is attributed to the Task it was done for: visits of a   *)
(* node since the Task last appeared, and what invocations cost.  Blocked  *)
(* holds until the next claim.                                             *)
AttributionIsTrue ==
    LET llm == Indices(LAMBDA e : e.type = "LlmInvoked")
        blocked == Indices(LAMBDA e : e.type = "TaskSelectionBlocked")
        Dropped(t) == Indices(LAMBDA e : e.type = "EpicSnapshot" /\ t \notin DOMAIN e.tasks)
        since(t) == IF Dropped(t) = {} THEN 0 ELSE Latest(Dropped(t))
        Visits(t, n) == {i \in since(t) + 1 .. Len(hist) :
                           hist[i].type = "StageStarted" /\ hist[i].node = n /\ TaskAt(i) = t}
    IN  /\ \A t \in {"t", "u"} :
             /\ TaskCost(View, t) = Cardinality({i \in llm : TaskAt(i) = t})
             /\ \A n \in {"n"} : <<"loop_suspicion", <<t, n>>>> \in Findings(View, Len(hist), TRUE)
                                   <=> Cardinality(Visits(t, n)) > LoopK
        /\ View.blocked = IF blocked = {} \/ After(Latest(blocked), LAMBDA e : e.type = "TaskClaimed")
                          THEN 0 ELSE Latest(blocked)

(* Epic progress counts the children of the latest snapshot that it, or a  *)
(* TaskClosed since, says are closed and that were not claimed again.      *)
ProgressIsTrue ==
    LET snaps == Indices(LAMBDA e : e.type = "EpicSnapshot")
        snap  == hist[Latest(snaps)].tasks
        Says(t) == {i \in Latest(snaps) + 1 .. Len(hist) :
                      hist[i].type \in {"TaskClosed", "TaskClaimed"} /\ hist[i].task = t}
        Closed(t) == IF Says(t) = {} THEN snap[t] = "closed"
                     ELSE hist[Latest(Says(t))].type = "TaskClosed"
    IN  snaps # {} => Progress(View) = [closed |-> Cardinality({t \in DOMAIN snap : Closed(t)}),
                                        total |-> Cardinality(DOMAIN snap)]

(* The row that starts a stage opens the same transcript on a live page as *)
(* on one rendered now, wherever between two Events the page was opened;   *)
(* and commits are listed once, in the order they were recorded.           *)
StartRowsAgree ==
    \A k \in 0 .. Len(hist) : \A i \in DOMAIN hist :
       hist[i].type \in {"StageStarted", "LlmInvoked"} => LiveLinks(hist, k)[i] = LogLinks(hist)[i]

(* The same of every row of a stage: "A stage of a codergen node links to  *)
(* the last Model Invocation of the same visit of that node"               *)
(* (views/run.rs:91).  The script never links a row that ends a stage when *)
(* the invocation came before it, which is always.                         *)
LiveRowsAgree ==
    \A k \in 0 .. Len(hist) : LiveLinks(hist, k) = LogLinks(hist)

(* A commit is listed once, whichever nodes it was recorded for.           *)
CommitsOnce ==
    \A i, j \in DOMAIN View.commits : View.commits[i] = View.commits[j] => i = j
=============================================================================
