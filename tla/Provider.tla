------------------------------ MODULE Provider ------------------------------
(***************************************************************************)
(* One attempt of a node whose handler starts processes: codergen (a model *)
(* provider), tool (a shell command) and quality (a command per stage).    *)
(* The child leads a process group; a helper it starts may keep the pipes  *)
(* open after the child has exited, and may leave the group.  The handler  *)
(* waits under its own timer, and the engine puts its deadline around the  *)
(* handler when the node has a timeout.                                    *)
(*                                                                         *)
(* Time is not measured: a timer may fire whenever it runs.  What orders   *)
(* timers in the code (a stage stops a margin before the node's deadline)  *)
(* is in the guards.                                                       *)
(***************************************************************************)
EXTENDS ProviderOutput

CONSTANTS
    Jobs,           \* what the node may be: records, see JobAssumption
    Output,         \* [Providers -> the lines its process may print]
    MaxLines,       \* bound: lines printed
    MayEscape       \* whether a helper may leave the process group

ASSUME JobAssumption ==
    /\ MaxLines \in Nat /\ MayEscape \in BOOLEAN
    /\ \A j \in Jobs :
          /\ j.handler \in {"codergen", "tool", "quality"}
          /\ j.handler = "codergen" => j.provider \in Providers
          /\ j.deadline \in BOOLEAN               \* the node has a timeout
          /\ j.budget \in Nat \cup {None}         \* max_budget_usd, of a pi node
          /\ j.budget # None => j.handler = "codergen" /\ j.provider = "pi"
          /\ j.journaled \in BOOLEAN              \* the executor has a Run folder
          /\ j.skip \in BOOLEAN                   \* a dry run, or quality is disabled
          /\ j.allow \in Seq(BOOLEAN) \ {<<>>}    \* allow_failure of each quality stage

VARIABLES
    job,        \* the node
    pc,         \* where the handler is
    stage,      \* which stage of a quality node
    child,      \* the process it started: "none", "running", "ok", "bad", "killed"
    helper,     \* a process of the child: alive, in the group, holding the pipes
    written,    \* lines printed
    read,       \* how many of them the handler has taken
    held,       \* it holds the next one, for the Transcript first
    transcript, \* lines of the Transcript; None when there is none
    handle,     \* it can be written: it was created, and no write has failed
    stopped,    \* the budget hook stopped the stream
    invoked,    \* LlmInvoked Events emitted
    result      \* what the handler returned; NotYet before

vars == <<job, pc, stage, child, helper, written, read, held, transcript, handle, stopped, invoked, result>>

NotYet == [kind |-> "none", cost |-> None]

NoHelper == [alive |-> FALSE, inGroup |-> TRUE, holds |-> FALSE]

Codergen == job.handler = "codergen"
ReadLines == SubSeq(written, 1, read)

(* Nobody holds a pipe of the child any more.                              *)
PipesClosed == child # "running" /\ ~(helper.alive /\ helper.holds)

(* killpg of the child's group.  (A helper that left it goes on.)          *)
KillGroup ==
    /\ child' = IF child = "running" THEN "killed" ELSE child
    /\ helper' = IF helper.inGroup THEN NoHelper ELSE helper

Init ==
    /\ job \in Jobs
    /\ pc = "start" /\ stage = 1
    /\ child = "none" /\ helper = NoHelper
    /\ written = <<>> /\ read = 0 /\ held = FALSE
    /\ transcript = None /\ handle = FALSE /\ stopped = FALSE
    /\ invoked = <<>> /\ result = NotYet

----------------------------------------------------------------------------
(* The processes.  What is printed after the handler's end is read by      *)
(* nobody.                                                                 *)
WriteLine ==
    /\ Codergen /\ pc = "run" /\ Len(written) < MaxLines
    /\ child = "running" \/ (helper.alive /\ helper.holds)
    /\ \E l \in Output[job.provider] : written' = Append(written, l)
    /\ UNCHANGED <<job, pc, stage, child, helper, read, held, transcript, handle, stopped, invoked, result>>

StartHelper ==
    /\ child = "running" /\ ~helper.alive
    /\ \E holds \in BOOLEAN, inGroup \in {TRUE, ~MayEscape} :
          helper' = [alive |-> TRUE, inGroup |-> inGroup, holds |-> holds]
    /\ UNCHANGED <<job, pc, stage, child, written, read, held, transcript, handle, stopped, invoked, result>>

ChildExits ==
    /\ child = "running"
    /\ child' \in {"ok", "bad"}
    /\ UNCHANGED <<job, pc, stage, helper, written, read, held, transcript, handle, stopped, invoked, result>>

HelperExits ==
    /\ helper.alive
    /\ helper' = NoHelper
    /\ UNCHANGED <<job, pc, stage, child, written, read, held, transcript, handle, stopped, invoked, result>>

----------------------------------------------------------------------------
Invoked(status, usage) ==
    invoked' = IF Codergen /\ job.journaled
               THEN Append(invoked, [status |-> status, usage |-> usage]) ELSE invoked

(* What there is of a line that was not written to its end: no JSON.       *)
Cut == [t |-> "text"]

(* What the Transcript may hold when the handler is dropped or a write     *)
(* fails: all that was written before, and of the line that is being       *)
(* written nothing, a part or, but for the line's end, the whole of it.    *)
OnDisk ==
    {transcript} \cup IF held /\ handle THEN {Append(transcript, Cut), Append(transcript, written[read + 1])} ELSE {}

(* LlmInvocation::transcript_usage, where the stream itself is gone.       *)
TranscriptUsage(content) == IF content = None THEN NoUsage ELSE Summarize(job.provider, content)

(* The invocation is dropped, or gives up, with what the file holds.       *)
InvokedFromTranscript(status) ==
    /\ transcript' \in OnDisk
    /\ Invoked(status, TranscriptUsage(transcript'))

Return(r) == pc' = "done" /\ result' = r

(* A dry run of a provider or a tool, a disabled quality node.             *)
Skip ==
    /\ pc = "start" /\ job.skip
    /\ Return([kind |-> "success", cost |-> None])
    /\ UNCHANGED <<job, stage, child, helper, written, read, held, transcript, handle, stopped, invoked>>

(* The Transcript is created before the process; a failure is only logged. *)
(* It is removed when the process does not start.  What is left of an      *)
(* earlier quality stage has a group of its own and is not looked at again.*)
Spawn ==
    /\ pc = "start" /\ ~job.skip
    /\ \/ /\ Return([kind |-> "not_started", cost |-> None])
          /\ UNCHANGED <<child, helper, transcript, handle>>
       \/ /\ child' = "running" /\ helper' = NoHelper /\ pc' = "run"
          /\ transcript' \in IF Codergen /\ job.journaled THEN {<<>>, None} ELSE {None}
          /\ handle' = (transcript' # None)
          /\ UNCHANGED result
    /\ UNCHANGED <<job, stage, written, read, held, stopped, invoked>>

(* run_streaming reads a line, waits for the Transcript to be written, and *)
(* then shows it to the budget hook.  It can be dropped while it waits.    *)
OverBudget(lines) == job.budget # None /\ PiSpent(lines) > job.budget

ReadLine ==
    /\ pc = "run" /\ Codergen /\ ~stopped /\ ~held /\ read < Len(written)
    /\ held' = TRUE
    /\ UNCHANGED <<job, pc, stage, child, helper, written, read, transcript, handle, stopped, invoked, result>>

(* A version that shows it to the hook first. *)
TakeLineHookFirst ==
    /\ pc = "run" /\ held
    /\ held' = FALSE /\ read' = read + 1
    /\ IF OverBudget(SubSeq(written, 1, read + 1))
       THEN stopped' = TRUE /\ KillGroup /\ UNCHANGED <<transcript, handle>>
       ELSE /\ transcript' = IF handle THEN Append(transcript, written[read + 1]) ELSE transcript
            /\ UNCHANGED <<stopped, child, helper, handle>>
    /\ UNCHANGED <<job, pc, stage, written, invoked, result>>

(* Transcript::append: after a failed write the lines that follow are not  *)
(* written.                                                                *)
AppendLine ==
    \/ ~handle /\ UNCHANGED <<transcript, handle>>
    \/ handle /\ transcript' = Append(transcript, written[read + 1]) /\ UNCHANGED handle
    \/ handle /\ transcript' \in OnDisk /\ handle' = FALSE

TakeLine ==
    /\ pc = "run" /\ held
    /\ AppendLine
    /\ held' = FALSE /\ read' = read + 1
    /\ IF OverBudget(SubSeq(written, 1, read + 1))
       THEN stopped' = TRUE /\ KillGroup
       ELSE UNCHANGED <<stopped, child, helper>>
    /\ UNCHANGED <<job, pc, stage, written, invoked, result>>

(* The stream has ended, its process was waited for, and the guard of the  *)
(* group is disarmed: execute_with_controls from line 457.                 *)
StreamEnds ==
    LET lines  == ReadLines
        usage  == Summarize(job.provider, lines)
        parsed == IF stopped THEN Parsed(TRUE, <<"budget">>, IF usage.cost # None THEN usage.cost
                                                             ELSE PiSpent(lines))
                  ELSE Parse(job.provider, lines)
        crashed == /\ ~stopped /\ child # "ok"
                   /\ job.provider = "pi" \/ ~HasFinalResult(job.provider, lines)
    IN  /\ pc = "run" /\ Codergen /\ PipesClosed
        /\ ~held /\ (stopped \/ read = Len(written))
        /\ IF crashed \/ parsed.kind = "err"
           THEN Invoked("failed", usage) /\ Return([kind |-> "error", cost |-> None])
           ELSE /\ Invoked(IF parsed.error THEN "failed" ELSE "success", usage)
                /\ Return([kind |-> IF parsed.error THEN "fail" ELSE "success", cost |-> parsed.cost])
        /\ UNCHANGED <<job, stage, child, helper, written, read, held, transcript, handle, stopped>>

(* Reading a pipe or waiting fails; the guard kills the group.             *)
StreamFails ==
    /\ pc = "run"
    /\ InvokedFromTranscript("failed")
    /\ Return([kind |-> "io", cost |-> None])
    /\ KillGroup
    /\ UNCHANGED <<job, stage, written, read, held, handle, stopped>>

(* A version: the timer covers the child only, as a quality stage's does. *)
TimesOutWithChild ==
    /\ pc = "run" /\ job.handler # "quality" /\ child = "running"
    /\ InvokedFromTranscript("timeout")
    /\ Return([kind |-> "timeout", cost |-> None])
    /\ KillGroup
    /\ UNCHANGED <<job, stage, written, read, held, handle, stopped>>

(* Its own timer fires: the invocation is dropped, which emits its Event,  *)
(* and then the guard, which kills the group.                              *)
TimesOut ==
    /\ pc = "run" /\ job.handler # "quality"
    /\ InvokedFromTranscript("timeout")
    /\ Return([kind |-> "timeout", cost |-> None])
    /\ KillGroup
    /\ UNCHANGED <<job, stage, written, read, held, handle, stopped>>

(* ToolHandler: wait_with_output.                                          *)
ToolEnds ==
    /\ pc = "run" /\ job.handler = "tool" /\ PipesClosed
    /\ Return([kind |-> IF child = "ok" THEN "success" ELSE "fail", cost |-> None])
    /\ UNCHANGED <<job, stage, child, helper, written, read, held, transcript, handle, stopped, invoked>>

----------------------------------------------------------------------------
(* A quality stage: the child is waited for under the stage's timer, and   *)
(* then the pipes without one.                                             *)
StageChildExits ==
    /\ pc = "run" /\ job.handler = "quality" /\ child \in {"ok", "bad"}
    /\ pc' = "drain"
    /\ UNCHANGED <<job, stage, child, helper, written, read, held, transcript, handle, stopped, invoked, result>>

(* What a stage leads to: the next stage, the end, or a failed node.       *)
AfterStage(ok) ==
    IF ~(ok \/ job.allow[stage]) THEN Return([kind |-> "fail", cost |-> None]) /\ UNCHANGED stage
    ELSE IF stage = Len(job.allow) THEN Return([kind |-> "success", cost |-> None]) /\ UNCHANGED stage
    ELSE pc' = "start" /\ stage' = stage + 1 /\ UNCHANGED result

StageEnds ==
    /\ pc = "drain" /\ PipesClosed
    /\ AfterStage(child = "ok")
    /\ UNCHANGED <<job, child, helper, written, read, held, transcript, handle, stopped, invoked>>

(* A version: only the child is killed. *)
StageTimesOutChildOnly ==
    /\ pc = "run" /\ job.handler = "quality" /\ child = "running"
    /\ child' = "killed" /\ AfterStage(FALSE)
    /\ UNCHANGED <<job, helper, written, read, held, transcript, handle, stopped, invoked>>

(* The stage's timer fires first: the group is killed and what the pipes   *)
(* hold is taken, for PIPE_DRAIN_GRACE at most.                            *)
StageTimesOut ==
    /\ pc = "run" /\ job.handler = "quality" /\ child = "running"
    /\ KillGroup /\ AfterStage(FALSE)
    /\ UNCHANGED <<job, written, read, held, transcript, handle, stopped, invoked>>

----------------------------------------------------------------------------
(* The engine's deadline drops the handler where it is.  A stage's timer   *)
(* leaves a margin before it (node_timeout_margin).                        *)
Deadline ==
    /\ job.deadline /\ pc \in {"run", "drain"}
    /\ ~(job.handler = "quality" /\ pc = "run")
    /\ InvokedFromTranscript("timeout")
    /\ Return([kind |-> "deadline", cost |-> None])
    /\ KillGroup
    /\ UNCHANGED <<job, stage, written, read, held, handle, stopped>>

Processes == WriteLine \/ StartHelper \/ ChildExits \/ HelperExits
Timers == TimesOut \/ StageTimesOut \/ Deadline
Handler ==
    \/ Skip \/ Spawn \/ ReadLine \/ TakeLine \/ StreamEnds \/ ToolEnds
    \/ StageChildExits \/ StageEnds

Next == Processes \/ Timers \/ Handler \/ StreamFails

(* The handler's future is polled, and a timer that runs fires.  Processes *)
(* need not do anything.                                                   *)
Spec == Init /\ [][Next]_vars /\ WF_vars(Handler) /\ WF_vars(Timers)

----------------------------------------------------------------------------
TypeOK ==
    /\ pc \in {"start", "run", "drain", "done"} /\ stage \in 1 .. Len(job.allow)
    /\ child \in {"none", "running", "ok", "bad", "killed"}
    /\ helper \in [alive : BOOLEAN, inGroup : BOOLEAN, holds : BOOLEAN]
    /\ read \in 0 .. Len(written) /\ Len(written) <= MaxLines
    /\ held \in BOOLEAN /\ handle \in BOOLEAN /\ (held => read < Len(written))
    /\ stopped \in BOOLEAN /\ (result.kind = "none" <=> pc # "done")

(* Whenever the handler gives up on its processes, by its timer, the       *)
(* engine's deadline, an I/O error, the budget or a stage's timer, nobody  *)
(* of the process group outlives it: not the child and not a helper that   *)
(* the child started and left behind (ProcessGroupGuard).                  *)
GroupDies ==
    \/ child = "killed"
    \/ result.kind \in {"timeout", "deadline", "io"}
    => child # "running" /\ ~(helper.alive /\ helper.inGroup)

(* "one for each Model Invocation, also on failure and timeout"            *)
(* (CHANGELOG.md:58): exactly one LlmInvoked, with the status of what the  *)
(* engine gets, whichever of two timers, the stream and the budget is      *)
(* first; none when no process started.                                    *)
InvokedOnce ==
    LET started == Codergen /\ job.journaled /\ child # "none"
    IN  /\ Len(invoked) = IF started /\ pc = "done" THEN 1 ELSE 0
        /\ \A i \in DOMAIN invoked :
              invoked[i].status = CASE result.kind = "success" -> "success"
                                    [] result.kind \in {"timeout", "deadline"} -> "timeout"
                                    [] OTHER -> "failed"

(* The first lines that were read, all of them but for a last one that was *)
(* cut off: what a Transcript may hold.                                    *)
Kept ==
    LET last == IF held THEN read + 1 ELSE read
    IN  {SubSeq(written, 1, n) : n \in 0 .. last} \cup {Append(SubSeq(written, 1, n), Cut) : n \in 0 .. last}

(* The Transcript is what was read of the provider, line for line and with *)
(* no gap, and all of it as long as no write has failed.  The usage that   *)
(* is reported is that of everything read, or, when the handler gave up,   *)
(* that of the Transcript: then nothing is missing of it but the line in   *)
(* hand, unless a write has failed.                                        *)
UsageIsObserved ==
    /\ transcript # None => transcript \in Kept /\ (handle => Len(transcript) >= read)
    /\ pc = "run" /\ handle => transcript = ReadLines
    /\ \A i \in DOMAIN invoked :
          \/ invoked[i].usage = Summarize(job.provider, ReadLines)
          \/ /\ result.kind \in {"timeout", "deadline", "io"}
             /\ invoked[i].usage = TranscriptUsage(transcript)

(* A pi node never succeeds above its budget, reads nothing more once it   *)
(* is above it, and what it spent until then reaches the Run's total:      *)
(* "the partial cost counts toward the Run total" (docs/cli-reference.md:  *)
(* 172).                                                                   *)
BudgetHolds ==
    job.budget # None =>
      /\ \A k \in 1 .. read : (k < read \/ held) => ~OverBudget(SubSeq(written, 1, k))
      /\ result.kind = "success" /\ child # "none" => ~OverBudget(ReadLines)
      /\ result.kind \in {"success", "fail"} /\ child # "none" =>
            PiSpent(ReadLines) = IF result.cost = None THEN 0 ELSE result.cost

(* An invocation is reported once, with what it used, whichever of timer,  *)
(* deadline, budget and end of the stream comes first                      *)
(* (codergen_handler.rs, provider_stream.rs).                              *)
InvocationIsAccounted == TypeOK /\ InvokedOnce /\ UsageIsObserved /\ BudgetHolds

(* Every attempt ends, however long its processes live: a helper that      *)
(* keeps the pipes open is cut off by a timer.  A quality node needs the   *)
(* engine's deadline for it (QualityIsInTime).                             *)
AttemptEnds ==
    (pc # "done" /\ (job.handler # "quality" \/ job.deadline)) ~> (pc = "done")

(* "Each stage now also stops a little before the node `timeout`, so the   *)
(* engine node deadline does not end the run first" (CHANGELOG.md:82).  The*)
(* timer covers the child, not the wait for its pipes.                     *)
QualityIsInTime ==
    ~(job.handler = "quality" /\ result.kind = "deadline")

(* "Whether stdout holds the answer the provider ends a run with. Without  *)
(* it, a non-zero exit is reported like an empty stdout"                   *)
(* (codergen_provider.rs:621).  For Codex any output will do.              *)
Answered(lines) ==
    CASE job.provider = "codex" -> OfType(lines, "agent_message") # <<>>
      [] job.provider = "pi" -> OfType(lines, "agent_end") # <<>>
      [] OTHER -> OfType(lines, "result") # <<>> \/ OfType(lines, "object") # <<>>

CrashIsFailure ==
    Codergen /\ result.kind = "success" /\ child = "bad" => Answered(ReadLines)
=============================================================================
