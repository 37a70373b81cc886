------------------------------- MODULE Tasks -------------------------------
(***************************************************************************)
(* Runs of the epic-runner Pipeline: beads.select claims a Task of an      *)
(* Epic, agents work on it, commit and push, and beads.close closes it     *)
(* (handlers/beads.rs).  The engine only observes the commits: it compares *)
(* HEAD before and after each attempt and records what it finds for the    *)
(* Task (emit_run_commits, run_commits.rs); beads.close believes these     *)
(* records.                                                                *)
(*                                                                         *)
(* Several Runs of the same Epic share the tracker and the upstream        *)
(* branch; each has a clone and a checkpoint of its own.  The stages in    *)
(* which agents work (investigate ... publish) are one stage, "work".      *)
(***************************************************************************)
EXTENDS Naturals, Sequences, FiniteSets, SequencesExt

CONSTANTS
    Run,
    Task,         \* the children of the Epic
    Blocks,       \* [Task -> the Tasks that block it]
    Place,        \* [Task -> Nat]: by `order`, then priority, then natural id
    Excluded,     \* the Tasks named by `exclude`
    NoTask,
    MaxCommits,   \* bound: commits made, rewritten ones included
    MaxCrashes,   \* bound
    MaxFaults     \* bound: git, bd, journal or file operations that fail

ASSUME TaskAssumption ==
    /\ NoTask \notin Task /\ Task # {}
    /\ Blocks \in [Task -> SUBSET Task]
    /\ Place \in [Task -> Nat] /\ \A s, t \in Task : Place[s] = Place[t] => s = t

VARIABLES
    tracker,      \* Beads: [Task -> "open", "in_progress" or "closed"]
    commits,      \* every commit there is: what it is for, and whether the
                  \* attempt it was made in did not live to see it (history)
    upstream,     \* the commits on @{upstream}
    local,        \* [Run -> the commits HEAD of its clone reaches]
    recorded,     \* [Run -> [Task -> the CommitsCreated of its journal]]
    ckpt,         \* [Run -> stage and Task of its checkpoint]
    run,          \* [Run -> the process and its locals]
    orphans,      \* [Run -> Tasks on which an agent outlived its process]
    crashes, faults

git == <<commits, upstream, local>>
bounds == <<crashes, faults>>
vars == <<tracker, git, recorded, ckpt, run, orphans, bounds>>

Off == [pc |-> "off", stage |-> "select", task |-> NoTask, before |-> {},
        taskBefore |-> NoTask, children |-> {}, pick |-> NoTask, result |-> "none"]

Init ==
    /\ tracker = [t \in Task |-> "open"]
    /\ commits = <<>> /\ upstream = {}
    /\ local = [r \in Run |-> {}]
    /\ recorded = [r \in Run |-> [t \in Task |-> {}]]
    /\ ckpt = [r \in Run |-> [stage |-> "select", task |-> NoTask]]
    /\ run = [r \in Run |-> Off]
    /\ orphans = [r \in Run |-> {}]
    /\ crashes = 0 /\ faults = 0

At(r, pc, stage) == run[r].pc = pc /\ run[r].stage = stage

End(r, result) ==
    run' = [run EXCEPT ![r].pc = "ended", ![r].result = result]

Fault == faults < MaxFaults /\ faults' = faults + 1 /\ UNCHANGED crashes

----------------------------------------------------------------------------
(* The executor: launch or resume, save the checkpoint, note HEAD and the  *)
(* claimed Task, run the handler, record the commits, go on.               *)
Launch(r) ==
    /\ run[r].pc = "off"
    /\ run' = [run EXCEPT ![r] = [Off EXCEPT !.pc = "top",
                    !.stage = ckpt[r].stage, !.task = ckpt[r].task]]
    /\ UNCHANGED <<tracker, git, recorded, ckpt, orphans, bounds>>

BeginAttemptOldHead(r) ==
    /\ run[r].pc = "top"
    /\ ckpt' = [ckpt EXCEPT ![r] = [stage |-> run[r].stage, task |-> run[r].task]]
    /\ run' = [run EXCEPT ![r].pc = "run", ![r].taskBefore = run[r].task]
    /\ UNCHANGED <<tracker, git, recorded, orphans, bounds>>

BeginAttempt(r) ==
    /\ run[r].pc = "top"
    /\ ckpt' = [ckpt EXCEPT ![r] = [stage |-> run[r].stage, task |-> run[r].task]]
    /\ run' = [run EXCEPT ![r].pc = "run", ![r].taskBefore = run[r].task,
                          ![r].before = local[r]]
    /\ UNCHANGED <<tracker, git, recorded, orphans, bounds>>

\* Commits of this Run that nobody will record for the Task they are for.
Lose(r, ids) ==
    commits' = [i \in DOMAIN commits |->
        IF i \in ids /\ commits[i].run = r THEN [commits[i] EXCEPT !.lost = TRUE]
        ELSE commits[i]]

(* emit_run_commits, whatever the attempt's result: before..HEAD, for the  *)
(* Task that the outcome names, or the context, or named before.  git or   *)
(* the append may fail, which nobody hears of.                             *)
Moved(r) == local[r] \ run[r].before

Named(r) ==
    IF run[r].pick # NoTask THEN run[r].pick
    ELSE IF run[r].task # NoTask THEN run[r].task ELSE run[r].taskBefore

Recorded(r) ==
    recorded' = IF Named(r) = NoTask THEN recorded
                ELSE [recorded EXCEPT ![r][Named(r)] = @ \cup Moved(r)]

RecordUnlessRetried(r) ==
    /\ IF run[r].result = "again" THEN UNCHANGED recorded ELSE Recorded(r)
    /\ UNCHANGED <<commits, bounds>>

Record(r) ==
    \/ Recorded(r) /\ UNCHANGED <<commits, bounds>>
    \/ Moved(r) # {} /\ Fault /\ Lose(r, Moved(r)) /\ UNCHANGED recorded

(* What comes next: the edges of epic-runner.dot, a retry, or the Run      *)
(* fails.  DONE and BLOCKED lead to the exit, which clears the checkpoint. *)
NextStage == [more |-> "work", worked |-> "close", unpublished |-> "work",
              closed |-> "select"]

GoOn(r) ==
    LET me == run[r]
        on == [Off EXCEPT !.pc = "top", !.task = me.task, !.stage = me.stage]
    IN  run' = [run EXCEPT ![r] =
            CASE me.result = "error" -> Off
              [] me.result = "again" -> on
              [] me.result \in {"done", "blocked"} -> [Off EXCEPT !.pc = "over"]
              [] OTHER -> [on EXCEPT !.stage = NextStage[me.result],
                    !.task = IF me.result = "more" THEN me.pick ELSE @]]

EndAttempt(r) ==
    /\ run[r].pc = "ended"
    /\ Record(r)
    /\ GoOn(r)
    /\ UNCHANGED <<tracker, upstream, local, ckpt, orphans>>

\* SIGKILL, and whatever else takes the process but not its agent.
Crash(r) ==
    /\ run[r].pc \notin {"off", "over"}
    /\ crashes < MaxCrashes /\ crashes' = crashes + 1 /\ UNCHANGED faults
    /\ run' = [run EXCEPT ![r] = Off]
    /\ IF run[r].pc = "top" THEN UNCHANGED commits ELSE Lose(r, Moved(r))
    /\ orphans' = IF At(r, "run", "work")
                  THEN [orphans EXCEPT ![r] = @ \cup {run[r].task}] ELSE orphans
    /\ UNCHANGED <<tracker, upstream, local, recorded, ckpt>>

----------------------------------------------------------------------------
(* Agents: they commit, pull with --rebase and push as they please, and    *)
(* return, are given up on and tried again (a timeout, a provider's        *)
(* retryable error), or fail the Run.                                      *)
Working(r, t) ==
    \/ At(r, "run", "work") /\ run[r].task = t
    \/ t \in orphans[r]

Commit(r, t) ==
    /\ Working(r, t)
    /\ Len(commits) < MaxCommits
    /\ commits' = Append(commits,
            [run |-> r, task |-> t,
             lost |-> ~(At(r, "run", "work") /\ run[r].task = t)])
    /\ local' = [local EXCEPT ![r] = @ \cup {Len(commits')}]
    /\ UNCHANGED <<tracker, upstream, recorded, ckpt, run, orphans, bounds>>

\* git pull --rebase makes new commits of those that are not upstream.
Rebase(r, t) ==
    /\ Working(r, t)
    /\ ~(upstream \subseteq local[r])
    /\ LET old == SetToSeq(local[r] \ upstream)
       IN  /\ Len(commits) + Len(old) <= MaxCommits
           /\ commits' = commits \o [k \in DOMAIN old |-> commits[old[k]]]
           /\ local' = [local EXCEPT ![r] =
                    upstream \cup (Len(commits) + 1 .. Len(commits'))]
    /\ UNCHANGED <<tracker, upstream, recorded, ckpt, run, orphans, bounds>>

Push(r, t) ==
    /\ Working(r, t)
    /\ upstream \subseteq local[r] /\ upstream # local[r]
    /\ upstream' = local[r]
    /\ UNCHANGED <<tracker, commits, local, recorded, ckpt, run, orphans, bounds>>

AgentReturns(r) ==
    /\ At(r, "run", "work")
    /\ \E result \in {"worked", "again", "error"} : End(r, result)
    /\ UNCHANGED <<tracker, git, recorded, ckpt, orphans, bounds>>

----------------------------------------------------------------------------
(* beads.select: `bd children`, `bd ready`, choose, `bd update --claim`.   *)
(* Any of them may fail, and then so does the Run.                         *)
ListChildren(r) ==
    /\ At(r, "run", "select")
    /\ \/ /\ run' = [run EXCEPT ![r].pc = "ready",
                ![r].children = {t \in Task : tracker[t] # "closed"}]
          /\ UNCHANGED bounds
       \/ Fault /\ End(r, "error")
    /\ UNCHANGED <<tracker, git, recorded, ckpt, orphans>>

\* External: `bd ready`, and `bd update --claim`, which tests and sets.
Ready == {t \in Task : tracker[t] = "open" /\ \A b \in Blocks[t] : tracker[b] = "closed"}

Least(ts) == CHOOSE t \in ts : \A s \in ts : Place[t] <= Place[s]

Choose(r) ==
    /\ At(r, "ready", "select")
    /\ LET open == (run[r].children \cap Ready) \ Excluded
       IN  IF run[r].children = {} THEN End(r, "done")
           ELSE IF open = {} THEN End(r, "blocked")
           ELSE run' = [run EXCEPT ![r].pc = "claim", ![r].pick = Least(open)]
    /\ UNCHANGED <<tracker, git, recorded, ckpt, orphans, bounds>>

ClaimByStatus(r) ==
    /\ At(r, "claim", "select")
    /\ tracker' = [tracker EXCEPT ![run[r].pick] = "in_progress"]
    /\ End(r, "more")
    /\ UNCHANGED <<git, recorded, ckpt, orphans, bounds>>

Claim(r) ==
    /\ At(r, "claim", "select")
    /\ IF tracker[run[r].pick] = "open"
       THEN /\ tracker' = [tracker EXCEPT ![run[r].pick] = "in_progress"]
            /\ \/ End(r, "more") /\ UNCHANGED bounds
               \/ Fault /\ run' = [run EXCEPT ![r].pc = "ended",
                        ![r].result = "error", ![r].pick = NoTask]
       ELSE /\ run' = [run EXCEPT ![r].pc = "ended",
                    ![r].result = "error", ![r].pick = NoTask]
            /\ UNCHANGED <<tracker, bounds>>
    /\ UNCHANGED <<git, recorded, ckpt, orphans>>

----------------------------------------------------------------------------
(* beads.close: read the journal, ask git about each commit (what git      *)
(* cannot answer counts as unpublished), `bd close`, forget task.*.        *)
Verify(r) ==
    /\ At(r, "run", "close")
    /\ \/ /\ IF recorded[r][run[r].task] \subseteq upstream
             THEN run' = [run EXCEPT ![r].pc = "verified"]
             ELSE End(r, "unpublished")
          /\ UNCHANGED bounds
       \/ Fault /\ \E result \in {"unpublished", "error"} : End(r, result)
    /\ UNCHANGED <<tracker, git, recorded, ckpt, orphans>>

Close(r) ==
    /\ At(r, "verified", "close")
    /\ \/ /\ tracker' = [tracker EXCEPT ![run[r].task] = "closed"]
          /\ run' = [run EXCEPT ![r].pc = "ended", ![r].result = "closed",
                                ![r].task = NoTask]
          /\ UNCHANGED bounds
       \/ Fault /\ End(r, "error") /\ UNCHANGED tracker
    /\ UNCHANGED <<git, recorded, ckpt, orphans>>

----------------------------------------------------------------------------
Agent(r) ==
    \/ \E t \in Task : Commit(r, t) \/ Rebase(r, t) \/ Push(r, t)
    \/ AgentReturns(r)

Handler(r) == ListChildren(r) \/ Choose(r) \/ Claim(r) \/ Verify(r) \/ Close(r)

Engine(r) == Launch(r) \/ BeginAttempt(r) \/ EndAttempt(r) \/ Crash(r)

Next == \E r \in Run : Engine(r) \/ Handler(r) \/ Agent(r)

Spec == Init /\ [][Next]_vars

----------------------------------------------------------------------------
(* Every variable has its type; a Task is in the context from its claim to *)
(* its close and at no other time (task.* of beads.rs).                    *)
TypeOK ==
    /\ tracker \in [Task -> {"open", "in_progress", "closed"}]
    /\ upstream \subseteq DOMAIN commits
    /\ \A i \in DOMAIN commits : commits[i] \in [run : Run, task : Task, lost : BOOLEAN]
    /\ \A r \in Run :
        /\ local[r] \subseteq DOMAIN commits
        /\ \A t \in Task : recorded[r][t] \subseteq DOMAIN commits
        /\ ckpt[r].task \in Task <=> ckpt[r].stage # "select"
        /\ run[r].pc = "top" => (run[r].task \in Task <=> run[r].stage # "select")
        /\ orphans[r] \subseteq Task

(* Two Runs never have the same Task in hand, nor in the checkpoints they  *)
(* would resume from, although each chose it from a list it read before    *)
(* the claim (select: children, ready, claim are three calls of bd).       *)
InHand(r) == {run[r].task, ckpt[r].task} \ {NoTask}

OneRunPerTask == \A r, s \in Run : r # s => InHand(r) \cap InHand(s) = {}

(* A Task is only worked on after its blockers are closed, and while it    *)
(* cannot be offered to anybody else, also by a Run that comes back after  *)
(* a crash (choose, claim).                                                *)
WorkIsReady ==
    \A r \in Run : At(r, "run", "work") =>
        /\ tracker[run[r].task] # "open"
        /\ \A b \in Blocks[run[r].task] : tracker[b] = "closed"

(* What the journal names as a Task's commits was made for that Task, or   *)
(* came with a pull: a Run never closes a Task on the strength of, or      *)
(* leaves it open because of, the work of the previous one (head_before is *)
(* read anew for each attempt).                                            *)
RecordedIsOwn ==
    \A r \in Run, t \in Task : \A i \in recorded[r][t] :
        commits[i].run = r /\ ~commits[i].lost => commits[i].task = t

(* When a Task is closed, every commit made for it, however the attempt    *)
(* that made it ended, is on the upstream branch; only commits whose       *)
(* attempt was killed or could not be recorded may be missing (close,      *)
(* emit_run_commits).                                                      *)
PublishedUnlessLost(t) ==
    \A r \in Run : \A i \in local[r] :
        commits[i].task = t /\ ~commits[i].lost => i \in upstream

ClosedIsPublished ==
    [][\A t \in Task : tracker[t] # "closed" /\ tracker'[t] = "closed" =>
        PublishedUnlessLost(t)]_vars

(* A Task in hand is in one hand, and may be worked on (beads.select and   *)
(* its claim).                                                             *)
WorkIsClaimed == TypeOK /\ OneRunPerTask /\ WorkIsReady
=============================================================================
