---------------------------- MODULE RunLifecycle ----------------------------
(***************************************************************************)
(* Everything around the executor: `pas run` taking its locks, deciding    *)
(* which Run it works on, recording the Run and the Attempt, ending it,    *)
(* and `pas stop` and `pas kill` acting on it from other processes         *)
(* (attractor-cli run.rs, run_lock.rs, stop.rs, kill.rs; status.rs).       *)
(*                                                                         *)
(* The processes share files only: run.lock and pas-run.lock, the          *)
(* checkpoint, run.json, the Run Index, the Run Journal and control/stop.  *)
(* The executor is reduced to what it does to them.                        *)
(***************************************************************************)
EXTENDS Naturals, Sequences, FiniteSetsExt

CONSTANTS
    Pid,            \* `pas run` processes, numbered as they start
    Pipeline, Run,
    Jobs,           \* [Pid -> Seq(Pipeline)]: a directory has several
    Sharing,        \* processes with --allow-shared-workdir
    Fresh,          \* processes with --fresh
    Requested,      \* [Pid -> Run or NoRun], --run-id
    MaxBeats,       \* bound: heartbeats of an Attempt
    DiskMayFail,    \* whether an append to the Index or a journal may fail
    Controlled,     \* whether somebody uses `pas stop` and `pas kill`,
                    \* one command at a time
    NoPid, NoRun

ASSUME JobsAssumption ==
    /\ Pid \subseteq Nat
    /\ Jobs \in [Pid -> Seq(Pipeline)]
    /\ \A p \in Pid : Jobs[p] # <<>>
    /\ Requested \in [Pid -> Run \cup {NoRun}]
    /\ NoPid \notin Pid /\ NoRun \notin Run
    \* A Run is a folder of one Pipeline (PipelineDir::run).
    /\ \A p, q \in Pid : Requested[p] = Requested[q] /\ Requested[p] # NoRun =>
        \A i \in DOMAIN Jobs[p], j \in DOMAIN Jobs[q] : Jobs[p][i] = Jobs[q][j]

VARIABLES
    proc,           \* [Pid -> the locals of cmd_run]
    term,           \* processes with a SIGTERM their listener has not taken
    lock, holder,   \* [Pipeline -> ..]: run.lock's owner and what it says
    worktree,       \* owner of pas-run.lock; all Pipelines share a worktree
    ckpt,           \* [Pipeline -> the Run its checkpoint belongs to]
    meta, indexed,  \* Runs with a run.json, Runs with an Index line
    home,           \* [Run -> the Pipeline it is a Run of]
    journal,        \* [Run -> its Events]
    stopFile,       \* [Run -> control/stop: <<>>, or <<the Attempt it is for>>]
    quiet,          \* Runs whose last sign of life is older than CRASH_AFTER
    stopper, killer,\* the locals of `pas stop` and `pas kill`
    saved           \* history: Runs that ever had a checkpoint

files == <<lock, holder, worktree, ckpt, meta, indexed, home, journal, stopFile>>
controls == <<stopper, killer>>
vars == <<proc, term, files, quiet, controls, saved>>

Unstarted == [pc |-> "new", job |-> 1, run |-> NoRun, attempt |-> 0,
              how |-> "none", beating |-> FALSE]
NoStop == [run |-> NoRun, attempt |-> 0]
NoKill == [run |-> NoRun, pid |-> NoPid, sent |-> FALSE]

Init ==
    /\ proc = [p \in Pid |-> Unstarted]
    /\ term = {}
    /\ lock = [l \in Pipeline |-> NoPid]
    /\ holder = [l \in Pipeline |-> [pid |-> NoPid, run |-> NoRun]]
    /\ worktree = NoPid
    /\ ckpt = [l \in Pipeline |-> NoRun]
    /\ meta = {} /\ indexed = {}
    /\ home = [r \in Run |-> CHOOSE l \in Pipeline : TRUE]
    /\ journal = [r \in Run |-> <<>>]
    /\ stopFile = [r \in Run |-> <<>>]
    /\ quiet = {}
    /\ stopper = NoStop /\ killer = NoKill
    /\ saved = {}

----------------------------------------------------------------------------
(* Reading a journal.                                                      *)
Event(type, a, p, why) == [type |-> type, attempt |-> a, pid |-> p, why |-> why]

LastAttempt(r) ==
    Max({journal[r][i].attempt : i \in DOMAIN journal[r]} \cup {0})

OfLast(r) == {i \in DOMAIN journal[r] : journal[r][i].attempt = LastAttempt(r)}
Ended(r) == {i \in OfLast(r) : journal[r][i].type = "AttemptEnded"}

(* The pid of the last Heartbeat, else of AttemptStarted.                  *)
RecordedPid(r) ==
    LET signs == {journal[r][i].pid : i \in
                    {i \in OfLast(r) : journal[r][i].type
                        \in {"Heartbeat", "AttemptStarted"}}}
    IN  IF signs = {} THEN NoPid ELSE CHOOSE p \in signs : TRUE

Alive(p) == p \in Pid /\ proc[p].pc \notin {"new", "gone"}

Status(r) ==
    IF Ended(r) # {}
    THEN journal[r][CHOOSE i \in Ended(r) : \A j \in Ended(r) : i <= j].why
    ELSE IF r \in quiet /\ ~Alive(RecordedPid(r)) THEN "crashed" ELSE "running"

----------------------------------------------------------------------------
Pc(p) == proc[p].pc
Job(p) == Jobs[p][proc[p].job]
At(p, pc) == Pc(p) = pc
Goto(p, pc) == proc' = [proc EXCEPT ![p].pc = pc]

(* The locks of a process are released by it or by the kernel.             *)
Release(p) ==
    /\ lock' = [l \in Pipeline |-> IF lock[l] = p THEN NoPid ELSE lock[l]]
    /\ worktree' = IF worktree = p THEN NoPid ELSE worktree

Gone(p) ==
    /\ proc' = [proc EXCEPT ![p] = [Unstarted EXCEPT !.pc = "gone"]]
    /\ term' = term \ {p}
    /\ Release(p)

Append1(r, e) == journal' = [journal EXCEPT ![r] = Append(@, e)]

(* cmd_run installs its SIGTERM listener first; a signal that came earlier *)
(* was for the listener of an earlier Pipeline of the directory.           *)
Listen(p) ==
    /\ Pc(p) \in {"new", "next"}
    /\ \A q \in Pid : q < p => Pc(q) # "new"
    /\ Goto(p, "lock")
    /\ term' = term \ {p}
    /\ UNCHANGED <<files, quiet, controls, saved>>

(* acquire_run_locks: the Pipeline's lock, then the worktree's, neither of *)
(* which is waited for.  What a refused process had is released.           *)
LockPipelineAnyway(p) ==
    /\ At(p, "lock")
    /\ lock' = [lock EXCEPT ![Job(p)] = p]
    /\ holder' = [holder EXCEPT ![Job(p)] = [pid |-> p, run |-> NoRun]]
    /\ Goto(p, "worktree")
    /\ UNCHANGED <<term, worktree, ckpt, meta, indexed, home, journal,
                   stopFile, quiet, controls, saved>>

LockPipeline(p) ==
    /\ At(p, "lock")
    /\ lock[Job(p)] = NoPid
    /\ lock' = [lock EXCEPT ![Job(p)] = p]
    /\ holder' = [holder EXCEPT ![Job(p)] = [pid |-> p, run |-> NoRun]]
    /\ Goto(p, "worktree")
    /\ UNCHANGED <<term, worktree, ckpt, meta, indexed, home, journal,
                   stopFile, quiet, controls, saved>>

RefusePipeline(p) ==
    /\ At(p, "lock")
    /\ lock[Job(p)] # NoPid
    /\ Gone(p)
    /\ UNCHANGED <<holder, ckpt, meta, indexed, home, journal, stopFile,
                   quiet, controls, saved>>

LockWorktree(p) ==
    /\ At(p, "worktree")
    /\ worktree = NoPid
    /\ worktree' = p
    /\ Goto(p, "decide")
    /\ UNCHANGED <<term, lock, holder, ckpt, meta, indexed, home, journal,
                   stopFile, quiet, controls, saved>>

ShareWorktreeAnyway(p) ==
    /\ At(p, "worktree")
    /\ worktree # NoPid
    /\ Goto(p, "decide")
    /\ UNCHANGED <<term, files, quiet, controls, saved>>

ShareWorktree(p) ==
    /\ At(p, "worktree")
    /\ worktree # NoPid
    /\ p \in Sharing
    /\ Goto(p, "decide")
    /\ UNCHANGED <<term, files, quiet, controls, saved>>

RefuseWorktree(p) ==
    /\ At(p, "worktree")
    /\ worktree # NoPid
    /\ p \notin Sharing
    /\ Gone(p)
    /\ UNCHANGED <<holder, ckpt, meta, indexed, home, journal, stopFile,
                   quiet, controls, saved>>

----------------------------------------------------------------------------
(* prepare_run, once the locks are held.  The checkpoint names its Run;    *)
(* without one (or with --fresh) the Run is new, and must not exist yet.   *)
Found(p) == IF p \in Fresh THEN NoRun ELSE ckpt[Job(p)]

Identities(p) ==
    IF Found(p) # NoRun
    THEN IF Requested[p] \in {NoRun, Found(p)} THEN {Found(p)} ELSE {}
    ELSE IF Requested[p] # NoRun THEN {Requested[p]} \ meta
    ELSE LET unused == {r \in Run : journal[r] = <<>> /\ r \notin meta
                            /\ \A q \in Pid : proc[q].run # r /\ Requested[q] # r}
         IN  IF unused = {} THEN {} ELSE {CHOOSE r \in unused : TRUE}

Decide(p) ==
    /\ At(p, "decide")
    /\ \E r \in Identities(p) :
        /\ proc' = [proc EXCEPT ![p].run = r,
                ![p].pc = IF p \in Fresh THEN "clear" ELSE "control"]
        /\ holder' = [holder EXCEPT ![Job(p)].run = r]
        /\ home' = IF r \in meta THEN home ELSE [home EXCEPT ![r] = Job(p)]
    /\ UNCHANGED <<term, lock, worktree, ckpt, meta, indexed, journal,
                   stopFile, quiet, controls, saved>>

\* run_id_mismatch and run_exists (and, in a bounded model, no id left).
RefuseIdentity(p) ==
    /\ At(p, "decide")
    /\ Identities(p) = {}
    /\ Gone(p)
    /\ UNCHANGED <<holder, ckpt, meta, indexed, home, journal, stopFile,
                   quiet, controls, saved>>

ClearForFresh(p) ==
    /\ At(p, "clear")
    /\ ckpt' = [ckpt EXCEPT ![Job(p)] = NoRun]
    /\ Goto(p, "control")
    /\ UNCHANGED <<term, lock, holder, worktree, meta, indexed, home, journal,
                   stopFile, quiet, controls, saved>>

(* The Run folder exists; drop a stop request, number the Attempt.         *)
SameAttempt(p) ==
    /\ At(p, "control")
    /\ proc' = [proc EXCEPT
            ![p].pc = IF proc[p].run \in meta THEN "open" ELSE "meta",
            ![p].attempt = LastAttempt(proc[p].run)]
    /\ UNCHANGED <<term, files, quiet, controls, saved>>

RemoveStop(p) ==
    /\ At(p, "control")
    /\ stopFile' = [stopFile EXCEPT ![proc[p].run] = <<>>]
    /\ proc' = [proc EXCEPT
            ![p].pc = IF proc[p].run \in meta THEN "open" ELSE "meta",
            ![p].attempt = LastAttempt(proc[p].run) + 1]
    /\ UNCHANGED <<term, lock, holder, worktree, ckpt, meta, indexed, home,
                   journal, quiet, controls, saved>>

WriteMeta(p) ==
    /\ At(p, "meta")
    /\ meta' = meta \cup {proc[p].run}
    /\ Goto(p, "index")
    /\ UNCHANGED <<term, lock, holder, worktree, ckpt, indexed, home, journal,
                   stopFile, quiet, controls, saved>>

SkipIndex(p) ==
    /\ At(p, "index")
    /\ Goto(p, "open new")
    /\ UNCHANGED <<term, files, quiet, controls, saved>>

AppendIndex(p) ==
    /\ At(p, "index")
    /\ indexed' = indexed \cup {proc[p].run}
    /\ Goto(p, "open new")
    /\ UNCHANGED <<term, lock, holder, worktree, ckpt, meta, home, journal,
                   stopFile, quiet, controls, saved>>

\* append_entry_at fails: run.json is removed again.
IndexFails(p) ==
    /\ DiskMayFail
    /\ At(p, "index")
    /\ meta' = meta \ {proc[p].run}
    /\ Gone(p)
    /\ UNCHANGED <<holder, ckpt, indexed, home, journal, stopFile, quiet,
                   controls, saved>>

\* RunStarted, for a new Run only.
StartRun(p) ==
    /\ At(p, "open new")
    /\ Append1(proc[p].run, Event("RunStarted", proc[p].attempt, NoPid, "none"))
    /\ Goto(p, "open")
    /\ UNCHANGED <<term, lock, holder, worktree, ckpt, meta, indexed, home,
                   stopFile, quiet, controls, saved>>

StartAttempt(p) ==
    /\ At(p, "open")
    /\ Append1(proc[p].run, Event("AttemptStarted", proc[p].attempt, p, "none"))
    /\ proc' = [proc EXCEPT ![p].pc = "run", ![p].beating = TRUE]
    /\ quiet' = quiet \ {proc[p].run}
    /\ UNCHANGED <<term, lock, holder, worktree, ckpt, meta, indexed, home,
                   stopFile, controls, saved>>

\* Either append fails: the process gives up, and run.json stays.
StartFails(p) ==
    /\ DiskMayFail
    /\ Pc(p) \in {"open new", "open"}
    /\ Gone(p)
    /\ UNCHANGED <<holder, ckpt, meta, indexed, home, journal, stopFile,
                   quiet, controls, saved>>

----------------------------------------------------------------------------
(* The Attempt: the executor, the heartbeat task, and SIGTERM, of which    *)
(* select! takes whichever is ready.                                       *)
Beats(p) ==
    {i \in DOMAIN journal[proc[p].run] :
        /\ journal[proc[p].run][i].type = "Heartbeat"
        /\ journal[proc[p].run][i].attempt = proc[p].attempt}

Heartbeat(p) ==
    /\ proc[p].beating
    /\ Cardinality(Beats(p)) < MaxBeats
    /\ Append1(proc[p].run, Event("Heartbeat", proc[p].attempt, p, "none"))
    /\ quiet' = quiet \ {proc[p].run}
    /\ UNCHANGED <<proc, term, lock, holder, worktree, ckpt, meta, indexed,
                   home, stopFile, controls, saved>>

SaveCheckpoint(p) ==
    /\ At(p, "run")
    /\ ckpt' = [ckpt EXCEPT ![Job(p)] = proc[p].run]
    /\ saved' = saved \cup {proc[p].run}
    /\ UNCHANGED <<proc, term, lock, holder, worktree, meta, indexed, home,
                   journal, stopFile, quiet, controls>>

EngineEnds(p, how) == proc' = [proc EXCEPT ![p].pc = "beat", ![p].how = how]

EngineStops(p) ==
    /\ At(p, "run")
    /\ stopFile[proc[p].run] # <<>>
    /\ ckpt' = [ckpt EXCEPT ![Job(p)] = proc[p].run]
    /\ saved' = saved \cup {proc[p].run}
    /\ EngineEnds(p, "stopped")
    /\ UNCHANGED <<term, lock, holder, worktree, meta, indexed, home, journal,
                   stopFile, quiet, controls>>

EngineFails(p) ==
    /\ At(p, "run")
    /\ EngineEnds(p, "failed")
    /\ UNCHANGED <<term, files, quiet, controls, saved>>

(* clear_checkpoint is the executor's last await: SIGTERM may still be     *)
(* taken between the removal and its return.                               *)
EngineClears(p) ==
    /\ At(p, "run")
    /\ ckpt[Job(p)] = proc[p].run
    /\ ckpt' = [ckpt EXCEPT ![Job(p)] = NoRun]
    /\ Goto(p, "cleared")
    /\ UNCHANGED <<term, lock, holder, worktree, meta, indexed, home, journal,
                   stopFile, quiet, controls, saved>>

EngineReturns(p) ==
    /\ At(p, "cleared")
    /\ EngineEnds(p, "completed")
    /\ UNCHANGED <<term, files, quiet, controls, saved>>

Terminated(p) ==
    /\ Pc(p) \in {"run", "cleared"}
    /\ p \in term
    /\ term' = term \ {p}
    /\ EngineEnds(p, "sigterm")
    /\ UNCHANGED <<files, quiet, controls, saved>>

\* Heartbeat::stop waits for a beat that is being written.
LeaveBeating(p) ==
    /\ At(p, "beat")
    /\ Goto(p, "end")
    /\ UNCHANGED <<term, files, quiet, controls, saved>>

StopHeartbeat(p) ==
    /\ At(p, "beat")
    /\ proc' = [proc EXCEPT ![p].pc = "end", ![p].beating = FALSE]
    /\ UNCHANGED <<term, files, quiet, controls, saved>>

Reason(p) == IF proc[p].how = "sigterm" THEN "stopped" ELSE proc[p].how

\* A failure to write AttemptEnded is only logged.
EndAttempt(p) ==
    /\ At(p, "end")
    /\ \/ Append1(proc[p].run,
                Event("AttemptEnded", proc[p].attempt, p, Reason(p)))
       \/ DiskMayFail /\ UNCHANGED journal
    /\ Goto(p, "unlock")
    /\ UNCHANGED <<term, lock, holder, worktree, ckpt, meta, indexed, home,
                   stopFile, quiet, controls, saved>>

(* drop(locks).  Only a completed Pipeline is followed by the next one of  *)
(* the directory (cmd_run_dir).                                            *)
Unlock(p) ==
    /\ At(p, "unlock")
    /\ Release(p)
    /\ proc' = [proc EXCEPT ![p] =
            IF @.how = "completed" /\ @.job < Len(Jobs[p])
            THEN [Unstarted EXCEPT !.pc = "next", !.job = proc[p].job + 1]
            ELSE [Unstarted EXCEPT !.pc = "gone"]]
    /\ term' = IF proc'[p].pc = "gone" THEN term \ {p} ELSE term
    /\ UNCHANGED <<holder, ckpt, meta, indexed, home, journal, stopFile,
                   quiet, controls, saved>>

\* kill -9, power, a panic.
Dies(p) ==
    /\ Alive(p)
    /\ Gone(p)
    /\ UNCHANGED <<holder, ckpt, meta, indexed, home, journal, stopFile,
                   quiet, controls, saved>>

\* Time passes.  It makes a difference only once the writer is dead.
Tick(r) ==
    /\ r \notin quiet
    /\ Status(r) = "running" /\ ~Alive(RecordedPid(r)) /\ r \in indexed
    /\ quiet' = quiet \cup {r}
    /\ UNCHANGED <<proc, term, files, controls, saved>>

----------------------------------------------------------------------------
(* `pas stop` derives the status, then creates the file if there is none.  *)
StopReads(r) ==
    /\ Controlled /\ stopper = NoStop /\ killer = NoKill
    /\ r \in indexed
    /\ Status(r) = "running"
    /\ stopper' = [run |-> r, attempt |-> LastAttempt(r)]
    /\ UNCHANGED <<proc, term, files, quiet, killer, saved>>

StopWrites ==
    /\ stopper # NoStop
    /\ stopFile' = [stopFile EXCEPT ![stopper.run] =
            IF @ = <<>> THEN <<stopper.attempt>> ELSE @]
    /\ stopper' = NoStop
    /\ UNCHANGED <<proc, term, lock, holder, worktree, ckpt, meta, indexed,
                   home, journal, quiet, killer, saved>>

(* `pas kill` signals the recorded pid only if the lock is held and names  *)
(* that pid and this Run; if the process is still there after the grace    *)
(* time it is killed.                                                      *)
KillVerifies(r) ==
    /\ Controlled /\ stopper = NoStop /\ killer = NoKill
    /\ r \in indexed
    /\ Status(r) = "running"
    /\ RecordedPid(r) # NoPid
    /\ lock[home[r]] # NoPid
    /\ holder[home[r]] = [pid |-> RecordedPid(r), run |-> r]
    /\ killer' = [run |-> r, pid |-> RecordedPid(r), sent |-> FALSE]
    /\ UNCHANGED <<proc, term, files, quiet, stopper, saved>>

KillTerm ==
    /\ killer # NoKill /\ ~killer.sent
    /\ term' = IF Alive(killer.pid) THEN term \cup {killer.pid} ELSE term
    /\ killer' = [killer EXCEPT !.sent = TRUE]
    /\ UNCHANGED <<proc, files, quiet, stopper, saved>>

KillDone ==
    /\ killer.sent
    /\ ~Alive(killer.pid)
    /\ killer' = NoKill
    /\ UNCHANGED <<proc, term, files, quiet, stopper, saved>>

KillAfterGrace ==
    /\ killer.sent
    /\ Alive(killer.pid)
    /\ Gone(killer.pid)
    /\ killer' = NoKill
    /\ UNCHANGED <<holder, ckpt, meta, indexed, home, journal, stopFile,
                   quiet, stopper, saved>>

----------------------------------------------------------------------------
Prepare(p) ==
    \/ Listen(p) \/ LockPipeline(p) \/ RefusePipeline(p) \/ LockWorktree(p)
    \/ ShareWorktree(p) \/ RefuseWorktree(p) \/ Decide(p) \/ RefuseIdentity(p)
    \/ ClearForFresh(p) \/ RemoveStop(p) \/ WriteMeta(p) \/ AppendIndex(p)
    \/ IndexFails(p) \/ StartRun(p) \/ StartAttempt(p) \/ StartFails(p)

Work(p) ==
    \/ Heartbeat(p) \/ SaveCheckpoint(p) \/ EngineStops(p) \/ EngineFails(p)
    \/ EngineClears(p) \/ EngineReturns(p) \/ Terminated(p)
    \/ StopHeartbeat(p) \/ EndAttempt(p) \/ Unlock(p)

Next ==
    \/ \E p \in Pid : Prepare(p) \/ Work(p) \/ Dies(p)
    \/ \E r \in Run : Tick(r) \/ StopReads(r) \/ KillVerifies(r)
    \/ StopWrites \/ KillTerm \/ KillDone \/ KillAfterGrace

Spec == Init /\ [][Next]_vars

----------------------------------------------------------------------------
Types == {"RunStarted", "AttemptStarted", "Heartbeat", "AttemptEnded"}

(* Every variable has its type, and a lock is held by a live process that  *)
(* has it on its list (RunLock, RunIdentity, JournalEvent).                *)
TypeOK ==
    /\ \A p \in Pid :
        /\ proc[p].run \in Run \cup {NoRun}
        /\ proc[p].attempt \in Nat
        /\ proc[p].job \in DOMAIN Jobs[p]
    /\ term \subseteq Pid
    /\ \A l \in Pipeline : lock[l] # NoPid => Alive(lock[l]) /\ Job(lock[l]) = l
    /\ worktree # NoPid => Alive(worktree)
    /\ ckpt \in [Pipeline -> Run \cup {NoRun}]
    /\ meta \subseteq Run /\ indexed \subseteq Run /\ saved \subseteq Run
    /\ \A r \in Run : \A i \in DOMAIN journal[r] : journal[r][i].type \in Types

(* The journal of a Run is a sequence of Attempts: numbered upwards, each  *)
(* started once, ended at most once and last, written by one process,      *)
(* however processes die and whoever starts the next one (run.rs: locks    *)
(* are held until AttemptEnded is written, the heartbeat is stopped        *)
(* before it).                                                             *)
Rank(e) == CASE e.type = "RunStarted" -> 1 [] e.type = "AttemptStarted" -> 2
             [] e.type = "Heartbeat" -> 3 [] e.type = "AttemptEnded" -> 4

AttemptsAreBlocks ==
    \A r \in Run : \A i, j \in DOMAIN journal[r] :
        LET a == journal[r][i]
            b == journal[r][j]
        IN  i < j =>
            /\ a.attempt <= b.attempt
            /\ a.attempt = b.attempt =>
                /\ Rank(a) < Rank(b) \/ (Rank(a) = 3 /\ Rank(b) = 3)
                /\ NoPid \in {a.pid, b.pid} \/ a.pid = b.pid

(* A checkpoint always belongs to a Run that can be found: it has a        *)
(* run.json and an Index line, and is a Run of this Pipeline (prepare_run  *)
(* records the Run before the executor may save).                          *)
CheckpointIsKnown ==
    \A l \in Pipeline : ckpt[l] # NoRun =>
        ckpt[l] \in meta \cap indexed /\ home[ckpt[l]] = l

(* While a process works on a Run, the journal alone says so to `pas       *)
(* stop`, `pas kill` and the Monitor: the status is running and the        *)
(* recorded pid is that process, also in an Attempt that resumes an ended  *)
(* one (derive_status, last_attempt + 1).                                  *)
Executing(p) == Pc(p) \in {"run", "cleared", "beat", "end"}

WorkingIsRunning ==
    \A p \in Pid : Executing(p) =>
        Status(proc[p].run) = "running" /\ RecordedPid(proc[p].run) = p

(* A completed Run is over: no later process resumes it (clear_checkpoint  *)
(* comes before AttemptEnded{completed}).                                  *)
CompletedIsFinal ==
    [][\A r \in Run : Status(r) = "completed" =>
        journal'[r] = journal[r] /\ \A l \in Pipeline : ckpt'[l] # r]_vars

(* A stop request is not removed while the Attempt it was made for works   *)
(* (run.rs: "The locks are held, so this cannot eat a stop aimed at a live *)
(* Attempt").                                                              *)
StopOutlivesNoAttempt ==
    [][\A r \in Run : stopFile[r] # <<>> /\ stopFile'[r] = <<>> =>
        \A p \in Pid : Executing(p) /\ proc[p].run = r =>
            proc[p].attempt # stopFile[r][1]]_vars

(* Two processes work in the worktree at once only if one of them was      *)
(* started with --allow-shared-workdir (acquire_run_locks).                *)
InWorktree(p) == Pc(p) \notin {"new", "next", "lock", "worktree", "gone"}

SharedByConsent ==
    \A p, q \in Pid : InWorktree(p) /\ InWorktree(q) /\ p # q =>
        p \in Sharing \/ q \in Sharing

(* The locks do their work: state has its types in whatever order          *)
(* processes come, and two are in one worktree only with consent           *)
(* (acquire_locks).                                                        *)
LocksAreHeld == TypeOK /\ SharedByConsent

(* How somebody wanted a Run to end stays so: a stop request lives as long *)
(* as the Attempt it was made for, and a completed Run is never continued  *)
(* (run_pipeline, `pas stop`).                                             *)
EndsAreHonoured == StopOutlivesNoAttempt /\ CompletedIsFinal

----------------------------------------------------------------------------
(* What the documentation says of `pas run` and the code does not do.      *)

(* docs/cli-reference.md:77: "A `pas run` of another Pipeline in the same  *)
(* worktree exits with code 6 and names the other Run, unless              *)
(* `--allow-shared-workdir` is passed."                                    *)
StrangerIsRefused ==
    [][\A p \in Pid \ Sharing : LockWorktree(p) =>
        \A q \in Pid \ {p} : ~InWorktree(q)]_vars
=============================================================================
