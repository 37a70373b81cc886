------------------------- MODULE RunLifecycleProofs -------------------------
(***************************************************************************)
(* Proofs about RunLifecycle for any processes, Pipelines and Runs: locks, *)
(* the identity of a Run, its Attempts in the journal, and what `pas stop`,*)
(* `pas kill` and the Monitor read there.                                  *)
(***************************************************************************)
EXTENDS RunLifecycle, SequenceTheorems, TLAPS

Executes == {"run", "cleared", "beat", "end"}
Works    == {"clear", "control", "meta", "index", "open new", "open", "unlock"} \cup Executes
Inside   == Works \cup {"decide"}
Holds    == Inside \cup {"worktree"}
Outside  == {"new", "next", "lock", "gone"}

Process == [pc : Holds \cup Outside, job : Nat, run : Run \cup {NoRun}, attempt : Nat,
            how : {"none", "stopped", "failed", "completed", "sigterm"}, beating : BOOLEAN]
Record  == [type : Types, attempt : Nat, pid : Pid \cup {NoPid},
            why : {"none", "stopped", "failed", "completed"}]

ProcTyped ==
    /\ proc \in [Pid -> Process]
    /\ \A p \in Pid : proc[p].job \in DOMAIN Jobs[p] /\ (Pc(p) \in Works => proc[p].run \in Run)
    /\ term \subseteq Pid
FilesTyped ==
    /\ lock \in [Pipeline -> Pid \cup {NoPid}] /\ worktree \in Pid \cup {NoPid}
    /\ ckpt \in [Pipeline -> Run \cup {NoRun}]
    /\ meta \subseteq Run /\ indexed \subseteq Run /\ saved \subseteq Run
    /\ home = [r \in Run |-> home[r]]
    /\ journal \in [Run -> Seq(Record)]
    /\ stopFile = [r \in Run |-> stopFile[r]]
Typed == ProcTyped /\ FilesTyped

(* Locks: a process between its two locks and the end of its Pipeline has  *)
(* run.lock, and pas-run.lock too unless it may share the worktree.        *)
LockInv ==
    /\ \A p \in Pid : Pc(p) \in Holds => lock[Job(p)] = p
    /\ \A l \in Pipeline : lock[l] # NoPid => Pc(lock[l]) \in Holds /\ Job(lock[l]) = l
    /\ worktree # NoPid => Pc(worktree) \in Inside
    /\ \A p \in Pid \ Sharing : Pc(p) \in Inside => worktree = p

(* Identity: the Run of a process is one of its Pipeline, new or recorded  *)
(* as far as the process has come.                                         *)
Placed(p) ==
    LET r == proc[p].run IN
    Pc(p) \in Works =>
        /\ home[r] = Job(p)
        /\ r \notin meta => \A q \in Pid : Requested[q] = r => Requested[p] = r
        /\ Pc(p) \in {"clear", "control"} => r \notin meta \/ r \in indexed
        /\ Pc(p) = "meta" => r \notin meta
        /\ Pc(p) = "index" => r \in meta \ indexed
        /\ Pc(p) \in {"open new", "open", "unlock"} \cup Executes => r \in indexed

RunInv == CheckpointIsKnown /\ indexed \subseteq meta /\ \A p \in Pid : Placed(p)

(* The journal: Attempts are blocks, and the Attempt of a process is the   *)
(* last one as far as the process has come.                                *)
Blocks(r) ==
    \A i, j \in DOMAIN journal[r] :
        LET a == journal[r][i]
            b == journal[r][j]
        IN  i < j =>
            /\ a.attempt <= b.attempt
            /\ a.attempt = b.attempt =>
                /\ Rank(a) < Rank(b) \/ (Rank(a) = 3 /\ Rank(b) = 3)
                /\ NoPid \in {a.pid, b.pid} \/ a.pid = b.pid

Announced(e)    == e.type = "RunStarted" /\ e.pid = NoPid
WrittenBy(p, e) == e.type \in {"AttemptStarted", "Heartbeat"} /\ e.pid = p

Past(es, n)    == \A i \in DOMAIN es : es[i].attempt < n
Opened(es, n)  == \A i \in DOMAIN es : es[i].attempt < n \/ (es[i].attempt = n /\ Announced(es[i]))
Mine(p, es, n) == \A i \in DOMAIN es :
    es[i].attempt < n \/ (es[i].attempt = n /\ (Announced(es[i]) \/ WrittenBy(p, es[i])))
Begun(es, n)   == \E i \in DOMAIN es : es[i].attempt = n /\ es[i].type = "AttemptStarted"

Attempting(p) ==
    LET es == journal[proc[p].run]
        n  == proc[p].attempt
    IN  /\ proc[p].beating => Pc(p) \in {"run", "cleared", "beat"}
        /\ Pc(p) \in {"meta", "index", "open new"} => Past(es, n)
        /\ Pc(p) = "open" => Opened(es, n)
        /\ Pc(p) \in Executes => Mine(p, es, n) /\ Begun(es, n)

JournalInv == (\A r \in Run : Blocks(r)) /\ \A p \in Pid : Attempting(p)

(* Completion: the checkpoint is gone before the Run is called completed,  *)
(* and nobody works on it from then on.                                    *)
CompletedEvent(e) == e.type = "AttemptEnded" /\ e.why = "completed"

Completed(r) == \E i \in DOMAIN journal[r] : CompletedEvent(journal[r][i])
Unsaved(r)   == \A l \in Pipeline : ckpt[l] # r

Over(r) ==
    Completed(r) =>
        /\ r \in meta /\ Unsaved(r)
        /\ \A p \in Pid : Pc(p) \in Works /\ proc[p].run = r => Pc(p) = "unlock"

Finishing(p) == Pc(p) = "cleared" \/ (Pc(p) \in {"beat", "end"} /\ proc[p].how = "completed")
Clear(p)     == Finishing(p) => Unsaved(proc[p].run)

OverInv == (\A r \in Run : Over(r)) /\ \A p \in Pid : Clear(p)

IInv == Typed /\ LockInv /\ RunInv /\ JournalInv /\ OverInv

----------------------------------------------------------------------------
(* Sequences, Attempts, and who is alone                                   *)

LEMMA Appended ==
    ASSUME NEW S, NEW s \in Seq(S), NEW e \in S
    PROVE  /\ Append(s, e) \in Seq(S) /\ Len(s) \in Nat
           /\ DOMAIN s = 1..Len(s) /\ DOMAIN Append(s, e) = 1 .. Len(s) + 1
           /\ \A i \in 1..Len(s) : Append(s, e)[i] = s[i]
           /\ Append(s, e)[Len(s) + 1] = e
  BY AppendProperties, LenProperties

LEMMA JobIsPipeline == ASSUME ProcTyped, NEW p \in Pid PROVE Job(p) \in Pipeline
<1>1. Jobs[p] \in Seq(Pipeline) /\ proc[p].job \in DOMAIN Jobs[p]
  BY JobsAssumption DEF ProcTyped
<1>2. Jobs[p][proc[p].job] \in Pipeline
  BY <1>1, LenProperties, ElementOfSeq
<1> QED
  BY <1>2 DEF Job

LEMMA Events ==
    ASSUME FilesTyped, NEW r \in Run
    PROVE  /\ journal[r] \in Seq(Record) /\ Len(journal[r]) \in Nat
           /\ DOMAIN journal[r] = 1..Len(journal[r])
           /\ \A i \in DOMAIN journal[r] : journal[r][i] \in Record
  BY LenProperties, ElementOfSeq DEF FilesTyped

(* The last Attempt is that of the last Event.                             *)
LEMMA LastAttemptIs ==
    ASSUME FilesTyped, NEW r \in Run, Blocks(r)
    PROVE  /\ LastAttempt(r) \in Nat
           /\ \A i \in DOMAIN journal[r] : journal[r][i].attempt <= LastAttempt(r)
           /\ \A n \in Nat : (\A i \in DOMAIN journal[r] : journal[r][i].attempt <= n)
                             /\ (\E i \in DOMAIN journal[r] : journal[r][i].attempt = n)
                             => LastAttempt(r) = n
<1> DEFINE es == journal[r]
           S == {es[i].attempt : i \in DOMAIN es} \cup {0}
<1>1. /\ es \in Seq(Record) /\ Len(es) \in Nat /\ DOMAIN es = 1..Len(es) /\ \A i \in DOMAIN es : es[i] \in Record
  BY Events
<1>2. S \subseteq Nat
  BY <1>1 DEF Record
<1>3. \E x \in S : \A y \in S : x >= y
  <2>1. CASE es = <<>>
    BY <1>1, <2>1
  <2>2. CASE es # <<>>
    <3>1. Len(es) \in DOMAIN es
      <4> HIDE DEF es
      <4>1. Len(es) \in Nat \ {0}
        BY <1>1, <2>2, EmptySeq
      <4> QED
        BY <1>1, <4>1
    <3>2. \A i \in DOMAIN es : es[i].attempt <= es[Len(es)].attempt
      <4> SUFFICES ASSUME NEW i \in DOMAIN es PROVE es[i].attempt <= es[Len(es)].attempt
        OBVIOUS
      <4>1. es[i].attempt \in Nat
        BY <1>1 DEF Record
      <4>2. i = Len(es) \/ i < Len(es)
        BY <1>1
      <4> QED
        BY <3>1, <4>1, <4>2 DEF Blocks
    <3>3. es[Len(es)].attempt \in S /\ es[Len(es)].attempt \in Nat
      BY <1>1, <3>1 DEF Record
    <3>4. \A y \in S : es[Len(es)].attempt >= y
      <4> SUFFICES ASSUME NEW y \in S PROVE es[Len(es)].attempt >= y
        OBVIOUS
      <4>1. y = 0 \/ \E i \in DOMAIN es : y = es[i].attempt
        OBVIOUS
      <4> QED
        BY <3>2, <3>3, <4>1
    <3> QED
      BY <3>3, <3>4
  <2> QED
    BY <2>1, <2>2
<1>4. LastAttempt(r) = Max(S)
  BY DEF LastAttempt
<1>5. Max(S) \in S /\ \A y \in S : Max(S) >= y
  <2> HIDE DEF S
  <2> QED BY <1>3 DEF Max
<1>6. LastAttempt(r) \in Nat /\ \A y \in S : y <= LastAttempt(r)
  <2> HIDE DEF S
  <2> QED BY <1>2, <1>4, <1>5
<1>7. ASSUME NEW n \in Nat, \A i \in DOMAIN es : es[i].attempt <= n,
             \E i \in DOMAIN es : es[i].attempt = n
      PROVE  LastAttempt(r) = n
  <2>1. n \in S /\ \A y \in S : y <= n
    BY <1>7
  <2>2. n <= LastAttempt(r) /\ LastAttempt(r) <= n
    <3> HIDE DEF S
    <3> QED BY <1>4, <1>5, <1>6, <2>1
  <2> QED
    BY <1>6, <2>2
<1> QED
  BY <1>6, <1>7

(* A Run has one process at work on it.                                    *)
LEMMA Alone ==
    ASSUME ProcTyped, LockInv, RunInv,
           NEW p \in Pid, NEW q \in Pid, Pc(p) \in Works, Pc(q) \in Works, proc[p].run = proc[q].run
    PROVE  p = q
<1>1. Job(p) = Job(q)
  BY DEF RunInv, Placed
<1> QED
  BY <1>1 DEF LockInv, Holds, Inside

----------------------------------------------------------------------------
(* Types                                                                   *)

LEMMA UnstartedTyped ==
    ASSUME NEW p \in Pid, NEW x \in Outside
    PROVE  /\ [Unstarted EXCEPT !.pc = x] \in Process
           /\ [Unstarted EXCEPT !.pc = x].pc = x
           /\ [Unstarted EXCEPT !.pc = x].job = 1 /\ 1 \in DOMAIN Jobs[p]
<1>1. Jobs[p] \in Seq(Pipeline) /\ Jobs[p] # <<>>
  BY JobsAssumption
<1>2. 1 \in DOMAIN Jobs[p]
  <2>1. Len(Jobs[p]) \in Nat \ {0} /\ DOMAIN Jobs[p] = 1..Len(Jobs[p])
    BY <1>1, EmptySeq, LenProperties
  <2> QED
    BY <2>1
<1> QED
  BY <1>2 DEF Unstarted, Process

\* The end of a process.
LEMMA GoneTyped ==
    ASSUME Typed, NEW p \in Pid, Gone(p)
    PROVE  ProcTyped' /\ lock' \in [Pipeline -> Pid \cup {NoPid}] /\ worktree' \in Pid \cup {NoPid}
<1>1. /\ proc' = [proc EXCEPT ![p] = [Unstarted EXCEPT !.pc = "gone"]]
      /\ term' = term \ {p}
      /\ lock' = [l \in Pipeline |-> IF lock[l] = p THEN NoPid ELSE lock[l]]
      /\ worktree' = IF worktree = p THEN NoPid ELSE worktree
  BY DEF Gone, Release
<1>2. /\ [Unstarted EXCEPT !.pc = "gone"] \in Process /\ [Unstarted EXCEPT !.pc = "gone"].pc = "gone"
      /\ [Unstarted EXCEPT !.pc = "gone"].job = 1 /\ 1 \in DOMAIN Jobs[p]
  BY UnstartedTyped DEF Outside
<1>3. ProcTyped'
  BY <1>1, <1>2 DEF Typed, ProcTyped, Pc, Works, Executes
<1> QED
  BY <1>1, <1>3 DEF Typed, FilesTyped

\* What every process action leaves in the files it does not write.
LEMMA AppendTyped ==
    ASSUME FilesTyped, NEW r \in Run, NEW e \in Record, Append1(r, e)
    PROVE  /\ journal' \in [Run -> Seq(Record)]
           /\ journal' = [journal EXCEPT ![r] = Append(journal[r], e)]
<1>1. journal' = [journal EXCEPT ![r] = Append(journal[r], e)]
  BY DEF Append1, FilesTyped
<1>2. Append(journal[r], e) \in Seq(Record)
  BY Appended DEF FilesTyped
<1> QED
  BY <1>1, <1>2 DEF FilesTyped

LEMMA IdentityIsRun ==
    ASSUME Typed, NEW p \in Pid, NEW r \in Identities(p)
    PROVE  r \in Run
<1>1. Job(p) \in Pipeline
  BY JobIsPipeline DEF Typed
<1>2. Found(p) \in Run \cup {NoRun} /\ Requested[p] \in Run \cup {NoRun}
  BY <1>1, JobsAssumption DEF Found, Typed, FilesTyped
<1> QED
  BY <1>2 DEF Identities

LEMMA TypeInit == Init => Typed
<1> SUFFICES ASSUME Init PROVE Typed
  OBVIOUS
<1>1. \A p \in Pid : Unstarted \in Process /\ Unstarted.pc = "new" /\ Unstarted.job \in DOMAIN Jobs[p]
  <2> SUFFICES ASSUME NEW p \in Pid
               PROVE  Unstarted \in Process /\ Unstarted.pc = "new" /\ Unstarted.job \in DOMAIN Jobs[p]
    OBVIOUS
  <2>1. 1 \in DOMAIN Jobs[p]
    BY UnstartedTyped DEF Outside
  <2> QED
    BY <2>1 DEF Unstarted, Process, Outside
<1>2. ProcTyped
  BY <1>1 DEF Init, ProcTyped, Pc, Works, Executes
<1>3. FilesTyped
  BY DEF Init, FilesTyped
<1> QED
  BY <1>2, <1>3 DEF Typed

(* One process changes, to another place of its walk and perhaps in the    *)
(* other locals.                                                           *)
Others(p) == proc' = [proc EXCEPT ![p] = proc'[p]]
Same(p)   == UNCHANGED <<proc[p].job, proc[p].run, proc[p].attempt, proc[p].how, proc[p].beating>>

LEMMA Goes ==
    ASSUME ProcTyped, NEW p \in Pid, NEW x \in Holds \cup Outside, Goto(p, x)
    PROVE  Others(p) /\ Same(p) /\ Pc(p)' = x /\ proc'[p] \in Process /\ Pc(p) \in Holds \cup Outside
<1>1. proc[p] \in Process
  BY DEF ProcTyped
<1>2. proc' = [proc EXCEPT ![p] = [proc[p] EXCEPT !.pc = x]]
  BY DEF Goto, ProcTyped
<1>3. proc'[p] = [proc[p] EXCEPT !.pc = x]
  BY <1>2 DEF ProcTyped
<1>4. [proc[p] EXCEPT !.pc = x] \in Process
  BY <1>1 DEF Process
<1> QED
  BY <1>1, <1>2, <1>3, <1>4 DEF Others, Same, Pc, Process

LEMMA ProcStep ==
    ASSUME ProcTyped, NEW p \in Pid, Others(p), proc'[p] \in Process, proc'[p].job \in DOMAIN Jobs[p],
           proc'[p].pc \in Works => proc'[p].run \in Run, term' \subseteq Pid
    PROVE  ProcTyped'
  BY DEF ProcTyped, Others, Pc

LEMMA GoesTyped ==
    ASSUME ProcTyped, NEW p \in Pid, NEW x \in Holds \cup Outside, Goto(p, x),
           x \in Works => proc[p].run \in Run, term' \subseteq Pid
    PROVE  ProcTyped'
<1>1. Others(p) /\ Same(p) /\ Pc(p)' = x /\ proc'[p] \in Process
  BY Goes
<1>2. proc[p].job \in DOMAIN Jobs[p]
  BY DEF ProcTyped
<1> QED
  BY <1>1, <1>2, ProcStep DEF Same, Pc

\* Preparations that are not refused.
LEMMA TypePrepare ==
    ASSUME Typed, \A r \in Run : Blocks(r), NEW p \in Pid,
           \/ Listen(p) \/ LockPipeline(p) \/ LockWorktree(p) \/ ShareWorktree(p) \/ Decide(p)
           \/ ClearForFresh(p) \/ RemoveStop(p) \/ WriteMeta(p) \/ AppendIndex(p)
           \/ StartRun(p) \/ StartAttempt(p)
    PROVE  Typed'
<1>0. Job(p) \in Pipeline /\ ProcTyped /\ FilesTyped /\ proc[p] \in Process
      /\ proc[p].job \in DOMAIN Jobs[p] /\ term \subseteq Pid
      /\ (Pc(p) \in Works => proc[p].run \in Run)
  BY JobIsPipeline DEF Typed, ProcTyped
<1>1. CASE Listen(p) \/ LockPipeline(p) \/ LockWorktree(p) \/ ShareWorktree(p)
  <2>1. \E x \in {"lock", "worktree", "decide"} : Goto(p, x) /\ term' \subseteq Pid
    BY <1>0, <1>1 DEF Listen, LockPipeline, LockWorktree, ShareWorktree
  <2>2. \A x \in {"lock", "worktree", "decide"} : x \in Holds \cup Outside /\ x \notin Works
    BY DEF Holds, Outside, Works, Inside, Executes
  <2>3. ProcTyped'
    BY <1>0, <2>1, <2>2, GoesTyped
  <2>4. FilesTyped'
    BY <1>0, <1>1 DEF Listen, LockPipeline, LockWorktree, ShareWorktree, files, FilesTyped
  <2> QED
    BY <2>3, <2>4 DEF Typed
<1>2. CASE Decide(p)
  <2>1. PICK r \in Identities(p) :
        /\ proc' = [proc EXCEPT ![p].run = r,
                ![p].pc = IF p \in Fresh THEN "clear" ELSE "control"]
        /\ home' = IF r \in meta THEN home ELSE [home EXCEPT ![r] = Job(p)]
    BY <1>2 DEF Decide
  <2>2. r \in Run
    BY IdentityIsRun
  <2>3. PICK x \in {"clear", "control"} : proc' = [proc EXCEPT ![p] = [proc[p] EXCEPT !.run = r, !.pc = x]]
    BY <1>0, <2>1 DEF ProcTyped
  <2>4. x \in Holds
    BY DEF Holds, Inside, Works
  <2>5. Others(p) /\ proc'[p].run = r /\ proc'[p].job = proc[p].job /\ proc'[p] \in Process
    BY <1>0, <2>2, <2>3, <2>4 DEF Process, ProcTyped, Others
  <2>6. term' = term
    BY <1>2 DEF Decide
  <2>7. ProcTyped'
    BY <1>0, <2>2, <2>5, <2>6, ProcStep
  <2>8. home' = [s \in Run |-> home'[s]]
    BY <1>0, <2>1, <2>2 DEF FilesTyped
  <2>9. FilesTyped'
    BY <1>0, <1>2, <2>8 DEF Decide, FilesTyped
  <2> QED
    BY <2>7, <2>9 DEF Typed
<1>3. CASE ClearForFresh(p) \/ WriteMeta(p) \/ AppendIndex(p) \/ StartRun(p)
  <2>1. Pc(p) \in {"clear", "meta", "index", "open new"} /\ term' = term
        /\ \E x \in {"control", "index", "open new", "open"} : Goto(p, x)
    BY <1>3 DEF ClearForFresh, WriteMeta, AppendIndex, StartRun, At
  <2>2. \A x \in {"clear", "meta", "control", "index", "open new", "open"} : x \in Works /\ x \in Holds
    BY DEF Works, Holds, Inside
  <2>3. proc[p].run \in Run /\ ProcTyped'
    BY <1>0, <2>1, <2>2, GoesTyped
  <2>4. CASE ClearForFresh(p) \/ WriteMeta(p) \/ AppendIndex(p)
    <3>1. FilesTyped'
      BY <1>0, <2>3, <2>4 DEF ClearForFresh, WriteMeta, AppendIndex, FilesTyped
    <3> QED
      BY <2>3, <3>1 DEF Typed
  <2>5. CASE StartRun(p)
    <3>1. Event("RunStarted", proc[p].attempt, NoPid, "none") \in Record
      BY <1>0 DEF Event, Record, Types, Process
    <3>2. journal' \in [Run -> Seq(Record)]
      BY <1>0, <2>3, <2>5, <3>1, AppendTyped DEF StartRun
    <3>3. FilesTyped'
      BY <1>0, <2>5, <3>2 DEF StartRun, FilesTyped
    <3> QED
      BY <2>3, <3>3 DEF Typed
  <2> QED
    BY <1>3, <2>4, <2>5
<1>4. CASE RemoveStop(p)
  <2>1. Pc(p) = "control" /\ term' = term
    BY <1>4 DEF RemoveStop, At
  <2>2. proc[p].run \in Run
    BY <1>0, <2>1 DEF Works
  <2>3. LastAttempt(proc[p].run) + 1 \in Nat
    BY <1>0, <2>2, LastAttemptIs
  <2>4. PICK x \in {"open", "meta"} :
          proc' = [proc EXCEPT ![p] = [proc[p] EXCEPT !.pc = x, !.attempt = LastAttempt(proc[p].run) + 1]]
    BY <1>0, <1>4 DEF RemoveStop, ProcTyped
  <2>5. x \in Holds
    BY DEF Holds, Inside, Works
  <2>6. Others(p) /\ proc'[p].run = proc[p].run /\ proc'[p].job = proc[p].job /\ proc'[p] \in Process
    <3> DEFINE n == LastAttempt(proc[p].run) + 1
    <3> HIDE DEF n
    <3> QED BY <1>0, <2>3, <2>4, <2>5 DEF Process, ProcTyped, Others, n
  <2>7. ProcTyped'
    BY <1>0, <2>1, <2>2, <2>6, ProcStep
  <2>8. FilesTyped'
    BY <1>0, <1>4, <2>2 DEF RemoveStop, FilesTyped
  <2> QED
    BY <2>7, <2>8 DEF Typed
<1>5. CASE StartAttempt(p)
  <2>1. Pc(p) = "open" /\ term' = term
    BY <1>5 DEF StartAttempt, At
  <2>2. proc[p].run \in Run
    BY <1>0, <2>1 DEF Works
  <2>3. proc' = [proc EXCEPT ![p] = [proc[p] EXCEPT !.pc = "run", !.beating = TRUE]]
    BY <1>0, <1>5 DEF StartAttempt, ProcTyped
  <2>4. "run" \in Holds
    BY DEF Holds, Inside, Works, Executes
  <2>5. Others(p) /\ proc'[p].run = proc[p].run /\ proc'[p].job = proc[p].job /\ proc'[p] \in Process
    BY <1>0, <2>3, <2>4 DEF Process, ProcTyped, Others
  <2>6. ProcTyped'
    BY <1>0, <2>1, <2>2, <2>5, ProcStep
  <2>7. Event("AttemptStarted", proc[p].attempt, p, "none") \in Record
    BY <1>0 DEF Event, Record, Types, Process
  <2>8. journal' \in [Run -> Seq(Record)]
    BY <1>0, <2>2, <1>5, <2>7, AppendTyped DEF StartAttempt
  <2>9. FilesTyped'
    BY <1>0, <1>5, <2>8 DEF StartAttempt, FilesTyped
  <2> QED
    BY <2>6, <2>9 DEF Typed
<1> QED
  BY <1>1, <1>2, <1>3, <1>4, <1>5

\* The Attempt.
LEMMA TypeWork ==
    ASSUME Typed, NEW p \in Pid,
           \/ Heartbeat(p) \/ SaveCheckpoint(p) \/ EngineStops(p) \/ EngineFails(p) \/ EngineClears(p)
           \/ EngineReturns(p) \/ Terminated(p) \/ StopHeartbeat(p) \/ EndAttempt(p),
           proc[p].beating => Pc(p) \in Works
    PROVE  Typed'
<1>0. Job(p) \in Pipeline /\ ProcTyped /\ FilesTyped /\ proc[p] \in Process
      /\ proc[p].job \in DOMAIN Jobs[p] /\ term \subseteq Pid
      /\ (Pc(p) \in Works => proc[p].run \in Run)
  BY JobIsPipeline DEF Typed, ProcTyped
<1>1. Pc(p) \in Works /\ proc[p].run \in Run /\ term' \subseteq Pid
  BY <1>0 DEF Heartbeat, SaveCheckpoint, EngineStops, EngineFails, EngineClears, EngineReturns, Terminated,
     StopHeartbeat, EndAttempt, At, Works, Executes
<1>2. \A x \in Executes \cup {"unlock"} : x \in Works /\ x \in Holds
  BY DEF Works, Holds, Inside
<1>3. CASE Heartbeat(p)
  <2>1. Event("Heartbeat", proc[p].attempt, p, "none") \in Record
    BY <1>0 DEF Event, Record, Types, Process
  <2>2. journal' \in [Run -> Seq(Record)]
    BY <1>0, <1>1, <1>3, <2>1, AppendTyped DEF Heartbeat
  <2>3. FilesTyped'
    BY <1>0, <1>3, <2>2 DEF Heartbeat, FilesTyped
  <2>4. ProcTyped'
    BY <1>0, <1>3 DEF Heartbeat, ProcTyped, Pc
  <2> QED
    BY <2>3, <2>4 DEF Typed
<1>4. CASE SaveCheckpoint(p)
  <2>1. ProcTyped'
    BY <1>0, <1>4 DEF SaveCheckpoint, ProcTyped, Pc
  <2>2. FilesTyped'
    BY <1>0, <1>1, <1>4 DEF SaveCheckpoint, FilesTyped
  <2> QED
    BY <2>1, <2>2 DEF Typed
<1>5. CASE EngineStops(p) \/ EngineFails(p) \/ EngineReturns(p) \/ Terminated(p)
  <2>1. PICK how \in {"stopped", "failed", "completed", "sigterm"} : EngineEnds(p, how)
    BY <1>5 DEF EngineStops, EngineFails, EngineReturns, Terminated
  <2>2. proc' = [proc EXCEPT ![p] = [proc[p] EXCEPT !.pc = "beat", !.how = how]]
    BY <1>0, <2>1 DEF EngineEnds, ProcTyped
  <2>3. "beat" \in Holds
    BY <1>2 DEF Executes
  <2>4. Others(p) /\ proc'[p].run = proc[p].run /\ proc'[p].job = proc[p].job /\ proc'[p] \in Process
    BY <1>0, <2>2, <2>3 DEF Process, ProcTyped, Others
  <2>5. ProcTyped'
    BY <1>0, <1>1, <2>4, ProcStep
  <2>6. FilesTyped'
    BY <1>0, <1>1, <1>5 DEF EngineStops, EngineFails, EngineReturns, Terminated, files, FilesTyped
  <2> QED
    BY <2>5, <2>6 DEF Typed
<1>6. CASE EngineClears(p)
  <2>1. ProcTyped'
    BY <1>0, <1>1, <1>2, <1>6, GoesTyped DEF EngineClears, Executes
  <2>2. FilesTyped'
    BY <1>0, <1>6 DEF EngineClears, FilesTyped
  <2> QED
    BY <2>1, <2>2 DEF Typed
<1>7. CASE StopHeartbeat(p)
  <2>1. proc' = [proc EXCEPT ![p] = [proc[p] EXCEPT !.pc = "end", !.beating = FALSE]]
    BY <1>0, <1>7 DEF StopHeartbeat, ProcTyped
  <2>2. "end" \in Holds
    BY <1>2 DEF Executes
  <2>3. Others(p) /\ proc'[p].run = proc[p].run /\ proc'[p].job = proc[p].job /\ proc'[p] \in Process
    BY <1>0, <2>1, <2>2 DEF Process, ProcTyped, Others
  <2>4. ProcTyped'
    BY <1>0, <1>1, <2>3, ProcStep
  <2>5. FilesTyped'
    BY <1>0, <1>7 DEF StopHeartbeat, files, FilesTyped
  <2> QED
    BY <2>4, <2>5 DEF Typed
<1>8. CASE EndAttempt(p)
  <2>1. ProcTyped'
    BY <1>0, <1>1, <1>2, <1>8, GoesTyped DEF EndAttempt
  <2>2. Pc(p) = "end"
    BY <1>8 DEF EndAttempt, At
  <2>4. Event("AttemptEnded", proc[p].attempt, p, Reason(p)) \in Record
    BY <1>0 DEF Event, Record, Types, Process, Reason
  <2>5. journal' \in [Run -> Seq(Record)]
    <3>1. CASE Append1(proc[p].run, Event("AttemptEnded", proc[p].attempt, p, Reason(p)))
      BY <1>0, <1>1, <2>4, <3>1, AppendTyped
    <3>2. CASE UNCHANGED journal
      BY <1>0, <3>2 DEF FilesTyped
    <3> QED
      BY <1>8, <3>1, <3>2 DEF EndAttempt
  <2>6. FilesTyped'
    BY <1>0, <1>8, <2>5 DEF EndAttempt, FilesTyped
  <2> QED
    BY <2>1, <2>6 DEF Typed
<1> QED
  BY <1>3, <1>4, <1>5, <1>6, <1>7, <1>8

\* A process that ends, of itself or not.
Stops(p) ==
    \/ RefusePipeline(p) \/ RefuseWorktree(p) \/ RefuseIdentity(p)
    \/ IndexFails(p) \/ StartFails(p) \/ Dies(p) \/ (KillAfterGrace /\ p = killer.pid)

LEMMA StopsIsGone ==
    ASSUME NEW p \in Pid, Stops(p)
    PROVE  /\ Gone(p)
           /\ UNCHANGED <<ckpt, home, journal, indexed, stopFile, saved>>
           /\ meta' = meta \/ (IndexFails(p) /\ meta' = meta \ {proc[p].run})
  BY DEF Stops, RefusePipeline, RefuseWorktree, RefuseIdentity, IndexFails, StartFails, Dies, KillAfterGrace

LEMMA TypeStops == ASSUME Typed, NEW p \in Pid, Stops(p) PROVE Typed'
<1>1. ProcTyped' /\ lock' \in [Pipeline -> Pid \cup {NoPid}] /\ worktree' \in Pid \cup {NoPid}
  BY StopsIsGone, GoneTyped
<1>2. FilesTyped'
  BY <1>1, StopsIsGone DEF Typed, FilesTyped
<1> QED
  BY <1>1, <1>2 DEF Typed

\* The Pipeline after a completed one, or the end.
LEMMA UnlockIs ==
    ASSUME ProcTyped, NEW p \in Pid, Unlock(p)
    PROVE  /\ Others(p) /\ proc'[p] \in Process /\ proc'[p].job \in DOMAIN Jobs[p]
           /\ Pc(p) = "unlock" /\ proc'[p].pc \in {"next", "gone"} /\ ~proc'[p].beating
           /\ Release(p) /\ term' \subseteq term
           /\ UNCHANGED <<ckpt, meta, indexed, home, journal, stopFile, quiet, controls, saved>>
<1> DEFINE after == IF proc[p].how = "completed" /\ proc[p].job < Len(Jobs[p])
                    THEN [Unstarted EXCEPT !.pc = "next", !.job = proc[p].job + 1]
                    ELSE [Unstarted EXCEPT !.pc = "gone"]
<1>1. proc' = [proc EXCEPT ![p] = after]
  BY DEF Unlock, ProcTyped
<1>2. Jobs[p] \in Seq(Pipeline) /\ proc[p].job \in DOMAIN Jobs[p]
  BY JobsAssumption DEF ProcTyped
<1>3. proc[p].job < Len(Jobs[p]) => proc[p].job + 1 \in DOMAIN Jobs[p] /\ proc[p].job + 1 \in Nat
  BY <1>2, LenProperties
<1>4. [Unstarted EXCEPT !.pc = "gone"] \in Process /\ [Unstarted EXCEPT !.pc = "gone"].job \in DOMAIN Jobs[p]
  BY UnstartedTyped DEF Outside
<1>5. after \in Process /\ after.job \in DOMAIN Jobs[p] /\ after.pc \in {"next", "gone"} /\ ~after.beating
  <2>1. "next" \in Outside
    BY DEF Outside
  <2> QED
    BY <1>3, <1>4, <2>1 DEF Unstarted, Process
<1>6. proc'[p] = after /\ Others(p)
  BY <1>1 DEF ProcTyped, Others
<1> HIDE DEF after
<1> QED
  BY <1>5, <1>6 DEF Unlock, At

LEMMA TypeUnlock == ASSUME Typed, NEW p \in Pid, Unlock(p) PROVE Typed'
<1>1. /\ Others(p) /\ proc'[p] \in Process /\ proc'[p].job \in DOMAIN Jobs[p]
      /\ proc'[p].pc \in {"next", "gone"} /\ Release(p) /\ term' \subseteq term
      /\ UNCHANGED <<ckpt, meta, indexed, home, journal, stopFile, saved>>
  BY UnlockIs DEF Typed
<1>2. proc'[p].pc \notin Works
  BY <1>1 DEF Works, Executes
<1>3. term' \subseteq Pid
  BY <1>1 DEF Typed, ProcTyped
<1>4. ProcTyped'
  BY <1>1, <1>2, <1>3, ProcStep DEF Typed
<1>5. FilesTyped'
  BY <1>1 DEF Typed, FilesTyped, Release
<1> QED
  BY <1>4, <1>5 DEF Typed

\* Time, `pas stop` and `pas kill`, up to the signal that cannot be caught.
Control ==
    \/ \E r \in Run : Tick(r) \/ StopReads(r) \/ KillVerifies(r)
    \/ StopWrites \/ KillTerm \/ KillDone \/ UNCHANGED vars

LEMMA ControlIs ==
    ASSUME Control
    PROVE  UNCHANGED <<proc, lock, holder, worktree, ckpt, meta, indexed, home, journal, saved>>
  BY DEF Control, Tick, StopReads, KillVerifies, StopWrites, KillTerm, KillDone, vars, files, controls

LEMMA TypeControl == ASSUME Typed, Control PROVE Typed'
<1>1. term' \subseteq Pid
  BY DEF Control, Tick, StopReads, KillVerifies, StopWrites, KillTerm, KillDone, Alive, vars, Typed, ProcTyped
<1>2. stopFile' = [r \in Run |-> stopFile'[r]]
  BY DEF Control, Tick, StopReads, KillVerifies, StopWrites, KillTerm, KillDone, vars, files, Typed, FilesTyped
<1>3. ProcTyped'
  BY <1>1, ControlIs DEF Typed, ProcTyped, Pc
<1>4. FilesTyped'
  BY <1>2, ControlIs DEF Typed, FilesTyped
<1> QED
  BY <1>3, <1>4 DEF Typed

(* Every step is one of these.                                             *)
Prepares(p) ==
    \/ Listen(p) \/ LockPipeline(p) \/ LockWorktree(p) \/ ShareWorktree(p) \/ Decide(p)
    \/ ClearForFresh(p) \/ RemoveStop(p) \/ WriteMeta(p) \/ AppendIndex(p)
    \/ StartRun(p) \/ StartAttempt(p)
Attempts(p) ==
    \/ Heartbeat(p) \/ SaveCheckpoint(p) \/ EngineStops(p) \/ EngineFails(p) \/ EngineClears(p)
    \/ EngineReturns(p) \/ Terminated(p) \/ StopHeartbeat(p) \/ EndAttempt(p)

LEMMA Steps ==
    ASSUME [Next]_vars
    PROVE  Control \/ \E p \in Pid : Prepares(p) \/ Attempts(p) \/ Unlock(p) \/ Stops(p)
<1>1. CASE KillAfterGrace
  <2>1. killer.pid \in Pid
    BY <1>1 DEF KillAfterGrace, Alive
  <2> QED
    BY <1>1, <2>1 DEF Stops
<1> QED
  BY <1>1 DEF Next, Prepare, Work, Control, Prepares, Attempts, Stops

LEMMA TypeStep ==
    ASSUME Typed, \A r \in Run : Blocks(r), \A p \in Pid : Attempting(p), [Next]_vars
    PROVE  Typed'
<1>1. ASSUME NEW p \in Pid PROVE proc[p].beating => Pc(p) \in Works
  BY DEF Attempting, Works, Executes
<1> QED
  BY <1>1, Steps, TypeControl, TypePrepare, TypeWork, TypeUnlock, TypeStops DEF Prepares, Attempts

----------------------------------------------------------------------------
(* Locks                                                                   *)

\* The actions of a process that holds what it needs.
Inner(p) ==
    \/ Decide(p) \/ ClearForFresh(p) \/ RemoveStop(p) \/ WriteMeta(p) \/ AppendIndex(p)
    \/ StartRun(p) \/ StartAttempt(p) \/ Attempts(p)

LEMMA InnerIs ==
    ASSUME ProcTyped, NEW p \in Pid, Inner(p), Attempting(p)
    PROVE  /\ Others(p) /\ proc'[p].job = proc[p].job
           /\ Pc(p) \in Inside /\ proc'[p].pc \in Works
           /\ UNCHANGED <<lock, worktree>>
           /\ Decide(p) \/ (Pc(p) \in Works /\ proc'[p].run = proc[p].run)
<1>0. proc[p] \in Process /\ Works \subseteq Inside
  BY DEF ProcTyped, Inside
<1>1. \A x \in {"clear", "control", "meta", "index", "open new", "open", "run", "cleared", "beat", "end", "unlock"} :
        x \in Works /\ x \in Holds
  BY DEF Works, Holds, Inside, Executes
<1>2. CASE Decide(p)
  <2>1. PICK r \in Identities(p), x \in {"clear", "control"} :
          proc' = [proc EXCEPT ![p] = [proc[p] EXCEPT !.run = r, !.pc = x]]
    BY <1>0, <1>2 DEF Decide, ProcTyped
  <2>2. Others(p) /\ proc'[p].job = proc[p].job /\ proc'[p].pc = x
    BY <1>0, <2>1 DEF Process, ProcTyped, Others
  <2> QED
    BY <1>1, <1>2, <2>2 DEF Decide, At, Inside
<1>3. CASE ClearForFresh(p) \/ WriteMeta(p) \/ AppendIndex(p) \/ StartRun(p) \/ EngineClears(p) \/ EndAttempt(p)
  <2>1. PICK x \in {"control", "index", "open new", "open", "cleared", "unlock"} : Goto(p, x)
    BY <1>3 DEF ClearForFresh, WriteMeta, AppendIndex, StartRun, EngineClears, EndAttempt
  <2>2. Others(p) /\ Same(p) /\ Pc(p)' = x
    BY <1>1, <2>1, Goes
  <2>3. Pc(p) \in {"clear", "meta", "index", "open new", "run", "end"} /\ UNCHANGED <<lock, worktree>>
    BY <1>3 DEF ClearForFresh, WriteMeta, AppendIndex, StartRun, EngineClears, EndAttempt, At
  <2> QED
    BY <1>0, <1>1, <2>2, <2>3 DEF Same, Pc
<1>4. CASE RemoveStop(p) \/ StartAttempt(p) \/ EngineStops(p) \/ EngineFails(p) \/ EngineReturns(p)
           \/ Terminated(p) \/ StopHeartbeat(p)
  <2>1. PICK v : /\ proc' = [proc EXCEPT ![p] = v] /\ v.job = proc[p].job /\ v.run = proc[p].run
                 /\ v.pc \in {"open", "meta", "run", "beat", "end"}
    <3>1. CASE RemoveStop(p)
      <4>1. PICK x \in {"open", "meta"} :
          proc' = [proc EXCEPT ![p] = [proc[p] EXCEPT !.pc = x, !.attempt = LastAttempt(proc[p].run) + 1]]
        BY <1>0, <3>1 DEF RemoveStop, ProcTyped
      <4> WITNESS [proc[p] EXCEPT !.pc = x, !.attempt = LastAttempt(proc[p].run) + 1]
      <4> QED
        BY <1>0, <4>1 DEF Process
    <3>2. CASE StartAttempt(p)
      <4>1. proc' = [proc EXCEPT ![p] = [proc[p] EXCEPT !.pc = "run", !.beating = TRUE]]
        BY <1>0, <3>2 DEF StartAttempt, ProcTyped
      <4> WITNESS [proc[p] EXCEPT !.pc = "run", !.beating = TRUE]
      <4> QED
        BY <1>0, <4>1 DEF Process
    <3>3. CASE EngineStops(p) \/ EngineFails(p) \/ EngineReturns(p) \/ Terminated(p)
      <4>1. PICK how : proc' = [proc EXCEPT ![p] = [proc[p] EXCEPT !.pc = "beat", !.how = how]]
        BY <1>0, <3>3 DEF EngineStops, EngineFails, EngineReturns, Terminated, EngineEnds, ProcTyped
      <4> WITNESS [proc[p] EXCEPT !.pc = "beat", !.how = how]
      <4> QED
        BY <1>0, <4>1 DEF Process
    <3>4. CASE StopHeartbeat(p)
      <4>1. proc' = [proc EXCEPT ![p] = [proc[p] EXCEPT !.pc = "end", !.beating = FALSE]]
        BY <1>0, <3>4 DEF StopHeartbeat, ProcTyped
      <4> WITNESS [proc[p] EXCEPT !.pc = "end", !.beating = FALSE]
      <4> QED
        BY <1>0, <4>1 DEF Process
    <3> QED
      BY <1>4, <3>1, <3>2, <3>3, <3>4
  <2>2. Others(p) /\ proc'[p] = v
    BY <2>1 DEF ProcTyped, Others
  <2>3. Pc(p) \in {"control", "open", "run", "cleared", "beat"} /\ UNCHANGED <<lock, worktree>>
    BY <1>4 DEF RemoveStop, StartAttempt, EngineStops, EngineFails, EngineReturns, Terminated, StopHeartbeat, At, files
  <2> QED
    BY <1>0, <1>1, <2>1, <2>2, <2>3
<1>5. CASE Heartbeat(p) \/ SaveCheckpoint(p)
  <2>1. proc' = proc /\ UNCHANGED <<lock, worktree>>
    BY <1>5 DEF Heartbeat, SaveCheckpoint
  <2>2. Pc(p) \in {"run", "cleared", "beat"}
    BY <1>5 DEF Heartbeat, SaveCheckpoint, At, Attempting
  <2> QED
    BY <1>0, <1>1, <2>1, <2>2 DEF ProcTyped, Others, Pc
<1> QED
  BY <1>2, <1>3, <1>4, <1>5 DEF Inner, Attempts

\* A process that leaves what it had.
LEMMA OutIs ==
    ASSUME ProcTyped, NEW p \in Pid, Unlock(p) \/ Stops(p)
    PROVE  Others(p) /\ proc'[p].pc \in {"next", "gone"} /\ ~proc'[p].beating /\ Release(p)
<1>1. CASE Unlock(p)
  BY <1>1, UnlockIs
<1>2. CASE Stops(p)
  <2>1. proc' = [proc EXCEPT ![p] = [Unstarted EXCEPT !.pc = "gone"]] /\ Release(p)
    BY <1>2, StopsIsGone DEF Gone
  <2> QED
    BY <2>1 DEF ProcTyped, Others, Unstarted
<1> QED
  BY <1>1, <1>2

LEMMA LockInit == Init => LockInv
<1> SUFFICES ASSUME Init PROVE LockInv
  OBVIOUS
<1>1. "new" \notin Holds /\ "new" \notin Inside
  BY DEF Holds, Inside, Works, Executes
<1>2. \A p \in Pid : Pc(p) = "new"
  BY DEF Init, Pc, Unstarted
<1> QED
  BY <1>1, <1>2 DEF Init, LockInv

LEMMA LockStep ==
    ASSUME Typed, LockInv, \A p \in Pid : Attempting(p), [Next]_vars
    PROVE  LockInv'
<1>0. ProcTyped /\ FilesTyped /\ proc \in [Pid -> Process] /\ NoPid \notin Pid
      /\ \A p \in Pid : Job(p) \in Pipeline
  BY JobIsPipeline, JobsAssumption DEF Typed, ProcTyped
<1>1. /\ \A p \in Pid : Pc(p) \in Holds => lock[Job(p)] = p
      /\ \A l \in Pipeline : lock[l] # NoPid => Pc(lock[l]) \in Holds /\ Job(lock[l]) = l
      /\ worktree # NoPid => Pc(worktree) \in Inside
      /\ \A p \in Pid \ Sharing : Pc(p) \in Inside => worktree = p
      /\ lock \in [Pipeline -> Pid \cup {NoPid}] /\ worktree \in Pid \cup {NoPid}
  BY <1>0 DEF LockInv, FilesTyped
<1>2. CASE Control
  BY <1>2, <1>1, ControlIs DEF LockInv, Pc, Job
<1>3. ASSUME NEW p \in Pid, Prepares(p) \/ Attempts(p) \/ Unlock(p) \/ Stops(p)
      PROVE  LockInv'
  <2>0. Others(p) => \A q \in Pid \ {p} : Pc(q)' = Pc(q) /\ Job(q)' = Job(q)
    BY <1>0 DEF Others, Pc, Job
  <2>1. CASE Inner(p)
    <3>1. /\ Others(p) /\ Job(p)' = Job(p) /\ Pc(p) \in Inside /\ Pc(p)' \in Inside
          /\ UNCHANGED <<lock, worktree>>
      BY <1>0, <2>1, InnerIs DEF Pc, Job, Inside
    <3>2. Pc(p) \in Holds /\ Pc(p)' \in Holds
      BY <3>1 DEF Holds
    <3>3. \A q \in Pid : Job(q)' = Job(q) /\ (Pc(q)' \in Holds <=> Pc(q) \in Holds) /\ (Pc(q)' \in Inside <=> Pc(q) \in Inside)
      BY <2>0, <3>1, <3>2
    <3> QED
      BY <1>1, <3>1, <3>3 DEF LockInv
  <2>2. CASE Unlock(p) \/ Stops(p)
    <3>1. Others(p) /\ Pc(p)' \in {"next", "gone"} /\ Release(p)
      BY <1>0, <2>2, OutIs DEF Pc
    <3>2. Pc(p)' \notin Holds /\ Pc(p)' \notin Inside
      BY <3>1 DEF Holds, Inside, Works, Executes
    <3>3. \A q \in Pid : q # p /\ Pc(q) \in Holds => lock'[Job(q)] = q
      BY <1>0, <1>1, <3>1 DEF Release
    <3>4. \A l \in Pipeline : lock'[l] # NoPid => lock'[l] = lock[l] /\ lock[l] # p /\ lock[l] \in Pid
      BY <1>1, <3>1 DEF Release
    <3>5. worktree' # NoPid => worktree' = worktree /\ worktree # p /\ worktree \in Pid
      BY <1>1, <3>1 DEF Release
    <3>6. \A q \in Pid \ Sharing : q # p /\ Pc(q) \in Inside => worktree' = q
      BY <1>1, <3>1 DEF Release
    <3> QED
      BY <1>1, <2>0, <3>1, <3>2, <3>3, <3>4, <3>5, <3>6 DEF LockInv
  <2>3. CASE Listen(p)
    <3>1. "lock" \in Outside /\ "lock" \notin Holds /\ "lock" \notin Inside
          /\ \A x \in {"new", "next"} : x \notin Holds /\ x \notin Inside
      BY DEF Outside, Holds, Inside, Works, Executes
    <3>2. Others(p) /\ Same(p) /\ Pc(p)' = "lock" /\ Pc(p) \in {"new", "next"} /\ UNCHANGED <<lock, worktree>>
      BY <1>0, <2>3, <3>1, Goes DEF Listen, files
    <3>3. \A q \in Pid : Job(q)' = Job(q) /\ (Pc(q)' \in Holds <=> Pc(q) \in Holds) /\ (Pc(q)' \in Inside <=> Pc(q) \in Inside)
      BY <2>0, <3>1, <3>2 DEF Same, Job
    <3> QED
      BY <1>1, <3>2, <3>3 DEF LockInv
  <2>4. CASE LockPipeline(p)
    <3>1. "worktree" \in Holds /\ "worktree" \notin Inside /\ "lock" \notin Holds /\ "lock" \notin Inside
      BY DEF Holds, Inside, Works, Executes
    <3>2. /\ Others(p) /\ Same(p) /\ proc'[p].pc = "worktree" /\ Pc(p) = "lock"
          /\ lock[Job(p)] = NoPid /\ lock' = [lock EXCEPT ![Job(p)] = p] /\ worktree' = worktree
      BY <1>0, <2>4, <3>1, Goes DEF LockPipeline, At, Pc
    <3>3. \A q \in Pid : Job(q)' = Job(q) /\ (q # p => Pc(q)' = Pc(q))
      BY <2>0, <3>2 DEF Same, Job
    <3>4. \A q \in Pid : Pc(q) \in Holds => lock'[Job(q)] = q
      BY <1>0, <1>1, <3>2
    <3>5. lock'[Job(p)] = p
      BY <1>0, <1>1, <3>2
    <3>6. ASSUME NEW l \in Pipeline, lock'[l] # NoPid
          PROVE  (l = Job(p) /\ lock'[l] = p) \/ (lock'[l] = lock[l] /\ lock[l] # p /\ lock[l] \in Pid)
      <4>1. lock[l] # p
        BY <1>0, <1>1, <3>1, <3>2
      <4> QED
        BY <1>0, <1>1, <3>2, <3>6, <4>1
    <3>7. worktree # p
      BY <1>0, <1>1, <3>1, <3>2
    <3>8. \A q \in Pid : Pc(q)' \in Holds => lock'[Job(q)'] = q
      BY <3>3, <3>4, <3>5
    <3>9. ASSUME NEW l \in Pipeline, NEW h, h = lock'[l], h # NoPid
          PROVE  h \in Pid /\ Pc(h)' \in Holds /\ Job(h)' = l
      <4>1. CASE l = Job(p) /\ h = p
        BY <3>1, <3>2, <3>3, <4>1 DEF Pc
      <4>2. CASE h = lock[l] /\ lock[l] # p /\ lock[l] \in Pid
        BY <1>1, <3>3, <3>9, <4>2
      <4> QED
        BY <3>6, <3>9, <4>1, <4>2
    <3>10. \A l \in Pipeline : (lock[l] # NoPid => Pc(lock[l]) \in Holds /\ Job(lock[l]) = l)'
      BY <3>9 DEF Pc, Job
    <3>11. (worktree # NoPid => Pc(worktree) \in Inside)'
      BY <1>0, <1>1, <3>2, <3>3, <3>7 DEF Pc
    <3>12. \A q \in Pid \ Sharing : Pc(q)' \in Inside => worktree' = q
      BY <1>1, <3>1, <3>2, <3>3 DEF Pc
    <3> QED
      BY <3>8, <3>10, <3>11, <3>12 DEF LockInv
  <2>5. CASE LockWorktree(p) \/ ShareWorktree(p)
    <3>1. "worktree" \in Holds /\ "worktree" \notin Inside /\ "decide" \in Holds /\ "decide" \in Inside
      BY DEF Holds, Inside, Works, Executes
    <3>2. /\ Others(p) /\ Same(p) /\ proc'[p].pc = "decide" /\ Pc(p) = "worktree" /\ lock' = lock
          /\ ((worktree = NoPid /\ worktree' = p) \/ (p \in Sharing /\ worktree' = worktree))
      BY <1>0, <2>5, <3>1, Goes DEF LockWorktree, ShareWorktree, At, files, Pc
    <3>3. \A q \in Pid : Job(q)' = Job(q) /\ (q # p => Pc(q)' = Pc(q)) /\ (Pc(q)' \in Holds <=> Pc(q) \in Holds)
      BY <2>0, <3>1, <3>2 DEF Same, Job, Pc
    <3>4. \A l \in Pipeline : (lock[l] # NoPid => Pc(lock[l]) \in Holds /\ Job(lock[l]) = l)'
      <4> SUFFICES ASSUME NEW l \in Pipeline, lock[l] # NoPid
                   PROVE  (Pc(lock[l]) \in Holds /\ Job(lock[l]) = l)'
        BY <3>2
      <4>1. lock[l] \in Pid /\ lock'[l] = lock[l]
        BY <1>1, <3>2
      <4> QED
        BY <1>1, <3>3, <4>1 DEF Pc, Job
    <3>5. (worktree # NoPid => Pc(worktree) \in Inside)'
      <4>1. CASE worktree = NoPid /\ worktree' = p
        BY <3>1, <3>2, <4>1 DEF Pc
      <4>2. CASE worktree' = worktree /\ worktree # NoPid
        <5>1. worktree \in Pid /\ worktree # p
          BY <1>1, <3>1, <3>2, <4>2
        <5> QED
          BY <1>1, <3>3, <4>2, <5>1 DEF Pc
      <4> QED
        BY <3>2, <4>1, <4>2
    <3>6. \A q \in Pid \ Sharing : Pc(q)' \in Inside => worktree' = q
      BY <1>0, <1>1, <3>1, <3>2, <3>3 DEF Pc
    <3>7. \A q \in Pid : Pc(q)' \in Holds => lock'[Job(q)'] = q
      BY <1>1, <3>2, <3>3
    <3> QED
      BY <3>4, <3>5, <3>6, <3>7 DEF LockInv
  <2> QED
    BY <1>3, <2>1, <2>2, <2>3, <2>4, <2>5 DEF Prepares, Inner
<1> QED
  BY <1>2, <1>3, Steps

----------------------------------------------------------------------------
(* Identity                                                                *)

LEMMA RunInit == Init => RunInv
<1> SUFFICES ASSUME Init PROVE RunInv
  OBVIOUS
<1>1. "new" \notin Works
  BY DEF Works, Executes
<1>2. \A p \in Pid : Pc(p) = "new"
  BY DEF Init, Pc, Unstarted
<1> QED
  BY <1>1, <1>2 DEF Init, RunInv, CheckpointIsKnown, Placed

LEMMA PlacedStays ==
    ASSUME NEW q \in Pid, proc'[q] = proc[q], Placed(q),
           Pc(q) \in Works =>
             /\ home'[proc[q].run] = home[proc[q].run]
             /\ proc[q].run \in meta' <=> proc[q].run \in meta
             /\ proc[q].run \in indexed' <=> proc[q].run \in indexed
    PROVE  Placed(q)'
  BY DEF Placed, Pc, Job

\* A process becomes one that works on a Run: the Run is of its Pipeline, or
\* new, and nobody else's.
LEMMA DecideIs ==
    ASSUME Typed, LockInv, RunInv, NEW p \in Pid, Pc(p) = "decide", NEW r \in Identities(p)
    PROVE  \/ r \in indexed /\ home[r] = Job(p)
           \/ /\ r \notin meta /\ \A q \in Pid : Pc(q) \in Works => proc[q].run # r
              /\ \A q \in Pid : Requested[q] = r => Requested[p] = r
<1>0. Job(p) \in Pipeline /\ r \in Run /\ NoRun \notin Run
  BY JobIsPipeline, IdentityIsRun, JobsAssumption DEF Typed
<1>1. CASE Found(p) # NoRun
  <2>1. r = Found(p) /\ Found(p) = ckpt[Job(p)]
    BY <1>1 DEF Identities, Found
  <2> QED
    BY <1>0, <1>1, <2>1 DEF RunInv, CheckpointIsKnown
<1>2. CASE Found(p) = NoRun /\ Requested[p] # NoRun
  <2>1. r = Requested[p] /\ r \notin meta
    BY <1>2 DEF Identities
  <2>2. ASSUME NEW q \in Pid, Pc(q) \in Works, proc[q].run = r PROVE FALSE
    <3>1. Requested[q] = r
      BY <2>1, <2>2 DEF RunInv, Placed
    <3>2. proc[p].job \in DOMAIN Jobs[p] /\ proc[q].job \in DOMAIN Jobs[q]
      BY DEF Typed, ProcTyped
    <3>3. Job(p) = Job(q)
      BY <1>2, <2>1, <3>1, <3>2, JobsAssumption DEF Job
    <3>4. p = q
      <4>1. "decide" \in Holds /\ Pc(q) \in Holds
        BY <2>2 DEF Holds, Inside
      <4> QED
        BY <3>3, <4>1 DEF LockInv
    <3> QED
      BY <2>2, <3>4 DEF Works, Executes
  <2> QED
    BY <2>1, <2>2
<1>3. CASE Found(p) = NoRun /\ Requested[p] = NoRun
  <2> DEFINE unused == {s \in Run : journal[s] = <<>> /\ s \notin meta
                            /\ \A q \in Pid : proc[q].run # s /\ Requested[q] # s}
  <2>1. r \in IF unused = {} THEN {} ELSE {CHOOSE s \in unused : TRUE}
    BY <1>3 DEF Identities
  <2>2. r \in unused
    <3> HIDE DEF unused
    <3> QED BY <2>1
  <2> QED
    BY <2>2
<1> QED
  BY <1>1, <1>2, <1>3

LEMMA RunStep ==
    ASSUME Typed, LockInv, RunInv, \A p \in Pid : Attempting(p), [Next]_vars
    PROVE  RunInv'
<1>0. ProcTyped /\ FilesTyped /\ proc \in [Pid -> Process] /\ NoRun \notin Run
      /\ \A p \in Pid : Job(p) \in Pipeline /\ (Pc(p) \in Works => proc[p].run \in Run)
  <2>1. ProcTyped
    BY DEF Typed
  <2>2. \A p \in Pid : Job(p) \in Pipeline
    BY <2>1, JobIsPipeline
  <2> QED
    BY <2>1, <2>2, JobsAssumption DEF Typed, ProcTyped
<1>1. CheckpointIsKnown /\ indexed \subseteq meta /\ \A q \in Pid : Placed(q)
  BY DEF RunInv
<1>2. \A l \in Pipeline : ckpt[l] # NoRun => ckpt[l] \in meta \cap indexed /\ home[ckpt[l]] = l /\ ckpt[l] \in Run
  BY <1>0, <1>1 DEF CheckpointIsKnown, FilesTyped
<1>3. CASE Control
  <2>1. UNCHANGED <<proc, ckpt, meta, indexed, home>>
    BY <1>3, ControlIs
  <2> QED
    BY <1>1, <2>1 DEF RunInv, CheckpointIsKnown, Placed, Pc, Job
<1>4. ASSUME NEW p \in Pid, Prepares(p) \/ Attempts(p) \/ Unlock(p) \/ Stops(p)
      PROVE  RunInv'
  <2>1. Others(p) => \A q \in Pid \ {p} : proc'[q] = proc[q]
    BY <1>0 DEF Others
  <2>2. ASSUME Pc(p) \in Works, NEW q \in Pid \ {p}, Pc(q) \in Works
        PROVE  proc[q].run # proc[p].run
    BY <1>0, <2>2, Alone
  <2>3. CASE Unlock(p) \/ Stops(p)
    <3>1. Others(p) /\ Pc(p)' \in {"next", "gone"}
      BY <1>0, <2>3, OutIs DEF Pc
    <3>2. Pc(p)' \notin Works
      BY <3>1 DEF Works, Executes
    <3>3. UNCHANGED <<ckpt, home, indexed>>
          /\ (meta' = meta \/ (Pc(p) = "index" /\ meta' = meta \ {proc[p].run}))
      BY <1>0, <2>3, UnlockIs, StopsIsGone DEF IndexFails, At
    <3>4. Pc(p) = "index" => Pc(p) \in Works /\ proc[p].run \notin indexed
      BY <1>1 DEF Placed, Works
    <3>5. CheckpointIsKnown' /\ (indexed \subseteq meta)'
      BY <1>1, <1>2, <3>3, <3>4 DEF CheckpointIsKnown
    <3>6. ASSUME NEW q \in Pid \ {p} PROVE Placed(q)'
      <4>1. Pc(q) \in Works /\ Pc(p) = "index" => proc[q].run # proc[p].run
        BY <2>2, <3>4
      <4> QED
        BY <1>1, <2>1, <3>1, <3>3, <4>1, PlacedStays
    <3>7. Placed(p)'
      BY <3>2 DEF Placed
    <3> QED
      BY <3>5, <3>6, <3>7 DEF RunInv
  <2>4. CASE Listen(p) \/ LockPipeline(p) \/ LockWorktree(p) \/ ShareWorktree(p)
    <3>1. PICK x \in {"lock", "worktree", "decide"} : Goto(p, x)
      BY <2>4 DEF Listen, LockPipeline, LockWorktree, ShareWorktree
    <3>2. x \in Holds \cup Outside /\ x \notin Works
      BY DEF Holds, Outside, Inside, Works, Executes
    <3>3. Others(p) /\ Pc(p)' \notin Works
      BY <1>0, <3>1, <3>2, Goes
    <3>4. UNCHANGED <<ckpt, home, indexed, meta>>
      BY <2>4 DEF Listen, LockPipeline, LockWorktree, ShareWorktree, files
    <3>5. \A q \in Pid \ {p} : Placed(q)'
      BY <1>1, <2>1, <3>3, <3>4, PlacedStays
    <3>6. Placed(p)'
      BY <3>3 DEF Placed
    <3> QED
      BY <1>1, <3>4, <3>5, <3>6 DEF RunInv, CheckpointIsKnown
  <2>5. CASE Decide(p)
    <3>1. PICK r \in Identities(p) :
          /\ proc' = [proc EXCEPT ![p].run = r, ![p].pc = IF p \in Fresh THEN "clear" ELSE "control"]
          /\ home' = IF r \in meta THEN home ELSE [home EXCEPT ![r] = Job(p)]
      BY <2>5 DEF Decide
    <3>2. Pc(p) = "decide" /\ UNCHANGED <<ckpt, meta, indexed>>
      BY <2>5 DEF Decide, At
    <3>3. /\ Others(p) /\ proc'[p].run = r /\ proc'[p].job = proc[p].job /\ proc'[p].pc \in {"clear", "control"}
      BY <1>0, <3>1 DEF Process, ProcTyped, Others
    <3>4. \/ r \in indexed /\ home[r] = Job(p)
          \/ /\ r \notin meta /\ \A q \in Pid : Pc(q) \in Works => proc[q].run # r
             /\ \A q \in Pid : Requested[q] = r => Requested[p] = r
      BY <3>2, DecideIs
    <3>5. r \in Run /\ home = [s \in Run |-> home[s]]
      BY <1>0, IdentityIsRun DEF FilesTyped
    <3>6. home'[r] = Job(p) /\ \A s \in Run : s # r \/ r \in meta => home'[s] = home[s]
      BY <1>1, <3>1, <3>4, <3>5
    <3>7. CheckpointIsKnown'
      BY <1>2, <3>2, <3>6 DEF CheckpointIsKnown
    <3>8. \A q \in Pid \ {p} : Placed(q)'
      <4> SUFFICES ASSUME NEW q \in Pid \ {p} PROVE Placed(q)'
        OBVIOUS
      <4>1. Pc(q) \in Works => home'[proc[q].run] = home[proc[q].run]
        BY <1>0, <1>1, <3>4, <3>6
      <4> QED
        BY <1>1, <2>1, <3>2, <3>3, <4>1, PlacedStays
    <3>9. Placed(p)'
      <4>1. Job(p)' = Job(p) /\ Pc(p)' \in {"clear", "control"}
        BY <3>3 DEF Job, Pc
      <4>2. r \notin meta => \A q \in Pid : Requested[q] = r => Requested[p] = r
        BY <1>1, <3>4
      <4>3. r \notin meta \/ r \in indexed
        BY <3>4
      <4> QED
        BY <3>2, <3>3, <3>6, <4>1, <4>2, <4>3 DEF Placed, Executes
    <3> QED
      BY <1>1, <3>2, <3>7, <3>8, <3>9 DEF RunInv
  <2>6. ASSUME Inner(p), ~Decide(p)
        PROVE  RunInv'
    <3> DEFINE r == proc[p].run
    <3>1. Others(p) /\ Job(p)' = Job(p) /\ Pc(p) \in Works /\ Pc(p)' \in Works /\ proc'[p].run = r
      BY <1>0, <2>6, InnerIs DEF Pc, Job
    <3>2. r \in Run /\ home[r] = Job(p) /\ Placed(p)
      BY <1>0, <1>1, <3>1 DEF Placed
    <3>3. home' = home
      BY <2>6 DEF Inner, Attempts, ClearForFresh, RemoveStop, WriteMeta, AppendIndex, StartRun, StartAttempt, Heartbeat,
         SaveCheckpoint, EngineStops, EngineFails, EngineClears, EngineReturns, Terminated, StopHeartbeat, EndAttempt, files
    <3>4. ASSUME NEW q \in Pid \ {p}, \A s \in Run : s # r => (s \in meta' <=> s \in meta) /\ (s \in indexed' <=> s \in indexed)
          PROVE  Placed(q)'
      <4>1. Pc(q) \in Works => proc[q].run \in Run /\ proc[q].run # r
        BY <1>0, <2>2, <3>1
      <4> QED
        BY <1>1, <2>1, <3>1, <3>3, <3>4, <4>1, PlacedStays
    <3>5. CASE WriteMeta(p)
      <4>1. Pc(p) = "meta" /\ meta' = meta \cup {r} /\ UNCHANGED <<ckpt, indexed>> /\ Goto(p, "index")
        BY <3>5 DEF WriteMeta, At
      <4>2. Pc(p)' = "index"
        BY <1>0, <4>1, Goes DEF Holds, Inside, Works
      <4>3. r \notin meta /\ r \notin indexed
        BY <1>1, <3>1, <3>2, <4>1 DEF Placed
      <4>4. Placed(p)'
        BY <3>1, <3>2, <3>3, <4>1, <4>2, <4>3 DEF Placed, Executes
      <4>5. \A q \in Pid \ {p} : Placed(q)'
        BY <3>4, <4>1
      <4>6. CheckpointIsKnown' /\ (indexed \subseteq meta)'
        BY <1>1, <1>2, <3>3, <4>1 DEF CheckpointIsKnown
      <4> QED
        BY <4>4, <4>5, <4>6 DEF RunInv
    <3>6. CASE AppendIndex(p)
      <4>1. Pc(p) = "index" /\ indexed' = indexed \cup {r} /\ UNCHANGED <<ckpt, meta>> /\ Goto(p, "open new")
        BY <3>6 DEF AppendIndex, At
      <4>2. Pc(p)' = "open new"
        BY <1>0, <4>1, Goes DEF Holds, Inside, Works
      <4>3. r \in meta
        BY <3>1, <3>2, <4>1 DEF Placed
      <4>4. Placed(p)'
        BY <3>1, <3>2, <3>3, <4>1, <4>2, <4>3 DEF Placed, Executes
      <4>5. \A q \in Pid \ {p} : Placed(q)'
        BY <3>4, <4>1
      <4>6. CheckpointIsKnown' /\ (indexed \subseteq meta)'
        BY <1>1, <1>2, <3>3, <4>1, <4>3 DEF CheckpointIsKnown
      <4> QED
        BY <4>4, <4>5, <4>6 DEF RunInv
    <3>7. CASE ClearForFresh(p)
      <4>1. Pc(p) = "clear" /\ ckpt' = [ckpt EXCEPT ![Job(p)] = NoRun] /\ UNCHANGED <<indexed, meta>> /\ Goto(p, "control")
        BY <3>7 DEF ClearForFresh, At
      <4>2. Pc(p)' = "control"
        BY <1>0, <4>1, Goes DEF Holds, Inside, Works
      <4>3. Placed(p)'
        BY <3>1, <3>2, <3>3, <4>1, <4>2 DEF Placed, Executes
      <4>4. \A q \in Pid \ {p} : Placed(q)'
        BY <3>4, <4>1
      <4>5. CheckpointIsKnown'
        BY <1>0, <1>2, <3>3, <4>1 DEF CheckpointIsKnown, FilesTyped
      <4> QED
        BY <1>1, <4>1, <4>3, <4>4, <4>5 DEF RunInv
    <3>8. CASE RemoveStop(p)
      <4>1. Pc(p) = "control" /\ UNCHANGED <<ckpt, indexed, meta>>
        BY <3>8 DEF RemoveStop, At
      <4>2. Pc(p)' = IF r \in meta THEN "open" ELSE "meta"
        BY <1>0, <3>8 DEF RemoveStop, ProcTyped, Process, Pc
      <4>3. r \in meta => r \in indexed
        BY <3>1, <3>2, <4>1 DEF Placed
      <4>4. Placed(p)'
        <5>1. CASE r \in meta
          BY <3>1, <3>2, <3>3, <4>1, <4>2, <4>3, <5>1 DEF Placed, Executes
        <5>2. CASE r \notin meta
          BY <3>1, <3>2, <3>3, <4>1, <4>2, <4>3, <5>2 DEF Placed, Executes
        <5> QED
          BY <5>1, <5>2
      <4>5. \A q \in Pid \ {p} : Placed(q)'
        BY <3>4, <4>1
      <4> QED
        BY <1>1, <3>3, <4>1, <4>4, <4>5 DEF RunInv, CheckpointIsKnown
    <3>9. CASE StartRun(p) \/ StartAttempt(p) \/ Attempts(p)
      <4>1. Pc(p) \in {"open new", "open"} \cup Executes
        BY <3>9 DEF StartRun, StartAttempt, Attempts, Heartbeat, SaveCheckpoint, EngineStops, EngineFails, EngineClears,
           EngineReturns, Terminated, StopHeartbeat, EndAttempt, At, Executes, Attempting
      <4>2. Pc(p)' \in {"open", "unlock"} \cup Executes
        <5>1. CASE StartRun(p) \/ EngineClears(p) \/ EndAttempt(p)
          <6>1. PICK x \in {"open", "cleared", "unlock"} : Goto(p, x)
            BY <5>1 DEF StartRun, EngineClears, EndAttempt
          <6>2. x \in Holds
            BY DEF Holds, Inside, Works, Executes
          <6> QED
            BY <1>0, <6>1, <6>2, Goes DEF Executes
        <5>2. CASE EngineStops(p) \/ EngineFails(p) \/ EngineReturns(p) \/ Terminated(p)
          <6>1. Pc(p)' = "beat"
            BY <1>0, <5>2 DEF EngineStops, EngineFails, EngineReturns, Terminated, EngineEnds, Pc, Process
          <6> QED
            BY <6>1 DEF Executes
        <5>3. CASE StartAttempt(p) \/ StopHeartbeat(p)
          <6>1. Pc(p)' \in {"run", "end"}
            BY <1>0, <5>3 DEF StartAttempt, StopHeartbeat, Pc, Process
          <6> QED
            BY <6>1 DEF Executes
        <5>4. CASE Heartbeat(p) \/ SaveCheckpoint(p)
          <6>1. Pc(p)' = Pc(p)
            BY <5>4 DEF Heartbeat, SaveCheckpoint, Pc
          <6>2. Pc(p) \in {"run", "cleared", "beat"}
            BY <5>4 DEF Heartbeat, SaveCheckpoint, At, Attempting
          <6> QED
            BY <6>1, <6>2 DEF Executes
        <5> QED
          BY <3>9, <5>1, <5>2, <5>3, <5>4 DEF Attempts
      <4>3. r \in indexed
        BY <3>1, <3>2, <4>1 DEF Placed
      <4>4. UNCHANGED <<meta, indexed>>
        BY <3>9 DEF StartRun, StartAttempt, Attempts, Heartbeat, SaveCheckpoint, EngineStops, EngineFails, EngineClears,
           EngineReturns, Terminated, StopHeartbeat, EndAttempt, files
      <4>5. \E x \in {r, NoRun} : ckpt' = ckpt \/ ckpt' = [ckpt EXCEPT ![Job(p)] = x]
        BY <3>9 DEF StartRun, StartAttempt, Attempts, Heartbeat, SaveCheckpoint, EngineStops, EngineFails, EngineClears,
           EngineReturns, Terminated, StopHeartbeat, EndAttempt, files
      <4>6. Placed(p)'
        BY <1>1, <3>1, <3>2, <3>3, <4>2, <4>3, <4>4 DEF Placed, Executes
      <4>7. \A q \in Pid \ {p} : Placed(q)'
        BY <3>4, <4>4
      <4>8. CheckpointIsKnown'
        BY <1>0, <1>1, <1>2, <3>2, <3>3, <4>3, <4>4, <4>5 DEF CheckpointIsKnown, FilesTyped
      <4> QED
        BY <1>1, <4>4, <4>6, <4>7, <4>8 DEF RunInv
    <3> QED
      BY <2>6, <3>5, <3>6, <3>7, <3>8, <3>9 DEF Inner
  <2> QED
    BY <1>4, <2>3, <2>4, <2>5, <2>6 DEF Prepares, Inner
<1> QED
  BY <1>3, <1>4, Steps

----------------------------------------------------------------------------
(* Attempts                                                                *)

LEMMA JournalInit == Init => JournalInv
<1> SUFFICES ASSUME Init PROVE JournalInv
  OBVIOUS
<1>1. \A p \in Pid : Pc(p) = "new" /\ ~proc[p].beating
  BY DEF Init, Pc, Unstarted
<1>2. \A r \in Run : Blocks(r)
  BY DEF Init, Blocks
<1>3. \A p \in Pid : Attempting(p)
  BY <1>1 DEF Attempting, Executes
<1> QED
  BY <1>2, <1>3 DEF JournalInv

\* An Event of an Attempt later than all there is, or of the last one.
Follows(es, e) ==
    \A i \in DOMAIN es :
        \/ es[i].attempt < e.attempt
        \/ /\ es[i].attempt = e.attempt
           /\ Rank(es[i]) < Rank(e) \/ (Rank(es[i]) = 3 /\ Rank(e) = 3)
           /\ NoPid \in {es[i].pid, e.pid} \/ es[i].pid = e.pid

LEMMA BlocksAppend ==
    ASSUME FilesTyped, NEW r \in Run, NEW e \in Record, Append1(r, e), \A s \in Run : Blocks(s),
           Follows(journal[r], e)
    PROVE  \A s \in Run : Blocks(s)'
<1> SUFFICES ASSUME NEW s \in Run PROVE Blocks(s)'
  OBVIOUS
<1>1. journal' = [journal EXCEPT ![r] = Append(journal[r], e)]
  BY AppendTyped
<1>2. CASE s # r
  <2>1. journal'[s] = journal[s]
    BY <1>1, <1>2 DEF FilesTyped
  <2> QED
    BY <2>1 DEF Blocks
<1>3. CASE s = r
  <2>1. journal'[r] = Append(journal[r], e)
    BY <1>1 DEF FilesTyped
  <2>2. /\ Len(journal[r]) \in Nat /\ DOMAIN journal[r] = 1..Len(journal[r])
        /\ DOMAIN journal'[r] = 1 .. Len(journal[r]) + 1
        /\ \A i \in 1..Len(journal[r]) : journal'[r][i] = journal[r][i]
        /\ journal'[r][Len(journal[r]) + 1] = e
    BY <2>1, Appended DEF FilesTyped
  <2> PICK n \in Nat : n = Len(journal[r])
    BY <2>2
  <2>3. \A i \in 1..n : journal[r][i].attempt \in Nat
    BY <2>2, Events DEF Record
  <2>4. Blocks(r)
    OBVIOUS
  <2>5. \A i, j \in DOMAIN journal'[r] :
           LET a == journal'[r][i]
               b == journal'[r][j]
           IN  i < j =>
               /\ a.attempt <= b.attempt
               /\ a.attempt = b.attempt =>
                   /\ Rank(a) < Rank(b) \/ (Rank(a) = 3 /\ Rank(b) = 3)
                   /\ NoPid \in {a.pid, b.pid} \/ a.pid = b.pid
    <3> SUFFICES ASSUME NEW i \in DOMAIN journal'[r], NEW j \in DOMAIN journal'[r], i < j
                 PROVE  LET a == journal'[r][i]
                            b == journal'[r][j]
                        IN  /\ a.attempt <= b.attempt
                            /\ a.attempt = b.attempt =>
                                /\ Rank(a) < Rank(b) \/ (Rank(a) = 3 /\ Rank(b) = 3)
                                /\ NoPid \in {a.pid, b.pid} \/ a.pid = b.pid
      OBVIOUS
    <3>1. i \in 1..n /\ journal'[r][i] = journal[r][i]
      BY <2>2
    <3>2. CASE j \in 1..n
      <4>1. journal'[r][j] = journal[r][j] /\ i \in DOMAIN journal[r] /\ j \in DOMAIN journal[r]
        BY <2>2, <3>1, <3>2
      <4> QED
        BY <2>4, <3>1, <4>1 DEF Blocks
    <3>3. CASE j = n + 1
      <4>1. journal'[r][j] = e /\ e.attempt \in Nat
        BY <2>2, <3>3 DEF Record
      <4>2. \/ journal[r][i].attempt < e.attempt
            \/ /\ journal[r][i].attempt = e.attempt
               /\ Rank(journal[r][i]) < Rank(e) \/ (Rank(journal[r][i]) = 3 /\ Rank(e) = 3)
               /\ NoPid \in {journal[r][i].pid, e.pid} \/ journal[r][i].pid = e.pid
        BY <2>2, <3>1 DEF Follows
      <4> QED
        BY <2>3, <3>1, <4>1, <4>2
    <3> QED
      BY <2>2, <3>2, <3>3
  <2>6. Blocks(r)'
    <3> SUFFICES ASSUME NEW i \in DOMAIN journal'[r], NEW j \in DOMAIN journal'[r], i < j
                 PROVE  LET a == journal'[r][i]
                            b == journal'[r][j]
                        IN  /\ a.attempt <= b.attempt
                            /\ a.attempt = b.attempt =>
                                /\ Rank(a) < Rank(b) \/ (Rank(a) = 3 /\ Rank(b) = 3)
                                /\ NoPid \in {a.pid, b.pid} \/ a.pid = b.pid
      BY DEF Blocks, Rank
    <3> QED
      BY <2>5
  <2> QED
    BY <1>3, <2>6
<1> QED
  BY <1>2, <1>3

LEMMA AttemptingStays ==
    ASSUME NEW q \in Pid, proc'[q] = proc[q], Attempting(q),
           Pc(q) \in Works => journal'[proc[q].run] = journal[proc[q].run]
    PROVE  Attempting(q)'
<1>1. CASE Pc(q) \in Works
  BY <1>1 DEF Attempting, Pc
<1>2. CASE Pc(q) \notin Works
  <2>1. Pc(q) \notin {"meta", "index", "open new", "open"} \cup Executes
    BY <1>2 DEF Works
  <2> QED
    BY <2>1 DEF Attempting, Pc
<1> QED
  BY <1>1, <1>2

\* What a process writes belongs to its Attempt.
Writes(p, e) ==
    /\ Append1(proc[p].run, e) /\ Follows(journal[proc[p].run], e)
    /\ e.attempt = proc[p].attempt
    /\ \/ StartRun(p) /\ e.type = "RunStarted" /\ e.pid = NoPid
       \/ StartAttempt(p) /\ e.type = "AttemptStarted" /\ e.pid = p
       \/ Heartbeat(p) /\ e.type = "Heartbeat" /\ e.pid = p
       \/ EndAttempt(p) /\ e.type = "AttemptEnded" /\ e.pid = p
    /\ CompletedEvent(e) => EndAttempt(p) /\ proc[p].how = "completed"

LEMMA WritesOwn ==
    ASSUME Typed, JournalInv, NEW p \in Pid,
           StartRun(p) \/ StartAttempt(p) \/ Heartbeat(p) \/ EndAttempt(p)
    PROVE  (journal' = journal /\ EndAttempt(p)) \/ \E e \in Record : Writes(p, e)
<1> DEFINE es == journal[proc[p].run]
           a  == proc[p].attempt
<1>0. proc[p] \in Process /\ Attempting(p) /\ p \in Pid \cup {NoPid} /\ a \in Nat
  BY DEF Typed, ProcTyped, JournalInv, Process
<1>1. CASE StartRun(p)
  <2> DEFINE e == Event("RunStarted", a, NoPid, "none")
  <2>1. e \in Record /\ e.attempt = a /\ e.type = "RunStarted" /\ e.pid = NoPid /\ e.why = "none"
    BY <1>0 DEF Event, Record, Types, Process
  <2>2. Append1(proc[p].run, e) /\ \A i \in DOMAIN es : es[i].attempt < a
    BY <1>0, <1>1 DEF StartRun, At, Attempting, Past
  <2> HIDE DEF e
  <2> QED
    BY <1>1, <2>1, <2>2 DEF CompletedEvent, Rank, Writes, Follows
<1>2. CASE StartAttempt(p)
  <2> DEFINE e == Event("AttemptStarted", a, p, "none")
  <2>1. e \in Record /\ e.attempt = a /\ e.type = "AttemptStarted" /\ e.pid = p /\ e.why = "none"
    BY <1>0 DEF Event, Record, Types, Process
  <2>2. Append1(proc[p].run, e)
        /\ \A i \in DOMAIN es : es[i].attempt < a \/ (es[i].attempt = a /\ es[i].type = "RunStarted" /\ es[i].pid = NoPid)
    BY <1>0, <1>2 DEF StartAttempt, At, Attempting, Opened, Announced
  <2> HIDE DEF e
  <2> QED
    BY <1>2, <2>1, <2>2 DEF CompletedEvent, Rank, Writes, Follows
<1>3. CASE Heartbeat(p)
  <2> DEFINE e == Event("Heartbeat", a, p, "none")
  <2>1. e \in Record /\ e.attempt = a /\ e.type = "Heartbeat" /\ e.pid = p /\ e.why = "none"
    BY <1>0 DEF Event, Record, Types, Process
  <2>2. Append1(proc[p].run, e)
    BY <1>3 DEF Heartbeat
  <2>3. \A i \in DOMAIN es : es[i].attempt < a \/ (es[i].attempt = a /\
           ((es[i].type = "RunStarted" /\ es[i].pid = NoPid) \/ (es[i].type \in {"AttemptStarted", "Heartbeat"} /\ es[i].pid = p)))
    BY <1>0, <1>3 DEF Heartbeat, Attempting, Mine, Announced, WrittenBy, Executes
  <2> HIDE DEF e
  <2> QED
    BY <1>3, <2>1, <2>2, <2>3 DEF CompletedEvent, Rank, Writes, Follows
<1>4. CASE EndAttempt(p)
  <2> DEFINE e == Event("AttemptEnded", a, p, Reason(p))
  <2>1. e \in Record /\ e.attempt = a /\ e.type = "AttemptEnded" /\ e.pid = p /\ e.why = Reason(p)
    BY <1>0 DEF Event, Record, Types, Process, Reason
  <2>2. journal' = journal \/ Append1(proc[p].run, e)
    BY <1>4 DEF EndAttempt
  <2>3. \A i \in DOMAIN es : es[i].attempt < a \/ (es[i].attempt = a /\
           ((es[i].type = "RunStarted" /\ es[i].pid = NoPid) \/ (es[i].type \in {"AttemptStarted", "Heartbeat"} /\ es[i].pid = p)))
    BY <1>0, <1>4 DEF EndAttempt, At, Attempting, Mine, Announced, WrittenBy, Executes
  <2>4. Reason(p) = "completed" => proc[p].how = "completed"
    BY DEF Reason
  <2> HIDE DEF e
  <2> QED
    BY <1>4, <2>1, <2>2, <2>3, <2>4 DEF CompletedEvent, Rank, Writes, Follows
<1> QED
  BY <1>1, <1>2, <1>3, <1>4

LEMMA WhatIsWritten ==
    ASSUME Typed, JournalInv, NEW p \in Pid, Prepares(p) \/ Attempts(p) \/ Unlock(p) \/ Stops(p)
    PROVE  journal' = journal \/ (proc[p].run \in Run /\ \E e \in Record : Writes(p, e))
<1>0. ProcTyped
  BY DEF Typed
<1>1. CASE StartRun(p) \/ StartAttempt(p) \/ Heartbeat(p) \/ EndAttempt(p)
  <2>1. Pc(p) \in {"open new", "open"} \cup Executes
    BY <1>1 DEF StartRun, StartAttempt, Heartbeat, EndAttempt, At, JournalInv, Attempting, Executes
  <2>2. proc[p].run \in Run
    BY <1>0, <2>1 DEF ProcTyped, Works
  <2> QED
    BY <1>1, <2>2, WritesOwn
<1>2. CASE ~(StartRun(p) \/ StartAttempt(p) \/ Heartbeat(p) \/ EndAttempt(p))
  <2>1. CASE Prepares(p)
    BY <1>2, <2>1 DEF Prepares, Listen, LockPipeline, LockWorktree, ShareWorktree, Decide, ClearForFresh, RemoveStop,
       WriteMeta, AppendIndex, files
  <2>2. CASE Attempts(p)
    BY <1>2, <2>2 DEF Attempts, SaveCheckpoint, EngineStops, EngineFails, EngineClears, EngineReturns, Terminated,
       StopHeartbeat, files
  <2>3. CASE Unlock(p) \/ Stops(p)
    BY <1>0, <2>3, UnlockIs, StopsIsGone
  <2> QED
    BY <2>1, <2>2, <2>3
<1> QED
  BY <1>1, <1>2

LEMMA BlocksStep ==
    ASSUME Typed, LockInv, RunInv, JournalInv, [Next]_vars
    PROVE  /\ \A r \in Run : Blocks(r)'
           /\ \A p \in Pid, r \in Run : (Prepares(p) \/ Attempts(p) \/ Unlock(p) \/ Stops(p)) /\ r # proc[p].run
                => journal'[r] = journal[r]
<1>0. ProcTyped /\ FilesTyped /\ (\A r \in Run : Blocks(r))
  BY DEF Typed, JournalInv
<1>1. ASSUME UNCHANGED journal PROVE \A r \in Run : Blocks(r)'
  BY <1>0, <1>1 DEF Blocks
<1>2. ASSUME NEW p \in Pid, Prepares(p) \/ Attempts(p) \/ Unlock(p) \/ Stops(p)
      PROVE  /\ \A r \in Run : Blocks(r)'
             /\ \A r \in Run : r # proc[p].run => journal'[r] = journal[r]
  <2>1. CASE journal' = journal
    BY <1>1, <2>1
  <2>2. CASE proc[p].run \in Run /\ \E e \in Record : Writes(p, e)
    <3> PICK e \in Record : Append1(proc[p].run, e) /\ Follows(journal[proc[p].run], e)
      BY <2>2 DEF Writes
    <3>1. \A r \in Run : Blocks(r)'
      BY <1>0, <2>2, BlocksAppend
    <3>2. \A r \in Run : r # proc[p].run => journal'[r] = journal[r]
      BY <1>0, <2>2, AppendTyped DEF FilesTyped
    <3> QED
      BY <3>1, <3>2
  <2> QED
    BY <1>2, <2>1, <2>2, WhatIsWritten
<1>3. CASE Control
  BY <1>1, <1>3, ControlIs
<1>4. \A r \in Run : Blocks(r)'
  BY <1>2, <1>3, Steps
<1> QED
  BY <1>2, <1>4

LEMMA JournalStep ==
    ASSUME Typed, LockInv, RunInv, JournalInv, [Next]_vars
    PROVE  JournalInv'
<1>0. ProcTyped /\ FilesTyped /\ proc \in [Pid -> Process] /\ \A q \in Pid : Attempting(q)
  BY DEF Typed, ProcTyped, JournalInv
<1>1. \A r \in Run : Blocks(r)'
  BY BlocksStep
<1>2. CASE Control
  <2>1. proc' = proc /\ journal' = journal
    BY <1>2, ControlIs
  <2> QED
    BY <1>0, <1>1, <2>1, AttemptingStays DEF JournalInv
<1>3. ASSUME NEW p \in Pid, Prepares(p) \/ Attempts(p) \/ Unlock(p) \/ Stops(p)
      PROVE  JournalInv'
  <2> DEFINE r == proc[p].run
  <2>1. \A s \in Run : s # r => journal'[s] = journal[s]
    BY <1>3, BlocksStep
  <2>2. Others(p) => \A q \in Pid \ {p} : proc'[q] = proc[q]
    BY <1>0 DEF Others
  \* Somebody else is either on another Run or not at work.
  <2>3. ASSUME Others(p), Pc(p) \in Works \/ UNCHANGED journal, NEW q \in Pid \ {p} PROVE Attempting(q)'
    <3>1. CASE Pc(q) \in Works /\ Pc(p) \in Works
      <4>1. proc[q].run # r /\ proc[q].run \in Run
        BY <1>0, <3>1, Alone DEF ProcTyped
      <4> QED
        BY <1>0, <2>1, <2>2, <2>3, <4>1, AttemptingStays
    <3>2. CASE Pc(q) \notin Works \/ UNCHANGED journal
      BY <1>0, <2>2, <2>3, <3>2, AttemptingStays
    <3> QED
      BY <2>3, <3>1, <3>2
  <2>4. CASE Unlock(p) \/ Stops(p)
    <3>1. Others(p) /\ Pc(p)' \in {"next", "gone"} /\ ~proc'[p].beating /\ UNCHANGED journal
      BY <1>0, <2>4, OutIs, UnlockIs, StopsIsGone DEF Pc
    <3>2. Attempting(p)'
      BY <3>1 DEF Attempting, Executes
    <3> QED
      BY <1>1, <2>3, <3>1, <3>2 DEF JournalInv
  <2>5. CASE Listen(p) \/ LockPipeline(p) \/ LockWorktree(p) \/ ShareWorktree(p) \/ ClearForFresh(p)
    <3>1. PICK x \in {"lock", "worktree", "decide", "control"} : Goto(p, x)
      BY <2>5 DEF Listen, LockPipeline, LockWorktree, ShareWorktree, ClearForFresh
    <3>2. x \in Holds \cup Outside
      BY DEF Holds, Outside, Inside, Works
    <3>3. Others(p) /\ Same(p) /\ Pc(p)' \in {"lock", "worktree", "decide", "control"}
      BY <1>0, <3>1, <3>2, Goes
    <3>4. UNCHANGED journal /\ Pc(p) \notin {"run", "cleared", "beat"}
      BY <2>5 DEF Listen, LockPipeline, LockWorktree, ShareWorktree, ClearForFresh, files, At
    <3>5. Attempting(p)'
      BY <1>0, <3>3, <3>4 DEF Attempting, Executes, Same
    <3> QED
      BY <1>1, <2>3, <3>3, <3>4, <3>5 DEF JournalInv
  <2>6. CASE Decide(p)
    <3>1. Others(p) /\ Pc(p)' \in {"clear", "control"} /\ proc'[p].beating = proc[p].beating /\ UNCHANGED journal
          /\ Pc(p) = "decide"
      <4>1. PICK s \in Identities(p), x \in {"clear", "control"} :
              proc' = [proc EXCEPT ![p] = [proc[p] EXCEPT !.run = s, !.pc = x]]
        BY <1>0, <2>6 DEF Decide, ProcTyped
      <4>2. proc'[p] = [proc[p] EXCEPT !.run = s, !.pc = x] /\ Others(p)
        BY <1>0, <4>1 DEF Others
      <4> QED
        BY <1>0, <2>6, <4>2 DEF Decide, At, Pc, Process
    <3>2. Attempting(p)'
      BY <1>0, <3>1 DEF Attempting, Executes
    <3> QED
      BY <1>1, <2>3, <3>1, <3>2 DEF JournalInv
  <2>7. CASE RemoveStop(p)
    <3> DEFINE n == LastAttempt(r) + 1
    <3>1. Pc(p) = "control" /\ UNCHANGED journal
      BY <2>7 DEF RemoveStop, At
    <3>2. r \in Run
      BY <1>0, <3>1 DEF ProcTyped, Works
    <3>3. LastAttempt(r) \in Nat /\ \A i \in DOMAIN journal[r] : journal[r][i].attempt <= LastAttempt(r)
      BY <1>0, <3>2, LastAttemptIs DEF JournalInv
    <3>4. Past(journal[r], n)
      BY <1>0, <3>2, <3>3, Events DEF Record, Past
    <3>5. Others(p) /\ Pc(p)' \in {"open", "meta"} /\ proc'[p].attempt = n /\ proc'[p].run = r
          /\ proc'[p].beating = proc[p].beating
      <4>1. PICK x \in {"open", "meta"} : proc' = [proc EXCEPT ![p] = [proc[p] EXCEPT !.pc = x, !.attempt = n]]
        BY <1>0, <2>7 DEF RemoveStop, ProcTyped
      <4> HIDE DEF n
      <4>2. proc'[p] = [proc[p] EXCEPT !.pc = x, !.attempt = n] /\ Others(p)
        BY <1>0, <4>1 DEF Others
      <4> QED
        BY <1>0, <4>2 DEF Pc, Process
    <3> HIDE DEF n
    <3>6. Attempting(p)'
      <4>1. ~proc[p].beating
        BY <1>0, <3>1 DEF Attempting
      <4>2. Past(journal'[r], n)
        BY <3>1, <3>4
      <4>3. Opened(journal'[r], n)
        BY <4>2 DEF Past, Opened
      <4> QED
        BY <3>5, <4>1, <4>2, <4>3 DEF Attempting, Executes
    <3> QED
      BY <1>1, <2>3, <3>1, <3>5, <3>6 DEF JournalInv
  <2>8. CASE WriteMeta(p) \/ AppendIndex(p)
    <3>1. PICK x \in {"index", "open new"} : Goto(p, x)
      BY <2>8 DEF WriteMeta, AppendIndex
    <3>2. x \in Holds
      BY DEF Holds, Inside, Works
    <3>3. Others(p) /\ Same(p) /\ Pc(p)' \in {"index", "open new"}
      BY <1>0, <3>1, <3>2, Goes
    <3>4. UNCHANGED journal /\ Pc(p) \in {"meta", "index"}
      BY <2>8 DEF WriteMeta, AppendIndex, At
    <3>5. Attempting(p)'
      BY <1>0, <3>3, <3>4 DEF Attempting, Executes, Same
    <3> QED
      BY <1>1, <2>3, <3>3, <3>4, <3>5 DEF JournalInv
  <2>9. CASE StartRun(p) \/ StartAttempt(p) \/ Heartbeat(p)
    <3>1. Pc(p) \in {"open new", "open"} \cup Executes
      BY <1>0, <2>9 DEF StartRun, StartAttempt, Heartbeat, At, Attempting, Executes
    <3>2. Pc(p) \in Works /\ r \in Run
      BY <1>0, <3>1 DEF ProcTyped, Works
    <3>3. PICK e \in Record : Append1(r, e) /\ e.attempt = proc[p].attempt
                /\ \/ StartRun(p) /\ e.type = "RunStarted" /\ e.pid = NoPid
                   \/ StartAttempt(p) /\ e.type = "AttemptStarted" /\ e.pid = p
                   \/ Heartbeat(p) /\ e.type = "Heartbeat" /\ e.pid = p
      <4>1. ~EndAttempt(p)
        BY <1>0, <2>9 DEF EndAttempt, StartRun, StartAttempt, Heartbeat, At, Attempting
      <4>2. \E e \in Record : Writes(p, e)
        BY <2>9, <4>1, WritesOwn
      <4> QED
        BY <4>1, <4>2 DEF Writes
    <3>4. /\ DOMAIN journal[r] = 1..Len(journal[r]) /\ Len(journal[r]) \in Nat
          /\ DOMAIN journal'[r] = 1 .. Len(journal[r]) + 1
          /\ \A i \in 1..Len(journal[r]) : journal'[r][i] = journal[r][i]
          /\ journal'[r][Len(journal[r]) + 1] = e
      <4>1. journal'[r] = Append(journal[r], e)
        BY <1>0, <3>2, <3>3, AppendTyped DEF FilesTyped
      <4> QED
        BY <1>0, <3>2, <4>1, Appended DEF FilesTyped
    <3>5. PICK n \in Nat : n = Len(journal[r])
      BY <3>4
    <3>6. \A i \in DOMAIN journal'[r] : (i \in DOMAIN journal[r] /\ journal'[r][i] = journal[r][i]) \/ journal'[r][i] = e
      BY <3>4
    <3>7. /\ n + 1 \in DOMAIN journal'[r] /\ journal'[r][n + 1] = e
          /\ \A i \in DOMAIN journal[r] : i \in DOMAIN journal'[r]
          /\ \A i \in DOMAIN journal[r] : journal'[r][i] = journal[r][i]
      BY <3>4, <3>5
    <3>8. CASE StartRun(p)
      <4>1. Pc(p) = "open new" /\ Goto(p, "open")
        BY <3>8 DEF StartRun, At
      <4>2. Others(p) /\ Same(p) /\ Pc(p)' = "open"
        BY <1>0, <4>1, Goes DEF Holds, Inside, Works
      <4>3. e.type = "RunStarted" /\ e.pid = NoPid
        BY <1>0, <3>3, <4>1 DEF StartAttempt, Heartbeat, At, Attempting
      <4>4. Attempting(p)'
        <5>1. Past(journal[r], proc[p].attempt) /\ ~proc[p].beating
          BY <1>0, <4>1 DEF Attempting
        <5>2. Opened(journal'[r], proc[p].attempt)
          BY <3>3, <3>6, <4>3, <5>1 DEF Past, Opened, Announced
        <5> QED
          BY <4>2, <5>1, <5>2 DEF Attempting, Executes, Same
      <4> QED
        BY <1>1, <2>3, <3>2, <4>2, <4>4 DEF JournalInv
    <3>9. CASE StartAttempt(p)
      <4>1. Pc(p) = "open" /\ proc' = [proc EXCEPT ![p] = [proc[p] EXCEPT !.pc = "run", !.beating = TRUE]]
        BY <1>0, <3>9 DEF StartAttempt, At
      <4>2. Others(p) /\ Pc(p)' = "run" /\ proc'[p].run = r /\ proc'[p].attempt = proc[p].attempt
        BY <1>0, <4>1 DEF Others, Pc, Process
      <4>3. e.type = "AttemptStarted" /\ e.pid = p
        BY <1>0, <3>3, <4>1 DEF StartRun, Heartbeat, At, Attempting
      <4>4. Attempting(p)'
        <5>1. Opened(journal[r], proc[p].attempt)
          BY <1>0, <4>1 DEF Attempting
        <5>2. Mine(p, journal'[r], proc[p].attempt)
          BY <3>3, <3>6, <4>3, <5>1 DEF Mine, Opened, Announced, WrittenBy
        <5>3. Begun(journal'[r], proc[p].attempt)
          BY <3>3, <3>7, <4>3 DEF Begun
        <5> QED
          BY <4>2, <5>2, <5>3 DEF Attempting
      <4> QED
        BY <1>1, <2>3, <3>2, <4>2, <4>4 DEF JournalInv
    <3>10. CASE Heartbeat(p)
      <4>1. proc' = proc /\ Pc(p) \in {"run", "cleared", "beat"}
        BY <1>0, <3>10 DEF Heartbeat, Attempting
      <4>2. e.type = "Heartbeat" /\ e.pid = p
        BY <3>3, <4>1 DEF StartRun, StartAttempt, At
      <4>3. Others(p) /\ Pc(p)' = Pc(p)
        BY <1>0, <4>1 DEF Others, Pc
      <4>4. Attempting(p)'
        <5>1. Mine(p, journal[r], proc[p].attempt) /\ Begun(journal[r], proc[p].attempt)
          BY <1>0, <4>1 DEF Attempting, Executes
        <5>2. Mine(p, journal'[r], proc[p].attempt)
          BY <3>3, <3>6, <4>2, <5>1 DEF Mine, WrittenBy
        <5>3. Begun(journal'[r], proc[p].attempt)
          BY <3>7, <5>1 DEF Begun
        <5> QED
          BY <4>1, <4>3, <5>2, <5>3 DEF Attempting
      <4> QED
        BY <1>1, <2>3, <3>2, <4>3, <4>4 DEF JournalInv
    <3> QED
      BY <2>9, <3>8, <3>9, <3>10
  <2>10. CASE SaveCheckpoint(p) \/ EngineStops(p) \/ EngineFails(p) \/ EngineClears(p)
           \/ EngineReturns(p) \/ Terminated(p) \/ StopHeartbeat(p)
    <3>1. UNCHANGED journal /\ Pc(p) \in Executes
      BY <2>10 DEF SaveCheckpoint, EngineStops, EngineFails, EngineClears, EngineReturns, Terminated, StopHeartbeat,
         files, At, Executes
    <3>2. Others(p) /\ proc'[p].run = r /\ proc'[p].attempt = proc[p].attempt
          /\ \/ Pc(p)' \in {"run", "cleared", "beat"} /\ proc'[p].beating = proc[p].beating
             \/ Pc(p)' = "end" /\ ~proc'[p].beating
      <4>1. CASE SaveCheckpoint(p)
        BY <1>0, <4>1 DEF SaveCheckpoint, At, Others, Pc
      <4>2. CASE EngineClears(p)
        <5>1. Goto(p, "cleared") /\ "cleared" \in Holds
          BY <4>2 DEF EngineClears, Holds, Inside, Works, Executes
        <5> QED
          BY <1>0, <5>1, Goes DEF Same
      <4>3. CASE EngineStops(p) \/ EngineFails(p) \/ EngineReturns(p) \/ Terminated(p)
        <5>1. PICK how : proc' = [proc EXCEPT ![p] = [proc[p] EXCEPT !.pc = "beat", !.how = how]]
          BY <1>0, <4>3 DEF EngineStops, EngineFails, EngineReturns, Terminated, EngineEnds
        <5> QED
          BY <1>0, <5>1 DEF Others, Pc, Process
      <4>4. CASE StopHeartbeat(p)
        <5>1. proc' = [proc EXCEPT ![p] = [proc[p] EXCEPT !.pc = "end", !.beating = FALSE]]
          BY <1>0, <4>4 DEF StopHeartbeat
        <5> QED
          BY <1>0, <5>1 DEF Others, Pc, Process
      <4> QED
        BY <2>10, <4>1, <4>2, <4>3, <4>4
    <3>3. Attempting(p)'
      <4>1. Mine(p, journal[r], proc[p].attempt) /\ Begun(journal[r], proc[p].attempt)
            /\ (proc[p].beating => Pc(p) \in {"run", "cleared", "beat"})
        BY <1>0, <3>1 DEF Attempting
      <4>2. Pc(p)' \in Executes /\ Pc(p)' \notin {"meta", "index", "open new", "open"}
        BY <3>2 DEF Executes
      <4>3. journal'[proc'[p].run] = journal[r] /\ proc'[p].attempt = proc[p].attempt
        BY <3>1, <3>2
      <4>4. proc'[p].beating => Pc(p)' \in {"run", "cleared", "beat"}
        BY <3>2, <4>1
      <4> QED
        BY <4>1, <4>2, <4>3, <4>4 DEF Attempting
    <3> QED
      BY <1>1, <2>3, <3>1, <3>2, <3>3 DEF JournalInv
  <2>11. CASE EndAttempt(p)
    <3>1. Pc(p) = "end" /\ Goto(p, "unlock")
      BY <2>11 DEF EndAttempt, At
    <3>2. Pc(p) \in Works
      BY <3>1 DEF Works, Executes
    <3>3. Others(p) /\ Same(p) /\ Pc(p)' = "unlock"
      BY <1>0, <3>1, Goes DEF Holds, Inside, Works
    <3>4. Attempting(p)'
      BY <1>0, <3>1, <3>3 DEF Attempting, Executes, Same
    <3> QED
      BY <1>1, <2>3, <3>2, <3>3, <3>4 DEF JournalInv
  <2> QED
    BY <1>3, <2>4, <2>5, <2>6, <2>7, <2>8, <2>9, <2>10, <2>11 DEF Prepares, Attempts
<1> QED
  BY <1>2, <1>3, Steps

----------------------------------------------------------------------------
(* Completion                                                              *)

LEMMA OverInit == Init => OverInv
<1> SUFFICES ASSUME Init PROVE OverInv
  OBVIOUS
<1>1. \A p \in Pid : Pc(p) = "new"
  BY DEF Init, Pc, Unstarted
<1>2. \A r \in Run : ~Completed(r)
  BY DEF Init, Completed
<1> QED
  BY <1>1, <1>2 DEF OverInv, Over, Clear, Finishing

\* A Run becomes completed only by its own process.
LEMMA Completes ==
    ASSUME Typed, JournalInv, NEW p \in Pid, Prepares(p) \/ Attempts(p) \/ Unlock(p) \/ Stops(p),
           NEW r \in Run, Completed(r)'
    PROVE  Completed(r) \/ (EndAttempt(p) /\ r = proc[p].run /\ proc[p].how = "completed")
<1>0. FilesTyped
  BY DEF Typed
<1>1. CASE journal' = journal
  BY <1>1 DEF Completed
<1>2. CASE proc[p].run \in Run /\ \E e \in Record : Writes(p, e)
  <2>1. PICK e \in Record : /\ Append1(proc[p].run, e)
                            /\ CompletedEvent(e) => EndAttempt(p) /\ proc[p].how = "completed"
    BY <1>2 DEF Writes
  <2>2. journal' = [journal EXCEPT ![proc[p].run] = Append(journal[proc[p].run], e)]
    BY <1>0, <1>2, <2>1, AppendTyped
  <2>3. CASE r # proc[p].run
    <3>1. journal'[r] = journal[r]
      BY <1>0, <2>2, <2>3 DEF FilesTyped
    <3> QED
      BY <3>1 DEF Completed
  <2>4. CASE r = proc[p].run
    <3>1. journal'[r] = Append(journal[r], e)
      BY <1>0, <2>2, <2>4 DEF FilesTyped
    <3>2. PICK i \in DOMAIN journal'[r] : CompletedEvent(journal'[r][i])
      BY DEF Completed
    <3>3. (i \in DOMAIN journal[r] /\ journal'[r][i] = journal[r][i]) \/ journal'[r][i] = e
      BY <1>0, <3>1, Appended DEF FilesTyped
    <3> QED
      BY <2>1, <2>4, <3>2, <3>3 DEF Completed
  <2> QED
    BY <2>3, <2>4
<1> QED
  BY <1>1, <1>2, WhatIsWritten

\* The process at work on a Run, on its way to the end of its Attempt.
LEMMA ClearStep ==
    ASSUME Typed, RunInv, JournalInv, NEW p \in Pid, Inner(p), ~Decide(p), Clear(p)
    PROVE  Clear(p)'
<1>0. proc[p] \in Process /\ proc \in [Pid -> Process] /\ ProcTyped /\ FilesTyped /\ Job(p) \in Pipeline
      /\ Attempting(p)
  BY JobIsPipeline DEF Typed, ProcTyped, JournalInv
<1>1. CASE ClearForFresh(p) \/ WriteMeta(p) \/ AppendIndex(p) \/ StartRun(p) \/ EndAttempt(p)
  <2>1. PICK x \in {"control", "index", "open new", "open", "unlock"} : Goto(p, x)
    BY <1>1 DEF ClearForFresh, WriteMeta, AppendIndex, StartRun, EndAttempt
  <2>2. x \in Holds \cup Outside
    BY DEF Holds, Inside, Works
  <2> QED
    BY <1>0, <2>1, <2>2, Goes DEF Clear, Finishing
<1>2. CASE RemoveStop(p) \/ StartAttempt(p)
  <2>1. Pc(p)' \in {"open", "meta", "run"}
    BY <1>0, <1>2 DEF RemoveStop, StartAttempt, Pc, Process
  <2> QED
    BY <2>1 DEF Clear, Finishing
<1>3. CASE Heartbeat(p)
  BY <1>3 DEF Heartbeat, Clear, Finishing, Unsaved, Pc
<1>4. CASE SaveCheckpoint(p)
  <2>1. Pc(p)' = "run"
    BY <1>4 DEF SaveCheckpoint, At, Pc
  <2> QED
    BY <2>1 DEF Clear, Finishing
<1>5. CASE EngineStops(p) \/ EngineFails(p) \/ Terminated(p)
  <2>1. Pc(p)' = "beat" /\ proc'[p].how \in {"stopped", "failed", "sigterm"}
    BY <1>0, <1>5 DEF EngineStops, EngineFails, Terminated, EngineEnds, Pc, Process
  <2> QED
    BY <2>1 DEF Clear, Finishing
<1>6. CASE EngineClears(p)
  <2>1. Pc(p) = "run" /\ ckpt[Job(p)] = proc[p].run /\ ckpt' = [ckpt EXCEPT ![Job(p)] = NoRun] /\ Goto(p, "cleared")
    BY <1>6 DEF EngineClears, At
  <2>2. proc[p].run \in Run /\ NoRun \notin Run
    BY <1>0, <2>1, JobsAssumption DEF ProcTyped, Works, Executes
  <2>3. \A l \in Pipeline : ckpt[l] = proc[p].run => l = Job(p)
    BY <1>0, <2>1, <2>2 DEF RunInv, CheckpointIsKnown
  <2>4. proc'[p].run = proc[p].run
    BY <1>0, <2>1, Goes DEF Same, Holds, Inside, Works, Executes
  <2> QED
    BY <1>0, <2>1, <2>2, <2>3, <2>4 DEF Clear, Unsaved, FilesTyped
<1>7. CASE EngineReturns(p)
  <2>1. Pc(p) = "cleared" /\ ckpt' = ckpt /\ proc'[p].run = proc[p].run
    BY <1>0, <1>7 DEF EngineReturns, EngineEnds, At, Process, files
  <2> QED
    BY <2>1 DEF Clear, Finishing, Unsaved
<1>8. CASE StopHeartbeat(p)
  <2>1. Pc(p) = "beat" /\ ckpt' = ckpt /\ proc'[p].run = proc[p].run /\ proc'[p].how = proc[p].how /\ Pc(p)' = "end"
    BY <1>0, <1>8 DEF StopHeartbeat, At, Pc, Process, files
  <2> QED
    BY <2>1 DEF Clear, Finishing, Unsaved
<1> QED
  BY <1>1, <1>2, <1>3, <1>4, <1>5, <1>6, <1>7, <1>8 DEF Inner, Attempts

\* What others know stays true when one process changes.
LEMMA OverStays ==
    ASSUME NEW r \in Run, Over(r), Completed(r)' => Completed(r), Unsaved(r) => Unsaved(r)',
           Completed(r) /\ r \in meta => r \in meta',
           NEW p \in Pid, \A q \in Pid \ {p} : proc'[q] = proc[q],
           proc'[p].pc \in Works => proc'[p].run # r
    PROVE  Over(r)'
  BY DEF Over, Pc

LEMMA OverStep ==
    ASSUME Typed, LockInv, RunInv, JournalInv, OverInv, [Next]_vars
    PROVE  OverInv'
<1>0. /\ ProcTyped /\ FilesTyped /\ proc \in [Pid -> Process] /\ NoRun \notin Run
      /\ \A q \in Pid : Attempting(q) /\ Clear(q) /\ Placed(q)
      /\ \A r \in Run : Over(r)
  BY JobsAssumption DEF Typed, ProcTyped, JournalInv, OverInv, RunInv
<1>1. CASE Control
  <2>1. UNCHANGED <<proc, ckpt, meta, journal>>
    BY <1>1, ControlIs
  <2> QED
    BY <1>0, <2>1 DEF OverInv, Over, Clear, Completed, Unsaved, Finishing, Pc
<1>2. ASSUME NEW p \in Pid, Prepares(p) \/ Attempts(p) \/ Unlock(p) \/ Stops(p)
      PROVE  OverInv'
  <2> PICK r \in Run \cup {NoRun} : r = proc[p].run
    BY <1>0 DEF Process
  <2>1. Others(p) => \A q \in Pid \ {p} : proc'[q] = proc[q]
    BY <1>0 DEF Others
  <2>2. ASSUME NEW q \in Pid, proc'[q] = proc[q], Unsaved(proc[q].run) => Unsaved(proc[q].run)'
        PROVE  Clear(q)'
    BY <1>0, <2>2 DEF Clear, Finishing, Pc, Unsaved
  <2>3. ASSUME Others(p), Pc(p)' \notin Works, UNCHANGED <<ckpt, journal>>,
               \A s \in Run : Completed(s) /\ s \in meta => s \in meta'
        PROVE  OverInv'
    <3>1. \A s \in Run : Over(s)'
      BY <1>0, <2>1, <2>3, OverStays DEF Completed, Unsaved, Pc
    <3>2. \A q \in Pid \ {p} : Clear(q)'
      BY <2>1, <2>2, <2>3 DEF Unsaved
    <3>3. Clear(p)'
      BY <2>3 DEF Clear, Finishing, Works, Executes
    <3> QED
      BY <3>1, <3>2, <3>3 DEF OverInv
  <2>4. CASE Unlock(p) \/ Stops(p)
    <3>1. Others(p) /\ Pc(p)' \in {"next", "gone"}
      BY <1>0, <2>4, OutIs DEF Pc
    <3>2. Pc(p)' \notin Works
      BY <3>1 DEF Works, Executes
    <3>3. UNCHANGED <<ckpt, journal>> /\ (meta' = meta \/ (Pc(p) = "index" /\ meta' = meta \ {r}))
      BY <1>0, <2>4, UnlockIs, StopsIsGone DEF IndexFails, At
    <3>4. \A s \in Run : Completed(s) /\ s \in meta => s \in meta'
      <4>1. Pc(p) = "index" => Pc(p) \in Works
        BY DEF Works
      <4> QED
        BY <1>0, <3>3, <4>1 DEF Over
    <3> QED
      BY <2>3, <3>1, <3>2, <3>3, <3>4
  <2>5. CASE Listen(p) \/ LockPipeline(p) \/ LockWorktree(p) \/ ShareWorktree(p)
    <3>1. PICK x \in {"lock", "worktree", "decide"} : Goto(p, x)
      BY <2>5 DEF Listen, LockPipeline, LockWorktree, ShareWorktree
    <3>2. x \in Holds \cup Outside /\ x \notin Works
      BY DEF Holds, Outside, Inside, Works, Executes
    <3>3. Others(p) /\ Pc(p)' \notin Works
      BY <1>0, <3>1, <3>2, Goes
    <3>4. UNCHANGED <<ckpt, journal, meta>>
      BY <2>5 DEF Listen, LockPipeline, LockWorktree, ShareWorktree, files
    <3> QED
      BY <2>3, <3>3, <3>4
  <2>6. CASE Decide(p)
    <3>1. PICK i \in Identities(p) :
            proc' = [proc EXCEPT ![p].run = i, ![p].pc = IF p \in Fresh THEN "clear" ELSE "control"]
      BY <2>6 DEF Decide
    <3>2. Pc(p) = "decide" /\ UNCHANGED <<ckpt, meta, journal>> /\ i \in Run
      BY <1>0, <2>6, IdentityIsRun DEF Decide, At, Typed
    <3>3. Others(p) /\ proc'[p].run = i /\ Pc(p)' \in {"clear", "control"}
      BY <1>0, <3>1 DEF Process, ProcTyped, Others, Pc
    <3>4. ~Completed(i)
      <4>1. Job(p) \in Pipeline
        BY <1>0, JobIsPipeline
      <4>2. CASE Found(p) # NoRun
        <5>1. i = ckpt[Job(p)]
          BY <4>2 DEF Identities, Found
        <5> QED
          BY <1>0, <3>2, <4>1, <5>1 DEF Over, Unsaved
      <4>3. CASE Found(p) = NoRun /\ Requested[p] # NoRun
        <5>1. i \notin meta
          BY <4>3 DEF Identities
        <5> QED
          BY <1>0, <3>2, <5>1 DEF Over
      <4>4. CASE Found(p) = NoRun /\ Requested[p] = NoRun
        <5> DEFINE unused == {s \in Run : journal[s] = <<>> /\ s \notin meta
                            /\ \A q \in Pid : proc[q].run # s /\ Requested[q] # s}
        <5>1. i \in IF unused = {} THEN {} ELSE {CHOOSE s \in unused : TRUE}
          BY <4>4 DEF Identities
        <5>2. i \in unused
          <6> HIDE DEF unused
          <6> QED BY <5>1
        <5> QED
          BY <1>0, <5>2 DEF Over
      <4> QED
        BY <4>2, <4>3, <4>4
    <3>5. ASSUME NEW s \in Run PROVE Over(s)'
      <4>1. CASE s = i
        BY <3>2, <3>4, <4>1 DEF Over, Completed
      <4>2. CASE s # i
        BY <1>0, <2>1, <3>2, <3>3, <4>2, OverStays DEF Completed, Unsaved
      <4> QED
        BY <4>1, <4>2
    <3>6. \A q \in Pid \ {p} : Clear(q)'
      BY <2>1, <2>2, <3>2, <3>3 DEF Unsaved
    <3>7. Clear(p)'
      BY <3>3 DEF Clear, Finishing
    <3> QED
      BY <3>5, <3>6, <3>7 DEF OverInv
  <2>7. ASSUME Inner(p), ~Decide(p) PROVE OverInv'
    <3>1. Others(p) /\ Pc(p) \in Works /\ Pc(p)' \in Works /\ proc'[p].run = r
      BY <1>0, <2>7, InnerIs DEF Pc
    <3>2. r \in Run /\ Pc(p) # "unlock"
      <4>1. Pc(p) # "unlock"
        BY <1>0, <2>7 DEF Inner, Attempts, ClearForFresh, RemoveStop, WriteMeta, AppendIndex, StartRun, StartAttempt,
           Heartbeat, SaveCheckpoint, EngineStops, EngineFails, EngineClears, EngineReturns, Terminated, StopHeartbeat,
           EndAttempt, At, Attempting
      <4> QED
        BY <1>0, <3>1, <4>1 DEF ProcTyped
    <3>3. ~Completed(r)
      BY <1>0, <3>1, <3>2 DEF Over
    <3>4. meta \subseteq meta'
      BY <2>7 DEF Inner, Attempts, ClearForFresh, RemoveStop, WriteMeta, AppendIndex, StartRun, StartAttempt, Heartbeat,
         SaveCheckpoint, EngineStops, EngineFails, EngineClears, EngineReturns, Terminated, StopHeartbeat, EndAttempt, files
    <3>5. \E x \in {r, NoRun} : ckpt' = ckpt \/ ckpt' = [ckpt EXCEPT ![Job(p)] = x]
      BY <2>7 DEF Inner, Attempts, ClearForFresh, RemoveStop, WriteMeta, AppendIndex, StartRun, StartAttempt, Heartbeat,
         SaveCheckpoint, EngineStops, EngineFails, EngineClears, EngineReturns, Terminated, StopHeartbeat, EndAttempt, files
    <3>6. ASSUME NEW s \in Run, s # r, Unsaved(s) PROVE Unsaved(s)'
      BY <1>0, <3>5, <3>6 DEF Unsaved, FilesTyped
    <3>7. ASSUME NEW s \in Run, s # r PROVE Over(s)'
      <4>1. Completed(s)' => Completed(s)
        BY <1>2, <3>7, Completes
      <4> QED
        BY <1>0, <2>1, <3>1, <3>4, <3>6, <3>7, <4>1, OverStays DEF Pc
    <3>8. Over(r)'
      <4> SUFFICES ASSUME Completed(r)' PROVE Over(r)'
        BY DEF Over
      <4>1. EndAttempt(p) /\ proc[p].how = "completed"
        BY <1>2, <3>2, <3>3, Completes
      <4>2. Pc(p) = "end" /\ Goto(p, "unlock") /\ UNCHANGED <<ckpt, meta>>
        BY <4>1 DEF EndAttempt, At
      <4>3. Pc(p)' = "unlock"
        BY <1>0, <4>2, Goes DEF Holds, Inside, Works
      <4>4. Unsaved(r)'
        BY <1>0, <4>1, <4>2 DEF Clear, Finishing, Unsaved
      <4>5. r \in meta'
        BY <1>0, <3>1, <4>2 DEF Placed, RunInv, Executes
      <4>6. ASSUME NEW q \in Pid, Pc(q)' \in Works, proc'[q].run = r PROVE Pc(q)' = "unlock"
        <5>1. CASE q = p
          BY <4>3, <5>1
        <5>2. CASE q # p
          <6>1. Pc(q) \in Works /\ proc[q].run = proc[p].run
            BY <2>1, <3>1, <4>6, <5>2 DEF Pc
          <6> QED
            BY <1>0, <3>1, <5>2, <6>1, Alone
        <5> QED
          BY <5>1, <5>2
      <4> QED
        BY <4>4, <4>5, <4>6 DEF Over
    <3>9. ASSUME NEW q \in Pid \ {p} PROVE Clear(q)'
      <4>1. proc'[q] = proc[q]
        BY <2>1, <3>1
      <4>2. CASE Pc(q) \in Works
        <5>1. proc[q].run # r /\ proc[q].run \in Run
          BY <1>0, <3>1, <4>2, Alone DEF ProcTyped
        <5> QED
          BY <2>2, <3>6, <4>1, <5>1
      <4>3. CASE Pc(q) \notin Works
        BY <4>1, <4>3 DEF Clear, Finishing, Pc, Works, Executes
      <4> QED
        BY <4>2, <4>3
    <3>10. Clear(p)'
      BY <1>0, <2>7, ClearStep
    <3> QED
      BY <3>7, <3>8, <3>9, <3>10 DEF OverInv
  <2> QED
    BY <1>2, <2>4, <2>5, <2>6, <2>7 DEF Prepares, Inner
<1> QED
  BY <1>1, <1>2, Steps

----------------------------------------------------------------------------
(* The theorems                                                            *)

LEMMA Inductive == Spec => []IInv
<1>1. Init => IInv
  BY TypeInit, LockInit, RunInit, JournalInit, OverInit DEF IInv
<1>2. IInv /\ [Next]_vars => IInv'
  <2> SUFFICES ASSUME IInv, [Next]_vars PROVE IInv'
    OBVIOUS
  <2>1. Typed /\ LockInv /\ RunInv /\ JournalInv /\ OverInv
        /\ (\A r \in Run : Blocks(r)) /\ (\A p \in Pid : Attempting(p))
    BY DEF IInv, JournalInv
  <2>2. Typed'
    BY <2>1, TypeStep
  <2>3. LockInv'
    BY <2>1, LockStep
  <2>4. RunInv'
    BY <2>1, RunStep
  <2>5. JournalInv'
    BY <2>1, JournalStep
  <2>6. OverInv'
    BY <2>1, OverStep
  <2> QED
    BY <2>2, <2>3, <2>4, <2>5, <2>6 DEF IInv
<1> QED
  BY <1>1, <1>2, PTL DEF Spec

\* A process is where its type says, and inside unless it says otherwise.
LEMMA InsideIs ==
    ASSUME ProcTyped, NEW p \in Pid, InWorktree(p) \/ Executing(p)
    PROVE  Pc(p) \in Inside
<1>1. Pc(p) \in Holds \cup Outside
  BY DEF ProcTyped, Process, Pc
<1> QED
  BY <1>1 DEF InWorktree, Executing, Holds, Outside, Inside, Works, Executes

(* THEOREM: every variable keeps its type, and a lock is held only by a    *)
(* live process that is at that Pipeline (RunLock, RunIdentity).           *)
THEOREM TypeCorrect == Spec => []TypeOK
<1>1. IInv => TypeOK
  <2> SUFFICES ASSUME IInv PROVE TypeOK
    OBVIOUS
  <2>0. ProcTyped /\ FilesTyped /\ LockInv /\ NoPid \notin Pid
    BY JobsAssumption DEF IInv, Typed
  <2>1. \A p \in Pid : proc[p].run \in Run \cup {NoRun} /\ proc[p].attempt \in Nat /\ proc[p].job \in DOMAIN Jobs[p]
    BY <2>0 DEF ProcTyped, Process
  <2>2. \A p \in Pid : Pc(p) \in Holds => Alive(p)
    BY DEF Alive, Pc, Holds, Inside, Works, Executes
  <2>3. \A l \in Pipeline : lock[l] # NoPid => Alive(lock[l]) /\ Job(lock[l]) = l
    BY <2>0, <2>2 DEF LockInv, FilesTyped
  <2>4. worktree # NoPid => Alive(worktree)
    BY <2>0, <2>2 DEF LockInv, FilesTyped, Holds
  <2>5. \A r \in Run : \A i \in DOMAIN journal[r] : journal[r][i].type \in Types
    BY <2>0, Events DEF Record
  <2> QED
    BY <2>0, <2>1, <2>3, <2>4, <2>5 DEF TypeOK, ProcTyped, FilesTyped
<1> QED
  BY <1>1, Inductive, PTL

(* THEOREM: a checkpoint always belongs to a recorded Run of its Pipeline, *)
(* wherever a process dies and whoever comes next (prepare_run).           *)
THEOREM CheckpointsAreKnown == Spec => []CheckpointIsKnown
<1>1. IInv => CheckpointIsKnown
  BY DEF IInv, RunInv
<1> QED
  BY <1>1, Inductive, PTL

(* THEOREM: of two processes in the worktree one was started with          *)
(* --allow-shared-workdir (acquire_run_locks).                             *)
THEOREM WorktreeIsShared == Spec => []SharedByConsent
<1>1. IInv => SharedByConsent
  <2> SUFFICES ASSUME IInv, NEW p \in Pid, NEW q \in Pid, InWorktree(p), InWorktree(q), p # q,
                      p \notin Sharing, q \notin Sharing
               PROVE  FALSE
    BY DEF SharedByConsent
  <2>1. Pc(p) \in Inside /\ Pc(q) \in Inside
    BY InsideIs DEF IInv, Typed
  <2> QED
    BY <2>1 DEF IInv, LockInv
<1> QED
  BY <1>1, Inductive, PTL

(* THEOREM: the journal of a Run is a sequence of Attempts, each of one    *)
(* process, whatever fails and dies in between (prepare_run, Heartbeat).   *)
THEOREM JournalIsAttempts == Spec => []AttemptsAreBlocks
<1>1. IInv => AttemptsAreBlocks
  BY DEF IInv, JournalInv, Blocks, AttemptsAreBlocks
<1> QED
  BY <1>1, Inductive, PTL

(* THEOREM: from its AttemptStarted to its AttemptEnded, the process at    *)
(* work on a Run is the one that the journal names, and the Run's status   *)
(* is running (derive_status, read by `pas stop` and `pas kill`).          *)
THEOREM WorkersAreNamed == Spec => []WorkingIsRunning
<1>1. IInv => WorkingIsRunning
  <2> SUFFICES ASSUME IInv, NEW p \in Pid, Executing(p)
               PROVE  Status(proc[p].run) = "running" /\ RecordedPid(proc[p].run) = p
    BY DEF WorkingIsRunning
  <2> PICK r \in Run, n \in Nat : r = proc[p].run /\ n = proc[p].attempt
    BY DEF IInv, Typed, ProcTyped, Process, Executing, Works, Executes
  <2>1. FilesTyped /\ Blocks(r) /\ Mine(p, journal[r], n) /\ Begun(journal[r], n)
    BY DEF IInv, Typed, JournalInv, Attempting, Executing, Executes
  <2>2. \A i \in DOMAIN journal[r] : journal[r][i].attempt \in Nat
    BY <2>1, Events DEF Record
  <2>3. LastAttempt(r) = n
    <3>1. \A i \in DOMAIN journal[r] : journal[r][i].attempt <= n
      BY <2>1, <2>2 DEF Mine
    <3>2. \E i \in DOMAIN journal[r] : journal[r][i].attempt = n
      BY <2>1 DEF Begun
    <3> QED
      BY <2>1, <3>1, <3>2, LastAttemptIs
  <2>4. \A i \in OfLast(r) : i \in DOMAIN journal[r] /\ (Announced(journal[r][i]) \/ WrittenBy(p, journal[r][i]))
    BY <2>1, <2>2, <2>3 DEF Mine, OfLast
  <2>5. Ended(r) = {}
    BY <2>4 DEF Ended, Announced, WrittenBy
  <2>6. RecordedPid(r) = p
    <3> DEFINE signs == {journal[r][i].pid : i \in
                    {i \in OfLast(r) : journal[r][i].type \in {"Heartbeat", "AttemptStarted"}}}
    <3>1. \A x \in signs : x = p
      BY <2>4 DEF Announced, WrittenBy
    <3>2. PICK i \in DOMAIN journal[r] : journal[r][i].attempt = n /\ journal[r][i].type = "AttemptStarted"
      BY <2>1 DEF Begun
    <3>3. journal[r][i].pid \in signs
      BY <2>3, <3>2 DEF OfLast
    <3>4. signs = {p}
      <4> HIDE DEF signs
      <4> QED BY <3>1, <3>3
    <3>5. RecordedPid(r) = IF signs = {} THEN NoPid ELSE CHOOSE x \in signs : TRUE
      BY DEF RecordedPid
    <3> HIDE DEF signs
    <3> QED
      BY <3>4, <3>5
  <2>7. Alive(p)
    BY DEF Executing, Alive, Pc
  <2> QED
    BY <2>5, <2>6, <2>7 DEF Status
<1> QED
  BY <1>1, Inductive, PTL

(* THEOREM: a stop request is only ever removed by an Attempt that has not *)
(* begun, so it is not lost for the Attempt it was made for (RunControl).  *)
THEOREM StopsAreKept == Spec => StopOutlivesNoAttempt
<1> DEFINE P == \A r \in Run : stopFile[r] # <<>> /\ stopFile'[r] = <<>> =>
        \A p \in Pid : Executing(p) /\ proc[p].run = r => proc[p].attempt # stopFile[r][1]
<1>1. IInv /\ [Next]_vars => [P]_vars
  <2> SUFFICES ASSUME IInv, [Next]_vars, NEW r \in Run, stopFile[r] # <<>>, stopFile'[r] = <<>>,
                      NEW p \in Pid, Executing(p), proc[p].run = r
               PROVE  FALSE
    OBVIOUS
  <2>1. ProcTyped /\ FilesTyped /\ LockInv /\ RunInv
    BY DEF IInv, Typed
  <2>2. PICK q \in Pid : RemoveStop(q)
    <3>1. stopFile' # stopFile
      OBVIOUS
    <3>2. CASE Control
      <4>1. StopWrites
        BY <3>1, <3>2 DEF Control, Tick, StopReads, KillVerifies, KillTerm, KillDone, files, vars
      <4>2. stopFile' = [stopFile EXCEPT ![stopper.run] = IF @ = <<>> THEN <<stopper.attempt>> ELSE @]
        BY <4>1 DEF StopWrites
      <4>3. stopFile'[r] = stopFile[r] \/ stopFile[r] = <<>>
        BY <2>1, <4>2 DEF FilesTyped
      <4> QED
        BY <4>3
    <3>3. ASSUME NEW q \in Pid, Prepares(q) \/ Attempts(q) \/ Unlock(q) \/ Stops(q)
          PROVE  RemoveStop(q)
      <4>1. CASE Prepares(q) \/ Attempts(q)
        BY <3>1, <4>1 DEF Prepares, Attempts, Listen, LockPipeline, LockWorktree, ShareWorktree, Decide, ClearForFresh,
           RemoveStop, WriteMeta, AppendIndex, StartRun, StartAttempt, Heartbeat, SaveCheckpoint, EngineStops, EngineFails,
           EngineClears, EngineReturns, Terminated, StopHeartbeat, EndAttempt, files
      <4>2. CASE Unlock(q) \/ Stops(q)
        BY <3>1, <4>2 DEF Unlock, Stops, RefusePipeline, RefuseWorktree, RefuseIdentity, IndexFails, StartFails, Dies,
           KillAfterGrace
      <4> QED
        BY <3>3, <4>1, <4>2
    <3> QED
      BY <3>2, <3>3, Steps
  <2>3. Pc(q) = "control" /\ stopFile' = [stopFile EXCEPT ![proc[q].run] = <<>>]
    BY <2>2 DEF RemoveStop, At
  <2>4. proc[q].run = r
    BY <2>1, <2>3 DEF FilesTyped
  <2>5. p = q
    BY <2>1, <2>3, <2>4, Alone DEF Executing, Works, Executes
  <2> QED
    BY <2>3, <2>5 DEF Executing
<1> QED
  BY <1>1, Inductive, PTL DEF Spec, StopOutlivesNoAttempt

(* THEOREM: a completed Run is over: nothing is added to its journal and   *)
(* no checkpoint is saved for it (clear_checkpoint, then AttemptEnded).    *)
THEOREM CompletedStays == Spec => CompletedIsFinal
<1> DEFINE P == \A r \in Run : Status(r) = "completed" =>
        journal'[r] = journal[r] /\ \A l \in Pipeline : ckpt'[l] # r
<1>1. IInv /\ IInv' /\ [Next]_vars => [P]_vars
  <2> SUFFICES ASSUME IInv, IInv', [Next]_vars, NEW r \in Run, Status(r) = "completed"
               PROVE  journal'[r] = journal[r] /\ \A l \in Pipeline : ckpt'[l] # r
    OBVIOUS
  <2>1. ProcTyped /\ FilesTyped /\ LockInv /\ RunInv /\ Typed /\ JournalInv /\ Over(r) /\ Over(r)' /\ Blocks(r)
    BY DEF IInv, Typed, OverInv, JournalInv
  <2>2. Completed(r)
    <3>1. Ended(r) # {} /\ journal[r][CHOOSE i \in Ended(r) : \A j \in Ended(r) : i <= j].why = "completed"
      BY DEF Status
    <3>2. Ended(r) \subseteq DOMAIN journal[r] /\ DOMAIN journal[r] \subseteq Nat
      BY <2>1, Events DEF Ended, OfLast
    <3>3. \A i, j \in Ended(r) : ~(i < j)
      BY <2>1, <3>2 DEF Blocks, Ended, OfLast, Rank
    <3>4. \A i, j \in Ended(r) : i <= j
      BY <3>2, <3>3
    <3>5. (CHOOSE i \in Ended(r) : \A j \in Ended(r) : i <= j) \in Ended(r)
      BY <3>1, <3>4
    <3> QED
      BY <3>1, <3>2, <3>5 DEF Completed, CompletedEvent, Ended
  <2>3. journal'[r] = journal[r]
    <3>1. CASE Control
      BY <3>1, ControlIs
    <3>2. ASSUME NEW p \in Pid, Prepares(p) \/ Attempts(p) \/ Unlock(p) \/ Stops(p), journal'[r] # journal[r]
          PROVE  FALSE
      <4>1. proc[p].run = r
        BY <2>1, <3>2, BlocksStep
      <4>2. \E e \in Record : Writes(p, e)
        BY <2>1, <3>2, WhatIsWritten
      <4>3. Pc(p) \in {"open new", "open"} \cup Executes
        BY <2>1, <4>2 DEF Writes, StartRun, StartAttempt, Heartbeat, EndAttempt, At, JournalInv, Attempting, Executes
      <4> QED
        BY <2>1, <2>2, <4>1, <4>3 DEF Over, Works, Executes
    <3> QED
      BY <3>1, <3>2, Steps
  <2>4. Completed(r)'
    BY <2>2, <2>3 DEF Completed
  <2> QED
    BY <2>1, <2>3, <2>4 DEF Over, Unsaved
<1> QED
  BY <1>1, Inductive, PTL DEF Spec, CompletedIsFinal

(* THEOREM: whoever comes in whatever order, the state has its types and   *)
(* two processes are in one worktree only when one of them was told to     *)
(* share it (acquire_locks).                                               *)
THEOREM LocksDoTheirWork == Spec => []LocksAreHeld
<1> QED
  BY TypeCorrect, WorktreeIsShared, PTL DEF LocksAreHeld

(* THEOREM: a stop request lives as long as the Attempt it was made for,   *)
(* and a completed Run is never continued (run_pipeline, `pas stop`).      *)
THEOREM EndsStay == Spec => EndsAreHonoured
<1> QED
  BY StopsAreKept, CompletedStays, PTL DEF EndsAreHonoured
=============================================================================
