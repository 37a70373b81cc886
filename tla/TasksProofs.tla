----------------------------- MODULE TasksProofs -----------------------------
(***************************************************************************)
(* Proofs about Tasks for every Epic, any number of Runs, commits, crashes *)
(* and failures: a Task is in the hands of one Run, it is worked on after  *)
(* its blockers, what is recorded for it was made for it, and when it is   *)
(* closed its commits are upstream.                                        *)
(***************************************************************************)
EXTENDS Tasks, FiniteSetTheorems, SequenceTheorems, TLAPS

Pc      == {"off", "top", "run", "ready", "claim", "verified", "ended", "over"}
Stage   == {"select", "work", "close"}
Maybe   == Task \cup {NoTask}
Result  == {"none", "more", "worked", "again", "unpublished", "closed", "error", "done", "blocked"}
Made    == [run : Run, task : Task, lost : BOOLEAN]
Process == [pc : Pc, stage : Stage, task : Maybe, before : SUBSET Nat, taskBefore : Maybe,
            children : SUBSET Task, pick : Maybe, result : Result]

GitTyped ==
    /\ commits \in Seq(Made)
    /\ upstream \subseteq DOMAIN commits
    /\ local \in [Run -> SUBSET DOMAIN commits]
    /\ recorded \in [Run -> [Task -> SUBSET DOMAIN commits]]
RunTyped ==
    /\ tracker \in [Task -> {"open", "in_progress", "closed"}]
    /\ ckpt \in [Run -> [stage : Stage, task : Maybe]]
    /\ run \in [Run -> Process]
    /\ orphans \in [Run -> SUBSET Task]

InAttempt(r) == run[r].pc \notin {"off", "top", "over"}

(* What the process has in its context at each point of its walk, and what *)
(* the result of an attempt says.                                          *)
Control(r) ==
    LET me == run[r]  disk == ckpt[r]
    IN  /\ disk.task = NoTask <=> disk.stage = "select"
        /\ me.pc = "top" => (me.task = NoTask <=> me.stage = "select")
        /\ InAttempt(r) =>
             /\ me.stage = disk.stage /\ me.taskBefore = disk.task
             /\ me.task = IF me.pc = "ended" /\ me.result = "closed" THEN NoTask ELSE disk.task
             /\ me.before \subseteq DOMAIN commits
        /\ me.pc \in {"ready", "claim"} => me.stage = "select"
        /\ me.pc = "verified" => me.stage = "close"
        /\ me.pick # NoTask <=> (me.pc = "claim" \/ (me.pc = "ended" /\ me.result = "more"))
        /\ me.pc = "ended" =>
             /\ me.result \in {"more", "done", "blocked"} => me.stage = "select"
             /\ me.result \in {"worked", "again"} => me.stage = "work"
             /\ me.result \in {"unpublished", "closed"} => me.stage = "close"
             /\ me.result # "none"

ControlInv == \A r \in Run : Control(r)

(* The Tasks of a Run, the one included that it has just claimed.          *)
Held(r) == (InHand(r) \cup (IF run[r].pc = "ended" /\ run[r].result = "more" THEN {run[r].pick} ELSE {}))
           \ {NoTask}

ClosedBlockers(t) == \A b \in Blocks[t] : tracker[b] = "closed"

HeldInv ==
    /\ \A r, s \in Run : r # s => Held(r) \cap Held(s) = {}
    /\ \A r \in Run : \A t \in Held(r) : tracker[t] # "open" /\ ClosedBlockers(t)
    /\ \A r \in Run : run[r].pc = "claim" => ClosedBlockers(run[r].pick)

(* Commits that a Run has yet to push and somebody is responsible for.     *)
Unpublished(r) == {i \in local[r] \ upstream : ~commits[i].lost}
StillToPush(r) == ckpt[r].task # NoTask /\ recorded[r][ckpt[r].task] \ upstream # {}

GitInv ==
    \A r \in Run :
       /\ \A i \in local[r] \ upstream : commits[i].run = r
       /\ \A i \in upstream : commits[i].run = r => i \in local[r]
       /\ \A t \in Task : \A i \in recorded[r][t] \ upstream : \A s \in Run \ {r} : i \notin local[s]

CommitsOf(r) ==
    /\ \A i \in Unpublished(r) :
         /\ commits[i].task = ckpt[r].task
         /\ run[r].pc # "off" => run[r].task = ckpt[r].task
    /\ Unpublished(r) # {} =>
         \/ StillToPush(r)
         \/ /\ ckpt[r].stage = "work" /\ run[r].pc \in {"run", "ended"}
            /\ Unpublished(r) \subseteq Moved(r)
    /\ run[r].pc = "verified" \/ (run[r].pc = "ended" /\ run[r].result = "closed") => Unpublished(r) = {}
    /\ InAttempt(r) =>
         \A i \in Moved(r) : commits[i].run = r /\ ~commits[i].lost => commits[i].task = ckpt[r].task

CommitInv == \A r \in Run : CommitsOf(r)

----------------------------------------------------------------------------
(* Types                                                                   *)

LEMMA NatIsWellFounded == IsWellFoundedOn({ss \in Nat \X Nat : ss[1] < ss[2]}, Nat)
  BY NatLessThanWellFounded DEF OpToRel

(* The Task that is offered is one of those to choose from.                *)
LEMMA LeastIsOne ==
    ASSUME NEW ts, ts \subseteq Task, ts # {}
    PROVE  Least(ts) \in ts
<1> DEFINE places == {Place[t] : t \in ts}
<1>1. places \subseteq Nat /\ places # {}
  BY TaskAssumption
<1> DEFINE R == {ss \in Nat \X Nat : ss[1] < ss[2]}
<1>2. PICK n \in places : \A m \in places : ~ (<<m, n>> \in R)
  <2> HIDE DEF places, R
  <2>1. IsWellFoundedOn(R, Nat)
    BY NatIsWellFounded DEF R
  <2> QED
    BY <1>1, <2>1, WFMin
<1>3. \A m \in places : n <= m
  <2> SUFFICES ASSUME NEW m \in places PROVE n <= m
    OBVIOUS
  <2>1. m \in Nat /\ n \in Nat /\ <<m, n>> \notin R
    BY <1>1, <1>2
  <2> QED
    BY <2>1
<1>4. \E t \in ts : \A u \in ts : Place[t] <= Place[u]
  BY <1>3
<1> QED
  BY <1>4 DEF Least

(* Sequences as functions, and what is in two of them.                     *)
LEMMA FunctionIsSeq ==
    ASSUME NEW S, NEW n \in Nat, NEW f \in [1..n -> S]
    PROVE  f \in Seq(S) /\ Len(f) = n
<1>1. f \in Seq(S)
  BY SeqDef
<1> QED
  BY <1>1, LenProperties

LEMMA Appended ==
    ASSUME NEW S, NEW s \in Seq(S), NEW t \in Seq(S)
    PROVE  /\ s \o t \in Seq(S) /\ Len(s \o t) = Len(s) + Len(t)
           /\ Len(s) \in Nat /\ Len(t) \in Nat
           /\ DOMAIN s = 1..Len(s) /\ DOMAIN (s \o t) = 1..(Len(s) + Len(t))
           /\ \A j \in 1..(Len(s) + Len(t)) :
                (s \o t)[j] = IF j <= Len(s) THEN s[j] ELSE t[j - Len(s)]
<1>1. s \o t \in Seq(S) /\ Len(s \o t) = Len(s) + Len(t)
  BY ConcatProperties
<1>2. /\ Len(s) \in Nat /\ Len(t) \in Nat
      /\ DOMAIN s = 1..Len(s) /\ DOMAIN (s \o t) = 1..Len(s \o t)
  BY <1>1, LenProperties
<1>3. \A j \in 1..(Len(s) + Len(t)) : (s \o t)[j] = IF j <= Len(s) THEN s[j] ELSE t[j - Len(s)]
  BY ConcatProperties
<1> QED
  BY <1>1, <1>2, <1>3

(* SetToSeq lists elements of the set.                                     *)
LEMMA ListsElements ==
    ASSUME NEW S, IsFiniteSet(S)
    PROVE  /\ SetToSeq(S) \in [1..Cardinality(S) -> S]
           /\ Cardinality(S) \in Nat
<1>1. PICK f \in Bijection(1..Cardinality(S), S) : TRUE
  BY FS_CardinalityType DEF ExistsBijection
<1>2. f \in [1..Cardinality(S) -> S] /\ IsInjective(f)
  BY <1>1 DEF Bijection, Injection
<1> QED
  BY <1>2, FS_CardinalityType DEF SetToSeq

(* A pull with --rebase: what is new are copies of what was not upstream.  *)
LEMMA RebaseCopies ==
    ASSUME GitTyped, NEW r \in Run, NEW t, Rebase(r, t)
    PROVE  /\ commits' \in Seq(Made) /\ Len(commits) <= Len(commits')
           /\ \A i \in DOMAIN commits : commits'[i] = commits[i] /\ i \in DOMAIN commits'
           /\ local' = [local EXCEPT ![r] = upstream \cup (Len(commits) + 1 .. Len(commits'))]
           /\ \A j \in Len(commits) + 1 .. Len(commits') :
                /\ j \in DOMAIN commits' /\ j \notin DOMAIN commits
                /\ \E i \in local[r] \ upstream : commits'[j] = commits[i]
<1> DEFINE S == local[r] \ upstream
           old == SetToSeq(S)
           copies == [k \in DOMAIN old |-> commits[old[k]]]
<1>1. IsFiniteSet(S)
  <2>1. Len(commits) \in Nat /\ DOMAIN commits = 1..Len(commits)
    BY DEF GitTyped
  <2>2. IsFiniteSet(1..Len(commits))
    BY <2>1, FS_Interval
  <2>3. S \in SUBSET (1..Len(commits))
    BY <2>1 DEF GitTyped
  <2> QED
    BY <2>2, <2>3, FS_Subset
<1>2. old \in [1..Cardinality(S) -> S] /\ Cardinality(S) \in Nat
  BY <1>1, ListsElements
<1>3. S \subseteq DOMAIN commits
  BY DEF GitTyped
<1>4. copies \in Seq(Made) /\ Len(copies) = Cardinality(S)
  <2>1. \A i \in S : commits[i] \in Made
    BY <1>3, LenProperties, ElementOfSeq DEF GitTyped
  <2>2. copies \in [1..Cardinality(S) -> Made]
    BY <1>2, <2>1
  <2> HIDE DEF copies
  <2> QED
    BY <1>2, <2>2, FunctionIsSeq
<1>5. /\ commits' = commits \o copies
      /\ local' = [local EXCEPT ![r] = upstream \cup (Len(commits) + 1 .. Len(commits'))]
  BY DEF Rebase
<1>6. \A k \in 1..Len(copies) : copies[k] = commits[old[k]] /\ old[k] \in S
  BY <1>2, <1>4
<1> HIDE DEF copies, old, S
<1>7. commits \in Seq(Made)
  BY DEF GitTyped
<1>8. /\ Len(commits') = Len(commits) + Len(copies) /\ commits' \in Seq(Made)
      /\ \A j \in 1..Len(commits') :
           commits'[j] = IF j <= Len(commits) THEN commits[j] ELSE copies[j - Len(commits)]
      /\ Len(commits) \in Nat /\ Len(copies) \in Nat
      /\ DOMAIN commits = 1..Len(commits) /\ DOMAIN commits' = 1..Len(commits')
  <2>1. copies \in Seq(Made)
    BY <1>4
  <2> DEFINE all == commits \o copies
  <2>2. /\ all \in Seq(Made) /\ Len(all) = Len(commits) + Len(copies)
        /\ Len(commits) \in Nat /\ Len(copies) \in Nat
        /\ DOMAIN commits = 1..Len(commits) /\ DOMAIN all = 1..(Len(commits) + Len(copies))
        /\ \A j \in 1..(Len(commits) + Len(copies)) :
             all[j] = IF j <= Len(commits) THEN commits[j] ELSE copies[j - Len(commits)]
    BY <1>7, <2>1, Appended
  <2>3. commits' = all
    BY <1>5
  <2> HIDE DEF all
  <2> QED
    BY <2>2, <2>3
<1>9. ASSUME NEW j \in Len(commits) + 1 .. Len(commits')
      PROVE  /\ j \in DOMAIN commits' /\ j \notin DOMAIN commits
             /\ \E i \in local[r] \ upstream : commits'[j] = commits[i]
  <2>1. j - Len(commits) \in 1..Len(copies) /\ Len(commits) \in Nat
    BY <1>8
  <2>2. commits'[j] = copies[j - Len(commits)]
    BY <1>8, <2>1
  <2>3. j \in DOMAIN commits' /\ j \notin DOMAIN commits
    BY <1>8, <2>1
  <2> QED
    BY <1>6, <2>1, <2>2, <2>3 DEF S
<1>10. \A i \in DOMAIN commits : commits'[i] = commits[i] /\ i \in DOMAIN commits'
  BY <1>8
<1> QED
  BY <1>4, <1>5, <1>7, <1>8, <1>9, <1>10

(* The commits only grow by one, are copied, or are marked as lost.        *)
LEMMA LoseKeeps ==
    ASSUME GitTyped, NEW r \in Run, NEW ids, Lose(r, ids)
    PROVE  /\ commits' \in Seq(Made) /\ Len(commits') = Len(commits) /\ DOMAIN commits' = DOMAIN commits
           /\ \A i \in DOMAIN commits :
                /\ commits'[i].run = commits[i].run /\ commits'[i].task = commits[i].task
                /\ commits'[i].lost = (commits[i].lost \/ (i \in ids /\ commits[i].run = r))
<1>1. /\ Len(commits) \in Nat /\ DOMAIN commits = 1..Len(commits)
      /\ \A i \in DOMAIN commits : commits[i] \in Made
  BY LenProperties, ElementOfSeq DEF GitTyped
<1>2. ASSUME NEW i \in DOMAIN commits
      PROVE  /\ commits'[i] \in Made
             /\ commits'[i].run = commits[i].run /\ commits'[i].task = commits[i].task
             /\ commits'[i].lost = (commits[i].lost \/ (i \in ids /\ commits[i].run = r))
  <2>1. commits'[i] = IF i \in ids /\ commits[i].run = r THEN [commits[i] EXCEPT !.lost = TRUE] ELSE commits[i]
    BY DEF Lose
  <2>2. commits[i] \in Made
    BY <1>1
  <2>3. CASE i \in ids /\ commits[i].run = r
    BY <2>1, <2>2, <2>3 DEF Made
  <2>4. CASE ~(i \in ids /\ commits[i].run = r)
    BY <2>1, <2>2, <2>4 DEF Made
  <2> QED
    BY <2>3, <2>4
<1>3. commits' \in [1..Len(commits) -> Made]
  BY <1>1, <1>2 DEF Lose
<1>4. commits' \in Seq(Made) /\ Len(commits') = Len(commits)
  BY <1>1, <1>3, FunctionIsSeq
<1> QED
  BY <1>1, <1>2, <1>3, <1>4

LEMMA CommitAppends ==
    ASSUME GitTyped, NEW r \in Run, NEW t \in Task, Commit(r, t)
    PROVE  /\ commits' \in Seq(Made) /\ DOMAIN commits' = DOMAIN commits \cup {Len(commits')}
           /\ Len(commits') \notin DOMAIN commits
           /\ \A i \in DOMAIN commits : commits'[i] = commits[i]
           /\ commits'[Len(commits')] =
                [run |-> r, task |-> t, lost |-> ~(At(r, "run", "work") /\ run[r].task = t)]
           /\ local' = [local EXCEPT ![r] = @ \cup {Len(commits')}]
<1> DEFINE new == [run |-> r, task |-> t, lost |-> ~(At(r, "run", "work") /\ run[r].task = t)]
<1>1. commits \in Seq(Made) /\ new \in Made /\ commits' = Append(commits, new)
  BY DEF GitTyped, Made, Commit
<1> HIDE DEF new
<1>2. /\ commits' \in Seq(Made) /\ Len(commits') = Len(commits) + 1
      /\ commits'[Len(commits) + 1] = new /\ Len(commits) \in Nat
      /\ \A i \in 1..Len(commits) : commits'[i] = commits[i]
  BY <1>1
<1>3. DOMAIN commits = 1..Len(commits) /\ DOMAIN commits' = 1..(Len(commits) + 1)
  BY <1>1, <1>2, LenProperties
<1> QED
  BY <1>2, <1>3 DEF new, Commit

(* What a step is.                                                         *)
LEMMA Steps ==
    ASSUME [Next]_vars
    PROVE  \/ UNCHANGED vars
           \/ \E r \in Run :
                \/ Launch(r) \/ BeginAttempt(r) \/ EndAttempt(r) \/ Crash(r)
                \/ ListChildren(r) \/ Choose(r) \/ Claim(r) \/ Verify(r) \/ Close(r)
                \/ \E t \in Task : Commit(r, t) \/ Rebase(r, t) \/ Push(r, t)
                \/ AgentReturns(r)
<1> QED
  BY DEF Next, Engine, Handler, Agent

LEMMA GitTypeStep ==
    ASSUME GitTyped, RunTyped, [Next]_vars
    PROVE  GitTyped'
<1>0. /\ commits \in Seq(Made) /\ upstream \subseteq DOMAIN commits
      /\ local \in [Run -> SUBSET DOMAIN commits]
      /\ recorded \in [Run -> [Task -> SUBSET DOMAIN commits]]
  BY DEF GitTyped
<1>1. CASE UNCHANGED vars
  BY <1>0, <1>1 DEF GitTyped, vars, git
<1>2. ASSUME NEW r \in Run, Launch(r) \/ BeginAttempt(r) \/ ListChildren(r) \/ Choose(r) \/ Claim(r)
                            \/ Verify(r) \/ Close(r) \/ AgentReturns(r)
      PROVE  GitTyped'
  <2>1. UNCHANGED <<git, recorded>>
    BY <1>2 DEF Launch, BeginAttempt, ListChildren, Choose, Claim, Verify, Close, AgentReturns
  <2> QED
    BY <1>0, <2>1 DEF GitTyped, git
<1>3. ASSUME NEW r \in Run, EndAttempt(r)
      PROVE  GitTyped'
  <2>1. UNCHANGED <<upstream, local>> /\ Record(r)
    BY <1>3 DEF EndAttempt
  <2>2. Moved(r) \subseteq DOMAIN commits
    BY <1>0 DEF Moved
  <2>3. Named(r) = NoTask \/ Named(r) \in Task
    BY DEF Named, RunTyped, Process, Maybe
  <2>4. CASE Recorded(r) /\ UNCHANGED commits
    <3>1. CASE Named(r) = NoTask
      BY <1>0, <2>1, <2>4, <3>1 DEF Recorded, GitTyped
    <3>2. CASE Named(r) \in Task
      <4>1. recorded[r][Named(r)] \cup Moved(r) \in SUBSET DOMAIN commits
        BY <1>0, <2>2, <3>2
      <4>2. recorded' = [recorded EXCEPT ![r] = [recorded[r] EXCEPT
                            ![Named(r)] = recorded[r][Named(r)] \cup Moved(r)]]
        BY <1>0, <2>4, <3>2, TaskAssumption DEF Recorded
      <4>3. [recorded[r] EXCEPT ![Named(r)] = recorded[r][Named(r)] \cup Moved(r)]
               \in [Task -> SUBSET DOMAIN commits]
        BY <1>0, <4>1
      <4>4. recorded' \in [Run -> [Task -> SUBSET DOMAIN commits]]
        BY <1>0, <4>2, <4>3
      <4> QED
        BY <1>0, <2>1, <2>4, <4>4 DEF GitTyped
    <3> QED
      BY <2>3, <3>1, <3>2
  <2>5. CASE Lose(r, Moved(r)) /\ UNCHANGED recorded
    <3>1. commits' \in Seq(Made) /\ DOMAIN commits' = DOMAIN commits
      BY <2>5, LoseKeeps
    <3> QED
      BY <1>0, <2>1, <2>5, <3>1 DEF GitTyped
  <2> QED
    BY <2>1, <2>4, <2>5 DEF Record
<1>4. ASSUME NEW r \in Run, Crash(r)
      PROVE  GitTyped'
  <2>1. UNCHANGED <<upstream, local, recorded>> /\ (UNCHANGED commits \/ Lose(r, Moved(r)))
    BY <1>4 DEF Crash
  <2>2. commits' \in Seq(Made) /\ DOMAIN commits' = DOMAIN commits
    BY <1>0, <2>1, LoseKeeps
  <2> QED
    BY <1>0, <2>1, <2>2 DEF GitTyped
<1>5. ASSUME NEW r \in Run, NEW t \in Task, Commit(r, t)
      PROVE  GitTyped'
  <2>1. /\ commits' \in Seq(Made) /\ DOMAIN commits' = DOMAIN commits \cup {Len(commits')}
        /\ local' = [local EXCEPT ![r] = @ \cup {Len(commits')}]
    BY <1>5, CommitAppends
  <2>2. UNCHANGED <<upstream, recorded>>
    BY <1>5 DEF Commit
  <2> DEFINE new == Len(commits')
  <2>3. /\ DOMAIN commits' = DOMAIN commits \cup {new}
        /\ local' = [local EXCEPT ![r] = local[r] \cup {new}]
    BY <1>0, <2>1
  <2>4. commits' \in Seq(Made)
    BY <2>1
  <2> HIDE DEF new
  <2>5. local' \in [Run -> SUBSET DOMAIN commits']
    BY <1>0, <2>3
  <2>6. recorded' \in [Run -> [Task -> SUBSET DOMAIN commits']]
    BY <1>0, <2>2, <2>3
  <2> QED
    BY <1>0, <2>2, <2>3, <2>4, <2>5, <2>6 DEF GitTyped
<1>6. ASSUME NEW r \in Run, NEW t \in Task, Rebase(r, t)
      PROVE  GitTyped'
  <2>1. /\ commits' \in Seq(Made) /\ DOMAIN commits \subseteq DOMAIN commits'
        /\ local' = [local EXCEPT ![r] = upstream \cup (Len(commits) + 1 .. Len(commits'))]
        /\ Len(commits) + 1 .. Len(commits') \subseteq DOMAIN commits'
    BY <1>6, RebaseCopies
  <2>2. UNCHANGED <<upstream, recorded>>
    BY <1>6 DEF Rebase
  <2> DEFINE fresh == Len(commits) + 1 .. Len(commits')
  <2>3. fresh \subseteq DOMAIN commits' /\ local' = [local EXCEPT ![r] = upstream \cup fresh]
    BY <2>1
  <2> HIDE DEF fresh
  <2> QED
    BY <1>0, <2>1, <2>2, <2>3 DEF GitTyped
<1>7. ASSUME NEW r \in Run, NEW t \in Task, Push(r, t)
      PROVE  GitTyped'
  BY <1>0, <1>7 DEF Push, GitTyped
<1> QED
  BY <1>1, <1>2, <1>3, <1>4, <1>5, <1>6, <1>7, Steps

(* Assignments to the fields of a process keep its type.                   *)
LEMMA Updated ==
    ASSUME NEW p \in Process, NEW pc \in Pc
    PROVE  /\ [p EXCEPT !.pc = pc] \in Process
           /\ \A result \in Result : [p EXCEPT !.pc = pc, !.result = result] \in Process
           /\ \A result \in Result, task \in Maybe :
                /\ [p EXCEPT !.pc = pc, !.result = result, !.pick = task] \in Process
                /\ [p EXCEPT !.pc = pc, !.result = result, !.task = task] \in Process
           /\ \A task \in Maybe : [p EXCEPT !.pc = pc, !.pick = task] \in Process
           /\ \A ts \in SUBSET Task : [p EXCEPT !.pc = pc, !.children = ts] \in Process
           /\ \A task \in Maybe, ids \in SUBSET Nat :
                [p EXCEPT !.pc = pc, !.taskBefore = task, !.before = ids] \in Process
<1> QED
  BY DEF Process

LEMMA OneProcess ==
    ASSUME run \in [Run -> Process], NEW r \in Run, NEW p \in Process, run' = [run EXCEPT ![r] = p]
    PROVE  run' \in [Run -> Process]
<1> QED
  OBVIOUS

LEMMA RunTypeStep ==
    ASSUME GitTyped, RunTyped, ControlInv, [Next]_vars
    PROVE  RunTyped'
<1>0. /\ tracker \in [Task -> {"open", "in_progress", "closed"}]
      /\ ckpt \in [Run -> [stage : Stage, task : Maybe]]
      /\ run \in [Run -> Process]
      /\ orphans \in [Run -> SUBSET Task]
  BY DEF RunTyped
<1>1. CASE UNCHANGED vars
  BY <1>0, <1>1 DEF RunTyped, vars, git
<1>2. ASSUME NEW r \in Run, NEW t \in Task, Commit(r, t) \/ Rebase(r, t) \/ Push(r, t)
      PROVE  RunTyped'
  <2>1. UNCHANGED <<tracker, ckpt, run, orphans>>
    BY <1>2 DEF Commit, Rebase, Push
  <2> QED
    BY <1>0, <2>1 DEF RunTyped
<1>3. Off \in Process
  BY DEF Off, Process, Pc, Stage, Maybe, Result
<1>4. ASSUME NEW r \in Run, Launch(r)
      PROVE  RunTyped'
  <2>1. run[r] \in Process /\ ckpt[r].stage \in Stage /\ ckpt[r].task \in Maybe
    BY <1>0
  <2>2. [Off EXCEPT !.pc = "top", !.stage = ckpt[r].stage, !.task = ckpt[r].task] \in Process
    BY <1>3, <2>1 DEF Process, Pc
  <2> QED
    BY <1>0, <1>4, <2>2 DEF RunTyped, Launch
<1>5. ASSUME NEW r \in Run, BeginAttempt(r)
      PROVE  RunTyped'
  <2>1. run[r].stage \in Stage /\ run[r].task \in Maybe /\ local[r] \subseteq Nat
    <3>1. run[r].stage \in Stage /\ run[r].task \in Maybe
      BY <1>0 DEF Process
    <3>2. DOMAIN commits \subseteq Nat
      BY LenProperties DEF GitTyped
    <3> QED
      BY <3>1, <3>2 DEF GitTyped
  <2>2. run' \in [Run -> Process]
    <3> DEFINE p == [run[r] EXCEPT !.pc = "run", !.taskBefore = run[r].task, !.before = local[r]]
    <3>1. p \in Process
      BY <1>0, <2>1, Updated DEF Pc, Result
    <3>2. run' = [run EXCEPT ![r] = p]
      BY <1>5 DEF BeginAttempt
    <3> HIDE DEF p
    <3> QED
      BY <1>0, <3>1, <3>2, OneProcess
  <2>3. ckpt' \in [Run -> [stage : Stage, task : Maybe]]
    BY <1>0, <1>5, <2>1 DEF BeginAttempt
  <2> QED
    BY <1>0, <1>5, <2>2, <2>3 DEF BeginAttempt, RunTyped
<1>6. ASSUME NEW r \in Run, EndAttempt(r)
      PROVE  RunTyped'
  <2>1. run[r] \in Process
    BY <1>0
  <2>2. run' \in [Run -> Process]
    <3> DEFINE on == [Off EXCEPT !.pc = "top", !.task = run[r].task, !.stage = run[r].stage]
    <3>1. on \in Process
      BY <1>3, <2>1 DEF Process, Pc
    <3>2. [Off EXCEPT !.pc = "over"] \in Process
      BY <1>3 DEF Process, Pc
    <3>3. ASSUME run[r].result \notin {"error", "again", "done", "blocked", "none"}
          PROVE  [on EXCEPT !.stage = NextStage[run[r].result],
                    !.task = IF run[r].result = "more" THEN run[r].pick ELSE @] \in Process
      <4>1. run[r].result \in {"more", "worked", "unpublished", "closed"}
        BY <2>1, <3>3 DEF Process, Result
      <4>2. NextStage[run[r].result] \in Stage
        BY <4>1 DEF NextStage, Stage
      <4>3. run[r].pick \in Maybe /\ run[r].task \in Maybe
        BY <2>1 DEF Process
      <4> HIDE DEF on
      <4> QED
        BY <3>1, <4>2, <4>3 DEF Process
    <3>4. run[r].result # "none" /\ run[r].pc = "ended"
      BY <1>6 DEF EndAttempt, ControlInv, Control
    <3>5. PICK p : run' = [run EXCEPT ![r] = p] /\ p =
            CASE run[r].result = "error" -> Off
              [] run[r].result = "again" -> on
              [] run[r].result \in {"done", "blocked"} -> [Off EXCEPT !.pc = "over"]
              [] OTHER -> [on EXCEPT !.stage = NextStage[run[r].result],
                    !.task = IF run[r].result = "more" THEN run[r].pick ELSE @]
      BY <1>6 DEF EndAttempt, GoOn
    <3>6. p \in Process
      <4>1. CASE run[r].result = "error"
        BY <1>3, <3>5, <4>1
      <4>2. CASE run[r].result = "again"
        BY <3>1, <3>5, <4>2
      <4>3. CASE run[r].result \in {"done", "blocked"}
        BY <3>2, <3>5, <4>3
      <4>4. CASE run[r].result \notin {"error", "again", "done", "blocked", "none"}
        BY <3>3, <3>5, <4>4
      <4> QED
        BY <3>4, <4>1, <4>2, <4>3, <4>4
    <3> QED
      BY <1>0, <3>5, <3>6
  <2> QED
    BY <1>0, <1>6, <2>2 DEF EndAttempt, RunTyped
<1>7. ASSUME NEW r \in Run, Crash(r)
      PROVE  RunTyped'
  <2>1. orphans' \in [Run -> SUBSET Task]
    <3>1. CASE At(r, "run", "work")
      <4>1. run[r].task \in Task
        BY <1>0, <3>1 DEF At, ControlInv, Control, InAttempt, Process, Maybe
      <4> QED
        BY <1>0, <1>7, <3>1, <4>1 DEF Crash
    <3> QED
      BY <1>0, <1>7, <3>1 DEF Crash
  <2> QED
    BY <1>0, <1>3, <1>7, <2>1 DEF Crash, RunTyped
<1>8. ASSUME NEW r \in Run, NEW result \in Result, End(r, result)
      PROVE  run' \in [Run -> Process]
  <2> DEFINE p == [run[r] EXCEPT !.pc = "ended", !.result = result]
  <2>1. p \in Process
    BY <1>0, Updated DEF Pc
  <2>2. run' = [run EXCEPT ![r] = p]
    BY <1>8 DEF End
  <2> HIDE DEF p
  <2> QED
    BY <1>0, <2>1, <2>2, OneProcess
<1>9. ASSUME NEW r \in Run, AgentReturns(r) \/ Verify(r)
      PROVE  RunTyped'
  <2>1. (\E result \in Result : End(r, result)) \/ run' = [run EXCEPT ![r].pc = "verified"]
    BY <1>9 DEF AgentReturns, Verify, Result
  <2>2. run' \in [Run -> Process]
    <3>1. CASE run' = [run EXCEPT ![r].pc = "verified"]
      <4> DEFINE p == [run[r] EXCEPT !.pc = "verified"]
      <4>1. p \in Process
        BY <1>0, Updated DEF Pc
      <4>2. run' = [run EXCEPT ![r] = p]
        BY <3>1
      <4> HIDE DEF p
      <4> QED
        BY <1>0, <4>1, <4>2, OneProcess
    <3> QED
      BY <1>8, <2>1, <3>1
  <2> QED
    BY <1>0, <1>9, <2>2 DEF AgentReturns, Verify, RunTyped
<1>10. ASSUME NEW r \in Run, ListChildren(r)
       PROVE  RunTyped'
  <2>1. run' \in [Run -> Process]
    <3>1. CASE End(r, "error")
      BY <1>8, <3>1 DEF Result
    <3>2. CASE run' = [run EXCEPT ![r].pc = "ready", ![r].children = {t \in Task : tracker[t] # "closed"}]
      <4> DEFINE p == [run[r] EXCEPT !.pc = "ready", !.children = {t \in Task : tracker[t] # "closed"}]
      <4>1. p \in Process
        BY <1>0, Updated DEF Pc
      <4>2. run' = [run EXCEPT ![r] = p]
        BY <3>2
      <4> HIDE DEF p
      <4> QED
        BY <1>0, <4>1, <4>2, OneProcess
    <3> QED
      BY <1>10, <3>1, <3>2 DEF ListChildren
  <2> QED
    BY <1>0, <1>10, <2>1 DEF ListChildren, RunTyped
<1>11. ASSUME NEW r \in Run, Choose(r)
       PROVE  RunTyped'
  <2>1. run' \in [Run -> Process]
    <3> DEFINE open == (run[r].children \cap Ready) \ Excluded
    <3>1. CASE End(r, "done") \/ End(r, "blocked")
      BY <1>8, <3>1 DEF Result
    <3>2. CASE open # {} /\ run' = [run EXCEPT ![r].pc = "claim", ![r].pick = Least(open)]
      <4>1. open \subseteq Task
        BY <1>0 DEF Process
      <4>2. Least(open) \in Task
        BY <3>2, <4>1, LeastIsOne
      <4> HIDE DEF open
      <4> QED
        <5> DEFINE p == [run[r] EXCEPT !.pc = "claim", !.pick = Least(open)]
        <5>1. p \in Process
          BY <1>0, <4>2, Updated DEF Pc, Maybe
        <5>2. run' = [run EXCEPT ![r] = p]
          BY <3>2
        <5> HIDE DEF p
        <5> QED
          BY <1>0, <5>1, <5>2, OneProcess
    <3> QED
      BY <1>11, <3>1, <3>2 DEF Choose
  <2> QED
    BY <1>0, <1>11, <2>1 DEF Choose, RunTyped
<1>12. ASSUME NEW r \in Run, Claim(r)
       PROVE  RunTyped'
  <2>1. run[r].pc = "claim" => run[r].pick \in Task
    BY <1>0 DEF ControlInv, Control, Process, Maybe
  <2>2. run' \in [Run -> Process]
    <3>1. CASE End(r, "more")
      BY <1>8, <3>1 DEF Result
    <3>2. CASE run' = [run EXCEPT ![r].pc = "ended", ![r].result = "error", ![r].pick = NoTask]
      <4> DEFINE p == [run[r] EXCEPT !.pc = "ended", !.result = "error", !.pick = NoTask]
      <4>1. p \in Process
        BY <1>0, Updated DEF Pc, Maybe, Result
      <4>2. run' = [run EXCEPT ![r] = p]
        BY <3>2
      <4> HIDE DEF p
      <4> QED
        BY <1>0, <4>1, <4>2, OneProcess
    <3> QED
      BY <1>12, <3>1, <3>2 DEF Claim
  <2>3. tracker' \in [Task -> {"open", "in_progress", "closed"}]
    BY <1>0, <1>12, <2>1 DEF Claim, At
  <2> QED
    BY <1>0, <1>12, <2>2, <2>3 DEF Claim, RunTyped
<1>13. ASSUME NEW r \in Run, Close(r)
       PROVE  RunTyped'
  <2>1. run' \in [Run -> Process]
    <3>1. CASE End(r, "error")
      BY <1>8, <3>1 DEF Result
    <3>2. CASE run' = [run EXCEPT ![r].pc = "ended", ![r].result = "closed", ![r].task = NoTask]
      <4> DEFINE p == [run[r] EXCEPT !.pc = "ended", !.result = "closed", !.task = NoTask]
      <4>1. p \in Process
        BY <1>0, Updated DEF Pc, Maybe, Result
      <4>2. run' = [run EXCEPT ![r] = p]
        BY <3>2
      <4> HIDE DEF p
      <4> QED
        BY <1>0, <4>1, <4>2, OneProcess
    <3> QED
      BY <1>13, <3>1, <3>2 DEF Close
  <2>2. tracker' \in [Task -> {"open", "in_progress", "closed"}]
    BY <1>0, <1>13 DEF Close
  <2> QED
    BY <1>0, <1>13, <2>1, <2>2 DEF Close, RunTyped
<1> QED
  BY <1>1, <1>2, <1>4, <1>5, <1>6, <1>7, <1>9, <1>10, <1>11, <1>12, <1>13, Steps

----------------------------------------------------------------------------
(* Control                                                                 *)

(* A step leaves the other Runs as they are, and no commit is forgotten.   *)
LEMMA OnlyOwn ==
    ASSUME GitTyped, RunTyped, ControlInv, NEW q \in Run, Engine(q) \/ Handler(q) \/ Agent(q)
    PROVE  /\ DOMAIN commits \subseteq DOMAIN commits'
           /\ \A r \in Run \ {q} : /\ run'[r] = run[r] /\ ckpt'[r] = ckpt[r] /\ local'[r] = local[r]
                                  /\ recorded'[r] = recorded[r] /\ orphans'[r] = orphans[r]
<1>0. /\ run \in [Run -> Process] /\ DOMAIN ckpt = Run /\ DOMAIN local = Run
      /\ DOMAIN recorded = Run /\ DOMAIN orphans = Run
  BY DEF RunTyped, GitTyped
<1>1. CASE Launch(q) \/ BeginAttempt(q)
  BY <1>0, <1>1 DEF Launch, BeginAttempt, git
<1>2. CASE EndAttempt(q)
  <2>1. \A r \in Run \ {q} : recorded'[r] = recorded[r] /\ run'[r] = run[r]
    BY <1>0, <1>2 DEF EndAttempt, Record, Recorded, GoOn
  <2>2. DOMAIN commits' = DOMAIN commits
    BY <1>2, LoseKeeps DEF EndAttempt, Record
  <2> QED
    BY <1>2, <2>1, <2>2 DEF EndAttempt
<1>3. CASE Crash(q)
  <2>1. DOMAIN commits' = DOMAIN commits
    BY <1>3, LoseKeeps DEF Crash
  <2> QED
    BY <1>0, <1>3, <2>1 DEF Crash
<1>4. CASE ListChildren(q) \/ Choose(q) \/ Claim(q) \/ Verify(q) \/ Close(q) \/ AgentReturns(q)
  <2>1. UNCHANGED <<git, ckpt, recorded, orphans>>
    BY <1>4 DEF ListChildren, Choose, Claim, Verify, Close, AgentReturns
  <2>2. \A r \in Run \ {q} : run'[r] = run[r]
    BY <1>0, <1>4 DEF ListChildren, Choose, Claim, Verify, Close, AgentReturns, End
  <2> QED
    BY <2>1, <2>2 DEF git
<1>5. ASSUME NEW t \in Task, Commit(q, t)
      PROVE  /\ DOMAIN commits \subseteq DOMAIN commits' /\ \A r \in Run \ {q} : local'[r] = local[r]
             /\ UNCHANGED <<run, ckpt, recorded, orphans>>
  <2>1. UNCHANGED <<run, ckpt, recorded, orphans>>
    BY <1>5 DEF Commit
  <2>2. DOMAIN commits \subseteq DOMAIN commits' /\ local' = [local EXCEPT ![q] = @ \cup {Len(commits')}]
    BY <1>5, CommitAppends
  <2> QED
    BY <1>0, <2>1, <2>2
<1>6. ASSUME NEW t \in Task, Rebase(q, t)
      PROVE  /\ DOMAIN commits \subseteq DOMAIN commits' /\ \A r \in Run \ {q} : local'[r] = local[r]
             /\ UNCHANGED <<run, ckpt, recorded, orphans>>
  <2>1. UNCHANGED <<run, ckpt, recorded, orphans>>
    BY <1>6 DEF Rebase
  <2>2. \A i \in DOMAIN commits : i \in DOMAIN commits'
    BY <1>6, RebaseCopies
  <2>3. \A r \in Run \ {q} : local'[r] = local[r]
    BY <1>0, <1>6 DEF Rebase
  <2> QED
    BY <2>1, <2>2, <2>3
<1>7. ASSUME NEW t \in Task, Push(q, t)
      PROVE  UNCHANGED <<commits, local, run, ckpt, recorded, orphans>>
  BY <1>7 DEF Push
<1> QED
  BY <1>1, <1>2, <1>3, <1>4, <1>5, <1>6, <1>7 DEF Engine, Handler, Agent

(* What an agent does changes nothing but git.                             *)
LEMMA AgentsOnlyTouchGit ==
    ASSUME NEW r \in Run, NEW t \in Task, Commit(r, t) \/ Rebase(r, t) \/ Push(r, t)
    PROVE  UNCHANGED <<tracker, recorded, ckpt, run, orphans, bounds>>
<1> QED
  BY DEF Commit, Rebase, Push, bounds

LEMMA ControlStep ==
    ASSUME GitTyped, RunTyped, ControlInv, [Next]_vars
    PROVE  ControlInv'
<1>0. /\ run \in [Run -> Process] /\ DOMAIN ckpt = Run /\ \A r \in Run : Control(r)
      /\ local \in [Run -> SUBSET DOMAIN commits]
  BY DEF RunTyped, ControlInv, GitTyped
<1>1. CASE UNCHANGED vars
  BY <1>0, <1>1 DEF ControlInv, Control, InAttempt, vars, git
<1>2. ASSUME NEW q \in Run, Engine(q) \/ Handler(q) \/ Agent(q)
      PROVE  ControlInv'
  <2>1. \A r \in Run : run'[r] = run[r] /\ ckpt'[r] = ckpt[r] => Control(r)'
    BY <1>0, <1>2, OnlyOwn DEF Control, InAttempt
  <2>2. Control(q)'
    <3>0. Control(q) /\ DOMAIN commits \subseteq DOMAIN commits'
      BY <1>0, <1>2, OnlyOwn
    <3>1. CASE Launch(q)
      <4>1. run'[q] = [Off EXCEPT !.pc = "top", !.stage = ckpt[q].stage, !.task = ckpt[q].task] /\ ckpt' = ckpt
        BY <1>0, <3>1 DEF Launch
      <4>2. run'[q].pc = "top" /\ run'[q].stage = ckpt[q].stage /\ run'[q].task = ckpt[q].task
            /\ run'[q].pick = NoTask
        BY <4>1 DEF Off
      <4> QED
        BY <3>0, <4>1, <4>2 DEF Control, InAttempt
    <3>2. CASE BeginAttempt(q)
      <4>1. /\ run'[q].pc = "run" /\ run'[q].stage = run[q].stage /\ run'[q].task = run[q].task
            /\ run'[q].taskBefore = run[q].task /\ run'[q].before = local[q] /\ run'[q].pick = run[q].pick
        BY <1>0, <3>2 DEF BeginAttempt, Process
      <4>2. ckpt'[q].stage = run[q].stage /\ ckpt'[q].task = run[q].task
        BY <1>0, <3>2 DEF BeginAttempt
      <4>3. local[q] \subseteq DOMAIN commits' /\ run[q].pc = "top"
        BY <1>0, <3>0, <3>2 DEF BeginAttempt
      <4> QED
        BY <3>0, <4>1, <4>2, <4>3 DEF Control, InAttempt
    <3>3. CASE EndAttempt(q)
      <4>0. ckpt' = ckpt /\ run[q].pc = "ended" /\ run[q].result # "none"
        BY <3>0, <3>3 DEF EndAttempt, Control
      <4> DEFINE on == [Off EXCEPT !.pc = "top", !.task = run[q].task, !.stage = run[q].stage]
      <4>1. run'[q] = CASE run[q].result = "error" -> Off
              [] run[q].result = "again" -> on
              [] run[q].result \in {"done", "blocked"} -> [Off EXCEPT !.pc = "over"]
              [] OTHER -> [on EXCEPT !.stage = NextStage[run[q].result],
                    !.task = IF run[q].result = "more" THEN run[q].pick ELSE @]
        BY <1>0, <3>3 DEF EndAttempt, GoOn
      <4>2. CASE run[q].result = "error"
        <5>1. run'[q].pc = "off" /\ run'[q].pick = NoTask
          BY <4>1, <4>2 DEF Off
        <5> QED
          BY <3>0, <4>0, <5>1 DEF Control, InAttempt
      <4>3. CASE run[q].result = "again"
        <5>1. /\ run'[q].pc = "top" /\ run'[q].pick = NoTask
              /\ run'[q].task = run[q].task /\ run'[q].stage = run[q].stage
          BY <4>1, <4>3 DEF Off
        <5> QED
          BY <3>0, <4>0, <4>3, <5>1 DEF Control, InAttempt
      <4>4. CASE run[q].result \in {"done", "blocked"}
        <5>1. run'[q].pc = "over" /\ run'[q].pick = NoTask
          BY <4>1, <4>4 DEF Off
        <5> QED
          BY <3>0, <4>0, <5>1 DEF Control, InAttempt
      <4>5. CASE run[q].result \in {"more", "worked", "unpublished", "closed"}
        <5>1. run'[q] = [on EXCEPT !.stage = NextStage[run[q].result],
                    !.task = IF run[q].result = "more" THEN run[q].pick ELSE @]
          BY <4>1, <4>5
        <5>2. /\ run'[q].pc = "top" /\ run'[q].pick = NoTask
              /\ run'[q].stage = NextStage[run[q].result]
              /\ run'[q].task = IF run[q].result = "more" THEN run[q].pick ELSE run[q].task
          BY <5>1 DEF Off
        <5>3. /\ run[q].result = "more" => run'[q].stage = "work"
              /\ run[q].result = "worked" => run'[q].stage = "close"
              /\ run[q].result = "unpublished" => run'[q].stage = "work"
              /\ run[q].result = "closed" => run'[q].stage = "select"
          BY <5>2 DEF NextStage
        <5> QED
          BY <3>0, <4>0, <4>5, <5>2, <5>3 DEF Control, InAttempt
      <4>6. run[q].result \in Result
        BY <1>0 DEF Process
      <4> QED
        BY <4>0, <4>2, <4>3, <4>4, <4>5, <4>6 DEF Result
    <3>4. CASE Crash(q)
      <4>1. run'[q] = Off /\ ckpt' = ckpt
        BY <1>0, <3>4 DEF Crash
      <4>2. run'[q].pc = "off" /\ run'[q].pick = NoTask
        BY <4>1 DEF Off
      <4> QED
        BY <3>0, <4>1, <4>2 DEF Control, InAttempt
    <3>5. ASSUME NEW result, End(q, result), UNCHANGED <<ckpt, commits>>, InAttempt(q),
                 run[q].pick # NoTask <=> result = "more",
                 /\ result \in {"more", "done", "blocked"} => run[q].stage = "select"
                 /\ result \in {"worked", "again"} => run[q].stage = "work"
                 /\ result = "unpublished" => run[q].stage = "close"
                 /\ result \notin {"none", "closed"},
                 run[q].pc # "ended"
          PROVE  Control(q)'
      <4>1. /\ run'[q].pc = "ended" /\ run'[q].result = result /\ run'[q].stage = run[q].stage
            /\ run'[q].task = run[q].task /\ run'[q].taskBefore = run[q].taskBefore
            /\ run'[q].before = run[q].before /\ run'[q].pick = run[q].pick
        BY <1>0, <3>5 DEF End, Process
      <4> QED
        BY <3>0, <3>5, <4>1 DEF Control, InAttempt
    <3>6. CASE ListChildren(q)
      <4>1. CASE End(q, "error")
        BY <3>0, <3>5, <3>6, <4>1 DEF ListChildren, At, Control, InAttempt, git
      <4>2. CASE run' = [run EXCEPT ![q].pc = "ready", ![q].children = {t \in Task : tracker[t] # "closed"}]
        <5>1. /\ run'[q].pc = "ready" /\ run'[q].stage = run[q].stage
              /\ run'[q].task = run[q].task /\ run'[q].taskBefore = run[q].taskBefore
              /\ run'[q].before = run[q].before /\ run'[q].pick = run[q].pick
          BY <1>0, <4>2 DEF Process
        <5>2. ckpt' = ckpt /\ commits' = commits /\ run[q].pc = "run" /\ run[q].stage = "select"
          BY <3>6 DEF ListChildren, At, git
        <5> QED
          BY <3>0, <5>1, <5>2 DEF Control, InAttempt
      <4> QED
        BY <3>6, <4>1, <4>2 DEF ListChildren
    <3>7. CASE Choose(q)
      <4>1. CASE End(q, "done") \/ End(q, "blocked")
        BY <3>0, <3>5, <3>7, <4>1 DEF Choose, At, Control, InAttempt, git
      <4> DEFINE open == (run[q].children \cap Ready) \ Excluded
      <4>2. CASE open # {} /\ run' = [run EXCEPT ![q].pc = "claim", ![q].pick = Least(open)]
        <5>1. /\ run'[q].pc = "claim" /\ run'[q].stage = run[q].stage
              /\ run'[q].task = run[q].task /\ run'[q].taskBefore = run[q].taskBefore
              /\ run'[q].before = run[q].before /\ run'[q].pick = Least(open)
          BY <1>0, <4>2 DEF Process
        <5>2. ckpt' = ckpt /\ commits' = commits /\ run[q].pc = "ready" /\ run[q].stage = "select"
          BY <3>7 DEF Choose, At, git
        <5>3. Least(open) \in Task
          <6>1. open \subseteq Task
            BY <1>0 DEF Process
          <6> QED
            BY <4>2, <6>1, LeastIsOne
        <5> QED
          BY <3>0, <5>1, <5>2, <5>3, TaskAssumption DEF Control, InAttempt
      <4> QED
        BY <3>7, <4>1, <4>2 DEF Choose
    <3>8. CASE Claim(q)
      <4>0. /\ run[q].pc = "claim" /\ run[q].stage = "select" /\ UNCHANGED <<ckpt, commits>>
        BY <3>8 DEF Claim, At, git
      <4>1. CASE End(q, "more")
        BY <3>0, <3>5, <4>0, <4>1 DEF Control, InAttempt
      <4>2. CASE run' = [run EXCEPT ![q].pc = "ended", ![q].result = "error", ![q].pick = NoTask]
        <5>1. /\ run'[q].pc = "ended" /\ run'[q].result = "error" /\ run'[q].stage = run[q].stage
              /\ run'[q].task = run[q].task /\ run'[q].taskBefore = run[q].taskBefore
              /\ run'[q].before = run[q].before /\ run'[q].pick = NoTask
          BY <1>0, <4>2 DEF Process
        <5> QED
          BY <3>0, <4>0, <5>1 DEF Control, InAttempt
      <4> QED
        BY <3>8, <4>1, <4>2 DEF Claim
    <3>9. CASE Verify(q)
      <4>0. /\ run[q].pc = "run" /\ run[q].stage = "close" /\ UNCHANGED <<ckpt, commits>>
        BY <3>9 DEF Verify, At, git
      <4>1. CASE End(q, "unpublished") \/ End(q, "error")
        BY <3>0, <3>5, <4>0, <4>1 DEF Control, InAttempt
      <4>2. CASE run' = [run EXCEPT ![q].pc = "verified"]
        <5>1. /\ run'[q].pc = "verified" /\ run'[q].stage = run[q].stage
              /\ run'[q].task = run[q].task /\ run'[q].taskBefore = run[q].taskBefore
              /\ run'[q].before = run[q].before /\ run'[q].pick = run[q].pick
          BY <1>0, <4>2 DEF Process
        <5> QED
          BY <3>0, <4>0, <5>1 DEF Control, InAttempt
      <4> QED
        BY <3>9, <4>1, <4>2 DEF Verify
    <3>10. CASE Close(q)
      <4>0. /\ run[q].pc = "verified" /\ run[q].stage = "close" /\ UNCHANGED <<ckpt, commits>>
        BY <3>10 DEF Close, At, git
      <4>1. CASE End(q, "error")
        BY <3>0, <3>5, <4>0, <4>1 DEF Control, InAttempt
      <4>2. CASE run' = [run EXCEPT ![q].pc = "ended", ![q].result = "closed", ![q].task = NoTask]
        <5>1. /\ run'[q].pc = "ended" /\ run'[q].result = "closed" /\ run'[q].stage = run[q].stage
              /\ run'[q].task = NoTask /\ run'[q].taskBefore = run[q].taskBefore
              /\ run'[q].before = run[q].before /\ run'[q].pick = run[q].pick
          BY <1>0, <4>2 DEF Process
        <5> QED
          BY <3>0, <4>0, <5>1 DEF Control, InAttempt
      <4> QED
        BY <3>10, <4>1, <4>2 DEF Close
    <3>11. CASE AgentReturns(q)
      <4>0. run[q].pc = "run" /\ run[q].stage = "work" /\ UNCHANGED <<ckpt, commits>>
        BY <3>11 DEF AgentReturns, At, git
      <4>1. PICK result \in {"worked", "again", "error"} : End(q, result)
        BY <3>11 DEF AgentReturns
      <4> QED
        BY <3>0, <3>5, <4>0, <4>1 DEF Control, InAttempt
    <3>12. ASSUME NEW t \in Task, Commit(q, t) \/ Rebase(q, t) \/ Push(q, t)
           PROVE  Control(q)'
      BY <2>1, <3>12, AgentsOnlyTouchGit
    <3> QED
      BY <1>2, <3>1, <3>2, <3>3, <3>4, <3>6, <3>7, <3>8, <3>9, <3>10, <3>11, <3>12
         DEF Engine, Handler, Agent
  <2>3. \A r \in Run \ {q} : Control(r)'
    BY <1>2, <2>1, OnlyOwn
  <2> QED
    BY <2>2, <2>3 DEF ControlInv
<1> QED
  BY <1>1, <1>2 DEF Next

----------------------------------------------------------------------------
(* Tasks in hand                                                           *)

(* The tracker: a Task that is closed stays closed, one that was offered   *)
(* is not offered again.                                                   *)
LEMMA TrackerStep ==
    ASSUME RunTyped, [Next]_vars, NEW t \in Task
    PROVE  /\ tracker[t] = "closed" => tracker'[t] = "closed"
           /\ tracker[t] # "open" => tracker'[t] # "open"
<1>1. UNCHANGED tracker \/ \E r \in Run : Claim(r) \/ Close(r)
  BY DEF Next, Engine, Handler, Agent, Launch, BeginAttempt, EndAttempt, Crash, ListChildren, Choose,
         Verify, AgentReturns, Commit, Rebase, Push, vars
<1>2. ASSUME NEW r \in Run, Claim(r) \/ Close(r), ~UNCHANGED tracker
      PROVE  \E u : \/ tracker' = [tracker EXCEPT ![u] = "closed"]
                    \/ tracker[u] = "open" /\ tracker' = [tracker EXCEPT ![u] = "in_progress"]
  BY <1>2 DEF Claim, Close
<1> QED
  BY <1>1, <1>2 DEF RunTyped

LEMMA BlockersStayClosed ==
    ASSUME RunTyped, [Next]_vars, NEW t \in Task, ClosedBlockers(t)
    PROVE  ClosedBlockers(t)'
<1>1. Blocks[t] \subseteq Task
  BY TaskAssumption
<1> QED
  BY <1>1, TrackerStep DEF ClosedBlockers

(* A Run gets a Task by claiming it, and by nothing else.                  *)
LEMMA HeldGrows ==
    ASSUME GitTyped, RunTyped, ControlInv, HeldInv, NEW q \in Run, Engine(q) \/ Handler(q) \/ Agent(q)
    PROVE  /\ \A r \in Run \ {q} : Held(r)' = Held(r)
           /\ \A t \in Held(q)' \ Held(q) :
                tracker[t] = "open" /\ tracker'[t] # "open" /\ ClosedBlockers(t)
<1>0. /\ run \in [Run -> Process] /\ DOMAIN ckpt = Run /\ Control(q)
      /\ tracker \in [Task -> {"open", "in_progress", "closed"}]
  BY DEF RunTyped, ControlInv
<1>1. \A r \in Run \ {q} : Held(r)' = Held(r)
  BY OnlyOwn DEF Held, InHand
<1>2. CASE Held(q)' \subseteq Held(q)
  BY <1>1, <1>2
<1>3. CASE Launch(q)
  <2>1. run'[q] = [Off EXCEPT !.pc = "top", !.stage = ckpt[q].stage, !.task = ckpt[q].task] /\ ckpt' = ckpt
    BY <1>0, <1>3 DEF Launch
  <2>2. run'[q].pc = "top" /\ run'[q].task = ckpt[q].task
    BY <2>1 DEF Off
  <2> QED
    BY <1>2, <2>1, <2>2 DEF Held, InHand
<1>4. CASE BeginAttempt(q)
  <2>1. run'[q].pc = "run" /\ run'[q].task = run[q].task
    BY <1>0, <1>4 DEF BeginAttempt, Process
  <2>2. ckpt'[q].task = run[q].task
    BY <1>0, <1>4 DEF BeginAttempt
  <2> QED
    BY <1>2, <2>1, <2>2 DEF Held, InHand
<1>5. CASE EndAttempt(q)
  <2>1. run'[q].pc # "ended" /\ run'[q].task \in {NoTask, run[q].task} \cup
                                       (IF run[q].result = "more" THEN {run[q].pick} ELSE {})
    <3> DEFINE on == [Off EXCEPT !.pc = "top", !.task = run[q].task, !.stage = run[q].stage]
    <3>1. run'[q] = CASE run[q].result = "error" -> Off
              [] run[q].result = "again" -> on
              [] run[q].result \in {"done", "blocked"} -> [Off EXCEPT !.pc = "over"]
              [] OTHER -> [on EXCEPT !.stage = NextStage[run[q].result],
                    !.task = IF run[q].result = "more" THEN run[q].pick ELSE @]
      BY <1>0, <1>5 DEF EndAttempt, GoOn
    <3>2. run[q].result \in Result \ {"none"}
      BY <1>0, <1>5 DEF Process, EndAttempt, Control
    <3>3. CASE run[q].result = "error"
      BY <3>1, <3>3 DEF Off
    <3>4. CASE run[q].result = "again"
      BY <3>1, <3>4 DEF Off
    <3>5. CASE run[q].result \in {"done", "blocked"}
      BY <3>1, <3>5 DEF Off
    <3>6. CASE run[q].result \in {"more", "worked", "unpublished", "closed"}
      <4>1. run'[q] = [on EXCEPT !.stage = NextStage[run[q].result],
                    !.task = IF run[q].result = "more" THEN run[q].pick ELSE @]
        BY <3>1, <3>6
      <4> QED
        BY <4>1 DEF Off
    <3> QED
      BY <3>2, <3>3, <3>4, <3>5, <3>6 DEF Result
  <2>2. ckpt' = ckpt /\ run[q].pc = "ended"
    BY <1>5 DEF EndAttempt
  <2> QED
    BY <1>2, <2>1, <2>2 DEF Held, InHand
<1>6. CASE Crash(q)
  <2>1. run'[q] = Off /\ ckpt' = ckpt
    BY <1>0, <1>6 DEF Crash
  <2> QED
    BY <1>2, <2>1 DEF Held, InHand, Off
<1>7. ASSUME NEW result, End(q, result), result # "more", UNCHANGED ckpt
      PROVE  Held(q)' \subseteq Held(q)
  <2>1. run'[q].pc = "ended" /\ run'[q].result = result /\ run'[q].task = run[q].task
    BY <1>0, <1>7 DEF End, Process
  <2> QED
    BY <1>7, <2>1 DEF Held, InHand
<1>8. ASSUME NEW pc, pc # "ended", run'[q].pc = pc, run'[q].task = run[q].task, UNCHANGED ckpt
      PROVE  Held(q)' \subseteq Held(q)
  BY <1>8 DEF Held, InHand
<1>9. CASE ListChildren(q)
  <2>1. UNCHANGED ckpt /\ (End(q, "error") \/ (run'[q].pc = "ready" /\ run'[q].task = run[q].task))
    BY <1>0, <1>9 DEF ListChildren, Process
  <2> QED
    BY <1>2, <1>7, <1>8, <2>1
<1>10. CASE Choose(q)
  <2>1. /\ UNCHANGED ckpt
        /\ End(q, "done") \/ End(q, "blocked") \/ (run'[q].pc = "claim" /\ run'[q].task = run[q].task)
    BY <1>0, <1>10 DEF Choose, Process
  <2> QED
    BY <1>2, <1>7, <1>8, <2>1
<1>11. CASE Verify(q)
  <2>1. /\ UNCHANGED ckpt
        /\ End(q, "unpublished") \/ End(q, "error") \/ (run'[q].pc = "verified" /\ run'[q].task = run[q].task)
    BY <1>0, <1>11 DEF Verify, Process
  <2> QED
    BY <1>2, <1>7, <1>8, <2>1
<1>12. CASE Close(q)
  <2>1. /\ UNCHANGED ckpt
        /\ End(q, "error") \/ (run'[q].result = "closed" /\ run'[q].task = NoTask)
    BY <1>0, <1>12 DEF Close, Process
  <2> QED
    BY <1>2, <1>7, <2>1 DEF Held, InHand
<1>13. CASE AgentReturns(q)
  <2>1. UNCHANGED ckpt /\ \E result \in {"worked", "again", "error"} : End(q, result)
    BY <1>13 DEF AgentReturns
  <2> QED
    BY <1>2, <1>7, <2>1
<1>14. ASSUME NEW t \in Task, Commit(q, t) \/ Rebase(q, t) \/ Push(q, t)
       PROVE  Held(q)' \subseteq Held(q)
  BY <1>14, AgentsOnlyTouchGit DEF Held, InHand
<1>15. CASE Claim(q)
  <2>0. UNCHANGED ckpt /\ run[q].pc = "claim" /\ run[q].pick \in Task /\ ClosedBlockers(run[q].pick)
    BY <1>0, <1>15 DEF Claim, At, Control, HeldInv, Process, Maybe
  <2>1. CASE run' = [run EXCEPT ![q].pc = "ended", ![q].result = "error", ![q].pick = NoTask]
    <3>1. run'[q].result = "error" /\ run'[q].task = run[q].task
      BY <1>0, <2>1 DEF Process
    <3> QED
      BY <1>2, <2>0, <3>1 DEF Held, InHand
  <2>2. CASE End(q, "more") /\ tracker[run[q].pick] = "open"
                            /\ tracker' = [tracker EXCEPT ![run[q].pick] = "in_progress"]
    <3>1. run'[q].task = run[q].task /\ run'[q].pick = run[q].pick
      BY <1>0, <2>2 DEF End, Process
    <3>2. Held(q)' \subseteq Held(q) \cup {run[q].pick}
      BY <2>0, <3>1 DEF Held, InHand
    <3>3. tracker'[run[q].pick] = "in_progress"
      BY <1>0, <2>0, <2>2
    <3> QED
      BY <1>1, <2>0, <2>2, <3>2, <3>3
  <2> QED
    BY <1>15, <2>1, <2>2 DEF Claim
<1> QED
  BY <1>1, <1>2, <1>3, <1>4, <1>5, <1>6, <1>9, <1>10, <1>11, <1>12, <1>13, <1>14, <1>15
     DEF Engine, Handler, Agent

LEMMA HeldStep ==
    ASSUME GitTyped, RunTyped, ControlInv, HeldInv, [Next]_vars
    PROVE  HeldInv'
<1>1. CASE UNCHANGED vars
  BY <1>1 DEF HeldInv, Held, InHand, ClosedBlockers, vars
<1>2. ASSUME NEW q \in Run, Engine(q) \/ Handler(q) \/ Agent(q)
      PROVE  HeldInv'
  <2>0. \A r \in Run : Held(r) \subseteq Task /\ Held(r)' \subseteq Task
    BY RunTypeStep DEF Held, InHand, RunTyped, Process, Maybe
  <2>1. ASSUME NEW r \in Run, NEW s \in Run, r # s
        PROVE  (Held(r) \cap Held(s) = {})'
    BY <1>2, <2>1, HeldGrows DEF HeldInv
  <2>2. ASSUME NEW r \in Run, NEW t \in Held(r)'
        PROVE  (tracker[t] # "open" /\ ClosedBlockers(t))'
    <3>1. t \in Task
      BY <2>0
    <3>2. CASE t \in Held(r)
      BY <3>1, <3>2, TrackerStep, BlockersStayClosed DEF HeldInv
    <3>3. CASE t \notin Held(r)
      <4>1. tracker'[t] # "open" /\ ClosedBlockers(t)
        BY <1>2, <3>3, HeldGrows
      <4> QED
        BY <3>1, <4>1, BlockersStayClosed
    <3> QED
      BY <3>2, <3>3
  <2>3. ASSUME NEW r \in Run, run'[r].pc = "claim"
        PROVE  ClosedBlockers(run[r].pick)'
    <3>1. CASE run[r].pc = "claim" /\ run'[r].pick = run[r].pick
      <4>1. run[r].pick \in Task
        BY <3>1 DEF RunTyped, ControlInv, Control, Process, Maybe
      <4> QED
        BY <3>1, <4>1, BlockersStayClosed DEF HeldInv
    <3>2. CASE Choose(r)
      <4> DEFINE open == (run[r].children \cap Ready) \ Excluded
      <4>1. open # {} /\ run' = [run EXCEPT ![r].pc = "claim", ![r].pick = Least(open)]
        <5>1. ~End(r, "done") /\ ~End(r, "blocked")
          BY <2>3 DEF End, RunTyped, Process
        <5> QED
          BY <3>2, <5>1 DEF Choose
      <4>2. open \subseteq Task
        BY DEF RunTyped, Process
      <4>3. Least(open) \in open
        BY <4>1, <4>2, LeastIsOne
      <4>4. ClosedBlockers(Least(open))
        BY <4>3 DEF Ready, ClosedBlockers
      <4>5. run'[r].pick = Least(open)
        BY <4>1 DEF RunTyped, Process
      <4> QED
        BY <4>2, <4>3, <4>4, <4>5, BlockersStayClosed
    <3>3. r # q \/ UNCHANGED <<run>> => run'[r] = run[r]
      BY <1>2, OnlyOwn
    <3>4. CASE r = q
      <4>0. run \in [Run -> Process] /\ Control(r)
        BY DEF RunTyped, ControlInv
      <4>1. CASE Launch(r) \/ BeginAttempt(r) \/ Crash(r)
        <5>1. run'[r].pc \in {"top", "run", "off"}
          <6>1. CASE Launch(r)
            <7>1. run'[r] = [Off EXCEPT !.pc = "top", !.stage = ckpt[r].stage, !.task = ckpt[r].task]
              BY <4>0, <6>1 DEF Launch
            <7> QED
              BY <7>1 DEF Off
          <6>2. CASE BeginAttempt(r)
            BY <4>0, <6>2 DEF BeginAttempt, Process
          <6>3. CASE Crash(r)
            BY <4>0, <6>3 DEF Crash, Off
          <6> QED
            BY <4>1, <6>1, <6>2, <6>3
        <5> QED
          BY <2>3, <5>1
      <4>2. CASE EndAttempt(r)
        <5>1. run'[r].pc # "claim"
          <6> DEFINE on == [Off EXCEPT !.pc = "top", !.task = run[r].task, !.stage = run[r].stage]
          <6>1. PICK p : run'[r] = p /\ p = CASE run[r].result = "error" -> Off
                 [] run[r].result = "again" -> on
                 [] run[r].result \in {"done", "blocked"} -> [Off EXCEPT !.pc = "over"]
                 [] OTHER -> [on EXCEPT !.stage = NextStage[run[r].result],
                    !.task = IF run[r].result = "more" THEN run[r].pick ELSE @]
            BY <4>0, <4>2 DEF EndAttempt, GoOn
          <6>2. CASE run[r].result \in {"error", "again", "done", "blocked"}
            BY <6>1, <6>2 DEF Off
          <6>3. CASE run[r].result \notin {"error", "again", "done", "blocked"}
            <7>1. p = [on EXCEPT !.stage = NextStage[run[r].result],
                    !.task = IF run[r].result = "more" THEN run[r].pick ELSE @]
              BY <6>1, <6>3
            <7> QED
              BY <6>1, <7>1 DEF Off
          <6> QED
            BY <6>2, <6>3
        <5> QED
          BY <2>3, <5>1
      <4>3. CASE ListChildren(r) \/ Claim(r) \/ Verify(r) \/ Close(r) \/ AgentReturns(r)
        <5>1. run'[r].pc \in {"ready", "ended", "verified"}
          BY <4>0, <4>3 DEF ListChildren, Claim, Verify, Close, AgentReturns, End, Process
        <5> QED
          BY <2>3, <5>1
      <4>4. ASSUME NEW t \in Task, Commit(r, t) \/ Rebase(r, t) \/ Push(r, t)
            PROVE  run'[r] = run[r]
        BY <4>4, AgentsOnlyTouchGit
      <4> QED
        BY <1>2, <2>3, <3>1, <3>2, <3>4, <4>1, <4>2, <4>3, <4>4 DEF Engine, Handler, Agent
    <3> QED
      BY <2>3, <3>1, <3>3, <3>4
  <2> QED
    BY <2>1, <2>2, <2>3 DEF HeldInv
<1> QED
  BY <1>1, <1>2 DEF Next

----------------------------------------------------------------------------
(* Commits                                                                 *)

(* What may happen to commits, clones and the upstream branch in a step.   *)
LEMMA GitStays ==
    ASSUME [Next]_vars
    PROVE  \/ UNCHANGED git
           \/ \E q \in Run :
                \/ EndAttempt(q) \/ Crash(q)
                \/ \E t \in Task : Commit(q, t) \/ Rebase(q, t) \/ Push(q, t)
<1> QED
  BY DEF Next, Engine, Handler, Agent, Launch, BeginAttempt, ListChildren, Choose, Claim, Verify, Close,
         AgentReturns, vars

(* What is recorded: only the end of an attempt adds to it.                *)
LEMMA RecordedStays ==
    ASSUME GitTyped, RunTyped, [Next]_vars
    PROVE  \/ UNCHANGED recorded
           \/ \E q \in Run : /\ EndAttempt(q) /\ UNCHANGED git /\ Named(q) \in Task
                             /\ recorded' = [recorded EXCEPT ![q] = [recorded[q] EXCEPT
                                    ![Named(q)] = recorded[q][Named(q)] \cup Moved(q)]]
<1>1. UNCHANGED recorded \/ \E q \in Run : EndAttempt(q)
  BY DEF Next, Engine, Handler, Agent, Launch, BeginAttempt, Crash, ListChildren, Choose, Claim, Verify,
         Close, AgentReturns, Commit, Rebase, Push, vars
<1>2. ASSUME NEW q \in Run, EndAttempt(q), ~UNCHANGED recorded
      PROVE  /\ UNCHANGED git /\ Named(q) \in Task
             /\ recorded' = [recorded EXCEPT ![q] = [recorded[q] EXCEPT
                    ![Named(q)] = recorded[q][Named(q)] \cup Moved(q)]]
  <2>1. Recorded(q) /\ UNCHANGED <<commits, upstream, local>>
    BY <1>2 DEF EndAttempt, Record
  <2>2. Named(q) # NoTask
    BY <1>2, <2>1 DEF Recorded
  <2>3. Named(q) \in Task
    BY <2>2 DEF Named, RunTyped, Process, Maybe
  <2>4. recorded' = [recorded EXCEPT ![q][Named(q)] = @ \cup Moved(q)]
    BY <2>1, <2>2 DEF Recorded
  <2> QED
    BY <2>1, <2>3, <2>4 DEF git, GitTyped
<1> QED
  BY <1>1, <1>2

LEMMA GitStep ==
    ASSUME GitTyped, RunTyped, ControlInv, GitInv, [Next]_vars
    PROVE  GitInv'
<1>0. /\ upstream \subseteq DOMAIN commits /\ local \in [Run -> SUBSET DOMAIN commits]
      /\ recorded \in [Run -> [Task -> SUBSET DOMAIN commits]]
  BY DEF GitTyped
<1> DEFINE Own(r) == \A i \in local[r] \ upstream : commits[i].run = r
           Back(r) == \A i \in upstream : commits[i].run = r => i \in local[r]
           Alone(r) == \A t \in Task : \A i \in recorded[r][t] \ upstream : \A s \in Run \ {r} : i \notin local[s]
<1>1. ASSUME UNCHANGED <<upstream, local>>, DOMAIN commits' = DOMAIN commits,
             \A i \in DOMAIN commits : commits'[i].run = commits[i].run
      PROVE  \A r \in Run : Own(r)' /\ Back(r)' /\ (recorded'[r] = recorded[r] => Alone(r)')
  BY <1>0, <1>1 DEF GitInv
<1>2. CASE UNCHANGED git /\ UNCHANGED recorded
  BY <1>1, <1>2 DEF git, GitInv
<1>3. ASSUME NEW q \in Run, UNCHANGED git, NEW t \in Task,
             recorded' = [recorded EXCEPT ![q] = [recorded[q] EXCEPT ![t] = recorded[q][t] \cup Moved(q)]]
      PROVE  GitInv'
  <2>1. UNCHANGED <<upstream, local, commits>>
    BY <1>3 DEF git
  <2>2. Alone(q)'
    <3>1. SUFFICES ASSUME NEW u \in Task, NEW i \in recorded'[q][u] \ upstream, NEW s \in Run \ {q}
                   PROVE  i \notin local[s]
      BY <2>1
    <3>2. i \in recorded[q][u] \/ i \in Moved(q)
      BY <1>0, <1>3
    <3>3. CASE i \in Moved(q)
      BY <3>3 DEF Moved, GitInv
    <3> QED
      BY <3>2, <3>3 DEF GitInv
  <2>3. \A r \in Run \ {q} : recorded'[r] = recorded[r]
    BY <1>0, <1>3
  <2> QED
    BY <1>1, <2>1, <2>2, <2>3 DEF GitInv
<1>4. ASSUME NEW q \in Run, Lose(q, Moved(q)), UNCHANGED <<upstream, local, recorded>>
      PROVE  GitInv'
  BY <1>1, <1>4, LoseKeeps DEF GitInv
<1>5. ASSUME NEW q \in Run, NEW t \in Task, Commit(q, t)
      PROVE  GitInv'
  <2> DEFINE n == Len(commits')
  <2>1. /\ n \notin DOMAIN commits /\ local' = [local EXCEPT ![q] = local[q] \cup {n}]
        /\ \A i \in DOMAIN commits : commits'[i] = commits[i]
    BY <1>5, CommitAppends
  <2>0. commits'[n].run = q
    <3>1. commits'[n] = [run |-> q, task |-> t, lost |-> ~(At(q, "run", "work") /\ run[q].task = t)]
      BY <1>5, CommitAppends
    <3> QED
      BY <3>1
  <2>2. UNCHANGED <<upstream, recorded>>
    BY <1>5 DEF Commit
  <2> HIDE DEF n
  <2>3. ASSUME NEW r \in Run
        PROVE  local'[r] \subseteq local[r] \cup {n} /\ local[r] \subseteq local'[r]
               /\ (n \in local'[r] => r = q)
    BY <1>0, <2>1
  <2>4. \A r \in Run : Own(r)'
    BY <1>0, <2>0, <2>1, <2>2, <2>3 DEF GitInv
  <2>5. \A r \in Run : Back(r)'
    BY <1>0, <2>1, <2>2, <2>3 DEF GitInv
  <2>6. \A r \in Run : Alone(r)'
    <3>1. SUFFICES ASSUME NEW r \in Run, NEW u \in Task, NEW i \in recorded[r][u] \ upstream,
                          NEW s \in Run \ {r}
                   PROVE  i \notin local'[s]
      BY <2>2
    <3>2. i \in DOMAIN commits /\ i \notin local[s]
      BY <1>0 DEF GitInv
    <3> QED
      BY <2>1, <2>3, <3>2
  <2> QED
    BY <2>4, <2>5, <2>6 DEF GitInv
<1>6. ASSUME NEW q \in Run, NEW t \in Task, Rebase(q, t)
      PROVE  GitInv'
  <2> DEFINE fresh == Len(commits) + 1 .. Len(commits')
  <2>1. /\ local' = [local EXCEPT ![q] = upstream \cup fresh]
        /\ \A i \in DOMAIN commits : commits'[i] = commits[i]
        /\ \A j \in fresh : j \notin DOMAIN commits /\ \E i \in local[q] \ upstream : commits'[j] = commits[i]
    BY <1>6, RebaseCopies
  <2>2. UNCHANGED <<upstream, recorded>>
    BY <1>6 DEF Rebase
  <2> HIDE DEF fresh
  <2>3. local'[q] = upstream \cup fresh /\ \A r \in Run \ {q} : local'[r] = local[r]
    BY <1>0, <2>1
  <2>4. \A j \in fresh : commits'[j].run = q
    BY <2>1 DEF GitInv
  <2>5. \A r \in Run : Own(r)'
    BY <1>0, <2>1, <2>2, <2>3, <2>4 DEF GitInv
  <2>6. \A r \in Run : Back(r)'
    BY <1>0, <2>1, <2>2, <2>3 DEF GitInv
  <2>7. \A r \in Run : Alone(r)'
    <3>1. SUFFICES ASSUME NEW r \in Run, NEW u \in Task, NEW i \in recorded[r][u] \ upstream,
                          NEW s \in Run \ {r}
                   PROVE  i \notin local'[s]
      BY <2>2
    <3>2. i \in DOMAIN commits /\ i \notin local[s] /\ i \notin fresh
      BY <1>0, <2>1 DEF GitInv
    <3> QED
      BY <2>3, <3>2
  <2> QED
    BY <2>5, <2>6, <2>7 DEF GitInv
<1>7. ASSUME NEW q \in Run, NEW t \in Task, Push(q, t)
      PROVE  GitInv'
  <2>1. upstream' = local[q] /\ upstream \subseteq local[q] /\ UNCHANGED <<commits, local, recorded>>
    BY <1>7 DEF Push
  <2>2. \A r \in Run : Own(r)' /\ Alone(r)'
    BY <2>1 DEF GitInv
  <2>3. \A r \in Run : Back(r)'
    BY <2>1 DEF GitInv
  <2> QED
    BY <2>2, <2>3 DEF GitInv
<1>8. ASSUME NEW q \in Run, EndAttempt(q) \/ Crash(q), UNCHANGED recorded
      PROVE  GitInv'
  <2>1. UNCHANGED git \/ (Lose(q, Moved(q)) /\ UNCHANGED <<upstream, local>>)
    BY <1>8 DEF EndAttempt, Record, Crash, git
  <2> QED
    BY <1>2, <1>4, <1>8, <2>1
<1>9. ASSUME NEW q \in Run, NEW t \in Task, Commit(q, t) \/ Rebase(q, t) \/ Push(q, t)
      PROVE  GitInv'
  BY <1>5, <1>6, <1>7, <1>9
<1>10. CASE UNCHANGED recorded
  BY <1>2, <1>8, <1>9, <1>10, GitStays
<1>11. CASE ~UNCHANGED recorded
  BY <1>3, <1>11, RecordedStays
<1> QED
  BY <1>10, <1>11

(* A commit that is not marked as lost in a step of another Run, or in one *)
(* that marks none, stays what it is.                                      *)
LEMMA CommitsStay ==
    ASSUME GitTyped, RunTyped, ControlInv, GitInv, NEW q \in Run, Engine(q) \/ Handler(q) \/ Agent(q),
           NEW i \in DOMAIN commits
    PROVE  /\ i \in DOMAIN commits' /\ commits'[i].run = commits[i].run /\ commits'[i].task = commits[i].task
           /\ commits[i].lost => commits'[i].lost
           /\ commits[i].run # q => commits'[i].lost = commits[i].lost
           /\ UNCHANGED commits \/ EndAttempt(q) \/ Crash(q) => commits'[i].lost =
                (commits[i].lost \/ (~UNCHANGED commits /\ i \in Moved(q) /\ commits[i].run = q))
<1>0. commits[i] \in Made
  BY LenProperties, ElementOfSeq DEF GitTyped
<1>1. CASE UNCHANGED commits
  BY <1>0, <1>1 DEF Made
<1>2. CASE Lose(q, Moved(q))
  <2>1. /\ i \in DOMAIN commits' /\ commits'[i].run = commits[i].run /\ commits'[i].task = commits[i].task
        /\ commits'[i].lost = (commits[i].lost \/ (i \in Moved(q) /\ commits[i].run = q))
    BY <1>2, LoseKeeps
  <2>2. commits[i].lost \in BOOLEAN
    BY <1>0 DEF Made
  <2>3. CASE UNCHANGED commits
    BY <1>1, <2>3
  <2>4. CASE ~UNCHANGED commits
    BY <2>1, <2>2, <2>4
  <2> QED
    BY <2>3, <2>4
<1>3. ASSUME NEW t \in Task, Commit(q, t) \/ Rebase(q, t)
      PROVE  i \in DOMAIN commits' /\ commits'[i] = commits[i]
  BY <1>3, CommitAppends, RebaseCopies
<1>4. (\E t \in Task : Commit(q, t) \/ Rebase(q, t)) \/ UNCHANGED commits \/ Lose(q, Moved(q))
  BY DEF Engine, Handler, Agent, Launch, BeginAttempt, EndAttempt, Record, Crash, ListChildren, Choose, Claim,
         Verify, Close, AgentReturns, Push, git
<1>5. CASE \E t \in Task : Commit(q, t) \/ Rebase(q, t)
  <2>1. i \in DOMAIN commits' /\ commits'[i] = commits[i]
    BY <1>3, <1>5
  <2>2. EndAttempt(q) \/ Crash(q) => UNCHANGED commits \/ Lose(q, Moved(q))
    BY DEF EndAttempt, Record, Crash
  <2> QED
    BY <1>0, <1>1, <1>2, <2>1, <2>2 DEF Made
<1> QED
  BY <1>1, <1>2, <1>4, <1>5

(* Another Run's step: the upstream branch may gain commits, but none that *)
(* this Run has recorded and not yet pushed.                               *)
LEMMA OthersCommits ==
    ASSUME GitTyped, RunTyped, ControlInv, GitInv, CommitInv,
           NEW q \in Run, Engine(q) \/ Handler(q) \/ Agent(q), NEW r \in Run \ {q}
    PROVE  CommitsOf(r)'
<1>1. /\ run'[r] = run[r] /\ ckpt'[r] = ckpt[r] /\ local'[r] = local[r] /\ recorded'[r] = recorded[r]
  BY OnlyOwn
<1>2. UNCHANGED upstream \/ upstream' = local[q]
  BY DEF Engine, Handler, Agent, Launch, BeginAttempt, EndAttempt, Crash, ListChildren, Choose, Claim,
         Verify, Close, AgentReturns, Commit, Rebase, Push, git
<1>3. UNCHANGED upstream \/ upstream \subseteq upstream'
  BY DEF Engine, Handler, Agent, Launch, BeginAttempt, EndAttempt, Crash, ListChildren, Choose, Claim,
         Verify, Close, AgentReturns, Commit, Rebase, Push, git
<1>4. local[r] \subseteq DOMAIN commits
  BY DEF GitTyped
<1>5. \A i \in local[r] : /\ commits'[i].run = commits[i].run /\ commits'[i].task = commits[i].task
                          /\ commits[i].lost => commits'[i].lost
                          /\ commits[i].run # q => commits'[i].lost = commits[i].lost
  BY <1>4, CommitsStay
<1>6. Unpublished(r)' \subseteq Unpublished(r)
  BY <1>1, <1>3, <1>5 DEF Unpublished
<1>7. StillToPush(r) => StillToPush(r)'
  <2>1. SUFFICES ASSUME ckpt[r].task # NoTask, NEW i \in recorded[r][ckpt[r].task] \ upstream
                 PROVE  i \notin upstream'
    BY <1>1 DEF StillToPush
  <2>2. ckpt[r].task \in Task
    BY <2>1 DEF RunTyped, Maybe
  <2>3. i \notin local[q]
    BY <2>2 DEF GitInv
  <2> QED
    BY <1>2, <2>3
<1>8. Moved(r)' = Moved(r) /\ Moved(r) \subseteq local[r] /\ (InAttempt(r)' <=> InAttempt(r))
  BY <1>1 DEF Moved, InAttempt
<1>9. CommitsOf(r)
  BY DEF CommitInv
<1>10. \A i \in Moved(r) : commits'[i].run = r /\ ~commits'[i].lost => commits[i].run = r /\ ~commits[i].lost
  BY <1>5, <1>8
<1>11. \A i \in Unpublished(r) : i \in local[r] /\ commits'[i].task = commits[i].task
  BY <1>5 DEF Unpublished
<1>12. /\ \A i \in Unpublished(r)' :
             /\ commits'[i].task = ckpt'[r].task
             /\ run'[r].pc # "off" => run'[r].task = ckpt'[r].task
  BY <1>1, <1>6, <1>9, <1>11 DEF CommitsOf
<1>13. Unpublished(r)' # {} =>
         \/ StillToPush(r)'
         \/ /\ ckpt'[r].stage = "work" /\ run'[r].pc \in {"run", "ended"}
            /\ Unpublished(r)' \subseteq Moved(r)'
  BY <1>1, <1>6, <1>7, <1>8, <1>9 DEF CommitsOf
<1>14. InAttempt(r)' => \A i \in Moved(r)' : commits'[i].run = r /\ ~commits'[i].lost => commits'[i].task = ckpt'[r].task
  BY <1>1, <1>5, <1>8, <1>9, <1>10 DEF CommitsOf
<1> QED
  BY <1>1, <1>6, <1>9, <1>12, <1>13, <1>14 DEF CommitsOf

(* In front of a select there is nothing left to push.                     *)
LEMMA NothingLeftAtSelect ==
    ASSUME GitTyped, RunTyped, ControlInv, CommitInv, NEW r \in Run, ckpt[r].task = NoTask
    PROVE  Unpublished(r) = {}
<1>1. SUFFICES ASSUME NEW i \in Unpublished(r) PROVE FALSE
  OBVIOUS
<1>2. i \in DOMAIN commits
  BY DEF GitTyped, Unpublished
<1>3. commits[i].task \in Task
  <2>1. commits[i] \in Made
    BY <1>2, LenProperties, ElementOfSeq DEF GitTyped
  <2> QED
    BY <2>1 DEF Made
<1>4. commits[i].task = NoTask
  BY DEF CommitInv, CommitsOf
<1> QED
  BY <1>3, <1>4, TaskAssumption

(* A step that ends or goes on with an attempt and touches no commit.      *)
LEMMA HandlerCommits ==
    ASSUME GitTyped, RunTyped, ControlInv, GitInv, CommitInv, NEW q \in Run, Handler(q) \/ AgentReturns(q)
    PROVE  CommitsOf(q)'
<1>0. /\ run \in [Run -> Process] /\ Control(q) /\ CommitsOf(q)
  BY DEF RunTyped, ControlInv, CommitInv
<1>1. UNCHANGED <<commits, upstream, local, recorded, ckpt>>
  BY DEF Handler, ListChildren, Choose, Claim, Verify, Close, AgentReturns, git
<1>2. Unpublished(q)' = Unpublished(q) /\ (StillToPush(q) => StillToPush(q)')
  BY <1>1 DEF Unpublished, StillToPush
<1>3. run'[q].before = run[q].before /\ InAttempt(q)
  <2>1. InAttempt(q)
    BY DEF Handler, ListChildren, Choose, Claim, Verify, Close, AgentReturns, At, InAttempt
  <2>2. ASSUME NEW result, End(q, result)
        PROVE  run'[q].before = run[q].before
    BY <1>0, <2>2 DEF End, Process
  <2>3. CASE ListChildren(q)
    <3>1. CASE run' = [run EXCEPT ![q].pc = "ready", ![q].children = {t \in Task : tracker[t] # "closed"}]
      BY <1>0, <2>1, <3>1 DEF Process
    <3> QED
      BY <2>1, <2>2, <2>3, <3>1 DEF ListChildren
  <2>4. CASE Choose(q)
    <3>1. CASE \E t : run' = [run EXCEPT ![q].pc = "claim", ![q].pick = t]
      BY <1>0, <2>1, <3>1 DEF Process
    <3> QED
      BY <2>1, <2>2, <2>4, <3>1 DEF Choose
  <2>5. CASE Claim(q)
    <3>1. CASE run' = [run EXCEPT ![q].pc = "ended", ![q].result = "error", ![q].pick = NoTask]
      BY <1>0, <2>1, <3>1 DEF Process
    <3> QED
      BY <2>1, <2>2, <2>5, <3>1 DEF Claim
  <2>6. CASE Verify(q)
    <3>1. CASE run' = [run EXCEPT ![q].pc = "verified"]
      BY <1>0, <2>1, <3>1 DEF Process
    <3> QED
      BY <2>1, <2>2, <2>6, <3>1 DEF Verify
  <2>7. CASE Close(q)
    <3>1. CASE run' = [run EXCEPT ![q].pc = "ended", ![q].result = "closed", ![q].task = NoTask]
      BY <1>0, <2>1, <3>1 DEF Process
    <3> QED
      BY <2>1, <2>2, <2>7, <3>1 DEF Close
  <2>8. CASE AgentReturns(q)
    BY <2>1, <2>2, <2>8 DEF AgentReturns
  <2> QED
    BY <2>1, <2>3, <2>4, <2>5, <2>6, <2>7, <2>8 DEF Handler
<1>4. InAttempt(q)' => \A i \in Moved(q)' : commits'[i].run = q /\ ~commits'[i].lost => commits'[i].task = ckpt'[q].task
  BY <1>0, <1>1, <1>3 DEF Moved, CommitsOf
<1>5. CASE Unpublished(q) = {}
  BY <1>2, <1>4, <1>5 DEF CommitsOf
<1>6. CASE Unpublished(q) # {}
  <2>1. ckpt[q].task # NoTask /\ ckpt[q].stage # "select"
    BY <1>0, <1>6, NothingLeftAtSelect DEF Control
  <2>2. run[q].stage = ckpt[q].stage
    BY <1>0, <1>3 DEF Control
  <2>3. ~ListChildren(q) /\ ~Choose(q) /\ ~Claim(q)
    BY <2>1, <2>2 DEF ListChildren, Choose, Claim, At
  <2>4. ~Close(q)
    BY <1>0, <1>6 DEF Close, At, CommitsOf
  <2>5. CASE AgentReturns(q)
    <3>1. PICK result \in {"worked", "again", "error"} : End(q, result)
      BY <2>5 DEF AgentReturns
    <3>2. run'[q].pc = "ended" /\ run'[q].result = result /\ run'[q].task = run[q].task
      BY <1>0, <3>1 DEF End, Process
    <3>3. run[q].pc = "run"
      BY <2>5 DEF AgentReturns, At
    <3>4. Moved(q)' = Moved(q)
      BY <1>1, <1>3 DEF Moved
    <3> QED
      BY <1>0, <1>1, <1>2, <1>4, <3>1, <3>2, <3>3, <3>4 DEF CommitsOf
  <2>6. CASE Verify(q)
    <3>1. run[q].pc = "run" /\ run[q].stage = "close"
      BY <2>6 DEF Verify, At
    <3>2. StillToPush(q)
      BY <1>0, <1>6, <2>2, <3>1 DEF CommitsOf
    <3>3. run[q].task = ckpt[q].task
      BY <1>0, <1>3, <3>1 DEF Control
    <3>4. ~(recorded[q][run[q].task] \subseteq upstream)
      BY <3>2, <3>3 DEF StillToPush
    <3>5. PICK result \in {"unpublished", "error"} : End(q, result)
      BY <2>6, <3>4 DEF Verify
    <3>6. run'[q].pc = "ended" /\ run'[q].result = result /\ run'[q].task = run[q].task
      BY <1>0, <3>5 DEF End, Process
    <3> QED
      BY <1>0, <1>1, <1>2, <1>4, <3>2, <3>3, <3>5, <3>6 DEF CommitsOf
  <2> QED
    BY <2>3, <2>4, <2>5, <2>6 DEF Handler
<1> QED
  BY <1>5, <1>6

(* Launch, the start of an attempt, its end, and a crash.                  *)
LEMMA EngineCommits ==
    ASSUME GitTyped, RunTyped, ControlInv, GitInv, CommitInv, NEW q \in Run, Engine(q)
    PROVE  CommitsOf(q)'
<1>0. /\ run \in [Run -> Process] /\ Control(q) /\ CommitsOf(q) /\ DOMAIN ckpt = Run
      /\ local[q] \subseteq DOMAIN commits
  BY DEF RunTyped, ControlInv, CommitInv, GitTyped
<1>1. CASE Launch(q)
  <2>1. run'[q] = [Off EXCEPT !.pc = "top", !.stage = ckpt[q].stage, !.task = ckpt[q].task]
    BY <1>0, <1>1 DEF Launch
  <2>2. run'[q].pc = "top" /\ run'[q].task = ckpt[q].task
    BY <2>1 DEF Off
  <2>3. UNCHANGED <<commits, upstream, local, recorded, ckpt>> /\ run[q].pc = "off"
    BY <1>1 DEF Launch, git
  <2>4. Unpublished(q)' = Unpublished(q) /\ (StillToPush(q) => StillToPush(q)') /\ ~InAttempt(q)'
    BY <2>2, <2>3 DEF Unpublished, StillToPush, InAttempt
  <2> QED
    BY <1>0, <2>2, <2>3, <2>4 DEF CommitsOf
<1>2. CASE BeginAttempt(q)
  <2>1. run'[q].pc = "run" /\ run'[q].task = run[q].task /\ run'[q].before = local[q]
    BY <1>0, <1>2 DEF BeginAttempt, Process
  <2>2. ckpt'[q].task = run[q].task
    BY <1>0, <1>2 DEF BeginAttempt
  <2>3. UNCHANGED <<commits, upstream, local, recorded>> /\ run[q].pc = "top"
    BY <1>2 DEF BeginAttempt, git
  <2>4. Unpublished(q)' = Unpublished(q) /\ Moved(q)' = {}
    BY <2>1, <2>3 DEF Unpublished, Moved
  <2>5. Unpublished(q) # {} => run[q].task = ckpt[q].task /\ StillToPush(q)
    BY <1>0, <2>3 DEF CommitsOf
  <2>6. Unpublished(q) # {} => StillToPush(q)'
    BY <2>2, <2>3, <2>5 DEF StillToPush
  <2>7. \A i \in Unpublished(q) : commits[i].task = ckpt[q].task
    BY <1>0 DEF CommitsOf
  <2> QED
    BY <2>1, <2>2, <2>3, <2>4, <2>5, <2>6, <2>7 DEF CommitsOf
<1>3. ASSUME Lose(q, Moved(q)), UNCHANGED <<upstream, local, recorded, ckpt>>
      PROVE  /\ Unpublished(q)' \subseteq Unpublished(q) /\ Unpublished(q)' \cap Moved(q) = {}
             /\ \A i \in Unpublished(q) : commits'[i].task = commits[i].task
  <2>1. \A i \in local[q] : /\ commits'[i].task = commits[i].task
                            /\ commits'[i].lost = (commits[i].lost \/ (i \in Moved(q) /\ commits[i].run = q))
    BY <1>0, <1>3, LoseKeeps
  <2>2. \A i \in Unpublished(q) : i \in local[q] /\ commits[i].run = q
    BY DEF Unpublished, GitInv
  <2> QED
    BY <1>3, <2>1, <2>2 DEF Unpublished
<1>4. CASE EndAttempt(q)
  <2>0. /\ run[q].pc = "ended" /\ UNCHANGED <<ckpt, upstream, local>> /\ Record(q)
        /\ run[q].stage = ckpt[q].stage /\ InAttempt(q)
    BY <1>0, <1>4 DEF EndAttempt, Control, InAttempt
  <2>1. run'[q].pc \in {"off", "top", "over"} /\ (run'[q].pc = "top" /\ run[q].result # "more" => run'[q].task = run[q].task)
        /\ (run'[q].pc = "over" => run[q].result \in {"done", "blocked"})
    <3> DEFINE on == [Off EXCEPT !.pc = "top", !.task = run[q].task, !.stage = run[q].stage]
    <3>1. run'[q] = CASE run[q].result = "error" -> Off
              [] run[q].result = "again" -> on
              [] run[q].result \in {"done", "blocked"} -> [Off EXCEPT !.pc = "over"]
              [] OTHER -> [on EXCEPT !.stage = NextStage[run[q].result],
                    !.task = IF run[q].result = "more" THEN run[q].pick ELSE @]
      BY <1>0, <1>4 DEF EndAttempt, GoOn
    <3>3. CASE run[q].result = "error"
      BY <3>1, <3>3 DEF Off
    <3>4. CASE run[q].result = "again"
      BY <3>1, <3>4 DEF Off
    <3>5. CASE run[q].result \in {"done", "blocked"}
      BY <3>1, <3>5 DEF Off
    <3>6. CASE run[q].result \notin {"error", "again", "done", "blocked"}
      <4>1. run'[q] = [on EXCEPT !.stage = NextStage[run[q].result],
                    !.task = IF run[q].result = "more" THEN run[q].pick ELSE @]
        BY <3>1, <3>6
      <4> QED
        BY <4>1 DEF Off
    <3> QED
      BY <3>3, <3>4, <3>5, <3>6
  <2>2. ~InAttempt(q)'
    BY <2>1 DEF InAttempt
  <2>3. Unpublished(q)' \subseteq Unpublished(q) /\ \A i \in Unpublished(q) : commits'[i].task = commits[i].task
    BY <1>3, <2>0 DEF Record, Unpublished
  <2>4. ASSUME NEW i \in Unpublished(q)
        PROVE  run'[q].pc # "off" => run'[q].task = ckpt[q].task
    <3>1. ckpt[q].task # NoTask /\ ckpt[q].stage # "select"
      BY <1>0, <2>4, NothingLeftAtSelect DEF Control
    <3>2. run[q].result \notin {"more", "done", "blocked", "closed"}
      BY <1>0, <2>0, <2>4, <3>1 DEF Control, CommitsOf
    <3>3. run[q].task = ckpt[q].task
      BY <1>0, <2>0, <3>2 DEF Control
    <3> QED
      BY <2>1, <3>2, <3>3
  <2>5. StillToPush(q) => StillToPush(q)'
    <3>1. SUFFICES ASSUME ckpt[q].task # NoTask
                   PROVE  recorded[q][ckpt[q].task] \subseteq recorded'[q][ckpt[q].task]
      BY <2>0 DEF StillToPush
    <3>2. ckpt[q].task \in Task
      BY <3>1 DEF RunTyped, Maybe
    <3>3. CASE UNCHANGED recorded
      BY <3>3
    <3>4. CASE ~UNCHANGED recorded
      <4>1. PICK u \in Run : /\ Named(u) \in Task
                             /\ recorded' = [recorded EXCEPT ![u] = [recorded[u] EXCEPT
                                    ![Named(u)] = recorded[u][Named(u)] \cup Moved(u)]]
        BY <3>4, RecordedStays DEF Next
      <4> QED
        BY <3>2, <4>1 DEF GitTyped
    <3> QED
      BY <3>3, <3>4
  <2>6. CASE Lose(q, Moved(q)) /\ UNCHANGED recorded
    <3>1. Unpublished(q)' # {} => StillToPush(q)
      BY <1>0, <1>3, <2>0, <2>6 DEF CommitsOf
    <3> QED
      BY <1>0, <2>0, <2>1, <2>2, <2>3, <2>4, <2>5, <3>1 DEF CommitsOf
  <2>7. CASE Recorded(q) /\ UNCHANGED commits
    <3>1. Unpublished(q)' = Unpublished(q)
      BY <2>0, <2>7 DEF Unpublished
    <3>2. ASSUME Unpublished(q) # {}, Unpublished(q) \subseteq Moved(q), ckpt[q].stage = "work"
          PROVE  StillToPush(q)'
      <4>1. run[q].result \notin {"more", "closed"}
        BY <1>0, <2>0, <3>2 DEF Control
      <4>2. run[q].task = ckpt[q].task /\ run[q].pick = NoTask /\ ckpt[q].task # NoTask
        BY <1>0, <2>0, <3>2, <4>1 DEF Control
      <4>3. Named(q) = ckpt[q].task /\ ckpt[q].task \in Task
        BY <4>2 DEF Named, RunTyped, Maybe
      <4>4. recorded'[q][ckpt[q].task] = recorded[q][ckpt[q].task] \cup Moved(q)
        BY <2>7, <4>2, <4>3 DEF Recorded, GitTyped
      <4>5. PICK i \in Unpublished(q) : i \in Moved(q) /\ i \notin upstream
        BY <3>2 DEF Unpublished
      <4> QED
        BY <2>0, <4>2, <4>4, <4>5 DEF StillToPush
    <3> QED
      BY <1>0, <2>0, <2>1, <2>2, <2>3, <2>4, <2>5, <3>1, <3>2 DEF CommitsOf
  <2> QED
    BY <2>0, <2>6, <2>7 DEF Record
<1>5. CASE Crash(q)
  <2>1. run'[q].pc = "off" /\ UNCHANGED <<ckpt, upstream, local, recorded>>
    BY <1>0, <1>5 DEF Crash, Off
  <2>2. ~InAttempt(q)' /\ (StillToPush(q) => StillToPush(q)')
    BY <2>1 DEF InAttempt, StillToPush
  <2>3. CASE UNCHANGED commits /\ run[q].pc = "top"
    <3>1. Unpublished(q)' = Unpublished(q)
      BY <2>1, <2>3 DEF Unpublished
    <3> QED
      BY <1>0, <2>1, <2>2, <2>3, <3>1 DEF CommitsOf
  <2>4. CASE Lose(q, Moved(q))
    <3>1. Unpublished(q)' # {} => StillToPush(q)
      BY <1>0, <1>3, <2>1, <2>4 DEF CommitsOf
    <3>2. \A i \in Unpublished(q)' : commits'[i].task = ckpt[q].task
      BY <1>0, <1>3, <2>1, <2>4 DEF CommitsOf
    <3> QED
      BY <2>1, <2>2, <3>1, <3>2 DEF CommitsOf
  <2> QED
    BY <1>5, <2>3, <2>4 DEF Crash
<1> QED
  BY <1>1, <1>2, <1>4, <1>5 DEF Engine

(* What an agent of the Run does, also one that outlived its process: that *)
(* one's commits are nobody's, and a rebase copies what was to be pushed.  *)
LEMMA AgentCommits ==
    ASSUME GitTyped, RunTyped, ControlInv, GitInv, CommitInv, NEW q \in Run, NEW t \in Task,
           Commit(q, t) \/ Rebase(q, t) \/ Push(q, t)
    PROVE  CommitsOf(q)'
<1>0. /\ Control(q) /\ CommitsOf(q) /\ local \in [Run -> SUBSET DOMAIN commits]
      /\ upstream \subseteq DOMAIN commits /\ UNCHANGED <<ckpt, run, recorded>>
  BY AgentsOnlyTouchGit DEF ControlInv, CommitInv, GitTyped
<1>1. InAttempt(q) => run[q].before \subseteq DOMAIN commits
  BY <1>0 DEF Control
<1>2. CASE Push(q, t)
  <2>1. local[q] \ upstream' = {} /\ UNCHANGED <<commits, local>>
    BY <1>2 DEF Push
  <2>2. Unpublished(q)' = {} /\ Moved(q)' = Moved(q)
    BY <1>0, <2>1 DEF Unpublished, Moved
  <2> QED
    BY <1>0, <2>1, <2>2 DEF CommitsOf, InAttempt
<1>3. CASE Commit(q, t)
  <2> DEFINE n == Len(commits')
             mine == At(q, "run", "work") /\ run[q].task = t
  <2>1. /\ n \notin DOMAIN commits /\ local' = [local EXCEPT ![q] = local[q] \cup {n}]
        /\ \A i \in DOMAIN commits : commits'[i] = commits[i]
    BY <1>3, CommitAppends
  <2>2. commits'[n].task = t /\ (commits'[n].lost <=> ~mine)
    <3>1. commits'[n] = [run |-> q, task |-> t, lost |-> ~mine]
      BY <1>3, CommitAppends
    <3> HIDE DEF mine
    <3>2. commits'[n].task = t /\ commits'[n].lost = (~mine)
      BY <3>1
    <3> QED
      BY <3>2
  <2>3. UNCHANGED upstream
    BY <1>3 DEF Commit
  <2> HIDE DEF n
  <2>4. local'[q] = local[q] \cup {n} /\ n \notin upstream /\ n \notin local[q]
    BY <1>0, <2>1
  <2>5. Unpublished(q)' = Unpublished(q) \cup (IF mine THEN {n} ELSE {})
    <3>1. \A i \in local[q] : commits'[i] = commits[i]
      BY <1>0, <2>1
    <3> HIDE DEF mine
    <3> QED
      BY <2>2, <2>3, <2>4, <3>1 DEF Unpublished
  <2>6. InAttempt(q) => Moved(q)' = Moved(q) \cup {n}
    BY <1>0, <1>1, <2>1, <2>4 DEF Moved
  <2>7. mine => /\ run[q].pc = "run" /\ ckpt[q].stage = "work"
                /\ t = ckpt[q].task /\ run[q].task = ckpt[q].task /\ InAttempt(q)
    BY <1>0 DEF Control, At, InAttempt
  <2>8. \A i \in Unpublished(q) : commits'[i].task = commits[i].task
    BY <1>0, <2>1 DEF Unpublished
  <2>9. \A i \in Unpublished(q)' :
         /\ commits'[i].task = ckpt'[q].task
         /\ run'[q].pc # "off" => run'[q].task = ckpt'[q].task
    <3> HIDE DEF mine
    <3> QED
      BY <1>0, <2>2, <2>5, <2>7, <2>8 DEF CommitsOf
  <2>10. Unpublished(q)' # {} =>
         \/ StillToPush(q)'
         \/ /\ ckpt'[q].stage = "work" /\ run'[q].pc \in {"run", "ended"}
            /\ Unpublished(q)' \subseteq Moved(q)'
    <3>1. StillToPush(q) => StillToPush(q)'
      BY <1>0, <2>3 DEF StillToPush
    <3>2. run[q].pc \in {"run", "ended"} => InAttempt(q)
      BY DEF InAttempt
    <3> HIDE DEF mine
    <3> QED
      BY <1>0, <2>5, <2>6, <2>7, <3>1, <3>2 DEF CommitsOf
  <2>11. run'[q].pc = "verified" \/ (run'[q].pc = "ended" /\ run'[q].result = "closed") => Unpublished(q)' = {}
    <3> HIDE DEF mine
    <3> QED
      BY <1>0, <2>5, <2>7 DEF CommitsOf
  <2>12. InAttempt(q)' =>
         \A i \in Moved(q)' : commits'[i].run = q /\ ~commits'[i].lost => commits'[i].task = ckpt'[q].task
    <3>1. SUFFICES ASSUME InAttempt(q), NEW i \in Moved(q) \cup {n}, commits'[i].run = q, ~commits'[i].lost
                   PROVE  commits'[i].task = ckpt[q].task
      BY <1>0, <2>6 DEF InAttempt
    <3>2. CASE i = n
      BY <2>2, <2>7, <3>1, <3>2
    <3>3. CASE i \in Moved(q)
      <4>1. commits'[i] = commits[i]
        BY <1>0, <2>1, <3>3 DEF Moved
      <4> QED
        BY <1>0, <3>1, <3>3, <4>1 DEF CommitsOf
    <3> QED
      BY <3>1, <3>2, <3>3
  <2> QED
    BY <2>9, <2>10, <2>11, <2>12 DEF CommitsOf
<1>4. CASE Rebase(q, t)
  <2> DEFINE fresh == Len(commits) + 1 .. Len(commits')
  <2>1. /\ local' = [local EXCEPT ![q] = upstream \cup fresh]
        /\ \A i \in DOMAIN commits : commits'[i] = commits[i]
        /\ \A j \in fresh : j \notin DOMAIN commits /\ \E i \in local[q] \ upstream : commits'[j] = commits[i]
    BY <1>4, RebaseCopies
  <2>2. UNCHANGED upstream
    BY <1>4 DEF Rebase
  <2> HIDE DEF fresh
  <2>3. local'[q] = upstream \cup fresh
    BY <1>0, <2>1
  <2>4. \A j \in fresh : ~commits'[j].lost =>
            \E i \in Unpublished(q) : commits'[j] = commits[i]
    BY <2>1 DEF Unpublished
  <2>5. Unpublished(q)' \subseteq fresh /\ \A j \in Unpublished(q)' : ~commits'[j].lost
    BY <2>2, <2>3 DEF Unpublished
  <2>6. InAttempt(q) => fresh \subseteq Moved(q)'
    BY <1>0, <1>1, <2>1, <2>3 DEF Moved
  <2>7. \A j \in Unpublished(q)' :
         /\ commits'[j].task = ckpt'[q].task
         /\ run'[q].pc # "off" => run'[q].task = ckpt'[q].task
    BY <1>0, <2>4, <2>5 DEF CommitsOf
  <2>8. Unpublished(q)' # {} => Unpublished(q) # {}
    BY <2>4, <2>5
  <2>9. Unpublished(q)' # {} =>
         \/ StillToPush(q)'
         \/ /\ ckpt'[q].stage = "work" /\ run'[q].pc \in {"run", "ended"}
            /\ Unpublished(q)' \subseteq Moved(q)'
    <3>1. StillToPush(q) => StillToPush(q)'
      BY <1>0, <2>2 DEF StillToPush
    <3>2. run[q].pc \in {"run", "ended"} => InAttempt(q)
      BY DEF InAttempt
    <3> QED
      BY <1>0, <2>5, <2>6, <2>8, <3>1, <3>2 DEF CommitsOf
  <2>10. InAttempt(q)' =>
         \A i \in Moved(q)' : commits'[i].run = q /\ ~commits'[i].lost => commits'[i].task = ckpt'[q].task
    <3>1. SUFFICES ASSUME InAttempt(q), NEW i \in (upstream \cup fresh) \ run[q].before,
                          commits'[i].run = q, ~commits'[i].lost
                   PROVE  commits'[i].task = ckpt[q].task
      BY <1>0, <2>3 DEF InAttempt, Moved
    <3>2. CASE i \in fresh
      BY <1>0, <2>4, <3>1, <3>2 DEF CommitsOf
    <3>3. CASE i \in upstream
      <4>1. commits'[i] = commits[i]
        BY <1>0, <2>1, <3>3
      <4>2. i \in Moved(q)
        BY <3>1, <3>3, <4>1 DEF GitInv, Moved
      <4> QED
        BY <1>0, <3>1, <4>1, <4>2 DEF CommitsOf
    <3> QED
      BY <3>1, <3>2, <3>3
  <2> QED
    BY <1>0, <2>7, <2>8, <2>9, <2>10 DEF CommitsOf
<1> QED
  BY <1>2, <1>3, <1>4

LEMMA CommitStep ==
    ASSUME GitTyped, RunTyped, ControlInv, GitInv, CommitInv, [Next]_vars
    PROVE  CommitInv'
<1>1. CASE UNCHANGED vars
  BY <1>1 DEF CommitInv, CommitsOf, Unpublished, StillToPush, Moved, InAttempt, vars, git
<1>2. ASSUME NEW q \in Run, Engine(q) \/ Handler(q) \/ Agent(q)
      PROVE  CommitInv'
  <2>1. CommitsOf(q)'
    BY <1>2, EngineCommits, HandlerCommits, AgentCommits DEF Agent
  <2> QED
    BY <1>2, <2>1, OthersCommits DEF CommitInv
<1> QED
  BY <1>1, <1>2 DEF Next

----------------------------------------------------------------------------
(* The journal's records                                                   *)

LEMMA RecordStep ==
    ASSUME GitTyped, RunTyped, ControlInv, GitInv, CommitInv, RecordedIsOwn, [Next]_vars
    PROVE  RecordedIsOwn'
<1>0. /\ recorded \in [Run -> [Task -> SUBSET DOMAIN commits]]
      /\ \A i \in DOMAIN commits : commits[i].task \in Task
  <2>1. \A i \in DOMAIN commits : commits[i] \in Made
    BY LenProperties, ElementOfSeq DEF GitTyped
  <2> QED
    BY <2>1 DEF GitTyped, Made
<1>1. \A i \in DOMAIN commits : /\ commits'[i].run = commits[i].run /\ commits'[i].task = commits[i].task
                                /\ commits[i].lost => commits'[i].lost
  <2>1. CASE UNCHANGED vars
    BY <2>1 DEF vars, git
  <2> QED
    BY <2>1, CommitsStay DEF Next
<1>2. ASSUME NEW r \in Run, NEW t \in Task, NEW i \in recorded[r][t]
      PROVE  commits'[i].run = r /\ ~commits'[i].lost => commits'[i].task = t
  BY <1>0, <1>1, <1>2 DEF RecordedIsOwn
<1>3. CASE UNCHANGED recorded
  BY <1>2, <1>3 DEF RecordedIsOwn
<1>4. CASE ~UNCHANGED recorded
  <2>1. PICK q \in Run : /\ EndAttempt(q) /\ UNCHANGED git /\ Named(q) \in Task
                         /\ recorded' = [recorded EXCEPT ![q] = [recorded[q] EXCEPT
                                ![Named(q)] = recorded[q][Named(q)] \cup Moved(q)]]
    BY <1>4, RecordedStays
  <2>2. commits' = commits /\ run[q].pc = "ended" /\ InAttempt(q) /\ Control(q) /\ CommitsOf(q)
    BY <2>1 DEF git, EndAttempt, InAttempt, ControlInv, CommitInv
  <2>3. ASSUME NEW i \in Moved(q), commits[i].run = q, ~commits[i].lost
        PROVE  commits[i].task = Named(q)
    <3>1. commits[i].task = ckpt[q].task
      BY <2>2, <2>3 DEF CommitsOf
    <3>2. i \in DOMAIN commits
      BY DEF Moved, GitTyped
    <3>3. ckpt[q].task # NoTask /\ run[q].stage # "select"
      BY <1>0, <2>2, <3>1, <3>2, TaskAssumption DEF Control
    <3>4. run[q].pick = NoTask /\ run[q].taskBefore = ckpt[q].task /\ run[q].task \in {NoTask, ckpt[q].task}
      BY <2>2, <3>3 DEF Control
    <3> QED
      BY <3>1, <3>4 DEF Named
  <2>4. ASSUME NEW r \in Run, NEW t \in Task, NEW i \in recorded'[r][t]
        PROVE  i \in recorded[r][t] \/ (r = q /\ t = Named(q) /\ i \in Moved(q))
    BY <1>0, <2>1, <2>4
  <2> QED
    BY <1>2, <2>2, <2>3, <2>4 DEF RecordedIsOwn
<1> QED
  BY <1>3, <1>4

----------------------------------------------------------------------------
(* The inductive invariant and the theorems                                *)

IInv == GitTyped /\ RunTyped /\ ControlInv /\ HeldInv /\ GitInv /\ CommitInv /\ RecordedIsOwn

LEMMA IInvInit == Init => IInv
<1> SUFFICES ASSUME Init PROVE IInv
  OBVIOUS
<1>1. commits = <<>> /\ upstream = {} /\ \A r \in Run : local[r] = {} /\ \A t \in Task : recorded[r][t] = {}
  BY DEF Init
<1>2. GitTyped
  BY DEF Init, GitTyped
<1>3. RunTyped
  <2>1. Off \in Process
    BY DEF Off, Process, Pc, Stage, Maybe, Result
  <2> QED
    BY <2>1 DEF Init, RunTyped, Stage, Maybe
<1>4. \A r \in Run : /\ run[r].pc = "off" /\ run[r].task = NoTask /\ run[r].pick = NoTask
                     /\ ckpt[r].task = NoTask /\ ckpt[r].stage = "select"
  BY DEF Init, Off
<1>5. ControlInv
  BY <1>4 DEF ControlInv, Control, InAttempt
<1>6. HeldInv
  BY <1>4 DEF HeldInv, Held, InHand
<1>7. GitInv /\ RecordedIsOwn
  BY <1>1 DEF GitInv, RecordedIsOwn
<1>8. CommitInv
  BY <1>1, <1>4 DEF CommitInv, CommitsOf, Unpublished, InAttempt
<1> QED
  BY <1>2, <1>3, <1>5, <1>6, <1>7, <1>8 DEF IInv

LEMMA IInvStep == IInv /\ [Next]_vars => IInv'
<1> QED
  BY GitTypeStep, RunTypeStep, ControlStep, HeldStep, GitStep, CommitStep, RecordStep DEF IInv

LEMMA IInvHolds == Spec => []IInv
<1> QED
  BY IInvInit, IInvStep, PTL DEF Spec

(* Every variable has its type, and a Task is in the context and in the    *)
(* checkpoint exactly outside select (task.* of beads.rs).                 *)
THEOREM TypeCorrect == Spec => []TypeOK
<1>1. IInv => TypeOK
  <2> SUFFICES ASSUME IInv PROVE TypeOK
    OBVIOUS
  <2>1. GitTyped /\ RunTyped /\ ControlInv
    BY DEF IInv
  <2>2. \A i \in DOMAIN commits : commits[i] \in [run : Run, task : Task, lost : BOOLEAN]
    BY <2>1, LenProperties, ElementOfSeq DEF GitTyped, Made
  <2>3. \A r \in Run : /\ local[r] \subseteq DOMAIN commits /\ orphans[r] \subseteq Task
                       /\ \A t \in Task : recorded[r][t] \subseteq DOMAIN commits
    BY <2>1 DEF GitTyped, RunTyped
  <2>4. \A r \in Run : ckpt[r].task \in Maybe /\ run[r].task \in Maybe /\ Control(r)
    BY <2>1 DEF RunTyped, Process, ControlInv
  <2>5. \A r \in Run : /\ ckpt[r].task \in Task <=> ckpt[r].stage # "select"
                       /\ run[r].pc = "top" => (run[r].task \in Task <=> run[r].stage # "select")
    BY <2>4, TaskAssumption DEF Maybe, Control
  <2> QED
    BY <2>1, <2>2, <2>3, <2>5 DEF TypeOK, GitTyped, RunTyped
<1> QED
  BY <1>1, IInvHolds, PTL

(* However many Runs of the Epic there are and whichever crash and come    *)
(* back, no two of them have the same Task, in hand or in the checkpoint   *)
(* they would resume from: `bd update --claim` is the only way to one.     *)
THEOREM TasksAreNotShared == Spec => []OneRunPerTask
<1>1. IInv => OneRunPerTask
  <2>1. \A r \in Run : InHand(r) \subseteq Held(r)
    BY DEF Held, InHand
  <2>2. IInv => \A r, s \in Run : r # s => Held(r) \cap Held(s) = {}
    BY DEF IInv, HeldInv
  <2> QED
    BY <2>1, <2>2 DEF OneRunPerTask
<1> QED
  BY <1>1, IInvHolds, PTL

(* Agents work on a Task after all its blockers are closed, and while it   *)
(* is claimed, also after a crash and a resume.                            *)
THEOREM WorkWaitsForBlockers == Spec => []WorkIsReady
<1>1. IInv => WorkIsReady
  <2> SUFFICES ASSUME IInv, NEW r \in Run, At(r, "run", "work")
               PROVE  tracker[run[r].task] # "open" /\ ClosedBlockers(run[r].task)
    BY DEF WorkIsReady, ClosedBlockers
  <2>1. run[r].task = ckpt[r].task /\ ckpt[r].task # NoTask
    BY DEF IInv, ControlInv, Control, At, InAttempt
  <2>2. run[r].task \in Held(r)
    BY <2>1 DEF Held, InHand
  <2> QED
    BY <2>2 DEF IInv, HeldInv
<1> QED
  BY <1>1, IInvHolds, PTL

(* What the journal names as the commits of a Task was made for it, or     *)
(* came with a pull (emit_run_commits).                                    *)
THEOREM RecordsAreOwn == Spec => []RecordedIsOwn
<1>1. IInv => RecordedIsOwn
  BY DEF IInv
<1> QED
  BY <1>1, IInvHolds, PTL

(* When beads.close closes a Task, every commit made for it that its Run   *)
(* could account for is on the upstream branch.                            *)
THEOREM ClosingPublishes == Spec => ClosedIsPublished
<1>1. IInv /\ [Next]_vars =>
        [\A t \in Task : tracker[t] # "closed" /\ tracker'[t] = "closed" => PublishedUnlessLost(t)]_vars
  <2> SUFFICES ASSUME IInv, [Next]_vars, NEW t \in Task, tracker[t] # "closed", tracker'[t] = "closed"
               PROVE  PublishedUnlessLost(t)
    OBVIOUS
  <2>0. tracker \in [Task -> {"open", "in_progress", "closed"}] /\ ~UNCHANGED tracker
    BY DEF IInv, RunTyped
  <2>1. \E r \in Run : Claim(r) \/ Close(r)
    BY <2>0 DEF Next, Engine, Handler, Agent, Launch, BeginAttempt, EndAttempt, Crash, ListChildren, Choose,
           Verify, AgentReturns, Commit, Rebase, Push, vars
  <2>2. ASSUME NEW r \in Run, Claim(r)
        PROVE  FALSE
    <3>1. tracker' = [tracker EXCEPT ![run[r].pick] = "in_progress"]
      BY <2>0, <2>2 DEF Claim
    <3> QED
      BY <2>0, <3>1
  <2>3. PICK r \in Run : Close(r)
    BY <2>1, <2>2
  <2>4. t = run[r].task /\ run[r].pc = "verified"
    BY <2>0, <2>3 DEF Close, At
  <2>5. ckpt[r].task = t /\ Unpublished(r) = {}
    BY <2>4 DEF IInv, ControlInv, Control, InAttempt, CommitInv, CommitsOf
  <2>6. ASSUME NEW s \in Run, NEW i \in local[s], commits[i].task = t, ~commits[i].lost, i \notin upstream
        PROVE  FALSE
    <3>1. i \in Unpublished(s)
      BY <2>6 DEF Unpublished
    <3>2. ckpt[s].task = t
      BY <2>6, <3>1 DEF IInv, CommitInv, CommitsOf
    <3>3. t \in Held(r) /\ t \in Held(s)
      BY <2>5, <3>2, TaskAssumption DEF Held, InHand
    <3>4. r = s
      BY <3>3 DEF IInv, HeldInv
    <3> QED
      BY <2>5, <3>1, <3>4
  <2> QED
    BY <2>6 DEF PublishedUnlessLost
<1> QED
  BY <1>1, IInvHolds, PTL DEF Spec, ClosedIsPublished

(* THEOREM: however many Runs select, claim and close at once, a Task in   *)
(* hand is in one Run's hand, and its blockers are closed while it is      *)
(* worked on (select and its claim).                                       *)
THEOREM ClaimsHold == Spec => []WorkIsClaimed
<1> QED
  BY TypeCorrect, TasksAreNotShared, WorkWaitsForBlockers, PTL DEF WorkIsClaimed
=============================================================================
