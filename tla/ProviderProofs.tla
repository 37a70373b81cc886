--------------------------- MODULE ProviderProofs ---------------------------
(***************************************************************************)
(* Proofs about the two ways to a model, side by side as MCModels composes *)
(* them. Provider, for every node, whatever its processes print and        *)
(* however long they live: nobody of a process group outlives the handler  *)
(* that gave up on it, and a Model Invocation is reported once, with what  *)
(* was read of it, within its budget. What the lines cost stays abstract:  *)
(* PiTotal is never expanded. Trust: a quality node runs nothing of a      *)
(* pas.toml but what somebody agreed to. AgentSession: its tools write     *)
(* nothing outside a confined root, an edit replaces exactly what it was   *)
(* asked for, no message is lost or told out of order, steering is told    *)
(* with the next request, warnings come exactly when due, and every result *)
(* reaches a provider next to its call.                                    *)
(***************************************************************************)
EXTENDS MCModels, FiniteSetTheorems, SequenceTheorems, WellFoundedInduction, TLAPS

USE JobAssumption

GaveUp == {"timeout", "deadline", "io"}
Kinds  == {"none", "success", "fail", "error", "not_started"} \cup GaveUp

Typed ==
    /\ job \in Jobs
    /\ pc \in {"start", "run", "drain", "done"} /\ stage \in 1 .. Len(job.allow)
    /\ child \in {"none", "running", "ok", "bad", "killed"}
    /\ helper \in [alive : BOOLEAN, inGroup : BOOLEAN, holds : BOOLEAN]
    /\ written \in Seq(Output[job.provider])
    /\ read \in 0 .. Len(written) /\ Len(written) <= MaxLines
    /\ held \in BOOLEAN /\ handle \in BOOLEAN /\ (held => read < Len(written))
    /\ stopped \in BOOLEAN
    /\ result.kind \in Kinds

\* What the handler has at each of its places.
PhaseInv ==
    /\ result.kind = "none" <=> pc # "done"
    /\ pc # "done" => invoked = <<>>
    /\ pc \in {"run", "drain"} => child # "none"
    /\ pc = "drain" => job.handler = "quality"
    /\ Codergen /\ pc = "start" => child = "none" /\ read = 0
    /\ ~Codergen => ~handle /\ ~held
    /\ pc = "start" => ~held

\* A pi node goes on reading only within its budget.
SpentInv ==
    /\ \A k \in 1 .. read - 1 : ~OverBudget(SubSeq(written, 1, k))
    /\ ~stopped /\ read # 0 => ~OverBudget(ReadLines)
    /\ held => ~stopped

IInv == Typed /\ PhaseInv /\ SpentInv /\ GroupDies /\ InvokedOnce /\ UsageIsObserved /\ BudgetHolds

----------------------------------------------------------------------------
(* The operators.                                                          *)

LEMMA Results == ASSUME NEW r, Return(r) PROVE pc' = "done" /\ result' = r
  BY DEF Return

\* The usage and the answer of a pi stream report the same total.
LEMMA PiReports ==
    ASSUME NEW lines
    PROVE  /\ Summarize("pi", lines).cost = PiTotal(lines)
           /\ Parse("pi", lines).kind # "err" => lines # <<>> /\ Parse("pi", lines).cost = PiTotal(lines)
<1>1. Summarize("pi", lines) = SummarizePi(lines)
  BY DEF Summarize
<1>2. SummarizePi(lines).cost = PiTotal(lines)
  BY DEF SummarizePi
<1>3. lines = <<>> => Parse("pi", lines).kind = "err"
  BY DEF Parse, Failed
<1>4. lines # <<>> => Parse("pi", lines) = ParsePi(lines)
  BY DEF Parse
<1>5. ParsePi(lines).cost = PiTotal(lines)
  BY DEF ParsePi, Parsed
<1> QED
  BY <1>1, <1>2, <1>3, <1>4, <1>5

\* What has been read grows by the next line.
LEMMA OneMore ==
    ASSUME NEW S, NEW s \in Seq(S), NEW n \in 0 .. Len(s) - 1
    PROVE  /\ Append(SubSeq(s, 1, n), s[n + 1]) = SubSeq(s, 1, n + 1)
           /\ SubSeq(s, 1, 0) = <<>>
<1>1. SubSeq(s, 1, n) \in Seq(S) /\ SubSeq(s, 1, n + 1) \in Seq(S) /\ s[n + 1] \in S
  OBVIOUS
<1>2. Len(SubSeq(s, 1, n)) = n /\ Len(SubSeq(s, 1, n + 1)) = n + 1
  OBVIOUS
<1>3. \A i \in 1 .. n + 1 : Append(SubSeq(s, 1, n), s[n + 1])[i] = SubSeq(s, 1, n + 1)[i]
  BY <1>1, <1>2
<1> QED
  BY <1>1, <1>2, <1>3

\* A line that is printed changes nothing of what was read.
LEMMA ReadStays ==
    ASSUME NEW S, NEW s \in Seq(S), NEW l \in S, NEW n \in 0 .. Len(s)
    PROVE  SubSeq(Append(s, l), 1, n) = SubSeq(s, 1, n)
<1>1. Append(s, l) \in Seq(S) /\ Len(Append(s, l)) = Len(s) + 1 /\ \A i \in 1 .. Len(s) : Append(s, l)[i] = s[i]
  OBVIOUS
<1>2. SubSeq(Append(s, l), 1, n) \in Seq(S) /\ SubSeq(s, 1, n) \in Seq(S)
  BY <1>1
<1>3. Len(SubSeq(Append(s, l), 1, n)) = n /\ Len(SubSeq(s, 1, n)) = n
  BY <1>1
<1>4. \A i \in 1 .. n : SubSeq(Append(s, l), 1, n)[i] = SubSeq(s, 1, n)[i]
  BY <1>1
<1> QED
  BY <1>2, <1>3, <1>4

----------------------------------------------------------------------------
(* The steps, by what they leave alone.                                    *)

\* The handler gives up: what it reports is what it has, and the group dies.
GivesUp == StreamFails \/ TimesOut \/ Deadline

\* It ends by itself, or goes on.
GoesOn == Skip \/ Spawn \/ StreamEnds \/ ToolEnds \/ StageChildExits \/ StageEnds \/ StageTimesOut

LEMMA NextIs ==
    ASSUME Next
    PROVE  WriteLine \/ StartHelper \/ ChildExits \/ HelperExits \/ GivesUp \/ GoesOn \/ ReadLine \/ TakeLine
  BY DEF Next, Processes, Timers, Handler, GivesUp, GoesOn

\* Only the process writes, and only the handler reads.
LEMMA OutputStays ==
    ASSUME Next
    PROVE  /\ job' = job
           /\ WriteLine \/ written' = written
           /\ TakeLine \/ (read' = read /\ stopped' = stopped)
           /\ ReadLine \/ TakeLine \/ held' = held
           /\ TakeLine \/ Spawn \/ handle' = handle
<1>1. CASE StartHelper \/ ChildExits \/ HelperExits \/ ReadLine
  <2>1. CASE StartHelper \/ ChildExits \/ HelperExits
    BY <2>1 DEF StartHelper, ChildExits, HelperExits
  <2>2. CASE ReadLine
    <3>1. UNCHANGED <<job, written, read, stopped, handle>>
      BY <2>2 DEF ReadLine
    <3> QED
      BY <2>2, <3>1
  <2> QED
    BY <1>1, <2>1, <2>2
<1>w. CASE WriteLine
  <2>1. UNCHANGED <<job, read, stopped, held, handle>>
    BY <1>w DEF WriteLine
  <2> QED
    BY <1>w, <2>1
<1>r. CASE TakeLine
  <2>1. job' = job /\ written' = written
    BY <1>r DEF TakeLine
  <2> QED
    BY <1>r, <2>1
<1>2. CASE GivesUp
  BY <1>2 DEF GivesUp, StreamFails, TimesOut, Deadline
<1>3. CASE GoesOn
  <2>1. CASE Spawn
    <3>1. UNCHANGED <<job, written, read, stopped, held>>
      BY <2>1 DEF Spawn
    <3> QED
      BY <2>1, <3>1
  <2>2. CASE Skip \/ StreamEnds \/ ToolEnds \/ StageChildExits \/ StageEnds \/ StageTimesOut
    BY <2>2 DEF Skip, StreamEnds, ToolEnds, StageChildExits, StageEnds, StageTimesOut
  <2> QED
    BY <1>3, <2>1, <2>2 DEF GoesOn
<1> QED
  BY <1>1, <1>2, <1>3, <1>w, <1>r, NextIs

\* Processes and the reading of a line leave the handler where it is.
LEMMA HandlerStays ==
    ASSUME WriteLine \/ StartHelper \/ ChildExits \/ HelperExits \/ ReadLine \/ TakeLine
    PROVE  UNCHANGED <<job, pc, stage, invoked, result>>
  BY DEF WriteLine, StartHelper, ChildExits, HelperExits, ReadLine, TakeLine

LEMMA Killed ==
    ASSUME Typed, KillGroup
    PROVE  /\ child' \in {"none", "ok", "bad", "killed"} /\ (child' = "none" <=> child = "none")
           /\ helper' \in [alive : BOOLEAN, inGroup : BOOLEAN, holds : BOOLEAN]
           /\ ~(helper'.alive /\ helper'.inGroup)
  BY DEF Typed, KillGroup, NoHelper

\* What the handler's end reports.
LEMMA Given ==
    ASSUME GivesUp, Typed, PhaseInv
    PROVE  /\ pc \in {"run", "drain"} /\ pc' = "done" /\ KillGroup
           /\ result'.kind \in GaveUp /\ child # "none"
           /\ UNCHANGED <<job, stage, written, read, held, handle, stopped>>
           /\ transcript' \in OnDisk
           /\ invoked' = IF Codergen /\ job.journaled
                         THEN <<[status |-> IF result'.kind = "io" THEN "failed" ELSE "timeout",
                                 usage |-> TranscriptUsage(transcript')]>>
                         ELSE <<>>
<1>1. invoked = <<>> \/ pc = "done"
  BY DEF PhaseInv
<1>2. ASSUME NEW status, invoked = <<>>, InvokedFromTranscript(status)
      PROVE  /\ transcript' \in OnDisk
             /\ invoked' = IF Codergen /\ job.journaled
                           THEN <<[status |-> status, usage |-> TranscriptUsage(transcript')]>> ELSE <<>>
  BY <1>2 DEF InvokedFromTranscript, Invoked
<1>3. CASE StreamFails
  BY <1>1, <1>2, <1>3 DEF StreamFails, Return, GaveUp, PhaseInv
<1>4. CASE TimesOut
  BY <1>1, <1>2, <1>4 DEF TimesOut, Return, GaveUp, PhaseInv
<1>5. CASE Deadline
  BY <1>1, <1>2, <1>5 DEF Deadline, Return, GaveUp, PhaseInv
<1> QED
  BY <1>3, <1>4, <1>5 DEF GivesUp

\* How a stream that ended by itself is reported, and what the node returns.
LEMMA StreamEnded ==
    ASSUME StreamEnds, Typed, PhaseInv
    PROVE  /\ pc = "run" /\ pc' = "done" /\ Codergen /\ PipesClosed
           /\ result'.kind \in {"success", "fail", "error"}
           /\ UNCHANGED <<job, stage, child, helper, written, read, held, transcript, handle, stopped>>
           /\ invoked' = IF job.journaled
                         THEN <<[status |-> IF result'.kind = "success" THEN "success" ELSE "failed",
                                 usage |-> Summarize(job.provider, ReadLines)]>>
                         ELSE <<>>
           /\ ~held
           /\ result'.kind = "success" => ~stopped /\ Parse(job.provider, ReadLines).kind # "err"
           /\ result'.kind \in {"success", "fail"} =>
                \/ stopped /\ result'.cost = IF Summarize(job.provider, ReadLines).cost # None
                                             THEN Summarize(job.provider, ReadLines).cost ELSE PiSpent(ReadLines)
                \/ ~stopped /\ Parse(job.provider, ReadLines).kind # "err"
                            /\ result'.cost = Parse(job.provider, ReadLines).cost
<1> DEFINE usage  == Summarize(job.provider, ReadLines)
           answer == Parse(job.provider, ReadLines)
           stop   == Parsed(TRUE, <<"budget">>, IF usage.cost # None THEN usage.cost ELSE PiSpent(ReadLines))
           parsed == IF stopped THEN stop ELSE answer
<1>1. pc = "run" /\ Codergen /\ PipesClosed /\ invoked = <<>> /\ ~held
      /\ UNCHANGED <<job, stage, child, helper, written, read, held, transcript, handle, stopped>>
  BY DEF StreamEnds, PhaseInv
<1>2. \/ Invoked("failed", usage) /\ Return([kind |-> "error", cost |-> None])
      \/ /\ parsed.kind # "err"
         /\ Invoked(IF parsed.error THEN "failed" ELSE "success", usage)
         /\ Return([kind |-> IF parsed.error THEN "fail" ELSE "success", cost |-> parsed.cost])
  BY DEF StreamEnds
<1>3. stop.error = TRUE /\ stop.cost = IF usage.cost # None THEN usage.cost ELSE PiSpent(ReadLines)
  BY DEF Parsed
<1> HIDE DEF stop, usage, answer
<1>4. CASE Invoked("failed", usage) /\ Return([kind |-> "error", cost |-> None])
  BY <1>1, <1>4 DEF Invoked, Return, usage
<1>5. CASE /\ parsed.kind # "err"
           /\ Invoked(IF parsed.error THEN "failed" ELSE "success", usage)
           /\ Return([kind |-> IF parsed.error THEN "fail" ELSE "success", cost |-> parsed.cost])
  <2>1. result'.kind = (IF parsed.error THEN "fail" ELSE "success") /\ result'.cost = parsed.cost /\ pc' = "done"
    BY <1>5 DEF Return
  <2>2. invoked' = IF job.journaled
                   THEN <<[status |-> IF parsed.error THEN "failed" ELSE "success", usage |-> usage]>> ELSE <<>>
    BY <1>1, <1>5 DEF Invoked
  <2>3. stopped => parsed = stop
    OBVIOUS
  <2>4. ~stopped => parsed = answer
    OBVIOUS
  <2> HIDE DEF parsed
  <2> QED
    BY <1>1, <1>3, <1>5, <2>1, <2>2, <2>3, <2>4 DEF usage, answer
<1> QED
  BY <1>2, <1>4, <1>5

----------------------------------------------------------------------------
(* Each invariant is kept.                                                 *)

LEMMA LinesGrow ==
    ASSUME Typed, WriteLine
    PROVE  /\ written' \in Seq(Output[job.provider]) /\ Len(written') = Len(written) + 1
           /\ Len(written') <= MaxLines
           /\ \A n \in 0 .. Len(written) : SubSeq(written', 1, n) = SubSeq(written, 1, n)
<1>1. PICK l \in Output[job.provider] : written' = Append(written, l)
  BY DEF WriteLine
<1>2. written \in Seq(Output[job.provider]) /\ Len(written) < MaxLines
  BY DEF Typed, WriteLine
<1>3. \A n \in 0 .. Len(written) : SubSeq(written', 1, n) = SubSeq(written, 1, n)
  BY <1>1, <1>2, ReadStays
<1> QED
  BY <1>1, <1>2, <1>3

LEMMA TypedKept ==
    ASSUME Typed, PhaseInv, Next
    PROVE  Typed'
<1>0. job \in Jobs /\ job' = job /\ job.allow \in Seq(BOOLEAN) \ {<<>>} /\ Len(job.allow) \in Nat
  BY OutputStays DEF Typed
<1>h. held' \in BOOLEAN /\ handle' \in BOOLEAN /\ (held' => read' < Len(written'))
  <2>1. held \in BOOLEAN /\ handle \in BOOLEAN /\ (held => read < Len(written))
    BY DEF Typed
  <2>2. CASE ReadLine
    BY <2>1, <2>2 DEF ReadLine
  <2>3. CASE TakeLine
    BY <2>1, <2>3 DEF TakeLine, AppendLine
  <2>4. CASE WriteLine
    <3>1. UNCHANGED <<held, handle, read>>
      BY <2>4 DEF WriteLine
    <3>2. Len(written') = Len(written) + 1 /\ Len(written) \in Nat /\ read \in Nat
      BY <2>4, LinesGrow DEF Typed
    <3> QED
      BY <2>1, <3>1, <3>2
  <2>5. CASE ~(ReadLine \/ TakeLine \/ WriteLine)
    <3>1. held' = held /\ read' = read /\ written' = written
      BY <2>5, OutputStays
    <3>2. handle' \in BOOLEAN
      BY <2>1, <2>5, OutputStays DEF Spawn
    <3> QED
      BY <2>1, <3>1, <3>2
  <2> QED
    BY <2>2, <2>3, <2>4, <2>5
<1>1. CASE WriteLine
  BY <1>0, <1>1, <1>h, LinesGrow DEF Typed, WriteLine
<1>2. CASE StartHelper \/ ChildExits \/ HelperExits
  <2>1. MayEscape \in BOOLEAN
    OBVIOUS
  <2>2. CASE StartHelper
    <3>1. helper' \in [alive : BOOLEAN, inGroup : BOOLEAN, holds : BOOLEAN]
      <4>1. PICK holds \in BOOLEAN, inGroup \in {TRUE, ~MayEscape} :
               helper' = [alive |-> TRUE, inGroup |-> inGroup, holds |-> holds]
        BY <2>2 DEF StartHelper
      <4>2. inGroup \in BOOLEAN
        BY <2>1
      <4> QED
        BY <4>1, <4>2
    <3> QED
      BY <2>2, <3>1 DEF Typed, StartHelper
  <2>3. CASE ChildExits
    BY <2>3 DEF Typed, ChildExits
  <2>4. CASE HelperExits
    BY <2>4 DEF Typed, HelperExits, NoHelper
  <2> QED
    BY <1>2, <2>2, <2>3, <2>4
<1>r. CASE ReadLine
  <2>1. UNCHANGED <<job, pc, stage, child, helper, written, read, stopped, result>>
    BY <1>r DEF ReadLine
  <2> QED
    BY <1>h, <2>1 DEF Typed
<1>3. CASE TakeLine
  <2>1. read' \in 0 .. Len(written)
    BY <1>3 DEF Typed, TakeLine
  <2>2. stopped' \in BOOLEAN /\ ((child' = child /\ helper' = helper) \/ KillGroup)
    BY <1>3 DEF Typed, TakeLine
  <2>3. UNCHANGED <<job, pc, stage, written, result>>
    BY <1>3 DEF TakeLine
  <2> QED
    BY <1>h, <2>1, <2>2, <2>3, Killed DEF Typed
<1>4. CASE GivesUp
  BY <1>4, Given, Killed DEF Typed, Kinds
<1>5. CASE GoesOn
  <2>1. written' = written /\ read' = read /\ stopped' = stopped
    BY <1>5, OutputStays DEF GoesOn, Skip, Spawn, StreamEnds, ToolEnds, StageChildExits, StageEnds, StageTimesOut
  <2>2. CASE Skip \/ ToolEnds \/ StageChildExits
    <3>1. result'.kind \in Kinds /\ pc' \in {"done", "drain"} /\ UNCHANGED <<stage, child, helper>>
      BY <2>2 DEF Typed, Kinds, Skip, ToolEnds, StageChildExits, Return
    <3> QED
      BY <1>h, <2>1, <1>0, <3>1 DEF Typed
  <2>s. CASE Spawn
    <3>1. result'.kind \in Kinds /\ pc' \in {"done", "run"} /\ stage' = stage
      BY <2>s DEF Typed, Kinds, Spawn, Return
    <3>2. /\ child' \in {child, "running"}
          /\ helper' \in [alive : BOOLEAN, inGroup : BOOLEAN, holds : BOOLEAN]
      <4>1. \/ child' = child /\ helper' = helper
            \/ child' = "running" /\ helper' = NoHelper
        BY <2>s DEF Spawn
      <4>2. NoHelper \in [alive : BOOLEAN, inGroup : BOOLEAN, holds : BOOLEAN]
        BY DEF NoHelper
      <4> QED
        BY <4>1, <4>2 DEF Typed
    <3> QED
      BY <1>h, <2>1, <1>0, <3>1, <3>2 DEF Typed
  <2>3. CASE StreamEnds
    BY <2>1, <2>3, StreamEnded DEF Typed, Kinds
  <2>4. ASSUME NEW ok, AfterStage(ok)
        PROVE  pc' \in {"start", "done"} /\ stage' \in 1 .. Len(job.allow) /\ result'.kind \in Kinds
    BY <1>0, <2>4 DEF Typed, AfterStage, Return, Kinds
  <2>5. CASE StageEnds
    BY <1>0, <1>h, <2>1, <2>4, <2>5 DEF Typed, StageEnds
  <2>6. CASE StageTimesOut
    BY <1>0, <1>h, <2>1, <2>4, <2>6, Killed DEF Typed, StageTimesOut
  <2> QED
    BY <1>5, <2>2, <2>s, <2>3, <2>5, <2>6 DEF GoesOn
<1> QED
  BY <1>1, <1>2, <1>r, <1>3, <1>4, <1>5, NextIs

LEMMA PhaseKept ==
    ASSUME Typed, PhaseInv, Next
    PROVE  PhaseInv'
<1>1. CASE WriteLine \/ StartHelper \/ ChildExits \/ HelperExits
  <2>1. UNCHANGED <<job, pc, stage, invoked, result, read, held, handle>>
    BY <1>1, HandlerStays DEF WriteLine, StartHelper, ChildExits, HelperExits
  <2>2. child' = child \/ (child' \in {"ok", "bad"} /\ child = "running")
    <3>1. CASE WriteLine \/ StartHelper \/ HelperExits
      BY <3>1 DEF WriteLine, StartHelper, HelperExits
    <3>2. CASE ChildExits
      BY <3>2 DEF ChildExits
    <3> QED
      BY <1>1, <3>1, <3>2
  <2> QED
    BY <2>1, <2>2 DEF PhaseInv, Codergen
<1>r. CASE ReadLine
  <2>1. UNCHANGED <<job, pc, stage, invoked, result, child, handle>> /\ pc = "run" /\ Codergen
    BY <1>r DEF ReadLine
  <2> QED
    BY <2>1 DEF PhaseInv, Codergen
<1>2. CASE TakeLine
  <2>1. UNCHANGED <<job, pc, stage, invoked, result>> /\ pc = "run" /\ held /\ ~held'
    BY <1>2 DEF TakeLine
  <2>2. child' = child \/ (KillGroup /\ child' # "none")
    BY <1>2, <2>1, Killed DEF TakeLine, PhaseInv
  <2> QED
    BY <2>1, <2>2 DEF PhaseInv, Codergen
<1>3. CASE GivesUp
  BY <1>3, Given DEF PhaseInv, GaveUp, Codergen
<1>4. CASE GoesOn
  <2>1. CASE Skip \/ ToolEnds \/ StageChildExits
    BY <2>1 DEF PhaseInv, Codergen, Skip, ToolEnds, StageChildExits, Return
  <2>s. CASE Spawn
    <3>1. ~Codergen => ~handle'
      BY <2>s DEF Spawn, PhaseInv
    <3> QED
      BY <2>s, <3>1 DEF Spawn, PhaseInv, Codergen, Return
  <2>2. CASE StreamEnds
    BY <2>2, StreamEnded DEF PhaseInv, Codergen
  <2>3. ASSUME NEW ok, AfterStage(ok), pc # "done", result.kind = "none"
        PROVE  pc' \in {"start", "done"} /\ (result'.kind = "none" <=> pc' # "done")
    BY <2>3 DEF AfterStage, Return
  <2>4. CASE StageEnds
    <3>1. pc = "drain" /\ UNCHANGED <<job, child, invoked, held, handle>> /\ AfterStage(child = "ok")
      BY <2>4 DEF StageEnds
    <3> QED
      BY <2>3, <3>1 DEF PhaseInv, Codergen
  <2>5. CASE StageTimesOut
    <3>1. pc = "run" /\ job.handler = "quality" /\ UNCHANGED <<job, invoked, held, handle>> /\ AfterStage(FALSE)
      BY <2>5 DEF StageTimesOut
    <3> QED
      BY <2>3, <3>1 DEF PhaseInv, Codergen
  <2> QED
    BY <1>4, <2>1, <2>s, <2>2, <2>4, <2>5 DEF GoesOn
<1> QED
  BY <1>1, <1>r, <1>2, <1>3, <1>4, NextIs

LEMMA SpentKept ==
    ASSUME Typed, PhaseInv, SpentInv, Next
    PROVE  SpentInv'
<1>0. job' = job /\ read \in 0 .. Len(written) /\ written \in Seq(Output[job.provider])
  BY OutputStays DEF Typed
<1>1. CASE WriteLine
  <2>1. read' = read /\ stopped' = stopped /\ held' = held
    BY <1>1 DEF WriteLine
  <2>2. \A n \in 0 .. read : SubSeq(written', 1, n) = SubSeq(written, 1, n)
    BY <1>0, <1>1, LinesGrow
  <2>3. ReadLines' = ReadLines
    BY <1>0, <2>1, <2>2 DEF ReadLines
  <2>4. ASSUME NEW k \in 1 .. read - 1 PROVE ~OverBudget(SubSeq(written', 1, k))
    <3>1. SubSeq(written', 1, k) = SubSeq(written, 1, k)
      BY <1>0, <2>2
    <3>2. ~OverBudget(SubSeq(written, 1, k))
      BY DEF SpentInv
    <3> QED
      BY <3>1, <3>2
  <2>5. ~stopped /\ read # 0 => ~OverBudget(ReadLines)
    BY DEF SpentInv
  <2>6. OverBudget(ReadLines)' <=> OverBudget(ReadLines)
    BY <1>0, <2>3 DEF OverBudget
  <2>7. \A k \in 1 .. read - 1 : ~OverBudget(SubSeq(written', 1, k)) => ~OverBudget(SubSeq(written, 1, k))'
    BY <1>0 DEF OverBudget
  <2> QED
    BY <2>1, <2>4, <2>5, <2>6, <2>7 DEF SpentInv
<1>2. CASE TakeLine
  <2>1. written' = written /\ read' = read + 1 /\ held /\ ~held'
    BY <1>2 DEF TakeLine
  <2>2. OverBudget(SubSeq(written, 1, read + 1)) => stopped'
    BY <1>2 DEF TakeLine
  <2>3. ASSUME NEW k \in 1 .. read' - 1 PROVE ~OverBudget(SubSeq(written, 1, k))
    <3>1. ~stopped
      BY <2>1 DEF SpentInv
    <3> QED
      BY <1>0, <2>1, <3>1 DEF SpentInv, ReadLines
  <2> QED
    BY <1>0, <2>1, <2>2, <2>3 DEF SpentInv, ReadLines, OverBudget
<1>3. ASSUME written' = written, read' = read, stopped' = stopped, held' => held \/ ~stopped
      PROVE  SpentInv'
  BY <1>0, <1>3 DEF SpentInv, ReadLines, OverBudget
<1>4. CASE ReadLine
  BY <1>3, <1>4 DEF ReadLine
<1>5. CASE ~(WriteLine \/ TakeLine \/ ReadLine)
  BY <1>3, <1>5, OutputStays
<1> QED
  BY <1>1, <1>2, <1>4, <1>5

LEMMA GroupKept ==
    ASSUME Typed, PhaseInv, GroupDies, Next
    PROVE  GroupDies'
<1>1. CASE WriteLine \/ StartHelper \/ ChildExits \/ HelperExits
  BY <1>1 DEF GroupDies, WriteLine, StartHelper, ChildExits, HelperExits, NoHelper
<1>2. CASE ReadLine \/ TakeLine
  <2>1. CASE ReadLine
    BY <2>1 DEF GroupDies, ReadLine
  <2>2. CASE TakeLine
    BY <2>2, Killed DEF GroupDies, TakeLine
  <2> QED
    BY <1>2, <2>1, <2>2
<1>3. CASE GivesUp
  BY <1>3, Given, Killed DEF GroupDies
<1>4. CASE GoesOn
  <2>1. CASE Skip \/ ToolEnds \/ StageChildExits
    BY <2>1 DEF GroupDies, Skip, ToolEnds, StageChildExits, Return
  <2>2. CASE Spawn
    BY <2>2 DEF GroupDies, PhaseInv, Spawn, Return, NoHelper
  <2>3. CASE StreamEnds
    BY <2>3, StreamEnded DEF GroupDies
  <2>4. ASSUME NEW ok, AfterStage(ok), result.kind = "none"
        PROVE  result'.kind \notin GaveUp
    BY <2>4 DEF AfterStage, Return, GaveUp
  <2>5. CASE StageEnds
    BY <2>4, <2>5 DEF GroupDies, PhaseInv, StageEnds, GaveUp
  <2>6. CASE StageTimesOut
    BY <2>6, Killed DEF GroupDies, StageTimesOut
  <2> QED
    BY <1>4, <2>1, <2>2, <2>3, <2>5, <2>6 DEF GoesOn
<1> QED
  BY <1>1, <1>2, <1>3, <1>4, NextIs

LEMMA InvokedKept ==
    ASSUME Typed, PhaseInv, InvokedOnce, Next
    PROVE  InvokedOnce'
<1> DEFINE Status(r) == CASE r.kind = "success" -> "success"
                          [] r.kind \in {"timeout", "deadline"} -> "timeout"
                          [] OTHER -> "failed"
<1>0. job' = job
  BY OutputStays
<1>1. CASE WriteLine \/ StartHelper \/ ChildExits \/ HelperExits \/ ReadLine \/ TakeLine
  <2>1. UNCHANGED <<job, pc, stage, invoked, result>>
    BY <1>1, HandlerStays
  <2>2. child' = "none" <=> child = "none"
    <3>1. CASE WriteLine \/ StartHelper \/ HelperExits
      BY <3>1 DEF WriteLine, StartHelper, HelperExits
    <3>2. CASE ChildExits
      BY <3>2 DEF ChildExits
    <3>3. CASE ReadLine
      BY <3>3 DEF ReadLine
    <3>4. CASE TakeLine
      BY <3>4, Killed DEF TakeLine
    <3> QED
      BY <1>1, <3>1, <3>2, <3>3, <3>4
  <2> QED
    BY <2>1, <2>2 DEF InvokedOnce, Codergen
<1>2. CASE GivesUp
  <2>1. /\ pc' = "done" /\ child' # "none" /\ result'.kind \in GaveUp
        /\ invoked' = IF Codergen /\ job.journaled
                      THEN <<[status |-> IF result'.kind = "io" THEN "failed" ELSE "timeout",
                              usage |-> TranscriptUsage(transcript')]>>
                      ELSE <<>>
    BY <1>2, Given, Killed
  <2>2. CASE Codergen /\ job.journaled
    <3>1. Len(invoked') = 1 /\ DOMAIN invoked' = {1}
          /\ invoked'[1].status = IF result'.kind = "io" THEN "failed" ELSE "timeout"
      BY <2>1, <2>2
    <3> QED
      BY <1>0, <2>1, <2>2, <3>1 DEF InvokedOnce, Codergen, GaveUp
  <2>3. CASE ~(Codergen /\ job.journaled)
    BY <1>0, <2>1, <2>3 DEF InvokedOnce, Codergen
  <2> QED
    BY <2>2, <2>3
<1>3. CASE GoesOn
  <2>1. ASSUME invoked' = <<>>, pc' # "done" \/ child' = "none" \/ ~Codergen
        PROVE  InvokedOnce'
    BY <1>0, <2>1 DEF InvokedOnce, Codergen
  <2>2. CASE Skip
    BY <2>1, <2>2 DEF Skip, PhaseInv, Return
  <2>3. CASE Spawn
    BY <2>1, <2>3 DEF Spawn, PhaseInv, Return
  <2>4. CASE ToolEnds \/ StageChildExits \/ StageEnds \/ StageTimesOut
    <3>1. pc # "done" /\ invoked' = invoked /\ ~Codergen
      BY <2>4 DEF ToolEnds, StageChildExits, StageEnds, StageTimesOut, PhaseInv, Codergen
    <3> QED
      BY <2>1, <3>1 DEF PhaseInv
  <2>5. CASE StreamEnds
    <3>1. /\ pc' = "done" /\ Codergen /\ child' # "none" /\ result'.kind \in {"success", "fail", "error"}
          /\ invoked' = IF job.journaled
                        THEN <<[status |-> IF result'.kind = "success" THEN "success" ELSE "failed",
                                usage |-> Summarize(job.provider, ReadLines)]>>
                        ELSE <<>>
      BY <2>5, StreamEnded DEF PhaseInv
    <3>2. CASE job.journaled
      <4>1. Len(invoked') = 1 /\ DOMAIN invoked' = {1}
            /\ invoked'[1].status = IF result'.kind = "success" THEN "success" ELSE "failed"
        BY <3>1, <3>2
      <4> QED
        BY <1>0, <3>1, <3>2, <4>1 DEF InvokedOnce, Codergen
    <3>3. CASE ~job.journaled
      BY <1>0, <3>1, <3>3 DEF InvokedOnce, Codergen
    <3> QED
      BY <3>2, <3>3
  <2> QED
    BY <1>3, <2>2, <2>3, <2>4, <2>5 DEF GoesOn
<1> QED
  BY <1>1, <1>2, <1>3, NextIs

\* The last line that was taken, or is in hand.
LastLine == IF held THEN read + 1 ELSE read

LEMMA KeptIs ==
    ASSUME NEW t
    PROVE  t \in Kept <=> \E n \in 0 .. LastLine :
             t = SubSeq(written, 1, n) \/ t = Append(SubSeq(written, 1, n), Cut)
  BY DEF Kept, LastLine

LEMMA KeptGrows ==
    ASSUME Typed, Typed', LastLine' >= LastLine, written' = written \/ WriteLine, NEW t \in Kept
    PROVE  t \in Kept'
<1>0. \E n \in 0 .. LastLine : t = SubSeq(written, 1, n) \/ t = Append(SubSeq(written, 1, n), Cut)
  BY KeptIs, Zenon
<1>1. PICK n \in 0 .. LastLine : t = SubSeq(written, 1, n) \/ t = Append(SubSeq(written, 1, n), Cut)
  BY <1>0
<1>2. LastLine \in Nat /\ LastLine <= Len(written) /\ LastLine' \in Nat
  <2>1. read \in 0 .. Len(written) /\ Len(written) \in Nat /\ (held => read < Len(written))
    BY DEF Typed
  <2>2. read' \in Nat
    BY DEF Typed
  <2>3. LastLine' = read' + 1 \/ LastLine' = read'
    BY Zenon DEF LastLine
  <2>4. LastLine \in Nat /\ LastLine <= Len(written)
    BY <2>1 DEF LastLine
  <2> QED
    BY <2>2, <2>3, <2>4
<1>3. n \in 0 .. Len(written) /\ n \in 0 .. LastLine'
  BY <1>2
<1>4. SubSeq(written', 1, n) = SubSeq(written, 1, n)
  BY <1>3, LinesGrow
<1>5. \E m \in 0 .. LastLine' : t = SubSeq(written', 1, m) \/ t = Append(SubSeq(written', 1, m), Cut)
  BY <1>1, <1>3, <1>4
<1> QED
  BY <1>5, KeptIs DEF Kept, LastLine

\* The file as it is when the next line is in hand, and what may come of it.
LEMMA HandIsKept ==
    ASSUME Typed, NEW t \in {ReadLines, Append(ReadLines, Cut), Append(ReadLines, written[read + 1])},
           t = ReadLines \/ held
    PROVE  /\ t \in Kept /\ Len(t) >= read
           /\ t = Append(ReadLines, written[read + 1]) =>
                t = SubSeq(written, 1, read + 1) /\ Len(t) >= read + 1
<1> DEFINE S == Output[job.provider] \cup {Cut}
<1>1. read \in 0 .. Len(written) /\ written \in Seq(S) /\ Len(written) \in Nat /\ (held => read + 1 <= Len(written))
  BY DEF Typed
<1>2. Cut \in S
  OBVIOUS
<1> HIDE DEF S
<1>3. ReadLines \in Seq(S) /\ Len(ReadLines) = read
  BY <1>1 DEF ReadLines
<1>4. Append(ReadLines, Cut) \in Seq(S) /\ Len(Append(ReadLines, Cut)) = read + 1
  BY <1>2, <1>3
<1>5. held => /\ Append(ReadLines, written[read + 1]) = SubSeq(written, 1, read + 1)
              /\ Len(SubSeq(written, 1, read + 1)) = read + 1
  <2>1. SUFFICES ASSUME held
                 PROVE  /\ Append(ReadLines, written[read + 1]) = SubSeq(written, 1, read + 1)
                        /\ Len(SubSeq(written, 1, read + 1)) = read + 1
    OBVIOUS
  <2>2. read \in 0 .. Len(written) - 1 /\ read + 1 \in 0 .. Len(written)
    BY <1>1, <2>1
  <2>3. Len(SubSeq(written, 1, read + 1)) = read + 1
    BY <1>1, <2>2
  <2> QED
    BY <1>1, <2>2, <2>3, OneMore DEF ReadLines
<1>6. read \in 0 .. LastLine /\ (held => read + 1 \in 0 .. LastLine)
  BY <1>1 DEF LastLine
<1>7. t \in Kept
  <2>1. CASE t = ReadLines \/ t = Append(ReadLines, Cut)
    BY <1>6, <2>1, KeptIs DEF ReadLines
  <2>2. CASE t = Append(ReadLines, written[read + 1]) /\ held
    BY <1>5, <1>6, <2>2, KeptIs
  <2> QED
    BY <2>1, <2>2
<1>8. Len(t) >= read
  BY <1>1, <1>3, <1>4, <1>5
<1>9. t = Append(ReadLines, written[read + 1]) => t = SubSeq(written, 1, read + 1) /\ Len(t) >= read + 1
  <2>1. ~held /\ t = ReadLines => Len(t) = read
    BY <1>3
  <2>2. CASE held
    BY <1>1, <1>5, <2>2
  <2>3. CASE ~held /\ t = ReadLines
    <3>1. SUFFICES ASSUME ReadLines = Append(ReadLines, written[read + 1]) PROVE FALSE
      BY <2>3
    <3>2. Len(Append(ReadLines, written[read + 1])) = Len(ReadLines) + 1
      BY <1>3
    <3> QED
      BY <1>1, <1>3, <3>1, <3>2
  <2> QED
    BY <2>2, <2>3
<1> QED
  BY <1>7, <1>8, <1>9

\* A step that leaves the Transcript and what was read of it.
LEMMA UsageStays ==
    ASSUME Typed, Typed', UsageIsObserved, job' = job,
           UNCHANGED <<read, transcript, handle, invoked, result>>,
           held => held', written' = written \/ WriteLine, pc' = "run" /\ handle => pc = "run"
    PROVE  UsageIsObserved'
<1>1. ReadLines' = ReadLines
  BY LinesGrow DEF ReadLines, Typed
<1>2. LastLine' >= LastLine
  BY DEF LastLine, Typed
<1>3. transcript \in Kept => transcript \in Kept'
  BY <1>2, KeptGrows
<1>4. TranscriptUsage(transcript)' = TranscriptUsage(transcript)
  BY DEF TranscriptUsage
<1>5. Summarize(job.provider, ReadLines)' = Summarize(job.provider, ReadLines)
  BY <1>1
<1> QED
  BY <1>1, <1>3, <1>4, <1>5 DEF UsageIsObserved

LEMMA UsageTaken ==
    ASSUME Typed, Typed', PhaseInv, UsageIsObserved, job' = job, TakeLine
    PROVE  UsageIsObserved'
<1>1. /\ pc = "run" /\ held /\ ~held' /\ read' = read + 1 /\ written' = written /\ AppendLine
      /\ UNCHANGED <<pc, invoked>>
  BY DEF TakeLine
<1>2. invoked' = <<>>
  BY <1>1 DEF PhaseInv
<1>3. read \in Nat
  BY DEF Typed
<1>r. LastLine' >= LastLine
  BY <1>1, <1>3 DEF LastLine
<1>4. ReadLines' = SubSeq(written, 1, read + 1)
  BY <1>1 DEF ReadLines
<1> DEFINE next == Append(ReadLines, written[read + 1])
<1>5. next = SubSeq(written, 1, read + 1) /\ Len(next) >= read + 1 /\ next \in Kept
  <2>1. next \in {ReadLines, Append(ReadLines, Cut), Append(ReadLines, written[read + 1])}
    OBVIOUS
  <2> QED
    BY <1>1, <2>1, HandIsKept
<1>6. ASSUME NEW t \in Kept PROVE t \in Kept'
  BY <1>1, <1>r, <1>6, KeptGrows
<1>7. CASE ~handle
  <2>1. transcript' = transcript /\ ~handle'
    BY <1>1, <1>7 DEF AppendLine
  <2> QED
    BY <1>2, <1>6, <2>1 DEF UsageIsObserved
<1>8. CASE handle /\ transcript' = Append(transcript, written[read + 1])
  <2>1. transcript' = next
    BY <1>1, <1>8 DEF UsageIsObserved
  <2>2. transcript' \in Kept' /\ Len(transcript') >= read'
    BY <1>1, <1>5, <1>6, <2>1
  <2> HIDE DEF next
  <2>3. transcript' = ReadLines'
    BY <1>4, <1>5, <2>1
  <2> QED
    BY <1>2, <2>2, <2>3 DEF UsageIsObserved
<1>9. CASE handle /\ transcript' \in OnDisk /\ ~handle'
  <2>1. transcript = ReadLines
    BY <1>1, <1>9 DEF UsageIsObserved
  <2>2. transcript' \in {ReadLines, Append(ReadLines, Cut), next}
    BY <1>1, <1>9, <2>1 DEF OnDisk
  <2>3. transcript' \in Kept
    BY <1>1, <2>2, HandIsKept
  <2>4. transcript' \in Kept'
    BY <1>6, <2>3
  <2> QED
    BY <1>2, <1>9, <2>4 DEF UsageIsObserved
<1> QED
  BY <1>1, <1>7, <1>8, <1>9 DEF AppendLine

LEMMA UsageGiven ==
    ASSUME Typed, Typed', PhaseInv, UsageIsObserved, GivesUp
    PROVE  UsageIsObserved'
<1>1. /\ pc \in {"run", "drain"} /\ pc' = "done" /\ result'.kind \in GaveUp
      /\ UNCHANGED <<job, written, read, held, handle>> /\ transcript' \in OnDisk
      /\ invoked' = IF Codergen /\ job.journaled
                    THEN <<[status |-> IF result'.kind = "io" THEN "failed" ELSE "timeout",
                            usage |-> TranscriptUsage(transcript')]>>
                    ELSE <<>>
  <2>1. written' = written
    BY Given
  <2> QED
    BY <2>1, Given
<1>2. \A i \in DOMAIN invoked' : invoked'[i].usage = TranscriptUsage(transcript')
  BY <1>1
<1>3. TranscriptUsage(transcript)' = TranscriptUsage(transcript')
  BY <1>1 DEF TranscriptUsage
<1>4. Kept' = Kept
  BY <1>1 DEF Kept
<1>5. transcript' # None => transcript' \in Kept /\ (handle => Len(transcript') >= read)
  <2>1. CASE transcript' = transcript
    BY <2>1 DEF UsageIsObserved
  <2>2. CASE held /\ handle /\ transcript' \in {Append(transcript, Cut), Append(transcript, written[read + 1])}
    <3>1. pc = "run"
      BY <1>1, <2>2 DEF PhaseInv, Codergen
    <3>2. transcript = ReadLines
      BY <2>2, <3>1 DEF UsageIsObserved
    <3> QED
      BY <2>2, <3>2, HandIsKept
  <2> QED
    BY <1>1, <2>1, <2>2 DEF OnDisk
<1> QED
  BY <1>1, <1>2, <1>3, <1>4, <1>5 DEF UsageIsObserved, GaveUp

LEMMA UsageSpawned ==
    ASSUME Typed, Typed', PhaseInv, UsageIsObserved, Spawn
    PROVE  UsageIsObserved'
<1>1. pc = "start" /\ UNCHANGED <<job, written, read, held, invoked>> /\ invoked = <<>> /\ ~held
  BY DEF Spawn, PhaseInv
<1>2. Kept' = Kept /\ ReadLines' = ReadLines
  BY <1>1 DEF Kept, ReadLines
<1>3. CASE UNCHANGED <<transcript, handle>> /\ pc' = "done"
  BY <1>1, <1>2, <1>3 DEF UsageIsObserved
<1>4. CASE /\ transcript' \in IF Codergen /\ job.journaled THEN {<<>>, None} ELSE {None}
           /\ handle' = (transcript' # None)
  <2>1. transcript' # None => Codergen /\ transcript' = <<>>
    BY <1>4
  <2>2. Codergen => ReadLines = <<>> /\ read = 0
    <3>1. written \in Seq(Output[job.provider]) /\ (Codergen => read = 0)
      BY <1>1 DEF Typed, PhaseInv
    <3> QED
      BY <3>1 DEF ReadLines
  <2>3. ReadLines \in Kept /\ Len(ReadLines) >= read
    <3>1. ReadLines \in {ReadLines, Append(ReadLines, Cut), Append(ReadLines, written[read + 1])}
      OBVIOUS
    <3> QED
      BY <3>1, HandIsKept
  <2>4. transcript' # None => transcript' \in Kept' /\ Len(transcript') >= read' /\ transcript' = ReadLines'
    BY <1>1, <1>2, <2>1, <2>2, <2>3
  <2>5. handle' => transcript' # None
    BY <1>4
  <2>6. DOMAIN invoked' = {}
    BY <1>1
  <2> QED
    BY <2>4, <2>5, <2>6 DEF UsageIsObserved
<1> QED
  BY <1>3, <1>4 DEF Spawn, Return

LEMMA UsageKept ==
    ASSUME Typed, PhaseInv, UsageIsObserved, Next
    PROVE  UsageIsObserved'
<1>0. Typed' /\ job' = job
  BY TypedKept, OutputStays
<1>1. CASE WriteLine \/ StartHelper \/ ChildExits \/ HelperExits \/ ReadLine
  <2>1. UNCHANGED <<pc, invoked, result>>
    BY <1>1, HandlerStays
  <2>2. UNCHANGED <<read, transcript, handle>> /\ (held => held') /\ (written' = written \/ WriteLine)
    <3>1. CASE WriteLine
      BY <3>1 DEF WriteLine
    <3>2. CASE StartHelper \/ ChildExits \/ HelperExits \/ ReadLine
      BY <3>2 DEF StartHelper, ChildExits, HelperExits, ReadLine
    <3> QED
      BY <1>1, <3>1, <3>2
  <2> QED
    BY <1>0, <2>1, <2>2, UsageStays
<1>2. CASE TakeLine
  BY <1>0, <1>2, UsageTaken
<1>3. CASE GivesUp
  BY <1>0, <1>3, UsageGiven
<1>4. CASE Spawn
  BY <1>0, <1>4, UsageSpawned
<1>5. CASE Skip \/ ToolEnds \/ StageChildExits \/ StageEnds \/ StageTimesOut
  <2>1. /\ UNCHANGED <<read, written, held, transcript, handle, invoked>> /\ invoked = <<>>
        /\ pc' # "run"
    <3>1. \A ok : AfterStage(ok) => pc' # "run"
      BY DEF AfterStage, Return
    <3> QED
      BY <1>5, <3>1 DEF Skip, ToolEnds, StageChildExits, StageEnds, StageTimesOut, PhaseInv, Return
  <2>2. Kept' = Kept
    BY <2>1 DEF Kept
  <2> QED
    BY <2>1, <2>2 DEF UsageIsObserved
<1>6. CASE StreamEnds
  <2>1. /\ UNCHANGED <<job, written, read, held, transcript, handle>> /\ pc' = "done"
        /\ invoked' = IF job.journaled
                      THEN <<[status |-> IF result'.kind = "success" THEN "success" ELSE "failed",
                              usage |-> Summarize(job.provider, ReadLines)]>>
                      ELSE <<>>
    BY <1>6, StreamEnded
  <2>2. \A i \in DOMAIN invoked' : invoked'[i].usage = Summarize(job.provider, ReadLines)
    BY <2>1
  <2>3. Kept' = Kept /\ ReadLines' = ReadLines
    BY <2>1 DEF Kept, ReadLines
  <2>4. Summarize(job.provider, ReadLines)' = Summarize(job.provider, ReadLines)
    BY <2>1, <2>3
  <2> QED
    BY <2>1, <2>2, <2>3, <2>4 DEF UsageIsObserved
<1> QED
  BY <1>1, <1>2, <1>3, <1>4, <1>5, <1>6, NextIs DEF GoesOn

\* A number below another is among those up to the one before it.
LEMMA EarlierIndex ==
    ASSUME NEW n \in Nat, NEW m \in Nat, 1 <= m, m < n
    PROVE  m \in 1 .. n - 1
OBVIOUS

\* What the hook let pass stayed within the budget.
LEMMA WithinBudget ==
    ASSUME Typed', SpentInv'
    PROVE  (\A k \in 1 .. read : (k < read \/ held) => ~OverBudget(SubSeq(written, 1, k)))'
<1> SUFFICES ASSUME NEW k \in 1 .. read', k < read' \/ held' PROVE ~OverBudget(SubSeq(written, 1, k))'
  OBVIOUS
<1>1. read' \in Nat /\ k \in Nat /\ 1 <= k /\ k <= read'
  <2>1. read' \in Nat
    BY DEF Typed
  <2> QED
    BY <2>1
<1>2. CASE k < read'
  <2>1. k \in 1 .. read' - 1
    BY <1>1, <1>2, EarlierIndex
  <2> QED
    BY <2>1 DEF SpentInv
<1>3. CASE k = read' /\ held'
  <2>1. ~stopped' /\ read' # 0
    BY <1>1, <1>3 DEF SpentInv
  <2>2. ~OverBudget(ReadLines)'
    BY <2>1 DEF SpentInv
  <2> QED
    BY <1>3, <2>2 DEF ReadLines
<1>4. k < read' \/ (k = read' /\ held')
  BY <1>1
<1> QED
  BY <1>2, <1>3, <1>4

LEMMA BudgetKept ==
    ASSUME Typed, PhaseInv, SpentInv, BudgetHolds, Next, SpentInv'
    PROVE  BudgetHolds'
<1> SUFFICES ASSUME job.budget # None
             PROVE  /\ (result.kind = "success" /\ child # "none" => ~OverBudget(ReadLines))'
                    /\ (result.kind \in {"success", "fail"} /\ child # "none" =>
                          PiSpent(ReadLines) = IF result.cost = None THEN 0 ELSE result.cost)'
  <2>1. Typed'
    BY TypedKept
  <2>2. (\A k \in 1 .. read : (k < read \/ held) => ~OverBudget(SubSeq(written, 1, k)))'
    BY <2>1, WithinBudget
  <2> QED
    BY <2>2, OutputStays DEF BudgetHolds
<1>0. /\ job' = job /\ Codergen /\ job.provider = "pi"
      /\ read \in 0 .. Len(written) /\ written \in Seq(Output[job.provider])
  BY OutputStays DEF Typed, Codergen
<1>1. CASE WriteLine \/ StartHelper \/ ChildExits \/ HelperExits
  <2>1. UNCHANGED <<job, result, read>> /\ (child' = "none" <=> child = "none")
    <3>1. CASE WriteLine \/ StartHelper \/ HelperExits
      BY <3>1 DEF WriteLine, StartHelper, HelperExits
    <3>2. CASE ChildExits
      BY <3>2 DEF ChildExits
    <3> QED
      BY <1>1, <3>1, <3>2
  <2>2. ReadLines' = ReadLines
    <3>1. CASE WriteLine
      BY <1>0, <2>1, <3>1, LinesGrow DEF ReadLines
    <3>2. CASE StartHelper \/ ChildExits \/ HelperExits
      BY <2>1, <3>2 DEF ReadLines, StartHelper, ChildExits, HelperExits
    <3> QED
      BY <1>1, <3>1, <3>2
  <2>3. PiSpent(ReadLines)' = PiSpent(ReadLines) /\ (OverBudget(ReadLines)' <=> OverBudget(ReadLines))
    BY <2>1, <2>2 DEF OverBudget, PiSpent
  <2>4. /\ result.kind = "success" /\ child # "none" => ~OverBudget(ReadLines)
        /\ result.kind \in {"success", "fail"} /\ child # "none" =>
              PiSpent(ReadLines) = IF result.cost = None THEN 0 ELSE result.cost
    BY DEF BudgetHolds
  <2> QED
    BY <2>1, <2>3, <2>4
<1>2. ASSUME result'.kind \notin {"success", "fail"} \/ child' = "none"
      PROVE  /\ (result.kind = "success" /\ child # "none" => ~OverBudget(ReadLines))'
             /\ (result.kind \in {"success", "fail"} /\ child # "none" =>
                   PiSpent(ReadLines) = IF result.cost = None THEN 0 ELSE result.cost)'
  BY <1>2
<1>3. CASE ReadLine \/ TakeLine
  <2>1. pc = "run" /\ result' = result
    BY <1>3 DEF ReadLine, TakeLine
  <2> QED
    BY <1>2, <2>1 DEF PhaseInv
<1>4. CASE GivesUp
  BY <1>2, <1>4, Given DEF GaveUp
<1>5. CASE StreamEnds
  <2> DEFINE usage == Summarize("pi", ReadLines)
  <2>1. /\ UNCHANGED <<job, child, written, read>> /\ ReadLines' = ReadLines
        /\ result'.kind = "success" => ~stopped /\ Parse("pi", ReadLines).kind # "err"
        /\ result'.kind \in {"success", "fail"} =>
             \/ stopped /\ result'.cost = IF usage.cost # None THEN usage.cost ELSE PiSpent(ReadLines)
             \/ ~stopped /\ Parse("pi", ReadLines).kind # "err"
                         /\ result'.cost = Parse("pi", ReadLines).cost
    BY <1>0, <1>5, StreamEnded DEF ReadLines
  <2>2. /\ usage.cost = PiTotal(ReadLines)
        /\ Parse("pi", ReadLines).kind # "err" =>
             ReadLines # <<>> /\ Parse("pi", ReadLines).cost = PiTotal(ReadLines)
    BY PiReports
  <2>3. PiSpent(ReadLines) = IF PiTotal(ReadLines) = None THEN 0 ELSE PiTotal(ReadLines)
    BY DEF PiSpent
  <2>4. PiSpent(ReadLines)' = PiSpent(ReadLines) /\ (OverBudget(ReadLines)' <=> OverBudget(ReadLines))
    BY <2>1 DEF OverBudget, PiSpent
  <2>5. ReadLines # <<>> => read # 0
    BY <1>0 DEF ReadLines
  <2>6. result'.kind = "success" => ~OverBudget(ReadLines)
    BY <2>1, <2>2, <2>5 DEF SpentInv
  <2>7. result'.kind \in {"success", "fail"} =>
          PiSpent(ReadLines) = IF result'.cost = None THEN 0 ELSE result'.cost
    BY <2>1, <2>2, <2>3
  <2> QED
    BY <2>4, <2>6, <2>7
<1>6. CASE Skip \/ Spawn
  <2>1. CASE Skip
    BY <1>0, <1>2, <2>1 DEF Skip, PhaseInv
  <2>2. CASE Spawn
    BY <1>0, <1>2, <2>2 DEF Spawn, PhaseInv, Return
  <2> QED
    BY <1>6, <2>1, <2>2
<1>7. ~(ToolEnds \/ StageChildExits \/ StageEnds \/ StageTimesOut)
  BY <1>0 DEF ToolEnds, StageChildExits, StageEnds, StageTimesOut, PhaseInv, Codergen
<1> QED
  BY <1>1, <1>3, <1>4, <1>5, <1>6, <1>7, NextIs DEF GoesOn

----------------------------------------------------------------------------
(* The theorems.                                                           *)

LEMMA Initially == Init => IInv
<1> SUFFICES ASSUME Init PROVE IInv
  OBVIOUS
<1>1. Typed
  <2>1. job.allow \in Seq(BOOLEAN) \ {<<>>}
    BY DEF Init
  <2>2. 1 \in 1 .. Len(job.allow)
    BY <2>1
  <2>3. <<>> \in Seq(Output[job.provider]) /\ Len(<<>>) = 0 /\ MaxLines \in Nat
    OBVIOUS
  <2>4. helper \in [alive : BOOLEAN, inGroup : BOOLEAN, holds : BOOLEAN] /\ result.kind \in Kinds
    BY DEF Init, NoHelper, NotYet, Kinds
  <2>5. 0 \in 0 .. Len(<<>>) /\ Len(<<>>) <= MaxLines
    BY <2>3
  <2> QED
    BY <2>2, <2>3, <2>4, <2>5 DEF Init, Typed
<1>2. PhaseInv /\ SpentInv /\ GroupDies
  BY DEF Init, PhaseInv, SpentInv, GroupDies, NoHelper, NotYet
<1>3. InvokedOnce /\ UsageIsObserved
  BY DEF Init, InvokedOnce, UsageIsObserved, NotYet
<1>4. BudgetHolds
  BY DEF Init, BudgetHolds, NotYet
<1> QED
  BY <1>1, <1>2, <1>3, <1>4 DEF IInv

LEMMA IInvKept == IInv /\ [Next]_vars => IInv'
<1> SUFFICES ASSUME IInv, [Next]_vars PROVE IInv'
  OBVIOUS
<1>1. CASE Next
  <2>1. Typed /\ PhaseInv /\ SpentInv /\ GroupDies /\ InvokedOnce /\ UsageIsObserved /\ BudgetHolds
    BY DEF IInv
  <2>2. SpentInv'
    BY <1>1, <2>1, SpentKept
  <2> QED
    BY <1>1, <2>1, <2>2, TypedKept, PhaseKept, GroupKept, InvokedKept, UsageKept, BudgetKept DEF IInv
<1>2. CASE UNCHANGED vars
  <2>1. Typed' /\ PhaseInv' /\ GroupDies'
    BY <1>2 DEF IInv, vars, Typed, PhaseInv, GroupDies, Codergen
  <2>2. ReadLines' = ReadLines
    BY <1>2 DEF vars, ReadLines
  <2>3. InvokedOnce' /\ UsageIsObserved'
    <3>1. Kept' = Kept
      BY <1>2 DEF vars, Kept
    <3>2. \A t : TranscriptUsage(t)' = TranscriptUsage(t)
      BY <1>2 DEF vars, TranscriptUsage
    <3> QED
      BY <1>2, <2>2, <3>1 DEF IInv, vars, InvokedOnce, UsageIsObserved, Codergen, TranscriptUsage
  <2>4. SpentInv' /\ BudgetHolds'
    BY <1>2, <2>2 DEF IInv, vars, SpentInv, BudgetHolds, OverBudget
  <2> QED
    BY <2>1, <2>3, <2>4 DEF IInv
<1> QED
  BY <1>1, <1>2

LEMMA IInvHolds == Spec => []IInv
  BY Initially, IInvKept, PTL DEF Spec

\* Nobody of a process group outlives the handler that gave up on it, whichever
\* timer, error or budget it was (ProcessGroupGuard).
THEOREM GroupsDie == Spec => []GroupDies
<1>1. IInv => GroupDies
  BY DEF IInv
<1> QED
  BY <1>1, IInvHolds, PTL

\* A Model Invocation is reported exactly once, with the status of what the
\* engine gets and the usage of what was read, and within its budget
\* (LlmInvocation's finish and Drop, over_budget).
THEOREM InvocationsAreAccounted == Spec => []InvocationIsAccounted
<1>1. Typed /\ PhaseInv => TypeOK
  BY DEF Typed, PhaseInv, TypeOK
<1>2. IInv => InvocationIsAccounted
  BY <1>1 DEF IInv, InvocationIsAccounted
<1> QED
  BY <1>2, IInvHolds, PTL

----------------------------------------------------------------------------
(* What a quality node runs of a pas.toml: the module Trust, whose         *)
(* constants and variables are the ones declared here.                     *)
CONSTANTS Contents, Quality, Hooks, Split, Checks, Shells

VARIABLES disk, editing, store, commands, manifest, prompted, adding, agreed, ran

Trusts == INSTANCE Trust WITH asked <- prompted

\* A change of the store that adds nothing but what was agreed to.
Agreed(change) ==
    /\ change.has \subseteq agreed
    /\ change.op = "add" => change.content \in agreed

\* Everything that is in the store, or will be when a command saves its copy,
\* was agreed to; a question stands only while there is a Run.
TrustInv ==
    /\ store.has \subseteq agreed
    /\ DOMAIN commands = Shells /\ \A p \in Shells : Agreed(commands[p])
    /\ Agreed(adding)
    /\ adding # Trusts!Idle => (prompted # <<>> /\ adding.content = manifest[1] /\ adding.op = "add")
    /\ Trusts!OnlyAgreedRuns

LEMMA SavedIsAgreed ==
    ASSUME NEW change, Agreed(change), store' = Trusts!Saved(change), agreed' = agreed
    PROVE  store'.has \subseteq agreed'
  BY DEF Agreed, Trusts!Saved

\* What a node runs is what its manifest says, or its own list.
LEMMA RunIsAgreed ==
    ASSUME Trusts!OnlyAgreedRuns, agreed \subseteq agreed', NEW checks, NEW bypass, Trusts!Runs(checks, bypass),
           Trusts!HasStages(manifest[1]) => (manifest[1] \in agreed \/ bypass)
    PROVE  Trusts!OnlyAgreedRuns'
<1> DEFINE new == [content |-> manifest[1], checks |-> checks, bypass |-> bypass,
                   argvs |-> Trusts!Stages(checks, manifest[1])]
<1>1. ran' = ran \/ ran' = ran \cup {new}
  BY DEF Trusts!Runs
<1>2. IF Trusts!HasStages(new.content)
      THEN new.argvs = Trusts!Argvs(new.content) /\ (new.content \in agreed \/ new.bypass)
      ELSE \A i \in DOMAIN new.argvs : new.argvs[i] = Trusts!Shell(new.checks[i])
  BY DEF Trusts!Stages
<1> HIDE DEF new
<1>3. SUFFICES ASSUME NEW r \in ran'
               PROVE  IF Trusts!HasStages(r.content)
                      THEN r.argvs = Trusts!Argvs(r.content) /\ (r.content \in agreed' \/ r.bypass)
                      ELSE \A i \in DOMAIN r.argvs : r.argvs[i] = Trusts!Shell(r.checks[i])
  BY DEF Trusts!OnlyAgreedRuns
<1> QED
  BY <1>1, <1>2 DEF Trusts!OnlyAgreedRuns

LEMMA TrustInvKept ==
    ASSUME TrustInv, [Trusts!Next]_Trusts!vars
    PROVE  TrustInv'
<1> USE DEF TrustInv
<1>1. CASE Trusts!Edit \/ Trusts!InitBegins \/ Trusts!InitWrites
  BY <1>1 DEF Trusts!Edit, Trusts!InitBegins, Trusts!InitWrites, Agreed, Trusts!OnlyAgreedRuns
<1>2. ASSUME NEW p \in Shells, Trusts!TrustLoads(p)
      PROVE  TrustInv'
  <2>1. PICK op \in {"add", "remove"}, content \in Contents \ {Trusts!Absent} :
          /\ commands' = IF store.ok THEN [commands EXCEPT ![p] = Trusts!Loaded(op, content)] ELSE commands
          /\ agreed' = IF op = "add" THEN agreed \cup {content} ELSE agreed
    BY <1>2 DEF Trusts!TrustLoads
  <2>2. UNCHANGED <<store, manifest, prompted, adding, ran>>
    BY <1>2 DEF Trusts!TrustLoads
  <2>3. DOMAIN commands' = Shells /\ \A q \in Shells : Agreed(commands[q])'
    BY <2>1, <2>2 DEF Agreed, Trusts!Loaded
  <2>4. Trusts!OnlyAgreedRuns'
    BY <2>1, <2>2 DEF Trusts!OnlyAgreedRuns
  <2> QED
    BY <2>1, <2>2, <2>3, <2>4 DEF Agreed
<1>3. ASSUME NEW p \in Shells, Trusts!TrustSaves(p)
      PROVE  TrustInv'
  <2>1. /\ store' = Trusts!Saved(commands[p]) /\ commands' = [commands EXCEPT ![p] = Trusts!Idle]
        /\ UNCHANGED <<manifest, prompted, adding, agreed, ran>>
    BY <1>3 DEF Trusts!TrustSaves
  <2>2. store'.has \subseteq agreed'
    BY <2>1, SavedIsAgreed
  <2>3. DOMAIN commands' = Shells /\ \A q \in Shells : Agreed(commands[q])'
    BY <2>1 DEF Agreed, Trusts!Idle
  <2> QED
    BY <2>1, <2>2, <2>3 DEF Agreed, Trusts!OnlyAgreedRuns
<1>4. CASE Trusts!Damage
  BY <1>4 DEF Trusts!Damage, Agreed, Trusts!OnlyAgreedRuns
<1>5. CASE Trusts!Prepare
  BY <1>5 DEF Trusts!Prepare, Agreed, Trusts!OnlyAgreedRuns
<1>6. CASE Trusts!Killed
  BY <1>6 DEF Trusts!Killed, Agreed, Trusts!OnlyAgreedRuns, Trusts!Idle
<1>7. ASSUME NEW checks \in Checks, NEW bypass \in BOOLEAN, NEW terminal \in BOOLEAN,
             Trusts!QualityNode(checks, bypass, terminal)
      PROVE  TrustInv'
  <2>1. prompted = <<>> /\ UNCHANGED <<store, commands, manifest, adding, agreed>>
    BY <1>7 DEF Trusts!QualityNode
  <2>2. Trusts!OnlyAgreedRuns'
    <3>1. CASE UNCHANGED ran
      BY <2>1, <3>1 DEF Trusts!OnlyAgreedRuns
    <3>2. CASE Trusts!Runs(checks, bypass) /\ (Trusts!HasStages(manifest[1]) => Trusts!IsTrusted(bypass, manifest[1]))
      BY <2>1, <3>2, RunIsAgreed DEF Trusts!IsTrusted
    <3> QED
      BY <1>7, <3>1, <3>2 DEF Trusts!QualityNode
  <2> QED
    BY <2>1, <2>2 DEF Agreed
<1>8. ASSUME NEW yes \in BOOLEAN, Trusts!Reply(yes)
      PROVE  TrustInv'
  <2>1. agreed \subseteq agreed' /\ UNCHANGED <<store, commands, manifest, ran>>
    BY <1>8 DEF Trusts!Reply
  <2>2. /\ Agreed(adding)'
        /\ adding' # Trusts!Idle => (prompted' # <<>> /\ adding'.content = manifest'[1] /\ adding'.op = "add")
    BY <1>8 DEF Trusts!Reply, Trusts!Loaded, Agreed
  <2> QED
    BY <2>1, <2>2 DEF Agreed, Trusts!OnlyAgreedRuns
<1>9. CASE Trusts!Remembered
  <2>1. /\ adding # Trusts!Idle /\ store' = Trusts!Saved(adding) /\ adding' = Trusts!Idle
        /\ Trusts!Runs(prompted[1], FALSE) /\ UNCHANGED <<commands, manifest, agreed>>
    BY <1>9 DEF Trusts!Remembered
  <2>2. manifest[1] \in agreed
    BY <2>1 DEF Agreed
  <2>3. Trusts!OnlyAgreedRuns'
    BY <2>1, <2>2, RunIsAgreed
  <2>4. store'.has \subseteq agreed'
    BY <2>1, SavedIsAgreed
  <2> QED
    BY <2>1, <2>3, <2>4 DEF Agreed, Trusts!Idle
<1>10. CASE UNCHANGED Trusts!vars
  BY <1>10 DEF Trusts!vars, Agreed, Trusts!OnlyAgreedRuns
<1> QED
  BY <1>1, <1>2, <1>3, <1>4, <1>5, <1>6, <1>7, <1>8, <1>9, <1>10 DEF Trusts!Next

\* THEOREM: a quality node runs the commands of a pas.toml only if somebody agreed to
\* exactly that content, for every content and however many shells change the
\* store at once (ensure_manifest_trusted, prompt_and_add).
THEOREM RunsAreAgreed == Trusts!Spec => []Trusts!OnlyAgreedRuns
<1>1. Trusts!Init => TrustInv
  BY DEF Trusts!Init, TrustInv, Agreed, Trusts!Idle, Trusts!OnlyAgreedRuns
<1>2. TrustInv => Trusts!OnlyAgreedRuns
  BY DEF TrustInv
<1> QED
  BY <1>1, <1>2, TrustInvKept, PTL DEF Trusts!Spec

----------------------------------------------------------------------------
(* The agent's tools, for every file system, configuration and call.       *)

\* Nothing below is about the processes of a node.
HIDE JobAssumption

\* What a confined environment resolves lies in its root.
LEMMA ConfinedIsInside ==
    ASSUME NEW path, NEW intent, A!ResolveConfined(fs, Root, path, intent) # None
    PROVE  A!StartsWith(A!ResolveConfined(fs, Root, path, intent), Root)
  BY DEF A!ResolveConfined

\* Writing one file leaves the others.
LEMMA OthersAreLeft ==
    ASSUME NEW p, NEW lines, NEW q \in DOMAIN A!WithFile(p, lines), q # p
    PROVE  q \in DOMAIN fs /\ A!WithFile(p, lines)[q] = fs[q]
  BY DEF A!WithFile

\* Nothing is edited where no path was resolved.
LEMMA NoPathNoEdit ==
    ASSUME NEW a, NEW lines, a.tool = "edit_file", lines = None, NEW p, NEW run
    PROVE  A!RunTool(a, p, lines, run).fs = fs
  <1>1. A!EditFile(None, a.old, a.new, a.all).kind = "error"
    BY DEF A!EditFile, A!Failed
  <1> QED
    BY <1>1 DEF A!RunTool

\* A tool changes at most the file its path was resolved to, and only if it was.
LEMMA ToolChangesOne ==
    ASSUME NEW a, NEW p, NEW run
    PROVE  LET after == A!RunTool(a, p, A!Lines(p), run).fs
           IN  \/ after = fs
               \/ /\ a.tool \in {"write_file", "edit_file"} /\ p # None
                  /\ \E lines : after = A!WithFile(p, lines)
<1>1. CASE a.tool = "read_file"
  BY <1>1 DEF A!RunTool
<1>2. CASE a.tool = "write_file"
  BY <1>2 DEF A!RunTool
<1>3. CASE a.tool = "edit_file"
  <2>1. CASE p = None
    BY <1>3, <2>1, NoPathNoEdit DEF A!Lines
  <2>2. CASE p # None
    BY <1>3, <2>2 DEF A!RunTool
  <2> QED
    BY <2>1, <2>2
<1>4. CASE a.tool = "shell"
  BY <1>4 DEF A!RunTool
<1>5. CASE a.tool \notin {"read_file", "write_file", "edit_file", "shell"}
  BY <1>5 DEF A!RunTool
<1> QED
  BY <1>1, <1>2, <1>3, <1>4, <1>5

LEMMA CallsStayInside ==
    ASSUME A!ExecuteCall, config.confined, NEW q \in DOMAIN fs', ~A!StartsWith(q, Root)
    PROVE  q \in DOMAIN fs /\ fs'[q] = fs[q]
<1> DEFINE a == pending[1].args
           p == A!Target(a)
<1>1. PICK run \in Runs : fs' = A!RunTool(a, p, A!Lines(p), run).fs
  BY DEF A!ExecuteCall
<1>2. CASE fs' = fs
  BY <1>2
<1>3. CASE a.tool \in {"write_file", "edit_file"} /\ p # None /\ \E lines : fs' = A!WithFile(p, lines)
  <2>1. PICK intent : p = A!ResolveConfined(fs, Root, a.path, intent)
    BY <1>3 DEF A!Target, A!Resolve
  <2>2. q # p
    BY <1>3, <2>1, ConfinedIsInside
  <2> HIDE DEF p, a
  <2>3. PICK lines : fs' = A!WithFile(p, lines)
    BY <1>3
  <2> QED
    BY <2>2, <2>3, OthersAreLeft
<1> QED
  BY <1>1, <1>2, <1>3, ToolChangesOne

LEMMA OnlyCallsTouchFiles ==
    ASSUME [A!Next]_(A!vars), ~A!ExecuteCall
    PROVE  UNCHANGED fs
  BY DEF A!Next, A!Session, A!vars, A!toolVars, A!Steer, A!FollowUp, A!ProcessInput, A!LlmFails, A!LlmAnswers,
         A!EndRound, A!EndInput

\* THEOREM: no tool of a confined session but the shell changes or creates a file outside
\* the root, for every file system, every path, links included, and whatever the
\* model calls for (ConfinedEnvironment, resolve_confined).
THEOREM WritesAreInside == A!Spec => [][A!WriteInside]_(A!vars)
<1>1. ASSUME [A!Next]_(A!vars)
      PROVE  [A!WriteInside]_(A!vars)
  <2>1. CASE A!ExecuteCall
    BY <2>1, CallsStayInside DEF A!WriteInside
  <2>2. CASE ~A!ExecuteCall
    BY <1>1, <2>2, OnlyCallsTouchFiles DEF A!WriteInside
  <2> QED
    BY <2>1, <2>2
<1> QED
  BY <1>1, PTL DEF A!Spec

LEMMA PromptKept == ASSUME A!SteeringIsPrompt, [A!Next]_(A!vars) PROVE A!SteeringIsPrompt'
<1> USE DEF A!SteeringIsPrompt
<1>1. ASSUME NEW m, A!StartInput(m) PROVE A!SteeringIsPrompt'
  BY <1>1 DEF A!StartInput
<1>2. CASE A!Steer \/ A!FollowUp
  BY <1>2 DEF A!Steer, A!FollowUp
<1>3. CASE A!ProcessInput
  BY <1>1, <1>3 DEF A!ProcessInput
<1>4. CASE A!LlmFails \/ A!LlmAnswers
  BY <1>4 DEF A!LlmFails, A!LlmAnswers
<1>5. CASE A!ExecuteCall
  BY <1>5 DEF A!ExecuteCall
<1>6. CASE A!EndRound
  BY <1>6 DEF A!EndRound
<1>7. CASE A!EndInput
  BY <1>1, <1>7 DEF A!EndInput
<1>8. CASE UNCHANGED A!vars
  BY <1>8 DEF A!vars
<1> QED
  BY <1>2, <1>3, <1>4, <1>5, <1>6, <1>7, <1>8 DEF A!Next, A!Session

\* THEOREM: when the model is asked, no steering message waits: each reaches the
\* request that follows it, whatever rounds, errors and the loop detector did in
\* between (drain_steering).
THEOREM SteeringReachesTheModel == A!Spec => []A!SteeringIsPrompt
<1>1. A!Init => A!SteeringIsPrompt
  BY DEF A!Init, A!SteeringIsPrompt
<1> QED
  BY <1>1, PromptKept, PTL DEF A!Spec

----------------------------------------------------------------------------
(* Recursive functions, which the provers know only by CHOOSE: induction   *)
(* over a set of numbers shows that there is one.                          *)

LEMMA Induct ==
    ASSUME NEW Good, 0 \in Good, \A n \in Nat : n \in Good => n + 1 \in Good
    PROVE  Nat \subseteq Good
<1> DEFINE R == {ss \in Nat \X Nat : ss[1] < ss[2]}
<1> SUFFICES ASSUME ~(Nat \subseteq Good) PROVE FALSE
  OBVIOUS
<1>1. IsWellFoundedOn(R, Nat)
  BY NatLessThanWellFounded DEF OpToRel
<1> HIDE DEF R
<1>2. Nat \ Good \in SUBSET Nat /\ Nat \ Good # {}
  OBVIOUS
<1>3. PICK n \in Nat \ Good : \A m \in Nat \ Good : ~(<<m, n>> \in R)
  BY <1>1, <1>2, WFMin
<1>4. \A m \in Nat \ Good : ~(m < n)
  BY <1>3 DEF R
<1>5. n # 0 /\ n - 1 \in Nat /\ n - 1 < n
  BY <1>3
<1>6. n - 1 \in Good
  BY <1>4, <1>5
<1> QED
  BY <1>3, <1>5, <1>6

Iterated(X, x0, n, g) ==
    \E f \in [0 .. n -> X] : f[0] = x0 /\ \A i \in 1 .. n : f[i] = g[<<i, f[i - 1]>>]

\* A function that takes each value from the one before exists.
LEMMA Recursion ==
    ASSUME NEW X, NEW x0 \in X, NEW n \in Nat, NEW g \in [(1 .. n) \X X -> X]
    PROVE  Iterated(X, x0, n, g)
<1> DEFINE Upto(k, f) == f[0] = x0 /\ \A i \in 1 .. k : f[i] = g[<<i, f[i - 1]>>]
           Good == {k \in Nat : k <= n => \E f \in [0 .. k -> X] : Upto(k, f)}
<1>1. 0 \in Good
  <2> DEFINE f == [i \in 0 .. 0 |-> x0]
  <2>1. f \in [0 .. 0 -> X] /\ Upto(0, f)
    OBVIOUS
  <2> QED
    BY <2>1
<1>2. ASSUME NEW k \in Nat, k \in Good
      PROVE  k + 1 \in Good
  <2> SUFFICES ASSUME k + 1 <= n
               PROVE  \E h \in [0 .. k + 1 -> X] : Upto(k + 1, h)
    OBVIOUS
  <2>1. PICK f \in [0 .. k -> X] : Upto(k, f)
    BY <1>2
  <2> DEFINE h == [i \in 0 .. k + 1 |-> IF i = k + 1 THEN g[<<k + 1, f[k]>>] ELSE f[i]]
  <2>2. g[<<k + 1, f[k]>>] \in X
    OBVIOUS
  <2>3. h \in [0 .. k + 1 -> X]
    BY <2>2
  <2>4. \A i \in 0 .. k : h[i] = f[i]
    OBVIOUS
  <2>5. h[k + 1] = g[<<k + 1, h[k]>>]
    <3>1. h[k] = f[k]
      BY <2>4
    <3>2. h[k + 1] = g[<<k + 1, f[k]>>]
      OBVIOUS
    <3> QED
      BY <3>1, <3>2
  <2>6. \A i \in 1 .. k : h[i] = g[<<i, h[i - 1]>>]
    BY <2>1, <2>4
  <2>7. h[0] = x0
    BY <2>1, <2>4
  <2> HIDE DEF h
  <2>8. ASSUME NEW i \in 1 .. k + 1
        PROVE  h[i] = g[<<i, h[i - 1]>>]
    <3>1. CASE i = k + 1
      BY <2>5, <3>1
    <3>2. CASE i # k + 1
      BY <2>6, <3>2
    <3> QED
      BY <3>1, <3>2
  <2>9. Upto(k + 1, h)
    BY <2>7, <2>8
  <2> QED
    BY <2>3, <2>9
<1> HIDE DEF Good
<1>3. Nat \subseteq Good
  BY <1>1, <1>2, Induct
<1> QED
  BY <1>3 DEF Good, Iterated

----------------------------------------------------------------------------
(* edit_file: what str::matches finds and what is put in its place.        *)

\* Where a run of lines stands.
Splits(file, old) == {i \in 1 .. Len(file) - Len(old) + 1 : SubSeq(file, i, i + Len(old) - 1) = old}

Step(file, old, i, s) ==
    IF SubSeq(file, i, A!Lower(i + Len(old) - 1, Len(file))) = old /\ (s = 0 \/ i >= s + Len(old)) THEN i ELSE s

StartsAre(file, old, f) ==
    f = [i \in 0 .. Len(file) |-> IF i = 0 THEN 0 ELSE Step(file, old, i, f[i - 1])]

LEMMA StartsExist ==
    ASSUME NEW file, NEW old, Len(file) \in Nat
    PROVE  \E f : StartsAre(file, old, f)
<1> DEFINE n == Len(file)
           g == [p \in (1 .. n) \X (0 .. n) |-> Step(file, old, p[1], p[2])]
<1> HIDE DEF n
<1>0. n \in Nat
  BY DEF n
<1>1. g \in [(1 .. n) \X (0 .. n) -> 0 .. n]
  BY <1>0 DEF Step
<1> HIDE DEF g
<1>2. PICK f \in [0 .. n -> 0 .. n] : f[0] = 0 /\ \A i \in 1 .. n : f[i] = g[<<i, f[i - 1]>>]
  <2> DEFINE X == 0 .. n
  <2>1. 0 \in X
    BY <1>0
  <2>2. g \in [(1 .. n) \X X -> X]
    BY <1>1
  <2> HIDE DEF X
  <2>3. Iterated(X, 0, n, g)
    BY <1>0, <2>1, <2>2, Recursion
  <2> QED
    BY <2>3 DEF X, Iterated
<1>3. \A i \in 1 .. n : f[i - 1] \in 0 .. n /\ <<i, f[i - 1]>> \in (1 .. n) \X (0 .. n)
  <2>1. \A i \in 1 .. n : i - 1 \in 0 .. n
    BY <1>0
  <2> QED
    BY <1>2, <2>1
<1>4. \A i \in 1 .. n : f[i] = Step(file, old, i, f[i - 1])
  BY <1>2, <1>3 DEF g
<1>5. f = [i \in 0 .. n |-> IF i = 0 THEN 0 ELSE Step(file, old, i, f[i - 1])]
  <2>1. \A i \in 0 .. n : f[i] = IF i = 0 THEN 0 ELSE Step(file, old, i, f[i - 1])
    <3> SUFFICES ASSUME NEW i \in 0 .. n
                 PROVE  f[i] = IF i = 0 THEN 0 ELSE Step(file, old, i, f[i - 1])
      OBVIOUS
    <3>1. i = 0 \/ i \in 1 .. n
      BY <1>0
    <3>2. i = 0 => f[i] = 0
      BY <1>2
    <3>3. i \in 1 .. n => i # 0 /\ f[i] = Step(file, old, i, f[i - 1])
      BY <1>0, <1>4
    <3> QED
      BY <3>1, <3>2, <3>3
  <2> QED
    BY <2>1
<1> QED
  BY <1>5 DEF StartsAre, n

LEMMA MatchesAreStarts ==
    ASSUME NEW file, NEW old, Len(file) \in Nat
    PROVE  \E f : StartsAre(file, old, f) /\ A!Matches(file, old) = {f[i] : i \in DOMAIN file} \ {0}
<1> DEFINE F == CHOOSE f : StartsAre(file, old, f)
<1>1. StartsAre(file, old, F)
  BY StartsExist
<1>2. A!Matches(file, old) = {F[i] : i \in DOMAIN file} \ {0}
  BY DEF A!Matches, StartsAre, Step
<1> QED
  BY <1>1, <1>2

Recurs(file, old, f) ==
    /\ f \in [0 .. Len(file) -> 0 .. Len(file)] /\ f[0] = 0
    /\ \A i \in 1 .. Len(file) : f[i] = Step(file, old, i, f[i - 1])

StartsFrom(file, old, f) ==
    /\ \A i \in 1 .. Len(file) : f[i] <= i /\ (f[i] = 0 \/ f[i] \in Splits(file, old))
    /\ \A i \in Splits(file, old) : f[i] # 0 /\ f[i] <= i /\ i < f[i] + Len(old)
    /\ \A i, j \in 1 .. Len(file) : i <= j => f[i] = 0 \/ f[i] = f[j] \/ f[j] >= f[i] + Len(old)

LEMMA StartsRecur ==
    ASSUME NEW file, NEW old, Len(file) \in Nat
    PROVE  \E f : Recurs(file, old, f) /\ A!Matches(file, old) = {f[i] : i \in DOMAIN file} \ {0}
<1> DEFINE n == Len(file)
<1>1. PICK f : StartsAre(file, old, f) /\ A!Matches(file, old) = {f[i] : i \in DOMAIN file} \ {0}
  BY MatchesAreStarts
<1>2. f[0] = 0 /\ \A i \in 1 .. n : f[i] = Step(file, old, i, f[i - 1])
  BY <1>1 DEF StartsAre
<1>3. f = [i \in 0 .. n |-> f[i]]
  BY <1>1 DEF StartsAre
<1> DEFINE Good == {k \in Nat : k <= n => f[k] \in 0 .. n}
<1>4. 0 \in Good
  BY <1>2
<1>5. ASSUME NEW k \in Nat, k \in Good
      PROVE  k + 1 \in Good
  <2> SUFFICES ASSUME k + 1 <= n
               PROVE  f[k + 1] \in 0 .. n
    OBVIOUS
  <2>1. f[k] \in 0 .. n /\ k + 1 \in 1 .. n /\ (k + 1) - 1 = k
    BY <1>5
  <2>2. f[k + 1] = Step(file, old, k + 1, f[k])
    BY <1>2, <2>1
  <2> QED
    BY <2>1, <2>2 DEF Step
<1> HIDE DEF Good
<1>6. Nat \subseteq Good
  BY <1>4, <1>5, Induct
<1>7. \A i \in 0 .. n : f[i] \in 0 .. n
  BY <1>6 DEF Good
<1>8. f \in [0 .. n -> 0 .. n]
  BY <1>3, <1>7
<1> QED
  BY <1>1, <1>2, <1>8 DEF Recurs

LEMMA FoundIsSplit ==
    ASSUME NEW Line, NEW file \in Seq(Line), NEW old \in Seq(Line), old # <<>>, NEW i \in 1 .. Len(file)
    PROVE  SubSeq(file, i, A!Lower(i + Len(old) - 1, Len(file))) = old <=> i \in Splits(file, old)
<1> DEFINE n == Len(file)
           m == Len(old)
<1>1. n \in Nat /\ m \in Nat \ {0}
  BY EmptySeq
<1>2. CASE i + m - 1 <= n
  BY <1>1, <1>2 DEF Splits, A!Lower
<1>3. CASE i + m - 1 > n
  <2>1. A!Lower(i + m - 1, n) = n
    BY <1>1, <1>3 DEF A!Lower
  <2>2. \A k \in i .. n : file[k] \in Line
    BY <1>1
  <2>3. Len(SubSeq(file, i, n)) = n - i + 1
    BY <1>1, <2>2, SubSeqProperties
  <2>4. SubSeq(file, i, n) # old
    BY <1>1, <1>3, <2>3
  <2>5. i \notin Splits(file, old)
    BY <1>1, <1>3 DEF Splits
  <2> QED
    BY <2>1, <2>4, <2>5
<1> QED
  BY <1>1, <1>2, <1>3

\* What str::matches finds: places of old, one in every run of overlapping places, and
\* none that overlap.
LEMMA StartsAreApart ==
    ASSUME NEW Line, NEW file \in Seq(Line), NEW old \in Seq(Line), old # <<>>,
           NEW f, Recurs(file, old, f)
    PROVE  StartsFrom(file, old, f)
<1> DEFINE n == Len(file)
           m == Len(old)
           S == Splits(file, old)
<1>0. n \in Nat /\ m \in Nat \ {0} /\ S \subseteq 1 .. n
  BY EmptySeq DEF Splits
<1>1. \A i \in 1 .. n : f[i] = IF i \in S /\ (f[i - 1] = 0 \/ i >= f[i - 1] + m) THEN i ELSE f[i - 1]
  BY FoundIsSplit DEF Recurs, Step
<1>2. f[0] = 0 /\ \A i \in 0 .. n : f[i] \in 0 .. n
  BY DEF Recurs
<1> HIDE DEF n, m, S
<1> DEFINE Good == {k \in Nat : k <= n => f[k] <= k /\ (f[k] = 0 \/ f[k] \in S)}
<1>3. 0 \in Good
  BY <1>2
<1>4. ASSUME NEW k \in Nat, k \in Good
      PROVE  k + 1 \in Good
  <2> SUFFICES ASSUME k + 1 <= n
               PROVE  f[k + 1] <= k + 1 /\ (f[k + 1] = 0 \/ f[k + 1] \in S)
    OBVIOUS
  <2>1. f[k] <= k /\ (f[k] = 0 \/ f[k] \in S) /\ f[k] \in 0 .. n
    BY <1>0, <1>2, <1>4
  <2>2. f[k + 1] = IF k + 1 \in S /\ (f[k] = 0 \/ k + 1 >= f[k] + m) THEN k + 1 ELSE f[k]
    <3>1. k + 1 \in 1 .. n /\ (k + 1) - 1 = k
      BY <1>0
    <3> QED
      BY <1>1, <3>1
  <2> QED
    BY <1>0, <2>1, <2>2
<1> HIDE DEF Good
<1>5. Nat \subseteq Good
  BY <1>3, <1>4, Induct
<1>6. \A i \in 0 .. n : f[i] <= i /\ (f[i] = 0 \/ f[i] \in S)
  BY <1>0, <1>5 DEF Good
<1>7. ASSUME NEW i \in S
      PROVE  f[i] # 0 /\ f[i] <= i /\ i < f[i] + m
  <2>1. i \in 1 .. n /\ i - 1 \in 0 .. n
    BY <1>0
  <2>2. f[i - 1] \in 0 .. n /\ f[i - 1] <= i - 1
    BY <1>2, <1>6, <2>1
  <2>3. f[i] = IF f[i - 1] = 0 \/ i >= f[i - 1] + m THEN i ELSE f[i - 1]
    BY <1>1, <2>1
  <2> QED
    BY <1>0, <2>1, <2>2, <2>3
<1>8. ASSUME NEW i \in 1 .. n
      PROVE  \A j \in 1 .. n : i <= j => f[i] = 0 \/ f[i] = f[j] \/ f[j] >= f[i] + m
  <2> DEFINE U == {k \in Nat : i + k <= n => f[i] = 0 \/ f[i] = f[i + k] \/ f[i + k] >= f[i] + m}
  <2>1. 0 \in U
    BY <1>0
  <2>2. ASSUME NEW k \in Nat, k \in U
        PROVE  k + 1 \in U
    <3> SUFFICES ASSUME i + k + 1 <= n, f[i] # 0
                 PROVE  f[i] = f[i + k + 1] \/ f[i + k + 1] >= f[i] + m
      BY <1>0
    <3>1. f[i] = f[i + k] \/ f[i + k] >= f[i] + m
      BY <1>0, <2>2
    <3>2. /\ i + k + 1 \in 1 .. n /\ (i + k + 1) - 1 = i + k /\ i + k \in 0 .. n
      BY <1>0
    <3>3. f[i + k + 1] = IF i + k + 1 \in S /\ (f[i + k] = 0 \/ i + k + 1 >= f[i + k] + m) THEN i + k + 1 ELSE f[i + k]
      BY <1>1, <3>2
    <3>4. f[i] \in 0 .. n /\ f[i + k] \in 0 .. n
      BY <1>0, <1>2, <3>2
    <3> QED
      BY <1>0, <3>1, <3>3, <3>4
  <2> HIDE DEF U
  <2>3. Nat \subseteq U
    BY <2>1, <2>2, Induct
  <2> TAKE j \in 1 .. n
  <2> HAVE i <= j
  <2>4. j - i \in Nat /\ i + (j - i) = j /\ j <= n
    BY <1>0
  <2>5. j - i \in U
    BY <2>3, <2>4
  <2> QED
    BY <2>4, <2>5 DEF U
<1>9. \A i \in 1 .. n : f[i] <= i /\ (f[i] = 0 \/ f[i] \in S)
  BY <1>0, <1>6
<1> QED
  BY <1>7, <1>8, <1>9 DEF StartsFrom, n, m, S

Flattens(S, ps, h) ==
    /\ h \in [0 .. Len(ps) -> Seq(S)] /\ h[0] = <<>>
    /\ \A i \in 1 .. Len(ps) : h[i] = h[i - 1] \o ps[i]

\* FlattenSeq, piece by piece.
LEMMA Flattened ==
    ASSUME NEW S, NEW ps \in Seq(Seq(S)), ps # <<>>
    PROVE  \E h : Flattens(S, ps, h) /\ A!FlattenSeq(ps) = h[Len(ps)]
<1> DEFINE n == Len(ps)
           X == Seq(S)
           Is(e) == e = [i \in 1 .. n |-> IF i = 1 THEN ps[i] ELSE e[i - 1] \o ps[i]]
           F == CHOOSE e : Is(e)
           g == [p \in (1 .. n) \X X |-> p[2] \o ps[p[1]]]
<1>1. n \in Nat \ {0} /\ \A i \in 1 .. n : ps[i] \in X
  BY EmptySeq, ElementOfSeq
<1>2. A!FlattenSeq(ps) = F[n]
  BY <1>1 DEF A!FlattenSeq
<1> HIDE DEF n, F
<1>3. PICK f : f \in [0 .. n -> X] /\ f[0] = <<>> /\ \A i \in 1 .. n : f[i] = f[i - 1] \o ps[i]
  <2>1. g \in [(1 .. n) \X X -> X]
    <3>1. ASSUME NEW p \in (1 .. n) \X X
          PROVE  p[2] \o ps[p[1]] \in X
      BY <1>1, <3>1
    <3> QED
      BY <3>1
  <2>2. <<>> \in X /\ n \in Nat
    BY <1>1, EmptySeq
  <2> HIDE DEF X, g
  <2>3. Iterated(X, <<>>, n, g)
    BY <2>1, <2>2, Recursion
  <2>4. PICK f \in [0 .. n -> X] : f[0] = <<>> /\ \A i \in 1 .. n : f[i] = g[<<i, f[i - 1]>>]
    BY <2>3 DEF Iterated
  <2>5. ASSUME NEW i \in 1 .. n
        PROVE  f[i] = f[i - 1] \o ps[i]
    <3>1. i - 1 \in 0 .. n
      BY <1>1
    <3>2. f[i - 1] \in X
      BY <2>4, <3>1
    <3>3. <<i, f[i - 1]>> \in (1 .. n) \X X
      BY <3>2
    <3>4. g[<<i, f[i - 1]>>] = f[i - 1] \o ps[i]
      BY <3>3 DEF g
    <3> QED
      BY <2>4, <3>4
  <2> QED
    BY <2>4, <2>5
<1>4. f[1] = ps[1]
  <2>0. 1 \in 1 .. n /\ 1 - 1 = 0
    BY <1>1
  <2>1. f[1] = f[1 - 1] \o ps[1] /\ ps[1] \in Seq(S)
    BY <1>1, <1>3, <2>0
  <2>2. f[1] = <<>> \o ps[1]
    BY <1>3, <2>0, <2>1
  <2> QED
    BY <2>1, <2>2, ConcatEmptySeq
<1>5. Is([i \in 1 .. n |-> f[i]])
  <2>1. ASSUME NEW i \in 1 .. n
        PROVE  f[i] = IF i = 1 THEN ps[i] ELSE [k \in 1 .. n |-> f[k]][i - 1] \o ps[i]
    <3>1. CASE i = 1
      BY <1>4, <3>1
    <3>2. CASE i # 1
      <4>1. i - 1 \in 1 .. n
        BY <1>1, <3>2
      <4>2. [k \in 1 .. n |-> f[k]][i - 1] = f[i - 1]
        BY <4>1
      <4>3. f[i] = f[i - 1] \o ps[i]
        BY <1>3
      <4> QED
        BY <3>2, <4>2, <4>3
    <3> QED
      BY <3>1, <3>2
  <2> QED
    BY <2>1
<1> HIDE DEF Is
<1>6. Is(F)
  BY <1>5 DEF F
<1>7. /\ F[1] = ps[1]
      /\ \A i \in 1 .. n : i # 1 => F[i] = F[i - 1] \o ps[i]
  <2>1. F = [i \in 1 .. n |-> IF i = 1 THEN ps[i] ELSE F[i - 1] \o ps[i]]
    BY <1>6 DEF Is
  <2>2. \A i \in 1 .. n : F[i] = IF i = 1 THEN ps[i] ELSE F[i - 1] \o ps[i]
    BY <2>1
  <2>3. 1 \in 1 .. n
    BY <1>1
  <2> QED
    BY <2>2, <2>3
<1> DEFINE Good == {k \in Nat : k + 1 <= n => F[k + 1] = f[k + 1]}
<1>8. 0 \in Good
  BY <1>4, <1>7
<1>9. ASSUME NEW k \in Nat, k \in Good
      PROVE  k + 1 \in Good
  <2> SUFFICES ASSUME k + 2 <= n
               PROVE  F[k + 2] = f[k + 2]
    BY <1>1
  <2>1. k + 2 \in 1 .. n /\ (k + 2) - 1 = k + 1 /\ k + 2 # 1
    BY <1>1
  <2>2. F[k + 1] = f[k + 1]
    BY <1>1, <1>9
  <2>3. F[k + 2] = F[k + 1] \o ps[k + 2] /\ f[k + 2] = f[k + 1] \o ps[k + 2]
    BY <1>3, <1>7, <2>1
  <2> QED
    BY <2>2, <2>3
<1> HIDE DEF Good
<1>10. Nat \subseteq Good
  BY <1>8, <1>9, Induct
<1>11. F[n] = f[n]
  <2>1. n - 1 \in Good /\ (n - 1) + 1 = n
    BY <1>1, <1>10
  <2> QED
    BY <1>1, <2>1 DEF Good
<1>12. Flattens(S, ps, f)
  BY <1>3 DEF Flattens, n
<1> QED
  BY <1>2, <1>11, <1>12 DEF n

\* One run of lines is replaced by others.
Replaced(file, old, new, s) ==
    SubSeq(file, 1, s - 1) \o new \o SubSeq(file, s + Len(old), Len(file))

\* What follows a sequence can be joined first.
Joined(a, b, c, upto, longer, rest) ==
    upto = a \o b /\ longer = upto \o c /\ rest = b \o c => longer = a \o rest

LEMMA JoinedFirst ==
    ASSUME NEW S, NEW a \in Seq(S), NEW b \in Seq(S), NEW c \in Seq(S),
           NEW upto, NEW longer, NEW rest
    PROVE  Joined(a, b, c, upto, longer, rest)
<1>1. (a \o b) \o c = a \o (b \o c)
  BY ConcatAssociative
<1> QED
  BY <1>1 DEF Joined

\* What has been written after line k, when m lines from s on are replaced.
SoFar(file, m, upto, s, k, v) ==
    IF k < s THEN v = SubSeq(file, 1, k)
    ELSE IF k < s + m THEN v = upto
    ELSE v = upto \o SubSeq(file, s + m, k)

LEMMA OneRunIsReplaced ==
    ASSUME NEW Line, NEW file \in Seq(Line), NEW old \in Seq(Line), NEW new \in Seq(Line), old # <<>>,
           NEW s \in Splits(file, old)
    PROVE  A!ReplaceRuns(file, old, new, {s}) = Replaced(file, old, new, s)
<1> DEFINE n == Len(file)
           m == Len(old)
           ps == [i \in DOMAIN file |-> IF i \in {s} THEN new
                                        ELSE IF \E r \in {s} : i \in r .. r + Len(old) - 1 THEN <<>> ELSE <<file[i]>>]
           head == SubSeq(file, 1, s - 1)
           P(k, v) == SoFar(file, m, head \o new, s, k, v)
<1>1. n \in Nat /\ m \in Nat \ {0} /\ s \in 1 .. n /\ s + m - 1 <= n
  BY EmptySeq DEF Splits
<1>2. A!ReplaceRuns(file, old, new, {s}) = A!FlattenSeq(ps)
  BY DEF A!ReplaceRuns
<1>3. ps \in [1 .. n -> Seq(Line)]
  BY <1>1, EmptySeq
<1>4. ps \in Seq(Seq(Line)) /\ Len(ps) = n /\ ps # <<>>
  <2>1. ps \in Seq(Seq(Line)) /\ Len(ps) = n
    BY <1>1, <1>3
  <2> QED
    BY <1>1, <2>1, EmptySeq
<1>5. \A i \in 1 .. n : /\ i < s => ps[i] = <<file[i]>>
                        /\ i = s => ps[i] = new
                        /\ i > s /\ i < s + m => ps[i] = <<>>
                        /\ i >= s + m => ps[i] = <<file[i]>>
  BY <1>1
<1> HIDE DEF ps
<1>6. PICK h : Flattens(Line, ps, h) /\ A!FlattenSeq(ps) = h[n]
  BY <1>4, Flattened
<1>7. /\ h \in [0 .. n -> Seq(Line)] /\ h[0] = <<>>
      /\ \A i \in 1 .. n : h[i] = h[i - 1] \o ps[i]
  BY <1>4, <1>6 DEF Flattens
<1>8. head \in Seq(Line)
  BY <1>1
<1>9. head \o new \in Seq(Line)
  BY <1>8
<1> HIDE DEF head, n, m
<1> DEFINE Good == {k \in Nat : k <= n => P(k, h[k])}
<1>10. 0 \in Good
  <2>1. SubSeq(file, 1, 0) = <<>>
    BY SubSeqEmpty
  <2> QED
    BY <1>1, <1>7, <2>1 DEF SoFar
<1>11. ASSUME NEW k \in Nat, k \in Good
       PROVE  k + 1 \in Good
  <2> SUFFICES ASSUME k + 1 <= n
               PROVE  P(k + 1, h[k + 1])
    OBVIOUS
  <2>1. P(k, h[k]) /\ k + 1 \in 1 .. n /\ (k + 1) - 1 = k /\ k \in 0 .. n
    BY <1>1, <1>11
  <2>2. h[k + 1] = h[k] \o ps[k + 1] /\ h[k] \in Seq(Line)
    BY <1>1, <1>7, <2>1
  <2>3. CASE k + 1 < s
    <3>1. h[k] = SubSeq(file, 1, k) /\ ps[k + 1] = <<file[k + 1]>>
      BY <1>1, <1>5, <2>1, <2>3 DEF SoFar
    <3>2. SubSeq(file, 1, k + 1) = SubSeq(file, 1, k) \o <<file[k + 1]>>
      BY <1>1, <2>1, SubSeqRecursiveSecond DEF n
    <3> QED
      BY <1>1, <2>2, <2>3, <3>1, <3>2 DEF SoFar
  <2>4. CASE k + 1 = s
    <3>0. k = s - 1 /\ k < s
      BY <1>1, <2>4
    <3>1. h[k] = head /\ ps[k + 1] = new
      <4>1. h[k] = SubSeq(file, 1, k)
        BY <2>1, <3>0 DEF SoFar
      <4>2. ps[k + 1] = new
        BY <1>5, <2>1, <2>4
      <4> QED
        BY <3>0, <4>1, <4>2 DEF head
    <3> QED
      BY <1>1, <2>2, <2>4, <3>1 DEF SoFar
  <2>5. CASE k + 1 > s /\ k + 1 < s + m
    <3>1. h[k] = head \o new /\ ps[k + 1] = <<>>
      BY <1>1, <1>5, <2>1, <2>5 DEF SoFar
    <3>2. (head \o new) \o <<>> = head \o new
      BY <1>9, ConcatEmptySeq
    <3> QED
      BY <1>1, <2>2, <2>5, <3>1, <3>2 DEF SoFar
  <2>6. CASE k + 1 >= s + m
    <3> DEFINE a == head \o new
               b == SubSeq(file, s + m, k)
    <3>0. \A i \in s + m .. k : file[i] \in Line
      BY <1>1, <2>1, <2>6, ElementOfSeq DEF n
    <3>1. a \in Seq(Line) /\ b \in Seq(Line) /\ <<file[k + 1]>> \in Seq(Line)
      <4>1. b \in Seq(Line)
        BY <1>1, <3>0, SubSeqProperties
      <4>2. file[k + 1] \in Line
        BY <2>1, ElementOfSeq DEF n
      <4> QED
        BY <1>9, <4>1, <4>2
    <3>2. SubSeq(file, s + m, k + 1) = b \o <<file[k + 1]>>
      <4>1. s + m \in 1 .. Len(file) /\ k + 1 \in s + m .. Len(file) /\ (k + 1) - 1 = k
        BY <1>1, <2>1, <2>6 DEF n
      <4> QED
        BY <4>1, SubSeqRecursiveSecond
    <3>3. h[k] = a \o b
      <4>1. CASE k >= s + m
        <5>1. ~(k < s) /\ ~(k < s + m)
          BY <1>1, <4>1
        <5> QED
          BY <2>1, <5>1, Zenon DEF SoFar
      <4>2. CASE k < s + m
        <5>1. h[k] = a
          BY <1>1, <2>1, <2>6, <4>2 DEF SoFar
        <5>2. b = <<>>
          BY <1>1, <4>2, SubSeqEmpty
        <5> QED
          BY <3>1, <5>1, <5>2, ConcatEmptySeq
      <4>3. k >= s + m \/ k < s + m
        BY <1>1
      <4> HIDE DEF a, b
      <4> QED
        BY <4>1, <4>2, <4>3
    <3>4. ps[k + 1] = <<file[k + 1]>>
      BY <1>5, <2>1, <2>6
    <3> HIDE DEF a, b
    <3> DEFINE c == <<file[k + 1]>>
               rest == SubSeq(file, s + m, k + 1)
    <3>5. c \in Seq(Line) /\ rest = b \o c /\ h[k + 1] = h[k] \o c
      BY <2>2, <3>1, <3>2, <3>4
    <3> HIDE DEF c, rest
    <3>6. h[k + 1] = a \o rest
      <4>1. Joined(a, b, c, h[k], h[k + 1], rest)
        BY <3>1, <3>5, JoinedFirst
      <4> QED
        BY <3>3, <3>5, <4>1 DEF Joined
    <3> QED
      BY <1>1, <2>6, <3>6 DEF a, rest, SoFar
  <2> QED
    BY <1>1, <2>3, <2>4, <2>5, <2>6
<1> HIDE DEF Good
<1>12. Nat \subseteq Good
  BY <1>10, <1>11, Induct
<1>13. P(n, h[n])
  BY <1>1, <1>12 DEF Good
<1>14. CASE n >= s + m
  <2>1. h[n] = (head \o new) \o SubSeq(file, s + m, n)
    <3>1. ~(n < s) /\ ~(n < s + m)
      BY <1>1, <1>14
    <3> QED
      BY <1>13, <3>1, Zenon DEF SoFar
  <2> QED
    BY <1>2, <1>6, <2>1 DEF Replaced, head, n, m
<1>15. CASE n < s + m
  <2>1. h[n] = head \o new
    BY <1>1, <1>13, <1>15 DEF SoFar
  <2>2. SubSeq(file, s + m, n) = <<>>
    BY <1>1, <1>15, SubSeqEmpty
  <2>3. (head \o new) \o <<>> = head \o new
    BY <1>9, ConcatEmptySeq
  <2> QED
    BY <1>2, <1>6, <2>1, <2>2, <2>3 DEF Replaced, head, n, m
<1> QED
  BY <1>1, <1>14, <1>15

\* Two places of old that do not overlap.
Apart(file, old) == \E i, j \in Splits(file, old) : i + Len(old) <= j

LEMMA MatchesAreSplits ==
    ASSUME NEW Line, NEW file \in Seq(Line), NEW old \in Seq(Line), old # <<>>
    PROVE  LET found == A!Matches(file, old)
           IN  /\ found \subseteq Splits(file, old) /\ IsFiniteSet(found)
               /\ \A i \in Splits(file, old) : \E s \in found : s <= i /\ i < s + Len(old)
               /\ \A s, r \in found : s < r => s + Len(old) <= r
<1> DEFINE n == Len(file)
           m == Len(old)
           S == Splits(file, old)
           found == A!Matches(file, old)
<1>0. n \in Nat /\ m \in Nat \ {0} /\ S \subseteq 1 .. n /\ DOMAIN file = 1 .. n
  BY EmptySeq DEF Splits
<1>1. PICK f : Recurs(file, old, f) /\ found = {f[i] : i \in DOMAIN file} \ {0}
  BY <1>0, StartsRecur
<1>2. StartsFrom(file, old, f)
  BY <1>1, StartsAreApart
<1>3. \A i \in 1 .. n : f[i] \in 0 .. n
  BY <1>0, <1>1 DEF Recurs
<1> HIDE DEF n, m, S, found
<1>4. found = {f[i] : i \in 1 .. n} \ {0}
  BY <1>0, <1>1
<1>5. found \subseteq S
  BY <1>2, <1>4 DEF StartsFrom, n, S
<1>6. IsFiniteSet(found)
  <2>1. IsFiniteSet(1 .. n)
    BY <1>0, FS_Interval
  <2> QED
    BY <1>0, <1>5, <2>1, FS_Subset
<1>7. \A i \in S : \E s \in found : s <= i /\ i < s + m
  BY <1>0, <1>2, <1>4 DEF StartsFrom, S, m
<1>8. ASSUME NEW s \in found, NEW r \in found, s < r
      PROVE  s + m <= r
  <2>1. PICK i, j \in 1 .. n : s = f[i] /\ r = f[j] /\ s # 0 /\ r # 0
    BY <1>4
  <2>2. s \in 0 .. n /\ r \in 0 .. n
    BY <1>3, <2>1
  <2>3. i <= j => s = 0 \/ s = r \/ r >= s + m
    BY <1>2, <2>1 DEF StartsFrom, n, m
  <2>4. j <= i => r = 0 \/ r = s \/ s >= r + m
    BY <1>2, <2>1 DEF StartsFrom, n, m
  <2> QED
    BY <1>0, <1>8, <2>1, <2>2, <2>3, <2>4
<1> QED
  BY <1>5, <1>6, <1>7, <1>8 DEF S, m, found

\* The session counts as everybody does.
LEMMA CountsAgree == ASSUME NEW S PROVE A!Cardinality(S) = Cardinality(S)
  BY DEF A!Cardinality, Cardinality

\* THEOREM: edit_file succeeds exactly if the old lines are not empty, occur, and either all
\* are to be replaced or no two places are apart from each other; and then, if not all
\* were asked for, it replaces one place and leaves the rest of the file, for every file
\* and all lines (EditFileTool: str::matches, str::replacen).
THEOREM EditFileIsExact ==
    ASSUME NEW Line, NEW file \in Seq(Line), NEW old \in Seq(Line), NEW new \in Seq(Line),
           NEW every \in BOOLEAN, file # None
    PROVE  LET edited == A!EditFile(file, old, new, every)
           IN  /\ edited.kind = "ok" <=>
                     old # <<>> /\ Splits(file, old) # {} /\ (every \/ ~Apart(file, old))
               /\ edited.kind = "ok" /\ ~every =>
                     \E s \in Splits(file, old) : edited.file = Replaced(file, old, new, s)
<1> DEFINE found == A!Matches(file, old)
           edited == A!EditFile(file, old, new, every)
           m == Len(old)
<1>1. CASE old = <<>>
  BY <1>1 DEF A!EditFile, A!Failed
<1>2. CASE old # <<>>
  <2>1. /\ found \subseteq Splits(file, old) /\ IsFiniteSet(found)
        /\ \A i \in Splits(file, old) : \E s \in found : s <= i /\ i < s + m
        /\ \A s, r \in found : s < r => s + m <= r
    BY <1>2, MatchesAreSplits
  <2>2. m \in Nat \ {0} /\ Splits(file, old) \subseteq Nat
    BY <1>2, EmptySeq DEF Splits
  <2>3. /\ edited.kind = "ok" <=> ~(found = {} \/ (Cardinality(found) > 1 /\ ~every))
        /\ edited.kind = "ok" => edited.file = A!ReplaceRuns(file, old, new, found)
    <3>1. edited = IF found = {} \/ (Cardinality(found) > 1 /\ ~every) THEN A!Failed(file)
                   ELSE A!Ok(A!Ones(1), A!ReplaceRuns(file, old, new, found))
      BY <1>2, CountsAgree DEF A!EditFile
    <3>2. A!Failed(file).kind = "error"
      BY DEF A!Failed
    <3>3. \A o, x : A!Ok(o, x).kind = "ok" /\ A!Ok(o, x).file = x
      BY DEF A!Ok
    <3> HIDE DEF edited, found
    <3> QED
      BY <3>1, <3>2, <3>3
  <2> HIDE DEF found, edited, m
  <2>4. found = {} <=> Splits(file, old) = {}
    BY <2>1
  <2>5. Cardinality(found) \in Nat
    BY <2>1, FS_CardinalityType
  <2>6. ASSUME found # {}, ~(Cardinality(found) > 1)
        PROVE  \E s \in Splits(file, old) : found = {s}
    <3>1. Cardinality(found) # 0
      BY <2>1, <2>6, FS_EmptySet
    <3>2. Cardinality(found) = 1
      BY <2>5, <2>6, <3>1
    <3>3. \E s : found = {s}
      BY <2>1, <3>2, FS_Singleton
    <3> QED
      BY <2>1, <3>3
  <2>7. ASSUME Cardinality(found) > 1
        PROVE  Apart(file, old)
    <3>0. Cardinality(found) # 0 /\ Cardinality(found) # 1
      BY <2>5, <2>7
    <3>1. PICK s \in found : TRUE
      <4>1. found # {}
        BY <3>0, FS_EmptySet, Zenon
      <4> QED
        BY <4>1
    <3>2. found # {s}
      BY <3>0, FS_Singleton, Zenon
    <3>3. PICK r \in found : r # s
      BY <3>1, <3>2
    <3>4. s + m <= r \/ r + m <= s
      BY <2>1, <2>2, <3>3
    <3> QED
      BY <2>1, <3>4 DEF Apart, m
  <2>8. ASSUME Apart(file, old), found # {}
        PROVE  Cardinality(found) > 1
    <3> SUFFICES ASSUME ~(Cardinality(found) > 1)
                 PROVE  FALSE
      OBVIOUS
    <3>1. PICK s : found = {s}
      BY <2>6, <2>8
    <3>2. PICK i, j \in Splits(file, old) : i + m <= j
      BY <2>8 DEF Apart, m
    <3>3. s <= i /\ j < s + m /\ s \in Nat
      BY <2>1, <2>2, <3>1, <3>2
    <3> QED
      BY <2>2, <3>2, <3>3
  <2>9. edited.kind = "ok" <=> Splits(file, old) # {} /\ (every \/ ~Apart(file, old))
    BY <2>3, <2>4, <2>7, <2>8
  <2>10. ASSUME edited.kind = "ok", ~every
         PROVE  \E s \in Splits(file, old) : edited.file = Replaced(file, old, new, s)
    <3>1. PICK s \in Splits(file, old) : found = {s}
      BY <2>3, <2>6, <2>10
    <3>2. edited.file = Replaced(file, old, new, s)
      BY <1>2, <2>3, <2>10, <3>1, OneRunIsReplaced
    <3> QED
      BY <3>2
  <2> QED
    BY <1>2, <2>9, <2>10 DEF edited
<1> QED
  BY <1>1, <1>2

\* What a call finds is text.
TextsOf(Line) ==
    /\ \A p \in DOMAIN fs : fs[p].kind = "file" => fs[p].lines \in Seq(Line)
    /\ pending # <<>> /\ pending[1].args.tool = "edit_file" =>
          /\ pending[1].args.old \in Seq(Line) /\ pending[1].args.new \in Seq(Line)
          /\ pending[1].args.all \in BOOLEAN

LEMMA CallEditsExactly ==
    ASSUME NEW Line, TextsOf(Line), A!ExecuteCall
    PROVE  A!ExactEdit
<1> DEFINE a == pending[1].args
           t == A!Target(a)
           lines == A!Lines(t)
           edited == A!EditFile(lines, a.old, a.new, a.all)
<1> SUFFICES ASSUME NEW p \in DOMAIN fs, pending # <<>>, fs'[p] # fs[p], a.tool = "edit_file", ~a.all
             PROVE  /\ \E i \in Splits(fs[p].lines, a.old) :
                          fs'[p].lines = Replaced(fs[p].lines, a.old, a.new, i)
                    /\ \A i, j \in Splits(fs[p].lines, a.old) : i < j => j < i + Len(a.old)
  BY DEF A!ExactEdit, Splits, Replaced
<1>1. PICK run \in Runs : fs' = A!RunTool(a, t, lines, run).fs
  BY DEF A!ExecuteCall
<1>2. fs' = IF edited.kind = "ok" THEN A!WithFile(t, edited.file) ELSE fs
  BY <1>1 DEF A!RunTool
<1>3. edited.kind = "ok" /\ fs' = A!WithFile(t, edited.file)
  BY <1>2
<1>4. lines # None
  BY <1>3 DEF A!EditFile, A!Failed
<1>5. t \in DOMAIN fs /\ fs[t].kind = "file" /\ lines = fs[t].lines
  BY <1>4 DEF A!Lines
<1>6. lines \in Seq(Line) /\ a.old \in Seq(Line) /\ a.new \in Seq(Line) /\ a.all \in BOOLEAN
  BY <1>5 DEF TextsOf
<1> HIDE DEF a, t, lines, edited
<1>7. p = t /\ fs'[p].lines = edited.file
  BY <1>3, <1>5 DEF A!WithFile
<1>8. /\ ~Apart(lines, a.old)
      /\ \E s \in Splits(lines, a.old) : edited.file = Replaced(lines, a.old, a.new, s)
  BY <1>3, <1>4, <1>6, EditFileIsExact DEF edited
<1>9. \A i, j \in Splits(lines, a.old) : i < j => j < i + Len(a.old)
  <2>1. Len(a.old) \in Nat /\ \A i \in Splits(lines, a.old) : i \in Int
    BY <1>6 DEF Splits
  <2> QED
    BY <1>8, <2>1 DEF Apart
<1> QED
  BY <1>5, <1>7, <1>8, <1>9

----------------------------------------------------------------------------
(* The conversation: what is handed to a session is kept and in order.     *)

\* The history is a sequence, of turns whose kinds do not matter here.
Listed(h) == \E T : h \in Seq(T)

LEMMA ListedIs == ASSUME NEW h, Listed(h) PROVE Len(h) \in Nat /\ DOMAIN h = 1 .. Len(h)
  BY DEF Listed

\* g is h with n turns more.
Longer(h, g, n) ==
    /\ Listed(g) /\ Len(g) = Len(h) + n
    /\ \A i \in 1 .. Len(h) : g[i] = h[i]

LEMMA AppendedIs ==
    ASSUME NEW h, Listed(h), NEW e
    PROVE  Longer(h, Append(h, e), 1) /\ Append(h, e)[Len(h) + 1] = e
<1>1. PICK T : h \in Seq(T)
  BY DEF Listed
<1> DEFINE U == T \cup {e}
<1>2. h \in Seq(U) /\ e \in U
  BY <1>1, SeqMonotonic
<1>3. /\ Append(h, e) \in Seq(U) /\ Len(Append(h, e)) = Len(h) + 1
      /\ \A i \in 1 .. Len(h) : Append(h, e)[i] = h[i]
      /\ Append(h, e)[Len(h) + 1] = e
  BY <1>2, AppendProperties
<1> HIDE DEF U
<1> QED
  BY <1>3 DEF Longer, Listed

LEMMA DrainedIs ==
    ASSUME NEW h, Listed(h), NEW q \in Seq(Nat)
    PROVE  /\ Longer(h, A!Drained(h, q), Len(q))
           /\ \A j \in 1 .. Len(q) : A!Drained(h, q)[Len(h) + j] = A!Steering(q[j])
<1>1. PICK T : h \in Seq(T)
  BY DEF Listed
<1> DEFINE told == [j \in DOMAIN q |-> A!Steering(q[j])]
           U == T \cup {A!Steering(m) : m \in Nat}
<1>2. h \in Seq(U)
  BY <1>1, SeqMonotonic
<1>3. told \in Seq(U) /\ Len(told) = Len(q) /\ DOMAIN told = 1 .. Len(q)
  <2>1. told \in [1 .. Len(q) -> U] /\ Len(q) \in Nat
    OBVIOUS
  <2> QED
    BY <2>1
<1>4. A!Drained(h, q) = h \o told
  BY DEF A!Drained
<1>5. \A j \in 1 .. Len(q) : told[j] = A!Steering(q[j])
  BY <1>3
<1> HIDE DEF told, U
<1>6. /\ h \o told \in Seq(U) /\ Len(h \o told) = Len(h) + Len(told)
      /\ \A i \in 1 .. Len(h) + Len(told) : (h \o told)[i] = IF i <= Len(h) THEN h[i] ELSE told[i - Len(h)]
  BY <1>2, <1>3, ConcatProperties
<1>7. Len(h) \in Nat /\ Len(q) \in Nat
  BY <1>1
<1> DEFINE d == A!Drained(h, q)
<1>8. /\ d \in Seq(U) /\ Len(d) = Len(h) + Len(q)
      /\ \A i \in 1 .. Len(h) + Len(q) : d[i] = IF i <= Len(h) THEN h[i] ELSE told[i - Len(h)]
  BY <1>3, <1>4, <1>6
<1> HIDE DEF d
<1>9. \A j \in 1 .. Len(q) : d[Len(h) + j] = told[j]
  <2> TAKE j \in 1 .. Len(q)
  <2>1. Len(h) + j \in 1 .. Len(h) + Len(q) /\ ~(Len(h) + j <= Len(h)) /\ (Len(h) + j) - Len(h) = j
    BY <1>7
  <2> QED
    BY <1>8, <2>1
<1>10. \A i \in 1 .. Len(h) : d[i] = h[i]
  BY <1>7, <1>8
<1> QED
  BY <1>5, <1>8, <1>9, <1>10 DEF Longer, Listed, d

\* Where messages of a kind are in a longer history.
NewIn(h, g, kind) == {i \in Len(h) + 1 .. Len(g) : g[i].kind = kind /\ g[i].text # 0}

LEMMA MessagesInLonger ==
    ASSUME NEW h, Listed(h), NEW g, NEW n \in Nat, Longer(h, g, n), NEW kind
    PROVE  /\ A!MessagesIn(g, kind) = A!MessagesIn(h, kind) \cup NewIn(h, g, kind)
           /\ \A i \in A!MessagesIn(h, kind) : i \in 1 .. Len(h) /\ g[i] = h[i]
<1>1. /\ Len(h) \in Nat /\ DOMAIN h = 1 .. Len(h)
      /\ DOMAIN g = 1 .. Len(g) /\ Len(g) = Len(h) + n /\ \A i \in 1 .. Len(h) : g[i] = h[i]
  BY ListedIs DEF Longer
<1>2. 1 .. Len(g) = (1 .. Len(h)) \cup (Len(h) + 1 .. Len(g))
  BY <1>1
<1> DEFINE In(s, i) == s[i].kind = kind /\ s[i].text # 0
<1>3. A!MessagesIn(g, kind) = {i \in 1 .. Len(g) : In(g, i)} /\ A!MessagesIn(h, kind) = {i \in 1 .. Len(h) : In(h, i)}
  BY <1>1 DEF A!MessagesIn, A!Loop
<1>4. \A i \in 1 .. Len(h) : In(g, i) <=> In(h, i)
  BY <1>1
<1>5. NewIn(h, g, kind) = {i \in Len(h) + 1 .. Len(g) : In(g, i)}
  BY DEF NewIn
<1> HIDE DEF In
<1>6. {i \in 1 .. Len(g) : In(g, i)} = {i \in 1 .. Len(h) : In(h, i)} \cup {i \in Len(h) + 1 .. Len(g) : In(g, i)}
  BY <1>2, <1>4
<1>7. \A i \in A!MessagesIn(h, kind) : i \in 1 .. Len(h) /\ g[i] = h[i]
  BY <1>1, <1>3
<1> QED
  BY <1>3, <1>5, <1>6, <1>7

\* A turn of another kind changes nothing for a kind.
LEMMA OtherKind ==
    ASSUME NEW h, Listed(h), NEW g, NEW n \in Nat, Longer(h, g, n), NEW kind,
           \A i \in Len(h) + 1 .. Len(g) : g[i].kind # kind
    PROVE  A!MessagesIn(g, kind) = A!MessagesIn(h, kind) /\ \A i \in A!MessagesIn(h, kind) : g[i] = h[i]
<1>1. NewIn(h, g, kind) = {}
  BY DEF NewIn
<1>2. A!MessagesIn(g, kind) = A!MessagesIn(h, kind) \cup NewIn(h, g, kind)
  BY MessagesInLonger
<1>3. \A i \in A!MessagesIn(h, kind) : i \in 1 .. Len(h) /\ g[i] = h[i]
  BY MessagesInLonger
<1> QED
  BY <1>1, <1>2, <1>3

\* Messages of steering in a history h and a queue q are those of given, in order.
Waits(q) == {j \in DOMAIN q : q[j] # 0}
SteeredAt(h) == A!MessagesIn(h, "steering")

SteeringKept(h, q, given) ==
    /\ \A i, j \in SteeredAt(h) : i < j => h[i].text < h[j].text
    /\ \A i \in SteeredAt(h), j \in Waits(q) : h[i].text < q[j]
    /\ \A i, j \in Waits(q) : i < j => q[i] < q[j]
    /\ \A i \in SteeredAt(h) : h[i].text \in given
    /\ \A j \in Waits(q) : q[j] \in given
    /\ \A m \in given : (\E i \in SteeredAt(h) : h[i].text = m) \/ (\E j \in Waits(q) : q[j] = m)

\* Turns that are no steering leave it so,
LEMMA SteeringStays ==
    ASSUME NEW h, Listed(h), NEW g, NEW n \in Nat, Longer(h, g, n), NEW q, NEW given,
           \A i \in Len(h) + 1 .. Len(g) : g[i].kind # "steering",
           SteeringKept(h, q, given)
    PROVE  SteeringKept(g, q, given)
<1>1. SteeredAt(g) = SteeredAt(h) /\ \A i \in SteeredAt(h) : g[i] = h[i]
  BY OtherKind DEF SteeredAt
<1> QED
  BY <1>1 DEF SteeringKept

\* so does draining the queue,
LEMMA SteeringDrained ==
    ASSUME NEW h, Listed(h), NEW q \in Seq(Nat), NEW given, SteeringKept(h, q, given)
    PROVE  SteeringKept(A!Drained(h, q), <<>>, given)
<1> DEFINE d == A!Drained(h, q)
           new == {Len(h) + j : j \in Waits(q)}
<1>1. Longer(h, d, Len(q)) /\ \A j \in 1 .. Len(q) : d[Len(h) + j] = A!Steering(q[j])
  BY DrainedIs
<1>2. Len(h) \in Nat /\ Len(q) \in Nat /\ DOMAIN q = 1 .. Len(q) /\ Len(d) = Len(h) + Len(q)
  BY <1>1, ListedIs DEF Longer
<1>3. SteeredAt(d) = SteeredAt(h) \cup NewIn(h, d, "steering")
  BY <1>1, <1>2, MessagesInLonger DEF SteeredAt
<1>4. \A i \in SteeredAt(h) : i \in 1 .. Len(h) /\ d[i] = h[i]
  BY <1>1, <1>2, MessagesInLonger DEF SteeredAt
<1> HIDE DEF d
<1>5. ASSUME NEW j \in 1 .. Len(q)
      PROVE  d[Len(h) + j].kind = "steering" /\ d[Len(h) + j].text = q[j]
  <2>1. d[Len(h) + j] = A!Steering(q[j])
    BY <1>1
  <2> QED
    BY <2>1 DEF A!Steering
<1>6. ASSUME NEW i \in NewIn(h, d, "steering")
      PROVE  i - Len(h) \in Waits(q) /\ d[i].text = q[i - Len(h)] /\ i \in Nat /\ i > Len(h)
  <2>1. i \in Len(h) + 1 .. Len(h) + Len(q) /\ d[i].text # 0
    BY <1>2 DEF NewIn
  <2>2. i - Len(h) \in 1 .. Len(q) /\ Len(h) + (i - Len(h)) = i
    BY <1>2, <2>1
  <2> QED
    BY <1>2, <1>5, <2>1, <2>2 DEF Waits
<1>7. ASSUME NEW j \in Waits(q)
      PROVE  Len(h) + j \in NewIn(h, d, "steering") /\ d[Len(h) + j].text = q[j]
  <2>1. j \in 1 .. Len(q) /\ q[j] # 0
    BY <1>2 DEF Waits
  <2>2. Len(h) + j \in Len(h) + 1 .. Len(d)
    BY <1>2, <2>1
  <2> QED
    <3>1. d[Len(h) + j].kind = "steering" /\ d[Len(h) + j].text = q[j]
      BY <1>5, <2>1
    <3>2. d[Len(h) + j].text # 0
      BY <2>1, <3>1
    <3> DEFINE k == Len(h) + j
    <3>3. k \in Len(h) + 1 .. Len(d) /\ d[k].kind = "steering" /\ d[k].text # 0
      BY <2>2, <3>1, <3>2
    <3> HIDE DEF k
    <3>4. k \in NewIn(h, d, "steering")
      BY <3>3 DEF NewIn
    <3> QED
      BY <3>1, <3>4 DEF k
<1>8. ASSUME NEW i \in SteeredAt(d), NEW j \in SteeredAt(d), i < j
      PROVE  d[i].text < d[j].text
  <2>1. CASE j \in SteeredAt(h)
    <3>1. i \in SteeredAt(h)
      BY <1>2, <1>3, <1>4, <1>6, <1>8, <2>1
    <3> QED
      BY <1>4, <1>8, <2>1, <3>1 DEF SteeringKept
  <2>2. CASE i \in SteeredAt(h) /\ j \in NewIn(h, d, "steering")
    BY <1>4, <1>6, <2>2 DEF SteeringKept
  <2>3. CASE i \in NewIn(h, d, "steering") /\ j \in NewIn(h, d, "steering")
    <3>1. i - Len(h) < j - Len(h)
      BY <1>2, <1>8, <2>3 DEF NewIn
    <3> QED
      BY <1>6, <2>3, <3>1 DEF SteeringKept
  <2> QED
    BY <1>3, <2>1, <2>2, <2>3
<1>9. \A i \in SteeredAt(d) : d[i].text \in given
  BY <1>3, <1>4, <1>6 DEF SteeringKept
<1>10. ASSUME NEW m \in given
       PROVE  \E i \in SteeredAt(d) : d[i].text = m
  <2>1. (\E i \in SteeredAt(h) : h[i].text = m) \/ (\E j \in Waits(q) : q[j] = m)
    BY DEF SteeringKept
  <2> QED
    BY <1>3, <1>4, <1>7, <2>1
<1>11. Waits(<<>>) = {}
  BY DEF Waits
<1>12. SteeringKept(d, <<>>, given)
  BY <1>8, <1>9, <1>10, <1>11 DEF SteeringKept
<1> QED
  BY <1>12 DEF d

\* and a message more at the end of the queue.
LEMMA SteeringQueued ==
    ASSUME NEW h, NEW q \in Seq(Nat), NEW given \in SUBSET Nat, SteeringKept(h, q, given),
           NEW m \in Nat, m # 0 => \A g \in given : g < m
    PROVE  SteeringKept(h, Append(q, m), IF m = 0 THEN given ELSE given \cup {m})
<1> DEFINE p == Append(q, m)
           end == IF m = 0 THEN {} ELSE {Len(q) + 1}
<1>1. /\ Len(q) \in Nat /\ DOMAIN q = 1 .. Len(q) /\ DOMAIN p = 1 .. Len(q) + 1
      /\ p[Len(q) + 1] = m /\ \A j \in 1 .. Len(q) : p[j] = q[j]
  OBVIOUS
<1> HIDE DEF p
<1>2. Waits(p) = Waits(q) \cup end /\ \A j \in Waits(q) : j \in 1 .. Len(q) /\ p[j] = q[j]
  <2>1. 1 .. Len(q) + 1 = (1 .. Len(q)) \cup {Len(q) + 1}
    BY <1>1
  <2> QED
    BY <1>1, <2>1 DEF Waits
<1>3. \A j \in end : m # 0 /\ j = Len(q) + 1 /\ p[j] = m
  BY <1>1
<1>4. ASSUME NEW i \in Waits(p), NEW j \in Waits(p), i < j
      PROVE  p[i] < p[j]
  <2>1. CASE j \in Waits(q)
    <3>1. i \in Waits(q)
      BY <1>1, <1>2, <1>3, <1>4, <2>1
    <3> QED
      BY <1>2, <1>4, <2>1, <3>1 DEF SteeringKept
  <2>2. CASE j \in end
    <3>1. i \in Waits(q)
      BY <1>1, <1>2, <1>3, <1>4, <2>2
    <3> QED
      BY <1>2, <1>3, <2>2, <3>1 DEF SteeringKept
  <2> QED
    BY <1>2, <2>1, <2>2
<1>5. \A i \in SteeredAt(h), j \in Waits(p) : h[i].text < p[j]
  BY <1>2, <1>3 DEF SteeringKept
<1>6. CASE m = 0
  BY <1>2, <1>4, <1>5, <1>6 DEF SteeringKept, p
<1>7. CASE m # 0
  <2>1. Len(q) + 1 \in Waits(p) /\ p[Len(q) + 1] = m
    BY <1>1, <1>2, <1>7
  <2>2. \A x \in given \cup {m} : (\E i \in SteeredAt(h) : h[i].text = x) \/ (\E j \in Waits(p) : p[j] = x)
    BY <1>2, <2>1 DEF SteeringKept
  <2>3. \A j \in Waits(p) : p[j] \in given \cup {m}
    BY <1>2, <1>3 DEF SteeringKept
  <2>4. \A i \in SteeredAt(h) : h[i].text \in given \cup {m}
    BY DEF SteeringKept
  <2> QED
    BY <1>4, <1>5, <1>7, <2>2, <2>3, <2>4 DEF SteeringKept, p
<1> QED
  BY <1>6, <1>7

\* Inputs and follow-ups: the follow-ups among the turns h and in the queue f are in the
\* order in which they were submitted.
UsersAt(h) == A!MessagesIn(h, "user")
FollowedAt(h, sub) == {i \in UsersAt(h) : sub[h[i].text] = "follow_up"}
Submissions == {"steer", "follow_up", "input"}

OrderKept(h, f, sub) ==
    /\ \A i \in UsersAt(h) : h[i].text \in 1 .. Len(sub)
    /\ \A j \in DOMAIN f : f[j] \in 1 .. Len(sub) /\ sub[f[j]] = "follow_up"
    /\ \A i, j \in FollowedAt(h, sub) : i < j => h[i].text < h[j].text
    /\ \A i \in FollowedAt(h, sub), j \in DOMAIN f : h[i].text < f[j]
    /\ \A i, j \in DOMAIN f : i < j => f[i] < f[j]

LEMMA OrderStays ==
    ASSUME NEW h, Listed(h), NEW g, NEW n \in Nat, Longer(h, g, n), NEW f, NEW sub,
           \A i \in Len(h) + 1 .. Len(g) : g[i].kind # "user",
           OrderKept(h, f, sub)
    PROVE  OrderKept(g, f, sub) /\ UsersAt(g) = UsersAt(h)
<1>1. UsersAt(g) = UsersAt(h) /\ \A i \in UsersAt(h) : g[i] = h[i]
  BY OtherKind DEF UsersAt
<1>2. FollowedAt(g, sub) = FollowedAt(h, sub)
  BY <1>1 DEF FollowedAt
<1>3. \A i \in FollowedAt(h, sub) : g[i] = h[i]
  BY <1>1 DEF FollowedAt
<1> QED
  BY <1>1, <1>2, <1>3 DEF OrderKept

\* Another submission, of whatever kind.
LEMMA OrderSubmitted ==
    ASSUME NEW h, NEW f, NEW sub \in Seq(Submissions), NEW x \in Submissions, OrderKept(h, f, sub)
    PROVE  OrderKept(h, f, Append(sub, x))
<1> DEFINE s == Append(sub, x)
<1>1. Len(sub) \in Nat /\ Len(s) = Len(sub) + 1 /\ \A m \in 1 .. Len(sub) : s[m] = sub[m]
  OBVIOUS
<1> HIDE DEF s
<1>2. \A m \in 1 .. Len(sub) : m \in 1 .. Len(s)
  BY <1>1
<1>3. FollowedAt(h, s) = FollowedAt(h, sub)
  BY <1>1 DEF FollowedAt, OrderKept
<1>4. \A i \in UsersAt(h) : h[i].text \in 1 .. Len(s)
  BY <1>2 DEF OrderKept
<1>5. \A j \in DOMAIN f : f[j] \in 1 .. Len(s) /\ s[f[j]] = "follow_up"
  BY <1>1, <1>2 DEF OrderKept
<1>6. OrderKept(h, f, s)
  BY <1>3, <1>4, <1>5 DEF OrderKept
<1> QED
  BY <1>6 DEF s

LEMMA OrderQueued ==
    ASSUME NEW h, Listed(h), NEW f \in Seq(Nat), NEW sub \in Seq(Submissions), OrderKept(h, f, sub)
    PROVE  OrderKept(h, Append(f, Len(sub) + 1), Append(sub, "follow_up"))
<1> DEFINE s == Append(sub, "follow_up")
           m == Len(sub) + 1
           p == Append(f, m)
<1>1. OrderKept(h, f, s)
  BY OrderSubmitted DEF Submissions
<1>2. m \in Nat /\ Len(sub) \in Nat /\ Len(s) = m /\ s[m] = "follow_up"
  OBVIOUS
<1>3. /\ Len(f) \in Nat /\ DOMAIN f = 1 .. Len(f) /\ DOMAIN p = 1 .. Len(f) + 1
      /\ p[Len(f) + 1] = m /\ \A j \in 1 .. Len(f) : p[j] = f[j]
  OBVIOUS
<1>4. \A i \in UsersAt(h) : h[i].text \in 1 .. Len(sub)
  BY DEF OrderKept
<1>5. \A j \in DOMAIN f : f[j] \in 1 .. Len(sub)
  BY DEF OrderKept
<1> HIDE DEF s, p
<1>6. \A j \in DOMAIN p : (j \in DOMAIN f /\ p[j] = f[j]) \/ (j = Len(f) + 1 /\ p[j] = m)
  BY <1>3
<1>7. \A j \in DOMAIN p : p[j] \in 1 .. Len(s) /\ s[p[j]] = "follow_up"
  BY <1>1, <1>2, <1>6 DEF OrderKept
<1>8. \A i \in FollowedAt(h, s) : h[i].text \in 1 .. Len(sub)
  BY <1>4 DEF FollowedAt
<1>9. ASSUME NEW i \in FollowedAt(h, s), NEW j \in DOMAIN p PROVE h[i].text < p[j]
  <2>1. CASE j \in DOMAIN f /\ p[j] = f[j]
    BY <1>1, <2>1 DEF OrderKept
  <2>2. CASE p[j] = m
    BY <1>2, <1>8, <2>2
  <2> QED
    BY <1>6, <2>1, <2>2
<1>10. ASSUME NEW i \in DOMAIN p, NEW j \in DOMAIN p, i < j PROVE p[i] < p[j]
  <2>1. i \in DOMAIN f /\ p[i] = f[i]
    BY <1>3, <1>6, <1>10
  <2>2. CASE j \in DOMAIN f /\ p[j] = f[j]
    BY <1>1, <1>10, <2>1, <2>2 DEF OrderKept
  <2>3. CASE p[j] = m
    BY <1>2, <1>5, <2>1, <2>3
  <2> QED
    BY <1>6, <2>2, <2>3
<1>11. OrderKept(h, p, s)
  BY <1>1, <1>7, <1>9, <1>10 DEF OrderKept
<1> QED
  BY <1>11 DEF p, s

\* A turn of the user more.
LEMMA UserAppended ==
    ASSUME NEW h, Listed(h), NEW m \in Nat \ {0}
    PROVE  LET g == Append(h, A!User(m))
           IN  /\ UsersAt(g) = UsersAt(h) \cup {Len(h) + 1} /\ Len(h) \in Nat
               /\ g[Len(h) + 1].text = m
               /\ \A i \in UsersAt(h) : i \in 1 .. Len(h) /\ g[i] = h[i]
<1> DEFINE g == Append(h, A!User(m))
<1>1. Longer(h, g, 1) /\ g[Len(h) + 1] = A!User(m)
  BY AppendedIs
<1>2. Len(h) \in Nat /\ Len(g) = Len(h) + 1
  BY <1>1, ListedIs DEF Longer
<1>3. /\ UsersAt(g) = UsersAt(h) \cup NewIn(h, g, "user")
      /\ \A i \in UsersAt(h) : i \in 1 .. Len(h) /\ g[i] = h[i]
  BY <1>1, MessagesInLonger DEF UsersAt
<1> HIDE DEF g
<1>4. g[Len(h) + 1].kind = "user" /\ g[Len(h) + 1].text = m
  BY <1>1 DEF A!User
<1>5. Len(h) + 1 .. Len(g) = {Len(h) + 1}
  BY <1>2
<1>6. NewIn(h, g, "user") = {Len(h) + 1}
  BY <1>4, <1>5 DEF NewIn
<1> QED
  BY <1>2, <1>3, <1>4, <1>6 DEF g

LEMMA OrderInput ==
    ASSUME NEW h, Listed(h), NEW f, NEW sub \in Seq(Submissions), OrderKept(h, f, sub)
    PROVE  OrderKept(Append(h, A!User(Len(sub) + 1)), f, Append(sub, "input"))
<1> DEFINE s == Append(sub, "input")
           m == Len(sub) + 1
           g == Append(h, A!User(m))
<1>1. OrderKept(h, f, s)
  BY OrderSubmitted DEF Submissions
<1>2. m \in Nat \ {0} /\ Len(s) = m /\ s[m] = "input"
  OBVIOUS
<1>3. /\ UsersAt(g) = UsersAt(h) \cup {Len(h) + 1} /\ g[Len(h) + 1].text = m
      /\ \A i \in UsersAt(h) : g[i] = h[i]
  BY <1>2, UserAppended
<1> HIDE DEF s, g, m
<1>4. FollowedAt(g, s) = FollowedAt(h, s)
  BY <1>2, <1>3 DEF FollowedAt
<1>5. \A i \in FollowedAt(h, s) : g[i] = h[i]
  BY <1>3 DEF FollowedAt
<1>6. \A i \in UsersAt(g) : g[i].text \in 1 .. Len(s)
  BY <1>1, <1>2, <1>3 DEF OrderKept
<1>7. OrderKept(g, f, s)
  BY <1>1, <1>4, <1>5, <1>6 DEF OrderKept
<1> QED
  BY <1>7 DEF g, s, m

\* The first of the queue is dropped, or becomes a turn.
LEMMA OrderNext ==
    ASSUME NEW h, Listed(h), NEW f \in Seq(Nat), NEW sub \in Seq(Submissions), OrderKept(h, f, sub), f # <<>>
    PROVE  /\ OrderKept(h, Tail(f), sub)
           /\ OrderKept(Append(h, A!User(f[1])), Tail(f), sub)
<1> DEFINE t == Tail(f)
           m == f[1]
           g == Append(h, A!User(m))
<1>1. /\ Len(f) \in Nat \ {0} /\ DOMAIN f = 1 .. Len(f) /\ DOMAIN t = 1 .. Len(f) - 1
      /\ \A j \in DOMAIN t : j + 1 \in DOMAIN f /\ t[j] = f[j + 1]
  OBVIOUS
<1>2. 1 \in DOMAIN f /\ Len(sub) \in Nat
  BY <1>1
<1>3. m \in 1 .. Len(sub) /\ m \in Nat \ {0} /\ sub[m] = "follow_up"
  BY <1>2 DEF OrderKept
<1> HIDE DEF t, m, g
<1>4. \A j \in DOMAIN t : t[j] \in 1 .. Len(sub) /\ sub[t[j]] = "follow_up"
  BY <1>1 DEF OrderKept
<1>5. ASSUME NEW i \in DOMAIN t, NEW j \in DOMAIN t, i < j
      PROVE  t[i] < t[j]
  <2>1. i + 1 \in DOMAIN f /\ j + 1 \in DOMAIN f /\ i + 1 < j + 1
    BY <1>1, <1>5
  <2> QED
    BY <1>1, <2>1 DEF OrderKept
<1>6. ASSUME NEW j \in DOMAIN t
      PROVE  m < t[j]
  <2>1. 1 < j + 1 /\ j + 1 \in DOMAIN f /\ 1 \in DOMAIN f
    BY <1>1
  <2>2. \A a, b \in DOMAIN f : a < b => f[a] < f[b]
    BY DEF OrderKept
  <2>3. f[1] < f[j + 1]
    BY <2>1, <2>2
  <2> QED
    BY <1>1, <2>3 DEF m
<1>7. \A i \in FollowedAt(h, sub), j \in DOMAIN t : h[i].text < t[j]
  BY <1>1 DEF OrderKept
<1>8. \A i \in FollowedAt(h, sub) : h[i].text < m
  BY <1>2 DEF OrderKept, m
<1>9. OrderKept(h, t, sub)
  BY <1>4, <1>5, <1>7 DEF OrderKept
<1>10. /\ UsersAt(g) = UsersAt(h) \cup {Len(h) + 1} /\ g[Len(h) + 1].text = m /\ Len(h) \in Nat
       /\ \A i \in UsersAt(h) : i \in 1 .. Len(h) /\ g[i] = h[i]
  BY <1>3, UserAppended DEF g
<1>11. /\ FollowedAt(g, sub) = FollowedAt(h, sub) \cup {Len(h) + 1}
       /\ \A i \in FollowedAt(h, sub) : i \in 1 .. Len(h) /\ g[i] = h[i]
  BY <1>3, <1>10 DEF FollowedAt
<1>12. ASSUME NEW i \in FollowedAt(g, sub), NEW j \in FollowedAt(g, sub), i < j
       PROVE  g[i].text < g[j].text
  <2>1. i \in FollowedAt(h, sub)
    BY <1>10, <1>11, <1>12
  <2>2. CASE j \in FollowedAt(h, sub)
    BY <1>11, <1>12, <2>1, <2>2 DEF OrderKept
  <2>3. CASE j = Len(h) + 1
    BY <1>8, <1>10, <1>11, <2>1, <2>3
  <2> QED
    BY <1>11, <2>2, <2>3
<1>13. \A i \in FollowedAt(g, sub), j \in DOMAIN t : g[i].text < t[j]
  BY <1>6, <1>7, <1>10, <1>11
<1>14. \A i \in UsersAt(g) : g[i].text \in 1 .. Len(sub)
  BY <1>3, <1>10 DEF OrderKept
<1>15. OrderKept(g, t, sub)
  BY <1>4, <1>5, <1>12, <1>13, <1>14 DEF OrderKept
<1> QED
  BY <1>9, <1>15 DEF g, t, m

\* Counting turns of the user and submissions.
LEMMA UsersCounted ==
    ASSUME NEW h, Listed(h)
    PROVE  /\ IsFiniteSet(UsersAt(h)) /\ Cardinality(UsersAt(h)) \in Nat
           /\ \A m \in Nat \ {0} : Cardinality(UsersAt(Append(h, A!User(m)))) = Cardinality(UsersAt(h)) + 1
<1>1. Len(h) \in Nat /\ DOMAIN h = 1 .. Len(h)
  BY ListedIs
<1>2. UsersAt(h) \subseteq 1 .. Len(h) /\ IsFiniteSet(1 .. Len(h))
  BY <1>1, FS_Interval DEF UsersAt, A!MessagesIn
<1>3. IsFiniteSet(UsersAt(h)) /\ Cardinality(UsersAt(h)) \in Nat
  BY <1>2, FS_Subset, FS_CardinalityType
<1>4. ASSUME NEW m \in Nat \ {0}
      PROVE  Cardinality(UsersAt(Append(h, A!User(m)))) = Cardinality(UsersAt(h)) + 1
  <2>1. UsersAt(Append(h, A!User(m))) = UsersAt(h) \cup {Len(h) + 1}
    BY UserAppended
  <2>2. Len(h) + 1 \notin UsersAt(h)
    BY <1>1, <1>2
  <2> QED
    BY <1>3, <2>1, <2>2, FS_AddElement
<1> QED
  BY <1>3, <1>4

Places(sub, kinds) == {i \in DOMAIN sub : sub[i] \in kinds}

PlacesGrow(sub, s, x, kinds) ==
    /\ Places(sub, kinds) \in SUBSET Nat /\ \A i \in Places(sub, kinds) : i < Len(sub) + 1
    /\ Cardinality(Places(sub, kinds)) \in Nat
    /\ x \in kinds => /\ Places(s, kinds) = Places(sub, kinds) \cup {Len(sub) + 1}
                      /\ Cardinality(Places(s, kinds)) = Cardinality(Places(sub, kinds)) + 1
    /\ x \notin kinds => Places(s, kinds) = Places(sub, kinds)

LEMMA PlacesCounted ==
    ASSUME NEW sub \in Seq(Submissions), NEW x \in Submissions, NEW kinds
    PROVE  PlacesGrow(sub, Append(sub, x), x, kinds)
<1> DEFINE s == Append(sub, x)
<1>1. /\ Len(sub) \in Nat /\ DOMAIN sub = 1 .. Len(sub) /\ DOMAIN s = (1 .. Len(sub)) \cup {Len(sub) + 1}
      /\ s[Len(sub) + 1] = x /\ \A i \in 1 .. Len(sub) : s[i] = sub[i]
  OBVIOUS
<1> HIDE DEF s
<1>2. Places(sub, kinds) \subseteq 1 .. Len(sub)
  BY <1>1 DEF Places
<1>3. /\ x \in kinds => Places(s, kinds) = Places(sub, kinds) \cup {Len(sub) + 1}
      /\ x \notin kinds => Places(s, kinds) = Places(sub, kinds)
  <2>1. Len(sub) + 1 \in Places(s, kinds) <=> x \in kinds
    BY <1>1 DEF Places
  <2>2. \A i \in 1 .. Len(sub) : i \in Places(s, kinds) <=> i \in Places(sub, kinds)
    BY <1>1 DEF Places
  <2>3. Places(s, kinds) \subseteq (1 .. Len(sub)) \cup {Len(sub) + 1}
    BY <1>1 DEF Places
  <2> QED
    BY <1>2, <2>1, <2>2, <2>3
<1>4. IsFiniteSet(1 .. Len(sub))
  <2>1. 1 \in Int /\ Len(sub) \in Int
    BY <1>1
  <2> QED
    BY <2>1, FS_Interval
<1>5. IsFiniteSet(Places(sub, kinds)) /\ Cardinality(Places(sub, kinds)) \in Nat
  <2>1. Places(sub, kinds) \in SUBSET (1 .. Len(sub))
    BY <1>2
  <2>2. IsFiniteSet(Places(sub, kinds))
    BY <1>4, <2>1, FS_Subset
  <2> QED
    BY <2>2, FS_CardinalityType
<1>6. Len(sub) + 1 \notin Places(sub, kinds)
  BY <1>1, <1>2
<1>7. Cardinality(Places(sub, kinds) \cup {Len(sub) + 1}) = Cardinality(Places(sub, kinds)) + 1
  BY <1>5, <1>6, FS_AddElement
<1>8. Places(sub, kinds) \in SUBSET Nat /\ \A i \in Places(sub, kinds) : i < Len(sub) + 1
  BY <1>1, <1>2
<1>9. PlacesGrow(sub, s, x, kinds)
  BY <1>3, <1>5, <1>7, <1>8 DEF PlacesGrow
<1> QED
  BY <1>9 DEF s

\* What the queues and the history have been given, however the session got there.
Asks == {"input", "follow_up"}
KeptTypes ==
    /\ Listed(history) /\ steering \in Seq(Nat) /\ followups \in Seq(Nat)
    /\ submitted \in Seq(Submissions) /\ turns \in Nat /\ config.maxTurns \in Nat

SteerInv == SteeringKept(history, steering, Places(submitted, {"steer"}))
OrderInv == OrderKept(history, followups, submitted)
CountInv ==
    Cardinality(UsersAt(history)) + Len(followups) + A!Refused = Cardinality(Places(submitted, Asks))

KeptInv == KeptTypes /\ SteerInv /\ OrderInv /\ CountInv

\* A submission that only waits.
LEMMA SteerKept == ASSUME KeptInv, A!Steer PROVE KeptInv'
<1> DEFINE m == Len(submitted) + 1
<1>1. /\ steering' = Append(steering, m) /\ submitted' = Append(submitted, "steer")
      /\ UNCHANGED <<history, followups, turns, config>>
  BY DEF A!Steer, A!NewMessage
<1>2. KeptTypes /\ m \in Nat \ {0} /\ "steer" \in Submissions
  BY DEF KeptInv, KeptTypes, Submissions
<1>3. KeptTypes'
  BY <1>1, <1>2 DEF KeptTypes
<1>4. SteerInv'
  <2> DEFINE g == Places(submitted, {"steer"})
  <2>0. PlacesGrow(submitted, submitted', "steer", {"steer"})
    BY <1>1, <1>2, PlacesCounted DEF KeptTypes
  <2>1. g \in SUBSET Nat /\ (\A i \in g : i < m) /\ Places(submitted', {"steer"}) = g \cup {m}
    BY <2>0 DEF PlacesGrow
  <2> HIDE DEF g, m
  <2>2. SteeringKept(history, Append(steering, m), g \cup {m})
    <3>1. SteeringKept(history, Append(steering, m), IF m = 0 THEN g ELSE g \cup {m})
      BY <1>2, <2>1, SteeringQueued DEF KeptInv, KeptTypes, SteerInv, g
    <3> QED
      BY <1>2, <3>1
  <2> QED
    BY <1>1, <2>1, <2>2 DEF SteerInv, m
<1>5. OrderInv'
  BY <1>1, <1>2, OrderSubmitted DEF KeptInv, KeptTypes, OrderInv
<1>6. CountInv'
  <2>0. PlacesGrow(submitted, submitted', "steer", Asks)
    BY <1>1, <1>2, PlacesCounted DEF KeptTypes
  <2>1. Cardinality(Places(submitted', Asks)) = Cardinality(Places(submitted, Asks))
    BY <2>0 DEF PlacesGrow, Asks
  <2> QED
    BY <1>1, <2>1 DEF KeptInv, CountInv, A!Refused
<1> QED
  BY <1>3, <1>4, <1>5, <1>6 DEF KeptInv

LEMMA FollowUpKept == ASSUME KeptInv, A!FollowUp PROVE KeptInv'
<1>1. /\ followups' = Append(followups, Len(submitted) + 1) /\ submitted' = Append(submitted, "follow_up")
      /\ UNCHANGED <<history, steering, turns, config>>
  BY DEF A!FollowUp, A!NewMessage
<1>2. KeptTypes /\ "follow_up" \in Submissions /\ Len(submitted) + 1 \in Nat
  BY DEF KeptInv, KeptTypes, Submissions
<1>3. KeptTypes' /\ Len(followups') = Len(followups) + 1 /\ Len(followups) \in Nat
  BY <1>1, <1>2 DEF KeptTypes
<1>4. SteerInv'
  <2>0. PlacesGrow(submitted, submitted', "follow_up", {"steer"})
    BY <1>1, <1>2, PlacesCounted DEF KeptTypes
  <2>1. Places(submitted', {"steer"}) = Places(submitted, {"steer"})
    BY <2>0 DEF PlacesGrow
  <2> QED
    BY <1>1, <2>1 DEF KeptInv, SteerInv
<1>5. OrderInv'
  BY <1>1, <1>2, OrderQueued DEF KeptInv, KeptTypes, OrderInv
<1>6. CountInv'
  <2>0. PlacesGrow(submitted, submitted', "follow_up", Asks)
    BY <1>1, <1>2, PlacesCounted DEF KeptTypes
  <2>1. /\ Cardinality(Places(submitted', Asks)) = Cardinality(Places(submitted, Asks)) + 1
        /\ Cardinality(Places(submitted, Asks)) \in Nat
    BY <2>0 DEF PlacesGrow, Asks
  <2>2. A!Refused \in Nat /\ Cardinality(UsersAt(history)) \in Nat
    BY <1>2, UsersCounted DEF KeptTypes, A!Refused
  <2> QED
    BY <1>1, <1>3, <2>1, <2>2 DEF KeptInv, CountInv, A!Refused
<1> QED
  BY <1>3, <1>4, <1>5, <1>6 DEF KeptInv

\* A message m begins an input, or is refused by the turn limit.
Started(m) ==
    /\ Listed(history') /\ steering' \in Seq(Nat) /\ turns' \in Nat
    /\ SteeringKept(history', steering', Places(submitted, {"steer"}))
    /\ \A f, sub : OrderKept(history, f, sub) /\ OrderKept(Append(history, A!User(m)), f, sub)
                     => OrderKept(history', f, sub)
    /\ Cardinality(UsersAt(history')) + A!Refused' = Cardinality(UsersAt(history)) + A!Refused + 1
    /\ Cardinality(UsersAt(history)) \in Nat /\ Cardinality(UsersAt(history')) \in Nat
    /\ A!Refused \in Nat /\ A!Refused' \in Nat

LEMMA StartKept ==
    ASSUME KeptTypes, SteerInv, NEW m \in Nat \ {0}, A!StartInput(m), UNCHANGED config
    PROVE  Started(m)
<1> DEFINE refused == config.maxTurns > 0 /\ turns + 1 > config.maxTurns
           g == Append(history, A!User(m))
<1>1. /\ Listed(history) /\ steering \in Seq(Nat) /\ turns \in Nat /\ config.maxTurns \in Nat
      /\ turns' = turns + 1 /\ config' = config
  BY DEF KeptTypes, A!StartInput
<1>2. A!Refused \in Nat /\ A!Refused' \in Nat /\ A!Refused' = IF refused THEN A!Refused + 1 ELSE A!Refused
  BY <1>1 DEF A!Refused
<1>3. CASE refused
  <2>1. UNCHANGED <<history, steering>>
    BY <1>3 DEF A!StartInput
  <2>2. Cardinality(UsersAt(history)) \in Nat
    BY <1>1, UsersCounted
  <2> HIDE DEF refused
  <2> QED
    BY <1>1, <1>2, <1>3, <2>1, <2>2 DEF Started, SteerInv
<1>4. CASE ~refused
  <2>1. history' = A!Drained(g, steering) /\ steering' = <<>>
    BY <1>4 DEF A!StartInput
  <2>2. Longer(history, g, 1) /\ g[Len(history) + 1] = A!User(m) /\ Listed(g)
    BY <1>1, AppendedIs DEF Longer
  <2>3. Longer(g, history', Len(steering)) /\ Len(steering) \in Nat /\ Listed(history')
    <3>1. Longer(g, A!Drained(g, steering), Len(steering))
      BY <1>1, <2>2, DrainedIs
    <3>2. Len(steering) \in Nat
      BY <1>1
    <3> QED
      BY <2>1, <3>1, <3>2 DEF Longer
  <2>4. \A i \in Len(history) + 1 .. Len(g) : g[i].kind # "steering"
    <3>1. Len(history) \in Nat /\ Len(g) = Len(history) + 1
      BY <1>1, <2>2, ListedIs DEF Longer
    <3>2. g[Len(history) + 1].kind = "user"
      BY <2>2 DEF A!User
    <3> HIDE DEF g
    <3>3. \A i \in Len(history) + 1 .. Len(g) : i = Len(history) + 1
      BY <3>1
    <3> QED
      BY <3>2, <3>3
  <2>5. \A i \in Len(g) + 1 .. Len(history') : history'[i].kind # "user"
    <3>1. \A j \in 1 .. Len(steering) : history'[Len(g) + j] = A!Steering(steering[j])
      BY <1>1, <2>1, <2>2, DrainedIs
    <3>2. Len(g) \in Nat /\ Len(history') = Len(g) + Len(steering)
      BY <2>2, <2>3, ListedIs DEF Longer
    <3> HIDE DEF g
    <3> TAKE i \in Len(g) + 1 .. Len(history')
    <3>3. i - Len(g) \in 1 .. Len(steering) /\ Len(g) + (i - Len(g)) = i
      BY <2>3, <3>2
    <3>4. history'[i] = A!Steering(steering[i - Len(g)])
      BY <3>1, <3>3
    <3> QED
      BY <3>4 DEF A!Steering
  <2> HIDE DEF g, refused
  <2>6. SteeringKept(history', steering', Places(submitted, {"steer"}))
    <3>1. SteeringKept(g, steering, Places(submitted, {"steer"}))
      BY <1>1, <2>2, <2>4, SteeringStays DEF SteerInv
    <3> QED
      BY <1>1, <2>1, <2>2, <3>1, SteeringDrained
  <2>7. ASSUME NEW f, NEW sub, OrderKept(g, f, sub)
        PROVE  OrderKept(history', f, sub) /\ UsersAt(history') = UsersAt(g)
    BY <2>2, <2>3, <2>5, <2>7, OrderStays
  <2>8. UsersAt(history') = UsersAt(g)
    BY <2>2, <2>3, <2>5, OtherKind DEF UsersAt
  <2>9. /\ Cardinality(UsersAt(g)) = Cardinality(UsersAt(history)) + 1
        /\ Cardinality(UsersAt(history)) \in Nat
    BY <1>1, UsersCounted DEF g
  <2>10. \A f, sub : OrderKept(history, f, sub) /\ OrderKept(Append(history, A!User(m)), f, sub)
                       => OrderKept(history', f, sub)
    BY <2>7 DEF g
  <2>11. steering' \in Seq(Nat)
    BY <2>1
  <2> QED
    BY <1>1, <1>2, <1>4, <2>3, <2>6, <2>8, <2>9, <2>10, <2>11 DEF Started
<1> QED
  BY <1>3, <1>4

LEMMA InputKept == ASSUME KeptInv, A!ProcessInput PROVE KeptInv'
<1> DEFINE m == Len(submitted) + 1
<1>1. A!StartInput(m) /\ submitted' = Append(submitted, "input") /\ UNCHANGED <<config, followups>>
  BY DEF A!ProcessInput, A!NewMessage
<1>2. KeptTypes /\ SteerInv /\ m \in Nat \ {0} /\ "input" \in Submissions
  BY DEF KeptInv, KeptTypes, Submissions
<1>3. Started(m)
  BY <1>1, <1>2, StartKept
<1>4. KeptTypes' /\ Len(followups) \in Nat
  BY <1>1, <1>2, <1>3 DEF Started, KeptTypes
<1>5. SteerInv'
  <2>1. PlacesGrow(submitted, submitted', "input", {"steer"})
    BY <1>1, <1>2, PlacesCounted DEF KeptTypes
  <2>2. Places(submitted', {"steer"}) = Places(submitted, {"steer"})
    BY <2>1 DEF PlacesGrow
  <2> QED
    BY <1>3, <2>2 DEF Started, SteerInv
<1>6. OrderInv'
  <2>1. OrderKept(history, followups, submitted')
    BY <1>1, <1>2, OrderSubmitted DEF KeptInv, KeptTypes, OrderInv
  <2>2. OrderKept(Append(history, A!User(m)), followups, submitted')
    BY <1>1, <1>2, OrderInput DEF KeptInv, KeptTypes, OrderInv
  <2> QED
    BY <1>1, <1>3, <2>1, <2>2 DEF Started, OrderInv
<1>7. CountInv'
  <2>1. PlacesGrow(submitted, submitted', "input", Asks)
    BY <1>1, <1>2, PlacesCounted DEF KeptTypes
  <2>2. /\ Cardinality(Places(submitted', Asks)) = Cardinality(Places(submitted, Asks)) + 1
        /\ Cardinality(Places(submitted, Asks)) \in Nat
    BY <2>1 DEF PlacesGrow, Asks
  <2>3. /\ Cardinality(UsersAt(history')) + A!Refused' = Cardinality(UsersAt(history)) + A!Refused + 1
        /\ Cardinality(UsersAt(history)) \in Nat /\ Cardinality(UsersAt(history')) \in Nat
        /\ A!Refused \in Nat /\ A!Refused' \in Nat
    BY <1>3 DEF Started
  <2>4. CountInv
    BY DEF KeptInv
  <2>5. Cardinality(UsersAt(history')) + Len(followups') + A!Refused' = Cardinality(Places(submitted', Asks))
    <3> DEFINE users == Cardinality(UsersAt(history))
               later == Cardinality(UsersAt(history'))
               asks == Cardinality(Places(submitted, Asks))
               queue == Len(followups)
    <3>1. /\ later + A!Refused' = users + A!Refused + 1 /\ users + queue + A!Refused = asks
          /\ {users, later, A!Refused, A!Refused', asks, queue} \subseteq Nat
      BY <1>4, <2>2, <2>3, <2>4 DEF CountInv
    <3> HIDE DEF users, later, asks, queue
    <3>2. later + queue + A!Refused' = asks + 1
      BY <3>1
    <3> QED
      BY <1>1, <2>2, <3>2 DEF users, later, asks, queue
  <2> QED
    BY <2>5 DEF CountInv
<1> QED
  BY <1>4, <1>5, <1>6, <1>7 DEF KeptInv

LEMMA EndInputKept == ASSUME KeptInv, A!EndInput PROVE KeptInv'
<1> DEFINE m == followups[1]
<1>1. UNCHANGED <<config, submitted>> /\ KeptTypes /\ SteerInv
  BY DEF A!EndInput, KeptInv
<1>2. CASE followups = <<>>
  <2>1. UNCHANGED <<history, steering, turns, followups>>
    BY <1>2 DEF A!EndInput
  <2> QED
    BY <1>1, <2>1 DEF KeptInv, KeptTypes, SteerInv, OrderInv, CountInv, A!Refused
<1>3. CASE followups # <<>>
  <2>1. A!StartInput(m) /\ followups' = Tail(followups)
    BY <1>3 DEF A!EndInput
  <2>2. /\ Len(followups) \in Nat /\ Len(Tail(followups)) = Len(followups) - 1
        /\ Tail(followups) \in Seq(Nat) /\ 1 \in DOMAIN followups
    BY <1>1, <1>3 DEF KeptTypes
  <2>3. m \in Nat \ {0}
    BY <2>2 DEF KeptInv, OrderInv, OrderKept
  <2>4. Started(m)
    BY <1>1, <2>1, <2>3, StartKept
  <2>5. KeptTypes' /\ SteerInv'
    BY <1>1, <2>1, <2>2, <2>4 DEF Started, KeptTypes, SteerInv
  <2>6. OrderInv'
    <3>1. /\ OrderKept(history, Tail(followups), submitted)
          /\ OrderKept(Append(history, A!User(m)), Tail(followups), submitted)
      BY <1>1, <1>3, OrderNext DEF KeptInv, KeptTypes, OrderInv
    <3> HIDE DEF m
    <3> QED
      BY <1>1, <2>1, <2>4, <3>1 DEF Started, OrderInv
  <2>7. CountInv'
    <3>1. /\ Cardinality(UsersAt(history')) + A!Refused' = Cardinality(UsersAt(history)) + A!Refused + 1
          /\ Cardinality(UsersAt(history)) \in Nat /\ Cardinality(UsersAt(history')) \in Nat
          /\ A!Refused \in Nat /\ A!Refused' \in Nat
      BY <2>4 DEF Started
    <3>2. CountInv
      BY DEF KeptInv
    <3>3. Cardinality(UsersAt(history')) + Len(followups') + A!Refused' = Cardinality(Places(submitted', Asks))
      <4> DEFINE users == Cardinality(UsersAt(history))
                 later == Cardinality(UsersAt(history'))
                 asks == Cardinality(Places(submitted, Asks))
                 queue == Len(followups)
                 rest == Len(Tail(followups))
      <4>1. /\ later + A!Refused' = users + A!Refused + 1 /\ users + queue + A!Refused = asks /\ rest = queue - 1
            /\ {users, later, A!Refused, A!Refused', queue} \subseteq Nat
        BY <2>2, <3>1, <3>2 DEF CountInv
      <4> HIDE DEF users, later, asks, queue, rest
      <4>2. later + rest + A!Refused' = asks
        <5>1. rest + 1 = queue /\ rest \in Int
          BY <4>1
        <5> QED
          BY <4>1, <5>1
      <4> QED
        <5>1. submitted' = submitted /\ Len(followups') = rest
          BY <1>1, <2>1 DEF rest
        <5>2. Places(submitted', Asks) = Places(submitted, Asks)
          BY <5>1
        <5> QED
          BY <4>2, <5>1, <5>2 DEF later, asks
    <3> QED
      BY <3>3 DEF CountInv
  <2> QED
    BY <2>5, <2>6, <2>7 DEF KeptInv
<1> QED
  BY <1>2, <1>3

\* What the rounds of an input add is neither a message of a user nor lost steering.
LEMMA NoUserAdded ==
    ASSUME KeptInv, NEW n \in Nat, Longer(history, history', n),
           \A i \in Len(history) + 1 .. Len(history') : history'[i].kind # "user",
           UNCHANGED <<followups, submitted, turns, config>>
    PROVE  OrderInv' /\ CountInv'
<1>1. Listed(history) /\ OrderKept(history, followups, submitted)
  BY DEF KeptInv, KeptTypes, OrderInv
<1>2. OrderKept(history', followups, submitted)
  BY <1>1, OrderStays
<1>3. UsersAt(history') = UsersAt(history)
  BY <1>1, OrderStays
<1>4. OrderInv'
  BY <1>2 DEF OrderInv
<1>5. CountInv'
  BY <1>3 DEF KeptInv, CountInv, A!Refused
<1> QED
  BY <1>4, <1>5

LEMMA AnswerKept == ASSUME KeptInv, A!LlmAnswers PROVE KeptInv'
<1>1. PICK r : history' = Append(history, A!Assistant(r))
  BY DEF A!LlmAnswers
<1>2. UNCHANGED <<steering, followups, submitted, turns, config>>
  BY DEF A!LlmAnswers, A!queues
<1>3. KeptTypes /\ Listed(history)
  BY DEF KeptInv, KeptTypes
<1>4. Longer(history, history', 1) /\ history'[Len(history) + 1] = A!Assistant(r)
  BY <1>1, <1>3, AppendedIs
<1>5. Len(history) \in Nat /\ Len(history') = Len(history) + 1 /\ Listed(history')
  BY <1>3, <1>4, ListedIs DEF Longer
<1>6. \A i \in Len(history) + 1 .. Len(history') : history'[i].kind = "assistant"
  <2>1. \A i \in Len(history) + 1 .. Len(history') : i = Len(history) + 1
    BY <1>5
  <2> QED
    BY <1>4, <2>1 DEF A!Assistant
<1>7. OrderInv' /\ CountInv'
  BY <1>2, <1>4, <1>6, NoUserAdded
<1>8. SteeringKept(history', steering, Places(submitted, {"steer"}))
  BY <1>3, <1>4, <1>6, SteeringStays DEF KeptInv, SteerInv
<1> QED
  BY <1>2, <1>3, <1>5, <1>7, <1>8 DEF KeptInv, KeptTypes, SteerInv

LEMMA CallKept == ASSUME KeptInv, A!ExecuteCall PROVE KeptInv'
<1>1. UNCHANGED <<history, followups, submitted, turns, config>>
  BY DEF A!ExecuteCall
<1>2. steering' = steering \/ steering' = Append(steering, 0)
  BY DEF A!ExecuteCall, A!Loop
<1>3. KeptTypes /\ SteerInv /\ OrderInv /\ CountInv
  BY DEF KeptInv
<1>4. SteeringKept(history, Append(steering, 0), Places(submitted, {"steer"}))
  <2> DEFINE g == Places(submitted, {"steer"})
  <2>1. g \in SUBSET Nat
    BY <1>3 DEF KeptTypes, Places
  <2>2. SteeringKept(history, steering, g) /\ steering \in Seq(Nat)
    BY <1>3 DEF KeptTypes, SteerInv
  <2> HIDE DEF g
  <2>3. SteeringKept(history, Append(steering, 0), IF 0 = 0 THEN g ELSE g \cup {0})
    BY <2>1, <2>2, SteeringQueued
  <2> QED
    BY <2>3 DEF g
<1>5. SteerInv' /\ steering' \in Seq(Nat)
  <2>1. SteeringKept(history, steering', Places(submitted, {"steer"}))
    BY <1>2, <1>3, <1>4 DEF SteerInv
  <2>2. Append(steering, 0) \in Seq(Nat)
    BY <1>3 DEF KeptTypes
  <2>3. steering' \in Seq(Nat)
    BY <1>2, <1>3, <2>2 DEF KeptTypes
  <2> QED
    BY <1>1, <2>1, <2>3 DEF SteerInv
<1> QED
  BY <1>1, <1>3, <1>5 DEF KeptInv, KeptTypes, OrderInv, CountInv, A!Refused

LEMMA RoundKept == ASSUME KeptInv, A!EndRound PROVE KeptInv'
<1> DEFINE g == Append(history, A!ToolResults(results))
<1>1. history' = A!Drained(g, steering) /\ steering' = <<>> /\ UNCHANGED <<followups, submitted, turns, config>>
  BY DEF A!EndRound
<1>2. KeptTypes /\ Listed(history) /\ steering \in Seq(Nat) /\ Len(steering) \in Nat
  BY DEF KeptInv, KeptTypes
<1>3. Longer(history, g, 1) /\ g[Len(history) + 1] = A!ToolResults(results)
  BY <1>2, AppendedIs
<1>4. Len(history) \in Nat /\ Len(g) = Len(history) + 1 /\ Listed(g)
  BY <1>2, <1>3, ListedIs DEF Longer
<1>5. /\ Longer(g, history', Len(steering))
      /\ \A j \in 1 .. Len(steering) : history'[Len(g) + j] = A!Steering(steering[j])
  <2>1. /\ Longer(g, A!Drained(g, steering), Len(steering))
        /\ \A j \in 1 .. Len(steering) : A!Drained(g, steering)[Len(g) + j] = A!Steering(steering[j])
    BY <1>2, <1>4, DrainedIs
  <2> QED
    BY <1>1, <2>1
<1>6. Len(history') = Len(g) + Len(steering) /\ Listed(history')
  BY <1>5 DEF Longer
<1>7. g[Len(history) + 1].kind = "results"
  BY <1>3 DEF A!ToolResults
<1> HIDE DEF g
<1>8. \A i \in Len(history) + 1 .. Len(g) : g[i].kind = "results"
  <2>1. \A i \in Len(history) + 1 .. Len(g) : i = Len(history) + 1
    BY <1>4
  <2> QED
    BY <1>7, <2>1
<1>9. SteerInv' /\ steering' \in Seq(Nat)
  <2>1. SteeringKept(g, steering, Places(submitted, {"steer"}))
    BY <1>2, <1>3, <1>8, SteeringStays DEF KeptInv, SteerInv
  <2>2. SteeringKept(history', <<>>, Places(submitted, {"steer"}))
    BY <1>1, <1>2, <1>4, <2>1, SteeringDrained
  <2> QED
    BY <1>1, <2>2 DEF SteerInv
<1>10. Longer(history, history', Len(steering) + 1)
  BY <1>2, <1>3, <1>4, <1>5, <1>6 DEF Longer
<1>11. \A i \in Len(history) + 1 .. Len(history') : history'[i].kind # "user"
  <2> TAKE i \in Len(history) + 1 .. Len(history')
  <2>1. CASE i = Len(history) + 1
    <3>1. i \in 1 .. Len(g)
      BY <1>4, <2>1
    <3>2. history'[i] = g[i]
      BY <1>5, <3>1 DEF Longer
    <3> QED
      BY <1>7, <2>1, <3>2
  <2>2. CASE i # Len(history) + 1
    <3>1. i - Len(g) \in 1 .. Len(steering) /\ Len(g) + (i - Len(g)) = i
      BY <1>2, <1>4, <1>6, <2>2
    <3>2. history'[i] = A!Steering(steering[i - Len(g)])
      BY <1>5, <3>1
    <3> QED
      BY <3>2 DEF A!Steering
  <2> QED
    BY <2>1, <2>2
<1>12. OrderInv' /\ CountInv'
  <2>1. Len(steering) + 1 \in Nat
    BY <1>2
  <2> QED
    BY <1>1, <1>10, <1>11, <2>1, NoUserAdded
<1> QED
  BY <1>1, <1>2, <1>6, <1>9, <1>12 DEF KeptInv, KeptTypes

LEMMA KeptInvKept == KeptInv /\ [A!Next]_(A!vars) => KeptInv'
<1> SUFFICES ASSUME KeptInv, [A!Next]_(A!vars) PROVE KeptInv'
  OBVIOUS
<1>1. CASE A!LlmFails \/ UNCHANGED A!vars
  <2>1. UNCHANGED <<history, steering, followups, submitted, turns, config>>
    BY <1>1 DEF A!LlmFails, A!vars, A!queues
  <2> QED
    BY <2>1 DEF KeptInv, KeptTypes, SteerInv, OrderInv, CountInv, A!Refused
<1> QED
  BY <1>1, SteerKept, FollowUpKept, InputKept, AnswerKept, CallKept, RoundKept, EndInputKept DEF A!Next, A!Session

\* What waits in the queues follows what is in the history.
LEMMA KeptIsKept == KeptInv => A!MessagesAreKept
<1> SUFFICES ASSUME KeptInv PROVE A!MessagesAreKept
  OBVIOUS
<1> DEFINE told == A!Drained(history, steering)
           queue == [i \in DOMAIN followups |-> A!User(followups[i])]
           promised == history \o queue
           followed == {i \in UsersAt(promised) : submitted[promised[i].text] = "follow_up"}
<1>1. /\ Listed(history) /\ steering \in Seq(Nat) /\ followups \in Seq(Nat) /\ submitted \in Seq(Submissions)
      /\ SteeringKept(history, steering, Places(submitted, {"steer"}))
      /\ OrderKept(history, followups, submitted)
  BY DEF KeptInv, KeptTypes, SteerInv, OrderInv
<1>2. SteeringKept(told, <<>>, Places(submitted, {"steer"}))
  BY <1>1, SteeringDrained
<1>3. A!Increasing(told, SteeredAt(told)) /\ {told[i].text : i \in SteeredAt(told)} = A!Given({"steer"})
  <2>1. Waits(<<>>) = {}
    BY DEF Waits
  <2>2. Places(submitted, {"steer"}) = A!Given({"steer"})
    BY DEF Places, A!Given
  <2> HIDE DEF told
  <2>3. A!Increasing(told, SteeredAt(told))
    BY <1>2 DEF SteeringKept, A!Increasing
  <2>4. {told[i].text : i \in SteeredAt(told)} = Places(submitted, {"steer"})
    BY <1>2, <2>1 DEF SteeringKept
  <2> QED
    BY <2>2, <2>3, <2>4
<1>4. A!Increasing(promised, followed)
  <2>1. PICK T : history \in Seq(T)
    BY <1>1 DEF Listed
  <2> DEFINE U == T \cup {A!User(m) : m \in Nat}
  <2>2. history \in Seq(U) /\ Len(history) \in Nat /\ DOMAIN history = 1 .. Len(history)
    BY <2>1, SeqMonotonic
  <2>3. /\ queue \in Seq(U) /\ Len(queue) = Len(followups)
        /\ Len(followups) \in Nat /\ DOMAIN followups = 1 .. Len(followups)
    <3>1. Len(followups) \in Nat /\ DOMAIN followups = 1 .. Len(followups)
      BY <1>1
    <3>2. \A j \in DOMAIN followups : followups[j] \in Nat
      BY <1>1
    <3>3. \A j \in DOMAIN followups : A!User(followups[j]) \in U
      BY <3>2
    <3> HIDE DEF U
    <3>4. queue \in [1 .. Len(followups) -> U]
      BY <3>1, <3>3
    <3> QED
      BY <3>1, <3>4
  <2>4. \A j \in 1 .. Len(followups) : queue[j].text = followups[j]
    BY <2>3 DEF A!User
  <2> HIDE DEF queue, U
  <2>5. /\ promised \in Seq(U) /\ Len(promised) = Len(history) + Len(followups)
        /\ \A i \in 1 .. Len(history) + Len(followups) :
              promised[i] = IF i <= Len(history) THEN history[i] ELSE queue[i - Len(history)]
    <3>1. /\ history \o queue \in Seq(U) /\ Len(history \o queue) = Len(history) + Len(queue)
          /\ \A i \in 1 .. Len(history) + Len(queue) :
                (history \o queue)[i] = IF i <= Len(history) THEN history[i] ELSE queue[i - Len(history)]
      BY <2>2, <2>3, ConcatProperties
    <3> QED
      BY <2>3, <3>1
  <2> HIDE DEF promised
  <2>6. DOMAIN promised = 1 .. Len(history) + Len(followups)
    BY <2>5
  <2>7. ASSUME NEW i \in followed
        PROVE  \/ i \in FollowedAt(history, submitted) /\ i <= Len(history) /\ promised[i] = history[i]
               \/ /\ i > Len(history) /\ i - Len(history) \in 1 .. Len(followups)
                  /\ promised[i].text = followups[i - Len(history)]
    <3>1. /\ i \in 1 .. Len(history) + Len(followups) /\ promised[i].kind = "user" /\ promised[i].text # 0
          /\ submitted[promised[i].text] = "follow_up"
      BY <2>6 DEF UsersAt, A!MessagesIn, A!Loop
    <3>2. CASE i <= Len(history)
      <4>1. i \in DOMAIN history /\ promised[i] = history[i]
        BY <2>2, <2>3, <2>5, <3>1, <3>2
      <4> QED
        BY <3>1, <3>2, <4>1 DEF FollowedAt, UsersAt, A!MessagesIn, A!Loop
    <3>3. CASE i > Len(history)
      <4>1. i - Len(history) \in 1 .. Len(followups) /\ promised[i] = queue[i - Len(history)]
        BY <2>2, <2>3, <2>5, <3>1, <3>3
      <4> QED
        BY <2>4, <3>3, <4>1
    <3> QED
      BY <2>2, <3>1, <3>2, <3>3
  <2>8. ASSUME NEW i \in followed, NEW j \in followed, i < j
        PROVE  promised[i].text < promised[j].text
    <3> HIDE DEF followed
    <3>0. i \in Int /\ j \in Int
      BY <2>6 DEF followed, UsersAt, A!MessagesIn
    <3>1. CASE i <= Len(history) /\ j <= Len(history)
      <4>1. /\ i \in FollowedAt(history, submitted) /\ promised[i] = history[i]
            /\ j \in FollowedAt(history, submitted) /\ promised[j] = history[j]
        BY <2>2, <2>7, <3>0, <3>1
      <4> QED
        BY <1>1, <2>8, <4>1 DEF OrderKept
    <3>2. CASE i <= Len(history) /\ j > Len(history)
      <4> DEFINE l == j - Len(history)
      <4>1. /\ i \in FollowedAt(history, submitted) /\ promised[i] = history[i]
            /\ l \in DOMAIN followups /\ promised[j].text = followups[l]
        BY <2>2, <2>3, <2>7, <3>0, <3>2
      <4> HIDE DEF l
      <4> QED
        BY <1>1, <4>1 DEF OrderKept
    <3>3. CASE i > Len(history) /\ j > Len(history)
      <4> DEFINE k == i - Len(history)
                 l == j - Len(history)
      <4>1. k < l
        BY <2>2, <2>8, <3>0
      <4>2. /\ k \in DOMAIN followups /\ promised[i].text = followups[k]
            /\ l \in DOMAIN followups /\ promised[j].text = followups[l]
        BY <2>2, <2>3, <2>7, <3>0, <3>3
      <4> HIDE DEF k, l
      <4> QED
        BY <1>1, <4>1, <4>2 DEF OrderKept
    <3> QED
      BY <2>2, <2>8, <3>0, <3>1, <3>2, <3>3
  <2> QED
    BY <2>8 DEF A!Increasing
<1>5. A!Cardinality(UsersAt(history)) + Len(followups) + A!Refused = A!Cardinality(A!Given(Asks))
  <2>1. Places(submitted, Asks) = A!Given(Asks)
    BY DEF Places, A!Given
  <2> QED
    BY <2>1, CountsAgree DEF KeptInv, CountInv
<1> QED
  BY <1>3, <1>4, <1>5 DEF A!MessagesAreKept, UsersAt, SteeredAt, Asks

LEMMA KeptAtFirst == ASSUME A!SessionAssumption, A!Init PROVE KeptInv
<1>1. /\ history = <<>> /\ steering = <<>> /\ followups = <<>> /\ submitted = <<>> /\ turns = 0
      /\ config.maxTurns \in Nat
  BY DEF A!Init, A!SessionAssumption
<1>2. KeptTypes
  BY <1>1 DEF KeptTypes, Listed
<1>3. /\ UsersAt(<<>>) = {} /\ SteeredAt(<<>>) = {} /\ Waits(<<>>) = {}
      /\ Places(<<>>, Asks) = {} /\ Places(<<>>, {"steer"}) = {} /\ FollowedAt(<<>>, <<>>) = {}
  BY DEF UsersAt, SteeredAt, Waits, Places, FollowedAt, A!MessagesIn
<1>4. SteerInv /\ OrderInv
  BY <1>1, <1>3 DEF SteerInv, OrderInv, SteeringKept, OrderKept
<1>5. A!Refused = 0 /\ Len(<<>>) = 0
  BY <1>1 DEF A!Refused
<1>6. CountInv
  <2>1. Cardinality(UsersAt(history)) = 0 /\ Cardinality(Places(submitted, Asks)) = 0
    BY <1>1, <1>3, FS_EmptySet
  <2>2. Len(followups) = 0
    BY <1>1
  <2> QED
    BY <1>5, <2>1, <2>2 DEF CountInv
<1> QED
  BY <1>2, <1>4, <1>6 DEF KeptInv

\* THEOREM: whatever a session is given while it works, refuses, fails or is steered, no
\* message is lost, repeated or told out of its order, but for those the turn limit
\* refused (steer, follow_up, process_input, drain_steering).
THEOREM MessagesAreNotLost == A!SessionAssumption /\ A!Spec => []A!MessagesAreKept
<1> SUFFICES ASSUME A!SessionAssumption PROVE A!Spec => []A!MessagesAreKept
  OBVIOUS
<1>1. A!Init => KeptInv
  BY KeptAtFirst
<1> QED
  BY <1>1, KeptInvKept, KeptIsKept, PTL DEF A!Spec

----------------------------------------------------------------------------
(* The loop detector: its window against the calls the history holds.      *)

LEMMA Scaled == ASSUME NEW w \in Nat \ {0}, NEW a \in Int, NEW b \in Int, a >= b PROVE w * a >= w * b
<1> DEFINE d == a - b
<1>1. d \in Nat /\ a = b + d
  OBVIOUS
<1> HIDE DEF d
<1>2. w * d \in Nat /\ w * (b + d) = w * b + w * d
  BY <1>1
<1> DEFINE x == w * d
           y == w * b
<1>3. x \in Nat /\ y \in Int /\ w * a = y + x
  BY <1>1, <1>2
<1> HIDE DEF x, y
<1>4. w * a >= y
  BY <1>3
<1> QED
  BY <1>4 DEF y

LEMMA CountOn ==
    ASSUME NEW n \in Nat, NEW w \in Nat \ {0}
    PROVE  n % w \in 0 .. w - 1 /\ (n + 1) % w = IF (n % w) + 1 = w THEN 0 ELSE (n % w) + 1
<1> DEFINE q == n \div w
           c == n % w
           p == (n + 1) \div w
           d == (n + 1) % w
<1>1. {n, w, q, c, p, d} \subseteq Int /\ n = w * q + c /\ 0 <= c /\ c < w
  OBVIOUS
<1>2. n + 1 = w * p + d /\ 0 <= d /\ d < w /\ w > 0
  OBVIOUS
<1> HIDE DEF q, c, p, d
<1>3. w * (p - q) = c + 1 - d
  BY <1>1, <1>2
<1> DEFINE e == p - q
<1>4. e \in Int /\ w * e = c + 1 - d
  BY <1>1, <1>3
<1> HIDE DEF e
<1>5. e <= 1
  <2> SUFFICES ASSUME e >= 2 PROVE FALSE
    BY <1>4
  <2>0. 2 \in Int /\ e \in Int /\ e >= 2
    BY <1>4
  <2>1. w * e >= w * 2
    BY <2>0, Scaled, Zenon
  <2> DEFINE x == w * e
  <2>2. w * 2 = w + w
    BY <1>1
  <2>3. x = c + 1 - d /\ x >= w + w
    BY <1>4, <2>1, <2>2
  <2> HIDE DEF x
  <2> QED
    BY <1>1, <1>2, <2>3
<1>6. e >= 0
  <2> SUFFICES ASSUME e <= -1 PROVE FALSE
    BY <1>4
  <2>0. -1 \in Int /\ e \in Int /\ -1 >= e
    BY <1>4
  <2>1. w * (-1) >= w * e
    BY <2>0, Scaled, Zenon
  <2> DEFINE x == w * e
  <2>2. w * (-1) = -w
    BY <1>1
  <2>3. x = c + 1 - d /\ -w >= x
    BY <1>4, <2>1, <2>2
  <2> HIDE DEF x
  <2> QED
    BY <1>1, <1>2, <2>3
<1>7. e = 0 \/ e = 1
  BY <1>4, <1>5, <1>6
<1>8. d = IF c + 1 = w THEN 0 ELSE c + 1
  BY <1>1, <1>2, <1>4, <1>7
<1> QED
  BY <1>1, <1>8 DEF c, d

\* The run of equal calls that ends at c, among the calls S with the arguments f.
Row(S, f, c) ==
    {b \in S : A!Upto(b, c) /\ \A a \in S : A!Upto(b, a) /\ A!Upto(a, c) => f[a] = f[c]}
Below(S, n) ==
    S \in SUBSET (Nat \X Nat) /\ n \in Nat \X Nat /\ \A b \in S : A!Upto(b, n) /\ ~A!Upto(n, b)
LatestOf(S, l) == l \in S /\ \A b \in S : A!Upto(b, l)
Extends(S, f, n, g) == Below(S, n) /\ \A c \in S : g[c] = f[c]

\* A later call leaves the runs of the others,
LEMMA RowsStay ==
    ASSUME NEW S, NEW f, NEW n, NEW g, Extends(S, f, n, g), NEW c \in S
    PROVE  Row(S \cup {n}, g, c) = Row(S, f, c)
<1>1. ~A!Upto(n, c)
  BY DEF Extends, Below
<1>2. \A a \in S : g[a] = f[a]
  BY DEF Extends
<1> QED
  BY <1>1, <1>2 DEF Row

\* and continues the last one or begins another.
LEMMA RowOfNew ==
    ASSUME NEW S, NEW f, NEW n, NEW g, Extends(S, f, n, g)
    PROVE  /\ S = {} => Row(S \cup {n}, g, n) = {n}
           /\ \A l : LatestOf(S, l) => Row(S \cup {n}, g, n) = (IF g[n] = f[l] THEN Row(S, f, l) ELSE {}) \cup {n}
           /\ n \notin S /\ LatestOf(S \cup {n}, n) /\ \A l : LatestOf(S \cup {n}, l) => l = n
<1>1. A!Upto(n, n)
  BY DEF A!Upto, Extends, Below
<1>2. \A b \in S : A!Upto(b, n) /\ ~A!Upto(n, b)
  BY DEF Extends, Below
<1>3. \A a \in S : g[a] = f[a]
  BY DEF Extends
<1>4. ASSUME NEW l, LatestOf(S, l)
      PROVE  Row(S \cup {n}, g, n) = (IF g[n] = f[l] THEN Row(S, f, l) ELSE {}) \cup {n}
  <2>1. l \in S /\ \A b \in S : A!Upto(b, l)
    BY <1>4 DEF LatestOf
  <2>2. CASE g[n] = f[l]
    BY <1>1, <1>2, <1>3, <2>1, <2>2 DEF Row
  <2>3. CASE g[n] # f[l]
    BY <1>1, <1>2, <1>3, <2>1, <2>3 DEF Row
  <2> QED
    BY <2>2, <2>3
<1>5. S = {} => Row(S \cup {n}, g, n) = {n}
  BY <1>1 DEF Row
<1>6. n \notin S /\ LatestOf(S \cup {n}, n) /\ \A l : LatestOf(S \cup {n}, l) => l = n
  BY <1>1, <1>2 DEF LatestOf
<1> QED
  BY <1>4, <1>5, <1>6

\* record_and_check with the calls recorded before: what it keeps, and whether it is a loop.
Recorded(calls, w, x) == LET longer == Append(calls, x) IN IF Len(longer) > w THEN Tail(longer) ELSE longer
Looped(calls, w) == w > 0 /\ Len(calls) >= w /\ \A i \in DOMAIN calls : calls[i] = calls[1]
After(calls, w, x) == IF Looped(Recorded(calls, w, x), w) THEN <<>> ELSE Recorded(calls, w, x)

\* The window counted from its end.
Back(s, j) == s[Len(s) - j]
Window(calls, w) == Listed(calls) /\ Len(calls) <= w /\ w \in Nat

RecordedAs(calls, w, x, r) ==
    /\ Window(r, w) /\ Len(r) = IF Len(calls) < w THEN Len(calls) + 1 ELSE w
    /\ Len(r) > 0 => Back(r, 0) = x
    /\ \A j \in 1 .. Len(r) - 1 : Back(r, j) = Back(calls, j - 1)
    /\ Looped(r, w) <=> Len(r) = w /\ w > 0 /\ \A j \in 1 .. Len(r) - 1 : Back(r, j) = x

LEMMA RecordedIs ==
    ASSUME NEW calls, NEW w, NEW x, Window(calls, w)
    PROVE  RecordedAs(calls, w, x, Recorded(calls, w, x))
<1> DEFINE n == Len(calls)
           g == Append(calls, x)
           r == Recorded(calls, w, x)
<1>1. PICK U : g \in Seq(U) /\ n \in Nat /\ w \in Nat /\ n <= w
  BY AppendedIs, ListedIs DEF Window, Longer, Listed
<1>2. Len(g) = n + 1 /\ g[n + 1] = x /\ \A i \in 1 .. n : g[i] = calls[i]
  BY AppendedIs DEF Window, Longer
<1>3. g # <<>>
  BY <1>1, <1>2
<1>4. /\ Tail(g) \in Seq(U) /\ Len(Tail(g)) = n /\ DOMAIN Tail(g) = 1 .. n
      /\ \A i \in 1 .. n : Tail(g)[i] = g[i + 1]
  BY <1>1, <1>2, <1>3
<1> DEFINE k == IF n < w THEN 0 ELSE 1
<1>5. /\ r \in Seq(U) /\ Len(r) = n + 1 - k /\ DOMAIN r = 1 .. Len(r)
      /\ \A i \in 1 .. Len(r) : r[i] = g[i + k]
  <2>1. CASE n < w
    BY <1>1, <1>2, <2>1 DEF Recorded
  <2>2. CASE ~(n < w)
    <3>1. r = Tail(g) /\ k = 1
      BY <1>1, <1>2, <2>2 DEF Recorded
    <3>2. n + 1 - 1 = n
      BY <1>1
    <3> HIDE DEF k, r, g
    <3> QED
      BY <1>1, <1>4, <3>1, <3>2
  <2> QED
    BY <2>1, <2>2
<1>6. k \in 0 .. 1 /\ (k = 0 <=> n < w)
  OBVIOUS
<1> HIDE DEF g, r, k, n
<1>7. Len(r) > 0 => Back(r, 0) = x
  BY <1>1, <1>2, <1>5, <1>6 DEF Back
<1>8. ASSUME NEW j \in 1 .. Len(r) - 1
      PROVE  Back(r, j) = Back(calls, j - 1)
  <2> DEFINE l == Len(r)
  <2>0. l = n + 1 - k /\ j \in 1 .. l - 1 /\ n \in Nat /\ k \in {0, 1}
    BY <1>1, <1>5, <1>6
  <2> HIDE DEF l
  <2>1. l - j \in 1 .. l /\ l - j + k \in 1 .. n /\ l - j + k = n - (j - 1)
    BY <2>0
  <2> QED
    BY <1>2, <1>5, <2>1 DEF Back, l, n
<1>9. Window(r, w) /\ Len(r) = IF n < w THEN n + 1 ELSE w
  BY <1>1, <1>5, <1>6 DEF Window, Listed
<1>10. Looped(r, w) <=> Len(r) = w /\ w > 0 /\ \A j \in 1 .. Len(r) - 1 : Back(r, j) = x
  <2>1. ASSUME Len(r) > 0, \A i \in 1 .. Len(r) : r[i] = r[1], NEW j \in 1 .. Len(r) - 1
        PROVE  Back(r, j) = x
    <3>1. Len(r) - j \in 1 .. Len(r) /\ Len(r) - 0 \in 1 .. Len(r)
      BY <1>1, <1>5, <1>6, <2>1
    <3> QED
      BY <1>7, <2>1, <3>1 DEF Back
  <2>2. ASSUME Len(r) > 0, \A j \in 1 .. Len(r) - 1 : Back(r, j) = x, NEW i \in 1 .. Len(r)
        PROVE  r[i] = x
    <3>1. Len(r) - i \in 0 .. Len(r) - 1 /\ Len(r) - (Len(r) - i) = i
      BY <1>1, <1>5, <1>6
    <3>2. CASE Len(r) - i = 0
      BY <1>7, <2>2, <3>1, <3>2 DEF Back
    <3>3. CASE Len(r) - i \in 1 .. Len(r) - 1
      BY <2>2, <3>1, <3>3 DEF Back
    <3> QED
      BY <1>1, <1>5, <1>6, <3>1, <3>2, <3>3
  <2>3. Len(r) > 0 => 1 \in 1 .. Len(r)
    BY <1>1, <1>5, <1>6
  <2>4. Len(r) > 0 =>
          ((\A i \in 1 .. Len(r) : r[i] = r[1]) <=> \A j \in 1 .. Len(r) - 1 : Back(r, j) = x)
    BY <2>1, <2>2, <2>3
  <2>5. Len(r) >= w <=> Len(r) = w
    BY <1>1, <1>5, <1>6, <1>9
  <2>6. Len(r) = w /\ w > 0 => Len(r) > 0
    BY <1>1
  <2> QED
    BY <1>5, <2>4, <2>5, <2>6 DEF Looped
<1>11. Len(r) = IF Len(calls) < w THEN Len(calls) + 1 ELSE w
  BY <1>9 DEF n
<1> QED
  BY <1>7, <1>8, <1>9, <1>10, <1>11 DEF RecordedAs, r

\* After n equal calls in a row with arguments x, the window has those since the last warning,
\* and before them another.
Streak(calls, n, w, x) ==
    LET c == n % w
    IN  /\ Window(calls, w) /\ n \in Nat \ {0} /\ w > 0
        /\ c = 0 => calls = <<>>
        /\ c <= Len(calls) /\ \A j \in 0 .. c - 1 : Back(calls, j) = x
        /\ c > 0 /\ Len(calls) > c => Back(calls, c) # x

DetectedAs(calls, w, x, n) ==
    /\ Looped(Recorded(calls, w, x), w) <=> n % w = 0
    /\ Streak(After(calls, w, x), n, w, x)

\* From the window to the next call: a loop exactly when the run is a multiple of the window.
LEMMA Detected ==
    ASSUME NEW calls, NEW w, NEW x, NEW y, NEW n, Streak(calls, n, w, y)
    PROVE  DetectedAs(calls, w, x, IF x = y THEN n + 1 ELSE 1)
<1> DEFINE r == Recorded(calls, w, x)
           c == n % w
           m == IF x = y THEN n + 1 ELSE 1
           d == m % w
           s == Len(calls)
<1>1. /\ Window(calls, w) /\ n \in Nat \ {0} /\ w \in Nat \ {0} /\ s \in Nat /\ s <= w
      /\ c \in 0 .. w - 1 /\ d = IF x = y THEN (IF c + 1 = w THEN 0 ELSE c + 1) ELSE (IF w = 1 THEN 0 ELSE 1)
      /\ c <= s /\ (c = 0 => s = 0)
  <2>1. Window(calls, w) /\ n \in Nat \ {0} /\ w \in Nat \ {0} /\ s \in Nat /\ s <= w
    BY ListedIs DEF Streak, Window
  <2>2. c \in 0 .. w - 1 /\ (n + 1) % w = IF c + 1 = w THEN 0 ELSE c + 1
    BY <2>1, CountOn
  <2>3. 1 % w = IF w = 1 THEN 0 ELSE 1
    <3>1. 0 % w \in 0 .. w - 1 /\ (0 + 1) % w = IF (0 % w) + 1 = w THEN 0 ELSE (0 % w) + 1
      BY <2>1, CountOn
    <3>2. 0 % w = 0
      BY <2>1
    <3> QED
      BY <3>1, <3>2
  <2>4. c <= s /\ (c = 0 => s = 0)
    BY DEF Streak
  <2> HIDE DEF c, s
  <2> QED
    BY <2>1, <2>2, <2>3, <2>4
<1>2. RecordedAs(calls, w, x, r)
  BY <1>1, RecordedIs
<1>3. (\A j \in 0 .. c - 1 : Back(calls, j) = y) /\ (c > 0 /\ s > c => Back(calls, c) # y)
  BY DEF Streak
<1>4. /\ Window(r, w) /\ Len(r) = IF s < w THEN s + 1 ELSE w
      /\ Len(r) > 0 => Back(r, 0) = x
      /\ \A j \in 1 .. Len(r) - 1 : Back(r, j) = Back(calls, j - 1)
      /\ Looped(r, w) <=> Len(r) = w /\ w > 0 /\ \A j \in 1 .. Len(r) - 1 : Back(r, j) = x
  BY <1>2 DEF RecordedAs
<1>5. m \in Nat \ {0}
  BY <1>1
<1> HIDE DEF r, c, d, s, m
<1>6. Looped(r, w) <=> d = 0
  <2>1. CASE x = y /\ c + 1 = w
    <3>1. Len(r) = w
      BY <1>1, <1>4, <2>1
    <3>2. \A j \in 1 .. Len(r) - 1 : j - 1 \in 0 .. c - 1
      BY <1>1, <2>1, <3>1
    <3>3. Looped(r, w)
      BY <1>1, <1>3, <1>4, <2>1, <3>1, <3>2
    <3> QED
      BY <1>1, <2>1, <3>3
  <2>2. CASE x = y /\ c + 1 # w
    <3>1. SUFFICES ASSUME Looped(r, w) PROVE FALSE
      BY <1>1, <2>2
    <3>2. s > c /\ c > 0 /\ c + 1 \in 1 .. Len(r) - 1 /\ (c + 1) - 1 = c
      BY <1>1, <1>4, <2>2, <3>1
    <3>3. Back(r, c + 1) = x /\ Back(r, c + 1) = Back(calls, c)
      BY <1>4, <3>1, <3>2
    <3> QED
      BY <1>3, <2>2, <3>2, <3>3
  <2>3. CASE x # y /\ w = 1
    <3>1. Len(r) = 1 /\ s = 0
      BY <1>1, <1>4, <2>3
    <3> QED
      BY <1>1, <1>4, <2>3, <3>1
  <2>4. CASE x # y /\ w # 1
    <3>1. SUFFICES ASSUME Looped(r, w) PROVE FALSE
      BY <1>1, <2>4
    <3>2. c > 0 /\ 1 \in 1 .. Len(r) - 1 /\ 1 - 1 = 0 /\ 0 \in 0 .. c - 1
      BY <1>1, <1>4, <2>4, <3>1
    <3>3. Back(r, 1) = x /\ Back(r, 1) = Back(calls, 0) /\ Back(calls, 0) = y
      BY <1>3, <1>4, <3>1, <3>2
    <3> QED
      BY <2>4, <3>3
  <2> QED
    BY <2>1, <2>2, <2>3, <2>4
<1> DEFINE a == After(calls, w, x)
<1>7. a = IF d = 0 THEN <<>> ELSE r
  BY <1>6 DEF After, r
<1> HIDE DEF a
<1>8. CASE d = 0
  <2>1. Window(<<>>, w) /\ Len(<<>>) = 0
    BY <1>1 DEF Window, Listed
  <2>2. \A j \in 0 .. 0 - 1 : FALSE
    OBVIOUS
  <2> QED
    BY <1>1, <1>5, <1>6, <1>7, <1>8, <2>1, <2>2 DEF DetectedAs, Streak, d, m, a, r
<1>9. CASE d # 0
  <2>1. d > 0 /\ d <= Len(r) /\ Len(r) > 0
    BY <1>1, <1>4, <1>9
  <2>2. ASSUME NEW j \in 0 .. d - 1
        PROVE  Back(r, j) = x
    <3>1. CASE j = 0
      BY <1>4, <2>1, <3>1
    <3>2. CASE j # 0
      <4>1. x = y /\ j \in 1 .. Len(r) - 1 /\ j - 1 \in 0 .. c - 1
        BY <1>1, <1>9, <2>1, <3>2
      <4> QED
        BY <1>3, <1>4, <4>1
    <3> QED
      BY <3>1, <3>2
  <2>3. ASSUME Len(r) > d
        PROVE  Back(r, d) # x
    <3>1. d \in 1 .. Len(r) - 1
      BY <1>1, <1>4, <2>1, <2>3
    <3>2. Back(r, d) = Back(calls, d - 1)
      BY <1>4, <3>1
    <3>3. CASE x = y
      <4>1. d - 1 = c /\ s > c /\ c > 0
        BY <1>1, <1>4, <1>9, <2>3, <3>3
      <4> QED
        BY <1>3, <3>2, <3>3, <4>1
    <3>4. CASE x # y
      <4>1. d - 1 = 0 /\ 0 \in 0 .. c - 1
        BY <1>1, <1>4, <1>9, <2>3, <3>4
      <4> QED
        BY <1>3, <3>2, <3>4, <4>1
    <3> QED
      BY <3>3, <3>4
  <2>4. Streak(r, m, w, x)
    BY <1>1, <1>4, <1>5, <1>9, <2>1, <2>2, <2>3 DEF Streak, d
  <2> QED
    BY <1>6, <1>7, <1>9, <2>4 DEF DetectedAs, d, m, a, r
<1> QED
  BY <1>8, <1>9

LEMMA DetectedFirst ==
    ASSUME NEW w \in Nat \ {0}, NEW x
    PROVE  DetectedAs(<<>>, w, x, 1)
<1> DEFINE r == Recorded(<<>>, w, x)
           d == 1 % w
           a == After(<<>>, w, x)
<1>1. Window(<<>>, w) /\ Len(<<>>) = 0
  BY DEF Window, Listed
<1>2. /\ Window(r, w) /\ Len(r) = 1 /\ Back(r, 0) = x
      /\ Looped(r, w) <=> Len(r) = w /\ w > 0 /\ \A j \in 1 .. Len(r) - 1 : Back(r, j) = x
  <2>1. RecordedAs(<<>>, w, x, r)
    BY <1>1, RecordedIs
  <2> HIDE DEF r
  <2>2. Len(r) = 1
    BY <1>1, <2>1 DEF RecordedAs
  <2> QED
    BY <2>1, <2>2 DEF RecordedAs
<1>3. d = IF w = 1 THEN 0 ELSE 1
  <2>1. 0 % w \in 0 .. w - 1 /\ (0 + 1) % w = IF (0 % w) + 1 = w THEN 0 ELSE (0 % w) + 1
    BY CountOn
  <2>2. 0 % w = 0
    OBVIOUS
  <2> QED
    BY <2>1, <2>2
<1> HIDE DEF r, d, a
<1>4. Looped(r, w) <=> d = 0
  BY <1>2, <1>3
<1>5. a = IF d = 0 THEN <<>> ELSE r
  BY <1>4 DEF After, a, r
<1>6. \A j \in 0 .. d - 1 : j = 0 /\ d = 1
  BY <1>3
<1>7. Streak(a, 1, w, x)
  <2>1. CASE d = 0
    <3>1. a = <<>> /\ \A j \in 0 .. 0 - 1 : FALSE
      BY <1>5, <2>1
    <3> QED
      BY <1>1, <2>1, <3>1 DEF Streak, d
  <2>2. CASE d # 0
    <3>1. a = r /\ d = 1 /\ d <= Len(r) /\ ~(Len(r) > d)
      BY <1>2, <1>3, <1>5, <2>2
    <3>2. \A j \in 0 .. d - 1 : Back(r, j) = x
      BY <1>2, <1>6
    <3>3. /\ Window(a, w) /\ 1 \in Nat \ {0} /\ w > 0
          /\ (d = 0 => a = <<>>) /\ d <= Len(a) /\ (\A j \in 0 .. d - 1 : Back(a, j) = x)
          /\ (d > 0 /\ Len(a) > d => Back(a, d) # x)
      BY <1>2, <2>2, <3>1, <3>2
    <3> QED
      BY <3>3 DEF Streak, d
  <2> QED
    BY <2>1, <2>2
<1> QED
  BY <1>4, <1>7 DEF DetectedAs, a, d, r

\* The calls made, of a history h, when the session is at s with the calls p to make.
Exec(h, s, p, i) ==
    IF h[i].kind # "assistant" THEN 0
    ELSE IF i < Len(h) THEN IF h[i + 1].kind = "results" THEN Len(h[i].calls) ELSE 0
    ELSE IF s \in {"tools", "panicked"} THEN Len(h[i].calls) - Len(p) ELSE 0
CalledIn(h, s, p) == UNION {{i} \X (1 .. Exec(h, s, p, i)) : i \in DOMAIN h}
ArgsIn(h, S) == [c \in S |-> h[c[1]].calls[c[2]].args]

LEMMA CalledAre == A!Called = CalledIn(history, sessionPc, pending)
  BY DEF A!Called, CalledIn, A!Executed, Exec

\* Turns more leave the calls, when they are no results of the last one.
LEMMA CallsStay ==
    ASSUME NEW h, Listed(h), NEW g, NEW n \in Nat, Longer(h, g, n), NEW s, NEW p, NEW t, NEW q,
           \A i \in Len(h) + 1 .. Len(g) : Exec(g, t, q, i) = 0,
           Len(h) > 0 => Exec(g, t, q, Len(h)) = Exec(h, s, p, Len(h))
    PROVE  /\ CalledIn(g, t, q) = CalledIn(h, s, p)
           /\ ArgsIn(g, CalledIn(h, s, p)) = ArgsIn(h, CalledIn(h, s, p))
<1>1. /\ Len(h) \in Nat /\ DOMAIN h = 1 .. Len(h)
      /\ DOMAIN g = 1 .. Len(g) /\ Len(g) = Len(h) + n /\ \A i \in 1 .. Len(h) : g[i] = h[i]
  BY ListedIs DEF Longer
<1>2. ASSUME NEW i \in 1 .. Len(h)
      PROVE  Exec(g, t, q, i) = Exec(h, s, p, i)
  <2>1. CASE i = Len(h)
    BY <1>1, <2>1
  <2>2. CASE i < Len(h)
    <3>1. i + 1 \in 1 .. Len(h) /\ i < Len(g)
      BY <1>1, <2>2
    <3>2. g[i] = h[i] /\ g[i + 1] = h[i + 1]
      BY <1>1, <3>1
    <3>3. i < Len(h)
      BY <2>2
    <3> QED
      BY <3>1, <3>2, <3>3, Zenon DEF Exec
  <2>3. i = Len(h) \/ i < Len(h)
    <3> DEFINE m == Len(h)
    <3>1. m \in Nat /\ i \in 1 .. m
      BY <1>1
    <3> HIDE DEF m
    <3>2. i = m \/ i < m
      BY <3>1
    <3> QED
      BY <3>2 DEF m
  <2> QED
    BY <2>1, <2>2, <2>3, Zenon
<1>3. \A c : c \in CalledIn(g, t, q) <=> \E i \in 1 .. Len(g) : c \in {i} \X (1 .. Exec(g, t, q, i))
  BY <1>1 DEF CalledIn
<1>4. \A c : c \in CalledIn(h, s, p) <=> \E i \in 1 .. Len(h) : c \in {i} \X (1 .. Exec(h, s, p, i))
  BY <1>1 DEF CalledIn
<1>5. ASSUME NEW c
      PROVE  c \in CalledIn(g, t, q) <=> c \in CalledIn(h, s, p)
  <2>1. ASSUME NEW i \in 1 .. Len(g), c \in {i} \X (1 .. Exec(g, t, q, i))
        PROVE  i \in 1 .. Len(h) /\ c \in {i} \X (1 .. Exec(h, s, p, i))
    <3>1. i \in 1 .. Len(h)
      <4>1. SUFFICES ASSUME i \in Len(h) + 1 .. Len(g) PROVE FALSE
        BY <1>1
      <4>2. c \in {i} \X (1 .. 0)
        BY <2>1, <4>1
      <4> QED
        BY <4>2
    <3> QED
      BY <1>2, <2>1, <3>1
  <2>2. ASSUME NEW i \in 1 .. Len(h), c \in {i} \X (1 .. Exec(h, s, p, i))
        PROVE  i \in 1 .. Len(g) /\ c \in {i} \X (1 .. Exec(g, t, q, i))
    BY <1>1, <1>2, <2>2
  <2> QED
    BY <1>3, <1>4, <2>1, <2>2
<1>6. ASSUME NEW c \in CalledIn(h, s, p)
      PROVE  g[c[1]] = h[c[1]]
  <2>1. PICK i \in 1 .. Len(h) : c \in {i} \X (1 .. Exec(h, s, p, i))
    BY <1>4
  <2>2. c[1] = i
    BY <2>1
  <2> QED
    BY <1>1, <2>1, <2>2
<1>7. CalledIn(g, t, q) = CalledIn(h, s, p)
  BY <1>5
<1>8. ArgsIn(g, CalledIn(h, s, p)) = ArgsIn(h, CalledIn(h, s, p))
  BY <1>6 DEF ArgsIn
<1> QED
  BY <1>7, <1>8

\* What is left of the calls of the last turn.
CallsLeft(h, p) ==
    /\ Len(h) > 0 /\ h[Len(h)].kind = "assistant" /\ Listed(h[Len(h)].calls) /\ Listed(p)
    /\ Len(p) <= Len(h[Len(h)].calls)
    /\ \A k \in 1 .. Len(p) : p[k] = h[Len(h)].calls[Len(h[Len(h)].calls) - Len(p) + k]

\* A call more of the last turn.
NextCall(h, p) == <<Len(h), Len(h[Len(h)].calls) - Len(p) + 1>>
Made(h, s, p, t, n) ==
    /\ CalledIn(h, t, Tail(p)) = CalledIn(h, s, p) \cup {n}
    /\ n \in Nat \X Nat /\ \A c \in CalledIn(h, s, p) : c \in Nat \X Nat => A!Upto(c, n) /\ ~A!Upto(n, c)
    /\ h[n[1]].calls[n[2]] = p[1]
    /\ CallsLeft(h, Tail(p))

LEMMA CallMade ==
    ASSUME NEW h, Listed(h), NEW p, p # <<>>, CallsLeft(h, p),
           NEW s \in {"tools"}, NEW t \in {"tools", "panicked"}
    PROVE  Made(h, s, p, t, NextCall(h, p))
<1> DEFINE m == Len(h)
           cs == h[m].calls
           e == Len(cs) - Len(p)
           q == Tail(p)
<1>1. m \in Nat \ {0} /\ DOMAIN h = 1 .. m /\ h[m].kind = "assistant"
  BY ListedIs DEF CallsLeft
<1>2. Len(cs) \in Nat /\ Len(p) \in Nat /\ e \in Nat /\ \A k \in 1 .. Len(p) : p[k] = cs[e + k]
  BY ListedIs DEF CallsLeft
<1>3. Listed(q) /\ Len(p) > 0 /\ Len(q) = Len(p) - 1 /\ \A k \in 1 .. Len(q) : q[k] = p[k + 1]
  BY DEF CallsLeft, Listed
<1> HIDE DEF m, q
<1>4. /\ \A i \in 1 .. m - 1 : Exec(h, t, q, i) = Exec(h, s, p, i)
      /\ Exec(h, s, p, m) = e /\ Exec(h, t, q, m) = e + 1
  <2>1. ASSUME NEW i \in 1 .. m - 1 PROVE Exec(h, t, q, i) = Exec(h, s, p, i)
    <3>1. i < Len(h)
      BY <1>1 DEF m
    <3> QED
      BY <3>1 DEF Exec
  <2>2. Exec(h, s, p, m) = Len(h[m].calls) - Len(p) /\ Exec(h, t, q, m) = Len(h[m].calls) - Len(q)
    <3>1. ~(m < Len(h))
      BY <1>1 DEF m
    <3> QED
      BY <1>1, <3>1 DEF Exec
  <2> QED
    BY <1>2, <1>3, <2>1, <2>2
<1> HIDE DEF e, cs
<1> DEFINE n == <<m, e + 1>>
<1>5. \A c : c \in CalledIn(h, t, q) <=> \E i \in 1 .. m : c \in {i} \X (1 .. Exec(h, t, q, i))
  BY <1>1 DEF CalledIn
<1>6. \A c : c \in CalledIn(h, s, p) <=> \E i \in 1 .. m : c \in {i} \X (1 .. Exec(h, s, p, i))
  BY <1>1 DEF CalledIn
<1>7. ASSUME NEW c
      PROVE  c \in CalledIn(h, t, q) <=> c \in CalledIn(h, s, p) \/ c = n
  <2>1. ASSUME NEW i \in 1 .. m, c \in {i} \X (1 .. Exec(h, t, q, i))
        PROVE  c \in {i} \X (1 .. Exec(h, s, p, i)) \/ c = n
    <3>1. CASE i < m
      BY <1>1, <1>4, <2>1, <3>1
    <3>2. CASE i = m
      <4>1. c \in {m} \X (1 .. e + 1) /\ 1 .. e + 1 = (1 .. e) \cup {e + 1}
        BY <1>2, <1>4, <2>1, <3>2
      <4> QED
        BY <1>4, <3>2, <4>1
    <3> QED
      BY <1>1, <3>1, <3>2
  <2>2. ASSUME NEW i \in 1 .. m, c \in {i} \X (1 .. Exec(h, s, p, i))
        PROVE  c \in {i} \X (1 .. Exec(h, t, q, i))
    <3>1. CASE i < m
      BY <1>1, <1>4, <2>2, <3>1
    <3>2. CASE i = m
      BY <1>2, <1>4, <2>2, <3>2
    <3> QED
      BY <1>1, <3>1, <3>2
  <2>3. m \in 1 .. m /\ n \in {m} \X (1 .. Exec(h, t, q, m))
    BY <1>1, <1>2, <1>4
  <2> HIDE DEF n
  <2> QED
    BY <1>5, <1>6, <2>1, <2>2, <2>3
<1>8. CalledIn(h, t, q) = CalledIn(h, s, p) \cup {n}
  <2> HIDE DEF n
  <2> QED
    BY <1>7
<1>9. n \in Nat \X Nat
  BY <1>1, <1>2
<1>10. ASSUME NEW c \in CalledIn(h, s, p), c \in Nat \X Nat
       PROVE  A!Upto(c, n) /\ ~A!Upto(n, c)
  <2>1. PICK i \in 1 .. m : c \in {i} \X (1 .. Exec(h, s, p, i))
    BY <1>6
  <2>2. c[1] = i /\ c[2] \in 1 .. Exec(h, s, p, i) /\ n[1] = m /\ n[2] = e + 1
    BY <2>1
  <2>3. CASE i < m
    BY <1>1, <2>2, <2>3 DEF A!Upto
  <2>4. CASE i = m
    <3>1. c[2] \in 1 .. e
      BY <1>4, <2>2, <2>4
    <3> HIDE DEF n
    <3> QED
      BY <1>1, <1>2, <2>2, <2>4, <3>1 DEF A!Upto
  <2> QED
    BY <1>1, <2>1, <2>3, <2>4
<1>11. h[n[1]].calls[n[2]] = p[1]
  <2>1. 1 \in 1 .. Len(p)
    BY <1>2, <1>3
  <2>2. n[1] = m /\ n[2] = e + 1
    OBVIOUS
  <2> HIDE DEF n
  <2> QED
    BY <1>2, <2>1, <2>2 DEF cs
<1>12. CallsLeft(h, q)
  <2>1. Len(q) <= Len(cs) /\ Len(cs) - Len(q) = e + 1
    BY <1>2, <1>3 DEF e
  <2>2. ASSUME NEW k \in 1 .. Len(q)
        PROVE  q[k] = cs[Len(cs) - Len(q) + k]
    <3>1. k + 1 \in 1 .. Len(p) /\ e + (k + 1) = (e + 1) + k
      BY <1>2, <1>3
    <3> QED
      BY <1>2, <1>3, <2>1, <3>1
  <2>3. Listed(cs) /\ Len(h) > 0
    BY <1>1 DEF CallsLeft, cs, m
  <2> QED
    BY <1>1, <1>3, <2>1, <2>2, <2>3 DEF CallsLeft, cs, m
<1> HIDE DEF n
<1>13. NextCall(h, p) = n
  BY DEF NextCall, n, e, cs, m
<1> QED
  BY <1>8, <1>9, <1>10, <1>11, <1>12, <1>13 DEF Made, q

\* Warnings told and waiting.
WarningsAt(h) == {i \in DOMAIN h : h[i].kind = "steering" /\ h[i].text = 0}
WarningsIn(q) == {i \in DOMAIN q : q[i] = 0}
Warned(h, q) == Cardinality(WarningsAt(h)) + Cardinality(WarningsIn(q))
WarningsFinite(h, q) ==
    /\ IsFiniteSet(WarningsAt(h)) /\ Cardinality(WarningsAt(h)) \in Nat
    /\ IsFiniteSet(WarningsIn(q)) /\ Cardinality(WarningsIn(q)) \in Nat

LEMMA WarningsAreFinite ==
    ASSUME NEW h, Listed(h), NEW q \in Seq(Nat) PROVE WarningsFinite(h, q)
<1>1. Len(h) \in Nat /\ DOMAIN h = 1 .. Len(h) /\ Len(q) \in Nat /\ DOMAIN q = 1 .. Len(q)
  BY ListedIs
<1>2. 1 \in Int /\ Len(h) \in Int /\ Len(q) \in Int
  BY <1>1
<1>3. IsFiniteSet(1 .. Len(h)) /\ IsFiniteSet(1 .. Len(q))
  BY <1>2, FS_Interval
<1>4. WarningsAt(h) \in SUBSET (1 .. Len(h)) /\ WarningsIn(q) \in SUBSET (1 .. Len(q))
  BY <1>1 DEF WarningsAt, WarningsIn
<1>5. IsFiniteSet(WarningsAt(h)) /\ IsFiniteSet(WarningsIn(q))
  BY <1>3, <1>4, FS_Subset
<1> QED
  BY <1>5, FS_CardinalityType DEF WarningsFinite

\* A turn that is no steering, and draining the queue.
LEMMA WarningsStay ==
    ASSUME NEW h, Listed(h), NEW g, NEW n \in Nat, Longer(h, g, n),
           \A i \in Len(h) + 1 .. Len(g) : g[i].kind # "steering"
    PROVE  WarningsAt(g) = WarningsAt(h)
<1>1. /\ Len(h) \in Nat /\ DOMAIN h = 1 .. Len(h)
      /\ DOMAIN g = 1 .. Len(g) /\ Len(g) = Len(h) + n /\ \A i \in 1 .. Len(h) : g[i] = h[i]
  BY ListedIs DEF Longer
<1>2. 1 .. Len(g) = (1 .. Len(h)) \cup (Len(h) + 1 .. Len(g))
  BY <1>1
<1>3. ASSUME NEW i
      PROVE  i \in WarningsAt(g) <=> i \in WarningsAt(h)
  <2>1. CASE i \in 1 .. Len(h)
    <3>1. i \in DOMAIN g /\ i \in DOMAIN h /\ g[i] = h[i]
      BY <1>1, <1>2, <2>1
    <3> QED
      BY <3>1, Zenon DEF WarningsAt
  <2>2. CASE i \notin 1 .. Len(h)
    <3>1. i \notin WarningsAt(h)
      BY <1>1, <2>2, Zenon DEF WarningsAt
    <3>2. i \notin WarningsAt(g)
      BY <1>1, <1>2, <2>2, Zenon DEF WarningsAt
    <3> QED
      BY <3>1, <3>2
  <2> QED
    BY <2>1, <2>2
<1> QED
  BY <1>3

LEMMA WarningsDrained ==
    ASSUME NEW h, Listed(h), NEW q \in Seq(Nat)
    PROVE  Warned(A!Drained(h, q), <<>>) = Warned(h, q)
<1> DEFINE d == A!Drained(h, q)
           m == Len(h)
           moved == {m + j : j \in WarningsIn(q)}
           f == [j \in WarningsIn(q) |-> m + j]
<1>1. Longer(h, d, Len(q)) /\ \A j \in 1 .. Len(q) : d[m + j] = A!Steering(q[j])
  BY DrainedIs
<1>2. /\ m \in Nat /\ DOMAIN h = 1 .. m /\ Len(q) \in Nat /\ DOMAIN q = 1 .. Len(q)
      /\ DOMAIN d = 1 .. m + Len(q) /\ \A i \in 1 .. m : d[i] = h[i]
  BY <1>1, ListedIs DEF Longer
<1>3. \A j \in 1 .. Len(q) : d[m + j].kind = "steering" /\ d[m + j].text = q[j]
  <2> HIDE DEF d, m
  <2> TAKE j \in 1 .. Len(q)
  <2>1. d[m + j] = A!Steering(q[j])
    BY <1>1
  <2> QED
    BY <2>1 DEF A!Steering
<1>4. WarningsFinite(h, q)
  BY WarningsAreFinite
<1> HIDE DEF d, m
<1>5. WarningsIn(q) \subseteq 1 .. Len(q) /\ WarningsAt(h) \subseteq 1 .. m
  BY <1>2 DEF WarningsIn, WarningsAt
<1>6. ASSUME NEW i
      PROVE  i \in WarningsAt(d) <=> i \in WarningsAt(h) \/ i \in moved
  <2>1. i \in 1 .. m + Len(q) <=> i \in 1 .. m \/ (i \in Nat /\ i - m \in 1 .. Len(q))
    BY <1>2
  <2>2. CASE i \in 1 .. m
    <3>1. i \notin moved
      BY <1>2, <1>5, <2>2
    <3> QED
      BY <1>2, <2>1, <2>2, <3>1 DEF WarningsAt
  <2>3. CASE i \in Nat /\ i - m \in 1 .. Len(q)
    <3> DEFINE j == i - m
    <3>1. j \in 1 .. Len(q) /\ m + j = i /\ i \notin 1 .. m /\ i \in 1 .. m + Len(q)
      BY <1>2, <2>3
    <3> HIDE DEF j
    <3>2. d[i].kind = "steering" /\ d[i].text = q[j]
      BY <1>3, <3>1
    <3>3. i \in WarningsAt(d) <=> q[j] = 0
      BY <1>2, <3>1, <3>2 DEF WarningsAt
    <3>4. i \in moved <=> j \in WarningsIn(q)
      <4>1. ASSUME NEW k \in WarningsIn(q), m + k = i PROVE k = j
        BY <1>2, <1>5, <3>1, <4>1
      <4> QED
        BY <3>1, <4>1
    <3> QED
      BY <1>2, <1>5, <3>1, <3>3, <3>4 DEF WarningsIn
  <2>4. CASE i \notin 1 .. m + Len(q)
    <3>1. i \notin moved
      BY <1>2, <1>5, <2>4
    <3> QED
      BY <1>2, <1>5, <2>1, <2>4, <3>1 DEF WarningsAt
  <2> QED
    BY <2>1, <2>2, <2>3, <2>4
<1>7. WarningsAt(d) = WarningsAt(h) \cup moved /\ WarningsAt(h) \cap moved = {}
  <2>1. \A i \in moved : i \notin 1 .. m
    BY <1>2, <1>5
  <2> QED
    BY <1>5, <1>6, <2>1
<1>8. IsFiniteSet(moved) /\ Cardinality(moved) = Cardinality(WarningsIn(q))
  <2>1. f \in Bijection(WarningsIn(q), moved)
    <3>1. f \in [WarningsIn(q) -> moved]
      OBVIOUS
    <3>2. \A a, b \in WarningsIn(q) : f[a] = f[b] => a = b
      BY <1>2, <1>5
    <3>3. \A c \in moved : \E a \in WarningsIn(q) : f[a] = c
      OBVIOUS
    <3> QED
      BY <3>1, <3>2, <3>3 DEF Bijection, Injection, Surjection, IsInjective
  <2> HIDE DEF f, moved
  <2> QED
    BY <1>4, <2>1, FS_Bijection DEF WarningsFinite, ExistsBijection
<1> HIDE DEF moved, f
<1>9. Cardinality(WarningsAt(d)) = Cardinality(WarningsAt(h)) + Cardinality(moved)
  <2>1. Cardinality(WarningsAt(h) \cap moved) = 0
    BY <1>7, FS_EmptySet
  <2>2. /\ Cardinality(WarningsAt(h) \cup moved)
             = Cardinality(WarningsAt(h)) + Cardinality(moved) - Cardinality(WarningsAt(h) \cap moved)
        /\ Cardinality(WarningsAt(h)) \in Nat /\ Cardinality(moved) \in Nat
    BY <1>4, <1>8, FS_Union DEF WarningsFinite
  <2> QED
    BY <1>7, <2>1, <2>2
<1>10. WarningsIn(<<>>) = {} /\ Cardinality({}) = 0
  BY FS_EmptySet DEF WarningsIn
<1>11. Warned(d, <<>>) = Warned(h, q)
  <2> DEFINE a == Cardinality(WarningsAt(h))
             b == Cardinality(WarningsIn(q))
  <2>1. Cardinality(WarningsAt(d)) = a + b /\ a \in Nat /\ b \in Nat
    BY <1>4, <1>8, <1>9 DEF WarningsFinite
  <2>2. Warned(d, <<>>) = Cardinality(WarningsAt(d)) + 0
    BY <1>10 DEF Warned
  <2>3. Warned(h, q) = a + b
    BY DEF Warned
  <2> HIDE DEF a, b
  <2> QED
    BY <2>1, <2>2, <2>3
<1> QED
  BY <1>11 DEF d

LEMMA WarningQueued ==
    ASSUME NEW h, Listed(h), NEW q \in Seq(Nat), NEW m \in Nat
    PROVE  Warned(h, Append(q, m)) = IF m = 0 THEN Warned(h, q) + 1 ELSE Warned(h, q)
<1> DEFINE p == Append(q, m)
           e == Len(q) + 1
<1>1. /\ Len(q) \in Nat /\ DOMAIN q = 1 .. Len(q) /\ DOMAIN p = (1 .. Len(q)) \cup {e}
      /\ p[e] = m /\ \A i \in 1 .. Len(q) : p[i] = q[i]
  OBVIOUS
<1>2. WarningsFinite(h, q)
  BY WarningsAreFinite
<1> HIDE DEF p
<1>3. WarningsIn(p) = IF m = 0 THEN WarningsIn(q) \cup {e} ELSE WarningsIn(q)
  BY <1>1 DEF WarningsIn
<1>4. e \notin WarningsIn(q)
  BY <1>1 DEF WarningsIn
<1>5. Cardinality(WarningsIn(q) \cup {e}) = Cardinality(WarningsIn(q)) + 1
  BY <1>2, <1>4, FS_AddElement DEF WarningsFinite
<1>6. Warned(h, p) = IF m = 0 THEN Warned(h, q) + 1 ELSE Warned(h, q)
  BY <1>2, <1>3, <1>5 DEF Warned, WarningsFinite
<1> QED
  BY <1>6 DEF p

\* The calls at which a warning is due, and what the window remembers of the last of them.
Due(S, f, w) == {c \in S : w > 0 /\ Cardinality(Row(S, f, c)) % w = 0}
Remembers(calls, S, f, w) ==
    IF S = {} THEN calls = <<>>
    ELSE \E l : LatestOf(S, l) /\ Streak(calls, Cardinality(Row(S, f, l)), w, f[l])

LogKept(S, f, calls, w, warned) ==
    /\ S \in SUBSET (Nat \X Nat) /\ IsFiniteSet(S) /\ Window(calls, w)
    /\ w > 0 => Remembers(calls, S, f, w)
    /\ warned = Cardinality(Due(S, f, w))

LEMMA RowIsFinite ==
    ASSUME NEW S, IsFiniteSet(S), NEW f, NEW c
    PROVE  IsFiniteSet(Row(S, f, c)) /\ Cardinality(Row(S, f, c)) \in Nat
<1>1. Row(S, f, c) \in SUBSET S
  BY DEF Row
<1>2. IsFiniteSet(Row(S, f, c))
  BY <1>1, FS_Subset
<1> QED
  BY <1>2, FS_CardinalityType

LEMMA DueGrows ==
    ASSUME NEW S, IsFiniteSet(S), NEW f, NEW n, NEW g, Extends(S, f, n, g), NEW w \in Nat,
           NEW due, due <=> w > 0 /\ Cardinality(Row(S \cup {n}, g, n)) % w = 0
    PROVE  /\ Cardinality(Due(S \cup {n}, g, w)) = Cardinality(Due(S, f, w)) + IF due THEN 1 ELSE 0
           /\ Cardinality(Due(S, f, w)) \in Nat
<1> DEFINE T == S \cup {n}
<1>1. n \notin S
  BY RowOfNew
<1>2. Due(S, f, w) \in SUBSET S
  BY DEF Due
<1>3. IsFiniteSet(Due(S, f, w)) /\ Cardinality(Due(S, f, w)) \in Nat
  <2>1. IsFiniteSet(Due(S, f, w))
    BY <1>2, FS_Subset
  <2> QED
    BY <2>1, FS_CardinalityType
<1>4. ASSUME NEW c \in S PROVE c \in Due(T, g, w) <=> c \in Due(S, f, w)
  <2>1. Row(T, g, c) = Row(S, f, c)
    BY RowsStay
  <2> QED
    BY <2>1 DEF Due
<1>5. n \in Due(T, g, w) <=> due
  BY DEF Due
<1>6. Due(T, g, w) \in SUBSET T
  BY DEF Due
<1>7. Due(T, g, w) = IF due THEN Due(S, f, w) \cup {n} ELSE Due(S, f, w)
  <2> DEFINE D == Due(T, g, w)
             C == Due(S, f, w)
  <2>1. /\ \A c \in S : c \in D <=> c \in C
        /\ n \in D <=> due
        /\ D \subseteq S \cup {n} /\ C \subseteq S
    BY <1>2, <1>4, <1>5, <1>6
  <2> HIDE DEF C, D
  <2>2. n \in D => D = C \cup {n}
    BY <2>1
  <2>3. n \notin D => D = C
    BY <2>1
  <2>4. n \in D <=> due
    BY <2>1
  <2>5. D = IF due THEN C \cup {n} ELSE C
    BY <2>2, <2>3, <2>4, Zenon
  <2> QED
    BY <2>5 DEF C, D
<1>8. Cardinality(Due(S, f, w) \cup {n}) = Cardinality(Due(S, f, w)) + 1
  BY <1>1, <1>2, <1>3, FS_AddElement
<1> HIDE DEF T
<1>9. Cardinality(Due(T, g, w)) = Cardinality(Due(S, f, w)) + IF due THEN 1 ELSE 0
  <2>1. CASE due
    BY <1>7, <1>8, <2>1
  <2>2. CASE ~due
    BY <1>3, <1>7, <2>2
  <2> QED
    BY <2>1, <2>2
<1> QED
  BY <1>3, <1>9 DEF T

\* A call more: warned when it is due, and remembered.
LEMMA LogGrows ==
    ASSUME NEW S, NEW f, NEW calls, NEW w, NEW warned, LogKept(S, f, calls, w, warned),
           NEW n, NEW g, Extends(S, f, n, g)
    PROVE  LogKept(S \cup {n}, g, After(calls, w, g[n]), w,
                   warned + IF Looped(Recorded(calls, w, g[n]), w) THEN 1 ELSE 0)
<1> DEFINE T == S \cup {n}
           x == g[n]
           k == Cardinality(Row(T, g, n))
           after == After(calls, w, x)
           looped == Looped(Recorded(calls, w, x), w)
<1>1. S \in SUBSET (Nat \X Nat) /\ IsFiniteSet(S) /\ Window(calls, w) /\ w \in Nat
  BY DEF LogKept, Window
<1>2. T \in SUBSET (Nat \X Nat) /\ IsFiniteSet(T)
  BY <1>1, FS_AddElement DEF Extends, Below
<1>3. LatestOf(T, n) /\ n \notin S
  BY RowOfNew
<1>4. ASSUME w > 0
      PROVE  DetectedAs(calls, w, x, k)
  <2>1. Remembers(calls, S, f, w)
    BY <1>4 DEF LogKept
  <2>2. CASE S = {}
    <3>1. Row(T, g, n) = {n} /\ calls = <<>>
      BY <2>1, <2>2, RowOfNew DEF Remembers
    <3>2. k = 1
      BY <3>1, FS_Singleton
    <3> HIDE DEF k, x
    <3> QED
      BY <1>1, <1>4, <3>1, <3>2, DetectedFirst
  <2>3. CASE S # {}
    <3>1. PICK l : LatestOf(S, l) /\ Streak(calls, Cardinality(Row(S, f, l)), w, f[l])
      BY <2>1, <2>3 DEF Remembers
    <3> DEFINE r == Row(S, f, l)
    <3>2. Row(T, g, n) = (IF x = f[l] THEN r ELSE {}) \cup {n}
      <4>1. \A m : LatestOf(S, m) => Row(S \cup {n}, g, n) = (IF g[n] = f[m] THEN Row(S, f, m) ELSE {}) \cup {n}
        BY RowOfNew
      <4>2. LatestOf(S, l)
        BY <3>1
      <4> QED
        BY <4>1, <4>2
    <3>3. IsFiniteSet(r) /\ Cardinality(r) \in Nat /\ n \notin r
      <4>1. IsFiniteSet(r) /\ Cardinality(r) \in Nat
        BY <1>1, RowIsFinite
      <4>2. r \subseteq S
        BY DEF Row
      <4> QED
        BY <1>3, <4>1, <4>2
    <3> HIDE DEF r, x
    <3>4. k = IF x = f[l] THEN Cardinality(r) + 1 ELSE 1
      <4>1. CASE x = f[l]
        BY <3>2, <3>3, <4>1, FS_AddElement
      <4>2. CASE x # f[l]
        <5>1. Row(T, g, n) = {n}
          BY <3>2, <4>2
        <5> QED
          BY <4>2, <5>1, FS_Singleton
      <4> QED
        BY <4>1, <4>2
    <3>5. Streak(calls, Cardinality(r), w, f[l])
      BY <3>1 DEF r
    <3> HIDE DEF k
    <3>6. DetectedAs(calls, w, x, IF x = f[l] THEN Cardinality(r) + 1 ELSE 1)
      BY <3>5, Detected
    <3> QED
      BY <3>4, <3>6
  <2> QED
    BY <2>2, <2>3
<1>5. looped <=> w > 0 /\ k % w = 0
  <2>1. CASE w > 0
    BY <1>4, <2>1 DEF DetectedAs
  <2>2. CASE ~(w > 0)
    BY <2>2 DEF Looped
  <2> QED
    BY <2>1, <2>2
<1>6. Window(after, w)
  <2>1. Window(Recorded(calls, w, x), w)
    BY <1>1, RecordedIs DEF RecordedAs
  <2>2. Window(<<>>, w)
    BY <1>1 DEF Window, Listed
  <2> QED
    BY <2>1, <2>2 DEF After
<1>7. w > 0 => Remembers(after, T, g, w)
  BY <1>3, <1>4 DEF DetectedAs, Remembers
<1>8. Cardinality(Due(T, g, w)) = Cardinality(Due(S, f, w)) + IF looped THEN 1 ELSE 0
  <2> HIDE DEF looped
  <2> QED
    BY <1>1, <1>5, DueGrows
<1>9. warned = Cardinality(Due(S, f, w))
  BY DEF LogKept
<1> HIDE DEF T, after, looped
<1>10. LogKept(T, g, after, w, warned + IF looped THEN 1 ELSE 0)
  BY <1>2, <1>6, <1>7, <1>8, <1>9 DEF LogKept
<1> QED
  BY <1>10 DEF T, after, looped

\* A turn, and the steering drained after it.
Drains(h, q, e, d) ==
    /\ Listed(d) /\ Longer(h, d, 1 + Len(q)) /\ Len(q) \in Nat
    /\ d[Len(h) + 1] = e /\ \A i \in Len(h) + 2 .. Len(d) : d[i].kind = "steering"
    /\ e.kind # "steering" => Warned(d, <<>>) = Warned(h, q)

LEMMA TurnThenSteering ==
    ASSUME NEW h, Listed(h), NEW q \in Seq(Nat), NEW e
    PROVE  Drains(h, q, e, A!Drained(Append(h, e), q))
<1> DEFINE g == Append(h, e)
           d == A!Drained(g, q)
<1>1. Listed(g) /\ Longer(h, g, 1) /\ g[Len(h) + 1] = e
  BY AppendedIs DEF Longer
<1>2. Longer(g, d, Len(q)) /\ \A j \in 1 .. Len(q) : d[Len(g) + j] = A!Steering(q[j])
  BY <1>1, DrainedIs
<1>3. Len(h) \in Nat /\ Len(q) \in Nat
  BY ListedIs
<1> HIDE DEF g, d
<1>4. /\ Len(g) = Len(h) + 1 /\ Len(d) = Len(g) + Len(q) /\ Listed(d)
      /\ \A i \in 1 .. Len(h) : g[i] = h[i]
      /\ \A i \in 1 .. Len(g) : d[i] = g[i]
  BY <1>1, <1>2 DEF Longer
<1>5. \A i \in 1 .. Len(h) : d[i] = h[i]
  <2> TAKE i \in 1 .. Len(h)
  <2>1. i \in 1 .. Len(g)
    BY <1>3, <1>4
  <2> QED
    BY <1>4, <2>1
<1>6. d[Len(h) + 1] = e
  <2>1. Len(h) + 1 \in 1 .. Len(g)
    BY <1>3, <1>4
  <2> QED
    BY <1>1, <1>4, <2>1
<1>7. ASSUME NEW i \in Len(h) + 2 .. Len(d)
      PROVE  d[i].kind = "steering"
  <2> DEFINE j == i - Len(g)
  <2>1. j \in 1 .. Len(q) /\ Len(g) + j = i
    BY <1>3, <1>4
  <2> HIDE DEF j
  <2>2. d[i] = A!Steering(q[j])
    BY <1>2, <2>1
  <2> QED
    BY <2>2 DEF A!Steering
<1>8. ASSUME e.kind # "steering"
      PROVE  Warned(d, <<>>) = Warned(h, q)
  <2>1. \A i \in Len(h) + 1 .. Len(g) : g[i].kind # "steering"
    <3>1. \A i \in Len(h) + 1 .. Len(g) : i = Len(h) + 1
      BY <1>3, <1>4
    <3> QED
      BY <1>1, <1>8, <3>1
  <2>2. WarningsAt(g) = WarningsAt(h)
    BY <1>1, <2>1, WarningsStay
  <2>3. Warned(d, <<>>) = Warned(g, q)
    BY <1>1, WarningsDrained DEF d
  <2> QED
    BY <2>2, <2>3 DEF Warned
<1>9. Longer(h, d, 1 + Len(q))
  BY <1>3, <1>4, <1>5 DEF Longer
<1>10. Drains(h, q, e, d)
  BY <1>3, <1>4, <1>6, <1>7, <1>8, <1>9 DEF Drains
<1> QED
  BY <1>10 DEF d, g

\* The log of a history h.
Log(h, s, p, calls, w, q) ==
    LET S == CalledIn(h, s, p) IN LogKept(S, ArgsIn(h, S), calls, w, Warned(h, q))

LEMMA LogStays ==
    ASSUME NEW h, Listed(h), NEW g, NEW n \in Nat, Longer(h, g, n), NEW s, NEW p, NEW t, NEW r,
           \A i \in Len(h) + 1 .. Len(g) : Exec(g, t, r, i) = 0,
           Len(h) > 0 => Exec(g, t, r, Len(h)) = Exec(h, s, p, Len(h)),
           NEW calls, NEW w, NEW q, NEW u, Warned(g, u) = Warned(h, q), Log(h, s, p, calls, w, q)
    PROVE  Log(g, t, r, calls, w, u)
<1>1. /\ CalledIn(g, t, r) = CalledIn(h, s, p)
      /\ ArgsIn(g, CalledIn(h, s, p)) = ArgsIn(h, CalledIn(h, s, p))
  BY CallsStay
<1> QED
  BY <1>1 DEF Log

LEMMA LogDrained ==
    ASSUME NEW h, Listed(h), NEW q \in Seq(Nat), NEW e, NEW d, Drains(h, q, e, d), NEW s, NEW p, NEW t, NEW r,
           e.kind \notin {"steering", "assistant"},
           Len(h) > 0 => Exec(h, s, p, Len(h)) = IF h[Len(h)].kind = "assistant" /\ e.kind = "results"
                                                 THEN Len(h[Len(h)].calls) ELSE 0,
           NEW calls, NEW w, Log(h, s, p, calls, w, q)
    PROVE  Log(d, t, r, calls, w, <<>>)
<1>1. /\ Longer(h, d, 1 + Len(q)) /\ 1 + Len(q) \in Nat /\ Len(h) \in Nat
      /\ d[Len(h) + 1] = e /\ Len(d) = Len(h) + (1 + Len(q))
      /\ Warned(d, <<>>) = Warned(h, q)
      /\ \A i \in Len(h) + 2 .. Len(d) : d[i].kind = "steering"
  BY ListedIs DEF Drains, Longer
<1>2. ASSUME NEW i \in Len(h) + 1 .. Len(d)
      PROVE  Exec(d, t, r, i) = 0
  <2>1. d[i].kind # "assistant"
    <3>1. i = Len(h) + 1 \/ i \in Len(h) + 2 .. Len(d)
      BY <1>1
    <3> QED
      BY <1>1, <3>1
  <2> QED
    BY <2>1 DEF Exec
<1>3. ASSUME Len(h) > 0
      PROVE  Exec(d, t, r, Len(h)) = Exec(h, s, p, Len(h))
  <2>1. Len(h) \in 1 .. Len(h) /\ Len(h) < Len(d)
    BY <1>1, <1>3
  <2>2. d[Len(h)] = h[Len(h)]
    BY <1>1, <2>1 DEF Longer
  <2>3. Exec(d, t, r, Len(h)) = IF h[Len(h)].kind # "assistant" THEN 0
                                ELSE IF e.kind = "results" THEN Len(h[Len(h)].calls) ELSE 0
    BY <1>1, <2>1, <2>2, Zenon DEF Exec
  <2> QED
    BY <1>3, <2>3
<1> QED
  BY <1>1, <1>2, <1>3, LogStays

LEMMA LogCalled ==
    ASSUME NEW h, Listed(h), NEW p, p # <<>>, CallsLeft(h, p), NEW t \in {"tools", "panicked"},
           NEW calls, NEW w, NEW q \in Seq(Nat), Log(h, "tools", p, calls, w, q)
    PROVE  Log(h, t, Tail(p), After(calls, w, p[1].args), w,
               IF Looped(Recorded(calls, w, p[1].args), w) THEN Append(q, 0) ELSE q)
<1> DEFINE S == CalledIn(h, "tools", p)
           n == NextCall(h, p)
           f == ArgsIn(h, S)
           g == ArgsIn(h, S \cup {n})
           x == p[1].args
           looped == Looped(Recorded(calls, w, x), w)
           u == IF looped THEN Append(q, 0) ELSE q
<1>1. Made(h, "tools", p, t, n)
  BY CallMade
<1>2. LogKept(S, f, calls, w, Warned(h, q))
  BY DEF Log
<1>3. Extends(S, f, n, g)
  <2>1. S \in SUBSET (Nat \X Nat)
    BY <1>2 DEF LogKept
  <2>2. Below(S, n)
    <3> HIDE DEF S, n
    <3>1. n \in Nat \X Nat /\ \A c \in S : c \in Nat \X Nat => A!Upto(c, n) /\ ~A!Upto(n, c)
      BY <1>1 DEF Made, S
    <3> QED
      BY <2>1, <3>1 DEF Below
  <2>3. \A c \in S : g[c] = f[c]
    BY DEF ArgsIn
  <2> QED
    BY <2>2, <2>3 DEF Extends
<1>4. g[n] = x
  BY <1>1 DEF Made, ArgsIn
<1>5. CalledIn(h, t, Tail(p)) = S \cup {n}
  BY <1>1 DEF Made
<1>6. Warned(h, u) = Warned(h, q) + IF looped THEN 1 ELSE 0
  <2>1. Warned(h, Append(q, 0)) = Warned(h, q) + 1
    BY WarningQueued
  <2>2. Warned(h, q) \in Nat
    BY WarningsAreFinite DEF WarningsFinite, Warned
  <2> HIDE DEF looped
  <2> QED
    BY <2>1, <2>2
<1> HIDE DEF S, n, f, g, x, looped, u
<1>7. LogKept(S \cup {n}, g, After(calls, w, x), w, Warned(h, q) + IF looped THEN 1 ELSE 0)
  BY <1>2, <1>3, <1>4, LogGrows DEF looped
<1>8. LogKept(S \cup {n}, g, After(calls, w, x), w, Warned(h, u))
  BY <1>6, <1>7
<1>9. Log(h, t, Tail(p), After(calls, w, x), w, u)
  BY <1>5, <1>8 DEF Log, g
<1> QED
  BY <1>9 DEF x, u, looped

\* What is picked of a list is a list,
LEMMA FlattenedIsListed ==
    ASSUME NEW S, NEW ps \in Seq(Seq(S))
    PROVE  A!FlattenSeq(ps) \in Seq(S)
<1>1. CASE ps = <<>>
  BY <1>1 DEF A!FlattenSeq
<1>2. CASE ps # <<>>
  <2>1. PICK f : Flattens(S, ps, f) /\ A!FlattenSeq(ps) = f[Len(ps)]
    BY <1>2, Flattened
  <2>2. Len(ps) \in 0 .. Len(ps)
    OBVIOUS
  <2> QED
    BY <2>1, <2>2 DEF Flattens
<1> QED
  BY <1>1, <1>2

LEMMA OfTypeIsListed ==
    ASSUME NEW S, NEW items \in Seq(S), NEW type
    PROVE  A!OfType(items, type) \in Seq({x \in S : x.type = type})
<1> DEFINE ps == [i \in DOMAIN items |-> IF items[i].type = type THEN <<items[i]>> ELSE <<>>]
           P == {x \in S : x.type = type}
<1>1. Len(items) \in Nat /\ DOMAIN items = 1 .. Len(items) /\ \A i \in 1 .. Len(items) : items[i] \in S
  OBVIOUS
<1>2. \A i \in 1 .. Len(items) : (IF items[i].type = type THEN <<items[i]>> ELSE <<>>) \in Seq(P)
  <2> TAKE i \in 1 .. Len(items)
  <2>1. CASE items[i].type = type
    <3>1. items[i] \in P
      BY <1>1, <2>1
    <3> HIDE DEF P
    <3> QED
      BY <2>1, <3>1
  <2>2. CASE items[i].type # type
    BY <2>2
  <2> QED
    BY <2>1, <2>2
<1> HIDE DEF P
<1>3. ps \in [1 .. Len(items) -> Seq(P)]
  BY <1>1, <1>2
<1>4. ps \in Seq(Seq(P))
  <2> HIDE DEF ps
  <2> QED
    BY <1>1, <1>3
<1>5. A!OfType(items, type) = A!FlattenSeq(ps)
  BY DEF A!OfType
<1> HIDE DEF ps
<1>6. A!OfType(items, type) \in Seq(P)
  BY <1>4, <1>5, FlattenedIsListed
<1> QED
  BY <1>6 DEF P

LEMMA MappedIsListed == ASSUME NEW s, Listed(s), NEW f, f = [i \in DOMAIN s |-> f[i]] PROVE Listed(f)
<1>1. Len(s) \in Nat /\ DOMAIN s = 1 .. Len(s)
  BY ListedIs
<1> DEFINE T == {f[i] : i \in 1 .. Len(s)}
<1>2. f \in [1 .. Len(s) -> T]
  BY <1>1
<1> HIDE DEF T
<1>3. f \in Seq(T)
  BY <1>1, <1>2
<1> QED
  BY <1>3 DEF Listed

\* so the calls of an answer are one, of what its body calls.
CallsFrom(rs, cs) == Listed(rs) /\ \A i \in 1 .. Len(rs) : rs[i].args \in cs
BlocksFrom(bs, cs) == \E S : bs \in Seq(S) /\ \A x \in S : x.type = "call" => x.args \in cs

LEMMA AnswersHaveCalls ==
    ASSUME A!SessionAssumption, config \in Sessions, NEW body \in A!Bodies(config), NEW fresh,
           NEW adapter \in A!ResolveProvider(A!BuildRequest, config.registered)
    PROVE  CallsFrom(A!Complete(adapter, [status |-> 200, body |-> body], fresh).calls, config.calls)
<1> DEFINE answer == [status |-> 200, body |-> body]
           calls == A!BlocksOf(body, "call")
<1>1. adapter \in {"anthropic", "openai", "google"}
  <2>1. A!BuildRequest.provider = None
    BY DEF A!BuildRequest, A!Request
  <2>2. adapter \in config.registered
    BY <2>1 DEF A!ResolveProvider
  <2> QED
    BY <2>2 DEF A!SessionAssumption, A!Adapters
<1>2. body # None /\ BlocksFrom(body.blocks, config.calls) /\ body # A!NoCandidates
  <2>1. body # None
    BY DEF A!SessionAssumption
  <2>2. CASE body = [stop |-> "completed", usage |-> None, blocks |-> <<[type |-> "text", text |-> "answer"]>>]
    <3>1. body.blocks = <<[type |-> "text", text |-> "answer"]>> /\ body.stop = "completed"
      BY <2>2
    <3>2. body.blocks \in Seq({[type |-> "text", text |-> "answer"]}) /\ Len(body.blocks) = 1
      BY <3>1
    <3>3. Len(A!NoCandidates.blocks) = 0
      BY DEF A!NoCandidates
    <3>4. BlocksFrom(body.blocks, config.calls)
      <4>1. [type |-> "text", text |-> "answer"].type # "call"
        OBVIOUS
      <4>2. \A x \in {[type |-> "text", text |-> "answer"]} : x.type # "call"
        <5> DEFINE t == [type |-> "text", text |-> "answer"]
        <5>1. t.type # "call"
          BY <4>1
        <5> HIDE DEF t
        <5>2. \A x \in {t} : x.type # "call"
          BY <5>1
        <5> QED
          BY <5>2 DEF t
      <4> DEFINE T == {[type |-> "text", text |-> "answer"]}
      <4>3. body.blocks \in Seq(T) /\ \A x \in T : x.type = "call" => x.args \in config.calls
        BY <3>2, <4>2
      <4> HIDE DEF T
      <4> QED
        BY <4>3 DEF BlocksFrom
    <3>5. body # A!NoCandidates
      <4> DEFINE a == Len(body.blocks)
                 b == Len(A!NoCandidates.blocks)
      <4>1. a = 1 /\ b = 0
        BY <3>2, <3>3
      <4> HIDE DEF a, b
      <4>2. a # b
        BY <4>1
      <4> QED
        BY <4>2, Zenon DEF a, b
    <3> QED
      BY <2>1, <3>4, <3>5, Zenon
  <2>3. ASSUME NEW cs \in UNION {[1 .. n -> config.calls] : n \in 1 .. config.batch},
               body = [stop |-> "tool_use", usage |-> [input |-> 1, output |-> 1],
                       blocks |-> [i \in DOMAIN cs |-> [type |-> "call", name |-> cs[i].tool, args |-> cs[i]]]]
        PROVE  BlocksFrom(body.blocks, config.calls) /\ body # A!NoCandidates
    <3>1. PICK n \in 1 .. config.batch : cs \in [1 .. n -> config.calls]
      BY <2>3
    <3>2. n \in Nat \ {0} /\ DOMAIN cs = 1 .. n
      BY <3>1 DEF A!SessionAssumption
    <3> DEFINE block(i) == [type |-> "call", name |-> cs[i].tool, args |-> cs[i]]
               bs == [i \in 1 .. n |-> block(i)]
               B == {block(i) : i \in 1 .. n}
    <3>3. body.blocks = bs
      BY <2>3, <3>2
    <3>4. bs \in [1 .. n -> B]
      OBVIOUS
    <3>7. \A i \in 1 .. n : cs[i] \in config.calls
      BY <3>1
    <3>8. \A x \in B : x.args \in config.calls
      BY <3>7
    <3> HIDE DEF bs, B
    <3>5. bs \in Seq(B) /\ Len(bs) = n
      BY <3>2, <3>4
    <3>6. Len(A!NoCandidates.blocks) = 0
      BY DEF A!NoCandidates
    <3> QED
      BY <3>2, <3>3, <3>5, <3>6, <3>8 DEF BlocksFrom
  <2> QED
    BY <2>1, <2>2, <2>3 DEF A!Bodies
<1>3. Listed(calls) /\ \A i \in 1 .. Len(calls) : calls[i].args \in config.calls
  <2>1. PICK S : body.blocks \in Seq(S) /\ \A x \in S : x.type = "call" => x.args \in config.calls
    BY <1>2 DEF BlocksFrom
  <2>2. calls \in Seq({x \in S : x.type = "call"})
    BY <2>1, OfTypeIsListed DEF A!BlocksOf
  <2> DEFINE C == {x \in S : x.type = "call"}
  <2>3. \A x \in C : x.args \in config.calls
    BY <2>1
  <2> HIDE DEF C, calls
  <2>4. calls \in Seq(C)
    BY <2>2 DEF C
  <2> QED
    BY <2>3, <2>4 DEF Listed
<1>4. answer.status = 200 /\ answer.body = body /\ 200 # 0 /\ 200 \in 200 .. 299
  OBVIOUS
<1> DEFINE made == [i \in DOMAIN calls |-> [id |-> fresh + i, name |-> calls[i].name, args |-> calls[i].args]]
<1>5. CallsFrom(made, config.calls)
  <2>1. Listed(made)
    BY <1>3, MappedIsListed
  <2>2. Len(calls) \in Nat /\ DOMAIN calls = 1 .. Len(calls)
    BY <1>3, ListedIs
  <2>3. DOMAIN made = 1 .. Len(calls) /\ \A i \in 1 .. Len(calls) : made[i].args = calls[i].args
    BY <2>2
  <2> HIDE DEF made
  <2>4. DOMAIN made = 1 .. Len(made)
    BY <2>1, ListedIs
  <2> HIDE DEF calls
  <2> QED
    BY <1>3, <2>1, <2>3, <2>4 DEF CallsFrom
<1> HIDE DEF answer
<1>6. CASE adapter = "anthropic"
  <2>1. A!Complete(adapter, answer, fresh) = A!AnthropicResponse(body, fresh)
    BY <1>2, <1>4, <1>6 DEF A!Complete, A!AnthropicComplete, A!Completed
  <2>2. A!AnthropicResponse(body, fresh).calls = made
    BY DEF A!AnthropicResponse, A!Response, A!Calls
  <2> QED
    BY <1>5, <2>1, <2>2 DEF answer
<1>7. CASE adapter = "openai"
  <2>1. A!Complete(adapter, answer, fresh) = A!OpenAiResponse(body, fresh)
    BY <1>2, <1>4, <1>7 DEF A!Complete, A!OpenAiComplete, A!Completed
  <2>2. A!OpenAiResponse(body, fresh).calls = made
    BY DEF A!OpenAiResponse, A!Response, A!Calls
  <2> QED
    BY <1>5, <2>1, <2>2 DEF answer
<1>8. CASE adapter = "google"
  <2>1. A!Complete(adapter, answer, fresh) = A!GeminiResponse(body, fresh)
    BY <1>2, <1>4, <1>8 DEF A!Complete, A!GeminiComplete, A!Completed
  <2>2. A!GeminiResponse(body, fresh).calls = made
    BY <1>2 DEF A!GeminiResponse, A!Response, A!Calls
  <2> QED
    BY <1>5, <2>1, <2>2 DEF answer
<1> QED
  BY <1>1, <1>6, <1>7, <1>8

\* Whatever was done before, the window fits the calls in the history, and every warning due was given.
LoopsInv ==
    /\ config \in Sessions
    /\ Log(history, sessionPc, pending, recent, config.window, steering)
    /\ sessionPc \in {"tools", "panicked"} => CallsLeft(history, pending)

LEMMA NothingIsExecuted ==
    ASSUME NEW h, Listed(h), NEW s, s \notin {"tools", "panicked"}, NEW p
    PROVE  Exec(h, s, p, Len(h)) = 0
<1>1. ~(Len(h) < Len(h))
  BY ListedIs
<1> QED
  BY <1>1 DEF Exec

\* The session rests: what is queued, refused or failed changes no call.
LEMMA LoopsRest ==
    ASSUME KeptTypes, LoopsInv, UNCHANGED <<history, recent, config, pending>>,
           sessionPc \notin {"tools", "panicked"}, sessionPc' \notin {"tools", "panicked"},
           Warned(history, steering') = Warned(history, steering)
    PROVE  LoopsInv'
<1>1. Listed(history) /\ Longer(history, history, 0) /\ 0 \in Nat
  BY ListedIs DEF KeptTypes, Longer
<1>2. Exec(history, sessionPc, pending, Len(history)) = 0 /\ Exec(history, sessionPc', pending, Len(history)) = 0
  BY <1>1, NothingIsExecuted
<1>3. \A i \in Len(history) + 1 .. Len(history) : Exec(history, sessionPc', pending, i) = 0
  <2>1. Len(history) \in Nat
    BY <1>1, ListedIs
  <2> QED
    BY <2>1
<1>4. Log(history, sessionPc', pending, recent, config.window, steering')
  BY <1>1, <1>2, <1>3, LogStays DEF LoopsInv
<1> QED
  BY <1>4 DEF LoopsInv

LEMMA LoopsStart ==
    ASSUME KeptTypes, LoopsInv, NEW m, A!StartInput(m), UNCHANGED <<recent, config, pending>>,
           sessionPc \notin {"tools", "panicked"}
    PROVE  LoopsInv'
<1>1. Listed(history) /\ steering \in Seq(Nat)
  BY DEF KeptTypes
<1>2. CASE UNCHANGED <<history, steering>> /\ sessionPc' = "idle"
  BY <1>2, LoopsRest
<1>3. CASE /\ history' = A!Drained(Append(history, A!User(m)), steering) /\ steering' = <<>>
           /\ sessionPc' \in {"done", "request"}
  <2>1. Drains(history, steering, A!User(m), history')
    BY <1>1, <1>3, TurnThenSteering
  <2>2. A!User(m).kind = "user"
    BY DEF A!User
  <2>3. Exec(history, sessionPc, pending, Len(history)) = 0
    BY <1>1, NothingIsExecuted
  <2>4. Log(history', sessionPc', pending, recent, config.window, <<>>)
    BY <1>1, <2>1, <2>2, <2>3, LogDrained DEF LoopsInv
  <2> QED
    BY <1>3, <2>4 DEF LoopsInv
<1> QED
  BY <1>2, <1>3 DEF A!StartInput

LEMMA LoopsAnswered ==
    ASSUME A!SessionAssumption, KeptTypes, LoopsInv, A!LlmAnswers PROVE LoopsInv'
<1>1. PICK adapter \in A!ResolveProvider(A!BuildRequest, config.registered), body \in A!Bodies(config) :
        LET r == A!Complete(adapter, [status |-> 200, body |-> body], 10 * asked)
        IN  /\ history' = Append(history, A!Assistant(r))
            /\ \/ sessionPc' = "done" /\ UNCHANGED pending
               \/ sessionPc' = "tools" /\ pending' = r.calls
  BY DEF A!LlmAnswers
<1> DEFINE r == A!Complete(adapter, [status |-> 200, body |-> body], 10 * asked)
           e == A!Assistant(r)
<1>2. Listed(r.calls)
  BY AnswersHaveCalls DEF LoopsInv, CallsFrom
<1>3. e.kind = "assistant" /\ e.calls = r.calls
  BY DEF A!Assistant
<1>4. /\ history' = Append(history, e)
      /\ \/ sessionPc' = "done" /\ UNCHANGED pending
         \/ sessionPc' = "tools" /\ pending' = r.calls
  BY <1>1
<1> HIDE DEF r, e
<1>5. UNCHANGED <<config, steering, recent>> /\ sessionPc = "request"
  BY DEF A!LlmAnswers, A!queues
<1>6. Listed(history) /\ Longer(history, history', 1) /\ history'[Len(history) + 1] = e
  BY <1>4, AppendedIs DEF KeptTypes
<1>7. Len(history) \in Nat /\ Len(history') = Len(history) + 1 /\ \A i \in 1 .. Len(history) : history'[i] = history[i]
  BY <1>6, ListedIs DEF Longer
<1> DEFINE n == Len(history) + 1
<1>8. Exec(history', sessionPc', pending', n) = 0
  <2>1. ~(n < Len(history')) /\ history'[n].kind = "assistant" /\ history'[n].calls = r.calls
    BY <1>3, <1>6, <1>7
  <2>2. Len(r.calls) - Len(r.calls) = 0
    BY <1>2, ListedIs
  <2> HIDE DEF n
  <2>3. CASE sessionPc' = "done"
    BY <2>1, <2>3, Zenon DEF Exec
  <2>4. CASE sessionPc' = "tools" /\ pending' = r.calls
    <3>1. Exec(history', sessionPc', pending', n) = Len(r.calls) - Len(r.calls)
      BY <2>1, <2>4, Zenon DEF Exec
    <3> QED
      BY <2>2, <3>1
  <2> QED
    BY <1>4, <2>3, <2>4
<1>9. \A i \in Len(history) + 1 .. Len(history') : Exec(history', sessionPc', pending', i) = 0
  <2>1. \A i \in Len(history) + 1 .. Len(history') : i = n
    BY <1>7
  <2> HIDE DEF n
  <2> QED
    BY <1>8, <2>1
<1>10. Len(history) > 0 =>
         Exec(history', sessionPc', pending', Len(history)) = Exec(history, sessionPc, pending, Len(history))
  <2>1. SUFFICES ASSUME Len(history) > 0
                 PROVE  Exec(history', sessionPc', pending', Len(history))
                          = Exec(history, sessionPc, pending, Len(history))
    OBVIOUS
  <2>2. Exec(history, sessionPc, pending, Len(history)) = 0
    BY <1>5, <1>6, NothingIsExecuted
  <2>3. Len(history) < Len(history') /\ history'[Len(history) + 1].kind # "results"
    BY <1>3, <1>6, <1>7
  <2>4. Exec(history', sessionPc', pending', Len(history)) = 0
    BY <2>3, Zenon DEF Exec
  <2> QED
    BY <2>2, <2>4
<1>11. Warned(history', steering) = Warned(history, steering)
  <2>1. \A i \in Len(history) + 1 .. Len(history') : history'[i].kind # "steering"
    <3>1. \A i \in Len(history) + 1 .. Len(history') : i = n
      BY <1>7
    <3> QED
      BY <1>3, <1>6, <3>1
  <2>2. WarningsAt(history') = WarningsAt(history)
    BY <1>6, <2>1, WarningsStay
  <2> QED
    BY <2>2 DEF Warned
<1>12. Log(history', sessionPc', pending', recent, config.window, steering)
  BY <1>6, <1>9, <1>10, <1>11, LogStays DEF LoopsInv
<1>13. sessionPc' \in {"tools", "panicked"} => CallsLeft(history', pending')
  <2>1. SUFFICES ASSUME sessionPc' \in {"tools", "panicked"} PROVE CallsLeft(history', pending')
    OBVIOUS
  <2>2. pending' = r.calls
    BY <1>4, <2>1
  <2>3. Len(history') = n /\ n > 0 /\ history'[n].kind = "assistant" /\ history'[n].calls = r.calls
    BY <1>3, <1>6, <1>7
  <2>4. Len(r.calls) \in Nat /\ \A k \in 1 .. Len(r.calls) : Len(r.calls) - Len(r.calls) + k = k
    BY <1>2, ListedIs
  <2> HIDE DEF n
  <2> QED
    BY <1>2, <2>2, <2>3, <2>4 DEF CallsLeft
<1> QED
  BY <1>5, <1>12, <1>13 DEF LoopsInv

LEMMA LoopsExecuted ==
    ASSUME KeptTypes, LoopsInv, A!ExecuteCall PROVE LoopsInv'
<1> DEFINE x == pending[1].args
           looped == Looped(Recorded(recent, config.window, x), config.window)
<1>1. sessionPc = "tools" /\ pending # <<>> /\ UNCHANGED <<config, history>> /\ pending' = Tail(pending)
  BY DEF A!ExecuteCall
<1>2. sessionPc' \in {"tools", "panicked"}
  BY <1>1 DEF A!ExecuteCall
<1>3. A!Record(pending[1]) = Recorded(recent, config.window, x)
  BY DEF A!Record, Recorded, A!Signature
<1>4. /\ recent' = After(recent, config.window, x)
      /\ steering' = IF looped THEN Append(steering, 0) ELSE steering
  <2>1. A!IsLoop(A!Record(pending[1])) <=> looped
    BY <1>3 DEF A!IsLoop, Looped
  <2>2. /\ recent' = IF A!IsLoop(A!Record(pending[1])) THEN <<>> ELSE A!Record(pending[1])
        /\ steering' = IF A!IsLoop(A!Record(pending[1])) THEN Append(steering, A!Loop) ELSE steering
    BY DEF A!ExecuteCall
  <2> QED
    BY <1>3, <2>1, <2>2 DEF After, A!Loop
<1>5. CallsLeft(history, pending) /\ Listed(history) /\ steering \in Seq(Nat)
  BY <1>1 DEF LoopsInv, KeptTypes
<1>6. Log(history, "tools", pending, recent, config.window, steering)
  BY <1>1 DEF LoopsInv
<1> HIDE DEF looped
<1>7. Log(history, sessionPc', Tail(pending), After(recent, config.window, x), config.window,
          IF looped THEN Append(steering, 0) ELSE steering)
  BY <1>1, <1>2, <1>5, <1>6, LogCalled DEF looped
<1>8. CallsLeft(history, Tail(pending))
  <2>1. Made(history, "tools", pending, "tools", NextCall(history, pending))
    BY <1>1, <1>5, CallMade
  <2> QED
    BY <2>1 DEF Made
<1> QED
  BY <1>1, <1>4, <1>7, <1>8 DEF LoopsInv

LEMMA LoopsRoundEnds ==
    ASSUME KeptTypes, LoopsInv, A!EndRound PROVE LoopsInv'
<1> DEFINE e == A!ToolResults(results)
<1>1. /\ sessionPc = "tools" /\ pending = <<>> /\ sessionPc' = "request" /\ UNCHANGED <<config, recent, pending>>
      /\ history' = A!Drained(Append(history, e), steering) /\ steering' = <<>>
  BY DEF A!EndRound, A!toolVars
<1>2. Listed(history) /\ steering \in Seq(Nat) /\ CallsLeft(history, pending)
  BY <1>1 DEF KeptTypes, LoopsInv
<1>3. e.kind = "results"
  BY DEF A!ToolResults
<1> HIDE DEF e
<1>4. Drains(history, steering, e, history')
  BY <1>1, <1>2, TurnThenSteering
<1>5. Exec(history, sessionPc, pending, Len(history))
        = IF history[Len(history)].kind = "assistant" /\ e.kind = "results" THEN Len(history[Len(history)].calls) ELSE 0
  <2>1. ~(Len(history) < Len(history)) /\ Len(pending) = 0
    BY <1>1, <1>2, ListedIs
  <2>2. history[Len(history)].kind = "assistant" /\ Len(history[Len(history)].calls) \in Nat
    BY <1>2, ListedIs DEF CallsLeft
  <2>3. Exec(history, sessionPc, pending, Len(history)) = Len(history[Len(history)].calls) - Len(pending)
    BY <1>1, <2>1, <2>2, Zenon DEF Exec
  <2> QED
    BY <1>3, <2>1, <2>2, <2>3
<1>6. Log(history', sessionPc', pending', recent, config.window, <<>>)
  BY <1>1, <1>2, <1>3, <1>4, <1>5, LogDrained DEF LoopsInv
<1> QED
  BY <1>1, <1>6 DEF LoopsInv

LEMMA LoopsInvKept ==
    ASSUME A!SessionAssumption, KeptInv, LoopsInv, [A!Next]_A!vars PROVE LoopsInv'
<1>1. KeptTypes
  BY DEF KeptInv
<1>2. CASE A!Steer \/ A!FollowUp
  <2>1. /\ UNCHANGED <<history, recent, config, pending, sessionPc>> /\ sessionPc = "idle"
        /\ steering' = Append(steering, Len(submitted) + 1) \/ steering' = steering
    BY <1>2 DEF A!Steer, A!FollowUp, A!toolVars, A!NewMessage
  <2>2. Len(submitted) + 1 \in Nat \ {0} /\ Listed(history) /\ steering \in Seq(Nat)
    BY <1>1 DEF KeptTypes
  <2>3. Warned(history, steering') = Warned(history, steering)
    BY <2>1, <2>2, WarningQueued
  <2> QED
    BY <1>1, <2>1, <2>3, LoopsRest
<1>3. CASE A!ProcessInput
  <2>1. A!StartInput(A!NewMessage) /\ UNCHANGED <<recent, config, pending>> /\ sessionPc = "idle"
    BY <1>3 DEF A!ProcessInput, A!toolVars
  <2> QED
    BY <1>1, <2>1, LoopsStart
<1>4. CASE A!LlmFails
  <2>1. UNCHANGED <<history, recent, config, pending, steering>> /\ sessionPc = "request" /\ sessionPc' = "idle"
    BY <1>4 DEF A!LlmFails, A!toolVars, A!queues
  <2> QED
    BY <1>1, <2>1, LoopsRest
<1>5. CASE A!LlmAnswers
  BY <1>1, <1>5, LoopsAnswered
<1>6. CASE A!ExecuteCall
  BY <1>1, <1>6, LoopsExecuted
<1>7. CASE A!EndRound
  BY <1>1, <1>7, LoopsRoundEnds
<1>8. CASE A!EndInput
  <2>1. sessionPc = "done" /\ UNCHANGED <<recent, config, pending>>
    BY <1>8 DEF A!EndInput, A!toolVars
  <2>2. CASE followups # <<>>
    <3>1. A!StartInput(followups[1])
      BY <1>8, <2>2 DEF A!EndInput
    <3> QED
      BY <1>1, <2>1, <3>1, LoopsStart
  <2>3. CASE followups = <<>>
    <3>1. UNCHANGED <<history, steering>> /\ sessionPc' = "idle"
      BY <1>8, <2>3 DEF A!EndInput
    <3> QED
      BY <1>1, <2>1, <3>1, LoopsRest
  <2> QED
    BY <2>2, <2>3
<1>9. CASE UNCHANGED A!vars
  BY <1>9 DEF A!vars, LoopsInv
<1> QED
  BY <1>2, <1>3, <1>4, <1>5, <1>6, <1>7, <1>8, <1>9 DEF A!Next, A!Session

LEMMA LoopsAreSteeredNow == ASSUME LoopsInv PROVE A!LoopsAreSteered
<1> DEFINE S == A!Called
           f == ArgsIn(history, S)
           w == config.window
<1>1. S = CalledIn(history, sessionPc, pending)
  BY CalledAre
<1>2. Warned(history, steering) = Cardinality(Due(S, f, w))
  BY <1>1 DEF LoopsInv, Log, LogKept
<1>3. \A c \in S : f[c] = A!CallAt(c)
  BY DEF ArgsIn, A!CallAt
<1> HIDE DEF f
<1>4. ASSUME NEW c \in S PROVE A!InARow(c) = Row(S, f, c)
  <2>1. \A a \in S : f[a] = f[c] <=> A!CallAt(a) = A!CallAt(c)
    BY <1>3
  <2> QED
    BY <2>1 DEF Row, A!InARow
<1>5. Due(S, f, w) = {c \in S : w > 0 /\ A!Cardinality(A!InARow(c)) % w = 0}
  <2>1. \A c \in S : A!Cardinality(A!InARow(c)) = Cardinality(Row(S, f, c))
    BY <1>4, CountsAgree
  <2> QED
    BY <2>1 DEF Due
<1>6. A!Cardinality(WarningsAt(history)) + A!Cardinality(WarningsIn(steering)) = A!Cardinality(Due(S, f, w))
  BY <1>2, CountsAgree DEF Warned
<1> QED
  BY <1>5, <1>6 DEF A!LoopsAreSteered, WarningsAt, WarningsIn, A!Loop

LEMMA LoopsAtFirst == ASSUME A!SessionAssumption, A!Init PROVE LoopsInv
<1>1. /\ config \in Sessions /\ sessionPc = "idle"
      /\ history = <<>> /\ steering = <<>> /\ recent = <<>> /\ config.window \in Nat
  BY DEF A!Init, A!SessionAssumption
<1>2. CalledIn(<<>>, "idle", pending) = {}
  BY DEF CalledIn
<1>3. Warned(<<>>, <<>>) = 0
  <2>1. WarningsAt(<<>>) = {} /\ WarningsIn(<<>>) = {} /\ Cardinality({}) = 0
    BY FS_EmptySet DEF WarningsAt, WarningsIn
  <2>2. Warned(<<>>, <<>>) = 0 + 0
    BY <2>1 DEF Warned
  <2> QED
    BY <2>2
<1>4. LogKept({}, ArgsIn(<<>>, {}), <<>>, config.window, 0)
  <2>1. Due({}, ArgsIn(<<>>, {}), config.window) = {} /\ IsFiniteSet({}) /\ Cardinality({}) = 0
    BY FS_EmptySet DEF Due
  <2>2. Window(<<>>, config.window)
    BY <1>1 DEF Window, Listed
  <2> QED
    BY <2>1, <2>2 DEF LogKept, Remembers
<1>5. Log(<<>>, "idle", pending, <<>>, config.window, <<>>)
  BY <1>2, <1>3, <1>4 DEF Log
<1> QED
  BY <1>1, <1>5 DEF LoopsInv

\* THEOREM: however calls are batched into rounds, and over inputs, failures and panics, a
\* steering message warns exactly each time a run of identical calls reaches another multiple
\* of the window (loop_detector.rs record_and_check, execute_tool_calls).
THEOREM LoopsAreWarned == A!SessionAssumption /\ A!Spec => []A!LoopsAreSteered
<1> SUFFICES ASSUME A!SessionAssumption PROVE A!Spec => []A!LoopsAreSteered
  OBVIOUS
<1>1. A!Init => KeptInv /\ LoopsInv
  BY KeptAtFirst, LoopsAtFirst
<1>2. KeptInv /\ LoopsInv /\ [A!Next]_A!vars => LoopsInv'
  BY LoopsInvKept
<1> QED
  BY <1>1, <1>2, KeptInvKept, LoopsAreSteeredNow, PTL DEF A!Spec

----------------------------------------------------------------------------
(* Rounds, types, and when steering is told.                               *)
RoundInv ==
    /\ sessionPc \in {"idle", "request", "tools", "done", "panicked"}
    /\ state \in {"Idle", "Processing", "AwaitingInput"}
    /\ sessionPc \in {"request", "tools"} => state = "Processing"
    /\ sessionPc = "done" => state = "AwaitingInput"
    /\ round \in Nat /\ config.maxRounds \in Nat /\ round <= config.maxRounds
    /\ sessionPc = "request" => round < config.maxRounds /\ steering = <<>>
    /\ sessionPc = "tools" => round + 1 < config.maxRounds
    /\ DOMAIN Files \subseteq DOMAIN fs

LEMMA ToolsKeepFiles == ASSUME A!ExecuteCall PROVE DOMAIN fs \subseteq DOMAIN fs'
<1>1. PICK p \in {A!Target(pending[1].args)}, run \in Runs :
        fs' = A!RunTool(pending[1].args, p, A!Lines(p), run).fs
  BY DEF A!ExecuteCall
<1>2. \A lines : DOMAIN fs \subseteq DOMAIN A!WithFile(p, lines)
  BY DEF A!WithFile
<1>3. fs' = fs \/ \E lines : fs' = A!WithFile(p, lines)
  BY <1>1 DEF A!RunTool
<1> QED
  BY <1>2, <1>3

LEMMA StartsRound == ASSUME RoundInv, NEW m, A!StartInput(m), UNCHANGED <<config, fs>> PROVE RoundInv'
<1>1. CASE sessionPc' = "idle" /\ UNCHANGED <<state, steering, round>>
  BY <1>1 DEF RoundInv
<1>2. CASE /\ state' = IF config.maxRounds = 0 THEN "AwaitingInput" ELSE "Processing"
           /\ steering' = <<>> /\ round' = 0
           /\ sessionPc' = IF config.maxRounds = 0 THEN "done" ELSE "request"
  BY <1>2 DEF RoundInv
<1> QED
  BY <1>1, <1>2 DEF A!StartInput

LEMMA RoundInvKept == ASSUME RoundInv, [A!Next]_A!vars PROVE RoundInv'
<1>1. CASE A!Steer \/ A!FollowUp
  <2>1. UNCHANGED <<sessionPc, state, round, config, fs>> /\ sessionPc = "idle"
    BY <1>1 DEF A!Steer, A!FollowUp, A!toolVars
  <2> QED
    BY <2>1 DEF RoundInv
<1>2. CASE A!ProcessInput
  <2>1. A!StartInput(A!NewMessage) /\ UNCHANGED <<config, fs>>
    BY <1>2 DEF A!ProcessInput, A!toolVars
  <2> QED
    BY <2>1, StartsRound
<1>3. CASE A!LlmFails
  <2>1. UNCHANGED <<state, round, config, fs>> /\ sessionPc' = "idle"
    BY <1>3 DEF A!LlmFails, A!toolVars
  <2> QED
    BY <2>1 DEF RoundInv
<1>4. CASE A!LlmAnswers
  <2>1. /\ UNCHANGED <<round, config, fs, steering>> /\ sessionPc = "request"
        /\ \/ sessionPc' = "done" /\ state' = "AwaitingInput"
           \/ sessionPc' = "tools" /\ state' = state /\ ~(round + 1 >= config.maxRounds)
    BY <1>4 DEF A!LlmAnswers, A!queues
  <2> QED
    BY <2>1 DEF RoundInv
<1>5. CASE A!ExecuteCall
  <2>1. UNCHANGED <<state, round, config>> /\ sessionPc = "tools" /\ sessionPc' \in {"tools", "panicked"}
    BY <1>5 DEF A!ExecuteCall
  <2>2. DOMAIN fs \subseteq DOMAIN fs'
    BY <1>5, ToolsKeepFiles
  <2> QED
    BY <2>1, <2>2 DEF RoundInv
<1>6. CASE A!EndRound
  <2>1. /\ UNCHANGED <<state, config, fs>> /\ sessionPc = "tools" /\ sessionPc' = "request"
        /\ round' = round + 1 /\ steering' = <<>>
    BY <1>6 DEF A!EndRound, A!toolVars
  <2> QED
    BY <2>1 DEF RoundInv
<1>7. CASE A!EndInput
  <2>1. UNCHANGED <<config, fs>>
    BY <1>7 DEF A!EndInput, A!toolVars
  <2>2. CASE followups # <<>>
    <3>1. A!StartInput(followups[1])
      BY <1>7, <2>2 DEF A!EndInput
    <3> QED
      BY <2>1, <3>1, StartsRound
  <2>3. CASE followups = <<>>
    <3>1. UNCHANGED <<round, steering>> /\ sessionPc' = "idle" /\ state' = "Idle"
      BY <1>7, <2>3 DEF A!EndInput
    <3> QED
      BY <2>1, <3>1 DEF RoundInv
  <2> QED
    BY <2>2, <2>3
<1>8. CASE UNCHANGED A!vars
  BY <1>8 DEF A!vars, RoundInv
<1> QED
  BY <1>1, <1>2, <1>3, <1>4, <1>5, <1>6, <1>7, <1>8 DEF A!Next, A!Session

LEMMA RoundAtFirst == ASSUME A!SessionAssumption, A!Init PROVE RoundInv
<1>1. /\ sessionPc = "idle" /\ state = "Idle" /\ round = 0 /\ fs = Files /\ config.maxRounds \in Nat
  BY DEF A!Init, A!SessionAssumption
<1> QED
  BY <1>1 DEF RoundInv

\* THEOREM: a session's variables have their types: in particular the window of recent calls is
\* never longer than configured, rounds stay within their limit and no file disappears; the session
\* is Processing in its rounds and has come to AwaitingInput when an input is done; and what was
\* steered is in the history whenever the model is asked (process_single_input).
THEOREM SessionIsTyped == A!SessionAssumption /\ A!Spec => [](A!TypeOK /\ A!SteeringIsPrompt)
<1> SUFFICES ASSUME A!SessionAssumption PROVE A!Spec => [](A!TypeOK /\ A!SteeringIsPrompt)
  OBVIOUS
<1>1. A!Init => RoundInv
  BY RoundAtFirst
<1>2. A!Init => KeptInv /\ LoopsInv
  BY KeptAtFirst, LoopsAtFirst
<1>3. KeptInv /\ LoopsInv /\ [A!Next]_A!vars => LoopsInv'
  BY LoopsInvKept
<1>4. RoundInv /\ LoopsInv => A!TypeOK /\ A!SteeringIsPrompt
  BY DEF RoundInv, LoopsInv, Log, LogKept, Window, A!TypeOK, A!SteeringIsPrompt
<1> QED
  BY <1>1, <1>2, <1>3, <1>4, KeptInvKept, RoundInvKept, PTL DEF A!Spec

----------------------------------------------------------------------------
(* Results next to their calls, in the history and on the wire.            *)
Answers(rs, cs) ==
    Listed(rs) /\ Listed(cs) /\ Len(rs) = Len(cs) /\ \A k \in 1 .. Len(rs) : rs[k].id = cs[k].id
TurnTold(h, i) ==
    /\ h[i].kind \in {"user", "steering", "assistant", "results"}
    /\ h[i].kind = "assistant" => Listed(h[i].calls)
    /\ h[i].kind = "results" => i > 1 /\ h[i - 1].kind = "assistant" /\ Answers(h[i].results, h[i - 1].calls)
Told(h) == \A i \in 1 .. Len(h) : TurnTold(h, i)

\* What the round has so far: a result for each call but those pending.
ResultsSoFar(h, p, rs) ==
    /\ Listed(rs) /\ Len(rs) + Len(p) = Len(h[Len(h)].calls)
    /\ \A k \in 1 .. Len(rs) : rs[k].id = h[Len(h)].calls[k].id

AnsweredInv ==
    Told(history) /\ (sessionPc = "tools" => ResultsSoFar(history, pending, results))

LEMMA ToldLonger ==
    ASSUME NEW h, Listed(h), Told(h), NEW g, NEW n \in Nat, Longer(h, g, n),
           \A i \in Len(h) + 1 .. Len(g) : TurnTold(g, i)
    PROVE  Told(g)
<1>1. Len(h) \in Nat /\ Len(g) = Len(h) + n /\ \A i \in 1 .. Len(h) : g[i] = h[i]
  BY ListedIs DEF Longer
<1>2. ASSUME NEW i \in 1 .. Len(h) PROVE TurnTold(g, i)
  <2>1. TurnTold(h, i) /\ g[i] = h[i]
    BY <1>1 DEF Told
  <2>2. CASE i > 1
    <3>1. i - 1 \in 1 .. Len(h)
      BY <1>1, <2>2
    <3>2. g[i - 1] = h[i - 1]
      BY <1>1, <3>1
    <3> QED
      BY <2>1, <3>2, Zenon DEF TurnTold
  <2>3. CASE ~(i > 1)
    BY <2>1, <2>3, Zenon DEF TurnTold
  <2> QED
    BY <2>2, <2>3
<1>3. \A i \in 1 .. Len(g) : i \in 1 .. Len(h) \/ i \in Len(h) + 1 .. Len(g)
  BY <1>1
<1> QED
  BY <1>2, <1>3 DEF Told

\* A turn and the steering after it.
LEMMA ToldDrained ==
    ASSUME NEW h, Listed(h), Told(h), NEW q \in Seq(Nat), NEW e, NEW d, Drains(h, q, e, d),
           e.kind = "user" \/ (e.kind = "results" /\ Len(h) > 0 /\ h[Len(h)].kind = "assistant"
                               /\ Answers(e.results, h[Len(h)].calls))
    PROVE  Told(d)
<1>1. /\ Len(h) \in Nat /\ Longer(h, d, 1 + Len(q)) /\ 1 + Len(q) \in Nat /\ Len(d) = Len(h) + (1 + Len(q))
      /\ d[Len(h) + 1] = e /\ \A i \in Len(h) + 2 .. Len(d) : d[i].kind = "steering"
      /\ \A i \in 1 .. Len(h) : d[i] = h[i]
  BY ListedIs DEF Drains, Longer
<1> DEFINE m == Len(h) + 1
<1>2. TurnTold(d, m)
  <2>1. CASE e.kind = "user"
    BY <1>1, <2>1 DEF TurnTold
  <2>2. CASE e.kind = "results" /\ Len(h) > 0 /\ h[Len(h)].kind = "assistant" /\ Answers(e.results, h[Len(h)].calls)
    <3>1. m > 1 /\ m - 1 = Len(h) /\ d[m - 1] = h[Len(h)] /\ d[m] = e
      BY <1>1, <2>2
    <3> HIDE DEF m
    <3> QED
      BY <2>2, <3>1 DEF TurnTold
  <2> QED
    BY <2>1, <2>2
<1>3. \A i \in Len(h) + 1 .. Len(d) : TurnTold(d, i)
  <2> TAKE i \in Len(h) + 1 .. Len(d)
  <2>1. i = m \/ i \in Len(h) + 2 .. Len(d)
    BY <1>1
  <2> HIDE DEF m
  <2>2. CASE i \in Len(h) + 2 .. Len(d)
    BY <1>1, <2>2 DEF TurnTold
  <2> QED
    BY <1>2, <2>1, <2>2
<1> QED
  BY <1>1, <1>3, ToldLonger

LEMMA StartTold ==
    ASSUME KeptTypes, AnsweredInv, NEW m, A!StartInput(m) PROVE AnsweredInv'
<1>1. Listed(history) /\ steering \in Seq(Nat)
  BY DEF KeptTypes
<1>2. CASE UNCHANGED history /\ sessionPc' = "idle"
  BY <1>2 DEF AnsweredInv
<1>3. CASE /\ history' = A!Drained(Append(history, A!User(m)), steering)
           /\ sessionPc' \in {"done", "request"}
  <2>1. Drains(history, steering, A!User(m), history')
    BY <1>1, <1>3, TurnThenSteering
  <2>2. A!User(m).kind = "user"
    BY DEF A!User
  <2>3. Told(history')
    BY <1>1, <2>1, <2>2, ToldDrained DEF AnsweredInv
  <2> QED
    BY <1>3, <2>3 DEF AnsweredInv
<1> QED
  BY <1>2, <1>3 DEF A!StartInput

LEMMA AnswerTold ==
    ASSUME A!SessionAssumption, KeptTypes, LoopsInv, AnsweredInv, A!LlmAnswers PROVE AnsweredInv'
<1>1. PICK adapter \in A!ResolveProvider(A!BuildRequest, config.registered), body \in A!Bodies(config) :
        LET r == A!Complete(adapter, [status |-> 200, body |-> body], 10 * asked)
        IN  /\ history' = Append(history, A!Assistant(r))
            /\ \/ sessionPc' = "done" /\ UNCHANGED pending
               \/ sessionPc' = "tools" /\ pending' = r.calls
  BY DEF A!LlmAnswers
<1> DEFINE r == A!Complete(adapter, [status |-> 200, body |-> body], 10 * asked)
           e == A!Assistant(r)
           n == Len(history) + 1
<1>2. Listed(r.calls)
  BY AnswersHaveCalls DEF LoopsInv, CallsFrom
<1>3. e.kind = "assistant" /\ e.calls = r.calls
  BY DEF A!Assistant
<1>4. /\ history' = Append(history, e) /\ results' = <<>>
      /\ sessionPc' = "tools" => pending' = r.calls
  BY <1>1 DEF A!LlmAnswers
<1> HIDE DEF r, e
<1>5. Listed(history) /\ Longer(history, history', 1) /\ history'[Len(history) + 1] = e
  BY <1>4, AppendedIs DEF KeptTypes
<1>6. Len(history) \in Nat /\ Len(history') = Len(history) + 1
  BY <1>5, ListedIs DEF Longer
<1>7. \A i \in Len(history) + 1 .. Len(history') : TurnTold(history', i)
  <2>1. \A i \in Len(history) + 1 .. Len(history') : i = n
    BY <1>6
  <2>2. history'[n] = e
    BY <1>5
  <2> HIDE DEF n
  <2>3. TurnTold(history', n)
    BY <1>2, <1>3, <2>2 DEF TurnTold
  <2> QED
    BY <2>1, <2>3
<1>8. Told(history')
  BY <1>5, <1>7, ToldLonger DEF AnsweredInv
<1>9. sessionPc' = "tools" => ResultsSoFar(history', pending', results')
  <2>1. Len(r.calls) \in Nat /\ Len(<<>>) = 0 /\ Listed(<<>>)
    BY <1>2, ListedIs DEF Listed
  <2>2. history'[Len(history')].calls = r.calls
    BY <1>3, <1>5, <1>6
  <2> QED
    BY <1>4, <2>1, <2>2 DEF ResultsSoFar
<1> QED
  BY <1>8, <1>9 DEF AnsweredInv

LEMMA CallTold ==
    ASSUME LoopsInv, AnsweredInv, A!ExecuteCall PROVE AnsweredInv'
<1> DEFINE c == pending[1]
           cs == history[Len(history)].calls
           n == Len(results)
<1>1. /\ sessionPc = "tools" /\ pending # <<>> /\ UNCHANGED history /\ pending' = Tail(pending)
      /\ CallsLeft(history, pending) /\ ResultsSoFar(history, pending, results)
  BY DEF A!ExecuteCall, LoopsInv, AnsweredInv
<1>2. sessionPc' = "tools" => \E b : results' = Append(results, [id |-> c.id, name |-> c.name, error |-> b])
  BY <1>1 DEF A!ExecuteCall
<1>3. SUFFICES ASSUME sessionPc' = "tools" PROVE ResultsSoFar(history, Tail(pending), results')
  BY <1>1 DEF AnsweredInv
<1>4. PICK b : results' = Append(results, [id |-> c.id, name |-> c.name, error |-> b])
  BY <1>2, <1>3
<1> DEFINE e == [id |-> c.id, name |-> c.name, error |-> b]
<1>5. Longer(results, results', 1) /\ results'[n + 1] = e /\ e.id = c.id
  BY <1>1, <1>4, AppendedIs DEF ResultsSoFar
<1>6. /\ Len(pending) \in Nat \ {0} /\ Len(Tail(pending)) = Len(pending) - 1 /\ n \in Nat
      /\ Len(results') = n + 1 /\ Listed(results') /\ n + Len(pending) = Len(cs) /\ Len(cs) \in Nat
  <2>1. Listed(results) /\ Listed(cs) /\ Listed(pending) /\ n + Len(pending) = Len(cs)
    BY <1>1 DEF CallsLeft, ResultsSoFar
  <2>2. n \in Nat /\ Len(cs) \in Nat /\ Len(pending) \in Nat
    BY <2>1, ListedIs
  <2>3. Len(pending) # 0 /\ Len(Tail(pending)) = Len(pending) - 1
    BY <1>1, <2>1 DEF Listed
  <2>4. Len(results') = n + 1 /\ Listed(results')
    BY <1>5 DEF Longer
  <2> QED
    BY <2>1, <2>2, <2>3, <2>4
<1>7. c = cs[n + 1]
  <2>1. 1 \in 1 .. Len(pending) /\ Len(cs) - Len(pending) + 1 = n + 1
    BY <1>6
  <2>2. \A k \in 1 .. Len(pending) : pending[k] = cs[Len(cs) - Len(pending) + k]
    BY <1>1 DEF CallsLeft
  <2> HIDE DEF cs, n
  <2> QED
    BY <2>1, <2>2
<1> HIDE DEF c, cs, n, e
<1>8. ASSUME NEW k \in 1 .. Len(results') PROVE results'[k].id = cs[k].id
  <2>1. CASE k = n + 1
    BY <1>5, <1>7, <2>1
  <2>2. CASE k \in 1 .. n
    BY <1>1, <1>5, <2>2 DEF Longer, ResultsSoFar, n, cs
  <2> QED
    BY <1>6, <2>1, <2>2
<1>9. Len(results') + Len(Tail(pending)) = Len(cs)
  BY <1>6
<1> QED
  BY <1>6, <1>8, <1>9 DEF ResultsSoFar, cs

LEMMA AnsweredInvKept ==
    ASSUME A!SessionAssumption, KeptInv, LoopsInv, AnsweredInv, [A!Next]_A!vars PROVE AnsweredInv'
<1>1. KeptTypes
  BY DEF KeptInv
<1>2. CASE A!Steer \/ A!FollowUp \/ A!LlmFails
  <2>1. UNCHANGED history /\ sessionPc' = "idle"
    BY <1>2 DEF A!Steer, A!FollowUp, A!LlmFails
  <2> QED
    BY <2>1 DEF AnsweredInv
<1>3. CASE A!ProcessInput
  <2>1. A!StartInput(A!NewMessage)
    BY <1>3 DEF A!ProcessInput
  <2> QED
    BY <1>1, <2>1, StartTold
<1>4. CASE A!LlmAnswers
  BY <1>1, <1>4, AnswerTold
<1>5. CASE A!ExecuteCall
  BY <1>5, CallTold
<1>6. CASE A!EndRound
  <2> DEFINE e == A!ToolResults(results)
  <2>1. /\ sessionPc = "tools" /\ pending = <<>> /\ sessionPc' = "request"
        /\ history' = A!Drained(Append(history, e), steering)
    BY <1>6 DEF A!EndRound
  <2>2. /\ Listed(history) /\ steering \in Seq(Nat)
        /\ CallsLeft(history, pending) /\ ResultsSoFar(history, pending, results)
    BY <1>1, <2>1 DEF KeptTypes, LoopsInv, AnsweredInv
  <2>3. e.kind = "results" /\ e.results = results
    BY DEF A!ToolResults
  <2> HIDE DEF e
  <2>4. Drains(history, steering, e, history')
    BY <2>1, <2>2, TurnThenSteering
  <2>5. Answers(e.results, history[Len(history)].calls) /\ Len(history) > 0 /\ history[Len(history)].kind = "assistant"
    <3>1. Len(pending) = 0 /\ Len(results) \in Nat
      BY <2>1, <2>2, ListedIs DEF ResultsSoFar
    <3> QED
      BY <2>2, <2>3, <3>1 DEF Answers, CallsLeft, ResultsSoFar
  <2>6. Told(history')
    BY <2>2, <2>3, <2>4, <2>5, ToldDrained DEF AnsweredInv
  <2> QED
    BY <2>1, <2>6 DEF AnsweredInv
<1>7. CASE A!EndInput
  <2>1. CASE followups # <<>>
    <3>1. A!StartInput(followups[1])
      BY <1>7, <2>1 DEF A!EndInput
    <3> QED
      BY <1>1, <3>1, StartTold
  <2>2. CASE followups = <<>>
    <3>1. UNCHANGED history /\ sessionPc' = "idle"
      BY <1>7, <2>2 DEF A!EndInput
    <3> QED
      BY <3>1 DEF AnsweredInv
  <2> QED
    BY <2>1, <2>2
<1>8. CASE UNCHANGED A!vars
  BY <1>8 DEF A!vars, AnsweredInv
<1> QED
  BY <1>2, <1>3, <1>4, <1>5, <1>6, <1>7, <1>8 DEF A!Next, A!Session

----------------------------------------------------------------------------
(* Edits, whatever else a session does: files and arguments stay text.     *)
FilesAreText(Line, files) == \A p \in DOMAIN files : files[p].kind = "file" => files[p].lines \in Seq(Line)
TextInv(Line) == config \in Sessions /\ FilesAreText(Line, fs) /\ CallsFrom(pending, config.calls)

LEMMA ReplacedIsText ==
    ASSUME NEW Line, NEW file \in Seq(Line), NEW old, NEW new \in Seq(Line), NEW starts
    PROVE  A!ReplaceRuns(file, old, new, starts) \in Seq(Line)
<1> DEFINE covered(i) == \E s \in starts : i \in s .. s + Len(old) - 1
           ps == [i \in DOMAIN file |-> IF i \in starts THEN new ELSE IF covered(i) THEN <<>> ELSE <<file[i]>>]
<1>1. Len(file) \in Nat /\ DOMAIN file = 1 .. Len(file) /\ \A i \in 1 .. Len(file) : file[i] \in Line
  OBVIOUS
<1>2. A!ReplaceRuns(file, old, new, starts) = A!FlattenSeq(ps)
  BY DEF A!ReplaceRuns
<1> HIDE DEF covered
<1>3. ps \in [1 .. Len(file) -> Seq(Line)]
  BY <1>1
<1> HIDE DEF ps
<1>4. ps \in Seq(Seq(Line))
  BY <1>1, <1>3
<1> QED
  BY <1>2, <1>4, FlattenedIsListed

LEMMA WrittenIsText ==
    ASSUME NEW Line, FilesAreText(Line, fs), NEW p, NEW lines \in Seq(Line)
    PROVE  FilesAreText(Line, A!WithFile(p, lines))
<1> DEFINE entry == [kind |-> "file", lines |-> lines]
           files == A!WithFile(p, lines)
<1>1. DOMAIN files = DOMAIN fs \cup {p} /\ \A q \in DOMAIN files : files[q] = IF q = p THEN entry ELSE fs[q]
  BY DEF A!WithFile
<1>2. entry.lines = lines
  OBVIOUS
<1> HIDE DEF entry, files
<1>3. FilesAreText(Line, files)
  BY <1>1, <1>2 DEF FilesAreText
<1> QED
  BY <1>3 DEF files

LEMMA CallKeepsText ==
    ASSUME NEW Line, A!TextAssumption(Line), TextInv(Line), A!ExecuteCall PROVE FilesAreText(Line, fs)'
<1> DEFINE a == pending[1].args
           t == A!Target(a)
           lines == A!Lines(t)
           edited == A!EditFile(lines, a.old, a.new, a.all)
<1>1. PICK run \in Runs : fs' = A!RunTool(a, t, lines, run).fs
  BY DEF A!ExecuteCall
<1>2. a \in config.calls
  <2>1. Len(pending) \in Nat /\ pending # <<>> /\ Listed(pending)
    BY ListedIs DEF TextInv, CallsFrom, A!ExecuteCall
  <2>2. 1 \in 1 .. Len(pending)
    BY <2>1, EmptySeq DEF Listed
  <2> QED
    BY <2>2 DEF TextInv, CallsFrom
<1>3. lines = None \/ lines \in Seq(Line)
  BY DEF A!Lines, TextInv, FilesAreText
<1> HIDE DEF a, t, lines
<1>4. CASE a.tool = "edit_file" /\ edited.kind = "ok"
  <2>1. fs' = A!WithFile(t, edited.file)
    BY <1>1, <1>4 DEF A!RunTool
  <2>2. lines # None
    BY <1>4 DEF A!EditFile, A!Failed
  <2>3. edited = A!Ok(A!Ones(1), A!ReplaceRuns(lines, a.old, a.new, A!Matches(lines, a.old)))
    BY <1>4 DEF A!EditFile, A!Failed
  <2>4. edited.file = A!ReplaceRuns(lines, a.old, a.new, A!Matches(lines, a.old))
    BY <2>3 DEF A!Ok
  <2>5. a.new \in Seq(Line)
    BY <1>2, <1>4 DEF A!TextAssumption, TextInv
  <2> HIDE DEF edited
  <2>6. edited.file \in Seq(Line)
    BY <1>3, <2>2, <2>4, <2>5, ReplacedIsText
  <2> QED
    BY <2>1, <2>6, WrittenIsText DEF TextInv
<1>5. CASE a.tool = "write_file"
  <2>1. fs' = fs \/ fs' = A!WithFile(t, a.content)
    BY <1>1, <1>5 DEF A!RunTool
  <2>2. a.content \in Seq(Line)
    BY <1>2, <1>5 DEF A!TextAssumption, TextInv
  <2> QED
    BY <2>1, <2>2, WrittenIsText DEF TextInv
<1>6. CASE ~(a.tool = "edit_file" /\ edited.kind = "ok") /\ a.tool # "write_file"
  <2>1. fs' = fs
    BY <1>1, <1>6 DEF A!RunTool
  <2> QED
    BY <2>1 DEF TextInv
<1> QED
  BY <1>4, <1>5, <1>6

LEMMA CallsStayKnown ==
    ASSUME A!SessionAssumption, config \in Sessions, NEW calls, CallsFrom(pending, calls), calls = config.calls,
           [A!Next]_A!vars
    PROVE  CallsFrom(pending, calls)'
<1>1. CASE A!LlmAnswers
  <2>1. PICK adapter \in A!ResolveProvider(A!BuildRequest, config.registered), body \in A!Bodies(config) :
          \/ UNCHANGED pending
          \/ pending' = A!Complete(adapter, [status |-> 200, body |-> body], 10 * asked).calls
    BY <1>1 DEF A!LlmAnswers
  <2> QED
    BY <2>1, AnswersHaveCalls
<1>2. CASE A!ExecuteCall
  <2>1. PICK T : pending \in Seq(T)
    BY DEF CallsFrom, Listed
  <2>2. pending # <<>> /\ pending' = Tail(pending)
    BY <1>2 DEF A!ExecuteCall
  <2>3. /\ Tail(pending) \in Seq(T) /\ Len(Tail(pending)) = Len(pending) - 1 /\ Len(pending) \in Nat
        /\ \A i \in 1 .. Len(Tail(pending)) : Tail(pending)[i] = pending[i + 1] /\ i + 1 \in 1 .. Len(pending)
    BY <2>1, <2>2
  <2> QED
    BY <2>2, <2>3 DEF CallsFrom, Listed
<1>3. CASE UNCHANGED pending
  BY <1>3
<1> QED
  BY <1>1, <1>2, <1>3 DEF A!Next, A!Session, A!vars, A!Steer, A!FollowUp, A!ProcessInput, A!LlmFails, A!EndRound,
     A!EndInput, A!toolVars

LEMMA TextInvKept ==
    ASSUME A!SessionAssumption, NEW Line, A!TextAssumption(Line), TextInv(Line), [A!Next]_A!vars PROVE TextInv(Line)'
<1>1. config' = config
  BY DEF A!Next, A!Session, A!vars, A!Steer, A!FollowUp, A!ProcessInput, A!LlmFails, A!LlmAnswers, A!ExecuteCall,
     A!EndRound, A!EndInput
<1>2. FilesAreText(Line, fs)'
  <2>1. CASE A!ExecuteCall
    BY <2>1, CallKeepsText
  <2>2. CASE ~A!ExecuteCall
    <3>1. fs' = fs
      BY <2>2, OnlyCallsTouchFiles
    <3> QED
      BY <3>1 DEF TextInv, FilesAreText
  <2> QED
    BY <2>1, <2>2
<1>3. CallsFrom(pending, config.calls)'
  <2>1. CallsFrom(pending, config.calls)
    BY DEF TextInv
  <2> DEFINE calls == config.calls
  <2>2. config \in Sessions /\ CallsFrom(pending', calls)
    BY <2>1, CallsStayKnown DEF TextInv
  <2> QED
    BY <1>1, <2>2
<1> QED
  BY <1>1, <1>2, <1>3 DEF TextInv

LEMMA TextIsFound == ASSUME NEW Line, A!TextAssumption(Line), TextInv(Line), A!ExecuteCall PROVE TextsOf(Line)
<1>1. pending # <<>> /\ Listed(pending)
  BY DEF A!ExecuteCall, TextInv, CallsFrom
<1>2. 1 \in 1 .. Len(pending)
  BY <1>1, EmptySeq, ListedIs DEF Listed
<1>3. pending[1].args \in config.calls /\ config \in Sessions
  BY <1>2 DEF TextInv, CallsFrom
<1> QED
  BY <1>3 DEF TextInv, A!TextAssumption, TextsOf, FilesAreText

LEMMA TextAtFirst == ASSUME NEW Line, A!TextAssumption(Line), A!Init PROVE TextInv(Line)
<1>1. config \in Sessions /\ fs = Files /\ pending = <<>>
  BY DEF A!Init
<1>2. Listed(pending) /\ Len(pending) = 0
  BY <1>1 DEF Listed
<1> QED
  BY <1>1, <1>2 DEF TextInv, A!TextAssumption, FilesAreText, CallsFrom

\* THEOREM: if the files at the start and the arguments of edits and writes are lines of
\* text, then what a session's tools change by an edit of one place is the only place
\* there was, and the file is otherwise as before, whatever else the session does
\* (edit_file.rs:16).
THEOREM EditsAreExact ==
    ASSUME NEW Line, A!TextAssumption(Line)
    PROVE  A!SessionAssumption /\ A!Spec => [][A!ExactEdit]_(A!vars)
<1> SUFFICES ASSUME A!SessionAssumption PROVE A!Spec => [][A!ExactEdit]_(A!vars)
  OBVIOUS
<1>1. A!Init => TextInv(Line)
  BY TextAtFirst
<1>2. TextInv(Line) /\ [A!Next]_(A!vars) => TextInv(Line)'
  BY TextInvKept
<1>3. TextInv(Line) /\ [A!Next]_(A!vars) => [A!ExactEdit]_(A!vars)
  <2> SUFFICES ASSUME TextInv(Line), [A!Next]_(A!vars) PROVE [A!ExactEdit]_(A!vars)
    OBVIOUS
  <2>1. CASE A!ExecuteCall
    BY <2>1, TextIsFound, CallEditsExactly
  <2>2. CASE ~A!ExecuteCall
    BY <2>2, OnlyCallsTouchFiles DEF A!ExactEdit
  <2> QED
    BY <2>1, <2>2
<1> QED
  BY <1>1, <1>2, <1>3, PTL DEF A!Spec

----------------------------------------------------------------------------
(* Where the pieces of a flattened list are.                               *)
Pieces(ps, s, f) ==
    /\ f \in [0 .. Len(ps) -> Nat] /\ f[0] = 0 /\ f[Len(ps)] = Len(s)
    /\ \A i \in 1 .. Len(ps) :
         /\ f[i] = f[i - 1] + Len(ps[i])
         /\ \A j \in 1 .. Len(ps[i]) : f[i - 1] + j \in 1 .. Len(s) /\ s[f[i - 1] + j] = ps[i][j]
    /\ \A p \in 1 .. Len(s) : \E i \in 1 .. Len(ps) : \E j \in 1 .. Len(ps[i]) : p = f[i - 1] + j

Begins(a, b) == Len(a) <= Len(b) /\ \A j \in 1 .. Len(a) : b[j] = a[j]

LEMMA BeginsFurther ==
    ASSUME NEW a, NEW b, NEW c, {Len(a), Len(b), Len(c)} \subseteq Nat, Begins(a, b), Begins(b, c)
    PROVE  Begins(a, c)
<1>1. Len(a) <= Len(b) /\ \A j \in 1 .. Len(a) : b[j] = a[j]
  BY DEF Begins
<1>2. Len(b) <= Len(c) /\ \A j \in 1 .. Len(b) : c[j] = b[j]
  BY DEF Begins
<1> QED
  BY <1>1, <1>2 DEF Begins

LEMMA PiecesAre ==
    ASSUME NEW S, NEW ps \in Seq(Seq(S))
    PROVE  \E f : Pieces(ps, A!FlattenSeq(ps), f)
<1> DEFINE n == Len(ps)
<1>1. n \in Nat /\ DOMAIN ps = 1 .. n /\ \A i \in 1 .. n : ps[i] \in Seq(S)
  BY ElementOfSeq
<1>2. CASE ps = <<>>
  <2>1. A!FlattenSeq(ps) = <<>> /\ Len(ps) = 0
    BY <1>2 DEF A!FlattenSeq
  <2> DEFINE f == [i \in 0 .. 0 |-> 0]
  <2>2. Pieces(ps, <<>>, f)
    BY <2>1 DEF Pieces
  <2> HIDE DEF f
  <2> QED
    BY <2>1, <2>2
<1>3. CASE ps # <<>>
  <2>1. PICK h : Flattens(S, ps, h) /\ A!FlattenSeq(ps) = h[n]
    BY <1>3, Flattened
  <2>2. /\ h[0] = <<>> /\ \A i \in 0 .. n : h[i] \in Seq(S)
        /\ \A i \in 1 .. n : h[i] = h[i - 1] \o ps[i]
    BY <2>1 DEF Flattens
  <2> HIDE DEF n
  <2>3. ASSUME NEW i \in 1 .. n
        PROVE  /\ i - 1 \in 0 .. n /\ Len(h[i - 1]) \in Nat /\ Len(ps[i]) \in Nat
               /\ Len(h[i]) = Len(h[i - 1]) + Len(ps[i]) /\ Begins(h[i - 1], h[i])
               /\ \A j \in 1 .. Len(ps[i]) : h[i][Len(h[i - 1]) + j] = ps[i][j]
    <3>1. i - 1 \in 0 .. n
      BY <1>1
    <3>2. h[i - 1] \in Seq(S) /\ ps[i] \in Seq(S) /\ h[i] = h[i - 1] \o ps[i]
      BY <1>1, <2>2, <3>1
    <3> DEFINE a == h[i - 1]
               b == ps[i]
               c == h[i]
    <3> HIDE DEF a, b, c
    <3>3. a \in Seq(S) /\ b \in Seq(S) /\ c = a \o b
      BY <3>2 DEF a, b, c
    <3>4. /\ Len(a) \in Nat /\ Len(b) \in Nat /\ Len(c) = Len(a) + Len(b) /\ Begins(a, c)
          /\ \A j \in 1 .. Len(b) : c[Len(a) + j] = b[j]
      BY <3>3 DEF Begins
    <3> QED
      BY <3>1, <3>4 DEF a, b, c
  <2> DEFINE f == [i \in 0 .. n |-> Len(h[i])]
  <2>4. f \in [0 .. n -> Nat] /\ f[0] = 0 /\ \A i \in 0 .. n : f[i] = Len(h[i])
    BY <1>1, <2>2
  <2> HIDE DEF f
  <2>17. \A i \in 0 .. n : Len(h[i]) \in Nat
    BY <2>2
  <2> DEFINE Good == {k \in Nat : k <= n => \A i \in 0 .. k : Begins(h[i], h[k])}
  <2>5. 0 \in Good
    <3>1. Begins(h[0], h[0])
      BY <2>2 DEF Begins
    <3>2. \A i \in 0 .. 0 : i = 0
      OBVIOUS
    <3> QED
      BY <3>1, <3>2
  <2>6. ASSUME NEW k \in Nat, k \in Good PROVE k + 1 \in Good
    <3> SUFFICES ASSUME k + 1 <= n, NEW i \in 0 .. k + 1 PROVE Begins(h[i], h[k + 1])
      OBVIOUS
    <3>1. k + 1 \in 1 .. n /\ (k + 1) - 1 = k /\ k <= n /\ k \in 0 .. n /\ k + 1 \in 0 .. n
      BY <1>1
    <3>2. Begins(h[(k + 1) - 1], h[k + 1]) /\ Len(h[k]) \in Nat /\ Len(h[k + 1]) \in Nat
      BY <2>3, <2>17, <3>1
    <3>3. CASE i \in 0 .. k
      <4>1. Begins(h[i], h[k]) /\ Len(h[i]) \in Nat
        <5>1. \A a \in 0 .. k : Begins(h[a], h[k])
          BY <2>6, <3>1
        <5>2. i \in 0 .. n
          BY <1>1, <3>1, <3>3
        <5> QED
          BY <2>17, <3>3, <5>1, <5>2
      <4>2. Begins(h[k], h[k + 1])
        BY <3>1, <3>2
      <4> QED
        BY <3>2, <4>1, <4>2, BeginsFurther
    <3>4. CASE i = k + 1
      BY <3>2, <3>4 DEF Begins
    <3> QED
      BY <3>3, <3>4
  <2>7. Nat \subseteq Good
    <3> HIDE DEF Good
    <3> QED
      BY <2>5, <2>6, Induct
  <2>8. \A i \in 0 .. n : Begins(h[i], h[n])
    BY <1>1, <2>7
  <2>9. ASSUME NEW i \in 1 .. n, NEW j \in 1 .. Len(ps[i])
        PROVE  f[i - 1] + j \in 1 .. Len(h[n]) /\ h[n][f[i - 1] + j] = ps[i][j]
    <3> DEFINE m == Len(h[i - 1])
    <3>1. f[i - 1] = m /\ m \in Nat /\ Len(h[i]) = m + Len(ps[i]) /\ h[i][m + j] = ps[i][j] /\ Len(ps[i]) \in Nat
      BY <2>3, <2>4
    <3>2. i \in 0 .. n /\ n \in 0 .. n
      BY <1>1
    <3>4. Begins(h[i], h[n]) /\ Len(h[n]) \in Nat
      BY <2>8, <2>17, <3>2
    <3> HIDE DEF m
    <3> DEFINE d == Len(ps[i])
               e == Len(h[i])
    <3>5. m \in Nat /\ d \in Nat /\ e = m + d /\ j \in 1 .. d
      BY <3>1
    <3> HIDE DEF d, e
    <3>6. m + j \in 1 .. e
      BY <3>5
    <3>3. m + j \in 1 .. Len(h[i])
      BY <3>6 DEF e
    <3> QED
      BY <3>1, <3>3, <3>4 DEF Begins
  <2> DEFINE Known == {k \in Nat : k <= n => \A p \in 1 .. Len(h[k]) :
                                     \E i \in 1 .. n : \E j \in 1 .. Len(ps[i]) : p = f[i - 1] + j}
  <2>10. 0 \in Known
    BY <2>2
  <2>11. ASSUME NEW k \in Nat, k \in Known PROVE k + 1 \in Known
    <3> SUFFICES ASSUME k + 1 <= n, NEW p \in 1 .. Len(h[k + 1])
                 PROVE  \E i \in 1 .. n : \E j \in 1 .. Len(ps[i]) : p = f[i - 1] + j
      BY <2>11
    <3>1. k + 1 \in 1 .. n /\ (k + 1) - 1 = k /\ k <= n /\ k \in 0 .. n
      BY <1>1
    <3>2. Len(h[k]) \in Nat /\ Len(ps[k + 1]) \in Nat /\ Len(h[k + 1]) = Len(h[k]) + Len(ps[k + 1]) /\ f[k] = Len(h[k])
      BY <2>3, <2>4, <3>1
    <3> DEFINE j == p - Len(h[k])
    <3>3. CASE p \in 1 .. Len(h[k])
      BY <2>11, <3>1, <3>3
    <3>4. CASE p \notin 1 .. Len(h[k])
      <4> DEFINE a == Len(h[k])
                 b == Len(ps[k + 1])
      <4>2. a \in Nat /\ b \in Nat /\ p \in 1 .. a + b /\ p \notin 1 .. a /\ f[(k + 1) - 1] = a
        BY <3>1, <3>2, <3>4
      <4>3. p - a \in 1 .. b /\ p = a + (p - a)
        <5> HIDE DEF a, b
        <5> QED
          BY <4>2
      <4>1. j \in 1 .. Len(ps[k + 1]) /\ p = f[(k + 1) - 1] + j
        BY <4>2, <4>3
      <4> HIDE DEF j
      <4> QED
        BY <3>1, <4>1
    <3> QED
      BY <3>3, <3>4
  <2>12. Nat \subseteq Known
    <3> HIDE DEF Known
    <3> QED
      BY <2>10, <2>11, Induct
  <2>13. \A p \in 1 .. Len(h[n]) : \E i \in 1 .. n : \E j \in 1 .. Len(ps[i]) : p = f[i - 1] + j
    BY <1>1, <2>12
  <2>14. \A i \in 1 .. n : f[i] = f[i - 1] + Len(ps[i])
    <3> TAKE i \in 1 .. n
    <3>1. i \in 0 .. n /\ i - 1 \in 0 .. n
      BY <1>1
    <3> HIDE DEF f
    <3> QED
      BY <2>3, <2>4, <3>1
  <2>15. f[n] = Len(h[n])
    BY <1>1, <2>4
  <2> HIDE DEF Good, Known
  <2>16. Pieces(ps, h[n], f)
    BY <2>4, <2>9, <2>13, <2>14, <2>15 DEF Pieces, n
  <2> QED
    BY <2>1, <2>16
<1> QED
  BY <1>2, <1>3

\* Of a list that has the items of a type at its end, exactly those are picked.
EndsWith(items, type, c) ==
    /\ Listed(items) /\ c \in 0 .. Len(items)
    /\ \A i \in 1 .. c : items[i].type # type
    /\ \A i \in c + 1 .. Len(items) : items[i].type = type

LastItems(items, c) == [j \in 1 .. Len(items) - c |-> items[c + j]]

LEMMA OfTypeAre ==
    ASSUME NEW items, NEW type, NEW c, EndsWith(items, type, c)
    PROVE  A!OfType(items, type) = LastItems(items, c)
<1> DEFINE n == Len(items)
           ps == [i \in DOMAIN items |-> IF items[i].type = type THEN <<items[i]>> ELSE <<>>]
           s == A!OfType(items, type)
<1>1. PICK S : items \in Seq(S)
  BY DEF EndsWith, Listed
<1>2. n \in Nat /\ DOMAIN items = 1 .. n /\ (\A i \in 1 .. n : items[i] \in S) /\ c \in 0 .. n
  BY <1>1 DEF EndsWith
<1>3. s = A!FlattenSeq(ps)
  BY DEF A!OfType
<1>4. ps \in [1 .. n -> Seq(S)] /\ \A i \in 1 .. n : ps[i] = IF i <= c THEN <<>> ELSE <<items[i]>>
  <2>1. \A i \in 1 .. n : (i <= c => items[i].type # type) /\ (~(i <= c) => items[i].type = type)
    BY <1>2 DEF EndsWith
  <2> HIDE DEF n
  <2> QED
    BY <1>2, <2>1
<1> HIDE DEF ps
<1>5. ps \in Seq(Seq(S)) /\ Len(ps) = n
  BY <1>2, <1>4
<1>6. s \in Seq(S)
  BY <1>3, <1>5, FlattenedIsListed
<1>7. PICK f : Pieces(ps, s, f)
  BY <1>3, <1>5, PiecesAre
<1> HIDE DEF n, s
<1>8. /\ f \in [0 .. n -> Nat] /\ f[0] = 0 /\ f[n] = Len(s)
      /\ \A i \in 1 .. n : f[i] = f[i - 1] + Len(ps[i])
      /\ \A i \in 1 .. n : \A j \in 1 .. Len(ps[i]) : s[f[i - 1] + j] = ps[i][j]
  BY <1>5, <1>7 DEF Pieces
<1>9. \A i \in 1 .. n : IF i <= c THEN Len(ps[i]) = 0 ELSE Len(ps[i]) = 1 /\ ps[i][1] = items[i]
  BY <1>4
<1> DEFINE at(k) == IF k <= c THEN 0 ELSE k - c
           Good == {k \in Nat : k <= n => f[k] = at(k)}
<1>10. 0 \in Good
  BY <1>2, <1>8
<1>11. ASSUME NEW k \in Nat, k \in Good PROVE k + 1 \in Good
  <2> SUFFICES ASSUME k + 1 <= n PROVE f[k + 1] = at(k + 1)
    OBVIOUS
  <2>1. k + 1 \in 1 .. n /\ (k + 1) - 1 = k /\ f[k] = at(k)
    BY <1>2, <1>11
  <2>2. f[k + 1] = f[k] + Len(ps[k + 1])
    BY <1>8, <2>1
  <2>3. IF k + 1 <= c THEN Len(ps[k + 1]) = 0 ELSE Len(ps[k + 1]) = 1
    BY <1>9, <2>1
  <2>4. c \in Nat /\ f[k + 1] = at(k) + Len(ps[k + 1])
    BY <1>2, <2>1, <2>2
  <2> DEFINE l == Len(ps[k + 1])
             g == f[k + 1]
  <2>5. c \in Nat /\ g = (IF k <= c THEN 0 ELSE k - c) + l /\ IF k + 1 <= c THEN l = 0 ELSE l = 1
    BY <2>3, <2>4
  <2> HIDE DEF l, g
  <2>6. g = IF k + 1 <= c THEN 0 ELSE (k + 1) - c
    BY <2>5
  <2> QED
    BY <2>6 DEF g
<1>12. Nat \subseteq Good
  <2> HIDE DEF Good
  <2> QED
    BY <1>10, <1>11, Induct
<1>13. \A k \in 0 .. n : f[k] = at(k)
  <2> TAKE k \in 0 .. n
  <2>1. k \in Nat /\ k <= n
    BY <1>2
  <2>2. k \in Good
    BY <1>12, <2>1
  <2> QED
    BY <2>1, <2>2
<1>14. Len(s) = n - c
  <2>1. n \in 0 .. n /\ at(n) = n - c
    BY <1>2
  <2> HIDE DEF at
  <2> QED
    BY <1>8, <1>13, <2>1
<1>15. ASSUME NEW j \in 1 .. n - c PROVE s[j] = items[c + j]
  <2> DEFINE i == c + j
  <2>1. i \in 1 .. n /\ i - 1 \in 0 .. n /\ ~(i <= c) /\ at(i - 1) + 1 = j
    BY <1>2
  <2>2. Len(ps[i]) = 1 /\ ps[i][1] = items[i]
    BY <1>9, <2>1
  <2>3. s[f[i - 1] + 1] = ps[i][1]
    BY <1>8, <2>1, <2>2
  <2> HIDE DEF i
  <2>4. f[i - 1] + 1 = j
    BY <1>13, <2>1
  <2> QED
    BY <2>2, <2>3, <2>4 DEF i
<1>16. DOMAIN s = 1 .. n - c /\ s = [j \in DOMAIN s |-> s[j]]
  BY <1>6, <1>14
<1> QED
  BY <1>15, <1>16 DEF n, s, LastItems

LastRefs(items, c) == [j \in 1 .. Len(items) - c |-> items[c + j].ref]

LEMMA RefsAre ==
    ASSUME NEW m, NEW type, NEW c, EndsWith(m.parts, type, c)
    PROVE  A!RefsOf(m, type) = LastRefs(m.parts, c)
<1> DEFINE n == Len(m.parts) - c
           picked == A!PartsOf(m, type)
<1>1. picked = LastItems(m.parts, c)
  <2>1. picked = A!OfType(m.parts, type)
    BY DEF A!PartsOf
  <2> HIDE DEF picked
  <2> QED
    BY <2>1, OfTypeAre
<1>2. A!RefsOf(m, type) = [j \in DOMAIN picked |-> picked[j].ref]
  BY DEF A!RefsOf
<1>3. DOMAIN picked = 1 .. n /\ \A j \in 1 .. n : picked[j] = m.parts[c + j]
  BY <1>1 DEF LastItems
<1> HIDE DEF picked, n
<1> QED
  BY <1>2, <1>3 DEF n, LastRefs

LEMMA NoRefs ==
    ASSUME NEW m, NEW type, Listed(m.parts), \A i \in 1 .. Len(m.parts) : m.parts[i].type # type
    PROVE  A!RefsOf(m, type) = <<>>
<1>1. EndsWith(m.parts, type, Len(m.parts))
  BY ListedIs DEF EndsWith
<1>2. Len(m.parts) - Len(m.parts) = 0
  BY ListedIs
<1>3. A!RefsOf(m, type) = [j \in 1 .. 0 |-> m.parts[Len(m.parts) + j].ref]
  <2> DEFINE l == Len(m.parts)
  <2>1. EndsWith(m.parts, type, l) /\ Len(m.parts) - l = 0
    BY <1>1, <1>2
  <2> HIDE DEF l
  <2>2. A!RefsOf(m, type) = [j \in 1 .. Len(m.parts) - l |-> m.parts[l + j].ref]
    BY <2>1, RefsAre DEF LastRefs
  <2>3. A!RefsOf(m, type) = [j \in 1 .. 0 |-> m.parts[l + j].ref]
    BY <2>1, <2>2
  <2> QED
    BY <2>3 DEF l
<1>4. \A e : DOMAIN e = {} /\ e = [j \in DOMAIN e |-> e[j]] => e = <<>>
  OBVIOUS
<1> QED
  BY <1>3

----------------------------------------------------------------------------
(* The messages of a request: those of each turn, after the system prompt. *)
Messages(h) == <<A!SystemMessage("system_prompt")>> \o A!FlattenSeq([i \in DOMAIN h |-> A!TurnMessages(h[i])])

OneMessage(t, m) == A!TurnMessages(t) = <<m>>
Said(t) ==
    /\ Listed(A!TurnMessages(t))
    /\ t.kind = "user" => OneMessage(t, A!UserMessage(t.text))
    /\ t.kind = "assistant" => OneMessage(t, A!AssistantMessage(t.text, t.calls))
    /\ t.kind = "steering" => OneMessage(t, A!SystemMessage(t.text))
    /\ t.kind = "results" =>
         /\ Len(A!TurnMessages(t)) = Len(t.results)
         /\ \A j \in 1 .. Len(t.results) : A!TurnMessages(t)[j] = A!ToolMessage(t.results[j])

LEMMA TurnsSay == ASSUME NEW h, NEW i, TurnTold(h, i) PROVE Said(h[i])
<1> DEFINE t == h[i]
           ms == A!TurnMessages(t)
<1>1. \A m : Listed(<<m>>)
  <2> TAKE m
  <2>1. <<m>> \in Seq({m})
    OBVIOUS
  <2> QED
    BY <2>1 DEF Listed
<1>2. CASE t.kind = "user"
  <2>1. OneMessage(t, A!UserMessage(t.text))
    BY <1>2 DEF A!TurnMessages, OneMessage
  <2> QED
    BY <1>1, <1>2, <2>1 DEF Said, OneMessage
<1>3. CASE t.kind = "assistant"
  <2>1. OneMessage(t, A!AssistantMessage(t.text, t.calls))
    BY <1>3 DEF A!TurnMessages, OneMessage
  <2> QED
    BY <1>1, <1>3, <2>1 DEF Said, OneMessage
<1>4. CASE t.kind = "steering"
  <2>1. OneMessage(t, A!SystemMessage(t.text))
    BY <1>4 DEF A!TurnMessages, OneMessage
  <2> QED
    BY <1>1, <1>4, <2>1 DEF Said, OneMessage
<1>5. CASE t.kind = "results"
  <2> DEFINE rs == t.results
             of == [j \in DOMAIN rs |-> A!ToolMessage(rs[j])]
  <2>1. ms = of
    BY <1>5 DEF A!TurnMessages
  <2>2. Listed(rs)
    BY <1>5 DEF TurnTold, Answers
  <2>3. Listed(of)
    <3>1. of = [j \in DOMAIN rs |-> of[j]]
      OBVIOUS
    <3> HIDE DEF of
    <3> QED
      BY <2>2, <3>1, MappedIsListed
  <2>4. DOMAIN of = 1 .. Len(rs) /\ (\A j \in 1 .. Len(rs) : of[j] = A!ToolMessage(rs[j])) /\ Len(rs) \in Nat
    BY <2>2, ListedIs
  <2> HIDE DEF of
  <2>5. Len(of) = Len(rs)
    BY <2>3, <2>4, ListedIs
  <2> QED
    BY <1>5, <2>1, <2>3, <2>4, <2>5 DEF Said
<1> QED
  BY <1>2, <1>3, <1>4, <1>5 DEF TurnTold

Layout(h, M, f) ==
    /\ f \in [0 .. Len(h) -> Nat] /\ f[0] = 1 /\ f[Len(h)] = Len(M)
    /\ Listed(M) /\ Len(M) > 0 /\ M[1] = A!SystemMessage("system_prompt")
    /\ \A i \in 1 .. Len(h) :
         /\ f[i] = f[i - 1] + Len(A!TurnMessages(h[i]))
         /\ \A j \in 1 .. Len(A!TurnMessages(h[i])) :
              f[i - 1] + j \in 2 .. Len(M) /\ M[f[i - 1] + j] = A!TurnMessages(h[i])[j]
    /\ \A p \in 2 .. Len(M) : \E i \in 1 .. Len(h) : \E j \in 1 .. Len(A!TurnMessages(h[i])) : p = f[i - 1] + j

LEMMA MessagesAreLaid ==
    ASSUME NEW h, Listed(h), Told(h)
    PROVE  \E f : Layout(h, Messages(h), f)
<1> DEFINE n == Len(h)
           tm(i) == A!TurnMessages(h[i])
           S == UNION {{tm(i)[j] : j \in 1 .. Len(tm(i))} : i \in 1 .. n}
           ps == [i \in DOMAIN h |-> tm(i)]
           s == A!FlattenSeq(ps)
           sys == A!SystemMessage("system_prompt")
           M == <<sys>> \o s
<1>1. n \in Nat /\ DOMAIN h = 1 .. n
  BY ListedIs
<1>2. ASSUME NEW i \in 1 .. n PROVE tm(i) \in Seq(S) /\ Len(tm(i)) \in Nat
  <2> DEFINE ms == tm(i)
  <2>1. Listed(ms)
    BY TurnsSay DEF Told, Said
  <2>2. \A j \in 1 .. Len(ms) : ms[j] \in S
    OBVIOUS
  <2> HIDE DEF ms, S
  <2>3. ms \in Seq(S) /\ Len(ms) \in Nat
    BY <2>1, <2>2, ListedIs, SeqDef DEF Listed
  <2> QED
    BY <2>3 DEF ms
<1> HIDE DEF S, tm
<1>3. ps \in [1 .. n -> Seq(S)] /\ \A i \in 1 .. n : ps[i] = tm(i)
  BY <1>1, <1>2
<1>4. Messages(h) = M
  BY DEF Messages, tm
<1> HIDE DEF ps
<1>5. ps \in Seq(Seq(S)) /\ Len(ps) = n
  BY <1>1, <1>3
<1>6. s \in Seq(S)
  BY <1>5, FlattenedIsListed
<1>7. PICK g : Pieces(ps, s, g)
  BY <1>5, PiecesAre
<1> HIDE DEF n, s, sys
<1>8. /\ M \in Seq(S \cup {sys}) /\ Len(M) = 1 + Len(s) /\ Len(s) \in Nat /\ M[1] = sys
      /\ \A p \in 1 .. Len(s) : M[1 + p] = s[p]
  BY <1>6
<1> HIDE DEF M
<1>9. /\ g \in [0 .. n -> Nat] /\ g[0] = 0 /\ g[n] = Len(s)
      /\ \A i \in 1 .. n : /\ g[i] = g[i - 1] + Len(tm(i))
                           /\ \A j \in 1 .. Len(tm(i)) : g[i - 1] + j \in 1 .. Len(s) /\ s[g[i - 1] + j] = tm(i)[j]
      /\ \A p \in 1 .. Len(s) : \E i \in 1 .. n : \E j \in 1 .. Len(tm(i)) : p = g[i - 1] + j
  <2>1. /\ g \in [0 .. n -> Nat] /\ g[0] = 0 /\ g[n] = Len(s)
        /\ \A i \in 1 .. n : /\ g[i] = g[i - 1] + Len(ps[i])
                             /\ \A j \in 1 .. Len(ps[i]) : g[i - 1] + j \in 1 .. Len(s) /\ s[g[i - 1] + j] = ps[i][j]
        /\ \A p \in 1 .. Len(s) : \E i \in 1 .. n : \E j \in 1 .. Len(ps[i]) : p = g[i - 1] + j
    BY <1>5, <1>7 DEF Pieces
  <2>2. \A i \in 1 .. n : ps[i] = tm(i)
    BY <1>3
  <2>3. ASSUME NEW i \in 1 .. n
        PROVE  /\ g[i] = g[i - 1] + Len(tm(i))
               /\ \A j \in 1 .. Len(tm(i)) : g[i - 1] + j \in 1 .. Len(s) /\ s[g[i - 1] + j] = tm(i)[j]
    <3>1. ps[i] = tm(i)
      BY <2>2
    <3>2. /\ g[i] = g[i - 1] + Len(ps[i])
          /\ \A j \in 1 .. Len(ps[i]) : g[i - 1] + j \in 1 .. Len(s) /\ s[g[i - 1] + j] = ps[i][j]
      BY <2>1
    <3> QED
      BY <3>1, <3>2, Zenon
  <2>4. ASSUME NEW p \in 1 .. Len(s) PROVE \E i \in 1 .. n : \E j \in 1 .. Len(tm(i)) : p = g[i - 1] + j
    <3>1. PICK i \in 1 .. n : \E j \in 1 .. Len(ps[i]) : p = g[i - 1] + j
      BY <2>1
    <3>2. ps[i] = tm(i)
      BY <2>2
    <3> QED
      BY <3>1, <3>2
  <2> QED
    BY <2>1, <2>3, <2>4
<1> DEFINE f == [i \in 0 .. n |-> 1 + g[i]]
<1>10. f \in [0 .. n -> Nat] /\ f[0] = 1 /\ f[n] = Len(M) /\ \A i \in 0 .. n : f[i] = 1 + g[i]
  BY <1>1, <1>8, <1>9
<1> HIDE DEF f
<1>11. ASSUME NEW i \in 1 .. n PROVE i \in 0 .. n /\ i - 1 \in 0 .. n /\ f[i] = 1 + g[i] /\ f[i - 1] = 1 + g[i - 1]
  BY <1>1, <1>10
<1>12. ASSUME NEW i \in 1 .. n
       PROVE  /\ f[i] = f[i - 1] + Len(tm(i))
              /\ \A j \in 1 .. Len(tm(i)) : f[i - 1] + j \in 2 .. Len(M) /\ M[f[i - 1] + j] = tm(i)[j]
  <2> DEFINE a == g[i - 1]
             l == Len(tm(i))
  <2>1. a \in Nat /\ l \in Nat /\ f[i - 1] = 1 + a /\ f[i] = 1 + (a + l)
    BY <1>2, <1>9, <1>11
  <2>2. \A j \in 1 .. l : a + j \in 1 .. Len(s) /\ s[a + j] = tm(i)[j]
    BY <1>9
  <2> HIDE DEF a, l
  <2>3. ASSUME NEW j \in 1 .. l
        PROVE  f[i - 1] + j \in 2 .. Len(M) /\ M[f[i - 1] + j] = tm(i)[j]
    <3> DEFINE p == a + j
    <3>1. p \in 1 .. Len(s) /\ s[p] = tm(i)[j] /\ f[i - 1] + j = 1 + p
      BY <2>1, <2>2
    <3> HIDE DEF p
    <3> QED
      BY <1>8, <3>1
  <2>4. f[i] = f[i - 1] + l
    BY <2>1
  <2> QED
    BY <2>3, <2>4 DEF l
<1>13. ASSUME NEW p \in 2 .. Len(M) PROVE \E i \in 1 .. n : \E j \in 1 .. Len(tm(i)) : p = f[i - 1] + j
  <2>1. p - 1 \in 1 .. Len(s)
    BY <1>8
  <2>5. PICK i \in 1 .. n : \E j \in 1 .. Len(tm(i)) : p - 1 = g[i - 1] + j
    BY <1>9, <2>1
  <2>2. PICK j \in 1 .. Len(tm(i)) : p - 1 = g[i - 1] + j
    BY <2>5
  <2> DEFINE a == g[i - 1]
             l == Len(tm(i))
  <2>3. a \in Nat /\ l \in Nat /\ f[i - 1] = 1 + a /\ j \in 1 .. l /\ p - 1 = a + j
    BY <1>2, <1>9, <1>11, <2>2
  <2> HIDE DEF a, l
  <2>4. p = f[i - 1] + j
    BY <2>3
  <2> QED
    BY <2>4
<1>14. Listed(M)
  BY <1>8, Zenon DEF Listed
<1>15. Layout(h, M, f)
  <2>1. Len(M) > 0
    BY <1>8
  <2> QED
    BY <1>8, <1>10, <1>12, <1>13, <1>14, <2>1 DEF Layout, n, tm, sys
<1> QED
  BY <1>4, <1>15

----------------------------------------------------------------------------
(* What goes over the wire for a message.                                  *)
Ids(xs, n) == [j \in 1 .. n |-> <<"id", xs[j].id>>]

SaysCalls(ps, calls, c) ==
    /\ c \in {0, 1} /\ Listed(ps) /\ Listed(calls) /\ Len(ps) = c + Len(calls)
    /\ c = 1 => ps[1].type = "text"
    /\ \A j \in 1 .. Len(calls) : ps[c + j] = A!CallPart(calls[j])

LEMMA AnswerParts ==
    ASSUME NEW text, NEW calls, Listed(calls)
    PROVE  \E c : SaysCalls(A!AssistantMessage(text, calls).parts, calls, c)
<1> DEFINE n == Len(calls)
           cs == [i \in DOMAIN calls |-> A!CallPart(calls[i])]
           C == {A!CallPart(calls[i]) : i \in 1 .. n}
           x == A!Text(text)
           ps == (IF text = <<>> THEN <<>> ELSE <<x>>) \o cs
<1>1. n \in Nat /\ DOMAIN calls = 1 .. n
  BY ListedIs
<1>2. cs \in [1 .. n -> C] /\ \A j \in 1 .. n : cs[j] = A!CallPart(calls[j])
  BY <1>1
<1>3. A!AssistantMessage(text, calls).parts = ps
  BY DEF A!AssistantMessage
<1>4. x.type = "text"
  BY DEF A!Text
<1> HIDE DEF cs, C, x, n
<1>5. cs \in Seq(C) /\ Len(cs) = n
  BY <1>1, <1>2
<1>6. CASE text = <<>>
  <2>1. ps = cs
    BY <1>5, <1>6
  <2> HIDE DEF ps
  <2>2. Listed(ps) /\ \A j \in 1 .. n : 0 + j = j
    <3>1. Listed(cs)
      BY <1>5, Zenon DEF Listed
    <3> QED
      BY <1>1, <2>1, <3>1
  <2>3. SaysCalls(ps, calls, 0)
    BY <1>1, <1>2, <1>5, <2>1, <2>2 DEF SaysCalls, n
  <2> QED
    BY <1>3, <2>3
<1>7. CASE text # <<>>
  <2>1. ps = <<x>> \o cs
    BY <1>7
  <2> HIDE DEF ps
  <2>2. ps \in Seq(C \cup {x}) /\ Len(ps) = 1 + n /\ ps[1] = x /\ \A j \in 1 .. n : ps[1 + j] = cs[j]
    BY <1>1, <1>5, <2>1
  <2>3. Listed(ps)
    BY <2>2, Zenon DEF Listed
  <2>4. SaysCalls(ps, calls, 1)
    BY <1>1, <1>2, <1>4, <2>2, <2>3 DEF SaysCalls, n
  <2> QED
    BY <1>3, <2>4
<1> QED
  BY <1>6, <1>7

LEMMA PartOnWire ==
    /\ \A p : A!WirePart(p).type = p.type
    /\ \A c : A!WirePart(A!CallPart(c)).ref = <<"id", c.id>> /\ A!CallPart(c).type = "call"
    /\ \A r : A!WirePart(A!ResultPart(r)).ref = <<"id", r.id>> /\ A!ResultPart(r).type = "result"
    /\ \A t : A!Text(t).type = "text"
  BY DEF A!WirePart, A!CallPart, A!ResultPart, A!Text

Sent(m, q) == Listed(q) /\ Len(q) = Len(m.parts) /\ \A i \in 1 .. Len(q) : q[i] = A!WirePart(m.parts[i])

LEMMA PartsOnWire == ASSUME NEW m, Listed(m.parts) PROVE Sent(m, A!WireParts(m))
<1> DEFINE q == A!WireParts(m)
           n == Len(m.parts)
<1>1. n \in Nat /\ DOMAIN m.parts = 1 .. n
  BY ListedIs
<1>2. q = [i \in 1 .. n |-> A!WirePart(m.parts[i])]
  BY <1>1 DEF A!WireParts
<1>3. q = [i \in DOMAIN m.parts |-> q[i]] /\ DOMAIN q = 1 .. n /\ \A i \in 1 .. n : q[i] = A!WirePart(m.parts[i])
  BY <1>1, <1>2
<1> HIDE DEF q, n
<1>4. Listed(q)
  BY <1>3, MappedIsListed
<1>5. Len(q) = n
  BY <1>1, <1>3, <1>4, ListedIs
<1> QED
  BY <1>3, <1>4, <1>5 DEF Sent, q, n

\* A message refers to the calls it makes, in their order,
LEMMA AnswerOnWire ==
    ASSUME NEW text, NEW calls, Listed(calls), NEW w, w.parts = A!WireParts(A!AssistantMessage(text, calls))
    PROVE  A!RefsOf(w, "result") = <<>> /\ A!RefsOf(w, "call") = Ids(calls, Len(calls))
<1> DEFINE m == A!AssistantMessage(text, calls)
           n == Len(calls)
<1>1. PICK c : SaysCalls(m.parts, calls, c)
  BY AnswerParts
<1>2. Listed(m.parts) /\ c \in {0, 1} /\ Len(m.parts) = c + n /\ n \in Nat
  BY <1>1, ListedIs DEF SaysCalls
<1>3. Sent(m, w.parts)
  BY <1>2, PartsOnWire
<1> HIDE DEF m
<1>4. Listed(w.parts) /\ Len(w.parts) = c + n /\ \A i \in 1 .. c + n : w.parts[i] = A!WirePart(m.parts[i])
  BY <1>2, <1>3 DEF Sent
<1> HIDE DEF n
<1>5. \A j \in 1 .. n : c + j \in 1 .. c + n /\ m.parts[c + j] = A!CallPart(calls[j])
  BY <1>1, <1>2 DEF SaysCalls, n
<1>6. ASSUME NEW j \in 1 .. n PROVE w.parts[c + j].type = "call" /\ w.parts[c + j].ref = <<"id", calls[j].id>>
  <2>1. w.parts[c + j] = A!WirePart(A!CallPart(calls[j]))
    BY <1>4, <1>5
  <2> QED
    BY <2>1, PartOnWire
<1>7. \A i \in 1 .. c : w.parts[i].type = "text"
  <2> TAKE i \in 1 .. c
  <2>1. i = 1 /\ c = 1 /\ i \in 1 .. c + n
    BY <1>2
  <2>2. m.parts[i].type = "text"
    BY <1>1, <2>1 DEF SaysCalls
  <2> QED
    BY <1>4, <2>1, <2>2, PartOnWire
<1>8. ASSUME NEW i \in 1 .. c + n, i \notin 1 .. c PROVE w.parts[i].type = "call"
  <2>1. i - c \in 1 .. n /\ c + (i - c) = i
    BY <1>2, <1>8
  <2> QED
    BY <1>6, <2>1
<1>9. EndsWith(w.parts, "call", c)
  <2>1. c \in 0 .. c + n /\ \A i \in c + 1 .. c + n : i \in 1 .. c + n /\ i \notin 1 .. c
    BY <1>2
  <2> QED
    BY <1>4, <1>7, <1>8, <2>1 DEF EndsWith
<1>10. A!RefsOf(w, "call") = Ids(calls, n)
  <2>1. A!RefsOf(w, "call") = LastRefs(w.parts, c)
    BY <1>9, RefsAre
  <2>2. Len(w.parts) - c = n
    BY <1>2, <1>4
  <2> QED
    BY <1>6, <2>1, <2>2 DEF Ids, LastRefs
<1>11. A!RefsOf(w, "result") = <<>>
  <2>1. \A i \in 1 .. Len(w.parts) : w.parts[i].type # "result"
    <3> TAKE i \in 1 .. Len(w.parts)
    <3>1. i \in 1 .. c + n
      BY <1>4
    <3> QED
      BY <1>7, <1>8, <3>1
  <2> QED
    BY <1>4, <2>1, NoRefs
<1> QED
  BY <1>10, <1>11 DEF n

\* and to the calls whose results it brings.
LEMMA ResultsOnWire ==
    ASSUME NEW w, NEW rs, NEW n \in Nat, w.parts = [j \in 1 .. n |-> A!WirePart(A!ResultPart(rs[j]))]
    PROVE  A!RefsOf(w, "result") = Ids(rs, n)
<1> DEFINE q == w.parts
           Q == {A!WirePart(A!ResultPart(rs[j])) : j \in 1 .. n}
<1>1. q \in [1 .. n -> Q] /\ \A j \in 1 .. n : q[j] = A!WirePart(A!ResultPart(rs[j]))
  OBVIOUS
<1> HIDE DEF q, Q
<1>2. q \in Seq(Q) /\ Len(q) = n
  BY <1>1
<1>3. Listed(q)
  BY <1>2, Zenon DEF Listed
<1>4. \A j \in 1 .. n : q[j].type = "result" /\ q[j].ref = <<"id", rs[j].id>>
  <2>1. \A r : A!WirePart(A!ResultPart(r)).type = "result" /\ A!WirePart(A!ResultPart(r)).ref = <<"id", r.id>>
    BY PartOnWire
  <2> QED
    BY <1>1, <2>1
<1>5. EndsWith(q, "result", 0)
  BY <1>2, <1>3, <1>4 DEF EndsWith
<1>6. A!RefsOf(w, "result") = [j \in 1 .. n |-> q[j].ref]
  <2>1. A!RefsOf(w, "result") = LastRefs(q, 0)
    BY <1>5, RefsAre DEF q
  <2>2. Len(q) - 0 = n /\ \A j \in 1 .. n : 0 + j = j
    BY <1>2
  <2> QED
    BY <2>1, <2>2 DEF LastRefs
<1> QED
  BY <1>4, <1>6 DEF Ids

LEMMA TextOnWire ==
    ASSUME NEW w, NEW t, w.parts = A!WireParts([role |-> "user", parts |-> <<A!Text(t)>>]) \/ w.parts = <<A!Text(t)>>
    PROVE  A!RefsOf(w, "result") = <<>>
<1> DEFINE x == A!Text(t)
           m == [role |-> "user", parts |-> <<x>>]
<1>1. x.type = "text" /\ A!WirePart(x) = x
  BY DEF A!Text, A!WirePart
<1> HIDE DEF x
<1>2. m.parts = <<x>> /\ <<x>> \in Seq({x}) /\ Len(<<x>>) = 1 /\ <<x>>[1] = x
  OBVIOUS
<1>3. Listed(m.parts)
  BY <1>2, Zenon DEF Listed
<1>4. Sent(m, A!WireParts(m))
  BY <1>3, PartsOnWire
<1> HIDE DEF m
<1>5. Listed(w.parts) /\ Len(w.parts) = 1 /\ w.parts[1] = x
  <2>1. CASE w.parts = A!WireParts(m)
    BY <1>1, <1>2, <1>4, <2>1 DEF Sent
  <2>2. CASE w.parts = <<x>>
    BY <1>2, <1>3, <2>2
  <2> QED
    BY <2>1, <2>2 DEF x, m
<1>6. \A i \in 1 .. Len(w.parts) : w.parts[i].type # "result"
  BY <1>1, <1>5
<1> QED
  BY <1>5, <1>6, NoRefs

----------------------------------------------------------------------------
(* Anthropic: results of a round become one message after the answer.      *)
Conversion(M, c) == c = [i \in 0 .. Len(M) |-> IF i = 0 THEN <<>> ELSE A!AnthropicStep(c[i - 1], M[i])]

LEMMA Converts ==
    ASSUME NEW request, Len(request.messages) \in Nat
    PROVE  \E c : Conversion(request.messages, c)
                  /\ A!Anthropic(request).messages = c[Len(request.messages)]
<1> DEFINE M == request.messages
           Upto(k, f) == f = [i \in 0 .. k |-> IF i = 0 THEN <<>> ELSE A!AnthropicStep(f[i - 1], M[i])]
           Good == {k \in Nat : \E f : Upto(k, f)}
           F == CHOOSE f : Upto(Len(M), f)
<1>1. A!Anthropic(request).messages = F[Len(M)]
  BY DEF A!Anthropic
<1> HIDE DEF M, F
<1>2. 0 \in Good
  <2> DEFINE f == [i \in 0 .. 0 |-> <<>>]
  <2>1. \A i \in 0 .. 0 : i = 0
    OBVIOUS
  <2>2. Upto(0, f)
    BY <2>1
  <2> HIDE DEF f
  <2> QED
    BY <2>2
<1>3. ASSUME NEW k \in Nat, k \in Good PROVE k + 1 \in Good
  <2>1. PICK f : Upto(k, f)
    BY <1>3
  <2> DEFINE x == A!AnthropicStep(f[k], M[k + 1])
             g == [i \in 0 .. k + 1 |-> IF i = k + 1 THEN x ELSE f[i]]
             ext == [i \in 0 .. k + 1 |-> IF i = 0 THEN <<>> ELSE A!AnthropicStep(g[i - 1], M[i])]
  <2>2. \A i \in 0 .. k : f[i] = IF i = 0 THEN <<>> ELSE A!AnthropicStep(f[i - 1], M[i])
    BY <2>1
  <2>3. DOMAIN g = 0 .. k + 1 /\ (\A i \in 0 .. k : g[i] = f[i]) /\ g[k + 1] = x
    OBVIOUS
  <2>4. g = [i \in DOMAIN g |-> g[i]]
    OBVIOUS
  <2> HIDE DEF g
  <2>5. ASSUME NEW i \in 0 .. k + 1 PROVE g[i] = ext[i]
    <3>1. CASE i = 0
      BY <2>2, <2>3, <3>1
    <3>2. CASE i = k + 1
      <4>1. i # 0 /\ i - 1 = k /\ k \in 0 .. k
        BY <3>2
      <4>2. g[i - 1] = f[k]
        BY <2>3, <4>1
      <4> QED
        BY <2>3, <3>2, <4>1, <4>2
    <3>3. CASE i # 0 /\ i # k + 1
      <4>1. i \in 0 .. k /\ i - 1 \in 0 .. k
        BY <3>3
      <4>2. g[i] = f[i] /\ g[i - 1] = f[i - 1]
        BY <2>3, <4>1
      <4> QED
        BY <2>2, <3>3, <4>1, <4>2
    <3> QED
      BY <3>1, <3>2, <3>3
  <2>6. g = ext
    BY <2>3, <2>4, <2>5
  <2>7. Upto(k + 1, g)
    BY <2>6
  <2> QED
    BY <2>7
<1>4. Nat \subseteq Good
  <2> HIDE DEF Good
  <2> QED
    BY <1>2, <1>3, Induct
<1>5. \E f : Upto(Len(M), f)
  <2>1. Len(M) \in Good
    BY <1>4 DEF M
  <2> QED
    BY <2>1
<1>6. Upto(Len(M), F)
  BY <1>5 DEF F
<1>7. Conversion(M, F)
  BY <1>6 DEF Conversion
<1> QED
  BY <1>1, <1>7 DEF M

LEMMA ConvertsNext ==
    ASSUME NEW M, NEW c, Conversion(M, c), Len(M) \in Nat
    PROVE  c[0] = <<>> /\ \A p \in 0 .. Len(M) : p + 1 \in 1 .. Len(M) => c[p + 1] = A!AnthropicStep(c[p], M[p + 1])
<1>1. \A i \in 0 .. Len(M) : c[i] = IF i = 0 THEN <<>> ELSE A!AnthropicStep(c[i - 1], M[i])
  BY DEF Conversion
<1>2. 0 \in 0 .. Len(M)
  OBVIOUS
<1>3. ASSUME NEW p \in 0 .. Len(M), p + 1 \in 1 .. Len(M) PROVE c[p + 1] = A!AnthropicStep(c[p], M[p + 1])
  <2>1. p + 1 \in 0 .. Len(M) /\ p + 1 # 0 /\ (p + 1) - 1 = p
    BY <1>3
  <2> QED
    BY <1>1, <2>1
<1> QED
  BY <1>1, <1>2, <1>3

WireMessage(role, m) == [role |-> role, parts |-> A!WireParts(m)]

LEMMA StepIs ==
    ASSUME NEW W, NEW m
    PROVE  /\ m.role = "system" => A!AnthropicStep(W, m) = W
           /\ m.role = "user" => A!AnthropicStep(W, m) = Append(W, WireMessage("user", m))
           /\ m.role = "assistant" => A!AnthropicStep(W, m) = Append(W, WireMessage("assistant", m))
           /\ m.role = "tool" /\ ~(W # <<>> /\ W[Len(W)].role = "user") =>
                A!AnthropicStep(W, m) = Append(W, WireMessage("user", m))
           /\ m.role = "tool" /\ W # <<>> /\ W[Len(W)].role = "user" =>
                A!AnthropicStep(W, m) = [W EXCEPT ![Len(W)].parts = W[Len(W)].parts \o A!WireParts(m)]
  BY DEF A!AnthropicStep, A!IsSystem, WireMessage

\* The first k results of a round.
Brought(rs, k) == [role |-> "user", parts |-> [j \in 1 .. k |-> A!WirePart(A!ResultPart(rs[j]))]]

LEMMA ToolOnWire == ASSUME NEW r PROVE A!WireParts(A!ToolMessage(r)) = <<A!WirePart(A!ResultPart(r))>>
<1> DEFINE x == A!ResultPart(r)
           m == A!ToolMessage(r)
<1>1. m.parts = <<x>>
  BY DEF A!ToolMessage
<1>2. A!WireParts(m) = [i \in DOMAIN m.parts |-> A!WirePart(m.parts[i])]
  BY DEF A!WireParts
<1> HIDE DEF x, m
<1>3. DOMAIN m.parts = 1 .. 1 /\ m.parts[1] = x
  BY <1>1
<1>4. A!WireParts(m) = [i \in 1 .. 1 |-> A!WirePart(x)]
  BY <1>2, <1>3
<1>5. A!WireParts(m) = <<A!WirePart(x)>>
  BY <1>4
<1> QED
  BY <1>5 DEF x, m

LEMMA FirstBrought ==
    ASSUME NEW W, NEW rs, ~(W # <<>> /\ W[Len(W)].role = "user")
    PROVE  A!AnthropicStep(W, A!ToolMessage(rs[1])) = Append(W, Brought(rs, 1))
<1> DEFINE m == A!ToolMessage(rs[1])
           x == A!WirePart(A!ResultPart(rs[1]))
<1>1. m.role = "tool"
  BY DEF A!ToolMessage
<1>2. A!WireParts(m) = <<x>>
  BY ToolOnWire
<1>3. [j \in 1 .. 1 |-> A!WirePart(A!ResultPart(rs[j]))] = <<x>>
  <2>1. \A j \in 1 .. 1 : A!WirePart(A!ResultPart(rs[j])) = x
    OBVIOUS
  <2>2. [j \in 1 .. 1 |-> A!WirePart(A!ResultPart(rs[j]))] = [j \in 1 .. 1 |-> x]
    BY <2>1
  <2> HIDE DEF x
  <2>3. [j \in 1 .. 1 |-> x] = <<x>>
    OBVIOUS
  <2> QED
    BY <2>2, <2>3
<1>4. WireMessage("user", m) = Brought(rs, 1)
  BY <1>2, <1>3, Zenon DEF WireMessage, Brought
<1> HIDE DEF m
<1>5. A!AnthropicStep(W, m) = Append(W, Brought(rs, 1))
  BY <1>1, <1>4, StepIs
<1> QED
  BY <1>5 DEF m

LEMMA NextBrought ==
    ASSUME NEW W, Listed(W), NEW rs, NEW k \in Nat
    PROVE  A!AnthropicStep(Append(W, Brought(rs, k)), A!ToolMessage(rs[k + 1])) = Append(W, Brought(rs, k + 1))
<1> DEFINE m == A!ToolMessage(rs[k + 1])
           x == A!WirePart(A!ResultPart(rs[k + 1]))
           a == Brought(rs, k)
           b == Brought(rs, k + 1)
           V == Append(W, a)
           n == Len(W) + 1
<1>1. m.role = "tool" /\ A!WireParts(m) = <<x>>
  BY ToolOnWire DEF A!ToolMessage
<1>2. a.role = "user" /\ b = [a EXCEPT !.parts = a.parts \o <<x>>]
  <2> DEFINE p == [j \in 1 .. k |-> A!WirePart(A!ResultPart(rs[j]))]
             q == [j \in 1 .. k + 1 |-> A!WirePart(A!ResultPart(rs[j]))]
             S == {A!WirePart(A!ResultPart(rs[j])) : j \in 1 .. k + 1}
  <2>1. a = [role |-> "user", parts |-> p] /\ b = [role |-> "user", parts |-> q]
    BY DEF Brought
  <2>2. p \in [1 .. k -> S] /\ q \in [1 .. k + 1 -> S] /\ x \in S
    OBVIOUS
  <2>3. (\A j \in 1 .. k : p[j] = q[j]) /\ q[k + 1] = x
    OBVIOUS
  <2> HIDE DEF p, q, S, x
  <2>4. p \in Seq(S) /\ q \in Seq(S) /\ Len(p) = k /\ Len(q) = k + 1
    BY <2>2
  <2>5. q = p \o <<x>>
    <3> DEFINE r == p \o <<x>>
    <3>1. r \in Seq(S) /\ Len(r) = k + 1 /\ (\A j \in 1 .. k : r[j] = p[j]) /\ r[k + 1] = x
      BY <2>2, <2>4
    <3> HIDE DEF r
    <3>2. \A j \in 1 .. k + 1 : j = k + 1 \/ j \in 1 .. k
      OBVIOUS
    <3>3. \A j \in 1 .. k + 1 : q[j] = r[j]
      BY <2>3, <3>1, <3>2
    <3>4. q = r
      BY <2>4, <3>1, <3>3
    <3> QED
      BY <3>4 DEF r
  <2>6. a.parts = p /\ a.role = "user"
    BY <2>1
  <2>7. a.parts \o <<x>> = q
    BY <2>5, <2>6
  <2> HIDE DEF a, b
  <2>8. [a EXCEPT !.parts = q] = b
    BY <2>1
  <2> QED
    BY <2>6, <2>7, <2>8
<1> HIDE DEF m, x, a, b
<1>3. PICK T : W \in Seq(T)
  BY DEF Listed
<1>4. /\ V \in Seq(T \cup {a, b}) /\ Len(V) = n /\ n \in Nat \ {0} /\ V[n] = a /\ V # <<>>
      /\ \A i \in 1 .. Len(W) : V[i] = W[i]
  BY <1>3
<1> DEFINE Z == Append(W, b)
<1>5. Z \in Seq(T \cup {a, b}) /\ Len(Z) = n /\ Z[n] = b /\ \A i \in 1 .. Len(W) : Z[i] = W[i]
  BY <1>3
<1>6. A!AnthropicStep(V, m) = [V EXCEPT ![n].parts = a.parts \o <<x>>]
  <2>1. Len(V) = n /\ V[n] = a
    BY <1>4
  <2>2. V # <<>> /\ V[Len(V)].role = "user" /\ V[Len(V)].parts = a.parts
    BY <1>2, <1>4, <2>1
  <2> HIDE DEF V, n
  <2>3. A!AnthropicStep(V, m) = [V EXCEPT ![Len(V)].parts = V[Len(V)].parts \o A!WireParts(m)]
    BY <1>1, <2>2, StepIs
  <2> QED
    BY <1>1, <2>1, <2>2, <2>3
<1> DEFINE Y == [V EXCEPT ![n].parts = a.parts \o <<x>>]
<1>7. Y = [V EXCEPT ![n] = b]
  BY <1>2, <1>4
<1> HIDE DEF V, Z, Y
<1>8. \A i \in 1 .. n : i = n \/ i \in 1 .. Len(W)
  BY <1>3
<1> HIDE DEF n
<1>9. Y = Z
  <2>1. DOMAIN V = 1 .. n /\ DOMAIN Z = 1 .. n /\ V = [i \in DOMAIN V |-> V[i]] /\ Z = [i \in DOMAIN Z |-> Z[i]]
    BY <1>4, <1>5
  <2>2. Y = [i \in 1 .. n |-> IF i = n THEN b ELSE V[i]]
    BY <1>7, <2>1
  <2>3. \A i \in 1 .. n : Z[i] = IF i = n THEN b ELSE V[i]
    BY <1>4, <1>5, <1>8
  <2> QED
    BY <2>1, <2>2, <2>3
<1> QED
  BY <1>6, <1>9 DEF V, Z, Y, m, a, b

\* Every result is next to its call.
PairedAt(W, i) ==
    \/ A!RefsOf(W[i], "result") = <<>>
    \/ i > 1 /\ W[i - 1].role = "assistant" /\ A!RefsOf(W[i], "result") = A!RefsOf(W[i - 1], "call")
Paired(W) == Listed(W) /\ \A i \in 1 .. Len(W) : PairedAt(W, i)
AsksFor(W, cs) ==
    W # <<>> /\ W[Len(W)].role = "assistant" /\ A!RefsOf(W[Len(W)], "call") = Ids(cs, Len(cs))
TurnSent(h, W, t) == Paired(W) /\ (t > 0 /\ h[t].kind = "assistant" => AsksFor(W, h[t].calls))

LEMMA PairedLonger ==
    ASSUME NEW W, Paired(W), NEW e,
           \/ A!RefsOf(e, "result") = <<>>
           \/ W # <<>> /\ W[Len(W)].role = "assistant" /\ A!RefsOf(e, "result") = A!RefsOf(W[Len(W)], "call")
    PROVE  Paired(Append(W, e))
<1> DEFINE V == Append(W, e)
           n == Len(W) + 1
<1>1. PICK T : W \in Seq(T)
  BY DEF Paired, Listed
<1>2. /\ V \in Seq(T \cup {e}) /\ Len(V) = n /\ n \in Nat \ {0} /\ V[n] = e /\ (\A i \in 1 .. Len(W) : V[i] = W[i])
      /\ n - 1 = Len(W) /\ (W # <<>> => n > 1 /\ Len(W) \in 1 .. Len(W))
  BY <1>1
<1>3. Listed(V)
  BY <1>2, Zenon DEF Listed
<1> HIDE DEF V
<1>4. PairedAt(V, n)
  <2> HIDE DEF n
  <2> QED
    BY <1>2 DEF PairedAt
<1>5. ASSUME NEW i \in 1 .. Len(W) PROVE PairedAt(V, i)
  <2>1. PairedAt(W, i) /\ V[i] = W[i]
    BY <1>2 DEF Paired
  <2>2. i > 1 => i - 1 \in 1 .. Len(W) /\ V[i - 1] = W[i - 1]
    BY <1>1, <1>2
  <2> QED
    BY <2>1, <2>2 DEF PairedAt
<1>6. \A i \in 1 .. Len(V) : i = n \/ i \in 1 .. Len(W)
  BY <1>1, <1>2
<1> HIDE DEF n
<1>7. Paired(V)
  BY <1>2, <1>3, <1>4, <1>5, <1>6 DEF Paired
<1> QED
  BY <1>7 DEF V

LEMMA RoundConverted ==
    ASSUME NEW W, Paired(W), NEW rs, NEW cs, Answers(rs, cs), AsksFor(W, cs), NEW c, NEW p \in Nat, c[p] = W,
           \A j \in 1 .. Len(rs) : c[p + j] = A!AnthropicStep(c[p + (j - 1)], A!ToolMessage(rs[j]))
    PROVE  Paired(c[p + Len(rs)])
<1> DEFINE n == Len(rs)
           Good == {k \in Nat : k + 1 <= n => c[p + (k + 1)] = Append(W, Brought(rs, k + 1))}
<1>1. n \in Nat /\ n = Len(cs) /\ Listed(W)
  BY ListedIs DEF Answers, Paired
<1>2. 0 \in Good
  <2> SUFFICES ASSUME 1 <= n PROVE c[p + 1] = Append(W, Brought(rs, 1))
    OBVIOUS
  <2>1. 1 \in 1 .. Len(rs) /\ 1 - 1 = 0 /\ p + 0 = p
    BY <1>1
  <2>2. c[p + 1] = A!AnthropicStep(W, A!ToolMessage(rs[1]))
    BY <2>1
  <2>3. ~(W # <<>> /\ W[Len(W)].role = "user")
    BY DEF AsksFor
  <2> QED
    BY <2>2, <2>3, FirstBrought
<1>3. ASSUME NEW k \in Nat, k \in Good PROVE k + 1 \in Good
  <2> DEFINE l == k + 1
  <2> SUFFICES ASSUME l + 1 <= n PROVE c[p + (l + 1)] = Append(W, Brought(rs, l + 1))
    OBVIOUS
  <2>1. l + 1 \in 1 .. Len(rs) /\ (l + 1) - 1 = l /\ l <= n /\ l \in Nat
    BY <1>1
  <2>2. c[p + l] = Append(W, Brought(rs, l))
    BY <1>3, <2>1
  <2> HIDE DEF l
  <2>3. c[p + (l + 1)] = A!AnthropicStep(c[p + l], A!ToolMessage(rs[l + 1]))
    BY <2>1
  <2> QED
    <3>1. A!AnthropicStep(Append(W, Brought(rs, l)), A!ToolMessage(rs[l + 1])) = Append(W, Brought(rs, l + 1))
      <4>1. Listed(W) /\ l \in Nat
        BY <1>1, <2>1
      <4> QED
        BY <4>1, NextBrought, Zenon
    <3> QED
      BY <2>2, <2>3, <3>1
<1>4. Nat \subseteq Good
  <2> HIDE DEF Good
  <2> QED
    BY <1>2, <1>3, Induct
<1>5. CASE n = 0
  BY <1>5
<1>6. CASE n # 0
  <2>1. n - 1 \in Nat /\ (n - 1) + 1 = n
    BY <1>1, <1>6
  <2>2. c[p + n] = Append(W, Brought(rs, n))
    <3>1. n - 1 \in Good
      BY <1>4, <2>1
    <3> HIDE DEF n
    <3> QED
      BY <2>1, <3>1
  <2>3. Brought(rs, n).parts = [j \in 1 .. n |-> A!WirePart(A!ResultPart(rs[j]))]
    BY DEF Brought
  <2> DEFINE e == Brought(rs, n)
  <2> HIDE DEF e
  <2>4. A!RefsOf(e, "result") = Ids(rs, n)
    BY <1>1, <2>3, ResultsOnWire DEF e
  <2>5. Ids(rs, n) = Ids(cs, n)
    BY DEF Ids, Answers
  <2>6. Paired(Append(W, e))
    BY <1>1, <2>4, <2>5, PairedLonger DEF AsksFor
  <2> QED
    BY <2>2, <2>6 DEF e
<1> QED
  BY <1>5, <1>6

LEMMA TurnConverted ==
    ASSUME NEW h, Listed(h), Told(h), NEW M, NEW f, Layout(h, M, f), NEW c, Conversion(M, c),
           NEW t \in Nat, t + 1 <= Len(h), TurnSent(h, c[f[t]], t)
    PROVE  TurnSent(h, c[f[t + 1]], t + 1)
<1> DEFINE i == t + 1
           u == h[i]
           p == f[t]
           W == c[p]
           ms == A!TurnMessages(u)
<1>1. Len(h) \in Nat /\ i \in 1 .. Len(h) /\ i - 1 = t /\ t \in 0 .. Len(h) /\ Len(M) \in Nat
  BY ListedIs DEF Layout
<1>2. TurnTold(h, i) /\ Said(u)
  BY <1>1, TurnsSay DEF Told
<1>3. p \in Nat /\ f[i] = p + Len(ms) /\ \A j \in 1 .. Len(ms) : p + j \in 2 .. Len(M) /\ M[p + j] = ms[j]
  BY <1>1 DEF Layout
<1>4. ASSUME NEW j \in 1 .. Len(ms) PROVE c[p + j] = A!AnthropicStep(c[p + (j - 1)], ms[j])
  <2> DEFINE q == p + (j - 1)
  <2>1. p + j \in 2 .. Len(M) /\ M[p + j] = ms[j]
    BY <1>3
  <2>2. q \in 0 .. Len(M) /\ q + 1 = p + j /\ q + 1 \in 1 .. Len(M)
    <3> DEFINE l == Len(ms)
    <3>1. l \in Nat /\ j \in 1 .. l
      BY <1>2, ListedIs DEF Said
    <3> HIDE DEF l, ms, p
    <3> QED
      BY <1>1, <1>3, <2>1, <3>1
  <2> HIDE DEF q
  <2>3. c[q + 1] = A!AnthropicStep(c[q], M[q + 1])
    BY <1>1, <2>2, ConvertsNext
  <2> QED
    BY <2>1, <2>2, <2>3 DEF q
<1>5. ASSUME NEW m, OneMessage(u, m) PROVE f[i] = p + 1 /\ c[f[i]] = A!AnthropicStep(W, m)
  <2>1. Len(ms) = 1 /\ ms[1] = m
    BY <1>5 DEF OneMessage
  <2>2. 1 \in 1 .. Len(ms) /\ 1 - 1 = 0 /\ p + 0 = p
    BY <1>3, <2>1
  <2> HIDE DEF p, ms
  <2>3. c[p + 1] = A!AnthropicStep(c[p + (1 - 1)], ms[1])
    BY <1>4, <2>2
  <2> QED
    BY <1>3, <2>1, <2>2, <2>3
<1>6. Paired(W) /\ (t > 0 /\ h[t].kind = "assistant" => AsksFor(W, h[t].calls))
  BY DEF TurnSent
<1> HIDE DEF W, ms, p, u
<1>7. CASE u.kind = "steering"
  <2>1. A!SystemMessage(u.text).role = "system"
    BY DEF A!SystemMessage
  <2>2. c[f[i]] = W
    BY <1>2, <1>5, <1>7, <2>1, StepIs DEF Said
  <2>3. u.kind # "assistant"
    BY <1>7
  <2> QED
    BY <1>6, <2>2, <2>3 DEF TurnSent, u
<1>8. CASE u.kind = "user"
  <2> DEFINE m == A!UserMessage(u.text)
             e == WireMessage("user", m)
  <2>1. m = [role |-> "user", parts |-> <<A!Text(u.text)>>]
    BY DEF A!UserMessage
  <2>2. m.role = "user" /\ e.parts = A!WireParts(m)
    BY <2>1 DEF WireMessage
  <2>3. A!RefsOf(e, "result") = <<>>
    BY <2>1, <2>2, TextOnWire
  <2> HIDE DEF m, e
  <2>4. c[f[i]] = A!AnthropicStep(W, m)
    BY <1>2, <1>5, <1>8 DEF Said, m
  <2>5. c[f[i]] = Append(W, e)
    BY <2>2, <2>4, StepIs DEF e
  <2>6. Paired(c[f[i]])
    BY <1>6, <2>3, <2>5, PairedLonger
  <2> QED
    BY <1>8, <2>6 DEF TurnSent, u
<1>9. CASE u.kind = "assistant"
  <2> DEFINE m == A!AssistantMessage(u.text, u.calls)
             e == WireMessage("assistant", m)
  <2>1. m.role = "assistant" /\ e.role = "assistant" /\ e.parts = A!WireParts(m)
    BY DEF A!AssistantMessage, WireMessage
  <2>2. Listed(u.calls)
    BY <1>2, <1>9 DEF TurnTold, u
  <2> HIDE DEF e
  <2>3. A!RefsOf(e, "result") = <<>> /\ A!RefsOf(e, "call") = Ids(u.calls, Len(u.calls))
    BY <2>1, <2>2, AnswerOnWire
  <2> HIDE DEF m
  <2>4. c[f[i]] = A!AnthropicStep(W, m)
    BY <1>2, <1>5, <1>9 DEF Said, m
  <2>5. c[f[i]] = Append(W, e)
    BY <2>1, <2>4, StepIs DEF e
  <2>6. Paired(c[f[i]])
    BY <1>6, <2>3, <2>5, PairedLonger
  <2>7. Len(Append(W, e)) = Len(W) + 1 /\ Append(W, e)[Len(W) + 1] = e /\ Append(W, e) # <<>>
    <3>1. PICK T : W \in Seq(T)
      BY <1>6 DEF Paired, Listed
    <3> QED
      BY <3>1
  <2>8. AsksFor(c[f[i]], u.calls)
    BY <2>1, <2>3, <2>5, <2>7 DEF AsksFor
  <2> QED
    BY <2>6, <2>8 DEF TurnSent, u
<1>10. CASE u.kind = "results"
  <2> DEFINE rs == u.results
             cs == h[t].calls
  <2>1. i > 1 /\ h[t].kind = "assistant" /\ Answers(rs, cs)
    BY <1>1, <1>2, <1>10 DEF TurnTold, u
  <2>2. AsksFor(W, cs)
    BY <1>1, <1>6, <2>1
  <2>3. Len(ms) = Len(rs) /\ \A j \in 1 .. Len(rs) : ms[j] = A!ToolMessage(rs[j])
    BY <1>2, <1>10 DEF Said, ms
  <2>4. \A j \in 1 .. Len(rs) : c[p + j] = A!AnthropicStep(c[p + (j - 1)], A!ToolMessage(rs[j]))
    BY <1>4, <2>3
  <2> HIDE DEF rs, cs
  <2>5. Paired(c[p + Len(rs)])
    BY <1>3, <1>6, <2>1, <2>2, <2>4, RoundConverted DEF W
  <2>6. u.kind # "assistant"
    BY <1>10
  <2> QED
    BY <1>3, <2>3, <2>5, <2>6 DEF TurnSent, u
<1> QED
  BY <1>2, <1>7, <1>8, <1>9, <1>10 DEF TurnTold, u

LEMMA AllConverted ==
    ASSUME NEW h, Listed(h), Told(h), NEW request, request.messages = Messages(h)
    PROVE  Paired(A!Anthropic(request).messages)
<1> DEFINE M == Messages(h)
           n == Len(h)
<1>1. PICK f : Layout(h, M, f)
  BY MessagesAreLaid
<1>2. Len(M) \in Nat \ {0} /\ f[0] = 1 /\ f[n] = Len(M) /\ M[1] = A!SystemMessage("system_prompt") /\ n \in Nat
      /\ f[n] \in Nat
  BY <1>1, ListedIs DEF Layout
<1>3. PICK c : Conversion(M, c) /\ A!Anthropic(request).messages = c[Len(M)]
  BY <1>2, Converts
<1> HIDE DEF M
<1> DEFINE Good == {t \in Nat : t <= n => TurnSent(h, c[f[t]], t)}
<1>4. 0 \in Good
  <2>2. c[0] = <<>> /\ c[0 + 1] = A!AnthropicStep(c[0], M[0 + 1])
    <3>1. 0 \in 0 .. Len(M) /\ 0 + 1 \in 1 .. Len(M)
      BY <1>2
    <3> QED
      BY <1>2, <1>3, <3>1, ConvertsNext
  <2>3. M[1].role = "system"
    BY <1>2 DEF A!SystemMessage
  <2>4. c[1] = <<>>
    BY <2>2, <2>3, StepIs
  <2>5. Paired(<<>>)
    BY DEF Paired, Listed
  <2> QED
    BY <1>2, <2>4, <2>5 DEF TurnSent
<1>5. ASSUME NEW t \in Nat, t \in Good PROVE t + 1 \in Good
  <2> SUFFICES ASSUME t + 1 <= n PROVE TurnSent(h, c[f[t + 1]], t + 1)
    OBVIOUS
  <2>1. TurnSent(h, c[f[t]], t)
    BY <1>2, <1>5
  <2> QED
    BY <1>1, <1>3, <2>1, TurnConverted
<1>6. Nat \subseteq Good
  <2> HIDE DEF Good
  <2> QED
    BY <1>4, <1>5, Induct
<1>7. TurnSent(h, c[f[n]], n)
  BY <1>2, <1>6
<1> QED
  BY <1>2, <1>3, <1>7 DEF TurnSent

----------------------------------------------------------------------------
(* OpenAI: one message each.                                               *)
LEMMA ToolInOpenAi ==
    ASSUME NEW r
    PROVE  LET w == A!OpenAiMessage(A!ToolMessage(r))
           IN  w.role = "tool" /\ A!RefsOf(w, "result") = [j \in 1 .. 1 |-> <<"id", r.id>>]
<1> DEFINE x == A!ResultPart(r)
           m == A!ToolMessage(r)
           w == A!OpenAiMessage(m)
           picked == A!PartsOf(m, "result")
<1>1. m.parts = <<x>> /\ m.role = "tool" /\ x.type = "result"
  BY DEF A!ToolMessage, A!ResultPart
<1> HIDE DEF x
<1>2. <<x>> \in Seq({x}) /\ Len(<<x>>) = 1 /\ <<x>>[1] = x
  OBVIOUS
<1>3. Listed(<<x>>)
  BY <1>2, Zenon DEF Listed
<1>4. EndsWith(m.parts, "result", 0)
  BY <1>1, <1>2, <1>3 DEF EndsWith
<1>5. picked = LastItems(m.parts, 0)
  <2>1. picked = A!OfType(m.parts, "result")
    BY DEF A!PartsOf
  <2> HIDE DEF picked, m
  <2> QED
    BY <1>4, <2>1, OfTypeAre
<1>6. DOMAIN picked = 1 .. 1 /\ picked[1] = x
  BY <1>1, <1>2, <1>5 DEF LastItems
<1>7. picked # <<>>
  <2>1. 1 \in DOMAIN picked /\ DOMAIN <<>> = {}
    BY <1>6
  <2> HIDE DEF picked
  <2> QED
    BY <2>1
<1> HIDE DEF picked
<1>8. w = [role |-> m.role,
           parts |-> IF m.role = "tool" /\ picked # <<>> THEN <<A!WirePart(picked[1])>>
                     ELSE IF m.role = "assistant"
                     THEN <<A!JoinedText(m)>> \o A!WireParts([parts |-> A!PartsOf(m, "call")])
                     ELSE <<A!JoinedText(m)>>]
  BY DEF A!OpenAiMessage, picked
<1> HIDE DEF w
<1>9. w.role = "tool" /\ w.parts = <<A!WirePart(x)>>
  BY <1>1, <1>6, <1>7, <1>8
<1> DEFINE rs == [j \in 1 .. 1 |-> r]
<1>10. w.parts = [j \in 1 .. 1 |-> A!WirePart(A!ResultPart(rs[j]))]
  <2>1. \A j \in 1 .. 1 : A!WirePart(A!ResultPart(rs[j])) = A!WirePart(x)
    BY DEF x
  <2>2. [j \in 1 .. 1 |-> A!WirePart(A!ResultPart(rs[j]))] = [j \in 1 .. 1 |-> A!WirePart(x)]
    BY <2>1
  <2> DEFINE y == A!WirePart(x)
  <2> HIDE DEF y
  <2>3. [j \in 1 .. 1 |-> y] = <<y>>
    OBVIOUS
  <2> QED
    BY <1>9, <2>2, <2>3 DEF y
<1>11. \A j \in 1 .. 1 : rs[j].id = r.id
  OBVIOUS
<1> HIDE DEF rs
<1>12. A!RefsOf(w, "result") = Ids(rs, 1)
  BY <1>10, ResultsOnWire
<1>13. Ids(rs, 1) = [j \in 1 .. 1 |-> <<"id", r.id>>]
  BY <1>11 DEF Ids
<1> QED
  BY <1>9, <1>12, <1>13 DEF w, m

LEMMA TextInOpenAi ==
    ASSUME NEW m, m.role \in {"user", "system"}
    PROVE  LET w == A!OpenAiMessage(m) IN w.role # "assistant" /\ A!RefsOf(w, "result") = <<>>
<1> DEFINE w == A!OpenAiMessage(m)
<1>1. w.role = m.role /\ w.parts = <<A!JoinedText(m)>>
  BY DEF A!OpenAiMessage
<1>2. PICK t : A!JoinedText(m) = A!Text(t)
  BY DEF A!JoinedText
<1> HIDE DEF w
<1>3. A!RefsOf(w, "result") = <<>>
  BY <1>1, <1>2, TextOnWire
<1> QED
  BY <1>1, <1>3 DEF w

LEMMA AnswerInOpenAi ==
    ASSUME NEW text, NEW calls, Listed(calls)
    PROVE  LET w == A!OpenAiMessage(A!AssistantMessage(text, calls))
           IN  w.role = "assistant" /\ A!RefsOf(w, "result") = <<>> /\ A!RefsOf(w, "call") = Ids(calls, Len(calls))
<1> DEFINE m == A!AssistantMessage(text, calls)
           n == Len(calls)
           w == A!OpenAiMessage(m)
           picked == A!PartsOf(m, "call")
           x == A!JoinedText(m)
           q == A!WireParts([parts |-> picked])
<1>1. PICK c : SaysCalls(m.parts, calls, c)
  BY AnswerParts
<1>2. m.role = "assistant"
  BY DEF A!AssistantMessage
<1>3. x.type = "text"
  BY DEF A!JoinedText, A!Text
<1> HIDE DEF m, x
<1>4. w.role = "assistant" /\ w.parts = <<x>> \o q
  BY <1>2 DEF A!OpenAiMessage, x
<1>5. Listed(m.parts) /\ c \in {0, 1} /\ Len(m.parts) = c + n /\ n \in Nat
  BY <1>1, ListedIs DEF SaysCalls
<1> HIDE DEF n, w
<1>6. \A j \in 1 .. n : m.parts[c + j] = A!CallPart(calls[j])
  BY <1>1 DEF SaysCalls, n
<1>7. EndsWith(m.parts, "call", c)
  <2>1. \A j \in 1 .. n : m.parts[c + j].type = "call"
    BY <1>6, PartOnWire
  <2>2. \A i \in c + 1 .. c + n : i - c \in 1 .. n /\ c + (i - c) = i
    BY <1>5
  <2>3. \A i \in c + 1 .. c + n : m.parts[i].type = "call"
    BY <2>1, <2>2
  <2>4. \A i \in 1 .. c : i = 1 /\ c = 1
    BY <1>5
  <2>5. \A i \in 1 .. c : m.parts[i].type # "call"
    BY <1>1, <2>4 DEF SaysCalls
  <2>6. c \in 0 .. c + n
    BY <1>5
  <2> QED
    BY <1>5, <2>3, <2>5, <2>6 DEF EndsWith
<1>8. picked = LastItems(m.parts, c)
  <2>1. picked = A!OfType(m.parts, "call")
    BY DEF A!PartsOf
  <2> HIDE DEF picked
  <2> QED
    BY <1>7, <2>1, OfTypeAre
<1>9. /\ DOMAIN picked = 1 .. n /\ (\A j \in 1 .. n : picked[j] = A!CallPart(calls[j]))
      /\ picked = [j \in DOMAIN picked |-> picked[j]]
  <2>1. Len(m.parts) - c = n
    BY <1>5
  <2> QED
    BY <1>6, <1>8, <2>1 DEF LastItems
<1> HIDE DEF picked
<1>10. Listed(picked) /\ Len(picked) = n
  <2> DEFINE P == {A!CallPart(calls[j]) : j \in 1 .. n}
  <2>1. picked \in [1 .. n -> P]
    BY <1>9
  <2> HIDE DEF P
  <2>2. picked \in Seq(P) /\ Len(picked) = n
    BY <1>5, <2>1
  <2> QED
    BY <2>2 DEF Listed
<1>11. Sent([parts |-> picked], q)
  <2> DEFINE k == [parts |-> picked]
  <2>1. k.parts = picked
    OBVIOUS
  <2> HIDE DEF k
  <2>2. Sent(k, A!WireParts(k))
    BY <1>10, <2>1, PartsOnWire
  <2> QED
    BY <2>2 DEF k
<1> HIDE DEF q
<1>12. Listed(q) /\ Len(q) = n /\ \A j \in 1 .. n : q[j] = A!WirePart(A!CallPart(calls[j]))
  BY <1>9, <1>10, <1>11 DEF Sent
<1>13. ASSUME NEW j \in 1 .. n PROVE q[j].type = "call" /\ q[j].ref = <<"id", calls[j].id>>
  <2>1. q[j] = A!WirePart(A!CallPart(calls[j]))
    BY <1>12
  <2> QED
    BY <2>1, PartOnWire
<1> DEFINE ps == <<x>> \o q
<1>14. Listed(ps) /\ Len(ps) = 1 + n /\ ps[1] = x /\ \A j \in 1 .. n : ps[1 + j] = q[j]
  <2>1. PICK T : q \in Seq(T)
    BY <1>12 DEF Listed
  <2>2. ps \in Seq(T \cup {x}) /\ Len(ps) = 1 + n /\ ps[1] = x /\ \A j \in 1 .. n : ps[1 + j] = q[j]
    BY <1>5, <1>12, <2>1
  <2> HIDE DEF ps
  <2> QED
    BY <2>2, Zenon DEF Listed
<1> HIDE DEF ps
<1>15. w.parts = ps
  BY <1>4 DEF ps
<1>16. ASSUME NEW i \in 1 .. 1 + n, i # 1 PROVE ps[i].type = "call"
  <2>1. i - 1 \in 1 .. n /\ 1 + (i - 1) = i
    BY <1>5, <1>16
  <2>2. ps[1 + (i - 1)] = q[i - 1]
    BY <1>14, <2>1
  <2> QED
    BY <1>13, <2>1, <2>2
<1>17. EndsWith(ps, "call", 1)
  <2>1. 1 \in 0 .. 1 + n /\ (\A i \in 1 + 1 .. 1 + n : i \in 1 .. 1 + n /\ i # 1) /\ \A i \in 1 .. 1 : i = 1
    BY <1>5
  <2> QED
    BY <1>3, <1>14, <1>16, <2>1 DEF EndsWith
<1>18. A!RefsOf(w, "call") = Ids(calls, n)
  <2>1. A!RefsOf(w, "call") = LastRefs(ps, 1)
    BY <1>15, <1>17, RefsAre
  <2>2. Len(ps) - 1 = n
    BY <1>5, <1>14
  <2>3. \A j \in 1 .. n : ps[1 + j].ref = <<"id", calls[j].id>>
    BY <1>13, <1>14
  <2> QED
    BY <2>1, <2>2, <2>3 DEF LastRefs, Ids
<1>19. A!RefsOf(w, "result") = <<>>
  <2>1. \A i \in 1 .. Len(w.parts) : w.parts[i].type # "result"
    BY <1>3, <1>14, <1>15, <1>16
  <2> QED
    BY <1>14, <1>15, <2>1, NoRefs
<1> QED
  BY <1>4, <1>18, <1>19 DEF n, w, m

Matched(w, i) ==
    A!RefsOf(w[i], "result") # <<>> =>
        \E k \in A!AssistantAt(w, i) : A!ToSet(A!RefsOf(w[i], "result")) \subseteq A!ToSet(A!RefsOf(w[k], "call"))

\* The results of turn i follow the assistant's message of turn i - 1.
LEMMA AnswerBefore ==
    ASSUME NEW h, Listed(h), Told(h), NEW M, NEW f, Layout(h, M, f),
           NEW i \in 1 .. Len(h), h[i].kind = "results", NEW j \in 1 .. Len(h[i].results)
    PROVE  /\ f[i - 1] \in 2 .. Len(M) /\ M[f[i - 1]] = A!AssistantMessage(h[i - 1].text, h[i - 1].calls)
           /\ f[i - 1] + j \in 2 .. Len(M)
           /\ \A b \in 1 .. j : M[f[i - 1] + b] = A!ToolMessage(h[i].results[b])
           /\ Answers(h[i].results, h[i - 1].calls)
<1> DEFINE t == i - 1
           m == A!AssistantMessage(h[t].text, h[t].calls)
<1>1. i > 1 /\ h[t].kind = "assistant" /\ Answers(h[i].results, h[t].calls)
  BY DEF Told, TurnTold
<1>2. t \in 1 .. Len(h) /\ t - 1 \in 0 .. Len(h) /\ Len(h) \in Nat
  BY <1>1, ListedIs
<1>3. Said(h[t]) /\ Said(h[i])
  BY <1>2, TurnsSay DEF Told
<1>4. A!TurnMessages(h[t]) = <<m>>
  BY <1>1, <1>3 DEF Said, OneMessage
<1> HIDE DEF m
<1>5. f[t] \in 2 .. Len(M) /\ M[f[t]] = m
  <2>1. Len(<<m>>) = 1 /\ <<m>>[1] = m /\ 1 \in 1 .. 1
    OBVIOUS
  <2>2. f[t] = f[t - 1] + 1 /\ f[t - 1] + 1 \in 2 .. Len(M) /\ M[f[t - 1] + 1] = m
    BY <1>2, <1>4, <2>1 DEF Layout
  <2> QED
    BY <2>2
<1>6. /\ Len(A!TurnMessages(h[i])) = Len(h[i].results) /\ Len(h[i].results) \in Nat
      /\ \A b \in 1 .. Len(h[i].results) : A!TurnMessages(h[i])[b] = A!ToolMessage(h[i].results[b])
  BY <1>1, <1>3, ListedIs DEF Said, Answers
<1>7. \A b \in 1 .. Len(h[i].results) : f[t] + b \in 2 .. Len(M) /\ M[f[t] + b] = A!ToolMessage(h[i].results[b])
  BY <1>6 DEF Layout
<1>8. \A b \in 1 .. j : b \in 1 .. Len(h[i].results)
  BY <1>6
<1> QED
  BY <1>1, <1>5, <1>7, <1>8 DEF m

LEMMA ResultMatched ==
    ASSUME NEW h, Listed(h), Told(h), NEW M, NEW f, Layout(h, M, f), NEW w,
           \A q \in 1 .. Len(M) : w[q] = A!OpenAiMessage(M[q]),
           NEW i \in 1 .. Len(h), h[i].kind = "results", NEW j \in 1 .. Len(h[i].results)
    PROVE  Matched(w, f[i - 1] + j)
<1> DEFINE k == f[i - 1]
           p == k + j
           rs == h[i].results
           cs == h[i - 1].calls
<1>1. /\ k \in 2 .. Len(M) /\ M[k] = A!AssistantMessage(h[i - 1].text, cs) /\ p \in 2 .. Len(M)
      /\ \A b \in 1 .. j : M[k + b] = A!ToolMessage(rs[b])
      /\ Answers(rs, cs)
  BY AnswerBefore
<1>2. Len(M) \in Nat /\ Len(rs) \in Nat /\ Listed(cs) /\ Len(cs) = Len(rs) /\ rs[j].id = cs[j].id
  BY <1>1, ListedIs DEF Layout, Answers
<1> HIDE DEF k, rs, cs
<1>3. j \in 1 .. Len(rs) /\ j \in 1 .. j /\ k \in Nat /\ j \in Nat
  <2>1. j \in 1 .. Len(rs)
    BY DEF rs
  <2>2. k \in 2 .. Len(M)
    BY <1>1
  <2> QED
    BY <1>2, <2>1, <2>2
<1>4. w[k].role = "assistant" /\ A!RefsOf(w[k], "call") = Ids(cs, Len(cs))
  <2>1. k \in 1 .. Len(M)
    BY <1>1, <1>2
  <2>2. w[k] = A!OpenAiMessage(A!AssistantMessage(h[i - 1].text, cs))
    BY <1>1, <2>1
  <2> QED
    BY <1>2, <2>2, AnswerInOpenAi
<1>5. ASSUME NEW q \in k + 1 .. p PROVE w[q].role = "tool"
  <2> DEFINE b == q - k
  <2>1. b \in 1 .. j /\ k + b = q /\ q \in 1 .. Len(M)
    BY <1>1, <1>2, <1>3
  <2> HIDE DEF b
  <2>2. w[q] = A!OpenAiMessage(A!ToolMessage(rs[b]))
    BY <1>1, <2>1
  <2> QED
    BY <2>2, ToolInOpenAi
<1>6. A!RefsOf(w[p], "result") = [b \in 1 .. 1 |-> <<"id", rs[j].id>>]
  <2>1. p \in 1 .. Len(M)
    BY <1>1, <1>2
  <2>2. w[p] = A!OpenAiMessage(A!ToolMessage(rs[j]))
    BY <1>1, <1>3, <2>1
  <2> QED
    BY <2>2, ToolInOpenAi
<1>7. k \in A!AssistantAt(w, p)
  <2>1. k \in 1 .. p - 1 /\ \A q \in k + 1 .. p - 1 : q \in k + 1 .. p
    BY <1>1, <1>2, <1>3
  <2>2. \A q \in k + 1 .. p - 1 : w[q].role # w[k].role
    BY <1>4, <1>5, <2>1
  <2> HIDE DEF p
  <2> QED
    BY <1>4, <2>1, <2>2 DEF A!AssistantAt
<1>8. A!ToSet(A!RefsOf(w[p], "result")) = {<<"id", rs[j].id>>}
  BY <1>6 DEF A!ToSet
<1>9. <<"id", cs[j].id>> \in A!ToSet(A!RefsOf(w[k], "call"))
  <2>1. j \in 1 .. Len(cs)
    BY <1>2, <1>3
  <2> QED
    BY <1>4, <2>1 DEF A!ToSet, Ids
<1> HIDE DEF p
<1>10. Matched(w, p)
  BY <1>2, <1>7, <1>8, <1>9 DEF Matched
<1> QED
  BY <1>10 DEF p, k

LEMMA AllMatched ==
    ASSUME NEW h, Listed(h), Told(h), NEW request, request.messages = Messages(h)
    PROVE  LET w == A!OpenAi(request).messages IN \A p \in DOMAIN w : Matched(w, p)
<1> DEFINE M == Messages(h)
           w == A!OpenAi(request).messages
<1>1. PICK f : Layout(h, M, f)
  BY MessagesAreLaid
<1>2. Listed(M) /\ Len(M) \in Nat /\ DOMAIN M = 1 .. Len(M) /\ M[1] = A!SystemMessage("system_prompt")
  BY <1>1, ListedIs DEF Layout
<1> HIDE DEF M
<1>3. w = [i \in DOMAIN M |-> A!OpenAiMessage(M[i])]
  BY DEF A!OpenAi, M
<1>4. DOMAIN w = 1 .. Len(M) /\ \A q \in 1 .. Len(M) : w[q] = A!OpenAiMessage(M[q])
  BY <1>2, <1>3
<1> HIDE DEF w
<1>5. ASSUME NEW p \in 1 .. Len(M), M[p].role \in {"user", "system"} PROVE Matched(w, p)
  <2>1. A!RefsOf(w[p], "result") = <<>>
    BY <1>4, <1>5, TextInOpenAi
  <2> QED
    BY <2>1 DEF Matched
<1>6. ASSUME NEW p \in 2 .. Len(M) PROVE Matched(w, p)
  <2>1. p \in 1 .. Len(M)
    OBVIOUS
  <2>2. PICK i \in 1 .. Len(h) : \E j \in 1 .. Len(A!TurnMessages(h[i])) : p = f[i - 1] + j
    BY <1>1 DEF Layout
  <2>3. PICK j \in 1 .. Len(A!TurnMessages(h[i])) : p = f[i - 1] + j
    BY <2>2
  <2> DEFINE u == h[i]
             ms == A!TurnMessages(u)
  <2>4. j \in 1 .. Len(ms) /\ M[p] = ms[j]
    BY <1>1, <2>3 DEF Layout
  <2>5. Said(u) /\ TurnTold(h, i)
    BY TurnsSay DEF Told
  <2> HIDE DEF ms
  <2>10. ASSUME NEW m, OneMessage(u, m) PROVE M[p] = m
    <3>1. ms = <<m>>
      BY <2>10 DEF OneMessage, ms
    <3>2. j = 1
      BY <2>4, <3>1
    <3> QED
      BY <2>4, <3>1, <3>2
  <2>6. CASE u.kind = "user"
    <3>1. M[p] = A!UserMessage(u.text)
      BY <2>5, <2>6, <2>10 DEF Said
    <3>2. M[p].role = "user"
      BY <3>1 DEF A!UserMessage
    <3> QED
      BY <1>5, <2>1, <3>2
  <2>7. CASE u.kind = "steering"
    <3>1. M[p] = A!SystemMessage(u.text)
      BY <2>5, <2>7, <2>10 DEF Said
    <3>2. M[p].role = "system"
      BY <3>1 DEF A!SystemMessage
    <3> QED
      BY <1>5, <2>1, <3>2
  <2>8. CASE u.kind = "assistant"
    <3>1. M[p] = A!AssistantMessage(u.text, u.calls)
      <4> DEFINE m == A!AssistantMessage(u.text, u.calls)
      <4>1. OneMessage(u, m)
        BY <2>5, <2>8 DEF Said
      <4> HIDE DEF m
      <4>2. M[p] = m
        BY <2>10, <4>1
      <4> QED
        BY <4>2 DEF m
    <3>2. Listed(u.calls)
      BY <2>5, <2>8 DEF TurnTold
    <3>3. A!RefsOf(w[p], "result") = <<>>
      BY <1>4, <2>1, <3>1, <3>2, AnswerInOpenAi
    <3> QED
      BY <3>3 DEF Matched
  <2>9. CASE u.kind = "results"
    <3>1. j \in 1 .. Len(u.results)
      BY <2>5, <2>9 DEF Said
    <3>2. Matched(w, f[i - 1] + j)
      BY <1>1, <1>4, <2>9, <3>1, ResultMatched
    <3> QED
      BY <2>3, <3>2
  <2> QED
    BY <2>5, <2>6, <2>7, <2>8, <2>9 DEF TurnTold
<1>7. M[1].role = "system"
  BY <1>2 DEF A!SystemMessage
<1>8. ASSUME NEW p \in 1 .. Len(M) PROVE Matched(w, p)
  <2>1. CASE p = 1
    BY <1>5, <1>7, <2>1
  <2>2. CASE p # 1
    <3>1. p \in 2 .. Len(M)
      BY <1>2, <2>2
    <3> QED
      BY <1>6, <3>1
  <2> QED
    BY <2>1, <2>2
<1> QED
  BY <1>4, <1>8 DEF w

LEMMA PairedIsMatched ==
    ASSUME NEW w, Paired(w), NEW i \in DOMAIN w
    PROVE  /\ Matched(w, i)
           /\ A!RefsOf(w[i], "result") # <<>> =>
                w[i - 1].role = "assistant" /\ A!RefsOf(w[i], "result") = A!RefsOf(w[i - 1], "call")
<1>1. Len(w) \in Nat /\ DOMAIN w = 1 .. Len(w)
  BY ListedIs DEF Paired
<1>2. PairedAt(w, i)
  BY <1>1 DEF Paired
<1>3. ASSUME A!RefsOf(w[i], "result") # <<>>
      PROVE  /\ i - 1 \in A!AssistantAt(w, i) /\ w[i - 1].role = "assistant"
             /\ A!RefsOf(w[i], "result") = A!RefsOf(w[i - 1], "call")
  <2> DEFINE k == i - 1
  <2>1. i > 1 /\ w[k].role = "assistant" /\ A!RefsOf(w[i], "result") = A!RefsOf(w[k], "call")
    BY <1>2, <1>3 DEF PairedAt
  <2>2. k \in 1 .. i - 1 /\ \A q \in k + 1 .. i - 1 : FALSE
    BY <1>1, <2>1
  <2> HIDE DEF k
  <2>3. k \in A!AssistantAt(w, i)
    BY <2>1, <2>2 DEF A!AssistantAt
  <2> QED
    BY <2>1, <2>3 DEF k
<1> QED
  BY <1>3 DEF Matched

LEMMA ResultsMatchNow ==
    ASSUME A!SessionAssumption, config \in Sessions, Listed(history), Told(history) PROVE A!ResultsMatchCalls
<1> DEFINE request == A!BuildRequest
           Follows(adapter, w, i) ==
              /\ Matched(w, i)
              /\ A!RefsOf(w[i], "result") # <<>> /\ adapter = "anthropic" =>
                    w[i - 1].role = "assistant" /\ A!RefsOf(w[i], "result") = A!RefsOf(w[i - 1], "call")
<1>1. request.messages = Messages(history) /\ request.provider = None
  BY DEF A!BuildRequest, A!Request, Messages
<1> HIDE DEF request
<1>2. ASSUME NEW adapter \in A!ResolveProvider(request, config.registered) \ {"google"},
             NEW i \in DOMAIN A!Wire(adapter, request).messages
      PROVE  Follows(adapter, A!Wire(adapter, request).messages, i)
  <2>1. adapter \in config.registered
    BY <1>1 DEF A!ResolveProvider
  <2>2. adapter \in {"anthropic", "openai"}
    BY <2>1 DEF A!SessionAssumption, A!Adapters
  <2>3. CASE adapter = "anthropic"
    <3> DEFINE w == A!Anthropic(request).messages
    <3>1. A!Wire(adapter, request).messages = w
      BY <2>3 DEF A!Wire
    <3>2. Paired(w)
      BY <1>1, AllConverted
    <3> HIDE DEF w
    <3>3. Follows(adapter, w, i)
      BY <1>2, <3>1, <3>2, PairedIsMatched
    <3> QED
      BY <3>1, <3>3
  <2>4. CASE adapter = "openai"
    <3> DEFINE w == A!OpenAi(request).messages
    <3>1. A!Wire(adapter, request).messages = w
      BY <2>4 DEF A!Wire
    <3>2. \A p \in DOMAIN w : Matched(w, p)
      BY <1>1, AllMatched
    <3> HIDE DEF w
    <3>3. Matched(w, i) /\ adapter # "anthropic"
      BY <1>2, <2>4, <3>1, <3>2
    <3> QED
      BY <3>1, <3>3
  <2> QED
    BY <2>2, <2>3, <2>4
<1> QED
  BY <1>2 DEF A!ResultsMatchCalls, Matched, request

LEMMA AnsweredAtFirst == ASSUME A!Init PROVE AnsweredInv
<1>1. sessionPc = "idle" /\ history = <<>> /\ Len(<<>>) = 0
  BY DEF A!Init
<1> QED
  BY <1>1 DEF AnsweredInv, Told

\* THEOREM: whatever was steered, refused, cut off or failed before, each result a session
\* sends to Anthropic or OpenAI names a call of the last assistant message before it, and
\* Anthropic gets all of a round, in order, before anything else is said
\* (session.rs build_request, the adapters' convert_messages).
THEOREM ResultsFollowCalls == A!SessionAssumption /\ A!Spec => []A!ResultsMatchCalls
<1> SUFFICES ASSUME A!SessionAssumption PROVE A!Spec => []A!ResultsMatchCalls
  OBVIOUS
<1>1. A!Init => KeptInv /\ LoopsInv /\ AnsweredInv
  BY KeptAtFirst, LoopsAtFirst, AnsweredAtFirst
<1>2. KeptInv /\ LoopsInv /\ [A!Next]_A!vars => LoopsInv'
  BY LoopsInvKept
<1>3. KeptInv /\ LoopsInv /\ AnsweredInv /\ [A!Next]_A!vars => AnsweredInv'
  BY AnsweredInvKept
<1>4. KeptInv /\ LoopsInv /\ AnsweredInv => A!ResultsMatchCalls
  BY ResultsMatchNow DEF KeptInv, KeptTypes, LoopsInv, AnsweredInv
<1> QED
  BY <1>1, <1>2, <1>3, <1>4, KeptInvKept, PTL DEF A!Spec

----------------------------------------------------------------------------
(* Nodes and sessions side by side: a step of the composition is one of    *)
(* the session's or leaves it alone.                                       *)

LEMMA SessionsStep == [ModelsNext]_all => [A!Next]_A!vars
  BY DEF ModelsNext, all, session, A!vars

\* What the conversation rests on, together.
TalkInv == KeptInv /\ LoopsInv /\ RoundInv /\ AnsweredInv

LEMMA TalkAtFirst == ModelsInit => TalkInv
<1>1. ModelsInit => A!Init
  BY DEF ModelsInit
<1> QED
  BY <1>1, SessionsAreTyped, KeptAtFirst, LoopsAtFirst, RoundAtFirst, AnsweredAtFirst DEF TalkInv

LEMMA TalkGoesOn == TalkInv /\ [ModelsNext]_all => TalkInv'
  BY SessionsStep, SessionsAreTyped, KeptInvKept, LoopsInvKept, RoundInvKept, AnsweredInvKept DEF TalkInv

LEMMA TalkIsKept == TalkInv => ConversationIsKept
<1> SUFFICES ASSUME TalkInv PROVE ConversationIsKept
  OBVIOUS
<1> USE DEF TalkInv
<1>1. SessionTypeOK /\ SteeringIsPrompt
  BY DEF RoundInv, LoopsInv, Log, LogKept, Window, A!TypeOK, A!SteeringIsPrompt, SessionTypeOK, SteeringIsPrompt
<1>2. ResultsMatchCalls
  BY SessionsAreTyped, ResultsMatchNow DEF KeptInv, KeptTypes, LoopsInv, AnsweredInv, ResultsMatchCalls
<1>3. MessagesAreKept
  BY KeptIsKept DEF MessagesAreKept
<1>4. LoopsAreSteered
  BY LoopsAreSteeredNow DEF LoopsAreSteered
<1> QED
  BY <1>1, <1>2, <1>3, <1>4 DEF ConversationIsKept

\* THEOREM: whatever sessions are configured with, given while they work and answered, the
\* conversation stays whole: its variables typed, results next to their calls, each message
\* there once and in order, steering told with the next request, and a warning for each window
\* of identical calls (session.rs process_input, build_request, drain_steering; loop_detector.rs).
THEOREM ConversationsHold == ModelsSpec => []ConversationIsKept
<1> QED
  BY TalkAtFirst, TalkGoesOn, TalkIsKept, PTL DEF ModelsSpec

\* THEOREM: for every file system of text and every call, no tool of a confined session but the
\* shell writes outside its root, and an edit of one place changes the only place there was
\* (local_env.rs resolve_confined, edit_file.rs:16).
THEOREM ToolsHold == ModelsSpec => ToolsStayAtTheirTask
<1>1. ModelsInit => TextInv(STRING)
  BY TextAtFirst, LinesAreText DEF ModelsInit
<1>2. TextInv(STRING) /\ [ModelsNext]_all => TextInv(STRING)'
  BY SessionsStep, SessionsAreTyped, LinesAreText, TextInvKept
<1>3. TextInv(STRING) /\ [ModelsNext]_all => [scenario = "session" => A!WriteInside]_all
  BY SessionsStep, CallsStayInside, OnlyCallsTouchFiles DEF A!WriteInside
<1>4. TextInv(STRING) /\ [ModelsNext]_all => [scenario = "session" => A!ExactEdit]_all
  <2> SUFFICES ASSUME TextInv(STRING), [ModelsNext]_all PROVE A!ExactEdit
    OBVIOUS
  <2>1. CASE A!ExecuteCall
    BY <2>1, LinesAreText, TextIsFound, CallEditsExactly
  <2>2. CASE ~A!ExecuteCall
    BY <2>2, SessionsStep, OnlyCallsTouchFiles DEF A!ExactEdit
  <2> QED
    BY <2>1, <2>2
<1> QED
  BY <1>1, <1>2, <1>3, <1>4, PTL DEF ModelsSpec, ToolsStayAtTheirTask, WritesStayInside, EditIsExact
=============================================================================
