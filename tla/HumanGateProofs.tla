--------------------------- MODULE HumanGateProofs ---------------------------
(***************************************************************************)
(* Proofs about HumanGate for any gates, visits, choices and bounds: what  *)
(* `pas answer` acknowledged decides the gate, an answer decides the visit *)
(* it was given to, and a resumed Run asks the question it died on.        *)
(***************************************************************************)
EXTENDS HumanGate, SequenceTheorems, WellFoundedInduction, TLAPS

Entry  == [type : {"asked", "answered"}, gate : Gate, qid : Question]
File   == [choice : Labels \cup {Bad, "none"}, for : Nat]
Person == [qid : Question, choice : Labels, by : {"cli", "monitor"}, for : Nat]

FilesTyped ==
    /\ visit \in 1 .. Len(VisitGate) + 1
    /\ journal \in Seq(Entry)
    /\ synced \in 0 .. Len(journal)
    /\ answers \in [Question -> File]
    /\ asks \in 0 .. MaxAsks
    /\ faults \in Nat
    /\ people \subseteq Person
    /\ \A i \in DOMAIN journal : journal[i].qid[2] <= asks

ProcessTyped ==
    /\ pc \in {"off", "enter", "wait", "answered", "return"}
    /\ pc # "off" => visit <= Len(VisitGate)
    /\ pc \in {"wait", "answered", "return"} => qid \in Question /\ qid[2] <= asks
    /\ choice \in File
    /\ pc \in {"answered", "return"} => Fits(choice)

Typed == FilesTyped /\ ProcessTyped

(* An acknowledged answer is in its file; while nothing failed, what the   *)
(* handler has taken and what decided a visit are what the file says.      *)
Filed ==
    /\ \A a \in accepted : a.qid \in Question /\ a.choice \in Labels /\ answers[a.qid].choice = a.choice
    /\ faults = 0 =>
         /\ \A d \in decided : d.qid \in Question /\ d.choice \in Labels /\ answers[d.qid].choice = d.choice
         /\ pc \in {"answered", "return"} => answers[qid] = choice

(* While nothing failed, the only question without an answer is the last   *)
(* one of the gate the Run is at, and nobody answers it but for this       *)
(* visit; files and people of other questions come too late.               *)
Open == Asked \ Answered

LastHere(i) ==
    LET here == Requested({VisitGate[visit]}) IN i \in here /\ \A j \in here : i >= j

OpenInv ==
    /\ Answered \subseteq Asked
    /\ \A q \in Open : \E i \in DOMAIN journal : LastHere(i) /\ journal[i].qid = q
    /\ pc \in {"wait", "answered"} => qid \in Open
    /\ pc = "return" => Open = {}

VisitInv ==
    /\ \A q \in Question : answers[q] # NoFile => q \in Asked /\ (q \in Open => answers[q].for = visit)
    /\ \A p \in people : p.qid \in Asked /\ (p.qid \in Open => p.for = visit)
    /\ pc \in {"answered", "return"} => choice.for = visit
    /\ \A d \in decided : d.for = d.visit

Afresh == faults = 0 => OpenInv /\ VisitInv

----------------------------------------------------------------------------
(* Numbers                                                                 *)

LEMMA NatIsWellFounded == IsWellFoundedOn({ss \in Nat \X Nat : ss[1] < ss[2]}, Nat)
  BY NatLessThanWellFounded DEF OpToRel

LEMMA LeastExists ==
    ASSUME NEW S, S \subseteq Nat, S # {}
    PROVE  \E n \in S : \A m \in S : n <= m
<1> DEFINE R == {ss \in Nat \X Nat : ss[1] < ss[2]}
<1>1. PICK n \in S : \A m \in S : ~ (<<m, n>> \in R)
  <2> HIDE DEF R
  <2>1. IsWellFoundedOn(R, Nat)
    BY NatIsWellFounded DEF R
  <2> QED
    BY <2>1, WFMin
<1>2. \A m \in S : n <= m
  <2> SUFFICES ASSUME NEW m \in S PROVE n <= m
    OBVIOUS
  <2>1. m \in Nat /\ n \in Nat /\ <<m, n>> \notin R
    BY <1>1
  <2> QED
    BY <2>1
<1> QED
  BY <1>2

LEMMA MinIsLeast ==
    ASSUME NEW S, S \subseteq Nat, S # {}
    PROVE  Min(S) \in S /\ \A m \in S : Min(S) <= m
<1>1. \E n \in S : \A m \in S : n <= m
  BY LeastExists
<1> QED
  BY <1>1 DEF Min

LEMMA MaxIsGreatest ==
    ASSUME NEW n \in Nat, NEW S, S \subseteq 0..n, S # {}
    PROVE  Max(S) \in S /\ \A m \in S : Max(S) >= m
<1> DEFINE T == {n - m : m \in S}
<1>1. T \subseteq Nat /\ T # {}
  <2>1. \A m \in S : m \in 0..n /\ n - m \in Nat
    OBVIOUS
  <2> QED
    BY <2>1
<1>2. PICK t \in T : \A u \in T : t <= u
  <2> HIDE DEF T
  <2> QED BY <1>1, LeastExists
<1>3. PICK x \in S : t = n - x
  BY <1>2
<1>4. ASSUME NEW m \in S PROVE x >= m
  <2>1. n - m \in T
    OBVIOUS
  <2>2. n - x <= n - m
    BY <2>1, <1>2, <1>3
  <2> QED
    BY <2>2
<1> QED
  BY <1>4 DEF Max

\* A greatest element is the one that Max chooses.
LEMMA MaxIsUnique ==
    ASSUME NEW S, S \subseteq Nat, NEW x \in S, \A m \in S : x >= m
    PROVE  Max(S) = x
<1>1. Max(S) \in S /\ \A m \in S : Max(S) >= m
  BY DEF Max
<1>2. Max(S) >= x /\ x >= Max(S) /\ Max(S) \in Nat /\ x \in Nat
  BY <1>1
<1> QED
  BY <1>2

LEMMA Appended ==
    ASSUME NEW S, NEW s \in Seq(S), NEW e \in S
    PROVE  /\ Append(s, e) \in Seq(S) /\ Len(s) \in Nat /\ Len(Append(s, e)) = Len(s) + 1
           /\ DOMAIN s = 1..Len(s) /\ DOMAIN Append(s, e) = 1 .. Len(s) + 1
           /\ \A i \in 1..Len(s) : Append(s, e)[i] = s[i]
           /\ Append(s, e)[Len(s) + 1] = e
  BY AppendProperties, LenProperties

----------------------------------------------------------------------------
(* Questions                                                               *)

LEMMA SlugsAndBounds ==
    /\ \A g \in Gate : \A n \in 1..MaxAsks : <<Slug[g], n>> \in Question
    /\ \A q \in Question : q[2] \in 1..MaxAsks
  BY DEF Question

(* The id of an entry: the last one of its gate if that has no answer, and *)
(* else one that nobody was asked with.                                    *)
LEMMA IdOfEntry ==
    ASSUME FilesTyped, asks < MaxAsks, NEW g \in Gate
    PROVE  /\ QuestionId(g) \in Question
           /\ QuestionId(g)[2] <= asks + 1
           /\ LET here == Requested({g})
              IN  \/ /\ here # {} /\ Max(here) \in here /\ \A j \in here : Max(here) >= j
                     /\ QuestionId(g) = journal[Max(here)].qid /\ QuestionId(g) \notin Answered
                  \/ /\ here # {} => /\ Max(here) \in here /\ \A j \in here : Max(here) >= j
                                     /\ journal[Max(here)].qid \in Answered
                     /\ QuestionId(g) \notin Asked
<1> DEFINE here == Requested({g})
           again == IF here = {} THEN NoQuestion ELSE journal[Max(here)].qid
           free == {n \in 1 .. MaxAsks + 1 : <<Slug[g], n>> \notin Asked}
<1>0. MaxAsks \in Nat /\ asks \in Nat /\ Len(journal) \in Nat /\ DOMAIN journal = 1..Len(journal)
      /\ \A i \in DOMAIN journal : journal[i] \in Entry
  BY GateAssumption, LenProperties, ElementOfSeq DEF FilesTyped
<1>1. here \subseteq 0..Len(journal) /\ here \subseteq DOMAIN journal
  BY <1>0 DEF Requested
<1>2. here # {} => Max(here) \in here /\ \A j \in here : Max(here) >= j
  <2> HIDE DEF here
  <2> QED BY <1>0, <1>1, MaxIsGreatest
<1>3. CASE here # {} /\ again \notin Answered
  <2>1. QuestionId(g) = journal[Max(here)].qid /\ QuestionId(g) \notin Answered
    BY <1>3 DEF QuestionId
  <2>2. journal[Max(here)] \in Entry /\ journal[Max(here)].qid[2] <= asks
    BY <1>0, <1>1, <1>2, <1>3 DEF FilesTyped
  <2>3. QuestionId(g) \in Question
    BY <2>1, <2>2 DEF Entry
  <2>4. QuestionId(g)[2] <= asks + 1
    BY <2>1, <2>2, <2>3, <1>0, SlugsAndBounds
  <2> QED
    BY <1>2, <1>3, <2>1, <2>3, <2>4
<1>4. CASE ~(here # {} /\ again \notin Answered)
  <2>1. asks + 1 \in free
    <3>1. ASSUME NEW i \in DOMAIN journal, journal[i].qid = <<Slug[g], asks + 1>> PROVE FALSE
      BY <3>1, <1>0 DEF FilesTyped
    <3> QED
      BY <1>0, <3>1 DEF Asked, Requested
  <2>2. Min(free) \in free /\ Min(free) <= asks + 1
    <3>1. free \subseteq Nat
      BY <1>0
    <3> HIDE DEF free
    <3> QED BY <2>1, <3>1, MinIsLeast
  <2>3. QuestionId(g) = <<Slug[g], Min(free)>>
    BY <1>4 DEF QuestionId, NextUnused
  <2>4. Min(free) \in 1..MaxAsks
    BY <2>2, <1>0
  <2>5. QuestionId(g) \in Question /\ QuestionId(g)[2] <= asks + 1
    BY <2>2, <2>3, <2>4, SlugsAndBounds
  <2>6. QuestionId(g) \notin Asked
    BY <2>2, <2>3
  <2> QED
    BY <1>2, <1>4, <2>5, <2>6
<1> QED
  BY <1>3, <1>4

(* What an append does to the journal, which may fail.                     *)
LEMMA Logged ==
    ASSUME FilesTyped, NEW e \in Entry, NEW b \in BOOLEAN, Log(e, b)
    PROVE  /\ journal' \in Seq(Entry)
           /\ synced' \in 0 .. Len(journal')
           /\ faults' \in Nat
           /\ \A i \in DOMAIN journal' : journal'[i] = e \/ \E j \in DOMAIN journal : journal'[i] = journal[j]
           /\ faults' = 0 => faults = 0 /\ journal' = Append(journal, e)
<1>0. journal \in Seq(Entry) /\ faults \in Nat /\ synced \in 0..Len(journal)
  BY DEF FilesTyped
<1>1. CASE journal' = Append(journal, e) /\ synced' = (IF b THEN Len(journal') ELSE synced) /\ faults' = faults
  BY <1>0, <1>1, Appended
<1>2. CASE Fault /\ UNCHANGED <<journal, synced>>
  BY <1>0, <1>2 DEF Fault
<1> QED
  BY <1>1, <1>2 DEF Log

----------------------------------------------------------------------------
(* Types                                                                   *)

LEMMA Places ==
    ASSUME FilesTyped
    PROVE  /\ Len(VisitGate) \in Nat /\ \A v \in 1..Len(VisitGate) : VisitGate[v] \in Gate
           /\ visit \in Nat /\ DOMAIN journal = 1..Len(journal) /\ Len(journal) \in Nat
           /\ \A i \in DOMAIN journal : journal[i] \in Entry
           /\ Asked \subseteq Question /\ Answered \subseteq Question
<1>1. /\ Len(VisitGate) \in Nat /\ \A v \in 1..Len(VisitGate) : VisitGate[v] \in Gate
      /\ DOMAIN journal = 1..Len(journal) /\ Len(journal) \in Nat
      /\ \A i \in DOMAIN journal : journal[i] \in Entry
  BY GateAssumption, LenProperties, ElementOfSeq DEF FilesTyped
<1> QED
  BY <1>1 DEF FilesTyped, Asked, Answered, Requested, Entry

LEMMA LogKeepsFiles ==
    ASSUME FilesTyped, NEW e \in Entry, NEW b \in BOOLEAN, Log(e, b),
           asks' \in asks .. MaxAsks, e.qid[2] <= asks',
           UNCHANGED <<visit, answers, people>>
    PROVE  FilesTyped'
<1>1. /\ journal' \in Seq(Entry) /\ synced' \in 0 .. Len(journal') /\ faults' \in Nat
      /\ \A i \in DOMAIN journal' : journal'[i] = e \/ \E j \in DOMAIN journal : journal'[i] = journal[j]
  BY Logged
<1>2. ASSUME NEW i \in DOMAIN journal' PROVE journal'[i].qid[2] <= asks'
  <2>1. CASE journal'[i] = e
    BY <2>1
  <2>2. CASE \E j \in DOMAIN journal : journal'[i] = journal[j]
    <3>1. PICK j \in DOMAIN journal : journal'[i] = journal[j]
      BY <2>2
    <3>2. journal[j].qid \in Question /\ journal[j].qid[2] <= asks
      BY <3>1, Places DEF FilesTyped, Entry
    <3>3. journal[j].qid[2] \in Nat /\ asks \in Nat /\ asks' \in Nat /\ asks <= asks'
      BY <3>2, SlugsAndBounds, GateAssumption DEF FilesTyped
    <3> QED
      BY <3>1, <3>2, <3>3
  <2> QED
    BY <1>1, <2>1, <2>2
<1> QED
  BY <1>1, <1>2, GateAssumption DEF FilesTyped

LEMMA TypeInit == Init => Typed
<1> SUFFICES ASSUME Init PROVE Typed
  OBVIOUS
<1>1. Len(VisitGate) \in Nat
  BY GateAssumption, LenProperties
<1>2. NoFile \in File
  BY DEF NoFile, File
<1> QED
  BY <1>1, <1>2, GateAssumption DEF Init, Typed, FilesTyped, ProcessTyped

LEMMA TypeStep == Typed /\ [Next]_vars => Typed'
<1> SUFFICES ASSUME Typed, [Next]_vars PROVE Typed'
  OBVIOUS
<1> USE DEF Typed
<1>0. /\ Len(VisitGate) \in Nat /\ \A v \in 1..Len(VisitGate) : VisitGate[v] \in Gate
      /\ visit \in Nat /\ DOMAIN journal = 1..Len(journal) /\ Len(journal) \in Nat
      /\ \A i \in DOMAIN journal : journal[i] \in Entry
      /\ Asked \subseteq Question /\ Answered \subseteq Question
  BY Places
<1>1. CASE Launch
  <2>1. FilesTyped'
    BY <1>1 DEF Launch, files, history, FilesTyped
  <2> QED
    BY <1>1, <2>1 DEF Launch, ProcessTyped, Fits, files
<1>2. CASE Ask
  <2>1. /\ asks < MaxAsks /\ qid' = QuestionId(VisitGate[visit]) /\ asks' = asks + 1 /\ pc' = "wait"
        /\ UNCHANGED <<visit, answers, choice, people>>
        /\ Log([type |-> "asked", gate |-> VisitGate[visit], qid |-> qid'], TRUE)
    BY <1>2 DEF Ask
  <2>2. visit \in 1..Len(VisitGate) /\ VisitGate[visit] \in Gate
    BY <1>0, <1>2 DEF Ask, FilesTyped, ProcessTyped
  <2>3. qid' \in Question /\ qid'[2] <= asks + 1
    BY <2>1, <2>2, IdOfEntry
  <2>4. [type |-> "asked", gate |-> VisitGate[visit], qid |-> qid'] \in Entry
    BY <2>2, <2>3 DEF Entry
  <2>5. asks' \in asks..MaxAsks
    BY <2>1, GateAssumption DEF FilesTyped
  <2>6. FilesTyped'
    BY <2>1, <2>3, <2>4, <2>5, LogKeepsFiles
  <2> QED
    BY <2>1, <2>2, <2>3, <2>6 DEF ProcessTyped, FilesTyped, Fits
<1>3. CASE PollFile
  <2>1. qid \in Question /\ answers[qid] \in File /\ NoFile \in File
    BY <1>3 DEF PollFile, ProcessTyped, FilesTyped, NoFile, File
  <2>2. answers' \in [Question -> File]
    BY <1>3, <2>1 DEF PollFile, FilesTyped
  <2>3. FilesTyped'
    BY <1>3, <2>2 DEF PollFile, FilesTyped, history
  <2> QED
    BY <1>3, <2>1, <2>3 DEF history, PollFile, ProcessTyped, Fits
<1>4. CASE TerminalAnswers
  <2> PICK c \in Labels :
         LET typed == [choice |-> c, for |-> visit]
         IN  \/ /\ choice' = IF Fits(answers[qid]) THEN answers[qid] ELSE typed
                /\ answers' = [answers EXCEPT ![qid] = choice']
                /\ UNCHANGED faults
             \/ /\ Fault /\ ~Fits(answers[qid])
                /\ choice' = typed
                /\ UNCHANGED answers
    BY <1>4 DEF TerminalAnswers
  <2> DEFINE typed == [choice |-> c, for |-> visit]
  <2>1. typed \in File /\ Fits(typed)
    BY <1>0 DEF File, Fits
  <2>2. qid \in Question /\ answers[qid] \in File
    BY <1>4 DEF TerminalAnswers, ProcessTyped, FilesTyped
  <2>3. choice' \in File /\ Fits(choice')
    BY <2>1, <2>2
  <2>4. answers' \in [Question -> File] /\ faults' \in Nat
    BY <2>2, <2>3 DEF FilesTyped, Fault
  <2>5. FilesTyped'
    BY <1>4, <2>4 DEF TerminalAnswers, FilesTyped
  <2>6. Fits(choice)'
    BY <2>3 DEF Fits
  <2> QED
    BY <1>4, <2>2, <2>3, <2>5, <2>6 DEF TerminalAnswers, ProcessTyped
<1>5. CASE TimesOut
  <2>1. FilesTyped'
    BY <1>5 DEF TimesOut, files, history, FilesTyped
  <2> QED
    BY <1>5, <2>1 DEF TimesOut, ProcessTyped, Fits, files
<1>6. CASE Record
  <2> DEFINE e == [type |-> "answered", gate |-> VisitGate[visit], qid |-> qid]
  <2>1. Log(e, FALSE) /\ pc = "answered" /\ pc' = "return"
        /\ UNCHANGED <<visit, answers, qid, choice, people, accepted, decided, asks>>
    BY <1>6 DEF Record
  <2>2. visit \in 1..Len(VisitGate) /\ VisitGate[visit] \in Gate /\ qid \in Question
    BY <1>0, <2>1 DEF FilesTyped, ProcessTyped
  <2>3. e \in Entry
    BY <2>2 DEF Entry
  <2>4. asks' \in asks..MaxAsks
    BY <2>1, GateAssumption DEF FilesTyped
  <2> HIDE DEF e
  <2>5. e.qid[2] <= asks' => FilesTyped'
    BY <2>1, <2>3, <2>4, LogKeepsFiles
  <2> QED
    BY <2>1, <2>2, <2>5 DEF ProcessTyped, Fits, e
<1>7. CASE GoOn
  <2>1. FilesTyped'
    BY <1>0, <1>7 DEF GoOn, FilesTyped, ProcessTyped
  <2> QED
    BY <1>0, <1>7, <2>1 DEF GoOn, ProcessTyped, FilesTyped, Fits
<1>8. CASE Crash
  <2>1. FilesTyped'
    BY <1>8 DEF Crash, files, history, FilesTyped
  <2> QED
    BY <1>8, <2>1 DEF Crash, ProcessTyped, Fits
<1>9. CASE PowerLoss
  <2>1. PICK n \in synced .. Len(journal) : journal' = SubSeq(journal, 1, n)
    BY <1>9 DEF PowerLoss
  <2>2. n \in 0..Len(journal) /\ synced \in Nat /\ synced <= n
    BY <1>0 DEF FilesTyped
  <2>3. /\ journal' \in Seq(Entry) /\ Len(journal') = n
        /\ \A i \in 1..n : journal'[i] = journal[i]
    BY <2>1, <2>2, <1>0 DEF FilesTyped
  <2>4. DOMAIN journal' = 1..n
    BY <2>3, LenProperties
  <2>5. FilesTyped'
    BY <1>0, <1>9, <2>2, <2>3, <2>4 DEF PowerLoss, Fault, FilesTyped
  <2> QED
    BY <1>9, <2>5 DEF PowerLoss, ProcessTyped, Fits
<1>10. CASE PersonReads
  <2>1. people' \subseteq Person
    BY <1>0, <1>10 DEF PersonReads, Answering, Person, FilesTyped
  <2>2. FilesTyped'
    BY <1>10, <2>1 DEF PersonReads, files, history, FilesTyped
  <2> QED
    BY <1>10, <2>2 DEF PersonReads, process, history, files, ProcessTyped, Fits
<1>11. CASE MonitorAnswers
  <2> DEFINE asked == Requested(Gate)
  <2>1. asked # {} /\ asked \subseteq 0..Len(journal) /\ asked \subseteq DOMAIN journal
    BY <1>0, <1>11 DEF MonitorAnswers, Requested
  <2>2. Max(asked) \in asked
    <3> HIDE DEF asked
    <3> QED BY <2>1, <1>0, MaxIsGreatest
  <2>3. journal[Max(asked)].qid \in Question
    BY <1>0, <2>1, <2>2 DEF Entry
  <2>4. people' \subseteq Person
    BY <1>0, <1>11, <2>3 DEF MonitorAnswers, Answering, Person, FilesTyped
  <2>5. FilesTyped'
    BY <1>11, <2>4 DEF MonitorAnswers, files, history, FilesTyped
  <2> QED
    BY <1>11, <2>5 DEF MonitorAnswers, process, history, files, ProcessTyped, Fits
<1>12. CASE PersonWrites
  <2>1. PICK p \in people : /\ answers' = answers \/ answers' = [answers EXCEPT ![p.qid] = [choice |-> p.choice, for |-> p.for]]
                            /\ people' = people \ {p}
    BY <1>12 DEF PersonWrites
  <2>2. p \in Person
    BY DEF FilesTyped
  <2>3. [choice |-> p.choice, for |-> p.for] \in File
    BY <2>2 DEF Person, File
  <2>4. answers' \in [Question -> File]
    BY <2>1, <2>2, <2>3 DEF FilesTyped
  <2>5. FilesTyped'
    BY <1>12, <2>1, <2>4 DEF PersonWrites, FilesTyped
  <2> QED
    BY <1>12, <2>5 DEF PersonWrites, process, ProcessTyped, Fits
<1>13. CASE SomebodyWritesBadFile
  <2>1. [choice |-> Bad, for |-> visit] \in File
    BY <1>0 DEF File
  <2>2. answers' \in [Question -> File]
    BY <1>0, <1>13, <2>1 DEF SomebodyWritesBadFile, FilesTyped
  <2>3. FilesTyped'
    BY <1>13, <2>2 DEF SomebodyWritesBadFile, FilesTyped, history
  <2> QED
    BY <1>13, <2>3 DEF SomebodyWritesBadFile, process, history, ProcessTyped, Fits
<1>14. CASE UNCHANGED vars
  <2>1. FilesTyped'
    BY <1>14 DEF vars, files, history, FilesTyped
  <2> QED
    BY <1>14, <2>1 DEF vars, files, process, history, ProcessTyped, Fits
<1> QED
  BY <1>1, <1>2, <1>3, <1>4, <1>5, <1>6, <1>7, <1>8, <1>9, <1>10, <1>11, <1>12, <1>13, <1>14
     DEF Next, Handler, Wait

LEMMA TypedImplies == Typed => TypeOK
<1> SUFFICES ASSUME Typed PROVE TypeOK
  OBVIOUS
<1>1. \A i \in DOMAIN journal : journal[i] \in Entry
  BY Places DEF Typed
<1> QED
  BY <1>1 DEF Typed, FilesTyped, ProcessTyped, TypeOK, Entry, File

(* THEOREM: the journal's questions, the answer files and the handler's    *)
(* place have their types whatever is lost (wait_human.rs, answer.rs).     *)
THEOREM TypeCorrect == Spec => []TypeOK
<1>1. Typed /\ [Next]_vars => Typed'
  BY TypeStep
<1> QED
  BY <1>1, TypeInit, TypedImplies, PTL DEF Spec

----------------------------------------------------------------------------
(* What is acknowledged is obeyed                                          *)

\* An answer file that fits is never changed again.
LEMMA FittingFilesStay ==
    ASSUME Typed, [Next]_vars, NEW q \in Question, Fits(answers[q])
    PROVE  answers'[q] = answers[q]
<1> USE DEF Typed
<1>1. answers[q] # NoFile /\ answers \in [Question -> File]
  BY GateAssumption DEF Fits, NoFile, FilesTyped
<1>2. CASE Ask \/ Record \/ GoOn \/ PowerLoss \/ Launch \/ TimesOut \/ Crash \/ PersonReads \/ MonitorAnswers
           \/ UNCHANGED vars
  BY <1>2 DEF Ask, Record, GoOn, PowerLoss, Launch, TimesOut, Crash, PersonReads, MonitorAnswers, vars, files
<1>3. CASE PollFile
  <2>1. qid \in Question
    BY <1>3 DEF PollFile, ProcessTyped
  <2> QED
    BY <1>1, <1>3, <2>1 DEF PollFile
<1>4. CASE TerminalAnswers
  <2>1. qid \in Question
    BY <1>4 DEF TerminalAnswers, ProcessTyped
  <2>2. answers' = answers \/ (answers' = [answers EXCEPT ![qid] = choice'] /\
                               (Fits(answers[qid]) => choice' = answers[qid]))
    BY <1>4 DEF TerminalAnswers
  <2> QED
    BY <1>1, <2>1, <2>2
<1>5. CASE PersonWrites
  <2>1. PICK p \in people :
           answers' = answers \/ (answers[p.qid] = NoFile
             /\ answers' = [answers EXCEPT ![p.qid] = [choice |-> p.choice, for |-> p.for]])
    BY <1>5 DEF PersonWrites
  <2>2. p.qid \in Question
    BY DEF FilesTyped, Person
  <2> QED
    BY <1>1, <2>1, <2>2
<1>6. CASE SomebodyWritesBadFile
  <2>1. PICK b \in Asked : answers[b] = NoFile
             /\ answers' = [answers EXCEPT ![b] = [choice |-> Bad, for |-> visit]]
    BY <1>6 DEF SomebodyWritesBadFile
  <2>2. b \in Question
    BY Places
  <2> QED
    BY <1>1, <2>1, <2>2
<1> QED
  BY <1>2, <1>3, <1>4, <1>5, <1>6 DEF Next, Handler, Wait

LEMMA FaultsCount == Typed /\ [Next]_vars => faults' = faults \/ faults' > 0
<1> SUFFICES ASSUME Typed, [Next]_vars PROVE faults' = faults \/ faults' > 0
  OBVIOUS
<1>1. faults \in Nat
  BY DEF Typed, FilesTyped
<1>2. Fault => faults' > 0
  BY <1>1 DEF Fault
<1>3. \A e, b : Log(e, b) => faults' = faults \/ faults' > 0
  BY <1>2 DEF Log
<1> QED
  BY <1>2, <1>3 DEF Next, Handler, Wait, Launch, Ask, PollFile, TerminalAnswers, TimesOut, Record, GoOn, Crash,
     PowerLoss, PersonReads, MonitorAnswers, PersonWrites, SomebodyWritesBadFile, vars, files, history

LEMMA FiledStep == Typed /\ Filed /\ [Next]_vars => Filed'
<1> SUFFICES ASSUME Typed, Filed, [Next]_vars PROVE Filed'
  OBVIOUS
<1>0. faults \in Nat /\ answers \in [Question -> File] /\ people \subseteq Person
      /\ (pc \in {"wait", "answered", "return"} => qid \in Question)
  BY DEF Typed, FilesTyped, ProcessTyped
<1>1. \A a \in accepted : a.qid \in Question /\ a.choice \in Labels /\ answers'[a.qid].choice = a.choice
  <2> SUFFICES ASSUME NEW a \in accepted
               PROVE  a.qid \in Question /\ a.choice \in Labels /\ answers'[a.qid].choice = a.choice
    OBVIOUS
  <2>1. a.qid \in Question /\ a.choice \in Labels /\ answers[a.qid].choice = a.choice
    BY DEF Filed
  <2>2. answers'[a.qid] = answers[a.qid]
    BY <2>1, FittingFilesStay DEF Fits
  <2> QED
    BY <2>1, <2>2
<1>2. \A a \in accepted' : a.qid \in Question /\ a.choice \in Labels /\ answers'[a.qid].choice = a.choice
  <2>1. CASE PersonWrites
    <3>1. PICK p \in people :
             \/ accepted' = accepted
             \/ /\ answers' = [answers EXCEPT ![p.qid] = [choice |-> p.choice, for |-> p.for]]
                /\ accepted' = accepted \cup {[qid |-> p.qid, choice |-> p.choice, by |-> p.by]}
      BY <2>1 DEF PersonWrites
    <3>2. p.qid \in Question /\ p.choice \in Labels
      BY <1>0 DEF Person
    <3> QED
      BY <1>0, <1>1, <3>1, <3>2
  <2>2. CASE ~PersonWrites
    <3>1. accepted' = accepted
      BY <2>2 DEF Next, Handler, Wait, Launch, Ask, PollFile, TerminalAnswers, TimesOut, Record, GoOn, Crash,
         PowerLoss, PersonReads, MonitorAnswers, SomebodyWritesBadFile, vars, files, history
    <3> QED
      BY <1>1, <3>1
  <2> QED
    BY <2>1, <2>2
<1>3. ASSUME faults' = 0
      PROVE  /\ \A d \in decided' : d.qid \in Question /\ d.choice \in Labels /\ answers'[d.qid].choice = d.choice
             /\ pc' \in {"answered", "return"} => answers'[qid'] = choice'
  <2>1. faults = 0
    BY <1>0, <1>3, FaultsCount
  <2>2. \A d \in decided : d.qid \in Question /\ d.choice \in Labels /\ answers'[d.qid].choice = d.choice
    <3> SUFFICES ASSUME NEW d \in decided
                 PROVE  d.qid \in Question /\ d.choice \in Labels /\ answers'[d.qid].choice = d.choice
      OBVIOUS
    <3>1. d.qid \in Question /\ d.choice \in Labels /\ answers[d.qid].choice = d.choice
      BY <2>1 DEF Filed
    <3>2. answers'[d.qid] = answers[d.qid]
      BY <3>1, FittingFilesStay DEF Fits
    <3> QED
      BY <3>1, <3>2
  <2>3. ASSUME pc \in {"answered", "return"}
        PROVE  qid \in Question /\ Fits(choice) /\ answers[qid] = choice /\ answers'[qid] = choice
    <3>1. qid \in Question /\ Fits(choice) /\ answers[qid] = choice
      BY <2>1, <2>3 DEF Filed, Typed, ProcessTyped
    <3>2. answers'[qid] = answers[qid]
      BY <3>1, FittingFilesStay
    <3> QED
      BY <3>1, <3>2
  <2>4. CASE GoOn
    <3>1. decided' = decided \cup
            {[visit |-> visit, qid |-> qid, choice |-> choice.choice, for |-> choice.for]}
          /\ pc = "return" /\ pc' \notin {"answered", "return"} /\ answers' = answers
      BY <2>4 DEF GoOn
    <3> QED
      BY <2>2, <2>3, <3>1 DEF Fits
  <2>5. CASE PollFile
    <3>1. decided' = decided /\ qid' = qid /\ pc = "wait"
          /\ ((pc' = "answered" /\ choice' = answers[qid] /\ answers' = answers) \/ pc' = pc)
      BY <2>5 DEF PollFile, history
    <3> QED
      BY <2>2, <3>1
  <2>6. CASE TerminalAnswers
    <3>1. decided' = decided /\ qid' = qid /\ pc = "wait" /\ pc' = "answered"
      BY <2>6 DEF TerminalAnswers
    <3>2. ~Fault
      BY <1>0, <1>3 DEF Fault
    <3>3. answers' = [answers EXCEPT ![qid] = choice']
      BY <2>6, <3>2 DEF TerminalAnswers
    <3> QED
      BY <1>0, <2>2, <3>1, <3>3
  <2>7. CASE ~(GoOn \/ PollFile \/ TerminalAnswers)
    <3>1. decided' = decided /\ (pc' \in {"answered", "return"} =>
             pc \in {"answered", "return"} /\ UNCHANGED <<qid, choice>>)
      BY <2>7 DEF Next, Handler, Wait, Launch, Ask, TimesOut, Record, Crash, process,
         PowerLoss, PersonReads, MonitorAnswers, PersonWrites, SomebodyWritesBadFile, vars, files, history
    <3> QED
      BY <2>2, <2>3, <3>1
  <2> QED
    BY <2>4, <2>5, <2>6, <2>7
<1> QED
  BY <1>2, <1>3 DEF Filed

(* THEOREM: an answer that `pas answer` has acknowledged, from a shell or  *)
(* for the Monitor, is the one its gate is decided by, whatever is typed,  *)
(* written by hand, killed or resumed at the same time.                    *)
THEOREM AcknowledgedIsObeyed == Spec => []AcceptedIsObeyed
<1>1. Init => Filed
  BY DEF Init, Filed
<1>2. Typed /\ Filed => AcceptedIsObeyed
  BY DEF Filed, AcceptedIsObeyed
<1>3. (Typed /\ Filed) /\ [Next]_vars => (Typed /\ Filed)'
  BY TypeStep, FiledStep
<1> QED
  BY <1>1, <1>2, <1>3, TypeInit, PTL DEF Spec

----------------------------------------------------------------------------
(* An answer decides the visit it was given to                             *)

\* An Event at the end of the journal.
LEMMA AtTheEnd ==
    ASSUME Typed, NEW e \in Entry, journal' = Append(journal, e)
    PROVE  /\ Asked' = Asked \cup (IF e.type = "asked" THEN {e.qid} ELSE {})
           /\ Answered' = Answered \cup (IF e.type = "answered" THEN {e.qid} ELSE {})
           /\ DOMAIN journal' = 1 .. Len(journal) + 1 /\ DOMAIN journal = 1..Len(journal) /\ Len(journal) \in Nat
           /\ \A i \in DOMAIN journal : journal'[i] = journal[i]
           /\ journal'[Len(journal) + 1] = e
<1> DEFINE n == Len(journal) + 1
<1>1. /\ DOMAIN journal' = 1 .. n /\ DOMAIN journal = 1..Len(journal) /\ Len(journal) \in Nat
      /\ \A i \in DOMAIN journal : journal'[i] = journal[i]
      /\ journal'[n] = e
  BY Appended DEF Typed, FilesTyped
<1>2. n \in DOMAIN journal' /\ DOMAIN journal' = DOMAIN journal \cup {n} /\ n \notin DOMAIN journal
  BY <1>1
<1>3. \A i \in DOMAIN journal : journal[i] \in Entry
  BY Places DEF Typed
<1> HIDE DEF n
<1>4. Asked' = Asked \cup (IF e.type = "asked" THEN {e.qid} ELSE {})
  BY <1>1, <1>2, <1>3 DEF Asked, Requested, Entry
<1>5. Answered' = Answered \cup (IF e.type = "answered" THEN {e.qid} ELSE {})
  BY <1>1, <1>2, <1>3 DEF Answered, Entry
<1> QED
  BY <1>1, <1>4, <1>5 DEF n

LEMMA OpenInit == Init => Afresh
<1> SUFFICES ASSUME Init PROVE Afresh
  OBVIOUS
<1>1. Asked = {} /\ Answered = {}
  BY DEF Init, Asked, Answered, Requested
<1> QED
  BY <1>1 DEF Init, Afresh, OpenInv, VisitInv, Open

\* What is left open when a gate is entered with an id of its own.
LEMMA AskKeepsAfresh ==
    ASSUME Typed, OpenInv, VisitInv, Ask, faults' = faults, faults = 0
    PROVE  OpenInv' /\ VisitInv'
<1> DEFINE g == VisitGate[visit]
           e == [type |-> "asked", gate |-> g, qid |-> qid']
           here == Requested({g})
<1>1. /\ asks < MaxAsks /\ qid' = QuestionId(g) /\ pc = "enter" /\ pc' = "wait"
      /\ UNCHANGED <<visit, answers, choice, people, accepted, decided>>
      /\ Log(e, TRUE)
  BY DEF Ask
<1>n. PICK n : n = Len(journal) + 1
  OBVIOUS
<1>2. journal' = Append(journal, e)
  BY <1>1 DEF Log, Fault
<1>3. g \in Gate
  BY <1>1, Places DEF Typed, ProcessTyped, FilesTyped
<1>4. FilesTyped
  BY DEF Typed
<1> HIDE DEF g
<1>5. /\ qid' \in Question
      /\ \/ /\ here # {} /\ Max(here) \in here /\ \A j \in here : Max(here) >= j
            /\ qid' = journal[Max(here)].qid /\ qid' \notin Answered
         \/ /\ here # {} => /\ Max(here) \in here /\ \A j \in here : Max(here) >= j
                            /\ journal[Max(here)].qid \in Answered
            /\ qid' \notin Asked
  BY <1>1, <1>3, <1>4, IdOfEntry
<1>6. e \in Entry
  BY <1>3, <1>5 DEF Entry
<1>7. /\ Asked' = Asked \cup {qid'} /\ Answered' = Answered
      /\ DOMAIN journal' = 1 .. n /\ DOMAIN journal = 1..Len(journal) /\ Len(journal) \in Nat
      /\ \A i \in DOMAIN journal : journal'[i] = journal[i]
      /\ journal'[n] = e
  BY <1>2, <1>6, <1>n, AtTheEnd
<1>8. ASSUME NEW q \in Open PROVE q = qid'
  <2>1. PICK i \in DOMAIN journal : LastHere(i) /\ journal[i].qid = q
    BY <1>8 DEF OpenInv
  <2>2. i \in here /\ \A j \in here : i >= j
    BY <2>1 DEF LastHere, g
  <2>3. here \subseteq Nat
    BY <1>7 DEF Requested
  <2>4. Max(here) = i
    BY <2>2, <2>3, MaxIsUnique
  <2> QED
    BY <1>5, <1>8, <2>1, <2>2, <2>4 DEF Open
<1>9. qid' \notin Answered
  BY <1>5 DEF OpenInv
<1>10. Open' = {qid'}
  BY <1>7, <1>8, <1>9 DEF Open
<1>m. n \in DOMAIN journal' /\ \A j \in DOMAIN journal' : n >= j
  <2>1. n \in Nat /\ n >= 1
    BY <1>n, <1>7
  <2> QED
    BY <1>7, <2>1
<1>11. n \in DOMAIN journal' /\ journal'[n].qid = qid' /\ LastHere(n)'
  <2>1. Requested({VisitGate[visit]})' = {i \in DOMAIN journal' : journal'[i].type = "asked" /\ journal'[i].gate \in {g}}
    BY <1>1 DEF Requested, g
  <2>2. journal'[n].type = "asked" /\ journal'[n].gate = g
    BY <1>7
  <2>3. n \in Requested({VisitGate[visit]})' /\ \A j \in Requested({VisitGate[visit]})' : n >= j
    BY <1>m, <2>1, <2>2
  <2>4. LastHere(n)'
    BY <2>3 DEF LastHere
  <2> QED
    BY <1>7, <1>m, <2>4
<1>12. OpenInv'
  BY <1>1, <1>7, <1>10, <1>11 DEF OpenInv
<1>13. \A q \in Question : answers[q] # NoFile => q \in Asked /\ (q \in Open => answers[q].for = visit)
  BY DEF VisitInv
<1>14. \A p \in people : p.qid \in Asked /\ (p.qid \in Open => p.for = visit)
  BY DEF VisitInv
<1>15. qid' \in Asked => qid' \in Open
  BY <1>9 DEF Open
<1> QED
  BY <1>1, <1>7, <1>10, <1>12, <1>13, <1>14, <1>15 DEF VisitInv

\* HumanInputAnswered closes the question, and no other was open.
LEMMA RecordKeepsAfresh ==
    ASSUME Typed, OpenInv, VisitInv, Record, faults' = faults, faults = 0
    PROVE  OpenInv' /\ VisitInv'
<1> DEFINE e == [type |-> "answered", gate |-> VisitGate[visit], qid |-> qid]
<1>1. /\ pc = "answered" /\ pc' = "return" /\ Log(e, FALSE)
      /\ UNCHANGED <<visit, answers, qid, choice, people, accepted, decided, asks>>
  BY DEF Record
<1>2. journal' = Append(journal, e)
  BY <1>1 DEF Log, Fault
<1>3. e \in Entry
  <2>1. VisitGate[visit] \in Gate /\ qid \in Question
    BY <1>1, Places DEF Typed, ProcessTyped, FilesTyped
  <2> QED
    BY <2>1 DEF Entry
<1>4. Asked' = Asked /\ Answered' = Answered \cup {qid}
  BY <1>2, <1>3, AtTheEnd
<1>5. qid \in Open
  BY <1>1 DEF OpenInv
<1>6. ASSUME NEW q \in Open PROVE q = qid
  <2>1. PICK i \in DOMAIN journal : LastHere(i) /\ journal[i].qid = q
    BY <1>6 DEF OpenInv
  <2>2. PICK j \in DOMAIN journal : LastHere(j) /\ journal[j].qid = qid
    BY <1>5 DEF OpenInv
  <2>3. i >= j /\ j >= i
    BY <2>1, <2>2 DEF LastHere
  <2>4. i \in Nat /\ j \in Nat
    BY Places DEF Typed
  <2> QED
    BY <2>1, <2>2, <2>3, <2>4
<1>7. Open' = {}
  BY <1>4, <1>6 DEF Open
<1>8. OpenInv'
  BY <1>1, <1>4, <1>5, <1>7 DEF OpenInv, Open
<1> QED
  BY <1>1, <1>4, <1>7, <1>8 DEF VisitInv

\* A step that leaves the journal and the visit alone.
LEMMA SameQuestions ==
    ASSUME UNCHANGED <<journal, visit>>
    PROVE  /\ Asked' = Asked /\ Answered' = Answered /\ Open' = Open
           /\ \A i : LastHere(i)' = LastHere(i)
  BY DEF Asked, Answered, Open, Requested, LastHere

LEMMA AfreshStep == Typed /\ Afresh /\ [Next]_vars => Afresh'
<1> SUFFICES ASSUME Typed, Afresh, [Next]_vars, faults' = 0 PROVE OpenInv' /\ VisitInv'
  BY DEF Afresh
<1>0. faults = 0 /\ faults' = faults /\ OpenInv /\ VisitInv
  BY FaultsCount DEF Afresh, Typed, FilesTyped
<1>t. /\ answers \in [Question -> File] /\ people \subseteq Person /\ visit \in Nat
      /\ (pc \in {"wait", "answered", "return"} => qid \in Question)
      /\ (pc \in {"answered", "return"} => Fits(choice))
      /\ Asked \subseteq Question /\ DOMAIN journal = 1..Len(journal) /\ Len(journal) \in Nat
  BY Places DEF Typed, FilesTyped, ProcessTyped
<1>v. /\ \A q \in Question : answers[q] # NoFile => q \in Asked /\ (q \in Open => answers[q].for = visit)
      /\ \A p \in people : p.qid \in Asked /\ (p.qid \in Open => p.for = visit)
      /\ pc \in {"answered", "return"} => choice.for = visit
      /\ \A d \in decided : d.for = d.visit
  BY <1>0 DEF VisitInv
<1>1. CASE Ask
  BY <1>0, <1>1, AskKeepsAfresh
<1>2. CASE Record
  BY <1>0, <1>2, RecordKeepsAfresh
<1>3. CASE GoOn
  <2>1. /\ pc = "return" /\ visit' = visit + 1 /\ pc' \in {"off", "enter"}
        /\ decided' = decided \cup
             {[visit |-> visit, qid |-> qid, choice |-> choice.choice, for |-> choice.for]}
        /\ UNCHANGED <<journal, answers, people>>
    BY <1>3 DEF GoOn
  <2>2. Open = {}
    BY <1>0, <2>1 DEF OpenInv
  <2>3. Asked' = Asked /\ Answered' = Answered /\ Open' = {}
    BY <2>1, <2>2 DEF Asked, Answered, Open, Requested
  <2>4. OpenInv'
    BY <1>0, <2>1, <2>3 DEF OpenInv
  <2> QED
    BY <1>v, <2>1, <2>3, <2>4 DEF VisitInv
<1>4. CASE Launch \/ TimesOut \/ Crash \/ UNCHANGED vars
  <2>1. UNCHANGED <<journal, visit, answers, people, decided>>
        /\ (pc' \in {"wait", "answered", "return"} => pc' = pc /\ UNCHANGED <<qid, choice>>)
    BY <1>4 DEF Launch, TimesOut, Crash, vars, files, process, history
  <2> QED
    BY <1>0, <1>v, <2>1, SameQuestions DEF OpenInv, VisitInv
<1>5. CASE PollFile
  <2>1. /\ pc = "wait" /\ answers[qid] # NoFile
        /\ IF Fits(answers[qid])
           THEN pc' = "answered" /\ choice' = answers[qid] /\ UNCHANGED answers
           ELSE answers' = [answers EXCEPT ![qid] = NoFile] /\ UNCHANGED <<pc, choice>>
        /\ UNCHANGED <<visit, journal, qid, people, decided>>
    BY <1>5 DEF PollFile, history
  <2>2. qid \in Question /\ qid \in Open
    BY <1>0, <1>t, <2>1 DEF OpenInv
  <2>3. OpenInv'
    BY <1>0, <2>1, <2>2, SameQuestions DEF OpenInv
  <2> QED
    BY <1>t, <1>v, <2>1, <2>2, <2>3, SameQuestions DEF VisitInv
<1>6. CASE TerminalAnswers
  <2>1. PICK c \in Labels :
         LET typed == [choice |-> c, for |-> visit]
         IN  \/ /\ choice' = IF Fits(answers[qid]) THEN answers[qid] ELSE typed
                /\ answers' = [answers EXCEPT ![qid] = choice']
                /\ UNCHANGED faults
             \/ /\ Fault /\ ~Fits(answers[qid])
                /\ choice' = typed
                /\ UNCHANGED answers
    BY <1>6 DEF TerminalAnswers
  <2>2. pc = "wait" /\ pc' = "answered" /\ UNCHANGED <<visit, journal, qid, people, decided>>
    BY <1>6 DEF TerminalAnswers
  <2>3. qid \in Question /\ qid \in Open
    BY <1>0, <1>t, <2>2 DEF OpenInv
  <2>4. choice'.for = visit
    <3>1. Fits(answers[qid]) => answers[qid] # NoFile
      BY GateAssumption DEF Fits, NoFile
    <3> QED
      BY <1>v, <2>1, <2>3, <3>1
  <2>5. answers' = answers \/ answers' = [answers EXCEPT ![qid] = choice']
    BY <2>1
  <2>6. OpenInv'
    BY <1>0, <2>2, <2>3, SameQuestions DEF OpenInv
  <2>7. \A q \in Question : answers'[q] # NoFile => q \in Asked /\ (q \in Open => answers'[q].for = visit)
    BY <1>t, <1>v, <2>3, <2>4, <2>5 DEF Open
  <2> QED
    BY <1>v, <2>2, <2>4, <2>6, <2>7, SameQuestions DEF VisitInv
<1>7. CASE PersonReads \/ MonitorAnswers
  <2>1. UNCHANGED <<journal, visit, answers, pc, qid, choice, decided>>
    BY <1>7 DEF PersonReads, MonitorAnswers, files, process, history
  <2>2. \A p \in people' : p.qid \in Asked /\ (p.qid \in Open => p.for = visit)
    <3>1. CASE PersonReads
      BY <1>v, <3>1 DEF PersonReads, Answering
    <3>2. CASE MonitorAnswers
      <4> DEFINE asked == Requested(Gate)
      <4>1. asked # {} /\ asked \subseteq 0..Len(journal)
        BY <1>t, <3>2 DEF MonitorAnswers, Requested
      <4>2. Max(asked) \in asked
        <5> HIDE DEF asked
        <5> QED BY <4>1, <1>t, MaxIsGreatest
      <4>3. journal[Max(asked)].qid \in Asked
        BY <4>2 DEF Asked
      <4> QED
        BY <1>v, <3>2, <4>3 DEF MonitorAnswers, Answering
    <3> QED
      BY <1>7, <3>1, <3>2
  <2>3. OpenInv'
    BY <1>0, <2>1, SameQuestions DEF OpenInv
  <2> QED
    BY <1>v, <2>1, <2>2, <2>3, SameQuestions DEF VisitInv
<1>8. CASE PersonWrites
  <2>1. PICK p \in people : /\ answers' = answers \/ answers' = [answers EXCEPT ![p.qid] = [choice |-> p.choice, for |-> p.for]]
                            /\ people' = people \ {p}
    BY <1>8 DEF PersonWrites
  <2>2. UNCHANGED <<journal, visit, pc, qid, choice, decided>>
    BY <1>8 DEF PersonWrites, process
  <2>3. p.qid \in Question
    BY <1>t DEF Person
  <2>4. OpenInv'
    BY <1>0, <2>2, SameQuestions DEF OpenInv
  <2>5. \A q \in Question : answers'[q] # NoFile => q \in Asked /\ (q \in Open => answers'[q].for = visit)
    BY <1>t, <1>v, <2>1, <2>3
  <2> QED
    BY <1>v, <2>1, <2>2, <2>4, <2>5, SameQuestions DEF VisitInv
<1>9. CASE SomebodyWritesBadFile
  <2>1. PICK b \in Asked : answers' = [answers EXCEPT ![b] = [choice |-> Bad, for |-> visit]]
    BY <1>9 DEF SomebodyWritesBadFile
  <2>2. UNCHANGED <<journal, visit, people, pc, qid, choice, decided>>
    BY <1>9 DEF SomebodyWritesBadFile, process, history
  <2>3. OpenInv'
    BY <1>0, <2>2, SameQuestions DEF OpenInv
  <2>4. \A q \in Question : answers'[q] # NoFile => q \in Asked /\ (q \in Open => answers'[q].for = visit)
    BY <1>t, <1>v, <2>1
  <2> QED
    BY <1>v, <2>2, <2>3, <2>4, SameQuestions DEF VisitInv
<1>10. CASE PowerLoss
  BY <1>0, <1>10 DEF PowerLoss, Fault
<1> QED
  BY <1>1, <1>2, <1>3, <1>4, <1>5, <1>6, <1>7, <1>8, <1>9, <1>10 DEF Next, Handler, Wait

(* THEOREM: as long as nothing fails, a visit of a gate is decided by an   *)
(* answer given to that visit, though the answers to earlier visits and to *)
(* gates of the same slug stay in answers/, and though people answer a     *)
(* question when the Run has gone on (question_id).                        *)
THEOREM GatesAreDecidedAfresh == Spec => []DecidedAfresh
<1>1. Typed /\ Afresh => DecidedAfresh
  BY DEF Afresh, VisitInv, DecidedAfresh
<1>2. (Typed /\ Afresh) /\ [Next]_vars => (Typed /\ Afresh)'
  BY TypeStep, AfreshStep
<1> QED
  BY <1>1, <1>2, TypeInit, OpenInit, PTL DEF Spec

(* THEOREM: a gate whose last question has no answer asks it again, under  *)
(* its old id, after any crash, stop or timeout (question_id).             *)
THEOREM UnansweredIsAskedAgain == Spec => SameQuestionAgain
<1> DEFINE P == Ask => \A i \in DOMAIN journal :
        /\ i = Max(Requested({VisitGate[visit]}) \cup {0})
        /\ journal[i].qid \notin Answered
        => qid' = journal[i].qid
<1>1. Typed /\ [Next]_vars => [P]_vars
  <2> SUFFICES ASSUME Typed, Ask, NEW i \in DOMAIN journal,
                      i = Max(Requested({VisitGate[visit]}) \cup {0}), journal[i].qid \notin Answered
               PROVE  qid' = journal[i].qid
    OBVIOUS
  <2> DEFINE here == Requested({VisitGate[visit]})
  <2>1. DOMAIN journal = 1..Len(journal) /\ Len(journal) \in Nat
    BY Places DEF Typed
  <2>2. here \subseteq 1..Len(journal)
    BY <2>1 DEF Requested
  <2> HIDE DEF here
  <2>3. i \in here \cup {0} /\ \A m \in here \cup {0} : i >= m
    <3>1. here \cup {0} \subseteq 0..Len(journal) /\ here \cup {0} # {}
      BY <2>1, <2>2
    <3>2. Max(here \cup {0}) \in here \cup {0} /\ \A m \in here \cup {0} : Max(here \cup {0}) >= m
      BY <2>1, <3>1, MaxIsGreatest
    <3> QED
      BY <3>2 DEF here
  <2>4. i \in here
    BY <2>1, <2>3
  <2>5. Max(here) = i
    <3>1. here \subseteq Nat
      BY <2>1, <2>2
    <3> QED
      BY <2>3, <2>4, <3>1, MaxIsUnique
  <2> QED
    BY <2>4, <2>5 DEF Ask, QuestionId, here
<1>2. Typed /\ [Next]_vars => Typed'
  BY TypeStep
<1> QED
  BY <1>1, <1>2, TypeInit, PTL DEF Spec, SameQuestionAgain

(* THEOREM: a gate goes where somebody said it should at this visit: never *)
(* by an old answer or another gate's, nor against one that was            *)
(* acknowledged (WaitHumanHandler, FileInterviewer, write_answer).         *)
THEOREM AnswersDecide == Spec => []RightAnswerDecides
<1> QED
  BY TypeCorrect, GatesAreDecidedAfresh, AcknowledgedIsObeyed, PTL DEF RightAnswerDecides
=============================================================================
