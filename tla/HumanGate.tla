----------------------------- MODULE HumanGate -----------------------------
(***************************************************************************)
(* Human Gates: the wait.human handler (wait_human.rs) and its interviewer *)
(* (JournalInterviewer), the answer files (answer.rs of attractor-journal) *)
(* and the `pas answer` command, which any number of people may use while  *)
(* the Run waits, dies, comes back or has gone on.                         *)
(*                                                                         *)
(* A Run enters gates one visit after the other; `visit` counts the visits *)
(* the checkpoint says are over.  What decides a visit is a file named     *)
(* after a question, so all depends on questions being told apart.         *)
(***************************************************************************)
EXTENDS Naturals, Sequences, FiniteSetsExt

CONSTANTS
    Gate,           \* wait.human nodes
    Slug,           \* [Gate -> the node id as it may stand in a file name]
    VisitGate,      \* which gate each visit enters: a sequence
    Labels,         \* the choices every gate offers
    HasTerminal,    \* whether stdin is a TTY
    MaxAsks,        \* bound: times a gate asks
    MaxFaults       \* bound: failed appends, failed writes, power losses

Bad == "bad"        \* an answer file that does not fit the question

ASSUME GateAssumption ==
    /\ VisitGate \in Seq(Gate)
    /\ Labels \cap {Bad, "none"} = {}
    /\ MaxAsks \in Nat
    /\ DOMAIN Slug = Gate

VARIABLES
    visit,          \* checkpoint.json: the visit to go on with
    journal, synced,\* the question Events, and how many survive power loss
    answers,        \* answers/<question-id>.json: [question -> file]
    pc, qid, choice,\* where the handler is, and its locals
    people,         \* `pas answer` commands between their check and their write
    accepted,       \* what `pas answer` said it recorded, and to whom
    decided,        \* history: what each finished visit was decided by
    asks, faults

files == <<visit, journal, synced, answers>>
process == <<pc, qid, choice>>
history == <<accepted, decided, asks, faults>>
vars == <<files, process, people, history>>

\* question_id_for gives ids a node shares with any other of the same slug.
Question == {Slug[g] : g \in Gate} \X (1..MaxAsks)
NoQuestion == <<"none", 0>>
NoFile == [choice |-> "none", for |-> 0]

Init ==
    /\ visit = 1
    /\ journal = <<>> /\ synced = 0
    /\ answers = [q \in Question |-> NoFile]
    /\ pc = "off" /\ qid = NoQuestion /\ choice = NoFile
    /\ people = {}
    /\ accepted = {} /\ decided = {} /\ asks = 0 /\ faults = 0

----------------------------------------------------------------------------
(* Which question this entry asks (question_id).                           *)
Requested(g) == {i \in DOMAIN journal :
                    journal[i].type = "asked" /\ journal[i].gate \in g}
Answered == {journal[i].qid : i \in {i \in DOMAIN journal :
                    journal[i].type = "answered"}}
Asked == {journal[i].qid : i \in Requested(Gate)}

NextUnused(g, used) ==
    <<Slug[g], Min({n \in 1 .. MaxAsks + 1 : <<Slug[g], n>> \notin used})>>

QuestionIdPerGate(g) ==
    LET here == Requested({g})
        again == IF here = {} THEN NoQuestion ELSE journal[Max(here)].qid
    IN  IF here # {} /\ again \notin Answered THEN again
        ELSE NextUnused(g, {journal[i].qid : i \in here})

QuestionIdAlwaysNext(g) == NextUnused(g, Asked)

QuestionId(g) ==
    LET here == Requested({g})
        again == IF here = {} THEN NoQuestion ELSE journal[Max(here)].qid
    IN  IF here # {} /\ again \notin Answered THEN again
        ELSE NextUnused(g, Asked)

Fault == faults < MaxFaults /\ faults' = faults + 1

\* An append: it is not known to be on disk before the next one that syncs.
Log(e, syncs) ==
    \/ /\ journal' = Append(journal, e)
       /\ synced' = IF syncs THEN Len(journal') ELSE synced
       /\ UNCHANGED faults
    \/ Fault /\ UNCHANGED <<journal, synced>>

Launch ==
    /\ pc = "off"
    /\ visit <= Len(VisitGate)
    /\ pc' = "enter"
    /\ UNCHANGED <<files, qid, choice, people, history>>

(* wait: read the journal, choose the id, emit HumanInputRequested.        *)
Ask ==
    /\ pc = "enter"
    /\ asks < MaxAsks
    /\ qid' = QuestionId(VisitGate[visit])
    /\ Log([type |-> "asked", gate |-> VisitGate[visit], qid |-> qid'], TRUE)
    /\ pc' = "wait"
    /\ asks' = asks + 1
    /\ UNCHANGED <<visit, answers, choice, people, accepted, decided>>

(* check_file: take an answer that fits, move one that does not aside.     *)
Fits(file) == file.choice \in Labels

PollFileWithoutTerminal ==
    /\ pc = "wait"
    /\ ~HasTerminal
    /\ Fits(answers[qid])
    /\ pc' = "answered" /\ choice' = answers[qid]
    /\ UNCHANGED <<visit, journal, synced, answers, qid, people, history>>

PollFile ==
    /\ pc = "wait"
    /\ answers[qid] # NoFile
    /\ IF Fits(answers[qid])
       THEN pc' = "answered" /\ choice' = answers[qid] /\ UNCHANGED answers
       ELSE answers' = [answers EXCEPT ![qid] = NoFile]
            /\ UNCHANGED <<pc, choice>>
    /\ UNCHANGED <<visit, journal, synced, qid, people, history>>

(* answer_from_terminal: the line typed is written as an answer file, and  *)
(* a valid file that is there already wins.                                *)
TerminalAnswers ==
    /\ HasTerminal
    /\ pc = "wait"
    /\ \E c \in Labels :
         LET typed == [choice |-> c, for |-> visit]
         IN  \/ /\ choice' = IF Fits(answers[qid]) THEN answers[qid] ELSE typed
                /\ answers' = [answers EXCEPT ![qid] = choice']
                /\ UNCHANGED faults
             \/ /\ Fault /\ ~Fits(answers[qid])
                /\ choice' = typed
                /\ UNCHANGED answers
    /\ pc' = "answered"
    /\ UNCHANGED <<visit, journal, synced, qid, people, accepted, decided, asks>>

\* The node's timeout drops the wait: another attempt, or the Run fails.
TimesOut ==
    /\ pc = "wait"
    /\ pc' \in {"enter", "off"}
    /\ UNCHANGED <<files, qid, choice, people, history>>

\* HumanInputAnswered; a failure to append it is only logged.
Record ==
    /\ pc = "answered"
    /\ Log([type |-> "answered", gate |-> VisitGate[visit], qid |-> qid], FALSE)
    /\ pc' = "return"
    /\ UNCHANGED <<visit, answers, qid, choice, people, accepted, decided, asks>>

(* The executor follows the edge of that label and saves the checkpoint.   *)
GoOn ==
    /\ pc = "return"
    /\ visit' = visit + 1
    /\ decided' = decided \cup
         {[visit |-> visit, qid |-> qid, choice |-> choice.choice, for |-> choice.for]}
    /\ pc' = IF visit' > Len(VisitGate) THEN "off" ELSE "enter"
    /\ UNCHANGED <<journal, synced, answers, qid, choice, people, accepted, asks,
                   faults>>

Crash ==
    /\ pc # "off"
    /\ pc' = "off"
    /\ UNCHANGED <<files, qid, choice, people, history>>

PowerLoss ==
    /\ Fault
    /\ \E n \in synced .. Len(journal) : journal' = SubSeq(journal, 1, n)
    /\ pc' = "off"
    /\ people' = {}
    /\ UNCHANGED <<visit, synced, answers, qid, choice, accepted, decided, asks>>

----------------------------------------------------------------------------
(* `pas answer` checks the journal: the question was asked, the choice was *)
(* offered, and no HumanInputAnswered is there; then write_answer creates  *)
(* the file unless there is one.  It looks at no lock and no status.       *)
Answering(q, c, by) == [qid |-> q, choice |-> c, by |-> by, for |-> visit]

\* Bound: one on its way from the Monitor and one from a shell.
Free(by) == \A p \in people : p.by # by

PersonReads ==
    /\ Free("cli")
    /\ \E q \in Asked \ Answered, c \in Labels :
         people' = people \cup {Answering(q, c, "cli")}
    /\ UNCHANGED <<files, process, history>>

(* The Monitor starts `pas answer` for a Run that works, a question that   *)
(* its view shows open, and one it has not had answered itself (answer).   *)
Sent == {a.qid : a \in {a \in accepted : a.by = "monitor"}}

MonitorAnswers ==
    /\ Free("monitor")
    /\ pc # "off"
    /\ LET asked == Requested(Gate)
       IN  /\ asked # {}
           /\ \E q \in {journal[Max(asked)].qid} \ (Answered \cup Sent), c \in Labels :
                people' = people \cup {Answering(q, c, "monitor")}
    /\ UNCHANGED <<files, process, history>>

\* Exit code 0, after which the Monitor remembers; it is 7 if the file is there.
PersonWrites ==
    /\ \E p \in people :
        /\ IF answers[p.qid] = NoFile
           THEN /\ answers' = [answers EXCEPT ![p.qid] = [choice |-> p.choice, for |-> p.for]]
                /\ accepted' = accepted \cup {[qid |-> p.qid, choice |-> p.choice, by |-> p.by]}
           ELSE UNCHANGED <<answers, accepted>>
        /\ people' = people \ {p}
    /\ UNCHANGED <<visit, journal, synced, process, decided, asks, faults>>

\* A file written by hand (guide.md:709) that does not fit the question.
SomebodyWritesBadFile ==
    /\ \E q \in Asked :
        /\ answers[q] = NoFile
        /\ answers' = [answers EXCEPT ![q] = [choice |-> Bad, for |-> visit]]
    /\ UNCHANGED <<visit, journal, synced, process, people, history>>

\* ask: the file is polled, and the terminal is read if there is one.
Wait == PollFile \/ TerminalAnswers

Handler == Ask \/ Wait \/ TimesOut \/ Record \/ GoOn

Next ==
    \/ Launch \/ Handler \/ Crash \/ PowerLoss
    \/ PersonReads \/ MonitorAnswers \/ PersonWrites \/ SomebodyWritesBadFile

Spec == Init /\ [][Next]_vars

(* The poll of the answer file is the first branch of a biased select!;    *)
(* what follows it does not wait for anybody.                              *)
FairSpec == Spec /\ WF_vars(PollFile) /\ WF_vars(Record) /\ WF_vars(GoOn)

----------------------------------------------------------------------------
(* Every variable has its type (JournalEvent, AnswerFile, Question).       *)
TypeOK ==
    /\ visit \in 1 .. Len(VisitGate) + 1
    /\ synced \in 0 .. Len(journal)
    /\ \A i \in DOMAIN journal : journal[i].qid \in Question
    /\ \A q \in Question : answers[q].choice \in Labels \cup {Bad, "none"}
    /\ pc \in {"off", "enter", "wait", "answered", "return"}
    /\ pc \in {"wait", "answered", "return"} => qid \in Question
    /\ pc \in {"answered", "return"} => Fits(choice)

(* A gate is decided by an answer somebody gave to this visit of it, never *)
(* by one that was given to an earlier visit or to another gate and is     *)
(* still lying in answers/ (question_id), as long as the journal loses     *)
(* nothing.                                                                *)
DecidedAfresh == faults = 0 => \A d \in decided : d.for = d.visit

(* What `pas answer` has acknowledged is what the gate is decided by: an   *)
(* answer typed at the same moment, a second `pas answer` or a resumed     *)
(* process does not replace it ("the file alone decides which answer came  *)
(* first", interviewer.rs:108), as long as that file can be written.       *)
AcceptedIsObeyed ==
    faults = 0 => \A a \in accepted, d \in decided : a.qid = d.qid => a.choice = d.choice

(* A resumed Run that was killed while it waited asks the same question:   *)
(* a gate gets a new id only after its last question was answered.         *)
SameQuestionAgain ==
    [][Ask => \A i \in DOMAIN journal :
        /\ i = Max(Requested({VisitGate[visit]}) \cup {0})
        /\ journal[i].qid \notin Answered
        => qid' = journal[i].qid]_vars

(* An answer file that fits, whenever it was written, gets the gate to go  *)
(* on or the process ends (ask polls at once, and every second).           *)
AnswerIsNoticed ==
    (pc = "wait" /\ Fits(answers[qid])) ~> (pc # "wait")

(* A gate goes where somebody said it should, at this visit: not by an old *)
(* answer, not by another gate's, and never against an answer that was     *)
(* acknowledged (wait_human.rs, FileInterviewer, write_answer).            *)
RightAnswerDecides == TypeOK /\ DecidedAfresh /\ AcceptedIsObeyed
=============================================================================
