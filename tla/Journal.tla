------------------------------ MODULE Journal ------------------------------
(***************************************************************************)
(* The Run Journal of attractor-journal: events.jsonl, its one writer      *)
(* (writer.rs) and a follower (reader.rs, tail) in another process.        *)
(*                                                                         *)
(* The file is a sequence of half lines, because what goes wrong with it   *)
(* is that half a line is there: the writer may die between the halves, a  *)
(* write may fail between them, and a reader may read in between.  The     *)
(* second half ends with the newline.                                      *)
(***************************************************************************)
EXTENDS Naturals, Sequences, FiniteSetsExt

CONSTANTS
    MaxEvents,        \* bound: appends attempted
    MaxOpens,         \* bound: Attempts, each of which opens the journal
    MaxPowerLosses,   \* bound
    MaxTears          \* bound: writes that fail with half a line written

ASSUME JournalAssumption == MaxEvents \in Nat

VARIABLES
    file,             \* the halves in events.jsonl
    synced,           \* how many of them are known to be on the disk
    writer,           \* "closed", "ready", or where append is
    next,             \* next_seq
    current,          \* the Event append was given
    reader,           \* where read_complete_lines is
    committed, buf,   \* its locals
    seen,             \* the Events tail has emitted
    acked,            \* history: Events for which append returned Ok
    tried, opens, losses, tears

fileVars == <<file, synced, acked, losses, tears>>
writerVars == <<writer, next, current, tried, opens>>
readerVars == <<reader, committed, buf, seen>>
vars == <<fileVars, writerVars, readerVars>>

Event == [seq : 1..MaxEvents, id : 1..MaxEvents, must : BOOLEAN]
NoEvent == [seq |-> 0, id |-> 0, must |-> FALSE]

First(e) == [event |-> e, part |-> "first"]
Second(e) == [event |-> e, part |-> "second"]

----------------------------------------------------------------------------
(* Lines.  A line ends with the second half of some Event; it is readable  *)
(* when it consists of the two halves of one Event and nothing else.       *)
LineEnds(f) == {i \in DOMAIN f : f[i].part = "second"}
LastEnd(f) == IF LineEnds(f) = {} THEN 0 ELSE Max(LineEnds(f))

IsWhole(f, i) ==
    /\ i > 1
    /\ f[i - 1] = First(f[i].event)
    /\ i > 2 => f[i - 2].part = "second"

WholeLines(f) == {i \in LineEnds(f) : IsWhole(f, i)}

\* The Events that can be read of the first i halves, for every i.
ReadUpTo(f) ==
    LET R[i \in 0 .. Len(f)] ==
            IF i = 0 THEN <<>>
            ELSE IF i \in WholeLines(f) THEN Append(R[i - 1], f[i].event) ELSE R[i - 1]
    IN  R

Readable(f) == ReadUpTo(f)[Len(f)]

Complete(f) == SubSeq(f, 1, LastEnd(f))

Seqs(f) == {f[i].event.seq : i \in WholeLines(f)}

----------------------------------------------------------------------------
Init ==
    /\ file = <<>> /\ synced = 0 /\ acked = {} /\ losses = 0 /\ tears = 0
    /\ writer = "closed" /\ next = 1 /\ current = NoEvent
    /\ tried = 0 /\ opens = 0
    /\ reader = "idle" /\ committed = 0 /\ buf = <<>> /\ seen = <<>>

(* JournalWriter::open: cut what follows the last newline, and go on from  *)
(* the highest seq that can be read.                                       *)
OpenWriterKeepingTorn ==
    /\ writer = "closed"
    /\ opens < MaxOpens
    /\ writer' = "ready"
    /\ next' = Max(Seqs(file) \cup {0}) + 1
    /\ opens' = opens + 1
    /\ UNCHANGED <<file, synced, acked, losses, tears, current, tried, readerVars>>

OpenWriter ==
    /\ writer = "closed"
    /\ opens < MaxOpens
    /\ writer' = "ready"
    /\ file' = Complete(file)
    /\ synced' = IF Complete(file) = file THEN synced ELSE LastEnd(file)
    /\ next' = Max(Seqs(file) \cup {0}) + 1
    /\ opens' = opens + 1
    /\ UNCHANGED <<acked, losses, tears, current, tried, readerVars>>

(* append: one line, written under the mutex in at least one write(2); the *)
(* seq is used up when the line is complete.                               *)
WriteHead ==
    /\ writer = "ready"
    /\ tried < MaxEvents
    /\ \E must \in BOOLEAN :
         LET e == [seq |-> next, id |-> tried + 1, must |-> must]
         IN  current' = e /\ file' = Append(file, First(e))
    /\ tried' = tried + 1
    /\ writer' = "writing"
    /\ UNCHANGED <<synced, acked, losses, tears, next, opens, readerVars>>

WriteTail ==
    /\ writer = "writing"
    /\ file' = Append(file, Second(current))
    /\ next' = next + 1
    /\ writer' = "written"
    /\ UNCHANGED <<synced, acked, losses, tears, current, tried, opens, readerVars>>

(* write_all fails with half of the line in the file (the disk is full):   *)
(* append returns the error before it counts the seq, and the caller       *)
(* carries on.  A write that fails with nothing written changes nothing.   *)
WriteFails ==
    /\ writer = "writing"
    /\ tears < MaxTears
    /\ tears' = tears + 1
    /\ writer' = "ready"
    /\ UNCHANGED <<file, synced, acked, losses, next, current, tried, opens, readerVars>>

(* sync_data, which AttemptEnded and HumanInputRequested always ask for    *)
(* and any other Event when five seconds have passed.                      *)
Sync ==
    /\ writer = "written"
    /\ synced' = Len(file)
    /\ acked' = acked \cup {current}
    /\ writer' = "ready"
    /\ UNCHANGED <<file, losses, tears, next, current, tried, opens, readerVars>>

LeaveUnsynced ==
    /\ writer = "written"
    /\ ~current.must
    /\ acked' = acked \cup {current}
    /\ writer' = "ready"
    /\ UNCHANGED <<file, synced, losses, tears, next, current, tried, opens,
                   readerVars>>

SyncFails ==
    /\ writer = "written"
    /\ writer' = "ready"
    /\ UNCHANGED <<fileVars, next, current, tried, opens, readerVars>>

(* The process that writes ends, or dies wherever it is.                   *)
WriterDies ==
    /\ writer # "closed"
    /\ writer' = "closed"
    /\ UNCHANGED <<fileVars, next, current, tried, opens, readerVars>>

(* Power loss takes back some of what was not synced, and both processes.  *)
PowerLoss ==
    /\ losses < MaxPowerLosses
    /\ \E k \in synced .. Len(file) :
         file' = SubSeq(file, 1, k) /\ synced' = k
    /\ losses' = losses + 1
    /\ writer' = "closed"
    /\ reader' = "idle" /\ committed' = 0 /\ buf' = <<>> /\ seen' = <<>>
    /\ UNCHANGED <<acked, tears, next, current, tried, opens>>

----------------------------------------------------------------------------
(* One poll of tail: compare the length, read to the end in as many reads  *)
(* as it takes, keep what ends with a newline, and read it again; only     *)
(* what both readings agree on is emitted.                                 *)
PollStart ==
    /\ reader = "idle"
    /\ committed' = Min({committed, Len(file)})
    /\ committed' < Len(file)
    /\ reader' = "reading"
    /\ buf' = <<>>
    /\ UNCHANGED <<seen, fileVars, writerVars>>

Position == committed + Len(buf)

ReadChunk ==
    /\ reader = "reading"
    /\ \E k \in Position + 1 .. Len(file) :
         buf' = buf \o SubSeq(file, Position + 1, k)
    /\ UNCHANGED <<reader, committed, seen, fileVars, writerVars>>

ReadEnd ==
    /\ reader = "reading"
    /\ Position >= Len(file)
    /\ buf' = Complete(buf)
    /\ reader' = IF buf' = <<>> THEN "idle" ELSE "again"
    /\ UNCHANGED <<committed, seen, fileVars, writerVars>>

Emit ==
    /\ committed' = Position
    /\ seen' = seen \o Readable(buf)

ReadOnce ==
    /\ reader = "again"
    /\ reader' = "idle"
    /\ Emit
    /\ buf' = <<>>
    /\ UNCHANGED <<fileVars, writerVars>>

ReadAgain ==
    /\ reader = "again"
    /\ reader' = "idle"
    /\ IF SubSeq(file, committed + 1, Min({Position, Len(file)})) = buf
       THEN Emit
       ELSE UNCHANGED <<committed, seen>>
    /\ buf' = <<>>
    /\ UNCHANGED <<fileVars, writerVars>>

Writing ==
    OpenWriter \/ WriteHead \/ WriteTail \/ WriteFails \/ Sync
        \/ LeaveUnsynced \/ SyncFails \/ WriterDies

Following == PollStart \/ ReadChunk \/ ReadEnd \/ ReadAgain

Next == Writing \/ Following \/ PowerLoss

(* The follower is a task that polls for as long as anyone listens; the    *)
(* writer may stop for ever at any point.                                  *)
Spec == Init /\ [][Next]_vars
FairSpec == Spec /\ WF_vars(Following)

----------------------------------------------------------------------------
(* Every variable has its type, and the positions the two sides keep lie   *)
(* within the file (JournalWriter, read_complete_lines).                   *)
TypeOK ==
    /\ \A i \in DOMAIN file :
        file[i].event \in Event /\ file[i].part \in {"first", "second"}
    /\ synced \in 0 .. Len(file)
    /\ writer \in {"closed", "ready", "writing", "written"}
    /\ next \in 1 .. MaxEvents + 1
    /\ current \in Event \cup {NoEvent}
    /\ reader \in {"idle", "reading", "again"}
    /\ committed \in 0 .. Len(file)
    /\ acked \subseteq Event

(* An Event that must be synced and whose append returned Ok survives the  *)
(* writer's death and a power loss (event.rs:335), unless a write failed   *)
(* half way before it and left something for it to be glued to.            *)
AckedSurvives ==
    \A e \in acked : e.must /\ tears = 0 =>
        \E i \in WholeLines(file) : file[i].event = e

(* A number is given to one Event only, and the numbers of the Events that *)
(* can be read grow, whatever was torn, glued to something, left unsynced  *)
(* or taken back (writer.rs:89, append; writer.rs:66, open).               *)
NumbersGrow ==
    \A i, j \in WholeLines(file) :
        i < j => file[i].event.seq < file[j].event.seq

(* The journal and its follower are the log and the exactly-once delivery  *)
(* that EventLog promises: seq identifies an Event of a Run whatever was   *)
(* torn, glued, lost or written by which Attempt (writer.rs open, append), *)
(* and what stays in the file reaches the follower (reader.rs tail).       *)
Log == INSTANCE EventLog WITH Event <- Event, log <- Readable(file), seen <- seen

ImplementsEventLog == Log!LiveSpec

(* events.jsonl through every torn line, failed call and power loss: no    *)
(* number is used twice, and a synced Event stays (writer.rs open,         *)
(* append).                                                                *)
EventsAreKept == TypeOK /\ NumbersGrow /\ AckedSurvives

----------------------------------------------------------------------------
(* What a comment says of the writer and the code does not do.             *)

(* writer.rs:87, append: "`seq` advances only when the write succeeds, so  *)
(* a failed write leaves no gap and the caller may simply carry on with    *)
(* the next Event."                                                        *)
NoGap == \A i \in DOMAIN Readable(file) : Readable(file)[i].seq = i
=============================================================================
