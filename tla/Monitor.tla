------------------------------ MODULE Monitor ------------------------------
(***************************************************************************)
(* The Monitor (`pas monitor`) follows one Run.  A process appends to the  *)
(* journal; the watcher (monitor/watcher.rs) registers the Run from the Run*)
(* Index, loads the journal into the view and tails it; the shared state   *)
(* (state.rs) folds each Event once and broadcasts it; one task per browser*)
(* (sse.rs) sends the backlog and then the broadcast Events.  The file and *)
(* the channel are two ways to the same Event, and every step below can    *)
(* come between any two others.                                            *)
(*                                                                         *)
(* An Event's seq is its place in the file.  A "Garbled" line is a complete*)
(* line that does not parse (Journal shows how one comes to be): read_all  *)
(* refuses the whole file for it, the tail skips it.                       *)
(***************************************************************************)
EXTENDS Projection

CONSTANTS
    Browser,        \* the EventSource connections
    Capacity,       \* CHANNEL_CAPACITY
    MaxEvents,      \* bound: lines of the journal
    MaxAttempts,    \* bound: Attempts
    MaxFaults,      \* bound: odd lines, failed reads and removals of the folder
    MaxConnects     \* bound: connects of one browser

ASSUME MonitorAssumption ==
    /\ Capacity \in Nat \ {0}
    /\ {MaxEvents, MaxAttempts, MaxFaults, MaxConnects} \subseteq Nat

VARIABLES
    journal,    \* events.jsonl
    exists,     \* the Run folder exists
    slot,       \* RunSlot: known, missing, view
    track,      \* Tracked: loaded, len, tail and how many lines the tail has seen
    load,       \* attach() under way: on, the length it measured, what it still has to apply
    client,     \* per browser: what it received and its connection (pump)
    faults      \* faults so far

vars == <<journal, exists, slot, track, load, client, faults>>

Attempts == Cardinality({i \in DOMAIN journal : journal[i].type = "AttemptStarted"})
Ended == journal # <<>> /\ journal[Len(journal)].type = "AttemptEnded"

(* read_all and the tail drop lines of an unknown type; read_all fails for *)
(* a garbled line or a missing folder.                                     *)
Known(e) == e.type \notin {"Unknown", "Garbled"}
Readable == exists /\ \A i \in DOMAIN journal : journal[i].type # "Garbled"
KnownLines == {i \in DOMAIN journal : Known(journal[i])}

\* Some lines of the file, in its order.
InOrder(S) ==
    CHOOSE s \in [1 .. Cardinality(S) -> S] : \A i, j \in DOMAIN s : i < j => s[i] < s[j]
Lines(S) == [k \in 1 .. Cardinality(S) |-> journal[InOrder(S)[k]]]
ReadAll == Lines(KnownLines)

Init ==
    /\ journal = <<>> /\ exists = TRUE
    /\ slot = [known |-> FALSE, missing |-> FALSE, view |-> EmptyView]
    /\ track = [loaded |-> FALSE, len |-> 0, tail |-> "none", pos |-> 0]
    /\ load = [on |-> FALSE, len |-> 0, todo |-> <<>>]
    /\ client = [b \in Browser |->
                    [pc |-> "off", queue |-> <<>>, lagged |-> FALSE, last |-> 0,
                     got |-> <<>>, proj |-> 0, gap |-> FALSE, connects |-> 0]]
    /\ faults = 0

----------------------------------------------------------------------------
(* The environment: the Run writes its journal and its folder may be       *)
(* removed.  It is in the Run Index from the start, since `pas run` appends*)
(* its entry before it opens the journal.                                  *)
Write(type, attempt) ==
    /\ exists /\ Len(journal) < MaxEvents
    /\ journal' = Append(journal, [type |-> type, seq |-> Len(journal) + 1, attempt |-> attempt,
                                   node |-> "n", reason |-> "completed"])
    /\ UNCHANGED <<exists, slot, track, load, client>>

BeginAttempt ==
    /\ Attempts < MaxAttempts
    /\ Write("AttemptStarted", Attempts + 1)
    /\ UNCHANGED faults

WriteEvent ==
    /\ Attempts > 0 /\ ~Ended
    /\ \E type \in {"StageStarted", "AttemptEnded"} : Write(type, Attempts)
    /\ UNCHANGED faults

WriteOdd ==
    /\ Attempts > 0 /\ ~Ended /\ faults < MaxFaults
    /\ \E type \in {"Unknown", "Garbled"} : Write(type, Attempts)
    /\ faults' = faults + 1

RemoveFolder ==
    /\ exists /\ exists' = FALSE
    /\ faults < MaxFaults /\ faults' = faults + 1
    /\ UNCHANGED <<journal, slot, track, load, client>>

----------------------------------------------------------------------------
(* AppState::upsert_entry, and set_missing, which tick calls right after.  *)
Register == slot' = [slot EXCEPT !.known = TRUE, !.missing = ~exists]

(* A tail that has finished is forgotten and the journal is loaded again.  *)
Reaped == IF track.tail = "done" THEN [track EXCEPT !.tail = "none", !.loaded = FALSE] ELSE track

NeedsLoad == Reaped.tail = "none" /\ ~(Reaped.loaded /\ Len(journal) = Reaped.len)

(* tick for this Run, up to the length that attach measures.               *)
Tick ==
    /\ ~load.on
    /\ Register
    /\ IF ~exists
       THEN track' = [Reaped EXCEPT !.loaded = FALSE] /\ UNCHANGED load
       ELSE /\ track' = Reaped
            /\ load' = IF NeedsLoad THEN [on |-> TRUE, len |-> Len(journal), todo |-> None] ELSE load
    /\ UNCHANGED <<journal, exists, client, faults>>

(* attach reads the whole file; when it cannot, it leaves track as it was. *)
LoadRead ==
    /\ load.on /\ load.todo = None
    /\ load' = IF Readable THEN [load EXCEPT !.todo = ReadAll] ELSE [load EXCEPT !.on = FALSE, !.todo = <<>>]
    /\ UNCHANGED <<journal, exists, slot, track, client, faults>>

(* AppState::apply: fold and broadcast under one lock, unless the view has *)
(* the Event.  A receiver that is full loses its oldest Event and is marked*)
Subscribed(b) == client[b].pc # "off"

Broadcast(e) ==
    client' = [b \in Browser |->
        IF ~Subscribed(b) THEN client[b]
        ELSE LET q == Append(client[b].queue, e)
             IN  IF Len(q) <= Capacity THEN [client[b] EXCEPT !.queue = q]
                 ELSE [client[b] EXCEPT !.queue = Tail(q), !.lagged = TRUE]]

ApplyEvent(e) ==
    IF e.seq <= slot.view.last THEN UNCHANGED <<slot, client>>
    ELSE slot' = [slot EXCEPT !.view = Apply(@, e)] /\ Broadcast(e)

LoadApply ==
    /\ load.on /\ load.todo \notin {None, <<>>}
    /\ ApplyEvent(Head(load.todo))
    /\ load' = [load EXCEPT !.todo = Tail(@)]
    /\ UNCHANGED <<journal, exists, track, faults>>

(* A version: the length is measured when the load ends. *)
LoadEndLateLength ==
    /\ load.on /\ load.todo = <<>>
    /\ track' = [loaded |-> TRUE, len |-> Len(journal), pos |-> 0,
                 tail |-> IF slot.view.status = "running" THEN "on" ELSE "none"]
    /\ load' = [load EXCEPT !.on = FALSE]
    /\ UNCHANGED <<journal, exists, slot, client, faults>>

(* attach ends: the Run is tailed, from the start of its file, if it is    *)
(* live.                                                                   *)
LoadEnd ==
    /\ load.on /\ load.todo = <<>>
    /\ track' = [loaded |-> TRUE, len |-> load.len, pos |-> 0,
                 tail |-> IF slot.view.status = "running" THEN "on" ELSE "none"]
    /\ load' = [load EXCEPT !.on = FALSE]
    /\ UNCHANGED <<journal, exists, slot, client, faults>>

(* The tail yields one more line; it ends with the Attempt.                *)
TailStep ==
    /\ track.tail = "on" /\ exists /\ track.pos < Len(journal)
    /\ LET e == journal[track.pos + 1]
       IN  /\ IF Known(e) THEN ApplyEvent(e) ELSE UNCHANGED <<slot, client>>
           /\ track' = [track EXCEPT !.pos = @ + 1,
                                     !.tail = IF Known(e) /\ slot'.view.status # "running"
                                              THEN "done" ELSE @]
    /\ UNCHANGED <<journal, exists, load, faults>>

----------------------------------------------------------------------------
(* run_events: subscribe, registering the Run first if the watcher has not *)
(* seen it yet, and start a pump at the cursor the browser sends: the seq  *)
(* of the last frame it got.                                               *)
LastGot(c) == IF c.got = <<>> THEN 0 ELSE c.got[Len(c.got)].seq

Connect(b) ==
    /\ ~Subscribed(b) /\ client[b].connects < MaxConnects
    /\ slot' = IF slot.known THEN slot ELSE [slot EXCEPT !.known = TRUE, !.missing = ~exists]
    /\ client' = [client EXCEPT ![b].pc = "read", ![b].last = LastGot(client[b]), ![b].connects = @ + 1]
    /\ UNCHANGED <<journal, exists, track, load, faults>>

(* send_backlog reads the file, sends what is above the cursor and then a  *)
(* projection.  A read that fails is an empty file.  Nobody else can see   *)
(* how far the sending has come: a connection that breaks in it loses a    *)
(* part of what was sent (Disconnect).                                     *)
SendBacklog(b) ==
    /\ client[b].pc = "read"
    /\ \/ /\ Readable
          /\ LET new == Lines({i \in KnownLines : journal[i].seq > client[b].last})
             IN  client' = [client EXCEPT ![b].pc = "project", ![b].got = @ \o new,
                                ![b].last = IF new = <<>> THEN @ ELSE new[Len(new)].seq]
          /\ UNCHANGED faults
       \/ /\ ~Readable \/ faults < MaxFaults
          /\ client' = [client EXCEPT ![b].pc = "project", ![b].gap = TRUE]
          /\ faults' = IF Readable THEN faults + 1 ELSE faults
    /\ UNCHANGED <<journal, exists, slot, track, load>>

(* send_projection: the view as it is now.                                 *)
SendProjection(b) ==
    /\ client[b].pc = "project"
    /\ client' = [client EXCEPT ![b].pc = "recv", ![b].proj = slot.view.last]
    /\ UNCHANGED <<journal, exists, slot, track, load, faults>>

(* A version: a lagged receiver goes on with what is still buffered. *)
LaggedSkips(b) ==
    /\ client[b].pc = "recv" /\ client[b].lagged
    /\ client' = [client EXCEPT ![b].lagged = FALSE]
    /\ UNCHANGED <<journal, exists, slot, track, load, faults>>

(* recv: a lagged receiver is told so before anything else and resumes at  *)
(* the oldest Event still buffered.                                        *)
Lagged(b) ==
    /\ client[b].pc = "recv" /\ client[b].lagged
    /\ client' = [client EXCEPT ![b].lagged = FALSE, ![b].pc = "read"]
    /\ UNCHANGED <<journal, exists, slot, track, load, faults>>

Recv(b) ==
    /\ client[b].pc = "recv" /\ ~client[b].lagged /\ client[b].queue # <<>>
    /\ LET e == Head(client[b].queue)
           c == [client[b] EXCEPT !.queue = Tail(@)]
       IN  client' = [client EXCEPT ![b] = IF e.seq <= c.last THEN c
                                           ELSE [c EXCEPT !.pc = "project", !.last = e.seq,
                                                          !.got = Append(@, e)]]
    /\ UNCHANGED <<journal, exists, slot, track, load, faults>>

(* The connection breaks; frames on their way are lost with it.  (Only one *)
(* after which the browser may connect again: the last one stays.)         *)
Disconnect(b) ==
    /\ Subscribed(b) /\ client[b].connects < MaxConnects
    /\ \E n \in 0 .. Len(client[b].got) :
          client' = [client EXCEPT ![b].pc = "off", ![b].queue = <<>>, ![b].lagged = FALSE,
                                   ![b].last = 0, ![b].got = SubSeq(@, 1, n)]
    /\ UNCHANGED <<journal, exists, slot, track, load, faults>>

Environment == BeginAttempt \/ WriteEvent \/ WriteOdd \/ RemoveFolder
Watcher == Tick \/ LoadRead \/ LoadApply \/ LoadEnd
Pump(b) == SendBacklog(b) \/ SendProjection(b) \/ Lagged(b) \/ Recv(b)

Next ==
    \/ Environment \/ Watcher \/ TailStep
    \/ \E b \in Browser : Connect(b) \/ Pump(b) \/ Disconnect(b)

(* The watcher's loop, the tail and the pumps are tasks of one runtime.  A *)
(* read of a readable file fails only now and then, which the bound on the *)
(* faults says.                                                            *)
Fairness ==
    /\ WF_vars(Watcher) /\ WF_vars(TailStep)
    /\ \A b \in Browser : WF_vars(Pump(b))

Spec == Init /\ [][Next]_vars /\ Fairness

----------------------------------------------------------------------------
LastKnown == IF ReadAll = <<>> THEN 0 ELSE ReadAll[Len(ReadAll)].seq

\* The known Events after line m, up to line n.
Between(m, n) == {journal[i] : i \in {j \in KnownLines : m < j /\ j <= n}}

Growing(s) == \A i, j \in DOMAIN s : i < j => s[i].seq < s[j].seq

(* What n lines of the file come to when each known one is folded once.    *)
FoldUpTo(file) ==
    LET F[n \in 0 .. Len(file)] ==
            IF n = 0 THEN EmptyView
            ELSE IF Known(file[n]) THEN Apply(F[n - 1], file[n]) ELSE F[n - 1]
    IN  F

TypeOK ==
    /\ Len(journal) <= MaxEvents /\ exists \in BOOLEAN
    /\ slot.known \in BOOLEAN /\ slot.missing \in BOOLEAN /\ slot.view.last \in 0 .. Len(journal)
    /\ track.loaded \in BOOLEAN /\ track.len \in 0 .. Len(journal)
    /\ track.tail \in {"none", "on", "done"} /\ track.pos \in 0 .. Len(journal)
    /\ load.on \in BOOLEAN /\ faults \in 0 .. MaxFaults
    /\ \A b \in Browser :
          /\ client[b].pc \in {"off", "read", "project", "recv"}
          /\ Len(client[b].queue) <= Capacity /\ client[b].proj <= Len(journal)

(* Whoever applies an Event, the load or the tail, and however often both  *)
(* read it, the view is the fold of each Event once, in the order of the   *)
(* file, without a hole (AppState::apply).                                 *)
ViewIsFold == slot.view = FoldUpTo(journal)[slot.view.last]

(* A browser got each Event once, in order and without a hole, through any *)
(* mix of backlog and broadcast, lagging and reconnects: "a subscriber     *)
(* neither misses nor repeats an Event" (state.rs:125).  A backlog that    *)
(* could not be read is the exception (GapFree).                           *)
LogIsPrefix ==
    \A b \in Browser :
       LET c == client[b]
           all == Between(0, LastGot(c)) IN
       /\ Growing(c.got)
       /\ IF c.gap THEN ToSet(c.got) \subseteq all ELSE ToSet(c.got) = all

(* What the view has and a waiting browser has not is on its way to it, in *)
(* order and once.                                                         *)
NothingMissed ==
    \A b \in Browser :
       LET c == client[b] IN
       /\ Growing(c.queue)
       /\ c.pc \in {"project", "recv"} /\ ~c.lagged /\ ~c.gap =>
             {e \in ToSet(c.queue) : e.seq > c.last} = Between(c.last, slot.view.last)

(* The Monitor comes to know everything a registered Run wrote, so also    *)
(* the end of an Attempt and a resume that comes after it.                 *)
RunIsFollowed == <>[](Readable => slot.view.last = LastKnown)

(* And a browser that stays connected gets it.                             *)
BrowserCatchesUp ==
    \A b \in Browser :
       <>[](Subscribed(b) /\ Readable /\ ~client[b].gap => LastGot(client[b]) = LastKnown)

(* "Send every journalled Event with seq > *last from the file"            *)
(* (sse.rs:108): not when the file could not be read, and then the next    *)
(* Event moves the cursor past what was not sent.                          *)
GapFree == \A b \in Browser : ToSet(client[b].got) = Between(0, LastGot(client[b]))

(* A browser is finally shown the projection of all it got.  An Event that *)
(* the backlog brought before the watcher knew it is dropped when it is    *)
(* broadcast, and no projection follows.                                   *)
ProjectionCatchesUp ==
    \A b \in Browser :
       <>[](Subscribed(b) /\ Readable /\ client[b].pc = "recv" => client[b].proj = slot.view.last)

(* Between journal and page nothing is doubled, dropped or reordered: in   *)
(* the view, and in what a browser has of it (Watcher, sse.rs).            *)
DeliveredOnce == TypeOK /\ ViewIsFold /\ LogIsPrefix /\ NothingMissed

(* And everything arrives: in the view, and on a page that stays open.     *)
AllArrives == RunIsFollowed /\ BrowserCatchesUp
=============================================================================
