--------------------------- MODULE JournalProofs ---------------------------
(***************************************************************************)
(* Proofs about Journal for any number of Events, Attempts, torn writes    *)
(* and power losses: what both sides of events.jsonl know of the file,     *)
(* that numbers grow, that what was synced stays, and that every step is   *)
(* one of the log that EventLog promises.  And about the Monitor, which    *)
(* follows the file for people: what its view and a browser have of it.    *)
(***************************************************************************)
EXTENDS Journal, SequenceTheorems, FiniteSetTheorems, WellFoundedInduction, TLAPS

Half == [event : Event, part : {"first", "second"}]

(* Types, and which numbers have been given out.                           *)
Typed ==
    /\ file \in Seq(Half) /\ synced \in 0 .. Len(file)
    /\ writer \in {"closed", "ready", "writing", "written"}
    /\ tried \in 0 .. MaxEvents
    /\ next \in Nat \ {0} /\ next <= tried + (IF writer = "writing" THEN 0 ELSE 1)
    /\ current \in Event \cup {NoEvent} /\ current.seq <= tried
    /\ writer \in {"writing", "written"} => current \in Event
    /\ \A i \in DOMAIN file : file[i].event.seq <= tried
    /\ acked \subseteq Event /\ tears \in Nat

(* The follower stands behind a line, or before the first one.             *)
ReaderInv ==
    /\ reader \in {"idle", "reading", "again"} /\ buf \in Seq(Half)
    /\ committed = 0 \/ committed \in LineEnds(file)
    /\ reader = "again" => Len(buf) \in LineEnds(buf)

(* The numbers of the lines that can be read.                              *)
NumberInv ==
    /\ NumbersGrow
    /\ writer # "closed" => \A i \in WholeLines(file) : file[i].event.seq < next
    /\ writer = "writing" => current.seq = next

(* As long as no write has failed half way, a writer that is between two   *)
(* Events stands behind a line, and the line that it writes has a line of  *)
(* its own.                                                                *)
TailInv ==
    /\ writer = "ready" => Len(file) \in LineEnds(file) \cup {0}
    /\ writer = "writing" =>
        /\ Len(file) \in Nat \ {0} /\ file[Len(file)] = First(current)
        /\ Len(file) - 1 \in LineEnds(file) \cup {0}
    /\ writer = "written" =>
        Len(file) \in WholeLines(file) /\ file[Len(file)].event = current

KeptInv ==
    \A e \in acked : e.must =>
        \E i \in WholeLines(file) : i <= synced /\ file[i].event = e

Durable == tears = 0 => TailInv /\ KeptInv

IInv == Typed /\ ReaderInv /\ NumberInv /\ Durable

----------------------------------------------------------------------------
(* Numbers and sequences                                                   *)

LEMMA NatIsWellFounded == IsWellFoundedOn({ss \in Nat \X Nat : ss[1] < ss[2]}, Nat)
  BY NatLessThanWellFounded DEF OpToRel

LEMMA LeastExists ==
    ASSUME NEW S, S \subseteq Nat, S # {}
    PROVE  \E n \in S : \A m \in S : n <= m
<1> DEFINE R == {ss \in Nat \X Nat : ss[1] < ss[2]}
<1>1. PICK n \in S : \A m \in S : ~ (<<m, n>> \in R)
  <2> HIDE DEF R
  <2>1. IsWellFoundedOn(R, Nat)
    BY NatIsWellFounded DEF R
  <2> QED
    BY <2>1, WFMin
<1>2. \A m \in S : n <= m
  <2> SUFFICES ASSUME NEW m \in S PROVE n <= m
    OBVIOUS
  <2>1. m \in Nat /\ n \in Nat /\ <<m, n>> \notin R
    BY <1>1
  <2> QED
    BY <2>1
<1> QED
  BY <1>2

LEMMA MinIsLeast ==
    ASSUME NEW S, S \subseteq Nat, S # {}
    PROVE  Min(S) \in S /\ \A m \in S : Min(S) <= m
<1>1. \E n \in S : \A m \in S : n <= m
  BY LeastExists
<1> QED
  BY <1>1 DEF Min

LEMMA MaxIsGreatest ==
    ASSUME NEW n \in Nat, NEW S, S \subseteq 0..n, S # {}
    PROVE  Max(S) \in S /\ \A m \in S : Max(S) >= m
<1> DEFINE T == {n - m : m \in S}
<1>1. T \subseteq Nat /\ T # {}
  <2>1. \A m \in S : m \in 0..n /\ n - m \in Nat
    OBVIOUS
  <2> QED
    BY <2>1
<1>2. PICK t \in T : \A u \in T : t <= u
  <2> HIDE DEF T
  <2> QED BY <1>1, LeastExists
<1>3. PICK x \in S : t = n - x
  BY <1>2
<1>4. ASSUME NEW m \in S PROVE x >= m
  <2>1. n - m \in T
    OBVIOUS
  <2>2. n - x <= n - m
    BY <2>1, <1>2, <1>3
  <2> QED
    BY <2>2
<1> QED
  BY <1>4 DEF Max

LEMMA MinOfTwo ==
    ASSUME NEW a \in Nat, NEW b \in Nat
    PROVE  Min({a, b}) = IF a <= b THEN a ELSE b
<1>1. Min({a, b}) \in {a, b} /\ \A m \in {a, b} : Min({a, b}) <= m
  BY MinIsLeast
<1> QED
  BY <1>1

LEMMA Halves ==
    ASSUME NEW f \in Seq(Half)
    PROVE  /\ Len(f) \in Nat /\ DOMAIN f = 1..Len(f) /\ \A i \in 1..Len(f) : f[i] \in Half
           /\ LineEnds(f) \subseteq 1..Len(f) /\ WholeLines(f) \subseteq LineEnds(f)
  BY LenProperties, ElementOfSeq DEF LineEnds, WholeLines

LEMMA LastEndIs ==
    ASSUME NEW f \in Seq(Half)
    PROVE  /\ LastEnd(f) \in 0..Len(f) /\ LastEnd(f) \in LineEnds(f) \cup {0}
           /\ \A i \in LineEnds(f) : i <= LastEnd(f)
<1>1. Len(f) \in Nat /\ LineEnds(f) \subseteq 1..Len(f)
  BY Halves
<1>2. CASE LineEnds(f) = {}
  BY <1>1, <1>2 DEF LastEnd
<1>3. CASE LineEnds(f) # {}
  <2>1. LineEnds(f) \subseteq 0..Len(f)
    BY <1>1
  <2>2. Max(LineEnds(f)) \in LineEnds(f) /\ \A m \in LineEnds(f) : Max(LineEnds(f)) >= m
    BY <1>1, <1>3, <2>1, MaxIsGreatest
  <2> QED
    BY <1>1, <1>3, <2>2 DEF LastEnd
<1> QED
  BY <1>2, <1>3

\* What is cut off a file takes no line with it that ends before the cut.
LEMMA Cut ==
    ASSUME NEW f \in Seq(Half), NEW k \in 0..Len(f)
    PROVE  /\ SubSeq(f, 1, k) \in Seq(Half) /\ Len(SubSeq(f, 1, k)) = k
           /\ \A i \in 1..k : SubSeq(f, 1, k)[i] = f[i]
           /\ LineEnds(SubSeq(f, 1, k)) = {i \in LineEnds(f) : i <= k}
           /\ WholeLines(SubSeq(f, 1, k)) = {i \in WholeLines(f) : i <= k}
<1> DEFINE g == SubSeq(f, 1, k)
<1>0. Len(f) \in Nat /\ DOMAIN f = 1..Len(f) /\ k \in Nat
  BY Halves
<1>1. g \in Seq(Half) /\ Len(g) = k /\ \A i \in 1..k : g[i] = f[i]
  <2>1. \A i \in 1..k : f[i] \in Half
    BY <1>0, Halves
  <2>2. /\ g \in Seq(Half) /\ Len(g) = (IF 1 <= k THEN k - 1 + 1 ELSE 0)
        /\ \A i \in 1 .. k - 1 + 1 : g[i] = f[1 + i - 1]
    BY <1>0, <2>1, SubSeqProperties
  <2> HIDE DEF g
  <2> QED
    BY <1>0, <2>2
<1>2. DOMAIN g = 1..k
  BY <1>1, Halves
<1> HIDE DEF g
<1>3. LineEnds(g) = {i \in LineEnds(f) : i <= k}
  BY <1>0, <1>1, <1>2 DEF LineEnds
<1>4. \A i \in 1..k : IsWhole(g, i) <=> IsWhole(f, i)
  <2> SUFFICES ASSUME NEW i \in 1..k PROVE IsWhole(g, i) <=> IsWhole(f, i)
    OBVIOUS
  <2>1. g[i] = f[i] /\ (i > 1 => g[i - 1] = f[i - 1]) /\ (i > 2 => g[i - 2] = f[i - 2])
    BY <1>0, <1>1
  <2> QED
    BY <1>0, <2>1 DEF IsWhole
<1>5. WholeLines(g) = {i \in WholeLines(f) : i <= k}
  BY <1>0, <1>3, <1>4 DEF WholeLines, LineEnds
<1> QED
  BY <1>1, <1>3, <1>5 DEF g

\* What is added to a file changes none of its lines.
LEMMA Added ==
    ASSUME NEW f \in Seq(Half), NEW h \in Half
    PROVE  /\ Append(f, h) \in Seq(Half) /\ Len(Append(f, h)) = Len(f) + 1
           /\ \A i \in 1..Len(f) : Append(f, h)[i] = f[i]
           /\ Append(f, h)[Len(f) + 1] = h
           /\ LineEnds(Append(f, h)) = LineEnds(f) \cup (IF h.part = "second" THEN {Len(f) + 1} ELSE {})
           /\ \A i \in WholeLines(Append(f, h)) : i \in WholeLines(f) \/ (i = Len(f) + 1 /\ h.part = "second")
           /\ WholeLines(f) \subseteq WholeLines(Append(f, h))
<1> DEFINE g == Append(f, h)
<1>0. Len(f) \in Nat /\ DOMAIN f = 1..Len(f)
  BY Halves
<1>1. g \in Seq(Half) /\ Len(g) = Len(f) + 1 /\ (\A i \in 1..Len(f) : g[i] = f[i]) /\ g[Len(f) + 1] = h
  BY AppendProperties, LenProperties
<1>2. DOMAIN g = 1 .. Len(f) + 1
  BY <1>1, Halves
<1> HIDE DEF g
<1>3. LineEnds(g) = LineEnds(f) \cup (IF h.part = "second" THEN {Len(f) + 1} ELSE {})
  <2>1. \A i \in 1 .. Len(f) + 1 : i \in 1..Len(f) \/ i = Len(f) + 1
    BY <1>0
  <2>2. 1..Len(f) \subseteq 1 .. Len(f) + 1 /\ Len(f) + 1 \in 1 .. Len(f) + 1 /\ Len(f) + 1 \notin 1..Len(f)
    BY <1>0
  <2> QED
    BY <1>0, <1>1, <1>2, <2>1, <2>2 DEF LineEnds
<1>4. \A i \in 1..Len(f) : IsWhole(g, i) <=> IsWhole(f, i)
  <2> SUFFICES ASSUME NEW i \in 1..Len(f) PROVE IsWhole(g, i) <=> IsWhole(f, i)
    OBVIOUS
  <2>1. g[i] = f[i] /\ (i > 1 => g[i - 1] = f[i - 1]) /\ (i > 2 => g[i - 2] = f[i - 2])
    BY <1>0, <1>1
  <2> QED
    BY <1>0, <2>1 DEF IsWhole
<1>5. LineEnds(f) \subseteq 1..Len(f)
  BY Halves
<1>6. WholeLines(f) \subseteq WholeLines(g)
  BY <1>3, <1>4, <1>5 DEF WholeLines
<1>7. \A i \in WholeLines(g) : i \in WholeLines(f) \/ (i = Len(f) + 1 /\ h.part = "second")
  BY <1>3, <1>4, <1>5 DEF WholeLines
<1> QED
  BY <1>1, <1>3, <1>6, <1>7 DEF g

----------------------------------------------------------------------------
(* Types                                                                   *)

LEMMA HalvesOf ==
    ASSUME NEW e \in Event
    PROVE  /\ First(e) \in Half /\ First(e).part = "first" /\ First(e).event = e
           /\ Second(e) \in Half /\ Second(e).part = "second" /\ Second(e).event = e
  BY DEF First, Second, Half

\* Repairing the file gives it its last line's end, and a number to go on with.
LEMMA OpenIs ==
    ASSUME Typed, OpenWriter
    PROVE  /\ file' = SubSeq(file, 1, LastEnd(file)) /\ LastEnd(file) \in 0..Len(file)
           /\ synced' \in 0..LastEnd(file) /\ synced' \in {synced, LastEnd(file)}
           /\ next' \in Nat \ {0} /\ next' <= tried + 1
           /\ \A i \in WholeLines(file) : file[i].event.seq < next'
<1>0. file \in Seq(Half) /\ tried \in Nat /\ Len(file) \in Nat /\ LastEnd(file) \in 0..Len(file) /\ synced \in 0..Len(file)
  BY LastEndIs, Halves, JournalAssumption DEF Typed
<1>1. file' = SubSeq(file, 1, LastEnd(file)) /\ synced' = IF file' = file THEN synced ELSE LastEnd(file)
  BY DEF OpenWriter, Complete
<1>2. synced' \in 0..LastEnd(file) /\ synced' \in {synced, LastEnd(file)}
  <2>1. file' = file => LastEnd(file) = Len(file)
    BY <1>0, <1>1, Cut
  <2> QED
    BY <1>0, <1>1, <2>1
<1> DEFINE S == Seqs(file) \cup {0}
<1>3. \A i \in WholeLines(file) : file[i].event.seq \in S /\ file[i].event.seq \in 0..tried
  <2> SUFFICES ASSUME NEW i \in WholeLines(file) PROVE file[i].event.seq \in S /\ file[i].event.seq \in 0..tried
    OBVIOUS
  <2>1. i \in DOMAIN file /\ file[i] \in Half
    BY <1>0, Halves
  <2> QED
    BY <1>0, <2>1 DEF Seqs, Half, Event, Typed
<1>4. S \subseteq 0..tried /\ S # {}
  BY <1>0, <1>3 DEF Seqs
<1>5. Max(S) \in S /\ \A m \in S : Max(S) >= m
  <2> HIDE DEF S
  <2> QED BY <1>0, <1>4, MaxIsGreatest
<1>6. next' = Max(S) + 1
  BY DEF OpenWriter
<1>7. \A i \in WholeLines(file) : file[i].event.seq <= Max(S)
  BY <1>3, <1>4, <1>5
<1> HIDE DEF S
<1>8. Max(S) \in 0..tried
  BY <1>4, <1>5
<1> QED
  BY <1>0, <1>1, <1>2, <1>3, <1>6, <1>7, <1>8

LEMMA HeadIs ==
    ASSUME Typed, WriteHead
    PROVE  /\ current' \in Event /\ current'.seq = next /\ next <= tried + 1 /\ tried + 1 <= MaxEvents
           /\ file' = Append(file, First(current')) /\ next' = next /\ tried' = tried + 1 /\ tried \in Nat
<1>1. PICK must \in BOOLEAN : /\ current' = [seq |-> next, id |-> tried + 1, must |-> must]
                              /\ file' = Append(file, First(current'))
  BY DEF WriteHead
<1>2. writer = "ready" /\ tried < MaxEvents /\ tried \in 0..MaxEvents /\ next \in Nat \ {0} /\ MaxEvents \in Nat
      /\ next' = next /\ tried' = tried + 1
  BY JournalAssumption DEF Typed, WriteHead
<1>3. next <= tried + 1
  BY <1>2 DEF Typed
<1> QED
  BY <1>1, <1>2, <1>3 DEF Event

LEMMA TypeInit == Init => Typed
<1> SUFFICES ASSUME Init PROVE Typed
  OBVIOUS
<1>1. file = <<>> /\ file \in Seq(Half) /\ Len(file) = 0 /\ DOMAIN file = {}
  BY DEF Init
<1> QED
  BY <1>1, JournalAssumption DEF Init, Typed, NoEvent

LEMMA TypeStep == Typed /\ [Next]_vars => Typed'
<1> SUFFICES ASSUME Typed, [Next]_vars PROVE Typed'
  OBVIOUS
<1>0. /\ file \in Seq(Half) /\ tried \in 0..MaxEvents /\ MaxEvents \in Nat /\ Len(file) \in Nat /\ DOMAIN file = 1..Len(file)
      /\ synced \in 0..Len(file) /\ next \in Nat \ {0} /\ acked \subseteq Event /\ tears \in Nat
      /\ current \in Event \cup {NoEvent} /\ current.seq <= tried
      /\ \A i \in DOMAIN file : file[i].event.seq <= tried
  BY Halves, JournalAssumption DEF Typed
<1>1. CASE OpenWriter
  <2>1. /\ file' = SubSeq(file, 1, LastEnd(file)) /\ LastEnd(file) \in 0..Len(file)
        /\ synced' \in 0..LastEnd(file) /\ next' \in Nat \ {0} /\ next' <= tried + 1
    BY <1>1, OpenIs
  <2>2. /\ file' \in Seq(Half) /\ Len(file') = LastEnd(file) /\ \A i \in 1..LastEnd(file) : file'[i] = file[i]
    BY <1>0, <2>1, Cut
  <2>3. DOMAIN file' = 1..LastEnd(file)
    BY <2>2, Halves
  <2>4. \A i \in DOMAIN file' : file'[i].event.seq <= tried
    BY <1>0, <2>1, <2>2, <2>3
  <2> QED
    BY <1>0, <1>1, <2>1, <2>2, <2>4 DEF OpenWriter, Typed
<1>2. CASE WriteHead
  <2>1. /\ current' \in Event /\ current'.seq = next /\ next <= tried + 1 /\ tried + 1 <= MaxEvents
        /\ file' = Append(file, First(current')) /\ next' = next /\ tried' = tried + 1
    BY <1>2, HeadIs
  <2>2. First(current') \in Half /\ First(current').event = current'
    BY <2>1, HalvesOf
  <2>3. /\ file' \in Seq(Half) /\ Len(file') = Len(file) + 1 /\ file'[Len(file) + 1] = First(current')
        /\ \A i \in 1..Len(file) : file'[i] = file[i]
    BY <1>0, <2>1, <2>2, Added
  <2>4. DOMAIN file' = 1 .. Len(file) + 1
    BY <2>3, Halves
  <2>5. \A i \in DOMAIN file' : file'[i].event.seq <= tried'
    <3> SUFFICES ASSUME NEW i \in DOMAIN file' PROVE file'[i].event.seq <= tried'
      OBVIOUS
    <3>1. CASE i = Len(file) + 1
      BY <1>0, <2>1, <2>2, <2>3, <3>1
    <3>2. CASE i \in 1..Len(file)
      <4>1. file'[i] = file[i] /\ file[i] \in Half
        BY <1>0, <2>3, <3>2, Halves
      <4>2. file[i].event.seq \in Nat /\ file[i].event.seq <= tried
        BY <1>0, <3>2, <4>1 DEF Half, Event
      <4> QED
        BY <1>0, <2>1, <4>1, <4>2
    <3> QED
      BY <1>0, <2>4, <3>1, <3>2
  <2>6. tried' \in 0..MaxEvents /\ synced' \in 0..Len(file')
    BY <1>0, <1>2, <2>1, <2>3 DEF WriteHead
  <2> QED
    BY <1>0, <1>2, <2>1, <2>3, <2>5, <2>6 DEF WriteHead, Typed
<1>3. CASE WriteTail
  <2>1. current \in Event /\ next <= tried
    BY <1>0, <1>3 DEF WriteTail, Typed
  <2>2. Second(current) \in Half /\ Second(current).event = current
    BY <2>1, HalvesOf
  <2>3. /\ file' \in Seq(Half) /\ Len(file') = Len(file) + 1 /\ file'[Len(file) + 1] = Second(current)
        /\ \A i \in 1..Len(file) : file'[i] = file[i]
    BY <1>0, <1>3, <2>2, Added DEF WriteTail
  <2>4. DOMAIN file' = 1 .. Len(file) + 1
    BY <2>3, Halves
  <2>5. \A i \in DOMAIN file' : file'[i].event.seq <= tried
    BY <1>0, <2>2, <2>3, <2>4
  <2> QED
    BY <1>0, <1>3, <2>1, <2>3, <2>5 DEF WriteTail, Typed
<1>4. CASE WriteFails \/ Sync \/ LeaveUnsynced \/ SyncFails \/ WriterDies \/ Following \/ UNCHANGED vars
  <2>1. UNCHANGED <<file, tried, next, current>> /\ synced' \in 0..Len(file) /\ tears' \in Nat
        /\ writer' \in {"closed", "ready", "writing", "written"}
        /\ (writer' = writer \/ writer' \in {"closed", "ready"})
    BY <1>0, <1>4 DEF WriteFails, Sync, LeaveUnsynced, SyncFails, WriterDies, Following, PollStart, ReadChunk, ReadEnd,
       ReadAgain, Emit, fileVars, writerVars, readerVars, vars, Typed
  <2>2. acked' \subseteq Event
    BY <1>0, <1>4 DEF WriteFails, Sync, LeaveUnsynced, SyncFails, WriterDies, Following, PollStart, ReadChunk, ReadEnd,
       ReadAgain, Emit, fileVars, writerVars, readerVars, vars, Typed
  <2>3. next <= tried + 1 /\ (writer = "writing" => next <= tried)
    BY <1>0 DEF Typed
  <2> QED
    BY <1>0, <2>1, <2>2, <2>3 DEF Typed
<1>5. CASE PowerLoss
  <2>1. PICK k \in synced .. Len(file) : file' = SubSeq(file, 1, k) /\ synced' = k
    BY <1>5 DEF PowerLoss
  <2>2. k \in 0..Len(file) /\ file' \in Seq(Half) /\ Len(file') = k /\ \A i \in 1..k : file'[i] = file[i]
    BY <1>0, <2>1, Cut
  <2>3. DOMAIN file' = 1..k
    BY <2>2, Halves
  <2>4. \A i \in DOMAIN file' : file'[i].event.seq <= tried
    BY <1>0, <2>2, <2>3
  <2>5. next <= tried + 1
    BY <1>0 DEF Typed
  <2> QED
    BY <1>0, <1>5, <2>1, <2>2, <2>4, <2>5 DEF PowerLoss, Typed
<1> QED
  BY <1>1, <1>2, <1>3, <1>4, <1>5 DEF Next, Writing

\* The steps that touch neither the file nor the writer's numbers.
Rest == WriteFails \/ Sync \/ LeaveUnsynced \/ SyncFails \/ WriterDies

----------------------------------------------------------------------------
(* The follower                                                            *)

LEMMA ReaderInit == Init => ReaderInv
<1> SUFFICES ASSUME Init PROVE ReaderInv
  OBVIOUS
<1>1. <<>> \in Seq(Half)
  OBVIOUS
<1> QED
  BY <1>1 DEF Init, ReaderInv

LEMMA ReaderStep ==
    ASSUME Typed, ReaderInv, [Next]_vars
    PROVE  ReaderInv'
<1>0. /\ file \in Seq(Half) /\ Len(file) \in Nat /\ DOMAIN file = 1..Len(file) /\ LineEnds(file) \subseteq 1..Len(file)
      /\ buf \in Seq(Half) /\ Len(buf) \in Nat /\ LineEnds(buf) \subseteq 1..Len(buf) /\ DOMAIN buf = 1..Len(buf)
      /\ committed \in 0..Len(file) /\ committed \in Nat
      /\ \A i \in 1..Len(file) : file[i] \in Half
  BY Halves DEF Typed, ReaderInv
<1>1. CASE OpenWriter
  <2>1. file' = SubSeq(file, 1, LastEnd(file)) /\ LastEnd(file) \in 0..Len(file) /\ UNCHANGED <<reader, committed, buf>>
    BY <1>1, OpenIs DEF OpenWriter, readerVars
  <2>2. LineEnds(file') = {i \in LineEnds(file) : i <= LastEnd(file)}
    BY <1>0, <2>1, Cut
  <2>3. LineEnds(file') = LineEnds(file)
    BY <1>0, <2>2, LastEndIs
  <2> QED
    BY <2>1, <2>3 DEF ReaderInv
<1>2. CASE WriteHead \/ WriteTail
  <2>1. \E h \in Half : file' = Append(file, h)
    <3>1. CASE WriteHead
      BY <3>1, HeadIs, HalvesOf
    <3>2. CASE WriteTail
      BY <3>2, HalvesOf DEF WriteTail, Typed
    <3> QED
      BY <1>2, <3>1, <3>2
  <2>2. LineEnds(file) \subseteq LineEnds(file')
    BY <1>0, <2>1, Added
  <2>3. UNCHANGED <<reader, committed, buf>>
    BY <1>2 DEF WriteHead, WriteTail, readerVars
  <2> QED
    BY <2>2, <2>3 DEF ReaderInv
<1>3. CASE Rest \/ UNCHANGED vars
  BY <1>3 DEF Rest, WriteFails, Sync, LeaveUnsynced, SyncFails, WriterDies, fileVars, readerVars, vars, ReaderInv
<1>4. CASE PowerLoss
  <2>1. <<>> \in Seq(Half)
    OBVIOUS
  <2> QED
    BY <1>4, <2>1 DEF PowerLoss, ReaderInv
<1>5. CASE PollStart
  <2>1. Min({committed, Len(file)}) = committed
    BY <1>0, MinOfTwo
  <2>2. committed' = committed /\ reader' = "reading" /\ buf' = <<>> /\ file' = file
    BY <1>5, <2>1 DEF PollStart, fileVars
  <2>3. <<>> \in Seq(Half)
    OBVIOUS
  <2> QED
    BY <2>2, <2>3 DEF ReaderInv
<1>6. CASE ReadChunk
  <2>1. PICK k \in Position + 1 .. Len(file) : buf' = buf \o SubSeq(file, Position + 1, k)
    BY <1>6 DEF ReadChunk
  <2>2. Position \in Nat
    BY <1>0 DEF Position
  <2>3. \A i \in Position + 1 .. k : file[i] \in Half
    BY <1>0, <2>2
  <2>4. SubSeq(file, Position + 1, k) \in Seq(Half)
    BY <2>2, <2>3, SubSeqProperties
  <2>5. buf' \in Seq(Half)
    BY <1>0, <2>1, <2>4, ConcatProperties
  <2> QED
    BY <1>6, <2>5 DEF ReadChunk, ReaderInv, fileVars
<1>7. CASE ReadEnd
  <2>1. buf' = SubSeq(buf, 1, LastEnd(buf)) /\ reader' = (IF buf' = <<>> THEN "idle" ELSE "again")
        /\ UNCHANGED <<committed, file>>
    BY <1>7 DEF ReadEnd, Complete, fileVars
  <2>2. LastEnd(buf) \in 0..Len(buf) /\ LastEnd(buf) \in LineEnds(buf) \cup {0}
    BY <1>0, LastEndIs
  <2>3. buf' \in Seq(Half) /\ Len(buf') = LastEnd(buf) /\ LineEnds(buf') = {i \in LineEnds(buf) : i <= LastEnd(buf)}
    BY <1>0, <2>1, <2>2, Cut
  <2>4. buf' # <<>> => LastEnd(buf) # 0
    BY <2>3, EmptySeq
  <2>5. reader' = "again" => Len(buf') \in LineEnds(buf')
    BY <1>0, <2>1, <2>2, <2>3, <2>4
  <2> QED
    BY <2>1, <2>3, <2>5 DEF ReaderInv
<1>8. CASE ReadAgain
  <2>0. reader = "again" /\ reader' = "idle" /\ buf' = <<>> /\ file' = file /\ <<>> \in Seq(Half)
    BY <1>8 DEF ReadAgain, fileVars
  <2>1. CASE SubSeq(file, committed + 1, Min({Position, Len(file)})) = buf
    <3>1. committed' = Position
      BY <1>8, <2>1 DEF ReadAgain, Emit
    <3>2. Len(buf) \in 1..Len(buf) /\ buf[Len(buf)].part = "second"
      BY <1>0, <2>0 DEF ReaderInv, LineEnds
    <3>3. PICK n \in Nat : n = Min({Position, Len(file)}) /\ n <= Len(file) /\ n <= Position
      BY <1>0, MinOfTwo DEF Position
    <3>4. \A i \in committed + 1 .. n : file[i] \in Half
      BY <1>0, <3>3
    <3>5. /\ Len(SubSeq(file, committed + 1, n)) = (IF committed + 1 <= n THEN n - (committed + 1) + 1 ELSE 0)
          /\ \A i \in 1 .. n - (committed + 1) + 1 : SubSeq(file, committed + 1, n)[i] = file[committed + 1 + i - 1]
      BY <1>0, <3>3, <3>4, SubSeqProperties
    <3>6. Len(buf) = n - committed /\ committed + 1 <= n
      BY <1>0, <2>1, <3>2, <3>3, <3>5
    <3>7. n = Position /\ n \in 1..Len(file)
      BY <1>0, <3>3, <3>6 DEF Position
    <3>8. buf[Len(buf)] = file[n]
      <4>1. Len(buf) \in 1 .. n - (committed + 1) + 1 /\ committed + 1 + Len(buf) - 1 = n
        BY <1>0, <3>2, <3>3, <3>6
      <4> QED
        BY <2>1, <3>3, <3>5, <4>1
    <3>9. Position \in LineEnds(file)
      BY <1>0, <3>2, <3>7, <3>8 DEF LineEnds
    <3> QED
      BY <2>0, <3>1, <3>9 DEF ReaderInv
  <2>2. CASE SubSeq(file, committed + 1, Min({Position, Len(file)})) # buf
    <3>1. committed' = committed
      BY <1>8, <2>2 DEF ReadAgain
    <3> QED
      BY <2>0, <3>1 DEF ReaderInv
  <2> QED
    BY <2>1, <2>2
<1> QED
  BY <1>1, <1>2, <1>3, <1>4, <1>5, <1>6, <1>7, <1>8 DEF Next, Writing, Following, Rest

----------------------------------------------------------------------------
(* Numbers of Events                                                       *)

LEMMA NumberInit == Init => NumberInv
<1> SUFFICES ASSUME Init PROVE NumberInv
  OBVIOUS
<1>1. WholeLines(file) = {}
  BY DEF Init, WholeLines, LineEnds
<1> QED
  BY <1>1 DEF Init, NumberInv, NumbersGrow

LEMMA NumberStep ==
    ASSUME Typed, NumberInv, [Next]_vars
    PROVE  NumberInv'
<1>0. /\ file \in Seq(Half) /\ Len(file) \in Nat /\ WholeLines(file) \subseteq 1..Len(file) /\ next \in Nat
      /\ \A i, j \in WholeLines(file) : i < j => file[i].event.seq < file[j].event.seq
  BY Halves DEF Typed, NumberInv, NumbersGrow
<1>1. CASE OpenWriter
  <2>1. /\ file' = SubSeq(file, 1, LastEnd(file)) /\ LastEnd(file) \in 0..Len(file)
        /\ \A i \in WholeLines(file) : file[i].event.seq < next'
        /\ writer' = "ready"
    BY <1>1, OpenIs DEF OpenWriter
  <2>2. \A i \in WholeLines(file') : i \in WholeLines(file) /\ file'[i] = file[i]
    BY <1>0, <2>1, Cut
  <2> QED
    BY <1>0, <2>1, <2>2 DEF NumberInv, NumbersGrow
<1>2. CASE WriteHead
  <2>1. /\ current' \in Event /\ current'.seq = next /\ file' = Append(file, First(current')) /\ next' = next
        /\ writer = "ready" /\ writer' = "writing"
    BY <1>2, HeadIs DEF WriteHead
  <2>2. \A i \in WholeLines(file') : i \in WholeLines(file) /\ file'[i] = file[i]
    BY <1>0, <2>1, Added, HalvesOf
  <2> QED
    BY <1>0, <2>1, <2>2 DEF NumberInv, NumbersGrow
<1>3. CASE WriteTail
  <2>1. /\ current \in Event /\ current.seq = next /\ file' = Append(file, Second(current)) /\ next' = next + 1
        /\ writer = "writing" /\ writer' = "written"
    BY <1>3 DEF WriteTail, Typed, NumberInv
  <2>2. /\ \A i \in WholeLines(file') : i \in WholeLines(file) \/ i = Len(file) + 1
        /\ \A i \in 1..Len(file) : file'[i] = file[i]
        /\ file'[Len(file) + 1].event = current
    BY <1>0, <2>1, Added, HalvesOf
  <2>3. \A i \in WholeLines(file) : file[i].event.seq < next /\ file[i].event.seq \in Nat
    <3>1. \A i \in WholeLines(file) : file[i] \in Half
      BY <1>0, Halves
    <3>2. \A i \in WholeLines(file) : file[i].event.seq \in Nat
      BY <3>1 DEF Half, Event
    <3> QED
      BY <2>1, <3>2 DEF NumberInv
  <2>4. \A i \in WholeLines(file') : file'[i].event.seq < next'
    BY <1>0, <2>1, <2>2, <2>3
  <2>5. \A i, j \in WholeLines(file') : i < j => file'[i].event.seq < file'[j].event.seq
    BY <1>0, <2>1, <2>2, <2>3
  <2> QED
    BY <2>1, <2>4, <2>5 DEF NumberInv, NumbersGrow
<1>4. CASE Rest \/ Following \/ UNCHANGED vars
  <2>1. UNCHANGED <<file, next, current>> /\ (writer' = writer \/ (writer # "closed" /\ writer' \in {"ready", "closed"}))
    BY <1>4 DEF Rest, WriteFails, Sync, LeaveUnsynced, SyncFails, WriterDies, Following, PollStart, ReadChunk, ReadEnd,
       ReadAgain, Emit, fileVars, writerVars, readerVars, vars
  <2> QED
    BY <2>1 DEF NumberInv, NumbersGrow
<1>5. CASE PowerLoss
  <2>1. PICK k \in synced .. Len(file) : file' = SubSeq(file, 1, k)
    BY <1>5 DEF PowerLoss
  <2>2. k \in 0..Len(file)
    BY <1>0 DEF Typed
  <2>3. \A i \in WholeLines(file') : i \in WholeLines(file) /\ file'[i] = file[i]
    <3>1. WholeLines(file') = {i \in WholeLines(file) : i <= k} /\ \A i \in 1..k : file'[i] = file[i]
      BY <1>0, <2>1, <2>2, Cut
    <3> QED
      BY <1>0, <2>2, <3>1
  <2> QED
    BY <1>0, <1>5, <2>3 DEF NumberInv, NumbersGrow, PowerLoss
<1> QED
  BY <1>1, <1>2, <1>3, <1>4, <1>5 DEF Next, Writing, Rest

----------------------------------------------------------------------------
(* What was synced                                                         *)

LEMMA DurableInit == Init => Durable
<1> SUFFICES ASSUME Init PROVE Durable
  OBVIOUS
<1> QED
  BY DEF Init, Durable, TailInv, KeptInv

LEMMA DurableStep ==
    ASSUME Typed, Durable, [Next]_vars
    PROVE  Durable'
<1> SUFFICES ASSUME tears' = 0 PROVE TailInv' /\ KeptInv'
  BY DEF Durable
<1>0. /\ file \in Seq(Half) /\ Len(file) \in Nat /\ DOMAIN file = 1..Len(file)
      /\ LineEnds(file) \subseteq 1..Len(file) /\ WholeLines(file) \subseteq LineEnds(file) /\ synced \in 0..Len(file)
  BY Halves DEF Typed
<1>1. tears = 0 /\ ~WriteFails
  BY DEF Next, Writing, OpenWriter, WriteHead, WriteTail, WriteFails, Sync, LeaveUnsynced, SyncFails, WriterDies,
     PowerLoss, Following, PollStart, ReadChunk, ReadEnd, ReadAgain, fileVars, vars, Typed
<1>2. TailInv /\ KeptInv
  BY <1>1 DEF Durable
<1>3. CASE OpenWriter
  <2>1. /\ file' = SubSeq(file, 1, LastEnd(file)) /\ LastEnd(file) \in 0..Len(file) /\ acked' = acked /\ writer' = "ready"
        /\ synced' \in {synced, LastEnd(file)} /\ synced' \in 0..LastEnd(file)
    BY <1>3, OpenIs DEF OpenWriter
  <2>2. /\ Len(file') = LastEnd(file) /\ \A i \in 1..LastEnd(file) : file'[i] = file[i]
        /\ LineEnds(file') = {i \in LineEnds(file) : i <= LastEnd(file)}
        /\ WholeLines(file') = {i \in WholeLines(file) : i <= LastEnd(file)}
    BY <1>0, <2>1, Cut
  <2>3. LastEnd(file) \in LineEnds(file) \cup {0} /\ \A i \in LineEnds(file) : i <= LastEnd(file)
    BY <1>0, LastEndIs
  <2>4. TailInv'
    BY <1>0, <2>1, <2>2, <2>3 DEF TailInv
  <2>5. \A i \in WholeLines(file) : i <= synced => i \in WholeLines(file') /\ i <= synced' /\ file'[i] = file[i]
    BY <1>0, <2>1, <2>2, <2>3
  <2> QED
    BY <1>2, <2>1, <2>4, <2>5 DEF KeptInv
<1>4. CASE WriteHead
  <2>1. /\ current' \in Event /\ file' = Append(file, First(current')) /\ acked' = acked /\ synced' = synced
        /\ writer = "ready" /\ writer' = "writing"
    BY <1>4, HeadIs DEF WriteHead
  <2>2. First(current') \in Half
    BY <2>1, HalvesOf
  <2>3. /\ Len(file') = Len(file) + 1 /\ file'[Len(file) + 1] = First(current') /\ LineEnds(file) \subseteq LineEnds(file')
        /\ WholeLines(file) \subseteq WholeLines(file') /\ \A i \in 1..Len(file) : file'[i] = file[i]
    BY <1>0, <2>1, <2>2, Added
  <2>4. TailInv'
    <3>1. Len(file') \in Nat \ {0} /\ Len(file') - 1 = Len(file)
      BY <1>0, <2>3
    <3> QED
      BY <1>2, <2>1, <2>3, <3>1 DEF TailInv
  <2> QED
    BY <1>0, <1>2, <2>1, <2>3, <2>4 DEF KeptInv
<1>5. CASE WriteTail
  <2>1. /\ current \in Event /\ file' = Append(file, Second(current)) /\ acked' = acked /\ synced' = synced
        /\ writer = "writing" /\ writer' = "written" /\ current' = current
    BY <1>5 DEF WriteTail, Typed
  <2>2. Second(current) \in Half /\ Second(current).part = "second" /\ Second(current).event = current
    BY <2>1, HalvesOf
  <2>3. /\ Len(file') = Len(file) + 1 /\ file'[Len(file) + 1] = Second(current)
        /\ LineEnds(file') = LineEnds(file) \cup {Len(file) + 1}
        /\ WholeLines(file) \subseteq WholeLines(file') /\ \A i \in 1..Len(file) : file'[i] = file[i]
    BY <1>0, <2>1, <2>2, Added
  <2>4. /\ Len(file) \in Nat \ {0} /\ file[Len(file)] = First(current)
        /\ Len(file) - 1 \in LineEnds(file) \cup {0}
    BY <1>2, <2>1 DEF TailInv
  <2>5. IsWhole(file', Len(file) + 1)
    <3>1. PICK n \in Nat : n = Len(file) + 1 /\ n > 1 /\ n - 1 = Len(file) /\ n - 2 = Len(file) - 1
      BY <1>0, <2>4
    <3>2. file'[n].event = current /\ file'[n - 1] = First(current)
      BY <2>2, <2>3, <2>4, <3>1
    <3>3. n > 2 => file'[n - 2].part = "second"
      <4> SUFFICES ASSUME n > 2 PROVE file'[n - 2].part = "second"
        OBVIOUS
      <4>1. n - 2 \in LineEnds(file)
        BY <2>4, <3>1
      <4>2. file'[n - 2] = file[n - 2]
        BY <1>0, <2>3, <4>1
      <4> QED
        BY <4>1, <4>2 DEF LineEnds
    <3> QED
      BY <3>1, <3>2, <3>3 DEF IsWhole
  <2>6. TailInv'
    BY <2>1, <2>2, <2>3, <2>5 DEF TailInv, WholeLines
  <2> QED
    BY <1>0, <1>2, <2>1, <2>3, <2>6 DEF KeptInv
<1>6. CASE Sync
  <2>1. /\ writer = "written" /\ writer' = "ready" /\ synced' = Len(file) /\ acked' = acked \cup {current} /\ file' = file
    BY <1>6 DEF Sync
  <2>2. Len(file) \in WholeLines(file) /\ file[Len(file)].event = current
    BY <1>2, <2>1 DEF TailInv
  <2>3. TailInv'
    BY <1>0, <2>1, <2>2 DEF TailInv
  <2>4. \A i \in WholeLines(file) : i <= Len(file)
    BY <1>0
  <2> QED
    BY <1>2, <2>1, <2>2, <2>3, <2>4 DEF KeptInv
<1>7. CASE LeaveUnsynced \/ SyncFails \/ WriterDies
  <2>1. /\ UNCHANGED <<file, synced, current>> /\ (writer' = "closed" \/ (writer = "written" /\ writer' = "ready"))
        /\ (acked' = acked \/ (acked' = acked \cup {current} /\ ~current.must))
    BY <1>7 DEF LeaveUnsynced, SyncFails, WriterDies, fileVars
  <2>2. TailInv'
    BY <1>0, <1>2, <2>1 DEF TailInv
  <2> QED
    BY <1>2, <2>1, <2>2 DEF KeptInv
<1>8. CASE PowerLoss
  <2>1. PICK k \in synced .. Len(file) : file' = SubSeq(file, 1, k) /\ synced' = k
    BY <1>8 DEF PowerLoss
  <2>2. writer' = "closed" /\ acked' = acked
    BY <1>8 DEF PowerLoss
  <2>3. k \in 0..Len(file) /\ synced <= k
    BY <1>0
  <2>4. \A i \in WholeLines(file) : i <= k => i \in WholeLines(file') /\ file'[i] = file[i]
    BY <1>0, <2>1, <2>3, Cut
  <2>5. \A i \in WholeLines(file) : i <= synced => i <= k
    BY <1>0, <2>3
  <2>6. KeptInv'
    <3> SUFFICES ASSUME NEW e \in acked, e.must
                 PROVE  \E i \in WholeLines(file') : i <= k /\ file'[i].event = e
      BY <2>1, <2>2 DEF KeptInv
    <3>1. PICK i \in WholeLines(file) : i <= synced /\ file[i].event = e
      BY <1>2 DEF KeptInv
    <3> QED
      BY <2>4, <2>5, <3>1
  <2> QED
    BY <2>2, <2>6 DEF TailInv
<1>9. CASE Following \/ UNCHANGED vars
  <2>1. UNCHANGED <<file, synced, current, writer, acked>>
    BY <1>9 DEF Following, PollStart, ReadChunk, ReadEnd, ReadAgain, Emit, fileVars, writerVars, readerVars, vars
  <2> QED
    BY <1>2, <2>1 DEF TailInv, KeptInv
<1> QED
  BY <1>1, <1>3, <1>4, <1>5, <1>6, <1>7, <1>8, <1>9 DEF Next, Writing

----------------------------------------------------------------------------
(* The theorems                                                            *)

LEMMA Inductive == Spec => []IInv
<1>1. Init => IInv
  BY TypeInit, ReaderInit, NumberInit, DurableInit DEF IInv
<1>2. IInv /\ [Next]_vars => IInv'
  BY TypeStep, ReaderStep, NumberStep, DurableStep DEF IInv
<1> QED
  BY <1>1, <1>2, PTL DEF Spec

(* THEOREM: both sides' positions stay within the file, and every number   *)
(* within what the writer has tried, however often the file is repaired    *)
(* under the follower (JournalWriter, read_complete_lines).                *)
THEOREM TypeCorrect == Spec => []TypeOK
<1>1. IInv => TypeOK
  <2> SUFFICES ASSUME IInv PROVE TypeOK
    OBVIOUS
  <2>1. file \in Seq(Half) /\ Len(file) \in Nat /\ DOMAIN file = 1..Len(file) /\ LineEnds(file) \subseteq 1..Len(file)
        /\ \A i \in 1..Len(file) : file[i] \in Half
    BY Halves DEF IInv, Typed
  <2>2. \A i \in DOMAIN file : file[i].event \in Event /\ file[i].part \in {"first", "second"}
    BY <2>1 DEF Half
  <2>3. committed \in 0..Len(file) /\ reader \in {"idle", "reading", "again"}
    BY <2>1 DEF IInv, ReaderInv
  <2>4. next \in 1 .. MaxEvents + 1
    BY JournalAssumption DEF IInv, Typed
  <2> QED
    BY <2>2, <2>3, <2>4 DEF IInv, Typed, TypeOK
<1> QED
  BY <1>1, Inductive, PTL

(* THEOREM: the Events that can be read have growing numbers, so a number  *)
(* names one Event of a Run for ever (append, open).                       *)
THEOREM NumbersAreUnique == Spec => []NumbersGrow
<1>1. IInv => NumbersGrow
  BY DEF IInv, NumberInv
<1> QED
  BY <1>1, Inductive, PTL

(* THEOREM: as long as no write fails half way, an Event that must be      *)
(* synced stays once its append has returned Ok, whoever dies and however  *)
(* often the power goes (sync_data, needs_fsync).                          *)
THEOREM SyncedEventsStay == Spec => []AckedSurvives
<1>1. IInv => AckedSurvives
  BY DEF IInv, Durable, KeptInv, AckedSurvives
<1> QED
  BY <1>1, Inductive, PTL

(* THEOREM: events.jsonl keeps what it was given through torn lines,       *)
(* failed calls and power loss: its types, no number used twice, and no    *)
(* synced Event lost (append, open).                                       *)
THEOREM EventsStay == Spec => []EventsAreKept
<1> QED
  BY TypeCorrect, NumbersAreUnique, SyncedEventsStay, PTL DEF EventsAreKept

----------------------------------------------------------------------------
(* What can be read, half by half                                          *)

\* Induction, for the places of a file.
LEMMA Induct ==
    ASSUME NEW T, 0 \in T, \A n \in Nat : n \in T => n + 1 \in T
    PROVE  Nat \subseteq T
<1> SUFFICES ASSUME ~(Nat \subseteq T) PROVE FALSE
  OBVIOUS
<1>1. Nat \ T \subseteq Nat /\ Nat \ T # {}
  OBVIOUS
<1>2. PICK n \in Nat \ T : \A m \in Nat \ T : n <= m
  BY <1>1, LeastExists
<1>3. n # 0 /\ n - 1 \in Nat
  BY <1>2
<1>4. n - 1 \in T
  BY <1>2, <1>3
<1> QED
  BY <1>2, <1>3, <1>4

\* What i halves give, when those before the last give R[i - 1].
Line(f, R, i) ==
    IF i = 0 THEN <<>>
    ELSE IF i \in WholeLines(f) THEN Append(R[i - 1], f[i].event) ELSE R[i - 1]

LEMMA ReadUpToIs ==
    ASSUME NEW f \in Seq(Half)
    PROVE  /\ ReadUpTo(f) \in [0 .. Len(f) -> Seq(Event)]
           /\ ReadUpTo(f)[0] = <<>>
           /\ \A i \in 1 .. Len(f) :
                ReadUpTo(f)[i] = IF i \in WholeLines(f) THEN Append(ReadUpTo(f)[i - 1], f[i].event)
                                 ELSE ReadUpTo(f)[i - 1]
<1>0. Len(f) \in Nat /\ \A i \in 1 .. Len(f) : f[i].event \in Event
  BY Halves DEF Half
<1> DEFINE P(n) == n <= Len(f) =>
                \E h \in [0 .. n -> Seq(Event)] : \A i \in 0 .. n : h[i] = Line(f, h, i)
           T == {n \in Nat : P(n)}
<1>1. P(0)
  <2>1. [i \in 0 .. 0 |-> <<>>] \in [0 .. 0 -> Seq(Event)]
    OBVIOUS
  <2>2. [i \in 0 .. 0 |-> <<>>][0] = <<>> /\ \A i \in 0 .. 0 : i = 0
    OBVIOUS
  <2>3. \A h : Line(f, h, 0) = <<>>
    BY DEF Line
  <2> QED
    BY <2>1, <2>2, <2>3
<1>2. ASSUME NEW n \in Nat, P(n), n + 1 <= Len(f)
      PROVE  \E h \in [0 .. n + 1 -> Seq(Event)] : \A i \in 0 .. n + 1 : h[i] = Line(f, h, i)
  <2>1. PICK h \in [0 .. n -> Seq(Event)] : \A i \in 0 .. n : h[i] = Line(f, h, i)
    BY <1>0, <1>2
  <2> DEFINE g == [i \in 0 .. n + 1 |-> IF i <= n THEN h[i] ELSE Line(f, h, i)]
  <2>2. Line(f, h, n + 1) \in Seq(Event)
    <3>1. f[n + 1].event \in Event /\ h[n] \in Seq(Event)
      BY <1>0, <1>2, <2>1
    <3>2. Append(h[n], f[n + 1].event) \in Seq(Event)
      BY <3>1, AppendProperties
    <3>3. Line(f, h, n + 1) \in {Append(h[n], f[n + 1].event), h[n]}
      BY DEF Line
    <3> QED
      BY <3>1, <3>2, <3>3
  <2>3. g \in [0 .. n + 1 -> Seq(Event)]
    BY <2>2
  <2>4. (\A k \in 0 .. n : g[k] = h[k]) /\ g[n + 1] = Line(f, h, n + 1)
    OBVIOUS
  <2> HIDE DEF g
  <2>5. ASSUME NEW i \in 0 .. n + 1
        PROVE  g[i] = Line(f, g, i)
    <3>1. CASE i = 0
      BY <2>1, <2>4, <3>1 DEF Line
    <3>2. CASE i # 0
      <4>1. i - 1 \in 0 .. n /\ g[i - 1] = h[i - 1]
        BY <2>4, <3>2
      <4>2. Line(f, g, i) = Line(f, h, i)
        BY <4>1 DEF Line
      <4> QED
        BY <2>1, <2>4, <4>2
    <3> QED
      BY <3>1, <3>2
  <2> QED
    BY <2>3, <2>5
<1> HIDE DEF P
<1>3. \A n \in Nat : P(n)
  <2>1. 0 \in T /\ \A n \in Nat : n \in T => n + 1 \in T
    <3>1. ASSUME NEW n \in Nat, P(n)
          PROVE  P(n + 1)
      BY <1>2, <3>1 DEF P
    <3> QED
      BY <1>1, <3>1
  <2> HIDE DEF T
  <2>2. Nat \subseteq T
    BY <2>1, Induct
  <2> QED
    BY <2>2 DEF T
<1>4. PICK h \in [0 .. Len(f) -> Seq(Event)] : \A i \in 0 .. Len(f) : h[i] = Line(f, h, i)
  <2>1. P(Len(f)) /\ Len(f) <= Len(f)
    BY <1>0, <1>3
  <2> QED
    BY <2>1 DEF P
<1>5. h = [i \in 0 .. Len(f) |-> Line(f, h, i)]
  BY <1>4
<1>6. ReadUpTo(f) = CHOOSE R : R = [i \in 0 .. Len(f) |-> Line(f, R, i)]
  BY DEF ReadUpTo, Line
<1>7. ReadUpTo(f) = [i \in 0 .. Len(f) |-> Line(f, ReadUpTo(f), i)]
  BY <1>5, <1>6
<1>8. \A i \in 0 .. Len(f) : ReadUpTo(f)[i] = Line(f, ReadUpTo(f), i)
  BY <1>7
<1>9. ReadUpTo(f)[0] = <<>>
  BY <1>0, <1>8 DEF Line
<1>10. ASSUME NEW i \in 1 .. Len(f)
       PROVE  ReadUpTo(f)[i] = IF i \in WholeLines(f) THEN Append(ReadUpTo(f)[i - 1], f[i].event)
                               ELSE ReadUpTo(f)[i - 1]
  <2>1. i \in 0 .. Len(f) /\ i # 0
    BY <1>0
  <2>2. ReadUpTo(f)[i] = Line(f, ReadUpTo(f), i)
    BY <1>8, <2>1
  <2> QED
    BY <2>1, <2>2 DEF Line
<1>11. \A i \in 0 .. Len(f) : ReadUpTo(f)[i] \in Seq(Event)
  <2> DEFINE Q == {n \in Nat : n <= Len(f) => ReadUpTo(f)[n] \in Seq(Event)}
  <2>1. 0 \in Q
    BY <1>9, EmptySeq
  <2>2. ASSUME NEW n \in Nat, n \in Q
        PROVE  n + 1 \in Q
    <3> SUFFICES ASSUME n + 1 <= Len(f) PROVE ReadUpTo(f)[n + 1] \in Seq(Event)
      OBVIOUS
    <3>1. ReadUpTo(f)[n] \in Seq(Event) /\ f[n + 1].event \in Event /\ n + 1 \in 1 .. Len(f)
      BY <1>0, <2>2
    <3>2. Append(ReadUpTo(f)[n], f[n + 1].event) \in Seq(Event)
      BY <3>1, AppendProperties
    <3>3. ReadUpTo(f)[n + 1] \in {Append(ReadUpTo(f)[n], f[n + 1].event), ReadUpTo(f)[n]}
      <4>1. PICK k \in 1 .. Len(f) : k = n + 1 /\ k - 1 = n
        BY <3>1
      <4> QED
        BY <1>10, <3>1, <4>1
    <3> QED
      BY <3>1, <3>2, <3>3
  <2> HIDE DEF Q
  <2>3. Nat \subseteq Q
    BY <2>1, <2>2, Induct
  <2> QED
    BY <1>0, <2>3 DEF Q
<1>12. ReadUpTo(f) \in [0 .. Len(f) -> Seq(Event)]
  BY <1>7, <1>11
<1> QED
  BY <1>9, <1>10, <1>12

LEMMA AppendConcat ==
    ASSUME NEW s \in Seq(Event), NEW t \in Seq(Event), NEW e \in Event
    PROVE  Append(s \o t, e) = s \o Append(t, e)
<1> DEFINE u == Append(s \o t, e)
           v == s \o Append(t, e)
<1>1. /\ s \o t \in Seq(Event) /\ Len(s \o t) = Len(s) + Len(t) /\ Len(s) \in Nat /\ Len(t) \in Nat
      /\ \A i \in 1 .. Len(s) + Len(t) : (s \o t)[i] = IF i <= Len(s) THEN s[i] ELSE t[i - Len(s)]
  BY ConcatProperties, LenProperties
<1>2. /\ Append(t, e) \in Seq(Event) /\ Len(Append(t, e)) = Len(t) + 1
      /\ \A i \in 1 .. Len(t) : Append(t, e)[i] = t[i]
      /\ Append(t, e)[Len(t) + 1] = e
  BY AppendProperties
<1>3. /\ u \in Seq(Event) /\ Len(u) = Len(s) + Len(t) + 1
      /\ \A i \in 1 .. Len(s) + Len(t) : u[i] = (s \o t)[i]
      /\ u[Len(s) + Len(t) + 1] = e
  BY <1>1, AppendProperties
<1>4. /\ v \in Seq(Event) /\ Len(v) = Len(s) + (Len(t) + 1)
      /\ \A i \in 1 .. Len(s) + (Len(t) + 1) : v[i] = IF i <= Len(s) THEN s[i] ELSE Append(t, e)[i - Len(s)]
  BY <1>2, ConcatProperties
<1> HIDE DEF u, v
<1> DEFINE w == Append(t, e)
           st == s \o t
<1> HIDE DEF w, st
<1>a. PICK m \in Nat, n \in Nat : m = Len(s) /\ n = Len(t)
  BY <1>1
<1>b. /\ \A i \in 1 .. m + n : st[i] = (IF i <= m THEN s[i] ELSE t[i - m]) /\ u[i] = st[i]
      /\ u[m + n + 1] = e /\ Len(u) = m + n + 1
  BY <1>1, <1>3, <1>a DEF st
<1>c. /\ \A i \in 1 .. n : w[i] = t[i]
      /\ w[n + 1] = e /\ Len(v) = m + (n + 1)
      /\ \A i \in 1 .. m + (n + 1) : v[i] = IF i <= m THEN s[i] ELSE w[i - m]
  BY <1>2, <1>4, <1>a DEF w
<1>5. ASSUME NEW i \in 1 .. Len(u)
      PROVE  u[i] = v[i]
  <2>1. i \in 1 .. m + (n + 1)
    BY <1>b
  <2>2. CASE i <= m
    <3>1. i \in 1 .. m + n
      BY <2>1, <2>2
    <3> QED
      BY <1>b, <1>c, <2>1, <2>2, <3>1
  <2>3. CASE i > m /\ i <= m + n
    <3>1. i \in 1 .. m + n /\ i - m \in 1 .. n
      BY <2>1, <2>3
    <3> QED
      BY <1>b, <1>c, <2>1, <2>3, <3>1
  <2>4. CASE i = m + n + 1
    <3>1. PICK k \in Int : k = i - m /\ k = n + 1 /\ ~(i <= m)
      BY <2>4
    <3>2. v[i] = w[k]
      BY <1>c, <2>1, <3>1
    <3> QED
      BY <1>b, <1>c, <2>4, <3>1, <3>2
  <2>5. i <= m \/ (i > m /\ i <= m + n) \/ i = m + n + 1
    BY <2>1
  <2> QED
    BY <2>2, <2>3, <2>4, <2>5
<1>6. Len(u) = Len(v)
  BY <1>1, <1>3, <1>4
<1>7. u = v
  BY <1>3, <1>4, <1>5, <1>6, SeqEqual
<1> QED
  BY <1>7 DEF u, v

\* One more half.
LEMMA NextHalf ==
    ASSUME NEW f \in Seq(Half), NEW n \in Nat, n + 1 <= Len(f)
    PROVE  /\ n + 1 \in 1 .. Len(f) /\ ReadUpTo(f)[n] \in Seq(Event) /\ f[n + 1].event \in Event
           /\ ReadUpTo(f)[n + 1] = IF n + 1 \in WholeLines(f) THEN Append(ReadUpTo(f)[n], f[n + 1].event)
                                   ELSE ReadUpTo(f)[n]
<1>0. Len(f) \in Nat /\ \A i \in 1 .. Len(f) : f[i].event \in Event
  BY Halves DEF Half
<1>1. PICK k \in 1 .. Len(f) : k = n + 1 /\ k - 1 = n
  BY <1>0
<1>2. ReadUpTo(f)[k] = IF k \in WholeLines(f) THEN Append(ReadUpTo(f)[k - 1], f[k].event) ELSE ReadUpTo(f)[k - 1]
  BY ReadUpToIs
<1>3. n \in 0 .. Len(f)
  BY <1>0
<1>4. ReadUpTo(f)[n] \in Seq(Event)
  BY <1>3, ReadUpToIs
<1> QED
  BY <1>0, <1>1, <1>2, <1>4

\* What can be read up to a place depends on nothing behind it.
LEMMA ReadsAlike ==
    ASSUME NEW f \in Seq(Half), NEW g \in Seq(Half), NEW n \in Nat, n <= Len(f), n <= Len(g),
           \A i \in 1 .. n : (i \in WholeLines(f) <=> i \in WholeLines(g)) /\ f[i] = g[i]
    PROVE  \A i \in 0 .. n : ReadUpTo(f)[i] = ReadUpTo(g)[i]
<1>0. Len(f) \in Nat /\ Len(g) \in Nat
  BY Halves
<1> DEFINE Q == {i \in Nat : i <= n => ReadUpTo(f)[i] = ReadUpTo(g)[i]}
<1>1. 0 \in Q
  BY ReadUpToIs
<1>2. ASSUME NEW i \in Nat, i \in Q
      PROVE  i + 1 \in Q
  <2> SUFFICES ASSUME i + 1 <= n PROVE ReadUpTo(f)[i + 1] = ReadUpTo(g)[i + 1]
    OBVIOUS
  <2>1. i + 1 <= Len(f) /\ i + 1 <= Len(g) /\ i + 1 \in 1 .. n /\ ReadUpTo(f)[i] = ReadUpTo(g)[i]
    BY <1>0, <1>2
  <2> QED
    BY <2>1, NextHalf
<1> HIDE DEF Q
<1>3. Nat \subseteq Q
  BY <1>1, <1>2, Induct
<1> QED
  BY <1>3 DEF Q

\* Behind the end of a line, one reads on as in a file of its own.
LEMMA ReadsOn ==
    ASSUME NEW f \in Seq(Half), NEW g \in Seq(Half), NEW c \in Nat, c = 0 \/ c \in LineEnds(f),
           c + Len(g) <= Len(f), \A i \in 1 .. Len(g) : g[i] = f[c + i]
    PROVE  \A i \in 0 .. Len(g) : ReadUpTo(f)[c + i] = ReadUpTo(f)[c] \o ReadUpTo(g)[i]
<1>0. /\ Len(f) \in Nat /\ Len(g) \in Nat /\ DOMAIN f = 1 .. Len(f) /\ DOMAIN g = 1 .. Len(g) /\ c <= Len(f)
      /\ c \in 0 .. Len(f) /\ ReadUpTo(f)[c] \in Seq(Event)
  <2>1. Len(f) \in Nat /\ Len(g) \in Nat /\ DOMAIN f = 1 .. Len(f) /\ DOMAIN g = 1 .. Len(g)
    BY Halves
  <2>2. c \in 0 .. Len(f) /\ c <= Len(f)
    BY <2>1
  <2>3. ReadUpTo(f)[c] \in Seq(Event)
    BY <2>2, ReadUpToIs
  <2> QED
    BY <2>1, <2>2, <2>3
<1>1. ASSUME NEW i \in 1 .. Len(g)
      PROVE  c + i \in WholeLines(f) <=> i \in WholeLines(g)
  <2>1. c + i \in 1 .. Len(f) /\ f[c + i] = g[i]
    BY <1>0
  <2>2. c + i \in LineEnds(f) <=> i \in LineEnds(g)
    BY <1>0, <2>1 DEF LineEnds
  <2>3. CASE i = 1
    <3>1. ~IsWhole(g, i)
      BY <2>3 DEF IsWhole
    <3>2. ~IsWhole(f, c + i)
      <4>1. CASE c = 0
        BY <2>3, <4>1 DEF IsWhole
      <4>2. CASE c # 0
        <5>1. f[c].part = "second" /\ c + i - 1 = c
          BY <2>3, <4>2 DEF LineEnds
        <5>2. First(f[c + i].event).part = "first"
          BY DEF First
        <5>3. f[c + i - 1] # First(f[c + i].event)
          BY <5>1, <5>2
        <5> QED
          BY <5>3 DEF IsWhole
      <4> QED
        BY <4>1, <4>2
    <3> QED
      BY <3>1, <3>2 DEF WholeLines
  <2>4. CASE i = 2
    <3>1. PICK k \in Nat : k = c + i /\ k - 1 = c + 1 /\ k - 2 = c /\ k > 1 /\ (k > 2 <=> c # 0) /\ 1 \in 1 .. Len(g)
      BY <2>4
    <3>2. f[k - 1] = g[1] /\ f[k] = g[2]
      BY <2>1, <2>4, <3>1
    <3>3. k > 2 => f[k - 2].part = "second"
      BY <3>1 DEF LineEnds
    <3>4. IsWhole(g, 2) <=> g[1] = First(g[2].event)
      BY DEF IsWhole
    <3>5. IsWhole(f, k) <=> g[1] = First(g[2].event)
      BY <3>1, <3>2, <3>3 DEF IsWhole
    <3> QED
      BY <2>2, <2>4, <3>1, <3>4, <3>5 DEF WholeLines
  <2>5. CASE i > 2
    <3>1. PICK k \in Nat : k = c + i /\ k - 1 = c + (i - 1) /\ k - 2 = c + (i - 2) /\ k > 2
      BY <2>5
    <3>2. i - 1 \in 1 .. Len(g) /\ i - 2 \in 1 .. Len(g)
      BY <1>0, <2>5
    <3>3. f[k] = g[i] /\ f[k - 1] = g[i - 1] /\ f[k - 2] = g[i - 2]
      BY <2>1, <3>1, <3>2
    <3>4. IsWhole(f, k) <=> IsWhole(g, i)
      BY <2>5, <3>1, <3>3 DEF IsWhole
    <3> QED
      BY <2>2, <3>1, <3>4 DEF WholeLines
  <2> QED
    BY <1>0, <2>3, <2>4, <2>5
<1> DEFINE A(i) == ReadUpTo(f)[c + i] = ReadUpTo(f)[c] \o ReadUpTo(g)[i]
           Q == {i \in Nat : i <= Len(g) => A(i)}
<1>2. A(0)
  <2>1. ReadUpTo(f)[c] \o <<>> = ReadUpTo(f)[c]
    BY <1>0, ConcatEmptySeq
  <2>2. ReadUpTo(g)[0] = <<>> /\ c + 0 = c
    BY ReadUpToIs
  <2> QED
    BY <2>1, <2>2
<1>3. ASSUME NEW i \in Nat, A(i), i + 1 <= Len(g)
      PROVE  A(i + 1)
  <2>1. PICK n \in Nat : n = c + i /\ n + 1 = c + (i + 1) /\ n + 1 <= Len(f) /\ i + 1 \in 1 .. Len(g)
    BY <1>0, <1>3
  <2>2. n + 1 \in WholeLines(f) <=> i + 1 \in WholeLines(g)
    BY <1>1, <2>1
  <2>3. f[n + 1] = g[i + 1]
    <3>1. g[i + 1] = f[c + (i + 1)]
      BY <2>1
    <3> QED
      BY <2>1, <3>1
  <2>4. ReadUpTo(f)[n] = ReadUpTo(f)[c] \o ReadUpTo(g)[i]
    BY <1>3, <2>1
  <2>8. ReadUpTo(g)[i] \in Seq(Event) /\ g[i + 1].event \in Event
    BY <1>0, <1>3, NextHalf
  <2>5. Append(ReadUpTo(f)[c] \o ReadUpTo(g)[i], g[i + 1].event) = ReadUpTo(f)[c] \o Append(ReadUpTo(g)[i], g[i + 1].event)
    <3> DEFINE a == ReadUpTo(f)[c]
               b == ReadUpTo(g)[i]
               x == g[i + 1].event
    <3>1. a \in Seq(Event) /\ b \in Seq(Event) /\ x \in Event
      BY <1>0, <2>8
    <3> HIDE DEF a, b, x
    <3>3. Append(a \o b, x) = a \o Append(b, x)
      BY <3>1, AppendConcat
    <3> QED
      BY <3>3 DEF a, b, x
  <2>6. ReadUpTo(f)[n + 1] = IF n + 1 \in WholeLines(f) THEN Append(ReadUpTo(f)[n], f[n + 1].event) ELSE ReadUpTo(f)[n]
    BY <2>1, NextHalf
  <2>7. ReadUpTo(g)[i + 1] = IF i + 1 \in WholeLines(g) THEN Append(ReadUpTo(g)[i], g[i + 1].event) ELSE ReadUpTo(g)[i]
    BY <1>3, NextHalf
  <2> QED
    BY <2>1, <2>2, <2>3, <2>4, <2>5, <2>6, <2>7
<1> HIDE DEF A
<1>4. 0 \in Q /\ \A i \in Nat : i \in Q => i + 1 \in Q
  <2>1. ASSUME NEW i \in Nat, i \in Q, i + 1 <= Len(g)
        PROVE  A(i + 1)
    <3>1. i <= Len(g)
      BY <1>0, <2>1
    <3> QED
      BY <1>3, <2>1, <3>1
  <2> QED
    BY <1>2, <2>1
<1> HIDE DEF Q
<1>5. Nat \subseteq Q
  BY <1>4, Induct
<1>6. \A i \in 0 .. Len(g) : A(i)
  BY <1>0, <1>5 DEF Q
<1> QED
  BY <1>6 DEF A

LEMMA CutOfAppended ==
    ASSUME NEW s \in Seq(Event), NEW e \in Event, NEW m \in 0 .. Len(s)
    PROVE  m \in 0 .. Len(Append(s, e)) /\ SubSeq(Append(s, e), 1, m) = SubSeq(s, 1, m)
<1> DEFINE u == Append(s, e)
<1>1. /\ Len(s) \in Nat /\ Len(u) = Len(s) + 1 /\ u \in Seq(Event)
      /\ \A i \in 1 .. Len(s) : u[i] = s[i] /\ s[i] \in Event
  BY AppendProperties, LenProperties
<1> HIDE DEF u
<1>2. \A i \in 1 .. m : u[i] = s[i] /\ s[i] \in Event
  BY <1>1
<1>3. /\ SubSeq(s, 1, m) \in Seq(Event) /\ Len(SubSeq(s, 1, m)) = (IF 1 <= m THEN m - 1 + 1 ELSE 0)
      /\ \A i \in 1 .. m - 1 + 1 : SubSeq(s, 1, m)[i] = s[1 + i - 1]
  BY <1>1, <1>2, SubSeqProperties
<1>4. /\ SubSeq(u, 1, m) \in Seq(Event) /\ Len(SubSeq(u, 1, m)) = (IF 1 <= m THEN m - 1 + 1 ELSE 0)
      /\ \A i \in 1 .. m - 1 + 1 : SubSeq(u, 1, m)[i] = u[1 + i - 1]
  BY <1>1, <1>2, SubSeqProperties
<1> DEFINE x == SubSeq(s, 1, m)
           y == SubSeq(u, 1, m)
<1>5. x \in Seq(Event) /\ Len(x) = m /\ \A i \in 1 .. m : x[i] = s[i]
  BY <1>1, <1>3
<1>6. y \in Seq(Event) /\ Len(y) = m /\ \A i \in 1 .. m : y[i] = u[i]
  BY <1>1, <1>4
<1> HIDE DEF x, y
<1>7. Len(x) = Len(y) /\ \A i \in 1 .. Len(x) : x[i] = y[i]
  BY <1>2, <1>5, <1>6
<1>8. x = y
  BY <1>5, <1>6, <1>7, SeqEqual
<1>9. m \in 0 .. Len(u)
  BY <1>1
<1> QED
  BY <1>8, <1>9 DEF u, x, y

\* What can be read up to a place is a beginning of what can be read up to a
\* later one, and the same where no line that can be read ends in between.
LEMMA ReadsMore ==
    ASSUME NEW f \in Seq(Half), NEW i \in Nat, NEW j \in Nat, i <= j, j <= Len(f)
    PROVE  \E m \in 0 .. Len(ReadUpTo(f)[j]) : ReadUpTo(f)[i] = SubSeq(ReadUpTo(f)[j], 1, m)
<1>0. Len(f) \in Nat /\ \A n \in 0 .. Len(f) : ReadUpTo(f)[n] \in Seq(Event)
  BY Halves, ReadUpToIs
<1> DEFINE A(n) == \E m \in 0 .. Len(ReadUpTo(f)[n]) : ReadUpTo(f)[i] = SubSeq(ReadUpTo(f)[n], 1, m)
           Q == {d \in Nat : i + d <= Len(f) => A(i + d)}
<1>1. i <= Len(f) => A(i)
  <2> SUFFICES ASSUME i <= Len(f) PROVE A(i)
    OBVIOUS
  <2>1. ReadUpTo(f)[i] \in Seq(Event)
    BY <1>0
  <2>2. SubSeq(ReadUpTo(f)[i], 1, Len(ReadUpTo(f)[i])) = ReadUpTo(f)[i]
    BY <2>1, SubSeqFull
  <2>3. Len(ReadUpTo(f)[i]) \in 0 .. Len(ReadUpTo(f)[i])
    BY <2>1, LenProperties
  <2> QED
    BY <2>2, <2>3
<1>2. ASSUME NEW n \in Nat, A(n), n + 1 <= Len(f)
      PROVE  A(n + 1)
  <2>1. PICK m \in 0 .. Len(ReadUpTo(f)[n]) : ReadUpTo(f)[i] = SubSeq(ReadUpTo(f)[n], 1, m)
    BY <1>2
  <2>2. /\ ReadUpTo(f)[n] \in Seq(Event) /\ f[n + 1].event \in Event
        /\ ReadUpTo(f)[n + 1] = IF n + 1 \in WholeLines(f) THEN Append(ReadUpTo(f)[n], f[n + 1].event)
                                ELSE ReadUpTo(f)[n]
    BY <1>2, NextHalf
  <2> DEFINE s == ReadUpTo(f)[n]
             e == f[n + 1].event
  <2> HIDE DEF s, e
  <2>3. m \in 0 .. Len(s) /\ m \in 0 .. Len(Append(s, e)) /\ SubSeq(Append(s, e), 1, m) = SubSeq(s, 1, m)
    BY <2>1, <2>2, CutOfAppended DEF s, e
  <2>4. CASE n + 1 \in WholeLines(f)
    <3>1. ReadUpTo(f)[n + 1] = Append(s, e)
      BY <2>2, <2>4 DEF s, e
    <3> QED
      BY <2>1, <2>3, <3>1 DEF s
  <2>5. CASE n + 1 \notin WholeLines(f)
    BY <2>1, <2>2, <2>5
  <2> QED
    BY <2>4, <2>5
<1> HIDE DEF A
<1>3. 0 \in Q /\ \A d \in Nat : d \in Q => d + 1 \in Q
  <2>1. 0 \in Q
    BY <1>1
  <2>2. ASSUME NEW d \in Nat, d \in Q
        PROVE  d + 1 \in Q
    <3> SUFFICES ASSUME i + (d + 1) <= Len(f) PROVE A(i + (d + 1))
      OBVIOUS
    <3>1. PICK n \in Nat : n = i + d /\ n + 1 = i + (d + 1) /\ i + d <= Len(f)
      BY <1>0, <2>2
    <3> QED
      BY <1>2, <2>2, <3>1
  <2> HIDE DEF Q
  <2> QED
    BY <2>1, <2>2
<1> HIDE DEF Q
<1>4. Nat \subseteq Q
  BY <1>3, Induct
<1>5. PICK d \in Nat : j = i + d
  <2>1. j - i \in Nat /\ j = i + (j - i)
    OBVIOUS
  <2> QED
    BY <2>1
<1>6. A(j)
  BY <1>4, <1>5 DEF Q
<1> QED
  BY <1>6 DEF A

LEMMA ReadsNoMore ==
    ASSUME NEW f \in Seq(Half), NEW i \in Nat, i <= Len(f), \A n \in WholeLines(f) : n <= i
    PROVE  ReadUpTo(f)[Len(f)] = ReadUpTo(f)[i]
<1>0. Len(f) \in Nat
  BY Halves
<1> DEFINE Q == {d \in Nat : i + d <= Len(f) => ReadUpTo(f)[i + d] = ReadUpTo(f)[i]}
<1>1. 0 \in Q
  <2>1. i + 0 = i
    OBVIOUS
  <2> QED
    BY <2>1
<1>2. ASSUME NEW d \in Nat, d \in Q
      PROVE  d + 1 \in Q
  <2> SUFFICES ASSUME i + (d + 1) <= Len(f) PROVE ReadUpTo(f)[i + (d + 1)] = ReadUpTo(f)[i]
    OBVIOUS
  <2>1. PICK n \in Nat : n = i + d /\ n + 1 = i + (d + 1) /\ n + 1 <= Len(f) /\ n <= Len(f)
    BY <1>0
  <2>2. n + 1 \notin WholeLines(f)
    <3>1. ~(n + 1 <= i)
      BY <2>1
    <3> QED
      BY <3>1
  <2>3. ReadUpTo(f)[n + 1] = ReadUpTo(f)[n]
    BY <2>1, <2>2, NextHalf
  <2> QED
    BY <1>2, <2>1, <2>3
<1> HIDE DEF Q
<1>3. Nat \subseteq Q
  BY <1>1, <1>2, Induct
<1>4. PICK d \in Nat : Len(f) = i + d
  <2>1. Len(f) - i \in Nat /\ Len(f) = i + (Len(f) - i)
    BY <1>0
  <2> QED
    BY <2>1
<1>5. d \in Q /\ i + d <= Len(f)
  BY <1>0, <1>3, <1>4
<1>6. ReadUpTo(f)[i + d] = ReadUpTo(f)[i]
  BY <1>5 DEF Q
<1> QED
  BY <1>4, <1>6

\* Every Event that can be read is on a line of its own.
LEMMA ReadIsWritten ==
    ASSUME NEW f \in Seq(Half), NEW j \in Nat, j <= Len(f), NEW k \in DOMAIN ReadUpTo(f)[j]
    PROVE  \E i \in WholeLines(f) : ReadUpTo(f)[j][k] = f[i].event
<1>0. Len(f) \in Nat
  BY Halves
<1> DEFINE A(n) == \A l \in DOMAIN ReadUpTo(f)[n] : \E i \in WholeLines(f) : ReadUpTo(f)[n][l] = f[i].event
           Q == {n \in Nat : n <= Len(f) => A(n)}
<1>1. A(0)
  <2>1. DOMAIN ReadUpTo(f)[0] = {}
    BY ReadUpToIs
  <2> QED
    BY <2>1
<1>2. ASSUME NEW n \in Nat, A(n), n + 1 <= Len(f)
      PROVE  A(n + 1)
  <2>1. /\ ReadUpTo(f)[n] \in Seq(Event) /\ f[n + 1].event \in Event
        /\ ReadUpTo(f)[n + 1] = IF n + 1 \in WholeLines(f) THEN Append(ReadUpTo(f)[n], f[n + 1].event)
                                ELSE ReadUpTo(f)[n]
    BY <1>2, NextHalf
  <2>2. CASE n + 1 \in WholeLines(f)
    <3> DEFINE s == ReadUpTo(f)[n]
               e == f[n + 1].event
    <3>1. ReadUpTo(f)[n + 1] = Append(s, e)
      BY <2>1, <2>2
    <3>2. \A l \in DOMAIN s : \E i \in WholeLines(f) : s[l] = f[i].event
      BY <1>2
    <3>3. s \in Seq(Event) /\ e \in Event
      BY <2>1
    <3>5. \E i \in WholeLines(f) : e = f[i].event
      BY <2>2
    <3> HIDE DEF s, e
    <3>4. \A l \in DOMAIN Append(s, e) : (l \in DOMAIN s /\ Append(s, e)[l] = s[l]) \/ Append(s, e)[l] = e
      BY <3>3
    <3>6. \A l \in DOMAIN Append(s, e) : \E i \in WholeLines(f) : Append(s, e)[l] = f[i].event
      BY <3>2, <3>4, <3>5
    <3> QED
      BY <3>1, <3>6
  <2>3. CASE n + 1 \notin WholeLines(f)
    BY <1>2, <2>1, <2>3
  <2> QED
    BY <2>2, <2>3
<1> HIDE DEF A
<1>3. 0 \in Q /\ \A n \in Nat : n \in Q => n + 1 \in Q
  <2>1. ASSUME NEW n \in Nat, n \in Q, n + 1 <= Len(f)
        PROVE  A(n + 1)
    <3>1. n <= Len(f)
      BY <1>0, <2>1
    <3> QED
      BY <1>2, <2>1, <3>1
  <2> QED
    BY <1>1, <2>1
<1> HIDE DEF Q
<1>4. Nat \subseteq Q
  BY <1>3, Induct
<1>5. A(j)
  BY <1>4 DEF Q
<1> QED
  BY <1>5 DEF A

LEMMA CutReads ==
    ASSUME NEW f \in Seq(Half), NEW k \in 0 .. Len(f)
    PROVE  \A i \in 0 .. k : ReadUpTo(SubSeq(f, 1, k))[i] = ReadUpTo(f)[i]
<1> DEFINE g == SubSeq(f, 1, k)
<1>1. Len(f) \in Nat /\ k \in Nat /\ k <= Len(f)
  BY Halves
<1>2. g \in Seq(Half) /\ Len(g) = k /\ \A i \in 1 .. k : g[i] = f[i]
  BY Cut
<1>3. WholeLines(g) = {i \in WholeLines(f) : i <= k}
  BY Cut
<1> HIDE DEF g
<1>4. \A i \in 1 .. k : (i \in WholeLines(g) <=> i \in WholeLines(f)) /\ g[i] = f[i]
  BY <1>2, <1>3
<1>5. \A i \in 0 .. k : ReadUpTo(g)[i] = ReadUpTo(f)[i]
  BY <1>1, <1>2, <1>4, ReadsAlike
<1> QED
  BY <1>5 DEF g

LEMMA AddedReads ==
    ASSUME NEW f \in Seq(Half), NEW h \in Half
    PROVE  /\ \A i \in 0 .. Len(f) : ReadUpTo(Append(f, h))[i] = ReadUpTo(f)[i]
           /\ Readable(f) \in Seq(Event)
           /\ Readable(Append(f, h)) = IF Len(f) + 1 \in WholeLines(Append(f, h)) THEN Append(Readable(f), h.event)
                                       ELSE Readable(f)
<1> DEFINE g == Append(f, h)
           n == Len(f)
<1>1. /\ g \in Seq(Half) /\ Len(g) = n + 1 /\ n \in Nat
      /\ \A i \in 1 .. n : g[i] = f[i]
      /\ g[n + 1] = h
  BY Added, Halves
<1>2. /\ \A i \in WholeLines(g) : i \in WholeLines(f) \/ i = n + 1
      /\ WholeLines(f) \subseteq WholeLines(g)
  BY Added
<1> HIDE DEF g
<1>3. \A i \in 1 .. n : (i \in WholeLines(g) <=> i \in WholeLines(f)) /\ g[i] = f[i]
  BY <1>1, <1>2
<1>4. \A i \in 0 .. n : ReadUpTo(g)[i] = ReadUpTo(f)[i]
  <2>1. n <= Len(g) /\ n <= Len(f)
    BY <1>1
  <2> QED
    BY <1>1, <1>3, <2>1, ReadsAlike
<1>5. ReadUpTo(g)[n + 1] = IF n + 1 \in WholeLines(g) THEN Append(ReadUpTo(g)[n], g[n + 1].event) ELSE ReadUpTo(g)[n]
  <2>1. n + 1 <= Len(g)
    BY <1>1
  <2> QED
    BY <1>1, <2>1, NextHalf
<1>6. ReadUpTo(g)[n] = Readable(f) /\ Readable(f) \in Seq(Event)
  <2>1. n \in 0 .. Len(f)
    BY <1>1
  <2>2. ReadUpTo(f)[n] \in Seq(Event)
    BY <2>1, ReadUpToIs
  <2> QED
    BY <1>4, <2>1, <2>2 DEF Readable
<1>7. Readable(g) = ReadUpTo(g)[n + 1]
  BY <1>1 DEF Readable
<1> QED
  BY <1>1, <1>4, <1>5, <1>6, <1>7 DEF g

\* What the follower has been given is what can be read up to where it stands.
SeenInv == seen = ReadUpTo(file)[committed]

LogVars == <<Readable(file), seen>>

----------------------------------------------------------------------------
(* The steps of the journal are steps of the log                           *)

LEMMA OpeningKeepsTheLog ==
    ASSUME Typed, ReaderInv, SeenInv, OpenWriter
    PROVE  Readable(file') = Readable(file) /\ SeenInv'
<1> DEFINE k == LastEnd(file)
<1>1. /\ file \in Seq(Half) /\ Len(file) \in Nat /\ k \in 0 .. Len(file)
      /\ file' = SubSeq(file, 1, k) /\ UNCHANGED <<committed, seen>>
  BY OpenIs DEF Typed, OpenWriter, readerVars
<1>2. \A i \in LineEnds(file) : i <= k
  BY <1>1, LastEndIs
<1> HIDE DEF k
<1>3. /\ \A i \in 0 .. k : ReadUpTo(file')[i] = ReadUpTo(file)[i]
      /\ Len(file') = k /\ k \in Nat /\ k <= Len(file)
  BY <1>1, CutReads, Cut
<1>4. ReadUpTo(file)[Len(file)] = ReadUpTo(file)[k]
  <2>1. \A n \in WholeLines(file) : n <= k
    BY <1>2 DEF WholeLines
  <2> QED
    BY <1>1, <1>3, <2>1, ReadsNoMore
<1>5. k \in 0 .. k /\ committed \in 0 .. k
  <2>1. LineEnds(file) \subseteq 1 .. Len(file)
    BY <1>1, Halves
  <2> QED
    BY <1>2, <1>3, <2>1 DEF ReaderInv
<1> QED
  BY <1>1, <1>3, <1>4, <1>5 DEF Readable, SeenInv

LEMMA WritingRecords ==
    ASSUME Typed, ReaderInv, NumberInv, SeenInv, WriteHead \/ WriteTail
    PROVE  [Log!Record]_LogVars /\ SeenInv'
<1>1. PICK h \in Half : /\ file' = Append(file, h) /\ UNCHANGED <<committed, seen>>
                        /\ h.part = "second" => WriteTail /\ h.event = current
  <2>1. CASE WriteHead
    <3>1. current' \in Event /\ file' = Append(file, First(current')) /\ UNCHANGED <<committed, seen>>
      BY <2>1, HeadIs DEF WriteHead, readerVars
    <3>2. First(current') \in Half /\ First(current').part = "first"
      BY <3>1, HalvesOf
    <3> QED
      BY <3>1, <3>2
  <2>2. CASE WriteTail
    <3>1. current \in Event /\ file' = Append(file, Second(current)) /\ UNCHANGED <<committed, seen>>
      BY <2>2 DEF WriteTail, readerVars, Typed
    <3>2. Second(current) \in Half /\ Second(current).event = current
      BY <3>1, HalvesOf
    <3> QED
      BY <2>2, <3>1, <3>2
  <2> QED
    BY <2>1, <2>2
<1>2. /\ file \in Seq(Half) /\ Len(file) \in Nat /\ committed \in 0 .. Len(file) /\ LineEnds(file) \subseteq 1 .. Len(file)
      /\ WholeLines(file) \subseteq 1 .. Len(file)
  BY Halves DEF Typed, ReaderInv
<1>3. /\ \A i \in 0 .. Len(file) : ReadUpTo(file')[i] = ReadUpTo(file)[i]
      /\ Readable(file) \in Seq(Event)
      /\ Readable(file') = IF Len(file) + 1 \in WholeLines(file') THEN Append(Readable(file), h.event)
                           ELSE Readable(file)
  BY <1>1, <1>2, AddedReads
<1>4. SeenInv'
  BY <1>1, <1>2, <1>3 DEF SeenInv
<1>5. CASE Len(file) + 1 \notin WholeLines(file')
  BY <1>1, <1>3, <1>4, <1>5 DEF LogVars
<1>6. CASE Len(file) + 1 \in WholeLines(file')
  <2>1. h.part = "second"
    <3>1. Len(file) + 1 \notin WholeLines(file)
      BY <1>2
    <3> QED
      BY <1>1, <1>2, <1>6, <3>1, Added
  <2>2. /\ writer = "writing" /\ current \in Event /\ current.seq = next /\ Readable(file') = Append(Readable(file), current)
    BY <1>1, <1>3, <1>6, <2>1 DEF WriteTail, Typed, NumberInv
  <2>3. \A i \in WholeLines(file) : file[i].event.seq < current.seq
    BY <2>2 DEF NumberInv
  <2>4. \A k \in DOMAIN Readable(file) : Readable(file)[k].seq < current.seq
    BY <1>2, <2>3, ReadIsWritten DEF Readable
  <2>5. Log!Record
    BY <1>1, <2>2, <2>4 DEF Log!Record
  <2> QED
    BY <1>4, <2>5
<1> QED
  BY <1>5, <1>6

LEMMA PowerLossLoses ==
    ASSUME Typed, PowerLoss
    PROVE  Log!Lose /\ SeenInv'
<1>1. PICK k \in synced .. Len(file) : file' = SubSeq(file, 1, k) /\ committed' = 0 /\ seen' = <<>>
  BY DEF PowerLoss
<1>2. file \in Seq(Half) /\ Len(file) \in Nat /\ k \in 0 .. Len(file) /\ k \in Nat /\ k <= Len(file)
  BY Halves DEF Typed
<1>3. Readable(file') = ReadUpTo(file)[k] /\ file' \in Seq(Half)
  <2>1. Len(file') = k /\ k \in 0 .. k /\ file' \in Seq(Half)
    BY <1>1, <1>2, Cut
  <2> QED
    BY <1>1, <1>2, <2>1, CutReads DEF Readable
<1>4. \E m \in 0 .. Len(Readable(file)) : Readable(file') = SubSeq(Readable(file), 1, m)
  <2>1. Len(file) \in Nat /\ Len(file) <= Len(file)
    BY <1>2
  <2>2. \E m \in 0 .. Len(ReadUpTo(file)[Len(file)]) : ReadUpTo(file)[k] = SubSeq(ReadUpTo(file)[Len(file)], 1, m)
    BY <1>2, <2>1, ReadsMore
  <2> QED
    BY <1>3, <2>2 DEF Readable
<1>5. SeenInv'
  BY <1>1, <1>3, ReadUpToIs DEF SeenInv
<1> QED
  BY <1>1, <1>4, <1>5 DEF Log!Lose

LEMMA ReadingDelivers ==
    ASSUME Typed, ReaderInv, SeenInv, ReadAgain
    PROVE  [Log!Deliver]_LogVars /\ SeenInv'
<1>1. /\ file' = file /\ reader = "again"
      /\ \/ UNCHANGED <<committed, seen>>
         \/ /\ SubSeq(file, committed + 1, Min({Position, Len(file)})) = buf
            /\ committed' = Position /\ seen' = seen \o Readable(buf)
  BY DEF ReadAgain, Emit, fileVars
<1>2. /\ file \in Seq(Half) /\ Len(file) \in Nat /\ buf \in Seq(Half) /\ Len(buf) \in Nat
      /\ committed \in Nat /\ committed <= Len(file) /\ Len(buf) \in LineEnds(buf)
      /\ \A i \in 1 .. Len(file) : file[i] \in Half
  <2>1. LineEnds(file) \subseteq 1 .. Len(file) /\ Len(file) \in Nat /\ Len(buf) \in Nat
        /\ \A i \in 1 .. Len(file) : file[i] \in Half
    BY Halves DEF Typed, ReaderInv
  <2> QED
    BY <1>1, <2>1 DEF Typed, ReaderInv
<1>3. CASE UNCHANGED <<committed, seen>>
  BY <1>1, <1>3 DEF SeenInv, LogVars
<1>4. CASE /\ SubSeq(file, committed + 1, Min({Position, Len(file)})) = buf
           /\ committed' = Position /\ seen' = seen \o Readable(buf)
  <2>1. PICK n \in Nat : n = Min({Position, Len(file)}) /\ n <= Len(file) /\ n <= Position
    BY <1>2, MinOfTwo DEF Position
  <2>2. \A i \in committed + 1 .. n : file[i] \in Half
    BY <1>2, <2>1
  <2>3. /\ Len(SubSeq(file, committed + 1, n)) = (IF committed + 1 <= n THEN n - (committed + 1) + 1 ELSE 0)
        /\ \A i \in 1 .. n - (committed + 1) + 1 : SubSeq(file, committed + 1, n)[i] = file[committed + 1 + i - 1]
    BY <1>2, <2>1, <2>2, SubSeqProperties
  <2>4. Len(buf) # 0
    BY <1>2 DEF LineEnds
  <2>5. Len(buf) = n - committed
    BY <1>2, <1>4, <2>1, <2>3, <2>4
  <2>6. \A i \in 1 .. Len(buf) : buf[i] = file[committed + i]
    <3> TAKE i \in 1 .. Len(buf)
    <3>1. i \in 1 .. n - (committed + 1) + 1 /\ committed + 1 + i - 1 = committed + i
      BY <1>2, <2>5
    <3> QED
      BY <1>4, <2>1, <2>3, <3>1
  <2>7. committed + Len(buf) <= Len(file) /\ Len(buf) \in 0 .. Len(buf)
    BY <1>2, <2>1, <2>5
  <2>8. ReadUpTo(file)[committed + Len(buf)] = ReadUpTo(file)[committed] \o ReadUpTo(buf)[Len(buf)]
    BY <1>2, <2>6, <2>7, ReadsOn DEF ReaderInv
  <2>9. SeenInv'
    BY <1>1, <1>4, <2>8 DEF SeenInv, Position, Readable
  <2>10. PICK m \in 0 .. Len(Readable(file)) : seen' = SubSeq(Readable(file), 1, m)
    <3>1. PICK j \in Nat : j = committed + Len(buf) /\ j <= Len(file)
      BY <1>2, <2>7
    <3>2. Len(file) <= Len(file)
      BY <1>2
    <3>3. \E m \in 0 .. Len(ReadUpTo(file)[Len(file)]) : ReadUpTo(file)[j] = SubSeq(ReadUpTo(file)[Len(file)], 1, m)
      BY <1>2, <3>1, <3>2, ReadsMore
    <3>4. seen' = ReadUpTo(file)[j]
      BY <1>1, <1>4, <2>9, <3>1 DEF SeenInv, Position
    <3> QED
      BY <3>3, <3>4 DEF Readable
  <2>11. seen \in Seq(Event) /\ Readable(buf) \in Seq(Event) /\ Readable(file) \in Seq(Event)
    <3>1. committed \in 0 .. Len(file) /\ Len(buf) \in 0 .. Len(buf) /\ Len(file) \in 0 .. Len(file)
      BY <1>2
    <3> QED
      BY <1>2, <3>1, ReadUpToIs DEF SeenInv, Readable
  <2>12. /\ Len(seen') = Len(seen) + Len(Readable(buf)) /\ Len(seen) \in Nat /\ Len(Readable(buf)) \in Nat
         /\ Len(Readable(file)) \in Nat
    BY <1>4, <2>11, ConcatProperties, LenProperties
  <2>13. Len(seen') = m
    <3>1. \A i \in 1 .. m : Readable(file)[i] \in Event
      BY <2>11, <2>12, ElementOfSeq
    <3>2. Len(SubSeq(Readable(file), 1, m)) = IF 1 <= m THEN m - 1 + 1 ELSE 0
      BY <2>12, <3>1, SubSeqProperties
    <3> QED
      BY <2>10, <2>12, <3>2
  <2>14. CASE Readable(buf) = <<>>
    <3>1. seen' = seen
      BY <1>4, <2>11, <2>14, ConcatEmptySeq
    <3> QED
      BY <1>1, <2>9, <3>1 DEF LogVars
  <2>15. CASE Readable(buf) # <<>>
    <3>1. Len(Readable(buf)) # 0
      BY <2>11, <2>15, EmptySeq
    <3>2. m \in Len(seen) + 1 .. Len(Readable(file))
      BY <2>12, <2>13, <3>1
    <3>3. Log!Deliver
      BY <1>1, <2>10, <3>2 DEF Log!Deliver
    <3> QED
      BY <2>9, <3>3
  <2> QED
    BY <2>14, <2>15
<1> QED
  BY <1>1, <1>3, <1>4

LEMMA StepIsAllowed ==
    ASSUME Typed, ReaderInv, NumberInv, SeenInv, [Next]_vars
    PROVE  [Log!Record \/ Log!Deliver \/ Log!Lose]_LogVars /\ SeenInv'
<1>1. CASE OpenWriter
  <2>1. seen' = seen
    BY <1>1 DEF OpenWriter, readerVars
  <2> QED
    BY <1>1, <2>1, OpeningKeepsTheLog DEF LogVars
<1>2. CASE WriteHead \/ WriteTail
  BY <1>2, WritingRecords
<1>3. CASE PowerLoss
  BY <1>3, PowerLossLoses
<1>4. CASE ReadAgain
  BY <1>4, ReadingDelivers
<1>5. CASE PollStart
  <2>1. UNCHANGED <<file, seen>> /\ committed' = Min({committed, Len(file)})
    BY <1>5 DEF PollStart, fileVars
  <2>2. committed \in Nat /\ Len(file) \in Nat /\ committed <= Len(file)
    <3>1. LineEnds(file) \subseteq 1 .. Len(file) /\ Len(file) \in Nat
      BY Halves DEF Typed
    <3> QED
      BY <3>1 DEF ReaderInv
  <2>3. committed' = committed
    BY <2>1, <2>2, MinOfTwo
  <2> QED
    BY <2>1, <2>3 DEF SeenInv, LogVars
<1>6. CASE Rest \/ ReadChunk \/ ReadEnd \/ UNCHANGED vars
  <2>1. UNCHANGED <<file, seen, committed>>
    BY <1>6 DEF Rest, WriteFails, Sync, LeaveUnsynced, SyncFails, WriterDies, ReadChunk, ReadEnd,
       fileVars, writerVars, readerVars, vars
  <2> QED
    BY <2>1 DEF SeenInv, LogVars
<1> QED
  BY <1>1, <1>2, <1>3, <1>4, <1>5, <1>6 DEF Next, Writing, Following, Rest

(* THEOREM: the journal implements the log of EventLog, step by step: what *)
(* a writer does is one Event with a greater number or nothing, a power    *)
(* loss takes a suffix, and what the follower is given is always the       *)
(* beginning of what can be read, however its polls fall between writes,   *)
(* repairs and torn lines (writer.rs open, append; reader.rs tail).        *)
THEOREM JournalIsALog == Spec => Log!Spec
<1>1. Init => Log!Init /\ SeenInv
  <2> SUFFICES ASSUME Init PROVE Log!Init /\ SeenInv
    OBVIOUS
  <2>1. file = <<>> /\ file \in Seq(Half) /\ Len(file) = 0 /\ committed = 0 /\ seen = <<>>
    BY DEF Init
  <2>2. ReadUpTo(file)[0] = <<>>
    BY <2>1, ReadUpToIs
  <2> QED
    BY <2>1, <2>2 DEF Log!Init, SeenInv, Readable
<1>2. IInv /\ SeenInv /\ [Next]_vars => [Log!Record \/ Log!Deliver \/ Log!Lose]_LogVars /\ SeenInv'
  BY StepIsAllowed DEF IInv
<1> QED
  BY <1>1, <1>2, Inductive, PTL DEF Spec, Log!Spec, LogVars

----------------------------------------------------------------------------
(* Who follows the journal for people: the module Monitor, whose constants *)
(* and variables are the ones declared here.                               *)
CONSTANTS None, CrashAfter, NodeTimeout, LoopK, Browser, Capacity, MaxLines, MaxAttempts, MaxFaults, MaxConnects

VARIABLES journal, exists, slot, track, load, client, faults

M == INSTANCE Monitor WITH MaxEvents <- MaxLines

\* A line as the Monitor can meet it.
Entry == [type : {"AttemptStarted", "StageStarted", "AttemptEnded", "Unknown", "Garbled"},
          seq : Nat, attempt : Nat, node : {"n"}, reason : {"completed"}]

\* The lines of j that can be read.
KnownOf(j) == {i \in DOMAIN j : M!Known(j[i])}

\* s holds some of them, in their order and none twice.
OfFile(s, j) ==
    /\ s \in Seq(Entry) /\ M!Growing(s)
    /\ \A k \in DOMAIN s : s[k].seq \in KnownOf(j) /\ s[k] = j[s[k].seq]

Has(s, i) == \E k \in DOMAIN s : s[k].seq = i

Places(j) == j \in Seq(Entry) /\ \A i \in DOMAIN j : j[i].seq = i

LEMMA EntryFields == \A e \in Entry : e.seq \in Nat
  BY DEF Entry

LEMMA NothingOfFile ==
    ASSUME NEW j
    PROVE  OfFile(<<>>, j) /\ \A i : ~Has(<<>>, i)
  BY DEF OfFile, Has, M!Growing

LEMMA EntryAppended ==
    ASSUME NEW s \in Seq(Entry), NEW e \in Entry
    PROVE  /\ Append(s, e) \in Seq(Entry) /\ Append(s, e) # <<>>
           /\ Len(s) \in Nat /\ Len(Append(s, e)) = Len(s) + 1
           /\ DOMAIN s = 1 .. Len(s) /\ DOMAIN Append(s, e) = 1 .. (Len(s) + 1)
           /\ \A k \in DOMAIN s : s[k] \in Entry /\ s[k].seq \in Nat /\ Append(s, e)[k] = s[k]
           /\ Append(s, e)[Len(s) + 1] = e
<1>1. Append(s, e) \in Seq(Entry) /\ Len(s) \in Nat /\ Len(Append(s, e)) = Len(s) + 1
  BY AppendProperties
<1>2. DOMAIN s = 1 .. Len(s) /\ \A k \in DOMAIN s : s[k] \in Entry
  OBVIOUS
<1>3. \A k \in DOMAIN s : s[k].seq \in Nat
  BY <1>2, EntryFields
<1> QED
  BY <1>1, <1>2, <1>3

LEMMA OneMore ==
    ASSUME NEW j, NEW s, OfFile(s, j), NEW e \in Entry, e.seq \in KnownOf(j), e = j[e.seq],
           \A k \in DOMAIN s : s[k].seq < e.seq
    PROVE  /\ OfFile(Append(s, e), j)
           /\ \A i : Has(s, i) => Has(Append(s, e), i)
           /\ Has(Append(s, e), e.seq)
           /\ \A i : Has(Append(s, e), i) => Has(s, i) \/ i = e.seq
<1> DEFINE t == Append(s, e)
<1>1. /\ t \in Seq(Entry) /\ Len(s) \in Nat
      /\ DOMAIN s = 1 .. Len(s) /\ DOMAIN t = 1 .. (Len(s) + 1)
      /\ \A k \in DOMAIN s : s[k].seq \in Nat /\ t[k] = s[k]
      /\ t[Len(s) + 1] = e
  BY EntryAppended DEF OfFile
<1> HIDE DEF t
<1>2. ASSUME NEW k \in DOMAIN t PROVE (k \in DOMAIN s /\ t[k] = s[k]) \/ (k = Len(s) + 1 /\ t[k] = e)
  BY <1>1
<1>3. M!Growing(t)
  <2>1. ASSUME NEW k \in DOMAIN t, NEW l \in DOMAIN t, k < l
        PROVE  t[k].seq < t[l].seq
    <3>1. k \in DOMAIN s /\ t[k] = s[k]
      BY <1>1, <2>1
    <3>2. CASE l \in DOMAIN s
      BY <1>1, <2>1, <3>1, <3>2 DEF OfFile, M!Growing
    <3>3. CASE l = Len(s) + 1
      BY <1>1, <3>1, <3>3
    <3> QED
      BY <1>2, <3>2, <3>3
  <2> QED
    BY <2>1 DEF M!Growing
<1>4. \A k \in DOMAIN t : t[k].seq \in KnownOf(j) /\ t[k] = j[t[k].seq]
  BY <1>2 DEF OfFile
<1>5. OfFile(t, j)
  BY <1>1, <1>3, <1>4 DEF OfFile
<1>6. ASSUME NEW i PROVE (Has(s, i) => Has(t, i)) /\ (Has(t, i) => Has(s, i) \/ i = e.seq)
  <2>1. Has(s, i) => Has(t, i)
    BY <1>1 DEF Has
  <2>2. Has(t, i) => Has(s, i) \/ i = e.seq
    BY <1>2 DEF Has
  <2> QED
    BY <2>1, <2>2
<1>7. Has(t, e.seq)
  BY <1>1 DEF Has
<1> QED
  BY <1>5, <1>6, <1>7 DEF t

LEMMA OneLess ==
    ASSUME NEW j, NEW s, OfFile(s, j), s # <<>>
    PROVE  /\ Head(s) \in Entry /\ Head(s).seq \in KnownOf(j) /\ Head(s) = j[Head(s).seq]
           /\ OfFile(Tail(s), j)
           /\ \A k \in DOMAIN Tail(s) : Head(s).seq < Tail(s)[k].seq /\ Has(s, Tail(s)[k].seq)
           /\ \A i : Has(s, i) => Has(Tail(s), i) \/ i = Head(s).seq
           /\ \A k \in DOMAIN s : Head(s).seq <= s[k].seq
           /\ Len(Tail(s)) <= Len(s)
           /\ Has(s, Head(s).seq)
<1> DEFINE t == Tail(s)
<1>1. /\ s \in Seq(Entry) /\ Len(s) \in Nat /\ Len(s) > 0 /\ DOMAIN s = 1 .. Len(s)
      /\ \A k \in DOMAIN s : s[k] \in Entry /\ s[k].seq \in Nat
  BY EntryFields DEF OfFile
<1>2. /\ t \in Seq(Entry) /\ Len(t) = Len(s) - 1 /\ DOMAIN t = 1 .. (Len(s) - 1)
      /\ \A k \in DOMAIN t : k \in DOMAIN s /\ k + 1 \in DOMAIN s /\ t[k] = s[k + 1]
  BY <1>1
<1>3. Head(s) = s[1] /\ 1 \in DOMAIN s
  BY <1>1
<1> HIDE DEF t
<1>4. M!Growing(t)
  <2>1. ASSUME NEW k \in DOMAIN t, NEW l \in DOMAIN t, k < l
        PROVE  t[k].seq < t[l].seq
    <3>1. k + 1 \in DOMAIN s /\ l + 1 \in DOMAIN s /\ t[k] = s[k + 1] /\ t[l] = s[l + 1]
      BY <1>2
    <3>2. k + 1 < l + 1
      BY <1>2, <2>1
    <3>3. \A a, b \in DOMAIN s : a < b => s[a].seq < s[b].seq
      BY DEF OfFile, M!Growing
    <3> QED
      BY <3>1, <3>2, <3>3
  <2> QED
    BY <2>1 DEF M!Growing
<1>5. \A k \in DOMAIN t : t[k].seq \in KnownOf(j) /\ t[k] = j[t[k].seq]
  BY <1>2 DEF OfFile
<1>6. \A k \in DOMAIN t : s[1].seq < t[k].seq /\ Has(s, t[k].seq)
  <2>1. ASSUME NEW k \in DOMAIN t PROVE s[1].seq < t[k].seq
    <3>1. 1 < k + 1 /\ k + 1 \in DOMAIN s /\ t[k] = s[k + 1]
      BY <1>1, <1>2
    <3> QED
      BY <1>3, <3>1 DEF OfFile, M!Growing
  <2> QED
    BY <1>2, <2>1 DEF Has
<1>7. ASSUME NEW i, Has(s, i) PROVE Has(t, i) \/ i = s[1].seq
  <2>1. PICK k \in DOMAIN s : s[k].seq = i
    BY <1>7 DEF Has
  <2>2. CASE k = 1
    BY <2>1, <2>2
  <2>3. CASE k # 1
    <3>1. k - 1 \in DOMAIN t /\ (k - 1) + 1 = k
      BY <1>1, <1>2, <2>1, <2>3
    <3>2. t[k - 1] = s[k]
      BY <1>2, <3>1
    <3> QED
      BY <2>1, <3>1, <3>2 DEF Has
  <2> QED
    BY <2>2, <2>3
<1>8. \A k \in DOMAIN s : s[1].seq <= s[k].seq
  <2>1. ASSUME NEW k \in DOMAIN s PROVE s[1].seq <= s[k].seq
    <3>1. CASE k = 1
      BY <1>1, <3>1
    <3>2. CASE 1 < k
      BY <1>1, <1>3, <3>2 DEF OfFile, M!Growing
    <3> QED
      BY <1>1, <3>1, <3>2
  <2> QED
    BY <2>1
<1>9. s[1] \in Entry /\ s[1].seq \in KnownOf(j) /\ s[1] = j[s[1].seq] /\ Has(s, s[1].seq)
  BY <1>1, <1>3 DEF OfFile, Has
<1> QED
  BY <1>1, <1>2, <1>3, <1>4, <1>5, <1>6, <1>7, <1>8, <1>9 DEF OfFile, t

LEMMA Joined ==
    ASSUME NEW j, NEW s, NEW t, OfFile(s, j), OfFile(t, j),
           \A k \in DOMAIN s : \A l \in DOMAIN t : s[k].seq < t[l].seq
    PROVE  /\ OfFile(s \o t, j)
           /\ \A i : Has(s \o t, i) <=> Has(s, i) \/ Has(t, i)
           /\ t = <<>> => s \o t = s
           /\ t # <<>> => s \o t # <<>> /\ (s \o t)[Len(s \o t)] = t[Len(t)]
<1> DEFINE u == s \o t
<1>1. /\ u \in Seq(Entry) /\ Len(s) \in Nat /\ Len(t) \in Nat /\ Len(u) = Len(s) + Len(t)
      /\ DOMAIN u = 1 .. (Len(s) + Len(t)) /\ DOMAIN s = 1 .. Len(s) /\ DOMAIN t = 1 .. Len(t)
      /\ \A k \in DOMAIN u : u[k] = IF k <= Len(s) THEN s[k] ELSE t[k - Len(s)]
  BY ConcatProperties DEF OfFile
<1> HIDE DEF u
<1>2. ASSUME NEW k \in DOMAIN u
      PROVE  \/ k \in DOMAIN s /\ u[k] = s[k]
             \/ k - Len(s) \in DOMAIN t /\ u[k] = t[k - Len(s)] /\ k > Len(s)
  BY <1>1
<1>3. ASSUME NEW k \in DOMAIN u, NEW l \in DOMAIN u, k < l
      PROVE  u[k].seq < u[l].seq
  <2>1. \A a, b \in DOMAIN s : a < b => s[a].seq < s[b].seq
    BY DEF OfFile, M!Growing
  <2>2. \A a, b \in DOMAIN t : a < b => t[a].seq < t[b].seq
    BY DEF OfFile, M!Growing
  <2>3. CASE k \in DOMAIN s /\ u[k] = s[k]
    <3>1. CASE l \in DOMAIN s /\ u[l] = s[l]
      BY <1>3, <2>1, <2>3, <3>1
    <3>2. CASE l - Len(s) \in DOMAIN t /\ u[l] = t[l - Len(s)]
      BY <2>3, <3>2
    <3> QED
      BY <1>2, <3>1, <3>2
  <2>4. CASE k - Len(s) \in DOMAIN t /\ u[k] = t[k - Len(s)] /\ k > Len(s)
    <3>1. l - Len(s) \in DOMAIN t /\ u[l] = t[l - Len(s)]
      BY <1>1, <1>2, <1>3, <2>4
    <3>2. k - Len(s) < l - Len(s)
      BY <1>1, <1>3
    <3> QED
      BY <2>2, <2>4, <3>1, <3>2
  <2> QED
    BY <1>2, <2>3, <2>4
<1>4. M!Growing(u)
  BY <1>3 DEF M!Growing
<1>5. \A k \in DOMAIN u : u[k].seq \in KnownOf(j) /\ u[k] = j[u[k].seq]
  BY <1>2 DEF OfFile
<1>6. ASSUME NEW i PROVE Has(u, i) <=> Has(s, i) \/ Has(t, i)
  <2>1. Has(u, i) => Has(s, i) \/ Has(t, i)
    BY <1>2 DEF Has
  <2>2. Has(s, i) => Has(u, i)
    <3>1. \A k \in DOMAIN s : k \in DOMAIN u /\ u[k] = s[k]
      BY <1>1
    <3> QED
      BY <3>1 DEF Has
  <2>3. Has(t, i) => Has(u, i)
    <3>1. ASSUME NEW k \in DOMAIN t PROVE k + Len(s) \in DOMAIN u /\ u[k + Len(s)] = t[k]
      <4>1. k + Len(s) \in DOMAIN u /\ ~(k + Len(s) <= Len(s)) /\ (k + Len(s)) - Len(s) = k
        BY <1>1
      <4> QED
        BY <1>1, <4>1
    <3> QED
      BY <3>1 DEF Has
  <2> QED
    BY <2>1, <2>2, <2>3
<1>7. t = <<>> => u = s
  BY DEF u, OfFile
<1>8. ASSUME t # <<>> PROVE u # <<>> /\ u[Len(u)] = t[Len(t)]
  <2>1. Len(t) > 0
    BY <1>1, <1>8 DEF OfFile
  <2>2. Len(u) \in DOMAIN u /\ ~(Len(u) <= Len(s)) /\ Len(u) - Len(s) = Len(t)
    BY <1>1, <2>1
  <2> QED
    BY <1>1, <2>2
<1> QED
  BY <1>1, <1>4, <1>5, <1>6, <1>7, <1>8 DEF OfFile, u

LEMMA FirstOnes ==
    ASSUME NEW j, NEW s, OfFile(s, j), NEW n \in 0 .. Len(s)
    PROVE  /\ OfFile(SubSeq(s, 1, n), j)
           /\ Len(SubSeq(s, 1, n)) = n /\ DOMAIN SubSeq(s, 1, n) = 1 .. n
           /\ \A k \in 1 .. n : k \in DOMAIN s /\ SubSeq(s, 1, n)[k] = s[k]
<1> DEFINE t == SubSeq(s, 1, n)
<1>1. s \in Seq(Entry) /\ Len(s) \in Nat /\ DOMAIN s = 1 .. Len(s)
  BY DEF OfFile
<1>2. t \in Seq(Entry) /\ Len(t) = n /\ DOMAIN t = 1 .. n
  BY <1>1, SubSeqProperties
<1>3. \A k \in 1 .. n : k \in DOMAIN s /\ t[k] = s[k]
  BY <1>1, SubSeqProperties
<1> HIDE DEF t
<1>4. M!Growing(t)
  <2>1. \A a, b \in DOMAIN s : a < b => s[a].seq < s[b].seq
    BY DEF OfFile, M!Growing
  <2> QED
    BY <1>2, <1>3, <2>1 DEF M!Growing
<1>5. \A k \in DOMAIN t : t[k].seq \in KnownOf(j) /\ t[k] = j[t[k].seq]
  BY <1>2, <1>3 DEF OfFile
<1> QED
  BY <1>2, <1>3, <1>4, <1>5 DEF OfFile, t

\* A line more in the file changes nothing about the ones that are there.
LEMMA FileGrows ==
    ASSUME NEW j, Places(j), NEW e \in Entry, e.seq = Len(j) + 1, NEW n, n = Append(j, e)
    PROVE  /\ Places(n) /\ Len(n) = Len(j) + 1 /\ Len(j) \in Nat
           /\ KnownOf(j) \subseteq KnownOf(n) /\ KnownOf(j) \subseteq 1 .. Len(j)
           /\ \A i \in KnownOf(n) : i \in KnownOf(j) \/ i = Len(j) + 1
           /\ \A i \in DOMAIN j : n[i] = j[i]
           /\ \A s : OfFile(s, j) => OfFile(s, n)
<1>1. /\ n \in Seq(Entry) /\ Len(j) \in Nat /\ Len(n) = Len(j) + 1
      /\ DOMAIN j = 1 .. Len(j) /\ DOMAIN n = 1 .. (Len(j) + 1)
      /\ \A k \in DOMAIN j : n[k] = j[k]
      /\ n[Len(j) + 1] = e
  BY EntryAppended DEF Places
<1>2. \A k \in DOMAIN n : k \in DOMAIN j \/ k = Len(j) + 1
  BY <1>1
<1>3. Places(n)
  BY <1>1, <1>2 DEF Places
<1>4. KnownOf(j) \subseteq KnownOf(n) /\ \A i \in KnownOf(j) : n[i] = j[i]
  BY <1>1 DEF KnownOf
<1>5. \A i \in KnownOf(n) : i \in KnownOf(j) \/ i = Len(j) + 1
  BY <1>1, <1>2 DEF KnownOf
<1>6. \A s : OfFile(s, j) => OfFile(s, n)
  BY <1>4 DEF OfFile
<1> QED
  BY <1>1, <1>3, <1>4, <1>5, <1>6 DEF KnownOf

\* Whatever lines are picked, InOrder brings them into the order of the file.
LEMMA OrderExists ==
    ASSUME NEW n \in Nat, NEW S, S \subseteq 1 .. n
    PROVE  /\ IsFiniteSet(S) /\ Cardinality(S) \in Nat
           /\ \E s \in [1 .. Cardinality(S) -> S] :
                \A i, k \in DOMAIN s : i < k => s[i] < s[k]
<1> DEFINE Ordered(T) == \E s \in [1 .. Cardinality(T) -> T] : \A i, k \in DOMAIN s : i < k => s[i] < s[k]
           Q == {m \in Nat : \A T \in SUBSET (1 .. m) : Ordered(T)}
<1>0. \A m \in Nat : \A T \in SUBSET (1 .. m) : IsFiniteSet(T) /\ Cardinality(T) \in Nat
  <2>1. ASSUME NEW m \in Nat, NEW T \in SUBSET (1 .. m) PROVE IsFiniteSet(T) /\ Cardinality(T) \in Nat
    <3>1. IsFiniteSet(1 .. m)
      BY FS_Interval
    <3>2. IsFiniteSet(T)
      BY <3>1, FS_Subset
    <3> QED
      BY <3>2, FS_CardinalityType
  <2> QED
    BY <2>1
<1>1. 0 \in Q
  <2>1. ASSUME NEW T \in SUBSET (1 .. 0) PROVE Ordered(T)
    <3>1. T = {}
      BY <2>1
    <3>2. Cardinality(T) = 0 /\ 1 .. 0 = {}
      BY <3>1, FS_EmptySet
    <3>3. [i \in 1 .. 0 |-> i] \in [1 .. Cardinality(T) -> T]
      BY <3>2
    <3>4. \A i \in DOMAIN [x \in 1 .. 0 |-> x] : FALSE
      BY <3>2
    <3> QED
      BY <3>3, <3>4
  <2> QED
    BY <2>1
<1>2. ASSUME NEW m \in Nat, m \in Q PROVE m + 1 \in Q
  <2>1. ASSUME NEW T \in SUBSET (1 .. (m + 1)) PROVE Ordered(T)
    <3> DEFINE U == T \ {m + 1}
    <3>1. U \in SUBSET (1 .. m)
      OBVIOUS
    <3>2. CASE m + 1 \notin T
      BY <1>2, <3>1, <3>2
    <3>3. CASE m + 1 \in T
      <4>1. IsFiniteSet(U) /\ Cardinality(U) \in Nat
        BY <1>0, <3>1
      <4>2. T = U \cup {m + 1} /\ m + 1 \notin U
        BY <3>3
      <4>3. Cardinality(T) = Cardinality(U) + 1
        BY <4>1, <4>2, FS_AddElement
      <4>4. PICK c \in Nat : c = Cardinality(U) /\ Cardinality(T) = c + 1
        BY <4>1, <4>3
      <4>5. PICK s \in [1 .. c -> U] : \A i, k \in DOMAIN s : i < k => s[i] < s[k]
        <5>1. Ordered(U)
          BY <1>2, <3>1
        <5> QED
          BY <4>4, <5>1
      <4> HIDE DEF U
      <4> DEFINE t == [i \in 1 .. (c + 1) |-> IF i <= c THEN s[i] ELSE m + 1]
      <4>6. t \in [1 .. (c + 1) -> T]
        BY <4>2
      <4>7. \A i, k \in 1 .. (c + 1) : i < k => t[i] < t[k]
        <5>1. ASSUME NEW i \in 1 .. (c + 1), NEW k \in 1 .. (c + 1), i < k PROVE t[i] < t[k]
          <6>1. i \in 1 .. c /\ t[i] = s[i] /\ s[i] \in U
            BY <5>1
          <6>2. CASE k <= c
            <7>1. k \in 1 .. c /\ t[k] = s[k]
              BY <6>2
            <7> QED
              BY <4>5, <5>1, <6>1, <7>1
          <6>3. CASE k = c + 1
            <7>0. t[k] = m + 1
              BY <4>4, <6>3
            <7>1. t[k] = m + 1 /\ s[i] \in 1 .. m
              BY <3>1, <6>1, <7>0
            <7> QED
              BY <6>1, <7>1
          <6> QED
            BY <6>2, <6>3
        <5> QED
          BY <5>1
      <4> HIDE DEF t
      <4> QED
        BY <4>4, <4>6, <4>7
    <3> QED
      BY <3>2, <3>3
  <2> HIDE DEF Ordered
  <2> QED
    BY <2>1
<1> HIDE DEF Q, Ordered
<1>3. Nat \subseteq Q
  BY <1>1, <1>2, Induct
<1>4. Ordered(S)
  BY <1>3 DEF Q
<1> QED
  BY <1>0, <1>4 DEF Ordered

LEMMA SameCount == \A S : M!Cardinality(S) = Cardinality(S)
  BY DEF M!Cardinality, Cardinality

LEMMA LinesAre ==
    ASSUME Places(journal), NEW S, S \subseteq KnownOf(journal)
    PROVE  /\ OfFile(M!Lines(S), journal)
           /\ \A i : Has(M!Lines(S), i) <=> i \in S
<1> DEFINE c == Cardinality(S)
           p == M!InOrder(S)
           t == M!Lines(S)
<1>1. S \subseteq 1 .. Len(journal) /\ Len(journal) \in Nat /\ S \subseteq DOMAIN journal
  BY DEF KnownOf, Places
<1>2. /\ IsFiniteSet(S) /\ c \in Nat
      /\ \E s \in [1 .. c -> S] : \A i, k \in DOMAIN s : i < k => s[i] < s[k]
  BY <1>1, OrderExists
<1>3. p \in [1 .. c -> S] /\ \A i, k \in DOMAIN p : i < k => p[i] < p[k]
  BY <1>2, SameCount DEF M!InOrder
<1>4. t = [k \in 1 .. c |-> journal[p[k]]]
  BY SameCount DEF M!Lines
<1>5. \A i \in DOMAIN journal : journal[i] \in Entry /\ journal[i].seq = i
  BY DEF Places
<1> HIDE DEF p, t, c
<1>6. \A k \in 1 .. c : p[k] \in S /\ t[k] = journal[p[k]] /\ t[k] \in Entry /\ t[k].seq = p[k]
  BY <1>1, <1>3, <1>4, <1>5
<1>7. t \in Seq(Entry) /\ DOMAIN t = 1 .. c
  BY <1>2, <1>4, <1>6
<1>8. M!Growing(t)
  BY <1>3, <1>6, <1>7 DEF M!Growing
<1>9. OfFile(t, journal)
  BY <1>6, <1>7, <1>8 DEF OfFile
<1>10. ASSUME NEW i \in S PROVE \E k \in 1 .. c : p[k] = i
  <2>1. IsFiniteSet(1 .. c) /\ Cardinality(1 .. c) = c
    BY <1>2, FS_Interval
  <2>2. \A a, b \in 1 .. c : p[a] = p[b] => a = b
    <3>1. ASSUME NEW a \in 1 .. c, NEW b \in 1 .. c, p[a] = p[b], a # b PROVE FALSE
      <4>1. p[a] \in Nat /\ p[b] \in Nat /\ DOMAIN p = 1 .. c /\ a \in Int /\ b \in Int
        BY <1>1, <1>2, <1>3
      <4>2. a < b \/ b < a
        BY <3>1, <4>1
      <4>3. p[a] < p[b] \/ p[b] < p[a]
        BY <1>3, <4>1, <4>2
      <4> QED
        BY <3>1, <4>1, <4>3
    <3> QED
      BY <3>1
  <2>3. p \in Injection(1 .. c, S)
    BY <1>3, <2>2 DEF Injection, IsInjective
  <2>4. p \in Surjection(1 .. c, S)
    BY <1>2, <2>1, <2>3, FS_Injection DEF c
  <2> QED
    BY <2>4 DEF Surjection
<1>11. ASSUME NEW i PROVE Has(t, i) <=> i \in S
  BY <1>6, <1>7, <1>10 DEF Has
<1> QED
  BY <1>9, <1>11 DEF t

(* What the view is after the first n lines.                               *)
Folded(f, F, n) ==
    IF n = 0 THEN M!EmptyView
    ELSE IF M!Known(f[n]) THEN M!Apply(F[n - 1], f[n]) ELSE F[n - 1]

LEMMA FoldIs ==
    ASSUME NEW f \in Seq(Entry)
    PROVE  /\ M!FoldUpTo(f)[0] = M!EmptyView
           /\ \A n \in 1 .. Len(f) :
                M!FoldUpTo(f)[n] = IF M!Known(f[n]) THEN M!Apply(M!FoldUpTo(f)[n - 1], f[n])
                                   ELSE M!FoldUpTo(f)[n - 1]
<1>0. Len(f) \in Nat
  OBVIOUS
<1> DEFINE P(n) == \E h : h = [i \in 0 .. n |-> Folded(f, h, i)]
           T == {n \in Nat : P(n)}
<1>1. P(0)
  <2> DEFINE h == [i \in 0 .. 0 |-> M!EmptyView]
  <2>1. \A i \in 0 .. 0 : Folded(f, h, i) = M!EmptyView
    BY DEF Folded
  <2>2. h = [i \in 0 .. 0 |-> Folded(f, h, i)]
    BY <2>1
  <2> QED
    BY <2>2
<1>2. ASSUME NEW n \in Nat, P(n) PROVE P(n + 1)
  <2>1. PICK h : h = [i \in 0 .. n |-> Folded(f, h, i)]
    BY <1>2
  <2> DEFINE g == [i \in 0 .. n + 1 |-> IF i <= n THEN h[i] ELSE Folded(f, h, i)]
  <2>2. (\A k \in 0 .. n : g[k] = h[k]) /\ g[n + 1] = Folded(f, h, n + 1)
    OBVIOUS
  <2>3. g = [i \in 0 .. n + 1 |-> g[i]]
    OBVIOUS
  <2> HIDE DEF g
  <2>4. ASSUME NEW i \in 0 .. n + 1
        PROVE  g[i] = Folded(f, g, i)
    <3>0. \A k \in 0 .. n : h[k] = Folded(f, h, k)
      BY <2>1
    <3>1. CASE i = 0
      <4>1. Folded(f, g, i) = Folded(f, h, i)
        BY <3>1 DEF Folded
      <4> QED
        BY <2>2, <3>0, <3>1, <4>1
    <3>2. CASE i # 0
      <4>1. i - 1 \in 0 .. n /\ g[i - 1] = h[i - 1]
        BY <2>2, <3>2
      <4>2. Folded(f, g, i) = Folded(f, h, i)
        BY <4>1 DEF Folded
      <4>3. i \in 0 .. n \/ i = n + 1
        OBVIOUS
      <4> QED
        BY <2>2, <3>0, <4>2, <4>3
    <3> QED
      BY <3>1, <3>2
  <2>5. g = [i \in 0 .. n + 1 |-> Folded(f, g, i)]
    BY <2>3, <2>4
  <2> QED
    BY <2>5
<1> HIDE DEF P
<1>3. P(Len(f))
  <2>1. 0 \in T /\ \A n \in Nat : n \in T => n + 1 \in T
    BY <1>1, <1>2
  <2> HIDE DEF T
  <2>2. Nat \subseteq T
    BY <2>1, Induct
  <2> QED
    BY <1>0, <2>2 DEF T
<1>4. M!FoldUpTo(f) = CHOOSE F : F = [n \in 0 .. Len(f) |-> Folded(f, F, n)]
  BY DEF M!FoldUpTo, Folded
<1>5. M!FoldUpTo(f) = [n \in 0 .. Len(f) |-> Folded(f, M!FoldUpTo(f), n)]
  BY <1>3, <1>4 DEF P
<1>6. \A n \in 0 .. Len(f) : M!FoldUpTo(f)[n] = Folded(f, M!FoldUpTo(f), n)
  BY <1>5
<1>7. M!FoldUpTo(f)[0] = M!EmptyView
  BY <1>0, <1>6 DEF Folded
<1>8. ASSUME NEW n \in 1 .. Len(f)
      PROVE  M!FoldUpTo(f)[n] = IF M!Known(f[n]) THEN M!Apply(M!FoldUpTo(f)[n - 1], f[n])
                                ELSE M!FoldUpTo(f)[n - 1]
  <2>1. n \in 0 .. Len(f) /\ n # 0
    BY <1>0
  <2> QED
    BY <1>6, <2>1 DEF Folded
<1> QED
  BY <1>7, <1>8

LEMMA FoldGrows ==
    ASSUME NEW f \in Seq(Entry), NEW e \in Entry, NEW g, g = Append(f, e), NEW n \in 0 .. Len(f)
    PROVE  M!FoldUpTo(g)[n] = M!FoldUpTo(f)[n]
<1>1. /\ g \in Seq(Entry) /\ Len(f) \in Nat /\ Len(g) = Len(f) + 1
      /\ \A k \in 1 .. Len(f) : g[k] = f[k]
  BY EntryAppended
<1> DEFINE Q == {m \in Nat : m <= Len(f) => M!FoldUpTo(g)[m] = M!FoldUpTo(f)[m]}
<1>2. 0 \in Q
  BY <1>1, FoldIs
<1>3. ASSUME NEW m \in Nat, m \in Q PROVE m + 1 \in Q
  <2> SUFFICES ASSUME m + 1 <= Len(f) PROVE M!FoldUpTo(g)[m + 1] = M!FoldUpTo(f)[m + 1]
    OBVIOUS
  <2>1. PICK k \in Nat : k = m + 1 /\ k \in 1 .. Len(f) /\ k \in 1 .. Len(g) /\ k - 1 = m /\ m <= Len(f)
    BY <1>1
  <2>2. g[k] = f[k] /\ M!FoldUpTo(g)[m] = M!FoldUpTo(f)[m]
    BY <1>1, <1>3, <2>1
  <2>3. M!FoldUpTo(f)[k] = IF M!Known(f[k]) THEN M!Apply(M!FoldUpTo(f)[k - 1], f[k])
                           ELSE M!FoldUpTo(f)[k - 1]
    BY <2>1, FoldIs
  <2>4. M!FoldUpTo(g)[k] = IF M!Known(g[k]) THEN M!Apply(M!FoldUpTo(g)[k - 1], g[k])
                           ELSE M!FoldUpTo(g)[k - 1]
    BY <1>1, <2>1, FoldIs
  <2> QED
    BY <2>1, <2>2, <2>3, <2>4
<1> HIDE DEF Q
<1>4. Nat \subseteq Q
  BY <1>2, <1>3, Induct
<1> QED
  BY <1>1, <1>4 DEF Q

\* Lines nobody knows do not change the view.
LEMMA FoldSkips ==
    ASSUME NEW f \in Seq(Entry), NEW m \in Nat, NEW n \in Nat, m <= n, n <= Len(f),
           \A i \in KnownOf(f) : ~(m < i /\ i <= n)
    PROVE  M!FoldUpTo(f)[n] = M!FoldUpTo(f)[m]
<1>0. Len(f) \in Nat /\ DOMAIN f = 1 .. Len(f)
  OBVIOUS
<1> DEFINE Q == {d \in Nat : m + d <= n => M!FoldUpTo(f)[m + d] = M!FoldUpTo(f)[m]}
<1>1. 0 \in Q
  <2>1. m + 0 = m
    OBVIOUS
  <2> QED
    BY <2>1
<1>2. ASSUME NEW d \in Nat, d \in Q PROVE d + 1 \in Q
  <2> SUFFICES ASSUME m + (d + 1) <= n PROVE M!FoldUpTo(f)[m + (d + 1)] = M!FoldUpTo(f)[m]
    OBVIOUS
  <2>1. PICK k \in Nat : /\ k = m + (d + 1) /\ k \in 1 .. Len(f) /\ k - 1 = m + d
                         /\ m < k /\ k <= n /\ m + d <= n
    BY <1>0
  <2>2. ~M!Known(f[k])
    BY <1>0, <2>1 DEF KnownOf
  <2>3. M!FoldUpTo(f)[k] = M!FoldUpTo(f)[k - 1]
    BY <2>1, <2>2, FoldIs
  <2> QED
    BY <1>2, <2>1, <2>3
<1> HIDE DEF Q
<1>3. Nat \subseteq Q
  BY <1>1, <1>2, Induct
<1>4. PICK d \in Nat : n = m + d
  <2>1. n - m \in Nat /\ n = m + (n - m)
    OBVIOUS
  <2> QED
    BY <2>1
<1>5. d \in Q /\ m + d <= n
  BY <1>3, <1>4
<1> QED
  BY <1>4, <1>5 DEF Q

\* Whatever an Event does to the view, its number is the last one then.
LEMMA ApplyIs ==
    ASSUME NEW v, "last" \in DOMAIN v, v.last \in Nat,
           NEW e \in Entry, M!Known(e), v.last < e.seq
    PROVE  "last" \in DOMAIN M!Apply(v, e) /\ M!Apply(v, e).last = e.seq
<1> DEFINE t == M!Touched(v, e)
           u == M!Effect(t, e)
<1>1. e.type \in {"AttemptStarted", "StageStarted", "AttemptEnded"} /\ e.seq \in Nat
  BY DEF Entry, M!Known
<1>2. "last" \in DOMAIN t /\ t.last = e.seq
  BY <1>1 DEF M!Touched, M!Greater
<1> HIDE DEF t
<1>3. "last" \in DOMAIN u /\ u.last = e.seq
  <2>1. CASE e.type = "AttemptStarted"
    BY <1>2, <2>1 DEF M!Effect
  <2>2. CASE e.type = "StageStarted"
    <3>1. u = M!Started(t, e.node)
      BY <2>2 DEF M!Effect
    <3> QED
      BY <1>2, <3>1 DEF M!Started
  <2>3. CASE e.type = "AttemptEnded"
    <3>1. u = M!AttemptIsOver(t, e)
      BY <2>3 DEF M!Effect
    <3> QED
      BY <1>2, <3>1 DEF M!AttemptIsOver
  <2> QED
    BY <1>1, <2>1, <2>2, <2>3
<1> HIDE DEF u
<1>4. "last" \in DOMAIN M!Restated(u) /\ M!Restated(u).last = e.seq
  BY <1>3 DEF M!Restated
<1>5. M!Apply(v, e) = M!Restated(u)
  BY <1>1 DEF M!Apply, u, t
<1> QED
  BY <1>4, <1>5

----------------------------------------------------------------------------
(* What a browser has, and what is on its way to it, when the file is j    *)
(* and the view has come to line v.                                        *)
Client == [pc : {"off", "read", "project", "recv"}, queue : Seq(Entry), lagged : BOOLEAN, last : Nat,
           got : Seq(Entry), proj : Nat, gap : BOOLEAN, connects : Nat]

Queued(c, j, v) == OfFile(c.queue, j) /\ \A k \in DOMAIN c.queue : c.queue[k].seq <= v

Got(c, j) ==
    /\ OfFile(c.got, j)
    /\ ~c.gap => \A i \in KnownOf(j) : i <= M!LastGot(c) => Has(c.got, i)

CursorIsLast(c) == c.pc # "off" => c.last = M!LastGot(c)

Coming(c, j, v) ==
    c.pc \in {"project", "recv"} /\ ~c.lagged /\ ~c.gap =>
       \A i \in KnownOf(j) : c.last < i /\ i <= v => Has(c.queue, i)

Told(c, j, v) == Queued(c, j, v) /\ Got(c, j) /\ CursorIsLast(c) /\ Coming(c, j, v)

LEMMA LastGotIs ==
    ASSUME NEW j, Places(j), NEW c, OfFile(c.got, j)
    PROVE  /\ M!LastGot(c) \in Nat /\ M!LastGot(c) <= Len(j)
           /\ \A k \in DOMAIN c.got : c.got[k].seq <= M!LastGot(c)
           /\ \A i : Has(c.got, i) => i <= M!LastGot(c)
           /\ c.got = <<>> => M!LastGot(c) = 0
           /\ c.got # <<>> => Has(c.got, M!LastGot(c)) /\ M!LastGot(c) = c.got[Len(c.got)].seq
<1> DEFINE s == c.got
           l == M!LastGot(c)
<1>1. /\ s \in Seq(Entry) /\ Len(s) \in Nat /\ DOMAIN s = 1 .. Len(s) /\ Len(j) \in Nat
      /\ \A k \in DOMAIN s : s[k].seq \in 1 .. Len(j)
  BY DEF OfFile, KnownOf, Places
<1>2. l = IF s = <<>> THEN 0 ELSE s[Len(s)].seq
  BY DEF M!LastGot
<1>3. CASE s = <<>>
  <2>1. l = 0 /\ DOMAIN s = {}
    BY <1>2, <1>3
  <2> QED
    BY <1>1, <1>3, <2>1 DEF Has
<1>4. CASE s # <<>>
  <2>1. Len(s) \in DOMAIN s /\ l = s[Len(s)].seq
    BY <1>1, <1>2, <1>4
  <2>2. ASSUME NEW k \in DOMAIN s PROVE s[k].seq <= l
    <3>1. CASE k = Len(s)
      BY <1>1, <2>1, <3>1
    <3>2. CASE k < Len(s)
      <4>1. s[k].seq < s[Len(s)].seq
        BY <2>1, <3>2 DEF OfFile, M!Growing
      <4> QED
        BY <1>1, <2>1, <4>1
    <3> QED
      BY <1>1, <3>1, <3>2
  <2> QED
    BY <1>1, <1>4, <2>1, <2>2 DEF Has
<1> QED
  BY <1>3, <1>4

LEMMA ToldOfMore ==
    ASSUME NEW j, Places(j), NEW e \in Entry, e.seq = Len(j) + 1, NEW n, n = Append(j, e),
           NEW c, NEW v \in 0 .. Len(j), Told(c, j, v)
    PROVE  Told(c, n, v)
<1>1. /\ Len(j) \in Nat /\ KnownOf(j) \subseteq KnownOf(n)
      /\ \A i \in KnownOf(n) : i \in KnownOf(j) \/ i = Len(j) + 1
      /\ \A s : OfFile(s, j) => OfFile(s, n)
  BY FileGrows
<1>2. M!LastGot(c) \in Nat /\ M!LastGot(c) <= Len(j)
  BY LastGotIs DEF Told, Got
<1>3. Queued(c, n, v)
  BY <1>1 DEF Told, Queued
<1>4. Got(c, n)
  <2>1. ASSUME NEW i \in KnownOf(n), i <= M!LastGot(c) PROVE i \in KnownOf(j)
    BY <1>1, <1>2, <2>1
  <2> QED
    BY <1>1, <2>1 DEF Told, Got
<1>5. Coming(c, n, v)
  <2>1. ASSUME NEW i \in KnownOf(n), i <= v PROVE i \in KnownOf(j)
    BY <1>1, <2>1
  <2> QED
    BY <2>1 DEF Told, Coming
<1> QED
  BY <1>3, <1>4, <1>5 DEF Told

\* The broadcast of the next Event that the view gets.
Pushed(c, e) ==
    LET q == Append(c.queue, e)
    IN  IF Len(q) <= Capacity THEN [c EXCEPT !.queue = q] ELSE [c EXCEPT !.queue = Tail(q), !.lagged = TRUE]

LEMMA ToldOfNext ==
    ASSUME NEW j, Places(j), NEW c \in Client, NEW v \in Nat, Told(c, j, v), c.pc # "off",
           NEW e \in Entry, e.seq \in KnownOf(j), e = j[e.seq], v < e.seq,
           \A i \in KnownOf(j) : i < e.seq => i <= v,
           Capacity \in Nat, Len(c.queue) <= Capacity,
           NEW d, d = Pushed(c, e)
    PROVE  d \in Client /\ Told(d, j, e.seq) /\ Len(d.queue) <= Capacity /\ d.proj = c.proj
<1> DEFINE q == Append(c.queue, e)
<1>1. /\ OfFile(q, j) /\ Has(q, e.seq) /\ \A i : Has(c.queue, i) => Has(q, i)
      /\ \A i : Has(q, i) => Has(c.queue, i) \/ i = e.seq
  <2>1. \A k \in DOMAIN c.queue : c.queue[k].seq < e.seq
    <3>1. \A k \in DOMAIN c.queue : c.queue[k].seq \in Nat /\ c.queue[k].seq <= v
      BY EntryFields DEF Told, Queued, OfFile
    <3> QED
      BY <3>1, EntryFields
  <2> QED
    BY <2>1, OneMore DEF Told, Queued
<1>2. \A k \in DOMAIN q : q[k].seq <= e.seq
  <2>1. ASSUME NEW k \in DOMAIN q PROVE q[k].seq <= e.seq
    <3>1. Has(q, q[k].seq)
      BY DEF Has
    <3>2. CASE q[k].seq = e.seq
      BY <3>2, EntryFields
    <3>3. CASE Has(c.queue, q[k].seq)
      <4>1. PICK l \in DOMAIN c.queue : c.queue[l].seq = q[k].seq
        BY <3>3 DEF Has
      <4>2. c.queue[l].seq \in Nat /\ c.queue[l].seq <= v
        BY <4>1, EntryFields DEF Told, Queued, OfFile
      <4> QED
        BY <4>1, <4>2, EntryFields
    <3> QED
      BY <1>1, <3>1, <3>2, <3>3
  <2> QED
    BY <2>1
<1>3. q \in Seq(Entry) /\ q # <<>> /\ Len(q) \in Nat /\ Len(q) = Len(c.queue) + 1 /\ Len(c.queue) \in Nat
  BY EntryAppended DEF Client
<1> HIDE DEF q
<1>4. \A x \in Client : x.got = c.got => M!LastGot(x) = M!LastGot(c)
  BY DEF M!LastGot
<1>5. CASE Len(q) <= Capacity
  <2>1. d = [c EXCEPT !.queue = q]
    BY <1>5 DEF q, Pushed
  <2>2. /\ d \in Client /\ d.queue = q /\ d.got = c.got /\ d.pc = c.pc /\ d.last = c.last
        /\ d.gap = c.gap /\ d.lagged = c.lagged /\ d.proj = c.proj
    BY <1>3, <2>1 DEF Client
  <2>3. Queued(d, j, e.seq)
    BY <1>1, <1>2, <2>2 DEF Queued
  <2>4. Got(d, j) /\ CursorIsLast(d)
    BY <1>4, <2>2 DEF Told, Got, CursorIsLast
  <2>5. Coming(d, j, e.seq)
    <3>1. SUFFICES ASSUME c.pc \in {"project", "recv"}, ~c.lagged, ~c.gap,
                          NEW i \in KnownOf(j), c.last < i, i <= e.seq
                   PROVE  Has(q, i)
      BY <2>2 DEF Coming
    <3>2. CASE i = e.seq
      BY <1>1, <3>2
    <3>3. CASE i < e.seq
      <4>1. Has(c.queue, i)
        BY <3>1, <3>3 DEF Told, Coming
      <4> QED
        BY <1>1, <4>1
    <3>4. i \in Nat /\ e.seq \in Nat
      BY EntryFields DEF KnownOf, Places
    <3> QED
      BY <3>1, <3>2, <3>3, <3>4
  <2> QED
    BY <1>5, <2>2, <2>3, <2>4, <2>5 DEF Told
<1>6. CASE ~(Len(q) <= Capacity)
  <2>1. d = [c EXCEPT !.queue = Tail(q), !.lagged = TRUE]
    BY <1>6 DEF q, Pushed
  <2>2. OfFile(Tail(q), j) /\ \A k \in DOMAIN Tail(q) : Has(q, Tail(q)[k].seq)
    BY <1>1, <1>3, OneLess
  <2>3. Tail(q) \in Seq(Entry) /\ Len(Tail(q)) <= Capacity
    BY <1>3, HeadTailProperties
  <2>4. /\ d \in Client /\ d.queue = Tail(q) /\ d.got = c.got /\ d.pc = c.pc /\ d.last = c.last
        /\ d.gap = c.gap /\ d.lagged = TRUE /\ d.proj = c.proj
    BY <2>1, <2>3 DEF Client
  <2>5. Queued(d, j, e.seq)
    <3>1. ASSUME NEW k \in DOMAIN Tail(q) PROVE Tail(q)[k].seq <= e.seq
      <4>1. PICK l \in DOMAIN q : q[l].seq = Tail(q)[k].seq
        BY <2>2 DEF Has
      <4> QED
        BY <1>2, <4>1
    <3> QED
      BY <2>2, <2>4, <3>1 DEF Queued
  <2>6. Got(d, j) /\ CursorIsLast(d)
    BY <1>4, <2>4 DEF Told, Got, CursorIsLast
  <2>7. Coming(d, j, e.seq)
    BY <2>4 DEF Coming
  <2> QED
    BY <2>3, <2>4, <2>5, <2>6, <2>7 DEF Told
<1> QED
  BY <1>5, <1>6

LEMMA OffIsTold ==
    ASSUME NEW j, NEW c, NEW v \in Nat, NEW w \in Nat, v <= w, Places(j), Told(c, j, v), c.pc = "off"
    PROVE  Told(c, j, w)
<1>1. \A k \in DOMAIN c.queue : c.queue[k].seq \in Nat
  BY EntryFields DEF Told, Queued, OfFile
<1> QED
  BY <1>1 DEF Told, Queued, Coming

----------------------------------------------------------------------------
(* The invariant of the Monitor.                                           *)
FileTyped ==
    /\ Places(journal) /\ Len(journal) <= MaxLines /\ exists \in BOOLEAN /\ faults \in 0 .. MaxFaults
    /\ Len(journal) \in Nat /\ KnownOf(journal) \subseteq 1 .. Len(journal)

SlotTyped ==
    /\ DOMAIN slot = {"known", "missing", "view"} /\ slot.known \in BOOLEAN /\ slot.missing \in BOOLEAN
    /\ "last" \in DOMAIN slot.view /\ slot.view.last \in 0 .. Len(journal)

WatchTyped ==
    /\ track \in [loaded : BOOLEAN, len : 0 .. Len(journal), tail : {"none", "on", "done"}, pos : 0 .. Len(journal)]
    /\ DOMAIN load = {"on", "len", "todo"} /\ load.on \in BOOLEAN /\ load.len \in 0 .. Len(journal)

ClientTyped ==
    /\ client \in [Browser -> Client]
    /\ \A b \in Browser : Len(client[b].queue) <= Capacity /\ client[b].proj <= Len(journal)

\* What the tail has read, the view has.
ReadIsViewed == \A i \in KnownOf(journal) : i <= track.pos => i <= slot.view.last

\* What a load still has to apply, it will apply without leaving anything out.
LoadInv ==
    load.todo # None =>
       /\ OfFile(load.todo, journal)
       /\ \A k \in DOMAIN load.todo : \A i \in KnownOf(journal) :
             slot.view.last < i /\ i < load.todo[k].seq => Has(load.todo, i)

ToldInv == \A b \in Browser : Told(client[b], journal, slot.view.last)

Followed == FileTyped /\ SlotTyped /\ WatchTyped /\ ClientTyped /\ ReadIsViewed /\ LoadInv
            /\ M!ViewIsFold /\ ToldInv

\* A new line of the file: nobody has read it yet.
LEMMA WriteKeeps ==
    ASSUME M!MonitorAssumption, Followed,
           NEW type \in {"AttemptStarted", "StageStarted", "AttemptEnded", "Unknown", "Garbled"},
           NEW attempt \in Nat, M!Write(type, attempt), faults' \in 0 .. MaxFaults
    PROVE  Followed'
<1> DEFINE e == [type |-> type, seq |-> Len(journal) + 1, attempt |-> attempt,
                 node |-> "n", reason |-> "completed"]
<1>1. /\ journal' = Append(journal, e) /\ Len(journal) < MaxLines
      /\ UNCHANGED <<exists, slot, track, load, client>>
  BY DEF M!Write
<1>2. Places(journal) /\ Len(journal) \in Nat /\ KnownOf(journal) \subseteq 1 .. Len(journal)
  BY DEF Followed, FileTyped
<1>3. e \in Entry /\ e.seq = Len(journal) + 1
  BY <1>2 DEF Entry
<1> HIDE DEF e
<1>4. /\ Places(journal') /\ Len(journal') = Len(journal) + 1
      /\ KnownOf(journal) \subseteq KnownOf(journal')
      /\ \A i \in KnownOf(journal') : i \in KnownOf(journal) \/ i = Len(journal) + 1
      /\ \A s : OfFile(s, journal) => OfFile(s, journal')
  BY <1>1, <1>2, <1>3, FileGrows
<1>5. FileTyped'
  <2>1. Len(journal') \in Nat /\ Len(journal') <= MaxLines
    BY <1>1, <1>2, <1>4 DEF M!MonitorAssumption
  <2>2. KnownOf(journal') \subseteq 1 .. Len(journal')
    BY <1>2, <1>4
  <2> QED
    BY <1>1, <1>4, <2>1, <2>2 DEF Followed, FileTyped
<1>6. SlotTyped' /\ WatchTyped'
  BY <1>1, <1>2, <1>4 DEF Followed, SlotTyped, WatchTyped
<1>7. ClientTyped'
  <2>1. ASSUME NEW b \in Browser PROVE client[b].proj <= Len(journal')
    BY <1>2, <1>4 DEF Followed, ClientTyped, Client
  <2> QED
    BY <1>1, <2>1 DEF Followed, ClientTyped
<1>8. ReadIsViewed'
  <2>1. track.pos \in 0 .. Len(journal)
    BY DEF Followed, WatchTyped
  <2> QED
    BY <1>1, <1>2, <1>4, <2>1 DEF Followed, ReadIsViewed
<1>9. LoadInv'
  <2>1. SUFFICES ASSUME load.todo # None PROVE LoadInv'
    BY <1>1 DEF LoadInv
  <2>2. OfFile(load.todo, journal) /\ OfFile(load.todo, journal')
    BY <1>4, <2>1 DEF Followed, LoadInv
  <2>3. ASSUME NEW k \in DOMAIN load.todo, NEW i \in KnownOf(journal'), i < load.todo[k].seq
        PROVE  i \in KnownOf(journal)
    <3>1. load.todo[k].seq \in 1 .. Len(journal)
      BY <1>2, <2>2 DEF OfFile
    <3> QED
      BY <1>2, <1>4, <2>3, <3>1
  <2> QED
    BY <1>1, <2>1, <2>2, <2>3 DEF Followed, LoadInv
<1>10. M!ViewIsFold'
  <2>1. M!FoldUpTo(journal')[slot.view.last] = M!FoldUpTo(journal)[slot.view.last]
    <3>1. journal \in Seq(Entry) /\ slot.view.last \in 0 .. Len(journal)
      BY DEF Followed, FileTyped, SlotTyped, Places
    <3> QED
      BY <1>1, <1>3, <3>1, FoldGrows
  <2> QED
    BY <1>1, <2>1 DEF Followed, M!ViewIsFold
<1>11. ToldInv'
  <2>1. ASSUME NEW b \in Browser PROVE Told(client[b], journal', slot.view.last)
    BY <1>1, <1>2, <1>3, ToldOfMore DEF Followed, ToldInv, SlotTyped
  <2> QED
    BY <1>1, <2>1 DEF ToldInv
<1> QED
  BY <1>5, <1>6, <1>7, <1>8, <1>9, <1>10, <1>11 DEF Followed

LEMMA EnvironmentKeeps ==
    ASSUME M!MonitorAssumption, Followed, M!Environment
    PROVE  Followed'
<1>1. MaxFaults \in Nat /\ faults \in 0 .. MaxFaults
  BY DEF M!MonitorAssumption, Followed, FileTyped
<1>2. M!Attempts \in Nat
  <2> DEFINE S == {i \in DOMAIN journal : journal[i].type = "AttemptStarted"}
  <2>1. S \subseteq 1 .. Len(journal) /\ Len(journal) \in Nat
    BY DEF Followed, FileTyped, Places
  <2> HIDE DEF S
  <2>2. Cardinality(S) \in Nat
    BY <2>1, OrderExists
  <2> QED
    BY <2>2, SameCount DEF M!Attempts, S
<1>3. CASE M!BeginAttempt
  <2>1. M!Write("AttemptStarted", M!Attempts + 1) /\ faults' = faults
    BY <1>3 DEF M!BeginAttempt
  <2> QED
    BY <1>1, <1>2, <2>1, WriteKeeps
<1>4. CASE M!WriteEvent
  <2>1. PICK type \in {"StageStarted", "AttemptEnded"} : M!Write(type, M!Attempts) /\ faults' = faults
    BY <1>4 DEF M!WriteEvent
  <2> QED
    BY <1>1, <1>2, <2>1, WriteKeeps
<1>5. CASE M!WriteOdd
  <2>1. PICK type \in {"Unknown", "Garbled"} : M!Write(type, M!Attempts) /\ faults < MaxFaults /\ faults' = faults + 1
    BY <1>5 DEF M!WriteOdd
  <2>2. faults' \in 0 .. MaxFaults
    BY <1>1, <2>1
  <2> QED
    BY <1>2, <2>1, <2>2, WriteKeeps
<1>6. CASE M!RemoveFolder
  <2>1. exists' = FALSE /\ faults' \in 0 .. MaxFaults /\ UNCHANGED <<journal, slot, track, load, client>>
    BY <1>1, <1>6 DEF M!RemoveFolder
  <2> QED
    BY <2>1 DEF Followed, FileTyped, SlotTyped, WatchTyped, ClientTyped, ReadIsViewed, LoadInv, ToldInv, M!ViewIsFold
<1> QED
  BY <1>3, <1>4, <1>5, <1>6 DEF M!Environment

\* An Event is applied when everything before it has been.
LEMMA Applied ==
    ASSUME M!MonitorAssumption, Followed, NEW e \in Entry, e.seq \in KnownOf(journal), e = journal[e.seq],
           \A i \in KnownOf(journal) : i < e.seq => i <= slot.view.last,
           M!ApplyEvent(e), journal' = journal
    PROVE  /\ SlotTyped' /\ ClientTyped' /\ M!ViewIsFold' /\ ToldInv'
           /\ slot.view.last <= slot'.view.last /\ e.seq <= slot'.view.last
           /\ slot.view.last \in Nat /\ slot'.view.last \in Nat
<1>1. /\ Places(journal) /\ Len(journal) \in Nat /\ KnownOf(journal) \subseteq 1 .. Len(journal)
      /\ SlotTyped /\ ClientTyped /\ M!ViewIsFold /\ ToldInv
  BY DEF Followed, FileTyped
<1>2. slot.view.last \in 0 .. Len(journal) /\ e.seq \in 1 .. Len(journal) /\ "last" \in DOMAIN slot.view
  BY <1>1 DEF SlotTyped
<1>3. CASE e.seq <= slot.view.last
  <2>1. UNCHANGED <<slot, client>>
    BY <1>3 DEF M!ApplyEvent
  <2>2. SlotTyped' /\ ClientTyped' /\ M!ViewIsFold' /\ ToldInv'
    BY <1>1, <2>1 DEF SlotTyped, ClientTyped, M!ViewIsFold, ToldInv
  <2> QED
    BY <1>2, <1>3, <2>1, <2>2
<1>4. CASE ~(e.seq <= slot.view.last)
  <2>1. slot' = [slot EXCEPT !.view = M!Apply(slot.view, e)] /\ M!Broadcast(e)
    BY <1>4 DEF M!ApplyEvent
  <2>2. slot.view.last < e.seq /\ M!Known(e)
    BY <1>2, <1>4 DEF KnownOf
  <2>3. "last" \in DOMAIN M!Apply(slot.view, e) /\ M!Apply(slot.view, e).last = e.seq
    BY <1>2, <2>2, ApplyIs
  <2>4. slot'.view = M!Apply(slot.view, e) /\ slot'.view.last = e.seq
    BY <1>1, <2>1, <2>3 DEF SlotTyped
  <2>5. SlotTyped'
    BY <1>1, <1>2, <2>1, <2>3, <2>4 DEF SlotTyped
  <2>6. M!ViewIsFold'
    <3> DEFINE n == e.seq - 1
    <3>1. n \in Nat /\ slot.view.last \in Nat /\ slot.view.last <= n /\ n <= Len(journal) /\ e.seq = n + 1
      BY <1>1, <1>2, <2>2
    <3>2. \A i \in KnownOf(journal) : ~(slot.view.last < i /\ i <= n)
      BY <1>1, <3>1
    <3>3. M!FoldUpTo(journal)[n] = M!FoldUpTo(journal)[slot.view.last]
      BY <1>1, <3>1, <3>2, FoldSkips DEF Places
    <3>4. M!FoldUpTo(journal)[e.seq] = M!Apply(M!FoldUpTo(journal)[n], e)
      BY <1>1, <1>2, <2>2, FoldIs DEF Places
    <3> QED
      BY <1>1, <2>4, <3>3, <3>4 DEF M!ViewIsFold
  <2>7. ASSUME NEW b \in Browser
        PROVE  /\ client'[b] \in Client /\ Told(client'[b], journal, e.seq)
               /\ Len(client'[b].queue) <= Capacity /\ client'[b].proj <= Len(journal)
    <3>1. /\ client[b] \in Client /\ Told(client[b], journal, slot.view.last)
          /\ Len(client[b].queue) <= Capacity /\ client[b].proj <= Len(journal)
          /\ Capacity \in Nat
      BY <1>1 DEF ClientTyped, ToldInv, M!MonitorAssumption
    <3>2. CASE client[b].pc = "off"
      <4>1. client'[b] = client[b]
        BY <2>1, <3>2 DEF M!Broadcast, M!Subscribed
      <4>2. Told(client[b], journal, e.seq)
        BY <1>1, <1>2, <2>2, <3>1, <3>2, OffIsTold
      <4> QED
        BY <3>1, <4>1, <4>2
    <3>3. CASE client[b].pc # "off"
      <4>1. client'[b] = Pushed(client[b], e)
        BY <2>1, <3>3 DEF M!Broadcast, M!Subscribed, Pushed
      <4> DEFINE c == client[b]
                 d == client'[b]
                 v == slot.view.last
      <4>2. /\ Places(journal) /\ c \in Client /\ v \in Nat /\ Told(c, journal, v) /\ c.pc # "off"
            /\ v < e.seq /\ Capacity \in Nat /\ Len(c.queue) <= Capacity
        BY <1>1, <1>2, <2>2, <3>1, <3>3
      <4>3. \A i \in KnownOf(journal) : i < e.seq => i <= v
        OBVIOUS
      <4> HIDE DEF c, d, v
      <4>4. d = Pushed(c, e)
        BY <4>1 DEF c, d
      <4>5. d \in Client /\ Told(d, journal, e.seq) /\ Len(d.queue) <= Capacity /\ d.proj = c.proj
        BY <4>2, <4>3, <4>4, ToldOfNext
      <4> QED
        BY <3>1, <4>5 DEF c, d
    <3> QED
      BY <3>2, <3>3
  <2>8. client' = [b \in Browser |-> client'[b]]
    BY <2>1 DEF M!Broadcast
  <2>9. ClientTyped' /\ ToldInv'
    BY <2>4, <2>7, <2>8 DEF ClientTyped, ToldInv
  <2> QED
    BY <1>2, <2>2, <2>4, <2>5, <2>6, <2>9
<1> QED
  BY <1>3, <1>4

\* The watcher reads the file and applies it, Event by Event.
LEMMA WatcherKeeps ==
    ASSUME M!MonitorAssumption, Followed, M!Watcher
    PROVE  Followed'
<1>0. /\ SlotTyped /\ WatchTyped /\ ClientTyped /\ ReadIsViewed /\ LoadInv /\ M!ViewIsFold /\ ToldInv
      /\ Places(journal) /\ Len(journal) \in Nat /\ KnownOf(journal) \subseteq 1 .. Len(journal)
      /\ faults \in 0 .. MaxFaults
  BY DEF Followed, FileTyped
<1>1. CASE M!Tick
  <2>1. /\ slot' = [slot EXCEPT !.known = TRUE, !.missing = ~exists]
        /\ UNCHANGED <<journal, exists, client, faults>>
    BY <1>1 DEF M!Tick, M!Register
  <2>2. slot'.view = slot.view /\ SlotTyped'
    <3>1. exists \in BOOLEAN /\ DOMAIN slot = {"known", "missing", "view"}
      BY <1>0 DEF SlotTyped, Followed, FileTyped
    <3>2. /\ slot'.view = slot.view /\ slot'.known = TRUE /\ slot'.missing = ~exists
          /\ DOMAIN slot' = {"known", "missing", "view"}
      BY <2>1, <3>1
    <3>3. slot'.known \in BOOLEAN /\ slot'.missing \in BOOLEAN
      BY <3>1, <3>2
    <3> QED
      BY <1>0, <2>1, <3>2, <3>3 DEF SlotTyped
  <2>3. /\ track' \in [loaded : BOOLEAN, len : 0 .. Len(journal), tail : {"none", "on", "done"}, pos : 0 .. Len(journal)]
        /\ track'.pos = track.pos
    <3>1. /\ M!Reaped \in [loaded : BOOLEAN, len : 0 .. Len(journal), tail : {"none", "on", "done"}, pos : 0 .. Len(journal)]
          /\ M!Reaped.pos = track.pos
      BY <1>0 DEF M!Reaped, WatchTyped
    <3>2. track' = M!Reaped \/ track' = [M!Reaped EXCEPT !.loaded = FALSE]
      BY <1>1 DEF M!Tick
    <3> HIDE DEF M!Reaped
    <3> QED
      BY <3>1, <3>2
  <2>4. load' = load \/ load' = [on |-> TRUE, len |-> Len(journal), todo |-> None]
    BY <1>1 DEF M!Tick
  <2>5. WatchTyped'
    <3>1. DOMAIN load' = {"on", "len", "todo"} /\ load'.on \in BOOLEAN /\ load'.len \in 0 .. Len(journal)
      <4>1. CASE load' = load
        BY <1>0, <4>1 DEF WatchTyped
      <4>2. CASE load' = [on |-> TRUE, len |-> Len(journal), todo |-> None]
        BY <1>0, <4>2
      <4> QED
        BY <2>4, <4>1, <4>2
    <3>2. journal' = journal
      BY <2>1
    <3> QED
      BY <2>3, <3>1, <3>2 DEF WatchTyped
  <2>6. LoadInv' /\ ReadIsViewed'
    BY <1>0, <2>1, <2>2, <2>3, <2>4 DEF LoadInv, ReadIsViewed
  <2>7. FileTyped' /\ ClientTyped' /\ M!ViewIsFold' /\ ToldInv'
    BY <1>0, <2>1, <2>2 DEF ClientTyped, M!ViewIsFold, ToldInv, Followed, FileTyped
  <2> QED
    BY <2>2, <2>5, <2>6, <2>7 DEF Followed
<1>2. CASE M!LoadRead
  <2>1. /\ \/ load' = [load EXCEPT !.todo = M!ReadAll]
           \/ load' = [load EXCEPT !.on = FALSE, !.todo = <<>>]
        /\ UNCHANGED <<journal, exists, slot, track, client, faults>>
    BY <1>2 DEF M!LoadRead
  <2>2. M!KnownLines = KnownOf(journal)
    BY DEF M!KnownLines, KnownOf
  <2>3. OfFile(M!ReadAll, journal) /\ \A i \in KnownOf(journal) : Has(M!ReadAll, i)
    BY <1>0, <2>2, LinesAre DEF M!ReadAll
  <2> HIDE DEF M!ReadAll
  <2>4. OfFile(<<>>, journal) /\ DOMAIN <<>> = {}
    BY NothingOfFile
  <2>5. WatchTyped' /\ (load'.todo = M!ReadAll \/ load'.todo = <<>>)
    BY <1>0, <2>1 DEF WatchTyped
  <2>6. LoadInv'
    BY <2>1, <2>3, <2>4, <2>5 DEF LoadInv
  <2>7. FileTyped' /\ SlotTyped' /\ ClientTyped' /\ M!ViewIsFold' /\ ToldInv' /\ ReadIsViewed'
    BY <1>0, <2>1 DEF SlotTyped, ClientTyped, M!ViewIsFold, ToldInv, ReadIsViewed, Followed, FileTyped
  <2> QED
    BY <2>5, <2>6, <2>7 DEF Followed
<1>3. CASE M!LoadApply
  <2> DEFINE s == load.todo
             e == Head(s)
  <2>1. /\ s # None /\ s # <<>> /\ M!ApplyEvent(e) /\ load' = [load EXCEPT !.todo = Tail(s)]
        /\ UNCHANGED <<journal, exists, track, faults>>
    BY <1>3 DEF M!LoadApply
  <2>2. /\ OfFile(s, journal)
        /\ \A k \in DOMAIN s : \A i \in KnownOf(journal) :
              slot.view.last < i /\ i < s[k].seq => Has(s, i)
    BY <1>0, <2>1 DEF LoadInv
  <2> HIDE DEF s
  <2>3. /\ e \in Entry /\ e.seq \in KnownOf(journal) /\ e = journal[e.seq] /\ OfFile(Tail(s), journal)
        /\ \A k \in DOMAIN Tail(s) : e.seq < Tail(s)[k].seq /\ Has(s, Tail(s)[k].seq)
        /\ \A i : Has(s, i) => Has(Tail(s), i) \/ i = e.seq
        /\ \A k \in DOMAIN s : e.seq <= s[k].seq
        /\ Has(s, e.seq)
    BY <2>1, <2>2, OneLess
  <2> HIDE DEF e
  <2>4. \A i \in KnownOf(journal) : i < e.seq => i <= slot.view.last
    <3>1. SUFFICES ASSUME NEW i \in KnownOf(journal), i < e.seq, ~(i <= slot.view.last) PROVE FALSE
      OBVIOUS
    <3>2. PICK k \in DOMAIN s : s[k].seq = e.seq
      BY <2>3 DEF Has
    <3>3. slot.view.last \in Nat /\ i \in Nat /\ e.seq \in Nat
      BY <1>0, <2>3 DEF SlotTyped
    <3>4. Has(s, i)
      BY <2>2, <3>1, <3>2, <3>3
    <3>5. PICK l \in DOMAIN s : s[l].seq = i
      BY <3>4 DEF Has
    <3> QED
      BY <2>3, <3>1, <3>3, <3>5
  <2>5. /\ SlotTyped' /\ ClientTyped' /\ M!ViewIsFold' /\ ToldInv'
        /\ slot.view.last <= slot'.view.last /\ e.seq <= slot'.view.last
        /\ slot.view.last \in Nat /\ slot'.view.last \in Nat
    BY <2>1, <2>3, <2>4, Applied
  <2>6. WatchTyped' /\ load'.todo = Tail(s)
    BY <1>0, <2>1 DEF WatchTyped
  <2>7. LoadInv'
    <3>1. ASSUME NEW k \in DOMAIN Tail(s), NEW i \in KnownOf(journal),
                 slot'.view.last < i, i < Tail(s)[k].seq
          PROVE  Has(Tail(s), i)
      <4>1. PICK l \in DOMAIN s : s[l].seq = Tail(s)[k].seq
        BY <2>3 DEF Has
      <4>2. i \in Nat /\ e.seq \in Nat
        BY <1>0, <2>3
      <4>3. slot.view.last < i /\ i # e.seq
        BY <2>5, <3>1, <4>2
      <4>4. Has(s, i)
        BY <2>2, <3>1, <4>1, <4>3
      <4> QED
        BY <2>3, <4>3, <4>4
    <3> QED
      BY <2>1, <2>3, <2>6, <3>1 DEF LoadInv
  <2>8. ReadIsViewed'
    <3>1. ASSUME NEW i \in KnownOf(journal), i <= track.pos PROVE i <= slot'.view.last
      <4>1. i <= slot.view.last /\ i \in Nat
        BY <1>0, <3>1 DEF ReadIsViewed
      <4> QED
        BY <2>5, <4>1
    <3> QED
      BY <2>1, <3>1 DEF ReadIsViewed
  <2>9. FileTyped'
    BY <2>1 DEF Followed, FileTyped
  <2> QED
    BY <2>5, <2>6, <2>7, <2>8, <2>9 DEF Followed
<1>4. CASE M!LoadEnd
  <2>1. /\ track' = [loaded |-> TRUE, len |-> load.len, pos |-> 0,
                     tail |-> IF slot.view.status = "running" THEN "on" ELSE "none"]
        /\ load' = [load EXCEPT !.on = FALSE]
        /\ UNCHANGED <<journal, exists, slot, client, faults>>
    BY <1>4 DEF M!LoadEnd
  <2>2. WatchTyped' /\ load'.todo = load.todo /\ track'.pos = 0
    BY <1>0, <2>1 DEF WatchTyped
  <2>3. ReadIsViewed'
    BY <1>0, <2>1, <2>2 DEF ReadIsViewed
  <2>4. FileTyped' /\ SlotTyped' /\ ClientTyped' /\ M!ViewIsFold' /\ ToldInv' /\ LoadInv'
    BY <1>0, <2>1, <2>2 DEF SlotTyped, ClientTyped, M!ViewIsFold, ToldInv, LoadInv, Followed, FileTyped
  <2> QED
    BY <2>2, <2>3, <2>4 DEF Followed
<1> QED
  BY <1>1, <1>2, <1>3, <1>4 DEF M!Watcher

\* The tail reads the next line.
LEMMA TailKeeps ==
    ASSUME M!MonitorAssumption, Followed, M!TailStep
    PROVE  Followed'
<1>0. /\ SlotTyped /\ WatchTyped /\ ClientTyped /\ ReadIsViewed /\ LoadInv /\ M!ViewIsFold /\ ToldInv
      /\ Places(journal) /\ Len(journal) \in Nat /\ KnownOf(journal) \subseteq 1 .. Len(journal)
  BY DEF Followed, FileTyped
<1> DEFINE n == track.pos + 1
           e == journal[n]
<1>1. /\ track.pos < Len(journal)
      /\ IF M!Known(e) THEN M!ApplyEvent(e) ELSE UNCHANGED <<slot, client>>
      /\ track' = [track EXCEPT !.pos = @ + 1,
                                !.tail = IF M!Known(e) /\ slot'.view.status # "running" THEN "done" ELSE @]
      /\ UNCHANGED <<journal, exists, load, faults>>
  BY DEF M!TailStep
<1>2. n \in 1 .. Len(journal) /\ track.pos \in Nat /\ slot.view.last \in Nat
  BY <1>0, <1>1 DEF WatchTyped, SlotTyped
<1>3. e \in Entry /\ e.seq = n /\ (M!Known(e) => n \in KnownOf(journal))
  BY <1>0, <1>2 DEF Places, KnownOf
<1>4. WatchTyped' /\ track'.pos = track.pos + 1
  <2>1. /\ track \in [loaded : BOOLEAN, len : 0 .. Len(journal), tail : {"none", "on", "done"}, pos : 0 .. Len(journal)]
        /\ DOMAIN load = {"on", "len", "todo"} /\ load.on \in BOOLEAN /\ load.len \in 0 .. Len(journal)
    BY <1>0 DEF WatchTyped
  <2>2. PICK t \in {"none", "on", "done"} : track' = [track EXCEPT !.pos = n, !.tail = t]
    <3> DEFINE u == IF M!Known(e) /\ slot'.view.status # "running" THEN "done" ELSE track.tail
    <3>1. track' = [track EXCEPT !.pos = n, !.tail = u]
      BY <1>1, <2>1
    <3>2. u \in {"none", "on", "done"}
      BY <2>1
    <3> QED
      BY <3>1, <3>2
  <2>3. n \in 0 .. Len(journal)
    BY <1>0, <1>2
  <2> HIDE DEF n
  <2>4. /\ track' \in [loaded : BOOLEAN, len : 0 .. Len(journal), tail : {"none", "on", "done"}, pos : 0 .. Len(journal)]
        /\ track'.pos = n
    BY <2>1, <2>2, <2>3
  <2>5. journal' = journal /\ load' = load
    BY <1>1
  <2> QED
    BY <2>1, <2>4, <2>5 DEF WatchTyped, n
<1> HIDE DEF e
<1>5. /\ SlotTyped' /\ ClientTyped' /\ M!ViewIsFold' /\ ToldInv'
      /\ slot.view.last <= slot'.view.last /\ slot'.view.last \in Nat
      /\ M!Known(e) => n <= slot'.view.last
  <2>1. CASE M!Known(e)
    <3>1. \A i \in KnownOf(journal) : i < e.seq => i <= slot.view.last
      <4>1. ASSUME NEW i \in KnownOf(journal), i < e.seq PROVE i <= track.pos
        BY <1>0, <1>2, <1>3, <4>1
      <4> QED
        BY <1>0, <4>1 DEF ReadIsViewed
    <3>2. M!ApplyEvent(e) /\ e.seq \in KnownOf(journal) /\ e = journal[e.seq] /\ journal' = journal
      BY <1>1, <1>3, <2>1 DEF e
    <3> QED
      BY <1>3, <3>1, <3>2, Applied
  <2>2. CASE ~M!Known(e)
    <3>1. UNCHANGED <<slot, client, journal>>
      BY <1>1, <2>2
    <3> QED
      BY <1>0, <1>2, <2>2, <3>1 DEF SlotTyped, ClientTyped, M!ViewIsFold, ToldInv
  <2> QED
    BY <2>1, <2>2
<1>6. ReadIsViewed'
  <2>1. ASSUME NEW i \in KnownOf(journal), i <= n PROVE i <= slot'.view.last
    <3>1. i \in Nat
      BY <1>0
    <3>2. CASE i = n
      BY <1>5, <3>2 DEF KnownOf, e
    <3>3. CASE i <= track.pos
      <4>1. i <= slot.view.last
        BY <1>0, <3>3 DEF ReadIsViewed
      <4> QED
        BY <1>2, <1>5, <3>1, <4>1
    <3> QED
      BY <1>2, <2>1, <3>1, <3>2, <3>3
  <2> QED
    BY <1>1, <1>4, <2>1 DEF ReadIsViewed
<1>7. LoadInv'
  <2>1. \A i \in KnownOf(journal) : slot'.view.last < i => slot.view.last < i
    BY <1>0, <1>2, <1>5
  <2> QED
    BY <1>0, <1>1, <2>1 DEF LoadInv
<1>8. FileTyped'
  BY <1>1 DEF Followed, FileTyped
<1> QED
  BY <1>4, <1>5, <1>6, <1>7, <1>8 DEF Followed

\* A step of one browser's connection.
LEMMA OneClient ==
    ASSUME Followed, NEW b \in Browser, NEW d \in Client, Told(d, journal, slot.view.last),
           Len(d.queue) <= Capacity, d.proj <= Len(journal),
           client' = [client EXCEPT ![b] = d], UNCHANGED <<journal, exists, track, load>>,
           slot'.view = slot.view, SlotTyped', faults' \in 0 .. MaxFaults
    PROVE  Followed'
<1>1. ClientTyped'
  BY DEF Followed, ClientTyped
<1>2. ToldInv'
  BY DEF Followed, ToldInv, ClientTyped
<1>3. FileTyped' /\ WatchTyped' /\ ReadIsViewed' /\ LoadInv' /\ M!ViewIsFold'
  BY DEF Followed, FileTyped, WatchTyped, ReadIsViewed, LoadInv, M!ViewIsFold
<1> QED
  BY <1>1, <1>2, <1>3 DEF Followed

LEMMA SlotKept ==
    ASSUME Followed, UNCHANGED <<journal, slot>>
    PROVE  SlotTyped' /\ slot'.view = slot.view
  BY DEF Followed, SlotTyped

LEMMA ConnectKeeps ==
    ASSUME Followed, NEW b \in Browser, M!Connect(b)
    PROVE  Followed'
<1> DEFINE c == client[b]
           d == [c EXCEPT !.pc = "read", !.last = M!LastGot(c), !.connects = c.connects + 1]
<1>1. /\ c \in Client /\ client \in [Browser -> Client] /\ Told(c, journal, slot.view.last)
      /\ Len(c.queue) <= Capacity /\ c.proj <= Len(journal) /\ Places(journal)
      /\ faults \in 0 .. MaxFaults
  BY DEF Followed, ClientTyped, ToldInv, FileTyped
<1>2. client' = [client EXCEPT ![b] = d] /\ UNCHANGED <<journal, exists, track, load, faults>>
  BY <1>1 DEF M!Connect
<1>3. M!LastGot(c) \in Nat
  BY <1>1, LastGotIs DEF Told, Got
<1>4. /\ d \in Client /\ d.queue = c.queue /\ d.got = c.got /\ d.proj = c.proj /\ d.gap = c.gap
      /\ d.pc = "read" /\ d.last = M!LastGot(c)
  <2> DEFINE n == M!LastGot(c)
             o == c.connects + 1
  <2>1. d = [c EXCEPT !.pc = "read", !.last = n, !.connects = o]
    OBVIOUS
  <2>2. n \in Nat /\ o \in Nat /\ c \in Client
    BY <1>1, <1>3 DEF Client
  <2> HIDE DEF n, o, d, c
  <2>3. /\ d \in Client /\ d.queue = c.queue /\ d.got = c.got /\ d.proj = c.proj /\ d.gap = c.gap
        /\ d.pc = "read" /\ d.last = n
    BY <2>1, <2>2 DEF Client
  <2> QED
    BY <2>3 DEF n
<1>5. M!LastGot(d) = M!LastGot(c)
  BY <1>4 DEF M!LastGot
<1> HIDE DEF c, d
<1>6. Told(d, journal, slot.view.last)
  BY <1>1, <1>4, <1>5 DEF Told, Queued, Got, CursorIsLast, Coming
<1>7. slot'.view = slot.view /\ SlotTyped'
  <2>1. exists \in BOOLEAN /\ DOMAIN slot = {"known", "missing", "view"} /\ SlotTyped
    BY DEF SlotTyped, Followed, FileTyped
  <2>2. CASE slot' = slot
    BY <1>2, <2>2, SlotKept
  <2>3. CASE slot' = [slot EXCEPT !.known = TRUE, !.missing = ~exists]
    <3>1. /\ slot'.view = slot.view /\ slot'.known = TRUE /\ slot'.missing = ~exists
          /\ DOMAIN slot' = {"known", "missing", "view"}
      BY <2>1, <2>3
    <3>2. slot'.known \in BOOLEAN /\ slot'.missing \in BOOLEAN
      BY <2>1, <3>1
    <3> QED
      BY <1>2, <2>1, <3>1, <3>2 DEF SlotTyped
  <2> QED
    BY <2>2, <2>3 DEF M!Connect
<1> QED
  BY <1>1, <1>2, <1>4, <1>6, <1>7, OneClient

\* u is s and then t.
OneAfter(s, t, u, j) ==
    /\ OfFile(u, j)
    /\ \A i : Has(u, i) <=> Has(s, i) \/ Has(t, i)
    /\ t = <<>> => u = s
    /\ t # <<>> => u # <<>> /\ u[Len(u)] = t[Len(t)]

LEMMA JoinedAs ==
    ASSUME NEW j, NEW s, NEW t, NEW u, u = s \o t, OfFile(s, j), OfFile(t, j),
           \A k \in DOMAIN s : \A l \in DOMAIN t : s[k].seq < t[l].seq
    PROVE  OneAfter(s, t, u, j)
  BY Joined DEF OneAfter

LEMMA BacklogIs ==
    ASSUME NEW b \in Browser, M!SendBacklog(b)
    PROVE  /\ UNCHANGED <<journal, exists, slot, track, load>>
           /\ faults' = faults \/ (faults < MaxFaults /\ faults' = faults + 1)
  BY DEF M!SendBacklog

LEMMA BacklogKeeps ==
    ASSUME M!MonitorAssumption, Followed, NEW b \in Browser, M!SendBacklog(b)
    PROVE  Followed'
<1> DEFINE c == client[b]
           S == {i \in M!KnownLines : journal[i].seq > c.last}
           new == M!Lines(S)
           l == IF new = <<>> THEN c.last ELSE new[Len(new)].seq
           v == slot.view.last
<1>1. /\ c \in Client /\ client \in [Browser -> Client] /\ Told(c, journal, v) /\ c.pc = "read"
      /\ Len(c.queue) <= Capacity /\ c.proj <= Len(journal) /\ Places(journal)
      /\ faults \in 0 .. MaxFaults /\ MaxFaults \in Nat
      /\ KnownOf(journal) \subseteq 1 .. Len(journal) /\ Len(journal) \in Nat
  BY DEF Followed, ClientTyped, ToldInv, FileTyped, M!SendBacklog, M!MonitorAssumption
<1>2. UNCHANGED <<journal, exists, slot, track, load>> /\ faults' \in 0 .. MaxFaults
  <2>1. faults' = faults \/ (faults < MaxFaults /\ faults' = faults + 1)
    BY BacklogIs
  <2> QED
    BY <1>1, <2>1, BacklogIs
<1>3. slot'.view = slot.view /\ SlotTyped'
  BY <1>2, SlotKept
<1>4. CASE client' = [client EXCEPT ![b].pc = "project", ![b].gap = TRUE]
  <2> DEFINE d == [c EXCEPT !.pc = "project", !.gap = TRUE]
  <2>1. client' = [client EXCEPT ![b] = d]
    BY <1>1, <1>4
  <2>2. /\ d \in Client /\ d.queue = c.queue /\ d.got = c.got /\ d.proj = c.proj /\ d.gap = TRUE
        /\ d.pc = "project" /\ d.last = c.last
    BY <1>1 DEF Client
  <2>3. M!LastGot(d) = M!LastGot(c)
    BY <2>2 DEF M!LastGot
  <2> HIDE DEF c, d
  <2>4. Told(d, journal, v)
    BY <1>1, <2>2, <2>3 DEF Told, Queued, Got, CursorIsLast, Coming
  <2> QED
    BY <1>1, <1>2, <1>3, <2>1, <2>2, <2>4, OneClient
<1>5. CASE client' = [client EXCEPT ![b].pc = "project", ![b].got = c.got \o new, ![b].last = l]
  <2> DEFINE d == [c EXCEPT !.pc = "project", !.got = c.got \o new, !.last = l]
  <2>1. client' = [client EXCEPT ![b] = d]
    BY <1>1, <1>5
  <2>2. S \subseteq KnownOf(journal) /\ \A i \in KnownOf(journal) : i \in S <=> i > c.last
    BY <1>1 DEF M!KnownLines, KnownOf, Places
  <2>3. OfFile(c.got, journal) /\ c.last = M!LastGot(c) /\ c.last \in Nat
    BY <1>1 DEF Told, Got, CursorIsLast, Client
  <2> HIDE DEF S
  <2>4. OfFile(new, journal) /\ \A i : Has(new, i) <=> i \in S
    BY <1>1, <2>2, LinesAre
  <2> HIDE DEF new
  <2>5. \A k \in DOMAIN c.got : \A m \in DOMAIN new : c.got[k].seq < new[m].seq
    <3>1. ASSUME NEW k \in DOMAIN c.got, NEW m \in DOMAIN new PROVE c.got[k].seq < new[m].seq
      <4>1. c.got[k].seq <= c.last /\ c.got[k].seq \in Nat
        BY <1>1, <2>3, LastGotIs DEF OfFile
      <4>2. new[m].seq > c.last /\ new[m].seq \in Nat
        <5>1. Has(new, new[m].seq)
          BY DEF Has
        <5>2. new[m].seq \in S
          BY <2>4, <5>1
        <5>3. new[m].seq \in KnownOf(journal)
          BY <2>2, <5>2
        <5> QED
          BY <1>1, <2>2, <5>2, <5>3
      <4> QED
        BY <2>3, <4>1, <4>2
    <3> QED
      BY <3>1
  <2>6. /\ OfFile(c.got \o new, journal)
        /\ \A i : Has(c.got \o new, i) <=> Has(c.got, i) \/ Has(new, i)
        /\ new = <<>> => c.got \o new = c.got
        /\ new # <<>> => c.got \o new # <<>> /\ (c.got \o new)[Len(c.got \o new)] = new[Len(new)]
    <3> DEFINE s == c.got
               u == s \o new
    <3>1. OfFile(s, journal) /\ OfFile(new, journal) /\ \A k \in DOMAIN s : \A m \in DOMAIN new : s[k].seq < new[m].seq
      BY <2>3, <2>4, <2>5
    <3>2. u = s \o new
      OBVIOUS
    <3> HIDE DEF s, u
    <3>3. OneAfter(s, new, u, journal)
      BY <3>1, <3>2, JoinedAs
    <3> QED
      BY <3>3 DEF OneAfter, u, s
  <2> DEFINE g == c.got \o new
  <2>7. l \in Nat /\ g \in Seq(Entry)
    <3>1. CASE new = <<>>
      BY <2>3, <2>6, <3>1 DEF OfFile
    <3>2. CASE new # <<>>
      <4>1. Len(new) \in DOMAIN new
        BY <2>4, <3>2 DEF OfFile
      <4>2. new[Len(new)].seq \in Nat
        BY <2>4, <4>1, EntryFields DEF OfFile
      <4> QED
        BY <2>6, <3>2, <4>2 DEF OfFile
    <3> QED
      BY <3>1, <3>2
  <2> HIDE DEF g
  <2>8. /\ d \in Client /\ d.queue = c.queue /\ d.got = g /\ d.proj = c.proj /\ d.gap = c.gap
        /\ d.pc = "project" /\ d.last = l /\ d.lagged = c.lagged
    <3>1. d = [c EXCEPT !.pc = "project", !.got = g, !.last = l]
      BY DEF g
    <3> HIDE DEF d, c, l
    <3> QED
      BY <1>1, <2>7, <3>1 DEF Client
  <2>9. M!LastGot(d) = l
    BY <2>3, <2>6, <2>8 DEF M!LastGot, g
  <2>10. OfFile(d.got, journal) /\ \A i : Has(d.got, i) <=> Has(c.got, i) \/ Has(new, i)
    BY <2>6, <2>8 DEF g
  <2> HIDE DEF d, l
  <2>11. Got(d, journal)
    <3>1. ASSUME ~c.gap, NEW i \in KnownOf(journal) PROVE Has(d.got, i)
      <4>1. CASE i <= c.last
        <5>1. Has(c.got, i)
          BY <1>1, <2>3, <3>1, <4>1 DEF Told, Got
        <5> QED
          BY <2>10, <5>1
      <4>2. CASE i > c.last
        BY <2>2, <2>4, <2>10, <4>2
      <4> QED
        BY <1>1, <2>3, <4>1, <4>2
    <3> QED
      BY <2>8, <2>10, <3>1 DEF Got
  <2>12. Coming(d, journal, v)
    <3>1. SUFFICES ASSUME ~d.gap, NEW i \in KnownOf(journal), d.last < i PROVE FALSE
      BY DEF Coming
    <3>2. Has(d.got, i)
      <4>1. CASE i <= c.last
        <5>1. Has(c.got, i)
          BY <1>1, <2>3, <2>8, <3>1, <4>1 DEF Told, Got
        <5> QED
          BY <2>10, <5>1
      <4>2. CASE i > c.last
        BY <2>2, <2>4, <2>10, <4>2
      <4> QED
        BY <1>1, <2>3, <4>1, <4>2
    <3>3. i <= M!LastGot(d)
      BY <1>1, <2>10, <3>2, LastGotIs
    <3> QED
      BY <1>1, <2>7, <2>8, <2>9, <3>1, <3>3
  <2>13. Queued(d, journal, v) /\ CursorIsLast(d)
    BY <1>1, <2>8, <2>9 DEF Told, Queued, CursorIsLast
  <2>14. Told(d, journal, v)
    BY <2>11, <2>12, <2>13 DEF Told
  <2> HIDE DEF c
  <2> QED
    BY <1>1, <1>2, <1>3, <2>1, <2>8, <2>14, OneClient
<1> QED
  BY <1>4, <1>5 DEF M!SendBacklog

LEMMA RecvKeeps ==
    ASSUME M!MonitorAssumption, Followed, NEW b \in Browser, M!Recv(b)
    PROVE  Followed'
<1> DEFINE c == client[b]
           e == Head(c.queue)
           f == [c EXCEPT !.queue = Tail(c.queue)]
           d == IF e.seq <= c.last THEN f
                ELSE [f EXCEPT !.pc = "project", !.last = e.seq, !.got = Append(c.got, e)]
           v == slot.view.last
<1>1. /\ c \in Client /\ client \in [Browser -> Client] /\ Told(c, journal, v)
      /\ c.pc = "recv" /\ ~c.lagged /\ c.queue # <<>>
      /\ Len(c.queue) <= Capacity /\ c.proj <= Len(journal) /\ Places(journal)
      /\ faults \in 0 .. MaxFaults /\ v \in Nat /\ Capacity \in Nat
      /\ KnownOf(journal) \subseteq 1 .. Len(journal) /\ Len(journal) \in Nat
  BY DEF Followed, ClientTyped, ToldInv, FileTyped, SlotTyped, M!Recv, M!MonitorAssumption
<1>2. client' = [client EXCEPT ![b] = d] /\ UNCHANGED <<journal, exists, slot, track, load, faults>>
  BY <1>1 DEF M!Recv, Client
<1>3. slot'.view = slot.view /\ SlotTyped'
  BY <1>2, SlotKept
<1>4. /\ e \in Entry /\ e.seq \in KnownOf(journal) /\ e = journal[e.seq]
      /\ OfFile(Tail(c.queue), journal)
      /\ \A k \in DOMAIN Tail(c.queue) : Has(c.queue, Tail(c.queue)[k].seq)
      /\ \A i : Has(c.queue, i) => Has(Tail(c.queue), i) \/ i = e.seq
      /\ \A k \in DOMAIN c.queue : e.seq <= c.queue[k].seq
      /\ Len(Tail(c.queue)) <= Len(c.queue) /\ Has(c.queue, e.seq)
  BY <1>1, OneLess DEF Told, Queued
<1>5. OfFile(c.got, journal) /\ c.last = M!LastGot(c) /\ c.last \in Nat /\ e.seq \in Nat
  BY <1>1, <1>4 DEF Told, Got, CursorIsLast, Client
<1> DEFINE q == Tail(c.queue)
<1> HIDE DEF e, q
<1>6. q \in Seq(Entry) /\ OfFile(q, journal) /\ Len(q) <= Capacity
  <2>1. Len(q) \in Nat /\ Len(c.queue) \in Nat
    BY <1>1, <1>4 DEF q, OfFile, Client
  <2> QED
    BY <1>1, <1>4, <2>1 DEF q, OfFile
<1>7. \A k \in DOMAIN q : q[k].seq <= v
  <2>1. ASSUME NEW k \in DOMAIN q PROVE q[k].seq <= v
    <3>1. PICK m \in DOMAIN c.queue : c.queue[m].seq = q[k].seq
      BY <1>4 DEF q, Has
    <3> QED
      BY <1>1, <3>1 DEF Told, Queued
  <2> QED
    BY <2>1
<1>8. /\ f \in Client /\ f.queue = q /\ f.got = c.got /\ f.last = c.last /\ f.gap = c.gap
      /\ f.pc = "recv" /\ ~f.lagged /\ f.proj = c.proj
  BY <1>1, <1>6 DEF Client, q
<1> HIDE DEF f
<1>9. d \in Client /\ Told(d, journal, v) /\ d.queue = q /\ d.proj = c.proj
  <2>1. CASE e.seq <= c.last
    <3>1. d = f
      BY <2>1
    <3>2. M!LastGot(f) = M!LastGot(c)
      BY <1>8 DEF M!LastGot
    <3>3. Queued(f, journal, v) /\ Got(f, journal) /\ CursorIsLast(f)
      BY <1>1, <1>6, <1>7, <1>8, <3>2 DEF Told, Queued, Got, CursorIsLast
    <3>4. Coming(f, journal, v)
      <4>1. SUFFICES ASSUME ~c.gap, NEW i \in KnownOf(journal), c.last < i, i <= v PROVE Has(q, i)
        BY <1>8 DEF Coming
      <4>2. Has(c.queue, i) /\ i # e.seq
        BY <1>1, <1>5, <2>1, <4>1 DEF Told, Coming
      <4> QED
        BY <1>4, <4>2 DEF q
    <3> QED
      BY <1>8, <3>1, <3>3, <3>4 DEF Told
  <2>2. CASE ~(e.seq <= c.last)
    <3> DEFINE g == Append(c.got, e)
    <3>1. c.last < e.seq
      BY <1>5, <2>2
    <3>2. \A k \in DOMAIN c.got : c.got[k].seq < e.seq
      <4>1. ASSUME NEW k \in DOMAIN c.got PROVE c.got[k].seq < e.seq
        <5>1. c.got[k].seq <= c.last /\ c.got[k].seq \in Nat
          BY <1>1, <1>5, LastGotIs, EntryFields DEF OfFile
        <5> QED
          BY <1>5, <3>1, <5>1
      <4> QED
        BY <4>1
    <3>3. /\ OfFile(g, journal) /\ \A i : Has(c.got, i) => Has(g, i)
          /\ Has(g, e.seq)
      BY <1>4, <1>5, <3>2, OneMore
    <3>4. g \in Seq(Entry) /\ g # <<>> /\ g[Len(g)] = e
      <4>1. c.got \in Seq(Entry)
        BY <1>5 DEF OfFile
      <4>2. g \in Seq(Entry) /\ g # <<>> /\ Len(g) = Len(c.got) + 1 /\ g[Len(c.got) + 1] = e
        BY <1>4, <4>1, EntryAppended
      <4> QED
        BY <4>2
    <3> HIDE DEF g
    <3>5. d = [f EXCEPT !.pc = "project", !.last = e.seq, !.got = g]
      BY <2>2 DEF g
    <3>6. /\ d \in Client /\ d.queue = q /\ d.got = g /\ d.last = e.seq /\ d.gap = c.gap
          /\ d.pc = "project" /\ d.proj = c.proj
      BY <1>5, <1>8, <3>4, <3>5 DEF Client
    <3> HIDE DEF d
    <3>7. M!LastGot(d) = e.seq
      BY <3>4, <3>6 DEF M!LastGot
    <3>8. Got(d, journal)
      <4>1. ASSUME ~c.gap, NEW i \in KnownOf(journal), i <= e.seq PROVE Has(g, i)
        <5>1. i \in Nat
          BY <1>1
        <5>2. CASE i = e.seq
          BY <3>3, <5>2
        <5>3. CASE i <= c.last
          BY <1>1, <1>5, <3>3, <4>1, <5>3 DEF Told, Got
        <5>4. CASE c.last < i /\ i < e.seq
          <6>1. PICK m \in DOMAIN c.queue : c.queue[m].seq = e.seq
            BY <1>4 DEF Has
          <6>2. e.seq <= v
            BY <1>1, <6>1 DEF Told, Queued
          <6>3. i <= v
            BY <1>1, <1>5, <5>1, <5>4, <6>2
          <6>4. Has(c.queue, i)
            BY <1>1, <4>1, <5>4, <6>3 DEF Told, Coming
          <6>5. e.seq <= i
            BY <1>4, <6>4 DEF Has
          <6> QED
            BY <1>5, <5>1, <5>4, <6>5
        <5> QED
          BY <1>5, <4>1, <5>1, <5>2, <5>3, <5>4
      <4> QED
        BY <3>3, <3>6, <3>7, <4>1 DEF Got
    <3>9. Coming(d, journal, v)
      <4>1. SUFFICES ASSUME ~c.gap, NEW i \in KnownOf(journal), e.seq < i, i <= v PROVE Has(q, i)
        BY <3>6 DEF Coming
      <4>2. c.last < i /\ i # e.seq
        BY <1>1, <1>5, <3>1, <4>1
      <4>3. Has(c.queue, i)
        BY <1>1, <4>1, <4>2 DEF Told, Coming
      <4> QED
        BY <1>4, <4>2, <4>3 DEF q
    <3>10. Queued(d, journal, v) /\ CursorIsLast(d)
      BY <1>6, <1>7, <3>6, <3>7 DEF Queued, CursorIsLast
    <3> QED
      BY <3>6, <3>8, <3>9, <3>10 DEF Told
  <2> QED
    BY <2>1, <2>2
<1> HIDE DEF c, d
<1> QED
  BY <1>1, <1>2, <1>3, <1>6, <1>9, OneClient

LEMMA ProjectionKeeps ==
    ASSUME Followed, NEW b \in Browser, M!SendProjection(b)
    PROVE  Followed'
<1> DEFINE c == client[b]
           v == slot.view.last
           d == [c EXCEPT !.pc = "recv", !.proj = v]
<1>1. /\ c \in Client /\ client \in [Browser -> Client] /\ Told(c, journal, v) /\ c.pc = "project"
      /\ Len(c.queue) <= Capacity /\ faults \in 0 .. MaxFaults
      /\ v \in 0 .. Len(journal) /\ Len(journal) \in Nat
  BY DEF Followed, ClientTyped, ToldInv, FileTyped, SlotTyped, M!SendProjection
<1>2. client' = [client EXCEPT ![b] = d] /\ UNCHANGED <<journal, exists, slot, track, load, faults>>
  BY <1>1 DEF M!SendProjection
<1>3. slot'.view = slot.view /\ SlotTyped'
  BY <1>2, SlotKept
<1> HIDE DEF c, v
<1>4. /\ d \in Client /\ d.queue = c.queue /\ d.got = c.got /\ d.proj = v /\ d.gap = c.gap
      /\ d.pc = "recv" /\ d.last = c.last /\ d.lagged = c.lagged
  <2>1. c \in Client /\ v \in Nat
    BY <1>1
  <2> QED
    BY <2>1 DEF Client
<1>5. M!LastGot(d) = M!LastGot(c)
  BY <1>4 DEF M!LastGot
<1> HIDE DEF d
<1>6. Told(d, journal, v)
  BY <1>1, <1>4, <1>5 DEF Told, Queued, Got, CursorIsLast, Coming
<1>7. d.proj <= Len(journal) /\ Len(d.queue) <= Capacity
  BY <1>1, <1>4
<1> QED
  BY <1>1, <1>2, <1>3, <1>4, <1>6, <1>7, OneClient DEF v

LEMMA LaggedKeeps ==
    ASSUME Followed, NEW b \in Browser, M!Lagged(b)
    PROVE  Followed'
<1> DEFINE c == client[b]
           v == slot.view.last
           d == [c EXCEPT !.lagged = FALSE, !.pc = "read"]
<1>1. /\ c \in Client /\ client \in [Browser -> Client] /\ Told(c, journal, v) /\ c.pc = "recv"
      /\ Len(c.queue) <= Capacity /\ c.proj <= Len(journal) /\ faults \in 0 .. MaxFaults
  BY DEF Followed, ClientTyped, ToldInv, FileTyped, M!Lagged
<1>2. client' = [client EXCEPT ![b] = d] /\ UNCHANGED <<journal, exists, slot, track, load, faults>>
  BY <1>1 DEF M!Lagged
<1>3. slot'.view = slot.view /\ SlotTyped'
  BY <1>2, SlotKept
<1> HIDE DEF c, v
<1>4. /\ d \in Client /\ d.queue = c.queue /\ d.got = c.got /\ d.proj = c.proj /\ d.gap = c.gap
      /\ d.pc = "read" /\ d.last = c.last
  BY <1>1 DEF Client
<1>5. M!LastGot(d) = M!LastGot(c)
  BY <1>4 DEF M!LastGot
<1> HIDE DEF d
<1>6. Told(d, journal, v)
  BY <1>1, <1>4, <1>5 DEF Told, Queued, Got, CursorIsLast, Coming
<1> QED
  BY <1>1, <1>2, <1>3, <1>4, <1>6, OneClient DEF v

LEMMA DisconnectKeeps ==
    ASSUME M!MonitorAssumption, Followed, NEW b \in Browser, M!Disconnect(b)
    PROVE  Followed'
<1> DEFINE c == client[b]
           v == slot.view.last
<1>1. /\ c \in Client /\ client \in [Browser -> Client] /\ Told(c, journal, v)
      /\ c.proj <= Len(journal) /\ faults \in 0 .. MaxFaults /\ Capacity \in Nat
  BY DEF Followed, ClientTyped, ToldInv, FileTyped, M!MonitorAssumption
<1>2. PICK n \in 0 .. Len(c.got) :
         client' = [client EXCEPT ![b].pc = "off", ![b].queue = <<>>, ![b].lagged = FALSE,
                                  ![b].last = 0, ![b].got = SubSeq(@, 1, n)]
  BY DEF M!Disconnect
<1> DEFINE g == SubSeq(c.got, 1, n)
           q == <<>>
           d == [c EXCEPT !.pc = "off", !.queue = q, !.lagged = FALSE, !.last = 0, !.got = g]
<1>3. client' = [client EXCEPT ![b] = d]
  BY <1>1, <1>2
<1>4. UNCHANGED <<journal, exists, slot, track, load, faults>>
  BY DEF M!Disconnect
<1>5. slot'.view = slot.view /\ SlotTyped'
  BY <1>4, SlotKept
<1>6. OfFile(c.got, journal) /\ c.got \in Seq(Entry)
  BY <1>1 DEF Told, Got, Client
<1> HIDE DEF c, v
<1>7. /\ OfFile(g, journal) /\ Len(g) = n /\ DOMAIN g = 1 .. n
      /\ \A k \in 1 .. n : k \in DOMAIN c.got /\ g[k] = c.got[k]
  BY <1>2, <1>6, FirstOnes
<1>8. OfFile(q, journal) /\ Len(q) = 0 /\ DOMAIN q = {} /\ q \in Seq(Entry)
  BY NothingOfFile DEF OfFile
<1>9. g \in Seq(Entry)
  BY <1>7 DEF OfFile
<1> HIDE DEF g, q
<1>10. /\ d \in Client /\ d.queue = q /\ d.got = g /\ d.proj = c.proj /\ d.gap = c.gap /\ d.pc = "off"
  BY <1>1, <1>8, <1>9 DEF Client
<1> HIDE DEF d
<1>11. Queued(d, journal, v) /\ CursorIsLast(d) /\ Coming(d, journal, v)
  BY <1>8, <1>10 DEF Queued, CursorIsLast, Coming
<1>12. Got(d, journal)
  <2>1. SUFFICES ASSUME ~c.gap, NEW i \in KnownOf(journal), i <= M!LastGot(d) PROVE Has(g, i)
    BY <1>7, <1>10 DEF Got
  <2>2. Places(journal) /\ Len(journal) \in Nat /\ KnownOf(journal) \subseteq 1 .. Len(journal)
    BY DEF Followed, FileTyped
  <2>3. i \in Nat /\ i > 0
    BY <2>1, <2>2
  <2>4. /\ M!LastGot(d) \in Nat
        /\ g = <<>> => M!LastGot(d) = 0
        /\ g # <<>> => M!LastGot(d) = g[Len(g)].seq
    BY <1>7, <1>10, <2>2, LastGotIs
  <2>5. g # <<>> /\ M!LastGot(d) = g[n].seq
    BY <1>7, <2>1, <2>3, <2>4
  <2>6. n \in Nat /\ n \in DOMAIN g /\ n \in DOMAIN c.got /\ g[n] = c.got[n]
    BY <1>2, <1>6, <1>7, <1>9, <2>5
  <2>7. c.got[n].seq <= M!LastGot(c) /\ M!LastGot(c) \in Nat /\ c.got[n].seq \in Nat
    BY <1>6, <2>2, <2>6, LastGotIs DEF OfFile
  <2>8. i <= M!LastGot(c)
    BY <2>1, <2>3, <2>5, <2>6, <2>7
  <2>9. Has(c.got, i)
    BY <1>1, <2>1, <2>8 DEF Told, Got
  <2>10. PICK k \in DOMAIN c.got : c.got[k].seq = i
    BY <2>9 DEF Has
  <2>11. k \in Nat /\ k > 0
    BY <1>6, <2>10
  <2>12. k <= n
    <3>1. SUFFICES ASSUME n < k PROVE FALSE
      BY <2>6, <2>11
    <3>2. c.got[n].seq < c.got[k].seq
      BY <1>6, <2>6, <2>10, <3>1 DEF OfFile, M!Growing
    <3> QED
      BY <2>1, <2>3, <2>5, <2>6, <2>7, <2>10, <3>2
  <2>13. k \in 1 .. n
    BY <2>6, <2>11, <2>12
  <2> QED
    BY <1>7, <2>10, <2>13 DEF Has
<1>13. Told(d, journal, v)
  BY <1>11, <1>12 DEF Told
<1>14. Len(d.queue) <= Capacity /\ d.proj <= Len(journal)
  BY <1>1, <1>8, <1>10
<1> QED
  BY <1>1, <1>3, <1>4, <1>5, <1>10, <1>13, <1>14, OneClient DEF v

LEMMA FollowedAtFirst ==
    ASSUME M!MonitorAssumption, M!Init
    PROVE  Followed
<1>1. MaxFaults \in Nat /\ MaxLines \in Nat /\ Capacity \in Nat
  BY DEF M!MonitorAssumption
<1>2. /\ journal = <<>> /\ exists = TRUE /\ faults = 0
      /\ slot = [known |-> FALSE, missing |-> FALSE, view |-> M!EmptyView]
      /\ track = [loaded |-> FALSE, len |-> 0, tail |-> "none", pos |-> 0]
      /\ load = [on |-> FALSE, len |-> 0, todo |-> <<>>]
  BY DEF M!Init
<1>3. journal \in Seq(Entry) /\ Len(journal) = 0 /\ DOMAIN journal = {} /\ KnownOf(journal) = {}
  BY <1>2 DEF KnownOf
<1>4. FileTyped
  BY <1>1, <1>2, <1>3 DEF FileTyped, Places
<1>5. "last" \in DOMAIN M!EmptyView /\ M!EmptyView.last = 0
  BY DEF M!EmptyView
<1>6. SlotTyped
  BY <1>2, <1>3, <1>5 DEF SlotTyped
<1>7. WatchTyped
  BY <1>2, <1>3 DEF WatchTyped
<1>8. ReadIsViewed
  BY <1>3 DEF ReadIsViewed
<1>9. LoadInv
  BY <1>2, <1>3, NothingOfFile DEF LoadInv
<1>10. M!ViewIsFold
  BY <1>2, <1>3, <1>5, FoldIs DEF M!ViewIsFold
<1> DEFINE c == [pc |-> "off", queue |-> <<>>, lagged |-> FALSE, last |-> 0,
                 got |-> <<>>, proj |-> 0, gap |-> FALSE, connects |-> 0]
<1>11. client = [b \in Browser |-> c]
  BY DEF M!Init
<1>12. /\ c \in Client /\ c.queue = <<>> /\ c.got = <<>> /\ c.pc = "off" /\ Len(c.queue) = 0 /\ c.proj = 0
       /\ DOMAIN c.queue = {}
  BY DEF Client
<1> HIDE DEF c
<1>13. Told(c, journal, slot.view.last)
  BY <1>3, <1>12, NothingOfFile DEF Told, Queued, Got, CursorIsLast, Coming
<1>14. ClientTyped /\ ToldInv
  BY <1>1, <1>3, <1>11, <1>12, <1>13 DEF ClientTyped, ToldInv
<1> QED
  BY <1>4, <1>6, <1>7, <1>8, <1>9, <1>10, <1>14 DEF Followed

LEMMA StepKeeps ==
    ASSUME M!MonitorAssumption, Followed, [M!Next]_(M!vars)
    PROVE  Followed'
<1>1. CASE M!Environment
  BY <1>1, EnvironmentKeeps
<1>2. CASE M!Watcher
  BY <1>2, WatcherKeeps
<1>3. CASE M!TailStep
  BY <1>3, TailKeeps
<1>4. ASSUME NEW b \in Browser, M!Connect(b) \/ M!Pump(b) \/ M!Disconnect(b) PROVE Followed'
  BY <1>4, ConnectKeeps, BacklogKeeps, ProjectionKeeps, LaggedKeeps, RecvKeeps, DisconnectKeeps DEF M!Pump
<1>5. CASE UNCHANGED M!vars
  <2>1. UNCHANGED <<journal, exists, slot, track, load, client, faults>>
    BY <1>5 DEF M!vars
  <2> QED
    BY <2>1 DEF Followed, FileTyped, SlotTyped, WatchTyped, ClientTyped, ReadIsViewed, LoadInv, ToldInv, M!ViewIsFold
<1> QED
  BY <1>1, <1>2, <1>3, <1>4, <1>5 DEF M!Next

\* As sets: what a sequence holds, and the lines between two places.
LEMMA HeldAre ==
    ASSUME Places(journal), NEW s, OfFile(s, journal), NEW m, NEW n,
           \A i \in KnownOf(journal) : m < i /\ i <= n => Has(s, i)
    PROVE  /\ \A e \in M!ToSet(s) : /\ e.seq \in KnownOf(journal) /\ e = journal[e.seq] /\ Has(s, e.seq)
           /\ \A e \in M!Between(m, n) : /\ e.seq \in KnownOf(journal) /\ m < e.seq /\ e.seq <= n
                                         /\ e \in M!ToSet(s)
           /\ \A i \in KnownOf(journal) : m < i /\ i <= n => journal[i] \in M!Between(m, n)
<1>1. M!KnownLines = KnownOf(journal)
  BY DEF M!KnownLines, KnownOf
<1>2. \A i \in KnownOf(journal) : journal[i].seq = i
  BY DEF KnownOf, Places
<1>3. M!ToSet(s) = {s[k] : k \in DOMAIN s}
  BY DEF M!ToSet
<1>4. ASSUME NEW e \in M!ToSet(s) PROVE e.seq \in KnownOf(journal) /\ e = journal[e.seq] /\ Has(s, e.seq)
  BY <1>3, <1>4 DEF OfFile, Has
<1>5. ASSUME NEW e \in M!Between(m, n)
      PROVE  e.seq \in KnownOf(journal) /\ m < e.seq /\ e.seq <= n /\ e \in M!ToSet(s)
  <2>1. PICK i \in KnownOf(journal) : m < i /\ i <= n /\ e = journal[i]
    BY <1>1, <1>5 DEF M!Between
  <2>2. e.seq = i
    BY <1>2, <2>1
  <2>3. PICK k \in DOMAIN s : s[k].seq = i
    BY <2>1 DEF Has
  <2>4. s[k] = journal[i]
    BY <2>3 DEF OfFile
  <2> QED
    BY <1>3, <2>1, <2>2, <2>3, <2>4
<1>6. ASSUME NEW i \in KnownOf(journal), m < i, i <= n PROVE journal[i] \in M!Between(m, n)
  BY <1>1, <1>6 DEF M!Between
<1> QED
  BY <1>4, <1>5, <1>6

LEMMA OnlyHeld ==
    ASSUME Places(journal), NEW s, OfFile(s, journal), NEW n \in Nat,
           \A k \in DOMAIN s : s[k].seq <= n
    PROVE  \A e \in M!ToSet(s) : \A m \in Nat : m < e.seq => e \in M!Between(m, n)
<1>1. SUFFICES ASSUME NEW e \in M!ToSet(s), NEW m \in Nat, m < e.seq PROVE e \in M!Between(m, n)
  OBVIOUS
<1>2. PICK k \in DOMAIN s : e = s[k]
  BY DEF M!ToSet
<1>3. e.seq \in KnownOf(journal) /\ e = journal[e.seq] /\ e.seq <= n
  BY <1>2 DEF OfFile
<1>4. M!KnownLines = KnownOf(journal)
  BY DEF M!KnownLines, KnownOf
<1> QED
  BY <1>1, <1>3, <1>4 DEF M!Between

LEMMA FollowedIsDelivered ==
    ASSUME M!MonitorAssumption, Followed
    PROVE  M!DeliveredOnce
<1>1. /\ Places(journal) /\ Len(journal) \in Nat /\ KnownOf(journal) \subseteq 1 .. Len(journal)
      /\ M!ViewIsFold /\ slot.view.last \in 0 .. Len(journal)
  BY DEF Followed, FileTyped, SlotTyped
<1>2. M!TypeOK
  BY DEF M!TypeOK, Followed, FileTyped, SlotTyped, WatchTyped, ClientTyped, Client
<1>3. M!LogIsPrefix
  <2>1. SUFFICES ASSUME NEW b \in Browser
                 PROVE  LET c == client[b]
                            all == M!Between(0, M!LastGot(c)) IN
                        /\ M!Growing(c.got)
                        /\ IF c.gap THEN M!ToSet(c.got) \subseteq all ELSE M!ToSet(c.got) = all
    BY DEF M!LogIsPrefix
  <2> DEFINE c == client[b]
             n == M!LastGot(c)
             all == M!Between(0, n)
  <2>2. Got(c, journal) /\ OfFile(c.got, journal) /\ M!Growing(c.got)
    BY DEF Followed, ToldInv, Told, Got, OfFile
  <2> HIDE DEF c
  <2>3. n \in Nat /\ \A k \in DOMAIN c.got : c.got[k].seq <= n
    BY <1>1, <2>2, LastGotIs
  <2> HIDE DEF n
  <2>4. \A e \in M!ToSet(c.got) : \A m \in Nat : m < e.seq => e \in M!Between(m, n)
    BY <1>1, <2>2, <2>3, OnlyHeld
  <2>5. ASSUME NEW e \in M!ToSet(c.got) PROVE e \in all
    <3>1. PICK k \in DOMAIN c.got : e = c.got[k]
      BY DEF M!ToSet
    <3>2. e.seq \in Nat /\ 0 < e.seq
      BY <1>1, <2>2, <3>1 DEF OfFile
    <3> QED
      BY <2>4, <3>2
  <2>6. ASSUME ~c.gap, NEW e \in all PROVE e \in M!ToSet(c.got)
    <3>1. \A i \in KnownOf(journal) : 0 < i /\ i <= n => Has(c.got, i)
      BY <2>2, <2>6 DEF Got, n
    <3>2. \A x \in M!Between(0, n) : x \in M!ToSet(c.got)
      BY <1>1, <2>2, <3>1, HeldAre
    <3> QED
      BY <2>6, <3>2
  <2>7. IF c.gap THEN M!ToSet(c.got) \subseteq all ELSE M!ToSet(c.got) = all
    <3> HIDE DEF all
    <3>1. M!ToSet(c.got) \subseteq all
      BY <2>5
    <3>2. CASE c.gap
      BY <3>1, <3>2
    <3>3. CASE ~c.gap
      <4>1. all \subseteq M!ToSet(c.got)
        BY <2>6, <3>3
      <4>2. M!ToSet(c.got) = all
        BY <3>1, <4>1
      <4> QED
        BY <3>3, <4>2
    <3> QED
      BY <3>2, <3>3
  <2> QED
    BY <2>2, <2>7 DEF c, n
<1>4. M!NothingMissed
  <2>1. SUFFICES ASSUME NEW b \in Browser
                 PROVE  LET c == client[b] IN
                        /\ M!Growing(c.queue)
                        /\ c.pc \in {"project", "recv"} /\ ~c.lagged /\ ~c.gap =>
                              {e \in M!ToSet(c.queue) : e.seq > c.last} = M!Between(c.last, slot.view.last)
    BY DEF M!NothingMissed
  <2> DEFINE c == client[b]
             v == slot.view.last
  <2>2. /\ Queued(c, journal, v) /\ Coming(c, journal, v) /\ OfFile(c.queue, journal)
        /\ M!Growing(c.queue) /\ c.last \in Nat
    BY DEF Followed, ToldInv, Told, Queued, OfFile, ClientTyped, Client
  <2>3. v \in Nat /\ \A k \in DOMAIN c.queue : c.queue[k].seq <= v
    BY <1>1, <2>2 DEF Queued
  <2> HIDE DEF c, v
  <2>4. ASSUME c.pc \in {"project", "recv"} /\ ~c.lagged /\ ~c.gap
        PROVE  {e \in M!ToSet(c.queue) : e.seq > c.last} = M!Between(c.last, v)
    <3>1. \A i \in KnownOf(journal) : c.last < i /\ i <= v => Has(c.queue, i)
      BY <2>2, <2>4 DEF Coming
    <3>2. \A e \in M!Between(c.last, v) : e \in M!ToSet(c.queue) /\ e.seq \in KnownOf(journal) /\ c.last < e.seq
      BY <1>1, <2>2, <3>1, HeldAre
    <3>3. \A e \in M!Between(c.last, v) : e \in M!ToSet(c.queue) /\ e.seq > c.last
      BY <1>1, <2>2, <3>2
    <3>4. \A e \in M!ToSet(c.queue) : \A m \in Nat : m < e.seq => e \in M!Between(m, v)
      BY <1>1, <2>2, <2>3, OnlyHeld
    <3>5. \A e \in M!ToSet(c.queue) : e.seq \in Nat
      BY <1>1, <2>2 DEF M!ToSet, OfFile
    <3>6. \A e \in M!ToSet(c.queue) : e.seq > c.last => e \in M!Between(c.last, v)
      BY <2>2, <3>4, <3>5
    <3> QED
      BY <3>3, <3>6
  <2> QED
    BY <2>2, <2>4 DEF c, v
<1> QED
  BY <1>1, <1>2, <1>3, <1>4 DEF M!DeliveredOnce

\* Between the journal and a page nothing is doubled, dropped or reordered, however loads, the tail,
\* backlogs, broadcasts, lagging and reconnects interleave (watcher.rs, state.rs, sse.rs).
THEOREM EventsAreDelivered ==
    ASSUME M!MonitorAssumption
    PROVE  M!Spec => []M!DeliveredOnce
<1>1. M!Init => Followed
  BY FollowedAtFirst
<1>2. Followed /\ [M!Next]_(M!vars) => Followed'
  BY StepKeeps
<1>3. Followed => M!DeliveredOnce
  BY FollowedIsDelivered
<1> QED
  BY <1>1, <1>2, <1>3, PTL DEF M!Spec
=============================================================================
