---------------------------- MODULE StudioProofs ----------------------------
(***************************************************************************)
(* Proofs about Studio for every set of requests and any number of Epics,  *)
(* faults and killed Monitors: its types; that a marker has one holder;    *)
(* that a single writer replaces proposal.json whole; that an Epic in use  *)
(* has all its Tasks; and that a Plan gets one, unless a creation was      *)
(* abandoned, overtaken or not recorded.                                   *)
(***************************************************************************)
EXTENDS Studio, FiniteSetTheorems, TLAPS

USE StudioAssumption DEF Proposals, Nobody

Marks == {"epic", "pipeline", "one_click"}

Request == [op : Ops \cup {"none"}, flow : {"single", "chain"}, step : Steps,
            form : {Sound, "as is"}, p : Proposals \cup {"none"},
            ino : Inodes \cup {0}, path : Paths]

Process == [job : {"decompose", "build"}, owner : Requests \cup {Nobody},
            step : {"start", "create", "done"},
            p : Proposals \cup {"none", "valid", "invalid"}, path : Paths, out : Nat]

Whole == {e \in DOMAIN epics : epics[e].whole}

Typed ==
    /\ kind \in {"epic", "pipeline"} /\ mode \in {"reviewed", "one_click"}
    /\ ino \in [Inodes -> {"free", "half"} \cup Proposals]
    /\ proposal \in Inodes \cup {0} /\ tmp \in Inodes \cup {0}
    /\ result \in {<<>>} \cup {<<e>> : e \in Whole}
    /\ markers \subseteq Marks /\ stale \subseteq Marks
    /\ epics \in Seq([p : Proposals, whole : BOOLEAN]) /\ Len(epics) <= MaxEpics
    /\ dot \in [Paths -> {"none", "valid", "invalid"}]
    /\ runs \subseteq Paths
    /\ req \in [Requests -> Request] /\ procs \subseteq Process
    /\ overlapped \in BOOLEAN /\ troubled \in BOOLEAN

\* What a request has at the steps of write_atomic, and that the one-click
\* request itself is not yet part of its chain.
StepInv ==
    \A r \in Requests :
       /\ req[r].step = "read" => req[r].op \in {"save", "create"}
       /\ req[r].step \in {"open", "write", "rename"} =>
            req[r].op \in {"generate", "save", "create"} /\ req[r].p \in Proposals
       /\ req[r].op = "one_click" => req[r].flow = "single"
       /\ req[r].ino # 0 <=> Writing(r)

\* What a process decomposes, and that the Epic it answers with is whole.
ProcInv ==
    \A c \in procs : c.job = "decompose" =>
       /\ c.out # 0 => c.step = "done" /\ c.out \in Whole
       /\ c.step = "create" => c.p \in Proposals

\* The inodes in use are proposal.json, its temporary file, and what requests
\* had open when the last rename succeeded, so that one more is always free.
Used == {i \in Inodes : ino[i] # "free"}

FileInv ==
    /\ tmp # 0 => tmp # proposal
    /\ Cardinality(Used \ {proposal, tmp}) <= Cardinality(Requests)
    /\ proposal # 0 => ino[proposal] # "free"
    /\ tmp # 0 => ino[tmp] # "free"
    /\ \A r \in Requests : Writing(r) => ino[req[r].ino] # "free"

\* As long as requests write one at a time, the one that writes has opened the
\* temporary file, which is whole once it is to be renamed.
AtomicInv ==
    ~overlapped =>
       /\ \A r, s \in Requests : Writing(r) /\ Writing(s) => r = s
       /\ \A r \in Requests : Writing(r) => req[r].ino = tmp
       /\ \A r \in Requests : req[r].step = "write" => ino[tmp] = "half"
       /\ \A r \in Requests : req[r].step = "rename" => ino[tmp] \in Proposals
       /\ proposal # 0 => ino[proposal] \in Proposals

Base == Typed /\ StepInv /\ ProcInv /\ FileInv

----------------------------------------------------------------------------
(* The state a request goes to.                                            *)

LEMMA Idles ==
    /\ Idle \in Request
    /\ Idle.step = "idle" /\ Idle.ino = 0 /\ Idle.op = "none" /\ Idle.flow = "single" /\ Idle.path = 0
  BY DEF Idle, Request, Ops, Steps, Paths

LEMMA Replies ==
    ASSUME Typed, NEW r \in Requests, req' = Reply(r)
    PROVE  /\ req' \in [Requests -> Request]
           /\ req'[r] = Idle
           /\ \A o \in Requests \ {r} : req'[o] = req[o]
  BY Idles DEF Reply, Typed

LEMMA Ats ==
    ASSUME Typed, NEW r \in Requests, NEW step \in Steps, req' = At(r, step)
    PROVE  /\ req' \in [Requests -> Request]
           /\ req'[r] = [req[r] EXCEPT !.step = step]
           /\ \A o \in Requests \ {r} : req'[o] = req[o]
<1>1. req \in [Requests -> Request]
  BY DEF Typed
<1>2. [req[r] EXCEPT !.step = step] \in Request
  BY <1>1 DEF Request
<1> QED
  BY <1>1, <1>2 DEF At

\* x is a request of the chain at its next step.
InChain(x, op, step) ==
    x.op = op /\ x.step = step /\ x.flow = "chain" /\ x.ino = 0 /\ x.path = 0

LEMMA Chained ==
    ASSUME NEW op \in Ops, NEW step \in Steps,
           NEW x, x = [Idle EXCEPT !.flow = "chain", !.op = op, !.step = step]
    PROVE  x \in Request /\ InChain(x, op, step)
<1>1. 0 \in Paths
  BY DEF Paths
<1> QED
  BY <1>1 DEF Request, Idle, InChain

LEMMA Afters ==
    ASSUME Typed, NEW r \in Requests, NEW op \in Ops, NEW step \in Steps,
           req' = After(r, <<op, step>>)
    PROVE  /\ req' \in [Requests -> Request]
           /\ \A o \in Requests \ {r} : req'[o] = req[o]
           /\ \/ req[r].flow = "single" /\ req'[r] = Idle
              \/ req[r].flow = "chain" /\ InChain(req'[r], op, step)
<1>1. req \in [Requests -> Request]
  BY DEF Typed
<1>2. req[r].flow \in {"single", "chain"}
  BY <1>1 DEF Request
<1>3. CASE req[r].flow = "single"
  <2>1. req' = [req EXCEPT ![r] = Idle]
    BY <1>3 DEF After
  <2> QED
    BY <1>1, <1>3, <2>1, Idles
<1>4. CASE req[r].flow = "chain"
  <2>1. PICK x : x = [Idle EXCEPT !.flow = "chain", !.op = op, !.step = step]
    OBVIOUS
  <2>2. req' = [req EXCEPT ![r] = x]
    BY <1>4, <2>1 DEF After
  <2>3. x \in Request /\ InChain(x, op, step)
    BY <2>1, Chained
  <2> QED
    BY <1>1, <1>4, <2>2, <2>3
<1> QED
  BY <1>2, <1>3, <1>4

LEMMA Freed ==
    ASSUME Typed, FileInv, tmp = 0
    PROVE  \E i \in Inodes : i # proposal /\ ino[i] = "free"
<1> DEFINE N == Cardinality(Requests)
           T == {i \in Inodes : ino[i] # "free"} \ {proposal, tmp}
<1>1. N \in Nat
  BY FS_CardinalityType
<1>2. IsFiniteSet(Inodes) /\ Cardinality(Inodes) = N + 2
  <2>1. 1 <= N + 2 /\ IsFiniteSet(1..(N + 2)) /\ Cardinality(1..(N + 2)) = N + 2
    BY <1>1, FS_Interval
  <2> QED
    BY <2>1 DEF Inodes
<1>3. IsFiniteSet(T) /\ Cardinality(T) <= N /\ Cardinality(T) \in Nat
  <2>1. IsFiniteSet(T)
    BY <1>2, FS_Subset
  <2> QED
    BY <2>1, FS_CardinalityType DEF FileInv, Used
<1> HIDE DEF T
<1>4. IsFiniteSet(T \cup {proposal}) /\ Cardinality(T \cup {proposal}) <= N + 1
  <2>1. IsFiniteSet(T \cup {proposal}) /\ Cardinality(T \cup {proposal}) \in {Cardinality(T), Cardinality(T) + 1}
    BY <1>3, FS_AddElement
  <2> QED
    BY <1>1, <1>3, <2>1
<1>5. ASSUME Inodes \subseteq T \cup {proposal} PROVE FALSE
  <2>1. Cardinality(Inodes) <= Cardinality(T \cup {proposal})
    BY <1>4, <1>5, FS_Subset
  <2> QED
    BY <1>1, <1>2, <1>4, <2>1, FS_CardinalityType
<1>6. PICK i \in Inodes : i \notin T /\ i # proposal
  BY <1>5
<1>7. i # 0
  BY <1>1 DEF Inodes
<1> QED
  BY <1>6, <1>7 DEF T

\* What OpenTmp opens: the temporary file, or one that nobody uses.
LEMMA Opens ==
    ASSUME Base, NEW r \in Requests, OpenTmp(r)
    PROVE  \E i \in Inodes :
              /\ i # proposal
              /\ tmp # 0 => i = tmp
              /\ tmp = 0 => ino[i] = "free"
              /\ ino' = [ino EXCEPT ![i] = "half"] /\ tmp' = i
              /\ req' = [req EXCEPT ![r].ino = i, ![r].step = "write"]
<1>1. CASE tmp # 0
  <2>1. tmp \in Inodes /\ tmp # proposal
    BY <1>1 DEF Base, Typed, FileInv
  <2> QED
    BY <1>1, <2>1 DEF OpenTmp
<1>2. CASE tmp = 0
  <2> DEFINE fresh == CHOOSE i \in Inodes : i # proposal /\ ino[i] = "free"
  <2>1. fresh \in Inodes /\ fresh # proposal /\ ino[fresh] = "free"
    BY <1>2, Freed DEF Base
  <2>2. /\ ino' = [ino EXCEPT ![fresh] = "half"] /\ tmp' = fresh
        /\ req' = [req EXCEPT ![r].ino = fresh, ![r].step = "write"]
    BY <1>2 DEF OpenTmp
  <2> HIDE DEF fresh
  <2> QED
    BY <1>2, <2>1, <2>2
<1> QED
  BY <1>1, <1>2

LEMMA EditsToProposal ==
    ASSUME Typed, NEW r \in Requests, EditedProposal(r) # <<>>
    PROVE  EditedProposal(r)[1] \in Proposals
  BY DEF EditedProposal, Saved, Typed, Request

\* Where the Pipeline of a Plan with an Epic is.
LEMMA ContextPath ==
    ASSUME Typed
    PROVE  (IF kind = "epic" /\ result # <<>> THEN result[1] ELSE 0) \in Paths
<1>1. Len(epics) \in 0..MaxEpics /\ DOMAIN epics = 1..Len(epics)
  BY DEF Typed
<1>2. Whole \subseteq Paths /\ 0 \in Paths
  BY <1>1 DEF Whole, Paths
<1>3. result # <<>> => result[1] \in Whole
  BY DEF Typed
<1> QED
  BY <1>2, <1>3

\* The actions of a request: only its own record changes, to another record.
LEMMA OwnRecord ==
    ASSUME Base, NEW r \in Requests, Ask(r) \/ Handle(r) \/ Disconnect(r)
    PROVE  /\ req' \in [Requests -> Request]
           /\ \A o \in Requests \ {r} : req'[o] = req[o]
<1>0. req \in [Requests -> Request] /\ req[r] \in Request
  BY DEF Base, Typed
<1>1. CASE Ask(r)
  <2>1. PICK op \in Ops, f \in {Sound, "as is"} :
         req' = [req EXCEPT ![r] = [Idle EXCEPT
                !.op = op, !.form = f,
                !.step = CASE op = "generate" -> "propose" [] op = "save" -> "read" [] op = "create" -> "check"
                           [] op = "one_click" -> "mark" [] OTHER -> "context"]]
    BY <1>1 DEF Ask
  <2>2. (CASE op = "generate" -> "propose" [] op = "save" -> "read" [] op = "create" -> "check"
                           [] op = "one_click" -> "mark" [] OTHER -> "context") \in Steps
    BY DEF Steps
  <2> QED
    BY <1>0, <2>1, <2>2, Idles DEF Request
<1>2. CASE OpenTmp(r)
  <2>1. PICK i \in Inodes : req' = [req EXCEPT ![r].ino = i, ![r].step = "write"]
    BY <1>2, Opens
  <2> QED
    BY <1>0, <2>1 DEF Request, Steps
<1>3. CASE WriteTmp(r)
  <2>1. req' = At(r, "rename") /\ "rename" \in Steps
    BY <1>3 DEF WriteTmp, Steps
  <2> QED
    BY <2>1, Ats DEF Base
<1>4. CASE RenameTmp(r)
  <2>1. [req[r] EXCEPT !.step = "await", !.ino = 0] \in Request
    BY <1>0 DEF Request, Steps
  <2>2. CASE req' = Reply(r)
    BY <2>2, Replies DEF Base
  <2>3. CASE req' = [req EXCEPT ![r].step = "await", ![r].ino = 0]
    BY <1>0, <2>1, <2>3
  <2>4. CASE req' = After(r, <<"create", "check">>)
    <3>1. "create" \in Ops /\ "check" \in Steps
      BY DEF Ops, Steps
    <3> QED
      BY <2>4, <3>1, Afters DEF Base
  <2> QED
    BY <1>4, <2>2, <2>3, <2>4 DEF RenameTmp
<1>5. CASE Proposed(r)
  <2>1. CASE req' = Reply(r)
    BY <2>1, Replies DEF Base
  <2>2. ASSUME NEW p \in Proposals, req' = [req EXCEPT ![r].p = p, ![r].step = "open"]
        PROVE  req' \in [Requests -> Request] /\ \A o \in Requests \ {r} : req'[o] = req[o]
    BY <1>0, <2>2 DEF Request, Steps
  <2> QED
    BY <1>5, <2>1, <2>2 DEF Proposed
<1>6. CASE ReadAndEdit(r)
  <2>1. EditedProposal(r) # <<>> => EditedProposal(r)[1] \in Proposals
    BY EditsToProposal DEF Base
  <2>2. CASE req' = Reply(r)
    BY <2>2, Replies DEF Base
  <2>3. ASSUME NEW p \in Proposals, req' = [req EXCEPT ![r].p = p, ![r].step = "open"]
        PROVE  req' \in [Requests -> Request] /\ \A o \in Requests \ {r} : req'[o] = req[o]
    BY <1>0, <2>3 DEF Request, Steps
  <2> QED
    BY <1>6, <2>1, <2>2, <2>3 DEF ReadAndEdit
<1>7. CASE CheckResult(r) \/ MarkEpic(r) \/ StartRun(r) \/ BeginBuild(r)
  <2>1. \/ req' = Reply(r)
        \/ \E s \in Steps : req' = At(r, s)
    BY <1>7 DEF CheckResult, MarkEpic, StartRun, BeginBuild, Refuse, Steps
  <2> QED
    BY <2>1, Replies, Ats DEF Base
<1>8. CASE RecordEpic(r)
  <2>1. req' = Reply(r) \/ req' = After(r, <<"build", "context">>)
    BY <1>8 DEF RecordEpic
  <2>2. "build" \in Ops /\ "context" \in Steps
    BY DEF Ops, Steps
  <2> QED
    BY <2>1, <2>2, Replies, Afters DEF Base
<1>9. CASE StartChain(r)
  <2> DEFINE gen == [req[r] EXCEPT !.flow = "chain", !.op = "generate", !.step = "propose"]
             bld == [req[r] EXCEPT !.flow = "chain", !.op = "build", !.step = "context"]
  <2>1. gen \in Request /\ bld \in Request
    BY <1>0 DEF Request, Ops, Steps
  <2>2. \/ req' = Reply(r)
        \/ req' = [req EXCEPT ![r] = gen]
        \/ req' = [req EXCEPT ![r] = bld]
    BY <1>9 DEF StartChain
  <2> HIDE DEF gen, bld
  <2> QED
    BY <1>0, <2>1, <2>2, Replies DEF Base
<1>10. CASE ReadContext(r)
  <2>1. \/ req' = Reply(r)
        \/ \E path \in Paths, s \in Steps : req' = [req EXCEPT ![r].path = path, ![r].step = s]
    BY <1>10, ContextPath DEF ReadContext, Refuse, Steps, Base
  <2>2. ASSUME NEW path \in Paths, NEW s \in Steps, req' = [req EXCEPT ![r].path = path, ![r].step = s]
        PROVE  req' \in [Requests -> Request] /\ \A o \in Requests \ {r} : req'[o] = req[o]
    BY <1>0, <2>2 DEF Request
  <2> QED
    BY <2>1, <2>2, Replies DEF Base
<1>11. CASE Built(r)
  <2>1. [req[r] EXCEPT !.op = "launch", !.step = "verify"] \in Request
    BY <1>0 DEF Request, Ops, Steps
  <2>2. \/ req' = Reply(r)
        \/ req' = [req EXCEPT ![r].op = "launch", ![r].step = "verify"]
    BY <1>11 DEF Built
  <2> QED
    BY <1>0, <2>1, <2>2, Replies DEF Base
<1>12. CASE ChangeDot(r) \/ AwaitRun(r) \/ Disconnect(r)
  <2>1. req' = Reply(r)
    BY <1>12 DEF ChangeDot, AwaitRun, Disconnect, Refuse
  <2> QED
    BY <2>1, Replies DEF Base
<1> QED
  BY <1>1, <1>2, <1>3, <1>4, <1>5, <1>6, <1>7, <1>8, <1>9, <1>10, <1>11, <1>12 DEF Handle

----------------------------------------------------------------------------
(* What a request has at its steps.                                        *)

\* The calls that write_atomic makes.
Atomic(r) == OpenTmp(r) \/ WriteTmp(r) \/ RenameTmp(r)

LEMMA OwnStep ==
    ASSUME Base, NEW r \in Requests, Ask(r) \/ Handle(r) \/ Disconnect(r)
    PROVE  /\ req'[r].step = "read" => req'[r].op \in {"save", "create"}
           /\ req'[r].step \in {"open", "write", "rename"} =>
                req'[r].op \in {"generate", "save", "create"} /\ req'[r].p \in Proposals
           /\ req'[r].op = "one_click" => req'[r].flow = "single"
           /\ req'[r].ino # 0 <=> req'[r].step \in {"write", "rename"}
           /\ Atomic(r) \/ req'[r].step \notin {"write", "rename"}
<1>0. /\ req \in [Requests -> Request] /\ req[r] \in Request /\ Typed
      /\ req[r].step = "read" => req[r].op \in {"save", "create"}
      /\ req[r].step \in {"open", "write", "rename"} =>
           req[r].op \in {"generate", "save", "create"} /\ req[r].p \in Proposals
      /\ req[r].op = "one_click" => req[r].flow = "single"
      /\ req[r].ino # 0 <=> req[r].step \in {"write", "rename"}
  BY DEF Base, Typed, StepInv, Writing
<1>r. CASE req' = Reply(r)
  BY <1>0, <1>r, Replies, Idles
<1>1. CASE Ask(r)
  <2>1. PICK op \in Ops, f \in {Sound, "as is"} :
         req' = [req EXCEPT ![r] = [Idle EXCEPT
                !.op = op, !.form = f,
                !.step = CASE op = "generate" -> "propose" [] op = "save" -> "read" [] op = "create" -> "check"
                           [] op = "one_click" -> "mark" [] OTHER -> "context"]]
    BY <1>1 DEF Ask
  <2>2. PICK s : s = (CASE op = "generate" -> "propose" [] op = "save" -> "read" [] op = "create" -> "check"
                        [] op = "one_click" -> "mark" [] OTHER -> "context")
    OBVIOUS
  <2>3. req'[r] = [Idle EXCEPT !.op = op, !.form = f, !.step = s]
    BY <1>0, <2>1, <2>2
  <2>4. req'[r].op = op /\ req'[r].flow = "single" /\ req'[r].step = s /\ req'[r].ino = 0
    BY <2>3 DEF Idle
  <2> QED
    BY <2>2, <2>4
<1>a. OpenTmp(r) \/ WriteTmp(r) \/ RenameTmp(r) => Atomic(r)
  BY DEF Atomic
<1>2. CASE OpenTmp(r)
  <2>1. PICK i \in Inodes : req' = [req EXCEPT ![r].ino = i, ![r].step = "write"]
    BY <1>2, Opens
  <2>2. i # 0
    BY DEF Inodes
  <2>3. req'[r] = [req[r] EXCEPT !.ino = i, !.step = "write"]
    BY <1>0, <2>1
  <2>4. req[r].step = "open"
    BY <1>2 DEF OpenTmp
  <2> QED
    BY <1>0, <1>2, <1>a, <2>2, <2>3, <2>4 DEF Request
<1>3. CASE WriteTmp(r)
  <2>1. req' = At(r, "rename") /\ "rename" \in Steps /\ req[r].step = "write"
    BY <1>3 DEF WriteTmp, Steps
  <2>2. req'[r] = [req[r] EXCEPT !.step = "rename"]
    BY <1>0, <2>1, Ats
  <2> QED
    BY <1>0, <1>3, <1>a, <2>1, <2>2 DEF Request
<1>4. CASE RenameTmp(r)
  <2>1. CASE req' = [req EXCEPT ![r].step = "await", ![r].ino = 0]
    BY <1>0, <1>4, <2>1, <1>a DEF RenameTmp, Request
  <2>2. CASE req' = After(r, <<"create", "check">>)
    <3>1. "create" \in Ops /\ "check" \in Steps
      BY DEF Ops, Steps
    <3> QED
      BY <1>0, <2>2, <3>1, Afters, Idles, <1>a DEF InChain
  <2> QED
    BY <1>4, <1>r, <2>1, <2>2 DEF RenameTmp
<1>5. CASE Proposed(r)
  <2>1. ASSUME NEW p \in Proposals, req' = [req EXCEPT ![r].p = p, ![r].step = "open"]
        PROVE  req'[r] = [req[r] EXCEPT !.p = p, !.step = "open"]
    BY <1>0, <2>1
  <2> QED
    BY <1>0, <1>5, <1>r, <2>1 DEF Proposed, Op, Request
<1>6. CASE ReadAndEdit(r)
  <2>1. EditedProposal(r) # <<>> => EditedProposal(r)[1] \in Proposals
    BY <1>0, EditsToProposal
  <2>2. ASSUME NEW p \in Proposals, req' = [req EXCEPT ![r].p = p, ![r].step = "open"]
        PROVE  req'[r] = [req[r] EXCEPT !.p = p, !.step = "open"]
    BY <1>0, <2>2
  <2> QED
    BY <1>0, <1>6, <1>r, <2>1, <2>2 DEF ReadAndEdit, Request
<1>7. CASE CheckResult(r) \/ MarkEpic(r) \/ StartRun(r) \/ BeginBuild(r)
  <2>1. CASE /\ \E s \in {"mark", "read", "built", "wait"} : req' = At(r, s) /\ (s = "read" => req[r].op = "create")
             /\ req[r].step \in {"check", "mark", "begin", "verify"}
    <3>1. PICK s \in {"mark", "read", "built", "wait"} : req' = At(r, s) /\ (s = "read" => req[r].op = "create")
      BY <2>1
    <3>2. s \in Steps
      BY DEF Steps
    <3>3. req'[r] = [req[r] EXCEPT !.step = s]
      BY <1>0, <3>1, <3>2, Ats
    <3> QED
      BY <1>0, <2>1, <3>1, <3>3 DEF Request
  <2> QED
    BY <1>7, <1>r, <2>1 DEF CheckResult, MarkEpic, StartRun, BeginBuild, Refuse, Op
<1>8. CASE RecordEpic(r)
  <2>1. CASE req' = After(r, <<"build", "context">>)
    <3>1. "build" \in Ops /\ "context" \in Steps
      BY DEF Ops, Steps
    <3> QED
      BY <1>0, <2>1, <3>1, Afters, Idles DEF InChain
  <2> QED
    BY <1>8, <1>r, <2>1 DEF RecordEpic
<1>9. CASE StartChain(r)
  <2>1. CASE \E o \in {"generate", "build"}, s \in {"propose", "context"} :
                req'[r] = [req[r] EXCEPT !.flow = "chain", !.op = o, !.step = s]
    <3>1. PICK o \in {"generate", "build"}, s \in {"propose", "context"} :
             req'[r] = [req[r] EXCEPT !.flow = "chain", !.op = o, !.step = s]
      BY <2>1
    <3>2. req[r].step = "mark"
      BY <1>9 DEF StartChain, Op
    <3> QED
      BY <1>0, <3>1, <3>2 DEF Request
  <2>2. req' # Reply(r) => \E o \in {"generate", "build"}, s \in {"propose", "context"} :
                req'[r] = [req[r] EXCEPT !.flow = "chain", !.op = o, !.step = s]
    BY <1>0, <1>9 DEF StartChain
  <2> QED
    BY <1>r, <2>1, <2>2
<1>10. CASE ReadContext(r)
  <2>1. ASSUME NEW path, NEW s \in {"begin", "change", "verify"}, req' = [req EXCEPT ![r].path = path, ![r].step = s]
        PROVE  req'[r] = [req[r] EXCEPT !.path = path, !.step = s]
    BY <1>0, <2>1
  <2>2. ASSUME NEW path, NEW s \in {"begin", "change", "verify"}, req'[r] = [req[r] EXCEPT !.path = path, !.step = s]
        PROVE  req'[r].step = s /\ req'[r].op = req[r].op /\ req'[r].flow = req[r].flow /\ req'[r].ino = req[r].ino
    BY <1>0, <2>2 DEF Request
  <2>3. req[r].step = "context"
    BY <1>10 DEF ReadContext
  <2>4. req' # Reply(r) => \E path : \E s \in {"begin", "change", "verify"} : req' = [req EXCEPT ![r].path = path, ![r].step = s]
    <3> DEFINE where == IF kind = "epic" /\ result # <<>> THEN result[1] ELSE 0
               next == CASE req[r].op = "build" -> "begin" [] req[r].op = "edit" -> "change" [] OTHER -> "verify"
    <3>1. next \in {"begin", "change", "verify"}
      OBVIOUS
    <3>2. req' = Reply(r) \/ req' = [req EXCEPT ![r].path = where, ![r].step = next]
      BY <1>10 DEF ReadContext, Refuse
    <3> HIDE DEF where, next
    <3>3. CASE req' = [req EXCEPT ![r].path = where, ![r].step = next]
      BY <3>1, <3>3
    <3> QED
      BY <3>2, <3>3
  <2> QED
    BY <1>0, <1>r, <2>1, <2>2, <2>3, <2>4
<1>11. CASE Built(r)
  <2>1. ASSUME req' = [req EXCEPT ![r].op = "launch", ![r].step = "verify"]
        PROVE  req'[r] = [req[r] EXCEPT !.op = "launch", !.step = "verify"]
    BY <1>0, <2>1
  <2> QED
    BY <1>0, <1>11, <1>r, <2>1 DEF Built, Op, Request
<1>12. CASE ChangeDot(r) \/ AwaitRun(r) \/ Disconnect(r)
  BY <1>12, <1>r DEF ChangeDot, AwaitRun, Disconnect, Refuse
<1> QED
  BY <1>1, <1>2, <1>3, <1>4, <1>5, <1>6, <1>7, <1>8, <1>9, <1>10, <1>11, <1>12 DEF Handle

LEMMA StepsKept ==
    ASSUME Base, [Next]_vars
    PROVE  StepInv' /\ req' \in [Requests -> Request]
<1>0. StepInv /\ req \in [Requests -> Request]
  BY DEF Base, Typed
<1>1. ASSUME NEW r \in Requests, Ask(r) \/ Handle(r) \/ Disconnect(r)
      PROVE  StepInv' /\ req' \in [Requests -> Request]
  <2>1. req' \in [Requests -> Request] /\ \A o \in Requests \ {r} : req'[o] = req[o]
    BY <1>1, OwnRecord
  <2> QED
    BY <1>0, <1>1, <2>1, OwnStep DEF StepInv, Writing
<1>2. CASE Kill
  <2>1. req' = [r \in Requests |-> Idle]
    BY <1>2 DEF Kill
  <2> QED
    BY <2>1, Idles DEF StepInv, Writing
<1>3. ASSUME req' = req PROVE StepInv' /\ req' \in [Requests -> Request]
  BY <1>0, <1>3 DEF StepInv, Writing
<1>4. ASSUME NEW c \in procs, Work(c) PROVE req' = req
  BY <1>4 DEF Work, DecomposeReads, DecomposeCreates, DecomposeFails, BuildEnds, OrphanEnds
<1>5. CASE Done \/ UNCHANGED vars
  BY <1>3, <1>5 DEF Done, vars
<1> QED
  BY <1>1, <1>2, <1>3, <1>4, <1>5 DEF Next

----------------------------------------------------------------------------
(* The files.                                                              *)

\* Nothing but write_atomic and a killed Monitor touches the Proposal's files.
LEMMA FilesStay ==
    ASSUME Base, NEW r \in Requests, Ask(r) \/ Handle(r) \/ Disconnect(r)
    PROVE  \/ Atomic(r)
           \/ /\ ino' = ino /\ proposal' = proposal /\ tmp' = tmp /\ overlapped' = overlapped
              /\ \A o \in Requests : req'[o].step \in {"write", "rename"} \/ req[o].step \in {"write", "rename"} => req'[o] = req[o]
<1>1. \/ Atomic(r)
      \/ ino' = ino /\ proposal' = proposal /\ tmp' = tmp /\ overlapped' = overlapped
  <2>1. CASE Ask(r) \/ Disconnect(r) \/ Proposed(r) \/ ReadAndEdit(r) \/ CheckResult(r) \/ MarkEpic(r) \/ RecordEpic(r)
    BY <2>1 DEF Ask, Disconnect, Proposed, ReadAndEdit, CheckResult, MarkEpic, RecordEpic, disk, ghosts
  <2>2. CASE StartChain(r) \/ ReadContext(r) \/ BeginBuild(r) \/ Built(r) \/ ChangeDot(r) \/ StartRun(r) \/ AwaitRun(r)
    BY <2>2 DEF StartChain, ReadContext, BeginBuild, Built, ChangeDot, StartRun, AwaitRun, ghosts
  <2> QED
    BY <2>1, <2>2 DEF Handle, Atomic
<1>2. Atomic(r) \/ req[r].step \notin {"write", "rename"}
  <2>0. CASE Ask(r)
    BY <2>0, Idles DEF Ask
  <2>1. CASE Disconnect(r) \/ Proposed(r) \/ ReadAndEdit(r) \/ CheckResult(r) \/ MarkEpic(r) \/ RecordEpic(r)
    BY <2>1 DEF Disconnect, Proposed, ReadAndEdit, CheckResult, MarkEpic, RecordEpic, Op
  <2>2. CASE StartChain(r) \/ ReadContext(r) \/ BeginBuild(r) \/ Built(r) \/ ChangeDot(r) \/ StartRun(r) \/ AwaitRun(r)
    BY <2>2 DEF StartChain, ReadContext, BeginBuild, Built, ChangeDot, StartRun, AwaitRun, Op
  <2> QED
    BY <2>0, <2>1, <2>2 DEF Handle, Atomic
<1> QED
  BY <1>1, <1>2, OwnRecord, OwnStep

\* What a step does to the files when it is none of write_atomic's.
FilesAlone ==
    /\ \/ ino' = ino /\ overlapped' = overlapped
          /\ \A o \in Requests : req'[o].step \in {"write", "rename"} \/ req[o].step \in {"write", "rename"} => req'[o] = req[o]
       \/ ino' = Unopened(Requests) /\ overlapped' = overlapped /\ \A o \in Requests : req'[o] = Idle
    /\ proposal' = proposal /\ tmp' = tmp

LEMMA FileSteps ==
    ASSUME Base, [Next]_vars
    PROVE  FilesAlone \/ \E r \in Requests : Atomic(r)
<1>1. ASSUME NEW r \in Requests, Ask(r) \/ Handle(r) \/ Disconnect(r)
      PROVE  FilesAlone \/ Atomic(r)
  BY <1>1, FilesStay DEF FilesAlone
<1>2. CASE Kill
  BY <1>2 DEF Kill, FilesAlone
<1>3. ASSUME NEW c \in procs, Work(c)
      PROVE  ino' = ino /\ proposal' = proposal /\ tmp' = tmp /\ overlapped' = overlapped /\ req' = req
  BY <1>3 DEF Work, DecomposeReads, DecomposeCreates, DecomposeFails, BuildEnds, OrphanEnds, disk, ghosts
<1>4. CASE Done \/ UNCHANGED vars
  BY <1>4 DEF Done, vars, disk, ghosts, FilesAlone
<1> QED
  BY <1>1, <1>2, <1>3, <1>4 DEF Next, FilesAlone

LEMMA FewerUsed ==
    ASSUME Typed, FileInv, NEW U, U \subseteq Used \ {proposal, tmp}
    PROVE  Cardinality(U) <= Cardinality(Requests)
<1>1. Cardinality(Requests) \in Nat
  BY FS_CardinalityType
<1>2. IsFiniteSet(Inodes)
  BY <1>1, FS_Interval DEF Inodes
<1>3. IsFiniteSet(Used \ {proposal, tmp})
  BY <1>2, FS_Subset DEF Used
<1>4. Cardinality(U) <= Cardinality(Used \ {proposal, tmp}) /\ IsFiniteSet(U)
  BY <1>3, FS_Subset
<1>5. Cardinality(Used \ {proposal, tmp}) \in Nat /\ Cardinality(U) \in Nat
  BY <1>3, <1>4, FS_CardinalityType
<1> QED
  BY <1>1, <1>4, <1>5 DEF FileInv

LEMMA HeldAreFew ==
    ASSUME NEW U, U \subseteq {req[o].ino : o \in Requests}
    PROVE  Cardinality(U) <= Cardinality(Requests)
<1> DEFINE f == [o \in Requests |-> req[o].ino]
           I == {req[o].ino : o \in Requests}
<1>1. f \in Surjection(Requests, I)
  BY DEF Surjection
<1>2. IsFiniteSet(I) /\ Cardinality(I) <= Cardinality(Requests)
  BY <1>1, FS_Surjection
<1>3. IsFiniteSet(U) /\ Cardinality(U) <= Cardinality(I)
  BY <1>2, FS_Subset
<1> QED
  BY <1>2, <1>3, FS_CardinalityType

LEMMA FilesKept ==
    ASSUME Base, [Next]_vars
    PROVE  /\ ino' \in [Inodes -> {"free", "half"} \cup Proposals]
           /\ proposal' \in Inodes \cup {0} /\ tmp' \in Inodes \cup {0}
           /\ FileInv'
<1>0. /\ Typed /\ FileInv /\ StepInv
      /\ ino \in [Inodes -> {"free", "half"} \cup Proposals] /\ req \in [Requests -> Request]
      /\ proposal \in Inodes \cup {0} /\ tmp \in Inodes \cup {0} /\ 0 \notin Inodes
  BY DEF Base, Typed, Inodes
<1>1. ASSUME ino' = ino, proposal' = proposal, tmp' = tmp,
             \A o \in Requests : req'[o].step \in {"write", "rename"} => req'[o] = req[o]
      PROVE  FileInv'
  <2>1. Used' = Used
    BY <1>1 DEF Used
  <2>2. \A o \in Requests : Writing(o)' => ino'[req'[o].ino] # "free"
    BY <1>0, <1>1 DEF FileInv, Writing
  <2> QED
    BY <1>0, <1>1, <2>1, <2>2 DEF FileInv
<1>2. ASSUME ino' = Unopened(Requests), proposal' = proposal, tmp' = tmp, \A o \in Requests : req'[o] = Idle
      PROVE  FileInv' /\ ino' \in [Inodes -> {"free", "half"} \cup Proposals]
  <2>1. ino' \in [Inodes -> {"free", "half"} \cup Proposals]
    BY <1>0, <1>2 DEF Unopened
  <2>2. \A i \in Inodes : ino'[i] = IF i \in {proposal, tmp} THEN ino[i] ELSE "free"
    BY <1>2 DEF Unopened
  <2>3. (Used \ {proposal, tmp})' \subseteq Used \ {proposal, tmp}
    BY <1>2, <2>2 DEF Used
  <2>4. (Cardinality(Used \ {proposal, tmp}) <= Cardinality(Requests))'
    BY <1>0, <2>3, FewerUsed
  <2>5. \A o \in Requests : ~Writing(o)'
    BY <1>2, Idles DEF Writing
  <2> QED
    BY <1>0, <1>2, <2>1, <2>2, <2>4, <2>5 DEF FileInv
<1>3. ASSUME NEW r \in Requests, OpenTmp(r)
      PROVE  /\ FileInv' /\ ino' \in [Inodes -> {"free", "half"} \cup Proposals]
             /\ proposal' = proposal /\ tmp' \in Inodes
  <2>1. PICK i \in Inodes :
              /\ i # proposal
              /\ tmp # 0 => i = tmp
              /\ tmp = 0 => ino[i] = "free"
              /\ ino' = [ino EXCEPT ![i] = "half"] /\ tmp' = i
              /\ req' = [req EXCEPT ![r].ino = i, ![r].step = "write"]
    BY <1>3, Opens
  <2>2. proposal' = proposal
    BY <1>3 DEF OpenTmp
  <2>3. (Used \ {proposal, tmp})' \subseteq Used \ {proposal, tmp}
    BY <1>0, <2>1, <2>2 DEF Used
  <2>4. (Cardinality(Used \ {proposal, tmp}) <= Cardinality(Requests))'
    BY <1>0, <2>3, FewerUsed
  <2>5. req'[r].ino = i /\ \A o \in Requests \ {r} : req'[o] = req[o]
    BY <1>0, <2>1 DEF Request
  <2>6. \A o \in Requests : Writing(o)' => ino'[req'[o].ino] # "free"
    <3>1. \A o \in Requests \ {r} : req[o].ino \in Inodes \cup {0} /\ (Writing(o) => req[o].ino # 0 /\ ino[req[o].ino] # "free")
      BY <1>0 DEF Request, StepInv, FileInv
    <3> QED
      BY <1>0, <2>1, <2>5, <3>1 DEF Writing
  <2> QED
    BY <1>0, <2>1, <2>2, <2>4, <2>6 DEF FileInv
<1>4. ASSUME NEW r \in Requests, WriteTmp(r)
      PROVE  /\ FileInv' /\ ino' \in [Inodes -> {"free", "half"} \cup Proposals]
             /\ proposal' = proposal /\ tmp' = tmp
  <2>1. Writing(r) /\ req[r].ino \in Inodes /\ ino[req[r].ino] # "free" /\ req[r].p \in Proposals
    BY <1>0, <1>4 DEF WriteTmp, Writing, StepInv, FileInv, Request
  <2>2. PICK c \in Proposals \cup {"half"} : ino' = [ino EXCEPT ![req[r].ino] = c]
    BY <1>4, <2>1 DEF WriteTmp
  <2>3. proposal' = proposal /\ tmp' = tmp
    BY <1>4 DEF WriteTmp
  <2>4. ino' \in [Inodes -> {"free", "half"} \cup Proposals] /\ \A i \in Inodes : ino'[i] = "free" <=> ino[i] = "free"
    BY <1>0, <2>1, <2>2
  <2>5. Used' = Used
    BY <2>4 DEF Used
  <2>6. \A o \in Requests : req'[o].ino = req[o].ino /\ (Writing(o)' <=> Writing(o))
    <3>1. req' = At(r, "rename") /\ "rename" \in Steps
      BY <1>4 DEF WriteTmp, Steps
    <3>2. req'[r] = [req[r] EXCEPT !.step = "rename"] /\ \A o \in Requests \ {r} : req'[o] = req[o]
      BY <1>0, <3>1, Ats
    <3>3. req'[r].ino = req[r].ino /\ req'[r].step = "rename"
      <4>1. req[r] \in Request
        BY <1>0
      <4> QED
        BY <3>2, <4>1 DEF Request
    <3> QED
      BY <2>1, <3>2, <3>3 DEF Writing
  <2>7. \A o \in Requests : Writing(o) => req[o].ino \in Inodes /\ ino[req[o].ino] # "free"
    BY <1>0 DEF StepInv, FileInv, Request
  <2> QED
    BY <1>0, <2>3, <2>4, <2>5, <2>6, <2>7 DEF FileInv
<1>5. ASSUME NEW r \in Requests, RenameTmp(r)
      PROVE  /\ FileInv' /\ ino' \in [Inodes -> {"free", "half"} \cup Proposals]
             /\ proposal' \in Inodes \cup {0} /\ tmp' \in Inodes \cup {0}
  <2>1. req'[r].ino = 0 /\ \A o \in Requests \ {r} : req'[o] = req[o]
    <3>1. Handle(r)
      BY <1>5 DEF Handle
    <3>2. CASE req' = Reply(r)
      BY <1>0, <3>2, Replies, Idles
    <3>3. CASE req' = [req EXCEPT ![r].step = "await", ![r].ino = 0]
      BY <1>0, <3>3 DEF Request
    <3>4. CASE req' = After(r, <<"create", "check">>)
      <4>1. "create" \in Ops /\ "check" \in Steps
        BY DEF Ops, Steps
      <4> QED
        BY <1>0, <3>4, <4>1, Afters, Idles DEF InChain
    <3> QED
      BY <1>5, <3>2, <3>3, <3>4 DEF RenameTmp
  <2>2. ~Writing(r)'
    <3>1. StepInv'
      BY <1>5, StepsKept DEF Next, Handle
    <3> QED
      BY <2>1, <3>1 DEF StepInv, Writing
  <2>3. CASE tmp = 0
    <3>1. ino' = ino /\ proposal' = proposal /\ tmp' = tmp
      BY <1>5, <2>3 DEF RenameTmp
    <3>2. Used' = Used
      BY <3>1 DEF Used
    <3>3. \A o \in Requests : Writing(o)' => ino'[req'[o].ino] # "free"
      BY <1>0, <2>1, <2>2, <3>1 DEF FileInv, Writing
    <3> QED
      BY <1>0, <3>1, <3>2, <3>3 DEF FileInv
  <2>4. CASE tmp # 0
    <3>1. proposal' = tmp /\ tmp' = 0
      BY <1>5, <2>4 DEF RenameTmp
    <3>2. ino' = [i \in Inodes |-> IF i = tmp \/ \E o \in Requests \ {r} : req[o].ino = i THEN ino[i] ELSE "free"]
      BY <1>5, <2>4 DEF RenameTmp
    <3>3. (Used \ {proposal, tmp})' \subseteq {req[o].ino : o \in Requests}
      BY <3>1, <3>2 DEF Used
    <3>4. (Cardinality(Used \ {proposal, tmp}) <= Cardinality(Requests))'
      BY <3>3, HeldAreFew
    <3>5. \A o \in Requests : Writing(o)' => ino'[req'[o].ino] # "free"
      <4>1. \A o \in Requests \ {r} : Writing(o) => req[o].ino \in Inodes /\ ino[req[o].ino] # "free"
        BY <1>0 DEF StepInv, FileInv, Request
      <4>2. \A o \in Requests \ {r} : Writing(o)' <=> Writing(o)
        BY <2>1 DEF Writing
      <4> QED
        BY <2>1, <2>2, <3>2, <4>1, <4>2
    <3> QED
      BY <1>0, <2>4, <3>1, <3>2, <3>4, <3>5 DEF FileInv
  <2> QED
    BY <2>3, <2>4, <1>0, <1>5 DEF RenameTmp
<1>6. CASE FilesAlone
  BY <1>0, <1>1, <1>2, <1>6 DEF FilesAlone
<1> QED
  BY <1>0, <1>3, <1>4, <1>5, <1>6, FileSteps DEF Atomic

LEMMA AtomicKept ==
    ASSUME Base, AtomicInv, [Next]_vars
    PROVE  AtomicInv'
<1>0. /\ Typed /\ FileInv /\ StepInv
      /\ ino \in [Inodes -> {"free", "half"} \cup Proposals] /\ req \in [Requests -> Request]
      /\ proposal \in Inodes \cup {0} /\ tmp \in Inodes \cup {0} /\ 0 \notin Inodes
  BY DEF Base, Typed, Inodes
<1> SUFFICES ASSUME ~overlapped' PROVE AtomicInv'
  BY DEF AtomicInv
<1>1. ASSUME ino' = ino, overlapped' = overlapped, proposal' = proposal, tmp' = tmp,
             \A o \in Requests : req'[o].step \in {"write", "rename"} => req'[o] = req[o]
      PROVE  AtomicInv'
  BY <1>1 DEF AtomicInv, Writing
<1>2. ASSUME ino' = Unopened(Requests), overlapped' = overlapped, proposal' = proposal, tmp' = tmp,
             \A o \in Requests : req'[o] = Idle
      PROVE  AtomicInv'
  <2>1. \A o \in Requests : req'[o].step = "idle"
    BY <1>2, Idles
  <2>2. proposal # 0 => ino'[proposal] = ino[proposal]
    BY <1>0, <1>2 DEF Unopened
  <2> QED
    BY <1>2, <2>1, <2>2 DEF AtomicInv, Writing
<1>3. ASSUME NEW r \in Requests, OpenTmp(r)
      PROVE  AtomicInv'
  <2>1. PICK i \in Inodes :
              /\ i # proposal
              /\ ino' = [ino EXCEPT ![i] = "half"] /\ tmp' = i
              /\ req' = [req EXCEPT ![r].ino = i, ![r].step = "write"]
    BY <1>3, Opens
  <2>2. proposal' = proposal /\ ~overlapped /\ \A o \in Requests \ {r} : ~Writing(o)
    BY <1>3 DEF OpenTmp
  <2>3. req'[r].ino = i /\ req'[r].step = "write" /\ \A o \in Requests \ {r} : req'[o] = req[o]
    BY <1>0, <2>1 DEF Request
  <2>4. ino'[i] = "half" /\ (proposal # 0 => ino'[proposal] = ino[proposal])
    BY <1>0, <2>1
  <2>5. \A o \in Requests : req'[o].step \in {"write", "rename"} => o = r
    BY <2>2, <2>3 DEF Writing
  <2>6. proposal' # 0 => ino'[proposal'] \in Proposals
    BY <2>2, <2>4 DEF AtomicInv
  <2> QED
    BY <2>1, <2>3, <2>4, <2>5, <2>6 DEF AtomicInv, Writing
<1>4. ASSUME NEW r \in Requests, WriteTmp(r)
      PROVE  AtomicInv'
  <2>1. Writing(r) /\ req[r].step = "write" /\ req[r].p \in Proposals /\ ~overlapped
    BY <1>0, <1>4 DEF WriteTmp, Writing, StepInv, ghosts
  <2>2. req[r].ino = tmp /\ tmp # 0 /\ ino[tmp] = "half" /\ \A o \in Requests \ {r} : ~Writing(o)
    BY <1>0, <2>1 DEF AtomicInv, StepInv
  <2>3. ino' = [ino EXCEPT ![tmp] = req[r].p] /\ proposal' = proposal /\ tmp' = tmp
    BY <1>4, <2>2 DEF WriteTmp
  <2>4. req'[r].ino = tmp /\ req'[r].step = "rename" /\ \A o \in Requests \ {r} : req'[o] = req[o]
    <3>1. req' = At(r, "rename") /\ "rename" \in Steps
      BY <1>4 DEF WriteTmp, Steps
    <3>2. req'[r] = [req[r] EXCEPT !.step = "rename"] /\ \A o \in Requests \ {r} : req'[o] = req[o]
      BY <1>0, <3>1, Ats
    <3>3. req'[r].ino = req[r].ino /\ req'[r].step = "rename"
      <4>1. req[r] \in Request
        BY <1>0
      <4> QED
        BY <3>2, <4>1 DEF Request
    <3> QED
      BY <2>2, <3>2, <3>3
  <2>5. ino'[tmp] \in Proposals /\ (proposal # 0 => ino'[proposal] \in Proposals)
    BY <1>0, <2>1, <2>2, <2>3 DEF AtomicInv, FileInv
  <2> QED
    BY <2>2, <2>3, <2>4, <2>5 DEF AtomicInv, Writing
<1>5. ASSUME NEW r \in Requests, RenameTmp(r)
      PROVE  AtomicInv'
  <2>1. Writing(r) /\ req[r].step = "rename" /\ ~overlapped
    BY <1>5 DEF RenameTmp, Writing, ghosts
  <2>2. req[r].ino = tmp /\ tmp # 0 /\ ino[tmp] \in Proposals /\ \A o \in Requests \ {r} : ~Writing(o)
    BY <1>0, <2>1 DEF AtomicInv, StepInv
  <2>3. proposal' = tmp /\ ino'[tmp] = ino[tmp]
    BY <1>0, <1>5, <2>2 DEF RenameTmp
  <2>4. \A o \in Requests \ {r} : req'[o] = req[o]
    BY <1>5, OwnRecord DEF Handle
  <2>5. req'[r].step \notin {"write", "rename"}
    <3>1. CASE req' = [req EXCEPT ![r].step = "await", ![r].ino = 0]
      BY <1>0, <3>1 DEF Request
    <3>2. CASE req' = After(r, <<"create", "check">>)
      <4>1. "create" \in Ops /\ "check" \in Steps
        BY DEF Ops, Steps
      <4> QED
        BY <1>0, <3>2, <4>1, Afters, Idles DEF InChain
    <3> QED
      BY <1>5, <2>2, <3>1, <3>2 DEF RenameTmp
  <2> QED
    BY <2>2, <2>3, <2>4, <2>5 DEF AtomicInv, Writing
<1>6. CASE FilesAlone
  BY <1>0, <1>1, <1>2, <1>6 DEF FilesAlone
<1> QED
  BY <1>3, <1>4, <1>5, <1>6, FileSteps DEF Atomic

----------------------------------------------------------------------------
(* What an action makes of its request.                                    *)

Moved(r, op, flow, step, path) ==
    req'[r].op = op /\ req'[r].flow = flow /\ req'[r].step = step /\ req'[r].path = path

Stay(r, step) == Moved(r, req[r].op, req[r].flow, step, req[r].path)

Gone(r) == Moved(r, "none", "single", "idle", 0)

LEMMA Fields ==
    ASSUME Typed, NEW r \in Requests
    PROVE  /\ req' = Reply(r) => Gone(r)
           /\ \A s \in Steps : req' = At(r, s) => Stay(r, s)
           /\ \A p, s : req' = [req EXCEPT ![r].p = p, ![r].step = s] => Stay(r, s)
           /\ \A i, s : req' = [req EXCEPT ![r].ino = i, ![r].step = s] => Stay(r, s)
           /\ \A i, s : req' = [req EXCEPT ![r].step = s, ![r].ino = i] => Stay(r, s)
           /\ \A o, s : req' = [req EXCEPT ![r].op = o, ![r].step = s] => Moved(r, o, req[r].flow, s, req[r].path)
           /\ \A w, s : req' = [req EXCEPT ![r].path = w, ![r].step = s] => Moved(r, req[r].op, req[r].flow, s, w)
           /\ \A f, o, s : req' = [req EXCEPT ![r] = [@ EXCEPT !.flow = f, !.op = o, !.step = s]] => Moved(r, o, f, s, req[r].path)
<1>0. req \in [Requests -> Request] /\ req[r] \in Request
  BY DEF Typed
<1>1. ASSUME req' = Reply(r) PROVE Gone(r)
  BY <1>0, <1>1 DEF Reply, Gone, Moved, Idle
<1>2. ASSUME NEW s \in Steps, req' = At(r, s) PROVE Stay(r, s)
  <2>1. req'[r] = [req[r] EXCEPT !.step = s]
    BY <1>2, Ats
  <2> QED
    BY <1>0, <2>1 DEF Stay, Moved, Request
<1>3. ASSUME NEW p, NEW s, req' = [req EXCEPT ![r].p = p, ![r].step = s] PROVE Stay(r, s)
  <2>1. req'[r] = [req[r] EXCEPT !.p = p, !.step = s]
    BY <1>0, <1>3
  <2> QED
    BY <1>0, <2>1 DEF Stay, Moved, Request
<1>4. ASSUME NEW i, NEW s, req' = [req EXCEPT ![r].ino = i, ![r].step = s] PROVE Stay(r, s)
  <2>1. req'[r] = [req[r] EXCEPT !.ino = i, !.step = s]
    BY <1>0, <1>4
  <2> QED
    BY <1>0, <2>1 DEF Stay, Moved, Request
<1>5. ASSUME NEW i, NEW s, req' = [req EXCEPT ![r].step = s, ![r].ino = i] PROVE Stay(r, s)
  <2>1. req'[r] = [req[r] EXCEPT !.step = s, !.ino = i]
    BY <1>0, <1>5
  <2> QED
    BY <1>0, <2>1 DEF Stay, Moved, Request
<1>6. ASSUME NEW o, NEW s, req' = [req EXCEPT ![r].op = o, ![r].step = s]
      PROVE  Moved(r, o, req[r].flow, s, req[r].path)
  <2>1. req'[r] = [req[r] EXCEPT !.op = o, !.step = s]
    BY <1>0, <1>6
  <2> QED
    BY <1>0, <2>1 DEF Moved, Request
<1>7. ASSUME NEW w, NEW s, req' = [req EXCEPT ![r].path = w, ![r].step = s]
      PROVE  Moved(r, req[r].op, req[r].flow, s, w)
  <2>1. req'[r] = [req[r] EXCEPT !.path = w, !.step = s]
    BY <1>0, <1>7
  <2> QED
    BY <1>0, <2>1 DEF Moved, Request
<1>8. ASSUME NEW f, NEW o, NEW s, req' = [req EXCEPT ![r] = [@ EXCEPT !.flow = f, !.op = o, !.step = s]]
      PROVE  Moved(r, o, f, s, req[r].path)
  <2>1. req'[r] = [req[r] EXCEPT !.flow = f, !.op = o, !.step = s]
    BY <1>0, <1>8
  <2> QED
    BY <1>0, <2>1 DEF Moved, Request
<1> QED
  BY <1>1, <1>2, <1>3, <1>4, <1>5, <1>6, <1>7, <1>8

\* The first step of a request, by what it asks for.
First(op) ==
    CASE op = "generate" -> "propose" [] op = "save" -> "read" [] op = "create" -> "check"
      [] op = "one_click" -> "mark" [] OTHER -> "context"

\* The step after a request has found its Pipeline.
Found(op) == CASE op = "build" -> "begin" [] op = "edit" -> "change" [] OTHER -> "verify"

Where == IF kind = "epic" /\ result # <<>> THEN result[1] ELSE 0

\* The request is over, and its markers are gone.
Dropped(r) == Gone(r) /\ markers' = markers \ Holds(r)

\* Where each action takes its request, and what it does to the markers.
Goes(r) ==
    /\ Ask(r) => /\ req[r] = Idle /\ markers' = markers
                 /\ \E op \in Ops : Moved(r, op, "single", First(op), 0)
    /\ OpenTmp(r) => req[r].step = "open" /\ Stay(r, "write") /\ markers' = markers
    /\ WriteTmp(r) => req[r].step = "write" /\ Stay(r, "rename") /\ markers' = markers
    /\ RenameTmp(r) =>
         /\ req[r].step = "rename"
         /\ \/ Dropped(r)
            \/ req[r].op = "create" /\ Stay(r, "await") /\ markers' = markers
            \/ /\ req[r].op # "create" /\ req[r].flow = "chain"
               /\ Moved(r, "create", "chain", "check", 0) /\ markers' = markers
    /\ Proposed(r) => /\ Op(r, "generate", "propose")
                      /\ Dropped(r) \/ (Stay(r, "open") /\ markers' = markers)
    /\ ReadAndEdit(r) => /\ req[r].step = "read"
                         /\ Dropped(r) \/ (Stay(r, "open") /\ markers' = markers)
    /\ CheckResult(r) => /\ Op(r, "create", "check")
                         /\ Dropped(r) \/ (Stay(r, "mark") /\ result = <<>> /\ markers' = markers)
    /\ MarkEpic(r) => /\ Op(r, "create", "mark")
                      /\ Dropped(r) \/ (Stay(r, "read") /\ "epic" \notin markers /\ markers' = markers \cup {"epic"})
    /\ RecordEpic(r) => /\ Op(r, "create", "await")
                        /\ \/ Dropped(r)
                           \/ /\ req[r].flow = "chain" /\ Moved(r, "build", "chain", "context", 0)
                              /\ markers' = markers \ {"epic"}
    /\ StartChain(r) => /\ Op(r, "one_click", "mark")
                        /\ \/ Dropped(r)
                           \/ /\ \/ Moved(r, "generate", "chain", "propose", req[r].path)
                                 \/ Moved(r, "build", "chain", "context", req[r].path)
                              /\ "one_click" \notin markers /\ markers' = markers \cup {"one_click"}
    /\ ReadContext(r) => /\ req[r].step = "context"
                         /\ \/ Dropped(r)
                            \/ /\ kind = "epic" => result # <<>>
                               /\ Moved(r, req[r].op, req[r].flow, Found(req[r].op), Where) /\ markers' = markers
    /\ BeginBuild(r) => /\ Op(r, "build", "begin")
                        /\ \/ Dropped(r)
                           \/ Stay(r, "built") /\ "pipeline" \notin markers /\ markers' = markers \cup {"pipeline"}
    /\ Built(r) => /\ Op(r, "build", "built")
                   /\ \/ Dropped(r)
                      \/ /\ req[r].flow = "chain" /\ Moved(r, "launch", "chain", "verify", req[r].path)
                         /\ markers' = markers \ {"pipeline"}
    /\ ChangeDot(r) => Op(r, "edit", "change") /\ Dropped(r)
    /\ StartRun(r) => /\ Op(r, "launch", "verify")
                      /\ Dropped(r) \/ (Stay(r, "wait") /\ markers' = markers)
    /\ AwaitRun(r) => Op(r, "launch", "wait") /\ Dropped(r)
    /\ Disconnect(r) => Dropped(r)

LEMMA Moves ==
    ASSUME Base, NEW r \in Requests
    PROVE  Goes(r)
<1>0. /\ Typed /\ req \in [Requests -> Request] /\ req[r] \in Request
      /\ req[r].flow \in {"single", "chain"}
      /\ req[r].step \in {"open", "write", "rename"} => req[r].op \in {"generate", "save", "create"}
      /\ req[r].op = "one_click" => req[r].flow = "single"
  BY DEF Base, Typed, StepInv, Request
<1>h. Holds(r) = (IF Creating(r) THEN {"epic"} ELSE {}) \cup Released(r)
                 \cup (IF Op(r, "build", "built") THEN {"pipeline"} ELSE {})
  BY DEF Holds
<1>g. req' = Reply(r) => Gone(r)
  BY <1>0, Fields
<1>1. ASSUME Ask(r)
      PROVE  /\ req[r] = Idle /\ markers' = markers
             /\ \E op \in Ops : Moved(r, op, "single", First(op), 0)
  <2>1. PICK op \in Ops, f \in {Sound, "as is"} :
         req' = [req EXCEPT ![r] = [Idle EXCEPT
                !.op = op, !.form = f,
                !.step = CASE op = "generate" -> "propose" [] op = "save" -> "read" [] op = "create" -> "check"
                           [] op = "one_click" -> "mark" [] OTHER -> "context"]]
    BY <1>1 DEF Ask
  <2>2. req'[r] = [Idle EXCEPT !.op = op, !.form = f, !.step = First(op)]
    BY <1>0, <2>1 DEF First
  <2>3. Moved(r, op, "single", First(op), 0)
    BY <2>2 DEF Moved, Idle
  <2> QED
    BY <1>1, <2>3 DEF Ask, disk
<1>2. ASSUME OpenTmp(r)
      PROVE  req[r].step = "open" /\ Stay(r, "write") /\ markers' = markers
  <2>1. PICK i \in Inodes : req' = [req EXCEPT ![r].ino = i, ![r].step = "write"]
    BY <1>2, Opens
  <2>2. Stay(r, "write")
    BY <1>0, <2>1, Fields
  <2> QED
    BY <1>2, <2>2 DEF OpenTmp
<1>3. WriteTmp(r) => req[r].step = "write" /\ Stay(r, "rename") /\ markers' = markers
  <2>1. "rename" \in Steps
    BY DEF Steps
  <2> QED
    BY <1>0, <2>1, Fields DEF WriteTmp
<1>4. ASSUME RenameTmp(r)
      PROVE  /\ req[r].step = "rename"
             /\ \/ Dropped(r)
                \/ req[r].op = "create" /\ Stay(r, "await") /\ markers' = markers
                \/ /\ req[r].op # "create" /\ req[r].flow = "chain"
                   /\ Moved(r, "create", "chain", "check", 0) /\ markers' = markers
  <2>1. req[r].step = "rename" /\ (req[r].op = "create" <=> Creating(r)) /\ req[r].op # "build"
    BY <1>0, <1>4 DEF RenameTmp, Creating
  <2>2. Holds(r) = (IF req[r].op = "create" THEN {"epic"} ELSE {}) \cup Released(r)
    BY <1>h, <2>1 DEF Op
  <2>3. CASE req' = Reply(r) /\ markers' = markers \ (Released(r) \cup (IF req[r].op = "create" THEN {"epic"} ELSE {}))
    BY <1>g, <2>1, <2>2, <2>3 DEF Dropped
  <2>4. CASE req[r].op = "create" /\ req' = [req EXCEPT ![r].step = "await", ![r].ino = 0] /\ markers' = markers
    BY <1>0, <2>1, <2>4, Fields
  <2>5. CASE req[r].op # "create" /\ req' = After(r, <<"create", "check">>) /\ markers' = markers
    <3>1. "create" \in Ops /\ "check" \in Steps
      BY DEF Ops, Steps
    <3>2. CASE req[r].flow = "single" /\ req'[r] = Idle
      <4>1. Holds(r) = {}
        BY <2>2, <2>5, <3>2 DEF Released
      <4>2. Gone(r)
        BY <3>2, Idles DEF Gone, Moved
      <4>3. markers' = markers \ Holds(r)
        BY <2>5, <4>1
      <4> QED
        BY <2>1, <4>2, <4>3 DEF Dropped
    <3>3. CASE req[r].flow = "chain" /\ InChain(req'[r], "create", "check")
      BY <2>1, <2>5, <3>3 DEF InChain, Moved
    <3> QED
      BY <1>0, <2>5, <3>1, <3>2, <3>3, Afters
  <2> QED
    BY <1>4, <2>3, <2>4, <2>5 DEF RenameTmp
<1>5. ASSUME Proposed(r)
      PROVE  Op(r, "generate", "propose") /\ (Dropped(r) \/ (Stay(r, "open") /\ markers' = markers))
  <2>1. Holds(r) = Released(r)
    BY <1>h, <1>5 DEF Proposed, Op, Creating
  <2>2. ASSUME NEW p \in Proposals, req' = [req EXCEPT ![r].p = p, ![r].step = "open"]
        PROVE  Stay(r, "open")
    BY <1>0, <2>2, Fields
  <2> QED
    BY <1>5, <1>g, <2>1, <2>2 DEF Proposed, Dropped
<1>6. ASSUME ReadAndEdit(r)
      PROVE  req[r].step = "read" /\ (Dropped(r) \/ (Stay(r, "open") /\ markers' = markers))
  <2>1. Holds(r) = (IF req[r].op = "create" THEN {"epic"} ELSE {}) \cup Released(r)
    BY <1>h, <1>6 DEF ReadAndEdit, Op, Creating
  <2>2. ASSUME NEW p, req' = [req EXCEPT ![r].p = p, ![r].step = "open"]
        PROVE  Stay(r, "open")
    BY <1>0, <2>2, Fields
  <2> QED
    BY <1>6, <1>g, <2>1, <2>2 DEF ReadAndEdit, Dropped
<1>7. ASSUME CheckResult(r)
      PROVE  Op(r, "create", "check") /\ (Dropped(r) \/ (Stay(r, "mark") /\ result = <<>> /\ markers' = markers))
  <2>1. Holds(r) = Released(r)
    BY <1>h, <1>7 DEF CheckResult, Op, Creating
  <2>2. "mark" \in Steps
    BY DEF Steps
  <2>3. req' = At(r, "mark") => Stay(r, "mark")
    BY <1>0, <2>2, Fields
  <2> QED
    BY <1>7, <1>g, <2>1, <2>3 DEF CheckResult, Dropped
<1>8. ASSUME MarkEpic(r)
      PROVE  /\ Op(r, "create", "mark")
             /\ Dropped(r) \/ (Stay(r, "read") /\ "epic" \notin markers /\ markers' = markers \cup {"epic"})
  <2>1. Holds(r) = Released(r)
    BY <1>h, <1>8 DEF MarkEpic, Op, Creating
  <2>2. "read" \in Steps
    BY DEF Steps
  <2>3. req' = At(r, "read") => Stay(r, "read")
    BY <1>0, <2>2, Fields
  <2> QED
    BY <1>8, <1>g, <2>1, <2>3 DEF MarkEpic, Dropped
<1>9. ASSUME RecordEpic(r)
      PROVE  /\ Op(r, "create", "await")
             /\ \/ Dropped(r)
                \/ /\ req[r].flow = "chain" /\ Moved(r, "build", "chain", "context", 0)
                   /\ markers' = markers \ {"epic"}
  <2>1. Op(r, "create", "await") /\ Holds(r) = {"epic"} \cup Released(r)
    BY <1>h, <1>9 DEF RecordEpic, Op, Creating
  <2>2. CASE req' = Reply(r) /\ markers' = markers \ ({"epic"} \cup Released(r))
    BY <1>g, <2>1, <2>2 DEF Dropped
  <2>3. CASE req' = After(r, <<"build", "context">>) /\ markers' = markers \ {"epic"}
    <3>1. "build" \in Ops /\ "context" \in Steps
      BY DEF Ops, Steps
    <3>2. CASE req[r].flow = "single" /\ req'[r] = Idle
      <4>1. Holds(r) = {"epic"}
        BY <2>1, <3>2 DEF Released
      <4>2. Gone(r)
        BY <3>2, Idles DEF Gone, Moved
      <4>3. markers' = markers \ Holds(r)
        BY <2>3, <4>1
      <4> QED
        BY <2>1, <4>2, <4>3 DEF Dropped
    <3>3. CASE req[r].flow = "chain" /\ InChain(req'[r], "build", "context")
      BY <2>1, <2>3, <3>3 DEF InChain, Moved
    <3> QED
      BY <1>0, <2>3, <3>1, <3>2, <3>3, Afters
  <2> QED
    BY <1>9, <2>2, <2>3 DEF RecordEpic
<1>10. ASSUME StartChain(r)
       PROVE  /\ Op(r, "one_click", "mark")
              /\ \/ Dropped(r)
                 \/ /\ \/ Moved(r, "generate", "chain", "propose", req[r].path)
                       \/ Moved(r, "build", "chain", "context", req[r].path)
                    /\ "one_click" \notin markers /\ markers' = markers \cup {"one_click"}
  <2>1. Op(r, "one_click", "mark") /\ Holds(r) = {}
    BY <1>0, <1>h, <1>10 DEF StartChain, Op, Creating, Released
  <2>2. CASE req' = Reply(r) /\ markers' = markers
    BY <1>g, <2>1, <2>2 DEF Dropped
  <2>3. CASE /\ "one_click" \notin markers /\ markers' = markers \cup {"one_click"}
             /\ req' = [req EXCEPT ![r] = [@ EXCEPT !.flow = "chain", !.op = "generate", !.step = "propose"]]
    BY <1>0, <2>1, <2>3, Fields
  <2>4. CASE /\ "one_click" \notin markers /\ markers' = markers \cup {"one_click"}
             /\ req' = [req EXCEPT ![r] = [@ EXCEPT !.flow = "chain", !.op = "build", !.step = "context"]]
    BY <1>0, <2>1, <2>4, Fields
  <2> QED
    BY <1>10, <2>2, <2>3, <2>4 DEF StartChain
<1>11. ASSUME ReadContext(r)
       PROVE  /\ req[r].step = "context"
              /\ \/ Dropped(r)
                 \/ /\ kind = "epic" => result # <<>>
                    /\ Moved(r, req[r].op, req[r].flow, Found(req[r].op), Where) /\ markers' = markers
  <2>1. req[r].step = "context" /\ Holds(r) = Released(r)
    BY <1>h, <1>11 DEF ReadContext, Op, Creating
  <2>2. CASE req' = Reply(r) /\ markers' = markers \ Released(r)
    BY <1>g, <2>1, <2>2 DEF Dropped
  <2>3. CASE /\ kind = "pipeline" \/ result # <<>>
             /\ req' = [req EXCEPT ![r].path = Where, ![r].step = Found(req[r].op)] /\ markers' = markers
    <3>1. Moved(r, req[r].op, req[r].flow, Found(req[r].op), Where)
      BY <1>0, <2>3, Fields
    <3> QED
      BY <2>1, <2>3, <3>1
  <2> QED
    BY <1>11, <2>2, <2>3 DEF ReadContext, Refuse, Found, Where
<1>12. ASSUME BeginBuild(r)
       PROVE  /\ Op(r, "build", "begin")
              /\ \/ Dropped(r)
                 \/ Stay(r, "built") /\ "pipeline" \notin markers /\ markers' = markers \cup {"pipeline"}
  <2>1. Op(r, "build", "begin") /\ Holds(r) = Released(r)
    BY <1>h, <1>12 DEF BeginBuild, Op, Creating
  <2>2. "built" \in Steps
    BY DEF Steps
  <2>3. req' = At(r, "built") => Stay(r, "built")
    BY <1>0, <2>2, Fields
  <2> QED
    BY <1>12, <1>g, <2>1, <2>3 DEF BeginBuild, Refuse, Dropped
<1>13. ASSUME Built(r)
       PROVE  /\ Op(r, "build", "built")
              /\ \/ Dropped(r)
                 \/ /\ req[r].flow = "chain" /\ Moved(r, "launch", "chain", "verify", req[r].path)
                    /\ markers' = markers \ {"pipeline"}
  <2>1. Op(r, "build", "built") /\ Holds(r) = {"pipeline"} \cup Released(r)
    BY <1>h, <1>13 DEF Built, Op, Creating
  <2>2. CASE req' = Reply(r) /\ markers' = markers \ ({"pipeline"} \cup Released(r))
    BY <1>g, <2>1, <2>2 DEF Dropped
  <2>3. CASE /\ req[r].flow = "chain" /\ req' = [req EXCEPT ![r].op = "launch", ![r].step = "verify"]
             /\ markers' = markers \ {"pipeline"}
    <3>1. Moved(r, "launch", req[r].flow, "verify", req[r].path)
      BY <1>0, <2>3, Fields
    <3> QED
      BY <2>1, <2>3, <3>1
  <2> QED
    BY <1>13, <2>2, <2>3 DEF Built
<1>14. ASSUME StartRun(r)
       PROVE  /\ Op(r, "launch", "verify")
              /\ Dropped(r) \/ (Stay(r, "wait") /\ markers' = markers)
  <2>1. Op(r, "launch", "verify") /\ Holds(r) = Released(r)
    BY <1>h, <1>14 DEF StartRun, Op, Creating
  <2>2. "wait" \in Steps
    BY DEF Steps
  <2>3. req' = At(r, "wait") => Stay(r, "wait")
    BY <1>0, <2>2, Fields
  <2> QED
    BY <1>14, <1>g, <2>1, <2>3 DEF StartRun, Refuse, Dropped
<1>15. ASSUME ChangeDot(r)
       PROVE  Op(r, "edit", "change") /\ Dropped(r)
  <2>1. Op(r, "edit", "change") /\ Holds(r) = Released(r)
    BY <1>h, <1>15 DEF ChangeDot, Op, Creating
  <2> QED
    BY <1>15, <1>g, <2>1 DEF ChangeDot, Refuse, Dropped
<1>16. ASSUME AwaitRun(r)
       PROVE  Op(r, "launch", "wait") /\ Dropped(r)
  <2>1. Op(r, "launch", "wait") /\ Holds(r) = Released(r)
    BY <1>h, <1>16 DEF AwaitRun, Op, Creating
  <2> QED
    BY <1>16, <1>g, <2>1 DEF AwaitRun, Refuse, Dropped
<1>17. Disconnect(r) => Dropped(r)
  BY <1>g DEF Disconnect, Dropped
<1> QED
  BY <1>1, <1>2, <1>3, <1>4, <1>5, <1>6, <1>7, <1>8, <1>9, <1>10, <1>11, <1>12, <1>13, <1>14, <1>15, <1>16, <1>17 DEF Goes

----------------------------------------------------------------------------
(* The markers.                                                            *)

HeldInv ==
    /\ stale \subseteq markers
    /\ \A m \in Marks : \A r, s \in Requests : m \in Holds(r) /\ m \in Holds(s) => r = s
    /\ \A m \in Marks : m \in markers \ stale <=> \E r \in Requests : m \in Holds(r)

\* What a request holds, by what it is at.
HoldsAt(op, flow, step) ==
    (IF op = "create" /\ step \in {"read", "open", "write", "rename", "await"} THEN {"epic"} ELSE {})
    \cup (IF flow = "chain" THEN {"one_click"} ELSE {})
    \cup (IF op = "build" /\ step = "built" THEN {"pipeline"} ELSE {})

LEMMA HoldsThen ==
    ASSUME NEW r \in Requests
    PROVE  /\ Holds(r) = HoldsAt(req[r].op, req[r].flow, req[r].step)
           /\ Holds(r)' = HoldsAt(req'[r].op, req'[r].flow, req'[r].step)
  BY DEF Holds, Creating, Released, Op, HoldsAt

LEMMA HoldsMoved ==
    ASSUME NEW r \in Requests, NEW op, NEW flow, NEW step, NEW path, Moved(r, op, flow, step, path)
    PROVE  Holds(r)' = HoldsAt(op, flow, step)
  BY HoldsThen DEF Moved

\* What a request does to the markers is what it does to those it holds: it
\* takes only what nobody has, and leaves only what was its own.
MarksMove(r) ==
    /\ markers' = (markers \ (Holds(r) \ Holds(r)')) \cup (Holds(r)' \ Holds(r))
    /\ (Holds(r)' \ Holds(r)) \cap markers = {}

LEMMA OwnMarks ==
    ASSUME Base, NEW r \in Requests, Ask(r) \/ Handle(r) \/ Disconnect(r)
    PROVE  MarksMove(r)
<1>0. /\ Goes(r) /\ Holds(r) = HoldsAt(req[r].op, req[r].flow, req[r].step)
      /\ req[r].step \in {"open", "write", "rename"} => req[r].op \in {"generate", "save", "create"}
      /\ req[r].step = "read" => req[r].op \in {"save", "create"}
      /\ req[r].op = "one_click" => req[r].flow = "single"
      /\ req[r].flow \in {"single", "chain"} /\ markers \subseteq Marks
  BY Moves, HoldsThen DEF Base, StepInv, Typed, Request
<1>d. CASE Dropped(r)
  <2>1. Holds(r)' = {}
    BY <1>d, HoldsMoved DEF Dropped, Gone, HoldsAt
  <2> QED
    BY <1>d, <2>1 DEF Dropped, MarksMove
<1>s. ASSUME markers' = markers, Holds(r)' = Holds(r) PROVE MarksMove(r)
  BY <1>s DEF MarksMove
<1>1. CASE Ask(r)
  <2>1. PICK op \in Ops : Moved(r, op, "single", First(op), 0)
    BY <1>0, <1>1 DEF Goes
  <2>2. Holds(r)' = HoldsAt(op, "single", First(op)) /\ Holds(r) = HoldsAt("none", "single", "idle")
    BY <1>0, <1>1, <2>1, HoldsMoved, Idles DEF Goes
  <2>3. First(op) \notin {"open", "write", "rename", "await", "built"} /\ (op = "create" => First(op) # "read")
    BY DEF First
  <2>4. Holds(r)' = {} /\ Holds(r) = {}
    BY <2>2, <2>3 DEF HoldsAt
  <2> QED
    BY <1>0, <1>1, <1>s, <2>4 DEF Goes
<1>2. CASE OpenTmp(r)
  <2>1. req[r].step = "open" /\ Holds(r)' = HoldsAt(req[r].op, req[r].flow, "write") /\ markers' = markers
    BY <1>0, <1>2, HoldsMoved DEF Goes, Stay
  <2> QED
    BY <1>0, <1>s, <2>1 DEF HoldsAt
<1>3. CASE WriteTmp(r)
  <2>1. req[r].step = "write" /\ Holds(r)' = HoldsAt(req[r].op, req[r].flow, "rename") /\ markers' = markers
    BY <1>0, <1>3, HoldsMoved DEF Goes, Stay
  <2> QED
    BY <1>0, <1>s, <2>1 DEF HoldsAt
<1>4. CASE RenameTmp(r)
  <2>1. CASE req[r].op = "create" /\ Stay(r, "await") /\ markers' = markers
    <3>1. Holds(r)' = HoldsAt(req[r].op, req[r].flow, "await")
      BY <2>1, HoldsMoved DEF Stay
    <3> QED
      BY <1>0, <1>4, <1>s, <2>1, <3>1 DEF Goes, HoldsAt
  <2>2. CASE req[r].op # "create" /\ req[r].flow = "chain" /\ Moved(r, "create", "chain", "check", 0) /\ markers' = markers
    <3>1. Holds(r)' = HoldsAt("create", "chain", "check")
      BY <2>2, HoldsMoved
    <3>2. req[r].step = "rename"
      BY <1>0, <1>4 DEF Goes
    <3> QED
      BY <1>0, <1>s, <2>2, <3>1, <3>2 DEF HoldsAt
  <2> QED
    BY <1>0, <1>4, <1>d, <2>1, <2>2 DEF Goes
<1>5. CASE Proposed(r)
  <2>1. CASE Stay(r, "open") /\ markers' = markers
    <3>1. Holds(r)' = HoldsAt(req[r].op, req[r].flow, "open") /\ req[r].op = "generate" /\ req[r].step = "propose"
      BY <1>0, <1>5, <2>1, HoldsMoved DEF Stay, Goes, Op
    <3> QED
      BY <1>0, <1>s, <2>1, <3>1 DEF HoldsAt
  <2> QED
    BY <1>0, <1>5, <1>d, <2>1 DEF Goes
<1>6. CASE ReadAndEdit(r)
  <2>1. CASE Stay(r, "open") /\ markers' = markers
    <3>1. Holds(r)' = HoldsAt(req[r].op, req[r].flow, "open") /\ req[r].step = "read"
      BY <1>0, <1>6, <2>1, HoldsMoved DEF Stay, Goes
    <3> QED
      BY <1>0, <1>s, <2>1, <3>1 DEF HoldsAt
  <2> QED
    BY <1>0, <1>6, <1>d, <2>1 DEF Goes
<1>7. CASE CheckResult(r)
  <2>1. CASE Stay(r, "mark") /\ markers' = markers
    <3>1. Holds(r)' = HoldsAt(req[r].op, req[r].flow, "mark") /\ req[r].step = "check" /\ req[r].op = "create"
      BY <1>0, <1>7, <2>1, HoldsMoved DEF Stay, Goes, Op
    <3> QED
      BY <1>0, <1>s, <2>1, <3>1 DEF HoldsAt
  <2> QED
    BY <1>0, <1>7, <1>d, <2>1 DEF Goes
<1>8. CASE MarkEpic(r)
  <2>1. CASE Stay(r, "read") /\ "epic" \notin markers /\ markers' = markers \cup {"epic"}
    <3>1. Holds(r)' = HoldsAt(req[r].op, req[r].flow, "read") /\ req[r].step = "mark" /\ req[r].op = "create"
      BY <1>0, <1>8, <2>1, HoldsMoved DEF Stay, Goes, Op
    <3>2. Holds(r)' = Holds(r) \cup {"epic"} /\ "epic" \notin Holds(r)
      BY <1>0, <3>1 DEF HoldsAt
    <3> QED
      BY <2>1, <3>2 DEF MarksMove
  <2> QED
    BY <1>0, <1>8, <1>d, <2>1 DEF Goes
<1>9. CASE RecordEpic(r)
  <2>1. CASE req[r].flow = "chain" /\ Moved(r, "build", "chain", "context", 0) /\ markers' = markers \ {"epic"}
    <3>1. Holds(r)' = HoldsAt("build", "chain", "context") /\ req[r].step = "await" /\ req[r].op = "create"
      BY <1>0, <1>9, <2>1, HoldsMoved DEF Goes, Op
    <3>2. Holds(r)' = {"one_click"} /\ Holds(r) = {"epic", "one_click"}
      BY <1>0, <2>1, <3>1 DEF HoldsAt
    <3> QED
      BY <2>1, <3>2 DEF MarksMove
  <2> QED
    BY <1>0, <1>9, <1>d, <2>1 DEF Goes
<1>10. CASE StartChain(r)
  <2>1. CASE /\ \/ Moved(r, "generate", "chain", "propose", req[r].path)
                \/ Moved(r, "build", "chain", "context", req[r].path)
             /\ "one_click" \notin markers /\ markers' = markers \cup {"one_click"}
    <3>1. Holds(r)' \in {HoldsAt("generate", "chain", "propose"), HoldsAt("build", "chain", "context")}
      BY <2>1, HoldsMoved
    <3>2. Holds(r)' = {"one_click"}
      BY <3>1 DEF HoldsAt
    <3>3. Holds(r) = {}
      BY <1>0, <1>10 DEF Goes, Op, HoldsAt
    <3> QED
      BY <2>1, <3>2, <3>3 DEF MarksMove
  <2> QED
    BY <1>0, <1>10, <1>d, <2>1 DEF Goes
<1>11. CASE ReadContext(r)
  <2>1. CASE Moved(r, req[r].op, req[r].flow, Found(req[r].op), Where) /\ markers' = markers
    <3>1. Holds(r)' = HoldsAt(req[r].op, req[r].flow, Found(req[r].op)) /\ req[r].step = "context"
      BY <1>0, <1>11, <2>1, HoldsMoved DEF Goes
    <3>2. Found(req[r].op) \in {"begin", "change", "verify"}
      BY DEF Found
    <3> QED
      BY <1>0, <1>s, <2>1, <3>1, <3>2 DEF HoldsAt
  <2> QED
    BY <1>0, <1>11, <1>d, <2>1 DEF Goes
<1>12. CASE BeginBuild(r)
  <2>1. CASE Stay(r, "built") /\ "pipeline" \notin markers /\ markers' = markers \cup {"pipeline"}
    <3>1. Holds(r)' = HoldsAt(req[r].op, req[r].flow, "built") /\ req[r].step = "begin" /\ req[r].op = "build"
      BY <1>0, <1>12, <2>1, HoldsMoved DEF Stay, Goes, Op
    <3>2. Holds(r)' = Holds(r) \cup {"pipeline"} /\ "pipeline" \notin Holds(r)
      BY <1>0, <3>1 DEF HoldsAt
    <3> QED
      BY <2>1, <3>2 DEF MarksMove
  <2> QED
    BY <1>0, <1>12, <1>d, <2>1 DEF Goes
<1>13. CASE Built(r)
  <2>1. CASE req[r].flow = "chain" /\ Moved(r, "launch", "chain", "verify", req[r].path) /\ markers' = markers \ {"pipeline"}
    <3>1. Holds(r)' = HoldsAt("launch", "chain", "verify") /\ req[r].step = "built" /\ req[r].op = "build"
      BY <1>0, <1>13, <2>1, HoldsMoved DEF Goes, Op
    <3>2. Holds(r)' = {"one_click"} /\ Holds(r) = {"pipeline", "one_click"}
      BY <1>0, <2>1, <3>1 DEF HoldsAt
    <3> QED
      BY <2>1, <3>2 DEF MarksMove
  <2> QED
    BY <1>0, <1>13, <1>d, <2>1 DEF Goes
<1>14. CASE StartRun(r)
  <2>1. CASE Stay(r, "wait") /\ markers' = markers
    <3>1. Holds(r)' = HoldsAt(req[r].op, req[r].flow, "wait") /\ req[r].step = "verify" /\ req[r].op = "launch"
      BY <1>0, <1>14, <2>1, HoldsMoved DEF Stay, Goes, Op
    <3> QED
      BY <1>0, <1>s, <2>1, <3>1 DEF HoldsAt
  <2> QED
    BY <1>0, <1>14, <1>d, <2>1 DEF Goes
<1>15. CASE ChangeDot(r) \/ AwaitRun(r) \/ Disconnect(r)
  BY <1>0, <1>15, <1>d DEF Goes
<1> QED
  BY <1>1, <1>2, <1>3, <1>4, <1>5, <1>6, <1>7, <1>8, <1>9, <1>10, <1>11, <1>12, <1>13, <1>14, <1>15 DEF Handle

LEMMA OthersHold ==
    ASSUME Base, NEW r \in Requests, Ask(r) \/ Handle(r) \/ Disconnect(r)
    PROVE  stale' = stale /\ \A o \in Requests \ {r} : Holds(o)' = Holds(o)
<1>1. \A o \in Requests \ {r} : Holds(o)' = Holds(o)
  BY OwnRecord, HoldsThen
<1>2. CASE Ask(r) \/ Disconnect(r) \/ Atomic(r) \/ Proposed(r) \/ ReadAndEdit(r) \/ CheckResult(r) \/ MarkEpic(r)
  BY <1>1, <1>2 DEF Ask, Disconnect, Atomic, OpenTmp, WriteTmp, RenameTmp, Proposed, ReadAndEdit, CheckResult, MarkEpic, ghosts
<1>3. CASE RecordEpic(r) \/ StartChain(r) \/ ReadContext(r) \/ BeginBuild(r) \/ Built(r) \/ ChangeDot(r) \/ StartRun(r) \/ AwaitRun(r)
  BY <1>1, <1>3 DEF RecordEpic, StartChain, ReadContext, BeginBuild, Built, ChangeDot, StartRun, AwaitRun, ghosts
<1> QED
  BY <1>2, <1>3 DEF Handle, Atomic

LEMMA MarksKept ==
    ASSUME Base, HeldInv, [Next]_vars
    PROVE  HeldInv' /\ markers' \subseteq Marks /\ stale' \subseteq Marks
<1>0. markers \subseteq Marks /\ stale \subseteq Marks /\ \A r \in Requests : Holds(r) \subseteq Marks /\ Holds(r)' \subseteq Marks
  BY HoldsThen DEF Base, Typed, HoldsAt, Marks
<1>1. ASSUME NEW r \in Requests, Ask(r) \/ Handle(r) \/ Disconnect(r)
      PROVE  HeldInv' /\ markers' \subseteq Marks /\ stale' \subseteq Marks
  <2> DEFINE H == Holds(r)
             N == Holds(r)'
  <2>1. /\ markers' = (markers \ (H \ N)) \cup (N \ H) /\ (N \ H) \cap markers = {}
        /\ stale' = stale /\ \A o \in Requests \ {r} : Holds(o)' = Holds(o)
    BY <1>1, OwnMarks, OthersHold DEF MarksMove
  <2>2. H \cap stale = {} /\ H \subseteq Marks /\ N \subseteq Marks
    BY <1>0 DEF HeldInv
  <2>3. stale' \subseteq markers'
    BY <2>1, <2>2 DEF HeldInv
  <2>4. \A m \in Marks : \A o, s \in Requests : m \in Holds(o)' /\ m \in Holds(s)' => o = s
    <3> SUFFICES ASSUME NEW m \in Marks, NEW o \in Requests, NEW s \in Requests, m \in Holds(o)', m \in Holds(s)', s # r
                 PROVE  o = s
      OBVIOUS
    <3>1. m \in Holds(s)
      BY <2>1
    <3>2. m \in markers
      BY <3>1 DEF HeldInv
    <3> QED
      BY <2>1, <3>1, <3>2 DEF HeldInv
  <2>5. \A m \in Marks : m \in markers' \ stale' <=> \E o \in Requests : m \in Holds(o)'
    <3> SUFFICES ASSUME NEW m \in Marks PROVE m \in markers' \ stale' <=> \E o \in Requests : m \in Holds(o)'
      OBVIOUS
    <3>1. CASE m \in N
      BY <2>1, <2>2, <3>1 DEF HeldInv
    <3>2. CASE m \notin N /\ m \in H
      BY <2>1, <3>2 DEF HeldInv
    <3>3. CASE m \notin N /\ m \notin H
      BY <2>1, <3>3 DEF HeldInv
    <3> QED
      BY <3>1, <3>2, <3>3
  <2> QED
    BY <1>0, <2>1, <2>2, <2>3, <2>4, <2>5 DEF HeldInv
<1>2. CASE Kill
  <2>1. \A r \in Requests : Holds(r)' = HoldsAt("none", "single", "idle")
    BY <1>2, HoldsThen, Idles DEF Kill
  <2>2. \A r \in Requests : Holds(r)' = {}
    BY <2>1 DEF HoldsAt
  <2> QED
    BY <1>0, <1>2, <2>2 DEF Kill, HeldInv
<1>3. ASSUME req' = req, markers' = markers, stale' = stale PROVE HeldInv'
  BY <1>3, HoldsThen DEF HeldInv
<1>4. ASSUME NEW c \in procs, Work(c) PROVE req' = req /\ markers' = markers /\ stale' = stale
  BY <1>4 DEF Work, DecomposeReads, DecomposeCreates, DecomposeFails, BuildEnds, OrphanEnds, disk, ghosts
<1>5. Done \/ UNCHANGED vars => req' = req /\ markers' = markers /\ stale' = stale
  BY DEF Done, vars, disk, ghosts
<1> QED
  BY <1>0, <1>1, <1>2, <1>3, <1>4, <1>5 DEF Next

----------------------------------------------------------------------------
(* The processes and the Epics.                                            *)

\* A request changes no Epic, and a process no request and no result.
LEMMA EpicsStay ==
    ASSUME NEW r \in Requests, Ask(r) \/ Handle(r) \/ Disconnect(r)
    PROVE  epics' = epics /\ kind' = kind /\ mode' = mode
<1>1. CASE Ask(r) \/ Disconnect(r) \/ OpenTmp(r) \/ WriteTmp(r) \/ RenameTmp(r) \/ Proposed(r) \/ ReadAndEdit(r) \/ CheckResult(r) \/ MarkEpic(r)
  BY <1>1 DEF Ask, Disconnect, OpenTmp, WriteTmp, RenameTmp, Proposed, ReadAndEdit, CheckResult, MarkEpic, disk
<1>2. CASE RecordEpic(r) \/ StartChain(r) \/ ReadContext(r) \/ BeginBuild(r) \/ Built(r) \/ ChangeDot(r) \/ StartRun(r) \/ AwaitRun(r)
  BY <1>2 DEF RecordEpic, StartChain, ReadContext, BeginBuild, Built, ChangeDot, StartRun, AwaitRun
<1> QED
  BY <1>1, <1>2 DEF Handle

LEMMA WorkStays ==
    ASSUME NEW c \in procs, Work(c)
    PROVE  /\ req' = req /\ result' = result /\ runs' = runs /\ kind' = kind /\ mode' = mode
           /\ overlapped' = overlapped /\ troubled' = troubled
  BY DEF Work, DecomposeReads, DecomposeCreates, DecomposeFails, BuildEnds, OrphanEnds, disk, ghosts

\* The processes after a request's action: fewer, orphaned, or one more that
\* this request has started.
LEMMA ProcsOf ==
    ASSUME Base, NEW r \in Requests, Ask(r) \/ Handle(r) \/ Disconnect(r)
    PROVE  \/ procs' \subseteq procs
           \/ procs' = Orphans({r})
           \/ /\ req[r].step = "rename" /\ req[r].op = "create" /\ Stay(r, "await")
              /\ procs' = procs \cup {Proc(r, "decompose", 0)}
           \/ Op(r, "build", "begin") /\ procs' = procs \cup {Proc(r, "build", req[r].path)}
<1>0. Typed /\ Goes(r)
  BY Moves DEF Base
<1>1. CASE Ask(r) \/ OpenTmp(r) \/ WriteTmp(r) \/ Proposed(r) \/ ReadAndEdit(r) \/ CheckResult(r) \/ MarkEpic(r) \/ RecordEpic(r)
  BY <1>1 DEF Ask, OpenTmp, WriteTmp, Proposed, ReadAndEdit, CheckResult, MarkEpic, RecordEpic
<1>2. CASE StartChain(r) \/ ReadContext(r) \/ BeginBuild(r) \/ Built(r) \/ ChangeDot(r) \/ StartRun(r) \/ AwaitRun(r)
  BY <1>2 DEF StartChain, ReadContext, BeginBuild, Built, ChangeDot, StartRun, AwaitRun
<1>3. CASE RenameTmp(r)
  <2>1. CASE req[r].op = "create" /\ req' = [req EXCEPT ![r].step = "await", ![r].ino = 0]
    <3>1. Stay(r, "await")
      BY <1>0, <2>1, Fields
    <3> QED
      BY <1>3, <2>1, <3>1 DEF RenameTmp
  <2> QED
    BY <1>3, <2>1 DEF RenameTmp
<1>4. CASE Disconnect(r)
  BY <1>4 DEF Disconnect
<1> QED
  BY <1>1, <1>2, <1>3, <1>4 DEF Handle

LEMMA OrphansAre ==
    ASSUME Typed, NEW R, NEW d \in Orphans(R)
    PROVE  \E c \in procs : /\ d \in Process
                            /\ d.job = c.job /\ d.step = c.step /\ d.p = c.p /\ d.path = c.path /\ d.out = c.out
                            /\ IF c.owner \in R THEN d.owner = Nobody ELSE d = c
<1>1. PICK c \in procs : d = IF c.owner \in R THEN [c EXCEPT !.owner = Nobody] ELSE c
  BY DEF Orphans
<1>2. c \in Process
  BY DEF Typed
<1> QED
  BY <1>1, <1>2 DEF Process

\* A process that a request starts.
LEMMA Started ==
    ASSUME NEW r \in Requests, NEW job \in {"decompose", "build"}, NEW path \in Paths
    PROVE  /\ Proc(r, job, path) \in Process
           /\ Proc(r, job, path).job = job /\ Proc(r, job, path).owner = r /\ Proc(r, job, path).step = "start"
           /\ Proc(r, job, path).path = path /\ Proc(r, job, path).out = 0
  BY DEF Proc, Process

\* What a working process makes of itself.
LEMMA Worked ==
    ASSUME Base, NEW c \in procs, Work(c)
    PROVE  \/ procs' = procs \ {c} /\ c.owner = Nobody /\ UNCHANGED <<epics, dot>>
           \/ \E d \in Process :
                /\ procs' = (procs \ {c}) \cup {d}
                /\ d.job = c.job /\ d.owner = c.owner /\ d.path = c.path
                /\ \/ c.job = "decompose" /\ d.step = "done" /\ d.out = c.out /\ UNCHANGED <<epics, dot>>
                   \/ /\ c.job = "decompose" /\ d.step = "create" /\ d.out = c.out /\ d.p \in Proposals
                      /\ c.step = "start" /\ UNCHANGED <<epics, dot>>
                   \/ /\ c.job = "decompose" /\ c.step = "create" /\ d.step = "done" /\ Len(epics) < MaxEpics
                      /\ UNCHANGED dot
                      /\ \E whole \in BOOLEAN :
                           /\ epics' = Append(epics, [p |-> c.p, whole |-> whole])
                           /\ d.out = IF whole THEN Len(epics) + 1 ELSE 0
                   \/ /\ c.job = "build" /\ UNCHANGED epics
                      /\ \E v \in {"none", "valid", "invalid"} :
                           dot' = IF v = "none" THEN dot ELSE [dot EXCEPT ![c.path] = v]
<1>0. Typed /\ c \in Process /\ Len(epics) \in Nat
  BY DEF Base, Typed
<1>1. CASE DecomposeReads(c)
  <2>1. CASE procs' = (procs \ {c}) \cup {[c EXCEPT !.step = "done"]}
    <3> DEFINE d == [c EXCEPT !.step = "done"]
    <3>1. d \in Process /\ d.job = c.job /\ d.owner = c.owner /\ d.path = c.path /\ d.step = "done" /\ d.out = c.out
      BY <1>0 DEF Process
    <3>2. procs' = (procs \ {c}) \cup {d} /\ c.job = "decompose" /\ epics' = epics /\ dot' = dot
      BY <1>1, <2>1 DEF DecomposeReads, disk
    <3> HIDE DEF d
    <3> QED
      BY <3>1, <3>2
  <2>2. CASE Saved # <<>> /\ procs' = (procs \ {c}) \cup {[c EXCEPT !.step = "create", !.p = Saved[1]]}
    <3> DEFINE d == [c EXCEPT !.step = "create", !.p = Saved[1]]
    <3>1. Saved[1] \in Proposals
      BY <1>0, <2>2 DEF Saved
    <3>2. /\ d \in Process /\ d.job = c.job /\ d.owner = c.owner /\ d.path = c.path
          /\ d.step = "create" /\ d.out = c.out /\ d.p \in Proposals
      BY <1>0, <3>1 DEF Process
    <3>3. /\ procs' = (procs \ {c}) \cup {d} /\ c.job = "decompose" /\ c.step = "start"
          /\ epics' = epics /\ dot' = dot
      BY <1>1, <2>2 DEF DecomposeReads, disk
    <3> HIDE DEF d
    <3> QED
      BY <3>2, <3>3
  <2> QED
    BY <1>1, <2>1, <2>2 DEF DecomposeReads
<1>2. CASE DecomposeCreates(c)
  <2>1. PICK whole \in BOOLEAN :
           /\ epics' = Append(epics, [p |-> c.p, whole |-> whole])
           /\ procs' = (procs \ {c}) \cup {[c EXCEPT !.step = "done", !.out = IF whole THEN Len(epics) + 1 ELSE 0]}
    BY <1>2 DEF DecomposeCreates
  <2> DEFINE n == IF whole THEN Len(epics) + 1 ELSE 0
             d == [c EXCEPT !.step = "done", !.out = n]
  <2>2. n \in Nat
    BY <1>0
  <2> HIDE DEF n
  <2>3. d \in Process /\ d.job = c.job /\ d.owner = c.owner /\ d.path = c.path /\ d.step = "done" /\ d.out = n
    BY <1>0, <2>2 DEF Process
  <2>4. procs' = (procs \ {c}) \cup {d}
    BY <2>1 DEF n
  <2> HIDE DEF d
  <2>5. c.job = "decompose" /\ c.step = "create" /\ Len(epics) < MaxEpics /\ dot' = dot
    BY <1>2 DEF DecomposeCreates
  <2> QED
    BY <2>1, <2>3, <2>4, <2>5 DEF n
<1>3. CASE DecomposeFails(c)
  <2> DEFINE d == [c EXCEPT !.step = "done"]
  <2>1. d \in Process /\ d.job = c.job /\ d.owner = c.owner /\ d.path = c.path /\ d.step = "done" /\ d.out = c.out
    BY <1>0 DEF Process
  <2>2. procs' = (procs \ {c}) \cup {d} /\ c.job = "decompose" /\ epics' = epics /\ dot' = dot
    BY <1>3 DEF DecomposeFails, disk
  <2> HIDE DEF d
  <2> QED
    BY <2>1, <2>2
<1>4. CASE BuildEnds(c)
  <2>1. c.job = "build" /\ epics' = epics
    BY <1>4 DEF BuildEnds
  <2>2. ASSUME NEW v \in {"valid", "invalid"}, NEW out \in {0, 1},
               dot' = [dot EXCEPT ![c.path] = v],
               procs' = (procs \ {c}) \cup {[c EXCEPT !.step = "done", !.out = out, !.p = v]}
        PROVE  \E d \in Process :
                /\ procs' = (procs \ {c}) \cup {d}
                /\ d.job = c.job /\ d.owner = c.owner /\ d.path = c.path
                /\ \E u \in {"none", "valid", "invalid"} :
                           dot' = IF u = "none" THEN dot ELSE [dot EXCEPT ![c.path] = u]
    <3> DEFINE d == [c EXCEPT !.step = "done", !.out = out, !.p = v]
    <3>0. out \in Nat /\ v \in Proposals \cup {"none", "valid", "invalid"}
      OBVIOUS
    <3>1. d \in Process /\ d.job = c.job /\ d.owner = c.owner /\ d.path = c.path
      BY <1>0, <3>0 DEF Process
    <3>2. procs' = (procs \ {c}) \cup {d}
      BY <2>2
    <3> HIDE DEF d
    <3>3. v # "none" /\ v \in {"none", "valid", "invalid"}
      OBVIOUS
    <3> QED
      BY <2>2, <3>1, <3>2, <3>3
  <2>3. ASSUME dot' = dot, procs' = (procs \ {c}) \cup {[c EXCEPT !.step = "done"]}
        PROVE  \E d \in Process :
                /\ procs' = (procs \ {c}) \cup {d}
                /\ d.job = c.job /\ d.owner = c.owner /\ d.path = c.path
                /\ \E u \in {"none", "valid", "invalid"} :
                           dot' = IF u = "none" THEN dot ELSE [dot EXCEPT ![c.path] = u]
    <3> DEFINE d == [c EXCEPT !.step = "done"]
    <3>1. d \in Process /\ d.job = c.job /\ d.owner = c.owner /\ d.path = c.path
      BY <1>0 DEF Process
    <3>2. procs' = (procs \ {c}) \cup {d}
      BY <2>3
    <3> HIDE DEF d
    <3> QED
      BY <2>3, <3>1, <3>2
  <2>4. \E d \in Process :
                /\ procs' = (procs \ {c}) \cup {d}
                /\ d.job = c.job /\ d.owner = c.owner /\ d.path = c.path
                /\ \E u \in {"none", "valid", "invalid"} :
                           dot' = IF u = "none" THEN dot ELSE [dot EXCEPT ![c.path] = u]
    BY <1>4, <2>2, <2>3 DEF BuildEnds
  <2> QED
    BY <2>1, <2>4
<1>5. CASE OrphanEnds(c)
  BY <1>5 DEF OrphanEnds, disk
<1> QED
  BY <1>1, <1>2, <1>3, <1>4, <1>5 DEF Work

LEMMA WholeGrows ==
    ASSUME Base, [Next]_vars
    PROVE  /\ Whole \subseteq Whole' /\ Whole' \subseteq Paths
           /\ epics' \in Seq([p : Proposals, whole : BOOLEAN]) /\ Len(epics') <= MaxEpics
           /\ kind' = kind /\ mode' = mode
<1>0. /\ Typed /\ epics \in Seq([p : Proposals, whole : BOOLEAN]) /\ Len(epics) <= MaxEpics
      /\ Len(epics) \in Nat /\ DOMAIN epics = 1..Len(epics)
  BY DEF Base, Typed
<1>1. ASSUME epics' = epics
      PROVE  /\ Whole \subseteq Whole' /\ Whole' \subseteq Paths
             /\ epics' \in Seq([p : Proposals, whole : BOOLEAN]) /\ Len(epics') <= MaxEpics
  BY <1>0, <1>1 DEF Whole, Paths
<1>2. ASSUME NEW c \in procs, Work(c)
      PROVE  /\ Whole \subseteq Whole' /\ Whole' \subseteq Paths
             /\ epics' \in Seq([p : Proposals, whole : BOOLEAN]) /\ Len(epics') <= MaxEpics
  <2>1. ASSUME NEW whole \in BOOLEAN, epics' = Append(epics, [p |-> c.p, whole |-> whole]),
               c.job = "decompose", c.step = "create", Len(epics) < MaxEpics
        PROVE  /\ Whole \subseteq Whole' /\ Whole' \subseteq Paths
               /\ epics' \in Seq([p : Proposals, whole : BOOLEAN]) /\ Len(epics') <= MaxEpics
    <3>1. c.p \in Proposals
      BY <2>1 DEF Base, ProcInv
    <3> DEFINE e == [p |-> c.p, whole |-> whole]
    <3>2. e \in [p : Proposals, whole : BOOLEAN] /\ epics' = Append(epics, e)
      BY <2>1, <3>1
    <3> HIDE DEF e
    <3>3. /\ epics' \in Seq([p : Proposals, whole : BOOLEAN]) /\ Len(epics') = Len(epics) + 1
          /\ DOMAIN epics' = 1 .. Len(epics) + 1
          /\ \A i \in 1..Len(epics) : epics'[i] = epics[i]
      BY <1>0, <3>2
    <3> QED
      BY <1>0, <2>1, <3>3 DEF Whole, Paths
  <2> QED
    BY <1>1, <1>2, <2>1, Worked
<1>3. ASSUME NEW r \in Requests, Ask(r) \/ Handle(r) \/ Disconnect(r)
      PROVE  epics' = epics /\ kind' = kind /\ mode' = mode
  BY <1>3, EpicsStay
<1>4. ASSUME NEW c \in procs, Work(c) PROVE kind' = kind /\ mode' = mode
  BY <1>4, WorkStays
<1>5. Kill \/ Done \/ UNCHANGED vars => epics' = epics /\ kind' = kind /\ mode' = mode
  BY DEF Kill, Done, vars, disk
<1> QED
  BY <1>1, <1>2, <1>3, <1>4, <1>5 DEF Next

LEMMA ProcsKept ==
    ASSUME Base, [Next]_vars
    PROVE  procs' \subseteq Process /\ ProcInv'
<1>0. /\ Typed /\ procs \subseteq Process /\ ProcInv /\ Whole \subseteq Whole' /\ 0 \in Paths /\ Len(epics) \in Nat
      /\ epics \in Seq([p : Proposals, whole : BOOLEAN])
  BY WholeGrows DEF Base, Typed, Paths
<1>1. ASSUME procs' \subseteq procs PROVE procs' \subseteq Process /\ ProcInv'
  BY <1>0, <1>1 DEF ProcInv
<1>2. ASSUME NEW R, procs' = Orphans(R) PROVE procs' \subseteq Process /\ ProcInv'
  <2> SUFFICES ASSUME NEW d \in procs'
               PROVE  d \in Process /\ (d.job = "decompose" =>
                        /\ d.out # 0 => d.step = "done" /\ d.out \in Whole'
                        /\ d.step = "create" => d.p \in Proposals)
    BY DEF ProcInv
  <2>1. PICK c \in procs : /\ d \in Process
                           /\ d.job = c.job /\ d.step = c.step /\ d.p = c.p /\ d.out = c.out
    BY <1>0, <1>2, OrphansAre
  <2> QED
    BY <1>0, <2>1 DEF ProcInv
<1>3. ASSUME NEW d \in Process, NEW c, procs' \subseteq (procs \ {c}) \cup {d},
             d.job = "decompose" =>
                        /\ d.out # 0 => d.step = "done" /\ d.out \in Whole'
                        /\ d.step = "create" => d.p \in Proposals
      PROVE  procs' \subseteq Process /\ ProcInv'
  BY <1>0, <1>3 DEF ProcInv
<1>4. ASSUME NEW r \in Requests, Ask(r) \/ Handle(r) \/ Disconnect(r)
      PROVE  procs' \subseteq Process /\ ProcInv'
  <2>1. CASE procs' = procs \cup {Proc(r, "decompose", 0)}
    BY <1>0, <2>1, Started DEF ProcInv
  <2>2. CASE procs' = procs \cup {Proc(r, "build", req[r].path)}
    <3>1. req[r].path \in Paths
      BY <1>0 DEF Typed, Request
    <3> QED
      BY <1>0, <2>2, <3>1, Started DEF ProcInv
  <2> QED
    BY <1>1, <1>2, <1>4, <2>1, <2>2, ProcsOf
<1>5. ASSUME NEW c \in procs, Work(c)
      PROVE  procs' \subseteq Process /\ ProcInv'
  <2>1. CASE procs' = procs \ {c}
    BY <1>1, <2>1
  <2>2. ASSUME NEW d \in Process, procs' = (procs \ {c}) \cup {d}, c.job = "decompose", d.step = "done", d.out = c.out
        PROVE  procs' \subseteq Process /\ ProcInv'
    BY <1>0, <1>3, <2>2 DEF ProcInv
  <2>3. ASSUME NEW d \in Process, procs' = (procs \ {c}) \cup {d}, c.job = "decompose", c.step = "start", d.step = "create",
               d.out = c.out, d.p \in Proposals
        PROVE  procs' \subseteq Process /\ ProcInv'
    BY <1>0, <1>3, <2>3 DEF ProcInv
  <2>4. ASSUME NEW d \in Process, procs' = (procs \ {c}) \cup {d}, d.step = "done", NEW whole \in BOOLEAN,
               epics' = Append(epics, [p |-> c.p, whole |-> whole]), d.out = IF whole THEN Len(epics) + 1 ELSE 0
        PROVE  procs' \subseteq Process /\ ProcInv'
    <3>1. d.out # 0 => d.out = Len(epics) + 1 /\ whole
      BY <2>4
    <3>2. whole => Len(epics) + 1 \in Whole'
      BY <1>0, <2>4 DEF Whole
    <3>3. /\ d.out # 0 => d.step = "done" /\ d.out \in Whole'
          /\ d.step = "create" => d.p \in Proposals
      BY <2>4, <3>1, <3>2
    <3> QED
      BY <1>3, <2>4, <3>3
  <2>5. ASSUME NEW d \in Process, procs' = (procs \ {c}) \cup {d}, d.job = "build"
        PROVE  procs' \subseteq Process /\ ProcInv'
    BY <1>3, <2>5
  <2>6. CASE procs' # procs \ {c}
    <3>1. PICK d \in Process :
                /\ procs' = (procs \ {c}) \cup {d}
                /\ d.job = c.job
                /\ \/ c.job = "decompose" /\ d.step = "done" /\ d.out = c.out
                   \/ c.job = "decompose" /\ d.step = "create" /\ d.out = c.out /\ d.p \in Proposals /\ c.step = "start"
                   \/ /\ d.step = "done"
                      /\ \E whole \in BOOLEAN :
                           /\ epics' = Append(epics, [p |-> c.p, whole |-> whole])
                           /\ d.out = IF whole THEN Len(epics) + 1 ELSE 0
                   \/ c.job = "build"
      BY <1>5, <2>6, Worked, Zenon
    <3>2. CASE c.job = "build"
      BY <2>5, <3>1, <3>2
    <3>3. CASE d.step = "done" /\ \E whole \in BOOLEAN :
                           /\ epics' = Append(epics, [p |-> c.p, whole |-> whole])
                           /\ d.out = IF whole THEN Len(epics) + 1 ELSE 0
      BY <2>4, <3>1, <3>3
    <3> QED
      BY <2>2, <2>3, <3>1, <3>2, <3>3
  <2> QED
    BY <2>1, <2>6
<1>6. CASE Kill
  BY <1>2, <1>6 DEF Kill
<1>7. Done \/ UNCHANGED vars => procs' = procs
  BY DEF Done, vars
<1> QED
  BY <1>1, <1>4, <1>5, <1>6, <1>7 DEF Next

\* What a request's action changes of the Plan: the Epic it records, the file
\* it edits, or the Run it starts.
LEMMA PlanOf ==
    ASSUME NEW r \in Requests, Ask(r) \/ Handle(r) \/ Disconnect(r)
    PROVE  /\ \/ result' = result
              \/ RecordEpic(r) /\ \E c \in Answer(r, "decompose") : c.out # 0 /\ result' = <<c.out>>
           /\ \/ dot' = dot
              \/ ChangeDot(r) /\ \E d \in {"valid", "invalid"} : dot' = [dot EXCEPT ![req[r].path] = d]
           /\ \/ runs' = runs
              \/ StartRun(r) /\ dot[req[r].path] = "valid" /\ runs' = runs \cup {req[r].path}
<1>1. CASE Ask(r) \/ Disconnect(r) \/ OpenTmp(r) \/ WriteTmp(r) \/ RenameTmp(r) \/ Proposed(r) \/ ReadAndEdit(r) \/ CheckResult(r) \/ MarkEpic(r)
  BY <1>1 DEF Ask, Disconnect, OpenTmp, WriteTmp, RenameTmp, Proposed, ReadAndEdit, CheckResult, MarkEpic, disk
<1>2. CASE StartChain(r) \/ ReadContext(r) \/ BeginBuild(r) \/ Built(r) \/ AwaitRun(r)
  BY <1>2 DEF StartChain, ReadContext, BeginBuild, Built, AwaitRun
<1>3. CASE RecordEpic(r)
  BY <1>3 DEF RecordEpic
<1>4. CASE ChangeDot(r)
  BY <1>4 DEF ChangeDot
<1>5. CASE StartRun(r)
  BY <1>5 DEF StartRun
<1> QED
  BY <1>1, <1>2, <1>3, <1>4, <1>5 DEF Handle

LEMMA FlagsAre ==
    ASSUME Base, [Next]_vars
    PROVE  overlapped' \in BOOLEAN /\ troubled' \in BOOLEAN
<1>0. overlapped \in BOOLEAN /\ troubled \in BOOLEAN
  BY DEF Base, Typed
<1>1. ASSUME NEW r \in Requests, Ask(r) \/ Handle(r) \/ Disconnect(r)
      PROVE  overlapped' \in BOOLEAN /\ troubled' \in BOOLEAN
  <2>1. CASE Ask(r) \/ Disconnect(r) \/ OpenTmp(r) \/ WriteTmp(r) \/ RenameTmp(r) \/ Proposed(r) \/ ReadAndEdit(r) \/ CheckResult(r) \/ MarkEpic(r)
    BY <1>0, <2>1 DEF Ask, Disconnect, OpenTmp, WriteTmp, RenameTmp, Proposed, ReadAndEdit, CheckResult, MarkEpic, ghosts
  <2>2. CASE RecordEpic(r) \/ StartChain(r) \/ ReadContext(r) \/ BeginBuild(r) \/ Built(r) \/ ChangeDot(r) \/ StartRun(r) \/ AwaitRun(r)
    BY <1>0, <2>2 DEF RecordEpic, StartChain, ReadContext, BeginBuild, Built, ChangeDot, StartRun, AwaitRun, ghosts
  <2> QED
    BY <1>1, <2>1, <2>2 DEF Handle
<1>2. Kill \/ Done \/ UNCHANGED vars => overlapped' \in BOOLEAN /\ troubled' \in BOOLEAN
  BY <1>0 DEF Kill, Done, vars, ghosts
<1> QED
  BY <1>0, <1>1, <1>2, WorkStays DEF Next

LEMMA PlanTyped ==
    ASSUME Base, [Next]_vars
    PROVE  /\ result' \in {<<>>} \cup {<<e>> : e \in Whole'}
           /\ dot' \in [Paths -> {"none", "valid", "invalid"}]
           /\ runs' \subseteq Paths
<1>0. /\ result \in {<<>>} \cup {<<e>> : e \in Whole}
      /\ dot \in [Paths -> {"none", "valid", "invalid"}] /\ runs \subseteq Paths
      /\ Whole \subseteq Whole' /\ req \in [Requests -> Request] /\ procs \subseteq Process /\ ProcInv
  BY WholeGrows DEF Base, Typed
<1>s. ASSUME result' = result, dot' = dot, runs' = runs
      PROVE  /\ result' \in {<<>>} \cup {<<e>> : e \in Whole'}
             /\ dot' \in [Paths -> {"none", "valid", "invalid"}] /\ runs' \subseteq Paths
  BY <1>0, <1>s
<1>1. ASSUME NEW r \in Requests, Ask(r) \/ Handle(r) \/ Disconnect(r)
      PROVE  /\ result' \in {<<>>} \cup {<<e>> : e \in Whole'}
             /\ dot' \in [Paths -> {"none", "valid", "invalid"}] /\ runs' \subseteq Paths
  <2>1. req[r].path \in Paths
    BY <1>0 DEF Request
  <2>2. \A c \in Answer(r, "decompose") : c.out # 0 => c.out \in Whole'
    BY <1>0 DEF Answer, ProcInv
  <2>3. result' \in {<<>>} \cup {<<e>> : e \in Whole'}
    BY <1>0, <1>1, <2>2, PlanOf
  <2>4. dot' \in [Paths -> {"none", "valid", "invalid"}]
    BY <1>0, <1>1, <2>1, PlanOf
  <2> QED
    BY <1>0, <1>1, <2>1, <2>3, <2>4, PlanOf
<1>2. ASSUME NEW c \in procs, Work(c)
      PROVE  /\ result' \in {<<>>} \cup {<<e>> : e \in Whole'}
             /\ dot' \in [Paths -> {"none", "valid", "invalid"}] /\ runs' \subseteq Paths
  <2>1. result' = result /\ runs' = runs
    BY <1>2, WorkStays
  <2>2. \/ dot' = dot
        \/ \E v \in {"none", "valid", "invalid"} : dot' = IF v = "none" THEN dot ELSE [dot EXCEPT ![c.path] = v]
    BY <1>2, Worked, Zenon
  <2>3. dot' \in [Paths -> {"none", "valid", "invalid"}]
    BY <1>0, <2>2
  <2> QED
    BY <1>0, <2>1, <2>3
<1>3. Kill \/ Done \/ UNCHANGED vars => result' = result /\ dot' = dot /\ runs' = runs
  BY DEF Kill, Done, vars, disk
<1> QED
  BY <1>s, <1>1, <1>2, <1>3 DEF Next

LEMMA BaseKept ==
    ASSUME Base, HeldInv, [Next]_vars
    PROVE  Base'
<1>1. Typed'
  <2>1. kind' \in {"epic", "pipeline"} /\ mode' \in {"reviewed", "one_click"}
    BY WholeGrows DEF Base, Typed
  <2> QED
    BY <2>1, WholeGrows, FilesKept, MarksKept, PlanTyped, FlagsAre, StepsKept, ProcsKept DEF Typed
<1> QED
  BY <1>1, FilesKept, StepsKept, ProcsKept DEF Base

----------------------------------------------------------------------------
(* The Epics in use.                                                       *)

\* What a Plan with an Epic names its Pipeline after, at every place that
\* keeps the name.
UseInv ==
    kind = "epic" =>
       /\ \A p \in Paths : dot[p] # "none" => p \in Whole
       /\ runs \subseteq Whole
       /\ \A r \in Requests : req[r].step \in {"begin", "built", "change", "verify", "wait"} => req[r].path \in Whole
       /\ \A c \in procs : c.job = "build" => c.path \in Whole

LEMMA UseKept ==
    ASSUME Base, UseInv, [Next]_vars
    PROVE  UseInv'
<1>0. /\ kind' = kind /\ Whole \subseteq Whole' /\ Typed
      /\ dot \in [Paths -> {"none", "valid", "invalid"}] /\ runs \subseteq Paths
      /\ req \in [Requests -> Request] /\ procs \subseteq Process
  BY WholeGrows DEF Base, Typed
<1> SUFFICES ASSUME kind = "epic"
             PROVE  /\ \A p \in Paths : dot'[p] # "none" => p \in Whole'
                    /\ runs' \subseteq Whole'
                    /\ \A r \in Requests : req'[r].step \in {"begin", "built", "change", "verify", "wait"} => req'[r].path \in Whole'
                    /\ \A c \in procs' : c.job = "build" => c.path \in Whole'
  BY <1>0 DEF UseInv
<1>a. /\ \A p \in Paths : dot[p] # "none" => p \in Whole'
      /\ runs \subseteq Whole'
      /\ \A r \in Requests : req[r].step \in {"begin", "built", "change", "verify", "wait"} => req[r].path \in Whole'
      /\ \A c \in procs : c.job = "build" => c.path \in Whole'
  BY <1>0 DEF UseInv
<1>1. ASSUME NEW r \in Requests, Ask(r) \/ Handle(r) \/ Disconnect(r)
      PROVE  /\ \A p \in Paths : dot'[p] # "none" => p \in Whole'
             /\ runs' \subseteq Whole'
             /\ \A o \in Requests : req'[o].step \in {"begin", "built", "change", "verify", "wait"} => req'[o].path \in Whole'
             /\ \A c \in procs' : c.job = "build" => c.path \in Whole'
  <2>0. Goes(r)
    BY Moves
  <2>1. \A p \in Paths : dot'[p] # "none" => p \in Whole'
    <3>1. ChangeDot(r) => req[r].step = "change"
      BY <2>0 DEF Goes, Op
    <3> QED
      BY <1>0, <1>1, <1>a, <3>1, PlanOf
  <2>2. runs' \subseteq Whole'
    <3>1. StartRun(r) => req[r].step = "verify"
      BY <2>0 DEF Goes, Op
    <3> QED
      BY <1>1, <1>a, <3>1, PlanOf
  <2>3. req'[r].step \in {"begin", "built", "change", "verify", "wait"} => req'[r].path \in Whole'
    <3>d. Dropped(r) => req'[r].step = "idle"
      BY DEF Dropped, Gone, Moved
    <3>1. CASE Ask(r)
      <4>1. PICK op \in Ops : Moved(r, op, "single", First(op), 0)
        BY <2>0, <3>1 DEF Goes
      <4>2. First(op) \notin {"begin", "built", "change", "verify", "wait"}
        BY DEF First
      <4> QED
        BY <4>1, <4>2 DEF Moved
    <3>2. CASE Atomic(r) \/ Proposed(r) \/ ReadAndEdit(r) \/ CheckResult(r) \/ MarkEpic(r) \/ RecordEpic(r) \/ StartChain(r)
      BY <2>0, <3>2, <3>d DEF Goes, Moved, Stay, Atomic
    <3>3. CASE ReadContext(r)
      <4>1. Where \in Whole \/ result = <<>>
        BY <1>0 DEF Where, Typed
      <4> QED
        BY <1>0, <2>0, <3>3, <3>d, <4>1 DEF Goes, Moved
    <3>4. CASE BeginBuild(r) \/ Built(r) \/ StartRun(r)
      BY <1>a, <2>0, <3>4, <3>d DEF Goes, Moved, Stay, Op
    <3>5. CASE ChangeDot(r) \/ AwaitRun(r) \/ Disconnect(r)
      BY <2>0, <3>5, <3>d DEF Goes
    <3> QED
      BY <1>1, <3>1, <3>2, <3>3, <3>4, <3>5 DEF Handle, Atomic
  <2>4. \A o \in Requests \ {r} : req'[o] = req[o]
    BY <1>1, OwnRecord
  <2>5. \A c \in procs' : c.job = "build" => c.path \in Whole'
    <3>1. CASE procs' = Orphans({r})
      BY <1>0, <1>a, <3>1, OrphansAre
    <3>2. CASE procs' = procs \cup {Proc(r, "decompose", 0)}
      <4>1. Proc(r, "decompose", 0).job = "decompose"
        BY DEF Proc
      <4> QED
        BY <1>a, <3>2, <4>1
    <3>3. CASE Op(r, "build", "begin") /\ procs' = procs \cup {Proc(r, "build", req[r].path)}
      <4>1. Proc(r, "build", req[r].path).path = req[r].path
        BY DEF Proc
      <4> QED
        BY <1>a, <3>3, <4>1 DEF Op
    <3> QED
      BY <1>1, <1>a, <3>1, <3>2, <3>3, ProcsOf
  <2> QED
    BY <1>a, <2>1, <2>2, <2>3, <2>4, <2>5
<1>2. ASSUME NEW c \in procs, Work(c)
      PROVE  /\ \A p \in Paths : dot'[p] # "none" => p \in Whole'
             /\ \A d \in procs' : d.job = "build" => d.path \in Whole'
             /\ runs' = runs /\ req' = req
  <2>1. CASE procs' = procs \ {c} /\ dot' = dot
    BY <1>2, <1>a, <2>1, WorkStays
  <2>2. ASSUME NEW d \in Process, procs' = (procs \ {c}) \cup {d}, d.job = c.job, d.path = c.path,
               \/ dot' = dot
               \/ c.job = "build" /\ \E v \in {"none", "valid", "invalid"} :
                           dot' = IF v = "none" THEN dot ELSE [dot EXCEPT ![c.path] = v]
        PROVE  /\ \A p \in Paths : dot'[p] # "none" => p \in Whole'
               /\ \A e \in procs' : e.job = "build" => e.path \in Whole'
    BY <1>0, <1>2, <1>a, <2>2
  <2>3. \/ procs' = procs \ {c} /\ dot' = dot
        \/ \E d \in Process : /\ procs' = (procs \ {c}) \cup {d} /\ d.job = c.job /\ d.path = c.path
                              /\ \/ dot' = dot
                                 \/ c.job = "build" /\ \E v \in {"none", "valid", "invalid"} :
                                        dot' = IF v = "none" THEN dot ELSE [dot EXCEPT ![c.path] = v]
    BY <1>2, Worked, Zenon
  <2> QED
    BY <1>2, <2>1, <2>2, <2>3, WorkStays
<1>3. CASE Kill
  <2>1. \A r \in Requests : req'[r].step = "idle"
    BY <1>3, Idles DEF Kill
  <2>2. \A c \in procs' : c.job = "build" => c.path \in Whole'
    BY <1>0, <1>3, <1>a, OrphansAre DEF Kill
  <2> QED
    BY <1>3, <1>a, <2>1, <2>2 DEF Kill
<1>4. Done \/ UNCHANGED vars => dot' = dot /\ runs' = runs /\ req' = req /\ procs' = procs
  BY DEF Done, vars, disk
<1> QED
  BY <1>a, <1>1, <1>2, <1>3, <1>4 DEF Next

----------------------------------------------------------------------------
(* One Epic for a Plan.                                                    *)

Decomposers == {c \in procs : c.job = "decompose"}

\* As long as no creation was abandoned, overtaken or not recorded: who
\* decomposes is waited for, alone, and by a Plan without an Epic; and the only
\* whole Epic is the one recorded, or the one about to be.
OnceInv ==
    ~troubled =>
       /\ \A c \in Decomposers : c.owner \in Requests /\ Op(c.owner, "create", "await")
       /\ \A c, d \in Decomposers : c = d
       /\ result # <<>> => \A r \in Requests : ~Op(r, "create", "mark") /\ ~Creating(r)
       /\ \A e \in Whole : result = <<e>> \/ \E c \in Decomposers : c.out = e

LEMMA CreateSteps ==
    ASSUME Base, NEW r \in Requests, Ask(r) \/ Handle(r) \/ Disconnect(r)
    PROVE  /\ Op(r, "create", "await") => RecordEpic(r) \/ Disconnect(r)
           /\ Op(r, "create", "mark")' => result = <<>>
           /\ Creating(r)' => Creating(r) \/ Op(r, "create", "mark")
<1>0. /\ Goes(r)
      /\ req[r].step = "read" => req[r].op \in {"save", "create"}
  BY Moves DEF Base, StepInv
<1>1. CASE Ask(r)
  <2>1. PICK op \in Ops : Moved(r, op, "single", First(op), 0)
    BY <1>0, <1>1 DEF Goes
  <2>2. First(op) \notin {"open", "write", "rename", "await"} /\ (op = "create" => First(op) = "check")
    BY DEF First
  <2>3. req[r] = Idle
    BY <1>0, <1>1 DEF Goes
  <2> QED
    BY <2>1, <2>2, <2>3, Idles DEF Moved, Op, Creating
<1>2. ASSUME Dropped(r), ~Op(r, "create", "await") \/ RecordEpic(r) \/ Disconnect(r)
      PROVE  /\ Op(r, "create", "await") => RecordEpic(r) \/ Disconnect(r)
             /\ Op(r, "create", "mark")' => result = <<>>
             /\ Creating(r)' => Creating(r) \/ Op(r, "create", "mark")
  BY <1>2 DEF Dropped, Gone, Moved, Op, Creating
<1>3. CASE Atomic(r) \/ Proposed(r) \/ ReadAndEdit(r)
  BY <1>0, <1>2, <1>3 DEF Goes, Moved, Stay, Op, Creating, Atomic
<1>4. CASE CheckResult(r) \/ MarkEpic(r)
  BY <1>0, <1>2, <1>4 DEF Goes, Moved, Stay, Op, Creating
<1>5. CASE RecordEpic(r) \/ StartChain(r)
  BY <1>0, <1>2, <1>5 DEF Goes, Moved, Stay, Op, Creating
<1>6. CASE ReadContext(r)
  <2>1. Found(req[r].op) \in {"begin", "change", "verify"}
    BY DEF Found
  <2> QED
    BY <1>0, <1>2, <1>6, <2>1 DEF Goes, Moved, Op, Creating
<1>7. CASE BeginBuild(r) \/ Built(r) \/ StartRun(r)
  BY <1>0, <1>2, <1>7 DEF Goes, Moved, Stay, Op, Creating
<1>8. CASE ChangeDot(r) \/ AwaitRun(r) \/ Disconnect(r)
  BY <1>0, <1>2, <1>8 DEF Goes, Op
<1> QED
  BY <1>1, <1>3, <1>4, <1>5, <1>6, <1>7, <1>8 DEF Handle, Atomic

\* What a request's action does to the processes that decompose.
LEMMA DecomposersOf ==
    ASSUME Base, NEW r \in Requests, Ask(r) \/ Handle(r) \/ Disconnect(r)
    PROVE  \/ Decomposers' = Decomposers /\ ~RecordEpic(r) /\ ~Disconnect(r)
           \/ RecordEpic(r)
           \/ Disconnect(r)
           \/ /\ Op(r, "create", "rename") /\ Stay(r, "await")
              /\ Decomposers' = Decomposers \cup {Proc(r, "decompose", 0)}
<1>0. Typed /\ Goes(r)
  BY Moves DEF Base
<1>s. procs' = procs => Decomposers' = Decomposers
  BY DEF Decomposers
<1>1. CASE Ask(r) \/ OpenTmp(r) \/ WriteTmp(r) \/ Proposed(r) \/ ReadAndEdit(r) \/ CheckResult(r) \/ MarkEpic(r)
  <2>1. procs' = procs
    BY <1>1 DEF Ask, OpenTmp, WriteTmp, Proposed, ReadAndEdit, CheckResult, MarkEpic
  <2> QED
    BY <1>s, <2>1
<1>2. CASE StartChain(r) \/ ReadContext(r) \/ ChangeDot(r) \/ StartRun(r) \/ AwaitRun(r)
  <2>1. procs' = procs
    BY <1>2 DEF StartChain, ReadContext, ChangeDot, StartRun, AwaitRun
  <2> QED
    BY <1>s, <2>1
<1>3. CASE BeginBuild(r)
  <2>1. procs' = procs \/ procs' = procs \cup {Proc(r, "build", req[r].path)}
    BY <1>3 DEF BeginBuild
  <2>2. Proc(r, "build", req[r].path).job = "build"
    BY DEF Proc
  <2> QED
    BY <1>s, <2>1, <2>2 DEF Decomposers
<1>4. CASE Built(r)
  <2>1. PICK c \in Answer(r, "build") : procs' = procs \ {c}
    BY <1>4 DEF Built
  <2>2. c.job = "build"
    BY DEF Answer
  <2> QED
    BY <2>1, <2>2 DEF Decomposers
<1>5. CASE RenameTmp(r)
  <2>1. CASE procs' = procs
    BY <1>s, <2>1
  <2>2. CASE /\ req[r].op = "create" /\ req' = [req EXCEPT ![r].step = "await", ![r].ino = 0]
             /\ procs' = procs \cup {Proc(r, "decompose", 0)}
    <3>1. Stay(r, "await")
      BY <1>0, <2>2, Fields
    <3>2. Proc(r, "decompose", 0).job = "decompose"
      BY DEF Proc
    <3>3. Decomposers' = Decomposers \cup {Proc(r, "decompose", 0)}
      BY <2>2, <3>2 DEF Decomposers
    <3>4. req[r].step = "rename"
      BY <1>0, <1>5 DEF Goes
    <3> QED
      BY <2>2, <3>1, <3>3, <3>4 DEF Op
  <2> QED
    BY <1>5, <2>1, <2>2 DEF RenameTmp
<1> QED
  BY <1>1, <1>2, <1>3, <1>4, <1>5 DEF Handle

LEMMA OneCreates ==
    ASSUME HeldInv, NEW r \in Requests, NEW o \in Requests, Creating(r), Creating(o)
    PROVE  r = o
  BY DEF HeldInv, Holds, Marks

LEMMA OnceByRequest ==
    ASSUME Base, HeldInv, OnceInv, NEW r \in Requests, Ask(r) \/ Handle(r) \/ Disconnect(r), ~troubled'
    PROVE  OnceInv'
<1>0. /\ Typed /\ ProcInv /\ ~troubled /\ procs \subseteq Process /\ 0 \notin Whole
      /\ epics' = epics /\ Whole' = Whole /\ \A o \in Requests \ {r} : req'[o] = req[o]
  <2>1. ~troubled
    <3>1. CASE Ask(r) \/ OpenTmp(r) \/ WriteTmp(r) \/ RenameTmp(r) \/ Proposed(r) \/ ReadAndEdit(r) \/ CheckResult(r) \/ MarkEpic(r)
      BY <3>1 DEF Ask, OpenTmp, WriteTmp, RenameTmp, Proposed, ReadAndEdit, CheckResult, MarkEpic, ghosts
    <3>2. CASE StartChain(r) \/ ReadContext(r) \/ BeginBuild(r) \/ Built(r) \/ ChangeDot(r) \/ StartRun(r) \/ AwaitRun(r)
      BY <3>2 DEF StartChain, ReadContext, BeginBuild, Built, ChangeDot, StartRun, AwaitRun, ghosts
    <3>3. CASE RecordEpic(r) \/ Disconnect(r)
      BY <3>3 DEF RecordEpic, Disconnect
    <3> QED
      BY <3>1, <3>2, <3>3 DEF Handle
  <2>2. epics' = epics /\ Whole' = Whole
    BY EpicsStay DEF Whole
  <2>3. Typed /\ ProcInv /\ procs \subseteq Process /\ 0 \notin Whole
    BY DEF Base, Typed, Whole
  <2> QED
    BY <2>1, <2>2, <2>3, OwnRecord
<1>a. /\ \A c \in Decomposers : c.owner \in Requests /\ Op(c.owner, "create", "await")
      /\ \A c, d \in Decomposers : c = d
      /\ result # <<>> => \A o \in Requests : ~Op(o, "create", "mark") /\ ~Creating(o)
      /\ \A e \in Whole : result = <<e>> \/ \E c \in Decomposers : c.out = e
  BY <1>0 DEF OnceInv
<1>b. \A o \in Requests \ {r} : /\ Op(o, "create", "await")' <=> Op(o, "create", "await")
                                /\ Op(o, "create", "mark")' <=> Op(o, "create", "mark")
                                /\ Creating(o)' <=> Creating(o)
  BY <1>0 DEF Op, Creating
<1>c. /\ Op(r, "create", "await") => RecordEpic(r) \/ Disconnect(r)
      /\ Op(r, "create", "mark")' => result = <<>>
      /\ Creating(r)' => Creating(r) \/ Op(r, "create", "mark")
  BY CreateSteps
<1>d. result' = result => (result' # <<>> => \A o \in Requests : ~Op(o, "create", "mark")' /\ ~Creating(o)')
  BY <1>a, <1>b, <1>c
<1>1. CASE Decomposers' = Decomposers /\ ~RecordEpic(r) /\ ~Disconnect(r)
  <2>1. result' = result
    BY <1>1, PlanOf
  <2>2. \A c \in Decomposers' : c.owner \in Requests /\ Op(c.owner, "create", "await")'
    BY <1>1, <1>a, <1>b, <1>c
  <2> QED
    BY <1>0, <1>1, <1>a, <1>d, <2>1, <2>2 DEF OnceInv
<1>2. CASE /\ Op(r, "create", "rename") /\ Stay(r, "await")
           /\ Decomposers' = Decomposers \cup {Proc(r, "decompose", 0)}
  <2>1. result' = result
    <3>1. ~RecordEpic(r)
      BY <1>2 DEF RecordEpic, Op
    <3> QED
      BY <3>1, PlanOf
  <2>2. Decomposers = {}
    <3>1. Creating(r) /\ ~Op(r, "create", "await")
      BY <1>2 DEF Op, Creating
    <3>2. ASSUME NEW c \in Decomposers PROVE FALSE
      <4>1. c.owner \in Requests /\ Op(c.owner, "create", "await")
        BY <1>a
      <4>2. Creating(c.owner)
        BY <4>1 DEF Op, Creating
      <4> QED
        BY <3>1, <4>1, <4>2, OneCreates
    <3> QED
      BY <3>2
  <2>3. Op(r, "create", "await")'
    BY <1>2 DEF Stay, Moved, Op
  <2>4. Proc(r, "decompose", 0).owner = r /\ Decomposers' = {Proc(r, "decompose", 0)}
    BY <1>2, <2>2 DEF Proc
  <2>5. \A c \in Decomposers' : c.owner \in Requests /\ Op(c.owner, "create", "await")'
    BY <2>3, <2>4
  <2> QED
    BY <1>0, <1>a, <1>d, <2>1, <2>2, <2>4, <2>5 DEF OnceInv
<1>3. CASE RecordEpic(r)
  <2>1. PICK c \in Answer(r, "decompose") :
         /\ procs' = procs \ {c}
         /\ \/ result' = result /\ troubled' = (troubled \/ c.out # 0)
            \/ /\ c.out # 0 /\ result' = <<c.out>>
               /\ troubled' = (troubled \/ \E o \in Requests : Op(o, "create", "mark"))
    BY <1>3 DEF RecordEpic
  <2>2. c \in Decomposers /\ Decomposers' = {}
    <3>1. c \in procs /\ c.job = "decompose"
      BY DEF Answer
    <3> QED
      BY <1>a, <2>1, <3>1 DEF Decomposers
  <2>3. Creating(r) /\ result = <<>>
    <3>1. Creating(r)
      BY <1>3 DEF RecordEpic, Op, Creating
    <3> QED
      BY <1>a, <3>1
  <2>4. \A e \in Whole : e = c.out
    BY <1>a, <2>2, <2>3
  <2>5. CASE result' = result /\ c.out = 0
    BY <1>0, <1>d, <2>2, <2>4, <2>5 DEF OnceInv
  <2>6. CASE c.out # 0 /\ result' = <<c.out>> /\ \A o \in Requests : ~Op(o, "create", "mark")
    <3>1. \A o \in Requests \ {r} : ~Creating(o)
      BY <2>3, OneCreates
    <3>2. ~Op(r, "create", "mark")' /\ ~Creating(r)'
      <4>1. Dropped(r) \/ Moved(r, "build", "chain", "context", 0)
        BY <1>3, Moves DEF Goes
      <4> QED
        BY <4>1 DEF Dropped, Gone, Moved, Op, Creating
    <3>3. \A o \in Requests : ~Op(o, "create", "mark")' /\ ~Creating(o)'
      BY <1>b, <2>6, <3>1, <3>2
    <3> QED
      BY <1>0, <2>2, <2>4, <2>6, <3>3 DEF OnceInv
  <2> QED
    BY <2>1, <2>5, <2>6
<1>4. CASE Disconnect(r)
  <2>1. ~(Creating(r) /\ req[r].step = "await") /\ procs' = Orphans({r}) /\ result' = result
    BY <1>4 DEF Disconnect, Abandoned
  <2>2. ~Op(r, "create", "await")
    BY <2>1 DEF Op, Creating
  <2>3. \A c \in Decomposers : c.owner # r
    BY <1>a, <2>2
  <2>4. Decomposers' = Decomposers
    <3>1. \A d \in procs' : d.job = "decompose" => d \in procs
      <4> SUFFICES ASSUME NEW d \in procs', d.job = "decompose" PROVE d \in procs
        OBVIOUS
      <4>1. PICK c \in procs : d.job = c.job /\ IF c.owner \in {r} THEN d.owner = Nobody ELSE d = c
        BY <1>0, <2>1, OrphansAre
      <4>2. c \in Decomposers
        BY <4>1 DEF Decomposers
      <4> QED
        BY <2>3, <4>1, <4>2
    <3>2. \A c \in Decomposers : c \in procs'
      BY <2>1, <2>3 DEF Decomposers, Orphans
    <3> QED
      BY <3>1, <3>2 DEF Decomposers
  <2>5. \A c \in Decomposers' : c.owner \in Requests /\ Op(c.owner, "create", "await")'
    BY <1>a, <1>b, <2>3, <2>4
  <2> QED
    BY <1>0, <1>a, <1>d, <2>1, <2>4, <2>5 DEF OnceInv
<1> QED
  BY <1>1, <1>2, <1>3, <1>4, DecomposersOf

\* What the work of a process does to those that decompose: one of them goes
\* on, and may have created an Epic.
LEMMA DecomposersWork ==
    ASSUME Base, NEW c \in Decomposers, Work(c), Decomposers = {c}, c.owner # Nobody
    PROVE  \E d : /\ Decomposers' = {d} /\ d.owner = c.owner
                  /\ \/ d.out = c.out /\ Whole' = Whole
                     \/ c.out = 0 /\ Whole' \subseteq Whole \cup {d.out}
<1>0. /\ Typed /\ c \in procs /\ c.job = "decompose"
      /\ epics \in Seq([p : Proposals, whole : BOOLEAN]) /\ Len(epics) \in Nat
      /\ c.step = "create" => c.out = 0 /\ c.p \in Proposals
  BY DEF Base, Typed, ProcInv, Decomposers
<1>1. PICK d \in Process :
         /\ procs' = (procs \ {c}) \cup {d}
         /\ d.job = c.job /\ d.owner = c.owner
         /\ \/ d.out = c.out /\ epics' = epics
            \/ /\ c.step = "create"
               /\ \E whole \in BOOLEAN :
                    /\ epics' = Append(epics, [p |-> c.p, whole |-> whole])
                    /\ d.out = IF whole THEN Len(epics) + 1 ELSE 0
  BY <1>0, Worked, Zenon
<1>2. Decomposers' = {d}
  BY <1>0, <1>1 DEF Decomposers
<1>3. epics' = epics => Whole' = Whole
  BY DEF Whole
<1>4. ASSUME NEW whole \in BOOLEAN, c.p \in Proposals, epics' = Append(epics, [p |-> c.p, whole |-> whole]),
             d.out = IF whole THEN Len(epics) + 1 ELSE 0
      PROVE  Whole' \subseteq Whole \cup {d.out}
  <2> DEFINE e == [p |-> c.p, whole |-> whole]
  <2>1. e \in [p : Proposals, whole : BOOLEAN] /\ e.whole = whole
    BY <1>4
  <2> HIDE DEF e
  <2>2. /\ Len(epics') = Len(epics) + 1 /\ epics'[Len(epics) + 1] = e
        /\ \A i \in 1..Len(epics) : epics'[i] = epics[i]
        /\ DOMAIN epics = 1..Len(epics) /\ DOMAIN epics' = 1..(Len(epics) + 1)
    BY <1>0, <1>4, <2>1 DEF e
  <2> QED
    BY <1>0, <1>4, <2>1, <2>2 DEF Whole
<1> QED
  BY <1>0, <1>1, <1>2, <1>3, <1>4

LEMMA OnceByWork ==
    ASSUME Base, OnceInv, NEW c \in procs, Work(c), ~troubled'
    PROVE  OnceInv'
<1>0. ~troubled /\ req' = req /\ result' = result /\ c.job \in {"decompose", "build"}
  BY WorkStays DEF Base, Typed, Process
<1>a. /\ \A d \in Decomposers : d.owner \in Requests /\ Op(d.owner, "create", "await")
      /\ \A d, e \in Decomposers : d = e
      /\ result # <<>> => \A r \in Requests : ~Op(r, "create", "mark") /\ ~Creating(r)
      /\ \A e \in Whole : result = <<e>> \/ \E d \in Decomposers : d.out = e
  BY <1>0 DEF OnceInv
<1>b. \A r \in Requests : /\ Op(r, "create", "await")' <=> Op(r, "create", "await")
                          /\ Op(r, "create", "mark")' <=> Op(r, "create", "mark")
                          /\ Creating(r)' <=> Creating(r)
  BY <1>0 DEF Op, Creating
<1>c. Decomposers' = Decomposers /\ Whole' = Whole => OnceInv'
  BY <1>0, <1>a, <1>b DEF OnceInv
<1>1. CASE c.job = "build"
  <2>1. epics' = epics /\ (procs' = procs \ {c} \/ \E d \in Process : procs' = (procs \ {c}) \cup {d} /\ d.job = c.job)
    BY <1>1, Worked, Zenon
  <2>2. Decomposers' = Decomposers /\ Whole' = Whole
    BY <1>1, <2>1 DEF Decomposers, Whole
  <2> QED
    BY <1>c, <2>2
<1>2. CASE c.job = "decompose"
  <2>1. /\ c \in Decomposers /\ c.owner \in Requests /\ c.owner # Nobody
        /\ Decomposers = {c}
    BY <1>2, <1>a DEF Decomposers
  <2>3. ASSUME NEW d, Decomposers' = {d}, d.owner = c.owner,
               \/ d.out = c.out /\ Whole' = Whole
               \/ c.out = 0 /\ Whole' \subseteq Whole \cup {d.out}
        PROVE  OnceInv'
    <3>1. Creating(c.owner) /\ result = <<>>
      <4>1. Creating(c.owner)
        BY <1>a, <2>1 DEF Op, Creating
      <4> QED
        BY <1>a, <2>1, <4>1
    <3>2. \A e \in Whole : c.out = e
      BY <1>a, <2>1, <3>1
    <3>3. 0 \notin Whole
      BY DEF Base, Typed, Whole
    <3>4. \A e \in Whole' : d.out = e
      BY <2>3, <3>2, <3>3
    <3> QED
      BY <1>0, <1>a, <1>b, <2>1, <2>3, <3>1, <3>4 DEF OnceInv
  <2> QED
    BY <2>1, <2>3, DecomposersWork
<1> QED
  BY <1>0, <1>1, <1>2

LEMMA OnceKept ==
    ASSUME Base, HeldInv, OnceInv, [Next]_vars
    PROVE  OnceInv'
<1> SUFFICES ASSUME ~troubled' PROVE OnceInv'
  BY DEF OnceInv
<1>1. ASSUME NEW r \in Requests, Ask(r) \/ Handle(r) \/ Disconnect(r) PROVE OnceInv'
  BY <1>1, OnceByRequest
<1>2. ASSUME NEW c \in procs, Work(c) PROVE OnceInv'
  BY <1>2, OnceByWork
<1>3. CASE Kill
  <2>1. /\ ~troubled /\ \A r \in Requests : ~Op(r, "create", "await")
        /\ procs' = Orphans(Requests) /\ epics' = epics /\ result' = result
        /\ \A r \in Requests : req'[r] = Idle
    BY <1>3 DEF Kill, Abandoned, Creating, Op
  <2>2. Decomposers = {}
    BY <2>1 DEF OnceInv
  <2>3. Decomposers' = {}
    <3>1. \A d \in procs' : d.job # "decompose"
      BY <2>1, <2>2, OrphansAre DEF Base, Decomposers
    <3> QED
      BY <3>1 DEF Decomposers
  <2>4. \A r \in Requests : ~Op(r, "create", "mark")' /\ ~Creating(r)'
    BY <2>1, Idles DEF Op, Creating
  <2>5. Whole' = Whole
    BY <2>1 DEF Whole
  <2> QED
    BY <2>1, <2>2, <2>3, <2>4, <2>5 DEF OnceInv
<1>4. CASE Done \/ UNCHANGED vars
  BY <1>4 DEF Done, vars, disk, ghosts, OnceInv, Decomposers, Whole, Op, Creating
<1> QED
  BY <1>1, <1>2, <1>3, <1>4 DEF Next

----------------------------------------------------------------------------
(* The theorems.                                                           *)

IInv == Base /\ HeldInv /\ AtomicInv /\ UseInv /\ OnceInv

LEMMA Initially == Init => IInv
<1> SUFFICES ASSUME Init PROVE IInv
  OBVIOUS
<1>0. \A r \in Requests : req[r] = Idle
  BY DEF Init
<1>w. Whole = {} /\ epics \in Seq([p : Proposals, whole : BOOLEAN]) /\ Len(epics) = 0
  BY DEF Init, Whole
<1>1. Typed
  <2>1. req \in [Requests -> Request]
    BY Idles DEF Init
  <2>2. 0 \in Paths
    BY DEF Paths
  <2> QED
    BY <1>w, <2>1, <2>2 DEF Init, Typed, Marks
<1>2. StepInv /\ ProcInv
  BY <1>0, Idles DEF Init, StepInv, ProcInv, Writing
<1>3. FileInv
  <2>1. Used \ {proposal, tmp} = {}
    BY DEF Init, Used
  <2>2. Cardinality({}) = 0 /\ Cardinality(Requests) \in Nat
    BY FS_EmptySet, FS_CardinalityType
  <2>3. \A r \in Requests : ~Writing(r)
    BY <1>0, Idles DEF Writing
  <2>4. tmp = 0 /\ proposal = 0
    BY DEF Init
  <2> QED
    BY <2>1, <2>2, <2>3, <2>4 DEF FileInv
<1>4. AtomicInv
  BY <1>0, Idles DEF Init, AtomicInv, Writing
<1>5. HeldInv
  <2>1. \A r \in Requests : Holds(r) = {}
    BY <1>0, Idles DEF Holds, Creating, Released, Op
  <2> QED
    BY <2>1 DEF Init, HeldInv
<1>6. UseInv
  BY <1>0, Idles DEF Init, UseInv
<1>7. OnceInv
  BY <1>w DEF Init, OnceInv, Decomposers
<1> QED
  BY <1>1, <1>2, <1>3, <1>4, <1>5, <1>6, <1>7 DEF IInv, Base

LEMMA IInvHolds == Spec => []IInv
<1>1. Init => IInv
  BY Initially
<1>2. IInv /\ [Next]_vars => IInv'
  BY BaseKept, MarksKept, AtomicKept, UseKept, OnceKept DEF IInv
<1> QED
  BY <1>1, <1>2, PTL DEF Spec

LEMMA TypesHold == IInv => TypeOK
<1> SUFFICES ASSUME IInv PROVE TypeOK
  OBVIOUS
<1>0. Typed /\ StepInv
  BY DEF IInv, Base
<1>1. result \in {<<>>} \cup {<<e>> : e \in DOMAIN epics}
  BY <1>0 DEF Typed, Whole
<1>2. \A r \in Requests :
         /\ req[r].op \in Ops \cup {"none"} /\ req[r].step \in Steps /\ req[r].ino \in Inodes \cup {0}
         /\ req[r].step \in {"write", "rename"} => req[r].ino # 0
         /\ req[r].path \in Paths
  BY <1>0 DEF Typed, StepInv, Request, Writing
<1>3. \A c \in procs : c.job \in {"decompose", "build"} /\ c.owner \in Requests \cup {Nobody}
  BY <1>0 DEF Typed, Process
<1> QED
  BY <1>0, <1>1, <1>2, <1>3 DEF Typed, TypeOK, Marks

LEMMA HoldersCounted == HeldInv => MarkersAreHeld
<1> SUFFICES ASSUME HeldInv, NEW m \in Marks
             PROVE  /\ Cardinality({r \in Requests : m \in Holds(r)}) = (IF m \in markers \ stale THEN 1 ELSE 0)
                    /\ m \in stale => m \in markers
  BY DEF MarkersAreHeld, Marks
<1>1. CASE m \in markers \ stale
  <2>1. PICK r \in Requests : m \in Holds(r)
    BY <1>1 DEF HeldInv
  <2>2. {s \in Requests : m \in Holds(s)} = {r}
    BY <2>1 DEF HeldInv
  <2> QED
    BY <1>1, <2>2, FS_Singleton DEF HeldInv
<1>2. CASE m \notin markers \ stale
  <2>1. {s \in Requests : m \in Holds(s)} = {}
    BY <1>2 DEF HeldInv
  <2> QED
    BY <1>2, <2>1, FS_EmptySet DEF HeldInv
<1> QED
  BY <1>1, <1>2

LEMMA WholeInUse == IInv => EpicsInUseAreWhole
<1> SUFFICES ASSUME IInv, kind = "epic"
             PROVE  /\ \A e \in DOMAIN epics : <<e>> = result \/ dot[e] # "none" => epics[e].whole
                    /\ \A e \in runs : epics[e].whole
  BY DEF EpicsInUseAreWhole
<1>0. Typed /\ UseInv
  BY DEF IInv, Base
<1>1. DOMAIN epics \subseteq Paths
  BY <1>0 DEF Typed, Paths
<1>2. \A e \in Whole : epics[e].whole
  BY DEF Whole
<1>3. ASSUME NEW e \in DOMAIN epics, <<e>> = result PROVE e \in Whole
  <2>1. PICK f \in Whole : result = <<f>>
    BY <1>0, <1>3 DEF Typed
  <2>2. <<e>>[1] = <<f>>[1]
    BY <1>3, <2>1
  <2> QED
    BY <2>2
<1> QED
  BY <1>0, <1>1, <1>2, <1>3 DEF UseInv

LEMMA OneWhole == IInv => RetryReusesEpic
<1> SUFFICES ASSUME IInv, ~troubled PROVE Cardinality(Whole) <= 1
  BY DEF RetryReusesEpic, Whole
<1>1. /\ \A c \in Decomposers : c.owner \in Requests /\ Op(c.owner, "create", "await")
      /\ \A c, d \in Decomposers : c = d
      /\ result # <<>> => \A r \in Requests : ~Creating(r)
      /\ \A e \in Whole : result = <<e>> \/ \E c \in Decomposers : c.out = e
  BY DEF IInv, OnceInv
<1>2. result # <<>> => Decomposers = {}
  BY <1>1 DEF Op, Creating
<1>3. \A e, f \in Whole : e = f
  BY <1>1, <1>2
<1>4. CASE Whole = {}
  BY <1>4, FS_EmptySet
<1>5. ASSUME NEW e \in Whole PROVE Cardinality(Whole) <= 1
  <2>1. Whole = {e}
    BY <1>3
  <2> QED
    BY <2>1, FS_Singleton
<1> QED
  BY <1>4, <1>5

\* The marker files are what one request at a time holds, and a Proposal that
\* was written by one request at a time is never half a file (spawn.rs
\* create_new and Pending's Drop; proposal.rs write_atomic).
THEOREM FilesStayGuarded == Spec => []FilesAreGuarded
<1>1. IInv => FilesAreGuarded
  <2>1. IInv => SingleWriterIsAtomic
    BY DEF IInv, AtomicInv, SingleWriterIsAtomic
  <2>2. IInv => HeldInv
    BY DEF IInv
  <2> QED
    BY <2>1, <2>2, TypesHold, HoldersCounted DEF FilesAreGuarded
<1> QED
  BY <1>1, IInvHolds, PTL

\* What a Plan records, builds and runs is an Epic with all its Tasks, and the
\* Plan has only one unless a creation was abandoned, overtaken or not recorded
\* (create_epic, decompose's execute_from_proposal).
THEOREM EpicsStayWhole == Spec => []EpicsAreWhole
<1>1. IInv => EpicsAreWhole
  BY WholeInUse, OneWhole DEF EpicsAreWhole
<1> QED
  BY <1>1, IInvHolds, PTL
=============================================================================
