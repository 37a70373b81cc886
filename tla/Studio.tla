-------------------------------- MODULE Studio --------------------------------
(***************************************************************************)
(* From a Plan to a Run in the Monitor: Generate and Save of a Proposal,   *)
(* Create Epic (views/proposal.rs), Build, Save and Launch of the Pipeline *)
(* (views/pipeline.rs), and the one-click chain of the same handlers       *)
(* (views/one_click.rs), for one Plan.  Requests are handled concurrently; *)
(* what they share is the Plan's folder.  The work is done by `pas`        *)
(* processes of their own (spawn.rs), which go on when the Monitor is      *)
(* killed or the browser goes away.                                        *)
(*                                                                         *)
(* A Proposal is a value here, Cyclic being one that only the Monitor      *)
(* refuses; what an edit does to it is the module Proposal's.              *)
(***************************************************************************)
EXTENDS Integers, Sequences, FiniteSets

CONSTANTS
    Requests,           \* requests that can be under way at once
    Sound, Cyclic,      \* two Proposals
    MaxRequests, MaxEpics, MaxFaults    \* bounds

ASSUME StudioAssumption ==
    /\ IsFiniteSet(Requests) /\ "nobody" \notin Requests
    /\ MaxEpics \in Nat
    /\ {Sound, Cyclic} \cap {"free", "half", "none", "as is"} = {}

Proposals == {Sound, Cyclic}
Nobody    == "nobody"
Idle      == [op |-> "none", flow |-> "single", step |-> "idle", form |-> "as is", p |-> "none", ino |-> 0,
              path |-> 0]

VARIABLES
    kind, mode,         \* the Plan's: "epic" or "pipeline", "reviewed" or "one_click"
    ino,                \* the contents of files: "free", "half", or a Proposal
    proposal, tmp,      \* which of them is proposal.json and proposal.json.tmp, 0 for none
    result,             \* result.json: <<>> or the Epic
    markers,            \* *.pending files
    epics,              \* Beads: the Proposal of each Epic, and whether it has all its Tasks
    dot,                \* Pipeline files by Epic, 0 without one: "none", "valid", "invalid"
    runs,               \* the Pipelines that Runs were started on
    req, procs,         \* requests, and the processes that decompose or build
    asked, faults,      \* counters of the bounds
    overlapped,         \* two requests wrote proposal.json.tmp at once
    stale,              \* markers that a killed Monitor left
    troubled            \* creations overlapped, one was abandoned, or not recorded

disk    == <<ino, proposal, tmp, result, markers, epics, dot>>
ghosts  == <<asked, faults, overlapped, stale, troubled>>
vars    == <<kind, mode, disk, runs, req, procs, ghosts>>

Inodes == 1..(Cardinality(Requests) + 2)
Paths  == 0..MaxEpics

Ops   == {"generate", "save", "create", "build", "edit", "launch", "one_click"}
Steps == {"idle", "propose", "open", "write", "rename", "check", "mark", "read", "await",
          "context", "begin", "built", "change", "verify", "wait"}

TypeOK ==
    /\ ino \in [Inodes -> {"free", "half"} \cup Proposals]
    /\ proposal \in Inodes \cup {0} /\ tmp \in Inodes \cup {0}
    /\ result \in {<<>>} \cup {<<e>> : e \in DOMAIN epics}
    /\ markers \subseteq {"epic", "pipeline", "one_click"}
    /\ epics \in Seq([p : Proposals, whole : BOOLEAN]) /\ Len(epics) <= MaxEpics
    /\ dot \in [Paths -> {"none", "valid", "invalid"}]
    /\ runs \subseteq Paths
    /\ \A r \in Requests :
         /\ req[r].op \in Ops \cup {"none"} /\ req[r].step \in Steps /\ req[r].ino \in Inodes \cup {0}
         /\ req[r].step \in {"write", "rename"} => req[r].ino # 0
         /\ req[r].path \in Paths
    /\ \A c \in procs : c.job \in {"decompose", "build"} /\ c.owner \in Requests \cup {Nobody}

Init ==
    /\ kind \in {"epic", "pipeline"} /\ mode \in {"reviewed", "one_click"}
    /\ ino = [i \in Inodes |-> "free"] /\ proposal = 0 /\ tmp = 0
    /\ result = <<>> /\ markers = {} /\ epics = <<>> /\ dot = [p \in Paths |-> "none"]
    /\ runs = {} /\ req = [r \in Requests |-> Idle] /\ procs = {}
    /\ asked = 0 /\ faults = 0 /\ overlapped = FALSE /\ stale = {} /\ troubled = FALSE

----------------------------------------------------------------------------
(* Requests and replies *)

Op(r, op, step) == req[r].op = op /\ req[r].step = step

At(r, step) == [req EXCEPT ![r].step = step]

\* The next step of the one-click chain, or the reply of a request of its own.
After(r, next) ==
    IF req[r].flow = "single" THEN [req EXCEPT ![r] = Idle]
    ELSE [req EXCEPT ![r] = [Idle EXCEPT !.flow = "chain", !.op = next[1], !.step = next[2]]]

\* A refusal or failure ends the chain too, and with it its marker.
Reply(r) == [req EXCEPT ![r] = Idle]
Released(r) == IF req[r].flow = "chain" THEN {"one_click"} ELSE {}

\* A browser sends a request; a form that was edited has a Proposal of its own
\* (one that is not refused at once).
Ask(r) ==
    /\ req[r] = Idle /\ asked < MaxRequests
    /\ asked' = asked + 1
    /\ \E op \in Ops, f \in {Sound, "as is"} :
         /\ f # "as is" => op \in {"save", "create"}
         /\ req' = [req EXCEPT ![r] = [Idle EXCEPT
                !.op = op, !.form = f,
                !.step = CASE op = "generate" -> "propose" [] op = "save" -> "read" [] op = "create" -> "check"
                           [] op = "one_click" -> "mark" [] OTHER -> "context"]]
    /\ UNCHANGED <<kind, mode, disk, runs, procs, faults, overlapped, stale, troubled>>

----------------------------------------------------------------------------
(* write_atomic: a temporary file of a fixed name, then a rename *)

Writing(r) == req[r].step \in {"write", "rename"}

\* The file is created, or emptied when another request has it open.
OpenTmp(r) ==
    /\ req[r].step = "open"
    /\ LET fresh == CHOOSE i \in Inodes : i # proposal /\ ino[i] = "free"
           i == IF tmp # 0 THEN tmp ELSE fresh
       IN  /\ ino' = [ino EXCEPT ![i] = "half"] /\ tmp' = i
           /\ req' = [req EXCEPT ![r].ino = i, ![r].step = "write"]
    /\ overlapped' = (overlapped \/ \E o \in Requests \ {r} : Writing(o))
    /\ UNCHANGED <<kind, mode, proposal, result, markers, epics, dot, runs, procs, asked, faults, stale, troubled>>

\* A file that another request has filled meanwhile may be left with the end
\* of the longer text.
WriteTmp(r) ==
    /\ req[r].step = "write"
    /\ \E c \in {req[r].p} \cup (IF ino[req[r].ino] = "half" THEN {} ELSE {"half"}) :
         ino' = [ino EXCEPT ![req[r].ino] = c]
    /\ req' = At(r, "rename")
    /\ UNCHANGED <<kind, mode, proposal, tmp, result, markers, epics, dot, runs, procs, ghosts>>

Proc(r, job, path) == [job |-> job, owner |-> r, step |-> "start", p |-> "none", path |-> path, out |-> 0]

\* The rename fails when another request has renamed the file.  Create Epic
\* then starts `pas decompose`.
RenameTmp(r) ==
    /\ req[r].step = "rename"
    /\ IF tmp = 0
       THEN /\ req' = Reply(r) /\ UNCHANGED <<proposal, tmp, ino, procs>>
            /\ markers' = markers \ (Released(r) \cup (IF req[r].op = "create" THEN {"epic"} ELSE {}))
       ELSE /\ proposal' = tmp /\ tmp' = 0
            /\ ino' = [i \in Inodes |-> IF i = tmp \/ \E o \in Requests \ {r} : req[o].ino = i THEN ino[i] ELSE "free"]
            /\ UNCHANGED markers
            /\ IF req[r].op = "create"
               THEN /\ req' = [req EXCEPT ![r].step = "await", ![r].ino = 0]
                    /\ procs' = procs \cup {Proc(r, "decompose", 0)}
               ELSE req' = After(r, <<"create", "check">>) /\ UNCHANGED procs
    /\ UNCHANGED <<kind, mode, result, epics, dot, runs, ghosts>>

Saved == IF proposal = 0 \/ ino[proposal] \notin Proposals THEN <<>> ELSE <<ino[proposal]>>

----------------------------------------------------------------------------
(* The Proposal *)

\* `pas decompose --dry-run` answers, with a cycle perhaps, which is stored as
\* well, or it fails; a Plan without an Epic has no Proposal.
Proposed(r) ==
    /\ Op(r, "generate", "propose")
    /\ \/ /\ kind = "epic" /\ \E p \in Proposals : req' = [req EXCEPT ![r].p = p, ![r].step = "open"]
          /\ UNCHANGED markers
       \/ req' = Reply(r) /\ markers' = markers \ Released(r)
    /\ UNCHANGED <<kind, mode, ino, proposal, tmp, result, epics, dot, runs, procs, ghosts>>

\* The form applied to what is saved, or nothing when it is refused.
EditedProposal(r) ==
    LET p == IF req[r].form = "as is" THEN Saved ELSE <<req[r].form>>
    IN  IF Saved = <<>> \/ p = <<Cyclic>> THEN <<>> ELSE p

\* Save and Create Epic read what is saved and check the edited Proposal.
ReadAndEdit(r) ==
    /\ req[r].step = "read"
    /\ IF EditedProposal(r) = <<>>
       THEN /\ req' = Reply(r)
            /\ markers' = markers \ (Released(r) \cup (IF req[r].op = "create" THEN {"epic"} ELSE {}))
       ELSE /\ req' = [req EXCEPT ![r].p = EditedProposal(r)[1], ![r].step = "open"]
            /\ UNCHANGED markers
    /\ UNCHANGED <<kind, mode, ino, proposal, tmp, result, epics, dot, runs, procs, ghosts>>

----------------------------------------------------------------------------
(* Create Epic *)

\* A version that forgets whether the Epic is there.
CheckResultNever(r) ==
    /\ Op(r, "create", "check") /\ req' = At(r, "mark")
    /\ UNCHANGED <<kind, mode, disk, runs, procs, ghosts>>

CheckResult(r) ==
    /\ Op(r, "create", "check")
    /\ IF result # <<>> THEN req' = Reply(r) /\ markers' = markers \ Released(r)
       ELSE req' = At(r, "mark") /\ UNCHANGED markers
    /\ UNCHANGED <<kind, mode, ino, proposal, tmp, result, epics, dot, runs, procs, ghosts>>

Creating(r) == req[r].op = "create" /\ req[r].step \in {"read", "open", "write", "rename", "await"}

\* A version that opens the marker whether or not it exists.
MarkEpicAnyway(r) ==
    /\ Op(r, "create", "mark")
    /\ req' = At(r, "read") /\ markers' = markers \cup {"epic"}
    /\ UNCHANGED <<kind, mode, ino, proposal, tmp, result, epics, dot, runs, procs, ghosts>>

\* The marker is created anew, or another request is at it.
MarkEpic(r) ==
    /\ Op(r, "create", "mark")
    /\ IF "epic" \in markers THEN req' = Reply(r) /\ markers' = markers \ Released(r)
       ELSE req' = At(r, "read") /\ markers' = markers \cup {"epic"}
    /\ UNCHANGED <<kind, mode, ino, proposal, tmp, result, epics, dot, runs, procs, ghosts>>

\* `pas decompose --from-proposal` reads the file, and creates what it says.
DecomposeReads(c) ==
    /\ c.job = "decompose" /\ c.step = "start"
    /\ procs' = (procs \ {c}) \cup {IF Saved = <<>> THEN [c EXCEPT !.step = "done"]
                                    ELSE [c EXCEPT !.step = "create", !.p = Saved[1]]}
    /\ UNCHANGED <<kind, mode, disk, runs, req, ghosts>>

\* The Epic, then its Tasks; a failure among them leaves the Epic behind.
DecomposeCreates(c) ==
    /\ c.job = "decompose" /\ c.step = "create" /\ Len(epics) < MaxEpics
    /\ \E whole \in BOOLEAN :
         /\ epics' = Append(epics, [p |-> c.p, whole |-> whole])
         /\ procs' = (procs \ {c}) \cup {[c EXCEPT !.step = "done", !.out = IF whole THEN Len(epics) + 1 ELSE 0]}
    /\ UNCHANGED <<kind, mode, ino, proposal, tmp, result, markers, dot, runs, req, ghosts>>

DecomposeFails(c) ==
    /\ c.job = "decompose" /\ c.step = "create"
    /\ procs' = (procs \ {c}) \cup {[c EXCEPT !.step = "done"]}
    /\ UNCHANGED <<kind, mode, disk, runs, req, ghosts>>

Answer(r, job) == {c \in procs : c.owner = r /\ c.job = job /\ c.step = "done"}

\* The Epic is recorded, which may fail, and the marker goes.
RecordEpic(r) ==
    /\ Op(r, "create", "await")
    /\ \E c \in Answer(r, "decompose") :
         /\ procs' = procs \ {c}
         /\ \/ /\ req' = Reply(r) /\ UNCHANGED result
               /\ troubled' = (troubled \/ c.out # 0)
               /\ markers' = markers \ ({"epic"} \cup Released(r))
            \/ /\ c.out # 0 /\ result' = <<c.out>> /\ req' = After(r, <<"build", "context">>)
               /\ troubled' = (troubled \/ \E o \in Requests : Op(o, "create", "mark"))
               /\ markers' = markers \ {"epic"}
    /\ UNCHANGED <<kind, mode, ino, proposal, tmp, epics, dot, runs, asked, faults, overlapped, stale>>

----------------------------------------------------------------------------
(* The Pipeline *)

Refuse(r) == req' = Reply(r) /\ markers' = markers \ Released(r)

\* A one-click request skips to the Pipeline when the Plan has its Epic.
StartChain(r) ==
    /\ Op(r, "one_click", "mark")
    /\ IF mode # "one_click" \/ "one_click" \in markers THEN req' = Reply(r) /\ UNCHANGED markers
       ELSE /\ markers' = markers \cup {"one_click"}
            /\ req' = [req EXCEPT ![r] =
                  IF kind = "epic" /\ result = <<>>
                  THEN [@ EXCEPT !.flow = "chain", !.op = "generate", !.step = "propose"]
                  ELSE [@ EXCEPT !.flow = "chain", !.op = "build", !.step = "context"]]
    /\ UNCHANGED <<kind, mode, ino, proposal, tmp, result, epics, dot, runs, procs, ghosts>>

\* Where the Pipeline is, which only an Epic can tell in the mode that has one.
ReadContext(r) ==
    /\ req[r].step = "context"
    /\ LET path  == IF kind = "epic" /\ result # <<>> THEN result[1] ELSE 0
           named == kind = "pipeline" \/ result # <<>>
           next  == CASE req[r].op = "build" -> "begin" [] req[r].op = "edit" -> "change" [] OTHER -> "verify"
       IN  IF named /\ (req[r].op = "build" \/ dot[path] # "none")
           THEN req' = [req EXCEPT ![r].path = path, ![r].step = next] /\ UNCHANGED markers
           ELSE Refuse(r)
    /\ UNCHANGED <<kind, mode, ino, proposal, tmp, result, epics, dot, runs, procs, ghosts>>

\* A version that tries again until the marker is gone.
BeginBuildPolls(r) ==
    /\ Op(r, "build", "begin")
    /\ IF "pipeline" \in markers THEN UNCHANGED <<markers, req, procs>>
       ELSE /\ markers' = markers \cup {"pipeline"} /\ req' = At(r, "built")
            /\ procs' = procs \cup {Proc(r, "build", req[r].path)}
    /\ UNCHANGED <<kind, mode, ino, proposal, tmp, result, epics, dot, runs, ghosts>>

BeginBuild(r) ==
    /\ Op(r, "build", "begin")
    /\ IF "pipeline" \in markers THEN Refuse(r) /\ UNCHANGED procs
       ELSE /\ markers' = markers \cup {"pipeline"} /\ req' = At(r, "built")
            /\ procs' = procs \cup {Proc(r, "build", req[r].path)}
    /\ UNCHANGED <<kind, mode, ino, proposal, tmp, result, epics, dot, runs, ghosts>>

\* `pas scaffold` or `pas generate` writes the file before it validates it.
BuildEnds(c) ==
    /\ c.job = "build" /\ c.step = "start"
    /\ \/ \E d \in {"valid", "invalid"}, out \in {0, 1} :
            /\ d = "valid" => out = 1
            /\ dot' = [dot EXCEPT ![c.path] = d]
            /\ procs' = (procs \ {c}) \cup {[c EXCEPT !.step = "done", !.out = out, !.p = d]}
       \/ procs' = (procs \ {c}) \cup {[c EXCEPT !.step = "done"]} /\ UNCHANGED dot
    /\ UNCHANGED <<kind, mode, ino, proposal, tmp, result, markers, epics, runs, req, ghosts>>

\* The chain goes on with a file that is valid and that `pas` did not refuse.
Built(r) ==
    /\ Op(r, "build", "built")
    /\ \E c \in Answer(r, "build") :
         /\ procs' = procs \ {c}
         /\ \E checked \in {TRUE} \cup (IF req[r].flow = "chain" THEN {FALSE} ELSE {}) :
              LET on == checked /\ c.out = 1 /\ c.p = "valid" /\ dot[req[r].path] = "valid"
              IN  IF on /\ req[r].flow = "chain"
                  THEN /\ req' = [req EXCEPT ![r].op = "launch", ![r].step = "verify"]
                       /\ markers' = markers \ {"pipeline"}
                  ELSE req' = Reply(r) /\ markers' = markers \ ({"pipeline"} \cup Released(r))
    /\ UNCHANGED <<kind, mode, ino, proposal, tmp, result, epics, dot, runs, ghosts>>

\* The edited text replaces the file; the check that follows changes nothing.
ChangeDot(r) ==
    /\ Op(r, "edit", "change")
    /\ \/ \E d \in {"valid", "invalid"} : dot' = [dot EXCEPT ![req[r].path] = d]
       \/ UNCHANGED dot
    /\ Refuse(r)
    /\ UNCHANGED <<kind, mode, ino, proposal, tmp, result, epics, runs, procs, ghosts>>

----------------------------------------------------------------------------
(* Launch *)

\* The Pipeline is checked again and the Run's process started, detached from
\* the Monitor, unless that fails.
StartRun(r) ==
    /\ Op(r, "launch", "verify")
    /\ \/ Refuse(r) /\ UNCHANGED runs
       \/ /\ dot[req[r].path] = "valid"
          /\ runs' = runs \cup {req[r].path} /\ req' = At(r, "wait") /\ UNCHANGED markers
    /\ UNCHANGED <<kind, mode, ino, proposal, tmp, result, epics, dot, procs, ghosts>>

\* The Run's Index entry, its refusal (RunLifecycle says when), or five seconds
\* without either.
AwaitRun(r) ==
    /\ Op(r, "launch", "wait")
    /\ Refuse(r)
    /\ UNCHANGED <<kind, mode, ino, proposal, tmp, result, epics, dot, runs, procs, ghosts>>

----------------------------------------------------------------------------
(* The environment *)

Holds(r) ==
    (IF Creating(r) THEN {"epic"} ELSE {}) \cup Released(r)
    \cup (IF Op(r, "build", "built") THEN {"pipeline"} ELSE {})

Orphans(R) == {IF c.owner \in R THEN [c EXCEPT !.owner = Nobody] ELSE c : c \in procs}

Abandoned(R) == \E r \in R : Creating(r) /\ req[r].step = "await"

Unopened(R) == [i \in Inodes |-> IF i \in {proposal, tmp} \/ \E o \in Requests \ R : req[o].ino = i
                                 THEN ino[i] ELSE "free"]

\* The browser goes away and the handler is dropped where it waits; its markers
\* go with it, and the process it started does not.
Disconnect(r) ==
    /\ req[r].step \in {"propose", "await", "built", "wait"}
    /\ faults < MaxFaults /\ faults' = faults + 1
    /\ req' = Reply(r) /\ markers' = markers \ Holds(r) /\ procs' = Orphans({r})
    /\ troubled' = (troubled \/ Abandoned({r}))
    /\ UNCHANGED <<kind, mode, ino, proposal, tmp, result, epics, dot, runs, asked, overlapped, stale>>

\* The Monitor is killed and started again.
Kill ==
    /\ faults < MaxFaults /\ faults' = faults + 1
    /\ \E r \in Requests : req[r] # Idle
    /\ req' = [r \in Requests |-> Idle] /\ procs' = Orphans(Requests)
    /\ ino' = Unopened(Requests)
    /\ stale' = markers /\ troubled' = (troubled \/ Abandoned(Requests))
    /\ UNCHANGED <<kind, mode, proposal, tmp, result, markers, epics, dot, runs, asked, overlapped>>

\* Nobody reads what an orphaned process prints.
OrphanEnds(c) ==
    /\ c.owner = Nobody /\ c.step = "done"
    /\ procs' = procs \ {c}
    /\ UNCHANGED <<kind, mode, disk, runs, req, ghosts>>

----------------------------------------------------------------------------

Handle(r) ==
    \/ OpenTmp(r) \/ WriteTmp(r) \/ RenameTmp(r)
    \/ Proposed(r) \/ ReadAndEdit(r)
    \/ CheckResult(r) \/ MarkEpic(r) \/ RecordEpic(r)
    \/ StartChain(r) \/ ReadContext(r) \/ BeginBuild(r) \/ Built(r) \/ ChangeDot(r)
    \/ StartRun(r) \/ AwaitRun(r)

Work(c) == DecomposeReads(c) \/ DecomposeCreates(c) \/ DecomposeFails(c) \/ BuildEnds(c) \/ OrphanEnds(c)

Done ==
    /\ asked = MaxRequests /\ procs = {} /\ \A r \in Requests : req[r] = Idle
    /\ UNCHANGED vars

Next ==
    \/ \E r \in Requests : Ask(r) \/ Handle(r) \/ Disconnect(r)
    \/ \E c \in procs : Work(c)
    \/ Kill
    \/ Done

\* Handlers are polled, and the commands they wait for end.
Fairness ==
    /\ \A r \in Requests : WF_vars(Handle(r))
    /\ WF_vars(\E c \in procs : Work(c))

Spec == Init /\ [][Next]_vars /\ Fairness

----------------------------------------------------------------------------
(* Properties *)

\* A marker that no killed Monitor left is held by exactly one request, which
\* is at the work it stands for, and nobody works without one: one Epic, one
\* build and one one-click chain at a time (create_new and Pending's Drop).
MarkersAreHeld ==
    \A m \in {"epic", "pipeline", "one_click"} :
       /\ Cardinality({r \in Requests : m \in Holds(r)}) = (IF m \in markers \ stale THEN 1 ELSE 0)
       /\ m \in stale => m \in markers

\* Whatever failed, was killed or went away, a Plan gets a second whole Epic
\* only if a creation was abandoned or not recorded, or ended between another
\* request's look at result.json and its marker.
RetryReusesEpic == ~troubled => Cardinality({e \in DOMAIN epics : epics[e].whole}) <= 1

\* What a Plan records as its Epic, what its Pipelines are named after and what
\* its Runs work on has all its Tasks, although a creation that fails midway
\* leaves an Epic without some of them in Beads.
EpicsInUseAreWhole ==
    kind = "epic" =>
       /\ \A e \in DOMAIN epics : <<e>> = result \/ dot[e] # "none" => epics[e].whole
       /\ \A e \in runs : epics[e].whole

\* proposal.json is never half a file while requests write it one at a time,
\* a kill between the write and the rename included.
SingleWriterIsAtomic == ~overlapped /\ proposal # 0 => ino[proposal] \in Proposals

\* Every request is answered: no command or marker of another request is
\* waited for without end, and Launch gives up on a silent Run.
RequestsEnd == \A r \in Requests : req[r] # Idle ~> req[r] = Idle

\* "a stored cycle is never created" (attractor-monitor/tests/proposal.rs:314),
\* and "Create Epic refuses it until it is fixed" (views/proposal.rs:184).
StoredCycleIsNeverCreated == \A e \in DOMAIN epics : epics[e].p # Cyclic

\* "so a reader never sees half a file" (proposal.rs, write_atomic).
NeverHalfAFile == proposal # 0 => ino[proposal] \in Proposals

(* The files that say what is under way are held by who made them, and the *)
(* Proposal is replaced whole (spawn.rs markers, write_atomic).            *)
FilesAreGuarded == TypeOK /\ MarkersAreHeld /\ SingleWriterIsAtomic

(* What is decomposed is decomposed whole, and once (create_epic, run,     *)
(* decompose).                                                             *)
EpicsAreWhole == EpicsInUseAreWhole /\ RetryReusesEpic
=============================================================================
