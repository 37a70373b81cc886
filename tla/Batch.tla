-------------------------------- MODULE Batch --------------------------------
(***************************************************************************)
(* `pas run DIRECTORY` (commands/run.rs, cmd_run_dir): the Pipelines of a  *)
(* directory in lexical order, with a manifest of what has been completed, *)
(* and what every Attempt checks and builds before its first stage: the    *)
(* plan, the trust in the extensions of pas.toml (attractor-quality), pi   *)
(* (provider_readiness.rs) and the copy of the skills                      *)
(* (agent_resources.rs).  Files of JSON are written in place, so a crash   *)
(* or an error can leave a torn manifest; the copy of the skills is        *)
(* swapped in by two renames.  Every call of the file system here can      *)
(* fail, and then the command ends.  The Attempt itself is the module      *)
(* RunLifecycle's and Engine's.                                            *)
(***************************************************************************)
EXTENDS Integers, Sequences, FiniteSets

CONSTANTS
    Files,          \* the Pipelines of the directory, in lexical order
    PiFiles,        \* those with pi nodes
    ExtFiles,       \* those whose pas.toml names pi extensions
    SkillLists,     \* what --codergen-skill can be, "none" for an empty list
    MaxInvocations, MaxChanges, MaxCrashes    \* bounds

ASSUME FilesAssumption ==
    /\ Files \in Seq({Files[n] : n \in DOMAIN Files}) /\ Files # <<>>
    /\ \A m, n \in DOMAIN Files : Files[m] = Files[n] => m = n

ASSUME BoundsAssumption ==
    "none" \in SkillLists /\ MaxInvocations \in Nat /\ MaxChanges \in Nat /\ MaxCrashes \in Nat

Names == {Files[i] : i \in DOMAIN Files}

VARIABLES
    bad,            \* files that do not compile or validate
    pi,             \* "ready", "missing", "old", "not ready"
    version,        \* contents of pas.toml and the extensions
    trusted,        \* the trust store: contents that somebody agreed to
    manifest,       \* manifest.json: absent, torn or whole, and what it says
    checkpoints,    \* Pipelines with an unfinished Run
    copy,           \* the skill copies: claude-plugin, its .tmp and .old
    pc, i, fresh, skills, memory, before,   \* the process
    finished,       \* completed since the batch began
    reruns, lost,   \* completed again; completions whose record a crash or an error lost
    invocations, changes, crashes

disk    == <<manifest, checkpoints, copy>>
world   == <<bad, pi, version, trusted>>
process == <<pc, i, fresh, skills, memory, before>>
ghosts  == <<finished, reruns, lost>>
bounds  == <<invocations, changes, crashes>>
vars    == <<disk, world, process, ghosts, bounds>>

NoManifest == [completed |-> {}, current |-> "none"]
NoCopy     == [root |-> "none", tmp |-> "none", old |-> "none"]
Absent     == [file |-> "absent", is |-> NoManifest]
Torn       == [file |-> "torn", is |-> NoManifest]
Whole(m)   == [file |-> "whole", is |-> m]

File == Files[i]

Pcs == {"off", "sweep", "trust", "ready", "fresh", "load", "next", "saved", "prepare", "clear",
        "fill", "aside", "swap", "drop", "engine", "record", "recorded", "remove"}
Manifests == [completed : SUBSET Names, current : Names \cup {"none"}]

\* A copy of a list, whole; "part" is one that is not all there.
Contents  == SkillLists \cup {"part"}
Copies    == [root : Contents, tmp : Contents, old : Contents]

DiskOK ==
    /\ manifest \in [file : {"absent", "torn", "whole"}, is : Manifests]
    /\ checkpoints \subseteq Names
    /\ copy \in [Names -> Copies]
WorldOK ==
    /\ bad \subseteq Names /\ pi \in {"ready", "missing", "old", "not ready"}
    /\ changes \in 0..MaxChanges /\ version \in 0..changes /\ trusted \subseteq 0..MaxChanges
ProcessOK ==
    /\ pc \in Pcs /\ i \in 1..(Len(Files) + 1)
    /\ memory \in Manifests
    /\ fresh \in BOOLEAN /\ skills \in SkillLists /\ before \in Contents
CountsOK ==
    /\ finished \subseteq Names /\ reruns \in Nat /\ lost \in Nat
    /\ invocations \in 0..MaxInvocations /\ crashes \in 0..MaxCrashes

TypeOK == DiskOK /\ WorldOK /\ ProcessOK /\ CountsOK

Init ==
    /\ bad = {} /\ pi = "ready" /\ version = 0 /\ trusted = {}
    /\ manifest = Absent /\ checkpoints = {} /\ copy = [f \in Names |-> NoCopy]
    /\ pc = "off" /\ i = 1 /\ fresh = FALSE /\ skills = "none" /\ memory = NoManifest /\ before = "none"
    /\ finished = {} /\ reruns = 0 /\ lost = 0
    /\ invocations = 0 /\ changes = 0 /\ crashes = 0

----------------------------------------------------------------------------
(* Trust and readiness *)

IsTrusted(content) == content \in trusted

\* is_trusted, else the question on a terminal; an answer "y" is remembered,
\* any other answer, or none to be had, ends the command.
EnsureTrusted(files, then) ==
    \/ /\ files \cap ExtFiles = {} \/ IsTrusted(version)
       /\ pc' = then /\ UNCHANGED trusted
    \/ /\ files \cap ExtFiles # {} /\ ~IsTrusted(version)
       /\ \/ pc' = then /\ trusted' = trusted \cup {version}
          \/ pc' = "off" /\ UNCHANGED trusted

\* pi --version, then pi auth check for each model; no call without a model.
PiReady(files) == files \cap PiFiles = {} \/ pi = "ready"

----------------------------------------------------------------------------
(* The batch *)

Invoke ==
    /\ pc = "off" /\ invocations < MaxInvocations
    /\ \E f \in BOOLEAN, list \in SkillLists : fresh' = f /\ skills' = list
    /\ pc' = "sweep" /\ i' = 1 /\ invocations' = invocations + 1
    /\ memory' = NoManifest /\ before' = "none"
    /\ UNCHANGED <<disk, world, ghosts, changes, crashes>>

\* Every plan is prepared before the first Pipeline starts.
Sweep ==
    /\ pc = "sweep"
    /\ IF File \in bad THEN pc' = "off" /\ i' = i
       ELSE IF i < Len(Files) THEN pc' = pc /\ i' = i + 1
       ELSE pc' = "trust" /\ i' = 1
    /\ UNCHANGED <<disk, world, ghosts, bounds, fresh, skills, memory, before>>

TrustSweep ==
    /\ pc = "trust" /\ EnsureTrusted(Names, "ready")
    /\ UNCHANGED <<disk, bad, pi, version, ghosts, bounds, i, fresh, skills, memory, before>>

ReadySweep ==
    /\ pc = "ready" /\ pc' = IF PiReady(Names) THEN "fresh" ELSE "off"
    /\ UNCHANGED <<disk, world, ghosts, bounds, i, fresh, skills, memory, before>>

ClearManifest ==
    /\ pc = "fresh" /\ pc' = "load"
    /\ manifest' = IF fresh THEN Absent ELSE manifest
    /\ finished' = IF fresh THEN {} ELSE finished
    /\ UNCHANGED <<checkpoints, copy, world, reruns, lost, bounds, i, fresh, skills, memory, before>>

\* A manifest that does not parse ends the command.
LoadManifest ==
    /\ pc = "load"
    /\ pc' = IF manifest = Torn THEN "off" ELSE "next"
    /\ memory' = manifest.is
    /\ UNCHANGED <<disk, world, ghosts, bounds, i, fresh, skills, before>>

\* Completed ones are passed over; the manifest names the one that begins.
BeginPipeline ==
    /\ pc = "next"
    /\ \/ i > Len(Files) /\ pc' = "remove" /\ UNCHANGED <<i, memory, manifest>>
       \/ /\ i <= Len(Files) /\ File \in memory.completed
          /\ i' = i + 1 /\ UNCHANGED <<pc, memory, manifest>>
       \/ /\ i <= Len(Files) /\ File \notin memory.completed
          /\ pc' = "saved" /\ manifest' = Torn
          /\ memory' = [memory EXCEPT !.current = File] /\ UNCHANGED i
    /\ UNCHANGED <<checkpoints, copy, world, ghosts, bounds, fresh, skills, before>>

\* fs::write has truncated the file; now it is written.
SaveManifest ==
    /\ pc \in {"saved", "recorded"}
    /\ manifest' = Whole(memory)
    /\ IF pc = "saved" THEN pc' = "prepare" /\ i' = i ELSE pc' = "next" /\ i' = i + 1
    /\ UNCHANGED <<checkpoints, copy, world, ghosts, bounds, fresh, skills, memory, before>>

----------------------------------------------------------------------------
(* One Attempt of a Pipeline *)

\* prepare_run checks again, for this Pipeline alone: the plan, then trust,
\* then pi.  Without a checkpoint the Run is a new one, with a folder of its own.
PrepareRun ==
    /\ pc = "prepare"
    /\ IF File \in bad THEN pc' = "off" /\ UNCHANGED trusted
       ELSE EnsureTrusted({File}, IF PiReady({File}) THEN "clear" ELSE "off")
    /\ checkpoints' = IF fresh /\ pc' = "clear" THEN checkpoints \ {File} ELSE checkpoints
    /\ copy' = IF pc' = "clear" /\ File \notin checkpoints' THEN [copy EXCEPT ![File] = NoCopy] ELSE copy
    /\ before' = copy'[File].root
    /\ UNCHANGED <<manifest, bad, pi, version, ghosts, bounds, i, fresh, skills, memory>>

\* What a removal that fails leaves: all of it or a part.
Rest(c) == IF c = "none" THEN {} ELSE {c, "part"}

\* What a removal leaves whose result is not looked at.
Removed(c) == Rest(c) \cup {"none"}

Copy == copy[File]

\* The command ends with an error, and leaves this of the copy.
CopyFails(root, tmp, old) ==
    pc' = "off" /\ copy' = [copy EXCEPT ![File] = [root |-> root, tmp |-> tmp, old |-> old]]

\* A version that leaves the copy of an earlier Attempt where it is.
ClearCopyKept ==
    /\ pc = "clear"
    /\ IF skills = "none" THEN pc' = "engine" /\ copy' = copy
       ELSE pc' = "fill" /\ copy' = [copy EXCEPT ![File] = [root |-> @.root, tmp |-> "part", old |-> "none"]]
    /\ UNCHANGED <<manifest, checkpoints, world, ghosts, bounds, i, fresh, skills, memory, before>>

\* build_skill_copy: without skills the copy goes; else what an earlier build
\* left beside it goes, and a new one is begun.  The Run folder or the one in
\* it may not be made, and each removal may fail.
ClearCopy ==
    /\ pc = "clear"
    /\ \/ CopyFails(Copy.root, Copy.tmp, Copy.old)
       \/ /\ skills = "none"
          /\ \/ pc' = "engine" /\ copy' = [copy EXCEPT ![File].root = "none"]
             \/ \E r \in Rest(Copy.root) : CopyFails(r, Copy.tmp, Copy.old)
       \/ /\ skills # "none"
          /\ \/ pc' = "fill" /\ copy' = [copy EXCEPT ![File] = [root |-> @.root, tmp |-> "part", old |-> "none"]]
             \/ \E t \in Rest(Copy.tmp) : CopyFails(Copy.root, t, Copy.old)
             \/ \E o \in Removed(Copy.old) : CopyFails(Copy.root, "none", o)
    /\ UNCHANGED <<manifest, checkpoints, world, ghosts, bounds, i, fresh, skills, memory, before>>

\* Filling it can fail: a skill has vanished or is too large.  What there is
\* of it is then removed, if it can be.
FillCopy ==
    /\ pc = "fill"
    /\ \/ pc' = "aside" /\ copy' = [copy EXCEPT ![File].tmp = skills]
       \/ \E t \in Removed(Copy.tmp) : CopyFails(Copy.root, t, Copy.old)
    /\ UNCHANGED <<manifest, checkpoints, world, ghosts, bounds, i, fresh, skills, memory, before>>

\* The first rename, of a copy that is there.
MoveAside ==
    /\ pc = "aside"
    /\ \/ pc' = "swap" /\ copy' = [copy EXCEPT ![File] = [root |-> "none", tmp |-> @.tmp, old |-> @.root]]
       \/ Copy.root # "none" /\ \E t \in Removed(Copy.tmp) : CopyFails(Copy.root, t, Copy.old)
    /\ UNCHANGED <<manifest, checkpoints, world, ghosts, bounds, i, fresh, skills, memory, before>>

\* The second rename; when it fails the first one is taken back, if it can be.
SwapIn ==
    /\ pc = "swap"
    /\ \/ pc' = "drop" /\ copy' = [copy EXCEPT ![File] = [root |-> @.tmp, tmp |-> "none", old |-> @.old]]
       \/ \E t \in Removed(Copy.tmp) :
             \/ CopyFails(Copy.old, t, "none")
             \/ CopyFails(Copy.root, t, Copy.old)
    /\ UNCHANGED <<manifest, checkpoints, world, ghosts, bounds, i, fresh, skills, memory, before>>

\* The end of what was there before.  Its removal can fail, and that ends the
\* command with the new copy in place.
DropOld ==
    /\ pc = "drop"
    /\ \/ pc' = "engine" /\ copy' = [copy EXCEPT ![File].old = "none"]
       \/ \E o \in Rest(Copy.old) : CopyFails(Copy.root, Copy.tmp, o)
    /\ UNCHANGED <<manifest, checkpoints, world, ghosts, bounds, i, fresh, skills, memory, before>>

\* The skills that a stage gets: the copy when there is one.
SkillsGiven(f) == IF skills # "none" /\ copy[f].root # "none" THEN copy[f].root ELSE skills

Stage ==
    /\ pc = "engine" /\ File \notin checkpoints
    /\ checkpoints' = checkpoints \cup {File}
    /\ UNCHANGED <<manifest, copy, world, process, ghosts, bounds>>

\* An error and a stop end the command; the checkpoint stays.
EngineEnds ==
    /\ pc = "engine" /\ pc' = "off"
    /\ UNCHANGED <<disk, world, ghosts, bounds, i, fresh, skills, memory, before>>

\* The engine has removed the checkpoint; the manifest does not know yet.
EngineCompletes ==
    /\ pc = "engine" /\ File \in checkpoints
    /\ checkpoints' = checkpoints \ {File}
    /\ pc' = "record"
    /\ finished' = finished \cup {File}
    /\ reruns' = reruns + (IF File \in finished THEN 1 ELSE 0)
    /\ UNCHANGED <<manifest, copy, world, lost, bounds, i, fresh, skills, memory, before>>

\* A version that does not save what has been completed.
RecordCompletionUnsaved ==
    /\ pc = "record" /\ pc' = "next" /\ i' = i + 1
    /\ memory' = [completed |-> memory.completed \cup {File}, current |-> "none"]
    /\ UNCHANGED <<manifest, checkpoints, copy, world, ghosts, bounds, fresh, skills, before>>

\* The save after it begins, or is refused (ManifestFails).
RecordCompletion ==
    /\ pc = "record" /\ pc' = "recorded"
    /\ memory' = [completed |-> memory.completed \cup {File}, current |-> "none"]
    /\ manifest' = Torn
    /\ UNCHANGED <<checkpoints, copy, world, ghosts, bounds, i, fresh, skills, before>>

RemoveManifest ==
    /\ pc = "remove" /\ pc' = "off"
    /\ manifest' = Absent /\ finished' = {}
    /\ UNCHANGED <<checkpoints, copy, world, reruns, lost, bounds, i, fresh, skills, memory, before>>

\* A save, a read or a removal of the manifest fails, and `?` ends the command.
\* A save may fail before it has truncated the file, which then stays as it
\* is, or in writing it, which leaves it torn.
ManifestFails ==
    /\ \/ pc \in {"saved", "record", "recorded"}
       \/ pc = "next" /\ i <= Len(Files) /\ File \notin memory.completed
       \/ pc \in {"load", "remove"} /\ manifest # Absent
       \/ pc = "fresh" /\ fresh /\ manifest # Absent
    /\ pc' = "off"
    /\ lost' = lost + (IF pc \in {"record", "recorded"} THEN 1 ELSE 0)
    /\ UNCHANGED <<disk, world, finished, reruns, bounds, i, fresh, skills, memory, before>>

----------------------------------------------------------------------------
(* Faults and the environment *)

Crash ==
    /\ pc # "off" /\ crashes < MaxCrashes
    /\ pc' = "off" /\ crashes' = crashes + 1
    /\ lost' = lost + (IF pc \in {"record", "recorded"} THEN 1 ELSE 0)
    /\ UNCHANGED <<disk, world, finished, reruns, invocations, changes, i, fresh, skills, memory, before>>

\* Somebody edits a Pipeline or an extension, or pi changes.
Change ==
    /\ changes < MaxChanges /\ changes' = changes + 1
    /\ \/ \E f \in Names : bad' = (bad \cup {f}) \ (bad \cap {f}) /\ UNCHANGED <<pi, version>>
       \/ \E p \in {"ready", "missing", "old", "not ready"} \ {pi} : pi' = p /\ UNCHANGED <<bad, version>>
       \/ version' = version + 1 /\ UNCHANGED <<bad, pi>>
    /\ UNCHANGED <<trusted, disk, process, ghosts, invocations, crashes>>

----------------------------------------------------------------------------

Step ==
    \/ Sweep \/ TrustSweep \/ ReadySweep \/ ClearManifest \/ LoadManifest \/ BeginPipeline
    \/ SaveManifest \/ PrepareRun \/ ClearCopy \/ FillCopy \/ MoveAside \/ SwapIn \/ DropOld
    \/ Stage \/ EngineEnds \/ EngineCompletes \/ RecordCompletion \/ RemoveManifest
    \/ ManifestFails

Next == Invoke \/ Step \/ Crash \/ Change

\* No step has to be taken: the question of trust and a waiting gate of the
\* engine wait for a person.
Spec == Init /\ [][Next]_vars

----------------------------------------------------------------------------
(* Properties *)

\* Pipelines run in lexical order: while one runs, every earlier one has been
\* completed in this batch, also when the batch goes on after a crash, a stop
\* or an error (commands/run.rs:1160-1162).
InOrder == pc = "engine" => \A j \in 1..(i - 1) : Files[j] \in finished

\* A Pipeline is completed a second time only when the record of its end was
\* lost: by a crash before the manifest was saved, or by a save that failed
\* (commands/run.rs:1287-1295, 1333-1340).
RerunOnlyAfterLoss == reruns <= lost

\* While the stages of an Attempt run, they are given the skills that this
\* Attempt was started with, whole, whatever an earlier Attempt of the Run
\* left behind (agent_resources.rs:101-146).
SkillsAreOfThisAttempt == copy[File].root = skills /\ SkillsGiven(File) = skills

\* What a step leaves of the copy while one is built, also a step that fails
\* and a crash: the one from before, the new one whole, or none; and until the
\* new one is in place the one from before is there, if only beside it
\* (agent_resources.rs:127-152).
Swapped(c) ==
    /\ c.root \in {before, skills, "none"}
    /\ c.root # skills => before \in {c.root, c.old}

BuildsReplaceWhole ==
    [][(pc \in {"clear", "fill", "aside", "swap", "drop"} /\ skills # "none") => Swapped(copy'[File])]_vars

\* "On an error the previous copy is kept" (agent_resources.rs:104).  It is not
\* always: see README 5.
ErrorKeepsCopy ==
    [][(pc \in {"clear", "fill", "aside", "swap", "drop"} /\ pc' = "off" /\ crashes' = crashes)
          => copy'[File].root = before]_vars

\* "no file of an earlier Attempt stays" (agent_resources.rs:103-104).
NothingStays == pc = "engine" /\ skills = "none" => copy[File] = NoCopy

\* After a crash, the same command goes on where the batch was.
BatchGoesOn == pc = "load" /\ bad = {} => manifest # Torn

(* A directory is run in order, and what is done stays done unless the     *)
(* record of it is lost (cmd_run_dir and its manifest).                    *)
BatchIsInOrder == TypeOK /\ InOrder /\ RerunOnlyAfterLoss

(* The copy of the skills is the one of the Attempt that uses it, and no   *)
(* step of building it, error or crash leaves half of one in its place     *)
(* (build_skill_copy).                                                     *)
CopyIsWhole == [](pc = "engine" => SkillsAreOfThisAttempt) /\ BuildsReplaceWhole
=============================================================================
