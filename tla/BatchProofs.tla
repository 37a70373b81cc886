----------------------------- MODULE BatchProofs -----------------------------
(***************************************************************************)
(* Proofs about Batch for every directory of Pipelines: the order in which *)
(* they run, what a crash or a failed save can make run again, and which   *)
(* skills the stages of an Attempt are given, for any number of            *)
(* invocations, crashes, failures and changes of the files around them.    *)
(***************************************************************************)
EXTENDS Batch, FiniteSetTheorems, TLAPS

(* Where a Pipeline is being run, and where the manifest is in memory.     *)
InAttempt == {"saved", "prepare", "clear", "fill", "aside", "swap", "drop",
              "engine", "record", "recorded"}
InBatch   == InAttempt \cup {"next", "remove"}

(* The position in the directory.                                          *)
PositionInv ==
    /\ pc \in InAttempt \cup {"sweep"} => i <= Len(Files)
    /\ pc \in {"trust", "ready", "fresh", "load"} => i = 1

(* The copy of the skills of the Pipeline that is being run: what is there *)
(* before the renames, what is swapped in, and what the first rename would *)
(* be taken back to.                                                       *)
CopyInv ==
    /\ pc \in {"clear", "fill", "aside"} => copy[File].root = before
    /\ pc = "swap" => copy[File].root = "none" /\ copy[File].old = before
    /\ pc \in {"aside", "swap"} => copy[File].tmp = skills
    /\ pc \in {"drop", "engine"} => copy[File].root = skills

IInv == TypeOK /\ PositionInv /\ CopyInv

LEMMA FilesAreNamed ==
    /\ Len(Files) \in Nat /\ Len(Files) >= 1 /\ DOMAIN Files = 1..Len(Files)
    /\ \A n \in 1..Len(Files) : Files[n] \in Names
  BY FilesAssumption DEF Names

(* What is agreed to is what pas.toml says now (ensure_trusted).            *)
LEMMA TrustGrows ==
    ASSUME WorldOK, NEW files, NEW then, EnsureTrusted(files, then)
    PROVE  trusted' \subseteq 0..MaxChanges
<1>1. changes \in 0..MaxChanges /\ version \in 0..changes
  BY DEF WorldOK
<1>2. trusted' \subseteq trusted \cup {version}
  BY DEF EnsureTrusted
<1>3. version \in 0..MaxChanges
  BY <1>1, BoundsAssumption
<1> QED
  BY <1>2, <1>3 DEF WorldOK

(* A step that builds the copy, also one that fails, leaves a copy.        *)
LEMMA CopyStep ==
    ASSUME IInv, ClearCopy \/ FillCopy \/ MoveAside \/ SwapIn \/ DropOld
    PROVE  /\ File \in Names /\ copy[File] \in Copies /\ DOMAIN copy = Names
           /\ \E c \in Copies : copy' = [copy EXCEPT ![File] = c]
<1> USE FilesAreNamed DEF IInv, TypeOK
<1>1. File \in Names
  <2>1. pc \in {"clear", "fill", "aside", "swap", "drop"}
    BY DEF ClearCopy, FillCopy, MoveAside, SwapIn, DropOld
  <2> QED
    BY <2>1 DEF ProcessOK, PositionInv, InAttempt, File
<1>2. copy[File] \in Copies /\ DOMAIN copy = Names
  BY <1>1 DEF DiskOK
<1> SUFFICES \E c \in Copies : copy' = [copy EXCEPT ![File] = c]
  BY <1>1, <1>2
<1>3. skills \in SkillLists /\ "none" \in SkillLists
  BY BoundsAssumption DEF ProcessOK
<1>4. Copy \in Copies
  BY <1>2 DEF Copy
<1>5. /\ \A r \in Rest(Copy.root) : r \in Contents
      /\ \A t \in Removed(Copy.tmp) : t \in Contents
      /\ \A o \in Removed(Copy.old) : o \in Contents
  BY <1>3, <1>4 DEF Copies, Contents, Rest, Removed
<1>a. ASSUME NEW x \in Contents, NEW y \in Contents, NEW z \in Contents,
             copy' = [copy EXCEPT ![File] = [root |-> x, tmp |-> y, old |-> z]]
      PROVE  \E c \in Copies : copy' = [copy EXCEPT ![File] = c]
  BY <1>a DEF Copies
<1>c. ASSUME NEW x \in Contents, NEW y \in Contents, NEW z \in Contents, CopyFails(x, y, z)
      PROVE  \E c \in Copies : copy' = [copy EXCEPT ![File] = c]
  BY <1>a, <1>c DEF CopyFails
<1>d. "none" \in Contents /\ "part" \in Contents /\ skills \in Contents
  BY <1>3 DEF Contents
<1>e. Copy.root \in Contents /\ Copy.tmp \in Contents /\ Copy.old \in Contents
  BY <1>4 DEF Copies
<1>6. CASE ClearCopy
  <2>1. CASE CopyFails(Copy.root, Copy.tmp, Copy.old)
    BY <1>c, <1>e, <2>1
  <2>2. CASE copy' = [copy EXCEPT ![File].root = "none"]
    <3>1. [Copy EXCEPT !.root = "none"] = [root |-> "none", tmp |-> Copy.tmp, old |-> Copy.old]
      BY <1>4 DEF Copies
    <3>2. copy' = [copy EXCEPT ![File] = [Copy EXCEPT !.root = "none"]]
      BY <2>2 DEF Copy
    <3>3. copy' = [copy EXCEPT ![File] = [root |-> "none", tmp |-> Copy.tmp, old |-> Copy.old]]
      BY <3>1, <3>2
    <3> QED
      BY <1>a, <1>d, <1>e, <3>3
  <2>3. CASE copy' = [copy EXCEPT ![File] = [root |-> @.root, tmp |-> "part", old |-> "none"]]
    <3>1. copy' = [copy EXCEPT ![File] = [root |-> Copy.root, tmp |-> "part", old |-> "none"]]
      BY <2>3 DEF Copy
    <3> QED
      BY <1>a, <1>d, <1>e, <3>1
  <2>4. CASE \E r \in Rest(Copy.root) : CopyFails(r, Copy.tmp, Copy.old)
    BY <1>5, <1>c, <1>e, <2>4
  <2>5. CASE \E t \in Rest(Copy.tmp) : CopyFails(Copy.root, t, Copy.old)
    <3>1. Rest(Copy.tmp) \subseteq Contents
      BY <1>5 DEF Removed
    <3> QED
      BY <1>c, <1>e, <2>5, <3>1
  <2>6. CASE \E o \in Removed(Copy.old) : CopyFails(Copy.root, "none", o)
    BY <1>5, <1>c, <1>d, <1>e, <2>6
  <2> QED
    BY <1>6, <2>1, <2>2, <2>3, <2>4, <2>5, <2>6 DEF ClearCopy
<1>7. CASE FillCopy
  <2>1. CASE copy' = [copy EXCEPT ![File].tmp = skills]
    <3>1. [Copy EXCEPT !.tmp = skills] = [root |-> Copy.root, tmp |-> skills, old |-> Copy.old]
      BY <1>4 DEF Copies
    <3>2. copy' = [copy EXCEPT ![File] = [Copy EXCEPT !.tmp = skills]]
      BY <2>1 DEF Copy
    <3>3. copy' = [copy EXCEPT ![File] = [root |-> Copy.root, tmp |-> skills, old |-> Copy.old]]
      BY <3>1, <3>2
    <3> QED
      BY <1>a, <1>d, <1>e, <3>3
  <2>2. CASE \E t \in Removed(Copy.tmp) : CopyFails(Copy.root, t, Copy.old)
    BY <1>5, <1>c, <1>e, <2>2
  <2> QED
    BY <1>7, <2>1, <2>2 DEF FillCopy
<1>8. CASE MoveAside
  <2>1. CASE copy' = [copy EXCEPT ![File] = [root |-> "none", tmp |-> @.tmp, old |-> @.root]]
    <3>1. copy' = [copy EXCEPT ![File] = [root |-> "none", tmp |-> Copy.tmp, old |-> Copy.root]]
      BY <2>1 DEF Copy
    <3> QED
      BY <1>a, <1>d, <1>e, <3>1
  <2>2. CASE \E t \in Removed(Copy.tmp) : CopyFails(Copy.root, t, Copy.old)
    BY <1>5, <1>c, <1>e, <2>2
  <2> QED
    BY <1>8, <2>1, <2>2 DEF MoveAside
<1>9. CASE SwapIn
  <2>1. CASE copy' = [copy EXCEPT ![File] = [root |-> @.tmp, tmp |-> "none", old |-> @.old]]
    <3>1. copy' = [copy EXCEPT ![File] = [root |-> Copy.tmp, tmp |-> "none", old |-> Copy.old]]
      BY <2>1 DEF Copy
    <3> QED
      BY <1>a, <1>d, <1>e, <3>1
  <2>2. CASE \E t \in Removed(Copy.tmp) : CopyFails(Copy.old, t, "none")
    BY <1>5, <1>c, <1>d, <1>e, <2>2
  <2>3. CASE \E t \in Removed(Copy.tmp) : CopyFails(Copy.root, t, Copy.old)
    BY <1>5, <1>c, <1>e, <2>3
  <2> QED
    BY <1>9, <2>1, <2>2, <2>3 DEF SwapIn
<1>10. CASE DropOld
  <2>1. CASE copy' = [copy EXCEPT ![File].old = "none"]
    <3>1. [Copy EXCEPT !.old = "none"] = [root |-> Copy.root, tmp |-> Copy.tmp, old |-> "none"]
      BY <1>4 DEF Copies
    <3>2. copy' = [copy EXCEPT ![File] = [Copy EXCEPT !.old = "none"]]
      BY <2>1 DEF Copy
    <3>3. copy' = [copy EXCEPT ![File] = [root |-> Copy.root, tmp |-> Copy.tmp, old |-> "none"]]
      BY <3>1, <3>2
    <3> QED
      BY <1>a, <1>d, <1>e, <3>3
  <2>2. CASE \E o \in Rest(Copy.old) : CopyFails(Copy.root, Copy.tmp, o)
    <3>1. Rest(Copy.old) \subseteq Contents
      BY <1>5 DEF Removed
    <3> QED
      BY <1>c, <1>e, <2>2, <3>1
  <2> QED
    BY <1>10, <2>1, <2>2 DEF DropOld
<1> QED
  BY <1>1, <1>2, <1>6, <1>7, <1>8, <1>9, <1>10

(* Each step keeps the types, the position and the copy.                   *)
LEMMA Step1 ==
    ASSUME IInv, [Next]_vars
    PROVE  IInv'
<1> USE FilesAreNamed, BoundsAssumption DEF IInv, TypeOK
<1>1. CASE Invoke
  <2>1. DiskOK'
    BY <1>1 DEF Invoke, disk, world, ghosts, NoManifest, DiskOK, Manifests, Copies, Contents, ProcessOK, PositionInv, InAttempt
  <2>2. WorldOK'
    BY <1>1 DEF Invoke, disk, world, ghosts, NoManifest, WorldOK
  <2>3. ProcessOK'
    BY <1>1 DEF Invoke, disk, world, ghosts, NoManifest, ProcessOK, Pcs, Manifests, Copies, Contents, DiskOK, PositionInv, InAttempt
  <2>4. CountsOK'
    BY <1>1 DEF Invoke, disk, world, ghosts, NoManifest, CountsOK, ProcessOK, PositionInv, InAttempt, Manifests
  <2>5. PositionInv'
    BY <1>1 DEF Invoke, disk, world, ghosts, NoManifest, PositionInv, InAttempt, ProcessOK
  <2>6. CopyInv'
    BY <1>1 DEF Invoke, CopyInv, File, disk
  <2> QED
    BY <2>1, <2>2, <2>3, <2>4, <2>5, <2>6
<1>2. CASE Sweep
  <2>1. DiskOK'
    BY <1>2 DEF Sweep, disk, world, ghosts, bounds, File, DiskOK, Manifests, Copies, Contents, ProcessOK, PositionInv, InAttempt
  <2>2. WorldOK'
    BY <1>2 DEF Sweep, disk, world, ghosts, bounds, File, WorldOK
  <2>3. ProcessOK'
    BY <1>2 DEF Sweep, disk, world, ghosts, bounds, File, ProcessOK, Pcs, Manifests, Copies, Contents, DiskOK, PositionInv, InAttempt
  <2>4. CountsOK'
    BY <1>2 DEF Sweep, disk, world, ghosts, bounds, File, CountsOK, ProcessOK, PositionInv, InAttempt, Manifests
  <2>5. PositionInv'
    BY <1>2 DEF Sweep, disk, world, ghosts, bounds, File, PositionInv, InAttempt, ProcessOK
  <2>6. CopyInv'
    BY <1>2 DEF Sweep, CopyInv, File, disk
  <2> QED
    BY <2>1, <2>2, <2>3, <2>4, <2>5, <2>6
<1>3. CASE TrustSweep
  <2>1. DiskOK'
    BY <1>3 DEF TrustSweep, EnsureTrusted, IsTrusted, disk, ghosts, bounds, DiskOK, Manifests, Copies, Contents, ProcessOK, PositionInv, InAttempt
  <2>2. WorldOK'
    BY <1>3, TrustGrows DEF TrustSweep, ghosts, bounds, WorldOK
  <2>3. ProcessOK'
    BY <1>3 DEF TrustSweep, EnsureTrusted, IsTrusted, disk, ghosts, bounds, ProcessOK, Pcs, Manifests, Copies, Contents, DiskOK, PositionInv, InAttempt
  <2>4. CountsOK'
    BY <1>3 DEF TrustSweep, EnsureTrusted, IsTrusted, disk, ghosts, bounds, CountsOK, ProcessOK, PositionInv, InAttempt, Manifests
  <2>5. PositionInv'
    BY <1>3 DEF TrustSweep, EnsureTrusted, IsTrusted, disk, ghosts, bounds, PositionInv, InAttempt, ProcessOK
  <2>6. CopyInv'
    BY <1>3 DEF TrustSweep, EnsureTrusted, CopyInv, File, disk
  <2> QED
    BY <2>1, <2>2, <2>3, <2>4, <2>5, <2>6
<1>4. CASE ReadySweep
  <2>1. DiskOK'
    BY <1>4 DEF ReadySweep, disk, world, ghosts, bounds, DiskOK, Manifests, Copies, Contents, ProcessOK, PositionInv, InAttempt
  <2>2. WorldOK'
    BY <1>4 DEF ReadySweep, disk, world, ghosts, bounds, WorldOK
  <2>3. ProcessOK'
    BY <1>4 DEF ReadySweep, disk, world, ghosts, bounds, ProcessOK, Pcs, Manifests, Copies, Contents, DiskOK, PositionInv, InAttempt
  <2>4. CountsOK'
    BY <1>4 DEF ReadySweep, disk, world, ghosts, bounds, CountsOK, ProcessOK, PositionInv, InAttempt, Manifests
  <2>5. PositionInv'
    BY <1>4 DEF ReadySweep, disk, world, ghosts, bounds, PositionInv, InAttempt, ProcessOK
  <2>6. CopyInv'
    BY <1>4 DEF ReadySweep, CopyInv, File, disk
  <2> QED
    BY <2>1, <2>2, <2>3, <2>4, <2>5, <2>6
<1>5. CASE ClearManifest
  <2>1. DiskOK'
    BY <1>5 DEF ClearManifest, world, bounds, Absent, NoManifest, DiskOK, Manifests, Copies, Contents, ProcessOK, PositionInv, InAttempt
  <2>2. WorldOK'
    BY <1>5 DEF ClearManifest, world, bounds, Absent, NoManifest, WorldOK
  <2>3. ProcessOK'
    BY <1>5 DEF ClearManifest, world, bounds, Absent, NoManifest, ProcessOK, Pcs, Manifests, Copies, Contents, DiskOK, PositionInv, InAttempt
  <2>4. CountsOK'
    BY <1>5 DEF ClearManifest, world, bounds, Absent, NoManifest, CountsOK, ProcessOK, PositionInv, InAttempt, Manifests
  <2>5. PositionInv'
    BY <1>5 DEF ClearManifest, world, bounds, Absent, NoManifest, PositionInv, InAttempt, ProcessOK
  <2>6. CopyInv'
    BY <1>5 DEF ClearManifest, CopyInv, File, disk
  <2> QED
    BY <2>1, <2>2, <2>3, <2>4, <2>5, <2>6
<1>6. CASE LoadManifest
  <2>1. DiskOK'
    BY <1>6 DEF LoadManifest, disk, world, ghosts, bounds, Torn, DiskOK, Manifests, Copies, Contents, ProcessOK, PositionInv, InAttempt
  <2>2. WorldOK'
    BY <1>6 DEF LoadManifest, disk, world, ghosts, bounds, Torn, WorldOK
  <2>3. ProcessOK'
    BY <1>6 DEF LoadManifest, disk, world, ghosts, bounds, Torn, ProcessOK, Pcs, Manifests, Copies, Contents, DiskOK, PositionInv, InAttempt
  <2>4. CountsOK'
    BY <1>6 DEF LoadManifest, disk, world, ghosts, bounds, Torn, CountsOK, ProcessOK, PositionInv, InAttempt, Manifests
  <2>5. PositionInv'
    BY <1>6 DEF LoadManifest, disk, world, ghosts, bounds, Torn, PositionInv, InAttempt, ProcessOK
  <2>6. CopyInv'
    BY <1>6 DEF LoadManifest, CopyInv, File, disk
  <2> QED
    BY <2>1, <2>2, <2>3, <2>4, <2>5, <2>6
<1>7. CASE BeginPipeline
  <2>1. DiskOK'
    BY <1>7 DEF BeginPipeline, world, ghosts, bounds, File, Torn, NoManifest, DiskOK, Manifests, Copies, Contents, ProcessOK, PositionInv, InAttempt
  <2>2. WorldOK'
    BY <1>7 DEF BeginPipeline, world, ghosts, bounds, File, Torn, NoManifest, WorldOK
  <2>3. ProcessOK'
    BY <1>7 DEF BeginPipeline, world, ghosts, bounds, File, Torn, NoManifest, ProcessOK, Pcs, Manifests, Copies, Contents, DiskOK, PositionInv, InAttempt
  <2>4. CountsOK'
    BY <1>7 DEF BeginPipeline, world, ghosts, bounds, File, Torn, NoManifest, CountsOK, ProcessOK, PositionInv, InAttempt, Manifests
  <2>5. PositionInv'
    BY <1>7 DEF BeginPipeline, world, ghosts, bounds, File, Torn, NoManifest, PositionInv, InAttempt, ProcessOK
  <2>6. CopyInv'
    BY <1>7 DEF BeginPipeline, CopyInv, File, disk
  <2> QED
    BY <2>1, <2>2, <2>3, <2>4, <2>5, <2>6
<1>8. CASE SaveManifest
  <2>1. DiskOK'
    BY <1>8 DEF SaveManifest, world, ghosts, bounds, Whole, DiskOK, Manifests, Copies, Contents, ProcessOK, PositionInv, InAttempt
  <2>2. WorldOK'
    BY <1>8 DEF SaveManifest, world, ghosts, bounds, Whole, WorldOK
  <2>3. ProcessOK'
    BY <1>8 DEF SaveManifest, world, ghosts, bounds, Whole, ProcessOK, Pcs, Manifests, Copies, Contents, DiskOK, PositionInv, InAttempt
  <2>4. CountsOK'
    BY <1>8 DEF SaveManifest, world, ghosts, bounds, Whole, CountsOK, ProcessOK, PositionInv, InAttempt, Manifests
  <2>5. PositionInv'
    BY <1>8 DEF SaveManifest, world, ghosts, bounds, Whole, PositionInv, InAttempt, ProcessOK
  <2>6. CopyInv'
    BY <1>8 DEF SaveManifest, CopyInv, File, disk
  <2> QED
    BY <2>1, <2>2, <2>3, <2>4, <2>5, <2>6
<1>9. CASE PrepareRun
  <2>1. DiskOK'
    BY <1>9 DEF PrepareRun, EnsureTrusted, IsTrusted, ghosts, bounds, NoCopy, DiskOK, Manifests, Copies, Contents, ProcessOK, PositionInv, InAttempt
  <2>2. WorldOK'
    BY <1>9, TrustGrows DEF PrepareRun, ghosts, bounds, WorldOK
  <2>3. ProcessOK'
    <3>1. File \in Names
      BY <1>9 DEF PrepareRun, ProcessOK, PositionInv, InAttempt, File
    <3>2. before' \in Contents
      BY <1>9, <2>1, <3>1 DEF PrepareRun, DiskOK, Copies, Contents
    <3>3. pc' \in {"off", "clear"}
      BY <1>9 DEF PrepareRun, EnsureTrusted
    <3> QED
      BY <1>9, <3>2, <3>3 DEF PrepareRun, ProcessOK, Pcs
  <2>4. CountsOK'
    BY <1>9 DEF PrepareRun, EnsureTrusted, IsTrusted, ghosts, bounds, NoCopy, CountsOK, ProcessOK, PositionInv, InAttempt, Manifests
  <2>5. PositionInv'
    BY <1>9 DEF PrepareRun, EnsureTrusted, IsTrusted, ghosts, bounds, NoCopy, PositionInv, InAttempt, ProcessOK
  <2>6. CopyInv'
    BY <1>9 DEF PrepareRun, EnsureTrusted, CopyInv, File, disk
  <2> QED
    BY <2>1, <2>2, <2>3, <2>4, <2>5, <2>6
<1>10. CASE ClearCopy
  <2>1. DiskOK'
    BY <1>10, CopyStep DEF ClearCopy, DiskOK
  <2>2. WorldOK'
    BY <1>10 DEF ClearCopy, CopyFails, world, ghosts, bounds, File, WorldOK
  <2>3. ProcessOK'
    BY <1>10 DEF ClearCopy, CopyFails, world, ghosts, bounds, File, ProcessOK, Pcs, Manifests, Copies, Contents, DiskOK, PositionInv, InAttempt
  <2>4. CountsOK'
    BY <1>10 DEF ClearCopy, CopyFails, world, ghosts, bounds, File, CountsOK, ProcessOK, PositionInv, InAttempt, Manifests
  <2>5. PositionInv'
    BY <1>10 DEF ClearCopy, CopyFails, world, ghosts, bounds, File, PositionInv, InAttempt, ProcessOK
  <2>6. CopyInv'
    <3>1. File \in Names
      BY <1>10, CopyStep
    <3>2. copy[File] \in Copies /\ DOMAIN copy = Names
      BY <1>10, CopyStep
    <3>3. File' = File
      BY <1>10 DEF ClearCopy, File
    <3>4. CASE pc' = "off"
      BY <3>4 DEF CopyInv
    <3>5. CASE pc' = "engine"
      <4>1. skills = "none" /\ skills' = skills /\ copy' = [copy EXCEPT ![File].root = "none"]
        BY <1>10, <3>5 DEF ClearCopy, CopyFails
      <4>2. copy'[File].root = "none"
        BY <3>1, <3>2, <4>1 DEF Copies
      <4>3. copy'[File'].root = skills'
        BY <3>3, <4>1, <4>2
      <4> QED
        BY <3>5, <4>3 DEF CopyInv
    <3>6. CASE pc' = "fill"
      <4>1. /\ pc = "clear" /\ before' = before
            /\ copy' = [copy EXCEPT ![File] = [root |-> @.root, tmp |-> "part", old |-> "none"]]
        BY <1>10, <3>6 DEF ClearCopy, CopyFails
      <4>2. copy'[File].root = copy[File].root
        BY <3>1, <3>2, <4>1 DEF Copies
      <4>3. copy'[File'].root = before'
        BY <3>3, <4>1, <4>2 DEF CopyInv
      <4> QED
        BY <3>6, <4>3 DEF CopyInv
    <3> QED
      BY <1>10, <3>4, <3>5, <3>6 DEF ClearCopy, CopyFails
  <2> QED
    BY <2>1, <2>2, <2>3, <2>4, <2>5, <2>6
<1>11. CASE FillCopy
  <2>1. DiskOK'
    BY <1>11, CopyStep DEF FillCopy, DiskOK
  <2>2. WorldOK'
    BY <1>11 DEF FillCopy, CopyFails, world, ghosts, bounds, File, WorldOK
  <2>3. ProcessOK'
    BY <1>11 DEF FillCopy, CopyFails, world, ghosts, bounds, File, ProcessOK, Pcs, Manifests, Copies, Contents, DiskOK, PositionInv, InAttempt
  <2>4. CountsOK'
    BY <1>11 DEF FillCopy, CopyFails, world, ghosts, bounds, File, CountsOK, ProcessOK, PositionInv, InAttempt, Manifests
  <2>5. PositionInv'
    BY <1>11 DEF FillCopy, CopyFails, world, ghosts, bounds, File, PositionInv, InAttempt, ProcessOK
  <2>6. CopyInv'
    <3>1. File \in Names
      BY <1>11, CopyStep
    <3>2. copy[File] \in Copies /\ DOMAIN copy = Names
      BY <1>11, CopyStep
    <3>3. File' = File
      BY <1>11 DEF FillCopy, File
    <3> QED
      BY <1>11, <3>1, <3>2, <3>3 DEF FillCopy, CopyFails, Copy, CopyInv, Copies
  <2> QED
    BY <2>1, <2>2, <2>3, <2>4, <2>5, <2>6
<1>12. CASE MoveAside
  <2>1. DiskOK'
    BY <1>12, CopyStep DEF MoveAside, DiskOK
  <2>2. WorldOK'
    BY <1>12 DEF MoveAside, CopyFails, world, ghosts, bounds, File, WorldOK
  <2>3. ProcessOK'
    BY <1>12 DEF MoveAside, CopyFails, world, ghosts, bounds, File, ProcessOK, Pcs, Manifests, Copies, Contents, DiskOK, PositionInv, InAttempt
  <2>4. CountsOK'
    BY <1>12 DEF MoveAside, CopyFails, world, ghosts, bounds, File, CountsOK, ProcessOK, PositionInv, InAttempt, Manifests
  <2>5. PositionInv'
    BY <1>12 DEF MoveAside, CopyFails, world, ghosts, bounds, File, PositionInv, InAttempt, ProcessOK
  <2>6. CopyInv'
    <3>1. File \in Names
      BY <1>12, CopyStep
    <3>2. copy[File] \in Copies /\ DOMAIN copy = Names
      BY <1>12, CopyStep
    <3>3. File' = File
      BY <1>12 DEF MoveAside, File
    <3> QED
      BY <1>12, <3>1, <3>2, <3>3 DEF MoveAside, CopyFails, Copy, CopyInv, Copies
  <2> QED
    BY <2>1, <2>2, <2>3, <2>4, <2>5, <2>6
<1>13. CASE SwapIn
  <2>1. DiskOK'
    BY <1>13, CopyStep DEF SwapIn, DiskOK
  <2>2. WorldOK'
    BY <1>13 DEF SwapIn, CopyFails, world, ghosts, bounds, File, WorldOK
  <2>3. ProcessOK'
    BY <1>13 DEF SwapIn, CopyFails, world, ghosts, bounds, File, ProcessOK, Pcs, Manifests, Copies, Contents, DiskOK, PositionInv, InAttempt
  <2>4. CountsOK'
    BY <1>13 DEF SwapIn, CopyFails, world, ghosts, bounds, File, CountsOK, ProcessOK, PositionInv, InAttempt, Manifests
  <2>5. PositionInv'
    BY <1>13 DEF SwapIn, CopyFails, world, ghosts, bounds, File, PositionInv, InAttempt, ProcessOK
  <2>6. CopyInv'
    <3>1. File \in Names
      BY <1>13, CopyStep
    <3>2. copy[File] \in Copies /\ DOMAIN copy = Names
      BY <1>13, CopyStep
    <3>3. File' = File
      BY <1>13 DEF SwapIn, File
    <3> QED
      BY <1>13, <3>1, <3>2, <3>3 DEF SwapIn, CopyFails, Copy, CopyInv, Copies
  <2> QED
    BY <2>1, <2>2, <2>3, <2>4, <2>5, <2>6
<1>14. CASE DropOld
  <2>1. DiskOK'
    BY <1>14, CopyStep DEF DropOld, DiskOK
  <2>2. WorldOK'
    BY <1>14 DEF DropOld, CopyFails, world, ghosts, bounds, File, WorldOK
  <2>3. ProcessOK'
    BY <1>14 DEF DropOld, CopyFails, world, ghosts, bounds, File, ProcessOK, Pcs, Manifests, Copies, Contents, DiskOK, PositionInv, InAttempt
  <2>4. CountsOK'
    BY <1>14 DEF DropOld, CopyFails, world, ghosts, bounds, File, CountsOK, ProcessOK, PositionInv, InAttempt, Manifests
  <2>5. PositionInv'
    BY <1>14 DEF DropOld, CopyFails, world, ghosts, bounds, File, PositionInv, InAttempt, ProcessOK
  <2>6. CopyInv'
    <3>1. File \in Names
      BY <1>14, CopyStep
    <3>2. copy[File] \in Copies /\ DOMAIN copy = Names
      BY <1>14, CopyStep
    <3>3. File' = File
      BY <1>14 DEF DropOld, File
    <3> QED
      BY <1>14, <3>1, <3>2, <3>3 DEF DropOld, CopyFails, Copy, CopyInv, Copies
  <2> QED
    BY <2>1, <2>2, <2>3, <2>4, <2>5, <2>6
<1>15. CASE Stage
  <2>1. DiskOK'
    BY <1>15 DEF Stage, world, process, ghosts, bounds, File, DiskOK, Manifests, Copies, Contents, ProcessOK, PositionInv, InAttempt
  <2>2. WorldOK'
    BY <1>15 DEF Stage, world, process, ghosts, bounds, File, WorldOK
  <2>3. ProcessOK'
    BY <1>15 DEF Stage, world, process, ghosts, bounds, File, ProcessOK, Pcs, Manifests, Copies, Contents, DiskOK, PositionInv, InAttempt
  <2>4. CountsOK'
    BY <1>15 DEF Stage, world, process, ghosts, bounds, File, CountsOK, ProcessOK, PositionInv, InAttempt, Manifests
  <2>5. PositionInv'
    BY <1>15 DEF Stage, world, process, ghosts, bounds, File, PositionInv, InAttempt, ProcessOK
  <2>6. CopyInv'
    BY <1>15 DEF Stage, process, CopyInv, File, disk
  <2> QED
    BY <2>1, <2>2, <2>3, <2>4, <2>5, <2>6
<1>16. CASE EngineEnds
  <2>1. DiskOK'
    BY <1>16 DEF EngineEnds, disk, world, ghosts, bounds, DiskOK, Manifests, Copies, Contents, ProcessOK, PositionInv, InAttempt
  <2>2. WorldOK'
    BY <1>16 DEF EngineEnds, disk, world, ghosts, bounds, WorldOK
  <2>3. ProcessOK'
    BY <1>16 DEF EngineEnds, disk, world, ghosts, bounds, ProcessOK, Pcs, Manifests, Copies, Contents, DiskOK, PositionInv, InAttempt
  <2>4. CountsOK'
    BY <1>16 DEF EngineEnds, disk, world, ghosts, bounds, CountsOK, ProcessOK, PositionInv, InAttempt, Manifests
  <2>5. PositionInv'
    BY <1>16 DEF EngineEnds, disk, world, ghosts, bounds, PositionInv, InAttempt, ProcessOK
  <2>6. CopyInv'
    BY <1>16 DEF EngineEnds, CopyInv, File, disk
  <2> QED
    BY <2>1, <2>2, <2>3, <2>4, <2>5, <2>6
<1>17. CASE EngineCompletes
  <2>1. DiskOK'
    BY <1>17 DEF EngineCompletes, world, bounds, File, DiskOK, Manifests, Copies, Contents, ProcessOK, PositionInv, InAttempt
  <2>2. WorldOK'
    BY <1>17 DEF EngineCompletes, world, bounds, File, WorldOK
  <2>3. ProcessOK'
    BY <1>17 DEF EngineCompletes, world, bounds, File, ProcessOK, Pcs, Manifests, Copies, Contents, DiskOK, PositionInv, InAttempt
  <2>4. CountsOK'
    BY <1>17 DEF EngineCompletes, world, bounds, File, CountsOK, ProcessOK, PositionInv, InAttempt, Manifests
  <2>5. PositionInv'
    BY <1>17 DEF EngineCompletes, world, bounds, File, PositionInv, InAttempt, ProcessOK
  <2>6. CopyInv'
    BY <1>17 DEF EngineCompletes, CopyInv, File, disk
  <2> QED
    BY <2>1, <2>2, <2>3, <2>4, <2>5, <2>6
<1>18. CASE RecordCompletion
  <2>1. DiskOK'
    BY <1>18 DEF RecordCompletion, world, ghosts, bounds, File, Torn, NoManifest, DiskOK, Manifests, Copies, Contents, ProcessOK, PositionInv, InAttempt
  <2>2. WorldOK'
    BY <1>18 DEF RecordCompletion, world, ghosts, bounds, File, Torn, NoManifest, WorldOK
  <2>3. ProcessOK'
    BY <1>18 DEF RecordCompletion, world, ghosts, bounds, File, Torn, NoManifest, ProcessOK, Pcs, Manifests, Copies, Contents, DiskOK, PositionInv, InAttempt
  <2>4. CountsOK'
    BY <1>18 DEF RecordCompletion, world, ghosts, bounds, File, Torn, NoManifest, CountsOK, ProcessOK, PositionInv, InAttempt, Manifests
  <2>5. PositionInv'
    BY <1>18 DEF RecordCompletion, world, ghosts, bounds, File, Torn, NoManifest, PositionInv, InAttempt, ProcessOK
  <2>6. CopyInv'
    BY <1>18 DEF RecordCompletion, CopyInv, File, disk
  <2> QED
    BY <2>1, <2>2, <2>3, <2>4, <2>5, <2>6
<1>19. CASE RemoveManifest
  <2>1. DiskOK'
    BY <1>19 DEF RemoveManifest, world, bounds, Absent, NoManifest, DiskOK, Manifests, Copies, Contents, ProcessOK, PositionInv, InAttempt
  <2>2. WorldOK'
    BY <1>19 DEF RemoveManifest, world, bounds, Absent, NoManifest, WorldOK
  <2>3. ProcessOK'
    BY <1>19 DEF RemoveManifest, world, bounds, Absent, NoManifest, ProcessOK, Pcs, Manifests, Copies, Contents, DiskOK, PositionInv, InAttempt
  <2>4. CountsOK'
    BY <1>19 DEF RemoveManifest, world, bounds, Absent, NoManifest, CountsOK, ProcessOK, PositionInv, InAttempt, Manifests
  <2>5. PositionInv'
    BY <1>19 DEF RemoveManifest, world, bounds, Absent, NoManifest, PositionInv, InAttempt, ProcessOK
  <2>6. CopyInv'
    BY <1>19 DEF RemoveManifest, CopyInv, File, disk
  <2> QED
    BY <2>1, <2>2, <2>3, <2>4, <2>5, <2>6
<1>20. CASE Crash
  <2>1. DiskOK'
    BY <1>20 DEF Crash, disk, world, DiskOK, Manifests, Copies, Contents, ProcessOK, PositionInv, InAttempt
  <2>2. WorldOK'
    BY <1>20 DEF Crash, disk, world, WorldOK
  <2>3. ProcessOK'
    BY <1>20 DEF Crash, disk, world, ProcessOK, Pcs, Manifests, Copies, Contents, DiskOK, PositionInv, InAttempt
  <2>4. CountsOK'
    BY <1>20 DEF Crash, disk, world, CountsOK, ProcessOK, PositionInv, InAttempt, Manifests
  <2>5. PositionInv'
    BY <1>20 DEF Crash, disk, world, PositionInv, InAttempt, ProcessOK
  <2>6. CopyInv'
    BY <1>20 DEF Crash, CopyInv, File, disk
  <2> QED
    BY <2>1, <2>2, <2>3, <2>4, <2>5, <2>6
<1>21. CASE Change
  <2>1. DiskOK'
    BY <1>21 DEF Change, disk, process, ghosts, DiskOK, Manifests, Copies, Contents, ProcessOK, PositionInv, InAttempt
  <2>2. WorldOK'
    <3>1. bad' \subseteq Names
      BY <1>21 DEF Change, WorldOK
    <3>2. pi' \in {"ready", "missing", "old", "not ready"}
      BY <1>21 DEF Change, WorldOK
    <3>3. changes' \in 0..MaxChanges /\ version' \in 0..changes'
      <4>1. changes \in 0..MaxChanges /\ version \in 0..changes
        BY DEF WorldOK
      <4>2. changes < MaxChanges /\ changes' = changes + 1 /\ version' \in {version, version + 1}
        BY <1>21 DEF Change
      <4> QED
        BY <4>1, <4>2
    <3> QED
      BY <1>21, <3>1, <3>2, <3>3 DEF Change, WorldOK
  <2>3. ProcessOK'
    BY <1>21 DEF Change, disk, process, ghosts, ProcessOK, Pcs, Manifests, Copies, Contents, DiskOK, PositionInv, InAttempt
  <2>4. CountsOK'
    BY <1>21 DEF Change, disk, process, ghosts, CountsOK, ProcessOK, PositionInv, InAttempt, Manifests
  <2>5. PositionInv'
    BY <1>21 DEF Change, disk, process, ghosts, PositionInv, InAttempt, ProcessOK
  <2>6. CopyInv'
    BY <1>21 DEF Change, disk, process, CopyInv, File, disk
  <2> QED
    BY <2>1, <2>2, <2>3, <2>4, <2>5, <2>6
<1>23. CASE ManifestFails
  <2>1. DiskOK'
    BY <1>23 DEF ManifestFails, disk, world, bounds, DiskOK, Manifests, Copies, Contents, ProcessOK, PositionInv, InAttempt
  <2>2. WorldOK'
    BY <1>23 DEF ManifestFails, disk, world, bounds, WorldOK
  <2>3. ProcessOK'
    BY <1>23 DEF ManifestFails, disk, world, bounds, ProcessOK, Pcs, Manifests, Copies, Contents, DiskOK, PositionInv, InAttempt
  <2>4. CountsOK'
    BY <1>23 DEF ManifestFails, disk, world, bounds, CountsOK, ProcessOK, PositionInv, InAttempt, Manifests
  <2>5. PositionInv'
    BY <1>23 DEF ManifestFails, disk, world, bounds, PositionInv, InAttempt, ProcessOK
  <2>6. CopyInv'
    BY <1>23 DEF ManifestFails, CopyInv, File, disk
  <2> QED
    BY <2>1, <2>2, <2>3, <2>4, <2>5, <2>6
<1>22. CASE UNCHANGED vars
  BY <1>22 DEF vars, DiskOK, WorldOK, ProcessOK, CountsOK, PositionInv, CopyInv, File, disk, world, process, ghosts, bounds
<1>24. CASE Step
  BY <1>24, <1>23, <1>19, <1>18, <1>17, <1>16, <1>15, <1>14, <1>13, <1>12, <1>11, <1>10, <1>9, <1>8, <1>7, <1>6, <1>5, <1>4, <1>3, <1>2 DEF Step
<1> QED
  BY <1>24, <1>22, <1>21, <1>20, <1>1 DEF Next

LEMMA Init1 == Init => IInv
<1> SUFFICES ASSUME Init PROVE IInv
  OBVIOUS
<1> USE FilesAreNamed, BoundsAssumption DEF Init
<1>1. DiskOK
  BY DEF DiskOK, NoManifest, Absent, NoCopy, Manifests, Copies, Contents
<1>2. WorldOK
  BY DEF WorldOK
<1>3. ProcessOK
  <2>1. memory \in Manifests
    BY DEF Manifests, NoManifest
  <2>2. pc \in Pcs /\ i \in 1..(Len(Files) + 1)
    BY DEF Pcs
  <2> QED
    BY <2>1, <2>2 DEF ProcessOK, Contents
<1>4. CountsOK /\ PositionInv /\ CopyInv
  BY DEF CountsOK, PositionInv, InAttempt, CopyInv
<1> QED
  BY <1>1, <1>2, <1>3, <1>4 DEF IInv, TypeOK

LEMMA IInvHolds == Spec => []IInv
<1>1. IInv /\ [Next]_vars => IInv'
  BY Step1
<1> QED
  BY <1>1, Init1, PTL DEF Spec

(* Every variable of the batch has its type, whatever the files are and    *)
(* whatever happens to them (TypeOK).                                      *)
THEOREM TypeCorrect == Spec => []TypeOK
<1>1. IInv => TypeOK
  BY DEF IInv
<1> QED
  BY <1>1, IInvHolds, PTL

(* SkillsAreOfThisAttempt, for every directory and every list of skills:   *)
(* while its stages run, an Attempt is given what it was started with      *)
(* (build_skill_copy, agent_resources.rs:101-146).                         *)
THEOREM StagesGetTheirSkills == Spec => [](pc = "engine" => SkillsAreOfThisAttempt)
<1>1. IInv => (pc = "engine" => SkillsAreOfThisAttempt)
  BY DEF IInv, CopyInv, SkillsAreOfThisAttempt, SkillsGiven
<1> QED
  BY <1>1, IInvHolds, PTL

(* BuildsReplaceWhole: no step of building the copy, no error in one and no *)
(* crash leaves half of a copy in its place, and until the new one is there *)
(* the one from before is, in its place or beside it (build_skill_copy).    *)
THEOREM NoHalfCopyIsLeft == Spec => BuildsReplaceWhole
<1>1. IInv /\ [Next]_vars =>
        [(pc \in {"clear", "fill", "aside", "swap", "drop"} /\ skills # "none") => Swapped(copy'[File])]_vars
  <2> SUFFICES ASSUME IInv, [Next]_vars, pc \in {"clear", "fill", "aside", "swap", "drop"}, skills # "none"
               PROVE  Swapped(copy'[File])
    OBVIOUS
  <2>1. CASE copy' = copy
    BY <2>1 DEF IInv, CopyInv, Swapped
  <2>2. CASE ClearCopy
    <3>1. File \in Names /\ copy[File] \in Copies /\ DOMAIN copy = Names
      BY <2>2, CopyStep
    <3>2. copy'[File].root = copy[File].root /\ copy[File].root = before
      <4>1. copy[File].root = before
        BY <2>2 DEF ClearCopy, IInv, CopyInv
      <4>2. \E t, o : copy' = [copy EXCEPT ![File] = [root |-> copy[File].root, tmp |-> t, old |-> o]]
        <5>1. CASE pc' = "fill"
          BY <2>2, <5>1 DEF ClearCopy, CopyFails
        <5>2. CASE pc' # "fill"
          <6>1. \E t, o : CopyFails(Copy.root, t, o)
            <7>1. \/ CopyFails(Copy.root, Copy.tmp, Copy.old)
                  \/ \E t \in Rest(Copy.tmp) : CopyFails(Copy.root, t, Copy.old)
                  \/ \E o \in Removed(Copy.old) : CopyFails(Copy.root, "none", o)
              BY <2>2, <5>2 DEF ClearCopy
            <7> QED
              BY <7>1, Zenon
          <6> QED
            BY <6>1 DEF CopyFails, Copy
        <5> QED
          BY <5>1, <5>2
      <4> QED
        BY <3>1, <4>1, <4>2
    <3> QED
      BY <3>2 DEF Swapped
  <2>3. CASE FillCopy
    <3>1. File \in Names /\ copy[File] \in Copies /\ DOMAIN copy = Names
      BY <2>3, CopyStep
    <3>2. copy'[File].root = copy[File].root /\ copy[File].root = before
      BY <2>3, <3>1 DEF FillCopy, CopyFails, Copy, Copies, IInv, CopyInv
    <3> QED
      BY <3>2 DEF Swapped
  <2>4. CASE MoveAside
    <3>1. File \in Names /\ copy[File] \in Copies /\ DOMAIN copy = Names
      BY <2>4, CopyStep
    <3>2. copy[File].root = before
      BY <2>4 DEF MoveAside, IInv, CopyInv
    <3>3. \/ copy'[File].root = "none" /\ copy'[File].old = before
          \/ copy'[File].root = before
      BY <2>4, <3>1, <3>2 DEF MoveAside, CopyFails, Copy, Copies
    <3> QED
      BY <3>3 DEF Swapped
  <2>5. CASE SwapIn
    <3>1. File \in Names /\ copy[File] \in Copies /\ DOMAIN copy = Names
      BY <2>5, CopyStep
    <3>2. copy[File].root = "none" /\ copy[File].old = before /\ copy[File].tmp = skills
      BY <2>5 DEF SwapIn, IInv, CopyInv
    <3>3. \/ copy'[File].root = skills
          \/ copy'[File].root = before
          \/ copy'[File].root = "none" /\ copy'[File].old = before
      BY <2>5, <3>1, <3>2 DEF SwapIn, CopyFails, Copy, Copies
    <3> QED
      BY <3>3 DEF Swapped
  <2>6. CASE DropOld
    <3>1. File \in Names /\ copy[File] \in Copies /\ DOMAIN copy = Names
      BY <2>6, CopyStep
    <3>2. copy'[File].root = copy[File].root /\ copy[File].root = skills
      BY <2>6, <3>1 DEF DropOld, CopyFails, Copy, Copies, IInv, CopyInv
    <3> QED
      BY <3>2 DEF Swapped
  <2> QED
    BY <2>1, <2>2, <2>3, <2>4, <2>5, <2>6 DEF Next, Step, vars, disk, Invoke, Sweep, TrustSweep, ReadySweep,
       ClearManifest, LoadManifest, BeginPipeline, SaveManifest, PrepareRun, Stage, EngineEnds,
       EngineCompletes, RecordCompletion, RemoveManifest, ManifestFails, Crash, Change
<1> QED
  BY <1>1, IInvHolds, PTL DEF Spec, BuildsReplaceWhole

----------------------------------------------------------------------------
(* What has been completed, in the process, on disk and in fact.           *)
OrderInv ==
    /\ manifest.is.completed \subseteq finished
    /\ pc \in InBatch =>
         /\ memory.completed \subseteq finished
         /\ \A j \in 1..(i - 1) : Files[j] \in memory.completed
    /\ pc \in InBatch \ {"saved", "recorded"} =>
         manifest # Torn /\ manifest.is.completed = memory.completed
    /\ pc \in {"saved", "recorded"} => manifest = Torn
    /\ pc \in InAttempt \ {"recorded"} => File \notin memory.completed
    /\ pc = "recorded" => File \in memory.completed
    /\ pc = "record" => File \in finished

LEMMA OrderStep ==
    ASSUME IInv, OrderInv, [Next]_vars
    PROVE  OrderInv'
<1> USE DEF OrderInv, InBatch, InAttempt
<1>0. i \in Nat /\ memory \in Manifests /\ manifest.is \in Manifests
  BY FilesAreNamed DEF IInv, TypeOK, ProcessOK, DiskOK
<1>1. CASE Invoke
  BY <1>0, <1>1 DEF Invoke, disk, ghosts, NoManifest, File, Manifests
<1>2. CASE Sweep
  BY <1>0, <1>2 DEF Sweep, disk, ghosts, bounds, File, Manifests
<1>3. CASE TrustSweep
  BY <1>0, <1>3 DEF TrustSweep, EnsureTrusted, disk, ghosts, bounds, File, Manifests
<1>4. CASE ReadySweep
  BY <1>0, <1>4 DEF ReadySweep, disk, ghosts, bounds, File, Manifests
<1>5. CASE ClearManifest
  BY <1>0, <1>5 DEF ClearManifest, Absent, NoManifest, File, Manifests
<1>6. CASE LoadManifest
  <2>1. i' = 1
    BY <1>6 DEF LoadManifest, IInv, PositionInv
  <2>2. pc' = "next" \/ pc' = "off"
    BY <1>6 DEF LoadManifest
  <2> QED
    BY <1>6, <2>1, <2>2 DEF LoadManifest, disk, ghosts, Torn
<1>7. CASE BeginPipeline
  BY <1>0, <1>7 DEF BeginPipeline, ghosts, bounds, Torn, NoManifest, File, Manifests
<1>8. CASE SaveManifest
  BY <1>0, <1>8 DEF SaveManifest, ghosts, bounds, Whole, Torn, File, Manifests
<1>9. CASE PrepareRun
  BY <1>0, <1>9 DEF PrepareRun, EnsureTrusted, ghosts, bounds, File, Manifests
<1>10. CASE ClearCopy
  BY <1>0, <1>10 DEF ClearCopy, CopyFails, ghosts, bounds, File, Manifests
<1>11. CASE FillCopy
  BY <1>0, <1>11 DEF FillCopy, CopyFails, ghosts, bounds, File, Manifests
<1>12. CASE MoveAside
  BY <1>0, <1>12 DEF MoveAside, CopyFails, ghosts, bounds, File, Manifests
<1>13. CASE SwapIn
  BY <1>0, <1>13 DEF SwapIn, CopyFails, ghosts, bounds, File, Manifests
<1>14. CASE DropOld
  BY <1>0, <1>14 DEF DropOld, CopyFails, ghosts, bounds, File, Manifests
<1>15. CASE Stage
  BY <1>0, <1>15 DEF Stage, process, ghosts, bounds, File, Manifests
<1>16. CASE EngineEnds
  BY <1>0, <1>16 DEF EngineEnds, disk, ghosts, bounds, File, Manifests
<1>17. CASE EngineCompletes
  BY <1>0, <1>17 DEF EngineCompletes, bounds, File, Manifests
<1>18. CASE RecordCompletion
  BY <1>0, <1>18 DEF RecordCompletion, ghosts, bounds, Torn, NoManifest, File, Manifests
<1>19. CASE RemoveManifest
  BY <1>0, <1>19 DEF RemoveManifest, bounds, Absent, NoManifest, File, Manifests
<1>20. CASE Crash
  BY <1>0, <1>20 DEF Crash, disk, File, Manifests
<1>21. CASE Change
  BY <1>0, <1>21 DEF Change, disk, process, ghosts, File, Manifests
<1>23. CASE ManifestFails
  BY <1>0, <1>23 DEF ManifestFails, disk, File, Manifests
<1>22. CASE UNCHANGED vars
  BY <1>22 DEF vars, disk, process, ghosts, File
<1>24. CASE Step
  BY <1>24, <1>23, <1>19, <1>18, <1>17, <1>16, <1>15, <1>14, <1>13, <1>12, <1>11, <1>10, <1>9, <1>8, <1>7, <1>6, <1>5, <1>4, <1>3, <1>2 DEF Step
<1> QED
  BY <1>24, <1>22, <1>21, <1>20, <1>1 DEF Next

(* InOrder, for every directory: what stands before the Pipeline that runs *)
(* has been completed since the batch began, however often it was begun    *)
(* anew (commands/run.rs:1160-1162).                                       *)
THEOREM PipelinesRunInOrder == Spec => []InOrder
<1>1. Init => OrderInv
  BY DEF Init, OrderInv, InBatch, InAttempt, Absent, NoManifest
<1>2. IInv /\ OrderInv /\ [Next]_vars => OrderInv'
  BY OrderStep
<1>3. OrderInv => InOrder
  BY DEF OrderInv, InOrder, InBatch, InAttempt
<1> QED
  BY <1>1, <1>2, <1>3, IInvHolds, PTL DEF Spec

----------------------------------------------------------------------------
(* RerunOnlyAfterLoss counts: what is finished and not known as completed  *)
(* will be run again, and there is never more of it than was lost.         *)
LossInv ==
    /\ IsFiniteSet(finished)
    /\ pc \in InBatch \ {"record"} => reruns + Cardinality(finished \ memory.completed) <= lost
    /\ pc = "record" => reruns + Cardinality(finished \ memory.completed) <= lost + 1
    /\ pc \notin InBatch =>
         /\ reruns <= lost
         /\ manifest # Torn => reruns + Cardinality(finished \ manifest.is.completed) <= lost

LEMMA LossStep ==
    ASSUME IInv, OrderInv, LossInv, [Next]_vars
    PROVE  LossInv'
<1> DEFINE Unknown(m) == Cardinality(finished \ m.completed)
<1>0. /\ reruns \in Nat /\ lost \in Nat
      /\ Unknown(memory) \in Nat /\ Unknown(manifest.is) \in Nat
  <2>1. IsFiniteSet(finished \ memory.completed) /\ IsFiniteSet(finished \ manifest.is.completed)
    BY FS_Difference DEF LossInv
  <2> QED
    BY <2>1, FS_CardinalityType DEF IInv, TypeOK, CountsOK
<1>1. CASE EngineCompletes
  <2> DEFINE F == finished \ memory.completed
  <2>1. /\ pc = "engine" /\ pc' = "record" /\ finished' = finished \cup {File}
        /\ memory' = memory /\ lost' = lost
        /\ reruns' = reruns + (IF File \in finished THEN 1 ELSE 0)
    BY <1>1 DEF EngineCompletes
  <2>2. IsFiniteSet(F) /\ IsFiniteSet(finished')
    BY <2>1, FS_Difference, FS_AddElement DEF LossInv
  <2>3. File \notin memory.completed
    BY <2>1 DEF OrderInv, InAttempt
  <2>4. finished' \ memory'.completed = F \cup {File}
    BY <2>1, <2>3
  <2>5. Cardinality(F \cup {File}) = IF File \in finished THEN Cardinality(F) ELSE Cardinality(F) + 1
    BY <2>2, <2>3, FS_AddElement
  <2>6. reruns + Cardinality(F) <= lost
    BY <2>1 DEF LossInv, InBatch, InAttempt
  <2>7. reruns' + Cardinality(finished' \ memory'.completed) <= lost' + 1
    BY <1>0, <2>1, <2>4, <2>5, <2>6
  <2>8. pc' \in InBatch
    BY <2>1 DEF InBatch, InAttempt
  <2>9. pc' = "record" /\ IsFiniteSet(finished')
    BY <2>1, <2>2
  <2> HIDE DEF F
  <2> QED
    BY <2>7, <2>8, <2>9 DEF LossInv
<1>2. CASE RecordCompletion
  <2> DEFINE F == finished \ memory.completed
  <2>1. /\ pc = "record" /\ pc' = "recorded"
        /\ memory'.completed = memory.completed \cup {File}
        /\ UNCHANGED <<finished, lost, reruns>>
    BY <1>2 DEF RecordCompletion, ghosts
  <2>2. File \in F
    BY <2>1 DEF OrderInv, InAttempt
  <2>3. finished' \ memory'.completed = F \ {File}
    BY <2>1
  <2>4. Cardinality(F \ {File}) = Cardinality(F) - 1
    BY <2>2, FS_Difference, FS_RemoveElement DEF LossInv
  <2>5. reruns + Cardinality(F) <= lost + 1
    BY <2>1 DEF LossInv, InBatch, InAttempt
  <2>6. reruns' + Cardinality(finished' \ memory'.completed) <= lost'
    <3>1. Cardinality(F) \in Nat
      BY <1>0
    <3> HIDE DEF F
    <3>2. reruns + (Cardinality(F) - 1) <= lost
      BY <1>0, <2>5, <3>1
    <3> QED
      BY <2>1, <2>3, <2>4, <3>2
  <2>7. pc' \in InBatch
    BY <2>1 DEF InBatch, InAttempt
  <2>8. pc' # "record" /\ finished' = finished
    BY <2>1
  <2> QED
    BY <2>6, <2>7, <2>8 DEF LossInv
<1>3. CASE finished' = {} /\ UNCHANGED <<reruns, lost>> /\ pc # "record" /\ pc' \notin InBatch
  <2>1. IsFiniteSet({}) /\ Cardinality({}) = 0 /\ {} \ manifest'.is.completed = {}
    BY FS_EmptySet
  <2>2. reruns <= lost
    <3>1. CASE pc \in InBatch
      <4>1. reruns + Unknown(memory) <= lost
        BY <1>3, <3>1 DEF LossInv
      <4> QED
        BY <1>0, <4>1
    <3>2. CASE pc \notin InBatch
      BY <3>2 DEF LossInv
    <3> QED
      BY <3>1, <3>2
  <2> QED
    BY <1>0, <1>3, <2>1, <2>2 DEF LossInv
<1>4. CASE /\ UNCHANGED <<finished, reruns, lost>> /\ memory'.completed = memory.completed
           /\ pc \in InBatch \ {"record"} /\ pc' \in InBatch \ {"record"}
  BY <1>4 DEF LossInv
<1>5. CASE /\ UNCHANGED <<finished, reruns, lost>> /\ manifest'.is.completed = memory.completed
           /\ pc \in InBatch \ {"record"} /\ pc' \notin InBatch
  <2>1. reruns + Unknown(memory) <= lost
    BY <1>0, <1>5 DEF LossInv
  <2>2. reruns' <= lost'
    BY <1>0, <1>5, <2>1
  <2>3. reruns' + Cardinality(finished' \ manifest'.is.completed) <= lost'
    BY <1>5, <2>1
  <2>4. pc' # "record" /\ IsFiniteSet(finished')
    BY <1>5 DEF LossInv, InBatch, InAttempt
  <2> QED
    BY <1>5, <2>2, <2>3, <2>4 DEF LossInv
<1>6. CASE UNCHANGED <<finished, reruns, lost, manifest>> /\ pc \notin InBatch /\ pc' \notin InBatch
  <2>1. reruns' <= lost' /\ IsFiniteSet(finished')
    BY <1>6 DEF LossInv
  <2>2. manifest' # Torn => reruns' + Cardinality(finished' \ manifest'.is.completed) <= lost'
    BY <1>6 DEF LossInv
  <2>3. pc' # "record"
    BY <1>6 DEF InBatch, InAttempt
  <2> QED
    BY <1>6, <2>1, <2>2, <2>3 DEF LossInv
<1>7. CASE Crash \/ ManifestFails
  <2>1. /\ pc' = "off" /\ UNCHANGED <<finished, reruns, manifest, memory>>
        /\ lost' = lost + (IF pc \in {"record", "recorded"} THEN 1 ELSE 0)
    BY <1>7 DEF Crash, ManifestFails, disk
  <2>2. pc' \notin InBatch
    BY <2>1 DEF InBatch, InAttempt
  <2>3. CASE pc \notin InBatch
    <3>1. lost' = lost
      BY <1>0, <2>1, <2>3 DEF InBatch, InAttempt
    <3> QED
      BY <1>6, <2>1, <2>2, <2>3, <3>1
  <2>4. CASE pc \in InBatch
    <3>1. reruns + Unknown(memory) <= lost'
      <4>1. CASE pc = "record"
        BY <2>1, <4>1 DEF LossInv
      <4>2. CASE pc # "record"
        <5>1. reruns + Unknown(memory) <= lost
          BY <2>4, <4>2 DEF LossInv
        <5>2. lost' = lost \/ lost' = lost + 1
          BY <1>0, <2>1
        <5> QED
          BY <1>0, <5>1, <5>2
      <4> QED
        BY <4>1, <4>2
    <3>2. reruns <= lost'
      BY <1>0, <2>1, <3>1
    <3>3. manifest # Torn => manifest.is.completed = memory.completed
      BY <2>4 DEF OrderInv
    <3>4. /\ reruns' <= lost' /\ IsFiniteSet(finished') /\ pc' # "record"
          /\ manifest' # Torn => reruns' + Cardinality(finished' \ manifest'.is.completed) <= lost'
      BY <2>1, <3>1, <3>2, <3>3 DEF LossInv
    <3> QED
      BY <2>2, <3>4 DEF LossInv
  <2> QED
    BY <2>3, <2>4
<1>8. CASE LoadManifest
  <2>1. /\ pc = "load" /\ UNCHANGED <<finished, reruns, lost, manifest>> /\ memory' = manifest.is
        /\ pc' = IF manifest = Torn THEN "off" ELSE "next"
    BY <1>8 DEF LoadManifest, disk, ghosts
  <2>2. pc \notin InBatch
    BY <2>1 DEF InBatch, InAttempt
  <2>3. CASE manifest = Torn
    BY <1>6, <2>1, <2>2, <2>3 DEF InBatch, InAttempt
  <2>4. CASE manifest # Torn
    <3>1. pc' = "next" /\ pc' \in InBatch
      BY <2>1, <2>4 DEF InBatch, InAttempt
    <3>2. reruns + Unknown(manifest.is) <= lost
      BY <2>2, <2>4 DEF LossInv
    <3>3. reruns' + Cardinality(finished' \ memory'.completed) <= lost'
      BY <2>1, <3>2
    <3> QED
      BY <2>1, <3>1, <3>3 DEF LossInv
  <2> QED
    BY <2>3, <2>4
<1>9. CASE Invoke \/ Sweep \/ TrustSweep \/ ReadySweep \/ (ClearManifest /\ ~fresh)
  <2>1. UNCHANGED <<finished, reruns, lost, manifest>>
    BY <1>9 DEF Invoke, Sweep, TrustSweep, ReadySweep, ClearManifest, disk, ghosts
  <2>2. pc \in {"off", "sweep", "trust", "ready", "fresh"} /\ pc' \in {"off", "sweep", "trust", "ready", "fresh", "load"}
    BY <1>9 DEF Invoke, Sweep, TrustSweep, ReadySweep, ClearManifest, EnsureTrusted
  <2>3. pc \notin InBatch /\ pc' \notin InBatch
    BY <2>2 DEF InBatch, InAttempt
  <2> QED
    BY <1>6, <2>1, <2>3
<1>10. CASE (ClearManifest /\ fresh) \/ RemoveManifest
  <2>1. finished' = {} /\ UNCHANGED <<reruns, lost>> /\ pc # "record" /\ pc' \in {"off", "load"}
    BY <1>10 DEF ClearManifest, RemoveManifest
  <2>2. pc' \notin InBatch
    BY <2>1 DEF InBatch, InAttempt
  <2> QED
    BY <1>3, <2>1, <2>2
<1>11. CASE BeginPipeline \/ SaveManifest \/ PrepareRun \/ ClearCopy \/ FillCopy \/ MoveAside
            \/ SwapIn \/ DropOld \/ Stage \/ EngineEnds
  <2>1. UNCHANGED <<finished, reruns, lost>> /\ memory'.completed = memory.completed
    <3>1. memory \in Manifests
      BY DEF IInv, TypeOK, ProcessOK
    <3> QED
      BY <1>11, <3>1 DEF BeginPipeline, SaveManifest, PrepareRun, ClearCopy, FillCopy, MoveAside, SwapIn, DropOld,
       Stage, EngineEnds, ghosts, process, Manifests
  <2>2. pc \in InBatch \ {"record"}
    BY <1>11 DEF BeginPipeline, SaveManifest, PrepareRun, ClearCopy, FillCopy, MoveAside, SwapIn, DropOld,
       Stage, EngineEnds, InBatch, InAttempt
  <2>3. \/ pc' \in InBatch \ {"record"}
        \/ pc' = "off" /\ manifest' = manifest /\ pc \in InBatch \ {"saved", "recorded"}
    <3>1. CASE BeginPipeline \/ SaveManifest \/ Stage \/ EngineEnds
      BY <3>1 DEF BeginPipeline, SaveManifest, Stage, EngineEnds, disk, process, InBatch, InAttempt
    <3>2. CASE PrepareRun
      BY <3>2 DEF PrepareRun, EnsureTrusted, InBatch, InAttempt
    <3>3. CASE ClearCopy \/ FillCopy \/ MoveAside \/ SwapIn \/ DropOld
      BY <3>3 DEF ClearCopy, FillCopy, MoveAside, SwapIn, DropOld, CopyFails, InBatch, InAttempt
    <3> QED
      BY <1>11, <3>1, <3>2, <3>3
  <2>4. CASE pc' \in InBatch \ {"record"}
    BY <1>4, <2>1, <2>2, <2>4
  <2>5. CASE pc' = "off" /\ manifest' = manifest /\ pc \in InBatch \ {"saved", "recorded"}
    <3>1. manifest'.is.completed = memory.completed
      BY <2>5 DEF OrderInv
    <3>2. pc' \notin InBatch
      BY <2>5 DEF InBatch, InAttempt
    <3> QED
      BY <1>5, <2>1, <2>2, <3>1, <3>2
  <2> QED
    BY <2>3, <2>4, <2>5
<1>12. CASE Change \/ UNCHANGED vars
  BY <1>12 DEF Change, vars, disk, process, ghosts, LossInv
<1> QED
  BY <1>1, <1>2, <1>3, <1>7, <1>8, <1>9, <1>10, <1>11, <1>12 DEF Next, Step

(* RerunOnlyAfterLoss, for every directory and any number of invocations:  *)
(* a Pipeline that has been completed is run again at most as often as a   *)
(* crash or a failed save lost the record of its end                       *)
(* (commands/run.rs:1287-1295).                                            *)
THEOREM RerunsAreLosses == Spec => []RerunOnlyAfterLoss
<1>1. Init => OrderInv /\ LossInv
  BY FS_EmptySet DEF Init, OrderInv, LossInv, InBatch, InAttempt, Absent, NoManifest
<1>2. IInv /\ OrderInv /\ LossInv /\ [Next]_vars => (OrderInv /\ LossInv)'
  BY OrderStep, LossStep
<1>3. IInv /\ OrderInv /\ LossInv => RerunOnlyAfterLoss
  <2> SUFFICES ASSUME IInv, OrderInv, LossInv PROVE reruns <= lost
    BY DEF RerunOnlyAfterLoss
  <2> DEFINE F == finished \ memory.completed
  <2>1. reruns \in Nat /\ lost \in Nat
    BY DEF IInv, TypeOK, CountsOK
  <2>2. IsFiniteSet(F)
    BY FS_Difference DEF LossInv
  <2>3. Cardinality(F) \in Nat /\ (Cardinality(F) = 0 <=> F = {})
    BY <2>2, FS_CardinalityType, FS_EmptySet
  <2>4. pc = "record" => Cardinality(F) # 0 /\ reruns + Cardinality(F) <= lost + 1
    <3>1. pc = "record" => File \in F
      BY DEF OrderInv, InAttempt
    <3> QED
      BY <2>3, <3>1 DEF LossInv
  <2>5. pc \in InBatch \ {"record"} => reruns + Cardinality(F) <= lost
    BY DEF LossInv
  <2>6. pc \notin InBatch => reruns <= lost
    BY DEF LossInv
  <2> QED
    BY <2>1, <2>3, <2>4, <2>5, <2>6
<1> QED
  BY <1>1, <1>2, <1>3, IInvHolds, PTL DEF Spec

(* THEOREM: a directory is run in order, and a Pipeline that is done runs  *)
(* again only when the record of it was lost (cmd_run_dir, its manifest).  *)
THEOREM DirectoriesRunInOrder == Spec => []BatchIsInOrder
<1> QED
  BY TypeCorrect, PipelinesRunInOrder, RerunsAreLosses, PTL DEF BatchIsInOrder

(* THEOREM: the copy of the skills is that of the Attempt which uses it,   *)
(* and no error or crash in building it leaves half of one in its place    *)
(* (build_skill_copy).                                                     *)
THEOREM CopiesAreWhole == Spec => CopyIsWhole
<1> QED
  BY StagesGetTheirSkills, NoHalfCopyIsLeft, PTL DEF CopyIsWhole
=============================================================================
