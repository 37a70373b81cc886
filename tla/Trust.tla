-------------------------------- MODULE Trust --------------------------------
(***************************************************************************)
(* A pas.toml from `pas init` (commands/init.rs) over the trust store      *)
(* (attractor-quality/trust.rs) to the stages a quality node runs          *)
(* (quality_handler.rs), while people edit the file, overwrite it with     *)
(* `pas init` and change the store with `pas trust`, and the Run goes on.  *)
(* A content stands for the file and for its hash; the path is always the  *)
(* same one.                                                               *)
(***************************************************************************)
EXTENDS Integers, Sequences, SequencesExt

CONSTANTS
    Contents,       \* what a pas.toml may hold
    Quality,        \* [content -> the stages of it: a sequence of names]
    Hooks,          \* [content -> [name -> [argv |-> words, cmd |-> commands]]]
    Split,          \* shlex::split: [command -> words, <<>> if it has none]
    Checks,         \* the lists a node may have as its quality_checks
    Shells          \* the shells in which `pas trust` is called

VARIABLES
    disk,           \* the content of pas.toml
    editing,        \* `pas init` past its guards: "no", "default", "editor"
    store,          \* the trust store
    commands,       \* [Shells -> the change of the store under way, or Idle]
    manifest,       \* the content the Run was prepared with, in a sequence, or <<>>
    asked,          \* the node whose question stands on the Run's terminal, or <<>>
    adding,         \* the change of the store that a yes led to, or Idle
    agreed,         \* history: the contents that somebody has agreed to
    ran             \* history: what quality nodes ran

vars == <<disk, editing, store, commands, manifest, asked, adding, agreed, ran>>

Absent == 0         \* no pas.toml
Fresh  == 1         \* build_manifest: its list of stages is empty

----------------------------------------------------------------------------
(* `pas init`                                                              *)

\* A question has a reply; nobody is asked who is not at a terminal.
Allows(opts, question) == opts.force \/ (opts.interactive /\ question \in opts.yes)

\* The guards before anything is made.
InitProceeds(opts, git, content) ==
    /\ git \/ Allows(opts, "no .git")
    /\ content = Absent \/ Allows(opts, "overwrite")

----------------------------------------------------------------------------
(* The trust store: a set of contents, or a file that cannot be read.  A   *)
(* command loads it, changes its copy and replaces the file, without lock. *)
Idle == [op |-> "idle", content |-> Absent, has |-> {}]

Loaded(op, content) == [op |-> op, content |-> content, has |-> store.has]

Saved(command) ==
    [ok |-> TRUE, has |-> IF command.op = "add" THEN command.has \cup {command.content}
                          ELSE command.has \ {command.content}]

IsTrusted(bypass, content) == bypass \/ (store.ok /\ content \in store.has)

----------------------------------------------------------------------------
(* The stages of a quality node                                            *)

Shell(text) == <<"sh", "-c", text>>

ResolveArgv(content, stage) ==
    IF stage \notin DOMAIN Hooks[content] THEN Shell(stage)
    ELSE LET hook == Hooks[content][stage]
         IN  IF hook.argv # <<>> THEN hook.argv
             ELSE IF hook.cmd = <<>> THEN Shell(stage)
             ELSE IF Split[hook.cmd[1]] # <<>> THEN Split[hook.cmd[1]] ELSE Shell(hook.cmd[1])

HasStages(content) == content # Absent /\ Quality[content] # <<>>

Argvs(content) == [i \in DOMAIN Quality[content] |-> ResolveArgv(content, Quality[content][i])]

\* What a node runs; its own list is for a Run whose manifest has no stages.
Stages(checks, content) ==
    IF HasStages(content) THEN Argvs(content) ELSE [i \in DOMAIN checks |-> Shell(checks[i])]

----------------------------------------------------------------------------
(* The people                                                              *)
Opts == [force : BOOLEAN, dry : BOOLEAN, interactive : BOOLEAN, yes : SUBSET {"no .git", "overwrite"}]

Init ==
    /\ disk \in Contents /\ editing = "no"
    /\ store = [ok |-> TRUE, has |-> {}] /\ commands = [p \in Shells |-> Idle]
    /\ manifest = <<>> /\ asked = <<>> /\ adding = Idle /\ agreed = {} /\ ran = {}

\* The file is edited, removed or put there by hand.
Edit ==
    /\ disk' \in Contents /\ disk' # disk
    /\ UNCHANGED <<editing, store, commands, manifest, asked, adding, agreed, ran>>

\* `pas init` looks whether there is a file before anything else; a dry run
\* ends without one.
InitBegins ==
    /\ editing = "no"
    /\ \E opts \in Opts, git \in BOOLEAN :
          /\ InitProceeds(opts, git, disk) /\ ~opts.dry
          /\ editing' = IF opts.interactive THEN "editor" ELSE "default"
    /\ UNCHANGED <<disk, store, commands, manifest, asked, adding, agreed, ran>>

\* It writes what it made, or what the person made of it in the editor, who
\* may also refuse in the end.
InitWrites ==
    /\ editing # "no" /\ editing' = "no"
    /\ \/ disk' = Fresh
       \/ editing = "editor" /\ disk' \in Contents \ {Absent}
       \/ editing = "editor" /\ disk' = disk
    /\ UNCHANGED <<store, commands, manifest, asked, adding, agreed, ran>>

\* `pas trust add` agrees to a content by its hash; with a store that cannot
\* be read the command fails.
TrustLoads(p) ==
    /\ commands[p] = Idle
    /\ \E op \in {"add", "remove"}, content \in Contents \ {Absent} :
          /\ commands' = IF store.ok THEN [commands EXCEPT ![p] = Loaded(op, content)] ELSE commands
          /\ agreed' = IF op = "add" THEN agreed \cup {content} ELSE agreed
    /\ UNCHANGED <<disk, editing, store, manifest, asked, adding, ran>>

TrustSaves(p) ==
    /\ commands[p] # Idle
    /\ store' = Saved(commands[p]) /\ commands' = [commands EXCEPT ![p] = Idle]
    /\ UNCHANGED <<disk, editing, manifest, asked, adding, agreed, ran>>

\* Something else spoils the store.
Damage ==
    /\ store.ok /\ store' = [store EXCEPT !.ok = FALSE]
    /\ UNCHANGED <<disk, editing, commands, manifest, asked, adding, agreed, ran>>

----------------------------------------------------------------------------
(* The Run.  Its manifest is the one of its preparation.                   *)
Prepare ==
    /\ asked = <<>>
    /\ manifest' = <<disk>>
    /\ UNCHANGED <<disk, editing, store, commands, asked, adding, agreed, ran>>

Killed ==
    /\ manifest # <<>>
    /\ manifest' = <<>> /\ asked' = <<>> /\ adding' = Idle
    /\ UNCHANGED <<disk, editing, store, commands, agreed, ran>>

RunsReread(checks, bypass) ==
    ran' = ran \cup {[content |-> manifest[1], checks |-> checks, bypass |-> bypass,
                     argvs |-> Stages(checks, disk)]}

\* A node with neither stages nor checks fails.
Runs(checks, bypass) ==
    ran' = IF Stages(checks, manifest[1]) = <<>> THEN ran
           ELSE ran \cup {[content |-> manifest[1], checks |-> checks, bypass |-> bypass,
                          argvs |-> Stages(checks, manifest[1])]}

\* A node that is enabled.  One whose stages come from a manifest that is not
\* trusted asks at the terminal, or fails without one.
QualityNode(checks, bypass, terminal) ==
    /\ manifest # <<>> /\ asked = <<>>
    /\ IF HasStages(manifest[1]) /\ ~IsTrusted(bypass, manifest[1])
       THEN asked' = (IF terminal THEN <<checks>> ELSE <<>>) /\ UNCHANGED ran
       ELSE Runs(checks, bypass) /\ UNCHANGED asked
    /\ UNCHANGED <<disk, editing, store, commands, manifest, adding, agreed>>

\* prompt_and_add: a yes is remembered, and the node fails if it cannot be.
Reply(yes) ==
    /\ asked # <<>> /\ adding = Idle
    /\ IF yes /\ store.ok
       THEN adding' = Loaded("add", manifest[1]) /\ UNCHANGED asked
       ELSE asked' = <<>> /\ UNCHANGED adding
    /\ agreed' = IF yes THEN agreed \cup {manifest[1]} ELSE agreed
    /\ UNCHANGED <<disk, editing, store, commands, manifest, ran>>

Remembered ==
    /\ adding # Idle
    /\ store' = Saved(adding) /\ adding' = Idle
    /\ Runs(asked[1], FALSE) /\ asked' = <<>>
    /\ UNCHANGED <<disk, editing, commands, manifest, agreed>>

Next ==
    \/ Edit \/ InitBegins \/ InitWrites \/ Damage \/ Prepare \/ Killed \/ Remembered
    \/ \E p \in Shells : TrustLoads(p) \/ TrustSaves(p)
    \/ \E checks \in Checks, bypass, terminal \in BOOLEAN : QualityNode(checks, bypass, terminal)
    \/ \E yes \in BOOLEAN : Reply(yes)

Spec == Init /\ [][Next]_vars

----------------------------------------------------------------------------
\* A command of a pas.toml is run by a quality node only if somebody has
\* agreed to exactly the content it comes from, or PAS_TRUST_THIS says that
\* nobody needs to, whatever is edited between preparation, agreement and
\* node, and however `pas trust` commands overlap; a manifest without stages
\* leaves the node its own list (quality_handler.rs:95-148, trust.rs:92-140).
OnlyAgreedRuns ==
    \A r \in ran :
        IF HasStages(r.content)
        THEN r.argvs = Argvs(r.content) /\ (r.content \in agreed \/ r.bypass)
        ELSE \A i \in DOMAIN r.argvs : r.argvs[i] = Shell(r.checks[i])
=============================================================================
