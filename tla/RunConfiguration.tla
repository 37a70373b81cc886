-------------------------- MODULE RunConfiguration --------------------------
(***************************************************************************)
(* The controls of one Run: the flags of `pas run`, the pas.toml that the  *)
(* working directory finds (attractor-quality), the attributes of the      *)
(* graph and the built-in values, one layer over the other                 *)
(* (run_configuration.rs), and the second implementation of the layers for *)
(* Claude in the codergen handler (resolve_claude_cli_config).             *)
(*                                                                         *)
(* An optional value is <<>> or <<v>>.  A path is <<directory, name>>; the *)
(* directory "." stands for a relative path.                               *)
(***************************************************************************)
EXTENDS ExecutionPlan

CONSTANTS
    Parent,         \* the directory above a directory, None above the root
    MaxAscents,     \* directories that resolve looks at (16 in the code)
    NoManifest,     \* the fields of a pas.toml that names nothing
    DefaultSteps, DefaultBudget, DefaultFixes,
    Modes, Sources  \* settings modes and setting sources by name

ReservedKeys == {"dry_run", "workdir", "max_steps", "max_budget_usd", "quality_disabled",
                 "quality_max_fix_iterations", "outcome", "preferred_label",
                 "codergen.claude.settings_mode", "codergen.claude.setting_sources", "codergen.claude.plugin_dirs",
                 "codergen.claude.settings", "codergen.claude.tools", "codergen.claude.agents",
                 "codergen.claude.mcp_config", "codergen.pi.tools", "codergen.skills", "__pas.run"}

----------------------------------------------------------------------------
(* pas.toml *)

\* The nearest pas.toml upwards; .git marks the last directory to look at.
\* world.manifests maps a directory to its pas.toml, <<>> when it does not parse.
RECURSIVE ResolveManifest(_, _, _)
ResolveManifest(world, dir, ascents) ==
    IF dir \in DOMAIN world.manifests THEN <<dir>>
    ELSE IF dir \in world.git \/ ascents + 1 >= MaxAscents \/ Parent[dir] = None THEN <<>>
    ELSE ResolveManifest(world, Parent[dir], ascents + 1)

FoundManifest(world, dir) == ResolveManifest(world, dir, 0)

IsMalformed(world, found) == found # <<>> /\ world.manifests[found[1]] = <<>>

ManifestOf(world, found) ==
    IF found = <<>> \/ IsMalformed(world, found) THEN NoManifest ELSE world.manifests[found[1]][1]

\* Entries of a pas.toml are relative to its directory.
JoinPath(found, path) == IF path[1] = "." THEN <<found[1], path[2]>> ELSE path

JoinAll(found, paths) == [i \in DOMAIN paths |-> JoinPath(found, paths[i])]

----------------------------------------------------------------------------
(* Layers *)

Resolved1(value, source) == [value |-> value, source |-> source]

\* A version in which pas.toml wins over the flags.
LayeredManifestFirst(caller, manifest, builtIn) ==
    CASE manifest # <<>> -> Resolved1(manifest[1], "Manifest")
      [] caller # <<>> /\ manifest = <<>> -> Resolved1(caller[1], "Caller")
      [] OTHER -> Resolved1(builtIn, "BuiltIn")

Layered(caller, manifest, builtIn) ==
    CASE caller # <<>> -> Resolved1(caller[1], "Caller")
      [] caller = <<>> /\ manifest # <<>> -> Resolved1(manifest[1], "Manifest")
      [] OTHER -> Resolved1(builtIn, "BuiltIn")

NonEmpty(seq) == IF seq = <<>> THEN <<>> ELSE <<seq>>

\* A list in the flags replaces that of pas.toml, even an empty one.
ResolvePathList(caller, manifest, found) ==
    Layered(caller, NonEmpty(JoinAll(found, manifest)), <<>>)

ClaudeTexts == {"settings", "tools", "agents", "mcp_config"}

ResolveClaude(options, claude, found) ==
    [settings_mode   |-> Layered(options.settings_mode, claude.settings_mode, "subscription_bare"),
     setting_sources |-> Layered(options.setting_sources, claude.setting_sources, <<>>),
     plugin_dirs     |-> ResolvePathList(options.plugin_dirs, claude.plugin_dirs, found),
     texts           |-> [t \in ClaudeTexts |->
                            Layered(options.texts[t], claude.texts[t], None)]]

NeedsSources(claude) ==
    claude.settings_mode.value = "inherit" /\ claude.setting_sources.value = <<>>

\* The limit of a Quality node; the graph may set it, below pas.toml.
QualityLimit(caller, manifest, graph) ==
    IF caller = <<>> /\ manifest = <<>> /\ graph # <<>> THEN Resolved1(graph[1], "Graph")
    ELSE Layered(caller, manifest, DefaultFixes)

QualityNodes(plan) == {n \in DOMAIN plan.nodes : plan.nodes[n].handler = "quality"}

GraphLimit(plan, n) ==
    LET attrs == plan.graph.nodes[n].attrs
    IN  IF "max_fix_iterations" \in DOMAIN attrs THEN <<attrs["max_fix_iterations"]>> ELSE <<>>

BadGraphLimit(plan, n) ==
    \E v \in Range(GraphLimit(plan, n)) : v[1] # "integer" \/ v[2] <= 0

ResolveQualityLimits(plan, options, manifest) ==
    [n \in QualityNodes(plan) |->
        QualityLimit(options.max_fix, manifest.max_fix,
                     [i \in DOMAIN GraphLimit(plan, n) |-> GraphLimit(plan, n)[i][2]])]

----------------------------------------------------------------------------
(* Resources on disk: world.entries maps a path to what is there *)

Exists(world, path) == path \in DOMAIN world.entries

\* A directory with SKILL.md and no link inside, and a name of its own.
BadSkill(world, paths, i) ==
    \/ ~Exists(world, paths[i])
    \/ world.entries[paths[i]] # "skill"
    \/ \E j \in 1..(i - 1) : paths[j][2] = paths[i][2]

ValidateSkills(world, paths) == \A i \in DOMAIN paths : ~BadSkill(world, paths, i)

ValidateExisting(world, paths) == \A i \in DOMAIN paths : Exists(world, paths[i])

----------------------------------------------------------------------------
(* prepare *)

FirstFailure(checks) ==
    LET failed == SelectSeq(checks, LAMBDA c : c[1]) IN IF failed = <<>> THEN None ELSE failed[1][2]

Controls(plan, options, found, manifest) ==
    [dry_run        |-> Layered(options.dry_run, <<>>, FALSE),
     max_steps      |-> Layered(options.max_steps, <<>>, DefaultSteps),
     max_budget_usd |-> Layered(options.max_budget_usd, <<>>, DefaultBudget),
     workdir        |-> options.workdir,
     limits         |-> ResolveQualityLimits(plan, options, manifest),
     claude         |-> ResolveClaude(options.claude, manifest.claude, found),
     skills         |-> ResolvePathList(options.skills, manifest.skills, found),
     pi_extensions  |-> ResolvePathList(options.pi_extensions, manifest.pi_extensions, found),
     pi_prompt_templates |->
        ResolvePathList(options.pi_prompt_templates, manifest.pi_prompt_templates, found)]

Prepare(plan, options, world) ==
    LET found    == FoundManifest(world, options.workdir)
        manifest == ManifestOf(world, found)
        controls == Controls(plan, options, found, manifest)
        failure  == FirstFailure(<<
            <<DOMAIN plan.graph.attrs \cap ReservedKeys # {}, "ReservedGraphAttribute">>,
            <<options.workdir \notin DOMAIN Parent, "Workdir">>,
            <<IsMalformed(world, found), "Manifest">>,
            <<<<0>> \in {options.max_fix, manifest.max_fix}, "Invalid">>,
            <<\E n \in QualityNodes(plan) : BadGraphLimit(plan, n), "Invalid">>,
            <<NeedsSources(controls.claude), "Invalid">>,
            <<~ValidateSkills(world, controls.skills.value), "Invalid">>,
            <<~ValidateExisting(world, controls.pi_extensions.value), "Invalid">>,
            <<~ValidateExisting(world, controls.pi_prompt_templates.value), "Invalid">>,
            <<controls.max_steps.value = 0, "Invalid">>,
            <<controls.max_budget_usd.value < 0, "Invalid">> >>)
    IN  [failure |-> failure, plan |-> plan, controls |-> controls,
         manifest |-> found, context |-> plan.graph.attrs]

\* What `pas trust` has to know before pi loads the extensions of a pas.toml:
\* the contents of the file and of the extensions at this moment.
ManifestExtensionTrust(configuration, world) ==
    LET extensions == configuration.controls.pi_extensions IN
    IF extensions.source # "Manifest" \/ extensions.value = <<>> THEN <<>>
    ELSE <<[path |-> configuration.manifest[1],
            hash |-> <<world.manifests[configuration.manifest[1]],
                       [i \in DOMAIN extensions.value |-> world.entries[extensions.value[i]]]>>]>>

----------------------------------------------------------------------------
(* The flags of `pas run` *)

\* An unknown mode or source ends the command before anything is prepared.
FlagsAreValid(flags) ==
    /\ Range(flags.settings_mode) \subseteq Modes
    /\ \A sources \in Range(flags.setting_sources) : Range(sources) \subseteq Sources

\* A list flag that is not given is no layer; names of paths become absolute.
ResourceList(paths, cwd) == NonEmpty([i \in DOMAIN paths |-> JoinPath(<<cwd>>, paths[i])])

ToExecutionOptions(flags, cwd) ==
    [dry_run |-> flags.dry_run, max_steps |-> flags.max_steps,
     max_budget_usd |-> flags.max_budget_usd, workdir |-> flags.workdir,
     max_fix |-> <<>>,
     claude |-> [settings_mode |-> flags.settings_mode, setting_sources |-> flags.setting_sources,
                 plugin_dirs |-> NonEmpty(flags.plugin_dirs), texts |-> flags.texts],
     skills |-> ResourceList(flags.skills, cwd),
     pi_extensions |-> ResourceList(flags.pi_extensions, cwd),
     pi_prompt_templates |-> ResourceList(flags.pi_prompt_templates, cwd)]

----------------------------------------------------------------------------
(* The layers for Claude once more, in the codergen handler: pas.toml over  *)
(* the defaults, the context of the Run over pas.toml                      *)

DefaultClaude ==
    [settings_mode |-> "subscription_bare", setting_sources |-> <<>>, plugin_dirs |-> <<>>,
     texts |-> [t \in ClaudeTexts |-> None]]

Or(optional, otherwise) == IF optional = <<>> THEN otherwise ELSE optional[1]

ApplyManifestClaude(config, claude, found) ==
    [settings_mode   |-> Or(claude.settings_mode, config.settings_mode),
     setting_sources |-> Or(claude.setting_sources, config.setting_sources),
     plugin_dirs     |-> IF claude.plugin_dirs = <<>> THEN config.plugin_dirs
                         ELSE JoinAll(found, claude.plugin_dirs),
     texts           |-> [t \in ClaudeTexts |-> Or(claude.texts[t], config.texts[t])]]

ApplyContextOverrides(config, context) ==
    [settings_mode   |-> Or(context.settings_mode, config.settings_mode),
     setting_sources |-> Or(context.setting_sources, config.setting_sources),
     plugin_dirs     |-> Or(context.plugin_dirs, config.plugin_dirs),
     texts           |-> [t \in ClaudeTexts |-> Or(context.texts[t], config.texts[t])]]

ResolveClaudeCliConfig(world, workdir, context) ==
    LET found  == FoundManifest(world, workdir)
        config == ApplyContextOverrides(
                    ApplyManifestClaude(DefaultClaude, ManifestOf(world, found).claude, found), context)
    IN  IF IsMalformed(world, found) \/ (config.settings_mode = "inherit" /\ config.setting_sources = <<>>)
        THEN <<>> ELSE <<config>>
=============================================================================
