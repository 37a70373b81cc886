---------------------------- MODULE ProviderCommand ----------------------------
(***************************************************************************)
(* What a codergen node makes of its attributes and of the controls of its *)
(* Run before a process exists: prompt, model, limits and the command line *)
(* of its provider (codergen_handler.rs, codergen_provider.rs).  A command *)
(* is a sequence of arguments <<flag, value>>; a bare flag has the value   *)
(* "" and the prompt the flag "".                                          *)
(***************************************************************************)
EXTENDS RunConfiguration

Arg(flag, value) == <<<<flag, value>>>>
Bare(flags) == [i \in DOMAIN flags |-> <<flags[i], "">>]
Given(flag, value) == IF value = None THEN <<>> ELSE Arg(flag, value)
Each(flag, values) == [i \in DOMAIN values |-> <<flag, values[i]>>]

----------------------------------------------------------------------------
\* The labels that a conditional node has to choose from: those of its edges.
OfferedLabels(plan, n) ==
    LET edges == OutgoingEdges(plan.graph, n)
        Labelled(e) == e.label # None
    IN  IF plan.nodes[n].kind # "Conditional" THEN <<>>
        ELSE LET with == SelectSeq(edges, Labelled) IN [i \in DOMAIN with |-> with[i].label]

----------------------------------------------------------------------------
(* Model and limits *)

\* A pi node has its own model or none: "the graph `model` is a Claude-style
\* alias that pi cannot route".
Model(plan, n) ==
    LET own == plan.graph.nodes[n].llm_model
    IN  IF own # None \/ plan.nodes[n].provider = "pi" THEN own ELSE StringAttr(plan.graph.attrs, "model")

AllowedTools(plan, n) == StringAttr(plan.graph.nodes[n].attrs, "allowed_tools")
Budget(plan, n)       == StringAttr(plan.graph.nodes[n].attrs, "max_budget_usd")

Amounts == {"0.5"}          \* the texts that parse as a budget
NoTools == {"", ","}        \* lists that name no tool

\* What fails the node before its process starts.
RefusesToStart(plan, n) ==
    /\ plan.nodes[n].provider = "pi"
    /\ \/ Model(plan, n) \in {None, ""}
       \/ AllowedTools(plan, n) \in NoTools
       \/ Budget(plan, n) \notin {None} \cup Amounts

----------------------------------------------------------------------------
(* The Run's copy of the skills: its root for Claude, a directory of each    *)
(* for pi; without a copy, the sources for pi and nothing for Claude.        *)

SkillCopyPluginDir(run) == IF run.copied /\ run.skills # <<>> THEN "copy" ELSE None
PiSkillPaths(run) ==
    IF run.copied THEN [i \in DOMAIN run.skills |-> <<"copy", run.skills[i]>>] ELSE run.skills

LoadedPluginDir(run) ==
    IF run.claude.settings_mode = "subscription_bare" THEN None ELSE SkillCopyPluginDir(run)

----------------------------------------------------------------------------
(* The command of each provider *)

ModeArgs(claude) ==
    CASE claude.settings_mode = "subscription_bare" -> Bare(<<"--safe-mode">>)
      [] claude.settings_mode = "strict_bare" -> Bare(<<"--bare">>)
      [] OTHER -> IF claude.setting_sources = <<>> THEN <<>>
                  ELSE Arg("--setting-sources", claude.setting_sources)

ClaudeArgs(plan, n, run) ==
    LET claude == run.claude
        skills == LoadedPluginDir(run)
    IN  ModeArgs(claude)
        \o Bare(<<"-p">>) \o Arg("", "prompt") \o Arg("--output-format", "stream-json")
        \o Bare(<<"--verbose", "--no-session-persistence", "--dangerously-skip-permissions", "--strict-mcp-config">>)
        \o (IF skills = None THEN Bare(<<"--disable-slash-commands">>) ELSE <<>>)
        \o Given("--mcp-config", claude.texts["mcp_config"]) \o Given("--settings", claude.texts["settings"])
        \o Given("--tools", claude.texts["tools"]) \o Given("--agents", claude.texts["agents"])
        \o Each("--plugin-dir", claude.plugin_dirs) \o Given("--plugin-dir", skills)
        \o Given("--model", Model(plan, n))
        \o Given("--allowedTools", AllowedTools(plan, n)) \o Given("--max-budget-usd", Budget(plan, n))

CodexArgs(plan, n, run) ==
    Bare(<<"exec", "--json", "--yolo", "--skip-git-repo-check", "--ephemeral">>)
      \o Given("--model", Model(plan, n)) \o Arg("--cd", run.workdir) \o Arg("", "prompt")

GeminiArgs(plan, n, run) ==
    Arg("--output-format", IF run.geminiStreams THEN "stream-json" ELSE "json") \o Arg("--approval-mode", "yolo")
      \o Given("--model", Model(plan, n)) \o Arg("", "prompt")

PiArgs(plan, n, run) ==
    Bare(<<"-p">>) \o Arg("--mode", "json")
      \o Bare(<<"--no-session", "-ne", "-ns", "-np", "-nc", "--no-mcp", "-na", "--offline">>)
      \o Given("--model", Model(plan, n)) \o Given("--tools", AllowedTools(plan, n))
      \o Each("--skill", PiSkillPaths(run)) \o Each("-e", run.pi_extensions)
      \o Each("--prompt-template", run.pi_prompt_templates) \o Bare(<<"--">>) \o Arg("", "prompt")

Command(plan, n, run) ==
    CASE plan.nodes[n].provider = "claude" -> ClaudeArgs(plan, n, run)
      [] plan.nodes[n].provider = "codex" -> CodexArgs(plan, n, run)
      [] plan.nodes[n].provider = "gemini" -> GeminiArgs(plan, n, run)
      [] plan.nodes[n].provider = "pi" -> PiArgs(plan, n, run)

\* The controls of a node from those of its Run (execute_configured).
RunOf(configuration, copied, streams) ==
    LET c == configuration.controls
    IN  [claude |-> [settings_mode   |-> c.claude.settings_mode.value,
                     setting_sources |-> c.claude.setting_sources.value,
                     plugin_dirs     |-> c.claude.plugin_dirs.value,
                     texts           |-> [t \in ClaudeTexts |-> c.claude.texts[t].value]],
         skills |-> c.skills.value, pi_extensions |-> c.pi_extensions.value,
         pi_prompt_templates |-> c.pi_prompt_templates.value,
         workdir |-> c.workdir, copied |-> copied, geminiStreams |-> streams]
=============================================================================
