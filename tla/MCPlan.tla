------------------------------- MODULE MCPlan -------------------------------
(***************************************************************************)
(* The life of a Pipeline file: somebody writes it, `pas generate` may     *)
(* complete it, a Run compiles it, it is edited between two Attempts and   *)
(* the next Attempt compares fingerprints.  Next to it, the layers of the  *)
(* Run's configuration, the command of a node and the text of a file, each *)
(* over its own inputs.                                                    *)
(***************************************************************************)
EXTENDS HandlerInput

CONSTANTS MaxEdits, MaxText

VARIABLES scenario, file, edits, plan, saved, resumed, input

vars == <<scenario, file, edits, plan, saved, resumed, input>>

A(k, v)     == k :> Str(v)
Bool(k)     == k :> <<"boolean", TRUE>>
Integer(k, n) == k :> <<"integer", n>>

Base == <<Node("start", NoAttrs), Node("a", A("prompt", "p")), Edge(<<"start", "a", "exit">>, NoAttrs)>>

Before == {NodeDefaults(A("llm_provider", "gemini")), EdgeDefaults(A("label", "x")),
           GraphAttrs(A("retry_target", "exit"))}

After ==
    {Node("a", A("llm_provider", "codex")), Node("a", A("class", "fast")),
     Node("b", A("type", "quality")), Node("a", Integer("max_retries", -1)),
     NodeDefaults(A("llm_provider", "codex")), NodeDefaults(A("class", "fast")),
     GraphAttrs(A("model_stylesheet", "styles")),
     Edge(<<"a", "b", "exit">>, A("label", "-")), Edge(<<"a", "exit">>, A("label", "-")),
     Edge(<<"a", "a">>, Bool("loop_restart")), Edge(<<"a", "a">>, NoAttrs),
     Edge(<<"a", "nowhere">>, NoAttrs),
     Subgraph(<<NodeDefaults(A("llm_provider", "claude")), Node("b", A("prompt", "q")),
                Edge(<<"b", "exit">>, NoAttrs)>>),
     Subgraph(<<EdgeDefaults(A("label", "y")), Edge(<<"a", "b", "exit">>, NoAttrs),
                Subgraph(<<Node("b", A("shape", "box"))>>)>>),
     GraphAttrDecl("retry_target", Str("a")), GraphAttrDecl("workdir", Str("w")),
     Node("a", A("timeout", "5m")), Node("b", A("type", Close))}

MCIds == <<"a", "b", "exit", "nowhere", "start">>

MCDurations == [t \in {"5m"} |-> 5]

MCSheets ==
    [styles |-> <<[selector |-> <<"#", "a">>, declarations |-> <<<<"llm_provider", "gemini">>>>],
                  [selector |-> <<".", "fast">>, declarations |-> <<<<"llm_provider", "codex">>>>],
                  [selector |-> <<"*">>, declarations |-> <<<<"llm_provider", "claude">>>>]>>]

----------------------------------------------------------------------------
(* The configuration's inputs *)

MCParent == [sub |-> "repo", repo |-> "root", root |-> None]

EmptyClaude ==
    [settings_mode |-> <<>>, setting_sources |-> <<>>, plugin_dirs |-> <<>>,
     texts |-> [t \in ClaudeTexts |-> <<>>]]

MCNoManifest ==
    [max_fix |-> <<>>, claude |-> EmptyClaude, skills |-> <<>>, pi_extensions |-> <<>>,
     pi_prompt_templates |-> <<>>]

ClaudeLayers(noDirs) ==
    {[settings_mode |-> m, setting_sources |-> s, plugin_dirs |-> d,
      texts |-> [EmptyClaude.texts EXCEPT !.tools = t]]
        : m \in {<<>>, <<"strict_bare">>, <<"inherit">>}, s \in {<<>>, <<<<>>>>, <<<<"user">>>>},
          d \in {<<>>, noDirs}, t \in {<<>>, <<"Read">>}}

Configurations ==
    {[caller |-> c, manifest |-> m, at |-> dir, git |-> g]
        : c \in ClaudeLayers(<<<<<<"root", "plugin">>>>>>), m \in ClaudeLayers(<<<<".", "plugin">>>>),
          dir \in {"sub", "repo"}, g \in {{}, {"sub"}}}

\* The controls of a caller in a context, each in the form both readers take.
Keyed(key, type, value) == IF value = <<>> THEN <<>> ELSE key :> <<type, value[1]>>

ContextOf(c) ==
    ("workdir" :> <<"string", c.at>>)
    @@ Keyed("codergen.claude.settings_mode", "string", c.caller.settings_mode)
    @@ Keyed("codergen.claude.setting_sources", "string", c.caller.setting_sources)
    @@ Keyed("codergen.claude.plugin_dirs", "array", c.caller.plugin_dirs)
    @@ Keyed("codergen.claude.tools", "string", c.caller.texts["tools"])

World(c) ==
    [manifests |-> [d \in {"repo"} |-> <<[MCNoManifest EXCEPT !.claude = c.manifest]>>],
     git |-> c.git, entries |-> <<>>]

Options(c) ==
    [dry_run |-> <<>>, max_steps |-> <<>>, max_budget_usd |-> <<>>, workdir |-> c.at, max_fix |-> <<>>,
     claude |-> c.caller, skills |-> <<>>, pi_extensions |-> <<>>, pi_prompt_templates |-> <<>>]

BasePlan == Compile(FromDot(Parse(Base)), BuiltinCatalog, "claude").plan

----------------------------------------------------------------------------
(* The inputs of the command: a node with or without each attribute, the    *)
(* model of the graph, and the controls of the Run                          *)

Commands ==
    [provider : {"claude", "codex", "gemini", "pi"}, tools : {None, "", "read"}, budget : {None, "0.5", "x"},
     model : {None, "openai/m"}, graphModel : {None, "sonnet"}, mode : Modes, skills : BOOLEAN]

AttrUnlessNone(key, value) == IF value = None THEN NoAttrs ELSE A(key, value)

CommandFile(c) ==
    <<GraphAttrs(AttrUnlessNone("model", c.graphModel)), Node("start", NoAttrs),
      Node("a", A("prompt", "p") @@ A("llm_provider", c.provider) @@ AttrUnlessNone("allowed_tools", c.tools)
                  @@ AttrUnlessNone("max_budget_usd", c.budget) @@ AttrUnlessNone("llm_model", c.model)),
      Edge(<<"start", "a", "exit">>, NoAttrs)>>

SkillPath == <<"repo", "s">>

CommandOptions(c) ==
    [Options([caller |-> [EmptyClaude EXCEPT !.settings_mode = <<c.mode>>, !.setting_sources = <<<<"user">>>>],
              at |-> "repo"]) EXCEPT !.skills = IF c.skills THEN <<<<SkillPath>>>> ELSE <<>>]

----------------------------------------------------------------------------
(* The inputs of the lexer, prompts, and what a handler does to its context *)

Pieces == {<<"text", "t">>, <<"var", "x">>, <<"var", "y">>}

Live == [x |-> <<"string", "1">>, workdir |-> <<"string", "repo">>]

Acts ==
    {<<"set", k, <<"string", v>>>> : k \in {"x", "y", "workdir"}, v \in {"1", "repo"}}
      \cup {<<"remove", k>> : k \in {"x", "y", "workdir"}}

Results == {<<>>, [x |-> <<"string", "2">>], [y |-> <<"string", "2">>], [workdir |-> <<"string", "repo">>]}

Letters == {"n", "e'", "\\", "quote", "/", "*", "nl"}

----------------------------------------------------------------------------

Compiled(stmts) == Compile(FromDot(Parse(stmts)), BuiltinCatalog, None)

Accepted(c) == c.diagnostics = {} /\ ~HasErrors(ValidatePlan(c.plan))

Init ==
    /\ edits = 0 /\ plan = <<>> /\ saved = <<>> /\ resumed = FALSE
    /\ \/ scenario = "file" /\ file = Base /\ input = <<>>
       \/ scenario = "configuration" /\ file = <<>> /\ input \in Configurations
       \/ scenario = "command" /\ file = <<>> /\ input \in Commands
       \/ scenario \in {"text", "prompt", "handler"} /\ file = <<>> /\ input = <<>>

Swapped(stmts) ==
    LET n == Len(stmts) IN SubSeq(stmts, 1, n - 2) \o <<stmts[n], stmts[n - 1]>>

\* Somebody adds a statement, in front or at the end, writes another one in
\* place of the last, or swaps the last two.
Edit ==
    /\ scenario = "file" /\ edits < MaxEdits /\ ~resumed
    /\ \/ \E s \in Before : file' = <<s>> \o file
       \/ \E s \in After : file' = Append(file, s)
       \/ \E s \in After : Len(file) > Len(Base) /\ file' = Append(Front(file), s)
       \/ file' = Swapped(file)
    /\ edits' = edits + 1
    /\ UNCHANGED <<scenario, plan, saved, resumed, input>>

\* `pas generate` completes what it was given and writes the file.
Generate ==
    /\ scenario = "file" /\ saved = <<>> /\ edits < MaxEdits
    /\ file' = ToDotString(FillMissing(Parse(file), "claude"))
    /\ edits' = MaxEdits
    /\ UNCHANGED <<scenario, plan, saved, resumed, input>>

NoOptions == Options([caller |-> EmptyClaude, at |-> "repo"])

NoFiles == [manifests |-> <<>>, git |-> {}, entries |-> <<>>]

\* The first Attempt: its checkpoint keeps the fingerprint of the plan.
Start ==
    /\ scenario = "file" /\ saved = <<>> /\ edits < MaxEdits
    /\ \E c \in {Compiled(file)} :
          /\ Accepted(c) /\ Prepare(c.plan, NoOptions, NoFiles).failure = None
          /\ RegistryCompatible(c.plan, BuiltinCatalog)
          /\ plan' = <<c.plan>>
          /\ saved' = <<[schema |-> SchemaVersion, fingerprint |-> <<Fingerprint(c.plan)>>]>>
    /\ UNCHANGED <<scenario, file, edits, resumed, input>>

\* The next Attempt goes on only with the same fingerprint.
Resume ==
    /\ scenario = "file" /\ saved # <<>> /\ ~resumed
    /\ \E c \in {Compiled(file)} : Accepted(c) /\ ValidateCheckpoint(saved[1], c.plan)
    /\ resumed' = TRUE
    /\ UNCHANGED <<scenario, file, edits, plan, saved, input>>

Type ==
    /\ scenario \in {"text", "prompt", "handler"} /\ Len(input) < MaxText
    /\ \/ scenario = "handler" /\ Len(input) < 3 /\ \E act \in Acts : input' = Append(input, act)
       \/ scenario = "text" /\ \E c \in Letters : input' = Append(input, c)
       \/ scenario = "prompt" /\ \E c \in Pieces : input' = Append(input, c)
    /\ UNCHANGED <<scenario, file, edits, plan, saved, resumed>>

Next == Edit \/ Generate \/ Start \/ Resume \/ Type

Spec == Init /\ [][Next]_vars

----------------------------------------------------------------------------
(* Properties *)

IsFile == scenario = "file"

\* A file that is written again reads back as the same graph: scopes,
\* defaults in force at every node and edge, and the attributes that were
\* authored (serializer.rs:11-12).
RoundTrip == IsFile => Parse(ToDotString(Parse(file))) = Parse(file)

Runnable(p) ==
    /\ p.start \in DOMAIN p.nodes /\ p.exits \subseteq DOMAIN p.nodes \ {p.start}
    /\ \A e \in Range(p.graph.edges) : e.to \in DOMAIN p.nodes \ {p.start} /\ e.from \notin p.exits
    /\ RetryTargets(p.graph) \cap p.exits = {}
    /\ \A n \in DOMAIN p.nodes : /\ p.nodes[n].max_attempts >= 1
                                 /\ p.nodes[n].handler = "codergen" => p.nodes[n].provider # None
                                 /\ n \in p.exits \/ n \in ReachableFrom(p.graph, {p.start})

\* A plan that compiles and has no error in validation meets what the
\* executor takes for granted: the walk starts at a node, every edge ends at
\* one, no retry can jump to an exit, and a node is executed at least once
\* (validation.rs, execution_plan.rs; PlanAssumption of the module Engine).
AcceptedIsRunnable ==
    IsFile => \A c \in {Compiled(file)} : Accepted(c) => Runnable(c.plan)

\* What `pas generate` completes names every provider in the file itself: it
\* compiles without a default to the plan that the default gave
\* (provider_defaults.rs:27-70).
GeneratedIsExplicit ==
    IsFile =>
        \A before \in {Compile(FromDot(Parse(file)), BuiltinCatalog, "claude")},
           after \in {Compiled(ToDotString(FillMissing(Parse(file), "claude")))} :
            before.diagnostics = {} =>
                after.diagnostics = {} /\ after.plan.nodes = before.plan.nodes
                /\ after.plan.graph.edges = before.plan.graph.edges

\* The provider of a node: its own attribute, else the most specific rule of
\* the stylesheet, else the defaults around it (stylesheet.rs:266-311).
ProviderPrecedence ==
    IsFile => \A c \in {Compiled(file)} : c.diagnostics = {} =>
        LET p     == c.plan
            rules == LET s == Sheet(FromDot(Parse(file))) IN IF s = None THEN {} ELSE Range(Sheets[s])
            Rule(n, kind) == {r \in rules : r.selector[1] = kind /\ SelectorMatches(r, n, p.graph.nodes[n])}
            Provider(set) == (CHOOSE r \in set : TRUE).declarations[1][2]
        IN  \A n \in {m \in DOMAIN p.nodes : p.nodes[m].handler = "codergen"} :
                p.nodes[n].provider = ParseProvider(
                    IF "llm_provider" \in p.graph.nodes[n].authored THEN p.graph.nodes[n].attrs["llm_provider"][2]
                    ELSE IF Rule(n, "#") # {} THEN Provider(Rule(n, "#"))
                    ELSE IF Rule(n, ".") # {} THEN Provider(Rule(n, "."))
                    ELSE IF Rule(n, "*") # {} THEN Provider(Rule(n, "*"))
                    ELSE p.graph.nodes[n].attrs["llm_provider"][2])

\* An edit that changes how a node is executed, or an edge of it, is noticed
\* at the next Attempt (execution_plan.rs:441-492).  Labels and conditions
\* "-" and none are the same here, and so is another order of the edges.
EditIsNoticed ==
    resumed => \A now \in {Compiled(file).plan} :
        LET Lines(p) == {EdgeLine(e) : e \in Range(p.graph.edges)}
        IN  now.nodes = plan[1].nodes /\ Lines(now) = Lines(plan[1])
            /\ Len(now.graph.edges) = Len(plan[1].graph.edges)

\* The fingerprint is one "of the compiled execution semantics", so that a
\* resume rejects "a materially changed graph" (execution_plan.rs:441-449):
\* an Attempt that resumes has the retry targets of the first one.
RetryTargetsAreNoticed ==
    resumed => RetryTargets(Compiled(file).plan.graph) = RetryTargets(plan[1].graph)

\* `pas validate` finds an error in a file exactly if `pas run` refuses it
\* (validation.rs:168-190, commands/run.rs:297-312).
ValidateAgreesWithRun ==
    IsFile => \A bdFound \in BOOLEAN, c \in {Compiled(file)} :
        HasErrors(Validate(FromDot(Parse(file)), bdFound)) <=>
            \/ c.diagnostics # {}
            \/ HasErrors(ValidatePlan(c.plan) \cup BeadsAvailable(c.plan, bdFound))

\* A stage that will be killed after the built-in ten minutes was announced
\* when the Run started (preflight.rs:258-268, codergen_handler.rs:413).
NoSilentTimeout ==
    saved # <<>> =>
        LET p == plan[1] IN
        {n \in DOMAIN p.nodes : p.nodes[n].handler = "codergen" /\ p.nodes[n].timeout = <<>>}
            = {w[2] : w \in {v \in Preflight(p, FALSE, FALSE, TRUE) : v[1] = "CODERGEN_NO_TIMEOUT"}}

\* With values that name no variable, a prompt comes out the same in
\* whatever order the attributes are visited, and names none of them any more
\* (transforms.rs:66-73).
ExpansionIsOrderFree ==
    scenario = "prompt" =>
        LET attrs == [x |-> <<<<"text", "v">>>>, y |-> <<>>]
            one  == ExpandVariables(input, attrs, <<"x", "y">>)
        IN  /\ one = ExpandVariables(input, attrs, <<"y", "x">>)
            /\ \A i \in DOMAIN one : one[i][1] # "var"

\* The two ways from the context of an old caller to the controls of Claude,
\* each with its own reader and its own layers, give the same controls and
\* refuse the same ones (engine.rs:269-342 and run_configuration.rs:633-700,
\* codergen_handler.rs:772-925).
TwoPathsAgree ==
    scenario = "configuration" =>
        \A prepared \in {Prepare(BasePlan, LegacyOptions(ContextOf(input)), World(input))},
           legacy \in {ResolvedFor(World(input), ContextOf(input))} :
        LET claude == prepared.controls.claude
        IN  /\ prepared.failure = None <=> legacy # <<>>
            /\ legacy # <<>> =>
                 legacy[1] = [settings_mode |-> claude.settings_mode.value,
                              setting_sources |-> claude.setting_sources.value,
                              plugin_dirs |-> claude.plugin_dirs.value,
                              texts |-> [t \in ClaudeTexts |-> claude.texts[t].value]]

\* What the compiled node of a command file is started with.
Started(p, c) ==
    Command(p, "a",
        RunOf(Prepare(p, CommandOptions(c), [NoFiles EXCEPT !.entries = SkillPath :> "skill"]), TRUE, TRUE))

\* The plans that start the node: at most one.
Starting ==
    IF scenario # "command" THEN {}
    ELSE {c.plan : c \in {k \in {Compiled(CommandFile(input))} :
                            k.diagnostics = {} /\ ~RefusesToStart(k.plan, "a")}}

\* Whatever its provider, a node that is started has its own limits: tools
\* and budget are in its command, or the budget is the one that PAS enforces
\* itself; a provider that cannot be limited is refused by the compiler.  The
\* model is the node's, else the graph's but for pi
\* (execution_plan.rs:615-661, codergen_provider.rs:419-574).
ControlsReachTheCommand ==
    \A p \in Starting : \A args \in {Started(p, input)} :
        LET Values(flags) == {args[i][2] : i \in {k \in DOMAIN args : args[k][1] \in flags}}
            Wanted(value) == {value} \ {None}
        IN  /\ Values({"--allowedTools", "--tools"}) = Wanted(input.tools)
            /\ input.provider # "pi" => Values({"--max-budget-usd"}) = Wanted(input.budget)
            /\ input.provider = "pi" => input.budget \in {None, "0.5"}
            /\ Values({"--model"}) = Wanted(IF input.model # None THEN input.model
                                            ELSE IF input.provider = "pi" THEN None ELSE input.graphModel)

\* The skills named for a Run are loaded by a node or a warning has said at
\* the start that its provider does not load them, never both and never
\* neither (docs/execution-capabilities.md:35-36, preflight.rs:156-190).
SkillsLoadOrWarn ==
    \A p \in Starting : input.skills => \A args \in {Range(Started(p, input))} :
        LET loaded == /\ {<<"--plugin-dir", "copy">>, <<"--skill", <<"copy", SkillPath>>>>} \cap args # {}
                      /\ <<"--disable-slash-commands", "">> \notin args
        IN  loaded <=> <<"CODERGEN_SKILLS_NOT_LOADED", input.provider>> \notin
                Preflight(p, TRUE, TRUE, input.mode = "subscription_bare")

\* Whatever a handler does to the context directly, and whatever it returns,
\* comes to the same as if it had worked on the live context, its outcome
\* last; controls of the Run excepted, which stay, and it is refused exactly
\* if it changed one (handler.rs:224-269, engine.rs:249-267).
WritesReachTheContext ==
    scenario = "handler" => \A result \in Results :
        LET done    == ExecuteConfigured(Live, input, result)
            applied == ApplyHandlerUpdates(done.live, done.updates)
            direct  == result @@ Direct(Live, input)
            changed == {k \in DOMAIN direct : k \notin DOMAIN Live \/ direct[k] # Live[k]}
        IN  /\ applied = <<>> <=> ReservedKeys \cap (changed \cup DOMAIN result) # {}
            /\ applied # <<>> =>
                 /\ Workflow(applied[1]) = Workflow(direct)
                 /\ \A k \in DOMAIN Live \cap ReservedKeys : k \in DOMAIN applied[1] /\ applied[1][k] = Live[k]

IsAscii(text) == "e'" \notin Range(text)

\* A value survives being written between quotes and read again
\* (serializer.rs:232-247, parser_primitives.rs:41-64); letters outside ASCII
\* do not, because of strip_comments.
ReadBackIsValue == scenario = "text" /\ IsAscii(input) => ReadBack(input) = input

\* Comments go, line numbers stay: what is left has the line breaks of the
\* text, but for a last character inside an unfinished comment
\* (parser.rs:37-41).
LinesAreKept ==
    scenario = "text" => Newlines(StripComments(input)) = Newlines(input)
=============================================================================
