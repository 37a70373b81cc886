--------------------------- MODULE ExecutionPlan ---------------------------
(***************************************************************************)
(* From a parsed file to the plan that the executor walks: the graph with  *)
(* its layers of defaults (graph.rs), the stylesheet (stylesheet.rs,       *)
(* transforms.rs) and the canonical compilation (execution_plan.rs), the   *)
(* checks of the plan (validation.rs) and the preflight warnings           *)
(* (preflight.rs).                                                         *)
(*                                                                         *)
(* A diagnostic is its kind and its node; what it says is left out.  A     *)
(* class attribute names one class.                                        *)
(***************************************************************************)
EXTENDS Dot, FiniteSets

CONSTANTS
    Sheets,         \* what parse_stylesheet makes of a text: its rules, <<>> for an error
    Durations,      \* the strings that parse_duration_str accepts, with their lengths
    BadConditions   \* the condition strings that parse_condition refuses

None == "(none)"

NoNodeId == "(no node)"

StringAttr(attrs, k) ==
    IF k \in DOMAIN attrs /\ attrs[k][1] = "string" THEN attrs[k][2] ELSE None

BoolAttr(attrs, k) == k \in DOMAIN attrs /\ attrs[k] \in {<<"boolean", TRUE>>, Str("true")}

----------------------------------------------------------------------------
(* The graph *)

PipelineNode(def, defaults) ==
    LET attrs == def.attrs @@ defaults IN
    [attrs        |-> attrs,
     authored     |-> DOMAIN def.authored,
     node_type    |-> StringAttr(attrs, "type"),
     classes      |-> {StringAttr(attrs, "class")} \ {None},
     llm_model    |-> StringAttr(attrs, "llm_model"),
     llm_provider |-> StringAttr(attrs, "llm_provider")]

PipelineNodes(scope, defaults) ==
    [n \in DOMAIN scope.nodes |-> PipelineNode(scope.nodes[n], defaults)]

PipelineEdges(scope, defaults) ==
    [i \in DOMAIN scope.edges |->
        LET attrs == scope.edges[i].attrs @@ defaults IN
        [from |-> scope.edges[i].from, to |-> scope.edges[i].to,
         label |-> StringAttr(attrs, "label"), condition |-> StringAttr(attrs, "condition"),
         weight |-> IF "weight" \in DOMAIN attrs /\ attrs["weight"][1] = "integer"
                    THEN attrs["weight"][2] ELSE 0,
         loop_restart |-> BoolAttr(attrs, "loop_restart"),
         reset |-> BoolAttr(attrs, "reset_quality_loop_state"), keys |-> DOMAIN attrs]]

\* Nodes of later subgraphs replace those of earlier ones and of the top level.
FromDot(dot) ==
    [attrs |-> dot.attrs,
     nodes |-> FoldLeft(LAMBDA nodes, sg : PipelineNodes(sg, sg.node_defaults @@ dot.node_defaults) @@ nodes,
                        PipelineNodes(dot, dot.node_defaults), dot.subgraphs),
     edges |-> FoldLeft(LAMBDA edges, sg : edges \o PipelineEdges(sg, sg.edge_defaults @@ dot.edge_defaults),
                        PipelineEdges(dot, dot.edge_defaults), dot.subgraphs)]

OutgoingEdges(graph, n) == SelectSeq(graph.edges, LAMBDA e : e.from = n)

----------------------------------------------------------------------------
(* The stylesheet *)

Specificity(rule) == CASE rule.selector[1] = "*" -> 0 [] rule.selector[1] = "." -> 1 [] OTHER -> 2

SelectorMatches(rule, n, node) ==
    CASE rule.selector[1] = "*" -> TRUE
      [] rule.selector[1] = "#" -> rule.selector[2] = n
      [] OTHER                  -> rule.selector[2] \in node.classes

\* sort_by_key is stable: the order of the text decides among equals.
BySpecificity(rules) ==
    FoldLeft(LAMBDA done, s : done \o SelectSeq(rules, LAMBDA r : Specificity(r) = s), <<>>, <<0, 1, 2>>)

Declare(node, property, value) ==
    CASE property \in {"llm_model", "llm_provider"} ->
           IF property \in node.authored THEN node ELSE [node EXCEPT ![property] = value]
      [] property = "reasoning_effort" ->
           [node EXCEPT !.attrs = (property :> Str(value)) @@ @]
      [] OTHER -> node

Styled(n, node, rules) ==
    FoldLeft(LAMBDA styled, rule :
                 FoldLeft(LAMBDA m, d : Declare(m, d[1], d[2]), styled, rule.declarations),
             node, BySpecificity(SelectSeq(rules, LAMBDA r : SelectorMatches(r, n, node))))

ApplyStylesheet(graph, rules) ==
    [graph EXCEPT !.nodes = [n \in DOMAIN @ |-> Styled(n, @[n], rules)]]

\* ${key} in a prompt: a prompt is a sequence of texts and of names of
\* variables; the attributes are substituted one after the other, in the
\* order in which a hash map happens to give them.
Replaced(text, k, vars) ==
    FlattenSeq([i \in DOMAIN text |-> IF text[i] = <<"var", k>> THEN vars[k] ELSE <<text[i]>>])

ExpandVariables(prompt, vars, order) ==
    FoldLeft(LAMBDA text, k : Replaced(text, k, vars), prompt, order)

----------------------------------------------------------------------------
(* Diagnostics about attributes *)

When(condition, kind, n) == IF condition THEN {<<kind, n>>} ELSE {}

IsTyped(attrs, k, type) == k \in DOMAIN attrs => attrs[k][1] = type

AttributeTypes(graph) ==
    UNION ({When(~IsTyped(graph.attrs, k, "string"), "InvalidAttributeType", NoNodeId)
              : k \in {"model_stylesheet", "stylesheet"}}
           \cup {When(~IsTyped(graph.nodes[n].attrs, k, "string"), "InvalidAttributeType", n)
              : n \in DOMAIN graph.nodes,
                k \in {"shape", "type", "node_type", "handler", "prompt", "llm_provider",
                       "class", "classes"}})

\* The first of several names for one attribute, and whether they disagree.
AliasValues(attrs, keys) ==
    SelectSeq([i \in DOMAIN keys |-> StringAttr(attrs, keys[i])], LAMBDA v : v # None)
Disagree(attrs, keys) == Cardinality(Range(AliasValues(attrs, keys))) > 1
Alias(attrs, keys, otherwise) ==
    LET values == AliasValues(attrs, keys)
    IN  IF values = <<>> \/ Disagree(attrs, keys) THEN otherwise ELSE values[1]

HandlerKeys == <<"type", "node_type", "handler">>
ClassKeys   == <<"class", "classes">>
SheetKeys   == <<"model_stylesheet", "stylesheet">>

AliasConflicts(graph) ==
    When(Disagree(graph.attrs, SheetKeys), "ConflictingAttributeAliases", NoNodeId)
    \cup UNION {When(Disagree(graph.nodes[n].attrs, keys), "ConflictingAttributeAliases", n)
                  : n \in DOMAIN graph.nodes, keys \in {HandlerKeys, ClassKeys}}

NormalizeAliases(graph) ==
    [graph EXCEPT
        !.nodes = [n \in DOMAIN @ |->
            [@[n] EXCEPT !.node_type = Alias(graph.nodes[n].attrs, HandlerKeys, @),
                         !.classes = LET c == Alias(graph.nodes[n].attrs, ClassKeys, None)
                                     IN  IF c = None THEN @ ELSE {c}]]]

Sheet(graph) == Alias(graph.attrs, SheetKeys, None)

UnsupportedAttributes(graph) ==
    UNION {When({"fidelity", "reasoning_effort", "auto_status", "allow_partial", "thread_id"}
                   \cap DOMAIN graph.nodes[n].attrs # {}, "UnsupportedExecutionCapability", n)
             : n \in DOMAIN graph.nodes}
    \cup When(\E i \in DOMAIN graph.edges : {"fidelity", "thread_id"} \cap graph.edges[i].keys # {},
              "UnsupportedExecutionCapability", NoNodeId)

----------------------------------------------------------------------------
(* What a node is *)

Select == "beads.select"
Close  == "beads.close"

BuiltinCatalog ==
    [h \in {"start", "exit", "codergen", "conditional", "wait.human", "tool", "parallel",
            "parallel.fan_in", "stack.manager_loop", "quality", Select, Close} |-> h = "codergen"]

Lookup(table, k) == IF k \in DOMAIN table THEN table[k] ELSE None

ShapeRoles ==
    [Mdiamond |-> "Start", Msquare |-> "Exit", box |-> "Task", diamond |-> "Conditional",
     hexagon |-> "HumanGate", parallelogram |-> "Tool", component |-> "Parallel",
     tripleoctagon |-> "FanIn", house |-> "ManagerLoop"]

TypeRoles ==
    [start |-> "Start", exit |-> "Exit", codergen |-> "Task", conditional |-> "Conditional",
     tool |-> "Tool", parallel |-> "Parallel", fan_in |-> "FanIn", manager |-> "ManagerLoop",
     quality |-> "Quality"]
    @@ ("wait.human" :> "HumanGate") @@ ("parallel.fan_in" :> "FanIn")
    @@ ("stack.manager_loop" :> "ManagerLoop")

CustomShapeRoles == (Select :> "Conditional") @@ (Close :> "Task")

HandlerOfRole ==
    [Start |-> "start", Exit |-> "exit", Task |-> "codergen", Conditional |-> "conditional",
     HumanGate |-> "wait.human", Tool |-> "tool", Parallel |-> "parallel",
     FanIn |-> "parallel.fan_in", ManagerLoop |-> "stack.manager_loop", Quality |-> "quality"]

MagicRole(n) ==
    CASE n \in {"start", "Start"}       -> "Start"
      [] n \in {"exit", "end", "done"}  -> "Exit"
      [] OTHER                          -> None

RolesCompatible(left, right) == left = right \/ {left, right} = {"Task", "Quality"}

SignalsCompatible(shape, type, name) ==
    RolesCompatible(shape, type) \/ (shape = "Conditional" /\ name = "codergen")

\* The role that shape and type give, and whether they contradict each other.
SignalRole(node, catalog) ==
    LET name  == node.node_type
        type  == Lookup(TypeRoles, name)
        shape == Lookup(ShapeRoles, StringAttr(node.attrs, "shape"))
    IN  CASE type # None ->
               [role |-> IF shape = "Conditional" /\ name = "codergen" THEN shape ELSE type,
                conflict |-> shape # None /\ ~SignalsCompatible(shape, type, name)]
          [] type = None /\ name \in DOMAIN catalog ->
               [role |-> "Custom",
                conflict |-> shape # None /\ Lookup(CustomShapeRoles, name) # shape]
          [] OTHER ->
               [role |-> IF shape = None THEN "Task" ELSE shape, conflict |-> FALSE]

\* An id such as start or done counts only when nothing else says what the node is.
RoleBy(magic, explicit, signal) ==
    IF magic # None /\ ~explicit
    THEN [role |-> magic, conflict |-> signal.conflict]
    ELSE [role |-> signal.role,
          conflict |-> signal.conflict \/ (magic # None /\ ~RolesCompatible(magic, signal.role))]

NodeRole(n, node, catalog) ==
    RoleBy(MagicRole(n), {"shape", "type", "node_type", "handler"} \cap DOMAIN node.attrs # {},
           SignalRole(node, catalog))

ParseProvider(value) ==
    CASE value \in {"claude", "anthropic"} -> "claude"
      [] value \in {"codex", "openai"}     -> "codex"
      [] value \in {"gemini", "google"}    -> "gemini"
      [] value = "pi"                      -> "pi"
      [] OTHER                             -> None

RoleDiagnostics(n, node, catalog) ==
    LET name  == node.node_type
        shape == StringAttr(node.attrs, "shape")
        known == name \in DOMAIN TypeRoles \/ name \in DOMAIN catalog
    IN  When(name # None /\ ~known, "UnknownHandler", n)
        \cup When(shape \notin {None} \cup DOMAIN ShapeRoles /\ ~known, "UnknownShape", n)
        \cup When(NodeRole(n, node, catalog).conflict, "ConflictingRoleSignals", n)
        \cup When(node.llm_provider # None /\ ParseProvider(node.llm_provider) = None,
                  "UnknownProvider", n)

InvocationDiagnostics(n, node) ==
    LET a == node.attrs IN
    IF ~IsTyped(a, "max_retries", "integer") THEN {<<"InvalidAttributeType", n>>}
    ELSE IF "max_retries" \in DOMAIN a /\ a["max_retries"][2] < 0 THEN {<<"InvalidAttributeValue", n>>}
    ELSE IF "timeout" \notin DOMAIN a \/ a["timeout"][1] = "duration" THEN {}
    ELSE IF a["timeout"][1] # "string" THEN {<<"InvalidAttributeType", n>>}
    ELSE When(a["timeout"][2] \notin DOMAIN Durations, "InvalidAttributeValue", n)

\* A timeout, <<>> for none.
Timeout(attrs) ==
    IF "timeout" \notin DOMAIN attrs THEN <<>>
    ELSE IF attrs["timeout"][1] = "duration" THEN <<attrs["timeout"][2]>>
    ELSE <<Durations[attrs["timeout"][2]]>>

HandlerFor(role, node) ==
    CASE role = "Custom" -> node.node_type
      [] role = "Conditional" /\ ("prompt" \in DOMAIN node.attrs \/ node.node_type = "codergen") -> "codergen"
      [] OTHER -> HandlerOfRole[role]

\* A node of a role and with a handler that are known.  The provider is for a
\* handler that needs one; policy is None (reject) or the provider to insert.
ResolvedAs(n, node, role, handler, catalog, policy) ==
    LET own     == ParseProvider(node.llm_provider)
        asks    == handler \in DOMAIN catalog /\ catalog[handler]
        missing == asks /\ own = None
    IN  [diagnostics |->
            LET invocation == InvocationDiagnostics(n, node) IN
            IF invocation # {} THEN invocation
            ELSE When(handler \notin DOMAIN catalog, "UnknownHandler", n)
                 \cup When(missing /\ policy = None, "MissingProvider", n),
         defaulted |-> missing,
         node |-> [kind |-> role, handler |-> handler,
                   provider |-> IF ~asks THEN None ELSE IF own = None THEN policy ELSE own,
                   timeout |-> Timeout(node.attrs),
                   max_attempts |-> 1 + (IF "max_retries" \in DOMAIN node.attrs
                                         THEN node.attrs["max_retries"][2] ELSE 0)]]

ResolvedIn(n, node, role, catalog, policy) ==
    ResolvedAs(n, node, role, HandlerFor(role, node), catalog, policy)

Resolved(n, node, catalog, policy) ==
    ResolvedIn(n, node, NodeRole(n, node, catalog).role, catalog, policy)

ResolveNode(n, node, catalog, policy) ==
    LET early == RoleDiagnostics(n, node, catalog)
    IN  IF early = {} THEN Resolved(n, node, catalog, policy) ELSE [diagnostics |-> early]

----------------------------------------------------------------------------
(* What PAS can execute *)

Topology(graph, nodes) ==
    UNION {When(\/ nodes[n].kind = "Parallel" /\ Len(OutgoingEdges(graph, n)) > 1
                \/ nodes[n].kind = "FanIn", "UnsupportedExecutionTopology", n) : n \in DOMAIN nodes}

PiModels == {"openai/m", "openai/m:high"}      \* the values that check_pi_model accepts
PiTools  == {"", "read", "read, bash"}           \* the lists that check_pi_tools accepts

PiDiagnostics(n, node) ==
    LET model == node.llm_model
        tools == StringAttr(node.attrs, "allowed_tools")
    IN  When(model \in {None, ""}, "MissingAttribute", n)
        \cup When(model \notin {None, ""} \cup PiModels \/ tools \notin {None} \cup PiTools,
                  "InvalidAttributeValue", n)

Capabilities(graph, nodes) ==
    LET Limits(n) == {"allowed_tools", "max_budget_usd"} \cap DOMAIN graph.nodes[n].attrs
        Codergen(n) == nodes[n].handler = "codergen"
        HasLimits(n) == Codergen(n) /\ nodes[n].provider \in {"claude", "pi"}
    IN  UNION {When(\/ nodes[n].kind = "ManagerLoop"
                    \/ ~HasLimits(n) /\ Limits(n) # {}, "UnsupportedExecutionCapability", n)
               \cup When(HasLimits(n) /\ \E k \in Limits(n) : ~IsTyped(graph.nodes[n].attrs, k, "string"),
                         "InvalidAttributeType", n)
               \cup (IF Codergen(n) /\ nodes[n].provider = "pi"
                     THEN PiDiagnostics(n, graph.nodes[n]) ELSE {}) : n \in DOMAIN nodes}

BeadsAttributes(graph, nodes) ==
    UNION {LET attrs == graph.nodes[n].attrs IN
           When(StringAttr(attrs, "epic") \in {None, ""} /\ IsTyped(attrs, "epic", "string"),
                "MissingAttribute", n)
           \cup When(~IsTyped(attrs, "epic", "string"), "InvalidAttributeType", n)
             : n \in {m \in DOMAIN nodes : nodes[m].handler = Select}}

Cardinalities(nodes) ==
    LET Count(kind) == Cardinality({n \in DOMAIN nodes : nodes[n].kind = kind}) IN
    When(Count("Start") = 0, "MissingStart", NoNodeId) \cup When(Count("Start") > 1, "MultipleStarts", NoNodeId)
    \cup When(Count("Exit") = 0, "MissingExit", NoNodeId) \cup When(Count("Exit") > 1, "MultipleExits", NoNodeId)

----------------------------------------------------------------------------
(* The compilation *)

Diagnostics(styled, resolved, nodes) ==
    UnsupportedAttributes(styled) \cup UNION {resolved[n].diagnostics : n \in DOMAIN resolved}
        \cup Topology(styled, nodes) \cup Capabilities(styled, nodes)
        \cup BeadsAttributes(styled, nodes) \cup Cardinalities(nodes)

\* The plan of the nodes that could be resolved, ids those that the policy
\* gave their provider.
Assembled(styled, nodes, ids, catalog, policy) ==
    [nodes |-> nodes,
     graph |-> [styled EXCEPT !.nodes = [n \in DOMAIN @ |->
                  IF n \in ids THEN [@[n] EXCEPT !.llm_provider = policy] ELSE @[n]]],
     capabilities |-> [h \in {nodes[n].handler : n \in DOMAIN nodes} |-> catalog[h]],
     start |-> CHOOSE n \in DOMAIN nodes : nodes[n].kind = "Start",
     exits |-> {n \in DOMAIN nodes : nodes[n].kind = "Exit"}]

CompileResolved(styled, early, resolved, catalog, policy) ==
    LET nodes == [n \in {m \in DOMAIN resolved : resolved[m].diagnostics = {}} |-> resolved[n].node]
        ids   == {n \in DOMAIN nodes : resolved[n].defaulted}
        diagnostics == early \cup Diagnostics(styled, resolved, nodes)
    IN  IF diagnostics # {} THEN [diagnostics |-> diagnostics]
        ELSE [diagnostics |-> {}, defaulted |-> ids,
              plan |-> Assembled(styled, nodes, ids, catalog, policy)]

CompileStyled(styled, early, catalog, policy) ==
    CompileResolved(styled, early,
        [n \in DOMAIN styled.nodes |-> ResolveNode(n, styled.nodes[n], catalog, policy)],
        catalog, policy)

Compile(graph, catalog, policy) ==
    LET early == AttributeTypes(graph) \cup AliasConflicts(graph)
        sheet == Sheet(graph)
        rules == IF early = {} /\ sheet # None THEN Sheets[sheet] ELSE <<>>
    IN  CompileStyled(ApplyStylesheet(NormalizeAliases(graph), rules),
                      early \cup When(early = {} /\ sheet # None /\ rules = <<>>, "TransformError", NoNodeId),
                      catalog, policy)

\* The executor refuses a plan that its own handlers cannot run.
RegistryCompatible(plan, catalog) ==
    \A h \in DOMAIN plan.capabilities : h \in DOMAIN catalog /\ catalog[h] = plan.capabilities[h]

\* Edges to the fingerprint are in the order of (from, to), then of the file.
FingerprintEdges(plan) ==
    FoldLeft(LAMBDA es, p : es \o SelectSeq(plan.graph.edges, LAMBDA e : <<e.from, e.to>> = p), <<>>,
             FlattenSeq([i \in DOMAIN Ids |-> [j \in DOMAIN Ids |-> <<Ids[i], Ids[j]>>]]))

Dash(value) == IF value = None THEN "-" ELSE value

EdgeLine(e) ==
    <<e.from, e.to, Dash(e.label), Dash(e.condition), e.weight, e.loop_restart, e.reset>>

Fingerprint(plan) ==
    [start |-> plan.start, exits |-> plan.exits, nodes |-> plan.nodes,
     edges |-> [i \in DOMAIN plan.graph.edges |-> EdgeLine(FingerprintEdges(plan)[i])]]

SchemaVersion == 3

\* validate_checkpoint: none of a newer version, and none of another plan; one
\* that a version without fingerprints wrote is accepted.
ValidateCheckpoint(checkpoint, plan) ==
    /\ checkpoint.schema <= SchemaVersion
    /\ checkpoint.fingerprint \in {<<>>, <<Fingerprint(plan)>>}

----------------------------------------------------------------------------
(* The checks of a compiled plan: [rule, severity, owner] *)

Diagnostic(rule, severity, owner) == <<rule, severity, owner>>

IsNode(graph, n) == n \in DOMAIN graph.nodes

RetryKeys == {"retry_target", "fallback_retry_target"}

\* What holds whatever the nodes are.
ValidateNonsemanticStructure(graph) ==
    {Diagnostic("edge_target_exists", "error", e.from)
        : e \in {f \in Range(graph.edges) : ~IsNode(graph, f.to)}}
    \cup {Diagnostic("condition_syntax", "error", e.from)
        : e \in {f \in Range(graph.edges) : f.condition \in BadConditions}}
    \cup {Diagnostic("retry_target_exists", "warning", n)
        : n \in {m \in DOMAIN graph.nodes : \E k \in RetryKeys :
                    LET t == StringAttr(graph.nodes[m].attrs, k) IN t # None /\ ~IsNode(graph, t)}}
    \cup {Diagnostic("goal_gate_has_retry", "warning", n)
        : n \in {m \in DOMAIN graph.nodes : /\ BoolAttr(graph.nodes[m].attrs, "goal_gate")
                                            /\ StringAttr(graph.nodes[m].attrs, "retry_target") = None}}

RetryTargets(graph) ==
    {StringAttr(attrs, k) : k \in RetryKeys,
        attrs \in {graph.attrs} \cup {graph.nodes[n].attrs : n \in DOMAIN graph.nodes}} \ {None}

RECURSIVE ReachableFrom(_, _)
ReachableFrom(graph, visited) ==
    LET next == visited \cup {e.to : e \in {f \in Range(graph.edges) : f.from \in visited}}
    IN  IF next = visited THEN visited ELSE ReachableFrom(graph, next)

ValidatePlanStructure(plan) ==
    LET graph == plan.graph IN
    {Diagnostic("retry_target_not_terminal", "error", t) : t \in RetryTargets(graph) \cap plan.exits}
    \cup {Diagnostic("start_no_incoming", "error", n)
           : n \in {m \in {plan.start} : \E e \in Range(graph.edges) : e.to = m}}
    \cup {Diagnostic("exit_no_outgoing", "error", n)
           : n \in {m \in plan.exits : OutgoingEdges(graph, m) # <<>>}}
    \cup {Diagnostic("reachability", "error", n)
           : n \in DOMAIN plan.nodes \ ReachableFrom(graph, {plan.start})}
    \cup {Diagnostic("prompt_on_llm_nodes", "warning", n)
           : n \in {m \in DOMAIN plan.nodes :
                      /\ plan.nodes[m].handler = "codergen"
                      /\ StringAttr(graph.nodes[m].attrs, "prompt") = None
                      /\ StringAttr(graph.nodes[m].attrs, "label") \in {None, m}}}

ValidatePlan(plan) == ValidateNonsemanticStructure(plan.graph) \cup ValidatePlanStructure(plan)

\* One error per Beads node when bd is not on PATH.
BeadsAvailable(plan, bdFound) ==
    {Diagnostic("beads_available", "error", n)
        : n \in {m \in DOMAIN plan.nodes : ~bdFound /\ plan.nodes[m].handler \in {Select, Close}}}

SemanticRule(kind) ==
    CASE kind = "InvalidAttributeType"  -> "attribute_type"
      [] kind = "InvalidAttributeValue" -> "attribute_value"
      [] kind = "MissingProvider"       -> "provider_required"
      [] kind = "MissingAttribute"      -> "attribute_required"
      [] kind = "UnknownProvider"       -> "provider_valid"
      [] kind \in {"MissingStart", "MultipleStarts"} -> "start_node"
      [] kind \in {"MissingExit", "MultipleExits"}   -> "terminal_node"
      [] kind = "ConflictingRoleSignals"             -> "semantic_conflict"
      [] kind = "ConflictingAttributeAliases"        -> "attribute_alias_conflict"
      [] kind \in {"UnknownShape", "UnknownHandler"} -> "semantic_unknown"
      [] kind = "UnsupportedExecutionTopology"       -> "unsupported_execution_topology"
      [] kind = "UnsupportedExecutionCapability"     -> "unsupported_execution_capability"
      [] OTHER                                       -> "transform"

\* `pas validate`: the checks of the structure even when the compilation fails.
ValidateCompiled(graph, compiled, generated, bdFound) ==
    IF compiled.diagnostics = {}
    THEN ValidatePlan(compiled.plan) \cup BeadsAvailable(compiled.plan, bdFound)
    ELSE ValidateNonsemanticStructure(graph)
         \cup (IF generated.diagnostics = {}
               THEN ValidatePlanStructure(generated.plan) \cup BeadsAvailable(generated.plan, bdFound)
               ELSE {})
         \cup {Diagnostic(SemanticRule(d[1]), "error", d[2]) : d \in compiled.diagnostics}

Validate(graph, bdFound) ==
    ValidateCompiled(graph, Compile(graph, BuiltinCatalog, None),
                     Compile(graph, BuiltinCatalog, "claude"), bdFound)

HasErrors(diagnostics) == \E d \in diagnostics : d[2] = "error"

----------------------------------------------------------------------------
(* Preflight: warnings about a plan in its environment *)

NodesOf(plan, provider) == {n \in DOMAIN plan.nodes : plan.nodes[n].provider = provider}

MissingTimeout(plan) ==
    {n \in DOMAIN plan.nodes : /\ plan.nodes[n].handler = "codergen"
                               /\ Timeout(plan.graph.nodes[n].attrs) = <<>>}

\* namesSkills: the Run names skills; bare: Claude runs in subscription_bare.
Preflight(plan, hasManifest, namesSkills, bare) ==
    {<<"CODERGEN_NO_TIMEOUT", n>> : n \in MissingTimeout(plan)}
    \cup {<<"PROVIDER_COST_UNTRACKED", p>> : p \in {q \in {"codex", "gemini"} : NodesOf(plan, q) # {}}}
    \cup {<<"CODERGEN_SKILLS_NOT_LOADED", p>>
           : p \in {q \in {"codex", "gemini"} \cup (IF bare THEN {"claude"} ELSE {})
                      : namesSkills /\ NodesOf(plan, q) # {}}}
    \cup (IF ~hasManifest /\ \E n \in DOMAIN plan.nodes : plan.nodes[n].kind = "Quality"
          THEN {<<"QUALITY_NO_MANIFEST", None>>} ELSE {})

----------------------------------------------------------------------------
(* Generated files *)

\* Where a node is written: in the last subgraph that has it, else at the top.
OwnerOf(dot, n) ==
    LET owners == {i \in DOMAIN dot.subgraphs : n \in DOMAIN dot.subgraphs[i].nodes}
    IN  IF owners = {} THEN 0 ELSE CHOOSE i \in owners : \A j \in owners : j <= i

WithProvider(def, value) ==
    [attrs |-> ("llm_provider" :> Str(value)) @@ def.attrs,
     authored |-> ("llm_provider" :> Str(value)) @@ def.authored]

\* A version that looks at the top level first.
FillNodeTopFirst(dot, n, provider) ==
    IF n \in DOMAIN dot.nodes THEN [dot EXCEPT !.nodes[n] = WithProvider(@, provider)]
    ELSE [dot EXCEPT !.subgraphs[OwnerOf(dot, n)].nodes[n] = WithProvider(@, provider)]

FillNode(dot, n, provider) ==
    IF OwnerOf(dot, n) = 0 THEN [dot EXCEPT !.nodes[n] = WithProvider(@, provider)]
    ELSE [dot EXCEPT !.subgraphs[OwnerOf(dot, n)].nodes[n] = WithProvider(@, provider)]

\* fill_missing_llm_providers; pi is never a default.
FillNodes(dot, compiled, provider) ==
    IF provider \in {None, "pi"} \/ compiled.diagnostics # {} THEN dot
    ELSE FoldLeft(LAMBDA d, n : FillNode(d, n, provider), dot, InOrder(compiled.defaulted))

FillMissing(dot, value) ==
    FillNodes(dot, Compile(FromDot(dot), BuiltinCatalog, ParseProvider(value)), ParseProvider(value))
=============================================================================
