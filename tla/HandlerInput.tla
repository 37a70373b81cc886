----------------------------- MODULE HandlerInput -----------------------------
(***************************************************************************)
(* The workflow context around a handler: what the handler is given, and   *)
(* how what it does to its copy, or returns, reaches the live context      *)
(* (handler.rs, engine.rs, attractor-types/src/context.rs).  Callers of    *)
(* the library that predate RunConfiguration keep the controls of a Run in *)
(* the context, under reserved keys, and two readers take them out again.  *)
(*                                                                         *)
(* A context maps keys to <<type, value>>; a string that is read as a list *)
(* has the list as its value.                                              *)
(***************************************************************************)
EXTENDS ProviderCommand

Without(context, keys) == [k \in DOMAIN context \ keys |-> context[k]]

Workflow(context) == Without(context, ReservedKeys)

----------------------------------------------------------------------------
(* Reading controls: an optional value                                      *)

Read(context, key, type) ==
    IF key \in DOMAIN context /\ context[key][1] = type THEN <<context[key][2]>> ELSE <<>>

TextKey ==
    [settings |-> "codergen.claude.settings", tools |-> "codergen.claude.tools",
     agents |-> "codergen.claude.agents", mcp_config |-> "codergen.claude.mcp_config"]

\* legacy_options of the engine: sources in a string, directories in an array.
LegacyClaude(context) ==
    [settings_mode   |-> Read(context, "codergen.claude.settings_mode", "string"),
     setting_sources |-> Read(context, "codergen.claude.setting_sources", "string"),
     plugin_dirs     |-> Read(context, "codergen.claude.plugin_dirs", "array"),
     texts           |-> [t \in ClaudeTexts |-> Read(context, TextKey[t], "string")]]

LegacyOptions(context) ==
    [dry_run |-> Read(context, "dry_run", "boolean"), max_steps |-> Read(context, "max_steps", "integer"),
     max_budget_usd |-> Read(context, "max_budget_usd", "number"),
     workdir |-> Read(context, "workdir", "string")[1],
     max_fix |-> Read(context, "quality_max_fix_iterations", "integer"),
     claude |-> LegacyClaude(context), skills |-> <<>>, pi_extensions |-> <<>>, pi_prompt_templates |-> <<>>]

\* string_list_from_value of the codergen handler: a list in either form.
StringList(context, key) == Read(context, key, "string") \o Read(context, key, "array")

ContextOverrides(context) ==
    [LegacyClaude(context) EXCEPT
        !.setting_sources = StringList(context, "codergen.claude.setting_sources"),
        !.plugin_dirs     = StringList(context, "codergen.claude.plugin_dirs")]

\* The compatibility path of the handler (execute_resolved).
ResolvedFor(world, context) ==
    ResolveClaudeCliConfig(world, Read(context, "workdir", "string")[1], ContextOverrides(context))

----------------------------------------------------------------------------
(* What a handler does to the context it is given: it sets and removes keys *)

Direct(context, acts) ==
    FoldLeft(LAMBDA c, act : IF act[1] = "set" THEN (act[2] :> act[3]) @@ c ELSE Without(c, {act[2]}),
             context, acts)

\* DynHandler::execute_configured: the handler works on a copy; what it set
\* becomes part of its outcome, what it removed goes at once, reserved keys
\* excepted.
ExecuteConfigured(live, acts, result) ==
    LET after   == Direct(live, acts)
        removed == DOMAIN live \ (DOMAIN after \cup ReservedKeys)
        changed == {k \in DOMAIN after : k \notin DOMAIN live \/ live[k] # after[k]}
    IN  [live |-> Without(live, removed), updates |-> result @@ [k \in changed |-> after[k]]]

\* apply_handler_updates: an outcome that writes a reserved key is refused.
ApplyHandlerUpdates(live, updates) ==
    IF DOMAIN updates \cap ReservedKeys # {} THEN <<>> ELSE <<updates @@ live>>
=============================================================================
