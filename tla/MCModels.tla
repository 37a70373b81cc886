------------------------------ MODULE MCModels ------------------------------
(***************************************************************************)
(* The two ways to a model, in scenarios of their own: a node that starts  *)
(* the command of a provider (Provider) and the session of the library     *)
(* that calls a provider's interface itself (AgentSession).  The other one *)
(* stays where it starts.                                                  *)
(***************************************************************************)
EXTENDS Provider

CONSTANTS ToolMax, AgentMax, Marker, Sessions, Root, Files, Statuses, Runs, Rounds

VARIABLES
    scenario,
    config, sessionPc, state, history, steering, followups, turns, recent, round, pending,
    results, fs, tracked, asked, submitted, outcome

A == INSTANCE AgentSession WITH pc <- sessionPc

ASSUME SessionsAreTyped == A!SessionAssumption
ASSUME LinesAreText == A!TextAssumption(STRING)

----------------------------------------------------------------------------
(* Every kind of node that starts processes, and short outputs of every    *)
(* provider: an answer, an error, noise, and where the provider reports it *)
(* a cost.                                                                 *)
Job(handler, provider, deadline, budget, journaled, allow, skip) ==
    [handler |-> handler, provider |-> provider, deadline |-> deadline, budget |-> budget,
     journaled |-> journaled, allow |-> allow, skip |-> skip]

MCJobs ==
    {Job("codergen", p, TRUE, None, TRUE, <<FALSE>>, FALSE) : p \in Providers}
      \cup {Job("codergen", "gemini", FALSE, None, TRUE, <<FALSE>>, FALSE)}
      \cup {Job("codergen", "pi", TRUE, b, TRUE, <<FALSE>>, FALSE) : b \in 0 .. 1}
      \cup {Job("codergen", "claude", FALSE, None, FALSE, <<FALSE>>, s) : s \in BOOLEAN}
      \cup {Job("tool", None, d, None, TRUE, <<FALSE>>, FALSE) : d \in BOOLEAN}
      \cup {Job("quality", None, d, None, TRUE, <<a, FALSE>>, FALSE) : d \in BOOLEAN, a \in BOOLEAN}

Noise == [t |-> "text"]
PiMessage(stop, cost) == [t |-> "message_end", stop |-> stop, cost |-> cost, tokens |-> 1,
                          model |-> "m", text |-> <<"a">>]

MCOutput ==
    [claude |-> {[t |-> "init", model |-> "m"],
                 [t |-> "result", error |-> FALSE, text |-> <<"a">>, cost |-> 1, models |-> [m |-> 1, n |-> 2]],
                 [t |-> "result", error |-> TRUE, text |-> <<"b">>, cost |-> 1, tokens |-> 1]},
     codex  |-> {Noise, [t |-> "agent_message", text |-> <<"a">>],
                 [t |-> "turn.completed", tokens |-> 1], [t |-> "turn.failed", text |-> <<>>]},
     gemini |-> {[t |-> "object", error |-> FALSE, text |-> <<"a">>, models |-> [m |-> 0], tokens |-> 0],
                 [t |-> "result", error |-> FALSE, models |-> [m |-> 1], tokens |-> 1, text |-> <<>>],
                 [t |-> "result", error |-> TRUE, models |-> <<>>, tokens |-> None, text |-> <<"b">>]},
     pi     |-> {PiMessage("stop", 1), PiMessage("stop", None), PiMessage("error", None),
                  [t |-> "agent_end"]}]

(* Sessions with one concern each: the turn limit and the queues, the loop *)
(* detector, every provider, every tool, and the confined environment.     *)
OneFile == <<"r", "f">>
MCRoot == <<"r">>
Entry(kind, lines, to) == [kind |-> kind, lines |-> lines, to |-> to]
MCFiles ==
    (MCRoot :> Entry("dir", <<>>, <<>>)) @@ (OneFile :> Entry("file", <<"a", "b", "a", "a">>, <<>>))
      @@ (<<"r", "l">> :> Entry("link", <<>>, <<"o">>)) @@ (<<"r", "d">> :> Entry("link", <<>>, <<"x">>))
      @@ (<<"o">> :> Entry("file", <<"a">>, <<>>)) @@ (<<"x">> :> Entry("dir", <<>>, <<>>))

Rel(names) == [absolute |-> FALSE, names |-> names]
Abs(names) == [absolute |-> TRUE, names |-> names]
Read(path, offset, limit) == [tool |-> "read_file", path |-> path, offset |-> offset, limit |-> limit]
Write(path) == [tool |-> "write_file", path |-> path, content |-> <<"b">>]
Edit(path, old, new, all) ==
    [tool |-> "edit_file", path |-> path, old |-> old, new |-> new, all |-> all]
ShellCall == [tool |-> "shell"]
Unknown == [tool |-> "unknown"]

Reads == {Read(Rel(<<"f">>), 2, 2), Read(Rel(<<"f">>), 5, 1), Read(Rel(<<"f">>), 6, 1)}
Edits == {Edit(Rel(<<"f">>), old, <<"b">>, all) : old \in {<<"a">>, <<"b">>, <<"a", "a">>, <<>>}, all \in BOOLEAN}
Paths == {Rel(<<"f">>), Rel(<<"l">>), Rel(<<"n">>), Rel(<<"d", "n">>), Rel(<<"..", "o">>), Abs(<<"o">>),
          Abs(OneFile), Abs(<<"r", "n", "m">>)}

Conf(maxTurns, maxRounds, window, registered, model) ==
    [maxTurns |-> maxTurns, maxRounds |-> maxRounds, window |-> window, registered |-> registered,
     model |-> model, confined |-> FALSE, calls |-> {Unknown}, batch |-> 1, messages |-> 3]
With(c, calls, batch, messages) == [c EXCEPT !.calls = calls, !.batch = batch, !.messages = messages]
Confined(c) == [c EXCEPT !.confined = TRUE]

MCSessions ==
    {Conf(t, r, 2, {"anthropic"}, "o1") : t \in {0, 1, 2}, r \in {0, 2}}
      \cup {With(Conf(0, 4, w, {"openai"}, "o1"), {Unknown, Read(Rel(<<"f">>), 2, 2)}, 2, 2) : w \in 0 .. 3}
      \cup {With(Conf(0, 3, 0, rs, "gemini-2.5-pro"), {Unknown}, 2, 2) :
                rs \in {{}, {"anthropic", "openai"}, {"openai", "google"}}}
      \cup {With(Conf(0, 3, 0, {"anthropic"}, "o1"), Edits, 1, 1),
             With(Conf(0, 3, 0, {"anthropic"}, "o1"), Reads \cup {ShellCall, Write(Rel(<<"f">>))}, 1, 1)}
      \cup {With(Confined(Conf(0, 2, 0, {"anthropic"}, "o1")),
                  {Write(p) : p \in Paths} \cup {Edit(p, <<"a">>, <<>>, TRUE) : p \in Paths}, 1, 1)}

MCRuns == {[outcome |-> "not_started", printed |-> <<>>], [outcome |-> "timeout", printed |-> <<>>]}
            \cup {[outcome |-> "exit", printed |-> p] :
                     p \in {<<1>>, <<1, 1, 1, 1, 1, 1, 1>>, <<2, 2, 2, 1>>, <<1, 2, 2, 2>>}}

----------------------------------------------------------------------------
session == <<config, sessionPc, state, history, steering, followups, turns, recent, round, pending,
             results, fs, tracked, asked, submitted, outcome>>
all == <<scenario, vars, session>>

ModelsInit ==
    /\ scenario \in {"node", "session"}
    /\ Init /\ A!Init
    /\ scenario = "node" => config = CHOOSE c \in Sessions : TRUE
    /\ scenario = "session" => job = CHOOSE j \in Jobs : TRUE

ModelsNext ==
    \/ scenario = "node" /\ Next /\ UNCHANGED <<scenario, session>>
    \/ scenario = "session" /\ A!Next /\ UNCHANGED <<scenario, vars>>

InNode(Action) == scenario = "node" /\ Action /\ UNCHANGED <<scenario, session>>

ModelsSpec ==
    /\ ModelsInit /\ [][ModelsNext]_all
    /\ WF_all(InNode(Handler)) /\ WF_all(InNode(Timers))

----------------------------------------------------------------------------
\* Every attempt of a node ends (Provider, AttemptEnds).
NodesEnd == scenario = "node" => AttemptEnds

\* The session's variables have their types.
SessionTypeOK == A!TypeOK

\* A result sent to a provider answers a call of the message before it
\* (session.rs build_request and the adapters' build_request_body).
ResultsMatchCalls == scenario = "session" => A!ResultsMatchCalls

\* Inputs, follow-ups and steering messages are neither lost, repeated nor
\* reordered, but for follow-ups beyond the turn limit (session.rs process_input).
MessagesAreKept == scenario = "session" => A!MessagesAreKept

\* Steering reaches the model with the next request (session.rs drain_steering).
SteeringIsPrompt == A!SteeringIsPrompt

\* A warning for every window of identical calls (loop_detector.rs).
LoopsAreSteered == scenario = "session" => A!LoopsAreSteered

\* No tool of a confined session but the shell writes outside the root
\* (local_env.rs resolve_confined).
WritesStayInside == [][scenario = "session" => A!WriteInside]_all

\* edit_file replaces the one occurrence it was given (edit_file.rs).
EditIsExact == [][scenario = "session" => A!ExactEdit]_all

\* Queues, limits and warnings leave the conversation whole: every result
\* next to its call, every message there once, warnings in time
\* (session.rs process_input, build_request).
ConversationIsKept ==
    /\ SessionTypeOK
    /\ ResultsMatchCalls
    /\ MessagesAreKept
    /\ SteeringIsPrompt
    /\ LoopsAreSteered

\* A confined tool stays inside its root and changes what it was told to.
ToolsStayAtTheirTask == WritesStayInside /\ EditIsExact
=============================================================================
