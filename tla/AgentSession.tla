---------------------------- MODULE AgentSession ----------------------------
(***************************************************************************)
(* AgentSession: process_input, its rounds of an LLM call and tool calls,  *)
(* steering, follow-ups and the loop detector, over the LLM client and the *)
(* built-in tools.  The session is used by one task (&mut self): steer and *)
(* follow_up are called between inputs, and by the session itself.         *)
(***************************************************************************)
EXTENDS AgentTools

CONSTANTS
    Sessions,   \* configurations: [maxTurns, maxRounds, window, registered,
                \* model, confined], with what its model and its user may do: calls,
                \* and bounds on the calls of one answer and on the messages
    Root,       \* the working directory, a path
    Files,      \* the file system at the start
    Statuses,   \* HTTP statuses of answers that fail; 0 is no answer
    Runs,       \* what a shell command may do
    Rounds      \* bound: answers with tool calls, over all inputs

(* What the model of a session may answer: a text, or calls.               *)
Bodies(c) ==
    {[stop |-> "completed", usage |-> None, blocks |-> <<[type |-> "text", text |-> "answer"]>>]}
      \cup {[stop |-> "tool_use", usage |-> [input |-> 1, output |-> 1],
             blocks |-> [i \in DOMAIN cs |-> [type |-> "call", name |-> cs[i].tool, args |-> cs[i]]]] :
               cs \in UNION {[1 .. n -> c.calls] : n \in 1 .. c.batch}}

\* What the constants are; an assumption of the modules that check this one.
SessionAssumption ==
    /\ Rounds \in Nat
    /\ \A c \in Sessions :
         /\ {c.maxTurns, c.maxRounds, c.window, c.batch, c.messages} \subseteq Nat
         /\ c.confined \in BOOLEAN /\ c.registered \subseteq Adapters /\ None \notin Bodies(c)

\* Files, and what edits and writes are called with, are lines of text; likewise.
TextAssumption(Line) ==
    /\ \A p \in DOMAIN Files : Files[p].kind = "file" => Files[p].lines \in Seq(Line)
    /\ \A c \in Sessions : \A a \in c.calls :
         /\ a.tool = "write_file" => a.content \in Seq(Line)
         /\ a.tool = "edit_file" => {a.old, a.new} \subseteq Seq(Line) /\ a.all \in BOOLEAN

VARIABLES
    config,     \* SessionConfig, LlmClient and environment
    pc,         \* "idle", "request", "tools", "done"; "panicked" is the end of the process
    state,      \* SessionState
    history,    \* the turns
    steering,   \* steering_queue
    followups,  \* followup_queue
    turns,      \* user_turn_count
    recent,     \* LoopDetector::recent_calls
    round,      \* of the current input
    pending,    \* tool calls of the last answer, not yet executed
    results,    \* of those that were
    fs,         \* files
    tracked,    \* CostTrackingMiddleware
    asked,      \* LLM calls so far
    submitted,  \* messages handed to the session, in order
    outcome     \* what the last process_input returned

vars == <<config, pc, state, history, steering, followups, turns, recent, round, pending,
          results, fs, tracked, asked, submitted, outcome>>
queues == <<steering, followups, submitted>>
toolVars == <<recent, pending, results, fs>>

User(m) == [kind |-> "user", text |-> m]
Assistant(r) == [kind |-> "assistant", text |-> r.text, calls |-> r.calls]
Steering(m) == [kind |-> "steering", text |-> m]
ToolResults(rs) == [kind |-> "results", results |-> rs]

Init ==
    /\ config \in Sessions
    /\ pc = "idle" /\ state = "Idle"
    /\ history = <<>> /\ steering = <<>> /\ followups = <<>>
    /\ turns = 0 /\ recent = <<>> /\ round = 0 /\ pending = <<>> /\ results = <<>>
    /\ fs = Files /\ tracked = [input |-> 0, output |-> 0] /\ asked = 0
    /\ submitted = <<>> /\ outcome = None

----------------------------------------------------------------------------
(* build_request.                                                          *)
TurnMessages(t) ==
    CASE t.kind = "user" -> <<UserMessage(t.text)>>
      [] t.kind = "assistant" -> <<AssistantMessage(t.text, t.calls)>>
      [] t.kind = "steering" -> <<SystemMessage(t.text)>>
      [] t.kind = "results" -> [i \in DOMAIN t.results |-> ToolMessage(t.results[i])]

BuildRequest ==
    Request(config.model,
            <<SystemMessage("system_prompt")>> \o FlattenSeq([i \in DOMAIN history |-> TurnMessages(history[i])]),
            Profile(config.model))

(* drain_steering after the turns given.                                   *)
Drained(h, queue) == h \o [i \in DOMAIN queue |-> Steering(queue[i])]

(* What process_single_input does first.  The turn is counted also when it *)
(* is refused; a refusal leaves the state as it was.  Without rounds the   *)
(* input ends here.                                                        *)
StartInput(m) ==
    /\ turns' = turns + 1
    /\ IF config.maxTurns > 0 /\ turns + 1 > config.maxTurns
       THEN /\ pc' = "idle" /\ outcome' = "turn_limit"
            /\ UNCHANGED <<state, history, steering, round>>
       ELSE /\ state' = IF config.maxRounds = 0 THEN "AwaitingInput" ELSE "Processing"
            /\ history' = Drained(Append(history, User(m)), steering) /\ steering' = <<>>
            /\ round' = 0 /\ outcome' = None
            /\ pc' = IF config.maxRounds = 0 THEN "done" ELSE "request"

----------------------------------------------------------------------------
NewMessage == Len(submitted) + 1
Loop == 0       \* SteeringInjector::loop_detected_message; the others are numbered from 1

Steer ==
    /\ pc = "idle" /\ Len(submitted) < config.messages
    /\ steering' = Append(steering, NewMessage)
    /\ submitted' = Append(submitted, "steer")
    /\ UNCHANGED <<config, pc, state, history, followups, turns, toolVars, round, tracked, asked, outcome>>

FollowUp ==
    /\ pc = "idle" /\ Len(submitted) < config.messages
    /\ followups' = Append(followups, NewMessage)
    /\ submitted' = Append(submitted, "follow_up")
    /\ UNCHANGED <<config, pc, state, history, steering, turns, toolVars, round, tracked, asked, outcome>>

ProcessInput ==
    /\ pc = "idle" /\ Len(submitted) < config.messages
    /\ submitted' = Append(submitted, "input")
    /\ StartInput(NewMessage)
    /\ UNCHANGED <<config, followups, toolVars, tracked, asked>>

Failures ==
    {Complete(adapter, [status |-> status, body |-> body], 0) :
        adapter \in ResolveProvider(BuildRequest, config.registered), status \in Statuses, body \in {None, NoCandidates}}

(* LlmClient::complete fails: `?` leaves process_input where it is.        *)
LlmFails ==
    /\ pc = "request"
    /\ \/ /\ ResolveProvider(BuildRequest, config.registered) = {}
          /\ outcome' = "no_provider"
       \/ \E failure \in {f \in Failures : f.error # None} : outcome' = failure.error
    /\ pc' = "idle" /\ asked' = asked + 1
    /\ UNCHANGED <<config, state, history, queues, turns, toolVars, round, tracked>>

(* The answer of a round: without calls, or in the last round, the input   *)
(* is done; the calls of the last round are not executed.                  *)
LlmAnswers ==
    /\ pc = "request"
    /\ \E adapter \in ResolveProvider(BuildRequest, config.registered), body \in Bodies(config) :
          LET r == Complete(adapter, [status |-> 200, body |-> body], 10 * asked)
          IN  /\ r.calls # <<>> => asked < Rounds
              /\ history' = Append(history, Assistant(r))
              /\ tracked' = Tracked(tracked, r)
              /\ IF r.calls = <<>> \/ round + 1 >= config.maxRounds
                 THEN pc' = "done" /\ state' = "AwaitingInput" /\ UNCHANGED pending
                 ELSE pc' = "tools" /\ pending' = r.calls /\ UNCHANGED state
    /\ asked' = asked + 1 /\ results' = <<>>
    /\ UNCHANGED <<config, queues, turns, recent, round, fs, outcome>>

----------------------------------------------------------------------------
(* LoopDetector::record_and_check, and reset by the session.               *)
Signature(c) == c.args
IsLoop(calls) ==
    config.window > 0 /\ Len(calls) >= config.window /\ \A i \in DOMAIN calls : calls[i] = calls[1]

Record(c) ==
    LET longer == Append(recent, Signature(c))
    IN  IF Len(longer) > config.window THEN Tail(longer) ELSE longer

Lines(p) == IF p # None /\ p \in DOMAIN fs /\ fs[p].kind = "file" THEN fs[p].lines ELSE None
WithFile(p, lines) == [q \in DOMAIN fs \cup {p} |-> IF q = p THEN [kind |-> "file", lines |-> lines] ELSE fs[q]]

(* A built-in tool with the arguments of a call: its result, and the files *)
(* after it.                                                               *)
Target(a) ==
    IF a.tool \notin {"read_file", "write_file", "edit_file"} THEN None
    ELSE Resolve(fs, Root, config.confined, a.path,
                 IF a.tool = "write_file" THEN "may_not_exist" ELSE "existing")

RunTool(a, p, lines, run) ==
    CASE a.tool = "read_file" -> [result |-> ReadFile(lines, a.offset, a.limit), fs |-> fs]
      [] a.tool = "write_file" ->
            IF p = None \/ (p \in DOMAIN fs /\ fs[p].kind = "dir") THEN [result |-> Failed(lines), fs |-> fs]
            ELSE [result |-> WriteFile(lines, a.content), fs |-> WithFile(p, a.content)]
      [] a.tool = "edit_file" ->
            LET r == EditFile(lines, a.old, a.new, a.all)
            IN  [result |-> r, fs |-> IF r.kind = "ok" THEN WithFile(p, r.file) ELSE fs]
      [] a.tool = "shell" -> [result |-> Shell(None, run), fs |-> fs]
      [] OTHER -> [result |-> Failed(None), fs |-> fs]     \* "Unknown tool"

(* One call: the detector first, which may queue a steering message; then  *)
(* the tool, whose errors become results of the call.                      *)
ExecuteCall ==
    /\ pc = "tools" /\ pending # <<>>
    /\ LET c == pending[1]
           looped == IsLoop(Record(c))
       IN  /\ recent' = IF looped THEN <<>> ELSE Record(c)
           /\ steering' = IF looped THEN Append(steering, Loop) ELSE steering
           /\ \E p \in {Target(c.args)}, run \in Runs : \E ran \in {RunTool(c.args, p, Lines(p), run)} :
                \E cut \in {Cap(ran.result.output)} :
                LET dead == "panic" \in {ran.result.kind, cut.kind}
                IN  /\ fs' = ran.fs
                    /\ pc' = IF dead THEN "panicked" ELSE pc
                    /\ results' = IF dead THEN results
                                  ELSE Append(results, [id |-> c.id, name |-> c.name, error |-> ran.result.kind # "ok"])
           /\ pending' = Tail(pending)
    /\ UNCHANGED <<config, state, history, followups, turns, round, tracked, asked, submitted, outcome>>

(* A version: what was queued during the round waits for the next input. *)
EndRoundUndrained ==
    /\ pc = "tools" /\ pending = <<>>
    /\ history' = Append(history, ToolResults(results))
    /\ round' = round + 1 /\ pc' = "request"
    /\ UNCHANGED <<config, state, queues, turns, toolVars, tracked, asked, outcome>>

EndRound ==
    /\ pc = "tools" /\ pending = <<>>
    /\ history' = Drained(Append(history, ToolResults(results)), steering) /\ steering' = <<>>
    /\ round' = round + 1 /\ pc' = "request"
    /\ UNCHANGED <<config, state, followups, turns, toolVars, tracked, asked, submitted, outcome>>

(* process_input after an input: the next follow-up, or idle.              *)
EndInput ==
    /\ pc = "done"
    /\ IF followups # <<>>
       THEN StartInput(followups[1]) /\ followups' = Tail(followups)
       ELSE /\ pc' = "idle" /\ state' = "Idle" /\ outcome' = "answered"
            /\ UNCHANGED <<history, steering, turns, round, followups>>
    /\ UNCHANGED <<config, toolVars, tracked, asked, submitted>>

Session == LlmFails \/ LlmAnswers \/ ExecuteCall \/ EndRound \/ EndInput
Next == Steer \/ FollowUp \/ ProcessInput \/ Session

Spec == Init /\ [][Next]_vars

----------------------------------------------------------------------------
TypeOK ==
    /\ pc \in {"idle", "request", "tools", "done", "panicked"}
    /\ state \in {"Idle", "Processing", "AwaitingInput"}
    /\ pc \in {"request", "tools"} => state = "Processing"
    /\ pc = "done" => state = "AwaitingInput"
    /\ Len(recent) <= config.window /\ round <= config.maxRounds
    /\ DOMAIN Files \subseteq DOMAIN fs

(* A provider accepts a result only for a call of the assistant message it *)
(* answers.  Whatever was steered, refused, cut off or failed before, each *)
(* result sent to Anthropic and OpenAI names a call of the last assistant  *)
(* message before it, and results are all of them, in order, before        *)
(* anything else is said to Anthropic.                                     *)
AssistantAt(w, i) ==
    {k \in 1 .. i - 1 : w[k].role \in {"assistant", "model"} /\ \A j \in k + 1 .. i - 1 : w[j].role # w[k].role}
RefsOf(m, type) == LET ps == PartsOf(m, type) IN [j \in DOMAIN ps |-> ps[j].ref]

ResultsMatchCalls ==
    pc = "request" => \A adapter \in ResolveProvider(BuildRequest, config.registered) \ {"google"} :
        LET w == Wire(adapter, BuildRequest).messages
        IN  \A i \in DOMAIN w :
              LET refs == RefsOf(w[i], "result")
              IN  /\ refs # <<>> => \E k \in AssistantAt(w, i) : ToSet(refs) \subseteq ToSet(RefsOf(w[k], "call"))
                  /\ refs # <<>> /\ adapter = "anthropic" =>
                        w[i - 1].role = "assistant" /\ refs = RefsOf(w[i - 1], "call")

(* "The actual function/tool name, required by some providers (e.g. Gemini *)
(* `functionResponse.name`)" (types.rs:52): what the Gemini adapter sends  *)
(* is the id.                                                              *)
GeminiNamesTheFunction ==
    pc = "request" => \A adapter \in ResolveProvider(BuildRequest, config.registered) \cap {"google"} :
        LET w == Wire(adapter, BuildRequest).messages
        IN  \A i \in DOMAIN w : RefsOf(w[i], "result") # <<>> =>
              \E k \in AssistantAt(w, i) : ToSet(RefsOf(w[i], "result")) \subseteq ToSet(RefsOf(w[k], "call"))

(* Messages handed to the session are neither lost, repeated nor reordered *)
(* by rounds, errors and panics: a steering message is in the history or   *)
(* waits, and so is an input or follow-up, unless the turn limit refused   *)
(* it; each kind in the order it was given.                                *)
MessagesIn(h, kind) == {i \in DOMAIN h : h[i].kind = kind /\ h[i].text # Loop}
Increasing(h, places) == \A i, j \in places : i < j => h[i].text < h[j].text
Given(kinds) == {i \in DOMAIN submitted : submitted[i] \in kinds}
Refused == IF config.maxTurns > 0 /\ turns > config.maxTurns THEN turns - config.maxTurns ELSE 0

MessagesAreKept ==
    LET told       == Drained(history, steering)
        steered    == MessagesIn(told, "steering")
        promised   == history \o [i \in DOMAIN followups |-> User(followups[i])]
        asFollowUp == {i \in MessagesIn(promised, "user") : submitted[promised[i].text] = "follow_up"}
    IN  /\ Increasing(told, steered) /\ {told[i].text : i \in steered} = Given({"steer"})
        /\ Increasing(promised, asFollowUp)
        /\ Cardinality(MessagesIn(history, "user")) + Len(followups) + Refused
             = Cardinality(Given({"input", "follow_up"}))

(* Steering reaches the model at the next request, never later.            *)
SteeringIsPrompt == pc = "request" => steering = <<>>

(* The detector against its purpose: however calls are batched into        *)
(* rounds, and over several inputs, a warning is given exactly each time   *)
(* as many identical calls in a row have been made as the window says,     *)
(* counted from the last warning.  A call is at <<turn, number>>.          *)
Executed(i) ==
    IF history[i].kind # "assistant" THEN 0
    ELSE IF i < Len(history) THEN IF history[i + 1].kind = "results" THEN Len(history[i].calls) ELSE 0
    ELSE IF pc \in {"tools", "panicked"} THEN Len(history[i].calls) - Len(pending) ELSE 0
Called == UNION {{i} \X (1 .. Executed(i)) : i \in DOMAIN history}
CallAt(c) == history[c[1]].calls[c[2]].args
Upto(c, d) == c[1] < d[1] \/ (c[1] = d[1] /\ c[2] <= d[2])
InARow(c) == {b \in Called : Upto(b, c) /\ \A a \in Called : Upto(b, a) /\ Upto(a, c) => CallAt(a) = CallAt(c)}

LoopsAreSteered ==
    LET warnings == {i \in DOMAIN history : history[i].kind = "steering" /\ history[i].text = Loop}
        waiting  == {i \in DOMAIN steering : steering[i] = Loop}
        due      == {c \in Called : config.window > 0 /\ Cardinality(InARow(c)) % config.window = 0}
    IN  Cardinality(warnings) + Cardinality(waiting) = Cardinality(due)

(* "Filesystem-tool access confined to one canonical project root"         *)
(* (local_env.rs:116): no tool of a confined session but the shell changes *)
(* or creates a file outside, by whatever absolute path, parent or link.   *)
WriteInside ==
    config.confined => \A p \in DOMAIN fs' :
          ~StartsWith(p, Root) => p \in DOMAIN fs /\ fs'[p] = fs[p]

(* "Edit a file by replacing an exact string with a new string."           *)
(* (edit_file.rs:16): one occurrence, if not all were asked for, and then  *)
(* there was no second one apart from it.                                  *)
ExactEdit ==
    \A p \in DOMAIN fs : pc = "tools" /\ pending # <<>> /\ fs'[p] # fs[p] /\ pending[1].args.tool = "edit_file"
          /\ ~pending[1].args.all =>
          LET a == pending[1].args
              splits == {i \in 1 .. Len(fs[p].lines) - Len(a.old) + 1 : SubSeq(fs[p].lines, i, i + Len(a.old) - 1) = a.old}
          IN  /\ \E i \in splits : fs'[p].lines = SubSeq(fs[p].lines, 1, i - 1) \o a.new
                                                  \o SubSeq(fs[p].lines, i + Len(a.old), Len(fs[p].lines))
              /\ \A i, j \in splits : i < j => j < i + Len(a.old)

(* Only a read past the end and an output cut inside a character end the   *)
(* process; every other failure of a tool is an answer to the model.       *)
ToolErrorsAreAnswers == pc # "panicked"
=============================================================================
