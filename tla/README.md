# A TLA+ development of PAS

PAS (`pas`, the repository's Rust workspace) runs *Pipelines*: directed graphs in a DOT dialect whose nodes call
coding agents, shell commands, quality checks, people and a task tracker. A Run may take hours, is killed and resumed,
is watched by other processes, and must never lose what it did or do it twice. This directory holds TLA+ modules that
are read off the source, the TLC configurations that check them on small instances, and TLAPS proofs for every value of
the constants.

All source paths below are relative to `src/`; `pipeline/` abbreviates `crates/attractor-pipeline/src/`, `journal/`
`crates/attractor-journal/src/`, `cli/` `crates/attractor-cli/src/commands/` and `monitor/` `crates/attractor-monitor/src/`.

## 1. The system

### 1.1 Components and the state they keep

| Component | State | Operations | Modules |
|---|---|---|---|
| Edge selection (`pipeline/edge_selection.rs`, `condition.rs`) | none | `select_edge`: conditions, preferred label, suggested ids, fallback; weight and lexical tie-breaks | `EdgeSelection` |
| Executor (`pipeline/engine.rs`, `goal_gate.rs`, `checkpoint.rs`, `handler.rs`) | locals of `run_inner`, `checkpoint.json` | resume, stop, budget, goal gates, attempts, save before every attempt, completion, edge, save, clear | `Engine`, `HandlerInput` |
| Run Journal (`journal/writer.rs`, `reader.rs`, `event.rs`) | `events.jsonl`, `next_seq`; a follower's position | open and repair, append, sync; `read_all`, `tail` | `EventLog`, `Journal` |
| Run lifecycle (`cli/run.rs`, `run_lock.rs`, `stop.rs`, `kill.rs`; `journal/status.rs`, `index.rs`) | `run.lock`, `pas-run.lock`, `run.json`, the Run Index, `control/stop` | lock, decide which Run this is, record Run and Attempt, heartbeat, end; derive a status; stop; kill | `RunLifecycle` |
| Directory runs and resources (`cli/run.rs`, `pipeline/agent_resources.rs`, `provider_readiness.rs`) | batch manifest, the copy of the skills | sweep, trust and readiness, copy and swap, the Pipelines in order | `Batch` |
| Human gates (`pipeline/handlers/wait_human.rs`, `interviewer.rs`; `journal/answer.rs`; `cli/answer.rs`) | question Events, `answers/<id>.json` | choose a question id, ask, poll the file, read the terminal, `pas answer` | `HumanGate` |
| Beads Tasks (`pipeline/handlers/beads.rs`, `beads_adapter.rs`, `run_commits.rs`) | the tracker's statuses, commits in the journal | `beads.select`, `beads.close`, commits made per attempt | `Tasks` |
| Codergen, quality and tool handlers (`pipeline/handlers/codergen_*.rs`, `quality_handler.rs`, `provider_stream.rs`, `process_group.rs`) | a process group, its pipes, a transcript | command line, start, stream, time out, budget, kill, account | `Provider`, `ProviderOutput`, `ProviderCommand` |
| pas.toml and its trust (`crates/attractor-quality`, `cli/init.rs`) | the trust store, one file per repository | find, init, trust, untrust, hash and compare | `Trust`, `RunConfiguration` |
| Plan and configuration (`execution_plan.rs`, `validation.rs`, `run_configuration.rs`, `stylesheet.rs`, ...) | none after start-up | defaults, stylesheet, compile, validate, fingerprint, layers of options | `ExecutionPlan`, `RunConfiguration` |
| Dot (`crates/attractor-dot`) | none | scopes and defaults of a file, writing it again, comments and quotes | `Dot` |
| Monitor: following Runs (`monitor/watcher.rs`, `state.rs`, `sse.rs`, `projection.rs`, `findings.rs`) | a view per Run, broadcast channels | load, tail, fold, broadcast, pump to browsers; Findings | `Monitor`, `Projection` |
| Monitor: from a Plan to a Run (`monitor/plans.rs`, `proposal.rs`, `pipeline.rs`, `spawn.rs`, `views/`) | the Plan's folder: documents, `proposal.json`, markers, Epic, Pipeline | Generate, Save, Create Epic, Build, Save, Launch, one click | `Studio`, `Proposal`, `Plans` |
| Monitor: controls (`monitor/controls.rs`) | none of its own | answer, stop, kill; resume and run again from the recorded argv | `Reissue`, `HumanGate`, `RunLifecycle` |
| Agent loop, tools, LLM clients (`attractor-agent`, `-tools`, `-llm`) | one conversation, queues, the files | model rounds, tool calls, steering, limits, adapters | `AgentSession`, `AgentTools`, `LlmClient` |
| Generate, launch, decompose (`cli/generate.rs`, `launch.rs`, `decompose*.rs`) | a directory of specs and Pipelines; the tracker | take a digraph out of an answer, a directory one by one, calls of `bd` in order, the coverage report | `Generate`, `Proposal` |
| Listings, shared types, telemetry, HTML pages | none that a Run reads | | not modelled |

### 1.2 How they meet

Inside one `pas run` the executor is a single future. It calls one handler at a time, so the interleavings *within* a
process are few: a heartbeat task that writes to the same journal, a `select!` between the walk and SIGTERM, a `select!`
between the poll of an answer file and the terminal, the timers around a provider and the pipes it shares with helpers.
The interesting interleavings are *between* processes, which share files and nothing else:

* several `pas run` of one Pipeline or one worktree meet at two `flock`s;
* `pas stop`, `pas kill` and the Monitor read the journal and the locks of a process they cannot ask;
* `pas answer` and a waiting Run meet at one file per question, created with `hard_link` so that the first one wins;
* a new Attempt appends to the journal of a dead one while followers are reading it;
* two Runs of one Epic meet in the tracker and on the upstream branch, and an agent may outlive the `pas` that started it;
* `pas trust`, `pas init`, editors and Runs meet at `pas.toml` and one trust store without a lock;
* the Monitor's requests run concurrently over one Plan folder, start `pas` commands that outlive them, and guard
  themselves with marker files and in-memory sets that a restart forgets.

### 1.3 What is hard about it

* **Crash and resume.** `checkpoint.json` is saved before each attempt and after each completion. A process may die
  between any two awaits, and what the next one reads decides whether a step is lost, counted twice or run twice.
* **Budgets across processes.** `max_steps`, the attempts of a node, `max_fix_iterations` and the cost survive only in
  the checkpoint; a field that is not restored silently multiplies the limit by the number of resumes.
* **Failing disks.** Saves and appends may fail at any call; some failures end the Run and some are only logged.
* **Torn and spliced lines** in the journal; **power loss** of what was not synced.
* **Two ways to one Event.** The Monitor reads a journal twice (load and tail), a browser gets Events from the file and
  from a channel that drops; each must be folded and shown once.
* **Stale observation.** `stop`, `kill`, `answer`, `beads.select`, `beads.close`, Create Epic and trust all check first and
  act later.
* **Processes that do not die.** A provider's helper keeps the pipes open after its parent, or leaves the group.
* **Loops.** Goal-gate retries, fix loops and task loops are ended by `max_steps` only; agent rounds by a turn limit.

The list with its lines is in `PROJECT.json` (`hazards`), each entry with the properties that would catch it.

### 1.4 What makes each component correct

* Edge selection: exactly one edge unless there is none; the choice is the first of an order, and declaring the edges in
  another order changes nothing that a condition or a weight decided.
* Executor: no more handlers are started in a Run than `max_steps`, and in a visit no more than `max_attempts`; what is on
  disk while a handler runs already counts it; `completed_nodes` is a walk of the graph; an exit is passed only with every
  visited goal gate satisfied; an interrupted wait costs nothing; every process ends.
* Journal: a follower sees each Event once and in order, numbers grow whatever was torn, a synced Event survives.
* Lifecycle: at most one process works in a worktree unless it was asked to share; the journal is a sequence of Attempts,
  each opened once and closed at most once and last; a checkpoint belongs to a Run that can be found; what `stop`, `kill` and
  the Monitor derive about a working process is true; a completed Run stays completed.
* Directory runs: the Pipelines complete in order and run again only when a completion was lost; a stage never runs over
  another Attempt's skills.
* Human gates: a visit is decided by an answer given during it, the one that was accepted, and a killed Run asks the same
  question again.
* Tasks: one Run per Task, only on ready Tasks, and a Task is closed when the work on it is published.
* Processes of a node: nobody of the process group outlives the handler that gave up on it; an invocation is reported once,
  with the usage of what was read, and no further than its budget.
* Plan and configuration: what a file says is what runs, whichever path it takes (a generated file, a serialized one, an
  edited one, a resumed one); every control reaches the command line; text comes back as it was written.
* Monitor: each Event is folded once; a browser gets each once and in order; what a view, a Finding and a log row say agrees
  with the journal; a Plan's files are never half written by a lone request; an Epic in use is whole; a repeated command is
  the command that was recorded.
* Trust: a Run executes only contents of `pas.toml` that somebody agreed to.
* Agent session: results answer the calls they name, messages are neither lost nor reordered, a confined session's tools
  write nothing outside, an edit replaces the one occurrence it was asked for.

## 2. The modules

| Module | What it is |
|---|---|
| `EdgeSelection`, `MCEdgeSelection` | `select_edge` as constant operators; all short lists of edges |
| `DurableRun`, `Engine`, `MCEngine`, `EngineProofs` | the abstract Run, one walk of a plan; the executor over all the processes of one Run, which implements it; one plan with every kind of node and edge; proofs, also of `EdgeSelection` |
| `EventLog`, `Journal`, `JournalProofs` | the abstract log; `events.jsonl` in half lines, which implements it; proofs, also of `Monitor` |
| `RunLifecycle`, `MCRunLifecycle`, `RunLifecycleProofs` | several processes over shared files; two configurations (`MCRunLifecycle.cfg`, `MCDirectory.cfg`) |
| `HumanGate`, `MCHumanGate`, `HumanGateProofs` | one Run, its gates, and people |
| `Tasks`, `MCTasks`, `TasksProofs` | several Runs, a tracker, a branch, agents |
| `Batch`, `MCBatch`, `BatchProofs` | `pas run DIRECTORY` and what each Attempt prepares |
| `Projection`, `MCProjection` | the fold of Events into a view, Findings, log rows; all short journals |
| `Monitor` | watcher, load, tail, broadcast and browsers, over `Projection` |
| `ProviderOutput`, `Provider`, `ProviderProofs` | what a provider prints; an attempt with its process group; proofs over `MCModels`, which holds both `Provider` and `AgentSession`; also of `Trust` |
| `LlmClient`, `AgentTools`, `AgentSession`, `MCModels` | adapters, tools, the session; `MCModels` checks it beside `Provider` |
| `Dot`, `ExecutionPlan`, `RunConfiguration`, `ProviderCommand`, `HandlerInput`, `MCPlan` | from a file to a plan, to the controls of a Run, to the command line and the context of a node; `MCPlan` is the life of a Pipeline file |
| `Proposal`, `Plans`, `Reissue`, `Generate`, `MCForms` | what people give the Monitor and `pas generate`, typed letter by letter; `Proposal` also has the report on an Epic |
| `Studio`, `StudioProofs` | concurrent requests for one Plan |
| `Trust`, `MCComputations` | agreeing to a pas.toml; all computations in one run |

The modules that compose others: `Engine` uses `EdgeSelection` for the edge a visit takes and implements `DurableRun`; `Journal` implements `EventLog`;
`Monitor` folds with `Projection`; `MCComputations` extends the chain `MCForms`, `MCPlan`, `HandlerInput`,
`ProviderCommand`, `RunConfiguration`, `ExecutionPlan`, `Dot`, and instantiates `Trust` and, through `MCForms`, `Proposal`. The other state machines
reduce the executor to what it does to the files they are about, and say so in their headers. `PROJECT.json` maps every
definition to its lines.

### 2.1 Engine

`mem` is a record of the locals of `run_inner` and of `ExecutionProgress` (node, predecessor, steps, cost, the active
node and its used attempts, completed nodes, outcomes, one context value, quality counters and footprints);
`ckpt` is `<<>>` or one such record. `pc` names the awaits: `top` is the head of the loop, `attempt` the head of
`invoke_node`'s, `begun` the point after the save, `running` the handler, `finish` phase 5, `cleared` the moment after the
checkpoint is gone and before the caller knows. `execs`, `visit` and `last` are history variables: handlers started in the
Run, handlers started in this visit, what each handler really returned last.

A handler is a nondeterministic choice from `Results[node]`: Ok with any status, label, suggested ids and cost, a retryable
error (a timeout among them), or a fatal one. `Snapshot` is `CheckpointContext::save`, `SaveAnd` is `save_checkpoint`
with its failure, `Restored` is the resume block, field by field, because each field that was forgotten would be a bug of
its own. `Crash` is possible wherever there is a process. The check of a stored checkpoint against schema and fingerprint
is in `ExecutionPlan`; reserved keys and the context of a node are in `HandlerInput`.

`DurableRun` is what all this is for: one walk of the plan, with a position, a path, outcomes, counted attempts, their
cost, and the handlers started, and neither processes nor files. Six things happen to it: an attempt is counted (`Begin`), a
handler starts (`Execute`), an attempt that is followed by another one costs something (`Charge`), the walk follows an edge
(`Advance`), a failing gate sends it back from an exit (`Turn`, or in the same step as `Begin`), and it is over (`Close`; what
comes then is another Run). `Engine` implements it by what is on disk: position, path, outcomes, steps and cost are those of
the checkpoint, or of a fresh Run if there is none, and the handlers started are `execs` and `visit`. Launches, crashes,
stops that save what is saved already, failed saves and the resume of a process are stutters, so no number of processes
adds, repeats or loses a step. A process that dies with the checkpoint removed and its caller not told (`cleared`) leaves a Run
that is over, and the next process begins another one.

### 2.2 Journal and Monitor

A line is two halves. A writer dies or fails between them; a reader may stop between them; the second ends with the
newline. `OpenWriter` truncates what follows the last newline and continues after the largest number it can parse.
A poll of `tail` is four actions (compare the length, read in any number of chunks, keep whole lines, read again and compare)
because the second reading exists only to detect that a new Attempt truncated and appended in between.

`Monitor` starts where `Journal` ends: whole lines, one of which may not parse. The watcher's load and tail, `publish` and
each browser's `pump` (backlog, receive, lag, reconnect) are actions of their own; `Known` is what the view has folded, and
the duplicate filter by sequence number is the code's. `Projection` has the fold, Findings and log rows as operators.

### 2.3 RunLifecycle and Batch

One record per process, `pc` naming the step of `prepare_run` and `cmd_run` it is in. Files are variables. Locks vanish
with their owner (`flock`), the contents of the lock file do not. Time is a set, `quiet`: the Runs whose last sign of
life is older than `CRASH_AFTER`; it grows by `Tick` and shrinks when an Event is appended. `pas stop` and `pas kill` are
two and four actions, as they read first and act later; one of each is under way at a time. `Batch` has what one process
does before and between its Pipelines: manifest, trust questions, readiness, and a copy of the skills that is swapped in by two
renames. Each save of the manifest is two steps, as `fs::write` truncates first, and `ManifestFails` ends the command at any of its
reads, saves and removals; each step of the copy has the outcomes of its own failure, clean-ups that fail too included.

### 2.4 HumanGate

The Run enters the gates of `VisitGate` one after the other; `visit` is what the checkpoint says. `answers` maps a
question to its file, with a ghost field for the visit that was current when it was given, so that "stale" can be said.
`PersonReads`/`PersonWrites` are the two halves of `pas answer`; any number of people follow each other, two overlap
with the terminal. Two gates of the configuration have node ids with the same slug, which share a sequence of ids.

### 2.5 Tasks

Each Run has a clone (`local`), a checkpoint (`ckpt`), a journal (`recorded`) and the locals of the executor and its
handler (`run`). The stages in which agents work are one stage. Agents commit, pull with `--rebase`, which replaces
commits that are not upstream by new ones, and push whatever they like, and those of a process that was killed go on
(`orphans`). `commits[i].lost` is a history flag: nobody will record this commit for its Task. External, modelled from how
the code calls it: `bd ready` returns the open Tasks whose blockers are closed, and `bd update --claim` tests and sets,
refusing a Task that is already claimed (the refusal is what the test at `pipeline/handlers/beads_tests.rs:474` expects).

### 2.6 Provider and AgentSession

`Provider` is one attempt of a node that starts a process: a child that leads a group, a helper that may keep the pipes or leave
the group, lines written and lines read, and the timers, any of which may fire while it runs; what orders them in the code
is in the guards. A line is read (`ReadLine`) and then written to the Transcript and shown to the hook (`TakeLine`); between the two
the handler can be dropped. A write can fail and leave nothing, a part or all of its line in the file, and the lines after it are then
not written (`handle`); an attempt that ends by a timer or an I/O error is priced by what the file holds (`InvokedFromTranscript`).
`ProviderOutput` says what each provider's lines make of usage, cost and answer. `AgentSession` is
`process_input`: the queues, the rounds, the loop detector; the files are a function from paths to entries, links
included, so that confinement can be said. It is used by one task, so its actions are those of one caller and one provider. An input leaves the
session in `AwaitingInput`, where it stays when the turn limit refuses the follow-up that is next.

### 2.7 The computations

A Pipeline file is a list of statements with scopes (`Dot`), a plan is what the layers of defaults, the stylesheet and the
compilation make of it (`ExecutionPlan`), the controls of a Run are layers (`RunConfiguration`) that end in a command
line (`ProviderCommand`) and in the input of a handler (`HandlerInput`). `MCPlan` makes a machine of them (write, complete,
compile, edit, resume) so that a property can relate two readings of one file. `Proposal`, `Plans`, `Reissue` and `Generate` are
conversions; names, texts and command lines grow there by one letter, line or token per step, so every short input occurs.

### 2.8 Studio

Requests are slots with a step and a Plan's files; the `pas` processes they start are a set that survives the browser and the
Monitor. Files have contents and inodes, because `write_atomic` uses one temporary name. A killed Monitor leaves markers and
forgets its in-memory guards.

## 3. What is checked

Every run ends within about three minutes on two workers. Bounds are CONSTANTS and are named in the modules.

| Run | Configuration | Distinct states | Bounds |
|---|---|---|---|
| `engine` | `MCEngine.cfg` | 203 k | a plan of nine nodes, `MaxSteps` 9, budget 1, two fix iterations, failing disk, a crash anywhere |
| `journal` | `MCJournal.cfg` | 118 k | 3 Events, 2 Attempts, one power loss, one torn write |
| `run_lifecycle` | `MCRunLifecycle.cfg` | 795 k | 3 processes of one Pipeline, one `--fresh`, one sharing, 2 Runs, `stop` and `kill` |
| `run_directory` | `MCDirectory.cfg` | 852 k | a directory of two Pipelines beside two processes, 3 Runs, failing appends, one heartbeat |
| `human_gate` | `MCHumanGate.cfg` | 1.49 M | 3 visits of 2 gates, 3 questions, one fault, terminal and files |
| `tasks` | `MCTasks.cfg` | 1.60 M | 2 symmetric Runs, 2 Tasks, 3 commits, one crash, one fault |
| `batch` | `MCBatch.cfg` | 816 k | 2 Pipelines, 3 invocations, one change of files, one crash, any file operation failing |
| `monitor` | `MCMonitor.cfg` | 409 k | 3 Events of 2 Attempts, a channel of 1, one browser with two connections, one fault |
| `models` | `MCModels.cfg` | 720 k | every kind of node, 3 or 4 kinds of lines, a helper, a Transcript that fails; sessions of 3 rounds, limits of 5 characters and 6 bytes |
| `studio` | `MCStudio.cfg` | 428 k | 3 requests in 2 slots, 2 Epics, one fault |
| `computations` | `MCComputations.cfg` | 351 k | texts of 4, names of 5, command lines of 4, Proposals of 4 dependencies and 3 edits, 3 edges, 6 Events, 5 moves of trust |
| `doc_gap` | `DocNoGap.cfg` | | a violation, section 5: 3 Events, 1 Attempt, one torn write |

Why the bounds are enough. A walk of `MCEngine` needs four steps to its exit, so nine allow a fix loop, a goal-gate
retry and a resume in one behaviour, and still reach the limit in the middle of each. The journal's hazards need a
torn line, a new Attempt that repairs it and a follower in the middle: two opens and three Events. A lock race needs
three processes (a holder, one that is refused, one that comes when the holder has gone). A stale answer needs the same
gate twice with another one of the same slug in between. Two Tasks, the first of which is blocked by the other,
are what a wrong choice, a stale list and a commit recorded for the wrong Task need. A lost completion in a directory needs a
crash or a failed save between the end of a Pipeline and the manifest and one more invocation. A browser lags behind a channel of one after
two Events and then needs a third. Two slots make every pair of handlers overlap, the third request is the retry after a
failure. Of computations, each rule that can go wrong involves at most three elements (an edge and the two it competes with, a
default, its override and the scope between), and the bounds leave room for one more. Process ids, Runs and Tasks are
not exchangeable where one is started with a flag; symmetry is used for the Runs of `tasks` only, which has no liveness.

Deadlock is checked for `studio`, where "every request is answered" could fail by waiting. The other systems really stop: a
Run that is over, a bound that is used up, an operator who does nothing. That processes end is stated as liveness.

### 3.1 The properties worth arguing about

A property of a run is often a conjunction of named parts, of which each is about one hazard; the theorems and the
comments in the modules take the parts one by one.

| Property | Parts |
|---|---|
| `BudgetsHold` | `TypeOK`, `ExecutionsBounded`, `VisitBounded`: budgets over all processes of a Run, not within one |
| `NothingIsLost` | `RunningIsDurable`, `TopIsDurable`: exactly what a crash can cost. The one difference of memory and disk at the head of the loop is the jump of a goal-gate retry, which is decided again from the exit |
| `CompletedIsWalk` | relates the history on disk to the graph, over crashes, and catches a save made in the wrong order |
| `ImplementsDurableRun` | all processes of a Run together take the steps of one walk, as `DurableRun` has it |
| `GatesHoldAtExit` | compares with what handlers *returned*, rather than with the outcomes the code restored |
| `RunStaysResumable` | `NeverRewinds`, `ClearedOnlyAtEnd`, `WaitSurvives`: the only copy there is; a person who has not answered does not lose the gate to a restart |
| `EventsAreKept` | `NumbersGrow`, `AckedSurvives` (stated for journals in which no write has failed half way; `doc_gap` shows why) |
| `ImplementsEventLog` | the file and its follower implement `EventLog`, safety and delivery |
| `WorkingIsRunning` | what `stop`, `kill` and the Monitor derive from files about a working process is true |
| `EndsAreHonoured` | `StopOutlivesNoAttempt`, `CompletedIsFinal` |
| `LocksAreHeld`, `AttemptsAreBlocks`, `CheckpointIsKnown` | sharing by consent; the journal as a regular language of Attempts; a checkpoint names a recorded Run |
| `RightAnswerDecides` | `DecidedAfresh`, `AcceptedIsObeyed`, for behaviours without a failed append: the code only logs such a failure and uses the id again (section 5) |
| `SameQuestionAgain` | over restarts |
| `WorkIsClaimed`, `RecordedIsOwn`, `ClosedIsPublished` | `OneRunPerTask`, `WorkIsReady`; the last one excepts commits whose attempt was killed (section 5) |
| `BatchIsInOrder`, `CopyIsWhole` | `InOrder`, `RerunOnlyAfterLoss`; the copy is whole and of this attempt when a stage runs (`SkillsAreOfThisAttempt`), and `BuildsReplaceWhole`: no step, no error and no crash puts half a copy in place or loses the old one before the new one is there |
| `DeliveredOnce` | `ViewIsFold`, `LogIsPrefix`, `NothingMissed`: the view is the fold of a beginning of the journal; a browser has a beginning of it without a hole unless a backlog could not be read |
| `GroupDies`, `InvocationIsAccounted` | `InvokedOnce`, `UsageIsObserved`, `BudgetHolds`: the usage is that of what was read or, after a timer or an I/O error, of the Transcript, which is all that was read as long as no write failed |
| `ConversationIsKept` | `ResultsMatchCalls`, `MessagesAreKept`, `SteeringIsPrompt`, `LoopsAreSteered` |
| `ToolsStayAtTheirTask` | `WriteInside`, `ExactEdit` |
| `FilesAreGuarded`, `EpicsAreWhole` | `MarkersAreHeld`, `SingleWriterIsAtomic` (only of requests that write `proposal.json` one at a time, section 5); `EpicsInUseAreWhole`, `RetryReusesEpic` |
| `FilesAreRunAsWritten` | `AcceptedIsRunnable`, `GeneratedIsExplicit`, `RoundTrip`, `EditIsNoticed`, `ValidateAgreesWithRun`, `LaunchRunsWhole` and others: one file on several paths |
| `TextIsKept`, `ControlsAreKept` | what is escaped, split, layered or reissued comes back: `ReadBackIsValue`, `LinesAreKept`, `ProviderPrecedence`, `ControlsReachTheCommand`, `ReissueReplays`, ... |
| `ViewIsTrue` | `StatusAgrees`, `StartRowsAgree`, `ProgressIsTrue`, `AttributionIsTrue`, `CommitsOnce` against what the journal says |
| `ProposalsKeepTheirMeaning` | `EditorRoundTrip`, `RemovalKeepsMeaning`, `CyclesAreFound`, `CreatedIsWhole`, `GapsAreNamed` |
| `OnlyAgreedRuns` | trust, over every interleaving of commands and edits |
| `EdgesAreOrdered` | `ExactlyOne`, `CascadeIsAnOrder`, `OrderDoesNotDecide` |

Each has a mutant in `PROJECT.json`: a plausible bug in one definition that makes it fail. The mutated operators stand in
the modules right before the ones they would replace.

### 3.2 Liveness and fairness

| Run | Property | Fairness and why |
|---|---|---|
| `engine` | `ProcessEnds`: off, or waiting for a person | weak fairness of the executor's steps, a future tokio polls until it is done, and of handlers that do not wait for a person: a provider or command ends or the node's timeout drops it. Nobody is made to launch, stop, kill or answer |
| `journal` | delivery of `EventLog` | the follower, a task that polls while somebody listens; the writer has none |
| `human_gate` | `AnswerIsNoticed` | the poll, first branch of a `biased` select with an interval, and what follows an answer |
| `monitor` | `AllArrives` | the watcher, the tail's polls, each browser's `pump`; not the writer, faults or browsers |
| `models` | `NodesEnd` | the handler and its timers, which tokio fires. Not the child, its helper or the disk |
| `studio` | `RequestsEnd` | each request's handler, and the commands it started: `spawn.rs` waits for them without a timeout, so that they end is an assumption |

`RunLifecycle`, `Tasks` and `Batch` have no liveness properties: their processes may be killed at any time and their operators are
free; a directory run also waits for a person, at a question of trust (`trust.rs:153`) and where its Pipeline waits at a gate. A
session has none either: only `max_tool_rounds` and the provider's answers end an input, and no timer in the code.

## 4. What is proved

Every safety property of the runs over state machines is a theorem for every value of the constants that satisfies the
modules' assumptions: any plan, any number of processes, Runs, Tasks, requests, browsers, sessions, Events and faults.
`PROJECT.json` lists the theorems with the properties they state. The assumptions are types, and facts the compilation
guarantees (the start and every edge's target are nodes, exits are not quality nodes, at least one attempt per node);
ranks are distinct. The proofs stand in eight modules. Two of the properties stand there under the name of an instance:
`Monitor`'s as `M!DeliveredOnce` in `JournalProofs`, that of `Trust` as `Trusts!OnlyAgreedRuns` in `ProviderProofs`.

**EngineProofs.** *Types and budgets.* "At most `MaxSteps` handlers were started" says nothing, after a crash, about what the
next process may start. `ExecInv` adds that executions never exceed the *saved* count, that they are strictly below it
between the save and the start of a handler, and that without a checkpoint nothing has run. `AgreeInv` (memory and file agree
on steps, cost, completed nodes and outcomes while a process lives) carries it over. `VisitInv` does the same for the attempts of
a visit, and needs `ActiveInv`: a node's used attempts count only while it is the active one. A wait is excepted, because the code gives a
resumed wait its attempt back; `WaitInv` shows that this is why no process gives up at a gate. *Durability*:
`RunningIsDurable` rests on `ActiveInv`; `TopIsDurable` is inductive as it stands. *Walk*: inductive once one knows that a retry
target is no exit. *Gates*: `GateInv` relates the outcomes in the file to what handlers returned. *Action properties*:
`NeverRewinds`, `ClearedOnlyAtEnd`. *Refinement*:
`ProcessesWalkOnce` needs one more invariant, since the mapping sees the file and history only: `WayInv` says what the memory of
a live process may have beyond the file. That is one jump, back from an exit where a gate fails and nothing has been tried;
and who is past the check of gates has none that fails, in memory or in the file. The save of a process then is `Begin`, alone
or with the jump, the save of a retry `Charge`, that of a completion `Advance`, the removal of the checkpoint `Close`. *Edge selection*: `Beats` is a total order on the edges of a node, so a finite nonempty
list has a foremost edge (induction over a set of numbers, by `NatLessThanWellFounded`), and the cascade chooses exactly that one;
declaring the edges in another order permutes the list and changes nothing. Hence a walk goes on wherever there is an edge.

**JournalProofs.** The invariant has four parts: types; `ReaderInv` (what a poll has read is a piece of some earlier file);
`NumberInv`; `Durable` (what was synced lies before what a power loss can take). For the refinement, `SeenInv` says that the follower
has delivered exactly what the file says up to the committed position; the lemmas compare the reading of a file with the reading
of the file a writer made of it (longer, repaired, torn). Every step of the journal is then a step of `EventLog` or a
stutter. *Monitor*: `Followed` adds to the types that what the tail has read the view has, that a load leaves nothing out, that
the view is a fold, and where each Event is that a browser does not have yet: in the backlog or coming through its channel.

**RunLifecycleProofs.** Types, `LockInv` (who works holds the lock or shares), `RunInv` (what is recorded of a Run),
`JournalInv` (which piece of the language of Attempts a journal is in, by the step of the process that writes it) and `OverInv`.
`WorkingIsRunning` follows from them because the lock's contents outlive its holder.

**HumanGateProofs.** `Filed` (a file that exists never changes) gives `SameQuestionAgain`. As long as no append failed,
`OpenInv` and `VisitInv` say that ids grow with visits within a slug, so that an answer that is found was given to this visit.

**TasksProofs.** A claim excludes; commits of a Run that are neither published nor lost are for its checkpoint's Task; a rebase
replaces only what was unpublished; an id that is recorded and not upstream is in no other clone. So when `Verify` finds every recorded
commit upstream, nothing made for the Task is missing.

**BatchProofs.** `CopyInv` follows the skills through the two renames: at each step it says what may lie in place, beside it and
under the temporary name after any failure before. From it follow that a stage gets its own skills, and step by step
`NoHalfCopyIsLeft`. `OrderInv` follows the manifest, torn or not, in memory and on disk. `LossInv` relates a completion that is not
in the manifest to the crash or the failed save that lost it, so that there are never more second runs than losses.

**StudioProofs.** `FileInv` counts the inodes in use, so that one is free for `write_atomic`; every marker that is not a dead
Monitor's has exactly one holder; a lone writer has the temporary file for itself; every place that names an Epic names a
whole one; and in a history without trouble the one decomposer is awaited by a Plan without an Epic.

**ProviderProofs.** `PhaseInv` says what the handler has at each of its places, `SpentInv` that a pi node goes on reading only
within its budget; what lines cost is a fold that is never expanded. `Kept` lists what the Transcript can be, a beginning of the lines
with the one in hand or a piece of one at its end; `UsageIsObserved` is inductive with it, one lemma for each way an attempt ends. For `Trust`, the store, the copy every command has loaded and
what the Run is about to add hold only what was agreed to, whatever overwrites what. (That removed trust can come back by an
overlapping command is why "agreed" means "at some time".)

*Sessions.* `SessionAssumption` says what a configuration is: limits and windows are numbers, the providers
registered are ones that have an adapter, and no answer is the absent one. Everything below holds for any such set of sessions.

* *Tools.* A tool changes at most the file its path was resolved to, and what a confined environment resolves lies in its root,
  whatever the links. That an edit is exact is about two recursive functions, the scan of `str::matches` and the concatenation
  of pieces. The prover knows a recursive function as a CHOOSE, so `Recursion` first shows that a function that takes each value
  from the one before exists. Then the places found are occurrences, none two overlap, and each occurrence overlaps one
  of them (`StartsFrom`); so one place found means that there is no second one apart from it. `TextAssumption` asks that the files at
  the start and the arguments of the calls are sequences of lines (in the composition, of strings); `TextInv` carries that through
  the writes, the edits and the calls that wait.
* *Messages.* `KeptInv` says that what waits in the queues comes after all that is in the history, in the order it was
  submitted, and that told, waiting and refused messages add up. A message told twice, skipped or overtaken breaks one of the parts.
* *Warnings.* `LoopsInv` relates the detector's window to calls it no longer holds: with a run of n identical calls at the end
  of the history, the last n modulo `window` entries of the window are of that run, since it is emptied at each multiple. The next
  call fills it with the run exactly if it makes n a multiple again, and then one warning is queued.
* *Results.* `AnsweredInv` says that the results of a round answer, one by one, the calls of the turn before, and `RoundInv` at which
  places of a round the session is. The rest is about the request: `MessagesAreLaid` locates the messages of each turn of
  the history in what `build_request` makes of it, and an induction over the turns follows the conversion of an
  adapter, a recursive function, for its invariant: all results it has merged so far are those of the calls of the message
  before (`Paired`, Anthropic), and the last message with calls is the one the result belongs to (`Matched`, OpenAI).

`ConversationsHold` and `ToolsHold` put these together for the specification the run checks, where a step is one of a node or one
of a session.

### 4.1 What is only model-checked

* Liveness (`ProcessEnds`, `AnswerIsNoticed`, `AllArrives`, `NodesEnd`, `RequestsEnd`, and delivery in
  `ImplementsEventLog`): the prover has no ENABLED.
* The computations, but for edge selection and trust: they are recursive operators, or folds, over data, and their
  properties are inductions over it.

## 5. Where documentation and code disagree

One sentence is checked as a property in a run of its own, and TLC shows a behaviour that breaks it: `doc_gap`
(`writer.rs:100`). After a write that failed half way the next Event is glued to the rest and lost, although its append
returned Ok; the comment at `writer.rs:87` says that the caller may simply carry on.

Further sentences are definitions of the modules, stated and not in any run, because they do not hold. Adding one to the
configuration of its module shows the behaviour.

| Definition | Code | What it says and what happens |
|---|---|---|
| `GateMustSucceed` | `engine.rs:1116`, `1164` | a goal gate must succeed for the Pipeline to complete (`docs/guide.md:156`); it is not checked where the walk ends at a node without edges, and is forgotten by a `loop_restart` edge |
| `ResumeIsPossible` | `engine.rs:518` | a killed Run can be resumed (`docs/guide.md:721`); killed in the last allowed attempt of a node, each further `pas run` ends at once with exhausted retries |
| `RetryTargetsAreNoticed` | `execution_plan.rs:447-457` | a materially changed graph is refused (`execution_plan.rs:441`); retry targets, goal gates and the order of edges are not in the fingerprint, and a label `-` is the same as none |
| `ResumeContinues` | `controls.rs:53` | Resume keeps no `--fresh`; with `-v` before it, it is kept and the Run starts from nothing |
| `StrangerIsRefused` | `run.rs:518` | a second Run without the flag is refused (`docs/cli-reference.md:77`); the process that shares holds no lock, so when the holder leaves a third one enters |
| `QualityIsInTime` | `quality_handler.rs:247-250` | a stage stops a little before the node's deadline (`CHANGELOG.md:82`); the timer covers the child and not the wait for its pipes |
| `CrashIsFailure` | `codergen_provider.rs:621-622` | a non-zero exit without the answer a provider ends with is a failure; for Codex any output will do |
| `GeminiNamesTheFunction` | `types.rs:52`, `gemini.rs:223` | `functionResponse.name` is the function's name; the adapter sends the call's id |
| `ToolErrorsAreAnswers` | `read_file.rs`, agent `session.rs` | every failure of a tool is an answer to the model; an offset past the end, and an output cut inside a multi-byte character, panic |
| `ErrorKeepsCopy` | `agent_resources.rs:104` | on an error the previous copy is kept; when the removal of the old one fails (`:149`) the error comes with the new copy in place, with an empty list a removal that fails half way leaves a rest, and a rename back that fails leaves none in place (`:144`) |
| `NothingStays` | `agent_resources.rs:103-104` | leftovers of a preparation are removed; after a crash with an empty list they stay |
| `BatchGoesOn` | `run.rs:1333-1340` | a directory goes on where it was; a torn manifest refuses it until `--fresh` |
| `GapFree` | `sse.rs:108` | every Event reaches the browser; a backlog that cannot be read is `unwrap_or_default` |
| `ProjectionCatchesUp` | `sse.rs:85-97` | the projection a page is shown is finally that of all it got; an Event the backlog brought first is dropped when it is broadcast, and no projection follows |
| `AlwaysAgrees` | `findings.rs:181`, `run.rs:1094-1120` | the Monitor and `pas runs` agree on a status; a Run that died before its first Event is "crashed" to one and "running" to the other |
| `LiveRowsAgree` | `views/run.rs:91` | rows that arrive live are those of a reload |
| `NeverHalfAFile` | `proposal.rs` (`write_atomic`) | `proposal.json` is whole at every moment; concurrent writers share one temporary name |
| `StoredCycleIsNeverCreated` | `views/proposal.rs:184`, `tests/proposal.rs:314` | a cyclic Proposal is not created; Generate can replace the file between Create Epic's check and the command's reading |

Others were met while modelling and are stated here only.

*Edges and the walk.* An edge whose condition is false can be followed by label, by suggestion or as the fallback
(`edge_selection.rs:45`, `:74`; `docs/guide.md:226`, `:465`). `normalize_label` strips a one-letter accelerator, so "1-retry" and
"2-retry" are the same label. With several failing goal gates the retry target is that of the first in the order of a
`HashMap` (`goal_gate.rs:23`; `docs/guide.md:332`). A quality node's failure footprint is not removed when it passes
(`engine.rs:1037`; the comment at `:231`), and a goal-gate retry leaves `previous_node_id` as it was (`engine.rs:912`; the
comment at `checkpoint.rs:57`). `execute_configured` applies removals of keys to the live context at once
(`handler.rs:254-262`).

*Runs.* `pas stop` may write its file after a new Attempt has removed the old one (`stop.rs:98-114`; `docs/cli-reference.md:391`).
SIGTERM that is taken while the executor removes the checkpoint ends the Attempt as stopped with nothing to resume
(`run.rs:870`; `docs/cli-reference.md:423`). `pas kill` verifies once and signals twice; a directory run may have gone on to
another Run (`kill.rs:210-218`; `docs/cli-reference.md:421`). A torn line of the Run Index glues two entries (`index.rs:105`).
A garbled line makes `read_all` fail and the tail go on.

*Gates and Tasks.* After a failed append of a question Event its id is used again and an old answer decides the gate
(`wait_human.rs:164`). Commits of an attempt that was killed are recorded for no Task, and the Task can be closed while they
are not upstream (`engine.rs:548`, `587`; `docs/cli-reference.md:797`); a rebased commit is looked for under its old name for
ever, so close and publish alternate until `max_steps` (`beads.rs:549`), also when an orphaned agent rebases between
attempts. A crash after a claim leaves the Task in progress with no Run that works on it (`beads.rs:185`).
`docs/cli-reference.md:492` describes `require_upstream` as being about an upstream node; the code means the upstream branch.

*Providers and agents.* `parse_codex`'s "Skipping malformed" ends the iteration. The cost of an invocation that timed out or failed
reaches the Monitor and not the engine's budget; after a failed write of the Transcript it is that of the lines before the failure. OpenAI's `convert_message` sends only the first result of a tool message.
Slices at a byte also occur in the debug output of `steer` and `follow_up`, in `truncate_for_display` and in the errors of
`generate.rs`. Calls of the last allowed round stay unanswered; a follow-up refused by the turn limit is lost; the state stays
Processing after an error of the LLM. `truncate_output` returns more than `max_chars`.

*Files and configuration.* `strip_comments` turns letters outside ASCII into others (`parser.rs:48` says "copy verbatim").
`docs/dot-dialect.md:112-116` and `from_dot` differ on defaults: the final ones apply. An edge inside a subgraph that names a
top-level node makes an implicit node that replaces the authored one. Dotted keys of graph attributes are written and
refused again (`serializer.rs:11-12`, `22-24`: "always parseable"). `expand_variables` depends on the order of a `HashMap`
(`transforms.rs:65-72`). `legacy_options` takes `setting_sources` only as a string and `plugin_dirs` only as an array
(`engine.rs:271-298`; `string_list_from_value` at `codergen_handler.rs:907-925`), and drops skills and pi's options silently; a
pi budget that is no number compiles and fails at the node. `quality_checks` splits at every `|`. `extract_label` finds "no" inside
"now".

*Trust.* The store is loaded, changed and saved without a lock, so a removal can be undone by a command that overlaps
(`trust.rs:114-133`). `pas init` looks for a `pas.toml` before the editor opens and overwrites one that appeared meanwhile
(`init.rs:194`, `:262`).

*From a Plan to a Run.* Create Epic checks for a result before it takes its marker; a Monitor that is killed leaves
`epic.pending` or `pipeline.pending` for ever; a failed record or a partial creation leads a retry to a second Epic; a refused
dependency is a warning; `build_step` reads the result again after its context. `reissue_args` also misses short options
with a glued value, and takes the command line `pas -v run` for another command. An upload named ".md" is stored without extension and refused by the CLI,
"a..b.md" cannot name a Pipeline. `pas launch` validates only what it generated; a torn file counts as existing until `--fresh`
(`launch.rs:70`); "-spec" becomes "-prd" everywhere in a name. `pas generate` exits 0 with validation errors while `--json` reports
`invalid_pipeline`; a preamble that mentions "digraph", or braces in quotes that do not match, defeat `extract_digraph`.
`decompose_validate` covers by substring and truncates percentages.

## 6. What is not modelled

* Listings of the CLI (`runs`, `plan`, `validate`, `info`), shared types, telemetry, HTML pages and the check of origins:
  nothing a Run reads.
* Parallel, fan-in and manager handlers: they pass through or are refused, and have no state of their own.
* The recursive descent of the DOT parser over tokens, HTTP and JSON of the LLM clients, `grep` and `glob`, the words of prompts.
* Torn lines of the Run Index, reuse of process ids, probes of a lock that hold it for an instant.
* In `HumanGate`, the auto-approving, console and recording interviewers, and the moment between reading a bad answer file and
  renaming it.
* In `Tasks`, people who edit the tracker, forced pushes, `dry_run`, `require_upstream=false`, no upstream at all.
* In `Engine`, a context of more than one value, and an executor without a folder for checkpoints.
* Footprints and telemetry of quality stages, `detect.rs` and `enrich.rs`, which suggest texts.

## 7. What is left

1. In `Tasks`, what still holds of a Task whose attempt was killed; today such commits are excepted.
2. The computations, for every input: written as recursive functions, as the edits and the conversions of a session are, they
   could be followed step by step.
