--------------------------- MODULE MCComputations ---------------------------
(***************************************************************************)
(* The computations of the system in one run: the forms and files of       *)
(* MCForms, the edges of MCEdgeSelection and the journals of MCProjection, *)
(* and here what people agree to and what then runs (a pas.toml that is    *)
(* edited while Runs are under way and commands change the trust store)    *)
(* and an Epic whose Tasks are held against the spec, each in scenarios of *)
(* its own.  A scenario leaves the others' inputs at their empty values,   *)
(* of which their properties hold.                                         *)
(***************************************************************************)
EXTENDS MCForms

CONSTANTS
    MaxMoves,   \* bound: steps of the people, the commands and the Run
    MaxEdges, MaxEvents, CrashAfter, NodeTimeout, LoopK, Nobody

VARIABLES
    edges, outcome,                     \* of MCEdgeSelection
    hist, alphabet,                     \* of MCProjection
    disk, editing, store, commands,     \* of Trust, and these
    manifest, asked, adding, agreed, ran

MCRank == [n \in {"a", "b"} |-> IF n = "a" THEN 1 ELSE 2]
MCNormal == [l \in {"[Y] Yes", "yes", "no"} |-> IF l = "no" THEN "no" ELSE "yes"]

E == INSTANCE MCEdgeSelection WITH Rank <- MCRank, Normal <- MCNormal
J == INSTANCE MCProjection WITH None <- Nobody

MCQuality == [c \in 1..3 |-> <<<<>>, <<"test">>, <<"lint", "test">>>>[c]]
MCHooks   == [c \in 1..3 |-> IF c = 3 THEN ("lint" :> [argv |-> <<>>, cmd |-> <<"l 'x">>])
                                         @@ ("test" :> [argv |-> <<"t">>, cmd |-> <<>>])
                             ELSE <<>>]
MCSplit   == [c \in {"l 'x"} |-> <<>>]

T == INSTANCE Trust WITH Contents <- 0..3, Quality <- MCQuality, Hooks <- MCHooks, Split <- MCSplit,
                         Checks <- {<<>>, <<"c">>}, Shells <- {"shell", "tab"}

Mention(kind, text) == [kind |-> kind, text |-> text]

SpecMentions ==
    {Mention("test", <<"test_", "a">>), Mention("qualified", <<"T", "::", "m">>),
     Mention("qualified", <<"T", "::", "clone">>), Mention("qualified", <<"Arc", "::", "m">>),
     Mention("head", <<"Arc", "::", "m">>), Mention("word", <<"m">>)}

\* Three fields with a text of two pieces between them.
Tickets ==
    {<<<<p>>, <<q>>, <<>>>> : p \in {"test_", "m", "T"}, q \in {"a", "m", "::"}}
      \cup {<<m.text, <<>>, <<"m">>>> : m \in SpecMentions}

TrustInit ==
    /\ edits = 0 /\ plan = <<>> /\ saved = <<>> /\ resumed = FALSE /\ file = <<>>
    /\ \/ scenario = "trust" /\ input = <<>>
       \/ scenario = "coverage" /\ input = [spec |-> <<>>, tickets |-> <<>>]

CoverageNext ==
    /\ scenario = "coverage" /\ edits < 4
    /\ \/ \E m \in SpecMentions : input' = [input EXCEPT !.spec = Append(@, m)]
       \/ Len(input.tickets) < 2 /\ \E t \in Tickets : input' = [input EXCEPT !.tickets = Append(@, t)]
    /\ edits' = edits + 1
    /\ UNCHANGED <<scenario, file, plan, saved, resumed>>

TrustNext ==
    /\ scenario = "trust" /\ edits < MaxMoves
    /\ T!Next
    /\ edits' = edits + 1
    /\ UNCHANGED <<scenario, file, plan, saved, resumed, input>>

----------------------------------------------------------------------------
forms == vars
walk  == <<edges, outcome>>
log   == <<hist, alphabet>>
trust == <<disk, editing, store, commands, manifest, asked, adding, agreed, ran>>

ComputationsInit ==
    /\ \/ /\ Init \/ FormsInit \/ TrustInit
          /\ edges = <<>> /\ outcome = <<>> /\ hist = <<>> /\ alphabet = {}
       \/ /\ scenario \in {"edges", "journal"}
          /\ edits = 0 /\ plan = <<>> /\ saved = <<>> /\ resumed = FALSE /\ file = <<>> /\ input = <<>>
          /\ IF scenario = "edges" THEN E!Init /\ hist = <<>> /\ alphabet = {}
                                   ELSE J!Init /\ edges = <<>> /\ outcome = <<>>
    /\ T!Init /\ disk = 2

ComputationsNext ==
    \/ (Next \/ Depend \/ TypeName \/ LaunchAgain \/ CoverageNext) /\ UNCHANGED <<walk, log, trust>>
    \/ TrustNext /\ UNCHANGED <<walk, log>>
    \/ scenario = "edges" /\ E!Next /\ UNCHANGED <<forms, log, trust>>
    \/ scenario = "journal" /\ J!Next /\ UNCHANGED <<forms, walk, trust>>

ComputationsSpec == ComputationsInit /\ [][ComputationsNext]_<<forms, walk, log, trust>>

----------------------------------------------------------------------------
\* A quality node runs a manifest's commands only if somebody agreed to just
\* that content (quality_handler.rs:437-460).  Trust states it.
OnlyAgreedRuns == scenario = "trust" => T!OnlyAgreedRuns

\* Every name that the spec mentions and that is not noise, and that stands in
\* no field of any Task, is reported missing, and nothing else is; what is
\* split over two fields stands in none (decompose_validate.rs:228-259).
GapsAreNamed ==
    scenario = "coverage" =>
        LET report == P!Report(input.spec, <<input.tickets>>)
            Stands(text) == \E t \in DOMAIN input.tickets : \E f \in 1..3 :
                                P!Mentions(input.tickets[t][f], text)
            wanted == {m.text : m \in {m \in Range(input.spec) :
                          m.kind \in {"test", "head"} \/ m.text = <<"T", "::", "m">>}}
        IN  report.is = "report" =>
                /\ report.missing = {text \in wanted : ~Stands(text)}
                /\ report.covered + Cardinality(report.missing) = Cardinality(wanted)

(* A node with edges has exactly one to follow; a node without has none    *)
(* (select_edge).  MCEdgeSelection states it, and the two after it.        *)
ExactlyOne == scenario = "edges" => E!ExactlyOne

\* The cascade of select_edge takes the least edge of one order.
CascadeIsAnOrder == scenario = "edges" => E!CascadeIsAnOrder

\* Declaring the edges of a graph in another order does not re-route a Run
\* (edge_selection.rs best_by_weight_then_lexical).
OrderDoesNotDecide == [][scenario = "edges" => E!OrderOfEdges]_<<forms, walk>>

\* The open node and the open question of a Run's page are those of its
\* journal (RunView::apply).  MCProjection states it, and the ones after it.
OpenIsOpen == scenario = "journal" => J!OpenIsOpen

\* The Monitor shows the status that the commands derive (derive_status).
StatusAgrees == scenario = "journal" => J!StatusAgrees

\* Visits and costs belong to the Task under way (RunView::apply, task_rollup).
AttributionIsTrue == scenario = "journal" => J!AttributionIsTrue

\* Epic progress is that of the last snapshot and what followed it.
ProgressIsTrue == scenario = "journal" => J!ProgressIsTrue

\* Server and page link the start of a stage to the same transcript
\* (log_entries, LOG_SCRIPT).
StartRowsAgree == scenario = "journal" => J!StartRowsAgree

\* A commit is listed once (RunView::apply).
CommitsOnce == scenario = "journal" => J!CommitsOnce

----------------------------------------------------------------------------
(* What the run checks *)

\* The edge that is followed is one, is the best by one order, and does not
\* depend on how the graph was written down (select_edge).
EdgesAreOrdered == [](ExactlyOne /\ CascadeIsAnOrder) /\ OrderDoesNotDecide

\* A Pipeline file means the same to `pas generate`, `pas validate`, the
\* first Attempt and every later one (execution_plan.rs, validation.rs).
FilesAreRunAsWritten ==
    /\ AcceptedIsRunnable
    /\ ValidateAgreesWithRun
    /\ ProviderPrecedence
    /\ GeneratedIsExplicit
    /\ EditIsNoticed
    /\ ExpansionIsOrderFree

\* What is written can be read again: files, values between quotes, line
\* numbers, and a digraph within an answer (serializer.rs, parser.rs,
\* generate.rs).
TextIsKept == RoundTrip /\ ReadBackIsValue /\ LinesAreKept /\ DigraphIsExtracted

\* What was configured is what a node gets, by every way that leads there,
\* and what it answers and writes comes back; and a command does with what
\* the Monitor or a directory hands it what the person asked for: options
\* again, documents in order, all specs of a launch (run_configuration.rs,
\* codergen_handler.rs, handler.rs, controls.rs, plans.rs, launch.rs).
ControlsAreKept ==
    /\ TwoPathsAgree
    /\ ControlsReachTheCommand
    /\ SkillsLoadOrWarn
    /\ NoSilentTimeout
    /\ WritesReachTheContext
    /\ LabelIsFollowed
    /\ ReissueReplays
    /\ LaunchRunsWhole
    /\ UploadsAreReadBack
    /\ PipelineIsNamedAfterPlan

\* The pages of the Monitor say of a journal what is in it (RunView::apply,
\* findings.rs, views/run.rs).
ViewIsTrue ==
    /\ OpenIsOpen
    /\ StatusAgrees
    /\ AttributionIsTrue
    /\ ProgressIsTrue
    /\ StartRowsAgree
    /\ CommitsOnce

\* A Proposal survives its editor, is refused for its cycles only, becomes
\* an Epic with all its Tasks, and what no Task covers is named (proposal.rs,
\* decompose.rs, decompose_validate.rs).
ProposalsKeepTheirMeaning ==
    /\ EditorRoundTrip
    /\ RemovalKeepsMeaning
    /\ CyclesAreFound
    /\ CreatedIsWhole
    /\ GapsAreNamed
=============================================================================
