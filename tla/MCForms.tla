------------------------------- MODULE MCForms -------------------------------
(***************************************************************************)
(* What a person gives the Monitor, next to the Pipeline files of MCPlan:  *)
(* a Proposal whose dependencies are edited one by one, the names of       *)
(* uploaded documents and the command line of a Run, typed letter by       *)
(* letter and token by token.  Then what Claude answers `pas generate`,    *)
(* and a directory that is launched again and again.                       *)
(***************************************************************************)
EXTENDS MCPlan

CONSTANTS MaxDeps, MaxName, MaxArgs

MCTrim == [t \in {"", " ", "a", "b", "c", "d", "t", " t"} |->
              CASE t = " " -> "" [] t = " t" -> "t" [] OTHER -> t]

P == INSTANCE Proposal WITH Trim <- MCTrim, Library <- {"Arc"}, Noise <- {"clone"}
U == INSTANCE Plans WITH MaxFiles <- 3, Numbers <- <<"01", "02", "03">>
R == INSTANCE Reissue
G == INSTANCE Generate
O == INSTANCE ProviderOutput
S == INSTANCE EdgeSelection WITH
         Rank   <- [n \in {"x", "y", "z"} |-> CASE n = "x" -> 1 [] n = "y" -> 2 [] n = "z" -> 3],
         Normal <- [l \in {"[Y] Yes", "yes", "no", "now"} |-> IF l = "[Y] Yes" THEN "yes" ELSE l]

Tasks(type, design) ==
    [t \in 1..3 |-> [title |-> <<"a", "b", "c">>[t], type |-> type, priority |-> "t", description |-> "d",
                     acceptance |-> <<"a">>, design |-> design, notes |-> <<>>]]

Draft(type, design) ==
    [v |-> 1, epic |-> [title |-> "d", description |-> "d"], tasks |-> Tasks(type, design), dependencies |-> <<>>]

Seqs(set, n) == UNION {[1..k -> set] : k \in 1..n}

\* A line of an answer: a label by itself, or within other text.
Holds(label) == CASE label = "[Y] Yes" -> {"[Y] Yes", "yes"} [] label = "now" -> {"now", "no"} [] OTHER -> {label}
AnswerLines ==
    {[is |-> l, has |-> Holds(l)] : l \in {"[Y] Yes", "yes", "no"}}
      \cup {[is |-> None, has |-> h] : h \in {{}, Holds("now"), Holds("yes")}}

NameLetters == {"a", "md", ".", "-", "/", "e'"}

Tokens ==
    {R!Word("w"), R!Option("--fresh"), R!Option("--json"), R!Option("--dry-run"), R!Option("--workdir"),
     R!With("--workdir", "v"), R!Glued("-w", "v"), R!Option("-v"), R!Option("--logs"), R!Glued("-l", "v"),
     R!With("--run-id", "v"), R!Option("--run-id"), R!Option("--codergen-skill")}

FormsInit ==
    /\ edits = 0 /\ plan = <<>> /\ saved = <<>> /\ resumed = FALSE /\ file = <<>>
    /\ \/ scenario \in {"name", "argv"} /\ input = <<>>
       \/ scenario = "answer" /\ input = <<>>
       \/ scenario = "label" /\ \E ls \in Seqs({"[Y] Yes", "yes", "no", "now", None}, 3) :
                                    input = [labels |-> ls, answer |-> <<>>]
       \/ scenario = "launch" /\ input = [files |-> <<>>, runs |-> FALSE]
       \/ scenario = "proposal" /\ input \in {Draft("t", <<"a">>), Draft(" t", <<>>)}

\* A dependency is added, of Tasks that need not be there.
Depend ==
    /\ scenario = "proposal" /\ Len(input.dependencies) < MaxDeps
    /\ \E b \in 1..3, k \in 1..4 : input' = [input EXCEPT !.dependencies = Append(@, P!Dep(b, k))]
    /\ UNCHANGED <<scenario, file, edits, plan, saved, resumed>>

TypeName ==
    /\ \/ scenario = "name" /\ Len(input) < MaxName /\ \E c \in NameLetters : input' = Append(input, c)
       \/ scenario = "answer" /\ Len(input) < MaxText /\ \E c \in {"x", "{", "}", "digraph", "fence"} : input' = Append(input, c)
       \/ /\ scenario = "label" /\ Len(input.answer) < 3
          /\ \E l \in AnswerLines : input' = [input EXCEPT !.answer = Append(@, l)]
       \/ scenario = "argv" /\ Len(input) < MaxArgs /\ \E c \in Tokens : input' = Append(input, c)
    /\ UNCHANGED <<scenario, file, edits, plan, saved, resumed>>

MCSpecs == <<<<"a", "spec">>, <<"x", "a", "spec">>>>
MCDocs  == {<<"a", "prd">>, <<"x", "prd">>}

Answers ==
    {[answered |-> FALSE, lines |-> <<>>, dot |-> "unparsable"]}
      \cup {[answered |-> TRUE, lines |-> <<<<"digraph", "{", "}">>>>, dot |-> d] :
               d \in {"unparsable", "uncompilable", "invalid", "valid"}}

\* Somebody launches the directory, and the command may be killed while it
\* writes a Pipeline; or mends or breaks a Pipeline.
LaunchAgain ==
    /\ scenario = "launch" /\ edits < MaxEdits /\ edits' = edits + 1
    /\ \/ \E answers \in [DOMAIN MCSpecs -> Answers], fresh \in BOOLEAN :
             \/ input' = G!Launch(MCSpecs, MCDocs, input.files, answers, fresh)
             \/ \E k \in DOMAIN MCSpecs :
                    input' = [files |-> G!KilledAt(k, MCSpecs, MCDocs, input.files, answers, fresh), runs |-> FALSE]
       \/ \E stem \in DOMAIN input.files, d \in {"invalid", "valid"} :
             input' = [files |-> [input.files EXCEPT ![stem].dot = d], runs |-> FALSE]
    /\ UNCHANGED <<scenario, file, plan, saved, resumed>>

----------------------------------------------------------------------------
(* The answer of a node that decides *)

Deciding ==
    [graph |-> [edges |-> [i \in DOMAIN input.labels |->
                              [from |-> "a", to |-> <<"x", "y", "z">>[i], label |-> input.labels[i], weight |-> 0,
                               conditional |-> FALSE, clauses |-> {}]]],
     nodes |-> [a |-> [kind |-> "Conditional"]]]

\* A node that "MUST end" its answer with one of the labels of its edges
\* decides with it: if the last line is a label, whatever was named before,
\* the walk goes along the edge with that label, up to its accelerator
\* (codergen_handler.rs 265-278, extract_label, select_edge).
LabelIsFollowed ==
    scenario = "label" /\ input.answer # <<>> =>
        LET offered == OfferedLabels(Deciding, "a")
            last    == input.answer[Len(input.answer)].is
            Found(l) == IF l = None THEN S!NoLabel ELSE l
            chosen  == S!SelectEdge([i \in DOMAIN Deciding.graph.edges |->
                                        [Deciding.graph.edges[i] EXCEPT !.label = Found(@)]],
                                    [label |-> Found(O!ExtractLabel(input.answer, offered)), suggested |-> <<>>], <<>>)
        IN  last \in Range(offered) =>
                \A i \in chosen : /\ input.labels[i] # None /\ S!SameLabel(input.labels[i], last)

----------------------------------------------------------------------------
(* The Proposal *)

IsSound == scenario = "proposal" /\ P!Validate(input) = ""

Blocks(p) == {<<d.blocked, d.blocker>> : d \in Range(p.dependencies)}

\* What a Proposal says, spaces and repetitions aside.
Meaning(p) ==
    <<p.epic, [t \in DOMAIN p.tasks |-> [p.tasks[t] EXCEPT !.type = MCTrim[@]]], Blocks(p)>>

\* The editor shows a Proposal and the form that comes back says the same:
\* every field, and the dependencies, of which an unchecked box sends nothing
\* (views/proposal.rs editor, Proposal::apply_form).
EditorRoundTrip ==
    IsSound => LET back == P!ApplyForm(input, P!Editor(input))
               IN  ~back.failed /\ Meaning(back.p) = Meaning(input)

\* A Task is renamed and another one removed with the same form: the others
\* keep their texts and block each other as before, "so each remaining
\* dependency still names the same Tasks" (proposal.rs:80).
RemovalKeepsMeaning ==
    IsSound => \A i, t \in DOMAIN input.tasks :
        LET renamed == [k \in DOMAIN P!Editor(input) |->
                           LET f == P!Editor(input)[k]
                           IN  IF f.name = "title" /\ f.task = t THEN [f EXCEPT !.value = "d"] ELSE f]
            q == P!ApplyForm(input, Append(renamed, P!Pair("remove", 0, i))).p
            Old(k) == IF k < i THEN k ELSE k + 1
        IN  /\ Len(q.tasks) = Len(input.tasks) - 1
            /\ \A k \in DOMAIN q.tasks : q.tasks[k].title = IF Old(k) = t THEN "d" ELSE input.tasks[Old(k)].title
            /\ Blocks(q) = {<<k, m>> \in (DOMAIN q.tasks) \X (DOMAIN q.tasks) : <<Old(k), Old(m)>> \in Blocks(input)}

\* A Proposal is refused for a cycle exactly if a Task blocks itself over
\* others, and the cycle that is named is one (Proposal::find_cycle).
CyclesAreFound ==
    scenario = "proposal" /\ P!CliValidate(input) = "" =>
        LET reach[k \in Nat] == IF k = 0 THEN Blocks(input)
                                ELSE reach[k - 1] \cup
                                     {<<x, y>> \in (1..3) \X (1..3) :
                                        \E z \in 1..3 : <<x, z>> \in reach[k - 1] /\ <<z, y>> \in Blocks(input)}
            cycle == P!FindCycle(input)
        IN  /\ cycle # <<>> <=> \E x \in 1..3 : <<x, x>> \in reach[3]
            /\ cycle # <<>> => /\ cycle[1] = cycle[Len(cycle)]
                               /\ \A k \in 1..Len(cycle) - 1 : <<cycle[k], cycle[k + 1]>> \in Blocks(input)

\* If `pas decompose` reports an Epic, it and all its Tasks are in Beads, and
\* every dependency that bd did not refuse itself; whatever call fails
\* (create_from_proposal).
CreatedIsWhole ==
    IsSound =>
        LET calls == P!Calls(input) IN
        \A bad \in DOMAIN calls, how \in {"ok", "failed", "broken"} :
            LET answers == [k \in DOMAIN calls |-> IF k = bad THEN how ELSE "ok"]
                done    == P!CreateFromProposal(input, answers)
            IN  done.ok => {calls[k] : k \in {m \in DOMAIN calls : calls[m].call = "create"}} \subseteq done.made
                           /\ \A k \in DOMAIN calls : answers[k] = "ok" => calls[k] \in done.made

----------------------------------------------------------------------------
(* Documents *)

Upload(name, content) == [name |-> name, content |-> content, fits |-> TRUE, utf8 |-> TRUE]

\* A name with letters before its extension.
HasStem == \E k \in 1..Len(input) - 2 : input[k] \notin {".", "/"} /\ "/" \notin Range(SubSeq(input, k, Len(input)))

\* Documents that the Monitor accepts reach `pas generate --plan` and `pas
\* decompose --plan` all, once each and in the order of the upload, two of the
\* same name included (plans.rs stored_name, plan_input.rs load_plan).
UploadsAreReadBack ==
    scenario = "name" /\ HasStem =>
        LET uploads == <<Upload(input, "x"), Upload(<<"a", ".", "md">>, "y"), Upload(input, "z")>>
            text    == U!LoadPlan(U!WritePlan(uploads))
        IN  U!ValidatePlan(uploads, TRUE) =>
                Len(text) = 3 /\ \A k \in 1..3 : text[k] = [number |-> k, of |-> 3, content |-> <<"x", "y", "z">>[k]]

\* The Pipeline of a Plan is named after what was uploaded last, the number
\* of the stored document aside, or it has no name; never after another one
\* and never with a path in it (pipeline.rs pipeline_path).
PipelineIsNamedAfterPlan ==
    scenario = "name" /\ HasStem /\ U!HasAllowedExtension(input) =>
        LET name == U!PipelineName(U!WritePlan(<<Upload(<<"02", ".", "md">>, "y"), Upload(input, "x")>>))
        IN  name = <<"bad">> \/ name \o <<".", "md">> = U!CleanName(input)

----------------------------------------------------------------------------
(* `pas generate` and `pas launch` *)

Graph == <<<<"digraph", "x", "{">>>> \o [i \in DOMAIN input |-> <<input[i]>>] \o <<<<"}">>>>

Wrapped ==
    {Graph, <<<<"fence", "digraph">>>> \o Graph \o <<<<"fence">>>>,
     <<<<"text">>, <<"fence">>>> \o Graph \o <<<<"fence">>, <<"text", "}">>>>}

\* A digraph whose braces match is taken whole and alone out of an answer:
\* raw, in fences, or between texts ("Handles: raw digraph, markdown-fenced
\* digraph, digraph buried in preamble text", generate.rs:526).
DigraphIsExtracted ==
    scenario = "answer" =>
        LET At(i) == G!Depth(input, 1, i)
        IN  (\A i \in DOMAIN input : At(i) >= 0) /\ (input # <<>> => At(Len(input)) = 0) =>
                \A lines \in Wrapped : Append(G!ExtractDigraph(lines), "\n") = G!Joined(Graph)

\* A launch that starts its runs has for each spec a Pipeline that is whole
\* and valid, of the spec and its own PRD, whatever was left by launches that
\* failed, were killed, or wrote what has to be mended (cmd_launch).
LaunchRunsWhole ==
    scenario = "launch" /\ input.runs =>
        \A spec \in Range(MCSpecs) :
            /\ spec \in DOMAIN input.files /\ input.files[spec].dot = "valid"
            /\ LET own == {d \in MCDocs : Front(d) = Front(spec)}
               IN  input.files[spec].prd = IF own = {} THEN <<>> ELSE CHOOSE d \in own : TRUE

----------------------------------------------------------------------------
(* Run again *)

Meta == [path |-> "/p", run |-> "id", logs |-> "/l"]

\* Options that the Monitor takes for ones with a value, or the other way
\* round: a global -v, and a short option glued to its value.
Misread(tok) == tok.is = "-v" \/ (tok.is = "-w" /\ tok.glue = "short")

\* "Run again" runs what the Run's command asked for: the same options but the
\* ones the Monitor sets itself (reissue_args, controls.rs:78-128).
ReissueReplays ==
    scenario = "argv" /\ R!RunOptions(input).ok /\ (\A k \in DOMAIN input : ~Misread(input[k])) =>
        \A new \in {<<>>, <<"new">>} :
            LET was == R!RunOptions(input)
                now == R!RunOptions(R!ReissueArgs(input, Meta, new))
            IN  now = [was EXCEPT !.words = <<"/p">>, !.values["--logs"] = <<"/l">>,
                                  !.values["--run-id"] = IF new = <<>> THEN <<"id">> ELSE new,
                                  !.switches = (@ \ {"--fresh", "--json"}) \cup
                                               (IF new = <<>> THEN {} ELSE {"--fresh"})]

\* "Same Run, no `--fresh`: continues from the checkpoint as a new Attempt."
\* (controls.rs:53).  With -v before --fresh it is kept, and the Run starts
\* from nothing.
ResumeContinues ==
    scenario = "argv" /\ R!RunOptions(input).ok =>
        "--fresh" \notin R!RunOptions(R!ReissueArgs(input, Meta, <<>>)).switches
=============================================================================
