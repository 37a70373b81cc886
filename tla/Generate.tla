------------------------------- MODULE Generate -------------------------------
(***************************************************************************)
(* `pas generate` and `pas launch`: the Pipeline that is taken out of an   *)
(* answer of Claude (generate.rs), the directory of specs that is          *)
(* generated one after the other, and the checks before the first run      *)
(* (launch.rs).  A text is a sequence of lines, a line one of words; the   *)
(* name of a document is the words between its hyphens, a fence three      *)
(* backticks.  Nothing is <<>>, or 0 for a place in a text.                *)
(***************************************************************************)
EXTENDS Integers, Sequences, FiniteSets, SequencesExt

----------------------------------------------------------------------------
(* The digraph in an answer *)

IsFenced(lines) ==
    /\ Len(lines) > 2
    /\ lines[1] # <<>> /\ Head(lines[1]) = "fence"
    /\ Last(lines) = <<"fence">>

StripCodeFences(lines) == IF IsFenced(lines) THEN SubSeq(lines, 2, Len(lines) - 1) ELSE lines

Joined(lines) == FlattenSeq([i \in DOMAIN lines |-> Append(lines[i], "\n")])

First(text, from, word) ==
    LET at == {i \in from..Len(text) : text[i] = word}
    IN  IF at = {} THEN 0 ELSE CHOOSE i \in at : \A k \in at : i <= k

\* How many braces are open after the word at i, counted from there on.
Depth(text, from, i) ==
    LET Count(word) == Cardinality({k \in from..i : text[k] = word}) IN Count("{") - Count("}")

DigraphOf(text) ==
    LET start == First(text, 1, "digraph")
        open  == IF start = 0 THEN 0 ELSE First(text, start, "{")
        ends  == IF open = 0 THEN {} ELSE {i \in open..Len(text) : Depth(text, open, i) = 0}
    IN  IF ends = {} THEN <<>>
        ELSE SubSeq(text, start, CHOOSE i \in ends : \A k \in ends : i <= k)

ExtractDigraph(lines) == DigraphOf(Joined(StripCodeFences(lines)))

----------------------------------------------------------------------------
(* One Pipeline.  An answer is [answered, lines, dot]: whether claude ran   *)
(* and its output has a result, the result, and what the digraph in it is:  *)
(* "unparsable", "uncompilable" (it is DOT, and no ExecutionPlan),          *)
(* "invalid" (it has validation errors) or "valid".                         *)

\* The code of the failure, "" for none, and whether the file is written.
Failed(code, written) == [code |-> code, written |-> written]

ReadInput(kind) == IF kind = "plan" THEN "plan_input" ELSE "io"

AskClaude(answer) ==
    IF ~answer.answered THEN "llm_failed"
    ELSE IF ExtractDigraph(answer.lines) = <<>> THEN "invalid_dot"
    ELSE IF answer.dot = "unparsable" THEN "invalid_dot"    \* normalize_provider_defaults
    ELSE ""

\* Written, then loaded as `pas run` would load it.
WriteAndLoad(answer, writable) ==
    IF ~writable THEN Failed("io", FALSE)
    ELSE Failed(IF answer.dot = "uncompilable" THEN "invalid_dot" ELSE "", TRUE)

Generated(kind, readable, answer, writable) ==
    IF ~readable THEN Failed(ReadInput(kind), FALSE)
    ELSE IF AskClaude(answer) # "" THEN Failed(AskClaude(answer), FALSE)
    ELSE WriteAndLoad(answer, writable)

\* With --json validation errors are a failure, though the file is written.
GeneratedJson(kind, readable, answer, writable) ==
    LET done == Generated(kind, readable, answer, writable)
    IN  IF done.code = "" /\ answer.dot = "invalid" THEN Failed("invalid_pipeline", TRUE) ELSE done

----------------------------------------------------------------------------
(* A directory.  files maps the stem of a Pipeline to what is in its file,  *)
(* [dot, prd], the last the stem of the PRD that it was made of.            *)

IsSpec(stem) == Len(stem) > 1 /\ Last(stem) = "spec"

\* str::replace, of every "-spec".
PrdOf(stem) == [i \in DOMAIN stem |-> IF i > 1 /\ stem[i] = "spec" THEN "prd" ELSE stem[i]]

File(stem, docs, dot) == [dot |-> dot, prd |-> IF PrdOf(stem) \in docs THEN PrdOf(stem) ELSE <<>>]
Put(files, stem, file) == [s \in DOMAIN files \cup {stem} |-> IF s = stem THEN file ELSE files[s]]

GenerateNext(s, spec, docs, answer, force) ==
    IF s.failed THEN s
    ELSE IF ~force /\ spec \in DOMAIN s.files THEN [s EXCEPT !.pipelines = Append(@, spec)]
    ELSE LET done == Generated("spec", TRUE, answer, TRUE)
         IN  [files     |-> IF done.written THEN Put(s.files, spec, File(spec, docs, answer.dot)) ELSE s.files,
              pipelines |-> IF done.code = "" THEN Append(s.pipelines, spec) ELSE s.pipelines,
              failed    |-> done.code # ""]

\* The specs in the order of their names; the first failure ends it.
GenerateDir(specs, docs, files, answers, force) ==
    FoldLeft(LAMBDA s, i : GenerateNext(s, specs[i], docs, answers[i], force),
             [files |-> files, pipelines |-> <<>>, failed |-> FALSE], [i \in DOMAIN specs |-> i])

\* What a `pas` that is killed while it writes the k-th Pipeline leaves.
KilledAt(k, specs, docs, files, answers, force) ==
    LET before == GenerateDir(SubSeq(specs, 1, k - 1), docs, files, answers, force)
        writes == (force \/ specs[k] \notin DOMAIN files) /\ Generated("spec", TRUE, answers[k], TRUE).written
    IN  IF before.failed \/ ~writes THEN before.files
        ELSE Put(before.files, specs[k], File(specs[k], docs, "unparsable"))

\* Whether a launch starts the runs: every Pipeline loads and has no error.
Launch(specs, docs, files, answers, fresh) ==
    LET made == GenerateDir(specs, docs, files, answers, fresh)
    IN  [files |-> made.files,
         runs  |-> /\ specs # <<>> /\ ~made.failed
                   /\ \A i \in DOMAIN made.pipelines : made.files[made.pipelines[i]].dot = "valid"]
=============================================================================
