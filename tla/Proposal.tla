------------------------------- MODULE Proposal -------------------------------
(***************************************************************************)
(* A Proposal, the draft of an Epic: how the Monitor's editor shows it     *)
(* (views/proposal.rs), what a submitted form makes of it and when it is   *)
(* accepted (proposal.rs), and what `pas decompose --from-proposal` then   *)
(* asks of Beads (commands/decompose.rs) and reports of the Epic: which    *)
(* names of the spec no Task mentions (commands/decompose_validate.rs).    *)
(* Tasks are numbered from 1, as the editor shows them.  In the report a   *)
(* text is a sequence of pieces; a mention in the spec has the kind of the *)
(* pattern that finds it.                                                  *)
(***************************************************************************)
EXTENDS Integers, Sequences, FiniteSets, SequencesExt

CONSTANTS
    Trim,           \* text -> the text without its blanks at both ends
    Library,        \* stdlib_prefixes
    Noise           \* noise_suffixes: methods that say nothing

Fields == <<"title", "type", "priority", "description", "acceptance", "design", "notes">>
Optional == {"acceptance", "design", "notes"}
Trimmed  == {"type", "priority"}

Dep(blocked, blocker) == [blocked |-> blocked, blocker |-> blocker]

Blank(text) == Trim[text] = ""

\* Empty text means "not set" for the optional fields.
Opt(text) == IF Blank(text) THEN <<>> ELSE <<text>>

----------------------------------------------------------------------------
(* Removal and validation *)

\* The dependencies that mention it go, the others are renumbered.
RemoveTask(p, i) ==
    IF i \notin DOMAIN p.tasks THEN p
    ELSE LET Kept(d) == d.blocked # i /\ d.blocker # i
             Down(n) == IF n > i THEN n - 1 ELSE n
             left    == SelectSeq(p.dependencies, Kept)
         IN  [p EXCEPT !.tasks = RemoveAt(@, i),
                       !.dependencies = [k \in DOMAIN left |-> Dep(Down(left[k].blocked), Down(left[k].blocker))]]

\* The checks of `pas decompose`: why a Proposal is refused, or "".
CliValidate(p) ==
    LET n == 1..Len(p.tasks)
        Outside(d) == d.blocked \notin n \/ d.blocker \notin n
        first == {k \in DOMAIN p.dependencies : Outside(p.dependencies[k])
                                                \/ p.dependencies[k].blocked = p.dependencies[k].blocker}
    IN  IF p.v # 1 THEN "version"
        ELSE IF p.tasks = <<>> THEN "no Tasks"
        ELSE IF \E t \in n : Blank(p.tasks[t].title) THEN "title"
        ELSE IF first = {} THEN ""
        ELSE IF Outside(p.dependencies[CHOOSE k \in first : \A m \in first : k <= m]) THEN "range" ELSE "itself"

BlockersOf(p, t) ==
    LET OfTask(d) == d.blocked = t
        deps == SelectSeq(p.dependencies, OfTask)
    IN  [k \in DOMAIN deps |-> deps[k].blocker]

RECURSIVE Dfs(_, _, _)

\* 0 is unvisited, 1 on the current path, 2 done.
Dfs(p, at, s) ==
    LET Follow(acc, next) ==
            IF acc.cycle # <<>> THEN acc
            ELSE IF acc.state[next] = 1
                 THEN LET from == CHOOSE k \in DOMAIN acc.path : acc.path[k] = next
                      IN  [acc EXCEPT !.cycle = SubSeq(acc.path, from, Len(acc.path)) \o <<next>>]
            ELSE IF acc.state[next] = 0 THEN Dfs(p, next, acc)
            ELSE acc
        left == FoldLeft(Follow, [s EXCEPT !.state[at] = 1, !.path = Append(@, at)], BlockersOf(p, at))
    IN  IF left.cycle # <<>> THEN left ELSE [left EXCEPT !.path = Front(@), !.state[at] = 2]

\* The first cycle found, each Task blocked by the next, or <<>>.
FindCycle(p) ==
    LET n == 1..Len(p.tasks)
        From(acc, start) == IF acc.cycle = <<>> /\ acc.state[start] = 0 THEN Dfs(p, start, acc) ELSE acc
    IN  FoldLeft(From, [state |-> [t \in n |-> 0], path |-> <<>>, cycle |-> <<>>],
                 [t \in n |-> t]).cycle

\* "The CLI's checks plus cycle detection, which the CLI lacks."
Validate(p) ==
    IF CliValidate(p) # "" THEN CliValidate(p) ELSE IF FindCycle(p) # <<>> THEN "cycle" ELSE ""

----------------------------------------------------------------------------
(* The editor and its form: pairs of a key, which is a name and the number *)
(* of a Task, and a value                                                  *)

Pair(name, task, value) == [name |-> name, task |-> task, value |-> value]

Values(form, name, task) ==
    LET Is(f) == f.name = name /\ f.task = task IN SelectSeq(form, Is)

Present(form, name, task) == Values(form, name, task) # <<>>

\* The first pair with this key.
Field(form, name, task) == Values(form, name, task)[1].value

Set(record, name, value) ==
    [record EXCEPT ![name] = IF name \in Optional THEN Opt(value)
                             ELSE IF name \in Trimmed THEN Trim[value] ELSE value]

EditTask(task, i, form) ==
    LET Apply(t, name) == IF Present(form, name, i) THEN Set(t, name, Field(form, name, i)) ELSE t
    IN  FoldLeft(Apply, task, Fields)

\* The checked boxes, each once; a box that is not checked sends nothing.
CheckedDeps(form) ==
    LET boxes == Values(form, "dep", 0)
        Add(deps, box) == LET d == Dep(box.value[1], box.value[2])
                          IN  IF d \in ToSet(deps) THEN deps ELSE Append(deps, d)
    IN  FoldLeft(Add, <<>>, boxes)

Edited(p, form) ==
    LET At(t) == EditTask(p.tasks[t], t, form)
    IN  [v |-> p.v,
         epic |-> [f \in {"title", "description"} |->
                     LET key == "epic_" \o f IN
                     IF Present(form, key, 0) THEN Field(form, key, 0) ELSE p.epic[f]],
         tasks |-> [t \in DOMAIN p.tasks |-> At(t)],
         dependencies |-> IF Present(form, "epic_title", 0) THEN CheckedDeps(form) ELSE p.dependencies]

\* A version that removes the Task before the fields are applied.
ApplyFormRemovalFirst(p, form) ==
    IF ~Present(form, "remove", 0) THEN [p |-> Edited(p, form), failed |-> FALSE]
    ELSE LET i == Field(form, "remove", 0)
         IN  IF i \notin DOMAIN p.tasks THEN [p |-> p, failed |-> TRUE]
             ELSE [p |-> Edited(RemoveTask(p, i), form), failed |-> FALSE]

\* Removal comes last: the form's numbers are the ones before it.
ApplyForm(p, form) ==
    LET edited == Edited(p, form)
    IN  IF ~Present(form, "remove", 0) THEN [p |-> edited, failed |-> FALSE]
        ELSE LET i == Field(form, "remove", 0)
             IN  IF i \notin DOMAIN p.tasks THEN [p |-> edited, failed |-> TRUE]
                 ELSE [p |-> RemoveTask(edited, i), failed |-> FALSE]

Shown(p, t, name) ==
    LET value == p.tasks[t][name]
    IN  IF name \in Optional THEN IF value = <<>> THEN "" ELSE value[1] ELSE value

\* The form of a Proposal whose boxes are the pairs of Tasks that Checked.
Form(p, Checked(_, _)) ==
    LET n == 1..Len(p.tasks)
        Text(t) == [k \in DOMAIN Fields |-> Pair(Fields[k], t, Shown(p, t, Fields[k]))]
        Ticked(t, m) == t # m /\ Checked(t, m)
        Boxes(t) == LET IsTicked(m) == Ticked(t, m)
                        ticked == SelectSeq([m \in n |-> m], IsTicked)
                    IN  [k \in DOMAIN ticked |-> Pair("dep", 0, <<t, ticked[k]>>)]
    IN  <<Pair("epic_title", 0, p.epic.title), Pair("epic_description", 0, p.epic.description)>> \o
        FlattenSeq([t \in n |-> Text(t) \o Boxes(t)])

\* What the browser submits of the editor when nothing is changed.
Editor(p) == Form(p, LAMBDA t, m : Dep(t, m) \in ToSet(p.dependencies))

----------------------------------------------------------------------------
(* What is asked of Beads *)

\* The calls of bd for a Proposal, in order: the Epic, its Tasks, the Epic's
\* dependency on each of them, and theirs.
Calls(p) ==
    <<[call |-> "create", id |-> 0, title |-> p.epic.title]>> \o
    [t \in DOMAIN p.tasks |-> [call |-> "create", id |-> t, title |-> p.tasks[t].title]] \o
    [t \in DOMAIN p.tasks |-> [call |-> "add", blocked |-> 0, blocker |-> t]] \o
    [k \in DOMAIN p.dependencies |-> [call |-> "add", blocked |-> p.dependencies[k].blocked,
                                                        blocker |-> p.dependencies[k].blocker]]

\* bd answers each call "ok", "failed" (it ran and said no) or "broken" (it
\* could not be run).  A dependency that bd refuses is a warning.
CreateFromProposal(p, answers) ==
    LET calls == Calls(p)
        Ends(k) == answers[k] = "broken" \/ (answers[k] = "failed" /\ calls[k].call = "create")
        ends == {k \in DOMAIN calls : Ends(k)}
        last == IF ends = {} THEN Len(calls) ELSE CHOOSE k \in ends : \A m \in ends : k <= m
    IN  IF CliValidate(p) # "" THEN [ok |-> FALSE, made |-> {}]
        ELSE [ok |-> ends = {}, made |-> {calls[k] : k \in {m \in 1..last : answers[m] = "ok"}}]

----------------------------------------------------------------------------
(* The report *)

Mentions(text, part) ==
    \E i \in 0 .. Len(text) - Len(part) : SubSeq(text, i + 1, i + Len(part)) = part

\* Test names, paths, Type::method and the heads of sections; a head counts
\* whatever it says.
Tracked(mention) ==
    \/ mention.kind \in {"test", "path", "head"}
    \/ mention.kind = "qualified" /\ mention.text[1] \notin Library /\ Last(mention.text) \notin Noise

Identifiers(spec) == {spec[i].text : i \in {i \in DOMAIN spec : Tracked(spec[i])}}

\* The fields of a Task, each ended by a line break.
Combined(ticket) == FlattenSeq([f \in DOMAIN ticket |-> ticket[f] \o <<"\n">>])

\* Tasks without description, acceptance criteria or design.
Incomplete(tickets) == {t \in DOMAIN tickets : \E f \in 1..3 : tickets[t][f] = <<>>}

\* What bd answers is <<>> if it fails; there is no report then, and no error.
Skipped(listed) == listed = <<>> \/ listed[1] = <<>>

Report(spec, listed) ==
    IF Skipped(listed) THEN [is |-> "skipped", covered |-> 0, missing |-> {}, incomplete |-> {}]
    ELSE LET missing == {id \in Identifiers(spec) :
                            \A t \in DOMAIN listed[1] : ~Mentions(Combined(listed[1][t]), id)}
         IN  [is |-> "report", covered |-> Cardinality(Identifiers(spec) \ missing), missing |-> missing,
              incomplete |-> Incomplete(listed[1])]
=============================================================================
