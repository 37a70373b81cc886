--------------------------------- MODULE Plans ---------------------------------
(***************************************************************************)
(* The documents a person uploads to the Monitor: what is accepted, under  *)
(* which name a document is stored and how the Pipeline is named after it  *)
(* (attractor-monitor plans.rs, pipeline.rs), and what `pas generate       *)
(* --plan` and `pas decompose --plan` read back (commands/plan_input.rs).  *)
(* A name is a sequence of letters; "md" stands for an accepted extension  *)
(* in letters of its own and "e'" for a letter outside ASCII.              *)
(***************************************************************************)
EXTENDS Integers, Sequences, SequencesExt

CONSTANTS MaxFiles, Numbers     \* the limit; Numbers[i] is "01", "02", ...

Separators == {"/"}
SafeLetters(letters) == letters \cap ({"a", "md", ".", "-", "_"} \cup ToSet(Numbers))

\* What comes after the last of the letters, and all of it without one.
AfterLast(name, letters) ==
    LET at == {k \in DOMAIN name : name[k] \in letters}
    IN  IF at = {} THEN name
        ELSE SubSeq(name, 1 + CHOOSE k \in at : \A m \in at : m <= k, Len(name))

Without(name, n) == SubSeq(name, 1, Len(name) - n)

ClientBasename(name) == AfterLast(name, Separators)

HasAllowedExtension(name) ==
    LET base == ClientBasename(name) IN "." \in ToSet(base) /\ AfterLast(base, {"."}) = <<"md">>

\* Only safe letters survive; leading dots go.
CleanName(name) ==
    LET base   == ClientBasename(name)
        letter == [k \in DOMAIN base |-> IF base[k] \in SafeLetters(ToSet(base)) THEN base[k] ELSE "_"]
        solid  == {k \in DOMAIN letter : letter[k] # "."}
    IN  IF solid = {} THEN <<>> ELSE SubSeq(letter, CHOOSE k \in solid : \A m \in solid : k <= m, Len(letter))

StoredName(i, name) == <<Numbers[i], "-">> \o CleanName(name)

\* An upload has a name, a content, and whether it is small enough and UTF-8.
ValidatePlan(uploads, isRepo) ==
    /\ uploads # <<>> /\ Len(uploads) <= MaxFiles
    /\ \A k \in DOMAIN uploads : HasAllowedExtension(uploads[k].name) /\ uploads[k].fits /\ uploads[k].utf8
    /\ isRepo

\* The folder docs: the content of every name, a later file of the same name
\* in place of an earlier one; and the names in plan.json.
WritePlan(uploads) ==
    LET names == [k \in DOMAIN uploads |-> StoredName(k, uploads[k].name)]
        latest(n) == CHOOSE k \in DOMAIN names : names[k] = n /\ \A m \in k + 1..Len(names) : names[m] # n
    IN  [files |-> names, docs |-> [n \in ToSet(names) |-> uploads[latest(n)]]]

----------------------------------------------------------------------------
(* The commands *)

\* The extension of a path: none for a name that has no dot but a first one.
Extension(name) ==
    IF \E k \in 2..Len(name) : name[k] = "." THEN AfterLast(name, {"."}) ELSE <<>>

\* The Plan text, document by document, or <<>> when a file is refused.
LoadPlan(plan) ==
    LET n == Len(plan.files)
        Good(name) == Extension(name) = <<"md">> /\ plan.docs[name].fits /\ plan.docs[name].utf8
    IN  IF n = 0 \/ n > MaxFiles \/ \E k \in 1..n : ~Good(plan.files[k]) THEN <<>>
        ELSE [k \in 1..n |-> [number |-> k, of |-> n, content |-> plan.docs[plan.files[k]].content]]

SafeName(name) ==
    name # <<>> /\ name[1] # "." /\ ToSet(name) = SafeLetters(ToSet(name))

\* The name of the Pipeline of a Plan without an Epic: the last document's,
\* without its number and extension; "bad" is the reason it has none.
PipelineName(plan) ==
    LET last == plan.files[Len(plan.files)]
        stem == IF "." \in ToSet(last) THEN Without(last, 1 + Len(AfterLast(last, {"."}))) ELSE last
        rest == IF Len(stem) >= 2 /\ stem[1] \in ToSet(Numbers) /\ stem[2] = "-" THEN SubSeq(stem, 3, Len(stem)) ELSE stem
        dots == \E k \in 1..Len(rest) - 1 : rest[k] = "." /\ rest[k + 1] = "."
    IN  IF SafeName(rest) /\ ~dots THEN rest ELSE <<"bad">>
=============================================================================
