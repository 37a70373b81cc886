--------------------------- MODULE EdgeSelection ---------------------------
(***************************************************************************)
(* Which outgoing edge a completed node follows.  select_edge of           *)
(* attractor-pipeline/src/edge_selection.rs is a cascade: edges whose      *)
(* condition holds, then the outcome's preferred label, then its suggested *)
(* next ids, then the unconditional edges by weight; with only unmatched   *)
(* conditions left, the first edge.                                        *)
(*                                                                         *)
(* The edges of a node are a sequence, in the order the graph declares     *)
(* them, because two of the steps take the first edge that fits.  Every    *)
(* step is written as the SET of edge indices it may return: empty where   *)
(* the code goes on to the next step, and otherwise a singleton.           *)
(***************************************************************************)
EXTENDS Integers, Sequences

CONSTANTS
    Rank,       \* the place of a node id in the order of Rust's String::cmp
    Normal      \* normalize_label as a function on the labels in use

\* Ids are compared by their bytes: no two of them are equal.
ASSUME RankAssumption ==
    \A n, o \in DOMAIN Rank : Rank[n] \in Int /\ (Rank[n] = Rank[o] => n = o)

\* An absent label.  An edge without a condition has FALSE in "conditional"; a
\* condition that does not parse never gets here, condition_syntax rejects it.
NoLabel == "none"

(* A clause compares what `resolve` gives for its key with a literal; an   *)
(* expression holds when all its clauses do, so the empty one always does. *)
ClauseHolds(clause, resolve) ==
    (clause.op = "=") <=> (resolve[clause.key] = clause.value)

ConditionHolds(edge, resolve) ==
    /\ edge.conditional
    /\ \A clause \in edge.clauses : ClauseHolds(clause, resolve)

(* The edges numbered I with the highest weight, ties going to the         *)
(* smallest target; max_by keeps the last of several equal elements.       *)
Beats(edges, i, j) ==
    \/ edges[i].weight > edges[j].weight
    \/ /\ edges[i].weight = edges[j].weight
       /\ \/ Rank[edges[i].to] < Rank[edges[j].to]
          \/ edges[i].to = edges[j].to /\ i >= j

Best(edges, I) == {i \in I : \A j \in I : Beats(edges, i, j)}

FirstOf(I) == {i \in I : \A j \in I : i <= j}

Matching(edges, resolve) ==
    {i \in DOMAIN edges : ConditionHolds(edges[i], resolve)}

SameLabel(l, k) == Normal[l] = Normal[k]

Labelled(edges, outcome) ==
    {i \in DOMAIN edges :
        /\ outcome.label # NoLabel
        /\ edges[i].label # NoLabel
        /\ SameLabel(edges[i].label, outcome.label)}

SuggestedByEdge(edges, outcome) ==
    {i \in DOMAIN edges :
        \E k \in DOMAIN outcome.suggested : edges[i].to = outcome.suggested[k]}

(* The outer loop runs over the suggestions, the inner one over the edges. *)
Suggested(edges, outcome) ==
    LET hits == {k \in DOMAIN outcome.suggested :
                    \E i \in DOMAIN edges : edges[i].to = outcome.suggested[k]}
    IN  {i \in DOMAIN edges :
            \E k \in FirstOf(hits) : edges[i].to = outcome.suggested[k]}

Unconditional(edges) == {i \in DOMAIN edges : ~edges[i].conditional}

(* Only unmatched conditions are left: the code warns and takes the first. *)
Fallback(edges) == FirstOf(DOMAIN edges)

(* The index of the edge taken; no edge only where the node has none.      *)
SelectEdge(edges, outcome, resolve) ==
    LET matching  == Matching(edges, resolve)
        labelled  == Labelled(edges, outcome)
        suggested == Suggested(edges, outcome)
        open      == Unconditional(edges)
    IN  CASE matching # {}  -> Best(edges, matching)
          [] matching = {} /\ labelled # {}  -> FirstOf(labelled)
          [] matching = {} /\ labelled = {} /\ suggested # {}
                -> FirstOf(suggested)
          [] matching = {} /\ labelled = {} /\ suggested = {} /\ open # {}
                -> Best(edges, open)
          [] OTHER -> Fallback(edges)
----------------------------------------------------------------------------
(* The same choice, defined by comparing edges one with another: a better  *)
(* step of the cascade first, then what that step goes by.                 *)
Step(edges, outcome, resolve, i) ==
    IF ConditionHolds(edges[i], resolve) THEN 1
    ELSE IF i \in Labelled(edges, outcome) THEN 2
    ELSE IF \E k \in DOMAIN outcome.suggested : outcome.suggested[k] = edges[i].to THEN 3
    ELSE IF ~edges[i].conditional THEN 4 ELSE 5

\* n is suggested, and before o if that is suggested at all.
SuggestedBefore(outcome, n, o) ==
    \E k \in DOMAIN outcome.suggested :
        /\ outcome.suggested[k] = n
        /\ \A l \in DOMAIN outcome.suggested : outcome.suggested[l] = o => k < l

Before(edges, outcome, resolve, i, j) ==
    LET e == edges[i]
        f == edges[j]
        step == Step(edges, outcome, resolve, i)
    IN  IF step # Step(edges, outcome, resolve, j) THEN step < Step(edges, outcome, resolve, j)
        ELSE CASE step \in {1, 4} ->
                    IF e.weight # f.weight THEN e.weight > f.weight
                    ELSE IF e.to # f.to THEN Rank[e.to] < Rank[f.to]
                    ELSE i > j
               [] step = 3 ->
                    IF e.to # f.to THEN SuggestedBefore(outcome, e.to, f.to) ELSE i < j
               [] OTHER -> i < j

Foremost(edges, outcome, resolve) ==
    {i \in DOMAIN edges : \A j \in DOMAIN edges \ {i} : Before(edges, outcome, resolve, i, j)}

\* What the choice needs of the edges of a node and of its outcome.
Choosable(edges, outcome) ==
    /\ Len(edges) \in Nat /\ DOMAIN edges = 1 .. Len(edges)
    /\ \A i \in DOMAIN edges : edges[i].weight \in Int /\ edges[i].to \in DOMAIN Rank
    /\ Len(outcome.suggested) \in Nat /\ DOMAIN outcome.suggested = 1 .. Len(outcome.suggested)
=============================================================================
