-------------------------- MODULE MCEdgeSelection --------------------------
(***************************************************************************)
(* Every small list of outgoing edges with every small outcome, and every  *)
(* other order in which the graph could have declared the same edges.      *)
(***************************************************************************)
EXTENDS EdgeSelection, FiniteSets

CONSTANT MaxEdges

VARIABLES edges, outcome

MCRank == [n \in {"a", "b"} |-> IF n = "a" THEN 1 ELSE 2]
MCNormal == [l \in {"[Y] Yes", "yes", "no"} |-> IF l = "no" THEN "no" ELSE "yes"]

\* Conditions on the outcome: one that holds of a failed node, one that does not.
Conditions == {[conditional |-> FALSE, clauses |-> {}]} \cup
    {[conditional |-> TRUE,
      clauses |-> {[key |-> "outcome", op |-> op, value |-> "success"]}] :
        op \in {"=", "!="}}

Edge == {[to |-> n, weight |-> w, label |-> l,
          conditional |-> c.conditional, clauses |-> c.clauses] :
            n \in {"a", "b"}, w \in {0, 1}, l \in {NoLabel, "yes"},
            c \in Conditions}

Outcome == [status : {"fail"}, label : {NoLabel, "[Y] Yes", "no"},
            suggested : {<<>>, <<"b">>, <<"c", "b", "a">>}]

Resolved == [outcome |-> outcome.status]
Chosen(es) == SelectEdge(es, outcome, Resolved)

Init ==
    /\ edges \in UNION {[1..n -> Edge] : n \in 0..MaxEdges}
    /\ outcome \in Outcome

Swap ==
    /\ \E i \in 1..Len(edges) - 1 :
        edges' = [edges EXCEPT ![i] = edges[i + 1], ![i + 1] = edges[i]]
    /\ UNCHANGED outcome

Next == Swap

(* A node with edges always has exactly one edge to follow, and only a     *)
(* node without edges has none (select_edge, docs/guide.md "Edge Selection *)
(* Algorithm").                                                            *)
ExactlyOne == Cardinality(Chosen(edges)) = IF edges = <<>> THEN 0 ELSE 1

(* The cascade, step by step, is the foremost edge of one order: no step   *)
(* hides an edge a later step should have been given (edge_selection.rs    *)
(* 25-76).                                                                 *)
CascadeIsAnOrder == Chosen(edges) = Foremost(edges, outcome, Resolved)

Decided(es) == {es[i] : i \in Chosen(es)}

(* Where a condition or a weight decides, the order in which the graph     *)
(* declares the edges to different nodes does not matter: re-declaring a   *)
(* graph in another order does not re-route a Run.                         *)
OrderOfEdges ==
    (/\ \E i \in Chosen(edges) : Step(edges, outcome, Resolved, i) \in {1, 4}
     /\ \A i, j \in DOMAIN edges : i # j => edges[i].to # edges[j].to)
        => Decided(edges') = Decided(edges)
=============================================================================
