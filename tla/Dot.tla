-------------------------------- MODULE Dot --------------------------------
(***************************************************************************)
(* Pipeline files: how the statements of one become a graph               *)
(* (attractor-dot/src/parser.rs), how a graph is printed again             *)
(* (serializer.rs), and what the lexer does to text before either          *)
(* (strip_comments, quoted_string, escape_string).                         *)
(*                                                                         *)
(* A file is a sequence of statements; attributes are functions from keys  *)
(* to tagged values <<type, value>>.  Characters matter only in the part   *)
(* about text, where a file is a sequence of the characters that the lexer *)
(* tells apart.                                                            *)
(***************************************************************************)
EXTENDS Integers, SequencesExt

CONSTANTS
    Ids,        \* node ids in their lexical order, a sequence
    Dotted      \* attribute keys with a dot in them

NoAttrs == [k \in {} |-> 0]

Str(v) == <<"string", v>>

----------------------------------------------------------------------------
(* Text *)

\* A character is a byte but for "e'", a letter of two bytes.
Bytes(text) == FlattenSeq([i \in DOMAIN text |->
                  IF text[i] = "e'" THEN <<"C3", "A9">> ELSE <<text[i]>>])

\* strip_comments pushes every byte as a character of its own, so the bytes
\* of a letter outside ASCII are letters afterwards.
RECURSIVE StripFrom(_), StripLine(_), StripBlock(_), StripString(_)

StripLine(b) == IF b = <<>> \/ Head(b) = "nl" THEN StripFrom(b) ELSE StripLine(Tail(b))

StripBlock(b) ==
    IF Len(b) < 2 THEN StripFrom(b)
    ELSE IF b[1] = "*" /\ b[2] = "/" THEN StripFrom(SubSeq(b, 3, Len(b)))
    ELSE (IF b[1] = "nl" THEN <<"nl">> ELSE <<>>) \o StripBlock(Tail(b))

StripString(b) ==
    IF b = <<>> THEN <<>>
    ELSE IF b[1] = "\\" /\ Len(b) > 1
         THEN <<b[1], b[2]>> \o StripString(SubSeq(b, 3, Len(b)))
    ELSE IF b[1] = "quote" THEN <<"quote">> \o StripFrom(Tail(b))
    ELSE <<b[1]>> \o StripString(Tail(b))

StripFrom(b) ==
    IF b = <<>> THEN <<>>
    ELSE IF Len(b) > 1 /\ b[1] = "/" /\ b[2] = "/" THEN StripLine(SubSeq(b, 3, Len(b)))
    ELSE IF Len(b) > 1 /\ b[1] = "/" /\ b[2] = "*" THEN StripBlock(SubSeq(b, 3, Len(b)))
    ELSE IF b[1] = "quote" THEN <<"quote">> \o StripString(Tail(b))
    ELSE <<b[1]>> \o StripFrom(Tail(b))

StripComments(text) == StripFrom(Bytes(text))

\* quoted_string: the value of a literal whose characters between the quotes
\* are b, and escape_string, which writes a value between quotes.
RECURSIVE Unquote(_)
Unquote(b) ==
    IF b = <<>> THEN <<>>
    ELSE IF b[1] = "\\" /\ Len(b) > 1
         THEN (CASE b[2] = "n" -> <<"nl">>
                 [] b[2] \in {"\\", "quote"} -> <<b[2]>>
                 [] OTHER -> <<"\\", b[2]>>) \o Unquote(SubSeq(b, 3, Len(b)))
    ELSE <<b[1]>> \o Unquote(Tail(b))

Escape(value) ==
    FlattenSeq([i \in DOMAIN value |->
        IF value[i] \in {"\\", "quote"} THEN <<"\\", value[i]>> ELSE <<value[i]>>])

\* What the parser reads back for a value that was written between quotes.
ReadBack(value) ==
    LET b == StripComments(<<"quote">> \o Escape(value) \o <<"quote">>)
    IN  Unquote(SubSeq(b, 2, Len(b) - 1))

Newlines(b) == Len(SelectSeq(b, LAMBDA c : c = "nl"))

----------------------------------------------------------------------------
(* Statements to graph *)

GraphAttrs(attrs)    == [kind |-> "graph", attrs |-> attrs]
NodeDefaults(attrs)  == [kind |-> "node defaults", attrs |-> attrs]
EdgeDefaults(attrs)  == [kind |-> "edge defaults", attrs |-> attrs]
Node(id, attrs)      == [kind |-> "node", id |-> id, attrs |-> attrs]
Edge(chain, attrs)   == [kind |-> "edge", chain |-> chain, attrs |-> attrs]
Subgraph(body)       == [kind |-> "subgraph", body |-> body]
\* key = value on its own: the key is one identifier.
GraphAttrDecl(k, v)  == [kind |-> "declaration", key |-> k, value |-> v]

Scope(nodeDefaults, edgeDefaults) ==
    [attrs |-> NoAttrs, nodes |-> [n \in {} |-> 0], edges |-> <<>>, subgraphs |-> <<>>,
     node_defaults |-> nodeDefaults, edge_defaults |-> edgeDefaults]

\* Nodes an edge names for the first time exist with the defaults of the moment.
Implied(scope, chain) ==
    [n \in Range(chain) |-> [attrs |-> scope.node_defaults, authored |-> NoAttrs]]

ChainEdges(scope, s) ==
    [i \in 1..(Len(s.chain) - 1) |->
        [from |-> s.chain[i], to |-> s.chain[i + 1], attrs |-> s.attrs @@ scope.edge_defaults]]

RECURSIVE MergeStatements(_, _, _)

MergeStatement(scope, s) ==
    CASE s.kind = "graph"         -> [scope EXCEPT !.attrs = s.attrs @@ @]
      [] s.kind = "declaration"   -> [scope EXCEPT !.attrs = (s.key :> s.value) @@ @]
      [] s.kind = "node defaults" -> [scope EXCEPT !.node_defaults = s.attrs @@ @]
      [] s.kind = "edge defaults" -> [scope EXCEPT !.edge_defaults = s.attrs @@ @]
      [] s.kind = "node" ->
           [scope EXCEPT !.nodes = (s.id :> [attrs |-> s.attrs @@ scope.node_defaults,
                                             authored |-> s.attrs]) @@ @]
      [] s.kind = "edge" ->
           [scope EXCEPT !.edges = @ \o ChainEdges(scope, s), !.nodes = @ @@ Implied(scope, s.chain)]
      [] s.kind = "subgraph" ->
           LET inner == MergeStatements(s.body, scope.node_defaults, scope.edge_defaults)
           IN  [scope EXCEPT !.subgraphs = @ \o <<[inner EXCEPT !.subgraphs = <<>>]>>
                                             \o inner.subgraphs]

MergeStatements(stmts, nodeDefaults, edgeDefaults) ==
    FoldLeft(MergeStatement, Scope(nodeDefaults, edgeDefaults), stmts)

\* The grammar reads a key with a dot inside [...] but not on its own.
RECURSIVE Readable(_)
Readable(stmts) ==
    \A i \in DOMAIN stmts :
        /\ stmts[i].kind = "declaration" => stmts[i].key \notin Dotted
        /\ stmts[i].kind = "subgraph" => Readable(stmts[i].body)

Parse(stmts) == MergeStatements(stmts, NoAttrs, NoAttrs)

----------------------------------------------------------------------------
(* Graph to statements *)

InOrder(ids) == SelectSeq(Ids, LAMBDA n : n \in ids)

Inherited(node) == [k \in DOMAIN node.attrs \ DOMAIN node.authored |-> node.attrs[k]]

DefaultsBlock(attrs) == IF DOMAIN attrs = {} THEN <<>> ELSE <<NodeDefaults(attrs)>>

\* A version that writes the nodes by id alone.
NextById(nodes) == Head(InOrder(DOMAIN nodes))

\* The next node to write: one that inherits no key that another unwritten
\* node does not have at all; ids break ties.
NextToWrite(nodes) ==
    LET free == {n \in DOMAIN nodes : \A m \in DOMAIN nodes \ {n} :
                    DOMAIN Inherited(nodes[n]) \subseteq DOMAIN nodes[m].attrs}
    IN  Head(InOrder(IF free = {} THEN DOMAIN nodes ELSE free))

RECURSIVE WriteNodes(_, _)
WriteNodes(nodes, defaults) ==
    IF DOMAIN nodes = {} THEN <<>>
    ELSE LET n == NextToWrite(nodes)
             inherited == Inherited(nodes[n])
             delta == [k \in {j \in DOMAIN inherited :
                                 ~(j \in DOMAIN defaults /\ defaults[j] = inherited[j])}
                         |-> inherited[k]]
         IN  DefaultsBlock(delta) \o <<Node(n, nodes[n].authored)>>
             \o WriteNodes([m \in DOMAIN nodes \ {n} |-> nodes[m]], delta @@ defaults)

WriteAttrs(attrs) == SetToSeq({GraphAttrDecl(k, attrs[k]) : k \in DOMAIN attrs})

WriteEdges(edges) == [i \in DOMAIN edges |-> Edge(<<edges[i].from, edges[i].to>>, edges[i].attrs)]

\* Subgraphs first, the defaults of the scope last.
RECURSIVE WriteBody(_)
WriteBody(scope) ==
    WriteAttrs(scope.attrs)
    \o [i \in DOMAIN scope.subgraphs |-> Subgraph(WriteBody(scope.subgraphs[i]))]
    \o WriteNodes(scope.nodes, NoAttrs)
    \o WriteEdges(scope.edges)
    \o DefaultsBlock(scope.node_defaults)
    \o (IF DOMAIN scope.edge_defaults = {} THEN <<>> ELSE <<EdgeDefaults(scope.edge_defaults)>>)

ToDotString(graph) == WriteBody(graph)
=============================================================================
