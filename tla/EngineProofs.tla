---------------------------- MODULE EngineProofs ----------------------------
(***************************************************************************)
(* Proofs about Engine for every plan and every limit, whatever crashes,   *)
(* stops and failed writes come between: its types and the bound on the    *)
(* handlers a Run starts; what a process killed inside a handler leaves on *)
(* disk, and that no visit starts more handlers than it has attempts; that *)
(* the checkpoint is a walk of the graph, never goes back, is only cleared *)
(* at the end and between two stages holds all the process knows; that a   *)
(* goal gate it calls satisfied is satisfied; and that all the processes   *)
(* of a Run together implement DurableRun.                                 *)
(***************************************************************************)
EXTENDS Engine, WellFoundedInduction, TLAPS

USE DEF Statuses, NoStatus

(* The edge select_edge takes is one of the node's edges.                  *)
LEMMA SelectedIsAnEdge ==
    ASSUME NEW edges, NEW outcome, NEW resolve
    PROVE  SelectEdge(edges, outcome, resolve) \subseteq DOMAIN edges
<1>1. Matching(edges, resolve) \subseteq DOMAIN edges
  BY DEF Matching
<1>2. Labelled(edges, outcome) \subseteq DOMAIN edges
  BY DEF Labelled
<1>3. Suggested(edges, outcome) \subseteq DOMAIN edges
  BY DEF Suggested
<1>4. Unconditional(edges) \subseteq DOMAIN edges
  BY DEF Unconditional
<1>5. \A I : Best(edges, I) \subseteq I /\ FirstOf(I) \subseteq I
  BY DEF Best, FirstOf
<1>6. Fallback(edges) \subseteq DOMAIN edges
  BY <1>5 DEF Fallback
<1> QED
  BY <1>1, <1>2, <1>3, <1>4, <1>5, <1>6 DEF SelectEdge

----------------------------------------------------------------------------
(* The cascade of select_edge, for any edges and outcome                   *)

(* A set of numbers has a least one, and induction over sets of numbers.   *)
LEMMA Least ==
    ASSUME NEW T \in SUBSET Nat, T # {}
    PROVE  \E n \in T : \A m \in T : n <= m
<1> DEFINE R == {ss \in Nat \X Nat : ss[1] < ss[2]}
<1>1. IsWellFoundedOn(R, Nat)
  BY NatLessThanWellFounded DEF OpToRel
<1> HIDE DEF R
<1>2. PICK x \in T : \A y \in T : ~(<<y, x>> \in R)
  BY <1>1, WFMin
<1>3. \A y \in T : ~(y < x)
  BY <1>2 DEF R
<1> QED
  BY <1>2, <1>3

LEMMA Induct ==
    ASSUME NEW T, 0 \in T, \A n \in Nat : n \in T => n + 1 \in T
    PROVE  Nat \subseteq T
<1> SUFFICES ASSUME ~(Nat \subseteq T) PROVE FALSE
  OBVIOUS
<1>1. Nat \ T \in SUBSET Nat /\ Nat \ T # {}
  OBVIOUS
<1>2. PICK n \in Nat \ T : \A m \in Nat \ T : n <= m
  BY <1>1, Least
<1>3. n # 0 /\ n - 1 \in Nat
  BY <1>2
<1>4. n - 1 \in T
  BY <1>2, <1>3
<1> QED
  BY <1>2, <1>3, <1>4

(* The first of a set of numbers is one.                                   *)
LEMMA FirstIsOne ==
    ASSUME NEW I \in SUBSET Nat, I # {}
    PROVE  \E i \in I : FirstOf(I) = {i} /\ \A j \in I : i <= j
<1>1. PICK i \in I : \A j \in I : i <= j
  BY Least
<1>2. \A j \in I : (\A k \in I : j <= k) => j = i
  <2> TAKE j \in I
  <2> HAVE \A k \in I : j <= k
  <2>1. i <= j /\ j <= i /\ i \in Nat /\ j \in Nat
    BY <1>1
  <2> QED
    BY <2>1
<1>3. FirstOf(I) = {i}
  BY <1>1, <1>2 DEF FirstOf
<1> QED
  BY <1>1, <1>3

(* Beats is a total order on the edges of a node.                          *)
LEMMA BeatsIsAnOrder ==
    ASSUME NEW edges, NEW outcome, Choosable(edges, outcome),
           NEW i \in DOMAIN edges, NEW j \in DOMAIN edges, NEW k \in DOMAIN edges
    PROVE  /\ Beats(edges, i, i)
           /\ Beats(edges, i, j) \/ Beats(edges, j, i)
           /\ Beats(edges, i, j) /\ Beats(edges, j, k) => Beats(edges, i, k)
           /\ Beats(edges, i, j) /\ Beats(edges, j, i) => i = j
<1> DEFINE W(n) == edges[n].weight
           G(n) == edges[n].to
<1>1. \A n \in DOMAIN edges : n \in Nat /\ W(n) \in Int /\ G(n) \in DOMAIN Rank /\ Rank[G(n)] \in Int
  <2> TAKE n \in DOMAIN edges
  <2>1. n \in Nat /\ W(n) \in Int /\ G(n) \in DOMAIN Rank
    BY DEF Choosable
  <2>2. \A o \in DOMAIN Rank : Rank[o] \in Int
    BY RankAssumption DEF RankAssumption
  <2> HIDE DEF G
  <2> QED
    BY <2>1, <2>2
<1>2. \A n, o \in DOMAIN edges : Rank[G(n)] = Rank[G(o)] => G(n) = G(o)
  BY <1>1, RankAssumption DEF RankAssumption
<1>3. \A n, o \in DOMAIN edges : Beats(edges, n, o) <=>
          \/ W(n) > W(o)
          \/ W(n) = W(o) /\ (Rank[G(n)] < Rank[G(o)] \/ (G(n) = G(o) /\ n >= o))
  BY DEF Beats
<1> HIDE DEF W, G
<1>4. Beats(edges, i, i)
  BY <1>1, <1>3
<1>5. Beats(edges, i, j) \/ Beats(edges, j, i)
  BY <1>1, <1>2, <1>3
<1>6. Beats(edges, i, j) /\ Beats(edges, j, k) => Beats(edges, i, k)
  BY <1>1, <1>3
<1>7. Beats(edges, i, j) /\ Beats(edges, j, i) => i = j
  BY <1>1, <1>3
<1> QED
  BY <1>4, <1>5, <1>6, <1>7

(* The best of a set of edges is one, and beats every other.               *)
LEMMA BestIsOne ==
    ASSUME NEW edges, NEW outcome, Choosable(edges, outcome),
           NEW I \in SUBSET DOMAIN edges, I # {}
    PROVE  \E i \in I : Best(edges, I) = {i} /\ \A j \in I : Beats(edges, i, j)
<1> DEFINE T == {n \in Nat : \A J \in SUBSET DOMAIN edges :
                    J # {} /\ (\A j \in J : j <= n) => \E i \in J : \A j \in J : Beats(edges, i, j)}
<1>1. \A j \in DOMAIN edges : j \in Nat /\ j >= 1 /\ j <= Len(edges)
  BY DEF Choosable
<1>2. 0 \in T
  BY <1>1
<1>3. ASSUME NEW n \in Nat, n \in T
      PROVE  n + 1 \in T
  <2> SUFFICES ASSUME NEW J \in SUBSET DOMAIN edges, J # {}, \A j \in J : j <= n + 1
               PROVE  \E i \in J : \A j \in J : Beats(edges, i, j)
    OBVIOUS
  <2>1. CASE n + 1 \notin J
    <3>1. \A j \in J : j <= n
      BY <1>1, <2>1
    <3> QED
      BY <1>3, <3>1
  <2>2. CASE n + 1 \in J /\ J = {n + 1}
    BY <2>2, BeatsIsAnOrder
  <2>3. CASE n + 1 \in J /\ J # {n + 1}
    <3>1. J \ {n + 1} # {} /\ (\A j \in J \ {n + 1} : j <= n) /\ J \ {n + 1} \in SUBSET DOMAIN edges
      BY <1>1, <2>3
    <3>2. PICK i \in J \ {n + 1} : \A j \in J \ {n + 1} : Beats(edges, i, j)
      BY <1>3, <3>1
    <3>3. CASE Beats(edges, i, n + 1)
      BY <3>2, <3>3
    <3>4. CASE ~Beats(edges, i, n + 1)
      <4>1. Beats(edges, n + 1, i) /\ Beats(edges, n + 1, n + 1)
        BY <2>3, <3>2, <3>4, BeatsIsAnOrder
      <4>2. \A j \in J : Beats(edges, n + 1, j)
        BY <2>3, <3>2, <4>1, BeatsIsAnOrder
      <4> QED
        BY <2>3, <4>2
    <3> QED
      BY <3>3, <3>4
  <2> QED
    BY <2>1, <2>2, <2>3
<1> HIDE DEF T
<1>4. Nat \subseteq T
  BY <1>2, <1>3, Induct
<1>5. Len(edges) \in T
  BY <1>4 DEF Choosable
<1>6. PICK i \in I : \A j \in I : Beats(edges, i, j)
  BY <1>1, <1>5 DEF T
<1>7. Best(edges, I) = {i}
  BY <1>6, BeatsIsAnOrder DEF Best
<1> QED
  BY <1>6, <1>7

(* Of two different targets, one that is suggested comes before the other  *)
(* or after it.                                                            *)
LEMMA SuggestionsAreOrdered ==
    ASSUME NEW edges, NEW outcome, Choosable(edges, outcome), NEW n, NEW o, n # o
    PROVE  ~(SuggestedBefore(outcome, n, o) /\ SuggestedBefore(outcome, o, n))
<1> SUFFICES ASSUME SuggestedBefore(outcome, n, o), SuggestedBefore(outcome, o, n)
             PROVE  FALSE
  OBVIOUS
<1>1. PICK k \in DOMAIN outcome.suggested :
        /\ outcome.suggested[k] = n
        /\ \A l \in DOMAIN outcome.suggested : outcome.suggested[l] = o => k < l
  BY DEF SuggestedBefore
<1>2. PICK l \in DOMAIN outcome.suggested :
        /\ outcome.suggested[l] = o
        /\ \A m \in DOMAIN outcome.suggested : outcome.suggested[m] = n => l < m
  BY DEF SuggestedBefore
<1>3. k < l /\ l < k /\ k \in Int /\ l \in Int
  BY <1>1, <1>2 DEF Choosable
<1> QED
  BY <1>3

LEMMA BeforeIsAsymmetric ==
    ASSUME NEW edges, NEW outcome, NEW resolve, Choosable(edges, outcome),
           NEW i \in DOMAIN edges, NEW j \in DOMAIN edges, i # j,
           Before(edges, outcome, resolve, i, j)
    PROVE  ~Before(edges, outcome, resolve, j, i)
<1> DEFINE S(n) == Step(edges, outcome, resolve, n)
<1>1. S(i) \in 1 .. 5 /\ S(j) \in 1 .. 5
  BY DEF Step
<1>2. /\ i \in Int /\ j \in Int /\ edges[i].weight \in Int /\ edges[j].weight \in Int
      /\ edges[i].to \in DOMAIN Rank /\ edges[j].to \in DOMAIN Rank
  BY DEF Choosable
<1>3. Rank[edges[i].to] \in Int /\ Rank[edges[j].to] \in Int
  BY <1>2, RankAssumption DEF RankAssumption
<1>4. CASE S(i) # S(j)
  BY <1>1, <1>4 DEF Before
<1>5. CASE S(i) = S(j) /\ S(i) \in {1, 4}
  BY <1>2, <1>3, <1>5 DEF Before
<1>6. CASE S(i) = S(j) /\ S(i) = 3
  BY <1>2, <1>6, SuggestionsAreOrdered DEF Before
<1>7. CASE S(i) = S(j) /\ S(i) \in {2, 5}
  BY <1>2, <1>7 DEF Before
<1> QED
  BY <1>1, <1>4, <1>5, <1>6, <1>7

\* The edge numbered i alone is chosen and alone is the foremost.
IsTheChoice(edges, outcome, resolve, i) ==
    /\ SelectEdge(edges, outcome, resolve) = {i}
    /\ \A j \in DOMAIN edges \ {i} : Before(edges, outcome, resolve, i, j)

(* What the best of the edges of step 1 or 4 is before.                    *)
LEMMA BestIsBefore ==
    ASSUME NEW edges, NEW outcome, NEW resolve, Choosable(edges, outcome),
           NEW i \in DOMAIN edges, NEW j \in DOMAIN edges, i # j,
           Step(edges, outcome, resolve, i) \in {1, 4},
           Step(edges, outcome, resolve, i) = Step(edges, outcome, resolve, j),
           Beats(edges, i, j)
    PROVE  Before(edges, outcome, resolve, i, j)
<1>1. /\ i \in Int /\ j \in Int /\ edges[i].weight \in Int /\ edges[j].weight \in Int
      /\ edges[i].to \in DOMAIN Rank /\ edges[j].to \in DOMAIN Rank
  BY DEF Choosable
<1>2. Rank[edges[i].to] \in Int /\ Rank[edges[j].to] \in Int
  BY <1>1, RankAssumption DEF RankAssumption
<1> QED
  BY <1>1, <1>2 DEF Before, Beats

LEMMA ChoiceExists ==
    ASSUME NEW edges, NEW outcome, NEW resolve, Choosable(edges, outcome), DOMAIN edges # {}
    PROVE  \E i \in DOMAIN edges : IsTheChoice(edges, outcome, resolve, i)
<1> DEFINE S(n) == Step(edges, outcome, resolve, n)
           M == Matching(edges, resolve)
           L == Labelled(edges, outcome)
           G == Suggested(edges, outcome)
           U == Unconditional(edges)
<1>0. DOMAIN edges \subseteq Nat /\ \A n \in DOMAIN edges : S(n) \in 1 .. 5
  BY DEF Choosable, Step
<1>1. /\ M \subseteq DOMAIN edges /\ L \subseteq DOMAIN edges
      /\ G \subseteq DOMAIN edges /\ U \subseteq DOMAIN edges
  BY DEF Matching, Labelled, Suggested, Unconditional
<1>2. M = {n \in DOMAIN edges : S(n) = 1}
  BY DEF Matching, Step
<1>3. \A n \in DOMAIN edges : n \notin M /\ n \in L <=> S(n) = 2
  BY DEF Matching, Step
<1>4. CASE M # {}
  <2>1. PICK i \in M : Best(edges, M) = {i} /\ \A j \in M : Beats(edges, i, j)
    BY <1>1, <1>4, BestIsOne
  <2>2. SelectEdge(edges, outcome, resolve) = {i}
    BY <1>4, <2>1 DEF SelectEdge
  <2>3. ASSUME NEW j \in DOMAIN edges \ {i}
        PROVE  Before(edges, outcome, resolve, i, j)
    <3>1. CASE j \in M
      BY <1>1, <1>2, <2>1, <3>1, BestIsBefore
    <3>2. CASE j \notin M
      BY <1>0, <1>2, <3>2 DEF Before
    <3> QED
      BY <3>1, <3>2
  <2> QED
    BY <1>1, <2>1, <2>2, <2>3 DEF IsTheChoice
<1>5. CASE M = {} /\ L # {}
  <2>1. PICK i \in L : FirstOf(L) = {i} /\ \A j \in L : i <= j
    BY <1>0, <1>1, <1>5, FirstIsOne
  <2>2. SelectEdge(edges, outcome, resolve) = {i}
    BY <1>5, <2>1 DEF SelectEdge
  <2>3. ASSUME NEW j \in DOMAIN edges \ {i}
        PROVE  Before(edges, outcome, resolve, i, j)
    <3>1. S(i) = 2 /\ (S(j) = 2 <=> j \in L) /\ S(j) # 1
      BY <1>1, <1>2, <1>3, <1>5, <2>1
    <3>2. CASE j \in L
      BY <1>0, <1>1, <2>1, <3>1, <3>2 DEF Before
    <3>3. CASE j \notin L
      BY <1>0, <3>1, <3>3 DEF Before
    <3> QED
      BY <3>2, <3>3
  <2> QED
    BY <1>1, <2>1, <2>2, <2>3 DEF IsTheChoice
<1> DEFINE hits == {k \in DOMAIN outcome.suggested :
                      \E i \in DOMAIN edges : edges[i].to = outcome.suggested[k]}
<1>6. CASE M = {} /\ L = {} /\ hits # {}
  <2>1. hits \subseteq Nat
    BY DEF Choosable
  <2>2. PICK k \in hits : FirstOf(hits) = {k} /\ \A l \in hits : k <= l
    BY <1>6, <2>1, FirstIsOne
  <2>3. G = {n \in DOMAIN edges : edges[n].to = outcome.suggested[k]} /\ G # {}
    BY <2>2 DEF Suggested
  <2>4. PICK i \in G : FirstOf(G) = {i} /\ \A j \in G : i <= j
    BY <1>0, <1>1, <2>3, FirstIsOne
  <2>5. SelectEdge(edges, outcome, resolve) = {i}
    BY <1>6, <2>3, <2>4 DEF SelectEdge
  <2>6. \A n \in DOMAIN edges : S(n) = 3 <=> \E l \in hits : outcome.suggested[l] = edges[n].to
    BY <1>2, <1>6 DEF Step, Matching
  <2>7. ASSUME NEW j \in DOMAIN edges \ {i}
        PROVE  Before(edges, outcome, resolve, i, j)
    <3>1. S(i) = 3 /\ S(j) \notin {1, 2} /\ S(j) \in 1 .. 5
      BY <1>0, <1>1, <1>2, <1>3, <1>6, <2>2, <2>3, <2>4, <2>6
    <3>2. CASE edges[j].to = edges[i].to
      <4>1. j \in G /\ S(j) = 3 /\ i \in Nat /\ j \in Nat /\ i <= j
        BY <1>0, <1>1, <2>2, <2>3, <2>4, <2>6, <3>2
      <4> QED
        BY <3>1, <3>2, <4>1 DEF Before
    <3>3. CASE edges[j].to # edges[i].to
      <4>1. \A l \in DOMAIN outcome.suggested : outcome.suggested[l] = edges[j].to => k < l
        <5> TAKE l \in DOMAIN outcome.suggested
        <5> HAVE outcome.suggested[l] = edges[j].to
        <5>1. l \in hits /\ l # k
          BY <2>3, <2>4, <3>3
        <5> QED
          BY <2>1, <2>2, <5>1
      <4>2. SuggestedBefore(outcome, edges[i].to, edges[j].to)
        BY <2>2, <2>3, <2>4, <4>1 DEF SuggestedBefore
      <4> QED
        BY <3>1, <3>3, <4>2 DEF Before
    <3> QED
      BY <3>2, <3>3
  <2> QED
    BY <1>1, <2>4, <2>5, <2>7 DEF IsTheChoice
<1>7. CASE M = {} /\ L = {} /\ hits = {}
  <2>1. G = {}
    BY <1>7 DEF Suggested, FirstOf
  <2>2. \A n \in DOMAIN edges : S(n) = IF n \in U THEN 4 ELSE 5
    BY <1>7 DEF Step, Matching, Unconditional
  <2>3. CASE U # {}
    <3>1. PICK i \in U : Best(edges, U) = {i} /\ \A j \in U : Beats(edges, i, j)
      BY <1>1, <2>3, BestIsOne
    <3>2. SelectEdge(edges, outcome, resolve) = {i}
      BY <1>7, <2>1, <2>3, <3>1 DEF SelectEdge
    <3>3. ASSUME NEW j \in DOMAIN edges \ {i}
          PROVE  Before(edges, outcome, resolve, i, j)
      <4>1. CASE j \in U
        BY <1>1, <2>2, <3>1, <4>1, BestIsBefore
      <4>2. CASE j \notin U
        BY <1>1, <2>2, <3>1, <4>2 DEF Before
      <4> QED
        BY <4>1, <4>2
    <3> QED
      BY <1>1, <3>1, <3>2, <3>3 DEF IsTheChoice
  <2>4. CASE U = {}
    <3>1. PICK i \in DOMAIN edges : FirstOf(DOMAIN edges) = {i} /\ \A j \in DOMAIN edges : i <= j
      BY <1>0, FirstIsOne
    <3>2. SelectEdge(edges, outcome, resolve) = {i}
      BY <1>7, <2>1, <2>4, <3>1 DEF SelectEdge, Fallback
    <3>3. ASSUME NEW j \in DOMAIN edges \ {i}
          PROVE  Before(edges, outcome, resolve, i, j)
      <4>1. S(i) = 5 /\ S(j) = 5 /\ i <= j /\ i # j /\ i \in Nat /\ j \in Nat
        BY <1>0, <2>2, <2>4, <3>1
      <4> QED
        BY <4>1 DEF Before
    <3> QED
      BY <3>1, <3>2, <3>3 DEF IsTheChoice
  <2> QED
    BY <2>3, <2>4
<1> QED
  BY <1>4, <1>5, <1>6, <1>7

(* THEOREM: select_edge returns the foremost edge: one whenever the node has edges, *)
(* none when it has none.  No step of the cascade hides an edge that a     *)
(* later step should have been given (edge_selection.rs 25-76).            *)
THEOREM ChoiceIsForemost ==
    ASSUME NEW edges, NEW outcome, NEW resolve, Choosable(edges, outcome)
    PROVE  /\ SelectEdge(edges, outcome, resolve) = Foremost(edges, outcome, resolve)
           /\ DOMAIN edges # {} =>
                \E i \in DOMAIN edges : SelectEdge(edges, outcome, resolve) = {i}
           /\ DOMAIN edges = {} => SelectEdge(edges, outcome, resolve) = {}
<1>1. CASE DOMAIN edges # {}
  <2>1. PICK i \in DOMAIN edges : IsTheChoice(edges, outcome, resolve, i)
    BY <1>1, ChoiceExists
  <2>2. SelectEdge(edges, outcome, resolve) = {i}
    BY <2>1 DEF IsTheChoice
  <2>3. \A j \in DOMAIN edges \ {i} : Before(edges, outcome, resolve, i, j)
    BY <2>1 DEF IsTheChoice
  <2>4. \A j \in DOMAIN edges \ {i} : ~Before(edges, outcome, resolve, j, i)
    BY <2>3, BeforeIsAsymmetric
  <2>5. Foremost(edges, outcome, resolve) = {i}
    BY <2>3, <2>4 DEF Foremost
  <2> QED
    BY <1>1, <2>2, <2>5
<1>2. CASE DOMAIN edges = {}
  <2>1. Foremost(edges, outcome, resolve) = {}
    BY <1>2 DEF Foremost
  <2>2. Matching(edges, resolve) = {} /\ Labelled(edges, outcome) = {}
    BY <1>2 DEF Matching, Labelled
  <2>3. Suggested(edges, outcome) = {} /\ Unconditional(edges) = {}
    BY <1>2 DEF Suggested, Unconditional
  <2>4. Fallback(edges) = {}
    BY <1>2 DEF Fallback, FirstOf
  <2>5. SelectEdge(edges, outcome, resolve) = {}
    BY <2>2, <2>3, <2>4 DEF SelectEdge
  <2> QED
    BY <1>2, <2>1, <2>5
<1> QED
  BY <1>1, <1>2

(* THEOREM: where a condition or a weight decides, declaring the edges in another   *)
(* order chooses the same edge, as long as no two lead to the same node:   *)
(* re-declaring a graph does not re-route a Run.                           *)
THEOREM DeclarationDoesNotDecide ==
    ASSUME NEW edges, NEW others, NEW outcome, NEW resolve,
           Choosable(edges, outcome), Choosable(others, outcome),
           NEW place \in [DOMAIN others -> DOMAIN edges],
           \A i \in DOMAIN edges : \E j \in DOMAIN others : place[j] = i,
           \A j, k \in DOMAIN others : place[j] = place[k] => j = k,
           \A j \in DOMAIN others : others[j] = edges[place[j]],
           \A i, j \in DOMAIN edges : edges[i].to = edges[j].to => i = j,
           NEW i \in SelectEdge(edges, outcome, resolve),
           Step(edges, outcome, resolve, i) \in {1, 4}
    PROVE  \E j \in DOMAIN others :
              /\ SelectEdge(others, outcome, resolve) = {j}
              /\ others[j] = edges[i]
<1>1. SelectEdge(edges, outcome, resolve) = Foremost(edges, outcome, resolve)
  BY ChoiceIsForemost
<1>2. i \in DOMAIN edges /\ \A j \in DOMAIN edges \ {i} : Before(edges, outcome, resolve, i, j)
  BY <1>1 DEF Foremost
<1>3. PICK j \in DOMAIN others : place[j] = i
  BY <1>2
<1>4. ASSUME NEW k \in DOMAIN others
      PROVE  Step(others, outcome, resolve, k) = Step(edges, outcome, resolve, place[k])
  <2>1. others[k] = edges[place[k]] /\ place[k] \in DOMAIN edges
    OBVIOUS
  <2>2. k \in Labelled(others, outcome) <=> place[k] \in Labelled(edges, outcome)
    BY <2>1 DEF Labelled
  <2> QED
    BY <2>1, <2>2 DEF Step
<1>5. ASSUME NEW k \in DOMAIN others \ {j}
      PROVE  Before(others, outcome, resolve, j, k)
  <2>1. place[k] # i /\ place[k] \in DOMAIN edges
    BY <1>3
  <2>2. Before(edges, outcome, resolve, i, place[k]) /\ edges[i].to # edges[place[k]].to
    BY <1>2, <2>1
  <2>3. others[j] = edges[i] /\ others[k] = edges[place[k]]
    BY <1>3
  <2>4. /\ Step(others, outcome, resolve, j) = Step(edges, outcome, resolve, i)
        /\ Step(others, outcome, resolve, k) = Step(edges, outcome, resolve, place[k])
    BY <1>3, <1>4
  <2> QED
    BY <2>2, <2>3, <2>4 DEF Before
<1>6. j \in Foremost(others, outcome, resolve)
  BY <1>5 DEF Foremost
<1>7. /\ SelectEdge(others, outcome, resolve) = Foremost(others, outcome, resolve)
      /\ \E k \in DOMAIN others : SelectEdge(others, outcome, resolve) = {k}
  BY <1>6, ChoiceIsForemost
<1>8. SelectEdge(others, outcome, resolve) = {j}
  BY <1>6, <1>7
<1> QED
  BY <1>3, <1>8

----------------------------------------------------------------------------
(* The executor: its types                                                 *)

LEMMA ChosenEdgeLeadsToNode ==
    ASSUME NEW r, NEW m \in Progress, NEW e \in EdgeChosen(r, m)
    PROVE  e.to \in Node
<1>1. PICK i \in SelectEdge(Edges[m.node], r, Resolve(r, m)) : e = Edges[m.node][i]
  BY DEF EdgeChosen
<1>2. i \in DOMAIN Edges[m.node]
  BY SelectedIsAnEdge
<1>3. m.node \in Node
  BY DEF Progress
<1> QED
  BY <1>1, <1>2, <1>3, PlanAssumption

(* The records the actions build are records of the right type.            *)
LEMMA FreshType == Fresh \in Progress
  BY PlanAssumption, LimitAssumption DEF Fresh, Progress

LEMMA SnapshotType ==
    ASSUME NEW m \in Progress, NEW n \in Node, NEW p \in Node \cup {NoNode}
    PROVE  Snapshot(m, n, p) \in Progress
  BY DEF Snapshot, Progress

LEMMA ActivatedType ==
    ASSUME NEW m \in Progress
    PROVE  Activated(m) \in Progress
  BY DEF Activated, Progress

LEMMA CountedType ==
    ASSUME mem \in Progress
    PROVE  /\ Counted \in Progress
           /\ Counted.node = mem.node
           /\ Counted.steps = mem.steps
<1>1. CASE mem.node \notin Quality
  BY <1>1 DEF Counted
<1>2. CASE mem.node \in Quality
  <2>1. <<mem.node, mem.prev>> \in Keys
    BY <1>2 DEF Keys, Progress
  <2>2. mem.loops \in [Keys -> Nat]
    BY DEF Progress
  <2>3. [mem.loops EXCEPT ![<<mem.node, mem.prev>>] = @ + 1] \in [Keys -> Nat]
    BY <2>1, <2>2
  <2> DEFINE k == <<mem.node, mem.prev>>
  <2>4. Counted = [mem EXCEPT !.loops = [mem.loops EXCEPT ![k] = mem.loops[k] + 1]]
    BY <1>2 DEF Counted, Progress
  <2> HIDE DEF k
  <2> QED
    BY <2>3, <2>4 DEF Progress, k
<1> QED
  BY <1>1, <1>2

LEMMA BegunType ==
    ASSUME mem \in Progress, StepsLeft
    PROVE  /\ Begun \in Progress
           /\ BegunOnDisk \in Progress
           /\ Begun.steps = mem.steps + 1
           /\ BegunOnDisk.steps = mem.steps + 1
<1>1. mem.steps \in 0..MaxSteps /\ mem.used \in Nat
  BY DEF Progress
<1>2. mem.steps + 1 \in 0..MaxSteps /\ mem.used + 1 \in Nat
  BY <1>1, LimitAssumption DEF StepsLeft
<1>3. Begun \in Progress /\ Begun.steps = mem.steps + 1
  BY <1>2 DEF Begun, Progress
<1>4. [Begun EXCEPT !.used = mem.used] \in Progress
  BY <1>1, <1>3 DEF Progress
<1>5. [Begun EXCEPT !.used = mem.used].steps = Begun.steps
  BY <1>3 DEF Progress
<1> QED
  BY <1>3, <1>4, <1>5 DEF BegunOnDisk

LEMMA RecordedType ==
    ASSUME mem \in Progress, NEW r \in Results[mem.node]
    PROVE  /\ Recorded(r) \in Progress
           /\ Recorded(r).node = mem.node
           /\ Recorded(r).steps = mem.steps
<1>1. mem.node \in Node
  BY DEF Progress
<1>2. /\ r.status \in Statuses
      /\ r.cost \in Nat
      /\ r.context \in Contexts \cup {NoContext}
  BY <1>1, ResultAssumption
<1>3. Append(mem.done, mem.node) \in Seq(Node)
  BY <1>1 DEF Progress
<1>4. [mem.outcome EXCEPT ![mem.node] = r.status]
        \in [Node -> Statuses \cup {NoStatus}]
  BY <1>1, <1>2 DEF Progress
<1> DEFINE outcome == [mem.outcome EXCEPT ![mem.node] = r.status]
           cost    == IF mem.node \in Exits THEN mem.cost ELSE mem.cost + r.cost
           prints  == IF mem.node \in Quality /\ r.status = "fail" /\ r.print
                      THEN mem.prints \cup {mem.node} ELSE mem.prints
           context == IF r.context = NoContext THEN mem.context ELSE r.context
<1>5. cost \in Nat /\ prints \in SUBSET Quality
      /\ context \in Contexts \cup {NoContext}
  BY <1>2 DEF Progress
<1>6. Recorded(r) = [mem EXCEPT !.done = Append(mem.done, mem.node),
                                !.outcome = outcome,
                                !.cost = cost,
                                !.prints = prints,
                                !.context = context]
  BY <1>1 DEF Recorded, Progress
<1> HIDE DEF outcome, cost, prints, context
<1>7. outcome \in [Node -> Statuses \cup {NoStatus}]
  BY <1>4 DEF outcome
<1> QED
  BY <1>3, <1>5, <1>6, <1>7 DEF Progress

LEMMA FollowType ==
    ASSUME NEW m \in Progress, NEW e
    PROVE  /\ Follow(m, e) \in Progress
           /\ Follow(m, e).steps = m.steps
<1>1. <<>> \in Seq(Node)
  OBVIOUS
<1>2. [n \in Node |-> NoStatus] \in [Node -> Statuses \cup {NoStatus}]
  OBVIOUS
<1>3. [k \in Keys |-> 0] \in [Keys -> Nat]
  OBVIOUS
<1> QED
  BY <1>1, <1>2, <1>3 DEF Follow, Progress

----------------------------------------------------------------------------
LEMMA FileType ==
    /\ <<>> \in File
    /\ \A c \in Progress : <<c>> \in File
    /\ \A f \in File : f # <<>> => f[1] \in Progress
  BY DEF File

LEMMA RestoredType ==
    ASSUME TypeOK
    PROVE  /\ Restored \in Progress
           /\ ckpt # <<>> => Restored = ckpt[1]
           /\ ckpt = <<>> => Restored = Fresh
  BY FreshType, FileType DEF Restored, TypeOK

LEMMA EndWithType ==
    ASSUME NEW cause \in Ends, EndWith(cause)
    PROVE  pc' \in PcValues /\ mem' \in Progress /\ end' \in Ends
  BY FreshType DEF EndWith, PcValues

LEMMA SaveAndType ==
    ASSUME TypeOK,
           NEW s \in Progress, NEW m \in Progress, NEW next \in PcValues,
           SaveAnd(s, m, next)
    PROVE  /\ pc' \in PcValues
           /\ mem' \in Progress
           /\ end' \in Ends
           /\ ckpt' \in File
<1>1. CASE ckpt' = <<s>> /\ mem' = m /\ pc' = next /\ UNCHANGED end
  BY <1>1, FileType DEF TypeOK
<1>2. CASE EndWith("disk") /\ UNCHANGED ckpt
  BY <1>2, EndWithType DEF TypeOK, Ends
<1> QED
  BY <1>1, <1>2 DEF SaveAnd

(* Every action keeps every variable's type; in particular no action       *)
(* counts a step beyond max_steps.                                         *)
LEMMA TypeStep ==
    ASSUME TypeOK, [Next]_vars
    PROVE  TypeOK'
<1> USE DEF PcValues, Ends
<1>0. mem \in Progress /\ mem.node \in Node /\ mem.prev \in Node \cup {NoNode}
  BY DEF TypeOK, Progress
<1>1. CASE Launch
  <2>1. mem' \in Progress
    BY <1>1, RestoredType DEF Launch
  <2>2. [n \in Node |-> NoStatus] \in [Node -> Statuses \cup {NoStatus}]
    OBVIOUS
  <2>3. execs' \in Nat /\ visit' \in Nat /\ last' \in [Node -> Statuses \cup {NoStatus}]
    BY <1>1, <2>2 DEF Launch, TypeOK
  <2> QED
    BY <1>1, <2>1, <2>3 DEF Launch, TypeOK
<1>2. CASE RequestStop
  BY <1>2 DEF RequestStop, TypeOK
<1>3. CASE Crash
  BY <1>3, EndWithType DEF Crash, TypeOK
<1>4. CASE BudgetExhausted
  BY <1>4, EndWithType DEF BudgetExhausted, TypeOK
<1>5. CASE HonourStop
  BY <1>0, <1>5, EndWithType, SnapshotType, FileType DEF HonourStop, TypeOK
<1>6. CASE GateRetry
  <2>1. PICK g \in Gates : \E n \in RetryTargets(g) : mem' = [mem EXCEPT !.node = n]
    BY <1>6 DEF GateRetry, FailingGates
  <2> PICK n \in RetryTargets(g) : mem' = [mem EXCEPT !.node = n]
    BY <2>1
  <2>2. n \in Node
    BY PlanAssumption DEF RetryTargets, FirstOf
  <2>3. mem' \in Progress
    BY <1>0, <2>2 DEF Progress
  <2> QED
    BY <1>6, <2>3 DEF GateRetry, TypeOK
<1>7. CASE GateUnsatisfied
  BY <1>7, EndWithType DEF GateUnsatisfied, TypeOK
<1>8. CASE Enter
  <2>1. Activated(Counted) \in Progress
    BY <1>0, CountedType, ActivatedType
  <2> QED
    BY <1>8, <2>1 DEF Enter, TypeOK
<1>9. CASE FixLimitExceeded
  BY <1>9, EndWithType DEF FixLimitExceeded, TypeOK
<1>10. CASE RetriesExhausted
  BY <1>10, EndWithType DEF RetriesExhausted, TypeOK
<1>11. CASE MaxStepsExceeded
  BY <1>11, EndWithType DEF MaxStepsExceeded, TypeOK
<1>12. CASE BeginAttempt
  <2>1. Begun \in Progress /\ BegunOnDisk \in Progress
    BY <1>0, <1>12, BegunType DEF BeginAttempt
  <2>2. Snapshot(BegunOnDisk, mem.node, mem.prev) \in Progress
    BY <1>0, <2>1, SnapshotType
  <2>3. SaveAnd(Snapshot(BegunOnDisk, mem.node, mem.prev), Begun, "begun")
    BY <1>12 DEF BeginAttempt
  <2> QED
    BY <1>12, <2>1, <2>2, <2>3, SaveAndType DEF BeginAttempt, TypeOK
<1>13. CASE StartHandler
  BY <1>13 DEF StartHandler, TypeOK
<1>14. CASE HandlerRetries
  <2>1. PICK r \in Results[mem.node] :
           \/ /\ r.kind = "ok" /\ r.status = "retry"
              /\ last' = [last EXCEPT ![mem.node] = "retry"]
              /\ IF r.cost = 0
                 THEN pc' = "attempt" /\ UNCHANGED <<mem, ckpt, end>>
                 ELSE LET m == [mem EXCEPT !.cost = @ + r.cost]
                      IN  SaveAnd(Snapshot(m, m.node, m.prev), m, "attempt")
           \/ /\ r.kind = "retryable"
              /\ pc' = "attempt"
              /\ UNCHANGED <<mem, ckpt, end, last>>
    BY <1>14 DEF HandlerRetries
  <2> DEFINE m == [mem EXCEPT !.cost = mem.cost + r.cost]
  <2>2. m \in Progress /\ m.node \in Node /\ m.prev \in Node \cup {NoNode}
    <3>1. r.cost \in Nat /\ mem.cost \in Nat
      BY <1>0, ResultAssumption DEF Progress
    <3>2. mem.cost + r.cost \in Nat
      BY <3>1
    <3> QED
      BY <1>0, <3>2 DEF Progress
  <2>3. Snapshot(m, m.node, m.prev) \in Progress
    BY <2>2, SnapshotType
  <2>4. last' \in [Node -> Statuses \cup {NoStatus}]
    BY <1>0, <2>1 DEF TypeOK
  <2>5. /\ pc' \in PcValues
        /\ mem' \in Progress
        /\ end' \in Ends
        /\ ckpt' \in File
    <3>1. CASE pc' = "attempt" /\ UNCHANGED <<mem, ckpt, end>>
      BY <3>1 DEF TypeOK
    <3>2. CASE SaveAnd(Snapshot(m, m.node, m.prev), m, "attempt")
      <4> HIDE DEF m
      <4> QED BY <3>2, <2>2, <2>3, SaveAndType
    <3> QED
      BY <2>1, <3>1, <3>2
  <2> QED
    BY <1>14, <2>4, <2>5 DEF HandlerRetries, TypeOK
<1>15. CASE HandlerFails
  BY <1>15, EndWithType DEF HandlerFails, TypeOK
<1>16. CASE HandlerReturns
  <2>1. PICK r \in Returned :
        /\ last' = [last EXCEPT ![mem.node] = r.status]
        /\ LET m == Recorded(r)
           IN  IF r.reserved
               THEN EndWith("handler") /\ UNCHANGED <<ckpt, visit>>
               ELSE \/ \E e \in EdgeChosen(r, m) :
                        /\ LET f == Follow(m, e)
                           IN  SaveAnd(Snapshot(f, e.to, m.node),
                                       [f EXCEPT !.node = e.to, !.prev = m.node],
                                       "top")
                        /\ visit' = IF pc' = "top" THEN 0 ELSE visit
                    \/ /\ EdgeChosen(r, m) = {}
                       /\ IF r.status = "fail"
                          THEN EndWith("handler")
                          ELSE /\ mem' = [m EXCEPT !.active = NoNode,
                                                   !.used = 0]
                               /\ pc' = "finish"
                               /\ UNCHANGED end
                       /\ UNCHANGED <<ckpt, visit>>
    BY <1>16 DEF HandlerReturns
  <2> DEFINE m == Recorded(r)
  <2>2. r \in Results[mem.node]
    BY <2>1 DEF Returned
  <2>3. m \in Progress /\ m.node \in Node
    <3>1. Recorded(r) \in Progress
      BY <1>0, <2>2, RecordedType
    <3> QED
      BY <3>1 DEF Progress
  <2>4. last' \in [Node -> Statuses \cup {NoStatus}]
    BY <1>0, <2>1, <2>2, ResultAssumption DEF TypeOK
  <2>5. /\ pc' \in PcValues
        /\ mem' \in Progress
        /\ end' \in Ends
        /\ ckpt' \in File
        /\ visit' \in Nat
    <3>1. CASE EndWith("handler") /\ UNCHANGED <<ckpt, visit>>
      BY <3>1, EndWithType DEF TypeOK
    <3>2. ASSUME NEW e \in EdgeChosen(r, m),
                 SaveAnd(Snapshot(Follow(m, e), e.to, m.node),
                         [Follow(m, e) EXCEPT !.node = e.to, !.prev = m.node],
                         "top"),
                 visit' = IF pc' = "top" THEN 0 ELSE visit
          PROVE  /\ pc' \in PcValues
                 /\ mem' \in Progress
                 /\ end' \in Ends
                 /\ ckpt' \in File
                 /\ visit' \in Nat
      <4>1. e.to \in Node
        BY <2>3, ChosenEdgeLeadsToNode
      <4>2. Follow(m, e) \in Progress
        BY <2>3, FollowType
      <4>3. Snapshot(Follow(m, e), e.to, m.node) \in Progress
        BY <2>3, <4>1, <4>2, SnapshotType
      <4>4. [Follow(m, e) EXCEPT !.node = e.to, !.prev = m.node] \in Progress
        BY <2>3, <4>1, <4>2 DEF Progress
      <4> HIDE DEF m
      <4> QED
        BY <3>2, <4>3, <4>4, SaveAndType DEF TypeOK
    <3>3. CASE /\ mem' = [m EXCEPT !.active = NoNode, !.used = 0]
               /\ pc' = "finish"
               /\ UNCHANGED <<ckpt, visit, end>>
      <4> HIDE DEF m
      <4> QED
        BY <2>3, <3>3 DEF TypeOK, Progress
    <3> QED
      BY <2>1, <3>1, <3>2, <3>3
  <2> QED
    BY <1>16, <2>4, <2>5 DEF HandlerReturns, TypeOK
<1>17. CASE ExitReturns
  <2>1. PICK r \in Returned :
        /\ last' = [last EXCEPT ![mem.node] = r.status]
        /\ IF r.reserved THEN EndWith("handler")
           ELSE /\ mem' = [Recorded(r) EXCEPT !.active = NoNode, !.used = 0]
                /\ pc' = "finish"
                /\ UNCHANGED end
    BY <1>17 DEF ExitReturns
  <2>2. r \in Results[mem.node]
    BY <2>1 DEF Returned
  <2>3. [Recorded(r) EXCEPT !.active = NoNode, !.used = 0] \in Progress
    BY <1>0, <2>2, RecordedType DEF Progress
  <2>4. last' \in [Node -> Statuses \cup {NoStatus}]
    BY <1>0, <2>1, <2>2, ResultAssumption DEF TypeOK
  <2>5. pc' \in PcValues /\ mem' \in Progress /\ end' \in Ends
    BY <2>1, <2>3, EndWithType DEF TypeOK
  <2> QED
    BY <1>17, <2>4, <2>5 DEF ExitReturns, TypeOK
<1>18. CASE Finalize
  BY <1>18, EndWithType, FileType DEF Finalize, TypeOK
<1>19. CASE Complete
  BY <1>19 DEF Complete, TypeOK
<1>20. CASE UNCHANGED vars
  BY <1>20 DEF vars, TypeOK
<1> QED
  BY <1>1, <1>2, <1>3, <1>4, <1>5, <1>6, <1>7, <1>8, <1>9, <1>10, <1>11,
     <1>12, <1>13, <1>14, <1>15, <1>16, <1>17, <1>18, <1>19, <1>20
  DEF Next, EngineStep, HandlerStep

(* TypeOK, for every plan: the types of the walk's state, and no count of  *)
(* steps beyond max_steps in memory or in checkpoint.json.                 *)
THEOREM TypeCorrect == Spec => []TypeOK
<1>1. Init => TypeOK
  <2> SUFFICES ASSUME Init PROVE TypeOK
    OBVIOUS
  <2>1. last \in [Node -> Statuses \cup {NoStatus}]
    BY DEF Init
  <2>2. mem \in Progress
    BY FreshType DEF Init
  <2>3. ckpt \in File
    BY FileType DEF Init
  <2> QED
    BY <2>1, <2>2, <2>3 DEF Init, TypeOK, PcValues, Ends
<1>2. TypeOK /\ [Next]_vars => TypeOK'
  BY TypeStep
<1> QED
  BY <1>1, <1>2, PTL DEF Spec

----------------------------------------------------------------------------
LEMMA SaveAndSteps ==
    ASSUME NEW s \in Progress, NEW m \in Progress, NEW next,
           SaveAnd(s, m, next)
    PROVE  \/ /\ Saved' /\ ckpt'[1] = s /\ ckpt'[1].steps = s.steps
              /\ mem' = m
              /\ pc' = next
           \/ /\ pc' = "off"
              /\ UNCHANGED ckpt
  BY DEF SaveAnd, EndWith, Saved

LEMMA SnapshotSteps ==
    ASSUME NEW m \in Progress, NEW n, NEW p
    PROVE  Snapshot(m, n, p).steps = m.steps
  BY DEF Snapshot, Progress

(* Each step of the executor keeps ExecInv: BeginAttempt raises the saved  *)
(* count, StartHandler uses what it raised, and no other step touches      *)
(* either, except that a new Run starts both from zero.                    *)
LEMMA ExecStep ==
    ASSUME TypeOK, ExecInv, [Next]_vars
    PROVE  ExecInv'
<1> USE DEF Live
<1>0. /\ mem \in Progress
      /\ mem.node \in Node /\ mem.prev \in Node \cup {NoNode}
      /\ mem.steps \in 0..MaxSteps
      /\ execs \in Nat
  BY DEF TypeOK, Progress
<1>01. ckpt # <<>> => ckpt[1] \in Progress /\ ckpt[1].steps \in 0..MaxSteps
  BY FileType DEF TypeOK, Progress
<1>1. CASE Launch
  BY <1>1, RestoredType, LimitAssumption DEF Launch, ExecInv, Saved
<1>2. CASE RequestStop
  BY <1>2 DEF RequestStop, ExecInv, Saved
<1>3. CASE Crash
  BY <1>3 DEF Crash, EndWith, ExecInv, Saved
<1>4. CASE BudgetExhausted
  BY <1>4 DEF BudgetExhausted, EndWith, ExecInv, Saved
<1>5. CASE HonourStop
  <2>1. Snapshot(mem, mem.node, mem.prev).steps = mem.steps
    BY <1>0, SnapshotSteps
  <2> QED
    BY <1>0, <1>01, <1>5, <2>1 DEF HonourStop, AtTop, EndWith, ExecInv, Saved
<1>6. CASE GateRetry
  <2>1. mem'.steps = mem.steps
    BY <1>0, <1>6 DEF GateRetry, Progress
  <2> QED
    BY <1>6, <2>1 DEF GateRetry, ExecInv, Saved
<1>7. CASE GateUnsatisfied
  BY <1>7 DEF GateUnsatisfied, EndWith, ExecInv, Saved
<1>8. CASE Enter
  <2>1. Activated(Counted).steps = mem.steps
    BY <1>0, CountedType DEF Activated, Progress
  <2> QED
    BY <1>8, <2>1 DEF Enter, MayEnter, AtTop, ExecInv, Saved
<1>9. CASE FixLimitExceeded
  BY <1>9 DEF FixLimitExceeded, EndWith, ExecInv, Saved
<1>10. CASE RetriesExhausted
  BY <1>10 DEF RetriesExhausted, EndWith, ExecInv, Saved
<1>11. CASE MaxStepsExceeded
  BY <1>11 DEF MaxStepsExceeded, EndWith, ExecInv, Saved
<1>12. CASE BeginAttempt
  <2> DEFINE s == Snapshot(BegunOnDisk, mem.node, mem.prev)
  <2>1. /\ Begun \in Progress /\ Begun.steps = mem.steps + 1
        /\ BegunOnDisk \in Progress /\ BegunOnDisk.steps = mem.steps + 1
    BY <1>0, <1>12, BegunType DEF BeginAttempt
  <2>2. s \in Progress /\ s.steps = mem.steps + 1
    BY <1>0, <2>1, SnapshotType, SnapshotSteps
  <2>3. SaveAnd(s, Begun, "begun") /\ UNCHANGED execs
    BY <1>12 DEF BeginAttempt
  <2> HIDE DEF s
  <2>4. CASE /\ Saved' /\ ckpt'[1] = s /\ ckpt'[1].steps = s.steps
             /\ mem' = Begun
             /\ pc' = "begun"
    <3>1. execs <= mem.steps
      BY <1>0, <1>12 DEF BeginAttempt, ExecInv
    <3> QED
      BY <1>0, <2>1, <2>2, <2>3, <2>4, <3>1 DEF ExecInv
  <2>5. CASE pc' = "off" /\ UNCHANGED ckpt
    BY <2>3, <2>5 DEF ExecInv, Saved
  <2> QED
    BY <2>1, <2>2, <2>3, <2>4, <2>5, SaveAndSteps
<1>13. CASE StartHandler
  <2>1. /\ Saved /\ execs + 1 <= ckpt[1].steps
        /\ mem.steps = ckpt[1].steps
    BY <1>13 DEF StartHandler, ExecInv
  <2>2. execs + 1 <= MaxSteps
    BY <1>0, <1>01, <2>1, LimitAssumption DEF Saved
  <2> QED
    BY <1>13, <2>1, <2>2 DEF StartHandler, ExecInv, Saved
<1>14. CASE HandlerRetries
  <2>1. PICK r \in Results[mem.node] :
           \/ UNCHANGED <<mem, ckpt>> /\ pc' = "attempt"
           \/ LET m == [mem EXCEPT !.cost = @ + r.cost]
              IN  SaveAnd(Snapshot(m, m.node, m.prev), m, "attempt")
    BY <1>14 DEF HandlerRetries
  <2> DEFINE m == [mem EXCEPT !.cost = mem.cost + r.cost]
             s == Snapshot(m, m.node, m.prev)
  <2>2. m \in Progress /\ m.steps = mem.steps
        /\ m.node \in Node /\ m.prev \in Node \cup {NoNode}
    <3>1. r.cost \in Nat /\ mem.cost \in Nat
      BY <1>0, ResultAssumption DEF Progress
    <3>2. mem.cost + r.cost \in Nat
      BY <3>1
    <3> QED
      BY <1>0, <3>2 DEF Progress
  <2>3. s \in Progress /\ s.steps = mem.steps
    BY <2>2, SnapshotType, SnapshotSteps
  <2>4. Saved /\ mem.steps = ckpt[1].steps /\ execs <= ckpt[1].steps
        /\ execs <= MaxSteps /\ UNCHANGED execs
    BY <1>14 DEF HandlerRetries, ExecInv
  <2>5. CASE UNCHANGED <<mem, ckpt>> /\ pc' = "attempt"
    BY <2>4, <2>5 DEF ExecInv, Saved
  <2>6. CASE SaveAnd(s, m, "attempt")
    <3> HIDE DEF s, m
    <3>1. CASE /\ Saved' /\ ckpt'[1] = s /\ ckpt'[1].steps = s.steps
               /\ mem' = m /\ pc' = "attempt"
      BY <2>2, <2>3, <2>4, <3>1 DEF ExecInv
    <3>2. CASE pc' = "off" /\ UNCHANGED ckpt
      BY <2>4, <3>2 DEF ExecInv, Saved
    <3> QED
      BY <2>2, <2>3, <2>6, <3>1, <3>2, SaveAndSteps
  <2> QED
    BY <2>1, <2>5, <2>6
<1>15. CASE HandlerFails
  BY <1>15 DEF HandlerFails, EndWith, ExecInv, Saved
<1>16. CASE HandlerReturns
  <2>0. Saved /\ mem.steps = ckpt[1].steps /\ execs <= ckpt[1].steps
        /\ execs <= MaxSteps /\ UNCHANGED execs
    BY <1>16 DEF HandlerReturns, ExecInv
  <2>1. PICK r \in Returned :
        \/ pc' = "off" /\ UNCHANGED ckpt
        \/ \E e \in EdgeChosen(r, Recorded(r)) :
              LET f == Follow(Recorded(r), e)
              IN  SaveAnd(Snapshot(f, e.to, Recorded(r).node),
                          [f EXCEPT !.node = e.to, !.prev = Recorded(r).node],
                          "top")
        \/ /\ mem' = [Recorded(r) EXCEPT !.active = NoNode, !.used = 0]
           /\ pc' = "finish"
           /\ UNCHANGED ckpt
    BY <1>16 DEF HandlerReturns, EndWith
  <2> DEFINE m == Recorded(r)
  <2>2. m \in Progress /\ m.steps = mem.steps
    BY <1>0, <2>1, RecordedType DEF Returned
  <2>3. CASE pc' = "off" /\ UNCHANGED ckpt
    BY <2>0, <2>3 DEF ExecInv, Saved
  <2>4. ASSUME NEW e \in EdgeChosen(r, m),
               SaveAnd(Snapshot(Follow(m, e), e.to, m.node),
                       [Follow(m, e) EXCEPT !.node = e.to, !.prev = m.node],
                       "top")
        PROVE  ExecInv'
    <3> DEFINE f == Follow(m, e)
               s == Snapshot(f, e.to, m.node)
               g == [f EXCEPT !.node = e.to, !.prev = m.node]
    <3>1. m.node \in Node /\ e.to \in Node
      BY <2>2, ChosenEdgeLeadsToNode DEF Progress
    <3>2. f \in Progress /\ f.steps = mem.steps
      BY <2>2, FollowType
    <3>3. s \in Progress /\ s.steps = mem.steps
      BY <3>1, <3>2, SnapshotType, SnapshotSteps
    <3>4. g \in Progress /\ g.steps = mem.steps
      <4> HIDE DEF m, f
      <4> QED BY <3>1, <3>2 DEF Progress
    <3>5. SaveAnd(s, g, "top")
      BY <2>4
    <3> HIDE DEF m, f, s, g
    <3>6. CASE /\ Saved' /\ ckpt'[1] = s /\ ckpt'[1].steps = s.steps
               /\ mem' = g /\ pc' = "top"
      BY <2>0, <3>3, <3>4, <3>6 DEF ExecInv
    <3>7. CASE pc' = "off" /\ UNCHANGED ckpt
      BY <2>0, <3>7 DEF ExecInv, Saved
    <3> QED
      BY <3>3, <3>4, <3>5, <3>6, <3>7, SaveAndSteps
  <2>5. CASE /\ mem' = [m EXCEPT !.active = NoNode, !.used = 0]
             /\ pc' = "finish"
             /\ UNCHANGED ckpt
    <3> HIDE DEF m
    <3>1. mem'.steps = mem.steps
      BY <2>2, <2>5 DEF Progress
    <3> QED
      BY <2>0, <2>5, <3>1 DEF ExecInv, Saved
  <2> QED
    BY <2>1, <2>3, <2>4, <2>5
<1>17. CASE ExitReturns
  <2>1. PICK r \in Returned :
        \/ pc' = "off"
        \/ /\ mem' = [Recorded(r) EXCEPT !.active = NoNode, !.used = 0]
           /\ pc' = "finish"
    BY <1>17 DEF ExitReturns, EndWith
  <2>2. Recorded(r) \in Progress /\ Recorded(r).steps = mem.steps
    BY <1>0, RecordedType DEF Returned
  <2>3. pc' = "finish" => mem'.steps = mem.steps
    BY <2>1, <2>2 DEF Progress
  <2> QED
    BY <1>17, <2>1, <2>3 DEF ExitReturns, ExecInv, Saved
<1>18. CASE Finalize
  BY <1>18 DEF Finalize, EndWith, ExecInv, Saved
<1>19. CASE Complete
  BY <1>19 DEF Complete, ExecInv, Saved
<1>20. CASE UNCHANGED vars
  BY <1>20 DEF vars, ExecInv, Saved
<1> QED
  BY <1>1, <1>2, <1>3, <1>4, <1>5, <1>6, <1>7, <1>8, <1>9, <1>10, <1>11,
     <1>12, <1>13, <1>14, <1>15, <1>16, <1>17, <1>18, <1>19, <1>20
  DEF Next, EngineStep, HandlerStep

(* ExecutionsBounded, for every plan: over all the processes of a Run, and *)
(* however they end, no more handlers are started than max_steps allows.   *)
THEOREM StepsBoundExecutions == Spec => []ExecutionsBounded
<1>1. Init => ExecInv
  BY LimitAssumption DEF Init, ExecInv, Saved, Live
<1>2. TypeOK /\ ExecInv /\ [Next]_vars => ExecInv'
  BY ExecStep
<1>3. ExecInv => ExecutionsBounded
  BY DEF ExecInv, ExecutionsBounded
<1> QED
  BY <1>1, <1>2, <1>3, TypeCorrect, PTL DEF Spec

----------------------------------------------------------------------------
(***************************************************************************)
(* A process killed inside a handler, and the attempts of a visit.         *)
(***************************************************************************)
(* RunningIsDurable is kept only because the node in memory is the active  *)
(* one from the moment invoke_node has looked at its attempts.             *)
ActiveInv ==
    pc \in {"attempt", "begun", "running"} => mem.active = mem.node

DurableInv == RunningIsDurable /\ ActiveInv

(* What invoke_node makes active is the node it is at, and the attempts it *)
(* finds are those of that node or none.                                   *)
LEMMA ActivatedIsActive ==
    ASSUME NEW m \in Progress
    PROVE  /\ Activated(m).active = Activated(m).node
           /\ Activated(m).node = m.node
           /\ Activated(m).used = IF m.active = m.node THEN m.used ELSE 0
  BY DEF Activated, Progress

(* What BeginAttempt writes agrees with what it keeps in memory.           *)
LEMMA BegunAgrees ==
    ASSUME TypeOK, mem.active = mem.node,
           NEW s, s = Snapshot(BegunOnDisk, mem.node, mem.prev)
    PROVE  /\ s.node = mem.node /\ s.active = mem.node
           /\ s.steps = Begun.steps
           /\ mem.node \notin Waiting => s.used = mem.used + 1
           /\ Begun.node = mem.node /\ Begun.active = mem.node
           /\ Begun.used = mem.used + 1
  BY DEF TypeOK, Progress, Snapshot, BegunOnDisk, Begun

(* Each step keeps DurableInv: the steps that leave the process inside an  *)
(* attempt are Enter, BeginAttempt, StartHandler and HandlerRetries.       *)
LEMMA DurableStep ==
    ASSUME TypeOK, DurableInv, [Next]_vars
    PROVE  DurableInv'
<1> USE DEF DurableInv, RunningIsDurable, ActiveInv
<1>0. mem \in Progress
  BY DEF TypeOK
<1>1. CASE pc' \notin {"attempt", "begun", "running"}
  BY <1>1
<1>2. CASE UNCHANGED <<pc, mem, ckpt>>
  BY <1>2 DEF Saved
<1>3. CASE Enter
  <2>1. mem' = Activated(Counted) /\ pc' = "attempt"
    BY <1>3 DEF Enter
  <2>2. Counted \in Progress
    BY <1>0, CountedType
  <2> QED
    BY <2>1, <2>2, ActivatedIsActive
<1>4. CASE BeginAttempt
  <2> DEFINE s == Snapshot(BegunOnDisk, mem.node, mem.prev)
  <2>1. mem.active = mem.node
    BY <1>4 DEF BeginAttempt
  <2>2. SaveAnd(s, Begun, "begun")
    BY <1>4 DEF BeginAttempt
  <2>3. CASE ckpt' = <<s>> /\ mem' = Begun /\ pc' = "begun"
    <3>1. Saved' /\ ckpt'[1] = s
      BY <2>3 DEF Saved
    <3> HIDE DEF s
    <3> QED
      BY <2>1, <2>3, <3>1, BegunAgrees DEF s
  <2> QED
    BY <2>2, <2>3, <1>1 DEF SaveAnd, EndWith
<1>5. CASE StartHandler
  BY <1>5 DEF StartHandler, Saved
<1>6. CASE HandlerRetries
  <2>1. PICK r \in Results[mem.node] :
           \/ UNCHANGED <<mem, ckpt>> /\ pc' = "attempt"
           \/ LET m == [mem EXCEPT !.cost = @ + r.cost]
              IN  SaveAnd(Snapshot(m, m.node, m.prev), m, "attempt")
    BY <1>6 DEF HandlerRetries
  <2>2. mem.active = mem.node
    BY <1>6 DEF HandlerRetries
  <2> QED
    BY <1>0, <1>1, <2>1, <2>2 DEF SaveAnd, EndWith, Progress
<1> QED
  BY <1>1, <1>2, <1>3, <1>4, <1>5, <1>6
  DEF Next, EngineStep, HandlerStep, vars, Launch, RequestStop, Crash,
      BudgetExhausted, HonourStop, GateRetry, GateUnsatisfied, AtTop,
      FixLimitExceeded, RetriesExhausted, MaxStepsExceeded, HandlerFails,
      HandlerReturns, ExitReturns, Finalize, Complete, EndWith, SaveAnd

(* RunningIsDurable, for every plan: while a handler runs, or is about to, *)
(* the checkpoint names this node, this step and this attempt (invoke_node *)
(* saves at line 544, before it calls the handler).                        *)
THEOREM HandlersAreDurable == Spec => []RunningIsDurable
<1>1. Init => DurableInv
  BY DEF Init, DurableInv, RunningIsDurable, ActiveInv
<1>2. TypeOK /\ DurableInv /\ [Next]_vars => DurableInv'
  BY DurableStep
<1>3. DurableInv => RunningIsDurable
  BY DEF DurableInv
<1> QED
  BY <1>1, <1>2, <1>3, TypeCorrect, PTL DEF Spec

----------------------------------------------------------------------------
(* VisitBounded needs to know how the executions of a visit relate to the  *)
(* attempts that memory and disk say were used: there are never more of    *)
(* them, on disk because the next process allows what is left there.       *)
UsedIn(m) == IF m.active = m.node THEN m.used ELSE 0

VisitInv ==
    /\ Saved /\ ckpt[1].node \notin Waiting => visit <= UsedIn(ckpt[1])
    /\ pc \in {"top", "attempt", "running"} /\ mem.node \notin Waiting =>
         visit <= UsedIn(mem)
    /\ pc = "begun" /\ mem.node \notin Waiting => visit + 1 <= UsedIn(mem)
    /\ pc = "attempt" => mem.used < MaxAttempts[mem.node]
    /\ pc \in {"begun", "running"} => mem.used <= MaxAttempts[mem.node]

(* An action that ends the process and leaves the file and the visit alone *)
(* keeps VisitInv.                                                         *)
LEMMA VisitOff ==
    ASSUME VisitInv, pc' \in {"off", "cleared", "finish"},
           UNCHANGED <<ckpt, visit>>
    PROVE  VisitInv'
  BY DEF VisitInv, Saved, UsedIn

(* So does a save, or a failed one, that keeps the node, its attempts and  *)
(* what they bound.                                                        *)
LEMMA VisitSaved ==
    ASSUME VisitInv, TypeOK, NEW s \in Progress, NEW m \in Progress, NEW next,
           SaveAnd(s, m, next), next \in {"top", "attempt", "begun"},
           pc' = next =>
             /\ s.node \notin Waiting => visit' <= UsedIn(s)
             /\ m.node \notin Waiting =>
                  (IF next = "begun" THEN visit' + 1 ELSE visit') <= UsedIn(m)
             /\ next = "attempt" => m.used < MaxAttempts[m.node]
             /\ next = "begun" => m.used <= MaxAttempts[m.node],
           pc' = "off" => visit' = visit
    PROVE  VisitInv'
<1>1. CASE ckpt' = <<s>> /\ mem' = m /\ pc' = next
  <2>1. Saved' /\ ckpt'[1] = s
    BY <1>1 DEF Saved
  <2> QED
    BY <1>1, <2>1 DEF VisitInv, UsedIn
<1>2. CASE pc' = "off" /\ UNCHANGED ckpt
  BY <1>2, VisitOff
<1> QED
  BY <1>1, <1>2 DEF SaveAnd, EndWith

(* Each step keeps VisitInv; only BeginAttempt, which saves the attempt    *)
(* first, makes room for the execution that StartHandler counts.           *)
LEMMA VisitStep ==
    ASSUME TypeOK, DurableInv, VisitInv, [Next]_vars
    PROVE  VisitInv'
<1>0. /\ mem \in Progress /\ mem.node \in Node
      /\ mem.used \in Nat /\ visit \in Nat
      /\ MaxAttempts[mem.node] \in Nat
  BY LimitAssumption DEF TypeOK, Progress
<1>1. CASE Launch
  <2>1. CASE ckpt = <<>>
    <3>1. mem' = Fresh /\ visit' = 0 /\ pc' = "top" /\ ~Saved'
      BY <1>1, <2>1 DEF Launch, Restored, Saved
    <3>2. UsedIn(Fresh) = 0
      BY DEF UsedIn, Fresh
    <3> QED
      BY <3>1, <3>2 DEF VisitInv, UsedIn
  <2>2. CASE ckpt # <<>>
    BY <1>1, <2>2 DEF Launch, Restored, VisitInv, Saved, UsedIn
  <2> QED
    BY <2>1, <2>2
<1>2. CASE RequestStop
  BY <1>2 DEF RequestStop, VisitInv, Saved, UsedIn
<1>3. CASE HonourStop
  <2>1. CASE ckpt' = <<Snapshot(mem, mem.node, mem.prev)>> /\ pc' = "off"
    <3> DEFINE s == Snapshot(mem, mem.node, mem.prev)
    <3>1. s.node = mem.node /\ UsedIn(s) = UsedIn(mem)
      BY <1>0 DEF Snapshot, UsedIn, Progress
    <3>2. Saved' /\ ckpt'[1] = s /\ visit' = visit /\ pc = "top"
      BY <1>3, <2>1 DEF HonourStop, AtTop, Saved
    <3> HIDE DEF s
    <3> QED
      BY <2>1, <3>1, <3>2 DEF VisitInv, UsedIn
  <2>2. CASE pc' = "off" /\ UNCHANGED ckpt
    BY <1>3, <2>2, VisitOff DEF HonourStop
  <2> QED
    BY <1>3, <2>1, <2>2 DEF HonourStop, EndWith
<1>4. CASE GateRetry
  <2>1. mem' \in Progress
    BY <1>4, TypeStep DEF TypeOK
  <2>2. ckpt # <<>> => ckpt[1] \in Progress
    BY FileType DEF TypeOK
  <2>3. visit' = 0 /\ UNCHANGED ckpt /\ pc' = "top"
    BY <1>4 DEF GateRetry, AtTop
  <2>4. \A m \in Progress : 0 <= UsedIn(m)
    BY DEF UsedIn, Progress
  <2> QED
    BY <2>1, <2>2, <2>3, <2>4 DEF VisitInv, Saved, UsedIn
<1>5. CASE Enter
  <2>1. /\ Counted \in Progress /\ Counted.node = mem.node
        /\ Counted.active = mem.active /\ Counted.used = mem.used
    BY <1>0, CountedType DEF Counted, Progress
  <2>2. /\ mem'.node = mem.node /\ mem'.active = mem.node
        /\ mem'.used = UsedIn(mem)
    BY <1>5, <2>1, ActivatedIsActive DEF Enter, UsedIn
  <2>3. Activated(mem).used = UsedIn(mem)
    BY <1>0, ActivatedIsActive DEF UsedIn
  <2>4. pc' = "attempt" /\ pc = "top" /\ UNCHANGED <<ckpt, visit>>
    BY <1>5 DEF Enter, MayEnter, AtTop
  <2>5. UsedIn(mem) < MaxAttempts[mem.node]
    BY <1>5, <2>3 DEF Enter
  <2> QED
    BY <2>2, <2>4, <2>5 DEF VisitInv, Saved, UsedIn
<1>6. CASE BeginAttempt
  <2> DEFINE s == Snapshot(BegunOnDisk, mem.node, mem.prev)
  <2>1. /\ mem.active = mem.node /\ visit' = visit
        /\ mem.used < MaxAttempts[mem.node]
        /\ mem.node \notin Waiting => visit <= mem.used
    BY <1>6 DEF BeginAttempt, DurableInv, ActiveInv, VisitInv, UsedIn
  <2>2. Begun \in Progress /\ BegunOnDisk \in Progress
    BY <1>0, <1>6, BegunType DEF BeginAttempt
  <2>3. s \in Progress
    BY <1>0, <2>2, SnapshotType DEF Progress
  <2>4. SaveAnd(s, Begun, "begun")
    BY <1>6 DEF BeginAttempt
  <2> HIDE DEF s
  <2>5. /\ s.node = mem.node
        /\ mem.node \notin Waiting => UsedIn(s) = mem.used + 1
        /\ Begun.node = mem.node /\ UsedIn(Begun) = mem.used + 1
        /\ Begun.used = mem.used + 1
    BY <2>1, BegunAgrees DEF s, UsedIn
  <2>6. mem.used + 1 <= MaxAttempts[mem.node]
    BY <1>0, <2>1
  <2>7. mem.node \notin Waiting => visit + 1 <= mem.used + 1 /\ visit <= mem.used + 1
    BY <1>0, <2>1
  <2> QED
    BY <2>1, <2>2, <2>3, <2>4, <2>5, <2>6, <2>7, VisitSaved
<1>7. CASE StartHandler
  <2>1. /\ pc = "begun" /\ pc' = "running" /\ visit' = visit + 1
        /\ UNCHANGED <<mem, ckpt>>
    BY <1>7 DEF StartHandler
  <2>2. /\ Saved /\ ckpt[1].node = mem.node
        /\ mem.node \notin Waiting => UsedIn(ckpt[1]) = UsedIn(mem)
    BY <2>1 DEF DurableInv, RunningIsDurable, ActiveInv, UsedIn
  <2>3. mem.node \notin Waiting => visit' <= UsedIn(mem)
    BY <2>1 DEF VisitInv
  <2>4. mem.used <= MaxAttempts[mem.node]
    BY <2>1 DEF VisitInv
  <2>5. mem' = mem /\ ckpt' = ckpt
    BY <2>1
  <2>6. (Saved /\ ckpt[1].node \notin Waiting => visit <= UsedIn(ckpt[1]))'
    BY <2>2, <2>3, <2>5 DEF UsedIn
  <2>7. (mem.node \notin Waiting => visit <= UsedIn(mem))'
    BY <2>3, <2>5 DEF UsedIn
  <2> QED
    BY <2>1, <2>4, <2>5, <2>6, <2>7 DEF VisitInv
<1>8. CASE HandlerRetries
  <2>1. PICK r \in Results[mem.node] :
           \/ UNCHANGED <<mem, ckpt>> /\ pc' = "attempt"
           \/ LET m == [mem EXCEPT !.cost = @ + r.cost]
              IN  SaveAnd(Snapshot(m, m.node, m.prev), m, "attempt")
    BY <1>8 DEF HandlerRetries
  <2>2. /\ pc = "running" /\ mem.active = mem.node /\ visit' = visit
        /\ mem.used < MaxAttempts[mem.node]
        /\ mem.node \notin Waiting => visit <= mem.used
    BY <1>8 DEF HandlerRetries, HasMoreAttempts, DurableInv, ActiveInv, VisitInv, UsedIn
  <2>3. CASE UNCHANGED <<mem, ckpt>> /\ pc' = "attempt"
    BY <2>2, <2>3 DEF VisitInv, Saved, UsedIn
  <2> DEFINE m == [mem EXCEPT !.cost = mem.cost + r.cost]
             s == Snapshot(m, m.node, m.prev)
  <2>4. CASE SaveAnd(s, m, "attempt")
    <3>1. r.cost \in Nat /\ mem.cost \in Nat
      BY <1>0, ResultAssumption DEF Progress
    <3>2. mem.cost + r.cost \in Nat
      BY <3>1
    <3>3. /\ m \in Progress /\ m.node = mem.node /\ m.prev = mem.prev
          /\ m.active = mem.active /\ m.used = mem.used
      BY <1>0, <3>2 DEF Progress
    <3> HIDE DEF m
    <3>4. /\ s \in Progress
          /\ s.node = mem.node /\ s.active = mem.active /\ s.used = mem.used
      BY <1>0, <3>3 DEF Snapshot, Progress
    <3> HIDE DEF s
    <3>5. mem.node \notin Waiting => visit' <= UsedIn(s) /\ visit' <= UsedIn(m)
      BY <2>2, <3>3, <3>4 DEF UsedIn
    <3> QED
      BY <2>2, <2>4, <3>3, <3>4, <3>5, VisitSaved
  <2> QED
    BY <2>1, <2>3, <2>4
<1>9. CASE HandlerReturns
  <2>1. PICK r \in Returned :
        \/ pc' \in {"off", "finish"} /\ UNCHANGED <<ckpt, visit>>
        \/ \E e \in EdgeChosen(r, Recorded(r)) :
              LET f == Follow(Recorded(r), e)
              IN  /\ SaveAnd(Snapshot(f, e.to, Recorded(r).node),
                            [f EXCEPT !.node = e.to, !.prev = Recorded(r).node],
                            "top")
                  /\ visit' = IF pc' = "top" THEN 0 ELSE visit
    BY <1>9 DEF HandlerReturns, EndWith
  <2> DEFINE m == Recorded(r)
  <2>2. m \in Progress
    BY <1>0, <2>1, RecordedType DEF Returned
  <2>3. CASE pc' \in {"off", "finish"} /\ UNCHANGED <<ckpt, visit>>
    BY <2>3, VisitOff
  <2>4. ASSUME NEW e \in EdgeChosen(r, m),
               SaveAnd(Snapshot(Follow(m, e), e.to, m.node),
                       [Follow(m, e) EXCEPT !.node = e.to, !.prev = m.node],
                       "top"),
               visit' = IF pc' = "top" THEN 0 ELSE visit
        PROVE  VisitInv'
    <3> DEFINE f == Follow(m, e)
               s == Snapshot(f, e.to, m.node)
               g == [f EXCEPT !.node = e.to, !.prev = m.node]
    <3>1. m.node \in Node /\ e.to \in Node
      BY <2>2, ChosenEdgeLeadsToNode DEF Progress
    <3>2. f \in Progress
      BY <2>2, FollowType
    <3>3. s \in Progress
      BY <3>1, <3>2, SnapshotType
    <3>4. g \in Progress
      <4> HIDE DEF m, f
      <4> QED BY <3>1, <3>2 DEF Progress
    <3>5. SaveAnd(s, g, "top")
      BY <2>4
    <3> HIDE DEF m, f, s, g
    <3>6. 0 <= UsedIn(s) /\ 0 <= UsedIn(g)
      BY <3>3, <3>4 DEF UsedIn, Progress
    <3> QED
      BY <2>4, <3>3, <3>4, <3>5, <3>6, VisitSaved
  <2> QED
    BY <2>1, <2>3, <2>4
<1>10. CASE Finalize
  <2>1. CASE ckpt' = <<>> /\ pc' = "cleared"
    BY <2>1 DEF VisitInv, Saved
  <2>2. CASE pc' = "off" /\ UNCHANGED ckpt
    BY <1>10, <2>2, VisitOff DEF Finalize
  <2> QED
    BY <1>10, <2>1, <2>2 DEF Finalize, EndWith
<1>11. CASE UNCHANGED vars
  BY <1>11 DEF vars, VisitInv, Saved, UsedIn
<1>12. CASE /\ pc' \in {"off", "cleared", "finish"}
            /\ UNCHANGED <<ckpt, visit>>
  BY <1>12, VisitOff
<1>13. CASE \/ Crash \/ BudgetExhausted \/ GateUnsatisfied \/ FixLimitExceeded
            \/ RetriesExhausted \/ MaxStepsExceeded \/ HandlerFails
            \/ ExitReturns \/ Complete
  BY <1>12, <1>13
  DEF Crash, BudgetExhausted, GateUnsatisfied, FixLimitExceeded,
      RetriesExhausted, MaxStepsExceeded, HandlerFails, ExitReturns, Complete,
      EndWith
<1> QED
  BY <1>1, <1>2, <1>3, <1>4, <1>5, <1>6, <1>7, <1>8, <1>9, <1>10, <1>11, <1>13
  DEF Next, EngineStep, HandlerStep

(* VisitBounded, for every plan: over all the processes that work on one   *)
(* visit of a node, its handler is started at most max_attempts times      *)
(* (active_node_attempts is restored with the node it counts for).         *)
THEOREM VisitsAreBounded == Spec => []VisitBounded
<1>1. Init => DurableInv /\ VisitInv
  BY DEF Init, DurableInv, RunningIsDurable, ActiveInv, VisitInv, Saved
<1>2. TypeOK /\ DurableInv /\ VisitInv /\ [Next]_vars => (DurableInv /\ VisitInv)'
  BY DurableStep, VisitStep
<1>3. TypeOK /\ DurableInv /\ VisitInv => VisitBounded
  <2> SUFFICES ASSUME TypeOK, DurableInv, VisitInv,
                      pc = "running", mem.node \notin Waiting
               PROVE  visit <= MaxAttempts[mem.node]
    BY DEF VisitBounded
  <2>1. /\ mem.used \in Nat /\ visit \in Nat /\ MaxAttempts[mem.node] \in Nat
    BY LimitAssumption DEF TypeOK, Progress
  <2>2. visit <= mem.used /\ mem.used <= MaxAttempts[mem.node]
    BY DEF DurableInv, ActiveInv, VisitInv, UsedIn
  <2> QED
    BY <2>1, <2>2
<1> QED
  BY <1>1, <1>2, <1>3, TypeCorrect, PTL DEF Spec

----------------------------------------------------------------------------
(***************************************************************************)
(* What the checkpoint says of the walk.                                   *)
(***************************************************************************)
(* The records an action builds, field by field.                           *)
LEMMA Counts ==
    ASSUME NEW m \in Progress
    PROVE  m.steps \in Nat /\ m.cost \in Nat /\ m.done \in Seq(Node)
<1>1. m.steps \in 0..MaxSteps /\ m.cost \in Nat /\ m.done \in Seq(Node)
  BY DEF Progress
<1> QED
  BY <1>1, LimitAssumption

(* What an attempt costs is added to what memory holds.                    *)
LEMMA ChargedFields ==
    ASSUME mem \in Progress, NEW r \in Results[mem.node]
    PROVE  LET m == [mem EXCEPT !.cost = mem.cost + r.cost]
           IN  /\ m \in Progress
               /\ m.node = mem.node /\ m.prev = mem.prev
               /\ m.active = mem.active /\ m.used = mem.used
               /\ m.steps = mem.steps /\ m.done = mem.done
               /\ m.outcome = mem.outcome
               /\ m.cost = mem.cost + r.cost /\ r.cost \in Nat
<1>1. mem.node \in Node /\ mem.cost \in Nat
  BY DEF Progress
<1>2. r.cost \in Nat
  BY <1>1, ResultAssumption
<1> DEFINE cost == mem.cost + r.cost
<1>3. cost \in Nat
  BY <1>1, <1>2
<1> HIDE DEF cost
<1>4. [mem EXCEPT !.cost = cost] \in Progress
  BY <1>3 DEF Progress
<1> QED
  BY <1>2, <1>4 DEF Progress, cost

LEMMA SnapshotFields ==
    ASSUME NEW m \in Progress, NEW n, NEW p
    PROVE  LET s == Snapshot(m, n, p)
           IN  /\ s.node = n /\ s.prev = p
               /\ s.steps = m.steps /\ s.cost = m.cost
               /\ s.done = m.done /\ s.outcome = m.outcome
               /\ s.active = m.active /\ s.used = m.used
  BY DEF Snapshot, Progress

LEMMA EnteredFields ==
    ASSUME mem \in Progress
    PROVE  LET m == Activated(Counted)
           IN  /\ m.node = mem.node
               /\ m.steps = mem.steps /\ m.cost = mem.cost
               /\ m.done = mem.done /\ m.outcome = mem.outcome
<1>1. /\ Counted \in Progress /\ Counted.node = mem.node
      /\ Counted.steps = mem.steps
  BY CountedType
<1>2. /\ Counted.cost = mem.cost /\ Counted.done = mem.done
      /\ Counted.outcome = mem.outcome
  BY DEF Counted, Progress
<1> QED
  BY <1>1, <1>2 DEF Activated, Progress

LEMMA BegunFields ==
    ASSUME mem \in Progress
    PROVE  /\ Begun.node = mem.node
           /\ Begun.steps = mem.steps + 1 /\ Begun.cost = mem.cost
           /\ Begun.done = mem.done /\ Begun.outcome = mem.outcome
           /\ Begun.active = mem.active /\ Begun.used = mem.used + 1
           /\ BegunOnDisk.steps = mem.steps + 1 /\ BegunOnDisk.cost = mem.cost
           /\ BegunOnDisk.done = mem.done /\ BegunOnDisk.outcome = mem.outcome
           /\ BegunOnDisk.active = mem.active
           /\ mem.node \in Waiting => BegunOnDisk.used = mem.used
<1>1. /\ Begun.node = mem.node
      /\ Begun.steps = mem.steps + 1 /\ Begun.cost = mem.cost
      /\ Begun.done = mem.done /\ Begun.outcome = mem.outcome
      /\ Begun.active = mem.active /\ Begun.used = mem.used + 1
  BY DEF Begun, Progress
<1>2. CASE mem.node \in Waiting
  <2>1. BegunOnDisk = [Begun EXCEPT !.used = mem.used]
    BY <1>2 DEF BegunOnDisk
  <2> QED
    BY <1>1, <2>1 DEF Begun, Progress
<1>3. CASE mem.node \notin Waiting
  BY <1>1, <1>3 DEF BegunOnDisk
<1> QED
  BY <1>2, <1>3

LEMMA RecordedFields ==
    ASSUME mem \in Progress, NEW r \in Results[mem.node]
    PROVE  /\ Recorded(r).done = Append(mem.done, mem.node)
           /\ Recorded(r).outcome = [mem.outcome EXCEPT ![mem.node] = r.status]
           /\ Recorded(r).cost >= mem.cost
<1>1. mem.node \in Node /\ mem.cost \in Nat /\ r.cost \in Nat
  BY ResultAssumption DEF Progress
<1>2. /\ Recorded(r).done = Append(mem.done, mem.node)
      /\ Recorded(r).outcome = [mem.outcome EXCEPT ![mem.node] = r.status]
      /\ Recorded(r).cost = IF mem.node \in Exits THEN mem.cost ELSE mem.cost + r.cost
  BY DEF Recorded, Progress
<1> QED
  BY <1>1, <1>2

LEMMA FollowFields ==
    ASSUME NEW m \in Progress, NEW e
    PROVE  /\ Follow(m, e).done = IF e.loop_restart THEN <<>> ELSE m.done
           /\ ~e.loop_restart => Follow(m, e).outcome = m.outcome
           /\ Follow(m, e).cost = m.cost /\ Follow(m, e).steps = m.steps
           /\ Follow(m, e).active = NoNode
  BY DEF Follow, Progress

LEMMA NextSaved ==
    ASSUME NEW s, ckpt' = <<s>>
    PROVE  Saved' /\ ckpt'[1] = s /\ ckpt' # <<>>
  BY DEF Saved

(* What a step that ends the process does, and what a save does.           *)
Quits == pc' = "off" /\ ckpt' = ckpt

LEMMA SaveOrQuit ==
    ASSUME NEW s, NEW m, NEW next, SaveAnd(s, m, next)
    PROVE  \/ ckpt' = <<s>> /\ mem' = m /\ pc' = next
           \/ Quits
  BY DEF SaveAnd, EndWith, Quits

(* The steps after which no handler is under way and the file is as it was. *)
LEMMA QuietSteps ==
    ASSUME \/ Crash \/ BudgetExhausted \/ GateUnsatisfied \/ FixLimitExceeded
           \/ RetriesExhausted \/ MaxStepsExceeded \/ HandlerFails
           \/ ExitReturns \/ Complete
    PROVE  pc' \in {"off", "finish"} /\ ckpt' = ckpt
  BY DEF Crash, BudgetExhausted, GateUnsatisfied, FixLimitExceeded,
         RetriesExhausted, MaxStepsExceeded, HandlerFails, ExitReturns,
         Complete, EndWith

----------------------------------------------------------------------------
(* Memory and file agree on what counts, from one save to the next.        *)
Agrees(m, c) ==
    /\ m.steps = c.steps /\ m.cost = c.cost
    /\ m.done = c.done /\ m.outcome = c.outcome

AgreeInv ==
    /\ pc \in {"begun", "running"} => Saved
    /\ pc \in {"top", "attempt", "begun", "running"} =>
         Agrees(mem, IF Saved THEN ckpt[1] ELSE Fresh)

(* Each step keeps AgreeInv: a save writes what memory becomes, and what   *)
(* changes memory without a save is not counted.                           *)
LEMMA AgreeStep ==
    ASSUME TypeOK, AgreeInv, [Next]_vars
    PROVE  AgreeInv'
<1>0. mem \in Progress /\ mem.node \in Node
  BY DEF TypeOK, Progress
<1>1. CASE Launch
  BY <1>1 DEF Launch, Restored, AgreeInv, Agrees, Saved
<1>2. CASE RequestStop
  BY <1>2 DEF RequestStop, AgreeInv, Agrees, Saved
<1>3. CASE HonourStop \/ Finalize
  BY <1>3 DEF HonourStop, Finalize, EndWith, AgreeInv
<1>4. CASE GateRetry
  <2>1. PICK target : mem' = [mem EXCEPT !.node = target]
    BY <1>4 DEF GateRetry
  <2>2. Agrees(mem', mem)
    BY <1>0, <2>1 DEF Agrees, Progress
  <2>3. pc = "top" /\ pc' = "top" /\ ckpt' = ckpt
    BY <1>4 DEF GateRetry, AtTop
  <2> QED
    BY <2>2, <2>3 DEF AgreeInv, Agrees, Saved
<1>5. CASE Enter
  <2>1. Agrees(mem', mem)
    BY <1>0, <1>5, EnteredFields DEF Enter, Agrees
  <2>2. pc = "top" /\ pc' = "attempt" /\ ckpt' = ckpt
    BY <1>5 DEF Enter, MayEnter, AtTop
  <2> QED
    BY <2>1, <2>2 DEF AgreeInv, Agrees, Saved
<1>6. CASE BeginAttempt
  <2> DEFINE s == Snapshot(BegunOnDisk, mem.node, mem.prev)
  <2>1. BegunOnDisk \in Progress
    BY <1>0, <1>6, BegunType DEF BeginAttempt
  <2>2. Agrees(Begun, s)
    BY <1>0, <2>1, SnapshotFields, BegunFields DEF Agrees
  <2> HIDE DEF s
  <2>3. CASE ckpt' = <<s>> /\ mem' = Begun /\ pc' = "begun"
    BY <2>2, <2>3, NextSaved DEF AgreeInv, Agrees
  <2> QED
    BY <1>6, <2>3, SaveOrQuit DEF BeginAttempt, s, Quits, AgreeInv
<1>7. CASE StartHandler
  BY <1>7 DEF StartHandler, AgreeInv, Agrees, Saved
<1>8. CASE HandlerRetries
  <2>1. PICK r \in Results[mem.node] :
           \/ UNCHANGED <<mem, ckpt>> /\ pc' = "attempt"
           \/ LET m == [mem EXCEPT !.cost = @ + r.cost]
              IN  SaveAnd(Snapshot(m, m.node, m.prev), m, "attempt")
    BY <1>8 DEF HandlerRetries
  <2>2. pc = "running"
    BY <1>8 DEF HandlerRetries
  <2>3. CASE UNCHANGED <<mem, ckpt>> /\ pc' = "attempt"
    BY <2>2, <2>3 DEF AgreeInv, Agrees, Saved
  <2> DEFINE m == [mem EXCEPT !.cost = mem.cost + r.cost]
             s == Snapshot(m, m.node, m.prev)
  <2>4. CASE SaveAnd(s, m, "attempt")
    <3>1. m \in Progress
      BY <1>0, ChargedFields
    <3> HIDE DEF m
    <3>2. Agrees(m, s)
      BY <3>1, SnapshotFields DEF Agrees
    <3> HIDE DEF s
    <3> QED
      BY <2>4, <3>2, SaveOrQuit, NextSaved DEF AgreeInv, Agrees, Quits
  <2> QED
    BY <2>1, <2>3, <2>4
<1>9. CASE HandlerReturns
  <2>1. PICK r \in Returned :
        \/ pc' \in {"off", "finish"}
        \/ \E e \in EdgeChosen(r, Recorded(r)) :
              LET f == Follow(Recorded(r), e)
              IN  SaveAnd(Snapshot(f, e.to, Recorded(r).node),
                          [f EXCEPT !.node = e.to, !.prev = Recorded(r).node],
                          "top")
    BY <1>9 DEF HandlerReturns, EndWith
  <2>2. Recorded(r) \in Progress
    BY <1>0, <2>1, RecordedType DEF Returned
  <2>3. ASSUME NEW e \in EdgeChosen(r, Recorded(r)),
               NEW f, f = Follow(Recorded(r), e),
               NEW p,
               SaveAnd(Snapshot(f, e.to, p),
                       [f EXCEPT !.node = e.to, !.prev = p], "top")
        PROVE  AgreeInv'
    <3> DEFINE s == Snapshot(f, e.to, p)
               g == [f EXCEPT !.node = e.to, !.prev = p]
    <3>1. f \in Progress
      BY <2>2, <2>3, FollowType
    <3>2. Agrees(g, s)
      BY <3>1, SnapshotFields DEF Agrees, Progress
    <3>3. SaveAnd(s, g, "top")
      BY <2>3
    <3> HIDE DEF s, g
    <3> QED
      BY <3>2, <3>3, SaveOrQuit, NextSaved DEF AgreeInv, Agrees, Quits
  <2> QED
    BY <2>1, <2>3 DEF AgreeInv
<1>10. CASE UNCHANGED vars
  BY <1>10 DEF vars, AgreeInv, Agrees, Saved
<1>11. CASE pc' \in {"off", "finish"}
  BY <1>11 DEF AgreeInv
<1> QED
  BY <1>1, <1>2, <1>3, <1>4, <1>5, <1>6, <1>7, <1>8, <1>9, <1>10, <1>11,
     QuietSteps
  DEF Next, EngineStep, HandlerStep

----------------------------------------------------------------------------
(* A new checkpoint counts no less than what the file said, and continues  *)
(* its walk or starts a new one.                                           *)
Continues(new, old) ==
    /\ new.steps >= old.steps
    /\ new.cost >= old.cost
    /\ \/ new.done = <<>>
       \/ /\ Len(new.done) >= Len(old.done)
          /\ \A i \in DOMAIN old.done : new.done[i] = old.done[i]

LEMMA ContinuesItself ==
    ASSUME NEW m \in Progress, NEW n \in Progress,
           n.steps >= m.steps, n.cost >= m.cost, n.done = m.done
    PROVE  Continues(n, m)
  BY DEF Continues, Progress

(* Every save of a live process continues what the file said.              *)
LEMMA ContinuesStep ==
    ASSUME TypeOK, AgreeInv, [Next]_vars, Saved, ckpt' # <<>>
    PROVE  Continues(ckpt'[1], ckpt[1])
<1> DEFINE old == ckpt[1]
<1>0. /\ mem \in Progress /\ mem.node \in Node
      /\ old \in Progress
  BY FileType DEF TypeOK, Progress, Saved
<1>a. /\ mem.steps \in Nat /\ mem.cost \in Nat
      /\ old.steps \in Nat /\ old.cost \in Nat /\ old.done \in Seq(Node)
  BY <1>0, Counts
<1>1. CASE ckpt' = ckpt
  BY <1>0, <1>a, <1>1, ContinuesItself
<1>2. CASE HonourStop
  <2>1. Agrees(mem, old)
    BY <1>2 DEF HonourStop, AtTop, AgreeInv
  <2> DEFINE s == Snapshot(mem, mem.node, mem.prev)
  <2>2. s \in Progress
    BY <1>0, SnapshotType DEF Progress
  <2>3. s.steps = old.steps /\ s.cost = old.cost /\ s.done = old.done
    BY <1>0, <2>1, SnapshotFields DEF Agrees
  <2>4. ckpt' = <<s>> \/ ckpt' = ckpt
    BY <1>2 DEF HonourStop
  <2> HIDE DEF s, old
  <2>5. CASE ckpt' = <<s>>
    <3>1. Continues(s, old)
      BY <1>0, <1>a, <2>2, <2>3, ContinuesItself
    <3> QED
      BY <2>5, <3>1, NextSaved DEF old
  <2> QED
    BY <1>1, <2>4, <2>5 DEF old
<1>3. CASE BeginAttempt
  <2>1. Agrees(mem, old)
    BY <1>3 DEF BeginAttempt, AgreeInv
  <2> DEFINE s == Snapshot(BegunOnDisk, mem.node, mem.prev)
  <2>2. BegunOnDisk \in Progress
    BY <1>0, <1>3, BegunType DEF BeginAttempt
  <2>3. s \in Progress
    BY <1>0, <2>2, SnapshotType DEF Progress
  <2>4. s.steps = old.steps + 1 /\ s.cost = old.cost /\ s.done = old.done
    BY <1>0, <2>1, <2>2, SnapshotFields, BegunFields DEF Agrees
  <2>5. ckpt' = <<s>> \/ ckpt' = ckpt
    BY <1>3, SaveOrQuit DEF BeginAttempt, Quits
  <2> HIDE DEF s, old
  <2>6. CASE ckpt' = <<s>>
    <3>1. s.steps >= old.steps /\ s.cost >= old.cost
      BY <1>a, <2>4
    <3>2. Continues(s, old)
      BY <1>0, <2>3, <2>4, <3>1, ContinuesItself
    <3> QED
      BY <2>6, <3>2, NextSaved DEF old
  <2> QED
    BY <1>1, <2>5, <2>6 DEF old
<1>4. CASE HandlerRetries
  <2>1. PICK r \in Results[mem.node] :
           \/ UNCHANGED <<mem, ckpt>> /\ pc' = "attempt"
           \/ LET m == [mem EXCEPT !.cost = @ + r.cost]
              IN  SaveAnd(Snapshot(m, m.node, m.prev), m, "attempt")
    BY <1>4 DEF HandlerRetries
  <2>2. Agrees(mem, old)
    BY <1>4 DEF HandlerRetries, AgreeInv
  <2> DEFINE m == [mem EXCEPT !.cost = mem.cost + r.cost]
             s == Snapshot(m, m.node, m.prev)
  <2>4. /\ m \in Progress /\ m.node = mem.node /\ m.prev = mem.prev
        /\ m.steps = mem.steps /\ m.done = mem.done
        /\ m.cost = mem.cost + r.cost /\ r.cost \in Nat
    BY <1>0, ChargedFields
  <2>5. ckpt' = ckpt \/ SaveAnd(s, m, "attempt")
    BY <2>1
  <2> HIDE DEF m
  <2>6. s \in Progress
    BY <1>0, <2>4, SnapshotType DEF Progress
  <2>7. s.steps = old.steps /\ s.cost >= old.cost /\ s.done = old.done
    BY <1>a, <2>2, <2>4, SnapshotFields DEF Agrees
  <2>8. ckpt' = <<s>> \/ ckpt' = ckpt
    BY <2>5, SaveOrQuit DEF Quits
  <2> HIDE DEF s, old
  <2>9. CASE ckpt' = <<s>>
    <3>1. s.steps >= old.steps
      BY <1>a, <2>7
    <3>2. Continues(s, old)
      BY <1>0, <2>6, <2>7, <3>1, ContinuesItself
    <3> QED
      BY <2>9, <3>2, NextSaved DEF old
  <2> QED
    BY <1>1, <2>8, <2>9 DEF old
<1>5. CASE HandlerReturns
  <2>1. PICK r \in Returned :
        \/ ckpt' = ckpt
        \/ \E e \in EdgeChosen(r, Recorded(r)) :
              LET f == Follow(Recorded(r), e)
              IN  SaveAnd(Snapshot(f, e.to, Recorded(r).node),
                          [f EXCEPT !.node = e.to, !.prev = Recorded(r).node],
                          "top")
    BY <1>5 DEF HandlerReturns
  <2>2. Agrees(mem, old)
    BY <1>5 DEF HandlerReturns, AgreeInv
  <2>3. /\ r \in Results[mem.node]
        /\ Recorded(r) \in Progress /\ Recorded(r).steps = mem.steps
    BY <1>0, <2>1, RecordedType DEF Returned
  <2>4. Recorded(r).cost >= mem.cost /\ Recorded(r).done = Append(mem.done, mem.node)
    BY <1>0, <2>3, RecordedFields
  <2>5. ASSUME NEW e, NEW p,
               ckpt' = <<Snapshot(Follow(Recorded(r), e), e.to, p)>>
        PROVE  Continues(ckpt'[1], old)
    <3> DEFINE f == Follow(Recorded(r), e)
               s == Snapshot(f, e.to, p)
    <3>1. f \in Progress
      BY <2>3, FollowType
    <3>2. s.steps = f.steps /\ s.cost = f.cost /\ s.done = f.done
      BY <3>1, SnapshotFields
    <3>3. /\ f.steps = old.steps
          /\ f.cost >= old.cost
          /\ f.done = IF e.loop_restart THEN <<>> ELSE Append(old.done, mem.node)
      BY <2>2, <2>3, <2>4, FollowFields DEF Agrees
    <3> HIDE DEF f, s, old
    <3>5. Continues(s, old)
      BY <1>0, <1>a, <3>2, <3>3 DEF Continues
    <3> QED
      BY <2>5, <3>5, NextSaved DEF f, s
  <2>6. CASE ckpt' = ckpt
    BY <1>1, <2>6
  <2> QED
    BY <2>1, <2>5, <2>6, SaveOrQuit DEF Quits
<1>6. CASE Launch \/ RequestStop \/ GateRetry \/ Enter \/ StartHandler
           \/ Finalize \/ UNCHANGED vars
  <2>1. ckpt' = ckpt
    BY <1>6 DEF Launch, RequestStop, GateRetry, Enter, StartHandler, Finalize, vars
  <2> QED
    BY <1>1, <2>1
<1> QED
  BY <1>1, <1>2, <1>3, <1>4, <1>5, <1>6, QuietSteps
  DEF Next, EngineStep, HandlerStep

(* NeverRewinds, for every plan: the checkpoint of a Run never goes back,  *)
(* although it is overwritten in place (CheckpointData::save).             *)
THEOREM CheckpointNeverRewinds == Spec => NeverRewinds
<1>1. Init => AgreeInv
  BY DEF Init, AgreeInv
<1>2. TypeOK /\ AgreeInv /\ [Next]_vars => AgreeInv'
  BY AgreeStep
<1>3. TypeOK /\ AgreeInv /\ [Next]_vars =>
        [ckpt # <<>> /\ ckpt' # <<>> =>
            LET old == ckpt[1]
                new == ckpt'[1]
            IN  /\ new.steps >= old.steps
                /\ new.cost >= old.cost
                /\ \/ new.done = <<>>
                   \/ /\ Len(new.done) >= Len(old.done)
                      /\ \A i \in DOMAIN old.done : new.done[i] = old.done[i]]_vars
  BY ContinuesStep DEF Continues, Saved
<1> QED
  BY <1>1, <1>2, <1>3, TypeCorrect, PTL DEF Spec, NeverRewinds

(* ClearedOnlyAtEnd, for every plan: the only copy of the checkpoint is    *)
(* removed by a process that is through (clear_checkpoint).                *)
THEOREM CheckpointIsKept == Spec => ClearedOnlyAtEnd
<1>1. [Next]_vars => [Saved /\ ckpt' = <<>> => pc = "finish"]_vars
  <2> SUFFICES ASSUME [Next]_vars, Saved, ckpt' = <<>>
               PROVE  pc = "finish"
    OBVIOUS
  <2>1. ckpt' # ckpt
    BY DEF Saved
  <2>2. \A s : ckpt' # <<s>>
    OBVIOUS
  <2>3. \A s, m, next : ~SaveAnd(s, m, next)
    BY <2>1, <2>2 DEF SaveAnd
  <2>4. ~HandlerRetries
    BY <2>1, <2>3 DEF HandlerRetries
  <2>5. ~HandlerReturns
    BY <2>1, <2>3 DEF HandlerReturns
  <2>6. ~BeginAttempt /\ ~HonourStop
    BY <2>1, <2>2, <2>3 DEF BeginAttempt, HonourStop
  <2> QED
    BY <2>1, <2>4, <2>5, <2>6, QuietSteps
    DEF Next, EngineStep, HandlerStep, Launch, RequestStop, GateRetry, Enter,
        StartHandler, Finalize, vars
<1> QED
  BY <1>1, PTL DEF Spec, ClearedOnlyAtEnd

----------------------------------------------------------------------------
(* The only actions after which a process is at the head of the loop are   *)
(* Launch, GateRetry and the save of HandlerReturns.                       *)
LEMMA ReturnsToTop ==
    ASSUME TypeOK, HandlerReturns
    PROVE  \/ pc' \in {"off", "finish"} /\ ckpt' = ckpt
           \/ \E r \in Returned : \E e \in EdgeChosen(r, Recorded(r)) :
                LET f == Follow(Recorded(r), e)
                    s == Snapshot(f, e.to, mem.node)
                IN  /\ pc' = "top" /\ ckpt' = <<s>> /\ mem' = s
                    /\ f \in Progress /\ s \in Progress
                    /\ last' = [last EXCEPT ![mem.node] = r.status]
<1>0. mem \in Progress /\ mem.node \in Node
  BY DEF TypeOK, Progress
<1>1. PICK r \in Returned :
        /\ last' = [last EXCEPT ![mem.node] = r.status]
        /\ \/ pc' \in {"off", "finish"} /\ ckpt' = ckpt
           \/ \E e \in EdgeChosen(r, Recorded(r)) :
                LET f == Follow(Recorded(r), e)
                IN  SaveAnd(Snapshot(f, e.to, Recorded(r).node),
                            [f EXCEPT !.node = e.to, !.prev = Recorded(r).node],
                            "top")
  BY DEF HandlerReturns, EndWith
<1>2. Recorded(r) \in Progress /\ Recorded(r).node = mem.node
  BY <1>0, <1>1, RecordedType DEF Returned
<1>3. ASSUME NEW e \in EdgeChosen(r, Recorded(r)),
             NEW f, f = Follow(Recorded(r), e),
             SaveAnd(Snapshot(f, e.to, Recorded(r).node),
                     [f EXCEPT !.node = e.to, !.prev = Recorded(r).node], "top")
      PROVE  \/ Quits
             \/ /\ pc' = "top" /\ f \in Progress
                /\ Snapshot(f, e.to, mem.node) \in Progress
                /\ ckpt' = <<Snapshot(f, e.to, mem.node)>>
                /\ mem' = Snapshot(f, e.to, mem.node)
  <2>1. f \in Progress /\ e.to \in Node
    BY <1>2, <1>3, FollowType, ChosenEdgeLeadsToNode
  <2>2. Snapshot(f, e.to, mem.node) \in Progress
    BY <1>0, <2>1, SnapshotType
  <2>3. Snapshot(f, e.to, mem.node) = [f EXCEPT !.node = e.to, !.prev = mem.node]
    BY DEF Snapshot
  <2> QED
    BY <1>2, <1>3, <2>1, <2>2, <2>3, SaveOrQuit
<1> QED
  BY <1>1, <1>3 DEF Quits

(* Each step keeps TopIsDurable.                                           *)
LEMMA TopStep ==
    ASSUME TypeOK, TopIsDurable, [Next]_vars
    PROVE  TopIsDurable'
<1>0. mem \in Progress /\ mem.node \in Node
  BY DEF TypeOK, Progress
<1>1. CASE pc' # "top"
  BY <1>1 DEF TopIsDurable
<1>2. CASE Launch
  BY <1>2 DEF Launch, Restored, TopIsDurable
<1>3. CASE UNCHANGED <<pc, mem, ckpt>>
  BY <1>3 DEF TopIsDurable
<1>4. CASE GateRetry
  <2>1. PICK g \in FailingGates : \E t \in RetryTargets(g) :
            mem' = [mem EXCEPT !.node = t]
    BY <1>4 DEF GateRetry
  <2>2. PICK t \in RetryTargets(g) : mem' = [mem EXCEPT !.node = t]
    BY <2>1
  <2>3. /\ pc = "top" /\ ckpt' = ckpt /\ mem.node \in Exits /\ g \in Gates
    BY <1>4 DEF GateRetry, AtTop, FailingGates
  <2>4. mem'.node = t
    BY <1>0, <2>2 DEF Progress
  <2>5. CASE ckpt = <<>>
    <3>1. mem = Fresh \/ mem = [Fresh EXCEPT !.node = mem.node]
      BY <2>3, <2>5 DEF TopIsDurable
    <3>2. [mem EXCEPT !.node = t] = [Fresh EXCEPT !.node = t]
      BY <3>1 DEF Fresh
    <3> QED
      BY <2>2, <2>3, <2>4, <2>5, <3>2 DEF TopIsDurable
  <2>6. CASE ckpt # <<>>
    <3>1. ckpt[1] \in Progress
      BY <2>6, FileType DEF TypeOK
    <3>2. /\ ckpt[1].node \in Exits
          /\ mem = ckpt[1] \/ mem = [ckpt[1] EXCEPT !.node = mem.node]
      BY <2>3, <2>6 DEF TopIsDurable
    <3>3. [mem EXCEPT !.node = t] = [ckpt[1] EXCEPT !.node = t]
      BY <3>1, <3>2 DEF Progress
    <3> QED
      BY <2>2, <2>3, <2>4, <2>6, <3>2, <3>3 DEF TopIsDurable
  <2> QED
    BY <2>5, <2>6
<1>5. CASE HandlerReturns
  <2>1. CASE pc' \in {"off", "finish"}
    BY <1>1, <2>1
  <2>2. ASSUME NEW s, ckpt' = <<s>>, mem' = s
        PROVE  TopIsDurable'
    BY <2>2, NextSaved DEF TopIsDurable
  <2> QED
    BY <1>5, <2>1, <2>2, ReturnsToTop
<1>6. CASE BeginAttempt \/ HandlerRetries
  BY <1>1, <1>6, SaveOrQuit DEF BeginAttempt, HandlerRetries, Quits
<1>7. CASE HonourStop \/ Enter \/ StartHandler \/ Finalize
  BY <1>1, <1>7 DEF HonourStop, Enter, StartHandler, Finalize, EndWith
<1> QED
  BY <1>1, <1>2, <1>3, <1>4, <1>5, <1>6, <1>7, QuietSteps
  DEF Next, EngineStep, HandlerStep, RequestStop, vars

(* TopIsDurable, for every plan: between two stages the file holds all     *)
(* that the process knows, but for the jump of a goal-gate retry.          *)
THEOREM BetweenStagesAllIsSaved == Spec => []TopIsDurable
<1>1. Init => TopIsDurable
  BY DEF Init, TopIsDurable
<1>2. TypeOK /\ TopIsDurable /\ [Next]_vars => TopIsDurable'
  BY TopStep
<1> QED
  BY <1>1, <1>2, TypeCorrect, PTL DEF Spec

----------------------------------------------------------------------------
(* Walks.  An exit is reached along an edge and left by a goal-gate retry; *)
(* both are what Leads says.                                               *)
LEMMA ChosenEdgeLeads ==
    ASSUME NEW r, NEW m \in Progress, NEW e \in EdgeChosen(r, m)
    PROVE  Leads(m.node, e.to)
<1>1. PICK i \in SelectEdge(Edges[m.node], r, Resolve(r, m)) : e = Edges[m.node][i]
  BY DEF EdgeChosen
<1>2. i \in DOMAIN Edges[m.node]
  BY SelectedIsAnEdge
<1> QED
  BY <1>1, <1>2 DEF Leads, Targets

(* Retry targets are nodes that are no exits.                              *)
LEMMA RetryTargetsAreNodes ==
    ASSUME NEW g \in Gates, NEW t \in RetryTargets(g)
    PROVE  t \in Node \ Exits
<1>1. RetryChain[g] \in Seq((Node \ Exits) \cup {NoNode})
  BY PlanAssumption
<1>2. \A I : FirstOf(I) \subseteq I
  BY DEF FirstOf
<1>3. PICK i \in DOMAIN RetryChain[g] : RetryChain[g][i] # NoNode /\ t = RetryChain[g][i]
  BY <1>2 DEF RetryTargets
<1> QED
  BY <1>1, <1>3

(* From an exit the walk goes on to the target of a retry.                 *)
LEMMA WalkIsRetried ==
    ASSUME NEW seq \in Seq(Node), NEW x \in Exits, IsWalk(seq, x),
           NEW g \in Gates, NEW t \in RetryTargets(g)
    PROVE  IsWalk(seq, t)
<1> SUFFICES ASSUME NEW i \in DOMAIN seq
             PROVE  Leads(seq[i], IF i = Len(seq) THEN t ELSE seq[i + 1])
  BY DEF IsWalk
<1>1. CASE i # Len(seq)
  BY <1>1 DEF IsWalk
<1>2. CASE i = Len(seq)
  <2>1. Leads(seq[i], x)
    BY <1>2 DEF IsWalk
  <2>2. x \in Targets(seq[i])
    BY <2>1, RetryTargetsAreNodes DEF Leads
  <2> QED
    BY <1>2, <2>2 DEF Leads
<1> QED
  BY <1>1, <1>2

LEMMA WalkIsExtended ==
    ASSUME NEW seq \in Seq(Node), NEW n \in Node, IsWalk(seq, n),
           NEW m \in Node, Leads(n, m)
    PROVE  IsWalk(Append(seq, n), m)
<1> DEFINE longer == Append(seq, n)
<1>1. /\ Len(longer) = Len(seq) + 1
      /\ DOMAIN longer = 1 .. Len(seq) + 1
      /\ longer[Len(seq) + 1] = n
      /\ \A i \in DOMAIN seq : longer[i] = seq[i]
      /\ DOMAIN seq = 1 .. Len(seq) /\ Len(seq) \in Nat
  OBVIOUS
<1> HIDE DEF longer
<1> SUFFICES ASSUME NEW i \in DOMAIN longer
             PROVE  Leads(longer[i], IF i = Len(longer) THEN m ELSE longer[i + 1])
  BY DEF IsWalk, longer
<1>2. CASE i = Len(seq) + 1
  BY <1>1, <1>2
<1>3. CASE i # Len(seq) + 1
  <2>1. i \in DOMAIN seq /\ i # Len(longer)
    BY <1>1, <1>3
  <2>2. Leads(seq[i], IF i = Len(seq) THEN n ELSE seq[i + 1])
    BY <2>1 DEF IsWalk
  <2>3. CASE i = Len(seq)
    BY <1>1, <2>1, <2>2, <2>3
  <2>4. CASE i # Len(seq)
    <3>1. i + 1 \in DOMAIN seq
      BY <1>1, <2>1, <2>4
    <3> QED
      BY <1>1, <2>1, <2>2, <2>4, <3>1
  <2> QED
    BY <2>3, <2>4
<1> QED
  BY <1>2, <1>3

LEMMA EmptyWalk ==
    ASSUME NEW n
    PROVE  IsWalk(<<>>, n)
  BY DEF IsWalk

(* Each step keeps CompletedIsWalk.                                        *)
LEMMA WalkStep ==
    ASSUME TypeOK, CompletedIsWalk, [Next]_vars
    PROVE  CompletedIsWalk'
<1>0. mem \in Progress /\ mem.node \in Node /\ mem.done \in Seq(Node)
  BY DEF TypeOK, Progress
<1>1. CASE /\ pc' \in {"off", "finish", "cleared"}
           /\ ckpt' = ckpt \/ ckpt' = <<>>
  BY <1>1 DEF CompletedIsWalk, Saved
<1>2. CASE Launch
  <2>1. CASE ckpt = <<>>
    BY <1>2, <2>1, EmptyWalk DEF Launch, Restored, Fresh, CompletedIsWalk, Saved
  <2>2. CASE ckpt # <<>>
    BY <1>2, <2>2 DEF Launch, Restored, CompletedIsWalk, Saved
  <2> QED
    BY <2>1, <2>2
<1>3. CASE UNCHANGED <<pc, mem, ckpt>>
  BY <1>3 DEF CompletedIsWalk, Saved
<1>4. CASE HonourStop
  <2>1. IsWalk(mem.done, mem.node)
    BY <1>4 DEF HonourStop, AtTop, CompletedIsWalk
  <2>2. CASE ckpt' = <<Snapshot(mem, mem.node, mem.prev)>>
    <3> DEFINE s == Snapshot(mem, mem.node, mem.prev)
    <3>1. s.done = mem.done /\ s.node = mem.node
      BY <1>0, SnapshotFields
    <3> HIDE DEF s
    <3>2. pc' = "off" /\ ckpt'[1] = s
      BY <1>4, <2>2, NextSaved DEF HonourStop, EndWith, s
    <3> QED
      BY <2>1, <3>1, <3>2 DEF CompletedIsWalk
  <2> QED
    BY <1>1, <1>4, <2>2 DEF HonourStop, EndWith
<1>5. CASE GateRetry
  <2>1. PICK g \in FailingGates : \E t \in RetryTargets(g) :
            mem' = [mem EXCEPT !.node = t]
    BY <1>5 DEF GateRetry
  <2>2. PICK t \in RetryTargets(g) : mem' = [mem EXCEPT !.node = t]
    BY <2>1
  <2>3. /\ pc = "top" /\ pc' = "top" /\ ckpt' = ckpt
        /\ mem.node \in Exits /\ g \in Gates
    BY <1>5 DEF GateRetry, AtTop, FailingGates
  <2>4. mem'.node = t /\ mem'.done = mem.done
    BY <1>0, <2>2 DEF Progress
  <2>5. IsWalk(mem.done, t)
    BY <1>0, <2>3, WalkIsRetried DEF CompletedIsWalk
  <2> QED
    BY <2>3, <2>4, <2>5 DEF CompletedIsWalk, Saved
<1>6. CASE Enter
  <2>1. mem'.node = mem.node /\ mem'.done = mem.done
    BY <1>0, <1>6, EnteredFields DEF Enter
  <2>2. pc = "top" /\ ckpt' = ckpt
    BY <1>6 DEF Enter, MayEnter, AtTop
  <2> QED
    BY <2>1, <2>2 DEF CompletedIsWalk, Saved
<1>7. CASE BeginAttempt
  <2>1. IsWalk(mem.done, mem.node)
    BY <1>7 DEF BeginAttempt, CompletedIsWalk
  <2> DEFINE s == Snapshot(BegunOnDisk, mem.node, mem.prev)
  <2>2. BegunOnDisk \in Progress
    BY <1>0, <1>7, BegunType DEF BeginAttempt
  <2>3. /\ s.done = mem.done /\ s.node = mem.node
        /\ Begun.done = mem.done /\ Begun.node = mem.node
    BY <1>0, <2>2, SnapshotFields, BegunFields
  <2> HIDE DEF s
  <2>4. CASE ckpt' = <<s>> /\ mem' = Begun
    BY <2>1, <2>3, <2>4, NextSaved DEF CompletedIsWalk
  <2> QED
    BY <1>1, <1>7, <2>4, SaveOrQuit DEF BeginAttempt, Quits, s
<1>8. CASE StartHandler
  BY <1>8 DEF StartHandler, CompletedIsWalk, Saved
<1>9. CASE HandlerRetries
  <2>1. PICK r \in Results[mem.node] :
           \/ UNCHANGED <<mem, ckpt>> /\ pc' = "attempt"
           \/ LET m == [mem EXCEPT !.cost = @ + r.cost]
              IN  SaveAnd(Snapshot(m, m.node, m.prev), m, "attempt")
    BY <1>9 DEF HandlerRetries
  <2>2. IsWalk(mem.done, mem.node) /\ pc = "running"
    BY <1>9 DEF HandlerRetries, CompletedIsWalk
  <2>3. CASE UNCHANGED <<mem, ckpt>> /\ pc' = "attempt"
    BY <2>2, <2>3 DEF CompletedIsWalk, Saved
  <2> DEFINE m == [mem EXCEPT !.cost = mem.cost + r.cost]
             s == Snapshot(m, m.node, m.prev)
  <2>4. m \in Progress /\ m.node = mem.node /\ m.done = mem.done
    BY <1>0, ChargedFields
  <2>5. CASE SaveAnd(s, m, "attempt")
    <3> HIDE DEF m
    <3>1. s.done = mem.done /\ s.node = mem.node
      BY <2>4, SnapshotFields
    <3> HIDE DEF s
    <3>2. CASE ckpt' = <<s>> /\ mem' = m
      BY <2>2, <2>4, <3>1, <3>2, NextSaved DEF CompletedIsWalk
    <3> QED
      BY <1>1, <2>5, <3>2, SaveOrQuit DEF Quits
  <2> QED
    BY <2>1, <2>3, <2>5
<1>10. CASE HandlerReturns
  <2>1. CASE pc' \in {"off", "finish"} /\ ckpt' = ckpt
    BY <1>1, <2>1
  <2>2. ASSUME NEW r \in Returned, NEW e \in EdgeChosen(r, Recorded(r)),
               LET f == Follow(Recorded(r), e)
                   s == Snapshot(f, e.to, mem.node)
               IN  ckpt' = <<s>> /\ mem' = s /\ f \in Progress
        PROVE  CompletedIsWalk'
    <3>1. /\ Recorded(r) \in Progress /\ Recorded(r).node = mem.node
          /\ Recorded(r).done = Append(mem.done, mem.node)
      BY <1>0, RecordedType, RecordedFields DEF Returned
    <3>2. Leads(mem.node, e.to) /\ e.to \in Node
      BY <3>1, ChosenEdgeLeads, ChosenEdgeLeadsToNode
    <3>3. IsWalk(mem.done, mem.node)
      BY <1>10 DEF HandlerReturns, CompletedIsWalk
    <3>4. IsWalk(Append(mem.done, mem.node), e.to)
      BY <1>0, <3>2, <3>3, WalkIsExtended
    <3> DEFINE f == Follow(Recorded(r), e)
               s == Snapshot(f, e.to, mem.node)
    <3>5. s.node = e.to /\ s.done = f.done
      BY <2>2, SnapshotFields
    <3>6. f.done = IF e.loop_restart THEN <<>> ELSE Append(mem.done, mem.node)
      BY <3>1, FollowFields
    <3>7. ckpt' = <<s>> /\ mem' = s
      BY <2>2
    <3> HIDE DEF f, s
    <3>8. IsWalk(s.done, s.node)
      BY <3>4, <3>5, <3>6, EmptyWalk
    <3> QED
      BY <3>7, <3>8, NextSaved DEF CompletedIsWalk
  <2> QED
    BY <1>10, <2>1, <2>2, ReturnsToTop
<1>11. CASE Finalize
  BY <1>1, <1>11 DEF Finalize, EndWith
<1>12. CASE UNCHANGED vars \/ RequestStop
  BY <1>3, <1>12 DEF vars, RequestStop
<1> QED
  BY <1>1, <1>2, <1>4, <1>5, <1>6, <1>7, <1>8, <1>9, <1>10, <1>11, <1>12,
     QuietSteps
  DEF Next, EngineStep, HandlerStep

(* CompletedIsWalk, for every plan: completed_nodes is a walk of the graph *)
(* that leads to the current node, on disk and in memory, over all the     *)
(* processes of a Run.                                                     *)
THEOREM HistoryIsAWalk == Spec => []CompletedIsWalk
<1>1. Init => CompletedIsWalk
  BY EmptyWalk DEF Init, CompletedIsWalk, Saved
<1>2. TypeOK /\ CompletedIsWalk /\ [Next]_vars => CompletedIsWalk'
  BY WalkStep
<1> QED
  BY <1>1, <1>2, TypeCorrect, PTL DEF Spec

----------------------------------------------------------------------------
(* Interrupted waits.  What is saved for a waiting node leaves it at least *)
(* one attempt, and what a retry jumps to was not active before: the       *)
(* active node, when there is one, is the current one or an exit.          *)
Open(m) ==
    /\ m.active \in {NoNode, m.node} \cup Exits
    /\ m.node \in Waiting => UsedIn(m) < MaxAttempts[m.node]

(* The gates a record calls unsatisfied: FailingGates, of any record.      *)
Failing(m) == {g \in Gates : m.outcome[g] \notin Satisfying \cup {NoStatus}}

(* A Run that has used up the attempts of a node does so again and again.  *)
Exhausted ==
    /\ Saved
    /\ UsedIn(ckpt[1]) >= MaxAttempts[ckpt[1].node]
    /\ ckpt[1].node \in Exits => Failing(ckpt[1]) = {}
    /\ \/ pc = "off"
       \/ pc = "top" /\ mem = ckpt[1]

WaitInv ==
    /\ Saved => Open(ckpt[1])
    /\ pc = "top" => Open(mem)
    /\ end = "retries" => Exhausted

LEMMA AttemptsAreCounts ==
    ASSUME NEW m \in Progress
    PROVE  /\ m.node \in Node /\ UsedIn(m) \in Nat
           /\ MaxAttempts[m.node] \in Nat \ {0}
  BY LimitAssumption DEF UsedIn, Progress

LEMMA UnusedIsOpen ==
    ASSUME NEW m \in Progress, m.active = NoNode
    PROVE  Open(m) /\ UsedIn(m) = 0
<1>1. m.node # NoNode
  BY PlanAssumption DEF Progress
<1>2. UsedIn(m) = 0
  BY <1>1 DEF UsedIn
<1> QED
  BY <1>2, AttemptsAreCounts DEF Open

LEMMA FreshIsOpen == Open(Fresh) /\ UsedIn(Fresh) = 0
<1>1. Fresh.active = NoNode
  BY DEF Fresh
<1> QED
  BY <1>1, FreshType, UnusedIsOpen

(* The retry of a gate leads to a node that has used no attempt.           *)
LEMMA RetriedIsOpen ==
    ASSUME NEW m \in Progress, Open(m), m.node \in Exits,
           NEW t \in Node \ Exits
    PROVE  /\ [m EXCEPT !.node = t] \in Progress
           /\ Open([m EXCEPT !.node = t])
           /\ UsedIn([m EXCEPT !.node = t]) = 0
<1> DEFINE j == [m EXCEPT !.node = t]
<1>1. j \in Progress /\ j.node = t /\ j.active = m.active
  BY DEF Progress
<1>2. m.active # t /\ m.active \in {NoNode} \cup Exits
  BY PlanAssumption DEF Open
<1> HIDE DEF j
<1>3. UsedIn(j) = 0
  BY <1>1, <1>2 DEF UsedIn
<1>4. Open(j)
  BY <1>1, <1>2, <1>3, AttemptsAreCounts DEF Open
<1> QED
  BY <1>1, <1>3, <1>4 DEF j

(* Who has used up the attempts is at the node the file names.             *)
LEMMA ExhaustedIsSaved ==
    ASSUME TypeOK, TopIsDurable, WaitInv, pc = "top",
           UsedIn(mem) >= MaxAttempts[mem.node]
    PROVE  Saved /\ mem = ckpt[1]
<1>0. mem \in Progress /\ mem.node \in Node /\ MaxAttempts[mem.node] \in Nat \ {0}
  BY AttemptsAreCounts DEF TypeOK
<1>1. CASE ckpt = <<>>
  <2>1. mem = Fresh \/ mem = [Fresh EXCEPT !.node = mem.node]
    BY <1>1 DEF TopIsDurable
  <2>2. \A n : [Fresh EXCEPT !.node = n].active = NoNode
    BY DEF Fresh
  <2>3. mem.active = NoNode
    BY <2>1, <2>2 DEF Fresh
  <2> QED
    BY <1>0, <2>3, UnusedIsOpen
<1>2. CASE ckpt # <<>> /\ mem # ckpt[1]
  <2>1. /\ ckpt[1].node \in Exits
        /\ \E g \in Gates : mem.node \in RetryTargets(g)
        /\ mem = [ckpt[1] EXCEPT !.node = mem.node]
    BY <1>2 DEF TopIsDurable
  <2>2. ckpt[1] \in Progress /\ Open(ckpt[1])
    BY <1>2, FileType DEF TypeOK, WaitInv, Saved
  <2>3. mem.node \in Node \ Exits
    BY <2>1, RetryTargetsAreNodes
  <2>4. \A t \in Node \ Exits : UsedIn([ckpt[1] EXCEPT !.node = t]) = 0
    BY <2>1, <2>2, RetriedIsOpen
  <2>5. UsedIn(mem) = 0
    BY <2>1, <2>3, <2>4
  <2> QED
    BY <1>0, <2>5
<1> QED
  BY <1>1, <1>2 DEF Saved

(* A step that leaves memory, or what it becomes, open keeps WaitInv.      *)
LEMMA WaitOff ==
    ASSUME WaitInv, pc' # "top", ckpt' = ckpt,
           end' = "retries" => Exhausted'
    PROVE  WaitInv'
  BY DEF WaitInv, Saved

LEMMA WaitSaved ==
    ASSUME WaitInv, NEW s, NEW m, NEW next,
           SaveAnd(s, m, next), pc # "off",
           Open(s), next = "top" => Open(m),
           end # "retries"
    PROVE  WaitInv'
<1>1. CASE ckpt' = <<s>> /\ mem' = m /\ pc' = next /\ end' = end
  BY <1>1, NextSaved DEF WaitInv
<1>2. CASE pc' = "off" /\ ckpt' = ckpt /\ end' = "disk"
  BY <1>2, WaitOff
<1> QED
  BY <1>1, <1>2 DEF SaveAnd, EndWith

(* What is saved of an attempt of the active node.                         *)
LEMMA ActiveIsOpen ==
    ASSUME NEW s \in Progress, s.active = s.node,
           s.node \in Waiting => s.used < MaxAttempts[s.node]
    PROVE  Open(s)
  BY DEF Open, UsedIn

(* Each step keeps WaitInv.                                                *)
LEMMA WaitStep ==
    ASSUME TypeOK, TopIsDurable, DurableInv, VisitInv, WaitInv, [Next]_vars
    PROVE  WaitInv'
<1>0. /\ mem \in Progress /\ mem.node \in Node
      /\ mem.prev \in Node \cup {NoNode}
  BY DEF TypeOK, Progress
<1>a. pc \notin {"off", "top"} => end # "retries"
  BY DEF WaitInv, Exhausted
<1>1. CASE Launch
  <2>1. CASE ckpt = <<>>
    BY <1>1, <2>1, FreshIsOpen DEF Launch, Restored, WaitInv, Exhausted, Saved
  <2>2. CASE ckpt # <<>>
    BY <1>1, <2>2 DEF Launch, Restored, WaitInv, Exhausted, Saved
  <2> QED
    BY <2>1, <2>2
<1>2. CASE UNCHANGED <<pc, mem, ckpt, end>>
  BY <1>2 DEF WaitInv, Exhausted, Saved
<1>3. CASE HonourStop
  <2>1. Open(mem)
    BY <1>3 DEF HonourStop, AtTop, WaitInv
  <2> DEFINE s == Snapshot(mem, mem.node, mem.prev)
  <2>2. Open(s)
    BY <1>0, <2>1, SnapshotFields DEF Open, UsedIn
  <2> HIDE DEF s
  <2>3. pc' = "off" /\ end' \in {"stopped", "disk"}
    BY <1>3 DEF HonourStop, EndWith
  <2>4. CASE ckpt' = <<s>>
    BY <2>2, <2>3, <2>4, NextSaved DEF WaitInv
  <2>5. CASE ckpt' = ckpt
    BY <2>3, <2>5, WaitOff
  <2> QED
    BY <1>3, <2>4, <2>5 DEF HonourStop, s
<1>4. CASE GateRetry
  <2>1. PICK g \in FailingGates : \E t \in RetryTargets(g) :
            mem' = [mem EXCEPT !.node = t]
    BY <1>4 DEF GateRetry
  <2>2. PICK t \in RetryTargets(g) : mem' = [mem EXCEPT !.node = t]
    BY <2>1
  <2>3. /\ pc = "top" /\ UNCHANGED <<pc, ckpt, end>>
        /\ mem.node \in Exits /\ g \in Gates
    BY <1>4 DEF GateRetry, AtTop, FailingGates
  <2>4. Open(mem) /\ t \in Node \ Exits
    BY <2>3, RetryTargetsAreNodes DEF WaitInv
  <2>5. Open(mem')
    BY <1>0, <2>2, <2>3, <2>4, RetriedIsOpen
  <2>6. end # "retries"
    BY <2>1, <2>3 DEF WaitInv, Exhausted, Failing, FailingGates
  <2> QED
    BY <2>3, <2>5, <2>6 DEF WaitInv, Saved
<1>5. CASE Enter
  <2>1. pc = "top" /\ pc' = "attempt" /\ UNCHANGED <<ckpt, end>>
    BY <1>5 DEF Enter, MayEnter, AtTop
  <2>2. UsedIn(mem) < MaxAttempts[mem.node]
    BY <1>0, <1>5, ActivatedIsActive DEF Enter, UsedIn
  <2>3. end # "retries"
    BY <1>0, <2>1, <2>2, AttemptsAreCounts DEF WaitInv, Exhausted
  <2> QED
    BY <2>1, <2>3, WaitOff
<1>6. CASE RetriesExhausted
  <2>1. pc = "top" /\ pc' = "off" /\ ckpt' = ckpt
    BY <1>6 DEF RetriesExhausted, MayEnter, AtTop, EndWith
  <2>2. UsedIn(mem) >= MaxAttempts[mem.node]
    BY <1>0, <1>6, ActivatedIsActive DEF RetriesExhausted, UsedIn
  <2>3. Saved /\ mem = ckpt[1]
    BY <2>1, <2>2, ExhaustedIsSaved
  <2>4. mem.node \in Exits => Failing(mem) = {}
    BY <1>6 DEF RetriesExhausted, MayEnter, FailingGates, Failing
  <2> QED
    BY <2>1, <2>2, <2>3, <2>4, WaitOff DEF Exhausted, Saved
<1>7. CASE BeginAttempt
  <2> DEFINE s == Snapshot(BegunOnDisk, mem.node, mem.prev)
  <2>1. /\ pc = "attempt" /\ SaveAnd(s, Begun, "begun")
        /\ mem.active = mem.node /\ mem.used < MaxAttempts[mem.node]
    BY <1>7 DEF BeginAttempt, DurableInv, ActiveInv, VisitInv
  <2>2. BegunOnDisk \in Progress
    BY <1>0, <1>7, BegunType DEF BeginAttempt
  <2>3. /\ s \in Progress /\ s.node = mem.node /\ s.active = mem.node
        /\ mem.node \in Waiting => s.used = mem.used
    BY <1>0, <2>1, <2>2, SnapshotType, SnapshotFields, BegunFields
  <2> HIDE DEF s
  <2>4. Open(s)
    BY <2>1, <2>3, ActiveIsOpen
  <2> QED
    BY <1>a, <2>1, <2>4, WaitSaved
<1>8. CASE HandlerRetries
  <2>1. PICK r \in Results[mem.node] :
           \/ UNCHANGED <<mem, ckpt, end>> /\ pc' = "attempt"
           \/ LET m == [mem EXCEPT !.cost = @ + r.cost]
              IN  SaveAnd(Snapshot(m, m.node, m.prev), m, "attempt")
    BY <1>8 DEF HandlerRetries
  <2>2. /\ pc = "running" /\ mem.active = mem.node
        /\ mem.used < MaxAttempts[mem.node]
    BY <1>8 DEF HandlerRetries, HasMoreAttempts, DurableInv, ActiveInv
  <2>3. CASE UNCHANGED <<mem, ckpt, end>> /\ pc' = "attempt"
    BY <1>a, <2>2, <2>3, WaitOff
  <2> DEFINE m == [mem EXCEPT !.cost = mem.cost + r.cost]
             s == Snapshot(m, m.node, m.prev)
  <2>4. /\ m \in Progress /\ m.node = mem.node /\ m.prev = mem.prev
        /\ m.active = mem.active /\ m.used = mem.used
    BY <1>0, ChargedFields
  <2>5. CASE SaveAnd(s, m, "attempt")
    <3> HIDE DEF m
    <3>1. /\ s \in Progress /\ s.node = mem.node /\ s.active = mem.node
          /\ s.used = mem.used
      BY <1>0, <2>2, <2>4, SnapshotType, SnapshotFields
    <3> HIDE DEF s
    <3>2. Open(s)
      BY <2>2, <3>1, ActiveIsOpen
    <3> QED
      BY <1>a, <2>2, <2>5, <3>2, WaitSaved
  <2> QED
    BY <2>1, <2>3, <2>5
<1>9. CASE HandlerReturns
  <2>1. pc = "running" /\ end' \in {end, "handler", "disk"}
    BY <1>9 DEF HandlerReturns, EndWith, SaveAnd
  <2>2. end' # "retries"
    BY <1>a, <2>1
  <2>3. CASE pc' \in {"off", "finish"} /\ ckpt' = ckpt
    BY <2>2, <2>3, WaitOff
  <2>4. ASSUME NEW r \in Returned, NEW e \in EdgeChosen(r, Recorded(r)),
               LET f == Follow(Recorded(r), e)
                   s == Snapshot(f, e.to, mem.node)
               IN  ckpt' = <<s>> /\ mem' = s /\ f \in Progress /\ s \in Progress
        PROVE  WaitInv'
    <3> DEFINE f == Follow(Recorded(r), e)
               s == Snapshot(f, e.to, mem.node)
    <3>1. Recorded(r) \in Progress
      BY <1>0, RecordedType DEF Returned
    <3>2. ckpt' = <<s>> /\ mem' = s /\ f \in Progress /\ s \in Progress
      BY <2>4
    <3>3. f.active = NoNode
      BY <3>1, FollowFields
    <3>4. s.active = NoNode
      BY <3>2, <3>3, SnapshotFields
    <3> HIDE DEF f, s
    <3>5. Open(s)
      BY <3>2, <3>4, UnusedIsOpen
    <3> QED
      BY <2>2, <3>2, <3>5, NextSaved DEF WaitInv
  <2> QED
    BY <1>9, <2>3, <2>4, ReturnsToTop
<1>10. CASE Finalize
  <2>1. pc = "finish" /\ pc' \in {"off", "cleared"} /\ end' \in {end, "disk"}
    BY <1>10 DEF Finalize, EndWith
  <2>2. ckpt' = <<>> \/ ckpt' = ckpt
    BY <1>10 DEF Finalize
  <2> QED
    BY <1>a, <2>1, <2>2 DEF WaitInv, Saved
<1>11. CASE \/ Crash \/ BudgetExhausted \/ GateUnsatisfied \/ FixLimitExceeded
            \/ MaxStepsExceeded \/ HandlerFails
  BY <1>11, WaitOff
  DEF Crash, BudgetExhausted, GateUnsatisfied, FixLimitExceeded,
      MaxStepsExceeded, HandlerFails, EndWith
<1>12. CASE ExitReturns \/ Complete \/ StartHandler
  <2>1. pc \notin {"off", "top"} /\ pc' # "top" /\ ckpt' = ckpt
    BY <1>12 DEF ExitReturns, Complete, StartHandler, EndWith
  <2>2. end' # "retries"
    BY <1>a, <1>12, <2>1 DEF ExitReturns, Complete, StartHandler, EndWith
  <2> QED
    BY <2>1, <2>2, WaitOff
<1>13. CASE UNCHANGED vars \/ RequestStop
  BY <1>2, <1>13 DEF vars, RequestStop
<1> QED
  BY <1>1, <1>3, <1>4, <1>5, <1>6, <1>7, <1>8, <1>9, <1>10, <1>11, <1>12, <1>13
  DEF Next, EngineStep, HandlerStep

(* Who gives up, or goes on where an earlier process gave up, is not at a  *)
(* waiting node.                                                           *)
LEMMA GivenUpIsNoWait ==
    ASSUME TypeOK, TopIsDurable, WaitInv, [Next]_vars,
           end' = "retries", pc # "off"
    PROVE  mem.node \notin Waiting
<1>1. Saved /\ mem = ckpt[1] /\ UsedIn(mem) >= MaxAttempts[mem.node]
  <2>1. CASE end = "retries"
    BY <2>1 DEF WaitInv, Exhausted
  <2>2. CASE RetriesExhausted
    <3>1. mem \in Progress
      BY DEF TypeOK
    <3>2. pc = "top" /\ UsedIn(mem) >= MaxAttempts[mem.node]
      BY <2>2, <3>1, ActivatedIsActive DEF RetriesExhausted, MayEnter, AtTop, UsedIn
    <3> QED
      BY <3>2, ExhaustedIsSaved
  <2>3. CASE end # "retries" /\ ~RetriesExhausted
    BY <2>3
    DEF Next, EngineStep, HandlerStep, vars, Launch, RequestStop, Crash,
        BudgetExhausted, HonourStop, GateRetry, GateUnsatisfied, Enter,
        FixLimitExceeded, MaxStepsExceeded, BeginAttempt, StartHandler,
        HandlerRetries, HandlerFails, HandlerReturns, ExitReturns, Finalize,
        Complete, EndWith, SaveAnd
  <2> QED
    BY <2>1, <2>2, <2>3
<1>2. ckpt[1] \in Progress /\ Open(ckpt[1])
  BY <1>1, FileType DEF TypeOK, WaitInv, Saved
<1> QED
  BY <1>1, <1>2, AttemptsAreCounts DEF Open

(* WaitSurvives, for every plan: no process gives up a human gate because  *)
(* its attempts are used, for the only thing that uses one is the wait     *)
(* that a crash interrupted (resumes_interrupted_attempt).                 *)
THEOREM WaitsAreAskedAgain == Spec => WaitSurvives
<1>1. Init => DurableInv /\ VisitInv /\ TopIsDurable /\ WaitInv
  BY DEF Init, DurableInv, RunningIsDurable, ActiveInv, VisitInv, Saved,
         TopIsDurable, WaitInv
<1>2. TypeOK /\ DurableInv /\ VisitInv /\ TopIsDurable /\ WaitInv /\ [Next]_vars
        => (DurableInv /\ VisitInv /\ TopIsDurable /\ WaitInv)'
  BY DurableStep, VisitStep, TopStep, WaitStep
<1>3. TypeOK /\ TopIsDurable /\ WaitInv /\ [Next]_vars
        => [end' = "retries" /\ pc # "off" => mem.node \notin Waiting]_vars
  BY GivenUpIsNoWait
<1> QED
  BY <1>1, <1>2, <1>3, TypeCorrect, PTL DEF Spec, WaitSurvives

----------------------------------------------------------------------------
(* Goal gates.  What the file says of a node is what its handler returned  *)
(* last, but for the node it is at, and exits; what lets an exit be        *)
(* entered still holds when it is through.  A loop_restart edge forgets    *)
(* the outcomes, so the argument is about plans without one.               *)
NeverRestarts ==
    \A n \in Node : \A i \in DOMAIN Edges[n] : ~Edges[n][i].loop_restart

SavedIsReturned ==
    \A g \in Node \ Exits :
        ckpt[1].outcome[g] = last[g] \/ ckpt[1].node = g

Nothing == \A g \in Node : last[g] = NoStatus

GateInv ==
    /\ Saved => SavedIsReturned
    /\ ~Saved /\ pc \in {"top", "attempt"} => Nothing
    /\ Saved /\ pc \in {"top", "attempt"} =>
         mem.node = ckpt[1].node \/ ckpt[1].node \in Exits
    /\ pc \in {"attempt", "begun", "running"} /\ mem.node \in Exits =>
         FailingGates = {}
    /\ GatesHoldAtExit

(* A step that ends the process, or stays where it is, keeps GateInv.      *)
LEMMA GateOff ==
    ASSUME GateInv, pc' \in {"off", "cleared"}, UNCHANGED <<ckpt, last>>
    PROVE  GateInv'
  BY DEF GateInv, Saved, SavedIsReturned, GatesHoldAtExit

(* What happens at the node the file names concerns no other node.         *)
LEMMA ReturnedIsElsewhere ==
    ASSUME TypeOK, GateInv, Saved, ckpt[1].node = mem.node,
           NEW x \in Statuses,
           last' = [last EXCEPT ![mem.node] = x], ckpt' = ckpt
    PROVE  Saved' /\ SavedIsReturned'
<1>1. last \in [Node -> Statuses \cup {NoStatus}]
  BY DEF TypeOK
<1> QED
  BY <1>1 DEF GateInv, SavedIsReturned, Saved

(* Each step keeps GateInv.                                                *)
LEMMA GateStep ==
    ASSUME NeverRestarts, TypeOK, AgreeInv, TopIsDurable, DurableInv, GateInv,
           [Next]_vars
    PROVE  GateInv'
<1>0. /\ mem \in Progress /\ mem.node \in Node
      /\ mem.prev \in Node \cup {NoNode}
      /\ last \in [Node -> Statuses \cup {NoStatus}]
  BY DEF TypeOK, Progress
<1>1. CASE Launch
  <2>1. CASE ckpt = <<>>
    BY <1>1, <2>1 DEF Launch, GateInv, Saved, Nothing, GatesHoldAtExit
  <2>2. CASE ckpt # <<>>
    BY <1>1, <2>2
    DEF Launch, Restored, GateInv, Saved, SavedIsReturned, GatesHoldAtExit
  <2> QED
    BY <2>1, <2>2
<1>2. CASE UNCHANGED <<pc, mem, ckpt, last>>
  BY <1>2
  DEF GateInv, Saved, SavedIsReturned, Nothing, FailingGates, GatesHoldAtExit
<1>3. CASE HonourStop
  <2>1. /\ pc = "top" /\ mem.node \notin Exits
        /\ pc' = "off" /\ last' = last
    BY <1>3 DEF HonourStop, AtTop, EndWith
  <2> DEFINE s == Snapshot(mem, mem.node, mem.prev)
  <2>2. CASE ckpt' = <<s>>
    <3>1. s.node = mem.node /\ s.outcome = mem.outcome
      BY <1>0, SnapshotFields
    <3>2. CASE Saved
      <4>1. mem.outcome = ckpt[1].outcome
        BY <2>1, <3>2 DEF AgreeInv, Agrees
      <4>2. \A g \in Node \ Exits : s.outcome[g] = last[g] \/ s.node = g
        BY <2>1, <3>1, <3>2, <4>1 DEF GateInv, SavedIsReturned
      <4> HIDE DEF s
      <4> QED
        BY <2>1, <2>2, <4>2, NextSaved
        DEF GateInv, SavedIsReturned, GatesHoldAtExit
    <3>3. CASE ~Saved
      <4>1. mem.outcome = Fresh.outcome /\ Nothing
        BY <2>1, <3>3 DEF AgreeInv, Agrees, GateInv
      <4>2. \A g \in Node \ Exits : s.outcome[g] = last[g]
        BY <3>1, <4>1 DEF Fresh, Nothing
      <4> HIDE DEF s
      <4> QED
        BY <2>1, <2>2, <4>2, NextSaved
        DEF GateInv, SavedIsReturned, GatesHoldAtExit
    <3> QED
      BY <3>2, <3>3
  <2> QED
    BY <1>3, <2>1, <2>2, GateOff DEF HonourStop
<1>4. CASE GateRetry
  <2>1. /\ pc = "top" /\ pc' = "top" /\ UNCHANGED <<ckpt, last>>
        /\ mem.node \in Exits
    BY <1>4 DEF GateRetry, AtTop
  <2>2. Saved => ckpt[1].node \in Exits
    BY <2>1 DEF GateInv
  <2> QED
    BY <2>1, <2>2 DEF GateInv, Saved, SavedIsReturned, Nothing, GatesHoldAtExit
<1>5. CASE Enter
  <2>1. /\ pc = "top" /\ pc' = "attempt" /\ UNCHANGED <<ckpt, last>>
        /\ mem.node \in Exits => FailingGates = {}
    BY <1>5 DEF Enter, MayEnter, AtTop
  <2>2. mem'.node = mem.node /\ mem'.outcome = mem.outcome
    BY <1>0, <1>5, EnteredFields DEF Enter
  <2> QED
    BY <2>1, <2>2
    DEF GateInv, Saved, SavedIsReturned, Nothing, FailingGates, GatesHoldAtExit
<1>6. CASE BeginAttempt
  <2> DEFINE s == Snapshot(BegunOnDisk, mem.node, mem.prev)
  <2>1. pc = "attempt" /\ SaveAnd(s, Begun, "begun") /\ last' = last
    BY <1>6 DEF BeginAttempt
  <2>2. BegunOnDisk \in Progress
    BY <1>0, <1>6, BegunType DEF BeginAttempt
  <2>3. /\ s.node = mem.node /\ s.outcome = mem.outcome
        /\ Begun.node = mem.node /\ Begun.outcome = mem.outcome
    BY <1>0, <2>2, SnapshotFields, BegunFields
  <2>4. \A g \in Node \ Exits : s.outcome[g] = last[g] \/ s.node = g
    <3>1. CASE Saved
      <4>1. mem.outcome = ckpt[1].outcome
        BY <2>1, <3>1 DEF AgreeInv, Agrees
      <4> QED
        BY <2>1, <2>3, <3>1, <4>1 DEF GateInv, SavedIsReturned
    <3>2. CASE ~Saved
      <4>1. mem.outcome = Fresh.outcome /\ Nothing
        BY <2>1, <3>2 DEF AgreeInv, Agrees, GateInv
      <4> QED
        BY <2>3, <4>1 DEF Fresh, Nothing
    <3> QED
      BY <3>1, <3>2
  <2> HIDE DEF s
  <2>5. CASE ckpt' = <<s>> /\ mem' = Begun /\ pc' = "begun"
    BY <2>1, <2>3, <2>4, <2>5, NextSaved
    DEF GateInv, SavedIsReturned, FailingGates, GatesHoldAtExit
  <2> QED
    BY <2>1, <2>5, SaveOrQuit, GateOff DEF Quits
<1>7. CASE StartHandler
  BY <1>7
  DEF StartHandler, GateInv, Saved, SavedIsReturned, FailingGates, GatesHoldAtExit
<1>8. CASE HandlerRetries
  <2>1. PICK r \in Results[mem.node] :
           /\ last' = last \/ last' = [last EXCEPT ![mem.node] = "retry"]
           /\ \/ UNCHANGED <<mem, ckpt>> /\ pc' = "attempt"
              \/ LET m == [mem EXCEPT !.cost = @ + r.cost]
                 IN  SaveAnd(Snapshot(m, m.node, m.prev), m, "attempt")
    BY <1>8 DEF HandlerRetries
  <2>2. pc = "running" /\ Saved /\ ckpt[1].node = mem.node
    BY <1>8 DEF HandlerRetries, DurableInv, RunningIsDurable
  <2>3. \A g \in Node \ Exits :
            ckpt[1].outcome[g] = last'[g] \/ ckpt[1].node = g
    BY <1>0, <2>1, <2>2 DEF GateInv, SavedIsReturned
  <2>4. CASE UNCHANGED <<mem, ckpt>> /\ pc' = "attempt"
    BY <2>2, <2>3, <2>4
    DEF GateInv, Saved, SavedIsReturned, FailingGates, GatesHoldAtExit
  <2> DEFINE m == [mem EXCEPT !.cost = mem.cost + r.cost]
             s == Snapshot(m, m.node, m.prev)
  <2>5. m \in Progress /\ m.node = mem.node /\ m.outcome = mem.outcome
    BY <1>0, ChargedFields
  <2>6. CASE SaveAnd(s, m, "attempt")
    <3> HIDE DEF m
    <3>1. s.node = mem.node /\ s.outcome = mem.outcome
      BY <2>5, SnapshotFields
    <3>2. mem.outcome = ckpt[1].outcome
      BY <2>2 DEF AgreeInv, Agrees
    <3> HIDE DEF s
    <3>3. CASE ckpt' = <<s>> /\ mem' = m /\ pc' = "attempt"
      BY <2>2, <2>3, <2>5, <3>1, <3>2, <3>3, NextSaved
      DEF GateInv, SavedIsReturned, FailingGates, GatesHoldAtExit
    <3>4. CASE Quits
      BY <2>2, <2>3, <3>4 DEF Quits, GateInv, SavedIsReturned, Saved, GatesHoldAtExit
    <3> QED
      BY <2>6, <3>3, <3>4, SaveOrQuit
  <2> QED
    BY <2>1, <2>4, <2>6
<1>9. CASE HandlerReturns
  <2>1. /\ pc = "running" /\ Saved /\ ckpt[1].node = mem.node
        /\ mem.node \notin Exits
    BY <1>9 DEF HandlerReturns, DurableInv, RunningIsDurable
  <2>2. PICK r \in Returned : last' = [last EXCEPT ![mem.node] = r.status]
    BY <1>9 DEF HandlerReturns
  <2>3. r.status \in Statuses
    BY <1>0, ResultAssumption DEF Returned
  <2>4. CASE pc' \in {"off", "finish"} /\ ckpt' = ckpt
    <3>1. Saved' /\ SavedIsReturned'
      BY <2>1, <2>2, <2>3, <2>4, ReturnedIsElsewhere
    <3>2. pc' = "finish" => mem'.node = mem.node
      <4>1. \A q \in Returned : Recorded(q) \in Progress /\ Recorded(q).node = mem.node
        BY <1>0, RecordedType DEF Returned
      <4>2. pc' = "finish" => \E q \in Returned :
                mem' = [Recorded(q) EXCEPT !.active = NoNode, !.used = 0]
        BY <1>9 DEF HandlerReturns, EndWith, SaveAnd
      <4>3. \A m \in Progress : [m EXCEPT !.active = NoNode, !.used = 0].node = m.node
        BY DEF Progress
      <4> QED
        BY <4>1, <4>2, <4>3
    <3> QED
      BY <2>1, <2>4, <3>1, <3>2 DEF GateInv, GatesHoldAtExit
  <2>5. ASSUME NEW q \in Returned, NEW e \in EdgeChosen(q, Recorded(q)),
               LET f == Follow(Recorded(q), e)
                   s == Snapshot(f, e.to, mem.node)
               IN  /\ pc' = "top" /\ ckpt' = <<s>> /\ mem' = s
                   /\ f \in Progress /\ s \in Progress
                   /\ last' = [last EXCEPT ![mem.node] = q.status]
        PROVE  GateInv'
    <3> DEFINE f == Follow(Recorded(q), e)
               s == Snapshot(f, e.to, mem.node)
    <3>1. /\ Recorded(q) \in Progress
          /\ Recorded(q).outcome = [mem.outcome EXCEPT ![mem.node] = q.status]
          /\ Recorded(q).node = mem.node
      BY <1>0, RecordedType, RecordedFields DEF Returned
    <3>2. ~e.loop_restart
      <4>1. PICK i \in SelectEdge(Edges[mem.node], q, Resolve(q, Recorded(q))) :
                e = Edges[mem.node][i]
        BY <3>1 DEF EdgeChosen
      <4>2. i \in DOMAIN Edges[mem.node]
        BY SelectedIsAnEdge
      <4> QED
        BY <1>0, <4>1, <4>2 DEF NeverRestarts
    <3>3. f.outcome = [mem.outcome EXCEPT ![mem.node] = q.status]
      BY <3>1, <3>2, FollowFields
    <3>4. s.outcome = f.outcome
      BY <2>5, SnapshotFields
    <3>5. /\ pc' = "top" /\ ckpt' = <<s>> /\ mem' = s
          /\ last' = [last EXCEPT ![mem.node] = q.status]
      BY <2>5
    <3>6. mem.outcome = ckpt[1].outcome
      BY <2>1 DEF AgreeInv, Agrees
    <3>7. mem.outcome \in [Node -> Statuses \cup {NoStatus}]
      BY <1>0 DEF Progress
    <3> HIDE DEF f, s
    <3>8. \A g \in Node \ Exits : s.outcome[g] = last'[g]
      BY <1>0, <2>1, <3>3, <3>4, <3>5, <3>6, <3>7 DEF GateInv, SavedIsReturned
    <3> QED
      BY <3>5, <3>8, NextSaved DEF GateInv, SavedIsReturned, GatesHoldAtExit
  <2> QED
    BY <1>9, <2>4, <2>5, ReturnsToTop
<1>10. CASE ExitReturns
  <2>1. /\ pc = "running" /\ Saved /\ ckpt[1].node = mem.node
        /\ mem.node \in Exits /\ ckpt' = ckpt
        /\ pc' \in {"off", "finish"}
    BY <1>10 DEF ExitReturns, DurableInv, RunningIsDurable, EndWith
  <2>2. PICK r \in Returned : last' = [last EXCEPT ![mem.node] = r.status]
    BY <1>10 DEF ExitReturns
  <2>3. r.status \in Statuses
    BY <1>0, ResultAssumption DEF Returned
  <2>4. Saved' /\ SavedIsReturned'
    BY <2>1, <2>2, <2>3, ReturnedIsElsewhere
  <2>5. \A g \in Gates \ Exits : last'[g] \in Satisfying \cup {NoStatus}
    <3> SUFFICES ASSUME NEW g \in Gates \ Exits
                 PROVE  last'[g] \in Satisfying \cup {NoStatus}
      OBVIOUS
    <3>1. g \in Node /\ g # mem.node
      BY <2>1, PlanAssumption
    <3>2. last'[g] = last[g] /\ ckpt[1].outcome[g] = last[g]
      BY <1>0, <2>1, <2>2, <3>1 DEF GateInv, SavedIsReturned
    <3>3. mem.outcome = ckpt[1].outcome
      BY <2>1 DEF AgreeInv, Agrees
    <3>4. FailingGates = {}
      BY <2>1 DEF GateInv
    <3> QED
      BY <3>2, <3>3, <3>4 DEF FailingGates
  <2> QED
    BY <2>1, <2>4, <2>5 DEF GateInv, GatesHoldAtExit
<1>11. CASE Finalize
  <2>1. CASE pc' = "off" /\ ckpt' = ckpt
    BY <1>11, <2>1, GateOff DEF Finalize
  <2>2. CASE ckpt' = <<>> /\ pc' = "cleared"
    BY <2>2 DEF GateInv, Saved, GatesHoldAtExit
  <2> QED
    BY <1>11, <2>1, <2>2 DEF Finalize, EndWith
<1>12. CASE \/ Crash \/ BudgetExhausted \/ GateUnsatisfied \/ FixLimitExceeded
            \/ RetriesExhausted \/ MaxStepsExceeded \/ HandlerFails \/ Complete
  BY <1>12, GateOff
  DEF Crash, BudgetExhausted, GateUnsatisfied, FixLimitExceeded,
      RetriesExhausted, MaxStepsExceeded, HandlerFails, Complete, EndWith
<1>13. CASE UNCHANGED vars \/ RequestStop
  BY <1>2, <1>13 DEF vars, RequestStop
<1> QED
  BY <1>1, <1>3, <1>4, <1>5, <1>6, <1>7, <1>8, <1>9, <1>10, <1>11, <1>12, <1>13
  DEF Next, EngineStep, HandlerStep

(* GatesHoldAtExit, for every plan without loop_restart edges: a walk that *)
(* ends at an exit ends with every visited goal gate satisfied by what its *)
(* handler returned last, in whichever process (enforce_goal_gates).       *)
THEOREM GatesHold ==
    ASSUME NeverRestarts
    PROVE  Spec => []GatesHoldAtExit
<1> DEFINE Inv == AgreeInv /\ TopIsDurable /\ DurableInv /\ GateInv
<1>1. Init => Inv
  BY DEF Init, AgreeInv, TopIsDurable, DurableInv, RunningIsDurable, ActiveInv,
         GateInv, Saved, GatesHoldAtExit
<1>2. TypeOK /\ Inv /\ [Next]_vars => Inv'
  BY AgreeStep, TopStep, DurableStep, GateStep
<1>3. Inv => GatesHoldAtExit
  BY DEF GateInv
<1> QED
  BY <1>1, <1>2, <1>3, TypeCorrect, PTL DEF Spec

----------------------------------------------------------------------------
(* A Run starts no more handlers than its step limit leaves, and no visit  *)
(* of a node more than it has attempts, over all the processes that work   *)
(* on it (run_loop, invoke_node).                                          *)
THEOREM BudgetsAreKept == Spec => []BudgetsHold
<1> QED
  BY TypeCorrect, StepsBoundExecutions, VisitsAreBounded, PTL DEF BudgetsHold

(* Whatever moment the process is killed at, the file holds the node and   *)
(* the attempt of the handler that ran, and between two stages everything  *)
(* the process knew (save_checkpoint before and after a handler).          *)
THEOREM DeathLosesNothing == Spec => []NothingIsLost
<1> QED
  BY HandlersAreDurable, BetweenStagesAllIsSaved, PTL DEF NothingIsLost

(* The checkpoint never goes back, is only cleared at the end of the Run,  *)
(* and a gate that waits is asked again by the next process with the       *)
(* attempts it has left.                                                   *)
THEOREM RunsCanBeResumed == Spec => RunStaysResumable
<1> QED
  BY CheckpointNeverRewinds, CheckpointIsKept, WaitsAreAskedAgain, PTL
     DEF RunStaysResumable

----------------------------------------------------------------------------
LEMMA AnEdgeIsChosen ==
    ASSUME mem.node \in Node, NEW r \in Returned
    PROVE  /\ DOMAIN Edges[mem.node] = {} => EdgeChosen(r, Recorded(r)) = {}
           /\ DOMAIN Edges[mem.node] # {} =>
                \E i \in DOMAIN Edges[mem.node] : EdgeChosen(r, Recorded(r)) = {Edges[mem.node][i]}
<1> DEFINE m == Recorded(r)
           edges == Edges[mem.node]
<1>1. m.node = mem.node
  BY DEF Recorded
<1>2. Choosable(edges, r)
  BY ResultAssumption DEF Returned, ResultAssumption
<1>3. EdgeChosen(r, m) = {edges[i] : i \in SelectEdge(edges, r, Resolve(r, m))}
  <2> HIDE DEF m
  <2> QED
    BY <1>1 DEF EdgeChosen
<1> HIDE DEF m, edges
<1>4. CASE DOMAIN edges = {}
  BY <1>2, <1>3, <1>4, ChoiceIsForemost DEF edges, m
<1>5. CASE DOMAIN edges # {}
  <2>1. PICK i \in DOMAIN edges : SelectEdge(edges, r, Resolve(r, m)) = {i}
    BY <1>2, <1>5, ChoiceIsForemost
  <2>2. EdgeChosen(r, m) = {edges[i]}
    BY <1>3, <2>1
  <2> QED
    BY <1>5, <2>2 DEF edges, m
<1> QED
  BY <1>4, <1>5

(* A walk stops on its way only at a node without edges, and otherwise     *)
(* goes along one of them, even if none of their conditions holds          *)
(* (run_loop, select_edge).                                                *)
WalkGoesOn ==
    [][pc = "running" /\ mem.node \notin Exits /\ pc' \in {"top", "finish"} =>
          IF DOMAIN Edges[mem.node] = {} THEN pc' = "finish"
          ELSE /\ pc' = "top" /\ mem'.prev = mem.node
               /\ \E i \in DOMAIN Edges[mem.node] : mem'.node = Edges[mem.node][i].to]_vars

LEMMA StepGoesOn ==
    ASSUME TypeOK, Next, pc = "running", mem.node \notin Exits, pc' \in {"top", "finish"}
    PROVE  IF DOMAIN Edges[mem.node] = {} THEN pc' = "finish"
           ELSE /\ pc' = "top" /\ mem'.prev = mem.node
                /\ \E i \in DOMAIN Edges[mem.node] : mem'.node = Edges[mem.node][i].to
<1>0. mem \in Progress /\ mem.node \in Node
  BY DEF TypeOK, Progress
<1>1. HandlerReturns
  BY DEF Next, Launch, RequestStop, Crash, EngineStep, HandlerStep, BudgetExhausted, HonourStop,
     GateRetry, GateUnsatisfied, Enter, FixLimitExceeded, RetriesExhausted, MaxStepsExceeded,
     BeginAttempt, StartHandler, Finalize, Complete, HandlerRetries, HandlerFails, ExitReturns,
     MayEnter, SaveAnd, EndWith
<1>2. PICK r \in Returned :
        \/ pc' = "off"
        \/ \E e \in EdgeChosen(r, Recorded(r)) :
             LET f == Follow(Recorded(r), e)
             IN  SaveAnd(Snapshot(f, e.to, mem.node),
                         [f EXCEPT !.node = e.to, !.prev = mem.node], "top")
        \/ EdgeChosen(r, Recorded(r)) = {} /\ pc' \in {"off", "finish"}
  <2>1. PICK r \in Returned :
          IF r.reserved
          THEN EndWith("handler")
          ELSE \/ \E e \in EdgeChosen(r, Recorded(r)) :
                    LET f == Follow(Recorded(r), e)
                    IN  SaveAnd(Snapshot(f, e.to, mem.node),
                                [f EXCEPT !.node = e.to, !.prev = mem.node], "top")
               \/ /\ EdgeChosen(r, Recorded(r)) = {}
                  /\ IF r.status = "fail" THEN EndWith("handler") ELSE pc' = "finish"
    <3>1. \A r \in Returned : Recorded(r).node = mem.node
      BY <1>0, RecordedType DEF Returned
    <3> QED
      BY <1>1, <3>1 DEF HandlerReturns
  <2> QED
    BY <2>1 DEF EndWith
<1>3. CASE EdgeChosen(r, Recorded(r)) = {} /\ pc' \in {"off", "finish"}
  BY <1>0, <1>3, AnEdgeIsChosen
<1>4. ASSUME NEW e \in EdgeChosen(r, Recorded(r)),
             LET f == Follow(Recorded(r), e)
             IN  SaveAnd(Snapshot(f, e.to, mem.node),
                         [f EXCEPT !.node = e.to, !.prev = mem.node], "top")
      PROVE  /\ pc' = "top" /\ mem'.prev = mem.node
             /\ \E i \in DOMAIN Edges[mem.node] : mem'.node = Edges[mem.node][i].to
  <2> DEFINE f == Follow(Recorded(r), e)
             goal == [f EXCEPT !.node = e.to, !.prev = mem.node]
  <2>1. pc' = "top" /\ mem' = goal
    BY <1>4 DEF SaveAnd, EndWith
  <2>2. Recorded(r) \in Progress
    BY <1>0, RecordedType DEF Returned
  <2>3. f \in Progress
    BY <2>2, FollowType
  <2> HIDE DEF f
  <2>4. goal.node = e.to /\ goal.prev = mem.node
    BY <2>3 DEF Progress
  <2>5. \E i \in DOMAIN Edges[mem.node] : e = Edges[mem.node][i]
    BY <1>0, AnEdgeIsChosen
  <2> QED
    BY <2>1, <2>4, <2>5
<1> QED
  <2>1. CASE DOMAIN Edges[mem.node] = {}
    BY <1>0, <1>2, <1>3, <2>1, AnEdgeIsChosen
  <2>2. CASE DOMAIN Edges[mem.node] # {}
    BY <1>0, <1>2, <1>4, <2>2, AnEdgeIsChosen
  <2> QED
    BY <2>1, <2>2

(* THEOREM: WalkGoesOn, for every plan and whatever the handlers return.   *)
THEOREM WalksGoOn == Spec => WalkGoesOn
<1>1. TypeOK /\ [Next]_vars =>
        [pc = "running" /\ mem.node \notin Exits /\ pc' \in {"top", "finish"} =>
          IF DOMAIN Edges[mem.node] = {} THEN pc' = "finish"
          ELSE /\ pc' = "top" /\ mem'.prev = mem.node
               /\ \E i \in DOMAIN Edges[mem.node] : mem'.node = Edges[mem.node][i].to]_vars
  BY StepGoesOn
<1> QED
  BY <1>1, TypeCorrect, PTL DEF Spec, WalkGoesOn

----------------------------------------------------------------------------
(***************************************************************************)
(* The Run as DurableRun has it.                                           *)
(***************************************************************************)
(* The mapping looks at the file and the history alone.  WayInv says what  *)
(* the memory of a live process may have more than the file: a jump back   *)
(* from an exit where a gate fails and nothing has been tried.             *)
FailingIn(outcome) == {g \in Gates : outcome[g] \notin Satisfying \cup {NoStatus}}

WayInv ==
    /\ visit <= execs
    /\ pc = "running" => visit > 0
    /\ Saved /\ ckpt[1].node \in Exits /\ FailingIn(ckpt[1].outcome) # {} => visit = 0
    /\ ~Saved /\ pc \in {"top", "attempt"} => mem.node = Start
    /\ Saved /\ pc \in {"top", "attempt"} /\ mem.node # ckpt[1].node =>
         /\ visit = 0
         /\ ckpt[1].node \in Exits
         /\ \E g \in FailingIn(ckpt[1].outcome) : mem.node \in RetryTargets(g)
    /\ pc \in {"attempt", "begun", "running"} /\ mem.node \in Exits => FailingIn(mem.outcome) = {}
    /\ pc = "finish" =>
         /\ visit > 0
         /\ ckpt[1].node = mem.node
         /\ IF mem.node \in Exits THEN FailingIn(ckpt[1].outcome) = {} ELSE DOMAIN Edges[mem.node] = {}

(* A step that ends the process and leaves file and history keeps it.      *)
LEMMA WayOff ==
    ASSUME WayInv, pc' \in {"off", "cleared"}, UNCHANGED <<ckpt, visit, execs>>
    PROVE  WayInv'
  BY DEF WayInv, Saved, FailingIn

(* So does a save of the node the process is at, if no gate fails there.   *)
LEMMA WaySaved ==
    ASSUME WayInv, NEW s, NEW m, SaveAnd(s, m, pc'),
           pc' \in {"off", "attempt", "begun"}, UNCHANGED <<visit, execs>>,
           s.node = m.node, s.outcome = m.outcome,
           s.node \in Exits => FailingIn(s.outcome) = {}
    PROVE  WayInv'
<1>1. CASE ckpt' = <<s>> /\ mem' = m
  BY <1>1, NextSaved DEF WayInv, FailingIn
<1>2. CASE pc' = "off" /\ ckpt' = ckpt
  BY <1>2, WayOff
<1> QED
  BY <1>1, <1>2 DEF SaveAnd, EndWith

LEMMA NoneFailsAtFirst == FailingIn(Fresh.outcome) = {}
  BY PlanAssumption DEF FailingIn, Fresh

(* What a handler that ends the walk leaves in memory, and why.            *)
LEMMA WalkEnds ==
    ASSUME TypeOK, HandlerReturns \/ ExitReturns, pc' = "finish"
    PROVE  /\ mem'.node = mem.node
           /\ HandlerReturns => DOMAIN Edges[mem.node] = {}
<1>1. \A q \in Returned : Recorded(q) \in Progress /\ Recorded(q).node = mem.node
  BY RecordedType DEF Returned, TypeOK
<1>2. \E q \in Returned : mem' = [Recorded(q) EXCEPT !.active = NoNode, !.used = 0]
  <2>1. CASE HandlerReturns
    BY <2>1 DEF HandlerReturns, EndWith, SaveAnd
  <2>2. CASE ExitReturns
    BY <2>2 DEF ExitReturns, EndWith
  <2> QED
    BY <2>1, <2>2
<1>3. HandlerReturns => \E q \in Returned : EdgeChosen(q, Recorded(q)) = {}
  BY DEF HandlerReturns, EndWith, SaveAnd
<1>4. \A m \in Progress : [m EXCEPT !.active = NoNode, !.used = 0].node = m.node
  BY DEF Progress
<1>5. mem.node \in Node
  BY DEF TypeOK, Progress
<1> QED
  BY <1>1, <1>2, <1>3, <1>4, <1>5, AnEdgeIsChosen

(* A visit ends with the save that leaves its node.                        *)
LEMMA VisitEnds ==
    ASSUME HandlerReturns
    PROVE  execs' = execs /\ (pc' = "top" => visit' = 0) /\ (pc' # "top" => visit' = visit)
<1>1. execs' = execs
  BY DEF HandlerReturns
<1>2. visit' = visit \/ visit' = IF pc' = "top" THEN 0 ELSE visit
  BY DEF HandlerReturns
<1>3. pc' = "top" => visit' = IF pc' = "top" THEN 0 ELSE visit
  BY DEF HandlerReturns, EndWith
<1> QED
  BY <1>1, <1>2, <1>3

(* Each step keeps WayInv.                                                 *)
LEMMA WayStep ==
    ASSUME TypeOK, ExecInv, AgreeInv, DurableInv, WayInv, [Next]_vars
    PROVE  WayInv'
<1>0. /\ mem \in Progress /\ mem.node \in Node /\ mem.prev \in Node \cup {NoNode}
      /\ visit \in Nat /\ execs \in Nat
      /\ FailingGates = FailingIn(mem.outcome)
  BY DEF TypeOK, Progress, FailingGates, FailingIn
<1>1. CASE Launch
  <2>1. CASE ckpt = <<>>
    <3>1. Fresh.node = Start
      BY DEF Fresh
    <3> QED
      BY <1>1, <2>1, <3>1 DEF Launch, Restored, WayInv, Saved
  <2>2. CASE ckpt # <<>>
    BY <1>1, <2>2 DEF Launch, Restored, WayInv, Saved, FailingIn
  <2> QED
    BY <2>1, <2>2
<1>2. CASE UNCHANGED <<pc, mem, ckpt, visit, execs>>
  BY <1>2 DEF WayInv, Saved, FailingIn
<1>3. CASE HonourStop
  <2>1. /\ mem.node \notin Exits /\ pc' = "off" /\ UNCHANGED <<visit, execs>>
    BY <1>3 DEF HonourStop, EndWith
  <2> DEFINE s == Snapshot(mem, mem.node, mem.prev)
  <2>2. s.node = mem.node
    BY <1>0, SnapshotFields
  <2> HIDE DEF s
  <2>3. CASE ckpt' = <<s>>
    BY <2>1, <2>2, <2>3, NextSaved DEF WayInv
  <2> QED
    BY <1>3, <2>1, <2>3, WayOff DEF HonourStop, s
<1>4. CASE GateRetry
  <2>1. PICK g \in FailingGates : \E t \in RetryTargets(g) : mem' = [mem EXCEPT !.node = t]
    BY <1>4 DEF GateRetry
  <2>2. PICK t \in RetryTargets(g) : mem' = [mem EXCEPT !.node = t]
    BY <2>1
  <2>3. mem'.node = t
    BY <1>0, <2>2 DEF Progress
  <2>4. /\ pc = "top" /\ pc' = "top" /\ visit' = 0 /\ UNCHANGED <<ckpt, execs>>
        /\ mem.node \in Exits
    BY <1>4 DEF GateRetry, AtTop
  <2>5. mem.outcome = Durable.outcome
    BY <2>4 DEF AgreeInv, Agrees, Durable
  <2>6. Saved
    BY <1>0, <2>1, <2>5, NoneFailsAtFirst DEF Durable
  <2>7. ckpt[1].node = mem.node
    <3>1. \A h \in Gates : mem.node \notin RetryTargets(h)
      BY <2>4, RetryTargetsAreNodes
    <3> QED
      BY <2>4, <2>6, <3>1 DEF WayInv, FailingIn
  <2>8. g \in FailingIn(ckpt[1].outcome)
    BY <1>0, <2>1, <2>5, <2>6 DEF Durable
  <2>9. t \in RetryTargets(g)
    OBVIOUS
  <2> QED
    BY <1>0, <2>3, <2>4, <2>6, <2>7, <2>8, <2>9 DEF WayInv, Saved, FailingIn
<1>5. CASE Enter
  <2>1. /\ pc = "top" /\ pc' = "attempt" /\ UNCHANGED <<ckpt, visit, execs>>
        /\ mem.node \in Exits => FailingIn(mem.outcome) = {}
    BY <1>0, <1>5 DEF Enter, MayEnter, AtTop
  <2>2. mem'.node = mem.node /\ mem'.outcome = mem.outcome
    BY <1>0, <1>5, EnteredFields DEF Enter
  <2> QED
    BY <2>1, <2>2 DEF WayInv, Saved, FailingIn
<1>6. CASE BeginAttempt
  <2> DEFINE s == Snapshot(BegunOnDisk, mem.node, mem.prev)
  <2>1. pc = "attempt" /\ SaveAnd(s, Begun, "begun") /\ UNCHANGED <<visit, execs>>
    BY <1>6 DEF BeginAttempt
  <2>2. BegunOnDisk \in Progress
    BY <1>0, <1>6, BegunType DEF BeginAttempt
  <2>3. /\ s.node = mem.node /\ s.outcome = mem.outcome
        /\ Begun.node = mem.node /\ Begun.outcome = mem.outcome
    BY <1>0, <2>2, SnapshotFields, BegunFields
  <2>4. mem.node \in Exits => FailingIn(mem.outcome) = {}
    BY <2>1 DEF WayInv
  <2> HIDE DEF s
  <2>5. SaveAnd(s, Begun, pc') /\ pc' \in {"off", "begun"}
    BY <2>1 DEF SaveAnd, EndWith
  <2> QED
    BY <2>1, <2>3, <2>4, <2>5, WaySaved
<1>7. CASE StartHandler
  <2>1. /\ pc = "begun" /\ pc' = "running" /\ UNCHANGED <<mem, ckpt>>
        /\ visit' = visit + 1 /\ execs' = execs + 1
    BY <1>7 DEF StartHandler
  <2>2. Saved /\ ckpt[1].node = mem.node /\ mem.outcome = ckpt[1].outcome
    BY <2>1 DEF DurableInv, RunningIsDurable, AgreeInv, Agrees
  <2> QED
    BY <1>0, <2>1, <2>2 DEF WayInv, Saved, FailingIn
<1>8. CASE HandlerRetries
  <2>1. PICK r \in Results[mem.node] :
           \/ UNCHANGED <<mem, ckpt>> /\ pc' = "attempt"
           \/ LET m == [mem EXCEPT !.cost = @ + r.cost]
              IN  SaveAnd(Snapshot(m, m.node, m.prev), m, "attempt")
    BY <1>8 DEF HandlerRetries
  <2>2. /\ pc = "running" /\ Saved /\ ckpt[1].node = mem.node
        /\ UNCHANGED <<visit, execs>>
    BY <1>8 DEF HandlerRetries, DurableInv, RunningIsDurable
  <2>3. CASE UNCHANGED <<mem, ckpt>> /\ pc' = "attempt"
    BY <2>2, <2>3 DEF WayInv, Saved, FailingIn
  <2> DEFINE m == [mem EXCEPT !.cost = mem.cost + r.cost]
             s == Snapshot(m, m.node, m.prev)
  <2>4. m \in Progress /\ m.node = mem.node /\ m.outcome = mem.outcome
    BY <1>0, ChargedFields
  <2>5. CASE SaveAnd(s, m, "attempt")
    <3> HIDE DEF m
    <3>1. s.node = m.node /\ s.outcome = m.outcome
      BY <2>4, SnapshotFields
    <3>2. m.node \in Exits => FailingIn(m.outcome) = {}
      BY <2>2, <2>4 DEF WayInv
    <3> HIDE DEF s
    <3>3. SaveAnd(s, m, pc') /\ pc' \in {"off", "attempt"}
      BY <2>5 DEF SaveAnd, EndWith
    <3> QED
      BY <2>2, <3>1, <3>2, <3>3, WaySaved
  <2> QED
    BY <2>1, <2>3, <2>5
<1>9. CASE HandlerReturns
  <2>1. /\ pc = "running" /\ mem.node \notin Exits
        /\ execs' = execs /\ (pc' # "top" => visit' = visit) /\ (pc' = "top" => visit' = 0)
    BY <1>9, VisitEnds DEF HandlerReturns
  <2>2. Saved /\ ckpt[1].node = mem.node /\ visit > 0
    BY <2>1 DEF DurableInv, RunningIsDurable, WayInv
  <2>3. ASSUME NEW s, ckpt' = <<s>>, mem' = s, pc' = "top"
        PROVE  WayInv'
    BY <1>0, <2>1, <2>3, NextSaved DEF WayInv
  <2>4. CASE pc' = "off" /\ ckpt' = ckpt
    BY <2>1, <2>4, WayOff
  <2>5. CASE pc' = "finish" /\ ckpt' = ckpt
    <3>1. mem'.node = mem.node /\ DOMAIN Edges[mem.node] = {}
      BY <1>9, <2>5, WalkEnds
    <3> QED
      BY <2>1, <2>2, <2>5, <3>1 DEF WayInv, Saved, FailingIn
  <2> QED
    BY <1>9, <2>3, <2>4, <2>5, ReturnsToTop
<1>10. CASE ExitReturns
  <2>1. /\ pc = "running" /\ mem.node \in Exits /\ UNCHANGED <<ckpt, execs, visit>>
        /\ pc' \in {"off", "finish"}
    BY <1>10 DEF ExitReturns, EndWith
  <2>2. CASE pc' = "off"
    BY <2>1, <2>2, WayOff
  <2>3. CASE pc' = "finish"
    <3>1. mem'.node = mem.node
      BY <1>10, <2>3, WalkEnds
    <3>2. /\ Saved /\ ckpt[1].node = mem.node /\ visit > 0
          /\ FailingIn(ckpt[1].outcome) = {}
      BY <2>1 DEF DurableInv, RunningIsDurable, WayInv, AgreeInv, Agrees
    <3> QED
      BY <2>1, <2>3, <3>1, <3>2 DEF WayInv, Saved, FailingIn
  <2> QED
    BY <2>1, <2>2, <2>3
<1>11. CASE Finalize
  <2>1. CASE ckpt' = <<>> /\ pc' = "cleared"
    BY <1>11, <2>1 DEF Finalize, WayInv, Saved
  <2>2. CASE pc' = "off" /\ ckpt' = ckpt
    BY <1>11, <2>2, WayOff DEF Finalize
  <2> QED
    BY <1>11, <2>1, <2>2 DEF Finalize, EndWith
<1>12. CASE \/ Crash \/ BudgetExhausted \/ GateUnsatisfied \/ FixLimitExceeded
            \/ RetriesExhausted \/ MaxStepsExceeded \/ HandlerFails \/ Complete
  <2>1. pc' = "off" /\ UNCHANGED <<ckpt, visit, execs>>
    BY <1>12 DEF Crash, BudgetExhausted, GateUnsatisfied, FixLimitExceeded,
       RetriesExhausted, MaxStepsExceeded, HandlerFails, Complete, EndWith
  <2> QED
    BY <2>1, WayOff
<1> QED
  BY <1>1, <1>2, <1>3, <1>4, <1>5, <1>6, <1>7, <1>8, <1>9, <1>10, <1>11, <1>12
  DEF Next, EngineStep, HandlerStep, RequestStop, vars

----------------------------------------------------------------------------
(* The steps of a Run.  What DurableRun sees of a state:                   *)
Runs  == IF Saved THEN execs ELSE 0
Tried == IF Saved THEN visit ELSE 0

RunVars == <<Durable.node, Durable.done, Durable.outcome, Durable.steps, Durable.cost, Runs, Tried>>

LEMMA DurableType ==
    ASSUME TypeOK
    PROVE  /\ Durable \in Progress
           /\ Durable.node \in Node
           /\ Durable.steps \in Nat /\ Durable.cost \in Nat
           /\ Durable.outcome \in [Node -> Statuses \cup {NoStatus}]
<1>1. Durable \in Progress
  BY FreshType, FileType DEF TypeOK, Durable, Saved
<1> QED
  BY <1>1, Counts DEF Progress

(* A step that leaves the file is none of the Run's, if no visit is under  *)
(* way that it forgets.                                                    *)
LEMMA Still ==
    ASSUME UNCHANGED <<ckpt, execs>>, Saved => visit' = visit
    PROVE  UNCHANGED RunVars
  BY DEF RunVars, Runs, Tried, Durable, Saved

(* What a save is to the Run: the saved record.                            *)
LEMMA SavedIsDurable ==
    ASSUME NEW s, ckpt' = <<s>>
    PROVE  Saved' /\ Durable' = s /\ Runs' = execs' /\ Tried' = visit'
  BY NextSaved DEF Durable, Runs, Tried

(* Before a Run is saved for the first time nothing has been run, and the  *)
(* process is where the walk starts; afterwards it is where the file says, *)
(* or where a gate sends it.                                               *)
LEMMA WhereItIs ==
    ASSUME TypeOK, ExecInv, WayInv, pc \in {"top", "attempt"}
    PROVE  /\ Runs = execs /\ Tried = visit
           /\ \/ mem.node = Durable.node
              \/ /\ Durable.node \in Exits
                 /\ visit = 0
                 /\ \E g \in FailingIn(Durable.outcome) : mem.node \in RetryTargets(g)
<1>1. CASE Saved
  BY <1>1 DEF WayInv, Durable, Runs, Tried
<1>2. CASE ~Saved
  <2>1. execs = 0 /\ visit <= execs /\ visit \in Nat
    BY <1>2 DEF ExecInv, WayInv, TypeOK
  <2>2. visit = 0
    BY <2>1
  <2>3. mem.node = Start /\ Fresh.node = Start
    BY <1>2 DEF WayInv, Fresh
  <2> QED
    BY <1>2, <2>1, <2>2, <2>3 DEF Durable, Runs, Tried
<1> QED
  BY <1>1, <1>2

(* Begin, and where the step comes from a gate.                            *)
LEMMA BeginStep ==
    ASSUME TypeOK, ExecInv, AgreeInv, WayInv, BeginAttempt, ckpt' # ckpt
    PROVE  Run!Begin
<1>0. mem \in Progress /\ mem.node \in Node
  BY DEF TypeOK, Progress
<1> DEFINE s == Snapshot(BegunOnDisk, mem.node, mem.prev)
<1>1. /\ pc = "attempt" /\ ckpt' = <<s>> /\ UNCHANGED <<visit, execs>>
      /\ StepsLeft /\ ~OverBudget
  BY SaveOrQuit DEF BeginAttempt, Quits
<1>2. BegunOnDisk \in Progress
  BY <1>0, <1>1, BegunType
<1>3. /\ s.node = mem.node /\ s.outcome = mem.outcome /\ s.done = mem.done
      /\ s.steps = mem.steps + 1 /\ s.cost = mem.cost
  BY <1>0, <1>2, SnapshotFields, BegunFields
<1>4. Agrees(mem, Durable)
  BY <1>1 DEF AgreeInv, Durable
<1> HIDE DEF s
<1>5. Durable' = s /\ Runs' = Runs /\ Tried' = Tried
  BY <1>1, SavedIsDurable, WhereItIs
<1>6. \/ Durable'.node = Durable.node
      \/ /\ Durable.node \in Exits
         /\ Tried = 0 /\ Tried' = 0
         /\ \E g \in FailingIn(Durable.outcome) : Durable'.node \in RetryTargets(g)
  BY <1>1, <1>3, <1>5, WhereItIs
<1>7. Run!SentBack \/ (Durable'.node = Durable.node /\ Tried' = Tried)
  BY <1>5, <1>6 DEF Run!SentBack, Run!Failing, FailingIn, Tried
<1>8. Durable.steps < MaxSteps /\ ~(Durable.cost > MaxBudget)
  BY <1>1, <1>4 DEF Agrees, StepsLeft, OverBudget
<1> QED
  BY <1>3, <1>4, <1>5, <1>7, <1>8 DEF Run!Begin, Agrees, Runs, Tried

(* A stop saves the node the walk is at, which a gate may have chosen.     *)
LEMMA StopStep ==
    ASSUME TypeOK, ExecInv, AgreeInv, WayInv, HonourStop, ckpt' # ckpt
    PROVE  Run!Turn \/ UNCHANGED RunVars
<1>0. mem \in Progress /\ mem.node \in Node
  BY DEF TypeOK, Progress
<1> DEFINE s == Snapshot(mem, mem.node, mem.prev)
<1>1. pc = "top" /\ ckpt' = <<s>> /\ UNCHANGED <<visit, execs>>
  BY DEF HonourStop, AtTop
<1>3. /\ s.node = mem.node /\ s.outcome = mem.outcome /\ s.done = mem.done
      /\ s.steps = mem.steps /\ s.cost = mem.cost
  BY <1>0, SnapshotFields
<1>4. Agrees(mem, Durable)
  BY <1>1 DEF AgreeInv, Durable
<1> HIDE DEF s
<1>5. Durable' = s /\ Runs' = Runs /\ Tried' = Tried
  BY <1>1, SavedIsDurable, WhereItIs
<1>6. \/ Durable'.node = Durable.node
      \/ /\ Durable.node \in Exits
         /\ Tried = 0 /\ Tried' = 0
         /\ \E g \in FailingIn(Durable.outcome) : Durable'.node \in RetryTargets(g)
  BY <1>1, <1>3, <1>5, WhereItIs
<1>7. Run!SentBack \/ Durable'.node = Durable.node
  BY <1>5, <1>6 DEF Run!SentBack, Run!Failing, FailingIn, Tried
<1>8. /\ Durable'.done = Durable.done /\ Durable'.outcome = Durable.outcome
      /\ Durable'.steps = Durable.steps /\ Durable'.cost = Durable.cost
  BY <1>3, <1>4, <1>5 DEF Agrees
<1> QED
  BY <1>5, <1>7, <1>8 DEF Run!Turn, RunVars, Runs, Tried

(* What the file says while a handler runs.                                *)
LEMMA UnderWay ==
    ASSUME AgreeInv, DurableInv, WayInv, pc \in {"begun", "running"}
    PROVE  /\ Saved /\ Durable = ckpt[1] /\ Runs = execs /\ Tried = visit
           /\ Durable.node = mem.node
           /\ Agrees(mem, Durable)
           /\ mem.node \in Exits => FailingIn(Durable.outcome) = {}
           /\ pc = "running" => visit > 0
  BY DEF AgreeInv, DurableInv, RunningIsDurable, WayInv, Durable, Runs, Tried, Agrees

LEMMA ExecuteStep ==
    ASSUME TypeOK, ExecInv, DurableInv, VisitInv, AgreeInv, WayInv, StartHandler
    PROVE  Run!Execute
<1>1. /\ pc = "begun" /\ UNCHANGED <<mem, ckpt>>
      /\ visit' = visit + 1 /\ execs' = execs + 1
  BY DEF StartHandler
<1>2. /\ Saved /\ Durable = ckpt[1] /\ Runs = execs /\ Tried = visit
      /\ Durable.node = mem.node
      /\ mem.node \in Exits => FailingIn(Durable.outcome) = {}
  BY <1>1, UnderWay
<1>3. Durable' = Durable /\ Runs' = execs' /\ Tried' = visit'
  BY <1>1, <1>2 DEF Durable, Saved, Runs, Tried
<1>4. execs < Durable.steps
  <2>1. execs + 1 <= ckpt[1].steps
    BY <1>1 DEF ExecInv
  <2> QED
    BY <1>2, <2>1, DurableType DEF TypeOK
<1>5. mem.node \notin Waiting => visit < MaxAttempts[mem.node]
  <2>1. mem.active = mem.node
    BY <1>1 DEF DurableInv, ActiveInv
  <2>2. mem.node \notin Waiting => visit + 1 <= mem.used
    BY <1>1, <2>1 DEF VisitInv, UsedIn
  <2>3. mem.used <= MaxAttempts[mem.node]
    BY <1>1 DEF VisitInv
  <2>4. visit \in Nat /\ mem.used \in Nat /\ MaxAttempts[mem.node] \in Nat
    BY LimitAssumption DEF TypeOK, Progress
  <2> QED
    BY <2>2, <2>3, <2>4
<1>6. Run!Failing = FailingIn(Durable.outcome)
  BY DEF Run!Failing, FailingIn
<1> QED
  BY <1>1, <1>2, <1>3, <1>4, <1>5, <1>6 DEF Run!Execute, Run!walk, Runs, Tried

LEMMA ChargeStep ==
    ASSUME TypeOK, AgreeInv, DurableInv, WayInv, HandlerRetries, ckpt' # ckpt
    PROVE  Run!Charge
<1>0. mem \in Progress /\ mem.node \in Node /\ visit \in Nat
  BY DEF TypeOK, Progress
<1>1. PICK r \in Results[mem.node] :
         /\ r.cost # 0
         /\ LET m == [mem EXCEPT !.cost = @ + r.cost]
            IN  SaveAnd(Snapshot(m, m.node, m.prev), m, "attempt")
  BY DEF HandlerRetries
<1>2. pc = "running" /\ UNCHANGED <<visit, execs>>
  BY DEF HandlerRetries
<1> DEFINE m == [mem EXCEPT !.cost = mem.cost + r.cost]
           s == Snapshot(m, m.node, m.prev)
<1>3. /\ m \in Progress /\ m.node = mem.node
      /\ m.steps = mem.steps /\ m.done = mem.done /\ m.outcome = mem.outcome
      /\ m.cost = mem.cost + r.cost /\ r.cost \in Nat
  BY <1>0, ChargedFields
<1>4. SaveAnd(s, m, "attempt")
  BY <1>1
<1> HIDE DEF m
<1>5. ckpt' = <<s>>
  BY <1>4, SaveOrQuit DEF Quits
<1>6. /\ s.node = mem.node /\ s.outcome = mem.outcome /\ s.done = mem.done
      /\ s.steps = mem.steps /\ s.cost = mem.cost + r.cost
  BY <1>3, SnapshotFields
<1> HIDE DEF s
<1>7. /\ Durable.node = mem.node /\ Agrees(mem, Durable) /\ visit > 0
      /\ Runs = execs /\ Tried = visit
  BY <1>2, UnderWay
<1>8. Durable' = s /\ Runs' = Runs /\ Tried' = Tried
  BY <1>2, <1>5, <1>7, SavedIsDurable
<1>9. s.cost > Durable.cost
  <2>1. mem.cost \in Nat /\ mem.cost = Durable.cost
    BY <1>0, <1>7 DEF Agrees, Progress
  <2> QED
    BY <1>1, <1>3, <1>6, <2>1
<1> QED
  BY <1>6, <1>7, <1>8, <1>9 DEF Run!Charge, Run!walk, Agrees, Runs, Tried

LEMMA AdvanceStep ==
    ASSUME TypeOK, AgreeInv, DurableInv, WayInv, HandlerReturns, pc' = "top"
    PROVE  Run!Advance
<1>0. mem \in Progress /\ mem.node \in Node
  BY DEF TypeOK, Progress
<1>1. PICK r \in Returned : \E e \in EdgeChosen(r, Recorded(r)) :
                LET f == Follow(Recorded(r), e)
                    s == Snapshot(f, e.to, mem.node)
                IN  pc' = "top" /\ ckpt' = <<s>> /\ f \in Progress
  BY ReturnsToTop
<1>2. PICK e \in EdgeChosen(r, Recorded(r)) :
                LET f == Follow(Recorded(r), e)
                    s == Snapshot(f, e.to, mem.node)
                IN  pc' = "top" /\ ckpt' = <<s>> /\ f \in Progress
  BY <1>1
<1> DEFINE f == Follow(Recorded(r), e)
           s == Snapshot(f, e.to, mem.node)
<1>3. pc' = "top" /\ ckpt' = <<s>> /\ f \in Progress
  BY <1>2
<1>4. PICK i \in DOMAIN Edges[mem.node] : e = Edges[mem.node][i]
  BY <1>0, AnEdgeIsChosen
<1>5. /\ r \in Results[mem.node] /\ r.status \in Statuses
      /\ Recorded(r) \in Progress /\ Recorded(r).steps = mem.steps
      /\ Recorded(r).done = Append(mem.done, mem.node)
      /\ Recorded(r).outcome = [mem.outcome EXCEPT ![mem.node] = r.status]
      /\ Recorded(r).cost >= mem.cost
  BY <1>0, RecordedType, RecordedFields, ResultAssumption DEF Returned
<1>6. /\ f.done = IF e.loop_restart THEN <<>> ELSE Append(mem.done, mem.node)
      /\ f.outcome = IF e.loop_restart THEN [n \in Node |-> NoStatus]
                     ELSE [mem.outcome EXCEPT ![mem.node] = r.status]
      /\ f.cost >= mem.cost /\ f.steps = mem.steps
  <2>1. e.loop_restart => f.outcome = [n \in Node |-> NoStatus]
    BY <1>5 DEF Follow, Progress
  <2> QED
    BY <1>5, <2>1, FollowFields
<1>7. /\ s.node = e.to /\ s.done = f.done /\ s.outcome = f.outcome
      /\ s.cost = f.cost /\ s.steps = f.steps
  BY <1>3, SnapshotFields
<1> HIDE DEF f, s
<1>8. pc = "running" /\ mem.node \notin Exits /\ execs' = execs /\ visit' = 0
  BY <1>3, VisitEnds DEF HandlerReturns
<1>9. /\ Durable.node = mem.node /\ Agrees(mem, Durable) /\ visit > 0
      /\ Runs = execs /\ Tried = visit
  BY <1>8, UnderWay
<1>10. Durable' = s /\ Runs' = Runs /\ Tried' = 0
  BY <1>3, <1>8, <1>9, SavedIsDurable
<1>11. /\ Durable'.node = e.to
       /\ Durable'.done = IF e.loop_restart THEN <<>> ELSE Append(Durable.done, Durable.node)
       /\ Durable'.outcome = IF e.loop_restart THEN Run!NoOutcome
                             ELSE [Durable.outcome EXCEPT ![Durable.node] = r.status]
       /\ Durable'.cost >= Durable.cost /\ Durable'.steps = Durable.steps
  BY <1>6, <1>7, <1>9, <1>10 DEF Agrees, Run!NoOutcome
<1>12. i \in DOMAIN Edges[Durable.node] /\ e = Edges[Durable.node][i]
  BY <1>4, <1>9
<1>13. \E j \in DOMAIN Edges[Durable.node], status \in Statuses :
          LET d == Edges[Durable.node][j]
          IN  /\ Durable'.node = d.to
              /\ Durable'.done = IF d.loop_restart THEN <<>> ELSE Append(Durable.done, Durable.node)
              /\ Durable'.outcome = IF d.loop_restart THEN Run!NoOutcome
                                    ELSE [Durable.outcome EXCEPT ![Durable.node] = status]
  BY <1>5, <1>11, <1>12
<1> QED
  BY <1>8, <1>9, <1>10, <1>11, <1>13 DEF Run!Advance, Runs, Tried

LEMMA CloseStep ==
    ASSUME TypeOK, ExecInv, WayInv, Finalize, ckpt' # ckpt
    PROVE  Run!Close
<1>1. pc = "finish" /\ ckpt' = <<>>
  BY DEF Finalize
<1>2. Saved /\ ~Saved'
  BY <1>1 DEF ExecInv, Saved
<1>3. Durable = ckpt[1] /\ Tried = visit /\ Durable' = Fresh /\ Runs' = 0 /\ Tried' = 0
  BY <1>2 DEF Durable, Runs, Tried, Fresh
<1>4. visit > 0 /\ IF Durable.node \in Exits THEN FailingIn(Durable.outcome) = {}
                   ELSE DOMAIN Edges[Durable.node] = {}
  BY <1>1, <1>3 DEF WayInv
<1>5. /\ Fresh.node = Start /\ Fresh.done = <<>> /\ Fresh.outcome = Run!NoOutcome
      /\ Fresh.steps = 0 /\ Fresh.cost = 0
  BY DEF Fresh, Run!NoOutcome
<1>6. Run!Failing = FailingIn(Durable.outcome)
  BY DEF Run!Failing, FailingIn
<1> QED
  BY <1>3, <1>4, <1>5, <1>6 DEF Run!Close, Runs, Tried

(* A gate sends the walk back in memory only: it forgets a visit in which  *)
(* nothing was tried.                                                      *)
LEMMA JumpIsNoStep ==
    ASSUME TypeOK, AgreeInv, WayInv, GateRetry
    PROVE  UNCHANGED RunVars
<1>1. /\ pc = "top" /\ mem.node \in Exits /\ FailingGates # {}
      /\ visit' = 0 /\ UNCHANGED <<ckpt, execs>>
  BY DEF GateRetry, AtTop
<1>2. FailingIn(mem.outcome) # {} /\ mem.outcome = Durable.outcome
  BY <1>1 DEF FailingGates, FailingIn, AgreeInv, Agrees, Durable
<1>3. Saved => visit = 0
  <2> SUFFICES ASSUME Saved PROVE visit = 0
    OBVIOUS
  <2>1. FailingIn(ckpt[1].outcome) # {}
    BY <1>2 DEF Durable
  <2> QED
    BY <1>1, <2>1 DEF WayInv
<1> QED
  BY <1>1, <1>3, Still

(* Every step is one of the Run or none.                                   *)
LEMMA RunStep ==
    ASSUME TypeOK, ExecInv, DurableInv, VisitInv, AgreeInv, WayInv, [Next]_vars
    PROVE  [Run!Next]_RunVars
<1>1. CASE ckpt' = ckpt /\ ~StartHandler /\ ~GateRetry /\ (HandlerReturns => pc' # "top")
  <2>1. execs' = execs \/ Launch
    BY <1>1 DEF Next, EngineStep, HandlerStep, vars, RequestStop, Crash, BudgetExhausted,
       HonourStop, GateUnsatisfied, Enter, FixLimitExceeded, RetriesExhausted, MaxStepsExceeded,
       BeginAttempt, HandlerRetries, HandlerFails, HandlerReturns, ExitReturns, Finalize, Complete
  <2>2. visit' = visit \/ Launch
    <3>1. HandlerReturns => visit' = visit
      BY <1>1, VisitEnds
    <3> QED
      BY <1>1, <3>1 DEF Next, EngineStep, HandlerStep, vars, RequestStop, Crash, BudgetExhausted,
       HonourStop, GateUnsatisfied, Enter, FixLimitExceeded, RetriesExhausted, MaxStepsExceeded,
       BeginAttempt, HandlerRetries, HandlerFails, ExitReturns, Finalize, Complete
  <2>3. Launch => UNCHANGED RunVars
    BY DEF Launch, RunVars, Runs, Tried, Durable, Saved
  <2> QED
    BY <1>1, <2>1, <2>2, <2>3, Still
<1>2. CASE StartHandler
  BY <1>2, ExecuteStep DEF Run!Next
<1>3. CASE GateRetry
  BY <1>3, JumpIsNoStep
<1>4. CASE ckpt' # ckpt
  <2>1. HonourStop \/ BeginAttempt \/ HandlerRetries \/ HandlerReturns \/ Finalize
    BY <1>4, QuietSteps
    DEF Next, EngineStep, HandlerStep, vars, Launch, RequestStop, GateRetry, Enter, StartHandler
  <2>2. HandlerReturns => pc' = "top"
    BY <1>4, ReturnsToTop
  <2> QED
    BY <1>4, <2>1, <2>2, BeginStep, StopStep, ChargeStep, AdvanceStep, CloseStep DEF Run!Next
<1>5. CASE HandlerReturns /\ pc' = "top"
  BY <1>5, AdvanceStep DEF Run!Next
<1> QED
  BY <1>1, <1>2, <1>3, <1>4, <1>5

(* THEOREM: all the processes of a Run together walk the plan once, as     *)
(* DurableRun says.  A crash, a stop, a failed write and the start of the  *)
(* next process are no steps of the Run (run_from_start, save_checkpoint,  *)
(* load_checkpoint, clear_checkpoint).                                     *)
THEOREM ProcessesWalkOnce == Spec => ImplementsDurableRun
<1> DEFINE Inv == ExecInv /\ DurableInv /\ VisitInv /\ AgreeInv /\ WayInv
<1>1. Init => Inv /\ Run!Init
  <2> SUFFICES ASSUME Init PROVE Inv /\ Run!Init
    OBVIOUS
  <2>1. ~Saved /\ Durable = Fresh
    BY DEF Init, Saved, Durable
  <2>2. Inv
    BY <2>1, LimitAssumption
    DEF Init, ExecInv, DurableInv, RunningIsDurable, ActiveInv, VisitInv, AgreeInv, WayInv, Live
  <2>3. Run!Init
    BY <2>1 DEF Run!Init, Run!NoOutcome, Fresh
  <2> QED
    BY <2>2, <2>3
<1>2. TypeOK /\ Inv /\ [Next]_vars => Inv' /\ [Run!Next]_RunVars
  BY ExecStep, DurableStep, VisitStep, AgreeStep, WayStep, RunStep
<1>3. RunVars = Run!vars
  BY DEF RunVars, Run!vars, Runs, Tried
<1> HIDE DEF Inv
<1> QED
  BY <1>1, <1>2, TypeCorrect, PTL DEF Spec, ImplementsDurableRun, Run!Spec, RunVars, Runs, Tried, Run!vars
=============================================================================
