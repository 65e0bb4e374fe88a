--------------------------- MODULE CandidateJoins ---------------------------
(***************************************************************************)
(* How ScaleMine makes larger patterns from frequent ones: the primary     *)
(* graphs of a pattern (Pattern.cpp), the joins of two patterns that share *)
(* one, and the maps that keep patterns by their label (CLMap.cpp).  Every *)
(* candidate is decided by its support in one data graph; who counts it is *)
(* the matter of the modules on the master and the workers.                *)
(*                                                                         *)
(* The approximate phase (MinerAdv) and the exact one (MinerX) differ in   *)
(* what a new candidate is compared with.                                  *)
(***************************************************************************)
EXTENDS CanonicalLabel

CONSTANT Worlds \* [file, support, limit, exact, one]: limit is Settings::maxSubgraphSize,
                \* one: candidates are decided one size after the other

VARIABLES world, candidates, frequent, infrequent, processed
vars == <<world, candidates, frequent, infrequent, processed>>

\* A pattern is its graph, with the cached canonical label.
Pattern(g) == [graph |-> g, CL |-> generate(g)]
getSize(p) == p.graph.edges

\* CLMap: one pattern for each label, and those with a hard label by search.
theSame(p, q) == p.CL = q.CL /\ (IsHard(p.CL) => Embeddings(p.graph, q.graph) # {})
getPattern(map, p) == {q \in map : theSame(q, p)}
addPattern(map, p) ==
  IF getSize(p) > world.limit \/ getPattern(map, p) # {} THEN map ELSE map \union {p}

\* candidates, frequent and infrequent are vectors with a map for each size.
OfSize(maps, n) == {q \in maps : getSize(q) = n}
AddTo(maps, p) == (maps \ OfSize(maps, getSize(p))) \union addPattern(OfSize(maps, getSize(p)), p)

-----------------------------------------------------------------------------
(* Primary graphs: the pattern without one edge, where that is connected.   *)

\* The edges in the order they are met, from the first end with a degree
\* above one: source and other end.
Source(g, e) == Min({v \in e : Degree(g, v) # 1})
Other(g, e)  == IF Cardinality(e) = 1 THEN Source(g, e) ELSE Min(e \ {Source(g, e)})
EdgesInOrder(g) ==
  ByKey({e \in DOMAIN g.edge : \E v \in e : Degree(g, v) # 1}, LAMBDA e : <<Source(g, e), Other(g, e)>>)

PrimaryGraph(g, e) ==
  [graph |-> removeEdge(g, Source(g, e), Other(g, e)), src |-> Source(g, e), other |-> Other(g, e),
   label |-> g.label[Other(g, e)], edge |-> g.edge[e]]

\* PrimaryGraph::isTheSameWith
SameGraph(g, h) ==
  /\ Cardinality(NodesOf(g)) = Cardinality(NodesOf(h)) /\ g.edges = h.edges
  /\ Embeddings(g, h) # {}

\* generatePrimaryGraphs: of those that are the same the first is kept.
PrimaryGraphs(g) ==
  LET es == EdgesInOrder(g)
      pg == [k \in DOMAIN es |-> PrimaryGraph(g, es[k])]
      ok == {k \in DOMAIN es : isConnected(pg[k].graph)}
  IN {pg[k] : k \in {j \in ok : \A i \in ok : i < j => ~SameGraph(pg[i].graph, pg[j].graph)}}

\* Pattern::getJoiningPG
JoiningPGs(g, h) == {pq \in PrimaryGraphs(g) \X PrimaryGraphs(h) : SameGraph(pq[1].graph, pq[2].graph)}

-----------------------------------------------------------------------------
(* The joins.                                                               *)

Fresh(g) == LET n == Cardinality(NodesOf(g)) IN Min((n .. 2 * n) \ NodesOf(g))

\* The edge that the other pattern has more, on a new node.
OnNewNode(g, v, other) == addEdge(AddNode(g, Fresh(g), other.label), v, Fresh(g), other.edge)

\* The same edge, when its end may be the node that the pattern has more.
\* (The faulty variant, used by no specification, forgets this case.)
ClosingNever(g, mine, v, other) == {}
Closing(g, mine, v, other) ==
  IF mine.label = other.label /\ mine.src # v THEN {addEdge(g, mine.other, v, other.edge)} ELSE {}

Joins(g, h) ==
  UNION {LET mine == pq[1] other == pq[2]
         IN UNION {{OnNewNode(g, m[other.src], other)} \union Closing(g, mine, m[other.src], other) :
                      m \in Embeddings(other.graph, mine.graph)} :
         pq \in JoiningPGs(g, h)}

\* A candidate the phase lets through: the approximate one looks among the
\* candidates of its size, the exact one also at what it has sent out.
\* (checkAgainstOtherPatterns.  The faulty variant, used by no specification,
\* compares with candidates only.)
AgainstCandidates(p) == TRUE
Passes(p) == world.exact => getPattern(processed', p) = {}

\* Each label once; which of the graphs with one label comes first depends on
\* addresses.
OneOfEach(new) == {CHOOSE q \in new : theSame(q, r) /\ getSize(q) = getSize(r) : r \in new}

\* All joins of p with the frequent patterns of its size (p included).
Extensions(p, others) ==
  {q \in OneOfEach({Pattern(g) : g \in UNION {Joins(p.graph, q.graph) : q \in others}}) :
     Passes(q) /\ getPattern(OfSize(candidates, getSize(q)), q) = {} /\ getSize(q) <= world.limit}

-----------------------------------------------------------------------------
(* Frequent edges and their extensions.                                     *)

Data(w) == Parsed(w.file, w.support)

\* Miner::loadGraph: the single-edge patterns of the file, as their first
\* lines write them.
FrequentEdges(w) ==
  LET d == Data(w)
      ends(k) == <<w.file.lines[k][1], w.file.lines[k][2]>>
      ok == {k \in DOMAIN w.file.lines : {ends(k)[1], ends(k)[2]} \subseteq NodesOf(d)}
      lab(k) == <<d.label[ends(k)[1]], d.label[ends(k)[2]]>>
      type(k) == <<{lab(k)[1], lab(k)[2]}, w.file.lines[k][3]>>
      firsts == {k \in ok : \A j \in ok : j < k => type(j) # type(k)}
      edge(k) == addEdge(AddNode(AddNode(EmptyGraph, 0, lab(k)[1]), 1, lab(k)[2]), 0, 1, w.file.lines[k][3])
      enough(k) == EdgeSupport(d, w.file.lines, Min(type(k)[1]), Max(type(k)[1]), type(k)[2]) >= w.support
  IN {edge(k) : k \in {j \in firsts : enough(j)}}

\* extendFreqEdges: two frequent edges that meet in a node of one label.
TwoEdges(a, b) ==
  {OnNewNode(a, t[1], [label |-> b.label[1 - t[2]], edge |-> b.edge[{0, 1}]]) :
     t \in {u \in {0, 1} \X {0, 1} : a.label[u[1]] = b.label[u[2]]}}

extendFreqEdges(edges) ==
  OneOfEach({Pattern(g) : g \in UNION {TwoEdges(a, b) : a \in edges, b \in edges}})

Init ==
  /\ world \in Worlds
  /\ frequent = {Pattern(e) : e \in FrequentEdges(world)}
  /\ candidates = {q \in extendFreqEdges(FrequentEdges(world)) : getSize(q) <= world.limit}
  /\ infrequent = {} /\ processed = {}

-----------------------------------------------------------------------------
(* Deciding a candidate.                                                    *)

\* The support: the fewest data nodes that one node of the pattern falls on.
Support(g, d) ==
  LET ms == Embeddings(g, d) IN Min({Cardinality({m[v] : m \in ms}) : v \in NodesOf(g)})

\* The candidate a phase takes next: the approximate one the first of the
\* lowest size, the exact one any.
Nexts ==
  IF world.one THEN LET n == Min({getSize(q) : q \in candidates})
                    IN {CHOOSE q \in candidates : getSize(q) = n}
               ELSE candidates

PatternFoundFrequent(p) ==
  /\ Support(p.graph, Data(world)) >= world.support
  /\ frequent' = AddTo(frequent, p)
  /\ candidates' = (candidates \ {p}) \union Extensions(p, OfSize(frequent', getSize(p)))
  /\ UNCHANGED infrequent

\* Supergraphs of an infrequent pattern: at each level the loop stops after
\* the first that has nodes enough unless that is one; then all of them go.
IsSuper(p, q) == CanSatisfyNodeLabels(q.graph, p.graph) /\ Embeddings(p.graph, q.graph) # {}
Level(p, n) == {q \in candidates : getSize(q) = n /\ Cardinality(NodesOf(q.graph)) >= Cardinality(NodesOf(p.graph))}
Supers(p, n) == {q \in Level(p, n) : IsSuper(p, q)}
PatternFoundInFrequent(p) ==
  /\ Support(p.graph, Data(world)) < world.support
  /\ infrequent' = AddTo(infrequent, p)
  /\ LET above == {n \in {getSize(q) : q \in candidates} : n > getSize(p)}
         firsts(n) == IF Level(p, n) = {} THEN {p} ELSE IF world.one THEN {CHOOSE q \in Level(p, n) : TRUE} ELSE Level(p, n)
     IN \E first \in [above -> candidates \union {p}] :
          /\ \A n \in above : first[n] \in firsts(n)
          /\ candidates' = (candidates \ {p}) \
               IF world.exact THEN UNION {Supers(p, n) : n \in {k \in above : first[k] \in Supers(p, k)}} ELSE {}
  /\ UNCHANGED frequent

Decide ==
  /\ candidates # {}
  /\ \E p \in Nexts :
       /\ processed' = processed \union {p}
       /\ PatternFoundFrequent(p) \/ PatternFoundInFrequent(p)
  /\ UNCHANGED world

Next == Decide
Spec == Init /\ [][Next]_vars
-----------------------------------------------------------------------------
(* What the growth must achieve.                                            *)

Known == frequent \union infrequent \union candidates

\* Equal labels mean equal patterns, whatever the order of growth, if their edge
\* labels are whole numbers below ten.  (1.2 and 1.7 have the same label, and so
\* have 1 with 12 and 11 with 2: CanonibalLabel.cpp:602-611.)
LabelsSound ==
  \A p, q \in Known :
    /\ OneDigit(p.graph) /\ OneDigit(q.graph)
    /\ p.CL = q.CL /\ ~IsHard(p.CL)
    => SameGraph([p.graph EXCEPT !.edges = 0], [q.graph EXCEPT !.edges = 0])

\* The numbers of the nodes leave no trace in the label of a pattern whose
\* nodes are not all alike: after exchanging any two it is the same.
NumberingForgotten ==
  candidates # {} => \A p \in Nexts : Ordinary(p.graph) /\ Len(Division(p.graph)) > 1 =>
    \A m \in Swaps(p.graph) : generate(Renumbered(p.graph, m)) = p.CL

\* The connected subgraphs of the data graph with at most limit edges.
Sub(g, E) == [label |-> [v \in UNION E |-> g.label[v]], edge |-> [e \in E |-> g.edge[e]], edges |-> Cardinality(E)]
Subgraphs(w) ==
  {h \in {Sub(Data(w), E) : E \in {F \in SUBSET DOMAIN Data(w).edge : F # {} /\ Cardinality(F) <= w.limit}} : isConnected(h)}

\* When no candidates are left all frequent patterns have been found, if the
\* edge labels of the data are whole numbers below ten.
AllFound ==
  \A h \in Subgraphs(world) :
    Support(h, Data(world)) >= world.support => \E p \in frequent : SameGraph(p.graph, h)
Complete == candidates = {} /\ OneDigit(Data(world)) => AllFound

\* The same without the condition: "The second phase computes the exact
\* solution" (README.md:8-9 of ScaleMine).
ExactSolution == candidates = {} /\ world.exact => AllFound

\* In the exact phase a pattern of a level has the number of edges that the
\* level says: a closing edge that the pattern has already (MinerX.cpp:904) is
\* counted, but what it gives has been sent out before.
SizesReal == world.exact => \A p \in frequent : Cardinality(DOMAIN p.graph.edge) = getSize(p)

\* No frequent subgraph is larger than the graph, "in terms of the number of
\* edges" (main.cpp:132): whatever the limit, there are finitely many levels.
LevelsReal == \A p \in frequent : getSize(p) <= Cardinality(DOMAIN Data(world).edge)
=============================================================================
