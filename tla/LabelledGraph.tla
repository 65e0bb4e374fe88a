--------------------------- MODULE LabelledGraph ---------------------------
(***************************************************************************)
(* GraphX and NodeX of ScaleMine: an undirected graph whose nodes and      *)
(* edges carry labels.  A graph is a record                                *)
(*   label   node id |-> label (nodes, nodesByLabel)                       *)
(*   edge    {id, id} |-> label (the adjacency maps of both end nodes)     *)
(*   edges   numOfEdges, which counts calls, not edges                     *)
(* Labels are small numbers; a file is a record of a function from ids to  *)
(* labels and a sequence of <<id, id, label>>, its "v" and "e" lines.      *)
(***************************************************************************)
EXTENDS Integers, Sequences, FiniteSets, SequencesExt

NodesOf(g) == DOMAIN g.label

\* The neighbours of a node, and how many it has (getEdgesSize).
Near(g, v)   == {w \in NodesOf(g) : {v, w} \in DOMAIN g.edge}
Degree(g, v) == Cardinality(Near(g, v))

\* getEdgeLabel answers this for two nodes without an edge between them.
NoEdge == "0.0001"
getEdgeLabel(g, v, w) == IF {v, w} \in DOMAIN g.edge THEN g.edge[{v, w}] ELSE NoEdge

\* NodeX.isItConnectedWithNodeID, with the label of the edge.
Linked(g, v, w, l) == {v, w} \in DOMAIN g.edge /\ g.edge[{v, w}] = l

getNodesByLabel(g, l) == {v \in NodesOf(g) : g.label[v] = l}

EmptyGraph == [label |-> <<>>, edge |-> <<>>, edges |-> 0]

Extended(f, k, x) == [i \in DOMAIN f \union {k} |-> IF i = k THEN x ELSE f[i]]

\* A node that is known keeps its label.
AddNode(g, v, l) ==
  IF v \in NodesOf(g) THEN g ELSE [g EXCEPT !.label = Extended(g.label, v, l)]

\* An edge that is known keeps its label, but numOfEdges grows; an edge with
\* an unknown end is ignored.
addEdge(g, v, w, l) ==
  IF {v, w} \subseteq NodesOf(g)
  THEN [g EXCEPT !.edges = @ + 1,
                 !.edge  = IF {v, w} \in DOMAIN @ THEN @ ELSE Extended(@, {v, w}, l)]
  ELSE g

removeNode_IgnoreEdges(g, V) ==
  [g EXCEPT !.label = [v \in NodesOf(g) \ V |-> g.label[v]]]

\* Ends that have lost their last edge go with it.
removeEdge(g, v, w) ==
  LET h == [g EXCEPT !.edges = @ - 1,
                     !.edge  = [e \in DOMAIN g.edge \ {{v, w}} |-> g.edge[e]]]
  IN removeNode_IgnoreEdges(h, {u \in {v, w} : Degree(h, u) = 0})

\* Breadth first from any node: whether all nodes are reached.
isConnected(g) ==
  LET reach[n \in Nat] ==
        IF n = 0 THEN {CHOOSE v \in NodesOf(g) : TRUE}
                 ELSE reach[n - 1] \union UNION {Near(g, v) : v \in reach[n - 1]}
  IN NodesOf(g) # {} => reach[Cardinality(NodesOf(g))] = NodesOf(g)

\* The count of the other graph is compared with itself, so that only labels
\* that are missing altogether are told.
CanSatisfyNodeLabels(g, other) ==
  \A v \in NodesOf(other) : getNodesByLabel(g, other.label[v]) # {}

\* insertIntoEdgeFreq: the two columns of the single-edge pattern with labels
\* lo <= hi; ends with one label enter both columns.  Lines for edges that the
\* graph already has count here.
Column(g, lines, lo, hi, l, c) ==
  LET of == {k \in DOMAIN lines : /\ {lines[k][1], lines[k][2]} \subseteq NodesOf(g)
                                  /\ {g.label[lines[k][1]], g.label[lines[k][2]]} = {lo, hi}
                                  /\ lines[k][3] = l}
      end == UNION {{lines[k][1], lines[k][2]} : k \in of}
  IN {v \in end : g.label[v] = IF c = 0 THEN lo ELSE hi}
EdgeSupport(g, lines, lo, hi, l) ==
  LET size(c) == Cardinality(Column(g, lines, lo, hi, l, c))
  IN IF size(0) <= size(1) THEN size(0) ELSE size(1)

\* parseData with a support threshold (freq; -1 for none): before the first
\* edge, nodes with a label that too few nodes have are removed.
Parsed(file, freq) ==
  LET all  == [EmptyGraph EXCEPT !.label = file.label]
      rare == {v \in NodesOf(all) : Cardinality(getNodesByLabel(all, all.label[v])) < freq}
      kept == IF file.lines = <<>> THEN all ELSE removeNode_IgnoreEdges(all, rare)
      add(e, g) == addEdge(g, e[1], e[2], e[3])
  IN FoldLeft(LAMBDA g, e : add(e, g), kept, file.lines)

-----------------------------------------------------------------------------
\* A set of numbers as an ascending sequence.
SetToSeqById(S) == [k \in 1 .. Cardinality(S) |-> CHOOSE v \in S : Cardinality({w \in S : w < v}) = k - 1]

(* What the searches are measured by: all the ways to map the nodes of q    *)
(* into g that keep node labels, edges and edge labels.                     *)
Embeds(q, g, m) ==
  /\ \A v \in DOMAIN m : m[v] \in NodesOf(g) /\ g.label[m[v]] = q.label[v]
  /\ \A v, w \in DOMAIN m : v # w => m[v] # m[w]
  /\ \A v, w \in DOMAIN m : {v, w} \in DOMAIN q.edge => Linked(g, m[v], m[w], q.edge[{v, w}])
\* They are found one node after the other.
Fitting(q, g, m, v) ==
  {x \in NodesOf(g) :
     /\ g.label[x] = q.label[v]
     /\ \A w \in DOMAIN m : m[w] # x /\ ({v, w} \in DOMAIN q.edge => Linked(g, x, m[w], q.edge[{v, w}]))
     /\ {v} \in DOMAIN q.edge => Linked(g, x, x, q.edge[{v}])}
Placements(q, g, M, v) == UNION {{Extended(m, v, x) : x \in Fitting(q, g, m, v)} : m \in M}
Embeddings(q, g) ==
  LET vs == SetToSeqById(NodesOf(q))
      upto[n \in Nat] == IF n = 0 THEN {<<>>} ELSE Placements(q, g, upto[n - 1], vs[n])
  IN upto[Cardinality(NodesOf(q))]
=============================================================================
