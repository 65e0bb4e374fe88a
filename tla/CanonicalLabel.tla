--------------------------- MODULE CanonicalLabel ---------------------------
(***************************************************************************)
(* CanonicalLabel::generate of ScaleMine: the label under which the maps   *)
(* keep a pattern.  The nodes are divided by label and degree, then by the *)
(* parts and edge labels of their neighbours until nothing changes; the    *)
(* label is the division and the largest adjacency matrix over the orders  *)
(* that the division allows.                                               *)
(*                                                                         *)
(* Labels of nodes are whole numbers below ten, those of edges are given   *)
(* in tenths (12 is 1.2) and are below 10000.  A text is the sequence of   *)
(* its characters.  Hash maps of small ids are traversed by id, so that    *)
(* "the first node" is the one with the lowest id.                         *)
(***************************************************************************)
EXTENDS LabelledGraph, FiniteSetsExt

CONSTANTS
  Bytes,  \* Bytes[d]: the characters the program finds d bytes after the start of "_"
  Limits  \* [part, others, first, all]: 10, 2000000, 200000 and 20000000

\* Sequences of numbers in the order of strings.
Lower(s, t) ==
  \/ \E i \in DOMAIN s \intersect DOMAIN t : s[i] < t[i] /\ \A j \in 1 .. i - 1 : s[j] = t[j]
  \/ Len(s) < Len(t) /\ \A j \in DOMAIN s : s[j] = t[j]
Highest(S) == CHOOSE s \in S : \A t \in S : ~Lower(s, t)

\* The members of S in the order of their (different) keys.
ByKey(S, key(_)) ==
  [k \in 1 .. Cardinality(S) |-> CHOOSE x \in S : Cardinality({y \in S : Lower(key(y), key(x))}) = k - 1]
PutBack(s) == [k \in DOMAIN s |-> s[Len(s) + 1 - k]]

\* The assignment of a label (a double) to a string keeps one character.
Char(l) == l % 256

\* A whole number as a text, and an edge label as one (doubleToString).
Decimal[n \in Nat] == IF n < 10 THEN <<48 + n>> ELSE Decimal[n \div 10] \o <<48 + (n % 10)>>
Text(l) == Decimal[l \div 10] \o IF l % 10 = 0 THEN <<>> ELSE <<46, 48 + (l % 10)>>

-----------------------------------------------------------------------------
(* The division.                                                            *)

\* The key degree + "_" + label adds a number to a pointer: what stands before
\* the label is the tail of whatever follows the literal.
FirstKey(g, v) == <<Bytes[Degree(g, v)], g.label[v]>>
FirstParts(g) == {{w \in NodesOf(g) : FirstKey(g, w) = FirstKey(g, v)} : v \in NodesOf(g)}

\* descending: by character, degree of the first node, and number of the part.
Sorting(g, P) == LET v == Min(P) IN <<Char(g.label[v]), Degree(g, v), v>>
Initial(g) == PutBack(ByKey(FirstParts(g), LAMBDA P : Sorting(g, P)))

PartOf(parts, v) == CHOOSE i \in DOMAIN parts : v \in parts[i]

\* generateNeighborsList: part, and label and edge label in one text, of the
\* neighbours, sorted; ")" ends an entry.
NeighborsList(g, parts, v) ==
  LET entry(w) == <<PartOf(parts, w)>> \o Decimal[g.label[w]] \o Text(g.edge[{v, w}]) \o <<41>>
      order == ByKey(Near(g, v), LAMBDA w : entry(w) \o <<w>>)
  IN FlattenSeq([k \in DOMAIN order |-> entry(order[k])])

\* getNewParts, in ascending order of degree and neighbour list.
NewParts(g, parts, P) ==
  LET nl(v) == NeighborsList(g, parts, v)
      new == {{w \in P : nl(w) = nl(v)} : v \in P}
  IN ByKey(new, LAMBDA Q : <<Degree(g, Min(Q))>> \o nl(Min(Q)))

\* One round: the first part that can be divided is replaced.
Divided(g, parts) ==
  LET new == [i \in DOMAIN parts |-> NewParts(g, parts, parts[i])]
      can == {i \in DOMAIN parts : Len(new[i]) > 1}
  IN IF can = {} THEN parts
     ELSE LET i == Min(can) IN SubSeq(parts, 1, i - 1) \o new[i] \o SubSeq(parts, i + 1, Len(parts))

Division(g) ==
  LET round[n \in Nat] == IF n = 0 THEN Initial(g) ELSE Divided(g, round[n - 1])
  IN round[Cardinality(NodesOf(g))]

-----------------------------------------------------------------------------
(* The orders of the nodes.                                                 *)

ConnectedWithin(g, P) == \A v \in P : Near(g, v) \subseteq P
AllOrders(P) == {s \in [1 .. Cardinality(P) -> P] : \A i, j \in DOMAIN s : i # j => s[i] # s[j]}

\* getCombinations: one order (by falling id) for a part whose nodes have no
\* other neighbours, "this needs a proof", all orders for another.  (The faulty
\* variant, used by no specification, takes one for each part without edges
\* inside.)
CombinationsLoose(g, P) ==
  IF \A v \in P : Near(g, v) \intersect P = {} THEN {PutBack(ByKey(P, LAMBDA v : <<v>>))} ELSE AllOrders(P)
Combinations(g, P) ==
  IF ConnectedWithin(g, P) THEN {PutBack(ByKey(P, LAMBDA v : <<v>>))} ELSE AllOrders(P)

\* generateCanLabel: the upper triangle of the adjacency matrix, row by row, with
\* a comma after each.  The whole parts of the edge labels stand one behind the
\* other without anything between them.  (The faulty variant, used by no
\* specification, only says that there is an edge.)
EntryOne(g, v, w) == IF {v, w} \in DOMAIN g.edge THEN <<49>> ELSE <<48>>
Entry(g, v, w) == IF {v, w} \in DOMAIN g.edge THEN Decimal[g.edge[{v, w}] \div 10] ELSE <<48>>
MatrixRow(g, s, i) ==
  IF i < Len(s) THEN FlattenSeq([j \in 1 .. Len(s) - i |-> Entry(g, s[i], s[i + j])]) \o <<44>> ELSE <<>>
Matrix(g, s) == FlattenSeq([i \in 1 .. Len(s) - 1 |-> MatrixRow(g, s, i)])

\* Of the first part only the orders with the largest first line stay.
FirstOrders(g, P) ==
  LET all == Combinations(g, P)
      max == Highest({MatrixRow(g, s, 1) : s \in all})
  IN {s \in all : MatrixRow(g, s, 1) = max}

\* The orders of the parts, one after the other.
Orders(C) ==
  LET upto[n \in Nat] == IF n = 0 THEN {<<>>} ELSE {s \o t : s \in upto[n - 1], t \in C[n]}
  IN upto[Len(C)]

\* getPrefix: the labels of the nodes, part by part.
Prefix(g, parts) == [k \in DOMAIN parts |-> [j \in 1 .. Cardinality(parts[k]) |-> g.label[Min(parts[k])]]]

\* The label of a graph that would take too long: its size behind an X.
Hard(g) == <<"X", Cardinality(NodesOf(g)), g.edges>>
IsHard(label) == Len(label) = 3

\* C: the orders of each part; first: those of the first part that stay.
TooMany(C, first) ==
  LET size == [k \in DOMAIN C |-> Cardinality(C[k])]
      others == FoldLeft(LAMBDA x, y : x * y, 1, Tail(size))
  IN others > Limits.others \/ size[1] > Limits.first \/ Cardinality(first) * others > Limits.all
LabelOf(g, parts, C, first) ==
  IF (\E k \in DOMAIN parts : Cardinality(parts[k]) > Limits.part) \/ TooMany(C, first)
  THEN Hard(g)
  ELSE <<Prefix(g, parts), Highest({Matrix(g, s) : s \in Orders([C EXCEPT ![1] = first])})>>

generate(g) ==
  LET parts == Division(g)
  IN LabelOf(g, parts, [k \in DOMAIN parts |-> Combinations(g, parts[k])], FirstOrders(g, parts[1]))

-----------------------------------------------------------------------------
\* GraphX::isTheSameWith: by label, and by a search where there is none.
isTheSameWith(g, h) ==
  /\ Cardinality(NodesOf(g)) = Cardinality(NodesOf(h)) /\ g.edges = h.edges
  /\ generate(g) = generate(h)
  /\ IsHard(generate(g)) => Embeddings(g, h) # {}

(* What the label is for.  It tells patterns apart whose edge labels are one *)
(* digit each, not zero.  A graph is ordinary when its edge labels are at    *)
(* least one and the program finds different bytes for its degrees.          *)
OneDigit(g) == \A e \in DOMAIN g.edge : g.edge[e] \in {10 * d : d \in 1 .. 9}
Ordinary(g) ==
  /\ \A e \in DOMAIN g.edge : g.edge[e] >= 10
  /\ \A v, w \in NodesOf(g) : g.label[v] = g.label[w] /\ Bytes[Degree(g, v)] = Bytes[Degree(g, w)]
                                => Degree(g, v) = Degree(g, w)
Renumbered(g, m) ==
  LET back(v) == CHOOSE u \in NodesOf(g) : m[u] = v
  IN [g EXCEPT !.label = [v \in NodesOf(g) |-> g.label[back(v)]],
               !.edge  = [e \in {{m[v] : v \in f} : f \in DOMAIN g.edge} |-> g.edge[{back(v) : v \in e}]]]
Swaps(g) == {[v \in NodesOf(g) |-> IF v = s[1] THEN s[2] ELSE IF v = s[2] THEN s[1] ELSE v] :
               s \in NodesOf(g) \X NodesOf(g)}
=============================================================================
