---------------------------- MODULE GraphLevels ----------------------------
(***************************************************************************)
(* The graphs of PARTITION: the one CreateGraph loads, level 0, and those  *)
(* Coarsing_phase makes of them.  A graph has nodes 0 .. n - 1 with their  *)
(* weights and matchsets (the nodes of the level below they stand for),    *)
(* edges {a, b} with their wights, and the neighber map of each node.      *)
(*                                                                         *)
(* An id is the decimal string of its number; a HashMap of such strings    *)
(* with one digit is traversed by number.                                  *)
(***************************************************************************)
EXTENDS Integers, Sequences, FiniteSets, SequencesExt, FiniteSetsExt

Nodes(g) == DOMAIN g.weight
ByNumber(S) == SelectSeq([k \in 1 .. 10 |-> k - 1], LAMBDA v : v \in S)
Total(f, S) == SumFunctionOnSet(f, S)

\* CreateGraph.Get_newGraph: the wight of an edge is the MNI of its type.
\* The neighber maps stay empty.
Loaded(label, pairs) ==
  LET turned(e) == IF label[e[1]] > label[e[2]] THEN <<e[2], e[1]>> ELSE e
      Es      == {turned(e) : e \in pairs}
      type(e) == <<label[e[1]], label[e[2]]>>
      MNI(t)  == LET of == {e \in Es : type(e) = t}
                 IN Min({Cardinality({e[1] : e \in of}), Cardinality({e[2] : e \in of})})
      of(s)   == CHOOSE e \in Es : ToSet(e) = s
  IN [weight   |-> [v \in DOMAIN label |-> 1],
      matchset |-> [v \in DOMAIN label |-> {}],
      wight    |-> [s \in {ToSet(e) : e \in Es} |-> MNI(type(of(s)))],
      neighber |-> [v \in DOMAIN label |-> {}]]

\* Get_rido.getrido
Rido(g, e) == (g.wight[e] * g.wight[e]) \div (g.weight[Min(e)] * g.weight[Max(e)])

\* Edges that meet in the new graph are one edge, with all their wights.  (The
\* faulty variant, used by no specification, keeps one.)
AddedOnce(g, es) == g.wight[CHOOSE e \in es : TRUE]
Added(g, es) == Total(g.wight, es)

\* Coarsing_phase.coarse: the new graph, when pairs are the edges that have
\* been merged, in that order.
Coarsened(g, pairs) ==
  LET single == ByNumber(Nodes(g) \ UNION ToSet(pairs))
      sets   == pairs \o [k \in DOMAIN single |-> {single[k]}]
      match  == [k \in 0 .. Len(sets) - 1 |-> sets[k + 1]]
      map(v) == CHOOSE k \in DOMAIN match : v \in match[k]
      un     == DOMAIN g.wight \ ToSet(pairs)
      new(e) == {map(v) : v \in e}
      Es     == {new(e) : e \in un}
  IN [weight   |-> [k \in DOMAIN match |-> Total(g.weight, match[k])],
      matchset |-> match,
      wight    |-> [s \in Es |-> Added(g, {e \in un : new(e) = s})],
      neighber |-> [k \in DOMAIN match |-> {j \in DOMAIN match : {j, k} \in Es /\ j # k}]]

\* The wight of the edges between different parts.
Cut(g, color) == Total(g.wight, {e \in DOMAIN g.wight : Cardinality({color[v] : v \in e}) > 1})
=============================================================================
