---------------------------- MODULE ColumnCheck ----------------------------
(***************************************************************************)
(* The search of ForwardEx and BackwardEx: which vertices of the columns   *)
(* of a candidate are in a match.                                          *)
(*                                                                         *)
(* A pattern is here the sequence of its forward edges in the order they   *)
(* were added, each from an old label to a new one, and the set of its     *)
(* backward edges.  Its columns are its labels, and they differ.  A graph  *)
(* gives each vertex a label and a place (hash) in the order in which a    *)
(* HashSet is traversed; edges are those a site knows.                     *)
(***************************************************************************)
EXTENDS Integers, Sequences, FiniteSets, SequencesExt

Neighbers(graph, edges, v, l) == {u \in DOMAIN graph.label : graph.label[u] = l /\ {u, v} \in edges}
InHashOrder(graph, set) ==
  [k \in 1 .. Cardinality(set) |-> CHOOSE v \in set : Cardinality({u \in set : graph.hash[u] < graph.hash[v]}) = k - 1]

Put(f, k, x) == [i \in DOMAIN f \union {k} |-> IF i = k THEN x ELSE f[i]]

\* Pattern.column_label
ColumnLabels(order) == <<order[1][1]>> \o [k \in DOMAIN order |-> order[k][2]]

\* Pattern.Getorder: the forward edges as they reach the rest of the tree
\* from label c, in at most as many passes as there are edges.
Getorder(order, c) ==
  LET visited(list) == {c} \union UNION {ToSet(e) : e \in ToSet(list)}
      Take(list, e) == IF e \notin ToSet(list) /\ ToSet(e) \intersect visited(list) # {} THEN Append(list, e) ELSE list
  IN FoldLeft(LAMBDA list, pass : FoldLeft(Take, list, order), <<>>, order)

\* Forward_check and Backward_check: the first match with what result has
\* for the columns in checked, along steps k, k + 1, ... of the list, and
\* what the search leaves in result.  (No entry is the "-1" of the code.)
\* A vertex that is in result is skipped, whatever column it is for.
Checks(graph, edges, candidates, list, back, c, id, before) ==
  LET L == DOMAIN candidates
      V == DOMAIN graph.label
      Check[k \in 1 .. Len(list) + 1] == [result \in UNION {[d -> V] : d \in SUBSET L} |-> [checked \in SUBSET L |->
        IF k > Len(list) THEN [match |-> result, result |-> result] ELSE
        LET old     == CHOOSE l \in ToSet(list[k]) : l \in checked
            new     == CHOOSE l \in ToSet(list[k]) : l # old
            nodeset == {v \in (Neighbers(graph, edges, result[old], new) \ Range(result)) \intersect candidates[new] :
                          \A l \in checked : {l, new} \in back => {result[l], v} \in edges}
            Try(found, v) ==
              IF found.match # <<>> THEN found
              ELSE LET put   == Put(found.result, new, v)
                       after == Check[k + 1][put][checked \union {new}]
                   IN [after EXCEPT !.result = Restrict(@, DOMAIN @ \ {new})]
        IN FoldLeft(Try, [match |-> <<>>, result |-> result], InHashOrder(graph, nodeset))]]
  IN Check[1][Put(before, c, id)][{c}]

\* The loop over the columns (Forward_extend, Backward_extend): the vertices
\* of a column that are in no match found so far are searched for in turn,
\* and those without a match are taken out of the column.  result is not
\* reset after a column.
MNI_List(graph, edges, candidates, order, back) ==
  LET Column(s, c) ==
        LET tried == FoldLeft(
              LAMBDA t, id :
                IF \E m \in t.matches : m[c] = id THEN t
                ELSE LET s2 == Checks(graph, edges, s.candidates, Getorder(order, c), back, c, id, t.result)
                     IN [t EXCEPT !.matches = IF s2.match = <<>> THEN @ ELSE @ \union {s2.match},
                                  !.result = s2.result],
              s, InHashOrder(graph, s.candidates[c]))
        IN [tried EXCEPT !.candidates[c] = {m[c] : m \in tried.matches}]
      checked == FoldLeft(Column, [candidates |-> candidates, matches |-> {}, result |-> <<>>], ColumnLabels(order))
  IN checked.candidates

-----------------------------------------------------------------------------
(* What the search is measured by *)

\* Each forward edge goes from a label that is there to a new one.
Before(order, k) == {order[1][1]} \union {order[j][2] : j \in 1 .. k - 1}
LabelsOf(order)  == Before(order, Len(order) + 1)
IsTreeOrder(order) ==
  order # <<>> /\ \A k \in DOMAIN order : order[k][1] \in Before(order, k) /\ order[k][2] \notin Before(order, k)
IsOrder(order, L) == order \in Seq(L \X L) /\ IsTreeOrder(order) /\ L = LabelsOf(order)

\* Columns hold vertices of their label.
InColumns(graph, candidates) ==
  /\ candidates \in [DOMAIN candidates -> SUBSET DOMAIN graph.label]
  /\ \A l \in DOMAIN candidates : candidates[l] \subseteq {v \in DOMAIN graph.label : graph.label[v] = l}

\* A match of a candidate: a vertex of each column, with all its edges.
IsMatch(m, edges, candidates, order, back) ==
  /\ DOMAIN m = DOMAIN candidates /\ \A l \in DOMAIN m : m[l] \in candidates[l]
  /\ \A k \in DOMAIN order : {m[order[k][1]], m[order[k][2]]} \in edges
  /\ \A a, b \in DOMAIN m : {a, b} \in back => {m[a], m[b]} \in edges
=============================================================================
