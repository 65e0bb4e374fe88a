----------------------------- MODULE Partition -----------------------------
(***************************************************************************)
(* PARTITION: the graph is coarsened level by level, the coarsest graph is *)
(* divided, and the division is projected back and refined level by level. *)
(*                                                                         *)
(* A world is an input: the labels of the vertices and the edges, the      *)
(* number of parts and the size at which coarsening stops (main has 4 and  *)
(* 50 * 4).  Edges of equal rido are merged in any order: it is the order  *)
(* of the file, later that of a HashMap.  Graphs have at most ten nodes,   *)
(* which a HashMap traverses by number.                                    *)
(***************************************************************************)
EXTENDS GraphLevels, NodeQueue

CONSTANTS Worlds,       \* [label, pairs, part, num_nodes]
          MaxNugrow,    \* moves without gain before refinement stops (50)
          Upper, Lower  \* bounds of a part in percent of its share (103, 97)

VARIABLES world, phase,
          graphs,       \* graphs[l + 1] is the graph of level l
          pairs,        \* edges merged so far by the coarsening under way
          level, color, \* the level that is divided, and the part of its nodes
          size_p,       \* one HashMap that all levels share
          growth,       \* the locals of inital_part: [i, sum, unmarked]
          queue, dvalue,
          refine        \* the locals of uncoarsing, and what it keeps in nodes

vars == <<world, phase, graphs, pairs, level, color, size_p, growth, queue, dvalue, refine>>

G     == graphs[level + 1]
Parts == 0 .. world.part - 1
Order(m) == Cardinality(Nodes(graphs[1])) \div m
maxnum == (Order(world.part) * Upper) \div 100
minnum == (Order(world.part) * Lower) \div 100

MinusInfinity == -1000000   \* -Long.MAX_VALUE

NoGrowth == [i |-> 0, sum |-> 0, unmarked |-> <<>>]
NoRefine == [tempcolor |-> <<>>, E_value |-> <<>>, isfixed |-> {}, Sv |-> <<>>, size |-> <<>>,
             U_temp |-> 0, U_max |-> MinusInfinity, K |-> 1, flag |-> 0]

Init ==
  /\ world \in Worlds
  /\ graphs = <<Loaded(world.label, world.pairs)>>
  /\ phase = "coarsen"
  /\ pairs = <<>> /\ queue = <<>> /\ color = <<>> /\ dvalue = <<>> /\ size_p = <<>>
  /\ level = 0 /\ growth = NoGrowth /\ refine = NoRefine

-----------------------------------------------------------------------------
(* Coarsing_phase *)

Top    == graphs[Len(graphs)]
Free   == {e \in DOMAIN Top.wight : e \intersect UNION ToSet(pairs) = {}}
Large(g) == Cardinality(Nodes(g)) > world.num_nodes

\* The best edge whose two ends are free is merged.
Merge ==
  /\ phase = "coarsen" /\ Large(Top)
  /\ \E e \in Free : /\ \A f \in Free : Rido(Top, f) <= Rido(Top, e)
                     /\ pairs' = Append(pairs, e)
  /\ UNCHANGED <<world, phase, graphs, level, color, size_p, growth, queue, dvalue, refine>>

\* What inital_part starts with: nobody is in a part, few neighbours first.
StartGrowth(g) ==
  /\ phase' = "grow"
  /\ color'  = [v \in Nodes(g) |-> -1]
  /\ dvalue' = [v \in Nodes(g) |-> 0]
  /\ growth' = [NoGrowth EXCEPT !.unmarked =
       SortSeq(ByNumber(Nodes(g)), LAMBDA u, v :
         LET d(x) == Cardinality(g.neighber[x]) IN d(u) < d(v) \/ (d(u) = d(v) /\ u < v))]

\* Coarsening goes on while graphs are large and shrink by more than a fifth.
Shrunk(g, h) == 4 * Cardinality(Nodes(g)) > 5 * Cardinality(Nodes(h))

Coarse ==
  /\ phase = "coarsen" /\ Large(Top) /\ Free = {}
  /\ LET g == Coarsened(Top, pairs)
     IN /\ graphs' = Append(graphs, g) /\ level' = level + 1 /\ pairs' = <<>>
        /\ IF Large(g) /\ Shrunk(Top, g) THEN UNCHANGED <<phase, color, dvalue, growth>>
                                         ELSE StartGrowth(g)
  /\ UNCHANGED <<world, size_p, queue, refine>>

Small ==
  /\ phase = "coarsen" /\ ~Large(Top)
  /\ StartGrowth(Top)
  /\ UNCHANGED <<world, graphs, pairs, level, size_p, queue, refine>>

-----------------------------------------------------------------------------
(* Inital_partition *)

Share(i) == LET n == Cardinality(Nodes(graphs[1]))
            IN n \div world.part + IF i < n % world.part THEN 1 ELSE 0

\* The neighbours of the node that has just joined part i enter the queue or
\* rise in it.  A Dvalue is not reset between parts.
Attract(node, i, colors, q) ==
  LET pull(y, z) == IF colors[z] = i THEN G.wight[{y, z}]
                    ELSE IF colors[z] = -1 THEN -G.wight[{y, z}] ELSE 0
      visit(s, y) ==
        IF colors[y] # -1 THEN s
        ELSE IF y \in ToSet(s.q) THEN [s EXCEPT !.d[y] = @ + 2 * G.wight[{node, y}]]
        ELSE LET d == [s.d EXCEPT ![y] = @ + Total([z \in G.neighber[y] |-> pull(y, z)], G.neighber[y])]
             IN [q |-> Add(s.q, y, d), d |-> d]
  IN FoldLeft(visit, [q |-> q, d |-> dvalue], ByNumber(G.neighber[node]))

\* The queue, or a new one with the first unmarked node when it is empty.
Candidates == IF queue = <<>> THEN <<growth.unmarked[1]>> ELSE queue

Grow ==
  /\ phase = "grow" /\ (queue # <<>> \/ growth.unmarked # <<>>)
  /\ LET node == Head(Candidates)
         i    == growth.i
         rest == Remove(growth.unmarked, node)
         sum  == growth.sum + G.weight[node]
         colors == [color EXCEPT ![node] = i]
         near == Attract(node, i, colors, Polled(Candidates, dvalue))
     IN \/ /\ sum < Share(i)
           /\ color' = colors /\ dvalue' = near.d
           /\ queue' = Stirred(near.q, near.d)
           /\ growth' = [growth EXCEPT !.unmarked = rest, !.sum = sum]
           /\ UNCHANGED <<size_p, phase>>
        \/ /\ sum >= Share(i) /\ i + 1 < world.part - 1
           /\ color' = colors /\ size_p' = size_p @@ (i :> sum)
           /\ queue' = <<>>
           /\ growth' = [i |-> i + 1, sum |-> 0, unmarked |-> rest]
           /\ UNCHANGED <<dvalue, phase>>
        \/ /\ sum >= Share(i) /\ i + 1 = world.part - 1
           /\ color' = [v \in DOMAIN color |-> IF v \in ToSet(rest) THEN i + 1 ELSE colors[v]]
           /\ size_p' = size_p @@ (i :> sum) @@ (i + 1 :> Total(G.weight, ToSet(rest)))
           /\ queue' = <<>> /\ dvalue' = <<>> /\ growth' = NoGrowth
           /\ phase' = "project"
  /\ UNCHANGED <<world, graphs, pairs, level, refine>>

\* unmarkedlist.get(0) of an empty list: the parts before have taken it all.
Exhausted ==
  /\ phase = "grow" /\ queue = <<>> /\ growth.unmarked = <<>>
  /\ phase' = "dead"
  /\ UNCHANGED <<world, graphs, pairs, level, color, size_p, growth, queue, dvalue, refine>>

-----------------------------------------------------------------------------
(* Uncoarsing_phase *)

\* The weights of the edges of v by the part of the other end, and 0 for its
\* own part; then the best other part and what moving there would gain.
Sums(g, v, colors) ==
  [p \in {colors[u] : u \in g.neighber[v]} |->
     LET there == {u \in g.neighber[v] : colors[u] = p}
     IN Total([u \in there |-> g.wight[{u, v}]], there)]
Plus(E, F) == [p \in DOMAIN E \union DOMAIN F |->
                 (IF p \in DOMAIN E THEN E[p] ELSE 0) + (IF p \in DOMAIN F THEN F[p] ELSE 0)]
WithOwn(E, own) == E @@ (own :> 0)
Target(E, own) ==
  LET out == DOMAIN E \ {own}
  IN IF out = {} THEN -1 ELSE Min({p \in out : \A r \in out : E[r] <= E[p]})

\* Faulty variant, used by no specification: the edges to the own part do not
\* count.
GainOutside(E, own) == IF Target(E, own) = -1 THEN MinusInfinity ELSE E[Target(E, own)]

Gain(E, own) == IF Target(E, own) = -1 THEN MinusInfinity ELSE E[Target(E, own)] - E[own]

\* A neighbour stays in the queue while it has an edge to another part; one
\* that has been polled is not touched any more.
StaysBorder(E)      == Cardinality(DOMAIN E) > 1
IsFixed(v, fixed)   == v \in fixed

\* projected_back and getbunderygain.  Level 0 has no neighbours, so no node
\* of it has a target.
Project ==
  /\ phase = "project" /\ level > 0
  /\ LET g    == graphs[level]
         c    == [v \in Nodes(g) |-> color[CHOOSE k \in Nodes(G) : v \in G.matchset[k]]]
         cut  == UNION {e \in DOMAIN g.wight : Cardinality({c[v] : v \in e}) > 1}
         E    == [v \in Nodes(g) |-> IF v \in cut THEN WithOwn(Sums(g, v, c), c[v]) ELSE <<>>]
         border == {v \in cut : Target(E[v], c[v]) # -1}
         D    == [v \in Nodes(g) |-> IF v \in border THEN Gain(E[v], c[v]) ELSE 0]
     IN /\ color' = c /\ dvalue' = D
        /\ queue' = FoldLeft(LAMBDA q, v : Add(q, v, D), <<>>, ByNumber(border))
        /\ refine' = [NoRefine EXCEPT !.E_value = E, !.size = size_p,
                        !.tempcolor = [v \in Nodes(g) |-> IF v \in border THEN Target(E[v], c[v]) ELSE -1]]
  /\ level' = level - 1 /\ phase' = "refine"
  /\ UNCHANGED <<world, graphs, pairs, size_p, growth>>

\* Update_neighber: what the move of node does to its neighbours.  The nodes
\* that are no neighbours are evaluated again too, with the same result.
Update_neighber(node, q, fixed) ==
  LET from == color[node]
      to   == refine.tempcolor[node]
      now  == [z \in Nodes(G) |-> IF z \in fixed THEN refine.tempcolor[z] ELSE color[z]]
      less(E, w, own) == LET left == E[from] - w
                         IN IF left = 0 /\ from # own THEN Restrict(E, DOMAIN E \ {from})
                                                      ELSE [E EXCEPT ![from] = left]
      valued(s, y, E) == [s EXCEPT !.E[y] = E, !.d[y] = Gain(E, color[y]), !.t[y] = Target(E, color[y])]
      visit(s, y) ==
        LET w == G.wight[{node, y}]
            E == IF y \in ToSet(s.q) THEN Plus(less(s.E[y], w, color[y]), to :> w)
                                     ELSE WithOwn(Plus(s.E[y], Sums(G, y, now)), color[y])
        IN IF IsFixed(y, fixed) THEN s
           ELSE IF y \in ToSet(s.q)
                THEN IF StaysBorder(E) THEN valued(s, y, E)
                     ELSE [s EXCEPT !.E[y] = E, !.q = Removed(@, y, s.d)]
           ELSE LET v == valued(s, y, E) IN [v EXCEPT !.q = Add(@, y, v.d)]
  IN FoldLeft(visit, [q |-> q, d |-> dvalue, E |-> refine.E_value, t |-> refine.tempcolor],
              ByNumber(G.neighber[node]))

Refining == phase = "refine" /\ refine.flag <= MaxNugrow /\ queue # <<>>
Fits(v)  == /\ refine.size[color[v]] - G.weight[v] >= minnum
            /\ refine.size[refine.tempcolor[v]] + G.weight[v] <= maxnum

\* The node at the head would break a bound: it is fixed and stays.
Skip ==
  /\ Refining /\ ~Fits(Head(queue))
  /\ queue' = Polled(queue, dvalue)
  /\ refine' = [refine EXCEPT !.isfixed = @ \union {Head(queue)}]
  /\ UNCHANGED <<world, phase, graphs, pairs, level, color, size_p, growth, dvalue>>

\* The node at the head is moved, on trial.
Move ==
  /\ Refining /\ Fits(Head(queue))
  /\ LET node  == Head(queue)
         w     == G.weight[node]
         fixed == refine.isfixed \union {node}
         U     == refine.U_temp + dvalue[node]
         more  == U > refine.U_max
         near  == Update_neighber(node, Polled(queue, dvalue), fixed)
     IN /\ refine' = [refine EXCEPT !.isfixed = fixed, !.Sv = Append(@, node), !.U_temp = U,
                        !.size[color[node]] = @ - w, !.size[refine.tempcolor[node]] = @ + w,
                        !.U_max = IF more THEN U ELSE @,
                        !.K     = IF more THEN Len(refine.Sv) + 1 ELSE @,
                        !.flag  = IF more THEN 0 ELSE @ + 1,
                        !.E_value = near.E, !.tempcolor = near.t]
        /\ dvalue' = near.d
        /\ queue' = Stirred(near.q, near.d)
  /\ UNCHANGED <<world, phase, graphs, pairs, level, color, size_p, growth>>

\* Faulty variant: all moves are made, K are counted.
ExchangeAll ==
  /\ phase = "refine" /\ ~Refining
  /\ LET made(k) == IF refine.U_max > 0 THEN {refine.Sv[j] : j \in 1 .. k} ELSE {}
         step(s, v) == [s EXCEPT ![color[v]] = @ - G.weight[v], ![refine.tempcolor[v]] = @ + G.weight[v]]
     IN /\ color' = [v \in Nodes(G) |-> IF v \in made(Len(refine.Sv)) THEN refine.tempcolor[v] ELSE color[v]]
        /\ size_p' = FoldLeft(step, size_p, ByNumber(made(refine.K)))
  /\ phase' = "project" /\ queue' = <<>> /\ dvalue' = <<>> /\ refine' = NoRefine
  /\ UNCHANGED <<world, graphs, pairs, level, growth>>

\* The first K moves are made if their gain is positive.
Exchange ==
  /\ phase = "refine" /\ ~Refining
  /\ LET made == IF refine.U_max > 0 THEN {refine.Sv[k] : k \in 1 .. refine.K} ELSE {}
         step(s, v) == [s EXCEPT ![color[v]] = @ - G.weight[v], ![refine.tempcolor[v]] = @ + G.weight[v]]
     IN /\ color' = [v \in Nodes(G) |-> IF v \in made THEN refine.tempcolor[v] ELSE color[v]]
        /\ size_p' = FoldLeft(step, size_p, ByNumber(made))
  /\ phase' = "project" /\ queue' = <<>> /\ dvalue' = <<>> /\ refine' = NoRefine
  /\ UNCHANGED <<world, graphs, pairs, level, growth>>

Write ==
  /\ phase = "project" /\ level = 0
  /\ phase' = "done"
  /\ UNCHANGED <<world, graphs, pairs, level, color, size_p, growth, queue, dvalue, refine>>

\* main returns, or ends on the exception.
Finished == phase \in {"done", "dead"} /\ UNCHANGED vars

Next == \/ Merge \/ Coarse \/ Small \/ Grow \/ Exhausted
        \/ Project \/ Skip \/ Move \/ Exchange \/ Write \/ Finished

Spec == Init /\ [][Next]_vars

-----------------------------------------------------------------------------
(* Properties *)

TypeOK ==
  /\ phase \in {"coarsen", "grow", "project", "refine", "done", "dead"}
  /\ level \in 0 .. Len(graphs) - 1 /\ world \in Worlds
  /\ phase = "grow" => color \in [Nodes(G) -> Parts \union {-1}]
  /\ phase \in {"project", "refine", "done"} => color \in [Nodes(G) -> Parts]
  /\ ToSet(queue) \subseteq Nodes(G)
  /\ DOMAIN size_p \subseteq Parts

\* The sizes of the parts, in a map that all levels share and that is only
\* ever changed by differences (Uncoarsing_phase 87-88, 114), are the weights
\* of the nodes that have their color, at every level.
SizesTrue ==
  phase \in {"project", "refine", "done"} =>
    \A p \in Parts : size_p[p] = Total(G.weight, {v \in Nodes(G) : color[v] = p})

\* What is polled can be moved: a node in the queue is not fixed, and it has a
\* part to go to that is not its own (else size_p.get(-1) at line 37 is null),
\* however often neighbours have moved, left the queue and come back.
QueueSound ==
  phase = "refine" =>
    \A v \in ToSet(queue) : /\ v \notin refine.isfixed
                            /\ refine.tempcolor[v] \in Parts \ {color[v]}

\* The state of the division, at every step.
Inv == TypeOK /\ SizesTrue /\ QueueSound

\* Coarsening and projected_back keep the weight between the parts: the cut of
\* a division is the same one level below, so that gains mean the same there.
CutProjected == [][level' < level => Cut(graphs'[level' + 1], color') = Cut(G, color)]_vars

\* "If U_max is positive there is a better solution, exchange" (line 75): the
\* exchange never makes the cut heavier ...
CutNeverRises == [][phase = "refine" /\ phase' = "project" => Cut(G, color') <= Cut(G, color)]_vars

\* ... which holds for two parts, and while every node polled fitted; and it
\* takes no part over a bound, although its moves were tested one by one against
\* trial sizes and only the first K are made: no part is enlarged beyond maxnum
\* or reduced below minnum (line 40).
ExchangeSound ==
  [][phase = "refine" /\ phase' = "project" =>
       /\ world.part = 2 \/ refine.isfixed = ToSet(refine.Sv) => Cut(G, color') <= Cut(G, color)
       /\ \A p \in Parts : /\ size_p'[p] > maxnum => size_p'[p] <= size_p[p]
                           /\ size_p'[p] < minnum => size_p'[p] >= size_p[p]]_vars
=============================================================================
