----------------------------- MODULE MCSupport -----------------------------
(***************************************************************************)
(* Partitioned graphs for DistributedSupport.  Vertex 10 l + n has label l *)
(* and is the n-th of the HashSets.                                        *)
(***************************************************************************)
EXTENDS DistributedSupport

LabelOf(v) == v \div 10
Make(edges, owner, ranks) ==
  [edges |-> edges,
   label |-> [v \in UNION edges |-> LabelOf(v)],
   hash  |-> [v \in UNION edges |-> v % 10],
   own   |-> owner,
   rank  |-> ranks]

\* Copy n of a pattern, and two copies of it with label edge e also across.
Copy(p, n) == {{10 * l + n : l \in e} : e \in p}
Cross(p, e) == Copy(p, 1) \union Copy(p, 2) \union {{10 * a + 1, 10 * b + 2} : <<a, b>> \in {x \in e \X e : x[1] # x[2]}}

Path3 == {{1, 2}, {2, 3}}
Tri   == Path3 \union {{1, 3}}
Path4 == Path3 \union {{3, 4}}
Star  == Path3 \union {{2, 4}}

\* Orders of the patterns, from orders of their edges.  Which of two patterns
\* comes first changes with their size.
Orders(p) == {s \in [p -> 0 .. Cardinality(p) - 1] : \A d, e \in p : d # e => s[d] # s[e]}
RankOf(p, s) == [q \in Down(p) |-> LET n == MapThenSumSet(LAMBDA e : 2 ^ s[e], q)
                                   IN IF Cardinality(q) % 2 = 1 THEN n ELSE 2 ^ Cardinality(p) - n]
Ranks(p) == {RankOf(p, s) : s \in Orders(p)}

One == {1}
Sites2 == {1, 2}
Sites3 == {1, 2, 3}
Sites4 == {1, 2, 3, 4}

\* Every way to give the vertices to sites, the first few being given, that
\* leaves each site an instance of each pair.
Everywhere(p, edges, own, sites) ==
  \A i \in sites, e \in p : \E f \in edges : {LabelOf(v) : v \in f} = e /\ \E v \in f : own[v] = i
Worlds(p, e, first, sites) ==
  LET rest == UNION Cross(p, e) \ DOMAIN first
      owns == {own @@ first : own \in [rest -> sites]}
  IN {Make(Cross(p, e), x[1], x[2]) :
        x \in {own \in owns : Everywhere(p, Cross(p, e), own, sites)} \X Ranks(p)}

FirstSites == (11 :> 1) @@ (12 :> 2) @@ (21 :> 3)
ThreeSites == UNION {Worlds(Tri, e, FirstSites, Sites3) : e \in Tri}
                \union Worlds(Path4, {2, 3}, FirstSites @@ (31 :> 1) @@ (42 :> 2), Sites3)
                \union Worlds(Star, {1, 2}, (11 :> 1) @@ (12 :> 2) @@ (21 :> 3) @@ (31 :> 2), Sites3)

-----------------------------------------------------------------------------
\* A site alone: 12 is the last of its column, and the only neighbour of 22.
SkippedEdges == {{11, 21}, {21, 31}, {12, 21}, {12, 22}, {22, 32}}
Skipped == {Make(SkippedEdges, [v \in UNION SkippedEdges |-> 1], r) : r \in Ranks(Path3)}

\* A cycle of four over four sites, and one at each site.  Sites 1 and 4 find
\* the paths with edge {1, 4}, the path without it only sites 2 and 3.
Cycle4 == Path4 \union {{1, 4}}
CycleFirst == <<{{2, 3}}, {{1, 4}}, {{3, 4}, {1, 4}}, {{1, 4}, {1, 2}}, Path4>>
CycleRank == [q \in Down(Cycle4) |->
                IF q \in Range(CycleFirst) THEN CHOOSE k \in DOMAIN CycleFirst : CycleFirst[k] = q ELSE 9]
CycleEdges == UNION {Copy(Cycle4, n) : n \in 1 .. 5}
ApartCycle == {Make(CycleEdges, [v \in UNION CycleEdges |-> IF v % 10 = 5 THEN LabelOf(v) ELSE v % 10], CycleRank)}

\* Site 1 has 21 - 31 without label 4, and what it knows of the three paths
\* of label 1 is not enough.
GivenUpEdges ==
  {{21, 31}, {13, 22}, {22, 32}, {32, 42},
   {14, 24}, {24, 34}, {34, 44}, {15, 25}, {25, 35}, {35, 45},
   {14, 21}, {15, 21}, {13, 24}}
GivenUp == {Make(GivenUpEdges, [v \in UNION GivenUpEdges |-> IF v % 10 < 4 THEN 1 ELSE 2], r) : r \in Ranks(Path4)}
=============================================================================
