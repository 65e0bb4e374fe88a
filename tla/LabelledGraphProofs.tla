------------------------ MODULE LabelledGraphProofs ------------------------
(***************************************************************************)
(* Facts about labelled graphs that the proofs of the search and of the    *)
(* counter share: what the reference they are measured by is.              *)
(***************************************************************************)
EXTENDS LabelledGraph, FiniteSetTheorems, TLAPS

-----------------------------------------------------------------------------
(* What Embeddings is: placing one node of the query after the other makes   *)
(* the set of all maps of the query into the data graph that keep node       *)
(* labels, edges and edge labels.  Induction is over sets of numbers, from   *)
(* the well-founded order of Nat.                                            *)

(* Numbers.                                                                 *)

LEMMA NatLeast ==
  ASSUME NEW T, T \subseteq Nat, T # {}
  PROVE  \E n \in T : \A m \in T : n <= m
<1>1. IsWellFoundedOn(OpToRel(<, Nat), Nat)
  BY NatLessThanWellFounded
<1>2. PICK x \in T : \A y \in T : ~(<<y, x>> \in OpToRel(<, Nat))
  BY <1>1, WFMin
<1>3. \A y \in T : ~(y < x)
  BY <1>2 DEF OpToRel
<1> QED BY <1>3

\* Induction: a set that has 0 and with each number the next one has them all.
LEMMA NatSteps ==
  ASSUME NEW S, 0 \in S, \A n \in Nat : n \in S => n + 1 \in S
  PROVE  Nat \subseteq S
<1> SUFFICES ASSUME Nat \ S # {} PROVE FALSE
  OBVIOUS
<1>1. PICK n \in Nat \ S : \A m \in Nat \ S : n <= m
  <2> DEFINE T == Nat \ S
  <2>1. T \subseteq Nat /\ T # {}
    OBVIOUS
  <2> HIDE DEF T
  <2>2. \E n \in T : \A m \in T : n <= m
    BY <2>1, NatLeast
  <2> QED BY <2>2 DEF T
<1>2. n # 0 /\ n - 1 \in Nat
  BY <1>1
<1>3. n - 1 \in S
  BY <1>1, <1>2
<1>4. (n - 1) + 1 \in S
  BY <1>3, <1>2
<1>5. (n - 1) + 1 = n
  BY <1>1
<1> QED BY <1>1, <1>4, <1>5

\* A start and a step make a sequence.
IsStep(X, g) == g \in [Nat \X X -> X]
Iterates(X, a, g, f) == f \in [Nat -> X] /\ f[0] = a /\ \A n \in Nat : f[n + 1] = g[<<n, f[n]>>]
LEMMA Recursion ==
  ASSUME NEW X, NEW a \in X, NEW g, IsStep(X, g)
  PROVE  \E f : Iterates(X, a, g, f)
<1> USE DEF IsStep
<1> DEFINE Begins(h, n) == h \in [0 .. n -> X] /\ h[0] = a /\ \A k \in 0 .. n - 1 : h[k + 1] = g[<<k, h[k]>>]
<1>1. \A n \in Nat : \E h : Begins(h, n)
  <2> DEFINE S == {n \in Nat : \E h : Begins(h, n)}
  <2>1. 0 \in S
    <3> DEFINE h == [k \in 0 .. 0 |-> a]
    <3>1. Begins(h, 0)
      OBVIOUS
    <3> HIDE DEF h, Begins
    <3> QED BY <3>1
  <2>2. ASSUME NEW n \in Nat, n \in S PROVE n + 1 \in S
    <3>1. PICK h : Begins(h, n)
      BY <2>2
    <3> DEFINE j == [k \in 0 .. n + 1 |-> IF k <= n THEN h[k] ELSE g[<<n, h[n]>>]]
    <3>2. h[n] \in X /\ g[<<n, h[n]>>] \in X
      BY <3>1
    <3>3. \A k \in 0 .. n + 1 : j[k] \in X
      BY <3>1, <3>2
    <3>4. j \in [0 .. n + 1 -> X] /\ j[0] = a
      BY <3>1, <3>3
    <3>5. ASSUME NEW k \in 0 .. (n + 1) - 1 PROVE j[k + 1] = g[<<k, j[k]>>]
      <4>1. k \in 0 .. n - 1 \/ k = n
        OBVIOUS
      <4>2. CASE k \in 0 .. n - 1
        <5>1. j[k + 1] = h[k + 1] /\ j[k] = h[k]
          BY <4>2
        <5> QED BY <3>1, <4>2, <5>1
      <4>3. CASE k = n
        <5>1. n + 1 \in 0 .. n + 1 /\ ~(n + 1 <= n) /\ n \in 0 .. n + 1 /\ n <= n
          OBVIOUS
        <5>2. j[n + 1] = g[<<n, h[n]>>] /\ j[n] = h[n]
          BY <5>1
        <5> HIDE DEF j
        <5> QED BY <4>3, <5>2
      <4> QED BY <4>1, <4>2, <4>3
    <3> HIDE DEF j
    <3>6. Begins(j, n + 1)
      BY <3>4, <3>5
    <3> HIDE DEF Begins
    <3> QED BY <3>6
  <2> HIDE DEF S
  <2>3. Nat \subseteq S
    BY <2>1, <2>2, NatSteps
  <2> QED BY <2>3 DEF S
<1>2. ASSUME NEW n \in Nat, NEW m \in Nat, n <= m, NEW h, NEW j, Begins(h, n), Begins(j, m)
      PROVE  \A k \in 0 .. n : h[k] = j[k]
  <2> DEFINE S == {k \in Nat : k <= n => h[k] = j[k]}
  <2>1. 0 \in S
    BY <1>2
  <2>2. ASSUME NEW k \in Nat, k \in S PROVE k + 1 \in S
    <3> SUFFICES ASSUME k + 1 <= n PROVE h[k + 1] = j[k + 1]
      OBVIOUS
    <3>1. k \in 0 .. n - 1 /\ k \in 0 .. m - 1 /\ h[k] = j[k]
      BY <1>2, <2>2
    <3> QED BY <1>2, <3>1
  <2> HIDE DEF S
  <2>3. Nat \subseteq S
    BY <2>1, <2>2, NatSteps
  <2> QED BY <2>3 DEF S
<1> DEFINE H(n) == CHOOSE e : Begins(e, n)
           f == [n \in Nat |-> H(n)[n]]
<1>3. \A n \in Nat : Begins(H(n), n)
  <2> HIDE DEF Begins
  <2> QED BY <1>1
<1>4. ASSUME NEW n \in Nat PROVE f[n] \in X
  <2>1. f[n] = H(n)[n] /\ Begins(H(n), n)
    BY <1>3
  <2> HIDE DEF H, f
  <2> QED BY <2>1
<1>5. f[0] = a
  <2>1. f[0] = H(0)[0] /\ Begins(H(0), 0)
    BY <1>3
  <2> HIDE DEF H, f
  <2> QED BY <2>1
<1>6. ASSUME NEW n \in Nat PROVE f[n + 1] = g[<<n, f[n]>>]
  <2>1. f[n] = H(n)[n] /\ f[n + 1] = H(n + 1)[n + 1] /\ Begins(H(n), n) /\ Begins(H(n + 1), n + 1)
    <3> HIDE DEF Begins
    <3> QED BY <1>3
  <2> HIDE DEF H, f
  <2>2. H(n)[n] = H(n + 1)[n]
    <3>1. \A k \in 0 .. n : H(n)[k] = H(n + 1)[k]
      <4> HIDE DEF Begins
      <4> QED BY <1>2, <2>1
    <3> QED BY <3>1
  <2>3. n \in 0 .. (n + 1) - 1
    OBVIOUS
  <2> QED BY <2>1, <2>2, <2>3
<1>7. f \in [Nat -> X]
  <2>1. f = [n \in Nat |-> f[n]]
    OBVIOUS
  <2> HIDE DEF f
  <2> QED BY <1>4, <2>1
<1> HIDE DEF f
<1>8. Iterates(X, a, g, f)
  BY <1>5, <1>6, <1>7 DEF Iterates
<1> QED BY <1>8
-----------------------------------------------------------------------------
(* Placing one node after the other.                                        *)

\* A finite set in an order: each member has its own rank.
Under(S, R, v) == {w \in S : <<w, v>> \in R}
TotalOrder(S, R) ==
  /\ \A v, w, u \in S : <<v, w>> \in R /\ <<w, u>> \in R => <<v, u>> \in R
  /\ \A v \in S : <<v, v>> \notin R
  /\ \A v, w \in S : v # w => <<v, w>> \in R \/ <<w, v>> \in R
ByRank(S, R, vs) ==
  \A k \in 1 .. Cardinality(S) : \A u \in S :
    Cardinality(Under(S, R, u)) = k - 1 => vs[k] \in S /\ Cardinality(Under(S, R, vs[k])) = k - 1

LEMMA RankedBy ==
  ASSUME NEW S, IsFiniteSet(S), NEW R, TotalOrder(S, R), NEW vs, ByRank(S, R, vs)
  PROVE  /\ Cardinality(S) \in Nat
         /\ \A k \in 1 .. Cardinality(S) : vs[k] \in S /\ Cardinality(Under(S, R, vs[k])) = k - 1
         /\ \A i, j \in 1 .. Cardinality(S) : vs[i] = vs[j] => i = j
         /\ \A v \in S : \E k \in 1 .. Cardinality(S) : vs[k] = v
<1> DEFINE Below(v) == Under(S, R, v)
           n == Cardinality(S)
           rank == [v \in S |-> Cardinality(Below(v)) + 1]
<1>1. n \in Nat
  BY FS_CardinalityType
<1>2. ASSUME NEW v \in S PROVE Cardinality(Below(v)) \in Nat /\ Cardinality(Below(v)) < n
  <2>1. Below(v) \subseteq S /\ v \notin Below(v)
    BY DEF Under, TotalOrder
  <2>2. Below(v) # S
    BY <2>1
  <2> HIDE DEF Below
  <2>3. IsFiniteSet(Below(v)) /\ Cardinality(Below(v)) <= n /\ (n = Cardinality(Below(v)) => S = Below(v))
    BY <2>1, FS_Subset
  <2>4. Cardinality(Below(v)) \in Nat
    BY <2>3, FS_CardinalityType
  <2> HIDE DEF n
  <2> QED BY <1>1, <2>2, <2>3, <2>4
<1>3. ASSUME NEW v \in S, NEW w \in S, <<v, w>> \in R PROVE Cardinality(Below(v)) < Cardinality(Below(w))
  <2>0. \A u \in S : <<u, v>> \in R => <<u, w>> \in R
    BY <1>3 DEF TotalOrder
  <2>1. Below(v) \subseteq Below(w) /\ v \in Below(w) /\ v \notin Below(v) /\ Below(w) \subseteq S
    <3>1. Below(v) \subseteq Below(w)
      BY <2>0 DEF Under
    <3>2. v \in Below(w) /\ <<v, v>> \notin R
      BY <1>3 DEF Under, TotalOrder
    <3> QED BY <3>1, <3>2 DEF Under
  <2> HIDE DEF Below
  <2>2. IsFiniteSet(Below(w))
    BY <2>1, FS_Subset
  <2>3. Cardinality(Below(v)) <= Cardinality(Below(w)) /\ Cardinality(Below(v)) # Cardinality(Below(w))
    BY <2>1, <2>2, FS_Subset
  <2> QED BY <1>2, <2>3
<1>4. rank \in [S -> 1 .. n]
  <2>1. \A v \in S : Cardinality(Below(v)) + 1 \in 1 .. n
    <3> HIDE DEF Below, n
    <3> QED BY <1>1, <1>2
  <2> HIDE DEF Below, n
  <2> QED BY <2>1
<1>5. \A v, w \in S : rank[v] = rank[w] => v = w
  <2> SUFFICES ASSUME NEW v \in S, NEW w \in S, v # w PROVE rank[v] # rank[w]
    OBVIOUS
  <2>1. rank[v] = Cardinality(Below(v)) + 1 /\ rank[w] = Cardinality(Below(w)) + 1
    OBVIOUS
  <2>2. <<v, w>> \in R \/ <<w, v>> \in R
    BY DEF TotalOrder
  <2>3. Cardinality(Below(v)) # Cardinality(Below(w))
    <3> HIDE DEF Below
    <3> QED BY <1>2, <1>3, <2>2
  <2> HIDE DEF Below, rank
  <2> QED BY <1>2, <2>1, <2>3
<1>6. \A k \in 1 .. n : \E v \in S : rank[v] = k
  <2> HIDE DEF rank
  <2>1. IsFiniteSet(1 .. n) /\ Cardinality(1 .. n) = n
    <3> HIDE DEF n
    <3> QED BY <1>1, FS_Interval
  <2>2. rank \in Injection(S, 1 .. n)
    BY <1>4, <1>5 DEF Injection, IsInjective
  <2>3. rank \in Surjection(S, 1 .. n)
    BY <2>1, <2>2, FS_Injection
  <2> QED BY <2>3 DEF Surjection
<1>7. ASSUME NEW k \in 1 .. n PROVE vs[k] \in S /\ rank[vs[k]] = k /\ Cardinality(Below(vs[k])) = k - 1
  <2>1. PICK v \in S : rank[v] = k
    BY <1>6
  <2>2. Cardinality(Below(v)) = k - 1
    <3> HIDE DEF Below, n
    <3> QED BY <1>1, <1>2, <2>1
  <2>3. vs[k] \in S /\ Cardinality(Below(vs[k])) = k - 1
    BY <2>2 DEF ByRank
  <2> HIDE DEF Below, n
  <2> QED BY <1>1, <2>3
<1>8. \A i, j \in 1 .. n : vs[i] = vs[j] => i = j
  BY <1>7
<1>9. \A v \in S : \E k \in 1 .. n : vs[k] = v
  <2> SUFFICES ASSUME NEW v \in S PROVE vs[rank[v]] = v /\ rank[v] \in 1 .. n
    OBVIOUS
  <2>1. rank[v] \in 1 .. n
    BY <1>4
  <2> HIDE DEF rank, n
  <2> QED BY <1>5, <1>7, <2>1
<1> HIDE DEF rank
<1> QED BY <1>1, <1>7, <1>8, <1>9

\* A finite set of numbers in its order.
LEMMA Ranked ==
  ASSUME NEW S, S \subseteq Int, IsFiniteSet(S)
  PROVE  /\ Cardinality(S) \in Nat
         /\ \A k \in 1 .. Cardinality(S) : SetToSeqById(S)[k] \in S
         /\ \A i, j \in 1 .. Cardinality(S) : SetToSeqById(S)[i] = SetToSeqById(S)[j] => i = j
         /\ \A v \in S : \E k \in 1 .. Cardinality(S) : SetToSeqById(S)[k] = v
<1> DEFINE Below(v) == {w \in S : w < v}
<1>1. PICK R : R = {p \in S \X S : p[1] < p[2]}
  OBVIOUS
<1>2. \A v, w \in S : <<v, w>> \in R <=> v < w
  BY <1>1
<1>3. PICK vs : vs = SetToSeqById(S)
  OBVIOUS
<1>4. TotalOrder(S, R)
  BY <1>2 DEF TotalOrder
<1>5. \A v \in S : Under(S, R, v) = Below(v)
  BY <1>2 DEF Under
<1>6. ByRank(S, R, vs)
  <2> SUFFICES ASSUME NEW k \in 1 .. Cardinality(S), NEW u \in S, Cardinality(Under(S, R, u)) = k - 1
               PROVE  vs[k] \in S /\ Cardinality(Under(S, R, vs[k])) = k - 1
    BY DEF ByRank
  <2>1. vs[k] = CHOOSE v \in S : Cardinality(Below(v)) = k - 1
    BY <1>3 DEF SetToSeqById
  <2> HIDE DEF Below
  <2>2. vs[k] \in S /\ Cardinality(Below(vs[k])) = k - 1
    BY <1>5, <2>1
  <2> QED BY <1>5, <2>2
<1>7. /\ Cardinality(S) \in Nat
      /\ \A k \in 1 .. Cardinality(S) : vs[k] \in S
      /\ \A i, j \in 1 .. Cardinality(S) : vs[i] = vs[j] => i = j
      /\ \A v \in S : \E k \in 1 .. Cardinality(S) : vs[k] = v
  BY <1>4, <1>6, RankedBy
<1> QED BY <1>3, <1>7

\* All maps of a query into a data graph, and those that place some of its nodes.
Maps(q, g, V) == {m \in [V -> NodesOf(g)] : Embeds(q, g, m)}

\* A placement of one node more.
LEMMA Placing ==
  ASSUME NEW q, NEW g, NEW V, NEW v, v \notin V
  PROVE  Placements(q, g, Maps(q, g, V), v) = Maps(q, g, V \union {v})
<1> DEFINE W == V \union {v}
<1>1. ASSUME NEW m \in Maps(q, g, V), NEW x \in Fitting(q, g, m, v)
      PROVE  Extended(m, v, x) \in Maps(q, g, W)
  <2>1. PICK e : e = Extended(m, v, x)
    OBVIOUS
  <2>2. m \in [V -> NodesOf(g)] /\ Embeds(q, g, m) /\ x \in NodesOf(g)
    BY DEF Maps, Fitting
  <2>3. e \in [W -> NodesOf(g)] /\ e[v] = x /\ \A w \in V : e[w] = m[w]
    BY <2>1, <2>2 DEF Extended
  <2>4. \A w \in W : e[w] \in NodesOf(g) /\ g.label[e[w]] = q.label[w]
    BY <2>2, <2>3 DEF Embeds, Fitting
  <2>5. \A w \in V : m[w] # x
    BY <2>2 DEF Fitting
  <2>6. \A u, w \in W : u # w => e[u] # e[w]
    BY <2>2, <2>3, <2>5 DEF Embeds
  <2>7. ASSUME NEW u \in W, NEW w \in W, {u, w} \in DOMAIN q.edge
        PROVE  Linked(g, e[u], e[w], q.edge[{u, w}])
    <3>1. CASE u \in V /\ w \in V
      BY <2>2, <2>3, <2>7, <3>1 DEF Embeds
    <3>2. CASE u = v /\ w \in V
      BY <2>2, <2>3, <2>7, <3>2 DEF Fitting
    <3>3. CASE u \in V /\ w = v
      <4>1. {u, w} = {v, u}
        BY <3>3
      <4>2. Linked(g, x, m[u], q.edge[{v, u}])
        BY <2>2, <2>7, <3>3, <4>1 DEF Fitting
      <4>3. {x, m[u]} = {m[u], x}
        OBVIOUS
      <4> QED BY <2>3, <3>3, <4>1, <4>2, <4>3 DEF Linked
    <3>4. CASE u = v /\ w = v
      <4>1. {u, w} = {v}
        BY <3>4
      <4>2. Linked(g, x, x, q.edge[{v}])
        BY <2>7, <4>1 DEF Fitting
      <4> QED BY <2>3, <3>4, <4>1, <4>2
    <3> QED BY <3>1, <3>2, <3>3, <3>4
  <2>8. DOMAIN e = W
    BY <2>3
  <2>9. Embeds(q, g, e)
    <3> HIDE DEF W
    <3> QED BY <2>4, <2>6, <2>7, <2>8 DEF Embeds
  <2> QED BY <2>1, <2>3, <2>9 DEF Maps
<1>2. ASSUME NEW e \in Maps(q, g, W)
      PROVE  \E m \in Maps(q, g, V) : \E x \in Fitting(q, g, m, v) : e = Extended(m, v, x)
  <2>1. PICK m : m = [w \in V |-> e[w]]
    OBVIOUS
  <2>2. e \in [W -> NodesOf(g)] /\ Embeds(q, g, e) /\ DOMAIN e = W
    BY DEF Maps
  <2>3. m \in [V -> NodesOf(g)] /\ DOMAIN m = V /\ \A w \in V : m[w] = e[w]
    BY <2>1, <2>2
  <2>4. Embeds(q, g, m)
    BY <2>2, <2>3 DEF Embeds
  <2>5. e[v] \in Fitting(q, g, m, v)
    <3>1. e[v] \in NodesOf(g) /\ g.label[e[v]] = q.label[v]
      BY <2>2 DEF Embeds
    <3>2. \A w \in V : m[w] # e[v]
      BY <2>2, <2>3 DEF Embeds
    <3>3. \A w \in V : {v, w} \in DOMAIN q.edge => Linked(g, e[v], m[w], q.edge[{v, w}])
      BY <2>2, <2>3 DEF Embeds
    <3>4. {v} \in DOMAIN q.edge => Linked(g, e[v], e[v], q.edge[{v}])
      <4>1. {v, v} = {v}
        OBVIOUS
      <4>2. {v, v} \in DOMAIN q.edge => Linked(g, e[v], e[v], q.edge[{v, v}])
        BY <2>2 DEF Embeds
      <4> QED BY <4>1, <4>2
    <3> QED BY <2>3, <3>1, <3>2, <3>3, <3>4 DEF Fitting
  <2>6. e = Extended(m, v, e[v])
    <3>1. DOMAIN m \union {v} = W
      BY <2>3
    <3> QED BY <2>2, <2>3, <3>1 DEF Extended
  <2> QED BY <2>3, <2>4, <2>5, <2>6 DEF Maps
<1> HIDE DEF W
<1>3. Placements(q, g, Maps(q, g, V), v) = Maps(q, g, W)
  BY <1>1, <1>2 DEF Placements
<1> QED BY <1>3 DEF W

\* The sequence of placements that Embeddings goes through.
Places(q, g, vs, f) == f = [n \in Nat |-> IF n = 0 THEN {<<>>} ELSE Placements(q, g, f[n - 1], vs[n])]

LEMMA PlacesExist ==
  ASSUME NEW q, NEW g, NEW vs
  PROVE  \E f : Places(q, g, vs, f)
<1> DEFINE U == {vs[k] : k \in Nat}
           X == SUBSET UNION {[D -> NodesOf(g)] : D \in SUBSET U}
           step == [z \in Nat \X X |-> Placements(q, g, z[2], vs[z[1] + 1])]
<1>1. {<<>>} \in X
  <2>1. <<>> \in [{} -> NodesOf(g)]
    OBVIOUS
  <2> QED BY <2>1
<1>2. ASSUME NEW k \in Nat, NEW M \in X PROVE Placements(q, g, M, vs[k + 1]) \in X
  <2> SUFFICES ASSUME NEW m \in M, NEW x \in Fitting(q, g, m, vs[k + 1])
               PROVE  Extended(m, vs[k + 1], x) \in UNION {[D -> NodesOf(g)] : D \in SUBSET U}
    BY DEF Placements
  <2>1. PICK D \in SUBSET U : m \in [D -> NodesOf(g)]
    OBVIOUS
  <2>2. D \union {vs[k + 1]} \in SUBSET U
    OBVIOUS
  <2>3. x \in NodesOf(g)
    BY DEF Fitting
  <2>4. Extended(m, vs[k + 1], x) \in [D \union {vs[k + 1]} -> NodesOf(g)]
    BY <2>1, <2>3 DEF Extended
  <2> QED BY <2>2, <2>4
<1>3. step \in [Nat \X X -> X]
  <2> HIDE DEF X
  <2> QED BY <1>2
<1>4. PICK f \in [Nat -> X] : f[0] = {<<>>} /\ \A n \in Nat : f[n + 1] = step[<<n, f[n]>>]
  <2> HIDE DEF X, step
  <2>1. IsStep(X, step)
    BY <1>3 DEF IsStep
  <2>2. PICK f : Iterates(X, {<<>>}, step, f)
    BY <1>1, <2>1, Recursion
  <2> QED BY <2>2 DEF Iterates
<1>5. ASSUME NEW n \in Nat, n # 0 PROVE f[n] = Placements(q, g, f[n - 1], vs[n])
  <2>1. n - 1 \in Nat /\ (n - 1) + 1 = n
    BY <1>5
  <2>2. f[n] = step[<<n - 1, f[n - 1]>>] /\ f[n - 1] \in X
    <3> HIDE DEF X, step
    <3> QED BY <1>4, <2>1
  <2>3. <<n - 1, f[n - 1]>> \in Nat \X X
    <3> HIDE DEF X
    <3> QED BY <2>1, <2>2
  <2>4. step[<<n - 1, f[n - 1]>>] = Placements(q, g, f[n - 1], vs[(n - 1) + 1])
    <3> HIDE DEF X
    <3> QED BY <2>3
  <2> QED BY <2>1, <2>2, <2>4
<1> HIDE DEF X, step
<1>6. f = [n \in Nat |-> f[n]]
  BY <1>4
<1>7. Places(q, g, vs, f)
  BY <1>4, <1>5, <1>6 DEF Places
<1> QED BY <1>7

\* Embeddings are all the maps that keep node labels, edges and edge labels.
THEOREM EmbeddingsAre ==
  ASSUME NEW q, NEW g, NodesOf(q) \subseteq Int, IsFiniteSet(NodesOf(q))
  PROVE  Embeddings(q, g) = {m \in [NodesOf(q) -> NodesOf(g)] : Embeds(q, g, m)}
<1> DEFINE n == Cardinality(NodesOf(q))
           vs == SetToSeqById(NodesOf(q))
           V(k) == {vs[i] : i \in 1 .. k}
<1>1. /\ n \in Nat /\ \A i, j \in 1 .. n : vs[i] = vs[j] => i = j
      /\ \A k \in 1 .. n : vs[k] \in NodesOf(q)
      /\ \A v \in NodesOf(q) : \E k \in 1 .. n : vs[k] = v
  BY Ranked
<1>2. PICK f : Places(q, g, vs, f) /\ Embeddings(q, g) = f[n]
  <2>1. PICK f : f = CHOOSE h : Places(q, g, vs, h)
    OBVIOUS
  <2>2. Places(q, g, vs, f)
    BY <2>1, PlacesExist
  <2>3. Embeddings(q, g) = f[n]
    BY <2>1 DEF Embeddings, Places
  <2> QED BY <2>2, <2>3
<1> HIDE DEF n, vs
<1>3. \A k \in Nat : k <= n => f[k] = Maps(q, g, V(k))
  <2> DEFINE S == {k \in Nat : k <= n => f[k] = Maps(q, g, V(k))}
  <2>1. 0 \in S
    <3>1. f[0] = {<<>>}
      BY <1>2 DEF Places
    <3>2. V(0) = {}
      OBVIOUS
    <3>3. Maps(q, g, {}) = {<<>>}
      <4>1. \A m \in [{} -> NodesOf(g)] : m = <<>>
        OBVIOUS
      <4>2. <<>> \in [{} -> NodesOf(g)] /\ Embeds(q, g, <<>>)
        BY DEF Embeds
      <4> QED BY <4>1, <4>2 DEF Maps
    <3> QED BY <3>1, <3>2, <3>3
  <2>2. ASSUME NEW k \in Nat, k \in S PROVE k + 1 \in S
    <3> SUFFICES ASSUME k + 1 <= n PROVE f[k + 1] = Maps(q, g, V(k + 1))
      OBVIOUS
    <3>1. f[k] = Maps(q, g, V(k))
      BY <1>1, <2>2
    <3>2. f[k + 1] = Placements(q, g, f[k], vs[k + 1])
      <4>1. k + 1 \in Nat /\ k + 1 # 0 /\ (k + 1) - 1 = k
        OBVIOUS
      <4>2. f[k + 1] = Placements(q, g, f[(k + 1) - 1], vs[k + 1])
        BY <1>2, <4>1 DEF Places
      <4> QED BY <4>1, <4>2
    <3>3. vs[k + 1] \notin V(k)
      <4>1. \A i \in 1 .. k : i \in 1 .. n /\ i # k + 1 /\ k + 1 \in 1 .. n
        BY <1>1
      <4> QED BY <1>1, <4>1
    <3>4. V(k + 1) = V(k) \union {vs[k + 1]}
      <4>1. \A i \in 1 .. k + 1 : i \in 1 .. k \/ i = k + 1
        OBVIOUS
      <4>2. k + 1 \in 1 .. k + 1 /\ \A i \in 1 .. k : i \in 1 .. k + 1
        OBVIOUS
      <4> QED BY <4>1, <4>2
    <3> HIDE DEF V
    <3> QED BY <3>1, <3>2, <3>3, <3>4, Placing
  <2> HIDE DEF S
  <2>3. Nat \subseteq S
    BY <2>1, <2>2, NatSteps
  <2> QED BY <2>3 DEF S
<1>4. V(n) = NodesOf(q)
  BY <1>1
<1>5. f[n] = Maps(q, g, V(n))
  BY <1>1, <1>3
<1> QED BY <1>2, <1>4, <1>5 DEF Maps
=============================================================================
