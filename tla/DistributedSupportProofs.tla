---------------------- MODULE DistributedSupportProofs ----------------------
(***************************************************************************)
(* Proofs about DistributedSupport, with its invariant IInv: no site       *)
(* misses a neighbour that it needs, the columns and counts are never too  *)
(* large, and the forward counts are those of what the sites have found.   *)
(*                                                                         *)
(* In order: the questions and answers; what a match and a problem are;    *)
(* the patterns the master grows; the columns and the order of a           *)
(* candidate; what a site finds; sums; then, part by part, what a site and *)
(* the master keep of IInv.                                                *)
(***************************************************************************)
EXTENDS DistributedSupport, FiniteSetTheorems, TLAPS

-----------------------------------------------------------------------------
(* Numbers and folds.                                                       *)

LEMMA LeastOf ==
  ASSUME NEW S, S \subseteq Nat, S # {}
  PROVE  \E n \in S : \A m \in S : n <= m
<1>1. IsWellFoundedOn(OpToRel(<, Nat), Nat)
  BY NatLessThanWellFounded
<1>2. PICK n \in S : \A m \in S : ~(<<m, n>> \in OpToRel(<, Nat))
  BY <1>1, WFMin
<1>3. \A m \in S : ~(m < n)
  BY <1>2 DEF OpToRel
<1> QED BY <1>3

\* Induction: a set that has 0 and with each number below n the next one.
LEMMA UpTo ==
  ASSUME NEW n \in Nat, NEW S, 0 \in S, \A k \in 1 .. n : k - 1 \in S => k \in S
  PROVE  0 .. n \subseteq S
<1> DEFINE B == (0 .. n) \ S
<1> SUFFICES ASSUME B # {} PROVE FALSE
  OBVIOUS
<1>1. B \subseteq Nat
  OBVIOUS
<1>2. PICK k \in B : \A j \in B : k <= j
  <2> HIDE DEF B
  <2> QED BY <1>1, LeastOf
<1>3. k \in 1 .. n /\ k - 1 \in 0 .. n /\ k \notin S
  BY <1>2
<1>4. k - 1 \notin B
  BY <1>2, <1>3
<1> QED BY <1>3, <1>4

\* The same for the subsets of a finite set, that lose one element at a time.
LEMMA SubsetSteps ==
  ASSUME NEW D, IsFiniteSet(D), NEW S, {} \in S,
         \A d \in SUBSET D : d # {} => \E x \in d : d \ {x} \in S => d \in S
  PROVE  SUBSET D \subseteq S
<1> DEFINE U == {c \in Nat : \A d \in SUBSET D : Cardinality(d) = c => d \in S}
<1>0. \A d \in SUBSET D : IsFiniteSet(d) /\ Cardinality(d) \in 0 .. Cardinality(D) /\ (Cardinality(d) = 0 <=> d = {})
  <2> SUFFICES ASSUME NEW d \in SUBSET D
               PROVE  IsFiniteSet(d) /\ Cardinality(d) \in 0 .. Cardinality(D) /\ (Cardinality(d) = 0 <=> d = {})
    OBVIOUS
  <2>1. IsFiniteSet(d) /\ Cardinality(d) <= Cardinality(D)
    BY FS_Subset
  <2>2. Cardinality(d) \in Nat /\ Cardinality(D) \in Nat
    BY <2>1, FS_CardinalityType
  <2>3. Cardinality(d) = 0 <=> d = {}
    BY <2>1, FS_EmptySet
  <2> QED BY <2>1, <2>2, <2>3
<1>1. Cardinality(D) \in Nat
  BY FS_CardinalityType
<1>2. 0 \in U
  BY <1>0
<1>3. ASSUME NEW c \in 1 .. Cardinality(D), c - 1 \in U PROVE c \in U
  <2> SUFFICES ASSUME NEW d \in SUBSET D, Cardinality(d) = c PROVE d \in S
    BY <1>1
  <2>1. d # {}
    BY <1>0
  <2>2. PICK x \in d : d \ {x} \in S => d \in S
    BY <2>1
  <2>3. Cardinality(d \ {x}) = c - 1
    BY <1>0, FS_RemoveElement
  <2>4. d \ {x} \in S
    BY <1>3, <2>3
  <2> QED BY <2>2, <2>4
<1> HIDE DEF U
<1>4. 0 .. Cardinality(D) \subseteq U
  BY <1>1, <1>2, <1>3, UpTo
<1> QED BY <1>0, <1>4 DEF U

\* There is a function that folds all subsets, whichever element is last.
Picks(last, D) == \A d \in SUBSET D : d # {} => last[d] \in d
Stays(G, R, D) == \A y \in R, x \in D : G[<<y, x>>] \in R
IsFold(it, D, last, b, G) == it[{}] = b /\ \A d \in SUBSET D : d # {} => it[d] = G[<<it[d \ {last[d]}], last[d]>>]
LEMMA FoldExists ==
  ASSUME NEW D, IsFiniteSet(D), NEW last, Picks(last, D), NEW R, NEW b \in R, NEW G, Stays(G, R, D)
  PROVE  \E it \in [SUBSET D -> R] : IsFold(it, D, last, b, G)
<1> USE DEF Picks, Stays, IsFold
<1> DEFINE Sets(c) == {d \in SUBSET D : Cardinality(d) <= c}
           Folds(h, c) == /\ h \in [Sets(c) -> R] /\ h[{}] = b
                          /\ \A d \in Sets(c) : d # {} => h[d] = G[<<h[d \ {last[d]}], last[d]>>]
           U == {c \in Nat : \E h : Folds(h, c)}
<1>0. \A d \in SUBSET D : IsFiniteSet(d) /\ Cardinality(d) \in Nat /\ Cardinality(d) <= Cardinality(D) /\ (Cardinality(d) = 0 <=> d = {})
  <2> SUFFICES ASSUME NEW d \in SUBSET D
               PROVE  IsFiniteSet(d) /\ Cardinality(d) \in Nat /\ Cardinality(d) <= Cardinality(D) /\ (Cardinality(d) = 0 <=> d = {})
    OBVIOUS
  <2>1. IsFiniteSet(d) /\ Cardinality(d) <= Cardinality(D)
    BY FS_Subset
  <2>2. Cardinality(d) \in Nat
    BY <2>1, FS_CardinalityType
  <2>3. Cardinality(d) = 0 <=> d = {}
    BY <2>1, FS_EmptySet
  <2> QED BY <2>1, <2>2, <2>3
<1>1. Cardinality(D) \in Nat
  BY FS_CardinalityType
<1>2. 0 \in U
  <2> DEFINE h == [d \in {{}} |-> b]
  <2>1. Sets(0) = {{}}
    BY <1>0
  <2>2. Folds(h, 0)
    <3> HIDE DEF Sets
    <3> QED BY <2>1
  <2> HIDE DEF Folds, h
  <2> QED BY <2>2
<1>3. ASSUME NEW c \in 1 .. Cardinality(D), c - 1 \in U PROVE c \in U
  <2>1. PICK h : Folds(h, c - 1)
    BY <1>3
  <2> DEFINE j == [d \in Sets(c) |-> IF d \in Sets(c - 1) THEN h[d] ELSE G[<<h[d \ {last[d]}], last[d]>>]]
  <2>2. ASSUME NEW d \in Sets(c), d # {}
        PROVE  d \ {last[d]} \in Sets(c - 1) /\ last[d] \in D
    <3>1. last[d] \in d /\ d \in SUBSET D /\ Cardinality(d) <= c
      BY <2>2
    <3>2. Cardinality(d \ {last[d]}) = Cardinality(d) - 1
      BY <1>0, <3>1, FS_RemoveElement
    <3> QED BY <1>0, <3>1, <3>2
  <2>3. Sets(c - 1) \subseteq Sets(c) /\ {} \in Sets(c - 1)
    BY <1>0
  <2> HIDE DEF Sets
  <2>4. j[{}] = b
    BY <2>1, <2>3
  <2>5. ASSUME NEW d \in Sets(c), d # {}
        PROVE  j[d] = G[<<j[d \ {last[d]}], last[d]>>]
    <3>1. j[d \ {last[d]}] = h[d \ {last[d]}]
      BY <2>2, <2>3, <2>5
    <3>2. d \in Sets(c - 1) => h[d] = G[<<h[d \ {last[d]}], last[d]>>]
      BY <2>1, <2>5
    <3> QED BY <3>1, <3>2
  <2>6. ASSUME NEW d \in Sets(c) PROVE j[d] \in R
    <3>1. CASE d \in Sets(c - 1)
      BY <3>1, <2>1
    <3>2. CASE d \notin Sets(c - 1)
      <4>1. d # {} /\ d \ {last[d]} \in Sets(c - 1) /\ last[d] \in D
        BY <2>2, <2>3, <3>2
      <4>2. h[d \ {last[d]}] \in R
        BY <2>1, <4>1
      <4> QED BY <3>2, <4>1, <4>2
    <3> QED BY <3>1, <3>2
  <2>7. j \in [Sets(c) -> R]
    BY <2>6
  <2> HIDE DEF j
  <2>8. Folds(j, c)
    BY <2>4, <2>5, <2>7
  <2> HIDE DEF Folds
  <2> QED BY <1>1, <2>8
<1> HIDE DEF U
<1>4. Cardinality(D) \in U
  BY <1>1, <1>2, <1>3, UpTo
<1>5. PICK h : Folds(h, Cardinality(D))
  BY <1>4 DEF U
<1>6. Sets(Cardinality(D)) = SUBSET D
  BY <1>0
<1> HIDE DEF Sets
<1> QED BY <1>5, <1>6

LEMMA MaxIs ==
  ASSUME NEW n \in Nat
  PROVE  /\ IsFiniteSet(1 .. n)
         /\ \A d \in SUBSET (1 .. n) : d # {} => Max(d) \in d
         /\ \A k \in 1 .. n : Max(1 .. k) = k /\ (1 .. k) \ {k} = 1 .. k - 1
<1>1. IsFiniteSet(1 .. n)
  BY FS_Interval
<1>2. ASSUME NEW d \in SUBSET (1 .. n), d # {} PROVE Max(d) \in d
  <2> DEFINE S == {n - x : x \in d}
  <2>0. \A x \in d : x \in 1 .. n /\ n - x \in Nat
    BY <1>2
  <2>1. S \subseteq Nat /\ S # {}
    BY <1>2, <2>0
  <2> HIDE DEF S
  <2>2. PICK m \in S : \A j \in S : m <= j
    BY <2>1, LeastOf
  <2>3. PICK x \in d : m = n - x
    BY <2>2 DEF S
  <2>4. \A y \in d : x >= y
    <3> SUFFICES ASSUME NEW y \in d PROVE x >= y
      OBVIOUS
    <3>1. n - y \in S
      BY DEF S
    <3>2. x \in Int /\ y \in Int
      BY <2>0
    <3> QED BY <2>2, <2>3, <3>1, <3>2
  <2> QED BY <2>4 DEF Max
<1>3. ASSUME NEW k \in 1 .. n PROVE Max(1 .. k) = k
  <2>1. \A x \in 1 .. k : (\A y \in 1 .. k : x >= y) <=> x = k
    OBVIOUS
  <2>2. k \in 1 .. k
    OBVIOUS
  <2> QED BY <2>1, <2>2 DEF Max
<1>4. \A k \in 1 .. n : (1 .. k) \ {k} = 1 .. k - 1
  OBVIOUS
<1> QED BY <1>1, <1>2, <1>3, <1>4

\* Two folds of a sequence are the same if they start and go on alike.
LEMMA SameFold ==
  ASSUME NEW n \in Nat, NEW f, NEW h, f[{}] = h[{}],
         \A d \in SUBSET (1 .. n) : d # {} /\ f[d \ {Max(d)}] = h[d \ {Max(d)}] => f[d] = h[d]
  PROVE  f[1 .. n] = h[1 .. n]
<1> DEFINE S == {d \in SUBSET (1 .. n) : f[d] = h[d]}
<1>1. {} \in S
  OBVIOUS
<1>2. \A d \in SUBSET (1 .. n) : d # {} => Max(d) \in d /\ (d \ {Max(d)} \in S => d \in S)
  <2> SUFFICES ASSUME NEW d \in SUBSET (1 .. n), d # {} PROVE Max(d) \in d /\ (d \ {Max(d)} \in S => d \in S)
    OBVIOUS
  <2> QED BY MaxIs
<1>3. PICK D : D = 1 .. n /\ IsFiniteSet(D)
  BY MaxIs
<1>4. \A d \in SUBSET D : d # {} => \E x \in d : d \ {x} \in S => d \in S
  <2> HIDE DEF S
  <2> QED BY <1>2, <1>3
<1> HIDE DEF S
<1>a. IsFiniteSet(D)
  BY <1>3
<1>5. SUBSET D \subseteq S
  BY <1>1, <1>4, <1>a, SubsetSteps
<1>6. 1 .. n \in S
  BY <1>3, <1>5
<1> QED BY <1>6 DEF S

\* The fold of a sequence of n elements, the step being G in a set R that it
\* does not leave; what holds after k elements is I[k].
LEMMA LeftFold ==
  ASSUME NEW n \in Nat, NEW R, NEW b \in R, NEW G, \A y \in R, k \in 1 .. n : G[<<y, k>>] \in R,
         NEW I, b \in I[0], \A k \in 1 .. n : \A y \in R : y \in I[k - 1] => G[<<y, k>>] \in I[k]
  PROVE  \E it \in [SUBSET (1 .. n) -> R] :
           /\ IsFold(it, 1 .. n, [d \in SUBSET (1 .. n) |-> Max(d)], b, G)
           /\ it[1 .. n] \in I[n]
<1>0. PICK D : D = 1 .. n /\ IsFiniteSet(D)
  BY MaxIs
<1> PICK last : last = [d \in SUBSET D |-> Max(d)]
  OBVIOUS
<1>1. PICK it \in [SUBSET D -> R] : IsFold(it, D, last, b, G)
  <2>1. IsFiniteSet(D)
    BY <1>0
  <2>2. Picks(last, D)
    BY <1>0, MaxIs DEF Picks
  <2>3. Stays(G, R, D)
    BY <1>0 DEF Stays
  <2> QED BY <2>1, <2>2, <2>3, FoldExists
<1> DEFINE S == {k \in Nat : it[1 .. k] \in I[k]}
<1>2. 0 \in S
  <2>1. 1 .. 0 = {}
    OBVIOUS
  <2> QED BY <1>1, <2>1 DEF IsFold
<1>3. ASSUME NEW k \in 1 .. n, k - 1 \in S PROVE k \in S
  <2>1. 1 .. k \in SUBSET (1 .. n) /\ 1 .. k - 1 \in SUBSET (1 .. n) /\ 1 .. k # {}
    <3>1. k \in Nat /\ k <= n /\ k >= 1
      OBVIOUS
    <3>2. \A x \in 1 .. k : x \in 1 .. n
      BY <3>1
    <3>3. \A x \in 1 .. k - 1 : x \in 1 .. n
      BY <3>1
    <3>4. k \in 1 .. k
      BY <3>1
    <3> QED BY <3>2, <3>3, <3>4
  <2>2. last[1 .. k] = k /\ (1 .. k) \ {k} = 1 .. k - 1
    BY <1>0, <2>1, MaxIs
  <2>3. it[1 .. k] = G[<<it[1 .. k - 1], k>>] /\ it[1 .. k - 1] \in R
    <3>1. PICK d, e : d = 1 .. k /\ e = 1 .. k - 1
      OBVIOUS
    <3>2. d \in SUBSET D /\ e \in SUBSET D /\ d # {}
      BY <1>0, <2>1, <3>1
    <3>3. last[d] = k /\ d \ {last[d]} = e
      BY <2>2, <3>1
    <3>4. it[d] = G[<<it[d \ {last[d]}], last[d]>>]
      BY <1>1, <3>2 DEF IsFold
    <3>5. it[d] = G[<<it[e], k>>] /\ it[e] \in R
      BY <3>2, <3>3, <3>4
    <3> QED BY <3>1, <3>5
  <2>4. it[1 .. k - 1] \in I[k - 1]
    BY <1>3
  <2> QED BY <2>3, <2>4
<1> HIDE DEF S
<1>4. n \in S
  BY <1>2, <1>3, UpTo
<1>5. it[1 .. n] \in I[n]
  BY <1>4 DEF S
<1> QED BY <1>0, <1>1, <1>5

-----------------------------------------------------------------------------
(* The order of a HashSet.                                                  *)

\* The places of the vertices of a set differ.
Placed(graph, set) ==
  /\ IsFiniteSet(set) /\ \A v \in set : graph.hash[v] \in Nat
  /\ \A u, v \in set : graph.hash[u] = graph.hash[v] => u = v

LEMMA HashOrder ==
  ASSUME NEW graph, NEW S, Placed(graph, S)
  PROVE  /\ Cardinality(S) \in Nat /\ DOMAIN InHashOrder(graph, S) = 1 .. Cardinality(S)
         /\ \A k \in 1 .. Cardinality(S) : InHashOrder(graph, S)[k] \in S
<1> DEFINE Below(v) == {u \in S : graph.hash[u] < graph.hash[v]}
           n == Cardinality(S)
           rank == [v \in S |-> Cardinality(Below(v)) + 1]
<1>1. n \in Nat
  BY FS_CardinalityType DEF Placed
<1>2. ASSUME NEW v \in S PROVE Cardinality(Below(v)) \in Nat /\ Cardinality(Below(v)) < n
  <2>1. Below(v) \subseteq S /\ v \notin Below(v)
    BY DEF Placed
  <2>2. Below(v) # S
    BY <2>1
  <2> HIDE DEF Below
  <2>3. IsFiniteSet(Below(v)) /\ Cardinality(Below(v)) <= n /\ (n = Cardinality(Below(v)) => S = Below(v))
    BY <2>1, FS_Subset DEF Placed
  <2>4. Cardinality(Below(v)) \in Nat
    BY <2>3, FS_CardinalityType
  <2> HIDE DEF n
  <2> QED BY <1>1, <2>2, <2>3, <2>4
<1>3. ASSUME NEW v \in S, NEW w \in S, graph.hash[v] < graph.hash[w]
      PROVE  Cardinality(Below(v)) < Cardinality(Below(w))
  <2>1. Below(v) \subseteq Below(w) /\ v \in Below(w) /\ v \notin Below(v) /\ Below(w) \subseteq S
    BY <1>3 DEF Placed
  <2> HIDE DEF Below
  <2>2. IsFiniteSet(Below(w))
    BY <2>1, FS_Subset DEF Placed
  <2>3. Cardinality(Below(v)) <= Cardinality(Below(w)) /\ Cardinality(Below(v)) # Cardinality(Below(w))
    BY <2>1, <2>2, FS_Subset
  <2> QED BY <1>2, <2>3
<1>4. rank \in [S -> 1 .. n]
  <2>1. \A v \in S : Cardinality(Below(v)) + 1 \in 1 .. n
    <3> HIDE DEF Below, n
    <3> QED BY <1>1, <1>2
  <2> HIDE DEF Below, n
  <2> QED BY <2>1
<1>5. \A v, w \in S : rank[v] = rank[w] => v = w
  <2> SUFFICES ASSUME NEW v \in S, NEW w \in S, v # w PROVE rank[v] # rank[w]
    OBVIOUS
  <2>1. rank[v] = Cardinality(Below(v)) + 1 /\ rank[w] = Cardinality(Below(w)) + 1
    OBVIOUS
  <2>2. graph.hash[v] < graph.hash[w] \/ graph.hash[w] < graph.hash[v]
    BY DEF Placed
  <2>3. Cardinality(Below(v)) # Cardinality(Below(w))
    <3> HIDE DEF Below
    <3> QED BY <1>2, <1>3, <2>2
  <2> HIDE DEF Below, rank
  <2> QED BY <1>2, <2>1, <2>3
<1>6. \A k \in 1 .. n : \E v \in S : rank[v] = k
  <2> HIDE DEF rank
  <2>1. IsFiniteSet(1 .. n) /\ Cardinality(1 .. n) = n
    <3> HIDE DEF n
    <3> QED BY <1>1, FS_Interval
  <2>2. rank \in Injection(S, 1 .. n)
    BY <1>4, <1>5 DEF Injection, IsInjective
  <2>3. rank \in Surjection(S, 1 .. n)
    BY <2>1, <2>2, FS_Injection DEF Placed
  <2> QED BY <2>3 DEF Surjection
<1>7. ASSUME NEW k \in 1 .. n PROVE InHashOrder(graph, S)[k] \in S
  <2>1. InHashOrder(graph, S)[k] = CHOOSE v \in S : Cardinality(Below(v)) = k - 1
    BY DEF InHashOrder
  <2>2. PICK v \in S : rank[v] = k
    BY <1>6
  <2>3. Cardinality(Below(v)) = k - 1
    <3> HIDE DEF Below, n
    <3> QED BY <1>1, <1>2, <2>2
  <2> HIDE DEF Below, n
  <2> QED BY <2>1, <2>3
<1>8. DOMAIN InHashOrder(graph, S) = 1 .. n
  BY DEF InHashOrder
<1> QED BY <1>1, <1>7, <1>8

-----------------------------------------------------------------------------
(* The forward edges from another label (Getorder).                         *)

\* What Getorder does with an edge, and with all of them in turn.
Reached(list, c)      == {c} \union UNION {ToSet(e) : e \in ToSet(list)}
Taken(list, e, c)     == IF e \notin ToSet(list) /\ ToSet(e) \intersect Reached(list, c) # {} THEN Append(list, e) ELSE list
Pass(list, order, c)  == FoldLeft(LAMBDA l, e : Taken(l, e, c), list, order)

LEMMA GetorderIs ==
  ASSUME NEW order, NEW c
  PROVE  Getorder(order, c) = FoldLeft(LAMBDA list, pass : Pass(list, order, c), <<>>, order)
BY DEF Getorder, Pass, Taken, Reached

LEMMA PairSet ==
  ASSUME NEW A, NEW e \in A \X A
  PROVE  ToSet(e) = {e[1], e[2]} /\ e[1] \in A /\ e[2] \in A /\ e = <<e[1], e[2]>>
<1>1. PICK a, b \in A : e = <<a, b>>
  OBVIOUS
<1>2. DOMAIN <<a, b>> = {1, 2}
  OBVIOUS
<1> QED BY <1>1, <1>2 DEF ToSet

LEMMA Appended ==
  ASSUME NEW B, NEW list \in Seq(B), NEW e \in B
  PROVE  /\ Append(list, e) \in Seq(B) /\ Len(Append(list, e)) = Len(list) + 1 /\ Len(list) \in Nat
         /\ ToSet(Append(list, e)) = ToSet(list) \union {e}
         /\ Append(list, e)[Len(list) + 1] = e
         /\ \A k \in 1 .. Len(list) : Append(list, e)[k] = list[k]
<1>1. DOMAIN list = 1 .. Len(list) /\ DOMAIN Append(list, e) = 1 .. Len(list) + 1 /\ Len(list) \in Nat
  OBVIOUS
<1>2. \A k \in 1 .. Len(list) + 1 : Append(list, e)[k] = IF k = Len(list) + 1 THEN e ELSE list[k]
  OBVIOUS
<1>3. ToSet(Append(list, e)) \subseteq ToSet(list) \union {e}
  <2> SUFFICES ASSUME NEW k \in 1 .. Len(list) + 1 PROVE Append(list, e)[k] \in ToSet(list) \union {e}
    BY <1>1 DEF ToSet
  <2>1. k = Len(list) + 1 \/ k \in 1 .. Len(list)
    BY <1>1
  <2> QED BY <1>1, <1>2, <2>1 DEF ToSet
<1>4. ToSet(list) \union {e} \subseteq ToSet(Append(list, e))
  <2>1. e \in ToSet(Append(list, e))
    <3>1. Len(list) + 1 \in DOMAIN Append(list, e) /\ Append(list, e)[Len(list) + 1] = e
      BY <1>1
    <3> QED BY <3>1 DEF ToSet
  <2>2. ASSUME NEW k \in 1 .. Len(list) PROVE list[k] \in ToSet(Append(list, e))
    <3>1. k \in DOMAIN Append(list, e) /\ Append(list, e)[k] = list[k]
      BY <1>1
    <3> QED BY <3>1 DEF ToSet
  <2> QED BY <1>1, <2>1, <2>2 DEF ToSet
<1> QED BY <1>1, <1>3, <1>4

\* The places of the labels in a tree order: an edge is at the place of the
\* label that it adds.
Place(order, x) == IF x = order[1][1] THEN 0 ELSE CHOOSE j \in 1 .. Len(order) : order[j][2] = x

LEMMA Places ==
  ASSUME NEW A, NEW order \in Seq(A \X A), IsTreeOrder(order)
  PROVE  /\ Len(order) \in Nat \ {0}
         /\ \A k \in 1 .. Len(order) : /\ order[k] \in A \X A /\ order[k] = <<order[k][1], order[k][2]>>
                                        /\ Place(order, order[k][2]) = k /\ Place(order, order[k][1]) \in 0 .. k - 1
                                        /\ order[k][1] \in LabelsOf(order) /\ order[k][2] \in LabelsOf(order)
<1> DEFINE n == Len(order)
<1>1. n \in Nat \ {0} /\ DOMAIN order = 1 .. n /\ \A k \in 1 .. n : order[k] \in A \X A
  BY DEF IsTreeOrder
<1>2. \A k \in 1 .. n : order[k][1] \in A /\ order[k][2] \in A /\ order[k] = <<order[k][1], order[k][2]>>
  BY <1>1, PairSet
<1>3. \A k \in 1 .. n : order[k][1] \in Before(order, k) /\ order[k][2] \notin Before(order, k)
  BY <1>1 DEF IsTreeOrder
<1> HIDE DEF n
<1>4. \A k \in 1 .. n : order[k][2] # order[1][1] /\ \A j \in 1 .. n : order[j][2] = order[k][2] => j = k
  <2> SUFFICES ASSUME NEW k \in 1 .. n
               PROVE  order[k][2] # order[1][1] /\ \A j \in 1 .. n : j < k => order[j][2] # order[k][2]
    <3>1. \A j \in 1 .. n, k \in 1 .. n : j # k => j < k \/ k < j
      BY <1>1
    <3> QED BY <3>1
  <2>1. order[k][2] \notin Before(order, k)
    BY <1>3
  <2> QED BY <1>1, <2>1 DEF Before
<1>5. \A k \in 1 .. n : Place(order, order[k][2]) = k
  BY <1>4 DEF Place, n
<1>6. \A x \in LabelsOf(order) : x = order[1][1] \/ \E j \in 1 .. n : x = order[j][2]
  BY <1>1 DEF LabelsOf, Before, n
<1>7. \A k \in 1 .. n : order[k][1] \in LabelsOf(order) /\ order[k][2] \in LabelsOf(order) /\ Place(order, order[k][1]) \in 0 .. k - 1
  <2> SUFFICES ASSUME NEW k \in 1 .. n
               PROVE  order[k][1] \in LabelsOf(order) /\ order[k][2] \in LabelsOf(order) /\ Place(order, order[k][1]) \in 0 .. k - 1
    OBVIOUS
  <2>1. order[k][2] \in LabelsOf(order)
    BY <1>1 DEF LabelsOf, Before, n
  <2>2. order[k][1] = order[1][1] \/ \E j \in 1 .. k - 1 : order[k][1] = order[j][2]
    BY <1>3 DEF Before
  <2>3. CASE order[k][1] = order[1][1]
    BY <2>1, <2>3, <1>1 DEF Place, LabelsOf, Before
  <2>4. CASE \E j \in 1 .. k - 1 : order[k][1] = order[j][2]
    <3>1. PICK j \in 1 .. k - 1 : order[k][1] = order[j][2]
      BY <2>4
    <3>2. j \in 1 .. n
      BY <1>1
    <3>3. Place(order, order[k][1]) = j
      BY <1>5, <3>1, <3>2
    <3>4. order[j][2] \in LabelsOf(order)
      BY <1>1, <3>2 DEF LabelsOf, Before, n
    <3> QED BY <2>1, <3>1, <3>3, <3>4
  <2> QED BY <2>2, <2>3, <2>4
<1> QED BY <1>1, <1>2, <1>5, <1>7 DEF n

IsPlaced(order, x) ==
  /\ Place(order, x) \in 0 .. Len(order) /\ (Place(order, x) = 0 => x = order[1][1])
  /\ Place(order, x) # 0 => x = order[Place(order, x)][2]
LEMMA PlaceOf ==
  ASSUME NEW A, NEW order \in Seq(A \X A), IsTreeOrder(order), NEW x \in LabelsOf(order)
  PROVE  x \in A /\ IsPlaced(order, x)
<1> USE DEF IsPlaced
<1>1. /\ Len(order) \in Nat \ {0}
      /\ \A k \in 1 .. Len(order) : /\ order[k] \in A \X A /\ order[k] = <<order[k][1], order[k][2]>>
                                     /\ Place(order, order[k][2]) = k
  BY Places
<1>2. \A k \in 1 .. Len(order) : order[k][1] \in A /\ order[k][2] \in A
  BY <1>1
<1>3. x = order[1][1] \/ \E j \in 1 .. Len(order) : x = order[j][2]
  BY <1>1 DEF LabelsOf, Before
<1>4. CASE x = order[1][1]
  BY <1>1, <1>2, <1>4 DEF Place
<1>5. CASE \E j \in 1 .. Len(order) : x = order[j][2]
  <2>1. PICK j \in 1 .. Len(order) : x = order[j][2]
    BY <1>5
  <2>2. Place(order, x) = j
    BY <1>1, <2>1
  <2> QED BY <1>1, <1>2, <2>1, <2>2
<1> QED BY <1>3, <1>4, <1>5

\* What a list reaches before its edge k, and that each edge adds one label.
From(list, k, c)  == {c} \union UNION {ToSet(list[j]) : j \in 1 .. k - 1}
OneEnd(list, k, c) == (list[k][1] \in From(list, k, c)) # (list[k][2] \in From(list, k, c))

\* A list of edges that hang together: of the labels it reaches one is the
\* first in the tree, and the others are there with the edges that add them.
Top(order, list, c, t) ==
  /\ t \in Reached(list, c)
  /\ \A w \in Reached(list, c) : w # t => Place(order, w) > Place(order, t) /\ order[Place(order, w)] \in ToSet(list)
Walk(order, list, c) ==
  /\ ToSet(list) \subseteq ToSet(order) /\ Reached(list, c) \subseteq LabelsOf(order)
  /\ \A k \in 1 .. Len(list) : OneEnd(list, k, c)
  /\ \E t : Top(order, list, c, t)

LEMMA ReachedAll ==
  ASSUME NEW B, NEW list \in Seq(B), NEW c
  PROVE  Len(list) \in Nat /\ From(list, Len(list) + 1, c) = Reached(list, c)
<1>1. DOMAIN list = 1 .. Len(list) /\ Len(list) \in Nat /\ (Len(list) + 1) - 1 = Len(list)
  OBVIOUS
<1>2. {ToSet(list[j]) : j \in 1 .. Len(list)} = {ToSet(e) : e \in ToSet(list)}
  <2>1. ToSet(list) = {list[j] : j \in 1 .. Len(list)}
    BY <1>1 DEF ToSet
  <2> QED BY <2>1
<1> QED BY <1>1, <1>2 DEF From, Reached

LEMMA TakenStays ==
  ASSUME NEW A, NEW order \in Seq(A \X A), IsTreeOrder(order), NEW c,
         NEW list \in Seq(A \X A), Walk(order, list, c), NEW i \in 1 .. Len(order)
  PROVE  /\ Taken(list, order[i], c) \in Seq(A \X A) /\ Walk(order, Taken(list, order[i], c), c)
         /\ ToSet(list) \subseteq ToSet(Taken(list, order[i], c))
         /\ ToSet(order[i]) \intersect Reached(list, c) # {} => order[i] \in ToSet(Taken(list, order[i], c))
<1> DEFINE e == order[i]
<1>1. CASE e \in ToSet(list) \/ ToSet(e) \intersect Reached(list, c) = {}
  BY <1>1 DEF Taken
<1>2. CASE e \notin ToSet(list) /\ ToSet(e) \intersect Reached(list, c) # {}
  <2> DEFINE l == Append(list, e)
  <2>1. Taken(list, order[i], c) = l
    BY <1>2 DEF Taken
  <2>2. PICK a, b : a = e[1] /\ b = e[2]
    OBVIOUS
  <2>3. /\ e \in A \X A /\ e = <<a, b>> /\ Place(order, b) = i /\ Place(order, a) \in 0 .. i - 1
        /\ a \in LabelsOf(order) /\ b \in LabelsOf(order) /\ Len(order) \in Nat
        /\ \A x \in LabelsOf(order) : Place(order, x) \in Nat
    <3>1. /\ order[i] \in A \X A /\ order[i] = <<order[i][1], order[i][2]>>
          /\ Place(order, order[i][2]) = i /\ Place(order, order[i][1]) \in 0 .. i - 1
          /\ order[i][1] \in LabelsOf(order) /\ order[i][2] \in LabelsOf(order)
      BY Places
    <3>2. \A x \in LabelsOf(order) : IsPlaced(order, x)
      BY PlaceOf
    <3>3. Len(order) \in Nat /\ \A x \in LabelsOf(order) : Place(order, x) \in Nat
      BY <3>2 DEF IsPlaced
    <3> QED BY <2>2, <3>1, <3>3
  <2>4. ToSet(e) = {a, b}
    BY <2>2, <2>3, PairSet
  <2>e. e \in ToSet(order)
    BY DEF ToSet
  <2> HIDE DEF e
  <2>5. /\ l \in Seq(A \X A) /\ Len(l) = Len(list) + 1 /\ Len(list) \in Nat /\ ToSet(l) = ToSet(list) \union {e}
        /\ l[Len(list) + 1] = e /\ \A k \in 1 .. Len(list) : l[k] = list[k]
    <3>1. PICK B : B = A \X A
      OBVIOUS
    <3>2. list \in Seq(B) /\ e \in B
      BY <2>3, <3>1
    <3>3. /\ l \in Seq(B) /\ Len(l) = Len(list) + 1 /\ Len(list) \in Nat /\ ToSet(l) = ToSet(list) \union {e}
          /\ l[Len(list) + 1] = e /\ \A k \in 1 .. Len(list) : l[k] = list[k]
      BY <3>2, Appended
    <3> QED BY <3>1, <3>3
  <2> HIDE DEF l
  <2>6. Reached(l, c) = Reached(list, c) \union {a, b}
    <3>1. {ToSet(f) : f \in ToSet(l)} = {ToSet(f) : f \in ToSet(list)} \union {{a, b}}
      BY <2>4, <2>5
    <3> QED BY <3>1 DEF Reached
  <2>7. PICK t : Top(order, list, c, t)
    BY DEF Walk
  <2>8. Reached(list, c) \subseteq LabelsOf(order)
    BY DEF Walk
  <2>9. \E s : Top(order, l, c, s) /\ (a \in Reached(list, c)) # (b \in Reached(list, c))
    <3>1. CASE b \in Reached(list, c)
      <4>1. b = t
        <5> SUFFICES ASSUME b # t PROVE FALSE
          OBVIOUS
        <5>1. order[Place(order, b)] \in ToSet(list)
          BY <2>7, <3>1 DEF Top
        <5>2. e \in ToSet(list)
          BY <2>3, <5>1 DEF e
        <5> HIDE DEF e
        <5> QED BY <1>2, <5>2
      <4>2. \A w \in Reached(list, c) : Place(order, w) > Place(order, a)
        <5>1. Place(order, b) = i /\ Place(order, a) \in 0 .. i - 1 /\ i \in Nat
          BY <2>3
        <5>2. Place(order, a) < i /\ Place(order, a) \in Int
          BY <5>1
        <5> HIDE DEF e
        <5> SUFFICES ASSUME NEW w \in Reached(list, c) PROVE Place(order, w) > Place(order, a)
          OBVIOUS
        <5>3. Place(order, w) \in Nat /\ (w = b \/ Place(order, w) > Place(order, b))
          BY <2>3, <2>7, <2>8, <4>1 DEF Top
        <5> QED BY <5>1, <5>2, <5>3
      <4>3. a \notin Reached(list, c)
        BY <2>3, <4>2
      <4>4. order[Place(order, b)] \in ToSet(l)
        BY <2>3, <2>5 DEF e
      <4>5. Top(order, l, c, a)
        BY <2>5, <2>6, <2>7, <3>1, <4>1, <4>2, <4>4 DEF Top
      <4> QED BY <3>1, <4>3, <4>5
    <3>2. CASE b \notin Reached(list, c)
      <4>1. a \in Reached(list, c)
        BY <1>2, <2>4, <3>2
      <4>2. Place(order, a) >= Place(order, t)
        <5>1. a = t \/ Place(order, a) > Place(order, t)
          BY <2>7, <4>1 DEF Top
        <5>2. Place(order, a) \in Nat /\ Place(order, t) \in Nat
          BY <2>3, <2>7, <2>8 DEF Top
        <5> QED BY <5>1, <5>2
      <4>3. Place(order, b) > Place(order, t) /\ order[Place(order, b)] \in ToSet(l)
        <5>1. Place(order, t) \in Nat
          BY <2>3, <2>7, <2>8 DEF Top
        <5> QED BY <2>3, <2>5, <4>2, <5>1 DEF e
      <4>4. Top(order, l, c, t)
        BY <2>5, <2>6, <2>7, <4>1, <4>3 DEF Top
      <4> QED BY <3>2, <4>1, <4>4
    <3> QED BY <3>1, <3>2
  <2>10. ASSUME NEW k \in 1 .. Len(l) PROVE OneEnd(l, k, c)
    <3>1. From(l, k, c) = From(list, k, c)
      <4>1. \A j \in 1 .. k - 1 : l[j] = list[j]
        BY <2>5
      <4>2. {ToSet(l[j]) : j \in 1 .. k - 1} = {ToSet(list[j]) : j \in 1 .. k - 1}
        BY <4>1
      <4> QED BY <4>2 DEF From
    <3>2. CASE k \in 1 .. Len(list)
      BY <2>5, <3>1, <3>2 DEF OneEnd, Walk
    <3>3. CASE k = Len(list) + 1
      <4>1. From(list, k, c) = Reached(list, c)
        BY <3>3, ReachedAll
      <4>2. l[k] = e
        BY <2>5, <3>3
      <4> QED BY <2>2, <2>9, <3>1, <4>1, <4>2 DEF OneEnd
    <3> QED BY <2>5, <3>2, <3>3
  <2>11. Walk(order, l, c)
    <3>1. ToSet(l) \subseteq ToSet(order) /\ Reached(l, c) \subseteq LabelsOf(order)
      BY <2>3, <2>5, <2>6, <2>e DEF Walk
    <3> QED BY <2>9, <2>10, <3>1 DEF Walk
  <2> QED BY <2>1, <2>5, <2>11 DEF e
<1> QED BY <1>1, <1>2

\* As long as an edge is missing, one that the list reaches is.
LEMMA OneMissing ==
  ASSUME NEW A, NEW order \in Seq(A \X A), IsTreeOrder(order), NEW c,
         NEW list \in Seq(A \X A), Walk(order, list, c), ToSet(list) # ToSet(order)
  PROVE  \E i \in 1 .. Len(order) : order[i] \notin ToSet(list) /\ ToSet(order[i]) \intersect Reached(list, c) # {}
<1>1. PICK t : Top(order, list, c, t)
  BY DEF Walk
<1>2. t \in LabelsOf(order) /\ t \in Reached(list, c) /\ Reached(list, c) \subseteq LabelsOf(order)
  BY <1>1 DEF Walk, Top
<1>3. Len(order) \in Nat /\ DOMAIN order = 1 .. Len(order) /\ \A k \in 1 .. Len(order) : ToSet(order[k]) = {order[k][1], order[k][2]}
  BY PairSet
<1>4. ASSUME NEW f \in ToSet(list), NEW x \in ToSet(f) PROVE x \in Reached(list, c)
  BY DEF Reached
<1>a. /\ Place(order, t) \in 0 .. Len(order) /\ (Place(order, t) = 0 => t = order[1][1])
      /\ Place(order, t) # 0 => t = order[Place(order, t)][2]
  <2>1. t \in LabelsOf(order)
    BY <1>2
  <2>2. IsPlaced(order, t)
    BY <2>1, PlaceOf
  <2> QED BY <2>2 DEF IsPlaced
<1>5. CASE Place(order, t) # 0
  <2>0. Place(order, t) \in 0 .. Len(order) /\ t = order[Place(order, t)][2]
    BY <1>a, <1>5
  <2>1. PICK i \in 1 .. Len(order) : i = Place(order, t)
    BY <1>3, <1>5, <2>0
  <2>4. Place(order, order[i][1]) \in 0 .. i - 1
    BY Places
  <2>2. t = order[i][2] /\ Place(order, order[i][1]) \in 0 .. i - 1
    BY <2>0, <2>1, <2>4
  <2>3. ASSUME order[i] \in ToSet(list) PROVE FALSE
    <3>1. order[i][1] \in Reached(list, c)
      BY <1>3, <1>4, <2>3
    <3>2. order[i][1] = t \/ Place(order, order[i][1]) > Place(order, t)
      BY <1>1, <3>1 DEF Top
    <3> QED BY <2>1, <2>2, <3>2
  <2> QED BY <1>2, <1>3, <2>2, <2>3
<1>6. CASE Place(order, t) = 0
  <2> DEFINE S == {i \in 1 .. Len(order) : order[i] \notin ToSet(list)}
  <2>1. S # {}
    <3>1. PICK f \in ToSet(order) : f \notin ToSet(list)
      BY DEF Walk
    <3> QED BY <1>3, <3>1 DEF ToSet
  <2>2. S \subseteq Nat
    BY <1>3
  <2> HIDE DEF S
  <2>3. PICK i \in S : \A j \in S : i <= j
    BY <2>1, <2>2, LeastOf
  <2>4. i \in 1 .. Len(order) /\ order[i] \notin ToSet(list) /\ \A j \in 1 .. i - 1 : order[j] \in ToSet(list)
    BY <1>3, <2>3 DEF S
  <2>5. order[i][1] \in Before(order, i)
    BY <1>3, <2>4 DEF IsTreeOrder
  <2>6. order[1][1] \in Reached(list, c)
    BY <1>2, <1>6, <1>a
  <2>7. order[i][1] \in Reached(list, c)
    <3>1. ASSUME NEW j \in 1 .. i - 1 PROVE order[j][2] \in Reached(list, c)
      <4>1. order[j] \in ToSet(list) /\ order[j][2] \in ToSet(order[j])
        BY <1>3, <2>4
      <4> QED BY <1>4, <4>1
    <3> QED BY <2>5, <2>6, <3>1 DEF Before
  <2> QED BY <1>3, <2>4, <2>7
<1> QED BY <1>5, <1>6

\* A pass takes every edge that the list already reaches.
Prolonged(A, order, c, list) == {l \in Seq(A \X A) : Walk(order, l, c) /\ ToSet(list) \subseteq ToSet(l)}
Passed(order, c, list, l, k) ==
  \A i \in 1 .. k : order[i] \in ToSet(l) \/ ToSet(order[i]) \intersect Reached(list, c) = {}
LEMMA PassTakes ==
  ASSUME NEW A, NEW order \in Seq(A \X A), IsTreeOrder(order), NEW c,
         NEW list \in Seq(A \X A), Walk(order, list, c)
  PROVE  Pass(list, order, c) \in Prolonged(A, order, c, list) /\ Passed(order, c, list, Pass(list, order, c), Len(order))
<1> DEFINE n == Len(order)
           R == Prolonged(A, order, c, list)
           G == [p \in R \X (1 .. n) |-> Taken(p[1], order[p[2]], c)]
           I == [k \in 0 .. n |-> {l \in R : Passed(order, c, list, l, k)}]
           Eq(it) == it = [d \in SUBSET (1 .. n) |->
                             IF d = {} THEN list ELSE Taken(it[d \ {Max(d)}], order[Max(d)], c)]
<1>1. n \in Nat /\ DOMAIN order = 1 .. n
  OBVIOUS
<1>2. Pass(list, order, c) = (CHOOSE it : Eq(it))[1 .. n]
  BY <1>1 DEF Pass, FoldLeft, MapThenFoldSet
<1>3. list \in R /\ list \in I[0]
  <2>1. 0 \in 0 .. n
    OBVIOUS
  <2> QED BY <2>1 DEF Prolonged, Passed
<1>4. ASSUME NEW y \in R, NEW k \in 1 .. n
      PROVE  G[<<y, k>>] \in R /\ (y \in I[k - 1] => G[<<y, k>>] \in I[k])
  <2> DEFINE t == Taken(y, order[k], c)
  <2>1. G[<<y, k>>] = t
    <3> HIDE DEF R
    <3> QED OBVIOUS
  <2>2. y \in Seq(A \X A) /\ Walk(order, y, c) /\ ToSet(list) \subseteq ToSet(y)
    BY DEF Prolonged
  <2>3. /\ t \in Seq(A \X A) /\ Walk(order, t, c) /\ ToSet(y) \subseteq ToSet(t)
        /\ ToSet(order[k]) \intersect Reached(y, c) # {} => order[k] \in ToSet(t)
    BY <2>2, TakenStays
  <2>4. Reached(list, c) \subseteq Reached(y, c)
    BY <2>2 DEF Reached
  <2> HIDE DEF t
  <2>5. t \in R
    BY <2>2, <2>3 DEF Prolonged
  <2>6. k \in 0 .. n /\ k - 1 \in 0 .. n /\ \A i \in 1 .. k : i = k \/ i \in 1 .. k - 1
    BY <1>1
  <2>7. Passed(order, c, list, y, k - 1) => Passed(order, c, list, t, k)
    BY <2>3, <2>4, <2>6 DEF Passed
  <2> HIDE DEF G, R, n
  <2> QED BY <2>1, <2>5, <2>6, <2>7
<1> HIDE DEF R, I
<1>5. PICK it \in [SUBSET (1 .. n) -> R] :
        IsFold(it, 1 .. n, [d \in SUBSET (1 .. n) |-> Max(d)], list, G) /\ it[1 .. n] \in I[n]
  <2> HIDE DEF G, n
  <2> QED BY <1>1, <1>3, <1>4, LeftFold
<1>6. Eq(it)
  <2>1. \A d \in SUBSET (1 .. n) : d # {} =>
          Max(d) \in 1 .. n /\ d \ {Max(d)} \in SUBSET (1 .. n) /\ it[d] = Taken(it[d \ {Max(d)}], order[Max(d)], c)
    <3> SUFFICES ASSUME NEW d \in SUBSET (1 .. n), d # {}
                 PROVE  /\ Max(d) \in 1 .. n /\ d \ {Max(d)} \in SUBSET (1 .. n)
                        /\ it[d] = Taken(it[d \ {Max(d)}], order[Max(d)], c)
      OBVIOUS
    <3>1. Max(d) \in 1 .. n /\ d \ {Max(d)} \in SUBSET (1 .. n)
      BY <1>1, MaxIs
    <3>2. it[d] = G[<<it[d \ {Max(d)}], Max(d)>>]
      <4> HIDE DEF G, n
      <4> QED BY <1>5 DEF IsFold
    <3>3. it[d \ {Max(d)}] \in R
      BY <1>5, <3>1
    <3> QED BY <3>1, <3>2, <3>3
  <2>2. it[{}] = list
    BY <1>5 DEF IsFold
  <2> HIDE DEF n
  <2> QED BY <1>5, <2>1, <2>2
<1>7. PICK f : f = (CHOOSE h : Eq(h))
  OBVIOUS
<1>8. Eq(f)
  <2> HIDE DEF Eq
  <2> QED BY <1>6, <1>7
<1>9. f[1 .. n] = it[1 .. n]
  <2>1. f[{}] = it[{}]
    BY <1>6, <1>8
  <2>2. \A d \in SUBSET (1 .. n) : d # {} /\ f[d \ {Max(d)}] = it[d \ {Max(d)}] => f[d] = it[d]
    BY <1>6, <1>8
  <2> HIDE DEF Eq, n
  <2> QED BY <1>1, <2>1, <2>2, SameFold
<1>10. Pass(list, order, c) = it[1 .. n]
  BY <1>2, <1>7, <1>9
<1>11. it[1 .. n] \in R /\ n \in 0 .. n
  <2> HIDE DEF n, G, Eq
  <2>1. 1 .. n \in SUBSET (1 .. n) /\ n \in 0 .. n
    BY <1>1
  <2> QED BY <1>5, <2>1
<1> QED BY <1>5, <1>10, <1>11 DEF R, I

\* As many passes as there are edges reach all of them.
Held(order, list) == {i \in 1 .. Len(order) : order[i] \in ToSet(list)}
OrderedBy(A, order, c, list) ==
  list \in Seq(A \X A) /\ Walk(order, list, c) /\ ToSet(list) = ToSet(order) /\ Reached(list, c) = LabelsOf(order)

LEMMA HeldIs ==
  ASSUME NEW order, Len(order) \in Nat, DOMAIN order = 1 .. Len(order), NEW list
  PROVE  /\ IsFiniteSet(Held(order, list)) /\ Cardinality(Held(order, list)) \in Nat
         /\ Cardinality(Held(order, list)) >= Len(order) => ToSet(order) \subseteq ToSet(list)
<1> DEFINE n == Len(order)
<1>1. IsFiniteSet(1 .. n) /\ Cardinality(1 .. n) = n
  <2> HIDE DEF n
  <2>1. n \in Nat
    BY DEF n
  <2>2. IsFiniteSet(1 .. n) /\ Cardinality(1 .. n) = IF 1 > n THEN 0 ELSE n - 1 + 1
    BY <2>1, FS_Interval
  <2> QED BY <2>1, <2>2
<1>2. \A l : Held(order, l) \subseteq 1 .. n
  BY DEF Held
<1>3. \A l : /\ IsFiniteSet(Held(order, l)) /\ Cardinality(Held(order, l)) \in Nat
             /\ Cardinality(Held(order, l)) <= n /\ (Cardinality(Held(order, l)) = n => Held(order, l) = 1 .. n)
  BY <1>1, <1>2, FS_Subset, FS_CardinalityType
<1>4. Cardinality(Held(order, list)) >= n => ToSet(order) \subseteq ToSet(list)
  <2> SUFFICES ASSUME Cardinality(Held(order, list)) >= n PROVE ToSet(order) \subseteq ToSet(list)
    OBVIOUS
  <2>1. Held(order, list) = 1 .. n
    BY <1>3
  <2> QED BY <2>1 DEF ToSet, Held
<1> QED BY <1>3, <1>4

LEMMA HeldMore ==
  ASSUME NEW order, Len(order) \in Nat, DOMAIN order = 1 .. Len(order), NEW list, NEW l, ToSet(list) \subseteq ToSet(l),
         NEW i \in 1 .. Len(order), order[i] \notin ToSet(list), order[i] \in ToSet(l)
  PROVE  Cardinality(Held(order, l)) > Cardinality(Held(order, list))
<1>1. Held(order, list) \subseteq Held(order, l) /\ Held(order, list) # Held(order, l)
  BY DEF Held
<1>2. /\ IsFiniteSet(Held(order, l)) /\ Cardinality(Held(order, l)) \in Nat /\ Cardinality(Held(order, list)) \in Nat
  BY HeldIs
<1>3. Cardinality(Held(order, list)) <= Cardinality(Held(order, l)) /\ Cardinality(Held(order, list)) # Cardinality(Held(order, l))
  BY <1>1, <1>2, FS_Subset
<1> QED BY <1>2, <1>3

LEMMA OrderFrom ==
  ASSUME NEW A, NEW order \in Seq(A \X A), IsTreeOrder(order), NEW c \in LabelsOf(order)
  PROVE  OrderedBy(A, order, c, Getorder(order, c))
<1> DEFINE n == Len(order)
           R == {l \in Seq(A \X A) : Walk(order, l, c)}
           G == [p \in R \X (1 .. n) |-> Pass(p[1], order, c)]
           I == [k \in 0 .. n |-> {l \in R : ToSet(l) = ToSet(order) \/ Cardinality(Held(order, l)) >= k}]
           Eq(it) == it = [d \in SUBSET (1 .. n) |-> IF d = {} THEN <<>> ELSE Pass(it[d \ {Max(d)}], order, c)]
<1>1. n \in Nat /\ DOMAIN order = 1 .. n
  OBVIOUS
<1>2. Getorder(order, c) = (CHOOSE it : Eq(it))[1 .. n]
  <2>1. FoldLeft(LAMBDA list, pass : Pass(list, order, c), <<>>, order) = (CHOOSE it : Eq(it))[1 .. n]
    BY <1>1 DEF FoldLeft, MapThenFoldSet
  <2> QED BY <2>1, GetorderIs
<1>3. <<>> \in R /\ <<>> \in I[0]
  <2>1. /\ Len(<<>>) = 0 /\ ToSet(<<>>) = {} /\ <<>> \in Seq(A \X A)
    BY DEF ToSet
  <2>2. Reached(<<>>, c) = {c}
    BY <2>1 DEF Reached
  <2>3. Top(order, <<>>, c, c)
    BY <2>2 DEF Top
  <2>4. Walk(order, <<>>, c)
    BY <2>1, <2>2, <2>3 DEF Walk
  <2>5. 0 \in 0 .. n /\ Cardinality(Held(order, <<>>)) >= 0
    BY <1>1, HeldIs
  <2> QED BY <2>1, <2>4, <2>5
<1>4. ASSUME NEW y \in R, NEW k \in 1 .. n
      PROVE  G[<<y, k>>] \in R /\ (y \in I[k - 1] => G[<<y, k>>] \in I[k])
  <2> DEFINE t == Pass(y, order, c)
  <2>1. G[<<y, k>>] = t
    <3> HIDE DEF R
    <3> QED OBVIOUS
  <2>2. t \in Prolonged(A, order, c, y) /\ Passed(order, c, y, t, n)
    BY PassTakes
  <2> HIDE DEF t
  <2>3. t \in R /\ ToSet(y) \subseteq ToSet(t)
    BY <2>2 DEF Prolonged
  <2>4. k \in 0 .. n /\ k - 1 \in 0 .. n
    BY <1>1
  <2>5. CASE ToSet(y) = ToSet(order)
    <3>1. ToSet(t) = ToSet(order)
      BY <2>3, <2>5 DEF Walk
    <3> HIDE DEF G
    <3> QED BY <2>1, <2>3, <2>4, <3>1
  <2>6. CASE ToSet(y) # ToSet(order)
    <3>1. PICK i \in 1 .. n : order[i] \notin ToSet(y) /\ ToSet(order[i]) \intersect Reached(y, c) # {}
      BY <2>6, OneMissing
    <3>2. order[i] \in ToSet(t)
      BY <2>2, <3>1 DEF Passed
    <3>3. Cardinality(Held(order, t)) > Cardinality(Held(order, y)) /\ Cardinality(Held(order, t)) \in Nat /\ Cardinality(Held(order, y)) \in Nat
      <4>1. Cardinality(Held(order, t)) \in Nat /\ Cardinality(Held(order, y)) \in Nat
        BY <1>1, HeldIs
      <4> QED BY <1>1, <2>3, <3>1, <3>2, <4>1, HeldMore
    <3>4. y \in I[k - 1] => Cardinality(Held(order, y)) >= k - 1
      BY <2>4, <2>6
    <3>5. Cardinality(Held(order, y)) >= k - 1 => Cardinality(Held(order, t)) >= k
      BY <1>1, <3>3
    <3> HIDE DEF G
    <3> QED BY <2>1, <2>3, <2>4, <3>4, <3>5
  <2> QED BY <2>5, <2>6
<1> HIDE DEF R, I
<1>5. PICK it \in [SUBSET (1 .. n) -> R] :
        IsFold(it, 1 .. n, [d \in SUBSET (1 .. n) |-> Max(d)], <<>>, G) /\ it[1 .. n] \in I[n]
  <2> HIDE DEF G, n
  <2> QED BY <1>1, <1>3, <1>4, LeftFold
<1>6. Eq(it)
  <2>1. \A d \in SUBSET (1 .. n) : d # {} =>
          Max(d) \in 1 .. n /\ d \ {Max(d)} \in SUBSET (1 .. n) /\ it[d] = Pass(it[d \ {Max(d)}], order, c)
    <3> SUFFICES ASSUME NEW d \in SUBSET (1 .. n), d # {}
                 PROVE  /\ Max(d) \in 1 .. n /\ d \ {Max(d)} \in SUBSET (1 .. n)
                        /\ it[d] = Pass(it[d \ {Max(d)}], order, c)
      OBVIOUS
    <3>1. Max(d) \in 1 .. n /\ d \ {Max(d)} \in SUBSET (1 .. n)
      BY <1>1, MaxIs
    <3>2. it[d] = G[<<it[d \ {Max(d)}], Max(d)>>]
      <4> HIDE DEF G, n
      <4> QED BY <1>5 DEF IsFold
    <3>3. it[d \ {Max(d)}] \in R
      BY <1>5, <3>1
    <3> QED BY <3>1, <3>2, <3>3
  <2>2. it[{}] = <<>>
    BY <1>5 DEF IsFold
  <2> HIDE DEF n
  <2> QED BY <1>5, <2>1, <2>2
<1>7. PICK f : f = (CHOOSE h : Eq(h))
  OBVIOUS
<1>8. Eq(f)
  <2> HIDE DEF Eq
  <2> QED BY <1>6, <1>7
<1>9. f[1 .. n] = it[1 .. n]
  <2>1. f[{}] = it[{}]
    BY <1>6, <1>8
  <2>2. \A d \in SUBSET (1 .. n) : d # {} /\ f[d \ {Max(d)}] = it[d \ {Max(d)}] => f[d] = it[d]
    BY <1>6, <1>8
  <2> HIDE DEF Eq, n
  <2> QED BY <1>1, <2>1, <2>2, SameFold
<1>10. PICK l : l = it[1 .. n]
  OBVIOUS
<1>11. l \in I[n] /\ n \in 0 .. n
  BY <1>1, <1>5, <1>10
<1>12. l \in R /\ (ToSet(l) = ToSet(order) \/ Cardinality(Held(order, l)) >= n)
  <2> HIDE DEF n
  <2> QED BY <1>11 DEF I
<1>13. l \in Seq(A \X A) /\ Walk(order, l, c)
  BY <1>12 DEF R
<1>14. ToSet(l) = ToSet(order)
  BY <1>1, <1>12, <1>13, HeldIs DEF Walk
<1>15. Reached(l, c) = LabelsOf(order)
  <2> SUFFICES ASSUME NEW x \in LabelsOf(order) PROVE x \in Reached(l, c)
    BY <1>13 DEF Walk
  <2>1. ASSUME NEW k \in 1 .. n PROVE ToSet(order[k]) \subseteq Reached(l, c)
    <3>1. order[k] \in ToSet(l)
      BY <1>1, <1>14 DEF ToSet
    <3> QED BY <3>1 DEF Reached
  <2>2. \A k \in 1 .. n : order[k][1] \in Reached(l, c) /\ order[k][2] \in Reached(l, c)
    BY <2>1, PairSet
  <2>3. 1 \in 1 .. n /\ (x = order[1][1] \/ \E j \in 1 .. n : x = order[j][2])
    BY <1>1 DEF LabelsOf, Before, IsTreeOrder
  <2> QED BY <2>2, <2>3
<1> QED BY <1>2, <1>7, <1>9, <1>10, <1>13, <1>14, <1>15 DEF OrderedBy

-----------------------------------------------------------------------------
(* The search from one vertex (Checks).                                     *)

Partials(L, V) == UNION {[d -> V] : d \in SUBSET L}
Founds(L, V)   == [match : Partials(L, V), result : Partials(L, V)]
Levels(L, V)   == [Partials(L, V) -> [SUBSET L -> Founds(L, V)]]

LEMMA PartialIs ==
  ASSUME NEW L, NEW V, NEW f
  PROVE  f \in Partials(L, V) <=> f \in [DOMAIN f -> V] /\ DOMAIN f \subseteq L
<1>1. f \in Partials(L, V) => f \in [DOMAIN f -> V] /\ DOMAIN f \subseteq L
  BY DEF Partials
<1>2. f \in [DOMAIN f -> V] /\ DOMAIN f \subseteq L => f \in Partials(L, V)
  BY DEF Partials
<1> QED BY <1>1, <1>2

LEMMA PutIn ==
  ASSUME NEW L, NEW V, NEW f \in Partials(L, V), NEW k \in L, NEW x \in V
  PROVE  /\ Put(f, k, x) \in Partials(L, V) /\ DOMAIN Put(f, k, x) = DOMAIN f \union {k} /\ Put(f, k, x)[k] = x
         /\ \A i \in DOMAIN f : i # k => Put(f, k, x)[i] = f[i]
<1>1. f \in [DOMAIN f -> V] /\ DOMAIN f \subseteq L
  BY PartialIs
<1>2. PICK p : p = Put(f, k, x)
  OBVIOUS
<1>3. p = [i \in DOMAIN f \union {k} |-> IF i = k THEN x ELSE f[i]]
  BY <1>2 DEF Put
<1>4. DOMAIN p = DOMAIN f \union {k} /\ p[k] = x /\ \A i \in DOMAIN f : i # k => p[i] = f[i]
  BY <1>3
<1>5. p \in [DOMAIN p -> V] /\ DOMAIN p \subseteq L
  BY <1>1, <1>3
<1>6. p \in Partials(L, V)
  BY <1>5, PartialIs
<1> QED BY <1>2, <1>4, <1>6

LEMMA PutType ==
  ASSUME NEW L, NEW V, NEW f \in Partials(L, V), NEW k \in L, NEW x \in V
  PROVE  Put(f, k, x) \in Partials(L, V)
BY PutIn

LEMMA LessIn ==
  ASSUME NEW L, NEW V, NEW f \in Partials(L, V), NEW k
  PROVE  /\ Restrict(f, DOMAIN f \ {k}) \in Partials(L, V)
         /\ DOMAIN Restrict(f, DOMAIN f \ {k}) = DOMAIN f \ {k}
         /\ \A i \in DOMAIN f \ {k} : Restrict(f, DOMAIN f \ {k})[i] = f[i]
<1>1. f \in [DOMAIN f -> V] /\ DOMAIN f \subseteq L
  BY PartialIs
<1>2. PICK p : p = Restrict(f, DOMAIN f \ {k})
  OBVIOUS
<1>3. p = [i \in DOMAIN f \ {k} |-> f[i]]
  BY <1>2 DEF Restrict
<1>4. DOMAIN p = DOMAIN f \ {k} /\ \A i \in DOMAIN f \ {k} : p[i] = f[i]
  BY <1>3
<1>5. p \in [DOMAIN p -> V] /\ DOMAIN p \subseteq L
  BY <1>1, <1>3
<1>6. p \in Partials(L, V)
  BY <1>5, PartialIs
<1> QED BY <1>2, <1>4, <1>6

LEMMA NoneIn == ASSUME NEW L, NEW V PROVE <<>> \in Partials(L, V)
<1>1. <<>> \in [DOMAIN <<>> -> V] /\ DOMAIN <<>> \subseteq L
  OBVIOUS
<1> QED BY <1>1, PartialIs

\* The parts of a step: the label that is there, the one that is added, the
\* vertices to try, a try, and all of them.  h is the rest of the search.
Old(pair, checked) == CHOOSE l \in ToSet(pair) : l \in checked
New(pair, checked) == CHOOSE l \in ToSet(pair) : l # Old(pair, checked)
Nodeset(graph, edges, candidates, back, pair, result, checked) ==
  {v \in (Neighbers(graph, edges, result[Old(pair, checked)], New(pair, checked)) \ Range(result)) \intersect candidates[New(pair, checked)] :
     \A l \in checked : {l, New(pair, checked)} \in back => {result[l], v} \in edges}
After(h, new, checked, found, v) == h[Put(found.result, new, v)][checked \union {new}]
Tried(h, new, checked, found, v) ==
  IF found.match # <<>> THEN found
  ELSE [After(h, new, checked, found, v) EXCEPT !.result = Restrict(@, DOMAIN @ \ {new})]
AllTried(h, new, checked, result, s) ==
  FoldLeft(LAMBDA found, v : Tried(h, new, checked, found, v), [match |-> <<>>, result |-> result], s)

LEMMA TriedAll ==
  ASSUME NEW h, NEW new, NEW checked, NEW result, NEW s, NEW n \in Nat, DOMAIN s = 1 .. n,
         NEW R, [match |-> <<>>, result |-> result] \in R,
         \A y \in R, k \in 1 .. n : Tried(h, new, checked, y, s[k]) \in R
  PROVE  AllTried(h, new, checked, result, s) \in R
<1> DEFINE b == [match |-> <<>>, result |-> result]
           G == [p \in R \X (1 .. n) |-> Tried(h, new, checked, p[1], s[p[2]])]
           I == [k \in 0 .. n |-> R]
           Eq(it) == it = [d \in SUBSET (1 .. n) |-> IF d = {} THEN b ELSE Tried(h, new, checked, it[d \ {Max(d)}], s[Max(d)])]
<1>1. n \in Nat
  OBVIOUS
<1>2. AllTried(h, new, checked, result, s) = (CHOOSE it : Eq(it))[1 .. n]
  BY <1>1 DEF AllTried, FoldLeft, MapThenFoldSet
<1>3. b \in R /\ b \in I[0]
  <2> HIDE DEF b
  <2>1. b \in R
    BY DEF b
  <2> QED BY <2>1
<1>4. ASSUME NEW y \in R, NEW k \in 1 .. n
      PROVE  G[<<y, k>>] \in R /\ (y \in I[k - 1] => G[<<y, k>>] \in I[k])
  <2>1. G[<<y, k>>] = Tried(h, new, checked, y, s[k])
    OBVIOUS
  <2>2. k \in 0 .. n
    OBVIOUS
  <2> HIDE DEF G
  <2> QED BY <2>1, <2>2
<1>5. PICK it \in [SUBSET (1 .. n) -> R] :
        IsFold(it, 1 .. n, [d \in SUBSET (1 .. n) |-> Max(d)], b, G) /\ it[1 .. n] \in I[n]
  <2> HIDE DEF G, b, I
  <2> QED BY <1>1, <1>3, <1>4, LeftFold
<1>6. Eq(it)
  <2>1. \A d \in SUBSET (1 .. n) : d # {} =>
          Max(d) \in 1 .. n /\ d \ {Max(d)} \in SUBSET (1 .. n) /\ it[d] = Tried(h, new, checked, it[d \ {Max(d)}], s[Max(d)])
    <3> SUFFICES ASSUME NEW d \in SUBSET (1 .. n), d # {}
                 PROVE  /\ Max(d) \in 1 .. n /\ d \ {Max(d)} \in SUBSET (1 .. n)
                        /\ it[d] = Tried(h, new, checked, it[d \ {Max(d)}], s[Max(d)])
      OBVIOUS
    <3>1. Max(d) \in 1 .. n /\ d \ {Max(d)} \in SUBSET (1 .. n)
      BY <1>1, MaxIs
    <3>2. it[d] = G[<<it[d \ {Max(d)}], Max(d)>>]
      <4> HIDE DEF G, b
      <4> QED BY <1>5 DEF IsFold
    <3>3. it[d \ {Max(d)}] \in R
      BY <1>5, <3>1
    <3> HIDE DEF b
    <3> QED BY <3>1, <3>2, <3>3
  <2>2. it[{}] = b
    <3> HIDE DEF b
    <3> QED BY <1>5 DEF IsFold
  <2> HIDE DEF b
  <2> QED BY <1>5, <2>1, <2>2
<1>7. PICK f : f = (CHOOSE e : Eq(e))
  OBVIOUS
<1>8. Eq(f)
  <2> HIDE DEF Eq
  <2> QED BY <1>6, <1>7
<1>9. f[1 .. n] = it[1 .. n]
  <2> HIDE DEF b
  <2>1. f[{}] = it[{}]
    BY <1>6, <1>8
  <2>2. \A d \in SUBSET (1 .. n) : d # {} /\ f[d \ {Max(d)}] = it[d \ {Max(d)}] => f[d] = it[d]
    BY <1>6, <1>8
  <2> HIDE DEF Eq
  <2> QED BY <1>1, <2>1, <2>2, SameFold
<1>10. it[1 .. n] \in R
  <2>1. 1 .. n \in SUBSET (1 .. n)
    OBVIOUS
  <2> QED BY <1>5, <2>1
<1> HIDE DEF Eq
<1> QED BY <1>2, <1>7, <1>9, <1>10

\* The whole search, as the function it is defined by.
Step(f, graph, edges, candidates, list, back, k, result, checked) ==
  IF k > Len(list) THEN [match |-> result, result |-> result]
  ELSE AllTried(f[k + 1], New(list[k], checked), checked, result,
                InHashOrder(graph, Nodeset(graph, edges, candidates, back, list[k], result, checked)))
IsCheck(f, graph, edges, candidates, list, back) ==
  f = [k \in 1 .. Len(list) + 1 |-> [result \in Partials(DOMAIN candidates, DOMAIN graph.label) |->
        [checked \in SUBSET DOMAIN candidates |-> Step(f, graph, edges, candidates, list, back, k, result, checked)]]]

LEMMA ChecksIs ==
  ASSUME NEW graph, NEW edges, NEW candidates, NEW list, NEW back, NEW c, NEW id, NEW before
  PROVE  Checks(graph, edges, candidates, list, back, c, id, before) =
           (CHOOSE f : IsCheck(f, graph, edges, candidates, list, back))[1][Put(before, c, id)][{c}]
BY DEF Checks, IsCheck, Step, AllTried, Tried, After, Nodeset, Old, New, Partials

\* What the search is asked for: columns of the labels of the tree, with
\* vertices of the graph, and back edges between two of them.
IsGraph(graph) ==
  /\ IsFiniteSet(DOMAIN graph.label) /\ \A v \in DOMAIN graph.label : graph.hash[v] \in Nat
  /\ \A u, v \in DOMAIN graph.label : graph.label[u] = graph.label[v] /\ graph.hash[u] = graph.hash[v] => u = v
NoLoops(back) == \A l : {l} \notin back

LEMMA StepEnds ==
  ASSUME NEW L, NEW pair \in L \X L, pair[1] # pair[2], NEW checked
  PROVE  /\ New(pair, checked) \in L
         /\ (pair[1] \in checked) # (pair[2] \in checked) =>
              Old(pair, checked) \in checked /\ New(pair, checked) \notin checked
              /\ (\/ Old(pair, checked) = pair[1] /\ New(pair, checked) = pair[2]
                  \/ Old(pair, checked) = pair[2] /\ New(pair, checked) = pair[1])
<1>1. ToSet(pair) = {pair[1], pair[2]} /\ pair[1] \in L /\ pair[2] \in L
  BY PairSet
<1>2. PICK a, b : a = pair[1] /\ b = pair[2]
  OBVIOUS
<1>3. New(pair, checked) \in {a, b} /\ New(pair, checked) # Old(pair, checked)
  <2>1. \E l \in {a, b} : l # Old(pair, checked)
    BY <1>2
  <2> QED BY <1>1, <1>2, <2>1 DEF New
<1>4. ASSUME (a \in checked) # (b \in checked) PROVE Old(pair, checked) \in {a, b} /\ Old(pair, checked) \in checked
  <2>1. \E l \in {a, b} : l \in checked
    BY <1>4
  <2> QED BY <1>1, <1>2, <2>1 DEF Old
<1> HIDE DEF New, Old
<1> QED BY <1>1, <1>2, <1>3, <1>4

LEMMA NodesetIs ==
  ASSUME NEW graph, NEW edges, NEW candidates, NEW back, NEW pair, NEW result, NEW checked, IsGraph(graph)
  PROVE  LET set == Nodeset(graph, edges, candidates, back, pair, result, checked)
         IN /\ Placed(graph, set) /\ set \subseteq DOMAIN graph.label
            /\ \A v \in set : /\ v \in candidates[New(pair, checked)] /\ {v, result[Old(pair, checked)]} \in edges
                              /\ \A l \in checked : {l, New(pair, checked)} \in back => {result[l], v} \in edges
<1> DEFINE set == Nodeset(graph, edges, candidates, back, pair, result, checked)
<1>1. /\ set \subseteq DOMAIN graph.label /\ \A v \in set : graph.label[v] = New(pair, checked)
      /\ \A v \in set : /\ v \in candidates[New(pair, checked)] /\ {v, result[Old(pair, checked)]} \in edges
                        /\ \A l \in checked : {l, New(pair, checked)} \in back => {result[l], v} \in edges
  BY DEF Nodeset, Neighbers
<1> HIDE DEF set
<1>2. IsFiniteSet(set)
  BY <1>1, FS_Subset DEF IsGraph
<1>3. Placed(graph, set)
  BY <1>1, <1>2 DEF IsGraph, Placed
<1> QED BY <1>1, <1>3 DEF set

LEMMA AfterIn ==
  ASSUME NEW L, NEW V, NEW h \in Levels(L, V), NEW new \in L, NEW checked \in SUBSET L,
         NEW found \in Founds(L, V), NEW v \in V
  PROVE  After(h, new, checked, found, v) \in Founds(L, V)
<1>1. found.result \in Partials(L, V)
  BY DEF Founds
<1>2. Put(found.result, new, v) \in Partials(L, V) /\ checked \union {new} \in SUBSET L
  BY <1>1, PutIn
<1> QED BY <1>2 DEF After, Levels

TriedAs(h, new, checked, found, v) ==
  LET after == After(h, new, checked, found, v)
  IN found.match = <<>> => Tried(h, new, checked, found, v) =
                             [match |-> after.match, result |-> Restrict(after.result, DOMAIN after.result \ {new})]
LEMMA TriedIs ==
  ASSUME NEW L, NEW V, NEW h, NEW new, NEW checked, NEW found, NEW v,
         After(h, new, checked, found, v) \in Founds(L, V)
  PROVE  TriedAs(h, new, checked, found, v)
<1> SUFFICES ASSUME found.match = <<>>
             PROVE  Tried(h, new, checked, found, v) =
                      [match |-> After(h, new, checked, found, v).match,
                       result |-> Restrict(After(h, new, checked, found, v).result, DOMAIN After(h, new, checked, found, v).result \ {new})]
  BY DEF TriedAs
<1>1. PICK a : a = After(h, new, checked, found, v)
  OBVIOUS
<1>2. PICK r : r = Restrict(a.result, DOMAIN a.result \ {new})
  OBVIOUS
<1>3. Tried(h, new, checked, found, v) = [a EXCEPT !.result = r]
  BY <1>1, <1>2 DEF Tried
<1>4. [a EXCEPT !.result = r] = [match |-> a.match, result |-> r]
  BY <1>1 DEF Founds
<1> QED BY <1>1, <1>2, <1>3, <1>4

LEMMA TriedIn ==
  ASSUME NEW L, NEW V, NEW h \in Levels(L, V), NEW new \in L, NEW checked \in SUBSET L,
         NEW found \in Founds(L, V), NEW v \in V
  PROVE  Tried(h, new, checked, found, v) \in Founds(L, V)
<1>1. CASE found.match # <<>>
  BY <1>1 DEF Tried
<1>2. CASE found.match = <<>>
  <2>1. PICK a : a = After(h, new, checked, found, v) /\ a \in Founds(L, V)
    BY AfterIn
  <2>2. PICK r : r = Restrict(a.result, DOMAIN a.result \ {new}) /\ r \in Partials(L, V)
    BY <2>1, LessIn DEF Founds
  <2>3. Tried(h, new, checked, found, v) = [match |-> a.match, result |-> r]
    <3>1. TriedAs(h, new, checked, found, v)
      BY <2>1, TriedIs
    <3> QED BY <1>2, <2>1, <2>2, <3>1 DEF TriedAs
  <2> QED BY <2>1, <2>2, <2>3 DEF Founds
<1> QED BY <1>1, <1>2

LEMMA NoneFound == ASSUME NEW L, NEW V, NEW r \in Partials(L, V) PROVE [match |-> <<>>, result |-> r] \in Founds(L, V)
BY NoneIn DEF Founds

\* A step of the search leaves functions of the right type, whatever it is
\* given: that is why the recursion has a solution.
LEMMA StepStays ==
  ASSUME NEW graph, NEW edges, NEW candidates, NEW back, IsGraph(graph), NEW L, L = DOMAIN candidates,
         NEW pair \in L \X L, pair[1] # pair[2], NEW h \in Levels(L, DOMAIN graph.label),
         NEW result \in Partials(L, DOMAIN graph.label), NEW checked \in SUBSET L
  PROVE  AllTried(h, New(pair, checked), checked, result,
                  InHashOrder(graph, Nodeset(graph, edges, candidates, back, pair, result, checked)))
           \in Founds(L, DOMAIN graph.label)
<1> DEFINE V == DOMAIN graph.label
           set == Nodeset(graph, edges, candidates, back, pair, result, checked)
           s == InHashOrder(graph, set)
<1>1. Placed(graph, set) /\ set \subseteq V
  BY NodesetIs
<1>2. New(pair, checked) \in L
  BY StepEnds
<1> HIDE DEF set
<1>3. PICK n \in Nat : DOMAIN s = 1 .. n /\ \A k \in 1 .. n : s[k] \in V
  BY <1>1, HashOrder
<1>4. [match |-> <<>>, result |-> result] \in Founds(L, V)
  BY NoneFound
<1> HIDE DEF s
<1>5. \A y \in Founds(L, V), k \in 1 .. n : Tried(h, New(pair, checked), checked, y, s[k]) \in Founds(L, V)
  <2> SUFFICES ASSUME NEW y \in Founds(L, V), NEW k \in 1 .. n
               PROVE  Tried(h, New(pair, checked), checked, y, s[k]) \in Founds(L, V)
    OBVIOUS
  <2>1. s[k] \in V
    BY <1>3
  <2> HIDE DEF V
  <2>2. h \in Levels(L, V)
    BY DEF V
  <2> QED BY <1>2, <2>1, <2>2, TriedIn
<1> HIDE DEF V
<1>6. AllTried(h, New(pair, checked), checked, result, s) \in Founds(L, V)
  BY <1>3, <1>4, <1>5, TriedAll
<1> QED BY <1>6 DEF V, s, set

IsList(list, L) == list \in Seq(L \X L) /\ \A k \in 1 .. Len(list) : list[k][1] # list[k][2]

LEMMA CheckExists ==
  ASSUME NEW graph, NEW edges, NEW candidates, NEW back, IsGraph(graph), NEW list, IsList(list, DOMAIN candidates)
  PROVE  \E f : IsCheck(f, graph, edges, candidates, list, back)
<1> DEFINE n == Len(list)
           L == DOMAIN candidates
           V == DOMAIN graph.label
           Set(k, result, checked) == InHashOrder(graph, Nodeset(graph, edges, candidates, back, list[k], result, checked))
           Lev(h, k) == [result \in Partials(L, V) |-> [checked \in SUBSET L |->
                           AllTried(h, New(list[k], checked), checked, result, Set(k, result, checked))]]
           Base == [result \in Partials(L, V) |-> [checked \in SUBSET L |-> [match |-> result, result |-> result]]]
           Solves(f, j) == /\ f \in [n + 1 - j .. n + 1 -> Levels(L, V)] /\ f[n + 1] = Base
                           /\ \A k \in n + 1 - j .. n : f[k] = Lev(f[k + 1], k)
           U == {j \in Nat : \E f : Solves(f, j)}
<1>1. n \in Nat /\ \A k \in 1 .. n : list[k] \in L \X L /\ list[k][1] # list[k][2]
  BY DEF IsList
<1>2. Base \in Levels(L, V)
  <2>1. \A r \in Partials(L, V) : [match |-> r, result |-> r] \in Founds(L, V)
    BY DEF Founds
  <2> HIDE DEF L, V
  <2> QED BY <2>1 DEF Levels
<1>3. ASSUME NEW k \in 1 .. n, NEW h \in Levels(L, V) PROVE Lev(h, k) \in Levels(L, V)
  <2>1. ASSUME NEW result \in Partials(L, V), NEW checked \in SUBSET L
        PROVE  AllTried(h, New(list[k], checked), checked, result, Set(k, result, checked)) \in Founds(L, V)
    BY <1>1, StepStays
  <2> HIDE DEF L, V, Set
  <2> QED BY <2>1 DEF Levels
<1> HIDE DEF Base, Lev, n, V, L
<1>4. 0 \in U
  <2> DEFINE f == [k \in {n + 1} |-> Base]
  <2>1. n + 1 - 0 .. n + 1 = {n + 1} /\ n + 1 - 0 .. n = {}
    BY <1>1
  <2>2. f \in [{n + 1} -> Levels(L, V)] /\ f[n + 1] = Base
    BY <1>2
  <2> HIDE DEF f
  <2>3. Solves(f, 0)
    BY <2>1, <2>2
  <2> HIDE DEF Solves
  <2> QED BY <2>3
<1>5. ASSUME NEW j \in 1 .. n, j - 1 \in U PROVE j \in U
  <2>1. PICK f : Solves(f, j - 1)
    BY <1>5
  <2> DEFINE m == n + 1 - j
             e == [k \in m .. n + 1 |-> IF k = m THEN Lev(f[m + 1], m) ELSE f[k]]
  <2>2. m \in 1 .. n /\ n + 1 - (j - 1) = m + 1 /\ m + 1 \in m + 1 .. n + 1 /\ n + 1 \in Nat /\ n \in Nat
    BY <1>1
  <2> HIDE DEF m
  <2>3. f \in [m + 1 .. n + 1 -> Levels(L, V)] /\ f[n + 1] = Base /\ \A k \in m + 1 .. n : f[k] = Lev(f[k + 1], k)
    BY <2>1, <2>2
  <2>4. \A k \in m .. n + 1 : k = m \/ k \in m + 1 .. n + 1
    BY <2>2
  <2>5. e \in [m .. n + 1 -> Levels(L, V)]
    <3>1. Lev(f[m + 1], m) \in Levels(L, V)
      BY <1>3, <2>2, <2>3
    <3> QED BY <2>3, <2>4, <3>1
  <2>6. \A k \in m + 1 .. n + 1 : e[k] = f[k]
    BY <2>2
  <2>7. e[n + 1] = Base
    BY <2>2, <2>3, <2>6
  <2>8. ASSUME NEW k \in m .. n PROVE e[k] = Lev(e[k + 1], k)
    <3>1. k + 1 \in m + 1 .. n + 1 /\ e[k + 1] = f[k + 1]
      BY <2>2, <2>6
    <3>2. CASE k = m
      BY <2>2, <3>1, <3>2
    <3>3. CASE k # m
      <4>1. k \in m + 1 .. n
        BY <2>2, <3>3
      <4>2. k \in m + 1 .. n + 1
        BY <2>2, <4>1
      <4> HIDE DEF e
      <4> QED BY <2>3, <2>6, <3>1, <4>1, <4>2
    <3> QED BY <3>2, <3>3
  <2> HIDE DEF e
  <2>9. Solves(e, j)
    BY <2>5, <2>7, <2>8 DEF m
  <2> HIDE DEF Solves
  <2> QED BY <1>1, <2>9
<1> HIDE DEF U
<1>6. n \in U
  BY <1>1, <1>4, <1>5, UpTo
<1>7. PICK f : Solves(f, n)
  <2> HIDE DEF Solves
  <2> QED BY <1>6 DEF U
<1>8. f \in [1 .. n + 1 -> Levels(L, V)] /\ f[n + 1] = Base /\ \A k \in 1 .. n : f[k] = Lev(f[k + 1], k)
  <2>1. n + 1 - n = 1
    BY <1>1
  <2> QED BY <1>7, <2>1
<1>9. ASSUME NEW k \in 1 .. n + 1
      PROVE  f[k] = [result \in Partials(L, V) |-> [checked \in SUBSET L |->
                       Step(f, graph, edges, candidates, list, back, k, result, checked)]]
  <2>1. CASE k \in 1 .. n
    <3>1. ~(k > Len(list))
      BY <1>1, <2>1 DEF n
    <3>2. f[k] = Lev(f[k + 1], k)
      BY <1>8, <2>1
    <3> QED BY <3>1, <3>2 DEF Step, Lev
  <2>2. CASE k = n + 1
    <3>1. k > Len(list)
      BY <1>1, <2>2 DEF n
    <3> QED BY <1>8, <2>2, <3>1 DEF Base, Step
  <2> QED BY <1>1, <2>1, <2>2
<1>10. IsCheck(f, graph, edges, candidates, list, back)
  BY <1>8, <1>9 DEF IsCheck, n, L, V
<1> QED BY <1>10

\* A match of what the list has reached before its edge k.
Partly(edges, candidates, list, back, c, k, r) ==
  /\ From(list, k, c) \subseteq DOMAIN r /\ \A l \in From(list, k, c) : r[l] \in candidates[l]
  /\ \A j \in 1 .. k - 1 : {r[list[j][1]], r[list[j][2]]} \in edges
  /\ \A a, b \in From(list, k, c) : {a, b} \in back => {r[a], r[b]} \in edges
Keeps(r, checked, s) == checked \subseteq DOMAIN s /\ \A l \in checked : s[l] = r[l]
\* What the search returns has the vertices that it was given.
Replies(edges, candidates, list, back, c, found, checked, r) ==
  /\ Keeps(r, checked, found.result)
  /\ found.match # <<>> => Keeps(r, checked, found.match) /\ Partly(edges, candidates, list, back, c, Len(list) + 1, found.match)

SoundFrom(graph, edges, candidates, list, back, c, k, h) ==
  \A r \in Partials(DOMAIN candidates, DOMAIN graph.label) : Partly(edges, candidates, list, back, c, k, r) =>
    Replies(edges, candidates, list, back, c, h[r][From(list, k, c)], From(list, k, c), r)

LEMMA FromNext ==
  ASSUME NEW L, NEW list, NEW c, NEW k \in Nat \ {0}, list[k] \in L \X L
  PROVE  From(list, k + 1, c) = From(list, k, c) \union {list[k][1], list[k][2]}
<1>1. ToSet(list[k]) = {list[k][1], list[k][2]}
  BY PairSet
<1>2. k \in 1 .. k /\ (k + 1) - 1 = k /\ 1 .. k - 1 \subseteq 1 .. k /\ \A j \in 1 .. k : j = k \/ j \in 1 .. k - 1
  OBVIOUS
<1>3. {ToSet(list[j]) : j \in 1 .. k} = {ToSet(list[j]) : j \in 1 .. k - 1} \union {{list[k][1], list[k][2]}}
  BY <1>1, <1>2
<1> QED BY <1>2, <1>3 DEF From

LEMMA FromEnds ==
  ASSUME NEW L, NEW list, NEW c, NEW k, NEW j \in 1 .. k - 1, list[j] \in L \X L
  PROVE  list[j][1] \in From(list, k, c) /\ list[j][2] \in From(list, k, c)
<1>1. list[j][1] \in ToSet(list[j]) /\ list[j][2] \in ToSet(list[j])
  BY PairSet
<1> QED BY <1>1 DEF From

LEMMA FromIn ==
  ASSUME NEW L, NEW list, NEW c \in L, NEW k, \A j \in 1 .. k - 1 : list[j] \in L \X L
  PROVE  From(list, k, c) \subseteq L
<1>1. \A j \in 1 .. k - 1 : ToSet(list[j]) \subseteq L
  <2> SUFFICES ASSUME NEW j \in 1 .. k - 1 PROVE ToSet(list[j]) \subseteq L
    OBVIOUS
  <2>1. ToSet(list[j]) = {list[j][1], list[j][2]} /\ list[j][1] \in L /\ list[j][2] \in L
    BY PairSet
  <2> QED BY <2>1
<1> QED BY <1>1 DEF From

LEMMA Extended ==
  ASSUME NEW graph, NEW edges, NEW candidates, NEW back, IsGraph(graph), NoLoops(back),
         NEW list, IsList(list, DOMAIN candidates), NEW c \in DOMAIN candidates,
         NEW k \in 1 .. Len(list), OneEnd(list, k, c),
         NEW r, Partly(edges, candidates, list, back, c, k, r),
         NEW v \in Nodeset(graph, edges, candidates, back, list[k], r, From(list, k, c)),
         NEW s \in Partials(DOMAIN candidates, DOMAIN graph.label), Keeps(r, From(list, k, c), s)
  PROVE  LET new == New(list[k], From(list, k, c))
         IN /\ new \in DOMAIN candidates /\ new \notin From(list, k, c) /\ From(list, k + 1, c) = From(list, k, c) \union {new}
            /\ Partly(edges, candidates, list, back, c, k + 1, Put(s, new, v))
            /\ Keeps(r, From(list, k, c), Put(s, new, v))
<1> DEFINE L == DOMAIN candidates
           F == From(list, k, c)
           pair == list[k]
           new == New(pair, F)
           old == Old(pair, F)
           p == Put(s, new, v)
<1>1. Len(list) \in Nat /\ (\A j \in 1 .. Len(list) : list[j] \in L \X L) /\ pair[1] # pair[2] /\ pair \in L \X L
  BY DEF IsList
<1>2. /\ From(list, k + 1, c) = F \union {pair[1], pair[2]} /\ F \subseteq L
      /\ \A j \in 1 .. k - 1 : list[j][1] \in F /\ list[j][2] \in F
  <2> HIDE DEF L
  <2>1. c \in L /\ k \in Nat \ {0} /\ \A j \in 1 .. k - 1 : list[j] \in L \X L
    BY <1>1 DEF L
  <2>2. From(list, k + 1, c) = F \union {pair[1], pair[2]}
    BY <1>1, <2>1, FromNext
  <2>3. F \subseteq L
    BY <2>1, FromIn
  <2>4. \A j \in 1 .. k - 1 : list[j][1] \in F /\ list[j][2] \in F
    BY <2>1, FromEnds
  <2> QED BY <2>2, <2>3, <2>4
<1>3. (pair[1] \in F) # (pair[2] \in F)
  BY DEF OneEnd
<1>4. /\ new \in L /\ old \in F /\ new \notin F
      /\ (\/ old = pair[1] /\ new = pair[2]
          \/ old = pair[2] /\ new = pair[1])
  BY <1>1, <1>3, StepEnds
<1>5. /\ v \in DOMAIN graph.label /\ v \in candidates[new] /\ {v, r[old]} \in edges
      /\ \A l \in F : {l, new} \in back => {r[l], v} \in edges
  BY NodesetIs
<1>6. /\ From(list, k, c) \subseteq DOMAIN r /\ \A l \in F : r[l] \in candidates[l]
      /\ \A j \in 1 .. k - 1 : {r[list[j][1]], r[list[j][2]]} \in edges
      /\ \A a, b \in F : {a, b} \in back => {r[a], r[b]} \in edges
  BY DEF Partly
<1> HIDE DEF F, new, old
<1>7. F \subseteq DOMAIN s /\ \A l \in F : s[l] = r[l]
  BY DEF Keeps, F
<1>8. DOMAIN p = DOMAIN s \union {new} /\ p[new] = v /\ \A l \in DOMAIN s : l # new => p[l] = s[l]
  BY DEF Put
<1> HIDE DEF p
<1>9. \A l \in F : l \in DOMAIN p /\ p[l] = r[l]
  BY <1>4, <1>7, <1>8
<1>10. From(list, k + 1, c) = F \union {new}
  BY <1>2, <1>4
<1>11. \A l \in F \union {new} : l \in DOMAIN p /\ p[l] \in candidates[l]
  BY <1>5, <1>6, <1>8, <1>9
<1>12. \A j \in 1 .. k : {p[list[j][1]], p[list[j][2]]} \in edges
  <2> SUFFICES ASSUME NEW j \in 1 .. k PROVE {p[list[j][1]], p[list[j][2]]} \in edges
    OBVIOUS
  <2>1. CASE j = k
    <3>1. {p[pair[1]], p[pair[2]]} = {v, r[old]}
      BY <1>4, <1>8, <1>9
    <3> QED BY <1>5, <2>1, <3>1
  <2>2. CASE j # k
    <3>1. j \in 1 .. k - 1
      BY <1>1, <2>2
    <3> QED BY <1>2, <1>6, <1>9, <3>1
  <2> QED BY <2>1, <2>2
<1>13. \A a, b \in F \union {new} : {a, b} \in back => {p[a], p[b]} \in edges
  <2> SUFFICES ASSUME NEW a \in F \union {new}, NEW b \in F \union {new}, {a, b} \in back PROVE {p[a], p[b]} \in edges
    OBVIOUS
  <2>1. CASE a \in F /\ b \in F
    BY <1>6, <1>9, <2>1
  <2>2. CASE a \in F /\ b = new
    BY <1>5, <1>8, <1>9, <2>2
  <2>3. CASE a = new /\ b \in F
    <3>1. {b, new} \in back /\ {p[a], p[b]} = {r[b], v}
      <4>1. {a, b} = {b, a}
        OBVIOUS
      <4> QED BY <1>8, <1>9, <2>3, <4>1
    <3> QED BY <1>5, <2>3, <3>1
  <2>4. CASE a = new /\ b = new
    <3>1. {a, b} = {new}
      BY <2>4
    <3> QED BY <3>1 DEF NoLoops
  <2> QED BY <2>1, <2>2, <2>3, <2>4
<1>14. k + 1 - 1 = k
  BY <1>1
<1>15. Partly(edges, candidates, list, back, c, k + 1, p)
  <2>1. PICK W : W = F \union {new} /\ W = From(list, k + 1, c)
    BY <1>10
  <2>2. W \subseteq DOMAIN p /\ \A l \in W : p[l] \in candidates[l]
    BY <1>11, <2>1
  <2>3. \A a, b \in W : {a, b} \in back => {p[a], p[b]} \in edges
    BY <1>13, <2>1
  <2>4. \A j \in 1 .. k + 1 - 1 : {p[list[j][1]], p[list[j][2]]} \in edges
    BY <1>12, <1>14
  <2> QED BY <2>1, <2>2, <2>3, <2>4 DEF Partly
<1>16. Keeps(r, F, p)
  BY <1>9 DEF Keeps
<1> QED BY <1>4, <1>10, <1>15, <1>16 DEF p, F, new

LEMMA TriedSound ==
  ASSUME NEW graph, NEW edges, NEW candidates, NEW back, IsGraph(graph), NoLoops(back),
         NEW list, IsList(list, DOMAIN candidates), NEW c \in DOMAIN candidates,
         NEW k \in 1 .. Len(list), OneEnd(list, k, c),
         NEW h \in Levels(DOMAIN candidates, DOMAIN graph.label),
         SoundFrom(graph, edges, candidates, list, back, c, k + 1, h),
         NEW r \in Partials(DOMAIN candidates, DOMAIN graph.label), Partly(edges, candidates, list, back, c, k, r),
         NEW y \in Founds(DOMAIN candidates, DOMAIN graph.label),
         Replies(edges, candidates, list, back, c, y, From(list, k, c), r),
         NEW v \in Nodeset(graph, edges, candidates, back, list[k], r, From(list, k, c))
  PROVE  LET t == Tried(h, New(list[k], From(list, k, c)), From(list, k, c), y, v)
         IN /\ t \in Founds(DOMAIN candidates, DOMAIN graph.label)
            /\ Replies(edges, candidates, list, back, c, t, From(list, k, c), r)
<1> DEFINE L == DOMAIN candidates
           V == DOMAIN graph.label
           F == From(list, k, c)
           new == New(list[k], F)
           t == Tried(h, new, F, y, v)
           a == After(h, new, F, y, v)
           s == y.result
           p == Put(s, new, v)
<1>1. s \in Partials(L, V) /\ Keeps(r, F, s)
  BY DEF Founds, Replies
<1>2. /\ new \in L /\ new \notin F /\ From(list, k + 1, c) = F \union {new}
      /\ Partly(edges, candidates, list, back, c, k + 1, p) /\ Keeps(r, F, p)
  <2> HIDE DEF s
  <2> QED BY <1>1, Extended
<1>3. v \in V /\ F \subseteq L
  <2>1. v \in V
    BY NodesetIs
  <2>2. F \subseteq L
    <3>1. \A j \in 1 .. k - 1 : list[j] \in L \X L
      BY DEF IsList
    <3> QED BY <3>1, FromIn
  <2> QED BY <2>1, <2>2
<1> HIDE DEF L, V, F, new, s
<1>4. p \in Partials(L, V)
  BY <1>1, <1>2, <1>3, PutIn
<1> HIDE DEF p
<1>5. a = h[p][F \union {new}]
  BY DEF After, p, s
<1>6. Replies(edges, candidates, list, back, c, a, F \union {new}, p)
  BY <1>2, <1>4, <1>5 DEF L, V, SoundFrom
<1> HIDE DEF t, a
<1>7. /\ t \in Founds(L, V) /\ (y.match # <<>> => t = y)
      /\ y.match = <<>> => a \in Founds(L, V) /\ t.match = a.match /\ t.result = Restrict(a.result, DOMAIN a.result \ {new})
  <2>1. y \in Founds(L, V) /\ h \in Levels(L, V) /\ new \in L /\ F \in SUBSET L /\ v \in V
    BY <1>2, <1>3 DEF L, V
  <2>2. t \in Founds(L, V) /\ a \in Founds(L, V)
    BY <2>1, TriedIn, AfterIn DEF t, a
  <2>3. y.match # <<>> => t = y
    BY DEF Tried, t
  <2>4. y.match = <<>> => t = [match |-> a.match, result |-> Restrict(a.result, DOMAIN a.result \ {new})]
    <3> SUFFICES ASSUME y.match = <<>>
                 PROVE  t = [match |-> a.match, result |-> Restrict(a.result, DOMAIN a.result \ {new})]
      OBVIOUS
    <3>1. After(h, new, F, y, v) \in Founds(L, V)
      BY <2>2 DEF a
    <3>2. TriedAs(h, new, F, y, v)
      BY <3>1, TriedIs
    <3> QED BY <3>2 DEF t, a, TriedAs
  <2> QED BY <2>2, <2>3, <2>4
<1>8. CASE y.match # <<>>
  BY <1>7, <1>8 DEF L, V, F, new, t
<1>9. CASE y.match = <<>>
  <2>1. a.result \in Partials(L, V) /\ Keeps(p, F \union {new}, a.result)
    BY <1>6, <1>7, <1>9 DEF Replies, Founds
  <2>2. PICK q : q = Restrict(a.result, DOMAIN a.result \ {new})
    OBVIOUS
  <2>3. DOMAIN q = DOMAIN a.result \ {new} /\ \A i \in DOMAIN a.result \ {new} : q[i] = a.result[i]
    BY <2>2 DEF Restrict
  <2>4. Keeps(r, F, q)
    BY <1>2, <2>1, <2>3 DEF Keeps
  <2>5. t.match # <<>> => Keeps(r, F, t.match) /\ Partly(edges, candidates, list, back, c, Len(list) + 1, t.match)
    <3>1. a.match # <<>> => Keeps(p, F \union {new}, a.match) /\ Partly(edges, candidates, list, back, c, Len(list) + 1, a.match)
      BY <1>6 DEF Replies
    <3>2. Keeps(p, F \union {new}, a.match) => Keeps(r, F, a.match)
      BY <1>2 DEF Keeps
    <3> QED BY <1>7, <1>9, <3>1, <3>2
  <2>6. Replies(edges, candidates, list, back, c, t, F, r)
    BY <1>7, <1>9, <2>2, <2>4, <2>5 DEF Replies
  <2> QED BY <1>7, <2>6 DEF L, V, F, new, t
<1> QED BY <1>8, <1>9

LEMMA StepSound ==
  ASSUME NEW graph, NEW edges, NEW candidates, NEW back, IsGraph(graph), NoLoops(back),
         NEW list, IsList(list, DOMAIN candidates), NEW c \in DOMAIN candidates,
         NEW k \in 1 .. Len(list), OneEnd(list, k, c),
         NEW h \in Levels(DOMAIN candidates, DOMAIN graph.label),
         SoundFrom(graph, edges, candidates, list, back, c, k + 1, h),
         NEW r \in Partials(DOMAIN candidates, DOMAIN graph.label), Partly(edges, candidates, list, back, c, k, r)
  PROVE  Replies(edges, candidates, list, back, c,
                 AllTried(h, New(list[k], From(list, k, c)), From(list, k, c), r,
                          InHashOrder(graph, Nodeset(graph, edges, candidates, back, list[k], r, From(list, k, c)))),
                 From(list, k, c), r)
<1> DEFINE L == DOMAIN candidates
           V == DOMAIN graph.label
           F == From(list, k, c)
           new == New(list[k], F)
           set == Nodeset(graph, edges, candidates, back, list[k], r, F)
           s == InHashOrder(graph, set)
           R == {y \in Founds(L, V) : Replies(edges, candidates, list, back, c, y, F, r)}
<1>1. Placed(graph, set)
  BY NodesetIs
<1>2. PICK n \in Nat : DOMAIN s = 1 .. n /\ \A j \in 1 .. n : s[j] \in set
  <2> HIDE DEF set
  <2> QED BY <1>1, HashOrder
<1>3. [match |-> <<>>, result |-> r] \in R
  <2>1. [match |-> <<>>, result |-> r] \in Founds(L, V)
    BY NoneFound
  <2>2. Keeps(r, F, r)
    BY DEF Partly, Keeps
  <2>3. Replies(edges, candidates, list, back, c, [match |-> <<>>, result |-> r], F, r)
    <3> HIDE DEF F
    <3> QED BY <2>2 DEF Replies
  <2> QED BY <2>1, <2>3
<1>4. ASSUME NEW y \in R, NEW j \in 1 .. n PROVE Tried(h, new, F, y, s[j]) \in R
  <2>1. y \in Founds(L, V) /\ Replies(edges, candidates, list, back, c, y, F, r)
    OBVIOUS
  <2>2. PICK v : v = s[j] /\ v \in set
    BY <1>2
  <2>3. Tried(h, new, F, y, v) \in Founds(L, V) /\ Replies(edges, candidates, list, back, c, Tried(h, new, F, y, v), F, r)
    BY <2>1, <2>2, TriedSound
  <2> QED BY <2>2, <2>3
<1> HIDE DEF R, s
<1>5. AllTried(h, new, F, r, s) \in R
  <2> HIDE DEF new, F
  <2> QED BY <1>2, <1>3, <1>4, TriedAll
<1> QED BY <1>5 DEF R, s

LEMMA CheckSound ==
  ASSUME NEW graph, NEW edges, NEW candidates, NEW back, IsGraph(graph), NoLoops(back),
         NEW list, IsList(list, DOMAIN candidates), NEW c \in DOMAIN candidates,
         \A k \in 1 .. Len(list) : OneEnd(list, k, c),
         NEW f, IsCheck(f, graph, edges, candidates, list, back)
  PROVE  f[1] \in Levels(DOMAIN candidates, DOMAIN graph.label) /\ SoundFrom(graph, edges, candidates, list, back, c, 1, f[1])
<1> DEFINE n == Len(list)
           L == DOMAIN candidates
           V == DOMAIN graph.label
           Right(k) == f[k] \in Levels(L, V) /\ SoundFrom(graph, edges, candidates, list, back, c, k, f[k])
           S == {j \in Nat : Right(n + 1 - j)}
<1>1. n \in Nat /\ \A k \in 1 .. n : list[k] \in L \X L /\ list[k][1] # list[k][2]
  BY DEF IsList
<1>2. \A k \in 1 .. n + 1 : f[k] = [r \in Partials(L, V) |-> [checked \in SUBSET L |->
                              Step(f, graph, edges, candidates, list, back, k, r, checked)]]
  BY DEF IsCheck
<1> HIDE DEF n, L, V
<1>3. \A k \in 1 .. n + 1 : From(list, k, c) \subseteq L
  <2> SUFFICES ASSUME NEW k \in 1 .. n + 1 PROVE From(list, k, c) \subseteq L
    OBVIOUS
  <2>1. \A j \in 1 .. k - 1 : list[j] \in L \X L
    BY <1>1
  <2>2. c \in L
    BY DEF L
  <2> QED BY <2>1, <2>2, FromIn
<1>4. ASSUME NEW k \in 1 .. n + 1,
             \A r \in Partials(L, V), checked \in SUBSET L : Step(f, graph, edges, candidates, list, back, k, r, checked) \in Founds(L, V),
             \A r \in Partials(L, V) : Partly(edges, candidates, list, back, c, k, r) =>
               Replies(edges, candidates, list, back, c,
                       Step(f, graph, edges, candidates, list, back, k, r, From(list, k, c)), From(list, k, c), r)
      PROVE  Right(k)
  <2> DEFINE St(r, checked) == Step(f, graph, edges, candidates, list, back, k, r, checked)
  <2>a. f[k] = [r \in Partials(L, V) |-> [checked \in SUBSET L |-> St(r, checked)]]
    BY <1>2
  <2>b. \A r \in Partials(L, V), checked \in SUBSET L : St(r, checked) \in Founds(L, V)
    BY <1>4
  <2>c. From(list, k, c) \in SUBSET L
    BY <1>3
  <2> HIDE DEF St
  <2>1. f[k] \in Levels(L, V)
    BY <2>a, <2>b DEF Levels
  <2>d. \A r \in Partials(L, V) : f[k][r][From(list, k, c)] = St(r, From(list, k, c))
    BY <2>a, <2>c
  <2>2. \A r \in Partials(L, V) : f[k][r][From(list, k, c)] = Step(f, graph, edges, candidates, list, back, k, r, From(list, k, c))
    BY <2>d DEF St
  <2>3. SoundFrom(graph, edges, candidates, list, back, c, k, f[k])
    BY <1>4, <2>2 DEF SoundFrom, L, V
  <2> QED BY <2>1, <2>3
<1>5. Right(n + 1)
  <2>a. n + 1 \in 1 .. n + 1 /\ n + 1 > n
    BY <1>1
  <2>1. PICK m \in 1 .. n + 1 : m = n + 1 /\ m > Len(list)
    BY <2>a DEF n
  <2>2. \A r, checked : Step(f, graph, edges, candidates, list, back, m, r, checked) = [match |-> r, result |-> r]
    BY <2>1 DEF Step
  <2>3. ASSUME NEW r \in Partials(L, V), NEW checked \in SUBSET L
        PROVE  Step(f, graph, edges, candidates, list, back, m, r, checked) \in Founds(L, V)
    <3>1. [match |-> r, result |-> r] \in Founds(L, V)
      BY DEF Founds
    <3> QED BY <2>2, <3>1
  <2>4. ASSUME NEW r \in Partials(L, V), Partly(edges, candidates, list, back, c, m, r)
        PROVE  Replies(edges, candidates, list, back, c,
                       Step(f, graph, edges, candidates, list, back, m, r, From(list, m, c)), From(list, m, c), r)
    <3>1. Keeps(r, From(list, m, c), r)
      BY <2>4 DEF Partly, Keeps
    <3>2. PICK a : a = Step(f, graph, edges, candidates, list, back, m, r, From(list, m, c))
      OBVIOUS
    <3>3. a.match = r /\ a.result = r
      BY <2>2, <3>2
    <3>4. m = Len(list) + 1
      BY <2>1 DEF n
    <3>5. Partly(edges, candidates, list, back, c, Len(list) + 1, r)
      BY <2>4, <3>4
    <3>6. Replies(edges, candidates, list, back, c, a, From(list, m, c), r)
      BY <3>1, <3>3, <3>5 DEF Replies
    <3> QED BY <3>2, <3>6
  <2> HIDE DEF Right
  <2>5. Right(m)
    BY <1>4, <2>3, <2>4
  <2> QED BY <2>1, <2>5
<1>6. ASSUME NEW k \in 1 .. n, Right(k + 1) PROVE Right(k)
  <2>1. k \in 1 .. n + 1 /\ ~(k > Len(list)) /\ k \in 1 .. Len(list)
    BY <1>1 DEF n
  <2>2. ASSUME NEW r \in Partials(L, V), NEW checked \in SUBSET L
        PROVE  Step(f, graph, edges, candidates, list, back, k, r, checked) \in Founds(L, V)
    <3>1. f[k + 1] \in Levels(L, V)
      BY <1>6
    <3> QED BY <1>1, <2>1, <3>1, StepStays DEF Step, L, V
  <2>3. ASSUME NEW r \in Partials(L, V), Partly(edges, candidates, list, back, c, k, r)
        PROVE  Replies(edges, candidates, list, back, c,
                       Step(f, graph, edges, candidates, list, back, k, r, From(list, k, c)), From(list, k, c), r)
    <3>1. PICK h : h = f[k + 1]
      OBVIOUS
    <3>2. h \in Levels(DOMAIN candidates, DOMAIN graph.label) /\ SoundFrom(graph, edges, candidates, list, back, c, k + 1, h)
      BY <1>6, <3>1 DEF L, V
    <3>3. r \in Partials(DOMAIN candidates, DOMAIN graph.label)
      BY DEF L, V
    <3>4. OneEnd(list, k, c)
      BY <2>1
    <3>5. Replies(edges, candidates, list, back, c,
                 AllTried(h, New(list[k], From(list, k, c)), From(list, k, c), r,
                          InHashOrder(graph, Nodeset(graph, edges, candidates, back, list[k], r, From(list, k, c)))),
                 From(list, k, c), r)
      BY <2>1, <2>3, <3>2, <3>3, <3>4, StepSound
    <3> QED BY <2>1, <3>1, <3>5 DEF Step
  <2> HIDE DEF Right
  <2> QED BY <1>4, <2>1, <2>2, <2>3
<1> HIDE DEF Right
<1>7. 0 \in S
  <2>1. n + 1 - 0 = n + 1
    BY <1>1
  <2> QED BY <1>5, <2>1
<1>8. ASSUME NEW j \in 1 .. n, j - 1 \in S PROVE j \in S
  <2>1. n + 1 - j \in 1 .. n /\ n + 1 - (j - 1) = (n + 1 - j) + 1
    BY <1>1
  <2> QED BY <1>6, <1>8, <2>1
<1> HIDE DEF S
<1>9. n \in S
  <2>1. n \in Nat /\ n \in 0 .. n
    BY <1>1
  <2>2. \A j \in 1 .. n : j - 1 \in S => j \in S
    BY <1>8
  <2>3. 0 .. n \subseteq S
    BY <1>7, <2>1, <2>2, UpTo
  <2> QED BY <2>1, <2>3
<1>10. n + 1 - n = 1
  BY <1>1
<1>11. Right(1)
  BY <1>9, <1>10 DEF S
<1> QED BY <1>11 DEF Right, L, V

\* From a vertex the search returns a match with all edges of the pattern,
\* or none.
Finds(found, edges, candidates, order, back) == found.match # <<>> => IsMatch(found.match, edges, candidates, order, back)
LEMMA ChecksSound ==
  ASSUME NEW graph, NEW edges, NEW candidates, NEW order, NEW back,
         IsGraph(graph), NoLoops(back), IsOrder(order, DOMAIN candidates), InColumns(graph, candidates),
         NEW c \in DOMAIN candidates, NEW id \in candidates[c], NEW before \in Partials(DOMAIN candidates, DOMAIN graph.label)
  PROVE  LET found == Checks(graph, edges, candidates, Getorder(order, c), back, c, id, before)
         IN found \in Founds(DOMAIN candidates, DOMAIN graph.label) /\ Finds(found, edges, candidates, order, back)
<1> DEFINE L == DOMAIN candidates
           V == DOMAIN graph.label
           list == Getorder(order, c)
           n == Len(list)
           p == Put(before, c, id)
<1>1. OrderedBy(L, order, c, list)
  BY OrderFrom DEF IsOrder
<1> HIDE DEF L, V, list, p
<1>2. list \in Seq(L \X L) /\ ToSet(list) = ToSet(order) /\ Reached(list, c) = L /\ \A k \in 1 .. n : OneEnd(list, k, c)
  BY <1>1 DEF OrderedBy, Walk, IsOrder, L
<1>3. IsList(list, L)
  BY <1>2 DEF IsList, OneEnd
<1>4. PICK f : IsCheck(f, graph, edges, candidates, list, back) /\
               Checks(graph, edges, candidates, list, back, c, id, before) = f[1][p][{c}]
  BY <1>3, CheckExists, ChecksIs DEF L, p
<1>5. f[1] \in Levels(L, V) /\ SoundFrom(graph, edges, candidates, list, back, c, 1, f[1])
  BY <1>2, <1>3, <1>4, CheckSound DEF L, V
<1>6. id \in V /\ c \in L /\ before \in Partials(L, V)
  BY DEF InColumns, L, V
<1>7. p \in Partials(L, V)
  BY <1>6, PutIn DEF p
<1>8. c \in DOMAIN p /\ p[c] = id
  BY DEF p, Put
<1>9. From(list, 1, c) = {c}
  <2>1. 1 .. 1 - 1 = {}
    OBVIOUS
  <2> QED BY <2>1 DEF From
<1>10. Partly(edges, candidates, list, back, c, 1, p)
  <2>1. 1 .. 1 - 1 = {} /\ {c, c} = {c}
    OBVIOUS
  <2> QED BY <1>8, <1>9, <2>1 DEF Partly, NoLoops
<1>11. PICK found : found = f[1][p][{c}]
  OBVIOUS
<1>12. found \in Founds(L, V)
  BY <1>5, <1>6, <1>7, <1>11 DEF Levels
<1>13. Replies(edges, candidates, list, back, c, found, {c}, p)
  BY <1>5, <1>7, <1>9, <1>10, <1>11 DEF SoundFrom, L, V
<1>14. ASSUME found.match # <<>> PROVE IsMatch(found.match, edges, candidates, order, back)
  <2>1. PICK m : m = found.match
    OBVIOUS
  <2>2. Partly(edges, candidates, list, back, c, n + 1, m)
    BY <1>13, <1>14, <2>1 DEF Replies
  <2>3. From(list, n + 1, c) = L
    BY <1>2, ReachedAll
  <2>4. /\ L \subseteq DOMAIN m /\ \A l \in L : m[l] \in candidates[l]
        /\ \A a, b \in L : {a, b} \in back => {m[a], m[b]} \in edges
    BY <2>2, <2>3 DEF Partly
  <2>5. m \in Partials(L, V)
    BY <1>12, <2>1 DEF Founds
  <2>6. DOMAIN m = L
    BY <2>4, <2>5, PartialIs
  <2>7. n \in Nat /\ n + 1 - 1 = n /\ DOMAIN list = 1 .. n
    BY <1>2
  <2>8. \A j \in 1 .. n : {m[list[j][1]], m[list[j][2]]} \in edges
    BY <2>2, <2>7 DEF Partly
  <2>9. ASSUME NEW k \in DOMAIN order PROVE {m[order[k][1]], m[order[k][2]]} \in edges
    <3>1. order[k] \in ToSet(list)
      BY <1>2 DEF ToSet
    <3>2. PICK j \in 1 .. n : list[j] = order[k]
      BY <2>7, <3>1 DEF ToSet
    <3> QED BY <2>8, <3>2
  <2> QED BY <2>1, <2>4, <2>6, <2>9 DEF IsMatch, L
<1>15. Finds(found, edges, candidates, order, back)
  BY <1>14 DEF Finds
<1> QED BY <1>4, <1>11, <1>12, <1>15 DEF L, V, list

-----------------------------------------------------------------------------
(* The columns (MNI_List).                                                  *)

\* A vertex of a column, unless it is in a match found so far; a column.
TriedFrom(graph, edges, columns, order, back, c, t, id) ==
  IF \E m \in t.matches : m[c] = id THEN t
  ELSE LET s2 == Checks(graph, edges, columns, Getorder(order, c), back, c, id, t.result)
       IN [t EXCEPT !.matches = IF s2.match = <<>> THEN @ ELSE @ \union {s2.match}, !.result = s2.result]
ColumnTried(graph, edges, order, back, s, c) ==
  FoldLeft(LAMBDA t, id : TriedFrom(graph, edges, s.candidates, order, back, c, t, id), s, InHashOrder(graph, s.candidates[c]))
Columned(graph, edges, order, back, s, c) ==
  LET tried == ColumnTried(graph, edges, order, back, s, c)
  IN [tried EXCEPT !.candidates[c] = {m[c] : m \in tried.matches}]

LEMMA MNI_ListIs ==
  ASSUME NEW graph, NEW edges, NEW candidates, NEW order, NEW back
  PROVE  MNI_List(graph, edges, candidates, order, back) =
           FoldLeft(LAMBDA s, c : Columned(graph, edges, order, back, s, c),
                    [candidates |-> candidates, matches |-> {}, result |-> <<>>], ColumnLabels(order)).candidates
BY DEF MNI_List, Columned, ColumnTried, TriedFrom

\* What the search knows: columns that have only lost vertices, and matches
\* of the columns that it was given.
Searches(L, V) == [candidates : [L -> SUBSET V], matches : SUBSET Partials(L, V), result : Partials(L, V)]
Finding(edges, candidates, order, back, s) ==
  /\ \A l \in DOMAIN candidates : s.candidates[l] \subseteq candidates[l]
  /\ \A m \in s.matches : IsMatch(m, edges, candidates, order, back)

\* The searches that start from s, with the columns of s.
Goes(graph, edges, candidates, order, back, s) ==
  {t \in Searches(DOMAIN candidates, DOMAIN graph.label) :
     /\ Finding(edges, candidates, order, back, t)
     /\ t.candidates = s.candidates /\ s.matches \subseteq t.matches}

LEMMA TriedFromSound ==
  ASSUME NEW graph, NEW edges, NEW candidates, NEW order, NEW back,
         IsGraph(graph), NoLoops(back), IsOrder(order, DOMAIN candidates), InColumns(graph, candidates),
         NEW t \in Searches(DOMAIN candidates, DOMAIN graph.label), Finding(edges, candidates, order, back, t),
         NEW c \in DOMAIN candidates, NEW id \in t.candidates[c]
  PROVE  TriedFrom(graph, edges, t.candidates, order, back, c, t, id) \in Goes(graph, edges, candidates, order, back, t)
<1> DEFINE L == DOMAIN candidates
           V == DOMAIN graph.label
           columns == t.candidates
           u == TriedFrom(graph, edges, columns, order, back, c, t, id)
           a == Checks(graph, edges, columns, Getorder(order, c), back, c, id, t.result)
<1> HIDE DEF L, V, columns, u, a
<1>1. /\ columns \in [L -> SUBSET V] /\ t.matches \in SUBSET Partials(L, V) /\ t.result \in Partials(L, V)
      /\ t = [candidates |-> columns, matches |-> t.matches, result |-> t.result]
  BY DEF Searches, L, V, columns
<1>2. \A l \in L : columns[l] \subseteq candidates[l]
  BY DEF Finding, L, columns
<1>3. DOMAIN columns = L /\ InColumns(graph, columns) /\ IsOrder(order, DOMAIN columns)
  BY <1>1, <1>2 DEF InColumns, L, V
<1>4. a \in Founds(L, V) /\ Finds(a, edges, columns, order, back)
  <2>1. c \in DOMAIN columns /\ id \in columns[c] /\ t.result \in Partials(DOMAIN columns, DOMAIN graph.label)
    BY <1>1, <1>3 DEF L, V, columns
  <2>2. a \in Founds(DOMAIN columns, DOMAIN graph.label) /\ Finds(a, edges, columns, order, back)
    BY <1>3, <2>1, ChecksSound DEF a
  <2> QED BY <1>3, <2>2 DEF V
<1>5. \A m : IsMatch(m, edges, columns, order, back) => IsMatch(m, edges, candidates, order, back)
  BY <1>2, <1>3 DEF IsMatch, L
<1>6. CASE \E m \in t.matches : m[c] = id
  <2>1. u = t
    BY <1>6 DEF u, TriedFrom
  <2> QED BY <2>1 DEF Goes, L, V, u, columns
<1>7. CASE ~ \E m \in t.matches : m[c] = id
  <2>1. PICK found : found = IF a.match = <<>> THEN t.matches ELSE t.matches \union {a.match}
    OBVIOUS
  <2>2. u = [t EXCEPT !.matches = found, !.result = a.result]
    BY <1>7, <2>1 DEF u, TriedFrom, a
  <2>3. u = [candidates |-> columns, matches |-> found, result |-> a.result]
    <3>1. PICK mm, rr, ar : mm = t.matches /\ rr = t.result /\ ar = a.result
      OBVIOUS
    <3>2. t = [candidates |-> columns, matches |-> mm, result |-> rr]
      BY <1>1, <3>1
    <3>3. u = [t EXCEPT !.matches = found, !.result = ar]
      BY <2>2, <3>1
    <3>4. u = [candidates |-> columns, matches |-> found, result |-> ar]
      BY <3>2, <3>3
    <3> QED BY <3>1, <3>4
  <2>4. /\ found \in SUBSET Partials(L, V) /\ t.matches \subseteq found /\ a.result \in Partials(L, V)
        /\ \A m \in found : m \in t.matches \/ IsMatch(m, edges, columns, order, back)
    BY <1>1, <1>4, <2>1 DEF Founds, Finds
  <2>5. u \in Searches(L, V)
    BY <1>1, <2>3, <2>4 DEF Searches
  <2>6. u.candidates = columns /\ u.matches = found
    BY <2>3
  <2>7. Finding(edges, candidates, order, back, u)
    BY <1>2, <1>5, <2>4, <2>6 DEF Finding, L
  <2> QED BY <2>4, <2>5, <2>6, <2>7 DEF Goes, L, V, u, columns
<1> QED BY <1>6, <1>7

LEMMA ColumnTriedSound ==
  ASSUME NEW graph, NEW edges, NEW candidates, NEW order, NEW back,
         IsGraph(graph), NoLoops(back), IsOrder(order, DOMAIN candidates), InColumns(graph, candidates),
         NEW s \in Searches(DOMAIN candidates, DOMAIN graph.label), Finding(edges, candidates, order, back, s),
         NEW c \in DOMAIN candidates
  PROVE  ColumnTried(graph, edges, order, back, s, c) \in Goes(graph, edges, candidates, order, back, s)
<1> DEFINE R == Goes(graph, edges, candidates, order, back, s)
           set == s.candidates[c]
           q == InHashOrder(graph, set)
<1>1. Placed(graph, set)
  <2>1. s.candidates[c] \subseteq candidates[c]
    BY DEF Finding
  <2>2. set \subseteq {v \in DOMAIN graph.label : graph.label[v] = c}
    BY <2>1 DEF InColumns
  <2> HIDE DEF set
  <2>3. IsFiniteSet(set)
    <3>1. set \subseteq DOMAIN graph.label
      BY <2>2
    <3> QED BY <3>1, FS_Subset DEF IsGraph
  <2> QED BY <2>2, <2>3 DEF Placed, IsGraph
<1>2. PICK n \in Nat : DOMAIN q = 1 .. n /\ \A j \in 1 .. n : q[j] \in set
  <2> HIDE DEF set
  <2> QED BY <1>1, HashOrder
<1> DEFINE Op(t, id) == TriedFrom(graph, edges, s.candidates, order, back, c, t, id)
           G == [p \in R \X (1 .. n) |-> Op(p[1], q[p[2]])]
           I == [k \in 0 .. n |-> R]
           Eq(it) == it = [d \in SUBSET (1 .. n) |-> IF d = {} THEN s ELSE Op(it[d \ {Max(d)}], q[Max(d)])]
<1> HIDE DEF q, set
<1>3. ColumnTried(graph, edges, order, back, s, c) = (CHOOSE it : Eq(it))[1 .. n]
  BY <1>2 DEF ColumnTried, FoldLeft, MapThenFoldSet, q, set
<1>4. s \in R /\ s \in I[0]
  <2>1. s \in R
    BY DEF Goes
  <2> HIDE DEF R
  <2> QED BY <2>1
<1>5. \A y \in R, k \in 1 .. n : Op(y, q[k]) \in R
  <2> SUFFICES ASSUME NEW y \in R, NEW k \in 1 .. n PROVE Op(y, q[k]) \in R
    OBVIOUS
  <2>1. PICK id : id = q[k] /\ id \in set
    BY <1>2
  <2>2. /\ y \in Searches(DOMAIN candidates, DOMAIN graph.label) /\ Finding(edges, candidates, order, back, y)
        /\ y.candidates = s.candidates /\ s.matches \subseteq y.matches
    BY DEF Goes
  <2>3. id \in y.candidates[c]
    BY <2>1, <2>2 DEF set
  <2>4. PICK u : u = TriedFrom(graph, edges, y.candidates, order, back, c, y, id)
    OBVIOUS
  <2>5. /\ u \in Searches(DOMAIN candidates, DOMAIN graph.label) /\ Finding(edges, candidates, order, back, u)
        /\ u.candidates = y.candidates /\ y.matches \subseteq u.matches
    <3>1. u \in Goes(graph, edges, candidates, order, back, y)
      BY <2>2, <2>3, <2>4, TriedFromSound
    <3> QED BY <3>1 DEF Goes
  <2>6. u \in R
    BY <2>2, <2>5 DEF Goes
  <2> QED BY <2>1, <2>2, <2>4, <2>6
<1> HIDE DEF R, Op
<1>6. ASSUME NEW y \in R, NEW k \in 1 .. n
      PROVE  G[<<y, k>>] \in R /\ (y \in I[k - 1] => G[<<y, k>>] \in I[k])
  <2>1. G[<<y, k>>] = Op(y, q[k])
    OBVIOUS
  <2>2. k \in 0 .. n
    OBVIOUS
  <2> HIDE DEF G
  <2> QED BY <1>5, <2>1, <2>2
<1>7. PICK it \in [SUBSET (1 .. n) -> R] :
        IsFold(it, 1 .. n, [d \in SUBSET (1 .. n) |-> Max(d)], s, G) /\ it[1 .. n] \in I[n]
  <2> HIDE DEF G, I
  <2> QED BY <1>2, <1>4, <1>6, LeftFold
<1>8. Eq(it)
  <2>1. \A d \in SUBSET (1 .. n) : d # {} =>
          Max(d) \in 1 .. n /\ d \ {Max(d)} \in SUBSET (1 .. n) /\ it[d] = Op(it[d \ {Max(d)}], q[Max(d)])
    <3> SUFFICES ASSUME NEW d \in SUBSET (1 .. n), d # {}
                 PROVE  /\ Max(d) \in 1 .. n /\ d \ {Max(d)} \in SUBSET (1 .. n)
                        /\ it[d] = Op(it[d \ {Max(d)}], q[Max(d)])
      OBVIOUS
    <3>1. Max(d) \in 1 .. n /\ d \ {Max(d)} \in SUBSET (1 .. n)
      BY <1>2, MaxIs
    <3>2. it[d] = G[<<it[d \ {Max(d)}], Max(d)>>]
      <4> HIDE DEF G
      <4> QED BY <1>7 DEF IsFold
    <3>3. it[d \ {Max(d)}] \in R
      BY <1>7, <3>1
    <3> QED BY <3>1, <3>2, <3>3
  <2>2. it[{}] = s
    BY <1>7 DEF IsFold
  <2> QED BY <1>7, <2>1, <2>2
<1>9. PICK f : f = (CHOOSE e : Eq(e))
  OBVIOUS
<1>10. Eq(f)
  <2> HIDE DEF Eq
  <2> QED BY <1>8, <1>9
<1>11. f[1 .. n] = it[1 .. n]
  <2>1. f[{}] = it[{}]
    BY <1>8, <1>10
  <2>2. \A d \in SUBSET (1 .. n) : d # {} /\ f[d \ {Max(d)}] = it[d \ {Max(d)}] => f[d] = it[d]
    BY <1>8, <1>10
  <2> HIDE DEF Eq
  <2> QED BY <1>2, <2>1, <2>2, SameFold
<1>12. it[1 .. n] \in R
  <2>1. 1 .. n \in SUBSET (1 .. n)
    OBVIOUS
  <2> QED BY <1>7, <2>1
<1> HIDE DEF Eq
<1> QED BY <1>3, <1>9, <1>11, <1>12 DEF R

\* What a column keeps is in a match.
Checked(s, c) == s.candidates[c] \subseteq {m[c] : m \in s.matches}
LEMMA ColumnedSound ==
  ASSUME NEW graph, NEW edges, NEW candidates, NEW order, NEW back,
         IsGraph(graph), NoLoops(back), IsOrder(order, DOMAIN candidates), InColumns(graph, candidates),
         NEW s \in Searches(DOMAIN candidates, DOMAIN graph.label), Finding(edges, candidates, order, back, s),
         NEW c \in DOMAIN candidates
  PROVE  LET u == Columned(graph, edges, order, back, s, c)
         IN /\ u \in Searches(DOMAIN candidates, DOMAIN graph.label) /\ Finding(edges, candidates, order, back, u)
            /\ Checked(u, c) /\ \A l \in DOMAIN candidates : Checked(s, l) => Checked(u, l)
<1> DEFINE L == DOMAIN candidates
           V == DOMAIN graph.label
           u == Columned(graph, edges, order, back, s, c)
<1> HIDE DEF L, V, u
<1>1. PICK t : t = ColumnTried(graph, edges, order, back, s, c)
  OBVIOUS
<1>2. t \in Searches(L, V) /\ Finding(edges, candidates, order, back, t) /\ t.candidates = s.candidates /\ s.matches \subseteq t.matches
  <2>1. t \in Goes(graph, edges, candidates, order, back, s)
    BY <1>1, ColumnTriedSound
  <2> QED BY <2>1 DEF Goes, L, V
<1>3. PICK cc, mm, rr : /\ cc \in [L -> SUBSET V] /\ mm \in SUBSET Partials(L, V) /\ rr \in Partials(L, V)
                        /\ t = [candidates |-> cc, matches |-> mm, result |-> rr]
  BY <1>2 DEF Searches
<1>4. t.candidates = cc /\ t.matches = mm
  BY <1>3
<1>5. c \in L
  BY DEF L
<1>6. PICK set : set = {m[c] : m \in mm}
  OBVIOUS
<1>7. PICK dd : dd = [cc EXCEPT ![c] = set]
  OBVIOUS
<1>8. u = [candidates |-> dd, matches |-> mm, result |-> rr]
  <2>1. u = [t EXCEPT !.candidates[c] = set]
    BY <1>1, <1>4, <1>6 DEF u, Columned
  <2> QED BY <1>3, <1>7, <2>1
<1>9. \A m \in mm : m[c] \in candidates[c]
  BY <1>2, <1>4, <1>5 DEF Finding, IsMatch, L
<1>10. set \subseteq candidates[c] /\ candidates[c] \subseteq V
  BY <1>5, <1>6, <1>9 DEF InColumns, L, V
<1>11. dd \in [L -> SUBSET V] /\ dd[c] = set /\ \A l \in L : l # c => dd[l] = cc[l]
  BY <1>3, <1>5, <1>7, <1>10
<1>12. u \in Searches(L, V) /\ u.candidates = dd /\ u.matches = mm
  BY <1>3, <1>8, <1>11 DEF Searches
<1>13. Finding(edges, candidates, order, back, u)
  BY <1>2, <1>4, <1>10, <1>11, <1>12 DEF Finding, L
<1>14. Checked(u, c)
  BY <1>6, <1>11, <1>12 DEF Checked
<1>15. ASSUME NEW l \in L, Checked(s, l) PROVE Checked(u, l)
  <2>1. CASE l = c
    BY <1>14, <2>1
  <2>2. CASE l # c
    <3>1. u.candidates[l] = s.candidates[l]
      BY <1>2, <1>4, <1>11, <1>12, <2>2
    <3> QED BY <1>2, <1>4, <1>12, <1>15, <3>1 DEF Checked
  <2> QED BY <2>1, <2>2
<1> QED BY <1>12, <1>13, <1>14, <1>15 DEF L, V, u

LEMMA ColumnLabelsAre ==
  ASSUME NEW L, NEW order, IsOrder(order, L)
  PROVE  \E n \in Nat : /\ DOMAIN ColumnLabels(order) = 1 .. n
                        /\ \A k \in 1 .. n : ColumnLabels(order)[k] \in L
                        /\ \A l \in L : \E k \in 1 .. n : ColumnLabels(order)[k] = l
<1> DEFINE n == Len(order)
           a == order[1][1]
           s == [k \in 1 .. n |-> order[k][2]]
<1>1. n \in Nat \ {0} /\ DOMAIN order = 1 .. n /\ \A k \in 1 .. n : order[k] \in L \X L
  BY DEF IsOrder, IsTreeOrder
<1>2. a \in L /\ s \in Seq(L) /\ Len(s) = n /\ \A k \in 1 .. n : s[k] = order[k][2]
  <2>1. 1 \in 1 .. n /\ \A k \in 1 .. n : order[k][2] \in L
    BY <1>1
  <2>2. s \in [1 .. n -> L]
    BY <2>1
  <2> QED BY <1>1, <2>1, <2>2
<1>3. ColumnLabels(order) = <<a>> \o s
  BY <1>1 DEF ColumnLabels
<1> HIDE DEF s, a, n
<1>4. <<a>> \in Seq(L) /\ Len(<<a>>) = 1
  BY <1>2
<1>5. PICK t : t = <<a>> \o s
  OBVIOUS
<1>6. DOMAIN t = 1 .. n + 1 /\ t[1] = a /\ \A k \in 1 .. n : t[k + 1] = s[k]
  BY <1>1, <1>2, <1>4, <1>5
<1>7. \A k \in 1 .. n + 1 : k = 1 \/ \E j \in 1 .. n : k = j + 1
  <2> SUFFICES ASSUME NEW k \in 1 .. n + 1, k # 1 PROVE \E j \in 1 .. n : k = j + 1
    OBVIOUS
  <2>1. k - 1 \in 1 .. n /\ k = (k - 1) + 1
    BY <1>1
  <2> QED BY <2>1
<1>8. \A k \in 1 .. n + 1 : t[k] \in L
  <2>1. \A j \in 1 .. n : s[j] \in L
    BY <1>1, <1>2
  <2> QED BY <1>2, <1>6, <1>7, <2>1
<1>9. ASSUME NEW l \in L PROVE \E k \in 1 .. n + 1 : t[k] = l
  <2>1. l = a \/ \E j \in 1 .. n : l = order[j][2]
    BY <1>1 DEF IsOrder, LabelsOf, Before, a, n
  <2>2. CASE l = a
    BY <1>1, <1>6, <2>2
  <2>3. CASE \E j \in 1 .. n : l = order[j][2]
    <3>1. PICK j \in 1 .. n : l = order[j][2]
      BY <2>3
    <3>2. j + 1 \in 1 .. n + 1 /\ t[j + 1] = l
      BY <1>1, <1>2, <1>6, <3>1
    <3> QED BY <3>2
  <2> QED BY <2>1, <2>2, <2>3
<1>10. PICK m \in Nat : m = n + 1
  BY <1>1
<1>11. /\ DOMAIN t = 1 .. m
       /\ \A k \in 1 .. m : t[k] \in L
       /\ \A l \in L : \E k \in 1 .. m : t[k] = l
  BY <1>6, <1>8, <1>9, <1>10
<1>12. ColumnLabels(order) = t
  BY <1>3, <1>5
<1> QED BY <1>11, <1>12

\* Every vertex that is left in a column is in a match of the whole pattern
\* with vertices of the columns that the search was given.
InMatches(mni, edges, candidates, order, back) ==
  /\ DOMAIN mni = DOMAIN candidates
  /\ \A l \in DOMAIN mni : \A v \in mni[l] : \E m : IsMatch(m, edges, candidates, order, back) /\ m[l] = v

THEOREM ColumnsSound ==
  ASSUME NEW graph, NEW edges, NEW candidates, NEW order, NEW back,
         IsGraph(graph), NoLoops(back), IsOrder(order, DOMAIN candidates), InColumns(graph, candidates)
  PROVE  InMatches(MNI_List(graph, edges, candidates, order, back), edges, candidates, order, back)
<1> DEFINE L == DOMAIN candidates
           V == DOMAIN graph.label
           R == {s \in Searches(L, V) : Finding(edges, candidates, order, back, s)}
           q == ColumnLabels(order)
           b == [candidates |-> candidates, matches |-> {}, result |-> <<>>]
           Op(s, c) == Columned(graph, edges, order, back, s, c)
<1> HIDE DEF L, V, q
<1>1. PICK n \in Nat : DOMAIN q = 1 .. n /\ (\A k \in 1 .. n : q[k] \in L) /\ \A l \in L : \E k \in 1 .. n : q[k] = l
  BY ColumnLabelsAre DEF q, L
<1> DEFINE G == [p \in R \X (1 .. n) |-> Op(p[1], q[p[2]])]
           I == [k \in 0 .. n |-> {s \in R : \A j \in 1 .. k : Checked(s, q[j])}]
           Eq(it) == it = [d \in SUBSET (1 .. n) |-> IF d = {} THEN b ELSE Op(it[d \ {Max(d)}], q[Max(d)])]
<1>2. MNI_List(graph, edges, candidates, order, back) = (CHOOSE it : Eq(it))[1 .. n].candidates
  <2>1. FoldLeft(LAMBDA s, c : Columned(graph, edges, order, back, s, c), b, q) = (CHOOSE it : Eq(it))[1 .. n]
    BY <1>1 DEF FoldLeft, MapThenFoldSet
  <2> QED BY <2>1, MNI_ListIs DEF q
<1>3. b \in R /\ b \in I[0]
  <2>1. candidates \in [L -> SUBSET V]
    BY DEF InColumns, L, V
  <2>2. b \in Searches(L, V)
    BY <2>1, NoneIn DEF Searches
  <2>3. Finding(edges, candidates, order, back, b)
    BY DEF Finding
  <2>4. 0 \in 0 .. n /\ 1 .. 0 = {}
    OBVIOUS
  <2> HIDE DEF b
  <2> QED BY <2>2, <2>3, <2>4
<1>4. ASSUME NEW y \in R, NEW k \in 1 .. n
      PROVE  G[<<y, k>>] \in R /\ (y \in I[k - 1] => G[<<y, k>>] \in I[k])
  <2>1. PICK u : u = Op(y, q[k])
    OBVIOUS
  <2>2. G[<<y, k>>] = u
    <3> HIDE DEF R
    <3> QED BY <2>1
  <2>3. /\ u \in Searches(L, V) /\ Finding(edges, candidates, order, back, u)
        /\ Checked(u, q[k]) /\ \A l \in L : Checked(y, l) => Checked(u, l)
    <3>1. PICK c : c = q[k]
      OBVIOUS
    <3>2. c \in DOMAIN candidates /\ y \in Searches(DOMAIN candidates, DOMAIN graph.label) /\ Finding(edges, candidates, order, back, y)
      BY <1>1, <3>1 DEF L, V
    <3>3. /\ u \in Searches(DOMAIN candidates, DOMAIN graph.label) /\ Finding(edges, candidates, order, back, u)
          /\ Checked(u, c) /\ \A l \in DOMAIN candidates : Checked(y, l) => Checked(u, l)
      <4> HIDE DEF R
      <4> QED BY <2>1, <3>1, <3>2, ColumnedSound
    <3> QED BY <3>1, <3>3 DEF L, V
  <2>4. u \in R
    BY <2>3
  <2> HIDE DEF R, G
  <2>5. k \in 0 .. n /\ k - 1 \in 0 .. n /\ \A j \in 1 .. k : j = k \/ j \in 1 .. k - 1
    BY <1>1
  <2>6. ASSUME y \in I[k - 1] PROVE u \in I[k]
    <3>1. \A j \in 1 .. k - 1 : Checked(y, q[j])
      BY <2>5, <2>6
    <3>2. \A j \in 1 .. k : q[j] \in L
      BY <1>1
    <3>3. \A j \in 1 .. k : Checked(u, q[j])
      BY <2>3, <2>5, <3>1, <3>2
    <3> QED BY <2>4, <2>5, <3>3
  <2> QED BY <2>2, <2>4, <2>6
<1> HIDE DEF R, Op, b
<1>5. PICK it \in [SUBSET (1 .. n) -> R] :
        IsFold(it, 1 .. n, [d \in SUBSET (1 .. n) |-> Max(d)], b, G) /\ it[1 .. n] \in I[n]
  <2> HIDE DEF G, I
  <2> QED BY <1>1, <1>3, <1>4, LeftFold
<1>6. Eq(it)
  <2>1. \A d \in SUBSET (1 .. n) : d # {} =>
          Max(d) \in 1 .. n /\ d \ {Max(d)} \in SUBSET (1 .. n) /\ it[d] = Op(it[d \ {Max(d)}], q[Max(d)])
    <3> SUFFICES ASSUME NEW d \in SUBSET (1 .. n), d # {}
                 PROVE  /\ Max(d) \in 1 .. n /\ d \ {Max(d)} \in SUBSET (1 .. n)
                        /\ it[d] = Op(it[d \ {Max(d)}], q[Max(d)])
      OBVIOUS
    <3>1. Max(d) \in 1 .. n /\ d \ {Max(d)} \in SUBSET (1 .. n)
      BY <1>1, MaxIs
    <3>2. it[d] = G[<<it[d \ {Max(d)}], Max(d)>>]
      <4> HIDE DEF G
      <4> QED BY <1>5 DEF IsFold
    <3>3. it[d \ {Max(d)}] \in R
      BY <1>5, <3>1
    <3> QED BY <3>1, <3>2, <3>3
  <2>2. it[{}] = b
    BY <1>5 DEF IsFold
  <2> QED BY <1>5, <2>1, <2>2
<1>7. PICK f : f = (CHOOSE e : Eq(e))
  OBVIOUS
<1>8. Eq(f)
  <2> HIDE DEF Eq
  <2> QED BY <1>6, <1>7
<1>9. f[1 .. n] = it[1 .. n]
  <2>1. f[{}] = it[{}]
    BY <1>6, <1>8
  <2>2. \A d \in SUBSET (1 .. n) : d # {} /\ f[d \ {Max(d)}] = it[d \ {Max(d)}] => f[d] = it[d]
    BY <1>6, <1>8
  <2> HIDE DEF Eq
  <2> QED BY <1>1, <2>1, <2>2, SameFold
<1>10. PICK s : s = it[1 .. n]
  OBVIOUS
<1>11. s \in R /\ \A j \in 1 .. n : Checked(s, q[j])
  <2>1. n \in 0 .. n /\ s \in I[n]
    BY <1>1, <1>5, <1>10
  <2> QED BY <2>1
<1>12. s \in Searches(L, V) /\ Finding(edges, candidates, order, back, s) /\ \A l \in L : Checked(s, l)
  BY <1>1, <1>11 DEF R
<1>13. PICK mni : mni = MNI_List(graph, edges, candidates, order, back)
  OBVIOUS
<1>14. mni = s.candidates /\ DOMAIN mni = L
  BY <1>2, <1>7, <1>9, <1>10, <1>12, <1>13 DEF Searches
<1>15. ASSUME NEW l \in L, NEW v \in mni[l] PROVE \E m : IsMatch(m, edges, candidates, order, back) /\ m[l] = v
  <2>1. PICK m \in s.matches : m[l] = v
    BY <1>12, <1>14 DEF Checked
  <2> QED BY <1>12, <2>1 DEF Finding
<1> QED BY <1>13, <1>14, <1>15 DEF InMatches, L

-----------------------------------------------------------------------------
(* Patterns.                                                                *)

LEMMA NodesOfParts ==
  ASSUME NEW p, NEW h
  PROVE  /\ Nodes(p \union h) = Nodes(p) \union Nodes(h)
         /\ h \subseteq p => Nodes(h) \subseteq Nodes(p)
         /\ \A e : Nodes({e}) = e
         /\ \A x : x \in Nodes(p) <=> \E e \in p : x \in e
         /\ Nodes({}) = {}
BY DEF Nodes

LEMMA SingleConnected ==
  ASSUME NEW e
  PROVE  Connected({e})
BY DEF Connected

LEMMA ConnectedGrows ==
  ASSUME NEW p, Connected(p), NEW e, e \cap Nodes(p) # {}
  PROVE  Connected(p \union {e})
<1> DEFINE k == p \union {e}
<1> SUFFICES ASSUME NEW s, s \subseteq k, s # {}, s # k
             PROVE  Nodes(s) \cap Nodes(k \ s) # {}
  BY DEF Connected
<1>1. PICK x : x \in e /\ x \in Nodes(p)
  OBVIOUS
<1>2. CASE s \cap p # {} /\ s \cap p # p
  <2>1. Nodes(s \cap p) \cap Nodes(p \ (s \cap p)) # {}
    BY <1>2 DEF Connected
  <2>2. s \cap p \subseteq s /\ p \ (s \cap p) \subseteq k \ s
    OBVIOUS
  <2>3. Nodes(s \cap p) \subseteq Nodes(s) /\ Nodes(p \ (s \cap p)) \subseteq Nodes(k \ s)
    BY <2>2, NodesOfParts
  <2> QED BY <2>1, <2>3
<1>3. CASE s \cap p = {}
  <2>1. s = {e} /\ p \subseteq k \ s
    BY <1>3
  <2>2. x \in Nodes(s) /\ x \in Nodes(k \ s)
    BY <1>1, <2>1, NodesOfParts
  <2> QED BY <2>2
<1>4. CASE s \cap p = p
  <2>1. e \in k \ s /\ p \subseteq s
    BY <1>4
  <2>2. x \in Nodes(k \ s) /\ x \in Nodes(s)
    BY <1>1, <2>1 DEF Nodes
  <2> QED BY <2>2
<1> QED BY <1>2, <1>3, <1>4

LEMMA ConnectedFills ==
  ASSUME NEW h, Connected(h), NEW k, h \subseteq k, Nodes(k) = Nodes(h), \A e \in k : e # {}
  PROVE  Connected(k)
<1> SUFFICES ASSUME NEW s, s \subseteq k, s # {}, s # k
             PROVE  Nodes(s) \cap Nodes(k \ s) # {}
  BY DEF Connected
<1>1. CASE s \cap h # {} /\ s \cap h # h
  <2>1. Nodes(s \cap h) \cap Nodes(h \ (s \cap h)) # {}
    BY <1>1 DEF Connected
  <2>2. s \cap h \subseteq s /\ h \ (s \cap h) \subseteq k \ s
    OBVIOUS
  <2>3. Nodes(s \cap h) \subseteq Nodes(s) /\ Nodes(h \ (s \cap h)) \subseteq Nodes(k \ s)
    BY <2>2, NodesOfParts
  <2> QED BY <2>1, <2>3
<1>2. CASE s \cap h = {}
  <2>1. PICK e \in s : TRUE
    OBVIOUS
  <2>2. PICK x \in e : TRUE
    BY <2>1
  <2>3. x \in Nodes(s) /\ x \in Nodes(h) /\ h \subseteq k \ s
    BY <1>2, <2>1, <2>2 DEF Nodes
  <2>4. x \in Nodes(k \ s)
    BY <2>3, NodesOfParts
  <2> QED BY <2>3, <2>4
<1>3. CASE s \cap h = h
  <2>1. PICK e \in k \ s : TRUE
    OBVIOUS
  <2>2. PICK x \in e : TRUE
    BY <2>1
  <2>3. x \in Nodes(k \ s) /\ x \in Nodes(h) /\ h \subseteq s
    BY <1>3, <2>1, <2>2 DEF Nodes
  <2>4. x \in Nodes(s)
    BY <2>3, NodesOfParts
  <2> QED BY <2>3, <2>4
<1> QED BY <1>1, <1>2, <1>3

LEMMA OneEach ==
  ASSUME NEW all, NEW rank, \A c \in all : c.ex \in Nat /\ rank[Graph(c.father)] \in Nat
  PROVE  /\ OnePerGraph(all, rank) \subseteq all
         /\ \A c \in all : \E d \in OnePerGraph(all, rank) : Graph(d.pat) = Graph(c.pat)
         /\ \A c, d \in OnePerGraph(all, rank) : Graph(c.pat) = Graph(d.pat) => c = d
<1> DEFINE Of(p) == {x \in all : Graph(x.pat) = p}
           Gs == {Graph(x.pat) : x \in all}
<1>1. ASSUME NEW p \in Gs
      PROVE  First(Of(p), rank) \in Of(p)
  <2> DEFINE R == {rank[Graph(c.father)] : c \in Of(p)}
  <2>1. R \subseteq Nat /\ R # {}
    OBVIOUS
  <2> HIDE DEF R
  <2>2. PICK r \in R : \A k \in R : r <= k
    BY <2>1, LeastOf
  <2> DEFINE S == {c.ex : c \in {x \in Of(p) : rank[Graph(x.father)] = r}}
  <2>3. S \subseteq Nat /\ S # {}
    BY <2>2 DEF R
  <2> HIDE DEF S
  <2>4. PICK n \in S : \A m \in S : n <= m
    BY <2>3, LeastOf
  <2>5. PICK c \in Of(p) : c.ex = n /\ rank[Graph(c.father)] = r
    BY <2>4 DEF S
  <2>6. ASSUME NEW d \in Of(p)
        PROVE  \/ rank[Graph(c.father)] < rank[Graph(d.father)]
               \/ rank[Graph(c.father)] = rank[Graph(d.father)] /\ c.ex <= d.ex
    <3>1. rank[Graph(d.father)] \in R /\ rank[Graph(d.father)] \in Nat /\ r \in Nat
      BY <2>1, <2>2 DEF R
    <3>2. r <= rank[Graph(d.father)]
      BY <2>2, <3>1
    <3>3. rank[Graph(d.father)] = r => n <= d.ex
      BY <2>4 DEF S
    <3> QED BY <2>5, <3>1, <3>2, <3>3
  <2> HIDE DEF Of
  <2> QED BY <2>6 DEF First
<1>2. OnePerGraph(all, rank) = {First(Of(p), rank) : p \in Gs}
  BY DEF OnePerGraph
<1>3. ASSUME NEW c \in all
      PROVE  \E d \in OnePerGraph(all, rank) : Graph(d.pat) = Graph(c.pat)
  <2>1. Graph(c.pat) \in Gs
    OBVIOUS
  <2>2. First(Of(Graph(c.pat)), rank) \in OnePerGraph(all, rank)
    BY <1>2, <2>1
  <2> QED BY <1>1, <2>1, <2>2
<1>4. OnePerGraph(all, rank) \subseteq all
  BY <1>1, <1>2
<1>5. ASSUME NEW c \in OnePerGraph(all, rank), NEW d \in OnePerGraph(all, rank), Graph(c.pat) = Graph(d.pat)
      PROVE  c = d
  <2>1. PICK k \in Gs : c = First(Of(k), rank)
    BY <1>2
  <2>2. PICK h \in Gs : d = First(Of(h), rank)
    BY <1>2
  <2>3. Graph(c.pat) = k /\ Graph(d.pat) = h
    BY <1>1, <2>1, <2>2
  <2> QED BY <1>5, <2>1, <2>2, <2>3
<1> QED BY <1>3, <1>4, <1>5

-----------------------------------------------------------------------------
(* What a site knows.                                                       *)

\* The real edges are those of the problem, between two of its vertices.
LEMMA EdgeEnds ==
  ASSUME g \in Problem, NEW u, NEW v, {u, v} \in g.edges
  PROVE  u \in DOMAIN g.label /\ v \in DOMAIN g.label /\ g.own[v] \in Client
BY ProblemAssumption DEF ProblemAssumption

\* A site knows all neighbours of its own vertices.
LEMMA OwnKnown ==
  ASSUME g \in Problem, NEW i \in Client, NEW edges, Component(g, i) \subseteq edges, edges \subseteq g.edges,
         NEW v, g.own[v] = i, NEW l
  PROVE  Neighbers(g, edges, v, l) = Neighbers(g, g.edges, v, l)
<1> SUFFICES ASSUME NEW u, {u, v} \in g.edges PROVE {u, v} \in edges
  BY DEF Neighbers
<1>1. v \notin Virtual(g, {u, v}, i)
  BY DEF Virtual
<1>2. {u, v} \in Component(g, i)
  BY <1>1 DEF Component
<1> QED BY <1>2

\* The neighbours do not get fewer, and never more than there are.
LEMMA AnsweredStays ==
  ASSUME NEW E, NEW F, E \subseteq F, F \subseteq g.edges, NEW q, Answered(E, q)
  PROVE  Answered(F, q)
BY DEF Answered, Neighbers

\* The answer of the owner, whoever else answers.
LEMMA AnswerIs ==
  ASSUME g \in Problem, EdgesReal, NEW k \in Client, NEW j \in Client, NEW q \in inbox[k][j], g.own[q[1]] = k,
         NEW E, E \subseteq g.edges, Answer(k, j) \subseteq E
  PROVE  Answered(E, q)
<1>1. Neighbers(g, known[k], q[1], q[2]) = Neighbers(g, g.edges, q[1], q[2])
  BY OwnKnown DEF EdgesReal
<1>2. ASSUME NEW u \in Neighbers(g, g.edges, q[1], q[2]) PROVE {u, q[1]} \in E
  <2>1. {q[1], u} \in Answer(k, j)
    BY <1>1 DEF Answer
  <2>2. {q[1], u} = {u, q[1]}
    OBVIOUS
  <2> QED BY <2>1, <2>2
<1> QED BY <1>2 DEF Answered, Neighbers

\* What is answered are edges of the graph.
LEMMA AnswerReal ==
  ASSUME EdgesReal, NEW k \in Client, NEW j
  PROVE  Answer(k, j) \subseteq g.edges
<1> SUFFICES ASSUME NEW q \in inbox[k][j], NEW u \in Neighbers(g, known[k], q[1], q[2]) PROVE {q[1], u} \in g.edges
  BY DEF Answer
<1>1. {u, q[1]} \in known[k] /\ {u, q[1]} = {q[1], u}
  BY DEF Neighbers
<1> QED BY <1>1 DEF EdgesReal

LEMMA AskInit == Init => AskInv
<1> SUFFICES ASSUME Init PROVE AskInv
  OBVIOUS
<1> USE DEF Init
<1>1. \A i \in Client : known[i] = Component(g, i) /\ asked[i] = {}
  OBVIOUS
<1>2. EdgesReal
  BY <1>1 DEF EdgesReal, Component
<1>3. Questions /\ Answers /\ AskedFor /\ Steps
  BY <1>1 DEF Questions, Answers, AskedFor, Steps
<1> QED BY <1>2, <1>3 DEF AskInv

\* The steps of a round that have nothing to do with questions.
LEMMA AskKept ==
  ASSUME AskInv, g' = g, known' = known, asked' = asked, Steps', step' \in {"count", "keep", "end"},
         step \in {"count", "keep"} \/ (step = "extend" /\ done = Client)
  PROVE  AskInv'
<1> USE DEF AskInv
<1>1. EdgesReal'
  BY DEF EdgesReal
<1>2. Questions'
  <2>1. ASSUME NEW i \in Client, NEW q \in asked[i] PROVE Answered(known[i], q)
    BY DEF Questions
  <2>2. \A i, q : Answered(known[i], q)' <=> Answered(known[i], q)
    BY DEF Answered
  <2> QED BY <2>1, <2>2 DEF Questions
<1>3. Answers' /\ AskedFor'
  BY DEF Answers, AskedFor
<1> QED BY <1>1, <1>2, <1>3

LEMMA AskBySite ==
  ASSUME AskInv, NEW i \in Client, Site(i)
  PROVE  AskInv'
<1> USE DEF AskInv
<1>0. UNCHANGED <<g, T, at, level, cands, freq, step, inbox>> /\ DOMAIN inbox = Client
  BY DEF Site, master, Steps
<1>d. DOMAIN known = Client /\ DOMAIN asked = Client /\ DOMAIN outbox = Client /\ DOMAIN pattern_map = Client /\ DOMAIN local = Client
  BY DEF Steps
<1>1. CASE SiteAsks(i)
  <2> DEFINE need == Wanted(i) \ asked[i]
  <2>1. /\ step = "ask" /\ i \in Client \ done /\ done' = done \union {i}
        /\ outbox' = [outbox EXCEPT ![i] = need] /\ asked' = [asked EXCEPT ![i] = @ \union need]
        /\ UNCHANGED <<known, pattern_map, local>>
    <3>1. need = (UNION {Virtual(g, pattern_map[i][c.father].mni[c.ex], i) \X {c.new} : c \in Mine(i)}) \ asked[i]
      BY DEF Wanted
    <3> HIDE DEF need
    <3> QED BY <1>1, <3>1 DEF SiteAsks, Turn, Says
  <2>2. /\ asked'[i] = asked[i] \union need /\ outbox'[i] = need /\ outbox[i] = {}
        /\ \A j \in Client \ {i} : asked'[j] = asked[j] /\ outbox'[j] = outbox[j]
        /\ DOMAIN asked' = Client /\ DOMAIN outbox' = Client
    BY <2>1, <1>d DEF Answers
  <2>3. \A j : Wanted(j)' = Wanted(j)
    BY <2>1, <1>0 DEF Wanted, Virtual, Mine
  <2> HIDE DEF need
  <2>4. Steps' /\ EdgesReal' /\ Answers'
    <3>1. Steps'
      BY <1>0, <1>d, <2>1, <2>2 DEF Steps
    <3>2. EdgesReal' /\ Answers'
      BY <1>0, <1>d, <2>1, <2>2 DEF EdgesReal, Component, Virtual, Answers
    <3> QED BY <3>1, <3>2
  <2>5. Questions'
    <3> SUFFICES ASSUME NEW j \in Client, NEW q \in asked'[j] PROVE q \in outbox'[j] \/ Answered(known[j], q)
      BY <1>0, <2>1 DEF Questions, Answered
    <3>1. CASE j = i
      <4>1. q \in asked[i] => Answered(known[i], q)
        BY <2>1, <2>2 DEF Questions
      <4> QED BY <3>1, <4>1, <2>2
    <3>2. CASE j # i
      BY <3>2, <2>1, <2>2 DEF Questions
    <3> QED BY <3>1, <3>2
  <2>6. AskedFor'
    <3> SUFFICES ASSUME at = 0, NEW j \in Client, j \in done' PROVE Wanted(j) \subseteq asked'[j]
      BY <1>0, <2>1, <2>3 DEF AskedFor
    <3>1. CASE j = i
      BY <3>1, <2>2 DEF need
    <3>2. CASE j # i
      BY <3>2, <2>1, <2>2 DEF AskedFor
    <3> QED BY <3>1, <3>2
  <2> QED BY <2>4, <2>5, <2>6
<1>2. CASE SiteAnswers(i)
  <2>1. /\ step = "answer" /\ i \in Client \ done /\ done' = done \union {i}
        /\ outbox' = [outbox EXCEPT ![i] = [j \in Client |-> Answer(i, j)]]
        /\ UNCHANGED <<known, asked, pattern_map, local>>
    BY <1>2 DEF SiteAnswers, Turn, Says, Answer
  <2>2. \A k, j : Answer(k, j)' = Answer(k, j)
    BY <2>1, <1>0 DEF Answer, Neighbers
  <2>3. Steps' /\ EdgesReal'
    BY <1>0, <1>d, <2>1 DEF Steps, EdgesReal, Component, Virtual
  <2>4. Questions' /\ AskedFor'
    BY <1>0, <2>1 DEF Questions, Answered, AskedFor, Wanted, Virtual, Mine
  <2>5. Answers'
    <3> SUFFICES ASSUME NEW k \in done', NEW j \in Client PROVE outbox'[k][j] = Answer(k, j)
      BY <1>0, <2>1, <2>2 DEF Answers
    <3>1. CASE k = i
      BY <3>1, <2>1, <1>d
    <3>2. CASE k # i
      BY <3>2, <2>1, <1>d DEF Answers
    <3> QED BY <3>1, <3>2
  <2> QED BY <2>3, <2>4, <2>5
<1>3. CASE SiteExtends(i)
  <2>1. /\ step = "extend" /\ i \in Client \ done /\ done' = done \union {i}
        /\ known' = [known EXCEPT ![i] = known[i] \union inbox[i]]
        /\ UNCHANGED <<asked, pattern_map>>
        /\ DOMAIN local' = Client /\ DOMAIN outbox' = Client
    BY <1>3, <1>d DEF SiteExtends, Turn, Says
  <2>2. known'[i] = known[i] \union inbox[i] /\ DOMAIN known' = Client /\ \A j \in Client \ {i} : known'[j] = known[j]
    BY <2>1, <1>d
  <2>3. Steps'
    BY <1>0, <1>d, <2>1, <2>2 DEF Steps
  <2>4. EdgesReal' /\ Answers'
    BY <1>0, <2>1, <2>2 DEF EdgesReal, Answers, Component, Virtual
  <2>5. Questions'
    <3>0. g' = g /\ step' = "extend" /\ asked' = asked /\ inbox' = inbox
      BY <1>0, <2>1
    <3>a. \A q : /\ \A j : Answered(known[j] \union inbox[j], q)' <=> Answered(known'[j] \union inbox[j], q)
                 /\ \A j : Answered(known[j], q)' <=> Answered(known'[j], q)
      BY <3>0 DEF Answered
    <3> SUFFICES ASSUME NEW j \in Client, NEW q \in asked[j]
                 PROVE  /\ j \notin done' => Answered(known'[j] \union inbox[j], q)
                        /\ j \in done' => Answered(known'[j], q)
      BY <3>0, <3>a DEF Questions
    <3>1. CASE j = i
      BY <3>1, <2>1, <2>2 DEF Questions
    <3>2. CASE j # i
      BY <3>2, <2>1, <2>2 DEF Questions
    <3> QED BY <3>1, <3>2
  <2>6. AskedFor'
    BY <1>0, <2>1 DEF AskedFor, Wanted, Virtual, Mine
  <2> QED BY <2>3, <2>4, <2>5, <2>6
<1>4. CASE SiteCounts(i) \/ SiteKeeps(i)
  <2>1. /\ step \in {"count", "keep"} /\ i \in Client /\ done' = done \union {i}
        /\ UNCHANGED <<known, asked>>
        /\ DOMAIN pattern_map' = Client /\ DOMAIN local' = Client /\ DOMAIN outbox' = Client
    BY <1>4, <1>d DEF SiteCounts, SiteKeeps, Turn, Says
  <2>2. Steps'
    BY <1>0, <1>d, <2>1 DEF Steps
  <2>3. step' \in {"count", "keep", "end"} /\ (step \in {"count", "keep"} \/ (step = "extend" /\ done = Client))
    BY <1>0, <2>1
  <2>4. g' = g /\ known' = known /\ asked' = asked
    BY <1>0, <2>1
  <2> QED BY <2>2, <2>3, <2>4, AskKept
<1> QED BY <1>1, <1>2, <1>3, <1>4 DEF Site

LEMMA AskByMaster ==
  ASSUME AskInv, Master
  PROVE  AskInv'
<1> USE DEF AskInv
<1>0. UNCHANGED <<g, known, asked, pattern_map, local>>
  BY DEF Master
<1>d. /\ Client = DOMAIN known /\ Client = DOMAIN asked /\ Client = DOMAIN inbox /\ Client = DOMAIN outbox
      /\ Client = DOMAIN pattern_map /\ Client = DOMAIN local
  BY DEF Steps
<1>e. EdgesReal' /\ \A i, q : /\ Answered(known[i], q)' <=> Answered(known[i], q)
                              /\ Mine(i)' = {c \in cands' : c.father \in DOMAIN pattern_map[i]}
  BY <1>0 DEF EdgesReal, Component, Virtual, Answered, Mine
<1>1. CASE MasterRoutesQuestions
  <2>1. /\ step = "ask" /\ done = Client /\ step' = "answer" /\ done' = {}
        /\ inbox' = [i \in Client |-> [j \in Client |-> {q \in outbox[j] : g.own[q[1]] = i}]]
        /\ DOMAIN outbox' = Client /\ UNCHANGED <<T, at, level, cands, freq>>
    BY <1>1 DEF MasterRoutesQuestions, All, Then, master
  <2>2. Steps' /\ Answers' /\ AskedFor'
    BY <1>0, <1>d, <2>1 DEF Steps, Answers, AskedFor, Wanted, Virtual, Mine
  <2>3. Questions'
    BY <1>0, <1>e, <2>1 DEF Questions
  <2> QED BY <1>e, <2>2, <2>3
<1>2. CASE MasterRoutesNodes
  <2>1. /\ step = "answer" /\ done = Client /\ step' = "extend" /\ done' = {}
        /\ inbox' = [j \in Client |-> UNION {outbox[i][j] : i \in Client}]
        /\ DOMAIN outbox' = Client /\ UNCHANGED <<T, at, level, cands, freq>>
    BY <1>2 DEF MasterRoutesNodes, All, Then, master
  <2>2. \A j \in Client : inbox'[j] = UNION {Answer(i, j) : i \in Client}
    <3> SUFFICES ASSUME NEW j \in Client PROVE \A i \in Client : outbox[i][j] = Answer(i, j)
      BY <2>1
    <3> QED BY <2>1 DEF Answers
  <2>3. \A j \in Client : inbox'[j] \subseteq g.edges
    <3> SUFFICES ASSUME NEW j \in Client, NEW i \in Client PROVE Answer(i, j) \subseteq g.edges
      BY <2>2
    <3> QED BY AnswerReal
  <2>4. Steps' /\ Answers' /\ AskedFor'
    BY <1>0, <1>d, <2>1, <2>3 DEF Steps, Answers, AskedFor, Wanted, Virtual, Mine
  <2>5. Questions'
    <3> SUFFICES ASSUME NEW j \in Client, NEW q \in asked[j]
                 PROVE  Answered(known[j] \union inbox'[j], q)
      BY <1>0, <2>1 DEF Questions, Answered
    <3> DEFINE E == known[j] \union inbox'[j]
    <3>1. known[j] \subseteq E /\ E \subseteq g.edges
      BY <2>3 DEF EdgesReal
    <3>2. CASE Answered(known[j], q)
      BY <3>1, <3>2, AnsweredStays
    <3>3. CASE \A k \in Client : g.own[q[1]] = k => q \in inbox[k][j]
      <4> HIDE DEF E
      <4>1. CASE g.own[q[1]] \in Client
        <5>1. PICK k \in Client : g.own[q[1]] = k /\ q \in inbox[k][j]
          BY <3>3, <4>1
        <5>2. Answer(k, j) \subseteq E
          BY <2>2 DEF E
        <5>3. g \in Problem
          BY DEF Steps
        <5> QED BY <3>1, <5>1, <5>2, <5>3, AnswerIs DEF E
      <4>2. CASE g.own[q[1]] \notin Client
        <5>1. \A u : {u, q[1]} \notin g.edges
          BY <4>2, EdgeEnds DEF Steps
        <5>2. Answered(E, q)
          BY <3>1, <5>1 DEF Answered, Neighbers
        <5> QED BY <5>2 DEF E
      <4> QED BY <4>1, <4>2
    <3> QED BY <2>1, <3>2, <3>3 DEF Questions
  <2> QED BY <1>e, <2>4, <2>5
<1>3. CASE MasterRoutesMatches \/ MasterSums
  <2>1. /\ (step = "extend" /\ done = Client /\ step' = "count") \/ (step = "count" /\ step' = "keep")
        /\ done' = {} /\ DOMAIN inbox' = Client /\ DOMAIN outbox' = Client
    <3>1. CASE MasterRoutesMatches
      BY <3>1, <1>d DEF MasterRoutesMatches, All
    <3>2. CASE MasterSums
      <4>1. DOMAIN inbox' = Client /\ outbox' = [i \in Client |-> {}]
        BY <3>2 DEF MasterSums, Then
      <4> QED BY <3>2, <4>1, <1>d DEF MasterSums, All, Then
    <3> QED BY <1>3, <3>1, <3>2
  <2>2. Steps'
    BY <1>0, <1>d, <2>1 DEF Steps
  <2>3. step' \in {"count", "keep", "end"} /\ (step \in {"count", "keep"} \/ (step = "extend" /\ done = Client))
    BY <1>0, <2>1
  <2>4. g' = g /\ known' = known /\ asked' = asked
    BY <1>0, <2>1
  <2> QED BY <2>2, <2>3, <2>4, AskKept
<1>4. CASE MasterGrows
  <2>1. /\ step = "keep" /\ step' = "ask" /\ done' = {} /\ DOMAIN inbox' = Client
        /\ outbox' = [i \in Client |-> {}]
    BY <1>4 DEF MasterGrows, All, Then, Clear
  <2>2. Steps' /\ Answers' /\ AskedFor'
    BY <1>0, <1>d, <2>1 DEF Steps, Answers, AskedFor
  <2>3. Questions'
    BY <1>0, <1>e, <2>1 DEF Questions
  <2> QED BY <1>e, <2>2, <2>3
<1>5. CASE (MasterDeepens \/ MasterOpensLevel) /\ step' = "extend"
  <2>1. /\ step = "keep" /\ step' = "extend" /\ done' = {} /\ at' # 0
        /\ inbox' = [i \in Client |-> {}] /\ DOMAIN outbox' = Client
    BY <1>5 DEF MasterDeepens, MasterOpensLevel, All, Then, Clear
  <2>2. Steps' /\ Answers' /\ AskedFor'
    BY <1>0, <1>d, <2>1 DEF Steps, Answers, AskedFor
  <2>3. Questions'
    BY <1>0, <1>e, <2>1 DEF Questions, Answered
  <2> QED BY <1>e, <2>2, <2>3
<1>6. CASE MasterOpensLevel /\ step' # "extend"
  <2>1. /\ step = "keep" /\ step' = "end" /\ UNCHANGED <<done, outbox>> /\ DOMAIN inbox' = Client
    BY <1>6 DEF MasterOpensLevel, All, Then, Clear
  <2>2. Steps'
    BY <1>0, <1>d, <2>1 DEF Steps
  <2>3. step' \in {"count", "keep", "end"} /\ (step \in {"count", "keep"} \/ (step = "extend" /\ done = Client))
    BY <1>0, <2>1
  <2>4. g' = g /\ known' = known /\ asked' = asked
    BY <1>0, <2>1
  <2> QED BY <2>2, <2>3, <2>4, AskKept
<1>7. MasterDeepens => step' = "extend"
  BY DEF MasterDeepens, Then
<1> QED BY <1>1, <1>2, <1>3, <1>4, <1>5, <1>6, <1>7 DEF Master

LEMMA AskStays ==
  ASSUME AskInv, [Next]_vars
  PROVE  AskInv'
<1>1. CASE UNCHANGED vars
  <2>1. /\ g' = g /\ at' = at /\ cands' = cands /\ step' = step /\ done' = done /\ inbox' = inbox /\ outbox' = outbox
        /\ known' = known /\ asked' = asked /\ pattern_map' = pattern_map /\ local' = local
    BY <1>1 DEF vars
  <2>2. Steps' /\ EdgesReal' /\ Questions' /\ AskedFor'
    <3>1. Steps'
      BY <2>1 DEF AskInv, Steps
    <3>2. EdgesReal' /\ Questions' /\ AskedFor'
      <4>1. EdgesReal' /\ AskedFor'
        BY <2>1 DEF AskInv, EdgesReal, AskedFor, Component, Virtual, Wanted, Mine
      <4>2. Questions'
        BY <2>1 DEF AskInv, Questions, Answered
      <4> QED BY <4>1, <4>2
    <3> QED BY <3>1, <3>2
  <2>3. \A k, j : Answer(k, j)' = Answer(k, j)
    BY <2>1 DEF Answer, Neighbers
  <2>4. Answers'
    BY <2>1, <2>3 DEF AskInv, Answers
  <2> QED BY <2>2, <2>4 DEF AskInv
<1> QED BY <1>1, AskBySite, AskByMaster DEF Next

\* No site misses a neighbour of a vertex that it extends, whatever the graph,
\* the partition and the number of sites (Get_Needmessage: a question is put
\* once, and its answer is there before the patterns are extended).
THEOREM NoNeighbourMissing == Spec => []NeighboursKnown
<1>1. AskInv => NeighboursKnown
  <2> SUFFICES ASSUME AskInv, step = "extend", at = 0, NEW i \in Client \ done, NEW c \in Mine(i),
                      NEW v \in pattern_map[i][c.father].mni[c.ex]
               PROVE  Neighbers(g, known[i] \union inbox[i], v, c.new) = Neighbers(g, g.edges, v, c.new)
    BY DEF NeighboursKnown
  <2>1. CASE g.own[v] = i
    BY <2>1, OwnKnown DEF AskInv, Steps, EdgesReal, Answers
  <2>2. CASE g.own[v] # i
    <3>1. <<v, c.new>> \in Wanted(i)
      BY <2>2 DEF Wanted, Virtual
    <3>2. Answered(known[i] \union inbox[i], <<v, c.new>>)
      BY <3>1 DEF AskInv, AskedFor, Questions
    <3> QED BY <3>2 DEF Answered
  <2> QED BY <2>1, <2>2
<1> QED BY <1>1, AskInit, AskStays, PTL DEF Spec

-----------------------------------------------------------------------------
(* The problem, and what is a match.                                        *)

Pick(d) == CHOOSE x \in d : TRUE
LEMMA PickIs ==
  ASSUME NEW D
  PROVE  /\ Picks([d \in SUBSET D |-> Pick(d)], D)
         /\ \A d \in SUBSET D : d # {} => Pick(d) \in d /\ Pick(d) \in D /\ d \ {Pick(d)} \in SUBSET D
BY DEF Pick, Picks

\* A set of sets that has each set with the set less one of its elements.
GrowsBy(D, S) == {} \in S /\ \A d \in SUBSET D : d # {} => (d \ {Pick(d)} \in S => d \in S)
LEMMA SubsetsIn ==
  ASSUME NEW D, IsFiniteSet(D), NEW S, GrowsBy(D, S)
  PROVE  D \in S
<1>1. \A d \in SUBSET D : d # {} => \E x \in d : d \ {x} \in S => d \in S
  BY PickIs DEF GrowsBy
<1>2. {} \in S
  BY DEF GrowsBy
<1>3. SUBSET D \subseteq S
  BY <1>1, <1>2, SubsetSteps
<1> QED BY <1>3

\* Two folds of the same set are the same.
SameSteps(f, h, D) == f[{}] = h[{}] /\ \A d \in SUBSET D : d # {} /\ f[d \ {Pick(d)}] = h[d \ {Pick(d)}] => f[d] = h[d]
LEMMA SameSetFold ==
  ASSUME NEW D, IsFiniteSet(D), NEW f, NEW h, SameSteps(f, h, D)
  PROVE  f[D] = h[D]
<1> DEFINE S == {d \in SUBSET D : f[d] = h[d]}
<1>1. GrowsBy(D, S)
  BY DEF GrowsBy, SameSteps
<1> HIDE DEF S
<1>2. D \in S
  BY <1>1, SubsetsIn
<1> QED BY <1>2 DEF S

\* A function of labels to vertices that keeps the columns and, as far as it
\* goes, the edges.
Kept(p, columns, edges, f) ==
  /\ \A l \in DOMAIN f : f[l] \in columns[l]
  /\ \A e \in p : e \subseteq DOMAIN f => {f[a] : a \in e} \in edges

MatchStep(p, columns, edges, l, found) ==
  {f \in {Put(x[1], l, x[2]) : x \in found \X columns[l]} :
     \A e \in p : l \in e /\ e \subseteq DOMAIN f => {f[a] : a \in e} \in edges}

\* The functions found have labels d and values in the columns, and among them
\* is the part of each match.
HasParts(p, columns, edges, V, d, found) ==
  /\ found \subseteq [d -> V] /\ \A f \in found, l \in d : f[l] \in columns[l]
  /\ \A m \in [Nodes(p) -> V] : Kept(p, columns, edges, m) => [a \in d |-> m[a]] \in found
LEMMA MatchGoes ==
  ASSUME NEW p, NEW columns, NEW edges, NEW V, \A l \in Nodes(p) : columns[l] \subseteq V,
         NEW d \in SUBSET Nodes(p), NEW l \in d, NEW found, HasParts(p, columns, edges, V, d \ {l}, found)
  PROVE  HasParts(p, columns, edges, V, d, MatchStep(p, columns, edges, l, found))
<1>0. /\ found \subseteq [d \ {l} -> V] /\ \A f \in found, k \in d \ {l} : f[k] \in columns[k]
      /\ \A m \in [Nodes(p) -> V] : Kept(p, columns, edges, m) => [a \in d \ {l} |-> m[a]] \in found
  BY DEF HasParts
<1>1. ASSUME NEW x \in found \X columns[l]
      PROVE  Put(x[1], l, x[2]) \in [d -> V] /\ \A k \in d : Put(x[1], l, x[2])[k] \in columns[k]
  <2>1. x[1] \in found /\ x[2] \in columns[l] /\ x[2] \in V
    OBVIOUS
  <2>2. PICK f, v : /\ f = x[1] /\ v = x[2] /\ f \in [d \ {l} -> V] /\ v \in V /\ v \in columns[l]
                    /\ \A k \in d \ {l} : f[k] \in columns[k]
    BY <1>0, <2>1
  <2>3. Put(f, l, v) = [i \in DOMAIN f \union {l} |-> IF i = l THEN v ELSE f[i]] /\ DOMAIN f \union {l} = d
    BY <2>2 DEF Put
  <2>4. Put(f, l, v) \in [d -> V] /\ \A k \in d : Put(f, l, v)[k] \in columns[k]
    BY <2>2, <2>3
  <2> QED BY <2>2, <2>4
<1>2. ASSUME NEW m \in [Nodes(p) -> V], Kept(p, columns, edges, m)
      PROVE  [a \in d |-> m[a]] \in MatchStep(p, columns, edges, l, found)
  <2> DEFINE h == [a \in d \ {l} |-> m[a]]
             f == [a \in d |-> m[a]]
             x == <<h, m[l]>>
  <2>1. m[l] \in columns[l]
    BY <1>2 DEF Kept
  <2>2. x \in found \X columns[l] /\ x[1] = h /\ x[2] = m[l]
    BY <1>0, <1>2, <2>1
  <2>3. Put(h, l, m[l]) = f
    BY DEF Put
  <2>4. \A e \in p : e \subseteq DOMAIN f => {f[a] : a \in e} \in edges
    <3> SUFFICES ASSUME NEW e \in p, e \subseteq d PROVE {f[a] : a \in e} \in edges
      OBVIOUS
    <3>1. {f[a] : a \in e} = {m[a] : a \in e}
      OBVIOUS
    <3>2. e \subseteq DOMAIN m
      OBVIOUS
    <3> QED BY <1>2, <3>1, <3>2 DEF Kept
  <2> HIDE DEF h, f, x
  <2>5. f \in MatchStep(p, columns, edges, l, found)
    BY <2>2, <2>3, <2>4 DEF MatchStep
  <2> QED BY <2>5 DEF f
<1>3. /\ MatchStep(p, columns, edges, l, found) \subseteq [d -> V]
      /\ \A f \in MatchStep(p, columns, edges, l, found), k \in d : f[k] \in columns[k]
  BY <1>1 DEF MatchStep
<1> QED BY <1>2, <1>3 DEF HasParts

\* The search has all matches, and nothing else than functions to the vertices.
AreMatches(p, columns, edges, V, found) ==
  /\ found \subseteq [Nodes(p) -> V] /\ \A f \in found, l \in Nodes(p) : f[l] \in columns[l]
  /\ \A m \in [Nodes(p) -> V] : Kept(p, columns, edges, m) => m \in found
LEMMA MatchesAre ==
  ASSUME NEW p, IsFiniteSet(Nodes(p)), NEW columns, NEW edges, NEW V, \A l \in Nodes(p) : columns[l] \subseteq V
  PROVE  AreMatches(p, columns, edges, V, Matches(p, columns, edges))
<1> DEFINE D == Nodes(p)
           R == SUBSET Partials(D, V)
           Op(l, found) == MatchStep(p, columns, edges, l, found)
           last == [d \in SUBSET D |-> Pick(d)]
           G == [y \in R \X D |-> Op(y[2], y[1])]
           Eq(it) == it = [d \in SUBSET D |-> IF d = {} THEN {<<>>} ELSE Op(Pick(d), it[d \ {Pick(d)}])]
<1>1. Matches(p, columns, edges) = (CHOOSE it : Eq(it))[D]
  BY DEF Matches, FoldSet, MapThenFoldSet, MatchStep, Pick
<1>0. IsFiniteSet(D)
  OBVIOUS
<1>2. {<<>>} \in R
  <2>1. <<>> \in [{} -> V] /\ {} \in SUBSET D
    OBVIOUS
  <2>2. <<>> \in Partials(D, V)
    BY <2>1 DEF Partials
  <2> QED BY <2>2
<1>3. \A y \in R, l \in D : Op(l, y) \in R
  <2> SUFFICES ASSUME NEW y \in R, NEW l \in D, NEW x \in y \X columns[l] PROVE Put(x[1], l, x[2]) \in Partials(D, V)
    BY DEF MatchStep
  <2>1. PICK f, v : f = x[1] /\ v = x[2] /\ f \in Partials(D, V) /\ v \in V
    OBVIOUS
  <2>2. Put(f, l, v) \in Partials(D, V)
    BY <2>1, PutType
  <2> QED BY <2>1, <2>2
<1> HIDE DEF Op, R
<1>4. Stays(G, R, D) /\ \A y \in R, l \in D : G[<<y, l>>] = Op(l, y)
  <2>1. \A y \in R, l \in D : G[<<y, l>>] = Op(l, y)
    OBVIOUS
  <2> HIDE DEF G
  <2> QED BY <1>3, <2>1 DEF Stays
<1>5. Picks(last, D) /\ \A d \in SUBSET D : last[d] = Pick(d)
  BY PickIs
<1> HIDE DEF G, last
<1>6. PICK it \in [SUBSET D -> R] : IsFold(it, D, last, {<<>>}, G)
  BY <1>2, <1>4, <1>5, FoldExists
<1>7. it[{}] = {<<>>} /\ \A d \in SUBSET D : d # {} => it[d] = Op(Pick(d), it[d \ {Pick(d)}])
  <2>1. it[{}] = {<<>>}
    BY <1>6 DEF IsFold
  <2>2. ASSUME NEW d \in SUBSET D, d # {} PROVE it[d] = Op(Pick(d), it[d \ {Pick(d)}])
    <3>1. Pick(d) \in D /\ d \ {Pick(d)} \in SUBSET D
      BY <2>2, PickIs
    <3>2. it[d \ {Pick(d)}] \in R
      BY <3>1
    <3>3. it[d] = G[<<it[d \ {last[d]}], last[d]>>]
      BY <1>6, <2>2 DEF IsFold
    <3> QED BY <1>4, <1>5, <3>1, <3>2, <3>3
  <2> QED BY <2>1, <2>2
<1>8. Eq(it)
  BY <1>7
<1>9. PICK f : f = (CHOOSE h : Eq(h)) /\ Eq(f)
  <2> HIDE DEF Eq
  <2> QED BY <1>8
<1>10. f[{}] = {<<>>} /\ \A d \in SUBSET D : d # {} => f[d] = Op(Pick(d), f[d \ {Pick(d)}])
  BY <1>9
<1>11. f[D] = it[D]
  <2> HIDE DEF D
  <2>1. SameSteps(f, it, D)
    BY <1>7, <1>10 DEF SameSteps
  <2> QED BY <1>0, <2>1, SameSetFold
<1> DEFINE S == {d \in SUBSET D : HasParts(p, columns, edges, V, d, it[d])}
<1>12. {} \in S
  <2>1. \A m : [a \in {} |-> m[a]] = <<>>
    OBVIOUS
  <2>2. <<>> \in [{} -> V]
    OBVIOUS
  <2> QED BY <1>7, <2>1, <2>2 DEF HasParts
<1>13. ASSUME NEW d \in SUBSET D, d # {}, d \ {Pick(d)} \in S PROVE d \in S
  <2>1. PICK l : l = Pick(d) /\ l \in d
    BY <1>13, PickIs
  <2>2. PICK found : found = it[d \ {l}]
    OBVIOUS
  <2>3. it[d] = MatchStep(p, columns, edges, l, found)
    BY <1>7, <1>13, <2>1, <2>2 DEF Op
  <2>4. HasParts(p, columns, edges, V, d \ {l}, found)
    BY <1>13, <2>1, <2>2
  <2>5. HasParts(p, columns, edges, V, d, it[d])
    BY <2>1, <2>3, <2>4, MatchGoes
  <2> QED BY <2>5
<1>14. D \in S
  <2> HIDE DEF S, D
  <2>1. GrowsBy(D, S)
    BY <1>12, <1>13 DEF GrowsBy
  <2> QED BY <1>0, <2>1, SubsetsIn
<1>15. \A m \in [D -> V] : [a \in D |-> m[a]] = m
  OBVIOUS
<1>16. Matches(p, columns, edges) = it[D]
  BY <1>1, <1>9, <1>11
<1>17. HasParts(p, columns, edges, V, D, it[D])
  BY <1>14
<1> HIDE DEF S, Op
<1>18. PICK found : found = it[D]
  OBVIOUS
<1>19. /\ found \subseteq [D -> V] /\ \A f1 \in found, l \in D : f1[l] \in columns[l]
       /\ \A m \in [Nodes(p) -> V] : Kept(p, columns, edges, m) => [a \in D |-> m[a]] \in found
  BY <1>17, <1>18 DEF HasParts
<1>20. \A m \in [D -> V] : Kept(p, columns, edges, m) => m \in found
  BY <1>15, <1>19
<1>21. AreMatches(p, columns, edges, V, found)
  BY <1>19, <1>20 DEF AreMatches
<1> QED BY <1>16, <1>18, <1>21

LEMMA ImageIs ==
  ASSUME NEW S, IsFiniteSet(S), NEW f
  PROVE  IsFiniteSet({f[x] : x \in S})
<1> DEFINE I == {f[x] : x \in S}
           h == [x \in S |-> f[x]]
<1>1. h \in Surjection(S, I)
  BY DEF Surjection
<1>2. IsFiniteSet(I)
  BY <1>1, FS_Surjection
<1> QED BY <1>2

LEMMA TwoElements ==
  ASSUME NEW S, IsFiniteSet(S), Cardinality(S) = 2
  PROVE  \E a, b : a # b /\ S = {a, b}
<1>1. PICK a : a \in S
  BY FS_EmptySet
<1>2. IsFiniteSet(S \ {a}) /\ Cardinality(S \ {a}) = 1
  BY <1>1, FS_RemoveElement
<1>3. PICK b : S \ {a} = {b}
  BY <1>2, FS_Singleton
<1>4. S = {a} \union (S \ {a}) /\ b \in S \ {a}
  BY <1>1, <1>3
<1>5. a # b /\ S = {a, b}
  BY <1>3, <1>4
<1> QED BY <1>5

\* What a problem is.
LEMMA ProblemIs ==
  ASSUME g \in Problem
  PROVE  /\ IsGraph(g) /\ IsFiniteSet(DOMAIN g.label)
         /\ \A v \in DOMAIN g.label : g.own[v] \in Client /\ g.label[v] \in Nat
         /\ \A e \in g.edges : e \subseteq DOMAIN g.label
BY ProblemAssumption DEF ProblemAssumption, IsGraph

\* The ends of an edge have two labels.
LEMMA EdgeLabel ==
  ASSUME g \in Problem, NEW e \in g.edges
  PROVE  \E u, w : /\ e = {u, w} /\ u \in DOMAIN g.label /\ w \in DOMAIN g.label
                   /\ g.label[u] # g.label[w] /\ Labels(g, e) = {g.label[u], g.label[w]}
<1>1. e \subseteq DOMAIN g.label /\ Cardinality(e) = 2 /\ Cardinality(Labels(g, e)) = 2 /\ IsFiniteSet(DOMAIN g.label)
  BY ProblemAssumption DEF ProblemAssumption
<1>2. IsFiniteSet(e)
  BY <1>1, FS_Subset
<1>3. PICK u, w : u # w /\ e = {u, w}
  BY <1>1, <1>2, TwoElements
<1>4. Labels(g, e) = {g.label[u], g.label[w]}
  BY <1>3 DEF Labels
<1>5. g.label[u] # g.label[w]
  <2> SUFFICES ASSUME g.label[u] = g.label[w] PROVE FALSE
    OBVIOUS
  <2>1. Labels(g, e) = {g.label[u]}
    BY <1>4
  <2>2. Cardinality({g.label[u]}) = 1
    BY FS_Singleton
  <2> QED BY <1>1, <2>1, <2>2
<1> QED BY <1>1, <1>3, <1>4, <1>5

\* The labels of a frequent edge.
LEMMA FrequentIs ==
  ASSUME NEW x \in FrequentLabels(g)
  PROVE  \E e \in g.edges : x = Labels(g, e) /\ [fwd |-> {x}, bwd |-> {}] \in FrequentEdges(g)
<1>1. PICK p \in FrequentEdges(g) : x \in p.fwd
  BY DEF FrequentLabels
<1>2. PICK e \in g.edges : p = [fwd |-> {Labels(g, e)}, bwd |-> {}]
  BY DEF FrequentEdges
<1> QED BY <1>1, <1>2

LEMMA LabelPair ==
  ASSUME g \in Problem, NEW x \in FrequentLabels(g)
  PROVE  \E a, b \in Nat : a # b /\ x = {a, b}
<1>1. PICK e \in g.edges : x = Labels(g, e)
  BY FrequentIs
<1>2. PICK u, w : /\ u \in DOMAIN g.label /\ w \in DOMAIN g.label
                  /\ g.label[u] # g.label[w] /\ Labels(g, e) = {g.label[u], g.label[w]}
  BY EdgeLabel
<1>3. g.label[u] \in Nat /\ g.label[w] \in Nat
  BY <1>2, ProblemIs
<1> QED BY <1>1, <1>2, <1>3

\* The labels of a pattern.
LEMMA PatternIs ==
  ASSUME g \in Problem, NEW p \in Patterns(g)
  PROVE  /\ p = [fwd |-> p.fwd, bwd |-> p.bwd] /\ Graph(p) \subseteq FrequentLabels(g) /\ Graph(p) # {}
         /\ Nodes(Graph(p)) = Nodes(p.fwd) /\ Nodes(Graph(p)) \subseteq Nat /\ IsFiniteSet(Nodes(Graph(p)))
         /\ Connected(Graph(p)) /\ NoLoops(p.bwd)
         /\ \A e \in Graph(p) : e \subseteq Nodes(Graph(p)) /\ \E a, b : a # b /\ e = {a, b}
<1>1. /\ p = [fwd |-> p.fwd, bwd |-> p.bwd] /\ p.fwd \subseteq FrequentLabels(g) /\ p.bwd \subseteq FrequentLabels(g)
      /\ p.fwd # {} /\ Connected(p.fwd) /\ Nodes(p.bwd) \subseteq Nodes(p.fwd)
  BY DEF Patterns
<1>2. Nodes(Graph(p)) = Nodes(p.fwd)
  <2>1. Nodes(Graph(p)) = Nodes(p.fwd) \union Nodes(p.bwd)
    BY NodesOfParts DEF Graph
  <2> QED BY <1>1, <2>1
<1>3. Graph(p) \subseteq FrequentLabels(g) /\ p.fwd \subseteq Graph(p) /\ p.bwd \subseteq Graph(p)
  BY <1>1 DEF Graph
<1>4. \A e \in Graph(p) : e \subseteq Nodes(Graph(p)) /\ e # {} /\ (\E a, b \in Nat : a # b /\ e = {a, b})
  BY <1>3, LabelPair DEF Nodes
<1>5. Connected(Graph(p))
  BY <1>1, <1>2, <1>3, <1>4, ConnectedFills
<1>6. NoLoops(p.bwd)
  <2> SUFFICES ASSUME NEW l, {l} \in p.bwd PROVE FALSE
    BY DEF NoLoops
  <2>1. {l} \in Graph(p)
    BY <1>3
  <2>2. PICK a, b : a # b /\ {l} = {a, b}
    BY <1>4, <2>1
  <2> QED BY <2>2
<1>7. IsFiniteSet(Nodes(Graph(p)))
  <2> DEFINE S == {g.label[v] : v \in DOMAIN g.label}
  <2>1. IsFiniteSet(S)
    BY ProblemIs, ImageIs
  <2>2. ASSUME NEW l \in Nodes(Graph(p)) PROVE l \in S
    <3>1. PICK x \in FrequentLabels(g) : l \in x
      BY <1>3, NodesOfParts
    <3>2. PICK e \in g.edges : x = Labels(g, e)
      BY FrequentIs
    <3>3. e \subseteq DOMAIN g.label
      BY ProblemIs
    <3> QED BY <3>1, <3>2, <3>3 DEF Labels
  <2> HIDE DEF S
  <2> QED BY <2>1, <2>2, FS_Subset
<1>8. Nodes(Graph(p)) \subseteq Nat
  BY <1>4, NodesOfParts
<1> QED BY <1>1, <1>2, <1>3, <1>4, <1>5, <1>6, <1>7, <1>8

-----------------------------------------------------------------------------
(* What is true.                                                            *)

Vertices(l) == {v \in DOMAIN g.label : g.label[v] = l}

\* A map of the labels of a pattern to vertices.
IsMap(p, m) ==
  /\ m \in [Nodes(Graph(p)) -> DOMAIN g.label] /\ \A l \in Nodes(Graph(p)) : g.label[m[l]] = l
  /\ \A a, b \in Nodes(Graph(p)) : {a, b} \in Graph(p) => {m[a], m[b]} \in g.edges

LEMMA TruthIs ==
  ASSUME g \in Problem, NEW p \in Patterns(g)
  PROVE  /\ DOMAIN Truth(p) = Nodes(Graph(p))
         /\ \A l \in Nodes(Graph(p)) : Truth(p)[l] \subseteq Vertices(l) /\ IsFiniteSet(Truth(p)[l])
         /\ \A m : IsMap(p, m) => \A l \in Nodes(Graph(p)) : m[l] \in Truth(p)[l]
<1> DEFINE D == Nodes(Graph(p))
           V == DOMAIN g.label
           columns == [l \in D |-> {v \in V : g.label[v] = l}]
           found == Matches(Graph(p), columns, g.edges)
<1>1. Truth(p) = [l \in D |-> {f[l] : f \in found}]
  BY DEF Truth, Columns
<1>2. AreMatches(Graph(p), columns, g.edges, V, found)
  <2>1. IsFiniteSet(D) /\ \A l \in D : columns[l] \subseteq V
    BY PatternIs
  <2> HIDE DEF columns, V
  <2> QED BY <2>1, MatchesAre
<1> HIDE DEF found
<1>3. /\ found \subseteq [D -> V] /\ \A f \in found, l \in D : f[l] \in columns[l]
      /\ \A m \in [D -> V] : Kept(Graph(p), columns, g.edges, m) => m \in found
  BY <1>2 DEF AreMatches
<1>4. ASSUME NEW m, IsMap(p, m) PROVE m \in found
  <2>1. m \in [D -> V] /\ \A l \in D : m[l] \in columns[l]
    BY <1>4 DEF IsMap
  <2>2. ASSUME NEW e \in Graph(p) PROVE {m[a] : a \in e} \in g.edges
    <3>1. PICK a, b : e = {a, b} /\ e \subseteq D
      BY PatternIs
    <3>2. {m[c] : c \in {a, b}} = {m[a], m[b]}
      OBVIOUS
    <3> QED BY <1>4, <3>1, <3>2 DEF IsMap
  <2>3. Kept(Graph(p), columns, g.edges, m)
    BY <2>1, <2>2 DEF Kept
  <2> QED BY <1>3, <2>1, <2>3
<1>5. ASSUME NEW l \in D PROVE Truth(p)[l] \subseteq Vertices(l) /\ IsFiniteSet(Truth(p)[l])
  <2>1. Truth(p)[l] \subseteq Vertices(l) /\ Truth(p)[l] \subseteq V
    BY <1>1, <1>3 DEF Vertices
  <2> QED BY <2>1, ProblemIs, FS_Subset
<1>6. \A m, l : m \in found /\ l \in D => m[l] \in Truth(p)[l]
  BY <1>1
<1> QED BY <1>1, <1>4, <1>5, <1>6

-----------------------------------------------------------------------------
(* What the master grows.                                                   *)

LEMMA FirstPatterns ==
  ASSUME g \in Problem
  PROVE  FrequentEdges(g) \subseteq Patterns(g)
<1> SUFFICES ASSUME NEW p \in FrequentEdges(g) PROVE p \in Patterns(g)
  OBVIOUS
<1>1. PICK x : p = [fwd |-> {x}, bwd |-> {}]
  BY DEF FrequentEdges
<1>2. x \in FrequentLabels(g)
  BY <1>1 DEF FrequentLabels
<1>3. Connected({x}) /\ Nodes({}) \subseteq Nodes({x})
  BY SingleConnected, NodesOfParts
<1> QED BY <1>1, <1>2, <1>3 DEF Patterns

\* The seeds are the neighbours along frequent edges.
LEMMA SeedsAre ==
  ASSUME NEW tree, tree[1] = FrequentEdges(g)
  PROVE  Seeds(tree) = SeedsOf(FrequentLabels(g))
BY DEF Seeds, FrequentLabels

LEMMA SeedIs ==
  ASSUME NEW p \in Patterns(g), NEW a \in Nodes(p.fwd), NEW b \in SeedsOf(FrequentLabels(g))[a]
  PROVE  {a, b} \in FrequentLabels(g)
<1>1. p.fwd \subseteq FrequentLabels(g)
  BY DEF Patterns
<1>2. a \in UNION FrequentLabels(g)
  BY <1>1 DEF Nodes
<1>3. SeedsOf(FrequentLabels(g))[a] = {y \in UNION FrequentLabels(g) : {a, y} \in FrequentLabels(g)}
  BY <1>2 DEF SeedsOf
<1> QED BY <1>3

\* A father and a candidate of it.
Grows(c) == c.father \in Patterns(g) /\ c.pat \in Patterns(g) /\ Extends(c) /\ c.ex \in Nat

LEMMA ForwardGrows ==
  ASSUME g \in Problem, NEW fathers, NEW p \in Patterns(g), NEW c \in ForwardOf(p, SeedsOf(FrequentLabels(g)), fathers)
  PROVE  Grows(c) /\ c.father = p
<1> DEFINE seeds == SeedsOf(FrequentLabels(g))
<1>1. PICK a, b :
        a \in Nodes(p.fwd) /\ b \in seeds[a] \ Nodes(p.fwd) /\
        c = [pat |-> [fwd |-> p.fwd \union {{a, b}}, bwd |-> {}], father |-> p, ex |-> a, new |-> b]
  <2>1. PICK a \in {x \in Nodes(p.fwd) : {x} \notin p.fwd} :
          c \in {[pat |-> [fwd |-> p.fwd \union {{a, b}}, bwd |-> {}], father |-> p, ex |-> a, new |-> b] :
                   b \in {y \in seeds[a] \ Nodes(p.fwd) : CheckForward(p.fwd \union {{a, y}}, y, fathers)}}
    BY DEF ForwardOf
  <2> HIDE DEF seeds
  <2> QED BY <2>1
<1>2. {a, b} \in FrequentLabels(g)
  BY <1>1, SeedIs
<1> HIDE DEF seeds
<1>3. /\ p.fwd \subseteq FrequentLabels(g) /\ Connected(p.fwd) /\ Nodes(p.fwd) \subseteq Nat
  BY PatternIs DEF Patterns
<1>4. PICK f : f = p.fwd \union {{a, b}}
  OBVIOUS
<1>5. f \subseteq FrequentLabels(g) /\ f # {} /\ Connected(f)
  <2>1. {a, b} \cap Nodes(p.fwd) # {}
    BY <1>1
  <2>2. Connected(p.fwd \union {{a, b}})
    BY <1>3, <2>1, ConnectedGrows
  <2> QED BY <1>2, <1>3, <1>4, <2>2
<1>6. Nodes({}) = {}
  BY NodesOfParts
<1>7. [fwd |-> f, bwd |-> {}] \in Patterns(g)
  BY <1>5, <1>6 DEF Patterns
<1>8. c.father = p /\ c.pat = [fwd |-> f, bwd |-> {}] /\ c.ex = a /\ c.new = b
  BY <1>1, <1>4
<1>9. Extends(c)
  BY <1>1, <1>4, <1>8 DEF Extends
<1> QED BY <1>1, <1>3, <1>7, <1>8, <1>9 DEF Grows

LEMMA BackwardGrows ==
  ASSUME g \in Problem, NEW lev, NEW p \in Patterns(g), NEW c \in BackwardOf(p, SeedsOf(FrequentLabels(g)), lev)
  PROVE  Grows(c) /\ c.father = p
<1> DEFINE seeds == SeedsOf(FrequentLabels(g))
           to(a) == {b \in Nodes(p.fwd) : /\ a # b /\ b \in seeds[a] /\ {a, b} \notin Graph(p)
                                           /\ CheckBackward(WithBack(p, {a, b}), lev)}
           by(a) == {[pat |-> WithBack(p, {a, b}), father |-> p, ex |-> a, new |-> b] : b \in to(a)}
<1>1. BackwardOf(p, seeds, lev) = UNION {by(a) : a \in Nodes(p.fwd)}
  BY DEF BackwardOf
<1>2. PICK a \in Nodes(p.fwd) : c \in by(a)
  <2> HIDE DEF by
  <2> QED BY <1>1
<1>3. PICK b \in to(a) : c = [pat |-> WithBack(p, {a, b}), father |-> p, ex |-> a, new |-> b]
  <2> HIDE DEF to
  <2> QED BY <1>2
<1>4. a # b /\ b \in Nodes(p.fwd) /\ b \in seeds[a]
  OBVIOUS
<1>5. {a, b} \in FrequentLabels(g)
  BY <1>2, <1>4, SeedIs
<1> HIDE DEF seeds, to, by
<1>6. /\ p.fwd \subseteq FrequentLabels(g) /\ p.bwd \subseteq FrequentLabels(g) /\ Connected(p.fwd)
      /\ p.fwd # {} /\ Nodes(p.bwd) \subseteq Nodes(p.fwd)
  BY DEF Patterns
<1>7. PICK h : h = p.bwd \union {{a, b}}
  OBVIOUS
<1>8. Nodes(h) \subseteq Nodes(p.fwd)
  <2>1. Nodes(h) = Nodes(p.bwd) \union Nodes({{a, b}}) /\ Nodes({{a, b}}) = {a, b}
    <3>1. Nodes(p.bwd \union {{a, b}}) = Nodes(p.bwd) \union Nodes({{a, b}})
      BY NodesOfParts
    <3>2. Nodes({{a, b}}) = {a, b}
      BY NodesOfParts
    <3> QED BY <1>7, <3>1, <3>2
  <2> QED BY <1>4, <1>6, <2>1
<1>9. [fwd |-> p.fwd, bwd |-> h] \in Patterns(g)
  <2>1. h \subseteq FrequentLabels(g)
    BY <1>5, <1>6, <1>7
  <2> QED BY <1>6, <1>8, <2>1 DEF Patterns
<1>10. c.father = p /\ c.pat = [fwd |-> p.fwd, bwd |-> h] /\ c.ex = a /\ c.new = b
  BY <1>3, <1>7 DEF WithBack
<1>11. Extends(c)
  BY <1>4, <1>7, <1>10 DEF Extends
<1>12. a \in Nat
  BY PatternIs
<1> QED BY <1>9, <1>10, <1>11, <1>12 DEF Grows

\* One candidate for each graph.
Candidates(cs) == (\A c \in cs : Grows(c)) /\ \A c, d \in cs : c.pat = d.pat => c = d
LEMMA OneCandidate ==
  ASSUME g \in Problem, NEW all, \A c \in all : Grows(c)
  PROVE  Candidates(OnePerGraph(all, g.rank))
<1>1. ASSUME NEW c \in all PROVE c.ex \in Nat /\ g.rank[Graph(c.father)] \in Nat
  <2>1. c.father \in Patterns(g) /\ c.ex \in Nat
    BY DEF Grows
  <2>2. Graph(c.father) \subseteq FrequentLabels(g) /\ Graph(c.father) # {} /\ Connected(Graph(c.father))
    BY <2>1, PatternIs
  <2>3. FrequentLabels(g) \subseteq {Labels(g, e) : e \in g.edges}
    BY FrequentIs
  <2>4. Graph(c.father) \in Down({Labels(g, e) : e \in g.edges})
    BY <2>2, <2>3 DEF Down
  <2> QED BY <2>1, <2>4, ProblemAssumption DEF ProblemAssumption
<1>2. /\ OnePerGraph(all, g.rank) \subseteq all
      /\ \A c, d \in OnePerGraph(all, g.rank) : Graph(c.pat) = Graph(d.pat) => c = d
  BY <1>1, OneEach
<1> QED BY <1>2 DEF Candidates

LEMMA ForwardAre ==
  ASSUME g \in Problem, NEW fathers, fathers \subseteq Patterns(g)
  PROVE  Candidates(GenForward(fathers, SeedsOf(FrequentLabels(g)), g.rank))
<1> DEFINE all == UNION {ForwardOf(p, SeedsOf(FrequentLabels(g)), fathers) : p \in fathers}
<1>1. \A c \in all : Grows(c)
  BY ForwardGrows
<1> HIDE DEF all
<1>2. Candidates(OnePerGraph(all, g.rank))
  BY <1>1, OneCandidate
<1> QED BY <1>2 DEF GenForward, all

LEMMA BackwardAre ==
  ASSUME g \in Problem, NEW fathers, fathers \subseteq Patterns(g), NEW lev
  PROVE  Candidates(GenBackward(fathers, SeedsOf(FrequentLabels(g)), lev, g.rank))
<1> DEFINE all == UNION {BackwardOf(p, SeedsOf(FrequentLabels(g)), lev) : p \in fathers}
<1>1. \A c \in all : Grows(c)
  BY BackwardGrows
<1> HIDE DEF all
<1>2. Candidates(OnePerGraph(all, g.rank))
  BY <1>1, OneCandidate
<1> QED BY <1>2 DEF GenBackward, all

-----------------------------------------------------------------------------
(* What a site finds.                                                       *)

\* A match, of whatever function, makes its vertices true.
LEMMA MatchIsTrue ==
  ASSUME g \in Problem, NEW p \in Patterns(g), NEW m, NEW order, NEW columns, NEW edges, edges \subseteq g.edges,
         DOMAIN columns = Nodes(Graph(p)), InColumns(g, columns),
         p.fwd = {{order[k][1], order[k][2]} : k \in DOMAIN order}, IsMatch(m, edges, columns, order, p.bwd),
         NEW l \in Nodes(Graph(p))
  PROVE  m[l] \in Truth(p)[l]
<1> DEFINE D == Nodes(Graph(p))
           f == [k \in D |-> m[k]]
<1>1. /\ DOMAIN m = D /\ \A k \in D : m[k] \in columns[k]
      /\ \A k \in DOMAIN order : {m[order[k][1]], m[order[k][2]]} \in edges
      /\ \A a, b \in D : {a, b} \in p.bwd => {m[a], m[b]} \in edges
  BY DEF IsMatch
<1>2. \A k \in D : m[k] \in DOMAIN g.label /\ g.label[m[k]] = k
  BY <1>1 DEF InColumns
<1>3. ASSUME NEW a \in D, NEW b \in D, {a, b} \in Graph(p) PROVE {m[a], m[b]} \in g.edges
  <2>1. CASE {a, b} \in p.fwd
    <3>1. PICK k \in DOMAIN order : {a, b} = {order[k][1], order[k][2]}
      BY <2>1
    <3>2. (a = order[k][1] /\ b = order[k][2]) \/ (a = order[k][2] /\ b = order[k][1])
      BY <3>1
    <3>3. {m[a], m[b]} = {m[order[k][1]], m[order[k][2]]}
      BY <3>2
    <3> QED BY <1>1, <3>3
  <2>2. CASE {a, b} \in p.bwd
    BY <1>1, <2>2
  <2> QED BY <1>3, <2>1, <2>2 DEF Graph
<1>4. IsMap(p, f)
  BY <1>2, <1>3 DEF IsMap
<1>5. f[l] \in Truth(p)[l]
  BY <1>4, TruthIs
<1> QED BY <1>5

\* The columns the search is given.
LEMMA CandidateColumns ==
  ASSUME g \in Problem, NEW c, Grows(c), NEW father, DOMAIN father = Nodes(Graph(c.father)),
         \A l \in DOMAIN father : father[l] \subseteq Vertices(l), NEW edges
  PROVE  InColumns(g, CandidateMNI(c, father, edges)) /\ DOMAIN CandidateMNI(c, father, edges) = Nodes(Graph(c.pat))
<1> DEFINE ex  == {v \in father[c.ex] : Neighbers(g, edges, v, c.new) # {}}
           new == UNION {Neighbers(g, edges, v, c.new) : v \in ex}
           columns == CandidateMNI(c, father, edges)
<1>1. columns = IF c.new \in DOMAIN father THEN [father EXCEPT ![c.ex] = ex, ![c.new] = @ \intersect new]
                ELSE Put([father EXCEPT ![c.ex] = ex], c.new, new)
  BY DEF CandidateMNI
<1>2. /\ Nodes(Graph(c.father)) = Nodes(c.father.fwd) /\ Nodes(Graph(c.pat)) = Nodes(c.pat.fwd)
      /\ c.ex \in DOMAIN father
  BY PatternIs DEF Grows, Extends
<1>3. ex \subseteq Vertices(c.ex) /\ new \subseteq Vertices(c.new)
  <2>1. \A v : Neighbers(g, edges, v, c.new) \subseteq Vertices(c.new)
    BY DEF Neighbers, Vertices
  <2>2. ex \subseteq father[c.ex] /\ father[c.ex] \subseteq Vertices(c.ex)
    BY <1>2
  <2> QED BY <2>1, <2>2
<1> HIDE DEF ex, new, columns
<1>4. CASE c.new \in DOMAIN father
  <2>1. columns = [l \in DOMAIN father |-> IF l = c.new THEN father[l] \intersect new ELSE IF l = c.ex THEN ex ELSE father[l]]
    <3>1. c.new # c.ex
      BY <1>2, <1>4 DEF Grows, Extends
    <3> QED BY <1>1, <1>4, <3>1
  <2>2. DOMAIN columns = Nodes(Graph(c.pat))
    BY <1>2, <1>4, <2>1 DEF Grows, Extends
  <2>3. \A l \in DOMAIN columns : columns[l] \subseteq Vertices(l)
    BY <1>3, <2>1
  <2>4. columns \in [DOMAIN columns -> SUBSET DOMAIN g.label]
    BY <2>1, <2>3 DEF Vertices
  <2>5. InColumns(g, columns)
    BY <2>3, <2>4 DEF InColumns, Vertices
  <2> QED BY <2>2, <2>5 DEF columns
<1>5. CASE c.new \notin DOMAIN father
  <2>1. columns = [l \in DOMAIN father \union {c.new} |-> IF l = c.new THEN new ELSE IF l = c.ex THEN ex ELSE father[l]]
    BY <1>1, <1>5 DEF Put
  <2>2. DOMAIN columns = Nodes(Graph(c.pat))
    <3>1. c.pat.fwd = c.father.fwd \union {{c.ex, c.new}}
      BY <1>2, <1>5 DEF Grows, Extends
    <3>2. Nodes(c.father.fwd \union {{c.ex, c.new}}) = Nodes(c.father.fwd) \union Nodes({{c.ex, c.new}})
      BY NodesOfParts
    <3>3. Nodes({{c.ex, c.new}}) = {c.ex, c.new}
      BY NodesOfParts
    <3> QED BY <1>2, <2>1, <3>1, <3>2, <3>3
  <2>3. \A l \in DOMAIN columns : columns[l] \subseteq Vertices(l)
    BY <1>3, <2>1
  <2>4. columns \in [DOMAIN columns -> SUBSET DOMAIN g.label]
    BY <2>1, <2>3 DEF Vertices
  <2>5. InColumns(g, columns)
    BY <2>3, <2>4 DEF InColumns, Vertices
  <2> QED BY <2>2, <2>5 DEF columns
<1> QED BY <1>4, <1>5

\* A forward edge goes to the end of the order.
OrderEdges(order) == {{order[k][1], order[k][2]} : k \in DOMAIN order}
LEMMA OrderGrows ==
  ASSUME NEW L, NEW order, IsOrder(order, L), NEW a \in L, NEW b, b \notin L
  PROVE  /\ IsOrder(Append(order, <<a, b>>), L \union {b})
         /\ OrderEdges(Append(order, <<a, b>>)) = OrderEdges(order) \union {{a, b}}
<1> DEFINE q == Append(order, <<a, b>>)
           n == Len(order)
<1>1. order \in Seq(L \X L) /\ n \in Nat /\ DOMAIN order = 1 .. n /\ order # <<>> /\ L = LabelsOf(order)
  BY DEF IsOrder, IsTreeOrder
<1>2. /\ order \in Seq((L \union {b}) \X (L \union {b})) /\ <<a, b>> \in (L \union {b}) \X (L \union {b})
  BY <1>1
<1>3. /\ q \in Seq((L \union {b}) \X (L \union {b})) /\ Len(q) = n + 1 /\ DOMAIN q = 1 .. n + 1 /\ q # <<>>
      /\ q[n + 1] = <<a, b>> /\ \A k \in 1 .. n : q[k] = order[k]
  <2>1. PICK B : B = (L \union {b}) \X (L \union {b})
    OBVIOUS
  <2>2. order \in Seq(B) /\ <<a, b>> \in B
    BY <1>2, <2>1
  <2>3. /\ q \in Seq(B) /\ Len(q) = n + 1 /\ q[n + 1] = <<a, b>> /\ \A k \in 1 .. n : q[k] = order[k]
    BY <2>2, Appended
  <2> HIDE DEF q, n
  <2>4. DOMAIN q = 1 .. n + 1 /\ q # <<>>
    BY <1>1, <2>3
  <2> QED BY <2>1, <2>3, <2>4
<1>4. n > 0 /\ q[1] = order[1]
  BY <1>1, <1>3
<1> HIDE DEF q, n
<1>5. \A k \in 1 .. n + 1 : Before(q, k) = Before(order, k)
  <2> SUFFICES ASSUME NEW k \in 1 .. n + 1 PROVE {q[j][2] : j \in 1 .. k - 1} = {order[j][2] : j \in 1 .. k - 1}
    BY <1>4 DEF Before
  <2>1. \A j \in 1 .. k - 1 : j \in 1 .. n
    BY <1>1
  <2> QED BY <1>3, <2>1
<1>6. Before(order, n + 1) = L
  BY <1>1 DEF LabelsOf, n
<1>7. LabelsOf(q) = L \union {b}
  <2>1. 1 .. (n + 2) - 1 = 1 .. n + 1 /\ 1 .. (n + 1) - 1 = 1 .. n
    BY <1>1
  <2>2. {q[j][2] : j \in 1 .. n + 1} = {q[j][2] : j \in 1 .. n} \union {b}
    <3>1. \A j : j \in 1 .. n + 1 <=> j \in 1 .. n \/ j = n + 1
      BY <1>1
    <3>2. q[n + 1][2] = b
      BY <1>3
    <3> QED BY <3>1, <3>2
  <2>3. Before(q, n + 2) = Before(q, n + 1) \union {b}
    BY <2>1, <2>2 DEF Before
  <2>4. n + 1 \in 1 .. n + 1 /\ (n + 1) + 1 = n + 2
    BY <1>1
  <2> QED BY <1>3, <1>5, <1>6, <2>3, <2>4 DEF LabelsOf
<1>8. IsTreeOrder(q)
  <2> SUFFICES ASSUME NEW k \in 1 .. n + 1 PROVE q[k][1] \in Before(q, k) /\ q[k][2] \notin Before(q, k)
    BY <1>3 DEF IsTreeOrder
  <2>1. CASE k \in 1 .. n
    BY <1>1, <1>3, <1>5, <2>1 DEF IsOrder, IsTreeOrder
  <2>2. CASE k = n + 1
    BY <1>3, <1>5, <1>6, <2>2
  <2> QED BY <1>1, <2>1, <2>2
<1>9. {{q[k][1], q[k][2]} : k \in DOMAIN q} = {{order[k][1], order[k][2]} : k \in DOMAIN order} \union {{a, b}}
  <2>1. \A j : j \in 1 .. n + 1 <=> j \in 1 .. n \/ j = n + 1
    BY <1>1
  <2>2. {q[n + 1][1], q[n + 1][2]} = {a, b}
    BY <1>3
  <2>3. {{q[k][1], q[k][2]} : k \in 1 .. n + 1} = {{q[k][1], q[k][2]} : k \in 1 .. n} \union {{q[n + 1][1], q[n + 1][2]}}
    BY <2>1
  <2>4. {{q[k][1], q[k][2]} : k \in 1 .. n} = {{order[k][1], order[k][2]} : k \in 1 .. n}
    BY <1>3
  <2> QED BY <1>1, <1>3, <2>2, <2>3, <2>4
<1>10. IsOrder(q, L \union {b})
  BY <1>3, <1>7, <1>8 DEF IsOrder
<1>11. OrderEdges(q) = OrderEdges(order) \union {{a, b}}
  BY <1>9 DEF OrderEdges
<1> QED BY <1>10, <1>11 DEF q

\* The order of a candidate.
OrderOf(c, order) == IF c.new \in Nodes(Graph(c.father)) THEN order ELSE Append(order, <<c.ex, c.new>>)
HasOrder(p, order) ==
  IsOrder(order, Nodes(Graph(p))) /\ p.fwd = OrderEdges(order)
LEMMA CandidateOrder ==
  ASSUME g \in Problem, NEW c, Grows(c), NEW order, HasOrder(c.father, order)
  PROVE  HasOrder(c.pat, OrderOf(c, order))
<1>1. /\ Nodes(Graph(c.father)) = Nodes(c.father.fwd) /\ Nodes(Graph(c.pat)) = Nodes(c.pat.fwd)
  BY PatternIs DEF Grows
<1>2. CASE c.new \in Nodes(Graph(c.father))
  <2>1. c.pat.fwd = c.father.fwd
    BY <1>1, <1>2 DEF Grows, Extends
  <2>2. HasOrder(c.pat, order)
    BY <1>1, <2>1 DEF HasOrder
  <2> QED BY <1>2, <2>2 DEF OrderOf
<1>3. CASE c.new \notin Nodes(Graph(c.father))
  <2>1. c.pat.fwd = c.father.fwd \union {{c.ex, c.new}} /\ c.ex \in Nodes(Graph(c.father))
    BY <1>1, <1>3 DEF Grows, Extends
  <2>2. Nodes(Graph(c.pat)) = Nodes(Graph(c.father)) \union {c.new}
    <3>1. Nodes(c.father.fwd \union {{c.ex, c.new}}) = Nodes(c.father.fwd) \union Nodes({{c.ex, c.new}})
      BY NodesOfParts
    <3>2. Nodes({{c.ex, c.new}}) = {c.ex, c.new}
      BY NodesOfParts
    <3> QED BY <1>1, <2>1, <3>1, <3>2
  <2>3. PICK q : q = Append(order, <<c.ex, c.new>>)
    OBVIOUS
  <2>4. IsOrder(q, Nodes(Graph(c.father)) \union {c.new}) /\ OrderEdges(q) = OrderEdges(order) \union {{c.ex, c.new}}
    <3>1. PICK L, a, b : L = Nodes(Graph(c.father)) /\ a = c.ex /\ b = c.new
      OBVIOUS
    <3>2. IsOrder(order, L) /\ a \in L /\ b \notin L
      BY <1>3, <2>1, <3>1 DEF HasOrder
    <3>3. /\ IsOrder(Append(order, <<a, b>>), L \union {b})
          /\ OrderEdges(Append(order, <<a, b>>)) = OrderEdges(order) \union {{a, b}}
      BY <3>2, OrderGrows
    <3>4. Append(order, <<a, b>>) = q
      BY <2>3, <3>1
    <3>5. IsOrder(q, L \union {b}) /\ OrderEdges(q) = OrderEdges(order) \union {{a, b}}
      BY <3>3, <3>4
    <3> QED BY <3>1, <3>5
  <2>5. HasOrder(c.pat, q)
    BY <2>1, <2>2, <2>4 DEF HasOrder
  <2> QED BY <1>3, <2>3, <2>5 DEF OrderOf
<1> QED BY <1>2, <1>3

\* What is found of a candidate is true, and of a shape.
LEMMA RecordIs ==
  ASSUME NEW p, NEW r, IsRecord(p, r)
  PROVE  /\ HasOrder(p, r.order) /\ DOMAIN r.mni = Nodes(Graph(p)) /\ \A l \in Nodes(Graph(p)) : r.mni[l] \subseteq Truth(p)[l]
         /\ r = [order |-> r.order, mni |-> r.mni, all |-> r.all, localMNI |-> r.localMNI]
<1>1. /\ r = [order |-> r.order, mni |-> r.mni, all |-> r.all, localMNI |-> r.localMNI]
      /\ DOMAIN r.mni = Nodes(Graph(p)) /\ \A l \in Nodes(Graph(p)) : r.mni[l] \subseteq Truth(p)[l]
  BY DEF IsRecord
<1>2. PICK o : o = r.order
  OBVIOUS
<1>3. IsOrder(o, Nodes(Graph(p))) /\ p.fwd = {{o[k][1], o[k][2]} : k \in DOMAIN o}
  BY <1>2 DEF IsRecord
<1>4. HasOrder(p, o)
  BY <1>3 DEF HasOrder, OrderEdges
<1> QED BY <1>1, <1>2, <1>4

LEMMA ExtensionFound ==
  ASSUME g \in Problem, NEW i, NEW c, Grows(c), IsRecord(c.father, pattern_map[i][c.father]),
         NEW edges, edges \subseteq g.edges, NEW r \in Extension(i, c, edges)
  PROVE  IsRecord(c.pat, r)
<1> DEFINE father == pattern_map[i][c.father]
           order  == IF c.new \in DOMAIN father.mni THEN father.order ELSE Append(father.order, <<c.ex, c.new>>)
           columns == CandidateMNI(c, father.mni, edges)
           mni    == MNI_List(g, edges, columns, order, c.pat.bwd)
           D == Nodes(Graph(c.pat))
<1>1. r = [order |-> order, mni |-> mni, all |-> <<>>, localMNI |-> <<>>]
  BY DEF Extension
<1>2. /\ HasOrder(c.father, father.order) /\ DOMAIN father.mni = Nodes(Graph(c.father))
      /\ \A l \in Nodes(Graph(c.father)) : father.mni[l] \subseteq Truth(c.father)[l]
  BY RecordIs
<1>3. c.father \in Patterns(g) /\ c.pat \in Patterns(g)
  BY DEF Grows
<1>4. \A l \in DOMAIN father.mni : father.mni[l] \subseteq Vertices(l)
  BY <1>2, <1>3, TruthIs
<1>5. InColumns(g, columns) /\ DOMAIN columns = D
  <2> HIDE DEF father
  <2> QED BY <1>2, <1>4, CandidateColumns
<1>6. HasOrder(c.pat, order)
  <2>1. order = OrderOf(c, father.order)
    BY <1>2 DEF OrderOf
  <2> HIDE DEF order, father
  <2> QED BY <1>2, <2>1, CandidateOrder
<1> HIDE DEF father, order, columns
<1>7. InMatches(mni, edges, columns, order, c.pat.bwd)
  <2>1. IsGraph(g) /\ NoLoops(c.pat.bwd)
    BY <1>3, ProblemIs, PatternIs
  <2>2. IsOrder(order, DOMAIN columns)
    BY <1>5, <1>6 DEF HasOrder, OrderEdges
  <2> QED BY <1>5, <2>1, <2>2, ColumnsSound
<1> HIDE DEF mni
<1>8. DOMAIN mni = D /\ \A l \in D : mni[l] \subseteq Truth(c.pat)[l]
  <2>1. DOMAIN mni = D
    BY <1>5, <1>7 DEF InMatches
  <2>2. ASSUME NEW l \in D, NEW v \in mni[l] PROVE v \in Truth(c.pat)[l]
    <3>1. PICK m : IsMatch(m, edges, columns, order, c.pat.bwd) /\ m[l] = v
      BY <1>7, <2>1, <2>2 DEF InMatches
    <3>2. c.pat.fwd = {{order[k][1], order[k][2]} : k \in DOMAIN order}
      BY <1>6 DEF HasOrder, OrderEdges
    <3>3. m[l] \in Truth(c.pat)[l]
      BY <1>3, <1>5, <2>2, <3>1, <3>2, MatchIsTrue
    <3> QED BY <3>1, <3>3
  <2> QED BY <2>1, <2>2
<1> QED BY <1>1, <1>6, <1>8 DEF IsRecord, HasOrder, OrderEdges

\* The records of the frequent edges.
LEMMA EdgeFound ==
  ASSUME g \in Problem, NEW i, NEW p \in FrequentEdges(g)
  PROVE  IsRecord(p, EdgePattern(g, i, p))
<1>1. PICK x \in FrequentLabels(g) : p = [fwd |-> {x}, bwd |-> {}]
  <2>1. PICK x : p = [fwd |-> {x}, bwd |-> {}]
    BY DEF FrequentEdges
  <2>2. x \in FrequentLabels(g)
    BY <2>1 DEF FrequentLabels
  <2> QED BY <2>1, <2>2
<1>2. PICK a, b \in Nat : a < b /\ x = {a, b}
  <2>1. PICK c, d \in Nat : c # d /\ x = {c, d}
    BY LabelPair
  <2>2. CASE c < d
    BY <2>1, <2>2
  <2>3. CASE d < c
    <3>1. x = {d, c}
      BY <2>1
    <3> QED BY <2>3, <3>1
  <2> QED BY <2>1, <2>2, <2>3
<1>3. UNION p.fwd = x /\ Graph(p) = {x} /\ Nodes(Graph(p)) = x /\ p \in Patterns(g)
  BY <1>1, FirstPatterns DEF Graph, Nodes
<1> DEFINE found == [l \in x |-> {v \in UNION {f \in Component(g, i) : Labels(g, f) = x} : g.label[v] = l}]
           order == <<<<a, b>>>>
<1>4. EdgePattern(g, i, p) = [order |-> order, mni |-> found, all |-> <<>>, localMNI |-> <<>>]
  <2>1. (CHOOSE y \in x : \A z \in x : y <= z) = a
    BY <1>2
  <2>2. (CHOOSE z \in x : z # a) = b
    BY <1>2
  <2> QED BY <1>3, <2>1, <2>2 DEF EdgePattern
<1>5. IsOrder(order, x)
  <2>1. order \in Seq(x \X x) /\ Len(order) = 1 /\ DOMAIN order = {1} /\ order # <<>> /\ order[1][1] = a /\ order[1][2] = b
    BY <1>2
  <2> HIDE DEF order
  <2>2. Before(order, 1) = {a} /\ Before(order, 2) = {a, b}
    <3>1. 1 .. 1 - 1 = {} /\ 1 .. 2 - 1 = {1}
      OBVIOUS
    <3> QED BY <2>1, <3>1 DEF Before
  <2>3. IsTreeOrder(order) /\ LabelsOf(order) = x
    BY <1>2, <2>1, <2>2 DEF IsTreeOrder, LabelsOf
  <2> QED BY <2>1, <2>3 DEF IsOrder
<1>6. p.fwd = {{order[k][1], order[k][2]} : k \in DOMAIN order}
  <2>1. DOMAIN order = {1} /\ order[1][1] = a /\ order[1][2] = b
    OBVIOUS
  <2> HIDE DEF order
  <2> QED BY <1>1, <1>2, <2>1
<1>7. ASSUME NEW l \in x, NEW v \in found[l] PROVE v \in Truth(p)[l]
  <2>1. PICK f \in g.edges : Labels(g, f) = x /\ v \in f /\ g.label[v] = l
    BY <1>7 DEF Component
  <2>2. PICK u, w : /\ f = {u, w} /\ u \in DOMAIN g.label /\ w \in DOMAIN g.label
                    /\ g.label[u] # g.label[w] /\ x = {g.label[u], g.label[w]}
    BY <2>1, EdgeLabel
  <2> DEFINE m == [k \in x |-> IF k = g.label[u] THEN u ELSE w]
  <2>3. m \in [x -> DOMAIN g.label] /\ \A k \in x : g.label[m[k]] = k
    BY <2>2
  <2>4. ASSUME NEW y \in x, NEW z \in x, {y, z} = x PROVE {m[y], m[z]} \in g.edges
    <3>1. (y = g.label[u] /\ z = g.label[w]) \/ (y = g.label[w] /\ z = g.label[u])
      BY <2>2, <2>4
    <3>2. {m[y], m[z]} = {u, w}
      BY <2>2, <3>1
    <3> QED BY <2>2, <3>2
  <2>5. m[l] = v
    BY <2>1, <2>2
  <2> HIDE DEF m
  <2>6. IsMap(p, m)
    BY <1>3, <2>3, <2>4 DEF IsMap
  <2> QED BY <1>3, <2>5, <2>6, TruthIs
<1> HIDE DEF order, found
<1>8. DOMAIN found = Nodes(Graph(p)) /\ \A l \in Nodes(Graph(p)) : found[l] \subseteq Truth(p)[l]
  <2>1. DOMAIN found = x
    BY DEF found
  <2> QED BY <1>3, <1>7, <2>1
<1>9. PICK r : r = EdgePattern(g, i, p)
  OBVIOUS
<1>10. r.order = order /\ r.mni = found /\ r.all = <<>> /\ r.localMNI = <<>>
  BY <1>4, <1>9
<1>11. r = [order |-> r.order, mni |-> r.mni, all |-> r.all, localMNI |-> r.localMNI]
  BY <1>4, <1>9, <1>10
<1>12. IsOrder(order, Nodes(Graph(p)))
  BY <1>3, <1>5
<1>13. IsRecord(p, r)
  BY <1>6, <1>8, <1>10, <1>11, <1>12 DEF IsRecord
<1> QED BY <1>9, <1>13

-----------------------------------------------------------------------------
(* Sums.                                                                    *)

Total(box, p, l, R) == MapThenSumSet(LAMBDA i : box[i][p][l], R)
Both(S, R) == UNION {S[i] : i \in R}

\* Sets that have nothing in common, and their sizes.
Shares(box, p, l, R, S) ==
  /\ \A i \in R : IsFiniteSet(S[i]) /\ box[i][p][l] = Cardinality(S[i])
  /\ \A i, j \in R : i # j => S[i] \cap S[j] = {}
LEMMA TotalIs ==
  ASSUME NEW R, IsFiniteSet(R), NEW box, NEW p, NEW l, NEW S, Shares(box, p, l, R, S)
  PROVE  Total(box, p, l, R) = Cardinality(Both(S, R)) /\ IsFiniteSet(Both(S, R))
<1> DEFINE n(i) == box[i][p][l]
           last == [d \in SUBSET R |-> Pick(d)]
           G == [y \in Nat \X R |-> n(y[2]) + y[1]]
           Eq(it) == it = [d \in SUBSET R |-> IF d = {} THEN 0 ELSE n(Pick(d)) + it[d \ {Pick(d)}]]
<1>1. Total(box, p, l, R) = (CHOOSE it : Eq(it))[R]
  BY DEF Total, MapThenSumSet, MapThenFoldSet, Pick
<1>2. \A i \in R : IsFiniteSet(S[i]) /\ n(i) = Cardinality(S[i]) /\ n(i) \in Nat
  BY FS_CardinalityType DEF Shares
<1> HIDE DEF n
<1>3. \A y \in Nat, i \in R : G[<<y, i>>] = n(i) + y /\ G[<<y, i>>] \in Nat
  BY <1>2
<1> HIDE DEF G
<1>4. Stays(G, Nat, R)
  BY <1>3 DEF Stays
<1>5. Picks(last, R) /\ \A d \in SUBSET R : last[d] = Pick(d)
  BY PickIs
<1> HIDE DEF last
<1>6. PICK it \in [SUBSET R -> Nat] : IsFold(it, R, last, 0, G)
  BY <1>4, <1>5, FoldExists
<1>7. it[{}] = 0 /\ \A d \in SUBSET R : d # {} => it[d] = n(Pick(d)) + it[d \ {Pick(d)}]
  <2>1. it[{}] = 0
    BY <1>6 DEF IsFold
  <2>2. ASSUME NEW d \in SUBSET R, d # {} PROVE it[d] = n(Pick(d)) + it[d \ {Pick(d)}]
    <3>1. Pick(d) \in R /\ d \ {Pick(d)} \in SUBSET R
      BY <2>2, PickIs
    <3>2. it[d \ {Pick(d)}] \in Nat
      BY <3>1
    <3>3. it[d] = G[<<it[d \ {last[d]}], last[d]>>]
      BY <1>6, <2>2 DEF IsFold
    <3> QED BY <1>3, <1>5, <3>1, <3>2, <3>3
  <2> QED BY <2>1, <2>2
<1>8. Eq(it)
  BY <1>7
<1>9. PICK f : f = (CHOOSE h : Eq(h)) /\ Eq(f)
  <2> HIDE DEF Eq
  <2> QED BY <1>8
<1>10. f[{}] = 0 /\ \A d \in SUBSET R : d # {} => f[d] = n(Pick(d)) + f[d \ {Pick(d)}]
  BY <1>9
<1>11. f[R] = it[R]
  <2>1. SameSteps(f, it, R)
    BY <1>7, <1>10 DEF SameSteps
  <2> QED BY <2>1, SameSetFold
<1> DEFINE Q == {d \in SUBSET R : IsFiniteSet(Both(S, d)) /\ it[d] = Cardinality(Both(S, d))}
<1>12. {} \in Q
  <2>1. Both(S, {}) = {}
    BY DEF Both
  <2> QED BY <1>7, <2>1, FS_EmptySet
<1>13. ASSUME NEW d \in SUBSET R, d # {}, d \ {Pick(d)} \in Q PROVE d \in Q
  <2>1. PICK i : i = Pick(d) /\ i \in d /\ i \in R
    BY <1>13, PickIs
  <2>2. PICK B : B = Both(S, d \ {i})
    OBVIOUS
  <2>3. Both(S, d) = B \union S[i]
    BY <2>1, <2>2 DEF Both
  <2>4. B \cap S[i] = {}
    BY <2>1, <2>2 DEF Both, Shares
  <2>5. IsFiniteSet(B) /\ it[d \ {i}] = Cardinality(B) /\ IsFiniteSet(S[i]) /\ n(i) = Cardinality(S[i])
    BY <1>2, <1>13, <2>1, <2>2
  <2>6. /\ IsFiniteSet(B \union S[i]) /\ Cardinality(B \union S[i]) = Cardinality(B) + Cardinality(S[i]) - Cardinality(B \cap S[i])
        /\ Cardinality(B) \in Nat /\ Cardinality(S[i]) \in Nat
    BY <2>5, FS_Union, FS_CardinalityType
  <2>7. Cardinality(B \cap S[i]) = 0
    BY <2>4, FS_EmptySet
  <2>8. it[d] = n(i) + it[d \ {i}]
    BY <1>7, <1>13, <2>1
  <2>9. it[d] = Cardinality(S[i]) + Cardinality(B) /\ Cardinality(Both(S, d)) = Cardinality(B) + Cardinality(S[i])
    <3>1. it[d] = Cardinality(S[i]) + Cardinality(B)
      BY <2>5, <2>8
    <3>2. Cardinality(Both(S, d)) = Cardinality(B) + Cardinality(S[i]) - 0
      BY <2>3, <2>6, <2>7
    <3> QED BY <2>6, <3>1, <3>2
  <2>10. it[d] = Cardinality(Both(S, d)) /\ IsFiniteSet(Both(S, d))
    BY <2>3, <2>6, <2>9
  <2> QED BY <2>10
<1>14. R \in Q
  <2> HIDE DEF Q
  <2>1. GrowsBy(R, Q)
    BY <1>12, <1>13 DEF GrowsBy
  <2> QED BY <2>1, SubsetsIn
<1> QED BY <1>1, <1>9, <1>11, <1>14

-----------------------------------------------------------------------------
(* The master.                                                              *)

\* What is reported is of known patterns.
LEMMA ReportedIs ==
  ASSUME SitesInv, BoxInv, step = "count", done = Client, NEW i \in Client
  PROVE  outbox[i] = Report(i) /\ DOMAIN outbox[i] \subseteq Patterns(g)
<1>1. outbox[i] = Report(i) /\ inbox[i] \subseteq Due(i)
  BY DEF BoxInv
<1>2. DOMAIN Report(i) = DOMAIN local[i] \union {x[1] : x \in inbox[i]}
  BY DEF Report
<1>3. \A j \in Client : DOMAIN local[j] \subseteq Patterns(g)
  BY DEF SitesInv, AreRecords
<1>4. ASSUME NEW x \in inbox[i] PROVE x[1] \in Patterns(g)
  <2>1. PICK j \in Client : x \in Sent(j)
    BY <1>1 DEF Due
  <2>2. PICK p \in DOMAIN local[j] : \E l \in Nodes(Graph(p)) : x \in {<<p, l, v>> : v \in Virtual(g, local[j][p].mni[l], j)}
    BY <2>1 DEF Sent
  <2>3. x[1] = p
    BY <2>2
  <2> QED BY <1>3, <2>2, <2>3
<1> QED BY <1>1, <1>2, <1>3, <1>4

LEMMA GrowInit == Init => GrowInv
<1> SUFFICES ASSUME Init PROVE GrowInv
  OBVIOUS
<1>1. g \in Problem /\ T = <<>> /\ at = 0 /\ level = FrequentEdges(g) /\ cands = {} /\ step = "keep" /\ done = Client
  BY DEF Init
<1>2. level \subseteq Patterns(g)
  BY <1>1, FirstPatterns
<1>3. T \in Seq(SUBSET Patterns(g)) /\ Len(T) = 0
  BY <1>1
<1> QED BY <1>1, <1>2, <1>3 DEF GrowInv

LEMMA GrowBySite ==
  ASSUME GrowInv, NEW i \in Client, Site(i)
  PROVE  GrowInv'
<1>1. UNCHANGED <<g, T, at, level, cands, freq, step, inbox>>
  BY DEF Site, master
<1>2. i \notin done
  BY DEF Site, SiteAsks, SiteAnswers, SiteExtends, SiteCounts, SiteKeeps, Turn
<1>3. T # <<>>
  BY <1>2 DEF GrowInv
<1>4. \A c : Extends(c)' <=> Extends(c)
  BY DEF Extends
<1> QED BY <1>1, <1>3, <1>4 DEF GrowInv

LEMMA GrowByMaster ==
  ASSUME g \in Problem, GrowInv, SitesInv, BoxInv, Master
  PROVE  GrowInv'
<1> USE DEF GrowInv
<1>0. UNCHANGED <<g, known, asked, pattern_map, local>>
  BY DEF Master
<1>1. CASE MasterRoutesQuestions \/ MasterRoutesNodes \/ MasterRoutesMatches
  <2>1. UNCHANGED <<T, at, level, cands, freq>> /\ step \notin {"keep", "end"}
    BY <1>1 DEF MasterRoutesQuestions, MasterRoutesNodes, MasterRoutesMatches, All, master
  <2> QED BY <1>0, <2>1 DEF Extends
<1>2. CASE MasterSums
  <2>1. step = "count" /\ done = Client /\ UNCHANGED <<T, at, cands>>
    BY <1>2 DEF MasterSums, All
  <2>2. level' \subseteq DOMAIN freq'
    BY <1>2 DEF MasterSums
  <2>3. DOMAIN freq' = UNION {DOMAIN outbox[i] : i \in Client}
    BY <1>2 DEF MasterSums
  <2>4. level' \subseteq Patterns(g)
    <3>1. \A i \in Client : DOMAIN outbox[i] \subseteq Patterns(g)
      BY <2>1, ReportedIs
    <3> QED BY <2>2, <2>3, <3>1
  <2>5. T # <<>>
    BY <2>1
  <2> QED BY <1>0, <2>1, <2>4, <2>5 DEF Extends
<1>3. CASE MasterGrows
  <2>1. /\ step = "keep" /\ done = Client /\ at = 0 /\ T' = Append(T, level)
        /\ cands' = GenForward(level, Seeds(T'), g.rank) /\ UNCHANGED <<at, level>>
    BY <1>3 DEF MasterGrows, All, Clear
  <2>2. T' \in Seq(SUBSET Patterns(g)) /\ T' # <<>> /\ at' \in 0 .. Len(T')
    BY <2>1
  <2>3. T'[1] = FrequentEdges(g)
    <3>1. CASE T = <<>>
      BY <2>1, <3>1
    <3>2. CASE T # <<>>
      <4>1. T'[1] = T[1]
        BY <2>1, <3>2
      <4> QED BY <3>2, <4>1
    <3> QED BY <3>1, <3>2
  <2>4. cands' = GenForward(level, SeedsOf(FrequentLabels(g)), g.rank)
    BY <2>1, <2>3, SeedsAre
  <2>5. Candidates(cands')
    BY <2>4, ForwardAre
  <2>6. /\ \A c \in cands' : c.father \in Patterns(g) /\ c.pat \in Patterns(g) /\ Extends(c)
        /\ \A c, d \in cands' : c.pat = d.pat => c = d
    BY <2>5 DEF Candidates, Grows
  <2> QED BY <1>0, <2>1, <2>2, <2>3, <2>6 DEF Extends
<1>4. ASSUME NEW fathers, fathers \subseteq Patterns(g), NEW lev, cands' = GenBackward(fathers, Seeds(T), lev, g.rank),
             T # <<>>, UNCHANGED <<T, level>>, at' \in 0 .. Len(T)
      PROVE  GrowInv'
  <2>1. cands' = GenBackward(fathers, SeedsOf(FrequentLabels(g)), lev, g.rank)
    BY <1>4, SeedsAre
  <2>2. Candidates(cands')
    BY <1>4, <2>1, BackwardAre
  <2>3. /\ \A c \in cands' : c.father \in Patterns(g) /\ c.pat \in Patterns(g) /\ Extends(c)
        /\ \A c, d \in cands' : c.pat = d.pat => c = d
    BY <2>2 DEF Candidates, Grows
  <2> QED BY <1>0, <1>4, <2>3 DEF Extends
<1>5. CASE MasterDeepens
  <2>1. at > 0 /\ cands' = GenBackward(level, Seeds(T), T[at], g.rank) /\ UNCHANGED <<T, at, level>>
    BY <1>5 DEF MasterDeepens, Clear
  <2>2. T # <<>> /\ level \subseteq Patterns(g) /\ at' \in 0 .. Len(T)
    BY <2>1
  <2> QED BY <1>4, <2>1, <2>2
<1>6. CASE MasterOpensLevel
  <2>1. /\ level = {} /\ at' = (IF at = 0 THEN Len(T) ELSE at - 1) /\ UNCHANGED <<T, level>> /\ step = "keep" /\ done = Client
        /\ at' = 0 => step' = "end" /\ cands' = {} /\ done' = done
        /\ at' # 0 => cands' = GenBackward(T[at'], Seeds(T), T[at'], g.rank)
    BY <1>6 DEF MasterOpensLevel, Clear, All
  <2>2. at' \in 0 .. Len(T)
    BY <2>1
  <2>3. CASE at' = 0
    BY <1>0, <2>1, <2>2, <2>3
  <2>4. CASE at' # 0
    <3>1. at' \in 1 .. Len(T) /\ T # <<>>
      BY <2>2, <2>4
    <3>2. T[at'] \subseteq Patterns(g)
      BY <3>1
    <3> QED BY <1>4, <2>1, <2>2, <2>4, <3>1, <3>2
  <2> QED BY <2>3, <2>4
<1> QED BY <1>1, <1>2, <1>3, <1>5, <1>6 DEF Master

-----------------------------------------------------------------------------
(* The sites.                                                               *)

\* What is true stays true.
LEMMA SameRecords ==
  ASSUME g' = g
  PROVE  \A p, r : IsRecord(p, r)' <=> IsRecord(p, r)
<1>1. \A p : Truth(p)' = Truth(p)
  BY DEF Truth
<1> QED BY <1>1 DEF IsRecord

LEMMA SitesInit == Init => SitesInv
<1> SUFFICES ASSUME Init, NEW i \in Client PROVE AreRecords(pattern_map[i]) /\ AreRecords(local[i])
  BY DEF SitesInv
<1>1. /\ g \in Problem /\ level = FrequentEdges(g) /\ pattern_map[i] = [p \in level |-> EdgePattern(g, i, p)]
      /\ local[i] = <<>>
  BY DEF Init
<1>2. AreRecords(local[i])
  BY <1>1 DEF AreRecords
<1>3. DOMAIN pattern_map[i] = FrequentEdges(g) /\ \A p \in FrequentEdges(g) : pattern_map[i][p] = EdgePattern(g, i, p)
  BY <1>1
<1>4. AreRecords(pattern_map[i])
  BY <1>1, <1>3, EdgeFound, FirstPatterns DEF AreRecords
<1> QED BY <1>2, <1>4

\* The results of a site, one for each pattern.
Results(i, edges) == UNION {{c.pat} \X Extension(i, c, edges) : c \in Mine(i)}
LEMMA ResultsAre ==
  ASSUME g \in Problem, GrowInv, SitesInv, NEW i \in Client, NEW edges, edges \subseteq g.edges
  PROVE  /\ \A r \in Results(i, edges) : r[1] \in Patterns(g) /\ IsRecord(r[1], r[2]) /\ r = <<r[1], r[2]>>
         /\ \A r, s \in Results(i, edges) : r[1] = s[1] => r = s
<1>1. ASSUME NEW r \in Results(i, edges)
      PROVE  \E c \in Mine(i) : \E x \in Extension(i, c, edges) : r = <<c.pat, x>>
  BY DEF Results
<1>2. ASSUME NEW c \in Mine(i)
      PROVE  c \in cands /\ Grows(c) /\ IsRecord(c.father, pattern_map[i][c.father])
  <2>1. c \in cands /\ c.father \in DOMAIN pattern_map[i]
    BY DEF Mine
  <2>2. c.father \in Patterns(g) /\ c.pat \in Patterns(g) /\ Extends(c)
    BY <2>1 DEF GrowInv
  <2>3. c.ex \in Nat
    BY <2>2, PatternIs DEF Extends
  <2>4. AreRecords(pattern_map[i])
    BY DEF SitesInv
  <2> QED BY <2>1, <2>2, <2>3, <2>4 DEF Grows, AreRecords
<1>3. ASSUME NEW c, NEW x \in Extension(i, c, edges), NEW y \in Extension(i, c, edges) PROVE x = y
  <2> DEFINE father  == pattern_map[i][c.father]
             order   == IF c.new \in DOMAIN father.mni THEN father.order ELSE Append(father.order, <<c.ex, c.new>>)
             columns == CandidateMNI(c, father.mni, edges)
             mni     == MNI_List(g, edges, columns, order, c.pat.bwd)
             one     == [order |-> order, mni |-> mni, all |-> <<>>, localMNI |-> <<>>]
  <2>1. x = one
    BY <1>3 DEF Extension
  <2>2. y = one
    BY <1>3 DEF Extension
  <2> HIDE DEF one
  <2> QED BY <2>1, <2>2
<1>4. ASSUME NEW r \in Results(i, edges) PROVE r[1] \in Patterns(g) /\ IsRecord(r[1], r[2]) /\ r = <<r[1], r[2]>>
  <2>1. PICK c \in Mine(i) : \E x \in Extension(i, c, edges) : r = <<c.pat, x>>
    BY <1>1
  <2>2. PICK x \in Extension(i, c, edges) : r = <<c.pat, x>>
    BY <2>1
  <2>3. IsRecord(c.pat, x)
    BY <1>2, ExtensionFound
  <2>4. c.pat \in Patterns(g)
    BY <1>2 DEF Grows
  <2> QED BY <2>2, <2>3, <2>4
<1>5. ASSUME NEW r \in Results(i, edges), NEW s \in Results(i, edges), r[1] = s[1] PROVE r = s
  <2>1. PICK c \in Mine(i) : \E x \in Extension(i, c, edges) : r = <<c.pat, x>>
    BY <1>1
  <2>2. PICK x \in Extension(i, c, edges) : r = <<c.pat, x>>
    BY <2>1
  <2>3. PICK d \in Mine(i) : \E y \in Extension(i, d, edges) : s = <<d.pat, y>>
    BY <1>1
  <2>4. PICK y \in Extension(i, d, edges) : s = <<d.pat, y>>
    BY <2>3
  <2>5. c.pat = d.pat
    BY <1>5, <2>2, <2>4
  <2>6. c = d
    BY <1>2, <2>5 DEF GrowInv
  <2> QED BY <1>3, <2>2, <2>4, <2>6
<1> QED BY <1>4, <1>5

\* The counts that a record keeps say nothing of its columns.
LEMMA RecordKept ==
  ASSUME NEW p, NEW r, IsRecord(p, r), NEW x
  PROVE  /\ IsRecord(p, [r EXCEPT !.all = x]) /\ IsRecord(p, [r EXCEPT !.localMNI = x])
         /\ [r EXCEPT !.localMNI = x].mni = r.mni
<1>1. PICK o, m, a, n : r = [order |-> o, mni |-> m, all |-> a, localMNI |-> n]
  BY DEF IsRecord
<1>2. /\ IsOrder(o, Nodes(Graph(p))) /\ p.fwd = {{o[k][1], o[k][2]} : k \in DOMAIN o}
      /\ DOMAIN m = Nodes(Graph(p)) /\ \A l \in Nodes(Graph(p)) : m[l] \subseteq Truth(p)[l]
  BY <1>1 DEF IsRecord
<1>3. /\ [r EXCEPT !.all = x] = [order |-> o, mni |-> m, all |-> x, localMNI |-> n]
      /\ [r EXCEPT !.localMNI = x] = [order |-> o, mni |-> m, all |-> a, localMNI |-> x]
  BY <1>1
<1>4. \A y, z : IsRecord(p, [order |-> o, mni |-> m, all |-> y, localMNI |-> z])
  BY <1>2 DEF IsRecord
<1> QED BY <1>1, <1>3, <1>4

\* What a site has found, and tells of it.
LEMMA SiteFinds ==
  ASSUME AskInv, GrowInv, SitesInv, NEW i \in Client, SiteExtends(i), g' = g
  PROVE  AreRecords(local'[i]) /\ local' = [local EXCEPT ![i] = local'[i]] /\ outbox'[i] = Sent(i)'
<1> DEFINE edges == known[i] \union inbox[i]
           result == Results(i, edges)
           F == [p \in {r[1] : r \in result} |-> (CHOOSE r \in result : r[1] = p)[2]]
           M == UNION {UNION {{<<r[1], l, v>> : v \in Virtual(g, r[2].mni[l], i)} : l \in Nodes(Graph(r[1]))} : r \in result}
<1>1. local' = [local EXCEPT ![i] = F] /\ outbox' = [outbox EXCEPT ![i] = M] /\ step = "extend"
  BY DEF SiteExtends, Results, Says, Turn
<1>2. edges \subseteq g.edges /\ g \in Problem /\ DOMAIN local = Client /\ DOMAIN outbox = Client
  BY <1>1 DEF AskInv, EdgesReal, Answers, Steps
<1>3. /\ \A r \in result : r[1] \in Patterns(g) /\ IsRecord(r[1], r[2]) /\ r = <<r[1], r[2]>>
      /\ \A r, s \in result : r[1] = s[1] => r = s
  <2> HIDE DEF edges
  <2> QED BY <1>2, ResultsAre
<1> HIDE DEF result
<1>4. ASSUME NEW r \in result PROVE r[1] \in DOMAIN F /\ F[r[1]] = r[2]
  <2>1. PICK s : s = (CHOOSE q \in result : q[1] = r[1])
    OBVIOUS
  <2>2. s \in result /\ s[1] = r[1]
    BY <2>1
  <2>3. s = r
    BY <1>3, <2>2
  <2> QED BY <2>1, <2>3
<1>5. ASSUME NEW p \in DOMAIN F PROVE \E r \in result : r[1] = p /\ F[p] = r[2]
  BY <1>4
<1> HIDE DEF F, M
<1>6. AreRecords(F)
  BY <1>3, <1>5 DEF AreRecords
<1>7. local'[i] = F /\ outbox'[i] = M
  BY <1>1, <1>2
<1>8. Sent(i)' = UNION {UNION {{<<p, l, v>> : v \in Virtual(g, F[p].mni[l], i)} : l \in Nodes(Graph(p))} : p \in DOMAIN F}
  BY <1>7 DEF Sent, Virtual
<1>9. M = UNION {UNION {{<<p, l, v>> : v \in Virtual(g, F[p].mni[l], i)} : l \in Nodes(Graph(p))} : p \in DOMAIN F}
  <2> DEFINE Tells(p, mni) == UNION {{<<p, l, v>> : v \in Virtual(g, mni[l], i)} : l \in Nodes(Graph(p))}
  <2>1. M = UNION {Tells(r[1], r[2].mni) : r \in result}
    BY DEF M
  <2> HIDE DEF Tells
  <2>2. UNION {Tells(r[1], r[2].mni) : r \in result} = UNION {Tells(p, F[p].mni) : p \in DOMAIN F}
    BY <1>4, <1>5
  <2> QED BY <2>1, <2>2 DEF Tells
<1> QED BY <1>1, <1>6, <1>7, <1>8, <1>9

\* The counts of a site.
LEMMA SiteCounted ==
  ASSUME AskInv, SitesInv, NEW i \in Client, SiteCounts(i)
  PROVE  /\ outbox' = [outbox EXCEPT ![i] = Report(i)] /\ local' = [local EXCEPT ![i] = local'[i]]
         /\ DOMAIN local'[i] = DOMAIN local[i]
         /\ \A p \in DOMAIN local[i] : IsRecord(p, local'[i][p]) /\ local'[i][p].mni = local[i][p].mni
<1> DEFINE sent(p, l)  == {x[3] : x \in {y \in inbox[i] : y[1] = p /\ y[2] = l}}
           found(p, l) == IF p \in DOMAIN local[i] THEN local[i][p].mni[l] ELSE {}
           here(p, l)  == found(p, l) \ Virtual(g, found(p, l), i)
           M == [p \in DOMAIN local[i] \union {x[1] : x \in inbox[i]} |->
                      [l \in Nodes(Graph(p)) |-> Cardinality(here(p, l) \union sent(p, l))]]
           N(p) == [l \in Nodes(Graph(p)) |->
                          IF sent(p, l) = {} THEN Cardinality(here(p, l))
                          ELSE AtLeast0(Cardinality(found(p, l)) - Cardinality(sent(p, l)))]
           F == [p \in DOMAIN local[i] |-> [local[i][p] EXCEPT !.localMNI = N(p)]]
<1>1. outbox' = [outbox EXCEPT ![i] = M] /\ local' = [local EXCEPT ![i] = F]
  BY DEF SiteCounts, Says
<1>2. \A p, l : here(p, l) = Here(i, p, l) /\ sent(p, l) = Told(i, p, l)
  BY DEF Here, Told, Virtual
<1>3. M = Report(i)
  <2> HIDE DEF here, sent
  <2> QED BY <1>2 DEF Report, Share
<1>4. DOMAIN local = Client
  BY DEF AskInv, Steps
<1> HIDE DEF M, N
<1>5. local'[i] = F
  BY <1>1, <1>4
<1>6. ASSUME NEW p \in DOMAIN local[i] PROVE IsRecord(p, F[p]) /\ F[p].mni = local[i][p].mni
  <2>1. IsRecord(p, local[i][p])
    BY DEF SitesInv, AreRecords
  <2>2. F[p] = [local[i][p] EXCEPT !.localMNI = N(p)]
    OBVIOUS
  <2>3. PICK r : r = local[i][p]
    OBVIOUS
  <2> QED BY <2>1, <2>2, <2>3, RecordKept
<1>7. DOMAIN F = DOMAIN local[i]
  OBVIOUS
<1> HIDE DEF F
<1> QED BY <1>1, <1>3, <1>5, <1>6, <1>7

LEMMA SitesBySite ==
  ASSUME AskInv, GrowInv, SitesInv, NEW i \in Client, Site(i)
  PROVE  SitesInv'
<1>1. g' = g
  BY DEF Site
<1>2. \A f : AreRecords(f)' <=> AreRecords(f)
  BY <1>1, SameRecords DEF AreRecords
<1>3. ASSUME \A j \in Client : AreRecords(pattern_map'[j]) /\ AreRecords(local'[j]) PROVE SitesInv'
  <2>1. \A p, r : IsRecord(p, r)' <=> IsRecord(p, r)
    BY <1>1, SameRecords
  <2> QED BY <1>1, <1>3, <2>1 DEF SitesInv, AreRecords
<1>4. \A j \in Client : AreRecords(pattern_map[j]) /\ AreRecords(local[j])
  BY DEF SitesInv
<1>d. DOMAIN local = Client /\ DOMAIN pattern_map = Client
  BY DEF AskInv, Steps
<1>5. CASE SiteAsks(i) \/ SiteAnswers(i)
  <2>1. pattern_map' = pattern_map /\ local' = local
    BY <1>5 DEF SiteAsks, SiteAnswers
  <2> QED BY <1>3, <1>4, <2>1
<1>6. CASE SiteExtends(i)
  <2>1. pattern_map' = pattern_map
    BY <1>6 DEF SiteExtends
  <2>2. AreRecords(local'[i]) /\ local' = [local EXCEPT ![i] = local'[i]]
    BY <1>1, <1>6, SiteFinds
  <2>3. \A j \in Client \ {i} : local'[j] = local[j]
    BY <1>d, <2>2
  <2> QED BY <1>3, <1>4, <2>1, <2>2, <2>3
<1>7. CASE SiteCounts(i)
  <2>1. pattern_map' = pattern_map
    BY <1>7 DEF SiteCounts
  <2>2. /\ local' = [local EXCEPT ![i] = local'[i]] /\ DOMAIN local'[i] = DOMAIN local[i]
        /\ \A p \in DOMAIN local[i] : IsRecord(p, local'[i][p])
    BY <1>7, SiteCounted
  <2>3. \A j \in Client \ {i} : local'[j] = local[j]
    BY <1>d, <2>2
  <2>4. AreRecords(local'[i])
    BY <1>4, <2>2 DEF AreRecords
  <2> QED BY <1>3, <1>4, <2>1, <2>3, <2>4
<1>8. CASE SiteKeeps(i)
  <2> DEFINE new == DOMAIN local[i] \intersect DOMAIN inbox[i]
             F == [p \in new \union DOMAIN pattern_map[i] |->
                     IF p \in new THEN [local[i][p] EXCEPT !.all = inbox[i][p]] ELSE pattern_map[i][p]]
  <2>1. pattern_map' = [pattern_map EXCEPT ![i] = F] /\ local' = local
    BY <1>8 DEF SiteKeeps
  <2>2. ASSUME NEW p \in DOMAIN F PROVE p \in Patterns(g) /\ IsRecord(p, F[p])
    <3>1. CASE p \in new
      <4>1. p \in Patterns(g) /\ IsRecord(p, local[i][p]) /\ F[p] = [local[i][p] EXCEPT !.all = inbox[i][p]]
        BY <1>4, <3>1 DEF AreRecords
      <4>2. PICK r, x : r = local[i][p] /\ x = inbox[i][p]
        OBVIOUS
      <4> HIDE DEF F, new
      <4>3. IsRecord(p, r) /\ F[p] = [r EXCEPT !.all = x]
        BY <4>1, <4>2
      <4>4. IsRecord(p, [r EXCEPT !.all = x])
        BY <4>3, RecordKept
      <4> QED BY <4>1, <4>3, <4>4
    <3>2. CASE p \notin new
      BY <1>4, <2>2, <3>2 DEF AreRecords
    <3> QED BY <3>1, <3>2
  <2> HIDE DEF F
  <2>3. AreRecords(F)
    BY <2>2 DEF AreRecords
  <2>4. \A j \in Client : AreRecords(pattern_map'[j])
    BY <1>4, <1>d, <2>1, <2>3
  <2> QED BY <1>3, <1>4, <2>1, <2>4
<1> QED BY <1>5, <1>6, <1>7, <1>8 DEF Site

LEMMA SitesByMaster ==
  ASSUME SitesInv, Master
  PROVE  SitesInv'
<1>1. g' = g /\ pattern_map' = pattern_map /\ local' = local
  BY DEF Master
<1>2. \A p, r : IsRecord(p, r)' <=> IsRecord(p, r)
  BY <1>1, SameRecords
<1> QED BY <1>1, <1>2 DEF SitesInv, AreRecords

-----------------------------------------------------------------------------
(* The messages.                                                            *)

\* What is told and due depends on the columns only.
LEMMA SameTells ==
  ASSUME g' = g, NEW j, DOMAIN local'[j] = DOMAIN local[j], \A p \in DOMAIN local[j] : local'[j][p].mni = local[j][p].mni
  PROVE  /\ Sent(j)' = Sent(j)
         /\ \A p, l : Here(j, p, l)' = Here(j, p, l)
         /\ inbox'[j] = inbox[j] => Report(j)' = Report(j)
<1>1. \A p, l : p \in DOMAIN local[j] => Virtual(g, local[j][p].mni[l], j)' = Virtual(g, local[j][p].mni[l], j)
  BY DEF Virtual
<1>2. Sent(j)' = Sent(j)
  BY <1>1 DEF Sent
<1>3. \A p, l : Here(j, p, l)' = Here(j, p, l)
  BY <1>1 DEF Here
<1>4. inbox'[j] = inbox[j] => Report(j)' = Report(j)
  <2> SUFFICES ASSUME inbox'[j] = inbox[j] PROVE Report(j)' = Report(j)
    OBVIOUS
  <2>1. \A p, l : Told(j, p, l)' = Told(j, p, l)
    BY DEF Told
  <2>2. \A p, l : Share(j, p, l)' = Share(j, p, l)
    BY <1>3, <2>1 DEF Share
  <2> QED BY <2>2 DEF Report
<1> QED BY <1>2, <1>3, <1>4

\* Where a step of a round has nothing to do with matches.
LEMMA BoxKept ==
  ASSUME step' \notin {"extend", "count"} \/ (step' = "extend" /\ done' = {})
  PROVE  BoxInv'
BY DEF BoxInv

LEMMA BoxBySite ==
  ASSUME AskInv, GrowInv, SitesInv, BoxInv, NEW i \in Client, Site(i)
  PROVE  BoxInv'
<1>1. UNCHANGED <<g, T, at, level, cands, freq, step, inbox>>
  BY DEF Site, master
<1>d. DOMAIN local = Client /\ DOMAIN outbox = Client /\ done \subseteq Client
  BY DEF AskInv, Steps
<1>2. CASE SiteAsks(i) \/ SiteAnswers(i) \/ SiteKeeps(i)
  <2>1. step \notin {"extend", "count"}
    BY <1>2 DEF SiteAsks, SiteAnswers, SiteKeeps, Turn
  <2> QED BY <1>1, <2>1, BoxKept
<1>3. CASE SiteExtends(i)
  <2>1. step = "extend" /\ done' = done \union {i} /\ i \notin done
    BY <1>3 DEF SiteExtends, Turn
  <2>2. local' = [local EXCEPT ![i] = local'[i]] /\ outbox'[i] = Sent(i)'
    BY <1>1, <1>3, SiteFinds
  <2>3. PICK M : outbox' = [outbox EXCEPT ![i] = M]
    BY <1>3 DEF SiteExtends, Says
  <2>4. ASSUME NEW j \in done PROVE outbox'[j] = Sent(j)'
    <3>1. j \in Client /\ j # i
      BY <1>d, <2>1
    <3>2. local'[j] = local[j] /\ outbox'[j] = outbox[j]
      BY <1>d, <2>2, <2>3, <3>1
    <3>3. outbox[j] = Sent(j)
      BY <2>1 DEF BoxInv
    <3>4. Sent(j)' = Sent(j)
      BY <1>1, <3>2, SameTells
    <3> QED BY <3>2, <3>3, <3>4
  <2> QED BY <1>1, <2>1, <2>2, <2>4 DEF BoxInv
<1>4. CASE SiteCounts(i)
  <2>1. step = "count" /\ done' = done \union {i} /\ i \notin done
    BY <1>4 DEF SiteCounts, Turn
  <2>2. /\ outbox' = [outbox EXCEPT ![i] = Report(i)] /\ local' = [local EXCEPT ![i] = local'[i]]
        /\ DOMAIN local'[i] = DOMAIN local[i]
        /\ \A p \in DOMAIN local[i] : local'[i][p].mni = local[i][p].mni
    BY <1>4, SiteCounted
  <2>3. ASSUME NEW j \in Client
        PROVE  /\ DOMAIN local'[j] = DOMAIN local[j] /\ \A p \in DOMAIN local[j] : local'[j][p].mni = local[j][p].mni
    <3>1. CASE j = i
      BY <2>2, <3>1
    <3>2. CASE j # i
      <4>1. local'[j] = local[j]
        BY <1>d, <2>2, <3>2
      <4> QED BY <4>1
    <3> QED BY <3>1, <3>2
  <2>4. ASSUME NEW j \in Client PROVE Sent(j)' = Sent(j) /\ Report(j)' = Report(j)
    <3>1. DOMAIN local'[j] = DOMAIN local[j] /\ (\A p \in DOMAIN local[j] : local'[j][p].mni = local[j][p].mni)
      BY <2>3
    <3>2. inbox'[j] = inbox[j] /\ g' = g
      BY <1>1
    <3> QED BY <3>1, <3>2, SameTells
  <2>5. \A j \in Client : Due(j)' = Due(j)
    BY <1>1, <2>4 DEF Due
  <2>6. ASSUME NEW j \in done' PROVE outbox'[j] = Report(j)'
    <3>1. CASE j = i
      BY <1>d, <2>2, <2>4, <3>1
    <3>2. CASE j # i
      <4>1. j \in done /\ j \in Client
        BY <1>d, <2>1, <3>2
      <4>2. outbox'[j] = outbox[j]
        BY <1>d, <2>2, <3>2, <4>1
      <4>3. outbox[j] = Report(j)
        BY <2>1, <4>1 DEF BoxInv
      <4> QED BY <2>4, <4>1, <4>2, <4>3
    <3> QED BY <3>1, <3>2
  <2>7. \A j \in Client : inbox'[j] \subseteq Due(j)' /\ (at' = 0 => inbox'[j] = Due(j)')
    BY <1>1, <2>1, <2>5 DEF BoxInv
  <2> QED BY <1>1, <2>1, <2>6, <2>7 DEF BoxInv
<1> QED BY <1>2, <1>3, <1>4 DEF Site

LEMMA BoxByMaster ==
  ASSUME AskInv, BoxInv, Master
  PROVE  BoxInv'
<1>1. g' = g /\ local' = local
  BY DEF Master
<1>2. CASE MasterRoutesMatches
  <2>1. /\ step = "extend" /\ done = Client /\ step' = "count" /\ done' = {} /\ at' = at
        /\ inbox' = [i \in Client |-> IF at = 0 THEN For(i) ELSE LastFor(i)]
    BY <1>2 DEF MasterRoutesMatches, All, master
  <2>2. \A j \in Client : outbox[j] = Sent(j)
    BY <2>1 DEF BoxInv
  <2>3. \A i : For(i) = Due(i)
    BY <2>2 DEF For, Due
  <2>4. \A i : LastFor(i) \subseteq For(i)
    BY DEF LastFor
  <2>5. \A i \in Client : Due(i)' = Due(i)
    <3>1. \A j : Sent(j)' = Sent(j)
      BY <1>1 DEF Sent, Virtual
    <3> QED BY <1>1, <3>1 DEF Due
  <2>6. ASSUME NEW i \in Client PROVE inbox'[i] \subseteq Due(i) /\ (at = 0 => inbox'[i] = Due(i))
    <3>1. inbox'[i] = IF at = 0 THEN For(i) ELSE LastFor(i)
      BY <2>1
    <3> QED BY <2>3, <2>4, <3>1
  <2> QED BY <2>1, <2>5, <2>6 DEF BoxInv
<1>3. CASE ~MasterRoutesMatches
  <2>1. step' \notin {"extend", "count"} \/ (step' = "extend" /\ done' = {})
    BY <1>3 DEF Master, MasterRoutesQuestions, MasterRoutesNodes, MasterSums, MasterGrows, MasterDeepens,
                MasterOpensLevel, Then
  <2> QED BY <2>1, BoxKept
<1> QED BY <1>2, <1>3

-----------------------------------------------------------------------------
(* The sums.                                                                *)

LEMMA SentIs ==
  ASSUME NEW i
  PROVE  \A x : x \in Sent(i) <=> \E p \in DOMAIN local[i] : \E l, v : /\ l \in Nodes(Graph(p)) /\ v \in local[i][p].mni[l]
                                                                      /\ g.own[v] # i /\ x = <<p, l, v>>
BY DEF Sent, Virtual

\* What is found is true.
LEMMA FoundIsTrue ==
  ASSUME g \in Problem, SitesInv, NEW p \in Patterns(g), NEW l \in Nodes(Graph(p))
  PROVE  FoundBy(p, l) \subseteq Truth(p)[l] /\ FoundBy(p, l) \subseteq Vertices(l) /\ IsFiniteSet(FoundBy(p, l))
<1>1. ASSUME NEW i \in Client, p \in DOMAIN local[i] PROVE local[i][p].mni[l] \subseteq Truth(p)[l]
  BY <1>1 DEF SitesInv, AreRecords, IsRecord
<1>2. FoundBy(p, l) \subseteq Truth(p)[l]
  BY <1>1 DEF FoundBy
<1>3. Truth(p)[l] \subseteq Vertices(l) /\ IsFiniteSet(Truth(p)[l])
  BY TruthIs
<1>4. IsFiniteSet(FoundBy(p, l))
  BY <1>2, <1>3, FS_Subset
<1> QED BY <1>2, <1>3, <1>4

\* Each site counts vertices of its own, and of those found.
LEMMA ShareIs ==
  ASSUME NEW i \in Client, inbox[i] \subseteq Due(i), NEW p, NEW l
  PROVE  \A v \in Share(i, p, l) : g.own[v] = i /\ v \in FoundBy(p, l)
<1>1. ASSUME NEW v \in Here(i, p, l) PROVE g.own[v] = i /\ v \in FoundBy(p, l)
  BY DEF Here, Virtual, FoundBy
<1>2. ASSUME NEW v \in Told(i, p, l) PROVE g.own[v] = i /\ v \in FoundBy(p, l)
  <2>1. PICK x \in inbox[i] : x[1] = p /\ x[2] = l /\ x[3] = v
    BY DEF Told
  <2>2. PICK j \in Client : x \in Sent(j) /\ g.own[x[3]] = i
    BY DEF Due
  <2>3. PICK q, k, u : q \in DOMAIN local[j] /\ u \in local[j][q].mni[k] /\ x = <<q, k, u>>
    BY <2>2, SentIs
  <2>4. q = p /\ k = l /\ u = v
    BY <2>1, <2>3
  <2> QED BY <2>1, <2>2, <2>3, <2>4 DEF FoundBy
<1> QED BY <1>1, <1>2 DEF Share

\* In the forward loop each vertex found is counted by its owner.
LEMMA ShareHas ==
  ASSUME g \in Problem, SitesInv, \A i \in Client : inbox[i] = Due(i),
         NEW p \in Patterns(g), NEW l \in Nodes(Graph(p)), NEW v \in FoundBy(p, l)
  PROVE  \E i \in Client : p \in DOMAIN Report(i) /\ v \in Share(i, p, l)
<1>1. PICK j \in Client : p \in DOMAIN local[j] /\ v \in local[j][p].mni[l]
  BY DEF FoundBy
<1>2. PICK i \in Client : g.own[v] = i
  <2>1. v \in DOMAIN g.label
    BY FoundIsTrue DEF Vertices
  <2> QED BY <2>1, ProblemIs
<1>3. \A k : DOMAIN Report(k) = DOMAIN local[k] \union {x[1] : x \in inbox[k]}
  BY DEF Report
<1>4. CASE i = j
  <2>1. v \in Here(i, p, l)
    BY <1>1, <1>2, <1>4 DEF Here, Virtual
  <2> QED BY <1>1, <1>3, <1>4, <2>1 DEF Share
<1>5. CASE i # j
  <2>1. PICK x : x = <<p, l, v>>
    OBVIOUS
  <2>2. x \in Sent(j)
    BY <1>1, <1>2, <1>5, <2>1, SentIs
  <2>3. x \in Due(i)
    BY <1>2, <2>1, <2>2 DEF Due
  <2>4. x \in inbox[i]
    BY <2>3
  <2>5. v \in Told(i, p, l)
    BY <2>1, <2>4 DEF Told
  <2>6. p \in DOMAIN Report(i)
    <3>1. x[1] = p
      BY <2>1
    <3>2. p \in {y[1] : y \in inbox[i]}
      BY <2>4, <3>1
    <3> QED BY <1>3, <3>2
  <2> QED BY <2>5, <2>6 DEF Share
<1> QED BY <1>4, <1>5

\* The sum of one column.
LEMMA SumIs ==
  ASSUME AskInv, SitesInv, BoxInv, step = "count", done = Client,
         NEW p \in UNION {DOMAIN outbox[i] : i \in Client}, NEW l \in Nodes(Graph(p))
  PROVE  LET sum == Total(outbox, p, l, {i \in Client : p \in DOMAIN outbox[i]})
         IN sum \in 0 .. Cardinality(FoundBy(p, l)) /\ (at = 0 => sum = Cardinality(FoundBy(p, l)))
<1> DEFINE R == {i \in Client : p \in DOMAIN outbox[i]}
           S == [i \in R |-> Share(i, p, l)]
<1>1. \A i \in Client : /\ outbox[i] = Report(i) /\ inbox[i] \subseteq Due(i) /\ (at = 0 => inbox[i] = Due(i))
                        /\ DOMAIN outbox[i] \subseteq Patterns(g)
  BY ReportedIs DEF BoxInv
<1>2. p \in Patterns(g) /\ g \in Problem /\ IsFiniteSet(R)
  <2>1. IsFiniteSet(Client) /\ R \subseteq Client
    BY ProblemAssumption DEF ProblemAssumption
  <2> QED BY <1>1, <2>1, FS_Subset DEF AskInv, Steps
<1>3. \A i \in R : outbox[i][p][l] = Cardinality(Share(i, p, l))
  <2> SUFFICES ASSUME NEW i \in R PROVE Report(i)[p][l] = Cardinality(Share(i, p, l))
    BY <1>1
  <2>1. p \in DOMAIN Report(i)
    BY <1>1
  <2> QED BY <2>1 DEF Report
<1>4. \A i \in R : \A v \in Share(i, p, l) : g.own[v] = i /\ v \in FoundBy(p, l)
  BY <1>1, ShareIs
<1>5. IsFiniteSet(FoundBy(p, l))
  BY <1>2, FoundIsTrue
<1>6. ASSUME NEW i \in R PROVE IsFiniteSet(Share(i, p, l))
  <2>1. Share(i, p, l) \subseteq FoundBy(p, l)
    BY <1>4
  <2> QED BY <1>5, <2>1, FS_Subset
<1> HIDE DEF R
<1>7. Shares(outbox, p, l, R, S)
  <2>1. \A i \in R : S[i] = Share(i, p, l)
    OBVIOUS
  <2> HIDE DEF S
  <2> QED BY <1>3, <1>4, <1>6, <2>1 DEF Shares
<1>8. Both(S, R) \subseteq FoundBy(p, l)
  BY <1>4 DEF Both
<1>9. ASSUME at = 0 PROVE FoundBy(p, l) \subseteq Both(S, R)
  <2> SUFFICES ASSUME NEW v \in FoundBy(p, l) PROVE v \in Both(S, R)
    OBVIOUS
  <2>1. PICK i \in Client : p \in DOMAIN Report(i) /\ v \in Share(i, p, l)
    <3>1. \A i \in Client : inbox[i] = Due(i)
      BY <1>1, <1>9
    <3> QED BY <1>2, <3>1, ShareHas
  <2>2. i \in R /\ v \in S[i]
    BY <1>1, <2>1 DEF R
  <2> QED BY <2>2 DEF Both
<1> HIDE DEF S
<1>10. Total(outbox, p, l, R) = Cardinality(Both(S, R))
  BY <1>2, <1>7, TotalIs
<1>11. Cardinality(Both(S, R)) <= Cardinality(FoundBy(p, l))
  BY <1>5, <1>8, FS_Subset
<1>12. Cardinality(Both(S, R)) \in Nat /\ Cardinality(FoundBy(p, l)) \in Nat
  BY <1>2, <1>5, <1>7, TotalIs, FS_CardinalityType
<1>13. at = 0 => Both(S, R) = FoundBy(p, l)
  BY <1>8, <1>9
<1> QED BY <1>10, <1>11, <1>12, <1>13 DEF R

LEMMA SumsInit == Init => SumsInv
<1> SUFFICES ASSUME Init, Counted PROVE SumsInv
  BY DEF SumsInv
<1>1. Client = {} /\ g \in Problem /\ level = FrequentEdges(g) /\ DOMAIN freq = {}
  BY DEF Init, Counted
<1>2. level = {}
  <2> SUFFICES ASSUME NEW e \in g.edges PROVE FALSE
    BY <1>1 DEF FrequentEdges
  <2>1. PICK u : u \in DOMAIN g.label
    BY <1>1, EdgeLabel
  <2> QED BY <1>1, <2>1, ProblemIs
<1> QED BY <1>1, <1>2 DEF SumsInv

LEMMA SumsBySums ==
  ASSUME AskInv, SitesInv, BoxInv, local' = local, MasterSums
  PROVE  SumsInv'
<1> DEFINE reported == UNION {DOMAIN outbox[i] : i \in Client}
<1>1. step = "count" /\ done = Client /\ at' = at
  BY DEF MasterSums, All
<1>2. freq' = [p \in reported |-> [l \in Nodes(Graph(p)) |-> Total(outbox, p, l, {i \in Client : p \in DOMAIN outbox[i]})]]
  BY DEF MasterSums, Total
<1>3. level' \subseteq DOMAIN freq'
  BY DEF MasterSums
<1>4. \A p, l : FoundBy(p, l)' = FoundBy(p, l)
  BY DEF FoundBy
<1>5. ASSUME NEW p \in DOMAIN freq'
      PROVE  /\ DOMAIN freq'[p] = Nodes(Graph(p))
             /\ \A l \in Nodes(Graph(p)) : /\ freq'[p][l] \in 0 .. Cardinality(FoundBy(p, l))
                                           /\ at = 0 => freq'[p][l] = Cardinality(FoundBy(p, l))
  <2>1. p \in reported
    BY <1>2
  <2>2. freq'[p] = [l \in Nodes(Graph(p)) |-> Total(outbox, p, l, {i \in Client : p \in DOMAIN outbox[i]})]
    BY <1>2, <2>1
  <2>3. ASSUME NEW l \in Nodes(Graph(p))
        PROVE  /\ freq'[p][l] \in 0 .. Cardinality(FoundBy(p, l))
               /\ at = 0 => freq'[p][l] = Cardinality(FoundBy(p, l))
    <3>1. freq'[p][l] = Total(outbox, p, l, {i \in Client : p \in DOMAIN outbox[i]})
      BY <2>2
    <3>2. LET sum == Total(outbox, p, l, {i \in Client : p \in DOMAIN outbox[i]})
          IN sum \in 0 .. Cardinality(FoundBy(p, l)) /\ (at = 0 => sum = Cardinality(FoundBy(p, l)))
      BY <1>1, <2>1, SumIs
    <3> QED BY <3>1, <3>2
  <2>4. DOMAIN freq'[p] = Nodes(Graph(p))
    BY <2>2
  <2> QED BY <2>3, <2>4
<1>6. ASSUME NEW p \in DOMAIN freq', at = 0 PROVE CountedOnce(p)'
  <2>1. PICK D, F : freq'[p] = [l \in D |-> F[l]]
    <3>1. p \in reported
      BY <1>2, <1>6
    <3> DEFINE F == [l \in Nodes(Graph(p)) |-> Total(outbox, p, l, {i \in Client : p \in DOMAIN outbox[i]})]
    <3>2. freq'[p] = F
      BY <1>2, <3>1
    <3>3. F = [l \in Nodes(Graph(p)) |-> F[l]]
      OBVIOUS
    <3> QED BY <3>2, <3>3
  <2>2. freq'[p] = [l \in DOMAIN freq'[p] |-> Cardinality(FoundBy(p, l))]
    BY <1>5, <1>6, <2>1
  <2> QED BY <1>4, <2>2 DEF CountedOnce
<1> HIDE DEF reported
<1> QED BY <1>1, <1>3, <1>4, <1>5, <1>6 DEF SumsInv

LEMMA SumsKept ==
  ASSUME ~Counted'
  PROVE  SumsInv'
BY DEF SumsInv

LEMMA SumsStay ==
  ASSUME AskInv, SitesInv, BoxInv, Next
  PROVE  SumsInv'
<1>1. CASE Master
  <2>1. CASE MasterSums
    BY <1>1, <2>1, SumsBySums DEF Master
  <2>2. CASE ~MasterSums
    <3>1. step' # "keep"
      BY <1>1, <2>2 DEF Master, MasterRoutesQuestions, MasterRoutesNodes, MasterRoutesMatches, MasterGrows, MasterDeepens,
                        MasterOpensLevel, Then
    <3> QED BY <3>1, SumsKept DEF Counted
  <2> QED BY <2>1, <2>2
<1>2. ASSUME NEW i \in Client, Site(i) PROVE SumsInv'
  <2>1. i \in done'
    BY <1>2 DEF Site, SiteAsks, SiteAnswers, SiteExtends, SiteCounts, SiteKeeps, Turn
  <2> QED BY <2>1, SumsKept DEF Counted
<1> QED BY <1>1, <1>2 DEF Next

-----------------------------------------------------------------------------
(* The whole.                                                               *)

LEMMA InvStays ==
  ASSUME IInv, Next
  PROVE  IInv'
<1>1. AskInv /\ GrowInv /\ SitesInv /\ BoxInv /\ SumsInv /\ g \in Problem
  BY DEF IInv, AskInv, Steps
<1>2. AskInv'
  BY <1>1, AskStays
<1>3. GrowInv' /\ SitesInv' /\ BoxInv'
  <2>1. CASE Master
    BY <1>1, <2>1, GrowByMaster, SitesByMaster, BoxByMaster
  <2>2. ASSUME NEW i \in Client, Site(i) PROVE GrowInv' /\ SitesInv' /\ BoxInv'
    BY <1>1, <2>2, GrowBySite, SitesBySite, BoxBySite
  <2> QED BY <2>1, <2>2 DEF Next
<1>4. SumsInv'
  BY <1>1, SumsStay
<1> QED BY <1>2, <1>3, <1>4 DEF IInv

LEMMA InvStutters ==
  ASSUME IInv, UNCHANGED vars
  PROVE  IInv'
<1>1. /\ g' = g /\ T' = T /\ at' = at /\ level' = level /\ cands' = cands /\ freq' = freq /\ step' = step /\ done' = done
      /\ inbox' = inbox /\ outbox' = outbox /\ known' = known /\ asked' = asked /\ pattern_map' = pattern_map /\ local' = local
  BY DEF vars
<1>2. AskInv'
  BY AskStays DEF IInv
<1>3. GrowInv'
  BY <1>1 DEF IInv, GrowInv, Extends
<1>4. SitesInv'
  <2>1. \A p, r : IsRecord(p, r)' <=> IsRecord(p, r)
    BY <1>1, SameRecords
  <2> QED BY <1>1, <2>1 DEF IInv, SitesInv, AreRecords
<1>5. BoxInv'
  <2>1. \A j : Sent(j)' = Sent(j) /\ Report(j)' = Report(j)
    BY <1>1, SameTells
  <2>2. \A j : Due(j)' = Due(j)
    BY <1>1, <2>1 DEF Due
  <2> QED BY <1>1, <2>1, <2>2 DEF IInv, BoxInv
<1>6. SumsInv'
  BY <1>1 DEF IInv, SumsInv, Counted, FoundBy, CountedOnce
<1> QED BY <1>2, <1>3, <1>4, <1>5, <1>6 DEF IInv

LEMMA BoxInit == Init => BoxInv
BY DEF Init, BoxInv

\* What the sites have asked and know, the patterns and candidates, what has
\* been found, what is told and what is counted hold together in every state.
THEOREM CountingInv == Spec => []IInv
<1>1. Init => IInv
  BY AskInit, GrowInit, SitesInit, BoxInit, SumsInit DEF IInv
<1>2. IInv /\ [Next]_vars => IInv'
  BY InvStays, InvStutters
<1> QED BY <1>1, <1>2, PTL DEF Spec

\* Columns hold vertices of their label only, and no count of a pattern is
\* larger than its support in the whole graph, whatever the graph, its
\* partition and the number of sites (StatisticMNI, StatisticMNItable: what
\* several sites find is counted once, by the owner, and every vertex that a
\* site leaves in a column is in a match of the whole graph).
THEOREM SupportNeverTooLarge == Spec => []SupportInv
<1>1. IInv => TypeOK
  <2> SUFFICES ASSUME IInv PROVE TypeOK
    OBVIOUS
  <2>1. g \in Problem /\ done \subseteq Client /\ at \in 0 .. Len(T)
    BY DEF IInv, AskInv, Steps, GrowInv
  <2>2. \A c \in cands : Connected(Graph(c.pat))
    BY <2>1, PatternIs DEF IInv, GrowInv
  <2>3. \A i \in Client : known[i] \subseteq g.edges
    BY DEF IInv, AskInv, EdgesReal
  <2>4. ASSUME NEW p, NEW r, p \in Patterns(g), IsRecord(p, r) PROVE Counts(r.mni)
    <3>1. DOMAIN r.mni = Nodes(Graph(p)) /\ \A l \in Nodes(Graph(p)) : r.mni[l] \subseteq Truth(p)[l]
      BY <2>4, RecordIs
    <3>2. \A l \in Nodes(Graph(p)) : Truth(p)[l] \subseteq Vertices(l)
      BY <2>1, <2>4, TruthIs
    <3> QED BY <3>1, <3>2 DEF Counts, Vertices
  <2>5. \A i \in Client : /\ \A p \in DOMAIN pattern_map[i] : Counts(pattern_map[i][p].mni)
                          /\ \A p \in DOMAIN local[i] : Counts(local[i][p].mni)
    BY <2>4 DEF IInv, SitesInv, AreRecords
  <2> QED BY <2>1, <2>2, <2>3, <2>5 DEF TypeOK
<1>2. IInv => NeverTooMany
  <2> SUFFICES ASSUME IInv, Counted, NEW p \in level, NEW l \in DOMAIN freq[p] PROVE freq[p][l] <= Cardinality(Truth(p)[l])
    BY DEF NeverTooMany
  <2>1. g \in Problem /\ p \in Patterns(g) /\ SitesInv
    BY DEF IInv, AskInv, Steps, GrowInv
  <2>2. l \in Nodes(Graph(p)) /\ freq[p][l] \in 0 .. Cardinality(FoundBy(p, l))
    BY DEF IInv, SumsInv
  <2>3. FoundBy(p, l) \subseteq Truth(p)[l] /\ IsFiniteSet(Truth(p)[l])
    BY <2>1, <2>2, FoundIsTrue, TruthIs
  <2>4. Cardinality(FoundBy(p, l)) <= Cardinality(Truth(p)[l])
    BY <2>3, FS_Subset
  <2>5. Cardinality(FoundBy(p, l)) \in Nat /\ Cardinality(Truth(p)[l]) \in Nat
    BY <2>3, FS_Subset, FS_CardinalityType
  <2> QED BY <2>2, <2>4, <2>5
<1> QED BY <1>1, <1>2, CountingInv, PTL DEF SupportInv

\* In the forward loop the count of a column is the number of vertices that
\* any site has found for it: none is lost on the way to its owner and none
\* is counted twice (ForwardEx.Get_external, StatisticMNI, StatisticMNItable).
THEOREM TreesAddUp == Spec => []TreesSummed
<1>1. IInv => TreesSummed
  BY DEF IInv, SumsInv, TreesSummed
<1> QED BY <1>1, CountingInv, PTL
=============================================================================
