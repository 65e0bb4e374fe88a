------------------------- MODULE MiningSessionProofs -------------------------
(***************************************************************************)
(* The proofs that the two scripts of a session never fall out of step,    *)
(* that a pattern given up or miscounted at a site costs only what rests   *)
(* on it, in the tree as in the backward loop, and that a session ends     *)
(* with the best K of what is found, for all sites and worlds in which     *)
(* there is a frequent edge and every site has each, and whatever the      *)
(* sites miss.                                                             *)
(***************************************************************************)
EXTENDS MiningSessionInv, FiniteSetTheorems, SequenceTheorems, TLAPS

-----------------------------------------------------------------------------
(* Connected graphs.                                                        *)

LEMMA LeastNumber ==
  ASSUME NEW S, S \subseteq Nat, S # {}
  PROVE  \E n \in S : \A m \in S : n <= m
<1>1. IsWellFoundedOn(OpToRel(<, Nat), Nat)
  BY NatLessThanWellFounded
<1>2. PICK n \in S : \A m \in S : ~(<<m, n>> \in OpToRel(<, Nat))
  BY <1>1, WFMin
<1>3. \A m \in S : ~(m < n)
  BY <1>2 DEF OpToRel
<1> QED BY <1>3

LEMMA NodesOfParts ==
  ASSUME NEW g, NEW h
  PROVE  /\ Nodes(g \union h) = Nodes(g) \union Nodes(h)
         /\ h \subseteq g => Nodes(h) \subseteq Nodes(g)
         /\ \A e : Nodes({e}) = e
         /\ \A x : x \in Nodes(g) <=> \E e \in g : x \in e
         /\ Nodes({}) = {}
BY DEF Nodes

LEMMA SingleConnected ==
  ASSUME NEW e
  PROVE  Connected({e})
BY DEF Connected

\* A proper part of a connected graph is touched by another edge.
LEMMA Touching ==
  ASSUME NEW g, Connected(g), NEW h, h \subseteq g, h # {}, h # g
  PROVE  \E e \in g \ h : e \cap Nodes(h) # {}
<1>1. Nodes(h) \cap Nodes(g \ h) # {}
  BY DEF Connected
<1>2. PICK x : x \in Nodes(h) /\ x \in Nodes(g \ h)
  BY <1>1
<1>3. PICK e \in g \ h : x \in e
  BY <1>2 DEF Nodes
<1> QED BY <1>2, <1>3

\* A connected graph stays so with an edge that touches it.
LEMMA ConnectedGrows ==
  ASSUME NEW g, Connected(g), NEW e, e \cap Nodes(g) # {}
  PROVE  Connected(g \union {e})
<1> DEFINE k == g \union {e}
<1> SUFFICES ASSUME NEW s, s \subseteq k, s # {}, s # k
             PROVE  Nodes(s) \cap Nodes(k \ s) # {}
  BY DEF Connected
<1>1. PICK x : x \in e /\ x \in Nodes(g)
  OBVIOUS
<1>2. CASE s \cap g # {} /\ s \cap g # g
  <2>1. Nodes(s \cap g) \cap Nodes(g \ (s \cap g)) # {}
    BY <1>2 DEF Connected
  <2>2. s \cap g \subseteq s /\ g \ (s \cap g) \subseteq k \ s
    OBVIOUS
  <2>3. Nodes(s \cap g) \subseteq Nodes(s) /\ Nodes(g \ (s \cap g)) \subseteq Nodes(k \ s)
    BY <2>2, NodesOfParts
  <2> QED BY <2>1, <2>3
<1>3. CASE s \cap g = {}
  <2>1. s = {e} /\ g \subseteq k \ s
    BY <1>3
  <2>2. x \in Nodes(s) /\ x \in Nodes(k \ s)
    BY <1>1, <2>1, NodesOfParts
  <2> QED BY <2>2
<1>4. CASE s \cap g = g
  <2>1. e \in k \ s /\ g \subseteq s
    BY <1>4
  <2>2. x \in Nodes(k \ s) /\ x \in Nodes(s)
    BY <1>1, <2>1 DEF Nodes
  <2> QED BY <2>2
<1> QED BY <1>2, <1>3, <1>4

\* More edges between the nodes of a connected graph leave it connected.
LEMMA ConnectedFills ==
  ASSUME NEW h, Connected(h), NEW k, h \subseteq k, Nodes(k) = Nodes(h), \A e \in k : e # {}
  PROVE  Connected(k)
<1> SUFFICES ASSUME NEW s, s \subseteq k, s # {}, s # k
             PROVE  Nodes(s) \cap Nodes(k \ s) # {}
  BY DEF Connected
<1>1. CASE s \cap h # {} /\ s \cap h # h
  <2>1. Nodes(s \cap h) \cap Nodes(h \ (s \cap h)) # {}
    BY <1>1 DEF Connected
  <2>2. s \cap h \subseteq s /\ h \ (s \cap h) \subseteq k \ s
    OBVIOUS
  <2>3. Nodes(s \cap h) \subseteq Nodes(s) /\ Nodes(h \ (s \cap h)) \subseteq Nodes(k \ s)
    BY <2>2, NodesOfParts
  <2> QED BY <2>1, <2>3
<1>2. CASE s \cap h = {}
  <2>1. PICK e \in s : TRUE
    OBVIOUS
  <2>2. PICK x \in e : TRUE
    BY <2>1
  <2>3. x \in Nodes(s) /\ x \in Nodes(h) /\ h \subseteq k \ s
    BY <1>2, <2>1, <2>2 DEF Nodes
  <2>4. x \in Nodes(k \ s)
    BY <2>3, NodesOfParts
  <2> QED BY <2>3, <2>4
<1>3. CASE s \cap h = h
  <2>1. PICK e \in k \ s : TRUE
    OBVIOUS
  <2>2. PICK x \in e : TRUE
    BY <2>1
  <2>3. x \in Nodes(k \ s) /\ x \in Nodes(h) /\ h \subseteq s
    BY <1>3, <2>1, <2>2 DEF Nodes
  <2>4. x \in Nodes(s)
    BY <2>3, NodesOfParts
  <2> QED BY <2>3, <2>4
<1> QED BY <1>1, <1>2, <1>3

\* Among the parts of a finite graph with some property there is a largest.
LEMMA LargestPart ==
  ASSUME NEW g, IsFiniteSet(g), NEW P, P \subseteq SUBSET g, P # {}
  PROVE  \E k \in P : \A h \in P : Cardinality(h) <= Cardinality(k)
<1>1. Cardinality(g) \in Nat /\ \A h \in P : Cardinality(h) \in Nat /\ Cardinality(h) <= Cardinality(g)
  BY FS_CardinalityType, FS_Subset
<1> DEFINE S == {Cardinality(g) - Cardinality(h) : h \in P}
<1>2. S \subseteq Nat /\ S # {}
  BY <1>1
<1> HIDE DEF S
<1>3. PICK n \in S : \A m \in S : n <= m
  BY <1>2, LeastNumber
<1>4. PICK k \in P : n = Cardinality(g) - Cardinality(k)
  BY <1>3 DEF S
<1>5. \A h \in P : Cardinality(h) <= Cardinality(k)
  <2> SUFFICES ASSUME NEW h \in P PROVE Cardinality(h) <= Cardinality(k)
    OBVIOUS
  <2>1. Cardinality(g) - Cardinality(k) <= Cardinality(g) - Cardinality(h)
    BY <1>3, <1>4 DEF S
  <2> QED BY <1>1, <1>4, <2>1
<1> QED BY <1>4, <1>5

\* One edge more.
LEMMA OneMore ==
  ASSUME NEW k, IsFiniteSet(k), NEW e, e \notin k
  PROVE  /\ IsFiniteSet(k \union {e}) /\ Cardinality(k \union {e}) = Cardinality(k) + 1
         /\ Cardinality(k) \in Nat
BY FS_AddElement, FS_CardinalityType

\* Outside a connected part there is an edge whose removal leaves a connected
\* rest that it touches.
LEMMA Peel ==
  ASSUME NEW g, IsFiniteSet(g), Connected(g), NEW h, h \subseteq g, h # {}, h # g, Connected(h)
  PROVE  \E e \in g \ h : Connected(g \ {e}) /\ e \cap Nodes(g \ {e}) # {}
<1> DEFINE P == {k \in SUBSET g : h \subseteq k /\ k # g /\ Connected(k)}
<1>1. P \subseteq SUBSET g /\ h \in P
  OBVIOUS
<1>2. PICK k \in P : \A l \in P : Cardinality(l) <= Cardinality(k)
  <2> HIDE DEF P
  <2> QED BY <1>1, LargestPart
<1>3. k \subseteq g /\ h \subseteq k /\ k # g /\ Connected(k) /\ k # {} /\ IsFiniteSet(k)
  BY <1>2, FS_Subset
<1>4. PICK e \in g \ k : e \cap Nodes(k) # {}
  BY <1>3, Touching
<1>5. Connected(k \union {e})
  BY <1>3, <1>4, ConnectedGrows
<1>6. Cardinality(k \union {e}) = Cardinality(k) + 1 /\ Cardinality(k) \in Nat
  BY <1>3, <1>4, OneMore
<1>7. k \union {e} \notin P
  BY <1>2, <1>6
<1>8. k \union {e} = g
  BY <1>3, <1>4, <1>5, <1>7
<1>9. g \ {e} = k
  BY <1>4, <1>8
<1> QED BY <1>3, <1>4, <1>9
-----------------------------------------------------------------------------
(* How many nodes a graph has.                                              *)

Pairs(g) == \A e \in g : \E a, b \in e : e = {a, b}

LEMMA PairSize ==
  ASSUME NEW a, NEW b
  PROVE  /\ IsFiniteSet({a, b}) /\ Cardinality({a, b}) \in {1, 2}
         /\ a = b <=> Cardinality({a, b}) = 1
<1>1. IsFiniteSet({a}) /\ Cardinality({a}) = 1
  BY FS_Singleton
<1>2. CASE a = b
  <2>1. {a, b} = {a}
    BY <1>2
  <2> QED BY <1>1, <1>2, <2>1
<1>3. CASE a # b
  <2>1. {a, b} = {a} \union {b} /\ b \notin {a}
    BY <1>3
  <2>2. IsFiniteSet({a, b}) /\ Cardinality({a, b}) = 2
    BY <1>1, <2>1, OneMore
  <2> QED BY <1>3, <2>2
<1> QED BY <1>2, <1>3

LEMMA NodesFinite ==
  ASSUME NEW g, IsFiniteSet(g), Pairs(g)
  PROVE  IsFiniteSet(Nodes(g)) /\ Cardinality(Nodes(g)) \in Nat
<1>1. \A e \in g : IsFiniteSet(e)
  <2> SUFFICES ASSUME NEW e \in g PROVE IsFiniteSet(e)
    OBVIOUS
  <2>1. PICK a, b \in e : e = {a, b}
    BY DEF Pairs
  <2> QED BY <2>1, PairSize
<1> QED BY <1>1, FS_UNION, FS_CardinalityType DEF Nodes

\* A set within another and one element has at most one element more.
LEMMA AtMostOneMore ==
  ASSUME NEW S, IsFiniteSet(S), NEW x, NEW X, X \subseteq S \union {x}
  PROVE  /\ IsFiniteSet(X) /\ Cardinality(X) \in Nat /\ Cardinality(S) \in Nat
         /\ Cardinality(X) <= Cardinality(S) + 1
         /\ x \in S => Cardinality(X) <= Cardinality(S)
<1>1. IsFiniteSet(S \union {x}) /\ Cardinality(S) \in Nat /\ Cardinality(S \union {x}) <= Cardinality(S) + 1
  <2>1. Cardinality(S) \in Nat
    BY FS_CardinalityType
  <2>2. Cardinality(S \union {x}) = Cardinality(S) \/ Cardinality(S \union {x}) = Cardinality(S) + 1
    BY FS_AddElement
  <2>3. IsFiniteSet(S \union {x})
    BY FS_AddElement
  <2> QED BY <2>1, <2>2, <2>3
<1>2. IsFiniteSet(X) /\ Cardinality(X) <= Cardinality(S \union {x})
  BY <1>1, FS_Subset
<1>3. Cardinality(X) \in Nat /\ Cardinality(S \union {x}) \in Nat
  BY <1>1, <1>2, FS_CardinalityType
<1>4. x \in S => Cardinality(S \union {x}) = Cardinality(S)
  <2>1. x \in S => S \union {x} = S
    OBVIOUS
  <2> QED BY <2>1
<1>5. Cardinality(X) <= Cardinality(S) + 1
  BY <1>1, <1>2, <1>3
<1>6. x \in S => Cardinality(X) <= Cardinality(S)
  BY <1>2, <1>4
<1> QED BY <1>1, <1>2, <1>3, <1>5, <1>6

\* An edge that touches a graph brings at most one new node.
LEMMA TouchingNodes ==
  ASSUME NEW k, NEW e, e \cap Nodes(k) # {}, \E a, b \in e : e = {a, b}
  PROVE  \E x, y \in e : e = {x, y} /\ x \in Nodes(k) /\ Nodes(k \union {e}) = Nodes(k) \union {y}
<1>0. PICK a, b \in e : e = {a, b}
  OBVIOUS
<1>1. Nodes(k \union {e}) = Nodes(k) \union {a, b}
  <2>1. Nodes(k \union {e}) = Nodes(k) \union Nodes({e}) /\ Nodes({e}) = e
    BY NodesOfParts
  <2> QED BY <1>0, <2>1
<1>2. a \in Nodes(k) \/ b \in Nodes(k)
  BY <1>0
<1>3. CASE a \in Nodes(k)
  <2>1. Nodes(k \union {e}) = Nodes(k) \union {b}
    BY <1>1, <1>3
  <2> WITNESS a \in e, b \in e
  <2> QED BY <1>0, <1>3, <2>1
<1>4. CASE b \in Nodes(k)
  <2>1. Nodes(k \union {e}) = Nodes(k) \union {a}
    BY <1>1, <1>4
  <2>2. e = {b, a}
    BY <1>0
  <2> WITNESS b \in e, a \in e
  <2> QED BY <1>4, <2>1, <2>2
<1> QED BY <1>2, <1>3, <1>4

\* A connected graph has at most one node more than edges.
LEMMA NodesBound ==
  ASSUME NEW g, IsFiniteSet(g), Pairs(g), Connected(g), NEW d \in g
  PROVE  Cardinality(Nodes(g)) <= Cardinality(g) + Cardinality(d) - 1
<1> DEFINE Holds(h) == Cardinality(Nodes(h)) <= Cardinality(h) + Cardinality(d) - 1
           Bad == {h \in SUBSET g : d \in h /\ Connected(h) /\ ~Holds(h)}
           Sizes == {Cardinality(h) : h \in Bad}
<1> SUFFICES ASSUME Bad # {} PROVE FALSE
  OBVIOUS
<1>1. \A h \in SUBSET g : IsFiniteSet(h) /\ Cardinality(h) \in Nat
  BY FS_Subset, FS_CardinalityType
<1>2. Sizes \subseteq Nat /\ Sizes # {}
  BY <1>1
<1>3. PICK n \in Sizes : \A m \in Sizes : n <= m
  <2> HIDE DEF Sizes
  <2> QED BY <1>2, LeastNumber
<1>4. PICK h \in Bad : n = Cardinality(h)
  OBVIOUS
<1>5. \A k \in Bad : Cardinality(h) <= Cardinality(k)
  BY <1>3, <1>4
<1> HIDE DEF Sizes
<1>6. /\ h \subseteq g /\ d \in h /\ Connected(h) /\ ~Holds(h)
      /\ IsFiniteSet(h) /\ Cardinality(h) \in Nat
  BY <1>1, <1>4
<1>7. Cardinality(d) \in Nat
  <2>1. PICK a, b \in d : d = {a, b}
    BY DEF Pairs
  <2>2. Cardinality({a, b}) \in {1, 2}
    BY PairSize
  <2> QED BY <2>1, <2>2
<1>8. CASE h = {d}
  <2>1. Nodes(h) = d /\ Cardinality(h) = 1
    BY <1>8, NodesOfParts, FS_Singleton
  <2> QED BY <1>6, <1>7, <2>1
<1>9. CASE h # {d}
  <2>1. {d} \subseteq h /\ {d} # {} /\ Connected({d})
    BY <1>6, SingleConnected
  <2>2. PICK e \in h \ {d} : Connected(h \ {e}) /\ e \cap Nodes(h \ {e}) # {}
    BY <1>6, <1>9, <2>1, Peel
  <2> DEFINE k == h \ {e}
  <2>3. k \subseteq g /\ d \in k /\ e \notin k /\ h = k \union {e} /\ IsFiniteSet(k) /\ Pairs(k)
    BY <1>1, <1>6, <2>2 DEF Pairs
  <2>4. Connected(k) /\ e \cap Nodes(k) # {} /\ e \in g
    BY <1>6, <2>2
  <2> HIDE DEF k
  <2>5. Cardinality(h) = Cardinality(k) + 1 /\ Cardinality(k) \in Nat
    BY <2>3, OneMore
  <2>6. Holds(k)
    <3> SUFFICES ASSUME ~Holds(k) PROVE FALSE
      OBVIOUS
    <3>1. k \in Bad
      BY <2>3, <2>4
    <3>2. Cardinality(h) <= Cardinality(k)
      BY <1>5, <3>1
    <3> QED BY <2>5, <3>2
  <2>7. \E a, b \in e : e = {a, b}
    BY <2>4 DEF Pairs
  <2>8. PICK x, y \in e : Nodes(h) = Nodes(k) \union {y}
    <3>1. \E x, y \in e : e = {x, y} /\ x \in Nodes(k) /\ Nodes(k \union {e}) = Nodes(k) \union {y}
      BY <2>4, <2>7, TouchingNodes
    <3> QED BY <2>3, <3>1
  <2>9. IsFiniteSet(Nodes(k)) /\ Cardinality(Nodes(k)) \in Nat
    BY <2>3, NodesFinite
  <2>10. Cardinality(Nodes(h)) <= Cardinality(Nodes(k)) + 1 /\ Cardinality(Nodes(h)) \in Nat
    BY <2>8, <2>9, AtMostOneMore
  <2> QED BY <1>6, <1>7, <2>5, <2>6, <2>9, <2>10
<1> QED BY <1>8, <1>9
-----------------------------------------------------------------------------
(* Patterns.                                                                *)

LEMMA PatternPairs ==
  ASSUME NEW g, IsPattern(g)
  PROVE  /\ Pairs(g) /\ IsFiniteSet(g) /\ g # {} /\ Connected(g) /\ Cardinality(g) \in Nat \ {0}
         /\ IsFiniteSet(Nodes(g)) /\ Cardinality(Nodes(g)) \in Nat /\ Nodes(g) \subseteq Nat
         /\ \A e \in g : e # {}
<1>1. Pairs(g) /\ IsFiniteSet(g) /\ g # {} /\ Connected(g) /\ \A e \in g : e # {} /\ e \subseteq Nat
  BY DEF IsPattern, Pairs
<1>2. Cardinality(g) \in Nat \ {0}
  BY <1>1, FS_CardinalityType, FS_EmptySet
<1>3. IsFiniteSet(Nodes(g)) /\ Cardinality(Nodes(g)) \in Nat
  BY <1>1, NodesFinite
<1>4. Nodes(g) \subseteq Nat
  BY <1>1 DEF Nodes
<1> QED BY <1>1, <1>2, <1>3, <1>4

\* A tree of two edges or more has a leaf: without its edge, a tree is left.
LeavesTree(g, h, n, a, b) ==
  /\ h \subseteq g /\ h # {} /\ Connected(h) /\ Cardinality(h) = n /\ Cardinality(Nodes(h)) = n + 1
  /\ a \in Nodes(h) /\ b \notin Nodes(h) /\ {a, b} \notin h /\ g = h \union {{a, b}}
LEMMA Leaf ==
  ASSUME NEW g, IsPattern(g), NEW n \in Nat \ {0}, Cardinality(g) = n + 1, Cardinality(Nodes(g)) = n + 2
  PROVE  \E h, a, b : LeavesTree(g, h, n, a, b)
<1>1. Pairs(g) /\ IsFiniteSet(g) /\ g # {} /\ Connected(g)
  BY PatternPairs
<1>2. PICK d \in g : TRUE
  BY <1>1
<1>3. {d} # g /\ {d} \subseteq g /\ {d} # {} /\ Connected({d})
  <2>1. Cardinality({d}) = 1
    BY FS_Singleton
  <2>2. Cardinality(g) # 1
    OBVIOUS
  <2>3. {d} # g
    BY <2>1, <2>2
  <2> QED BY <1>2, <2>3, SingleConnected
<1>4. PICK e \in g \ {d} : Connected(g \ {e}) /\ e \cap Nodes(g \ {e}) # {}
  BY <1>1, <1>3, Peel
<1> DEFINE h == g \ {e}
<1>5. h \subseteq g /\ d \in h /\ e \notin h /\ g = h \union {e} /\ e \in g
  BY <1>2, <1>4
<1>6. Connected(h) /\ e \cap Nodes(h) # {} /\ IsFiniteSet(h) /\ Pairs(h)
  <2>1. IsFiniteSet(h)
    BY <1>1, <1>5, FS_Subset
  <2>2. Pairs(h)
    BY <1>1 DEF Pairs
  <2> QED BY <1>4, <2>1, <2>2
<1> HIDE DEF h
<1>7. Cardinality(h) = n
  BY <1>5, <1>6, OneMore
<1>8. Cardinality(d) \in {1, 2}
  <2>1. PICK x, y \in d : d = {x, y}
    BY <1>1 DEF Pairs
  <2>2. Cardinality({x, y}) \in {1, 2}
    BY PairSize
  <2> QED BY <2>1, <2>2
<1>9. Cardinality(Nodes(h)) <= n + 1
  <2>1. Cardinality(Nodes(h)) <= Cardinality(h) + Cardinality(d) - 1
    BY <1>5, <1>6, NodesBound
  <2>2. Cardinality(Nodes(h)) \in Nat
    BY <1>6, NodesFinite
  <2> QED BY <1>7, <1>8, <2>1, <2>2
<1>10. PICK a, b \in e : e = {a, b} /\ a \in Nodes(h) /\ Nodes(g) = Nodes(h) \union {b}
  <2>1. \E a, b \in e : e = {a, b}
    BY <1>1, <1>5 DEF Pairs
  <2>2. \E a, b \in e : e = {a, b} /\ a \in Nodes(h) /\ Nodes(h \union {e}) = Nodes(h) \union {b}
    BY <1>6, <2>1, TouchingNodes
  <2> QED BY <1>5, <2>2
<1>11. IsFiniteSet(Nodes(h)) /\ Cardinality(Nodes(h)) \in Nat
  BY <1>6, NodesFinite
<1>12. /\ Cardinality(Nodes(g)) <= Cardinality(Nodes(h)) + 1
       /\ b \in Nodes(h) => Cardinality(Nodes(g)) <= Cardinality(Nodes(h))
  BY <1>10, <1>11, AtMostOneMore
<1>13. Cardinality(Nodes(h)) = n + 1 /\ b \notin Nodes(h)
  BY <1>9, <1>11, <1>12
<1>14. h \in SUBSET g /\ a \in Nodes(h) /\ b \in Nodes(g) /\ h # {} /\ {a, b} \notin h /\ g = h \union {{a, b}}
  BY <1>5, <1>10
<1>15. LeavesTree(g, h, n, a, b)
  BY <1>6, <1>7, <1>13, <1>14 DEF LeavesTree
<1> QED BY <1>15

\* A connected part that lacks nodes is touched by an edge with a new one.
LEMMA NewNode ==
  ASSUME NEW g, Pairs(g), Connected(g), NEW k, k \subseteq g, k # {}, Connected(k), Nodes(k) # Nodes(g)
  PROVE  \E e \in g \ k : \E b : b \notin Nodes(k) /\ Nodes(k \union {e}) = Nodes(k) \union {b} /\ Connected(k \union {e})
<1> DEFINE s == {f \in g : f \subseteq Nodes(k)}
<1>1. k \subseteq s
  BY DEF Nodes
<1>2. s # g
  <2>1. s = g => Nodes(g) \subseteq Nodes(k)
    BY DEF Nodes
  <2>2. Nodes(k) \subseteq Nodes(g)
    BY NodesOfParts
  <2> QED BY <2>1, <2>2
<1>3. PICK e \in g \ s : e \cap Nodes(s) # {}
  <2>1. s \subseteq g /\ s # {}
    BY <1>1
  <2> HIDE DEF s
  <2> QED BY <1>2, <2>1, Touching
<1>4. e \in g /\ ~(e \subseteq Nodes(k)) /\ e \notin k
  BY <1>1, <1>3
<1>5. e \cap Nodes(k) # {}
  BY <1>3 DEF Nodes
<1>6. PICK a, b \in e : e = {a, b}
  BY <1>4 DEF Pairs
<1>7. Nodes(k \union {e}) = Nodes(k) \union {a, b}
  BY <1>6, NodesOfParts
<1>8. Connected(k \union {e})
  BY <1>5, ConnectedGrows
<1>9. CASE a \in Nodes(k)
  <2>1. b \notin Nodes(k)
    BY <1>4, <1>6, <1>9
  <2>2. Nodes(k \union {e}) = Nodes(k) \union {b}
    BY <1>7, <1>9
  <2> QED BY <1>4, <1>8, <2>1, <2>2
<1>10. CASE a \notin Nodes(k)
  <2>1. b \in Nodes(k)
    BY <1>5, <1>6, <1>10
  <2>2. Nodes(k \union {e}) = Nodes(k) \union {a}
    BY <1>7, <2>1
  <2> QED BY <1>4, <1>8, <1>10, <2>2
<1> QED BY <1>9, <1>10

\* A graph with as many edges as nodes has an edge to spare.
LEMMA Spare ==
  ASSUME NEW g, IsPattern(g), Cardinality(g) > 1, Cardinality(Nodes(g)) <= Cardinality(g)
  PROVE  \E e \in g : Connected(g \ {e}) /\ Nodes(g \ {e}) = Nodes(g)
<1> DEFINE P == {k \in SUBSET g : Connected(k) /\ Cardinality(Nodes(k)) > Cardinality(k)}
<1>1. Pairs(g) /\ IsFiniteSet(g) /\ g # {} /\ Connected(g) /\ \A e \in g : e # {}
  BY PatternPairs
<1>2. PICK d \in g : TRUE
  BY <1>1
<1>3. {d} \in P
  <2>1. Cardinality({d}) = 1
    BY FS_Singleton
  <2>2. {d} # g
    BY <2>1
  <2>3. PICK x, y \in d : d = {x, y} /\ (x = y => g = {d})
    BY DEF IsPattern
  <2>4. x # y
    BY <2>2, <2>3
  <2>5. Cardinality({x, y}) = 2
    BY <2>4, PairSize
  <2>6. Nodes({d}) = d
    BY NodesOfParts
  <2>7. Cardinality(Nodes({d})) = 2
    BY <2>3, <2>5, <2>6
  <2>8. Connected({d}) /\ {d} \in SUBSET g
    BY <1>2, SingleConnected
  <2> QED BY <2>1, <2>7, <2>8
<1>4. PICK k \in P : \A l \in P : Cardinality(l) <= Cardinality(k)
  <2>1. P \subseteq SUBSET g /\ P # {}
    BY <1>3
  <2> HIDE DEF P
  <2> QED BY <1>1, <2>1, LargestPart
<1>5. /\ k \subseteq g /\ Connected(k) /\ Cardinality(Nodes(k)) > Cardinality(k)
      /\ IsFiniteSet(k) /\ Pairs(k) /\ Cardinality(k) \in Nat
  BY <1>1, <1>4, FS_Subset, FS_CardinalityType DEF Pairs
<1>6. IsFiniteSet(Nodes(k)) /\ Cardinality(Nodes(k)) \in Nat
  BY <1>5, NodesFinite
<1>7. Nodes(k) = Nodes(g)
  <2> SUFFICES ASSUME Nodes(k) # Nodes(g) PROVE FALSE
    OBVIOUS
  <2>1. k # {}
    <3> SUFFICES ASSUME k = {} PROVE FALSE
      OBVIOUS
    <3>1. Nodes(k) = {}
      BY NodesOfParts
    <3>2. Cardinality(Nodes(k)) = 0 /\ Cardinality(k) = 0
      BY <3>1, FS_EmptySet
    <3> QED BY <1>5, <3>2
  <2>2. \E f \in g \ k : \E c : c \notin Nodes(k) /\ Nodes(k \union {f}) = Nodes(k) \union {c} /\ Connected(k \union {f})
    <3> HIDE DEF P
    <3> QED BY <1>1, <1>5, <2>1, NewNode
  <2>3. PICK e \in g \ k : \E c : c \notin Nodes(k) /\ Nodes(k \union {e}) = Nodes(k) \union {c} /\ Connected(k \union {e})
    BY <2>2
  <2>4. PICK b : b \notin Nodes(k) /\ Nodes(k \union {e}) = Nodes(k) \union {b}
    BY <2>3
  <2>5. Cardinality(Nodes(k \union {e})) = Cardinality(Nodes(k)) + 1
    BY <1>6, <2>4, OneMore
  <2>6. Cardinality(k \union {e}) = Cardinality(k) + 1
    BY <1>5, <2>3, OneMore
  <2>7. Connected(k \union {e}) /\ k \union {e} \subseteq g
    BY <1>5, <2>3
  <2>8. k \union {e} \in P
    BY <1>5, <1>6, <2>5, <2>6, <2>7
  <2>9. Cardinality(k \union {e}) <= Cardinality(k)
    BY <1>4, <2>8
  <2> QED BY <1>5, <2>6, <2>9
<1>8. k # g
  BY <1>5, <1>6, <1>7, PatternPairs
<1>9. PICK e \in g \ k : TRUE
  BY <1>5, <1>8
<1>10. k \subseteq g \ {e} /\ g \ {e} \subseteq g
  BY <1>5, <1>9
<1>11. Nodes(g \ {e}) = Nodes(k)
  <2>1. Nodes(k) \subseteq Nodes(g \ {e})
    BY <1>10, NodesOfParts
  <2>2. Nodes(g \ {e}) \subseteq Nodes(g)
    BY <1>10, NodesOfParts
  <2> QED BY <1>7, <2>1, <2>2
<1>12. Connected(g \ {e})
  BY <1>1, <1>5, <1>10, <1>11, ConnectedFills
<1> QED BY <1>7, <1>9, <1>11, <1>12
-----------------------------------------------------------------------------
(* One candidate per graph.                                                 *)

Apart(cs) == \A c, d \in cs : Graph(c.pat) = Graph(d.pat) => c = d
LEMMA OneEach ==
  ASSUME NEW all, NEW rank, \A c \in all : c.ex \in Nat /\ rank[Graph(c.father)] \in Nat
  PROVE  /\ OnePerGraph(all, rank) \subseteq all
         /\ \A c \in all : \E d \in OnePerGraph(all, rank) : Graph(d.pat) = Graph(c.pat)
         /\ Apart(OnePerGraph(all, rank))
<1> DEFINE Of(g) == {x \in all : Graph(x.pat) = g}
           Gs == {Graph(x.pat) : x \in all}
<1>1. ASSUME NEW g \in Gs
      PROVE  First(Of(g), rank) \in Of(g)
  <2> DEFINE R == {rank[Graph(c.father)] : c \in Of(g)}
  <2>1. R \subseteq Nat /\ R # {}
    OBVIOUS
  <2> HIDE DEF R
  <2>2. PICK r \in R : \A k \in R : r <= k
    BY <2>1, LeastNumber
  <2> DEFINE S == {c.ex : c \in {x \in Of(g) : rank[Graph(x.father)] = r}}
  <2>3. S \subseteq Nat /\ S # {}
    BY <2>2 DEF R
  <2> HIDE DEF S
  <2>4. PICK n \in S : \A m \in S : n <= m
    BY <2>3, LeastNumber
  <2>5. PICK c \in Of(g) : c.ex = n /\ rank[Graph(c.father)] = r
    BY <2>4 DEF S
  <2>6. ASSUME NEW d \in Of(g)
        PROVE  \/ rank[Graph(c.father)] < rank[Graph(d.father)]
               \/ rank[Graph(c.father)] = rank[Graph(d.father)] /\ c.ex <= d.ex
    <3>1. rank[Graph(d.father)] \in R /\ rank[Graph(d.father)] \in Nat /\ r \in Nat
      BY <2>1, <2>2 DEF R
    <3>2. r <= rank[Graph(d.father)]
      BY <2>2, <3>1
    <3>3. rank[Graph(d.father)] = r => n <= d.ex
      BY <2>4 DEF S
    <3> QED BY <2>5, <3>1, <3>2, <3>3
  <2> HIDE DEF Of
  <2> QED BY <2>6 DEF First
<1>2. OnePerGraph(all, rank) = {First(Of(g), rank) : g \in Gs}
  BY DEF OnePerGraph
<1>3. ASSUME NEW c \in all
      PROVE  \E d \in OnePerGraph(all, rank) : Graph(d.pat) = Graph(c.pat)
  <2>1. Graph(c.pat) \in Gs
    OBVIOUS
  <2>2. First(Of(Graph(c.pat)), rank) \in OnePerGraph(all, rank)
    BY <1>2, <2>1
  <2> QED BY <1>1, <2>1, <2>2
<1>4. OnePerGraph(all, rank) \subseteq all
  BY <1>1, <1>2
<1>5. ASSUME NEW c \in OnePerGraph(all, rank), NEW d \in OnePerGraph(all, rank), Graph(c.pat) = Graph(d.pat)
      PROVE  c = d
  <2>1. PICK k \in Gs : c = First(Of(k), rank)
    BY <1>2
  <2>2. PICK h \in Gs : d = First(Of(h), rank)
    BY <1>2
  <2>3. Graph(c.pat) = k /\ Graph(d.pat) = h
    BY <1>1, <2>1, <2>2
  <2> QED BY <1>5, <2>1, <2>2, <2>3
<1> QED BY <1>3, <1>4, <1>5 DEF Apart
-----------------------------------------------------------------------------
(* Forward candidates.                                                      *)

\* The patterns that are frequent, a part of them (those that nobody misses),
\* and the trees of n edges among them.
Closed(F) == \A g \in F : IsPattern(g) /\ Down(g) \subseteq F
Part(S, F) == S \subseteq F /\ Closed(S) /\ Closed(F)
TreesIn(F, n) == {g \in F : Cardinality(g) = n /\ (n = 1 \/ Cardinality(Nodes(g)) = n + 1)}
SeedsIn(F) == SeedsOf(UNION {g \in F : Cardinality(g) = 1})

\* The order of the fathers in their HashMap, whichever it is.
Ranks(rank, fathers) == \A p \in fathers : rank[Graph(p)] \in Nat

LEMMA PartsFrequent ==
  ASSUME NEW F, Closed(F), NEW g \in F, NEW h, h \subseteq g, h # {}, Connected(h)
  PROVE  h \in F /\ IsPattern(h) /\ IsPattern(g)
BY DEF Closed, Down

\* The seeds of a label are all the labels it has a frequent edge with.
LEMMA Seeded ==
  ASSUME NEW F, Closed(F), NEW g \in F, NEW a, NEW b, {a, b} \in g
  PROVE  b \in SeedsIn(F)[a]
<1> DEFINE edges == UNION {h \in F : Cardinality(h) = 1}
<1>1. {{a, b}} \in F
  <2>1. {{a, b}} \subseteq g /\ {{a, b}} # {} /\ Connected({{a, b}})
    BY SingleConnected
  <2> QED BY <2>1, PartsFrequent
<1>2. Cardinality({{a, b}}) = 1
  BY FS_Singleton
<1>3. {a, b} \in edges
  BY <1>1, <1>2
<1> HIDE DEF edges
<1>4. a \in UNION edges /\ b \in UNION edges
  BY <1>3
<1>5. b \in SeedsOf(edges)[a]
  BY <1>3, <1>4 DEF SeedsOf
<1> QED BY <1>5 DEF SeedsIn, edges

\* What a forward candidate is.
AddsNode(c, p, seeds) ==
  /\ c.father = p /\ c.ex \in Nodes(p.fwd) /\ {c.ex} \notin p.fwd /\ c.pat.bwd = {}
  /\ \E b \in seeds[c.ex] \ Nodes(p.fwd) : c.pat.fwd = p.fwd \union {{c.ex, b}}
LEMMA ForwardIs ==
  ASSUME NEW p, NEW seeds, NEW fathers, NEW c \in ForwardOf(p, seeds, fathers)
  PROVE  AddsNode(c, p, seeds)
<1>1. PICK a \in {x \in Nodes(p.fwd) : {x} \notin p.fwd} :
        c \in {[pat |-> [fwd |-> p.fwd \union {{a, b}}, bwd |-> {}], father |-> p, ex |-> a, new |-> b] :
                 b \in {y \in seeds[a] \ Nodes(p.fwd) : CheckForward(p.fwd \union {{a, y}}, y, fathers)}}
  BY DEF ForwardOf
<1>2. PICK b \in seeds[a] \ Nodes(p.fwd) :
        c = [pat |-> [fwd |-> p.fwd \union {{a, b}}, bwd |-> {}], father |-> p, ex |-> a, new |-> b]
  BY <1>1
<1>3. c.ex = a /\ c.father = p /\ c.pat.fwd = p.fwd \union {{a, b}} /\ c.pat.bwd = {}
  BY <1>2
<1>4. a \in Nodes(p.fwd) /\ {a} \notin p.fwd
  BY <1>1
<1> QED BY <1>3, <1>4 DEF AddsNode

\* Graph g is h with one more edge.
WithEdge(g, h, a, b) == g = h \union {{a, b}}
MayGrow(p, seeds, fathers, a, b, g) ==
  /\ a \in Nodes(p.fwd) /\ b \in seeds[a] \ Nodes(p.fwd) /\ {a} \notin p.fwd
  /\ WithEdge(g, p.fwd, a, b) /\ CheckForward(g, b, fathers)
LeadsTo(p, seeds, fathers, g) == \E c \in ForwardOf(p, seeds, fathers) : Graph(c.pat) = g
LEMMA ForwardHas ==
  ASSUME NEW p, NEW seeds, NEW fathers, NEW a, NEW b, NEW g, MayGrow(p, seeds, fathers, a, b, g)
  PROVE  LeadsTo(p, seeds, fathers, g)
<1> USE DEF WithEdge
<1>0. /\ a \in Nodes(p.fwd) /\ b \in seeds[a] \ Nodes(p.fwd) /\ {a} \notin p.fwd
      /\ WithEdge(g, p.fwd, a, b) /\ CheckForward(g, b, fathers)
  BY DEF MayGrow
<1> DEFINE c == [pat |-> [fwd |-> p.fwd \union {{a, b}}, bwd |-> {}], father |-> p, ex |-> a, new |-> b]
<1>1. c \in ForwardOf(p, seeds, fathers)
  <2> DEFINE new(x) == {y \in seeds[x] \ Nodes(p.fwd) : CheckForward(p.fwd \union {{x, y}}, y, fathers)}
             by(x) == {[pat |-> [fwd |-> p.fwd \union {{x, y}}, bwd |-> {}], father |-> p, ex |-> x, new |-> y] : y \in new(x)}
             open == {x \in Nodes(p.fwd) : {x} \notin p.fwd}
  <2>1. ForwardOf(p, seeds, fathers) = UNION {by(x) : x \in open}
    BY DEF ForwardOf
  <2>2. b \in new(a)
    BY <1>0
  <2> HIDE DEF new
  <2>3. c \in by(a)
    BY <2>2
  <2>4. a \in open
    BY <1>0
  <2> HIDE DEF c, by, open
  <2> QED BY <2>1, <2>3, <2>4
<1>2. Graph(c.pat) = g
  BY <1>0 DEF Graph
<1> HIDE DEF c
<1> QED BY <1>1, <1>2 DEF LeadsTo

LEMMA EdgeSize ==
  ASSUME NEW g, Pairs(g), NEW d \in g
  PROVE  Cardinality(d) \in {1, 2}
<1>1. PICK a, b \in d : d = {a, b}
  BY DEF Pairs
<1>2. Cardinality({a, b}) \in {1, 2}
  BY PairSize
<1> QED BY <1>1, <1>2

\* A tree that can be extended has one node more than edges, also if it is a
\* single edge.
LEMMA TreeNodes ==
  ASSUME NEW F, Closed(F), NEW n \in Nat \ {0}, NEW h \in TreesIn(F, n), NEW a \in Nodes(h), {a} \notin h
  PROVE  Cardinality(Nodes(h)) = n + 1
<1>1. h \in F /\ Cardinality(h) = n /\ IsPattern(h) /\ IsFiniteSet(h)
  BY PatternPairs DEF TreesIn, Closed
<1>2. CASE n = 1
  <2>1. PICK e : h = {e}
    BY <1>1, <1>2, FS_Singleton
  <2>2. Nodes(h) = e
    BY <2>1, NodesOfParts
  <2>3. PICK x, y \in e : e = {x, y}
    BY <1>1, <2>1 DEF IsPattern
  <2>4. x # y
    BY <2>1, <2>2, <2>3
  <2>5. Cardinality({x, y}) = 2
    BY <2>4, PairSize
  <2> QED BY <1>2, <2>2, <2>3, <2>5
<1>3. CASE n # 1
  BY <1>1, <1>3 DEF TreesIn
<1> QED BY <1>2, <1>3

\* All the smaller trees the pruning test asks for are among the fathers.
LEMMA ForwardChecked ==
  ASSUME NEW F, Closed(F), NEW n \in Nat \ {0}, NEW fathers, TreesIn(F, n) \subseteq Graphs(fathers),
         NEW g \in TreesIn(F, n + 1), NEW b
  PROVE  CheckForward(g, b, fathers)
<1> SUFFICES ASSUME NEW a \in Nodes(g) \ {b}, StillWhole(g, a)
             PROVE  \E p \in fathers : Graph(p) = Without(g, a)
  BY DEF CheckForward
<1> DEFINE w == Without(g, a)
<1>1. g \in F /\ Cardinality(g) = n + 1 /\ Cardinality(Nodes(g)) = n + 2 /\ IsPattern(g)
  BY DEF TreesIn, Closed
<1>2. w \subseteq g /\ w # {} /\ Connected(w) /\ Nodes(w) = Nodes(g) \ {a}
  BY DEF StillWhole, Without
<1>3. w # g
  BY <1>2
<1> HIDE DEF w
<1>4. w \in F /\ IsPattern(w)
  BY <1>1, <1>2, PartsFrequent
<1>5. IsFiniteSet(g) /\ IsFiniteSet(Nodes(g))
  BY <1>1, PatternPairs
<1>6. Cardinality(w) \in Nat /\ Cardinality(w) <= n + 1 /\ Cardinality(w) # n + 1
  BY <1>1, <1>2, <1>3, <1>5, FS_Subset, FS_CardinalityType
<1>7. Cardinality(Nodes(w)) = n + 1
  <2>1. Cardinality(Nodes(g) \ {a}) = Cardinality(Nodes(g)) - 1
    BY <1>5, FS_RemoveElement
  <2>2. Cardinality(Nodes(w)) = Cardinality(Nodes(g) \ {a})
    BY <1>2
  <2> QED BY <1>1, <2>1, <2>2
<1>8. Cardinality(Nodes(w)) <= Cardinality(w) + 1
  <2>1. PICK d \in w : TRUE
    BY <1>2
  <2>2. Pairs(w) /\ IsFiniteSet(w) /\ Connected(w)
    BY <1>4, PatternPairs
  <2>3. Cardinality(d) \in {1, 2} /\ Cardinality(Nodes(w)) <= Cardinality(w) + Cardinality(d) - 1
    BY <2>2, EdgeSize, NodesBound
  <2> QED BY <1>6, <1>7, <2>3
<1>9. Cardinality(w) = n
  BY <1>6, <1>7, <1>8
<1>10. w \in TreesIn(F, n)
  BY <1>4, <1>7, <1>9 DEF TreesIn
<1> QED BY <1>10 DEF w, Graphs

\* What the master generates from a level of the tree: of all the ways to a
\* tree, one.
TreeFathers(F, n, fathers) == Graphs(fathers) \subseteq TreesIn(F, n) /\ \A p \in fathers : p.bwd = {}
ForwardAll(F, fathers) == UNION {ForwardOf(p, SeedsIn(F), fathers) : p \in fathers}
OneOfEach(cs, all) == cs \subseteq all /\ (\A c \in all : \E d \in cs : Graph(d.pat) = Graph(c.pat)) /\ Apart(cs)
TreeLevel(F, n, fathers) == \A p \in fathers : Graph(p) = p.fwd /\ p.fwd \in TreesIn(F, n) /\ p.fwd \in F /\ IsPattern(p.fwd)
LEMMA ForwardCandidates ==
  ASSUME NEW F, Closed(F), NEW n \in Nat \ {0}, NEW fathers, TreeFathers(F, n, fathers), NEW rank, Ranks(rank, fathers)
  PROVE  OneOfEach(GenForward(fathers, SeedsIn(F), rank), ForwardAll(F, fathers)) /\ TreeLevel(F, n, fathers)
<1> DEFINE all == UNION {ForwardOf(p, SeedsIn(F), fathers) : p \in fathers}
<1>1. \A p \in fathers : Graph(p) = p.fwd /\ p.fwd \in TreesIn(F, n) /\ p.fwd \in F /\ IsPattern(p.fwd)
  BY DEF TreeFathers, Graphs, Graph, TreesIn, Closed
<1>2. ASSUME NEW c \in all
      PROVE  c.ex \in Nat /\ rank[Graph(c.father)] \in Nat
  <2>1. PICK p \in fathers : c \in ForwardOf(p, SeedsIn(F), fathers)
    OBVIOUS
  <2>2. c.ex \in Nodes(p.fwd) /\ c.father = p
    <3>1. AddsNode(c, p, SeedsIn(F))
      BY <2>1, ForwardIs
    <3> QED BY <3>1 DEF AddsNode
  <2>3. Nodes(p.fwd) \subseteq Nat
    BY <1>1, PatternPairs
  <2>4. rank[Graph(p)] \in Nat
    BY DEF Ranks
  <2> QED BY <2>2, <2>3, <2>4
<1>3. GenForward(fathers, SeedsIn(F), rank) = OnePerGraph(all, rank)
  BY DEF GenForward
<1>4. ForwardAll(F, fathers) = all
  BY DEF ForwardAll
<1> HIDE DEF all
<1>5. OneOfEach(OnePerGraph(all, rank), all)
  BY <1>2, OneEach DEF OneOfEach
<1>6. TreeLevel(F, n, fathers)
  BY <1>1 DEF TreeLevel
<1> QED BY <1>3, <1>4, <1>5, <1>6

\* A candidate is a father with one more node; if it is frequent, it is a
\* tree of the next level.
KeepsTree(F, n, p, c) ==
  /\ c.father = p /\ c.pat.bwd = {}
  /\ Graph(p) # {} /\ Graph(p) \subseteq Graph(c.pat) /\ Connected(Graph(c.pat))
  /\ Graph(c.pat) \in F => Graph(c.pat) \in TreesIn(F, n + 1)
LEMMA ForwardStep ==
  ASSUME NEW F, Closed(F), NEW n \in Nat \ {0}, NEW p, p.bwd = {}, p.fwd \in TreesIn(F, n),
         NEW c, NEW seeds, AddsNode(c, p, seeds)
  PROVE  KeepsTree(F, n, p, c)
<1> DEFINE a == c.ex
           h == p.fwd
           g == Graph(c.pat)
<1>1. /\ c.father = p /\ a \in Nodes(h) /\ {a} \notin h /\ c.pat.bwd = {}
      /\ \E b \in seeds[a] \ Nodes(h) : c.pat.fwd = h \union {{a, b}}
  BY DEF AddsNode
<1>2. PICK b \in seeds[a] \ Nodes(h) : c.pat.fwd = h \union {{a, b}}
  BY <1>1
<1>3. g = h \union {{a, b}} /\ Graph(p) = h
  BY <1>1, <1>2 DEF Graph
<1> HIDE DEF a, h, g
<1>4. h \in F /\ Cardinality(h) = n /\ IsPattern(h)
  BY DEF TreesIn, Closed, h
<1>5. IsFiniteSet(h) /\ Connected(h) /\ IsFiniteSet(Nodes(h))
  BY <1>4, PatternPairs
<1>6. {a, b} \notin h
  <2>1. b \in {a, b} /\ b \notin Nodes(h)
    OBVIOUS
  <2> HIDE DEF a, h
  <2> QED BY <2>1 DEF Nodes
<1>7. Cardinality(g) = n + 1
  BY <1>3, <1>4, <1>5, <1>6, OneMore
<1>8. Nodes(g) = Nodes(h) \union {b}
  <2>1. Nodes(g) = Nodes(h) \union Nodes({{a, b}})
    BY <1>3, NodesOfParts
  <2>2. Nodes({{a, b}}) = {a, b}
    BY NodesOfParts
  <2> QED BY <1>1, <2>1, <2>2
<1>9. Cardinality(Nodes(h)) = n + 1
  BY <1>1, TreeNodes DEF h, a
<1>10. Cardinality(Nodes(g)) = n + 2
  <2>1. b \notin Nodes(h)
    OBVIOUS
  <2>2. Cardinality(Nodes(h) \union {b}) = Cardinality(Nodes(h)) + 1
    BY <1>5, <2>1, OneMore
  <2> QED BY <1>8, <1>9, <2>2
<1>11. Connected(g)
  <2>1. {a, b} \cap Nodes(h) # {}
    BY <1>1
  <2>2. Connected(h \union {{a, b}})
    BY <1>5, <2>1, ConnectedGrows
  <2> QED BY <1>3, <2>2
<1>12. h # {} /\ h \subseteq g
  BY <1>3, <1>4, PatternPairs
<1>13. g \in F => g \in TreesIn(F, n + 1)
  BY <1>7, <1>10 DEF TreesIn
<1> QED BY <1>1, <1>3, <1>11, <1>12, <1>13 DEF g, KeepsTree

\* If the trees of S are among the fathers, those of the next level are
\* among the candidates.
LEMMA ForwardFound ==
  ASSUME NEW F, NEW S, Part(S, F), NEW n \in Nat \ {0}, NEW fathers, TreeFathers(F, n, fathers),
         TreesIn(S, n) \subseteq Graphs(fathers), NEW g, g \in TreesIn(S, n + 1)
  PROVE  \E p \in fathers : \E c \in ForwardOf(p, SeedsIn(F), fathers) : Graph(c.pat) = g
<1>0. Closed(S) /\ Closed(F) /\ S \subseteq F
  BY DEF Part
<1>1. g \in S /\ g \in F /\ Cardinality(g) = n + 1 /\ Cardinality(Nodes(g)) = n + 2 /\ IsPattern(g)
  BY <1>0 DEF TreesIn, Closed
<1>2. PICK h, a, b : LeavesTree(g, h, n, a, b)
  BY <1>1, Leaf
<1>3. /\ h \subseteq g /\ h # {} /\ Connected(h) /\ Cardinality(h) = n /\ Cardinality(Nodes(h)) = n + 1
      /\ a \in Nodes(h) /\ b \notin Nodes(h) /\ {a, b} \notin h /\ g = h \union {{a, b}}
  BY <1>2 DEF LeavesTree
<1>4. h \in S
  BY <1>0, <1>1, <1>3, PartsFrequent
<1>5. h \in TreesIn(S, n)
  BY <1>3, <1>4 DEF TreesIn
<1>6. PICK p \in fathers : Graph(p) = h
  BY <1>5 DEF Graphs
<1>7. p.fwd = h
  BY <1>6 DEF Graph, TreeFathers
<1>8. {a, b} \in g
  BY <1>3
<1>9. b \in SeedsIn(F)[a]
  BY <1>0, <1>1, <1>8, Seeded
<1>10. {a} \notin h
  <2>1. ASSUME {a} \in g
        PROVE  g = {{a}}
    <3>1. PICK x, y \in {a} : {a} = {x, y} /\ (x = y => g = {{a}})
      BY <1>1, <2>1 DEF IsPattern
    <3> QED BY <3>1
  <2>2. {a, b} # {a}
    BY <1>3, NodesOfParts
  <2> QED BY <1>3, <2>1, <2>2
<1>11. CheckForward(g, b, fathers)
  BY <1>0, ForwardChecked
<1>12. b \in SeedsIn(F)[a] \ Nodes(p.fwd) /\ a \in Nodes(p.fwd) /\ {a} \notin p.fwd
  BY <1>3, <1>7, <1>9, <1>10
<1>13. WithEdge(g, p.fwd, a, b)
  BY <1>3, <1>7 DEF WithEdge
<1>14. \E c \in ForwardOf(p, SeedsIn(F), fathers) : Graph(c.pat) = g
  <2>1. MayGrow(p, SeedsIn(F), fathers, a, b, g)
    BY <1>11, <1>12, <1>13 DEF MayGrow
  <2>2. LeadsTo(p, SeedsIn(F), fathers, g)
    BY <2>1, ForwardHas
  <2> QED BY <2>2 DEF LeadsTo
<1> QED BY <1>14

\* Every one of these graphs is that of a candidate.
Covers(cs, gs) == \A g \in gs : \E c \in cs : Graph(c.pat) = g

\* TreeGenForward spreads no loss: from frequent trees of n edges, among them
\* all of S, it makes candidates of which the frequent ones are trees of
\* n + 1 edges and among which are all those of S, although checkfrequent
\* drops those with a smaller tree that is not among the fathers.  No graph
\* is a candidate twice: of the ways to the same tree only the first is kept,
\* whatever the order of the fathers in their HashMap.
THEOREM ForwardComplete ==
  ASSUME NEW F, NEW S, Part(S, F), NEW n \in Nat \ {0}, NEW fathers, TreesIn(S, n) \subseteq Graphs(fathers),
         TreeFathers(F, n, fathers), NEW rank, Ranks(rank, fathers), NEW cs, cs = GenForward(fathers, SeedsIn(F), rank)
  PROVE  /\ \A c \in cs : c.father \in fathers /\ KeepsTree(F, n, c.father, c)
         /\ Covers(cs, TreesIn(S, n + 1)) /\ Apart(cs)
<1>0. Closed(F)
  BY DEF Part
<1> DEFINE all == ForwardAll(F, fathers)
<1>1. OneOfEach(cs, all) /\ TreeLevel(F, n, fathers)
  BY <1>0, ForwardCandidates
<1>2. ASSUME NEW c \in cs
      PROVE  c.father \in fathers /\ KeepsTree(F, n, c.father, c)
  <2>1. c \in all
    BY <1>1 DEF OneOfEach
  <2>2. PICK p \in fathers : c \in ForwardOf(p, SeedsIn(F), fathers)
    BY <2>1 DEF ForwardAll
  <2>3. AddsNode(c, p, SeedsIn(F))
    BY <2>2, ForwardIs
  <2>4. p.fwd \in TreesIn(F, n) /\ p.bwd = {}
    BY <1>1 DEF TreeLevel, TreeFathers
  <2>5. KeepsTree(F, n, p, c)
    BY <1>0, <2>3, <2>4, ForwardStep
  <2>6. c.father = p
    BY <2>5 DEF KeepsTree
  <2> QED BY <2>5, <2>6
<1>3. ASSUME NEW g \in TreesIn(S, n + 1)
      PROVE  \E c \in cs : Graph(c.pat) = g
  <2>1. PICK p \in fathers : \E c \in ForwardOf(p, SeedsIn(F), fathers) : Graph(c.pat) = g
    BY <1>3, ForwardFound
  <2>2. PICK c \in ForwardOf(p, SeedsIn(F), fathers) : Graph(c.pat) = g
    BY <2>1
  <2>3. c \in all
    BY <2>2 DEF ForwardAll
  <2> HIDE DEF all
  <2> QED BY <1>1, <2>2, <2>3 DEF OneOfEach
<1>4. Covers(cs, TreesIn(S, n + 1))
  BY <1>3 DEF Covers
<1>5. Apart(cs)
  BY <1>1 DEF OneOfEach
<1> QED BY <1>2, <1>4, <1>5
-----------------------------------------------------------------------------
(* Backward candidates.                                                     *)

\* The frequent patterns of m edges on l labels; a single edge counts as on
\* two labels.
OnNodes(F, l, m) == {g \in F : Cardinality(g) = m /\ IF m = 1 THEN l = 2 ELSE Cardinality(Nodes(g)) = l}

\* What backward edges leave of a pattern: its tree, on all of its labels.
Grown(F, l, p) == /\ p.fwd \in OnNodes(F, l, l - 1) /\ p.fwd \cap p.bwd = {}
                  /\ Nodes(p.bwd) \subseteq Nodes(p.fwd)

LEMMA TreesOnNodes ==
  ASSUME NEW F, NEW l \in Nat, l > 1
  PROVE  OnNodes(F, l, l - 1) = TreesIn(F, l - 1)
BY DEF OnNodes, TreesIn

\* An edge that a pattern may still get: between two of its labels.
Between(e, p) == e \notin Graph(p) /\ \E a, b \in Nodes(p.fwd) : a # b /\ e = {a, b}

\* What a backward candidate is.
AddsBack(c, p) ==
  /\ c.father = p /\ c.ex \in Nodes(p.fwd) /\ c.pat.fwd = p.fwd
  /\ \E e : Between(e, p) /\ c.pat.bwd = p.bwd \union {e}
LEMMA BackwardIs ==
  ASSUME NEW p, NEW seeds, NEW level, NEW c \in BackwardOf(p, seeds, level)
  PROVE  AddsBack(c, p)
<1> DEFINE to(a) == {b \in Nodes(p.fwd) : /\ a # b /\ b \in seeds[a] /\ {a, b} \notin Graph(p)
                                           /\ CheckBackward(WithBack(p, {a, b}), level)}
           by(a) == {[pat |-> WithBack(p, {a, b}), father |-> p, ex |-> a, new |-> b] : b \in to(a)}
<1>1. BackwardOf(p, seeds, level) = UNION {by(a) : a \in Nodes(p.fwd)}
  BY DEF BackwardOf
<1>2. PICK a \in Nodes(p.fwd) : c \in by(a)
  <2> HIDE DEF by
  <2> QED BY <1>1
<1>3. PICK b \in to(a) : c = [pat |-> WithBack(p, {a, b}), father |-> p, ex |-> a, new |-> b]
  <2> HIDE DEF to
  <2> QED BY <1>2
<1>4. a # b /\ b \in Nodes(p.fwd) /\ {a, b} \notin Graph(p)
  OBVIOUS
<1>5. Between({a, b}, p)
  BY <1>2, <1>4 DEF Between
<1>6. c.father = p /\ c.ex = a /\ c.pat = WithBack(p, {a, b})
  BY <1>3
<1>7. c.pat.fwd = p.fwd /\ c.pat.bwd = p.bwd \union {{a, b}}
  BY <1>6 DEF WithBack
<1> QED BY <1>2, <1>5, <1>6, <1>7 DEF AddsBack

\* Pattern q is p with one more backward edge.
Joined(q, p, a, b) == a # b /\ {a, b} \notin Graph(p) /\ q = WithBack(p, {a, b})
MayClose(p, seeds, level, a, b, q) ==
  /\ a \in Nodes(p.fwd) /\ b \in Nodes(p.fwd) /\ b \in seeds[a]
  /\ Joined(q, p, a, b) /\ CheckBackward(q, level)
ClosesTo(p, seeds, level, q) == \E c \in BackwardOf(p, seeds, level) : c.pat = q
LEMMA BackwardHas ==
  ASSUME NEW p, NEW seeds, NEW level, NEW a, NEW b, NEW q, MayClose(p, seeds, level, a, b, q)
  PROVE  ClosesTo(p, seeds, level, q)
<1>0. /\ a \in Nodes(p.fwd) /\ b \in Nodes(p.fwd) /\ b \in seeds[a] /\ a # b /\ {a, b} \notin Graph(p)
      /\ q = WithBack(p, {a, b}) /\ CheckBackward(q, level)
  BY DEF MayClose, Joined
<1> DEFINE to(x) == {y \in Nodes(p.fwd) : /\ x # y /\ y \in seeds[x] /\ {x, y} \notin Graph(p)
                                           /\ CheckBackward(WithBack(p, {x, y}), level)}
           by(x) == {[pat |-> WithBack(p, {x, y}), father |-> p, ex |-> x, new |-> y] : y \in to(x)}
           c == [pat |-> WithBack(p, {a, b}), father |-> p, ex |-> a, new |-> b]
<1>1. BackwardOf(p, seeds, level) = UNION {by(x) : x \in Nodes(p.fwd)}
  BY DEF BackwardOf
<1>2. b \in to(a)
  BY <1>0
<1>3. c \in by(a)
  <2> HIDE DEF to
  <2> QED BY <1>2
<1>4. c.pat = q
  BY <1>0
<1> HIDE DEF c, by
<1>5. c \in BackwardOf(p, seeds, level)
  BY <1>0, <1>1, <1>3
<1> QED BY <1>4, <1>5 DEF ClosesTo

LEMMA GrownNodes ==
  ASSUME NEW F, NEW l, NEW p, Grown(F, l, p)
  PROVE  Nodes(Graph(p)) = Nodes(p.fwd)
<1>1. Nodes(Graph(p)) = Nodes(p.fwd) \union Nodes(p.bwd)
  BY NodesOfParts DEF Graph
<1> QED BY <1>1 DEF Grown

\* A tree with two labels to join has as many as its level says.
LEMMA LevelNodes ==
  ASSUME NEW F, Closed(F), NEW l \in Nat, l > 1, NEW h \in OnNodes(F, l, l - 1),
         NEW a \in Nodes(h), NEW b \in Nodes(h), a # b
  PROVE  Cardinality(Nodes(h)) = l
<1>1. h \in TreesIn(F, l - 1) /\ l - 1 \in Nat \ {0}
  BY TreesOnNodes
<1>2. IsPattern(h)
  BY <1>1 DEF TreesIn, Closed
<1>3. {a} \notin h
  <2> SUFFICES ASSUME {a} \in h PROVE FALSE
    OBVIOUS
  <2>1. PICK x, y \in {a} : {a} = {x, y} /\ (x = y => h = {{a}})
    BY <1>2 DEF IsPattern
  <2>2. Nodes({{a}}) = {a}
    BY NodesOfParts
  <2> QED BY <2>1, <2>2
<1>4. Cardinality(Nodes(h)) = (l - 1) + 1
  BY <1>1, <1>3, TreeNodes
<1> QED BY <1>4

\* A candidate is a father with one more backward edge; if it is frequent,
\* it is in the next layer.
KeepsLayer(F, l, m, p, c) ==
  /\ c.father = p /\ Grown(F, l, c.pat)
  /\ Graph(p) # {} /\ Graph(p) \subseteq Graph(c.pat) /\ Connected(Graph(c.pat))
  /\ Graph(c.pat) \in F => Graph(c.pat) \in OnNodes(F, l, m + 1)
LEMMA BackwardStep ==
  ASSUME NEW F, Closed(F), NEW l \in Nat, l > 1, NEW m \in Nat, m >= l - 1,
         NEW p, Graph(p) \in OnNodes(F, l, m), Grown(F, l, p), NEW c, AddsBack(c, p)
  PROVE  KeepsLayer(F, l, m, p, c)
<1>1. PICK e : Between(e, p) /\ c.pat.bwd = p.bwd \union {e}
  BY DEF AddsBack
<1>2. PICK a, b \in Nodes(p.fwd) : a # b /\ e = {a, b}
  BY <1>1 DEF Between
<1>3. e \notin Graph(p) /\ c.father = p /\ c.pat.fwd = p.fwd
  BY <1>1 DEF Between, AddsBack
<1>4. Graph(c.pat) = Graph(p) \union {e}
  BY <1>1, <1>3 DEF Graph
<1>5. Graph(p) \in F /\ Cardinality(Graph(p)) = m /\ IsPattern(Graph(p))
  BY DEF OnNodes, Closed
<1>6. IsFiniteSet(Graph(p)) /\ Connected(Graph(p)) /\ Graph(p) # {}
  BY <1>5, PatternPairs
<1>7. Cardinality(Graph(c.pat)) = m + 1
  BY <1>3, <1>4, <1>5, <1>6, OneMore
<1>8. Nodes(Graph(p)) = Nodes(p.fwd)
  BY GrownNodes
<1>9. e \subseteq Nodes(p.fwd) /\ e # {} /\ Nodes({e}) = e
  BY <1>2, NodesOfParts
<1>10. Nodes(Graph(c.pat)) = Nodes(p.fwd)
  <2>1. Nodes(Graph(c.pat)) = Nodes(Graph(p)) \union Nodes({e})
    BY <1>4, NodesOfParts
  <2> QED BY <1>8, <1>9, <2>1
<1>11. Connected(Graph(c.pat))
  <2>1. e \cap Nodes(Graph(p)) # {}
    BY <1>8, <1>9
  <2> QED BY <1>4, <1>6, <2>1, ConnectedGrows
<1>12. Grown(F, l, c.pat)
  <2>1. Nodes(c.pat.bwd) = Nodes(p.bwd) \union Nodes({e})
    BY <1>1, NodesOfParts
  <2>2. Nodes(c.pat.bwd) \subseteq Nodes(c.pat.fwd)
    BY <1>3, <1>9, <2>1 DEF Grown
  <2>3. c.pat.fwd \cap c.pat.bwd = {}
    BY <1>1, <1>3 DEF Grown, Graph
  <2> QED BY <1>3, <2>2, <2>3 DEF Grown
<1>13. Cardinality(Nodes(p.fwd)) = l
  BY <1>2, LevelNodes DEF Grown
<1>14. m + 1 # 1
  OBVIOUS
<1>15. Graph(c.pat) \in F => Graph(c.pat) \in OnNodes(F, l, m + 1)
  BY <1>7, <1>10, <1>13, <1>14 DEF OnNodes
<1> QED BY <1>3, <1>4, <1>6, <1>11, <1>12, <1>15 DEF KeepsLayer

\* All the trees the pruning test asks for are in the level.
LEMMA BackwardChecked ==
  ASSUME NEW F, NEW S, Part(S, F), NEW l \in Nat, l > 1, NEW level, OnNodes(S, l, l - 1) \subseteq Graphs(level),
         NEW q, Graph(q) \in S, Grown(F, l, q)
  PROVE  CheckBackward(q, level)
<1>0. Closed(S) /\ Closed(F)
  BY DEF Part
<1> SUFFICES ASSUME NEW b \in q.bwd, NEW f \in q.fwd, NEW h, h = (q.fwd \ {f}) \union {b},
                    Connected(h), Nodes(h) = Nodes(q.fwd)
             PROVE  h \in OnNodes(S, l, l - 1)
  BY DEF CheckBackward, Graphs
<1>1. h \subseteq Graph(q) /\ h # {}
  BY DEF Graph
<1>2. h \in S
  BY <1>0, <1>1, PartsFrequent
<1>3. q.fwd \in F /\ Cardinality(q.fwd) = l - 1 /\ IsPattern(q.fwd) /\ b \notin q.fwd
  BY <1>0 DEF Grown, OnNodes, Closed
<1>4. IsFiniteSet(q.fwd)
  BY <1>3, PatternPairs
<1>5. IsFiniteSet(q.fwd \ {f}) /\ Cardinality(q.fwd \ {f}) = l - 2
  <2>1. PICK d : d = q.fwd
    OBVIOUS
  <2>2. IsFiniteSet(d) /\ f \in d /\ Cardinality(d) = l - 1
    BY <1>3, <1>4, <2>1
  <2>3. IsFiniteSet(d \ {f}) /\ Cardinality(d \ {f}) = l - 1 - 1
    BY <2>2, FS_RemoveElement
  <2> QED BY <2>1, <2>3
<1>6. Cardinality((q.fwd \ {f}) \union {b}) = (l - 2) + 1
  BY <1>3, <1>5, OneMore
<1>7. Cardinality(h) = l - 1
  BY <1>6
<1>8. IF l - 1 = 1 THEN l = 2 ELSE Cardinality(Nodes(h)) = l
  BY DEF Grown, OnNodes
<1> QED BY <1>2, <1>7, <1>8 DEF OnNodes

\* If the trees of S on these labels are in the level and its patterns in
\* the layer among the fathers, those of the next layer are candidates.
LayerFathers(F, l, m, fathers) == Graphs(fathers) \subseteq OnNodes(F, l, m) /\ \A p \in fathers : Grown(F, l, p)
LayerHas(S, l, m, level, fathers) ==
  OnNodes(S, l, l - 1) \subseteq Graphs(level) /\ OnNodes(S, l, m) \subseteq Graphs(fathers)
LEMMA BackwardFound ==
  ASSUME NEW F, NEW S, Part(S, F), NEW l \in Nat, l > 1, NEW m \in Nat, m >= l - 1, NEW level, NEW fathers,
         LayerFathers(F, l, m, fathers), LayerHas(S, l, m, level, fathers), NEW g, g \in OnNodes(S, l, m + 1)
  PROVE  \E p \in fathers : \E c \in BackwardOf(p, SeedsIn(F), level) : Graph(c.pat) = g
<1> USE DEF LayerFathers, LayerHas
<1>0. Closed(S) /\ Closed(F) /\ S \subseteq F
  BY DEF Part
<1>1. g \in S /\ g \in F /\ Cardinality(g) = m + 1 /\ Cardinality(Nodes(g)) = l /\ IsPattern(g)
  BY <1>0 DEF OnNodes, Closed
<1>2. Cardinality(g) > 1 /\ Cardinality(Nodes(g)) <= Cardinality(g)
  BY <1>1
<1>3. PICK e \in g : Connected(g \ {e}) /\ Nodes(g \ {e}) = Nodes(g)
  BY <1>1, <1>2, Spare
<1> DEFINE h == g \ {e}
<1>4. IsFiniteSet(g)
  BY <1>1, PatternPairs
<1>5. Cardinality(h) = m
  <2>1. Cardinality(g \ {e}) = Cardinality(g) - 1
    BY <1>4, FS_RemoveElement
  <2> QED BY <1>1, <2>1
<1>6. h # {} /\ h \subseteq g /\ Connected(h) /\ Nodes(h) = Nodes(g) /\ e \notin h /\ g = h \union {e}
  <2>1. h # {}
    <3> HIDE DEF h
    <3>1. m # 0
      OBVIOUS
    <3>2. Cardinality({}) = 0
      BY FS_EmptySet
    <3> QED BY <1>5, <3>1, <3>2
  <2>2. h \subseteq g /\ e \notin h /\ g = h \union {e}
    BY <1>3
  <2> QED BY <1>3, <2>1, <2>2
<1> HIDE DEF h
<1>7. h \in S
  BY <1>0, <1>1, <1>6, PartsFrequent
<1>8. m = 1 => l = 2
  OBVIOUS
<1>9. h \in OnNodes(S, l, m)
  BY <1>1, <1>5, <1>6, <1>7, <1>8 DEF OnNodes
<1>10. PICK p \in fathers : Graph(p) = h
  BY <1>9 DEF Graphs
<1>11. Nodes(p.fwd) = Nodes(g)
  BY <1>6, <1>10, GrownNodes
<1>12. PICK a, b \in e : e = {a, b} /\ (a = b => g = {e})
  BY <1>1, <1>3 DEF IsPattern
<1>13. a \in Nodes(p.fwd) /\ b \in Nodes(p.fwd)
  <2>1. a \in Nodes(g) /\ b \in Nodes(g)
    BY <1>3, <1>12, NodesOfParts
  <2> QED BY <1>11, <2>1
<1>14. a # b
  BY <1>6, <1>12
<1>15. b \in SeedsIn(F)[a]
  <2>1. {a, b} \in g
    BY <1>3, <1>12
  <2> QED BY <1>0, <1>1, <2>1, Seeded
<1> DEFINE q == WithBack(p, e)
<1>16. /\ q.fwd = p.fwd /\ q.bwd = p.bwd \union {e} /\ Graph(q) = g
  BY <1>6, <1>10 DEF WithBack, Graph
<1> HIDE DEF q
<1>17. Grown(F, l, q)
  <2>1. Nodes(q.bwd) = Nodes(p.bwd) \union e
    <3>1. Nodes({e}) = e
      BY NodesOfParts
    <3> QED BY <1>16, <3>1, NodesOfParts
  <2>2. e \subseteq Nodes(p.fwd)
    BY <1>12, <1>13
  <2>3. Nodes(q.bwd) \subseteq Nodes(q.fwd)
    BY <1>16, <2>1, <2>2 DEF Grown
  <2>4. e \notin p.fwd
    BY <1>6, <1>10 DEF Graph
  <2>5. q.fwd \cap q.bwd = {}
    BY <1>16, <2>4 DEF Grown
  <2> QED BY <1>16, <2>3, <2>5 DEF Grown
<1>18. CheckBackward(q, level)
  BY <1>1, <1>16, <1>17, BackwardChecked
<1>19. e \notin Graph(p)
  BY <1>6, <1>10
<1>20. Joined(q, p, a, b)
  BY <1>12, <1>14, <1>19 DEF Joined, q
<1>21. \E c \in BackwardOf(p, SeedsIn(F), level) : c.pat = q
  <2>1. MayClose(p, SeedsIn(F), level, a, b, q)
    BY <1>13, <1>15, <1>18, <1>20 DEF MayClose
  <2>2. ClosesTo(p, SeedsIn(F), level, q)
    BY <2>1, BackwardHas
  <2> QED BY <2>2 DEF ClosesTo
<1> QED BY <1>16, <1>21

\* TreeGenBackward spreads no loss: from frequent patterns of m edges on l
\* labels, among them all of S, it makes candidates of which the frequent
\* ones have m + 1 edges on l labels and among which are all those of S, if
\* the trees of S on l labels are in the level: although checkfrequent drops
\* those with a spanning tree that is not.  Again no graph is a candidate
\* twice.
THEOREM BackwardComplete ==
  ASSUME NEW F, NEW S, Part(S, F), NEW l \in Nat, l > 1, NEW m \in Nat, m >= l - 1,
         NEW level, NEW fathers, LayerFathers(F, l, m, fathers), LayerHas(S, l, m, level, fathers),
         NEW rank, Ranks(rank, fathers), NEW cs, cs = GenBackward(fathers, SeedsIn(F), level, rank)
  PROVE  /\ \A c \in cs : c.father \in fathers /\ KeepsLayer(F, l, m, c.father, c)
         /\ Covers(cs, OnNodes(S, l, m + 1)) /\ Apart(cs)
<1>0. Closed(F) /\ \A p \in fathers : Graph(p) \in OnNodes(F, l, m) /\ Grown(F, l, p)
  BY DEF Part, LayerFathers, Graphs
<1> DEFINE all == UNION {BackwardOf(p, SeedsIn(F), level) : p \in fathers}
<1>1. ASSUME NEW c \in all
      PROVE  c.father \in fathers /\ AddsBack(c, c.father)
  <2>1. PICK p \in fathers : c \in BackwardOf(p, SeedsIn(F), level)
    OBVIOUS
  <2>2. AddsBack(c, p)
    BY <2>1, BackwardIs
  <2>3. c.father = p
    BY <2>2 DEF AddsBack
  <2> QED BY <2>2, <2>3
<1>2. ASSUME NEW c \in all
      PROVE  c.ex \in Nat /\ rank[Graph(c.father)] \in Nat
  <2> DEFINE p == c.father
  <2>1. p \in fathers /\ c.ex \in Nodes(p.fwd)
    BY <1>1 DEF AddsBack
  <2> HIDE DEF p, all
  <2>2. IsPattern(p.fwd)
    BY <1>0, <2>1 DEF Grown, OnNodes, Closed
  <2>3. Nodes(p.fwd) \subseteq Nat
    BY <2>2, PatternPairs
  <2>4. rank[Graph(p)] \in Nat
    BY <2>1 DEF Ranks
  <2> QED BY <2>1, <2>3, <2>4 DEF p
<1>3. cs = OnePerGraph(all, rank)
  BY DEF GenBackward
<1> HIDE DEF all
<1>4. /\ OnePerGraph(all, rank) \subseteq all
      /\ \A c \in all : \E d \in OnePerGraph(all, rank) : Graph(d.pat) = Graph(c.pat)
      /\ Apart(OnePerGraph(all, rank))
  BY <1>2, OneEach
<1>5. ASSUME NEW c \in cs
      PROVE  c.father \in fathers /\ KeepsLayer(F, l, m, c.father, c)
  <2> DEFINE p == c.father
  <2>1. p \in fathers /\ AddsBack(c, p)
    BY <1>1, <1>3, <1>4
  <2> HIDE DEF p
  <2>2. Graph(p) \in OnNodes(F, l, m) /\ Grown(F, l, p)
    BY <1>0, <2>1
  <2>3. KeepsLayer(F, l, m, p, c)
    BY <1>0, <2>1, <2>2, BackwardStep
  <2> QED BY <2>1, <2>3 DEF p
<1>6. ASSUME NEW g \in OnNodes(S, l, m + 1)
      PROVE  \E c \in cs : Graph(c.pat) = g
  <2>1. PICK p \in fathers : \E c \in BackwardOf(p, SeedsIn(F), level) : Graph(c.pat) = g
    BY <1>6, BackwardFound
  <2>2. PICK c \in BackwardOf(p, SeedsIn(F), level) : Graph(c.pat) = g
    BY <2>1
  <2>3. c \in all
    BY DEF all
  <2> QED BY <1>3, <1>4, <2>2, <2>3
<1> QED BY <1>3, <1>4, <1>5, <1>6 DEF Covers

-----------------------------------------------------------------------------
(* The two scripts as tables.                                               *)

LEMMA Phases ==
  /\ DOMAIN After = {"edges"} \union DOMAIN Posted
  /\ DOMAIN Posted = {"ready", "need", "nodes", "got_nodes", "external", "got_external", "mni",
                      "got_frequent", "back_external", "back_mni", "back_got", "done"}
  /\ DOMAIN MasterRelay = {"need", "nodes", "got_nodes", "external", "got_external", "back_external"}
  /\ DOMAIN SiteRelay = {"trans", "nodes", "external"}
BY DEF After, Posted, MasterRelay, SiteRelay

\* A site that has not taken the message is where the message is for it.
LEMMA SiteFits ==
  ASSUME NEW m \in DOMAIN Posted
  PROVE  /\ Posted[m] \in SiteAwaits[Before[m]] /\ Before[m] \notin {"dead", "done"}
         /\ Posted[m] # "none" /\ After[m] # "dead"
<1> USE DEF Posted, SiteAwaits, Before, After
<1>1. CASE m = "ready" BY <1>1
<1>2. CASE m = "need" BY <1>2
<1>3. CASE m = "nodes" BY <1>3
<1>4. CASE m = "got_nodes" BY <1>4
<1>5. CASE m = "external" BY <1>5
<1>6. CASE m = "got_external" BY <1>6
<1>7. CASE m = "mni" BY <1>7
<1>8. CASE m = "got_frequent" BY <1>8
<1>9. CASE m = "back_external" BY <1>9
<1>10. CASE m = "back_mni" BY <1>10
<1>11. CASE m = "back_got" BY <1>11
<1>12. CASE m = "done" BY <1>12
<1> QED BY <1>1, <1>2, <1>3, <1>4, <1>5, <1>6, <1>7, <1>8, <1>9, <1>10, <1>11, <1>12, Phases

\* What the master relays is what its next place says it has posted, and it
\* reads what the sites have answered.
LEMMA MasterRelays ==
  ASSUME NEW m \in DOMAIN MasterRelay
  PROVE  LET s == MasterRelay[m]
         IN /\ s[1] = MasterAwaits[m] /\ s[3] \in DOMAIN Posted
            /\ s[2] = Posted[s[3]] /\ After[m] = Before[s[3]]
            /\ s[3] \in {"nodes", "got_nodes", "external", "got_external", "mni", "back_mni"}
            /\ m = "back_external" <=> s[3] = "back_mni"
<1> USE DEF MasterRelay, MasterAwaits, Posted, Before, After
<1>1. CASE m = "need" BY <1>1
<1>2. CASE m = "nodes" BY <1>2
<1>3. CASE m = "got_nodes" BY <1>3
<1>4. CASE m = "external" BY <1>4
<1>5. CASE m = "got_external" BY <1>5
<1>6. CASE m = "back_external" BY <1>6
<1> QED BY <1>1, <1>2, <1>3, <1>4, <1>5, <1>6, Phases

\* Where a site waits, the master has posted what that place is for.
LEMMA SiteRelays ==
  ASSUME NEW m \in DOMAIN Posted, Before[m] \in DOMAIN SiteRelay
  PROVE  /\ SiteRelay[Before[m]] = <<Posted[m], MasterAwaits[m], After[m]>>
         /\ m \in {"nodes", "got_nodes", "got_external"}
<1> USE DEF SiteRelay, MasterAwaits, Posted, Before, After
<1>1. CASE m = "nodes" BY <1>1
<1>2. CASE m = "got_nodes" BY <1>2
<1>3. CASE m = "got_external" BY <1>3
<1>4. m \in {"nodes", "got_nodes", "got_external"}
  BY Phases
<1> QED BY <1>1, <1>2, <1>3, <1>4

\* Where a site waits, by the place it waits at.
LEMMA SiteAt ==
  ASSUME NEW m \in DOMAIN Posted
  PROVE  /\ Before[m] = "edges_id" <=> m = "ready"
         /\ Before[m] = "pattern" <=> m = "need"
         /\ Before[m] = "ack_nodes" <=> m = "external"
         /\ Before[m] = "ack_external" <=> m = "mni"
         /\ Before[m] = "frequent" <=> m = "got_frequent"
         /\ Before[m] = "back_pattern" <=> m \in {"back_external", "done"}
         /\ Before[m] = "back_external" <=> m = "back_mni"
         /\ Before[m] = "back_frequent" <=> m = "back_got"
<1> USE DEF Posted, Before
<1>1. CASE m = "ready" BY <1>1
<1>2. CASE m = "need" BY <1>2
<1>3. CASE m = "nodes" BY <1>3
<1>4. CASE m = "got_nodes" BY <1>4
<1>5. CASE m = "external" BY <1>5
<1>6. CASE m = "got_external" BY <1>6
<1>7. CASE m = "mni" BY <1>7
<1>8. CASE m = "got_frequent" BY <1>8
<1>9. CASE m = "back_external" BY <1>9
<1>10. CASE m = "back_mni" BY <1>10
<1>11. CASE m = "back_got" BY <1>11
<1>12. CASE m = "done" BY <1>12
<1> QED BY <1>1, <1>2, <1>3, <1>4, <1>5, <1>6, <1>7, <1>8, <1>9, <1>10, <1>11, <1>12, Phases

LEMMA Fields ==
  /\ Posted["ready"] = "edges_id" /\ Posted["need"] = "send_pattern" /\ Posted["mni"] = "ack"
  /\ Posted["got_frequent"] = "frequentpatternid" /\ Posted["back_external"] = "send_pattern"
  /\ Posted["back_got"] = "frequentpatternid" /\ Posted["back_mni"] = "external_mni" /\ Posted["done"] = "flag"
  /\ MasterAwaits["edges"] = "edge_Frequence" /\ MasterAwaits["ready"] = "flag" /\ MasterAwaits["need"] = "need_message"
  /\ MasterAwaits["external"] = "send_external" /\ MasterAwaits["mni"] = "pattern_mnitable"
  /\ MasterAwaits["got_frequent"] = "flag" /\ MasterAwaits["back_external"] = "send_external"
  /\ MasterAwaits["back_mni"] = "pattern_mnitable" /\ MasterAwaits["back_got"] = "flag"
  /\ After["edges"] = "edges_id" /\ After["ready"] = "pattern" /\ After["need"] = "trans" /\ After["external"] = "external"
  /\ After["mni"] = "frequent" /\ After["got_frequent"] = "pattern" /\ After["back_external"] = "back_external"
  /\ After["back_mni"] = "back_frequent" /\ After["back_got"] = "back_pattern" /\ After["done"] = "done"
  /\ Before["need"] = "pattern" /\ Before["ready"] = "edges_id" /\ Before["got_frequent"] = "frequent"
  /\ Before["back_external"] = "back_pattern" /\ Before["back_got"] = "back_frequent" /\ Before["done"] = "back_pattern"
BY DEF Posted, MasterAwaits, After, Before
-----------------------------------------------------------------------------
(* The world, and what the master has grown of it.                          *)

MasterInv == world \in World /\ TreeInv /\ LayerInv /\ ShapeInv

LEMMA WorldFacts ==
  ASSUME NEW w \in World, EdgesKnown
  PROVE  /\ Closed(w.frequent) /\ w.frequent # {}
         /\ \A g \in w.frequent : \E i \in Client : g \in w.present[i]
         /\ \A g \in w.frequent : Cardinality(g) = 1 => \A i \in Client : g \in w.present[i]
<1>1. \A g \in w.frequent : IsPattern(g) /\ Down(g) \subseteq w.frequent /\ \E i \in Client : g \in w.present[i]
  BY WorldAssumption DEF WorldAssumption
<1> QED BY <1>1 DEF Closed, EdgesKnown, HasEdges

LEMMA PresentParts ==
  ASSUME NEW w \in World, NEW i \in Client, NEW g \in w.present[i], NEW h, h \subseteq g, h # {}, Connected(h)
  PROVE  h \in w.present[i]
<1>1. Down(g) \subseteq w.present[i]
  BY WorldAssumption DEF WorldAssumption
<1> QED BY <1>1 DEF Down

\* What nobody misses a part of is a part of the frequent patterns, closed
\* as they are, and has all the frequent edges.
SafeNow == SafeOf(world.frequent)
LEMMA SafePart ==
  ASSUME world \in World, EdgesKnown
  PROVE  /\ Part(SafeNow, world.frequent)
         /\ \A g \in world.frequent : Cardinality(g) = 1 => Safe(g)
<1> DEFINE F == world.frequent
<1>1. Closed(F)
  BY WorldFacts
<1>2. ASSUME NEW g \in SafeNow, NEW h \in Down(g)
      PROVE  h \in SafeNow
  <2>1. g \in F /\ Safe(g) /\ h \in F
    BY <1>1, <1>2 DEF SafeNow, SafeOf, Closed
  <2>2. Down(h) \subseteq Down(g)
    BY <1>2 DEF Down
  <2>3. Safe(h)
    BY <2>1, <2>2 DEF Safe
  <2> QED BY <2>1, <2>3 DEF SafeNow, SafeOf
<1>3. SafeNow \subseteq F
  BY DEF SafeNow, SafeOf
<1>4. Closed(SafeNow)
  BY <1>1, <1>2, <1>3 DEF Closed
<1>5. ASSUME NEW g \in F, Cardinality(g) = 1, NEW i \in Client, NEW h \in Down(g)
      PROVE  h \notin world.missed[i]
  <2>1. IsFiniteSet(g)
    BY <1>1, <1>5 DEF Closed, IsPattern
  <2>2. PICK e : g = {e}
    BY <1>5, <2>1, FS_Singleton
  <2>3. h = g
    BY <1>5, <2>2 DEF Down
  <2>4. \A m \in world.missed[i] : Cardinality(m) > 1
    BY WorldAssumption DEF WorldAssumption
  <2> QED BY <1>5, <2>3, <2>4
<1>6. \A g \in F : Cardinality(g) = 1 => Safe(g)
  BY <1>5 DEF Safe
<1> QED BY <1>1, <1>3, <1>4, <1>6 DEF Part

\* What a site sees of a pattern it sees the parts of; what everybody
\* misses nothing of is seen where there is a match.
LEMMA SeenParts ==
  ASSUME NEW i \in Client, world \in World
  PROVE  /\ \A g \in Sees(i) : \A h \in SUBSET g : h # {} /\ Connected(h) => h \in Sees(i)
         /\ \A g \in world.present[i] : Safe(g) => g \in Sees(i)
<1>1. ASSUME NEW g \in Sees(i), NEW h \in SUBSET g, h # {}, Connected(h)
      PROVE  h \in Sees(i)
  <2>1. h \in world.present[i]
    BY <1>1, PresentParts DEF Sees
  <2>2. Down(h) \subseteq Down(g)
    BY <1>1 DEF Down
  <2> QED BY <2>1, <2>2 DEF Sees
<1> QED BY <1>1 DEF Sees, Safe

LEMMA SomeEdge ==
  ASSUME NEW F, Closed(F), F # {}
  PROVE  TreesIn(F, 1) # {}
<1>1. PICK g \in F : TRUE
  OBVIOUS
<1>2. PICK e \in g : TRUE
  BY <1>1 DEF Closed, IsPattern
<1>3. {e} \subseteq g /\ {e} # {} /\ Connected({e}) /\ Cardinality({e}) = 1
  BY <1>2, SingleConnected, FS_Singleton
<1>4. {e} \in F
  BY <1>1, <1>3, PartsFrequent
<1> QED BY <1>3, <1>4 DEF TreesIn

LEMMA TreesAre ==
  /\ \A n : Trees(n) = TreesIn(world.frequent, n) /\ SafeOf(Trees(n)) = TreesIn(SafeNow, n)
  /\ SeedsOf(UNION Trees(1)) = SeedsIn(world.frequent)
  /\ \A fathers : Ranks(Unordered(fathers), fathers)
<1>1. \A n : Trees(n) = TreesIn(world.frequent, n) /\ SafeOf(Trees(n)) = TreesIn(SafeNow, n)
  BY DEF Trees, TreesIn, SafeOf, SafeNow
<1>2. SeedsOf(UNION Trees(1)) = SeedsIn(world.frequent)
  <2>1. Trees(1) = {g \in world.frequent : Cardinality(g) = 1}
    BY DEF Trees
  <2> QED BY <2>1 DEF SeedsIn
<1>3. \A fathers : Ranks(Unordered(fathers), fathers)
  BY DEF Unordered, Ranks
<1> QED BY <1>1, <1>2, <1>3

LEMMA LevelIs ==
  ASSUME MasterInv, NEW n \in 1 .. Len(T)
  PROVE  TreeFathers(world.frequent, n, T[n]) /\ TreesIn(SafeNow, n) \subseteq Graphs(T[n])
<1>1. Finds(T[n], Trees(n)) /\ \A p \in T[n] : p.bwd = {}
  BY DEF MasterInv, TreeInv
<1> QED BY <1>1, TreesAre DEF TreeFathers, Finds

LEMMA LayersOf ==
  ASSUME NEW F, Closed(F), NEW k \in Nat, NEW n \in Nat, n >= 2 * k + 3
  PROVE  {g \in F : Size(g) = k + 2 /\ Interest(g) = n} = OnNodes(F, k + 2, n - (k + 2))
<1> SUFFICES ASSUME NEW g \in F
             PROVE  (Size(g) = k + 2 /\ Interest(g) = n)
                      <=> (/\ Cardinality(g) = n - (k + 2)
                           /\ IF n - (k + 2) = 1 THEN k + 2 = 2 ELSE Cardinality(Nodes(g)) = k + 2)
  BY DEF OnNodes
<1>1. Cardinality(g) \in Nat \ {0} /\ Cardinality(Nodes(g)) \in Nat
  BY PatternPairs DEF Closed
<1>2. CASE Cardinality(g) = 1
  BY <1>2 DEF Size, Interest
<1>3. CASE Cardinality(g) # 1
  BY <1>1, <1>3 DEF Size, Interest
<1> QED BY <1>2, <1>3

\* The layers of any level of the tree.
LayerOn(k, n) == {g \in world.frequent : Size(g) = k + 2 /\ Interest(g) = n}
LEMMA LayerOnIs ==
  ASSUME NEW k \in Nat, NEW n \in Nat, n >= 2 * k + 3, Part(SafeNow, world.frequent)
  PROVE  /\ LayerOn(k, n) = OnNodes(world.frequent, k + 2, n - (k + 2))
         /\ SafeOf(LayerOn(k, n)) = OnNodes(SafeNow, k + 2, n - (k + 2))
<1>1. Closed(world.frequent) /\ Closed(SafeNow)
  BY DEF Part
<1>2. LayerOn(k, n) = OnNodes(world.frequent, k + 2, n - (k + 2))
  BY <1>1, LayersOf DEF LayerOn
<1>3. SafeOf(LayerOn(k, n)) = {g \in SafeNow : Size(g) = k + 2 /\ Interest(g) = n}
  BY DEF LayerOn, SafeOf, SafeNow
<1>4. {g \in SafeNow : Size(g) = k + 2 /\ Interest(g) = n} = OnNodes(SafeNow, k + 2, n - (k + 2))
  BY <1>1, LayersOf
<1> QED BY <1>2, <1>3, <1>4

LEMMA LayersAre ==
  ASSUME NEW n \in Nat, j \in Nat, n >= 2 * j + 3, Part(SafeNow, world.frequent)
  PROVE  /\ Layer(n) = OnNodes(world.frequent, j + 2, n - (j + 2))
         /\ SafeOf(Layer(n)) = OnNodes(SafeNow, j + 2, n - (j + 2))
<1>1. Layer(n) = LayerOn(j, n)
  BY DEF Layer, LayerOn
<1> QED BY <1>1, LayerOnIs

\* The candidates of the forward loop, wherever it is.
LEMMA ForwardNow ==
  ASSUME MasterInv, EdgesKnown, mphase \in Forward
  PROVE  /\ Len(T) \in Nat \ {0}
         /\ \A c \in candidate_patterns : c.father \in T[Len(T)] /\ KeepsTree(world.frequent, Len(T), c.father, c)
         /\ Covers(candidate_patterns, TreesIn(SafeNow, Len(T) + 1)) /\ Apart(candidate_patterns)
<1> DEFINE F == world.frequent
           fathers == T[Len(T)]
           rank == Unordered(fathers)
<1>1. Part(SafeNow, F)
  BY SafePart DEF MasterInv
<1>2. mphase # "edges"
  BY DEF Forward
<1>3. Len(T) \in Nat \ {0} /\ Seed_map = SeedsIn(F)
  BY <1>2, TreesAre DEF MasterInv, TreeInv, IsLevels
<1>4. Len(T) \in 1 .. Len(T)
  BY <1>3
<1>5. TreesIn(SafeNow, Len(T)) \subseteq Graphs(fathers) /\ TreeFathers(F, Len(T), fathers)
  BY <1>4, LevelIs
<1>6. candidate_patterns = GenForward(fathers, SeedsIn(F), rank)
  BY <1>3, TreesAre DEF MasterInv, TreeInv
<1>7. Ranks(rank, fathers)
  BY TreesAre
<1> HIDE DEF F, fathers, rank
<1>8. /\ \A c \in candidate_patterns : c.father \in fathers /\ KeepsTree(F, Len(T), c.father, c)
      /\ Covers(candidate_patterns, TreesIn(SafeNow, Len(T) + 1)) /\ Apart(candidate_patterns)
  BY <1>1, <1>3, <1>5, <1>6, <1>7, ForwardComplete
<1> QED BY <1>3, <1>8 DEF F, fathers

LEMMA OnLevelIs ==
  ASSUME NEW p, j \in Nat
  PROVE  OnLevel(p) <=> Grown(world.frequent, j + 2, p)
<1>1. OnNodes(world.frequent, j + 2, (j + 2) - 1) = TreesIn(world.frequent, (j + 2) - 1)
  <2>1. PICK l : l = j + 2 /\ l \in Nat /\ l > 1
    OBVIOUS
  <2>2. OnNodes(world.frequent, l, l - 1) = TreesIn(world.frequent, l - 1)
    BY <2>1, TreesOnNodes
  <2> QED BY <2>1, <2>2
<1>2. (j + 2) - 1 = j + 1
  OBVIOUS
<1>3. OnNodes(world.frequent, j + 2, (j + 2) - 1) = Trees(j + 1)
  BY <1>1, <1>2, TreesAre
<1> QED BY <1>3 DEF OnLevel, Grown

\* Where the backward loop is.
LEMMA LevelNow ==
  ASSUME MasterInv, EdgesKnown, mphase \in Backward
  PROVE  /\ Len(T) \in Nat \ {0} /\ j \in Nat /\ j + 1 \in 1 .. Len(T) /\ backlevel \in Nat /\ backlevel >= 2 * j + 3
         /\ backlevel \in DOMAIN ItrsOfP /\ DOMAIN ItrsOfP = 2 * j + 3 .. backlevel
         /\ Seed_map = SeedsIn(world.frequent)
         /\ Finds(T[j + 1], Trees(j + 1))
<1>1. mphase # "edges"
  BY DEF Backward
<1>2. Len(T) \in Nat \ {0} /\ Seed_map = SeedsIn(world.frequent)
  BY <1>1, TreesAre DEF MasterInv, TreeInv, IsLevels
<1>3. /\ j \in 0 .. Len(T) - 1 /\ backlevel \in Nat /\ backlevel >= 2 * j + 3
      /\ DOMAIN ItrsOfP = 2 * j + 3 .. backlevel
  BY DEF MasterInv, LayerInv
<1>4. j + 1 \in 1 .. Len(T)
  BY <1>2, <1>3
<1>5. Finds(T[j + 1], Trees(j + 1))
  BY <1>4 DEF MasterInv, TreeInv
<1> QED BY <1>2, <1>3, <1>4, <1>5

\* The candidates of the backward loop.
LEMMA BackwardNow ==
  ASSUME MasterInv, EdgesKnown, mphase \in LayerPhases
  PROVE  /\ \A c \in candidate_patterns : /\ c.father \in ItrsOfP[backlevel]
                                          /\ KeepsLayer(world.frequent, j + 2, backlevel - (j + 2), c.father, c)
         /\ Covers(candidate_patterns, SafeOf(Layer(backlevel + 1))) /\ Apart(candidate_patterns)
<1> DEFINE F == world.frequent
           l == j + 2
           m == backlevel - l
           fathers == ItrsOfP[backlevel]
           level == T[j + 1]
           rank == Unordered(fathers)
<1>1. Part(SafeNow, F)
  BY SafePart DEF MasterInv
<1>2. mphase \in Backward
  BY DEF LayerPhases, Backward
<1>3. /\ j \in Nat /\ backlevel \in Nat /\ backlevel >= 2 * j + 3 /\ backlevel \in DOMAIN ItrsOfP
      /\ Seed_map = SeedsIn(F) /\ Finds(level, Trees(j + 1))
  BY <1>2, LevelNow
<1>4. Finds(fathers, Layer(backlevel)) /\ \A p \in fathers : OnLevel(p)
  BY <1>2, <1>3 DEF MasterInv, LayerInv
<1>5. Layer(backlevel) = OnNodes(F, l, m) /\ SafeOf(Layer(backlevel)) = OnNodes(SafeNow, l, m)
  BY <1>1, <1>3, LayersAre
<1>6. SafeOf(Layer(backlevel + 1)) = OnNodes(SafeNow, l, m + 1)
  <2>1. SafeOf(Layer(backlevel + 1)) = OnNodes(SafeNow, l, (backlevel + 1) - l)
    BY <1>1, <1>3, LayersAre
  <2>2. (backlevel + 1) - l = m + 1
    BY <1>3
  <2> QED BY <2>1, <2>2
<1>7. OnNodes(SafeNow, l, l - 1) \subseteq Graphs(level)
  <2>1. l - 1 = j + 1 /\ l > 1 /\ l \in Nat
    BY <1>3
  <2>2. OnNodes(SafeNow, l, l - 1) = TreesIn(SafeNow, l - 1)
    BY <2>1, TreesOnNodes
  <2>3. SafeOf(Trees(j + 1)) = TreesIn(SafeNow, j + 1)
    BY TreesAre
  <2> QED BY <1>3, <2>1, <2>2, <2>3 DEF Finds
<1>8. \A p \in fathers : Grown(F, l, p)
  BY <1>3, <1>4, OnLevelIs
<1>9. candidate_patterns = GenBackward(fathers, SeedsIn(F), level, rank)
  BY <1>3, TreesAre DEF MasterInv, LayerInv
<1>10. l \in Nat /\ l > 1 /\ m \in Nat /\ m >= l - 1
  BY <1>3
<1>11. Ranks(rank, fathers)
  BY TreesAre
<1> HIDE DEF F, l, m, fathers, level, rank
<1>12. /\ \A c \in candidate_patterns : c.father \in fathers /\ KeepsLayer(F, l, m, c.father, c)
       /\ Covers(candidate_patterns, OnNodes(SafeNow, l, m + 1)) /\ Apart(candidate_patterns)
  <2>1. LayerFathers(F, l, m, fathers) /\ LayerHas(SafeNow, l, m, level, fathers)
    BY <1>4, <1>5, <1>7, <1>8 DEF LayerFathers, LayerHas, Finds
  <2> QED BY <1>1, <1>9, <1>10, <1>11, <2>1, BackwardComplete
<1> QED BY <1>6, <1>12 DEF F, l, m, fathers

\* A site that has matches of a candidate has its father, unless it misses
\* a part of it.
LEMMA FathersAt ==
  ASSUME MasterInv, EdgesKnown, mphase \in {"need", "back_external"}, NEW i \in Client, KnowInv(i),
         NEW c \in candidate_patterns, Graph(c.pat) \in world.present[i], Down(Graph(c.father)) \cap world.missed[i] = {}
  PROVE  c.father \in pattern_map[i]
<1> DEFINE p == c.father
<1> SUFFICES \E ps : p \in ps /\ Knows(i, ps) /\ Graph(p) # {} /\ Graph(p) \subseteq Graph(c.pat) /\ Connected(Graph(p))
  <2> SUFFICES ASSUME NEW ps, p \in ps, Knows(i, ps), Graph(p) # {}, Graph(p) \subseteq Graph(c.pat), Connected(Graph(p))
               PROVE  p \in pattern_map[i]
    OBVIOUS
  <2>1. Graph(p) \in world.present[i]
    BY PresentParts DEF MasterInv
  <2>2. Graph(p) \in Sees(i)
    BY <2>1 DEF Sees, p
  <2> QED BY <2>2 DEF Knows
<1> HIDE DEF p
<1>1. CASE mphase = "need"
  <2>1. mphase \in Forward
    BY <1>1 DEF Forward
  <2>2. Len(T) \in Nat \ {0} /\ p \in T[Len(T)] /\ KeepsTree(world.frequent, Len(T), p, c)
    BY <2>1, ForwardNow DEF p
  <2>3. Len(T) \in 1 .. Len(T)
    BY <2>2
  <2>4. Knows(i, T[Len(T)])
    BY <1>1, <2>3 DEF KnowInv
  <2>5. Connected(Graph(p))
    <3>1. Graph(p) \in Trees(Len(T))
      BY <2>2, <2>3 DEF MasterInv, TreeInv, Finds, Graphs
    <3>2. Graph(p) \in world.frequent
      BY <3>1 DEF Trees
    <3> QED BY <3>2, WorldFacts, PatternPairs DEF MasterInv, Closed
  <2> QED BY <2>2, <2>4, <2>5 DEF KeepsTree
<1>2. CASE mphase = "back_external"
  <2>1. mphase \in LayerPhases /\ mphase \in Backward
    BY <1>2 DEF LayerPhases, Backward
  <2>2. p \in ItrsOfP[backlevel] /\ KeepsLayer(world.frequent, j + 2, backlevel - (j + 2), p, c)
    BY <2>1, BackwardNow DEF p
  <2>3. Knows(i, ItrsOfP[backlevel])
    BY <2>1 DEF KnowInv
  <2>4. Connected(Graph(p))
    <3>1. Graph(p) \in Layer(backlevel)
      BY <2>1, <2>2, LevelNow DEF MasterInv, LayerInv, Finds, Graphs
    <3>2. Graph(p) \in world.frequent
      BY <3>1 DEF Layer
    <3> QED BY <3>2, WorldFacts, PatternPairs DEF MasterInv, Closed
  <2> QED BY <2>2, <2>3, <2>4 DEF KeepsLayer
<1> QED BY <1>1, <1>2

-----------------------------------------------------------------------------
(* A step of a site.                                                        *)

\* Nothing changes but site i and its two messages.
Frame(i) ==
  /\ UNCHANGED <<world, master>>
  /\ DOMAIN down' = Client /\ DOMAIN up' = Client /\ DOMAIN cphase' = Client
  /\ DOMAIN pattern_map' = Client /\ DOMAIN local_candidates' = Client
  /\ \A k \in Client \ {i} :
       /\ down'[k] = down[k] /\ up'[k] = up[k] /\ cphase'[k] = cphase[k]
       /\ pattern_map'[k] = pattern_map[k] /\ local_candidates'[k] = local_candidates[k]

LEMMA Unmoved ==
  ASSUME UNCHANGED <<world, master>>
  PROVE  /\ MasterInv' = MasterInv /\ PostedValue' = PostedValue /\ AfterNow' = AfterNow /\ Pats' = Pats
         /\ world' = world /\ mphase' = mphase /\ T' = T /\ patternMap' = patternMap /\ ItrsOfP' = ItrsOfP
         /\ backlevel' = backlevel /\ candidate_patterns' = candidate_patterns
<1>1. /\ world' = world /\ mphase' = mphase /\ T' = T /\ patternMap' = patternMap /\ ItrsOfP' = ItrsOfP
      /\ backlevel' = backlevel /\ candidate_patterns' = candidate_patterns /\ Seed_map' = Seed_map
      /\ j' = j
  BY DEF master, tree, topk
<1>2. TreeInv' = TreeInv
  BY <1>1 DEF TreeInv, Trees, Finds, SafeOf, Safe
<1>3. LayerInv' = LayerInv
  BY <1>1 DEF LayerInv, Layer, OnLevel, Trees, Finds, SafeOf, Safe
<1>4. Pats' = Pats
  BY <1>1 DEF Pats
<1>5. ShapeInv' = ShapeInv
  BY <1>1, <1>4 DEF ShapeInv
<1>6. PostedValue' = PostedValue
  BY <1>1 DEF PostedValue
<1>7. AfterNow' = AfterNow
  BY <1>1 DEF AfterNow
<1> QED BY <1>1, <1>2, <1>3, <1>4, <1>5, <1>6, <1>7 DEF MasterInv

LEMMA OthersKeep ==
  ASSUME NEW i \in Client, Frame(i), NEW k \in Client \ {i}, Pending(k) \/ Handed(k), KnowInv(k)
  PROVE  (Pending(k) \/ Handed(k))' /\ KnowInv(k)'
<1>1. /\ down'[k] = down[k] /\ up'[k] = up[k] /\ cphase'[k] = cphase[k]
      /\ pattern_map'[k] = pattern_map[k] /\ local_candidates'[k] = local_candidates[k]
  BY DEF Frame
<1>2. /\ PostedValue' = PostedValue /\ AfterNow' = AfterNow /\ Pats' = Pats
      /\ world' = world /\ mphase' = mphase /\ T' = T /\ patternMap' = patternMap /\ ItrsOfP' = ItrsOfP
      /\ backlevel' = backlevel /\ candidate_patterns' = candidate_patterns
  BY Unmoved DEF Frame
<1>3. Pending(k)' = Pending(k)
  BY <1>1, <1>2 DEF Pending
<1>4. HandedValue(k)' = HandedValue(k)
  BY <1>1, <1>2 DEF HandedValue
<1>5. Handed(k)' = Handed(k)
  BY <1>1, <1>2, <1>4 DEF Handed
<1>6. Chosen(k)' = Chosen(k)
  BY <1>2, <1>5 DEF Chosen
<1>7. KnowInv(k)' = KnowInv(k)
  BY <1>1, <1>2, <1>3, <1>5, <1>6 DEF KnowInv, Knows, Sees
<1> QED BY <1>3, <1>5, <1>7

LEMMA FrameKeeps ==
  ASSUME SInv, NEW i \in Client, Frame(i), Handed(i)', KnowInv(i)'
  PROVE  SInv'
<1>1. MasterInv'
  BY Unmoved DEF Frame, SInv, MasterInv
<1>2. mphase' \in DOMAIN After
  BY Unmoved DEF Frame, SInv, ScriptInv
<1>3. ASSUME NEW k \in Client
      PROVE  (Pending(k) \/ Handed(k))' /\ KnowInv(k)'
  <2>1. CASE k = i
    BY <2>1
  <2>2. CASE k # i
    <3>1. (Pending(k) \/ Handed(k)) /\ KnowInv(k)
      BY DEF SInv, ScriptInv
    <3> QED BY <2>2, <3>1, OthersKeep
  <2> QED BY <2>1, <2>2
<1>4. ScriptInv'
  BY <1>2, <1>3 DEF ScriptInv, Frame
<1> QED BY <1>1, <1>3, <1>4 DEF SInv, MasterInv

\* A site that has a message has not taken it; all it does is its own.
LEMMA SiteFrame ==
  ASSUME SInv, NEW i \in Client, Site(i)
  PROVE  Frame(i) /\ Pending(i)
<1>1. /\ DOMAIN down = Client /\ DOMAIN up = Client /\ DOMAIN cphase = Client
      /\ DOMAIN pattern_map = Client /\ DOMAIN local_candidates = Client
      /\ Pending(i) \/ Handed(i)
  BY DEF SInv, ScriptInv
<1>2. UNCHANGED <<world, master>>
  BY DEF Site
<1>3. CASE SiteEdges(i)
  BY <1>1, <1>2, <1>3 DEF SiteEdges, Take, Goto, Ends, Frame, Handed
<1>4. CASE SitePattern(i)
  BY <1>1, <1>2, <1>4 DEF SitePattern, Take, Goto, Ends, Frame, Handed
<1>5. CASE SiteForwards(i)
  BY <1>1, <1>2, <1>5 DEF SiteForwards, Take, Goto, Ends, Frame, Handed
<1>6. CASE SiteExtends(i)
  BY <1>1, <1>2, <1>6 DEF SiteExtends, Take, Goto, Ends, Frame, Handed
<1>7. CASE SiteCounts(i)
  BY <1>1, <1>2, <1>7 DEF SiteCounts, Take, Goto, Ends, Frame, Handed
<1>8. CASE SiteKeeps(i)
  BY <1>1, <1>2, <1>8 DEF SiteKeeps, Take, Goto, Ends, Frame, Handed
<1>9. CASE SiteBackPattern(i)
  BY <1>1, <1>2, <1>9 DEF SiteBackPattern, Take, Goto, Ends, Frame, Handed
<1> QED BY <1>3, <1>4, <1>5, <1>6, <1>7, <1>8, <1>9 DEF Site

\* The site has answered.
LEMMA Hands ==
  ASSUME NEW i \in Client, DOMAIN down = Client, DOMAIN up = Client, DOMAIN cphase = Client,
         Frame(i), Pending(i), NEW f, NEW v, Take(i, f, v), Goto(i, AfterNow),
         mphase # "done", f = MasterAwaits[mphase], v = HandedValue(i)'
  PROVE  Handed(i)'
<1>1. mphase' = mphase /\ AfterNow' = AfterNow
  BY Unmoved DEF Frame
<1>2. down'[i] = None /\ up'[i] = [field |-> f, value |-> v] /\ cphase'[i] = AfterNow
  BY DEF Take, Goto
<1>3. mphase \in DOMAIN After
  BY Phases DEF Pending
<1> QED BY <1>1, <1>2, <1>3 DEF Handed

LEMMA AnswerValue ==
  ASSUME NEW i \in Client, Frame(i), Pending(i)
  PROVE  HandedValue(i)' = IF mphase \in {"mni", "back_mni"} THEN local_candidates'[i] ELSE {}
<1>1. mphase' = mphase /\ mphase # "edges"
  BY Unmoved, Phases DEF Frame, Pending
<1> QED BY <1>1 DEF HandedValue

LEMMA PlainAfter ==
  ASSUME mphase \in DOMAIN Posted, mphase # "got_frequent"
  PROVE  AfterNow = After[mphase]
BY DEF AfterNow

\* What the site has chosen of the candidates.
Choice(i, lc) == /\ lc \subseteq Pats /\ \A p \in lc : Connected(Graph(p))
                 /\ \A p \in Pats : Graph(p) \in Sees(i) => p \in lc

LEMMA Learns ==
  ASSUME NEW i \in Client, Frame(i), Pending(i), KnowInv(i), Handed(i)',
         pattern_map[i] \subseteq pattern_map'[i], \A p \in pattern_map'[i] : Graph(p) \in world.frequent,
         \A p \in local_candidates'[i] : Connected(Graph(p)),
         mphase \notin {"ready", "done"} => Choice(i, local_candidates'[i]),
         mphase = "ready" => \A n \in 1 .. Len(T) : \A p \in T[n] : Graph(p) \in Sees(i) => p \in pattern_map'[i],
         mphase \in {"got_frequent", "back_got"} =>
           \A p \in patternMap : Graph(p) \in Sees(i) => p \in pattern_map'[i]
  PROVE  KnowInv(i)'
<1>1. /\ Pats' = Pats /\ world' = world /\ mphase' = mphase /\ T' = T /\ patternMap' = patternMap /\ ItrsOfP' = ItrsOfP
      /\ backlevel' = backlevel /\ Sees(i)' = Sees(i)
  BY Unmoved DEF Frame, Sees
<1>2. mphase \in DOMAIN Posted /\ mphase # "edges"
  BY Phases DEF Pending
<1>3. \A ps : Knows(i, ps) => \A p \in ps : Graph(p) \in Sees(i) => p \in pattern_map'[i]
  BY DEF Knows
<1>4. \A n \in 1 .. Len(T') : Knows(i, T[n])'
  <2>1. CASE mphase = "ready"
    BY <1>1, <2>1 DEF Knows
  <2>2. CASE mphase # "ready"
    <3>1. \A n \in 1 .. Len(T) : Knows(i, T[n])
      BY <1>2, <2>2 DEF KnowInv
    <3> QED BY <1>1, <1>3, <3>1 DEF Knows
  <2> QED BY <2>1, <2>2
<1>5. mphase' \in Backward => Knows(i, ItrsOfP[backlevel])'
  BY <1>1, <1>3 DEF KnowInv, Knows
<1>6. Chosen(i)' => /\ local_candidates'[i] \subseteq Pats'
                    /\ \A p \in Pats' : Graph(p) \in Sees(i)' => p \in local_candidates'[i]
  BY <1>1 DEF Chosen, Choice
<1>7. mphase' \in {"got_frequent", "back_got"} => Knows(i, patternMap)'
  BY <1>1 DEF Knows
<1>8. /\ \A p \in pattern_map'[i] : Graph(p) \in world'.frequent
      /\ \A p \in local_candidates'[i] : Connected(Graph(p))
  BY <1>1
<1> QED BY <1>4, <1>5, <1>6, <1>7, <1>8 DEF KnowInv

\* A step that learns nothing new.
LEMMA Passes ==
  ASSUME NEW i \in Client, Frame(i), Pending(i), KnowInv(i), Handed(i)',
         mphase \in {"nodes", "got_nodes", "got_external", "mni", "back_mni", "done"},
         pattern_map'[i] = pattern_map[i], local_candidates'[i] = local_candidates[i]
  PROVE  KnowInv(i)'
<1>1. mphase # "done" => Chosen(i)
  BY DEF Chosen
<1>2. mphase # "done" => Choice(i, local_candidates'[i])
  BY <1>1 DEF Choice, KnowInv
<1> QED BY <1>2, Learns DEF KnowInv

\* The first level is all a site learns at once.
LEMMA LearnsFirst ==
  ASSUME NEW i \in Client, Frame(i), Pending(i), KnowInv(i), Handed(i)', mphase = "ready",
         \A p \in pattern_map'[i] : Graph(p) \in world.frequent,
         \A p \in local_candidates'[i] : Connected(Graph(p)),
         \A n \in 1 .. Len(T) : pattern_map'[i] = T[n]
  PROVE  KnowInv(i)'
<1>1. /\ Pats' = Pats /\ world' = world /\ mphase' = mphase /\ T' = T
  BY Unmoved DEF Frame
<1>2. \A n \in 1 .. Len(T') : Knows(i, T[n])'
  BY <1>1 DEF Knows
<1> QED BY <1>1, <1>2 DEF KnowInv, Chosen, Backward

\* A candidate has all edges of its father.
LEMMA FatherPart ==
  ASSUME MasterInv, EdgesKnown, mphase \in {"need", "back_external"}, NEW c \in candidate_patterns
  PROVE  Graph(c.father) \subseteq Graph(c.pat)
<1>1. CASE mphase = "need"
  <2>1. mphase \in Forward
    BY <1>1 DEF Forward
  <2> QED BY <2>1, ForwardNow DEF KeepsTree
<1>2. CASE mphase = "back_external"
  <2>1. mphase \in LayerPhases
    BY <1>2 DEF LayerPhases
  <2> QED BY <2>1, BackwardNow DEF KeepsLayer
<1> QED BY <1>1, <1>2

\* Trans_sendPattern keeps every candidate that this site sees.
LEMMA KnownChoice ==
  ASSUME SInv, EdgesKnown, NEW i \in Client, mphase \in {"need", "back_external"}, down[i].value = candidate_patterns
  PROVE  Choice(i, Known(i))
<1>1. Known(i) = {c.pat : c \in {x \in candidate_patterns : x.father \in pattern_map[i]}}
  BY DEF Known
<1>2. Known(i) \subseteq Pats
  BY <1>1 DEF Pats
<1>3. \A p \in Known(i) : Connected(Graph(p))
  BY <1>2 DEF SInv, ShapeInv
<1>4. ASSUME NEW c \in candidate_patterns, Graph(c.pat) \in Sees(i)
      PROVE  c.pat \in Known(i)
  <2>1. Graph(c.father) \subseteq Graph(c.pat)
    BY FatherPart DEF SInv, MasterInv
  <2>2. Down(Graph(c.father)) \subseteq Down(Graph(c.pat))
    BY <2>1 DEF Down
  <2>3. Graph(c.pat) \in world.present[i] /\ Down(Graph(c.father)) \cap world.missed[i] = {}
    BY <1>4, <2>2 DEF Sees
  <2>4. c.father \in pattern_map[i]
    BY <2>3, FathersAt DEF SInv, MasterInv
  <2> QED BY <1>1, <2>4
<1>5. \A p \in Pats : Graph(p) \in Sees(i) => p \in Known(i)
  BY <1>4 DEF Pats
<1> QED BY <1>2, <1>3, <1>5 DEF Choice

\* ForwardEx, BackwardEx keep what the site sees.
LEMMA ExtendedChoice ==
  ASSUME world \in World, NEW i \in Client, NEW lc, Choice(i, lc), NEW kept \in Extended(i, lc)
  PROVE  Choice(i, kept)
<1>1. kept \subseteq lc /\ \A p \in Matched(i, lc) : p \in kept \/ GivesUp(i, p)
  BY DEF Extended, Matched
<1>2. ASSUME NEW p \in Pats, Graph(p) \in Sees(i)
      PROVE  p \in kept
  <2>1. p \in lc /\ Connected(Graph(p)) /\ Graph(p) \in world.present[i]
    BY <1>2 DEF Choice, Sees
  <2>2. Graph(p) # {}
    BY <2>1, WorldAssumption DEF WorldAssumption, IsPattern
  <2>3. Graph(p) \notin world.missed[i]
    BY <1>2, <2>1, <2>2 DEF Sees, Down
  <2> QED BY <1>1, <2>1, <2>3 DEF Matched, GivesUp
<1> QED BY <1>1, <1>2 DEF Choice

LEMMA SiteEdgesStep ==
  ASSUME SInv, EdgesKnown, NEW i \in Client, SiteEdges(i), Frame(i), Pending(i)
  PROVE  SInv'
<1>1. mphase = "ready" /\ down[i].value = patternMap
  BY SiteAt DEF SiteEdges, Pending, PostedValue
<1>2. patternMap = T[1] /\ Len(T) = 1
  BY <1>1 DEF SInv, TreeInv
<1>3. (\A p \in T[1] : Graph(p) \in Trees(1)) /\ \A p \in T[1] : p.bwd = {}
  BY <1>2 DEF SInv, TreeInv, Finds, Graphs
<1>4. ASSUME NEW p \in patternMap
      PROVE  p.fwd \in world.present[i] /\ Graph(p) \in world.frequent
  <2>1. Graph(p) \in Trees(1) /\ Graph(p) = p.fwd
    BY <1>2, <1>3 DEF Graph
  <2>2. p.fwd \in world.frequent /\ Cardinality(p.fwd) = 1
    BY <2>1 DEF Trees
  <2> QED BY <2>1, <2>2, WorldFacts DEF SInv
<1>5. /\ pattern_map' = [pattern_map EXCEPT ![i] = patternMap] /\ Take(i, "flag", {}) /\ Goto(i, "pattern")
      /\ local_candidates' = local_candidates
  BY <1>1, <1>4 DEF SiteEdges
<1>6. AfterNow = "pattern"
  BY <1>1, Fields DEF AfterNow
<1>7. Handed(i)'
  BY <1>1, <1>5, <1>6, Fields, AnswerValue, Hands DEF SInv, ScriptInv
<1>8. pattern_map'[i] = patternMap
  BY <1>5 DEF SInv, ScriptInv
<1>9. KnowInv(i)
  BY DEF SInv
<1>10. pattern_map'[i] = T[1] /\ \A n \in 1 .. Len(T) : T[n] = T[1]
  BY <1>2, <1>8
<1>11. KnowInv(i)'
  <2>1. \A p \in pattern_map'[i] : Graph(p) \in world.frequent
    BY <1>4, <1>8
  <2>2. \A p \in local_candidates'[i] : Connected(Graph(p))
    BY <1>5, <1>9 DEF KnowInv
  <2> QED BY <1>1, <1>7, <1>9, <1>10, <2>1, <2>2, LearnsFirst
<1> QED BY <1>7, <1>11, FrameKeeps

LEMMA SitePatternStep ==
  ASSUME SInv, EdgesKnown, NEW i \in Client, SitePattern(i), Frame(i), Pending(i)
  PROVE  SInv'
<1>1. mphase = "need" /\ down[i].value = candidate_patterns /\ down[i].field = "send_pattern"
  BY SiteAt, Fields DEF SitePattern, Pending, PostedValue
<1>2. /\ local_candidates' = [local_candidates EXCEPT ![i] = Known(i)] /\ Take(i, "need_message", {}) /\ Goto(i, "trans")
      /\ pattern_map' = pattern_map
  BY <1>1 DEF SitePattern
<1>3. AfterNow = "trans"
  BY <1>1, Fields DEF AfterNow
<1>4. Handed(i)'
  BY <1>1, <1>2, <1>3, Fields, AnswerValue, Hands DEF SInv, ScriptInv
<1>5. KnowInv(i)
  BY DEF SInv
<1>6. Choice(i, Known(i))
  BY <1>1, KnownChoice DEF SInv
<1>7. local_candidates'[i] = Known(i)
  BY <1>2 DEF SInv, ScriptInv
<1>8. KnowInv(i)'
  BY <1>1, <1>2, <1>4, <1>5, <1>6, <1>7, Learns DEF Choice, KnowInv
<1> QED BY <1>4, <1>8, FrameKeeps

LEMMA SiteForwardsStep ==
  ASSUME SInv, NEW i \in Client, SiteForwards(i), Frame(i), Pending(i)
  PROVE  SInv'
<1>1. mphase \in DOMAIN Posted /\ cphase[i] = Before[mphase] /\ cphase[i] \in DOMAIN SiteRelay /\ down[i].field = Posted[mphase]
  BY DEF SiteForwards, Pending
<1>2. SiteRelay[cphase[i]] = <<Posted[mphase], MasterAwaits[mphase], After[mphase]>> /\ mphase \in {"nodes", "got_nodes", "got_external"}
  BY <1>1, SiteRelays
<1>3. Take(i, MasterAwaits[mphase], {}) /\ Goto(i, After[mphase]) /\ UNCHANGED <<pattern_map, local_candidates>>
  BY <1>1, <1>2 DEF SiteForwards
<1>4. AfterNow = After[mphase]
  BY <1>2 DEF AfterNow
<1>5. Handed(i)'
  BY <1>2, <1>3, <1>4, AnswerValue, Hands DEF SInv, ScriptInv
<1>6. KnowInv(i)
  BY DEF SInv
<1>7. KnowInv(i)'
  BY <1>2, <1>3, <1>5, <1>6, Passes
<1> QED BY <1>5, <1>7, FrameKeeps

LEMMA SiteExtendsStep ==
  ASSUME SInv, NEW i \in Client, SiteExtends(i), Frame(i), Pending(i)
  PROVE  SInv'
<1>1. mphase = "external"
  BY SiteAt DEF SiteExtends, Pending
<1>2. PICK kept \in Extended(i, local_candidates[i]) : local_candidates' = [local_candidates EXCEPT ![i] = kept]
  BY DEF SiteExtends
<1>3. Take(i, "send_external", {}) /\ Goto(i, "external") /\ pattern_map' = pattern_map
  BY DEF SiteExtends
<1>4. AfterNow = "external"
  BY <1>1, Fields DEF AfterNow
<1>5. Handed(i)'
  BY <1>1, <1>3, <1>4, Fields, AnswerValue, Hands DEF SInv, ScriptInv
<1>6. KnowInv(i) /\ Choice(i, local_candidates[i])
  BY <1>1 DEF SInv, KnowInv, Chosen, Choice
<1>7. Choice(i, kept)
  BY <1>2, <1>6, ExtendedChoice DEF SInv
<1>8. local_candidates'[i] = kept
  BY <1>2 DEF SInv, ScriptInv
<1>9. KnowInv(i)'
  BY <1>1, <1>3, <1>5, <1>6, <1>7, <1>8, Learns DEF Choice, KnowInv
<1> QED BY <1>5, <1>9, FrameKeeps

LEMMA SiteCountsStep ==
  ASSUME SInv, NEW i \in Client, SiteCounts(i), Frame(i), Pending(i)
  PROVE  SInv'
<1>1. mphase \in {"mni", "back_mni"} /\ (mphase = "back_mni" => down[i].field = "external_mni" /\ cphase[i] = "back_external")
      /\ (mphase = "mni" => cphase[i] = "ack_external")
  BY SiteAt, Fields DEF SiteCounts, Pending
<1>2. /\ Take(i, "pattern_mnitable", local_candidates[i]) /\ UNCHANGED <<pattern_map, local_candidates>>
      /\ Goto(i, IF cphase[i] = "ack_external" THEN "frequent" ELSE "back_frequent")
  BY <1>1 DEF SiteCounts
<1>3. AfterNow = IF cphase[i] = "ack_external" THEN "frequent" ELSE "back_frequent"
  BY <1>1, Fields DEF AfterNow
<1>4. Handed(i)'
  BY <1>1, <1>2, <1>3, Fields, AnswerValue, Hands DEF SInv, ScriptInv
<1>5. KnowInv(i)
  BY DEF SInv
<1>6. KnowInv(i)'
  BY <1>1, <1>2, <1>4, <1>5, Passes
<1> QED BY <1>4, <1>6, FrameKeeps

LEMMA CountedFrequent ==
  ASSUME MasterInv, mphase \in {"got_frequent", "back_got"}
  PROVE  patternMap \subseteq Pats /\ \A p \in patternMap : Graph(p) \in world.frequent
<1>1. patternMap \subseteq Pats
  BY DEF MasterInv, ShapeInv
<1>2. CASE mphase = "got_frequent"
  BY <1>1, <1>2 DEF MasterInv, TreeInv, Trees, Finds, Graphs
<1>3. CASE mphase = "back_got"
  BY <1>1, <1>3 DEF MasterInv, LayerInv, Layer, Finds, Graphs
<1> QED BY <1>2, <1>3

LEMMA SiteKeepsStep ==
  ASSUME SInv, NEW i \in Client, SiteKeeps(i), Frame(i), Pending(i)
  PROVE  SInv'
<1>1. /\ mphase \in {"got_frequent", "back_got"} /\ (cphase[i] = "frequent" <=> mphase = "got_frequent")
      /\ down[i].field = "frequentpatternid" /\ down[i].value = patternMap
  BY SiteAt, Fields DEF SiteKeeps, Pending, PostedValue
<1>2. /\ pattern_map' = [pattern_map EXCEPT ![i] = @ \union (patternMap \cap local_candidates[i])]
      /\ Take(i, "flag", {}) /\ UNCHANGED local_candidates
      /\ Goto(i, IF cphase[i] = "frequent" /\ patternMap # {} THEN "pattern" ELSE "back_pattern")
  BY <1>1 DEF SiteKeeps
<1>3. AfterNow = IF cphase[i] = "frequent" /\ patternMap # {} THEN "pattern" ELSE "back_pattern"
  BY <1>1, Fields DEF AfterNow
<1>4. Handed(i)'
  BY <1>1, <1>2, <1>3, Fields, AnswerValue, Hands DEF SInv, ScriptInv
<1>5. KnowInv(i) /\ Choice(i, local_candidates[i])
  BY <1>1 DEF SInv, KnowInv, Chosen, Choice
<1>6. pattern_map'[i] = pattern_map[i] \union (patternMap \cap local_candidates[i])
  BY <1>2 DEF SInv, ScriptInv
<1>7. patternMap \subseteq Pats /\ \A p \in patternMap : Graph(p) \in world.frequent
  BY <1>1, CountedFrequent DEF SInv, MasterInv
<1>8. \A p \in patternMap : Graph(p) \in Sees(i) => p \in pattern_map'[i]
  BY <1>5, <1>6, <1>7 DEF Choice
<1>9. \A p \in pattern_map'[i] : Graph(p) \in world.frequent
  BY <1>5, <1>6, <1>7 DEF KnowInv
<1>10. KnowInv(i)'
  BY <1>1, <1>2, <1>4, <1>5, <1>6, <1>8, <1>9, Learns DEF Choice
<1> QED BY <1>4, <1>10, FrameKeeps

LEMMA SiteBackPatternStep ==
  ASSUME SInv, EdgesKnown, NEW i \in Client, SiteBackPattern(i), Frame(i), Pending(i)
  PROVE  SInv'
<1>1. mphase \in {"back_external", "done"}
  BY SiteAt DEF SiteBackPattern, Pending
<1>2. KnowInv(i) /\ pattern_map' = pattern_map
  BY DEF SInv, SiteBackPattern
<1>3. CASE mphase = "done"
  <2>1. down[i].field = "flag"
    BY <1>3, Fields DEF Pending
  <2>2. Ends(i, "done") /\ local_candidates' = local_candidates
    BY <2>1 DEF SiteBackPattern
  <2>3. mphase' = "done" /\ AfterNow' = "done"
    <3>1. AfterNow = "done"
      BY <1>3, Fields DEF AfterNow
    <3> QED BY <1>3, <3>1, Unmoved DEF Frame
  <2>4. Handed(i)'
    BY <2>2, <2>3, Phases DEF Ends, Goto, Handed, SInv, ScriptInv, Pending
  <2>5. KnowInv(i)'
    BY <1>2, <1>3, <2>2, <2>4, Passes
  <2> QED BY <2>4, <2>5, FrameKeeps
<1>4. CASE mphase = "back_external"
  <2>1. down[i].value = candidate_patterns /\ down[i].field = "send_pattern"
    BY <1>4, Fields DEF Pending, PostedValue
  <2>2. PICK kept \in Extended(i, Known(i)) : local_candidates' = [local_candidates EXCEPT ![i] = kept]
    BY <2>1 DEF SiteBackPattern
  <2>3. Take(i, "send_external", {}) /\ Goto(i, "back_external")
    BY <2>1 DEF SiteBackPattern
  <2>4. AfterNow = "back_external"
    BY <1>4, Fields DEF AfterNow
  <2>5. Handed(i)'
    BY <1>4, <2>3, <2>4, Fields, AnswerValue, Hands DEF SInv, ScriptInv
  <2>6. Choice(i, Known(i))
    BY <1>4, <2>1, KnownChoice
  <2>7. Choice(i, kept)
    BY <2>2, <2>6, ExtendedChoice DEF SInv
  <2>8. local_candidates'[i] = kept
    BY <2>2 DEF SInv, ScriptInv
  <2>9. KnowInv(i)'
    BY <1>2, <1>4, <2>5, <2>7, <2>8, Learns DEF Choice, KnowInv
  <2> QED BY <2>5, <2>9, FrameKeeps
<1> QED BY <1>1, <1>3, <1>4

LEMMA SiteStep ==
  ASSUME SInv, EdgesKnown, NEW i \in Client, Site(i)
  PROVE  SInv'
<1>1. Frame(i) /\ Pending(i)
  BY SiteFrame
<1> QED BY <1>1, SiteEdgesStep, SitePatternStep, SiteForwardsStep, SiteExtendsStep, SiteCountsStep,
           SiteKeepsStep, SiteBackPatternStep DEF Site
-----------------------------------------------------------------------------
(* A step of the master.                                                    *)

LEMMA AllHanded ==
  ASSUME SInv, Answered, NEW i \in Client
  PROVE  Handed(i) /\ KnowInv(i) /\ (mphase # "done" => up[i] = [field |-> MasterAwaits[mphase], value |-> HandedValue(i)])
<1>1. up[i] # None
  BY DEF Answered
<1>2. Handed(i) /\ KnowInv(i)
  BY <1>1 DEF SInv, ScriptInv, Pending
<1> QED BY <1>2 DEF Handed

LEMMA AllAnswer ==
  ASSUME SInv, Answered, mphase # "done"
  PROVE  Answers(MasterAwaits[mphase])
<1>1. ASSUME NEW i \in Client
      PROVE  up[i].field = MasterAwaits[mphase]
  <2>1. up[i] = [field |-> MasterAwaits[mphase], value |-> HandedValue(i)]
    BY AllHanded
  <2> QED BY <2>1
<1> QED BY <1>1 DEF Answers

\* All sites are where the message is for them.
LEMMA Posts ==
  ASSUME SInv, Answered, UNCHANGED <<world, site>>, NEW m \in DOMAIN Posted, mphase' = m,
         NEW f, NEW v, Post(f, v), f = Posted[m], v = PostedValue', Before[m] = AfterNow
  PROVE  ScriptInv' /\ \A i \in Client : Pending(i)' /\ ~Handed(i)'
<1>1. cphase' = cphase /\ pattern_map' = pattern_map /\ local_candidates' = local_candidates
  BY DEF site
<1>2. m \in DOMAIN After /\ Posted[m] # "none"
  BY Phases, SiteFits
<1>3. /\ down' = [i \in Client |-> [field |-> f, value |-> v]]
      /\ up' = [i \in Client |-> None]
  BY DEF Post
<1>4. ASSUME NEW i \in Client
      PROVE  Pending(i)' /\ ~Handed(i)'
  <2>1. cphase[i] = AfterNow
    BY AllHanded DEF Handed
  <2>2. down'[i] = [field |-> f, value |-> v] /\ up'[i] = None
    BY <1>3
  <2>3. Pending(i)'
    BY <1>1, <2>1, <2>2 DEF Pending
  <2>4. down'[i].field # "none" /\ None.field = "none"
    BY <1>2, <2>2 DEF None
  <2>5. down'[i] # None
    BY <2>4
  <2> QED BY <2>3, <2>5 DEF Handed
<1>5. /\ DOMAIN down' = Client /\ DOMAIN up' = Client /\ DOMAIN cphase' = Client
      /\ DOMAIN pattern_map' = Client /\ DOMAIN local_candidates' = Client
  BY <1>1, <1>3 DEF SInv, ScriptInv
<1> QED BY <1>2, <1>4, <1>5 DEF ScriptInv

\* What the sites know is enough after the step.
LEMMA KnowsOn ==
  ASSUME NEW i \in Client, KnowInv(i), UNCHANGED <<world, site>>, Pending(i)', ~Handed(i)', mphase' # "edges",
         mphase' # "ready" => \A n \in 1 .. Len(T') : Knows(i, T'[n]),
         mphase' \in Backward => Knows(i, ItrsOfP'[backlevel']),
         mphase' \in {"nodes", "got_nodes", "external", "got_external", "mni", "got_frequent", "back_mni", "back_got"} =>
           Chosen(i) /\ Pats' = Pats
  PROVE  KnowInv(i)'
<1>1. /\ world' = world /\ pattern_map' = pattern_map /\ local_candidates' = local_candidates
      /\ Sees(i)' = Sees(i)
  BY DEF site, Sees
<1>2. /\ \A p \in pattern_map'[i] : Graph(p) \in world'.frequent
      /\ \A p \in local_candidates'[i] : Connected(Graph(p))
  BY <1>1 DEF KnowInv
<1>3. mphase' # "ready" => \A n \in 1 .. Len(T') : Knows(i, T[n])'
  BY <1>1 DEF Knows
<1>4. mphase' \in Backward => Knows(i, ItrsOfP[backlevel])'
  BY <1>1 DEF Knows
<1>5. Chosen(i)' => Chosen(i) /\ Pats' = Pats
  BY DEF Chosen
<1>6. Chosen(i)' => /\ local_candidates'[i] \subseteq Pats'
                    /\ \A p \in Pats' : Graph(p) \in Sees(i)' => p \in local_candidates'[i]
  BY <1>1, <1>5 DEF KnowInv
<1> QED BY <1>2, <1>3, <1>4, <1>6 DEF KnowInv

LEMMA ForwardsStep ==
  ASSUME SInv, MasterForwards, UNCHANGED <<world, site>>
  PROVE  SInv'
<1> DEFINE m == MasterRelay[mphase][3]
<1>1. /\ mphase \in DOMAIN MasterRelay /\ Answered
  BY DEF MasterForwards
<1>2. /\ MasterRelay[mphase][1] = MasterAwaits[mphase] /\ m \in DOMAIN Posted
      /\ MasterRelay[mphase][2] = Posted[m] /\ After[mphase] = Before[m]
      /\ m \in {"nodes", "got_nodes", "external", "got_external", "mni", "back_mni"}
      /\ mphase = "back_external" <=> m = "back_mni"
  BY <1>1, MasterRelays
<1>3. /\ mphase \in {"need", "nodes", "got_nodes", "external", "got_external", "back_external"}
      /\ mphase # "done"
  BY <1>1, Phases
<1>4. Answers(MasterAwaits[mphase])
  BY <1>1, <1>3, AllAnswer
<1> HIDE DEF m
<1>5. Post(Posted[m], {}) /\ mphase' = m /\ UNCHANGED <<tree, topk>>
  BY <1>2, <1>4 DEF MasterForwards, m
<1>6. /\ T' = T /\ patternMap' = patternMap /\ ItrsOfP' = ItrsOfP /\ backlevel' = backlevel /\ world' = world
      /\ candidate_patterns' = candidate_patterns /\ Seed_map' = Seed_map /\ j' = j
  BY <1>5 DEF tree, topk
<1>7. PostedValue' = {}
  BY <1>2, <1>5 DEF PostedValue
<1>8. AfterNow = Before[m]
  BY <1>2, <1>3 DEF AfterNow
<1>9. ScriptInv' /\ \A i \in Client : Pending(i)' /\ ~Handed(i)'
  BY <1>1, <1>2, <1>5, <1>7, <1>8, Posts
<1>10. /\ mphase \in Forward <=> m \in Forward
       /\ mphase \in LayerPhases <=> m \in LayerPhases
       /\ mphase \in Backward <=> m \in Backward
       /\ m \notin {"edges", "ready", "got_frequent", "back_got"} /\ mphase \notin {"edges", "ready", "got_frequent", "back_got"}
  BY <1>2, <1>3 DEF Forward, LayerPhases, Backward
<1>11. TreeInv'
  BY <1>5, <1>6, <1>10 DEF SInv, TreeInv, Trees, Finds, SafeOf, Safe
<1>12. LayerInv'
  BY <1>5, <1>6, <1>10 DEF SInv, LayerInv, Layer, OnLevel, Trees, Finds, SafeOf, Safe
<1>13. Pats' = Pats
  BY <1>6 DEF Pats
<1>14. ShapeInv'
  BY <1>5, <1>6, <1>10, <1>13 DEF SInv, ShapeInv
<1>15. ASSUME NEW i \in Client
       PROVE  KnowInv(i)'
  <2>1. KnowInv(i) /\ Handed(i)
    BY <1>1, AllHanded
  <2>2. Chosen(i)
    BY <1>3, <2>1 DEF Chosen
  <2>3. \A n \in 1 .. Len(T') : Knows(i, T'[n])
    BY <1>6, <1>10, <2>1 DEF KnowInv
  <2>4. mphase' \in Backward => Knows(i, ItrsOfP'[backlevel'])
    BY <1>5, <1>6, <1>10, <2>1 DEF KnowInv
  <2> QED BY <1>5, <1>9, <1>10, <1>13, <2>1, <2>2, <2>3, <2>4, KnowsOn
<1> QED BY <1>6, <1>9, <1>11, <1>12, <1>14, <1>15 DEF SInv

\* Forward candidates are connected and have no backward edges.
LEMMA ForwardShape ==
  ASSUME NEW F, Closed(F), NEW n \in Nat \ {0}, NEW fathers, TreeFathers(F, n, fathers),
         NEW cs, cs = GenForward(fathers, SeedsIn(F), Unordered(fathers))
  PROVE  \A p \in {c.pat : c \in cs} : Connected(Graph(p)) /\ p.fwd \cap p.bwd = {}
<1>1. \A c \in cs : KeepsTree(F, n, c.father, c)
  <2> DEFINE rank == Unordered(fathers)
  <2>1. Ranks(rank, fathers) /\ cs = GenForward(fathers, SeedsIn(F), rank)
    BY TreesAre
  <2>2. Part({}, F) /\ TreesIn({}, n) \subseteq Graphs(fathers)
    BY DEF Part, Closed, TreesIn
  <2> HIDE DEF rank
  <2> QED BY <2>1, <2>2, ForwardComplete
<1>2. \A c \in cs : Connected(Graph(c.pat)) /\ c.pat.bwd = {}
  BY <1>1 DEF KeepsTree
<1> QED BY <1>2

LEMMA BackwardShape ==
  ASSUME NEW F, Closed(F), NEW l \in Nat, l > 1, NEW m \in Nat, m >= l - 1,
         NEW level, NEW fathers, LayerFathers(F, l, m, fathers),
         NEW cs, cs = GenBackward(fathers, SeedsIn(F), level, Unordered(fathers))
  PROVE  \A p \in {c.pat : c \in cs} : Connected(Graph(p)) /\ p.fwd \cap p.bwd = {}
<1>1. \A c \in cs : KeepsLayer(F, l, m, c.father, c)
  <2> DEFINE rank == Unordered(fathers)
  <2>1. Ranks(rank, fathers) /\ cs = GenBackward(fathers, SeedsIn(F), level, rank)
    BY TreesAre
  <2>2. Part({}, F) /\ LayerHas({}, l, m, level, fathers)
    BY DEF Part, Closed, OnNodes, LayerHas
  <2> HIDE DEF rank
  <2> QED BY <2>1, <2>2, BackwardComplete
<1>2. \A c \in cs : Connected(Graph(c.pat)) /\ c.pat.fwd \cap c.pat.bwd = {}
  BY <1>1 DEF KeepsLayer, Grown
<1> QED BY <1>2

\* The next forward candidates are broadcast.
LEMMA OpensForward ==
  ASSUME MasterInv, EdgesKnown, mphase # "edges", NEW n \in Nat \ {0}, NEW fathers,
         OpenForward(fathers), UNCHANGED <<Seed_map, world>>, IsLevels(T'), Len(T') = n, T'[n] = fathers,
         \A k \in 1 .. n : Finds(T'[k], Trees(k)) /\ \A p \in T'[k] : p.bwd = {}
  PROVE  TreeInv' /\ \A p \in Pats' : Connected(Graph(p)) /\ p.fwd \cap p.bwd = {}
<1>1. Closed(world.frequent)
  BY WorldFacts DEF MasterInv
<1>2. Seed_map = SeedsOf(UNION Trees(1)) /\ Seed_map = SeedsIn(world.frequent)
  BY TreesAre DEF MasterInv, TreeInv
<1>3. candidate_patterns' = GenForward(fathers, Seed_map, Unordered(fathers)) /\ mphase' = "need"
  BY DEF OpenForward
<1>4. candidate_patterns' = GenForward(fathers, SeedsIn(world.frequent), Unordered(fathers))
  BY <1>2, <1>3, TreesAre
<1>5. TreeFathers(world.frequent, n, fathers)
  <2>1. Finds(fathers, Trees(n)) /\ \A p \in fathers : p.bwd = {}
    OBVIOUS
  <2> QED BY <2>1, TreesAre DEF TreeFathers, Finds
<1>6. \A p \in Pats' : Connected(Graph(p)) /\ p.fwd \cap p.bwd = {}
  BY <1>1, <1>4, <1>5, ForwardShape DEF Pats
<1>7. \A k : Trees(k)' = Trees(k)
  BY DEF Trees
<1>8. candidate_patterns' = GenForward(T'[Len(T')], Seed_map', Unordered(T'[Len(T')]))
  BY <1>3
<1>9. mphase' \notin Backward \union {"edges", "ready", "got_frequent"}
  BY <1>3 DEF Backward
<1>10. Seed_map' = SeedsOf(UNION Trees(1)')
  BY <1>2, <1>7
<1>11. \A k \in 1 .. Len(T') : Finds(T[k], Trees(k))' /\ \A p \in T'[k] : p.bwd = {}
  BY <1>7 DEF Finds, SafeOf, Safe
<1>12. TreeInv'
  BY <1>8, <1>9, <1>10, <1>11 DEF TreeInv
<1> QED BY <1>6, <1>12

\* The next backward candidates are broadcast.
LEMMA OpensBackward ==
  ASSUME MasterInv, EdgesKnown, mphase # "edges", UNCHANGED <<Seed_map, world, T>>, SafeOf(Trees(Len(T) + 1)) = {},
         NEW k \in 0 .. Len(T) - 1, NEW n \in Nat, n >= 2 * k + 3, NEW fathers, OpenBackward(fathers, T[k + 1]),
         j' = k, backlevel' = n, ItrsOfP'[n] = fathers, DOMAIN ItrsOfP' = 2 * k + 3 .. n,
         \A x \in 2 * k + 3 .. n :
           Finds(ItrsOfP'[x], LayerOn(k, x)) /\ \A p \in ItrsOfP'[x] : Grown(world.frequent, k + 2, p)
  PROVE  TreeInv' /\ LayerInv' /\ \A p \in Pats' : Connected(Graph(p)) /\ p.fwd \cap p.bwd = {}
<1> DEFINE F == world.frequent
           l == k + 2
           m == n - l
           level == T[k + 1]
<1>1. Closed(F) /\ Part(SafeNow, F)
  BY WorldFacts, SafePart DEF MasterInv
<1>2. Len(T) \in Nat /\ Len(T) > 0 /\ Seed_map = SeedsOf(UNION Trees(1)) /\ Seed_map = SeedsIn(F)
  BY TreesAre DEF MasterInv, TreeInv, IsLevels
<1>3. candidate_patterns' = GenBackward(fathers, Seed_map, level, Unordered(fathers)) /\ mphase' = "back_external"
  BY DEF OpenBackward
<1>4. k \in Nat /\ k + 1 \in 1 .. Len(T)
  BY <1>2
<1>5. \A x : Trees(x)' = Trees(x)
  BY DEF Trees
<1>6. Trees(k + 1) = OnNodes(F, l, l - 1)
  <2>1. l - 1 = k + 1 /\ l > 1 /\ l \in Nat
    BY <1>4
  <2>2. OnNodes(F, l, l - 1) = TreesIn(F, l - 1)
    BY <2>1, TreesOnNodes
  <2> QED BY <2>1, <2>2, TreesAre
<1>7. Finds(fathers, LayerOn(k, n)) /\ \A p \in fathers : Grown(F, l, p)
  OBVIOUS
<1>8. LayerFathers(F, l, m, fathers)
  BY <1>1, <1>4, <1>7, LayerOnIs DEF LayerFathers, Finds
<1>9. l \in Nat /\ l > 1 /\ m \in Nat /\ m >= l - 1
  BY <1>4
<1>10. candidate_patterns' = GenBackward(fathers, SeedsIn(F), level, Unordered(fathers))
  BY <1>2, <1>3, TreesAre
<1>11. \A p \in Pats' : Connected(Graph(p)) /\ p.fwd \cap p.bwd = {}
  <2> HIDE DEF F, l, m, level
  <2> QED BY <1>1, <1>8, <1>9, <1>10, BackwardShape DEF Pats
<1>12. /\ mphase' \in Backward /\ mphase' \in LayerPhases
       /\ mphase' \notin Forward \union {"edges", "ready", "got_frequent", "back_got"}
  BY <1>3 DEF Backward, LayerPhases, Forward
<1>13. TreeInv'
  BY <1>2, <1>5, <1>12 DEF MasterInv, TreeInv, Finds, SafeOf, Safe
<1>14. \A x : Layer(x)' = LayerOn(k, x)
  BY DEF Layer, LayerOn
<1>15. \A p : OnLevel(p)' <=> Grown(F, l, p)
  BY <1>5, <1>6 DEF OnLevel, Grown
<1>16. LayerInv'
  <2>1. \A x \in DOMAIN ItrsOfP' :
          Finds(ItrsOfP[x], Layer(x))' /\ \A p \in ItrsOfP'[x] : OnLevel(p)'
    BY <1>14, <1>15 DEF Finds, SafeOf, Safe
  <2>2. candidate_patterns' = GenBackward(ItrsOfP'[backlevel'], Seed_map', T'[j' + 1], Unordered(ItrsOfP'[backlevel']))
    BY <1>3
  <2>3. j' \in 0 .. Len(T') - 1 /\ backlevel' \in Nat /\ backlevel' >= 2 * j' + 3 /\ DOMAIN ItrsOfP' = 2 * j' + 3 .. backlevel'
    OBVIOUS
  <2> QED BY <1>12, <2>1, <2>2, <2>3 DEF LayerInv
<1> QED BY <1>11, <1>13, <1>16

LEMMA OneLevel ==
  ASSUME NEW x
  PROVE  IsLevels(<<x>>) /\ Len(<<x>>) = 1 /\ <<x>>[1] = x
BY DEF IsLevels

LEMMA MoreLevels ==
  ASSUME NEW t, IsLevels(t), NEW x
  PROVE  LET more == Append(t, x)
         IN /\ IsLevels(more) /\ Len(more) = Len(t) + 1 /\ more[Len(t) + 1] = x
            /\ \A k \in 1 .. Len(t) : more[k] = t[k]
<1> DEFINE S == {t[k] : k \in 1 .. Len(t)} \union {x}
           more == Append(t, x)
<1>1. Len(t) \in Nat /\ t = [k \in 1 .. Len(t) |-> t[k]]
  BY DEF IsLevels
<1>2. t \in [1 .. Len(t) -> S]
  BY <1>1
<1>3. t \in Seq(S) /\ x \in S
  BY <1>1, <1>2, SeqDef
<1> HIDE DEF S
<1>4. /\ more \in Seq(S) /\ Len(more) = Len(t) + 1 /\ more[Len(t) + 1] = x
      /\ \A k \in 1 .. Len(t) : more[k] = t[k]
  BY <1>3, AppendProperties
<1> HIDE DEF more
<1>5. more = [k \in 1 .. Len(more) |-> more[k]] /\ Len(more) \in Nat
  BY <1>4, LenProperties
<1> QED BY <1>4, <1>5 DEF IsLevels, more

LEMMA EdgeLevel ==
  ASSUME NEW gs, NEW level, level = {[fwd |-> g, bwd |-> {}] : g \in gs}
  PROVE  {Graph(p) : p \in level} = gs
<1>1. ASSUME NEW p \in level PROVE Graph(p) \in gs
  <2>1. PICK g \in gs : p = [fwd |-> g, bwd |-> {}]
    BY <1>1
  <2>2. p.fwd = g /\ p.bwd = {}
    BY <2>1
  <2> QED BY <2>2 DEF Graph
<1>2. ASSUME NEW g \in gs
      PROVE  \E p \in level : Graph(p) = g
  <2> DEFINE p == [fwd |-> g, bwd |-> {}]
  <2>1. p \in level
    OBVIOUS
  <2>2. Graph(p) = g
    BY DEF Graph
  <2> HIDE DEF p
  <2> QED BY <2>1, <2>2
<1> HIDE DEF Graph
<1>3. \A g : g \in {Graph(p) : p \in level} <=> \E p \in level : Graph(p) = g
  OBVIOUS
<1> QED BY <1>1, <1>2, <1>3

LEMMA EdgesStep ==
  ASSUME SInv, EdgesKnown, MasterEdges, UNCHANGED <<world, site>>
  PROVE  SInv'
<1> DEFINE frequent == Answer \cap world.frequent
           level == {[fwd |-> g, bwd |-> {}] : g \in frequent}
<1>1. /\ mphase = "edges" /\ Answered /\ mphase' = "ready" /\ Seed_map' = SeedsOf(UNION frequent)
      /\ patternMap' = level /\ T' = <<level>> /\ Post("edges_id", level) /\ UNCHANGED <<candidate_patterns, topk>>
  BY DEF MasterEdges
<1>2. \A i \in Client : up[i].value = {g \in world.present[i] : Cardinality(g) = 1}
  <2> SUFFICES ASSUME NEW i \in Client
               PROVE  up[i].value = {g \in world.present[i] : Cardinality(g) = 1}
    OBVIOUS
  <2>1. up[i] = [field |-> MasterAwaits[mphase], value |-> HandedValue(i)]
    BY <1>1, AllHanded
  <2> QED BY <1>1, <2>1 DEF HandedValue
<1>3. frequent = Trees(1)
  <2>1. \A g \in world.frequent : \E i \in Client : g \in world.present[i]
    BY WorldFacts DEF SInv
  <2> QED BY <1>2, <2>1 DEF Answer, Trees
<1>4. \A p \in level : p.bwd = {} /\ Graph(p) = p.fwd /\ p.fwd \in frequent
  BY DEF Graph
<1>5. Graphs(level) = Trees(1)
  <2>1. {Graph(p) : p \in level} = frequent
    BY EdgeLevel
  <2> QED BY <1>3, <2>1 DEF Graphs
<1> HIDE DEF frequent, level
<1>6. IsLevels(T') /\ Len(T') = 1 /\ T'[1] = level
  BY <1>1, OneLevel
<1>7. \A k : Trees(k)' = Trees(k)
  BY DEF Trees
<1>8. mphase' \notin Backward \union Forward \union LayerPhases \union {"edges", "got_frequent", "back_got"}
      /\ mphase \notin Backward
  BY <1>1 DEF Backward, Forward, LayerPhases
<1>9. TreeInv'
  <2>1. \A k \in 1 .. Len(T') : k = 1
    BY <1>6
  <2>2. \A k \in 1 .. Len(T') : Finds(T[k], Trees(k))' /\ \A p \in T'[k] : p.bwd = {}
    BY <1>4, <1>5, <1>6, <1>7, <2>1 DEF Finds, SafeOf, Graphs
  <2>3. Seed_map' = SeedsOf(UNION Trees(1)')
    BY <1>1, <1>3, <1>7
  <2> QED BY <1>1, <1>6, <1>8, <2>2, <2>3 DEF TreeInv
<1>10. LayerInv'
  BY <1>1, <1>8 DEF SInv, LayerInv, topk
<1>11. Pats' = Pats
  BY <1>1 DEF Pats
<1>12. ShapeInv'
  <2>1. ASSUME NEW p \in level
        PROVE  Connected(Graph(p)) /\ p.fwd \cap p.bwd = {}
    <3>1. Graph(p) \in world.frequent /\ p.bwd = {}
      BY <1>3, <1>4 DEF Trees
    <3> QED BY <3>1, WorldFacts, PatternPairs DEF SInv, Closed
  <2> QED BY <1>1, <1>8, <1>11, <2>1 DEF SInv, ShapeInv
<1>13. PostedValue' = level
  BY <1>1 DEF PostedValue
<1>14. AfterNow = "edges_id" /\ "ready" \in DOMAIN Posted
  BY <1>1, Fields, Phases DEF AfterNow
<1>15. ScriptInv' /\ \A i \in Client : Pending(i)' /\ ~Handed(i)'
  BY <1>1, <1>13, <1>14, Fields, Posts
<1>16. ASSUME NEW i \in Client
       PROVE  KnowInv(i)'
  <2>1. KnowInv(i)
    BY DEF SInv
  <2> QED BY <1>1, <1>8, <1>15, <2>1, KnowsOn
<1> QED BY <1>9, <1>10, <1>12, <1>15, <1>16 DEF SInv

LEMMA ReadyStep ==
  ASSUME SInv, EdgesKnown, MasterReady, UNCHANGED <<world, site>>
  PROVE  SInv'
<1>1. /\ mphase = "ready" /\ Answered /\ MasterLoop(patternMap, T) /\ UNCHANGED <<T, Seed_map, patternMap, SumItrsOfP>>
  BY DEF MasterReady
<1>2. patternMap = T[1] /\ Len(T) = 1 /\ IsLevels(T)
  BY <1>1 DEF SInv, TreeInv
<1>3. \A k \in 1 .. 1 : Finds(T[k], Trees(k)) /\ \A p \in T[k] : p.bwd = {}
  BY <1>2 DEF SInv, TreeInv
<1>4. Finds(patternMap, Trees(1))
  BY <1>2, <1>3
<1>5. patternMap # {}
  <2>1. PICK g \in TreesIn(world.frequent, 1) : TRUE
    BY WorldFacts, SomeEdge DEF SInv
  <2>2. g \in world.frequent /\ Cardinality(g) = 1
    BY DEF TreesIn
  <2>3. g \in SafeOf(Trees(1))
    BY <2>2, SafePart DEF SInv, Trees, SafeOf
  <2> QED BY <1>4, <2>3 DEF Finds, Graphs
<1>6. OpenForward(patternMap) /\ UNCHANGED <<j, backlevel, ItrsOfP>>
  BY <1>1, <1>5 DEF MasterLoop
<1>7. Post("send_pattern", candidate_patterns') /\ mphase' = "need"
  BY <1>6 DEF OpenForward
<1>8. TreeInv' /\ \A p \in Pats' : Connected(Graph(p)) /\ p.fwd \cap p.bwd = {}
  <2>1. mphase # "edges"
    BY <1>1
  <2> QED BY <1>1, <1>2, <1>3, <1>6, <2>1, OpensForward DEF SInv, MasterInv
<1>9. mphase \notin Backward /\ mphase' \notin Backward \union LayerPhases
      \union {"edges", "ready", "nodes", "got_nodes", "external", "got_external", "mni", "got_frequent", "back_mni", "back_got"}
  BY <1>1, <1>7 DEF Backward, LayerPhases
<1>10. LayerInv'
  BY <1>6, <1>9 DEF SInv, LayerInv
<1>11. ShapeInv'
  BY <1>1, <1>8, <1>9 DEF SInv, ShapeInv
<1>12. PostedValue' = candidate_patterns'
  BY <1>7 DEF PostedValue
<1>13. AfterNow = "pattern" /\ "need" \in DOMAIN Posted
  BY <1>1, Fields, Phases DEF AfterNow
<1>14. ScriptInv' /\ \A i \in Client : Pending(i)' /\ ~Handed(i)'
  BY <1>1, <1>7, <1>12, <1>13, Fields, Posts
<1>15. ASSUME NEW i \in Client
       PROVE  KnowInv(i)'
  <2>1. KnowInv(i) /\ Handed(i) /\ up[i] # None
    BY <1>1, AllHanded DEF Answered
  <2>2. \A n \in 1 .. Len(T') : Knows(i, T'[n])
    BY <1>1, <2>1 DEF KnowInv, Pending
  <2> QED BY <1>9, <1>14, <2>1, <2>2, KnowsOn
<1> QED BY <1>8, <1>10, <1>11, <1>14, <1>15 DEF SInv

\* The candidates that are counted frequent are frequent, and all that
\* nobody misses a part of are among them.
FrequentOf(cs, F) == {c.pat : c \in {x \in cs : Graph(x.pat) \in F}}
NoOthers(cs, F, gs) == gs \subseteq F /\ \A c \in cs : Graph(c.pat) \in F => Graph(c.pat) \in gs
CountsSafe(fs, cs) == \A c \in cs : Graph(c.pat) \in SafeNow => c.pat \in fs
LEMMA CountedAll ==
  ASSUME NEW gs, NEW cs, NEW fs, Covers(cs, SafeOf(gs)), NoOthers(cs, world.frequent, gs),
         fs \subseteq FrequentOf(cs, world.frequent), CountsSafe(fs, cs)
  PROVE  Finds(fs, gs)
<1>1. \A p \in fs : \E c \in cs : p = c.pat /\ Graph(c.pat) \in world.frequent
  BY DEF FrequentOf
<1>2. \A p \in fs : Graph(p) \in gs
  BY <1>1 DEF NoOthers
<1>3. ASSUME NEW g \in SafeOf(gs)
      PROVE  \E p \in fs : Graph(p) = g
  <2>1. PICK c \in cs : Graph(c.pat) = g
    BY DEF Covers
  <2>2. g \in SafeNow
    BY DEF SafeOf, SafeNow, NoOthers
  <2> QED BY <2>1, <2>2 DEF CountsSafe
<1> QED BY <1>2, <1>3 DEF Finds, Graphs

LEMMA CountedIs ==
  ASSUME SInv, EdgesKnown, Answered, mphase \in {"mni", "back_mni"}, NEW fs \in Counted
  PROVE  fs \subseteq FrequentOf(candidate_patterns, world.frequent) /\ CountsSafe(fs, candidate_patterns)
<1>1. ASSUME NEW i \in Client
      PROVE  KnowInv(i) /\ Chosen(i) /\ up[i].value = local_candidates[i]
  <2>1. up[i] = [field |-> MasterAwaits[mphase], value |-> HandedValue(i)]
    BY AllHanded
  <2> QED BY <2>1 DEF SInv, Chosen, HandedValue
<1>2. ASSUME NEW c \in candidate_patterns, Graph(c.pat) \in SafeNow
      PROVE  c.pat \in Sure
  <2>1. Graph(c.pat) \in world.frequent /\ Safe(Graph(c.pat)) /\ c.pat \in Pats
    BY <1>2 DEF SafeNow, SafeOf, Pats
  <2>2. ASSUME NEW i \in Client, Graph(c.pat) \in world.present[i]
        PROVE  c.pat \in up[i].value /\ Graph(c.pat) \notin world.missed[i]
    <3>1. Graph(c.pat) \in Sees(i)
      BY <2>1, <2>2, SeenParts DEF SInv
    <3>2. c.pat \in local_candidates[i]
      BY <1>1, <2>1, <3>1 DEF KnowInv
    <3>3. IsPattern(Graph(c.pat))
      BY <2>1, WorldFacts DEF SInv, Closed
    <3>4. Graph(c.pat) \in Down(Graph(c.pat))
      BY <3>3 DEF IsPattern, Down
    <3> QED BY <1>1, <3>1, <3>2, <3>4 DEF Sees
  <2>3. PICK i \in Client : Graph(c.pat) \in world.present[i]
    BY <2>1, WorldFacts DEF SInv
  <2>4. c.pat \in Frequent
    BY <2>1, <2>2, <2>3 DEF Frequent, Answer
  <2> QED BY <2>2, <2>4 DEF Sure, CountsAll
<1>3. Frequent \subseteq FrequentOf(candidate_patterns, world.frequent)
  BY DEF Frequent, FrequentOf
<1> QED BY <1>2, <1>3 DEF Counted, CountsSafe, Sure

LEMMA CountsStep ==
  ASSUME SInv, EdgesKnown, MasterCounts, UNCHANGED <<world, site>>
  PROVE  SInv'
<1> DEFINE m == IF mphase = "mni" THEN "got_frequent" ELSE "back_got"
<1>1. mphase \in {"mni", "back_mni"} /\ Answered
  BY DEF MasterCounts
<1>2. Answers("pattern_mnitable")
  <2>1. mphase # "done" /\ MasterAwaits[mphase] = "pattern_mnitable"
    BY <1>1, Fields
  <2>2. Answers(MasterAwaits[mphase])
    BY <1>1, <2>1, AllAnswer
  <2> QED BY <2>1, <2>2
<1> DEFINE fs == patternMap'
<1>3. /\ fs \in Counted /\ Post("frequentpatternid", fs) /\ mphase' = m
      /\ UNCHANGED <<T, Seed_map, candidate_patterns, topk>>
  BY <1>1, <1>2 DEF MasterCounts
<1>4. /\ T' = T /\ ItrsOfP' = ItrsOfP /\ backlevel' = backlevel /\ world' = world
      /\ candidate_patterns' = candidate_patterns /\ Seed_map' = Seed_map /\ j' = j
  BY <1>3 DEF topk
<1>5. fs \subseteq FrequentOf(candidate_patterns, world.frequent) /\ CountsSafe(fs, candidate_patterns)
  BY <1>1, <1>3, CountedIs
<1> HIDE DEF fs
<1>6. fs \subseteq Pats
  BY <1>5 DEF Pats, FrequentOf
<1>7. mphase = "mni" => \A p \in fs : p.bwd = {}
  <2> SUFFICES ASSUME mphase = "mni", NEW c \in candidate_patterns
               PROVE  c.pat.bwd = {}
    BY <1>5 DEF FrequentOf
  <2>1. mphase \in Forward
    BY DEF Forward
  <2> QED BY <2>1, ForwardNow DEF SInv, MasterInv, KeepsTree
<1>8. mphase = "mni" => Finds(fs, Trees(Len(T) + 1))
  <2> SUFFICES ASSUME mphase = "mni" PROVE Finds(fs, Trees(Len(T) + 1))
    OBVIOUS
  <2>1. mphase \in Forward
    BY DEF Forward
  <2>2. /\ \A c \in candidate_patterns : KeepsTree(world.frequent, Len(T), c.father, c)
        /\ Covers(candidate_patterns, SafeOf(Trees(Len(T) + 1)))
    BY <2>1, ForwardNow, TreesAre DEF SInv, MasterInv
  <2>3. \A c \in candidate_patterns : Graph(c.pat) \in world.frequent => Graph(c.pat) \in Trees(Len(T) + 1)
    BY <2>2, TreesAre DEF KeepsTree
  <2>4. NoOthers(candidate_patterns, world.frequent, Trees(Len(T) + 1))
    BY <2>3 DEF NoOthers, Trees
  <2> QED BY <1>5, <2>2, <2>4, CountedAll
<1>9. mphase = "back_mni" => Finds(fs, Layer(backlevel + 1)) /\ \A p \in fs : OnLevel(p)
  <2> SUFFICES ASSUME mphase = "back_mni"
               PROVE  Finds(fs, Layer(backlevel + 1)) /\ \A p \in fs : OnLevel(p)
    OBVIOUS
  <2>1. mphase \in LayerPhases /\ mphase \in Backward
    BY DEF LayerPhases, Backward
  <2>2. /\ \A c \in candidate_patterns : KeepsLayer(world.frequent, j + 2, backlevel - (j + 2), c.father, c)
        /\ Covers(candidate_patterns, SafeOf(Layer(backlevel + 1)))
    BY <2>1, BackwardNow DEF SInv, MasterInv
  <2>3. j \in Nat /\ backlevel \in Nat /\ backlevel >= 2 * j + 3
    BY <2>1, LevelNow DEF SInv, MasterInv
  <2>4. Layer(backlevel + 1) = OnNodes(world.frequent, j + 2, (backlevel - (j + 2)) + 1)
    <3>1. Layer(backlevel + 1) = OnNodes(world.frequent, j + 2, (backlevel + 1) - (j + 2))
      BY <2>3, LayersAre, SafePart DEF SInv
    <3>2. (backlevel + 1) - (j + 2) = (backlevel - (j + 2)) + 1
      BY <2>3
    <3> QED BY <3>1, <3>2
  <2>5. \A c \in candidate_patterns : Graph(c.pat) \in world.frequent => Graph(c.pat) \in Layer(backlevel + 1)
    BY <2>2, <2>4 DEF KeepsLayer
  <2>6. Layer(backlevel + 1) \subseteq world.frequent
    BY DEF Layer
  <2>7. Finds(fs, Layer(backlevel + 1))
    <3>1. NoOthers(candidate_patterns, world.frequent, Layer(backlevel + 1))
      BY <2>5, <2>6 DEF NoOthers
    <3> QED BY <1>5, <2>2, <3>1, CountedAll
  <2>8. \A c \in candidate_patterns : OnLevel(c.pat)
    BY <2>2, <2>3, OnLevelIs DEF KeepsLayer
  <2> QED BY <1>5, <2>7, <2>8 DEF FrequentOf
<1>10. /\ m \notin Forward \union LayerPhases \union {"edges", "ready"} /\ (m \in Backward <=> mphase \in Backward)
       /\ mphase # "edges" /\ m # "done" /\ m \in DOMAIN Posted
       /\ (m = "got_frequent" <=> mphase = "mni") /\ (m = "back_got" <=> mphase = "back_mni")
       /\ m \in {"got_frequent", "back_got"}
  BY <1>1, Phases DEF Forward, LayerPhases, Backward
<1> HIDE DEF m
<1>11. \A k : Trees(k)' = Trees(k)
  BY <1>4 DEF Trees
<1>12. TreeInv'
  <2>1. Seed_map' = SeedsOf(UNION Trees(1)') /\ Len(T) > 0
    BY <1>4, <1>10, <1>11 DEF SInv, TreeInv
  <2>2. mphase' = "got_frequent" => Finds(patternMap, Trees(Len(T) + 1))' /\ \A p \in patternMap' : p.bwd = {}
    BY <1>3, <1>4, <1>7, <1>8, <1>10, <1>11 DEF Finds, SafeOf, Safe, fs
  <2> QED BY <1>3, <1>4, <1>10, <1>11, <2>1, <2>2 DEF SInv, TreeInv, Finds, SafeOf, Safe
<1>13. (\A k : Layer(k)' = Layer(k)) /\ \A p : OnLevel(p)' <=> OnLevel(p)
  BY <1>4, <1>11 DEF Layer, OnLevel
<1>14. LayerInv'
  <2>1. mphase' = "back_got" => Finds(patternMap, Layer(backlevel + 1))' /\ \A p \in patternMap' : OnLevel(p)'
    BY <1>3, <1>4, <1>9, <1>10, <1>13 DEF Finds, SafeOf, Safe, fs
  <2> QED BY <1>3, <1>4, <1>10, <1>13, <2>1 DEF SInv, LayerInv, Finds, SafeOf, Safe
<1>15. Pats' = Pats
  BY <1>4 DEF Pats
<1>16. ShapeInv'
  BY <1>3, <1>6, <1>15 DEF SInv, ShapeInv, fs
<1>17. PostedValue' = fs
  BY <1>3, <1>10 DEF PostedValue, fs
<1>18. Posted[m] = "frequentpatternid" /\ Before[m] = AfterNow
  BY <1>1, <1>10, Fields DEF AfterNow, m
<1>19. ScriptInv' /\ \A i \in Client : Pending(i)' /\ ~Handed(i)'
  BY <1>1, <1>3, <1>10, <1>17, <1>18, Posts
<1>20. ASSUME NEW i \in Client
       PROVE  KnowInv(i)'
  <2>1. KnowInv(i) /\ Chosen(i)
    BY <1>1 DEF SInv, Chosen
  <2>2. \A n \in 1 .. Len(T') : Knows(i, T'[n])
    BY <1>1, <1>4, <2>1 DEF KnowInv
  <2>3. mphase' \in Backward => Knows(i, ItrsOfP'[backlevel'])
    BY <1>3, <1>4, <1>10, <2>1 DEF KnowInv
  <2> QED BY <1>3, <1>10, <1>15, <1>19, <2>1, <2>2, <2>3, KnowsOn
<1> QED BY <1>4, <1>12, <1>14, <1>16, <1>19, <1>20 DEF SInv

\* A level of the tree is its own first layer.
LEMMA FirstLayer ==
  ASSUME MasterInv, EdgesKnown, mphase # "edges", NEW k \in 0 .. Len(T) - 1
  PROVE  Finds(T[k + 1], LayerOn(k, 2 * k + 3)) /\ \A p \in T[k + 1] : Grown(world.frequent, k + 2, p)
<1> DEFINE F == world.frequent
<1>1. Part(SafeNow, F) /\ Len(T) \in Nat
  BY SafePart DEF MasterInv, TreeInv, IsLevels
<1>2. k \in Nat /\ k + 1 \in 1 .. Len(T)
  BY <1>1
<1>3. Finds(T[k + 1], Trees(k + 1)) /\ \A p \in T[k + 1] : p.bwd = {}
  BY <1>2 DEF MasterInv, TreeInv
<1>4. \A S : OnNodes(S, k + 2, (k + 2) - 1) = TreesIn(S, (k + 2) - 1)
  <2>1. PICK l : l = k + 2 /\ l \in Nat /\ l > 1
    BY <1>2
  <2>2. \A S : OnNodes(S, l, l - 1) = TreesIn(S, l - 1)
    BY <2>1, TreesOnNodes
  <2> QED BY <2>1, <2>2
<1>5. (k + 2) - 1 = k + 1 /\ (2 * k + 3) - (k + 2) = k + 1
  BY <1>2
<1>6. /\ LayerOn(k, 2 * k + 3) = OnNodes(F, k + 2, (2 * k + 3) - (k + 2))
      /\ SafeOf(LayerOn(k, 2 * k + 3)) = OnNodes(SafeNow, k + 2, (2 * k + 3) - (k + 2))
  <2>1. 2 * k + 3 \in Nat /\ 2 * k + 3 >= 2 * k + 3
    BY <1>2
  <2> QED BY <1>1, <1>2, <2>1, LayerOnIs
<1>7. /\ Trees(k + 1) = OnNodes(F, k + 2, k + 1) /\ Trees(k + 1) = LayerOn(k, 2 * k + 3)
      /\ SafeOf(Trees(k + 1)) = SafeOf(LayerOn(k, 2 * k + 3))
  BY <1>4, <1>5, <1>6, TreesAre
<1>8. ASSUME NEW p \in T[k + 1]
      PROVE  Grown(F, k + 2, p)
  <2>1. Graph(p) = p.fwd /\ p.bwd = {}
    BY <1>3 DEF Graph
  <2>2. p.fwd \in OnNodes(F, k + 2, (k + 2) - 1)
    BY <1>3, <1>5, <1>7, <2>1 DEF Finds, Graphs
  <2> QED BY <2>1, <2>2, NodesOfParts DEF Grown
<1> QED BY <1>3, <1>7, <1>8 DEF Finds

LEMMA OpensLevel ==
  ASSUME MasterInv, EdgesKnown, mphase # "edges", UNCHANGED <<Seed_map, world, T>>, SafeOf(Trees(Len(T) + 1)) = {},
         NEW k \in 0 .. Len(T) - 1, OpenLevel(k, T)
  PROVE  TreeInv' /\ LayerInv' /\ (\A p \in Pats' : Connected(Graph(p)) /\ p.fwd \cap p.bwd = {})
         /\ ItrsOfP'[backlevel'] = T[k + 1] /\ mphase' = "back_external" /\ Post("send_pattern", candidate_patterns')
<1> DEFINE n == 2 * k + 3
<1>1. k \in Nat /\ n \in Nat
  BY DEF MasterInv, TreeInv, IsLevels
<1>2. /\ j' = k /\ backlevel' = (k + 2) * 2 - 1 /\ ItrsOfP' = [x \in {backlevel'} |-> T[k + 1]]
      /\ OpenBackward(T[k + 1], T[k + 1])
  BY DEF OpenLevel
<1>3. backlevel' = n
  BY <1>1, <1>2
<1>4. DOMAIN ItrsOfP' = n .. n /\ ItrsOfP'[n] = T[k + 1]
  BY <1>1, <1>2, <1>3
<1>5. Finds(T[k + 1], LayerOn(k, n)) /\ \A p \in T[k + 1] : Grown(world.frequent, k + 2, p)
  BY FirstLayer
<1>6. \A x \in n .. n : x = n
  BY <1>1
<1>7. \A x \in n .. n :
        Finds(ItrsOfP'[x], LayerOn(k, x)) /\ \A p \in ItrsOfP'[x] : Grown(world.frequent, k + 2, p)
  BY <1>4, <1>5, <1>6
<1>8. TreeInv' /\ LayerInv' /\ \A p \in Pats' : Connected(Graph(p)) /\ p.fwd \cap p.bwd = {}
  <2>1. n >= 2 * k + 3 /\ n .. n = 2 * k + 3 .. n
    BY <1>1
  <2> HIDE DEF n
  <2> QED BY <1>1, <1>2, <1>3, <1>4, <1>5, <1>7, <2>1, OpensBackward
<1> QED BY <1>2, <1>3, <1>4, <1>8 DEF OpenBackward

LEMMA LevelStep ==
  ASSUME SInv, EdgesKnown, Answered, mphase \notin {"edges", "ready", "done"}, AfterNow = "back_pattern",
         UNCHANGED <<world, site>>, UNCHANGED <<Seed_map, T, patternMap>>, SafeOf(Trees(Len(T) + 1)) = {},
         NEW k \in 0 .. Len(T) - 1, OpenLevel(k, T)
  PROVE  SInv'
<1>1. /\ TreeInv' /\ LayerInv' /\ \A p \in Pats' : Connected(Graph(p)) /\ p.fwd \cap p.bwd = {}
      /\ ItrsOfP'[backlevel'] = T[k + 1] /\ mphase' = "back_external" /\ Post("send_pattern", candidate_patterns')
  BY OpensLevel DEF SInv, MasterInv
<1>2. ShapeInv'
  BY <1>1 DEF SInv, ShapeInv
<1>3. PostedValue' = candidate_patterns' /\ "back_external" \in DOMAIN Posted
  BY <1>1, Phases DEF PostedValue
<1>4. ScriptInv' /\ \A i \in Client : Pending(i)' /\ ~Handed(i)'
  BY <1>1, <1>3, Fields, Posts
<1>5. ASSUME NEW i \in Client
      PROVE  KnowInv(i)'
  <2>1. KnowInv(i)
    BY DEF SInv
  <2>2. \A n \in 1 .. Len(T) : Knows(i, T[n])
    BY <2>1 DEF KnowInv
  <2>3. k + 1 \in 1 .. Len(T)
    BY DEF SInv, TreeInv, IsLevels
  <2>4. Knows(i, ItrsOfP'[backlevel'])
    BY <1>1, <2>2, <2>3
  <2> QED BY <1>1, <1>4, <2>1, <2>2, <2>4, KnowsOn
<1> QED BY <1>1, <1>2, <1>4, <1>5 DEF SInv

LEMMA GrowsStep ==
  ASSUME SInv, EdgesKnown, MasterGrows, UNCHANGED <<world, site>>
  PROVE  SInv'
<1>1. /\ mphase = "got_frequent" /\ Answered /\ T' = (IF patternMap # {} THEN Append(T, patternMap) ELSE T)
      /\ MasterLoop(patternMap, T') /\ UNCHANGED <<Seed_map, patternMap, SumItrsOfP>>
  BY DEF MasterGrows
<1>2. IsLevels(T) /\ Len(T) \in Nat /\ Len(T) > 0
  BY <1>1 DEF SInv, TreeInv, IsLevels
<1>3. Finds(patternMap, Trees(Len(T) + 1)) /\ \A p \in patternMap : p.bwd = {}
  BY <1>1 DEF SInv, TreeInv
<1>4. CASE patternMap = {}
  <2>1. T' = T /\ OpenLevel(Len(T) - 1, T)
    BY <1>1, <1>4 DEF MasterLoop
  <2>2. SafeOf(Trees(Len(T) + 1)) = {} /\ Len(T) - 1 \in 0 .. Len(T) - 1
    BY <1>2, <1>3, <1>4 DEF Finds, Graphs
  <2>3. AfterNow = "back_pattern"
    BY <1>1, <1>4 DEF AfterNow
  <2> QED BY <1>1, <2>1, <2>2, <2>3, LevelStep
<1>5. CASE patternMap # {}
  <2> DEFINE n == Len(T) + 1
  <2>1. T' = Append(T, patternMap) /\ OpenForward(patternMap) /\ UNCHANGED <<j, backlevel, ItrsOfP>>
    BY <1>1, <1>5 DEF MasterLoop
  <2>2. Post("send_pattern", candidate_patterns') /\ mphase' = "need"
    BY <2>1 DEF OpenForward
  <2>3. IsLevels(T') /\ Len(T') = n /\ T'[n] = patternMap /\ \A k \in 1 .. Len(T) : T'[k] = T[k]
    BY <1>2, <2>1, MoreLevels
  <2>4. \A k \in 1 .. n : k \in 1 .. Len(T) \/ k = n
    BY <1>2
  <2>5. \A k \in 1 .. n : Finds(T'[k], Trees(k)) /\ \A p \in T'[k] : p.bwd = {}
    BY <1>3, <2>3, <2>4 DEF SInv, TreeInv
  <2>6. TreeInv' /\ \A p \in Pats' : Connected(Graph(p)) /\ p.fwd \cap p.bwd = {}
    <3>1. n \in Nat \ {0} /\ mphase # "edges"
      BY <1>1, <1>2
    <3>2. UNCHANGED <<Seed_map, world>>
      BY <1>1
    <3> HIDE DEF n
    <3> QED BY <2>1, <2>3, <2>5, <3>1, <3>2, OpensForward DEF SInv, MasterInv
  <2>7. mphase \notin Backward /\ mphase' \notin Backward \union LayerPhases
        \union {"edges", "ready", "nodes", "got_nodes", "external", "got_external", "mni", "got_frequent", "back_mni", "back_got"}
    BY <1>1, <2>2 DEF Backward, LayerPhases
  <2>8. LayerInv'
    BY <2>1, <2>7 DEF SInv, LayerInv
  <2>9. ShapeInv'
    BY <1>1, <2>6, <2>7 DEF SInv, ShapeInv
  <2>10. PostedValue' = candidate_patterns'
    BY <2>2 DEF PostedValue
  <2>11. AfterNow = "pattern" /\ "need" \in DOMAIN Posted
    BY <1>1, <1>5, Fields, Phases DEF AfterNow
  <2>12. ScriptInv' /\ \A i \in Client : Pending(i)' /\ ~Handed(i)'
    BY <1>1, <2>2, <2>10, <2>11, Fields, Posts
  <2>13. ASSUME NEW i \in Client
         PROVE  KnowInv(i)'
    <3>1. KnowInv(i) /\ Handed(i)
      BY <1>1, AllHanded
    <3>2. Knows(i, patternMap) /\ \A k \in 1 .. Len(T) : Knows(i, T[k])
      BY <1>1, <3>1 DEF KnowInv
    <3>3. \A k \in 1 .. Len(T') : Knows(i, T'[k])
      BY <2>3, <2>4, <3>2
    <3> QED BY <2>7, <2>12, <3>1, <3>3, KnowsOn
  <2> QED BY <2>6, <2>8, <2>9, <2>12, <2>13 DEF SInv
<1> QED BY <1>4, <1>5

LEMMA DeepensStep ==
  ASSUME SInv, EdgesKnown, MasterDeepens, UNCHANGED <<world, site>>
  PROVE  SInv'
<1> DEFINE n == backlevel + 1
<1>1. /\ mphase = "back_got" /\ Answered /\ backlevel' = n
      /\ ItrsOfP' = [x \in DOMAIN ItrsOfP \union {n} |-> IF x = n THEN patternMap ELSE ItrsOfP[x]]
      /\ OpenBackward(patternMap, T[j + 1]) /\ UNCHANGED <<T, Seed_map, patternMap, j, SumItrsOfP>>
  BY DEF MasterDeepens
<1>2. mphase \in Backward /\ mphase # "edges"
  BY <1>1 DEF Backward
<1>3. /\ Len(T) \in Nat \ {0} /\ j \in Nat /\ j + 1 \in 1 .. Len(T) /\ backlevel \in Nat /\ backlevel >= 2 * j + 3
      /\ DOMAIN ItrsOfP = 2 * j + 3 .. backlevel
  BY <1>2, LevelNow DEF SInv, MasterInv
<1>4. n \in Nat /\ n >= 2 * j + 3 /\ j \in 0 .. Len(T) - 1 /\ n \notin 2 * j + 3 .. backlevel
  BY <1>3
<1>5. DOMAIN ItrsOfP \union {n} = 2 * j + 3 .. n
  BY <1>3
<1>6. Finds(patternMap, LayerOn(j, n)) /\ \A p \in patternMap : Grown(world.frequent, j + 2, p)
  <2>1. Finds(patternMap, Layer(n)) /\ \A p \in patternMap : OnLevel(p)
    BY <1>1 DEF SInv, LayerInv
  <2>2. Layer(n) = LayerOn(j, n)
    BY DEF Layer, LayerOn
  <2> HIDE DEF n
  <2> QED BY <1>3, <2>1, <2>2, OnLevelIs
<1>7. \A x \in 2 * j + 3 .. backlevel :
        Finds(ItrsOfP[x], LayerOn(j, x)) /\ \A p \in ItrsOfP[x] : Grown(world.frequent, j + 2, p)
  <2>1. \A x \in DOMAIN ItrsOfP : Finds(ItrsOfP[x], Layer(x)) /\ \A p \in ItrsOfP[x] : OnLevel(p)
    BY <1>2 DEF SInv, LayerInv
  <2>2. \A x : Layer(x) = LayerOn(j, x)
    BY DEF Layer, LayerOn
  <2> QED BY <1>3, <2>1, <2>2, OnLevelIs
<1>8. \A x \in 2 * j + 3 .. n : x = n \/ x \in 2 * j + 3 .. backlevel
  BY <1>3
<1> HIDE DEF n
<1>9. DOMAIN ItrsOfP' = 2 * j + 3 .. n /\ ItrsOfP'[n] = patternMap
  BY <1>1, <1>5
<1>10. \A x \in 2 * j + 3 .. n :
         Finds(ItrsOfP'[x], LayerOn(j, x)) /\ \A p \in ItrsOfP'[x] : Grown(world.frequent, j + 2, p)
  <2> SUFFICES ASSUME NEW x \in 2 * j + 3 .. n
               PROVE  Finds(ItrsOfP'[x], LayerOn(j, x)) /\ \A p \in ItrsOfP'[x] : Grown(world.frequent, j + 2, p)
    OBVIOUS
  <2>1. CASE x = n
    BY <1>6, <1>9, <2>1
  <2>2. CASE x \in 2 * j + 3 .. backlevel
    <3>1. ItrsOfP'[x] = ItrsOfP[x]
      BY <1>1, <1>3, <1>4, <2>2
    <3> QED BY <1>7, <2>2, <3>1
  <2> QED BY <1>8, <2>1, <2>2
<1>11. SafeOf(Trees(Len(T) + 1)) = {}
  BY <1>2 DEF SInv, TreeInv
<1>12. TreeInv' /\ LayerInv' /\ \A p \in Pats' : Connected(Graph(p)) /\ p.fwd \cap p.bwd = {}
  BY <1>1, <1>2, <1>4, <1>6, <1>9, <1>10, <1>11, OpensBackward DEF SInv, MasterInv
<1>13. Post("send_pattern", candidate_patterns') /\ mphase' = "back_external"
  BY <1>1 DEF OpenBackward
<1>14. ShapeInv'
  BY <1>1, <1>12, <1>13 DEF SInv, ShapeInv
<1>15. PostedValue' = candidate_patterns' /\ "back_external" \in DOMAIN Posted /\ AfterNow = "back_pattern"
  BY <1>1, <1>13, Fields, Phases DEF PostedValue, AfterNow
<1>16. ScriptInv' /\ \A i \in Client : Pending(i)' /\ ~Handed(i)'
  BY <1>1, <1>13, <1>15, Fields, Posts
<1>17. ASSUME NEW i \in Client
       PROVE  KnowInv(i)'
  <2>1. KnowInv(i) /\ Handed(i)
    BY <1>1, AllHanded
  <2>2. Knows(i, patternMap) /\ \A k \in 1 .. Len(T) : Knows(i, T[k])
    BY <1>1, <2>1 DEF KnowInv
  <2>3. Knows(i, ItrsOfP'[backlevel'])
    BY <1>1, <1>9, <2>2
  <2> QED BY <1>1, <1>13, <1>16, <2>1, <2>2, <2>3, KnowsOn
<1> QED BY <1>1, <1>12, <1>14, <1>16, <1>17 DEF SInv

LEMMA ClosesStep ==
  ASSUME SInv, EdgesKnown, MasterClosesLevel, UNCHANGED <<world, site>>
  PROVE  SInv'
<1>1. /\ mphase = "back_got" /\ Answered /\ UNCHANGED <<T, Seed_map, patternMap>>
      /\ \/ /\ Post("flag", {}) /\ mphase' = "done" /\ UNCHANGED <<candidate_patterns, j, backlevel, ItrsOfP>>
         \/ j # 0 /\ OpenLevel(j - 1, T)
  BY DEF MasterClosesLevel
<1>2. mphase \in Backward /\ mphase \notin {"edges", "ready", "done"}
  BY <1>1 DEF Backward
<1>3. AfterNow = "back_pattern"
  BY <1>1, Fields DEF AfterNow
<1>4. CASE j # 0 /\ OpenLevel(j - 1, T)
  <2>1. j - 1 \in 0 .. Len(T) - 1
    BY <1>2, <1>4, LevelNow DEF SInv, MasterInv
  <2>2. SafeOf(Trees(Len(T) + 1)) = {}
    BY <1>2 DEF SInv, TreeInv
  <2> QED BY <1>1, <1>2, <1>3, <1>4, <2>1, <2>2, LevelStep
<1>5. CASE Post("flag", {}) /\ mphase' = "done" /\ UNCHANGED <<candidate_patterns, j, backlevel, ItrsOfP>>
  <2>1. /\ mphase' \in Backward
        /\ mphase' \notin Forward \union LayerPhases
             \union {"edges", "ready", "nodes", "got_nodes", "external", "got_external", "mni", "got_frequent", "back_mni", "back_got"}
    BY <1>5 DEF Backward, Forward, LayerPhases
  <2>2. (\A k : Trees(k)' = Trees(k)) /\ (\A k : Layer(k)' = Layer(k)) /\ (\A p : OnLevel(p)' <=> OnLevel(p)) /\ Pats' = Pats
    BY <1>5 DEF Trees, Layer, OnLevel, Pats
  <2>3. TreeInv'
    BY <1>1, <1>2, <2>1, <2>2 DEF SInv, TreeInv, Finds, SafeOf, Safe
  <2>4. LayerInv'
    BY <1>1, <1>2, <1>5, <2>1, <2>2 DEF SInv, LayerInv, Finds, SafeOf, Safe
  <2>5. ShapeInv'
    BY <1>1, <2>1, <2>2 DEF SInv, ShapeInv
  <2>6. PostedValue' = {} /\ "done" \in DOMAIN Posted
    BY <1>5, Phases DEF PostedValue
  <2>7. ScriptInv' /\ \A i \in Client : Pending(i)' /\ ~Handed(i)'
    BY <1>1, <1>3, <1>5, <2>6, Fields, Posts
  <2>8. ASSUME NEW i \in Client
        PROVE  KnowInv(i)'
    <3>1. KnowInv(i)
      BY DEF SInv
    <3>2. Knows(i, ItrsOfP'[backlevel'])
      BY <1>2, <1>5, <3>1 DEF KnowInv
    <3>3. mphase' # "edges" /\ \A n \in 1 .. Len(T') : Knows(i, T'[n])
      BY <1>1, <1>2, <1>5, <3>1 DEF KnowInv
    <3>4. mphase' \notin {"nodes", "got_nodes", "external", "got_external", "mni", "got_frequent", "back_mni", "back_got"}
      BY <1>5
    <3>5. Pending(i)' /\ ~Handed(i)'
      BY <2>7
    <3> QED BY <3>1, <3>2, <3>3, <3>4, <3>5, KnowsOn
  <2> QED BY <2>3, <2>4, <2>5, <2>7, <2>8 DEF SInv
<1> QED BY <1>1, <1>4, <1>5

LEMMA MasterStep ==
  ASSUME SInv, EdgesKnown, Master
  PROVE  SInv'
<1>1. UNCHANGED <<world, site>>
  BY DEF Master
<1> QED BY <1>1, EdgesStep, ReadyStep, ForwardsStep, CountsStep, GrowsStep, DeepensStep, ClosesStep DEF Master
-----------------------------------------------------------------------------
(* The invariant holds, and the properties follow.                          *)

LEMMA InitInv ==
  ASSUME Init
  PROVE  SInv
<1>1. ScriptInv
  <2>1. AfterNow = "edges_id" /\ MasterAwaits[mphase] = "edge_Frequence" /\ mphase \in DOMAIN After
    BY Fields, Phases DEF Init, AfterNow
  <2>2. ASSUME NEW i \in Client
        PROVE  Handed(i)
    <3>1. HandedValue(i) = {g \in world.present[i] : Cardinality(g) = 1}
      BY DEF Init, HandedValue
    <3> QED BY <2>1, <3>1 DEF Init, Handed
  <2> QED BY <2>1, <2>2 DEF Init, ScriptInv
<1>2. /\ mphase = "edges" /\ T = <<>> /\ Len(T) = 0 /\ patternMap = {} /\ candidate_patterns = {}
      /\ mphase \notin Forward \union Backward \union LayerPhases
  BY DEF Init, Forward, Backward, LayerPhases
<1>3. TreeInv
  <2>1. IsLevels(T)
    BY <1>2 DEF IsLevels
  <2> QED BY <1>2, <2>1 DEF TreeInv
<1>4. LayerInv
  BY <1>2 DEF Init, LayerInv
<1>5. ShapeInv
  BY <1>2 DEF ShapeInv, Pats
<1>6. ASSUME NEW i \in Client
      PROVE  KnowInv(i)
  <2>1. ~Chosen(i)
    BY <1>2 DEF Chosen
  <2> QED BY <1>2, <2>1 DEF Init, KnowInv
<1> QED BY <1>1, <1>3, <1>4, <1>5, <1>6 DEF Init, SInv

LEMMA StutterStep ==
  ASSUME SInv, UNCHANGED vars
  PROVE  SInv'
<1>1. /\ world' = world /\ mphase' = mphase /\ T' = T /\ Seed_map' = Seed_map /\ patternMap' = patternMap
      /\ candidate_patterns' = candidate_patterns /\ j' = j /\ backlevel' = backlevel /\ ItrsOfP' = ItrsOfP
      /\ down' = down /\ up' = up /\ cphase' = cphase /\ pattern_map' = pattern_map
      /\ local_candidates' = local_candidates
  BY DEF vars
<1>2. /\ (\A k : Trees(k)' = Trees(k)) /\ (\A k : Layer(k)' = Layer(k)) /\ (\A p : OnLevel(p)' <=> OnLevel(p))
      /\ Pats' = Pats /\ PostedValue' = PostedValue /\ AfterNow' = AfterNow
  BY <1>1 DEF Trees, Layer, OnLevel, Pats, PostedValue, AfterNow
<1>3. TreeInv'
  BY <1>1, <1>2 DEF SInv, TreeInv, Finds, SafeOf, Safe
<1>4. LayerInv'
  BY <1>1, <1>2 DEF SInv, LayerInv, Finds, SafeOf, Safe
<1>5. ShapeInv'
  BY <1>1, <1>2 DEF SInv, ShapeInv
<1>6. ASSUME NEW i \in Client
      PROVE  (Pending(i)' <=> Pending(i)) /\ (Handed(i)' <=> Handed(i))
  <2>1. HandedValue(i)' = HandedValue(i)
    BY <1>1 DEF HandedValue
  <2> QED BY <1>1, <1>2, <2>1 DEF Pending, Handed
<1>7. ScriptInv'
  BY <1>1, <1>6 DEF SInv, ScriptInv
<1>8. ASSUME NEW i \in Client
      PROVE  KnowInv(i)'
  <2>1. (Chosen(i)' <=> Chosen(i)) /\ \A ps : Knows(i, ps)' <=> Knows(i, ps)
    BY <1>1, <1>6 DEF Chosen, Knows, Sees
  <2>2. Sees(i)' = Sees(i)
    BY <1>1 DEF Sees
  <2> QED BY <1>1, <1>2, <1>6, <2>1, <2>2 DEF SInv, KnowInv
<1> QED BY <1>1, <1>3, <1>4, <1>5, <1>7, <1>8 DEF SInv

\* Where every party is in its script, what the master has grown and what
\* each site knows of it (Server.main, Client.main): the invariant the other
\* results rest on.
THEOREM SInvHolds ==
  ASSUME EdgesKnown
  PROVE  Spec => []SInv
<1>1. Init => SInv
  BY InitInv
<1>2. SInv /\ [Next]_vars => SInv'
  <2> SUFFICES ASSUME SInv, [Next]_vars PROVE SInv'
    OBVIOUS
  <2> QED BY MasterStep, SiteStep, StutterStep DEF Next
<1> QED BY <1>1, <1>2, PTL DEF Spec

LEMMA ScriptsFit ==
  ASSUME SInv
  PROVE  ScriptsAgree
<1>1. mphase # "dead"
  BY Phases DEF SInv, ScriptInv
<1>2. ASSUME NEW i \in Client, Pending(i)
      PROVE  /\ cphase[i] \notin {"dead", "done"} /\ up[i] = None /\ down[i].field \in SiteAwaits[cphase[i]]
  BY <1>2, SiteFits DEF Pending
<1>3. ASSUME NEW i \in Client, Handed(i)
      PROVE  /\ cphase[i] # "dead" /\ down[i] = None
             /\ up[i] # None => mphase # "done" /\ up[i].field = MasterAwaits[mphase]
  <2>1. After[mphase] # "dead"
    BY <1>3, SiteFits, Phases, Fields DEF Handed
  <2>2. cphase[i] # "dead"
    BY <1>3, <2>1 DEF Handed, AfterNow
  <2> QED BY <1>3, <2>2 DEF Handed
<1> QED BY <1>1, <1>2, <1>3 DEF SInv, ScriptInv, ScriptsAgree

LEMMA TypesFit ==
  ASSUME SInv
  PROVE  TypeOK
<1>1. mphase \in DOMAIN MasterRelay \union Backward \union {"edges", "ready", "mni", "got_frequent", "dead"}
  BY Phases DEF SInv, ScriptInv, Backward
<1>2. j \in Nat /\ backlevel \in Nat /\ Len(T) \in Nat
  <2>1. Len(T) \in Nat
    BY DEF SInv, TreeInv, IsLevels
  <2> QED BY <2>1 DEF SInv, LayerInv
<1>3. \A p \in patternMap \union {c.pat : c \in candidate_patterns} : Connected(Graph(p)) /\ p.fwd \cap p.bwd = {}
  BY DEF SInv, ShapeInv, Pats
<1>4. \A i \in Client : /\ down[i] = None \/ up[i] = None
                        /\ \A p \in local_candidates[i] : Connected(Graph(p))
                        /\ \A p \in pattern_map[i] : Graph(p) \in world.frequent
  BY DEF SInv, ScriptInv, Pending, Handed, KnowInv
<1> QED BY <1>1, <1>2, <1>3, <1>4 DEF TypeOK

\* Master and sites never fall out of step (Server.main, Client.main): each
\* message is the one its reader waits for, no program dies on a null field.
THEOREM SessionAgrees ==
  ASSUME EdgesKnown
  PROVE  Spec => []SessionInv
<1>1. SInv => SessionInv
  BY ScriptsFit, TypesFit DEF SessionInv
<1> QED BY <1>1, SInvHolds, PTL

LEMMA TreesFit ==
  ASSUME SInv, EdgesKnown
  PROVE  TreesComplete
<1>1. LevelsComplete
  BY DEF SInv, TreeInv, LevelsComplete
<1>2. ASSUME NEW i \in Client, down[i].field = "send_pattern", NEW c \in down[i].value,
             Graph(c.pat) \in world.present[i], Down(Graph(c.father)) \cap world.missed[i] = {}
      PROVE  c.father \in pattern_map[i]
  <2>1. down[i] # None
    BY <1>2 DEF None
  <2>2. Pending(i)
    BY <2>1 DEF SInv, ScriptInv, Handed
  <2>3. mphase \in DOMAIN Posted /\ Posted[mphase] = "send_pattern" /\ down[i].value = PostedValue
    BY <1>2, <2>2 DEF Pending
  <2>4. mphase \in {"need", "back_external"}
    BY <2>3, Phases DEF Posted
  <2>5. c \in candidate_patterns
    BY <1>2, <2>3, <2>4 DEF PostedValue
  <2> QED BY <1>2, <2>4, <2>5, FathersAt DEF SInv, MasterInv
<1> QED BY <1>1, <1>2 DEF TreesComplete, FathersKnown

\* What a site gives up or miscounts (ForwardEx, StatisticMNI) costs what
\* rests on it and nothing else: Trans_sendPattern of another site drops no
\* candidate for it, and TreeGenForward's cuts (checkfrequent) cost no level
\* a frequent tree of which no site misses a part.
THEOREM TreesAreComplete ==
  ASSUME EdgesKnown
  PROVE  Spec => []TreesComplete
<1>1. SInv => TreesComplete
  BY TreesFit
<1> QED BY <1>1, SInvHolds, PTL

LEMMA LayersFit ==
  ASSUME SInv
  PROVE  LayersComplete
<1>1. mphase \notin Backward => DOMAIN ItrsOfP = {}
  BY DEF SInv, LayerInv
<1>2. ASSUME NEW n \in DOMAIN ItrsOfP
      PROVE  Finds(ItrsOfP[n], Layer(n))
  BY <1>1 DEF SInv, LayerInv
<1>3. mphase = "back_got" /\ patternMap = {} => SafeOf(Layer(backlevel + 1)) = {}
  <2> SUFFICES ASSUME mphase = "back_got", patternMap = {} PROVE SafeOf(Layer(backlevel + 1)) = {}
    OBVIOUS
  <2>1. Finds(patternMap, Layer(backlevel + 1))
    BY DEF SInv, LayerInv
  <2> QED BY <2>1 DEF Finds, Graphs
<1> QED BY <1>2, <1>3 DEF LayersComplete

\* The backward loop of the master (TreeGenBackward) finds, under each
\* interest value it passes, frequent patterns of that value and every one
\* of which no site misses a part, and leaves a level only when no more of
\* these are to be had on it.
THEOREM LayersAreComplete ==
  ASSUME EdgesKnown
  PROVE  Spec => []LayersComplete
<1>1. SInv => LayersComplete
  BY LayersFit
<1> QED BY <1>1, SInvHolds, PTL
-----------------------------------------------------------------------------
(* How many patterns there are under the interest values.                   *)

Choose(d) == CHOOSE x \in d : TRUE
LayerSum(f, R) == MapThenSumSet(LAMBDA n : Cardinality(f[n]), R)
Valued(X, R) == {g \in X : Interest(g) \in R}

\* One value more.
LEMMA OneValueMore ==
  ASSUME NEW X, IsFiniteSet(X), NEW d, NEW i \in d
  PROVE  /\ Cardinality(Valued(X, d)) = Cardinality(Valued(X, {i})) + Cardinality(Valued(X, d \ {i}))
         /\ Cardinality(Valued(X, d)) \in Nat /\ Cardinality(Valued(X, d \ {i})) \in Nat
         /\ Cardinality(Valued(X, {i})) \in Nat
<1> DEFINE A == Valued(X, {i})
           B == Valued(X, d \ {i})
<1>1. \A S : IsFiniteSet(Valued(X, S)) /\ Cardinality(Valued(X, S)) \in Nat
  <2> SUFFICES ASSUME NEW S PROVE IsFiniteSet(Valued(X, S)) /\ Cardinality(Valued(X, S)) \in Nat
    OBVIOUS
  <2>1. Valued(X, S) \subseteq X
    BY DEF Valued
  <2> QED BY <2>1, FS_Subset, FS_CardinalityType
<1>2. A \union B = Valued(X, d) /\ A \cap B = {}
  BY DEF Valued
<1>3. IsFiniteSet(A) /\ IsFiniteSet(B) /\ Cardinality(A) \in Nat /\ Cardinality(B) \in Nat
  BY <1>1
<1> HIDE DEF A, B
<1>4. Cardinality(A \union B) = Cardinality(A) + Cardinality(B) - Cardinality(A \cap B)
  BY <1>3, FS_Union
<1>5. Cardinality(A \cap B) = 0
  BY <1>2, FS_EmptySet
<1>6. Cardinality(Valued(X, d)) = Cardinality(A) + Cardinality(B)
  <2>1. PICK a, b \in Nat : a = Cardinality(A) /\ b = Cardinality(B)
    BY <1>3
  <2>2. Cardinality(A \union B) = a + b - 0
    BY <1>4, <1>5, <2>1
  <2>3. Cardinality(A \union B) = a + b
    BY <2>1, <2>2
  <2> QED BY <1>2, <2>1, <2>3
<1> QED BY <1>1, <1>6 DEF A, B

\* What a sum over values does, step by step.
SumSteps(f, R, h) ==
  h[{}] = 0 /\ \A d \in SUBSET R : d # {} => h[d] = Cardinality(f[Choose(d)]) + h[d \ {Choose(d)}]

LEMMA SumIs ==
  ASSUME NEW f, NEW R, NEW it, it = [d \in SUBSET R |-> it[d]], SumSteps(f, R, it)
  PROVE  \E h : SumSteps(f, R, h) /\ LayerSum(f, R) = h[R]
<1> DEFINE n(i) == Cardinality(f[i])
           Eq(h) == h = [d \in SUBSET R |-> IF d = {} THEN 0 ELSE n(Choose(d)) + h[d \ {Choose(d)}]]
<1>1. LayerSum(f, R) = (CHOOSE h : Eq(h))[R]
  BY DEF LayerSum, MapThenSumSet, MapThenFoldSet, Choose
<1>2. Eq(it)
  BY DEF SumSteps
<1>3. PICK h : h = (CHOOSE x : Eq(x)) /\ Eq(h)
  <2> HIDE DEF Eq
  <2> QED BY <1>2
<1>4. SumSteps(f, R, h)
  BY <1>3 DEF SumSteps
<1> QED BY <1>1, <1>3, <1>4

LEMMA SameSum ==
  ASSUME NEW f, NEW R, IsFiniteSet(R), NEW h, SumSteps(f, R, h), NEW it, SumSteps(f, R, it)
  PROVE  h[R] = it[R]
<1> DEFINE Bad == {d \in SUBSET R : h[d] # it[d]}
           Sizes == {Cardinality(d) : d \in Bad}
<1> SUFFICES ASSUME Bad # {} PROVE FALSE
  OBVIOUS
<1>1. \A d \in SUBSET R : IsFiniteSet(d) /\ Cardinality(d) \in Nat
  BY FS_Subset, FS_CardinalityType
<1>2. Sizes \subseteq Nat /\ Sizes # {}
  BY <1>1
<1>3. PICK n \in Sizes : \A m \in Sizes : n <= m
  <2> HIDE DEF Sizes
  <2> QED BY <1>2, LeastNumber
<1>4. PICK d \in Bad : n = Cardinality(d)
  OBVIOUS
<1>5. \A e \in Bad : Cardinality(d) <= Cardinality(e)
  BY <1>3, <1>4
<1> HIDE DEF Sizes
<1>6. d # {}
  BY <1>4 DEF SumSteps
<1>7. PICK i : i = Choose(d) /\ i \in d
  BY <1>6 DEF Choose
<1>8. d \ {i} \in SUBSET R /\ Cardinality(d \ {i}) = Cardinality(d) - 1 /\ Cardinality(d) \in Nat
  <2>1. IsFiniteSet(d) /\ d \in SUBSET R
    BY <1>1
  <2> QED BY <1>1, <1>7, <2>1, FS_RemoveElement
<1>9. d \ {i} \notin Bad
  <2> HIDE DEF Bad
  <2> QED BY <1>5, <1>8
<1>10. h[d \ {i}] = it[d \ {i}]
  BY <1>8, <1>9
<1>11. h[d] = Cardinality(f[i]) + h[d \ {i}] /\ it[d] = Cardinality(f[i]) + it[d \ {i}]
  BY <1>6, <1>7 DEF SumSteps
<1> QED BY <1>4, <1>10, <1>11

\* As many patterns as there are graphs of these values.
LEMMA SumOfLayers ==
  ASSUME NEW X, IsFiniteSet(X), NEW f, NEW R, IsFiniteSet(R),
         \A i \in R : Cardinality(f[i]) = Cardinality(Valued(X, {i}))
  PROVE  LayerSum(f, R) = Cardinality(Valued(X, R))
<1> DEFINE it == [d \in SUBSET R |-> Cardinality(Valued(X, d))]
<1>1. it = [d \in SUBSET R |-> it[d]] /\ it[R] = Cardinality(Valued(X, R))
  OBVIOUS
<1>2. SumSteps(f, R, it)
  <2>1. it[{}] = 0
    <3>1. Valued(X, {}) = {}
      BY DEF Valued
    <3> QED BY <3>1, FS_EmptySet
  <2>2. ASSUME NEW d \in SUBSET R, d # {}
        PROVE  it[d] = Cardinality(f[Choose(d)]) + it[d \ {Choose(d)}]
    <3>1. PICK i : i = Choose(d) /\ i \in d /\ i \in R
      BY <2>2 DEF Choose
    <3>2. Cardinality(Valued(X, d)) = Cardinality(Valued(X, {i})) + Cardinality(Valued(X, d \ {i}))
      BY <3>1, OneValueMore
    <3>3. it[d] = Cardinality(Valued(X, d)) /\ it[d \ {i}] = Cardinality(Valued(X, d \ {i}))
      OBVIOUS
    <3> HIDE DEF it
    <3> QED BY <3>1, <3>2, <3>3
  <2> HIDE DEF it
  <2> QED BY <2>1, <2>2 DEF SumSteps
<1> HIDE DEF it
<1>3. PICK h : SumSteps(f, R, h) /\ LayerSum(f, R) = h[R]
  BY <1>1, <1>2, SumIs
<1> QED BY <1>1, <1>2, <1>3, SameSum

\* Patterns of different graphs are as many as these.
LEMMA OneEachCount ==
  ASSUME NEW ps, OneOf(ps), NEW gs, IsFiniteSet(gs), {Graph(p) : p \in ps} = gs
  PROVE  IsFiniteSet(ps) /\ Cardinality(ps) = Cardinality(gs)
<1> DEFINE h == [p \in ps |-> Graph(p)]
<1>1. h \in [ps -> gs] /\ \A p \in ps : h[p] = Graph(p)
  OBVIOUS
<1>2. \A g \in gs : \E p \in ps : h[p] = g
  <2> SUFFICES ASSUME NEW g \in gs PROVE \E p \in ps : h[p] = g
    OBVIOUS
  <2>1. PICK p \in ps : Graph(p) = g
    OBVIOUS
  <2> QED BY <1>1, <2>1
<1> HIDE DEF h
<1>3. \A p, q \in ps : h[p] = h[q] => p = q
  BY <1>1 DEF OneOf
<1>4. h \in Injection(ps, gs) /\ h \in Surjection(ps, gs)
  BY <1>1, <1>2, <1>3 DEF Injection, IsInjective, Surjection
<1> QED BY <1>4, FS_Injection

Over(X, n) == {g \in X : Interest(g) > n}

LEMMA LayeredSums ==
  ASSUME NEW X, IsFiniteSet(X), NEW f, Layered(f, X)
  PROVE  /\ \A n \in DOMAIN f : IsFiniteSet(f[n]) /\ Cardinality(f[n]) = Cardinality(Valued(X, {n}))
         /\ \A n : Above(f, n) = Cardinality(Over(X, n))
         /\ NumofItrsOfP(f) = Cardinality(X)
<1>1. ASSUME NEW n \in DOMAIN f
      PROVE  IsFiniteSet(f[n]) /\ Cardinality(f[n]) = Cardinality(Valued(X, {n}))
  <2>1. OneOf(f[n]) /\ {Graph(p) : p \in f[n]} = Valued(X, {n})
    BY DEF Layered, Valued
  <2>2. IsFiniteSet(Valued(X, {n}))
    <3>1. Valued(X, {n}) \subseteq X
      BY DEF Valued
    <3> QED BY <3>1, FS_Subset
  <2> QED BY <2>1, <2>2, OneEachCount
<1>2. IsFiniteSet(DOMAIN f) /\ DOMAIN f \subseteq Nat /\ \A g \in X : Interest(g) \in DOMAIN f
  BY DEF Layered
<1>3. ASSUME NEW R, R \subseteq DOMAIN f
      PROVE  LayerSum(f, R) = Cardinality(Valued(X, R))
  <2>1. IsFiniteSet(R)
    BY <1>2, <1>3, FS_Subset
  <2>2. \A i \in R : Cardinality(f[i]) = Cardinality(Valued(X, {i}))
    BY <1>1, <1>3
  <2> QED BY <2>1, <2>2, SumOfLayers
<1>4. ASSUME NEW n
      PROVE  Above(f, n) = Cardinality(Over(X, n))
  <2> DEFINE R == {m \in DOMAIN f : m > n}
  <2>1. Above(f, n) = LayerSum(f, R)
    BY DEF Above, LayerSum, MapThenSumSet, MapThenFoldSet
  <2>2. Valued(X, R) = Over(X, n)
    BY <1>2 DEF Valued, Over
  <2>3. R \subseteq DOMAIN f
    OBVIOUS
  <2> HIDE DEF R
  <2> QED BY <1>3, <2>1, <2>2, <2>3
<1>5. NumofItrsOfP(f) = Cardinality(X)
  <2>1. NumofItrsOfP(f) = LayerSum(f, DOMAIN f)
    BY DEF NumofItrsOfP, LayerSum, MapThenSumSet, MapThenFoldSet
  <2>2. Valued(X, DOMAIN f) = X
    BY <1>2 DEF Valued
  <2> QED BY <1>3, <2>1, <2>2
<1> QED BY <1>1, <1>4, <1>5

-----------------------------------------------------------------------------
(* The best k.                                                              *)

LEMMA GreatestNumber ==
  ASSUME NEW S, S \subseteq Nat, IsFiniteSet(S), S # {}
  PROVE  \E n \in S : \A m \in S : m <= n
<1> DEFINE Below(n) == {m \in S : m <= n}
           Sizes == {Cardinality(S) - Cardinality(Below(n)) : n \in S}
<1>1. \A n \in S : /\ IsFiniteSet(Below(n)) /\ Cardinality(Below(n)) \in Nat /\ Cardinality(S) \in Nat
                   /\ Cardinality(Below(n)) <= Cardinality(S)
  <2> SUFFICES ASSUME NEW n \in S
               PROVE  /\ IsFiniteSet(Below(n)) /\ Cardinality(Below(n)) \in Nat /\ Cardinality(S) \in Nat
                      /\ Cardinality(Below(n)) <= Cardinality(S)
    OBVIOUS
  <2>1. Below(n) \in SUBSET S
    OBVIOUS
  <2> HIDE DEF Below
  <2> QED BY <2>1, FS_Subset, FS_CardinalityType
<1>2. Sizes \subseteq Nat /\ Sizes # {}
  <2>1. ASSUME NEW n \in S PROVE Cardinality(S) - Cardinality(Below(n)) \in Nat
    <3>1. PICK a \in Nat : a = Cardinality(S)
      BY <1>1
    <3>2. PICK b \in Nat : b = Cardinality(Below(n))
      BY <1>1
    <3>3. b <= a
      BY <1>1, <3>1, <3>2
    <3> HIDE DEF Below
    <3> QED BY <3>1, <3>2, <3>3
  <2> HIDE DEF Below
  <2> QED BY <2>1
<1>3. PICK s \in Sizes : \A t \in Sizes : s <= t
  <2> HIDE DEF Sizes
  <2> QED BY <1>2, LeastNumber
<1>4. PICK n \in S : s = Cardinality(S) - Cardinality(Below(n))
  OBVIOUS
<1>5. ASSUME NEW m \in S, m > n PROVE FALSE
  <2>1. Cardinality(S) - Cardinality(Below(n)) <= Cardinality(S) - Cardinality(Below(m))
    BY <1>3, <1>4
  <2>2. Below(n) \union {m} \subseteq Below(m) /\ m \notin Below(n)
    <3>1. n \in Nat /\ m \in Nat
      OBVIOUS
    <3>2. \A x \in Nat : x <= n => x <= m
      BY <1>5, <3>1
    <3>3. m <= m /\ ~(m <= n)
      BY <1>5, <3>1
    <3>4. Below(n) \subseteq Below(m)
      BY <3>2
    <3> QED BY <3>3, <3>4
  <2> HIDE DEF Below, Sizes
  <2>3. Cardinality(Below(n) \union {m}) = Cardinality(Below(n)) + 1
    BY <1>1, <2>2, OneMore
  <2>4. Cardinality(Below(n) \union {m}) <= Cardinality(Below(m))
    BY <1>1, <2>2, FS_Subset
  <2> QED BY <1>1, <2>1, <2>3, <2>4
<1>6. \A m \in S : m <= n
  BY <1>5
<1> QED BY <1>6

\* The levels that AddTopk takes over, what it has then, and what is left
\* after the cut.
TakenOf(f, k) == {n \in DOMAIN f : Above(f, n) < k}
MergedOf(sum, itrs, k) == [n \in DOMAIN sum \union TakenOf(itrs, k) |->
                             Get(sum, n) \union (IF n \in TakenOf(itrs, k) THEN itrs[n] ELSE {})]
Cut(a, b, room) == IF Cardinality(a) <= room THEN b = a ELSE b \subseteq a /\ Cardinality(b) = room
CutsTo(f, h, k) == /\ DOMAIN h = TakenOf(f, k)
                   /\ \A n \in DOMAIN h : Cut(f[n], h[n], k - Above(f, n))

LEMMA AddTopkIs ==
  ASSUME NEW sum, NEW itrs, NEW k, NEW h \in AddTopk(sum, itrs, k)
  PROVE  CutsTo(MergedOf(sum, itrs, k), h, k)
<1> DEFINE m == MergedOf(sum, itrs, k)
           room(n) == k - Above(m, n)
           choices(n) == IF Cardinality(m[n]) <= room(n) THEN {m[n]} ELSE kSubset(room(n), m[n])
           kept == TakenOf(m, k)
<1>1. AddTopk(sum, itrs, k) = {f \in [kept -> UNION {choices(n) : n \in kept}] : \A n \in kept : f[n] \in choices(n)}
  BY DEF AddTopk, MergedOf, TakenOf
<1> HIDE DEF m
<1>2. DOMAIN h = kept /\ \A n \in kept : h[n] \in choices(n)
  <2> HIDE DEF kept, choices
  <2> QED BY <1>1
<1>3. ASSUME NEW n \in kept PROVE Cut(m[n], h[n], room(n))
  <2>1. h[n] \in choices(n)
    BY <1>2
  <2> HIDE DEF room
  <2> QED BY <2>1 DEF kSubset, Cut
<1> QED BY <1>2, <1>3 DEF CutsTo, m

\* The sets of patterns that a function into sets of patterns has.
GraphsOf(f) == UNION {{Graph(p) : p \in f[n]} : n \in DOMAIN f}

LEMMA LayeredGraphs ==
  ASSUME NEW f, NEW X, Layered(f, X)
  PROVE  GraphsOf(f) = X /\ \A g \in X : Interest(g) \in Nat
<1>1. \A n \in DOMAIN f : {Graph(p) : p \in f[n]} = {g \in X : Interest(g) = n}
  BY DEF Layered
<1>2. \A g \in X : Interest(g) \in DOMAIN f /\ Interest(g) \in Nat
  BY DEF Layered
<1>3. ASSUME NEW g PROVE g \in GraphsOf(f) <=> \E n \in DOMAIN f : g \in {Graph(p) : p \in f[n]}
  BY DEF GraphsOf
<1>4. ASSUME NEW g PROVE g \in GraphsOf(f) <=> \E n \in DOMAIN f : g \in X /\ Interest(g) = n
  BY <1>1, <1>3
<1>5. \A g : g \in GraphsOf(f) <=> g \in X
  BY <1>2, <1>4
<1> QED BY <1>2, <1>5

\* The graphs of ps are those of gs, each once.
Stands(ps, gs) == OneOf(ps) /\ {Graph(p) : p \in ps} = gs
\* Two sets of patterns without a graph in common.
LEMMA OneOfBoth ==
  ASSUME NEW a, NEW A, Stands(a, A), NEW b, NEW B, Stands(b, B), A \cap B = {}
  PROVE  Stands(a \union b, A \union B)
<1> USE DEF Stands
<1>1. (\A p \in a : Graph(p) \in A) /\ (\A p \in b : Graph(p) \in B)
  OBVIOUS
<1>2. (\A p \in a : Graph(p) \notin B) /\ (\A p \in b : Graph(p) \notin A)
  BY <1>1
<1>3. OneOf(a \union b)
  BY <1>1, <1>2 DEF OneOf
<1>4. {Graph(p) : p \in a \union b} = {Graph(p) : p \in a} \union {Graph(p) : p \in b}
  OBVIOUS
<1> QED BY <1>3, <1>4

LEMMA MergedIs ==
  ASSUME NEW X, NEW sum, Layered(sum, X), NEW Y, NEW itrs, Layered(itrs, Y), X \cap Y = {}, NEW k
  PROVE  Layered(MergedOf(sum, itrs, k), X \union Valued(Y, TakenOf(itrs, k)))
<1> DEFINE taken == TakenOf(itrs, k)
           m == MergedOf(sum, itrs, k)
           D == DOMAIN sum \union taken
           M == X \union Valued(Y, taken)
           new(n) == IF n \in taken THEN itrs[n] ELSE {}
           At(Z, n) == {g \in Z : Interest(g) = n}
<1>1. /\ IsFiniteSet(DOMAIN sum) /\ DOMAIN sum \subseteq Nat /\ IsFiniteSet(DOMAIN itrs) /\ DOMAIN itrs \subseteq Nat
      /\ \A g \in X : Interest(g) \in DOMAIN sum
      /\ \A n \in DOMAIN sum : Stands(sum[n], At(X, n))
      /\ \A n \in DOMAIN itrs : Stands(itrs[n], At(Y, n))
  BY DEF Layered, Stands
<1>2. taken \subseteq DOMAIN itrs
  BY DEF TakenOf
<1>3. DOMAIN m = D /\ \A n \in D : m[n] = Get(sum, n) \union new(n)
  BY DEF MergedOf
<1> HIDE DEF m, taken
<1>4. IsFiniteSet(D) /\ D \subseteq Nat
  <2>1. IsFiniteSet(taken)
    BY <1>1, <1>2, FS_Subset
  <2> QED BY <1>1, <1>2, <2>1, FS_Union
<1>5. ASSUME NEW n \in D
      PROVE  Stands(m[n], At(M, n))
  <2>1. Stands({}, {})
    BY DEF OneOf, Stands
  <2>2. Stands(Get(sum, n), At(X, n))
    <3>1. CASE n \in DOMAIN sum
      <4>1. Get(sum, n) = sum[n]
        BY <3>1 DEF Get
      <4> HIDE DEF At
      <4> QED BY <1>1, <3>1, <4>1
    <3>2. CASE n \notin DOMAIN sum
      <4>1. Get(sum, n) = {} /\ At(X, n) = {}
        BY <1>1, <3>2 DEF Get
      <4> QED BY <2>1, <4>1
    <3> QED BY <3>1, <3>2
  <2>3. Stands(new(n), At(Valued(Y, taken), n))
    <3>1. CASE n \in taken
      <4>1. new(n) = itrs[n] /\ At(Valued(Y, taken), n) = At(Y, n)
        BY <3>1 DEF Valued
      <4> HIDE DEF At, new
      <4> QED BY <1>1, <1>2, <3>1, <4>1
    <3>2. CASE n \notin taken
      <4>1. new(n) = {} /\ At(Valued(Y, taken), n) = {}
        BY <3>2 DEF Valued
      <4> QED BY <2>1, <4>1
    <3> QED BY <3>1, <3>2
  <2>4. At(X, n) \cap At(Valued(Y, taken), n) = {} /\ At(M, n) = At(X, n) \union At(Valued(Y, taken), n)
    BY DEF Valued
  <2> HIDE DEF At, new
  <2>5. Stands(Get(sum, n) \union new(n), At(X, n) \union At(Valued(Y, taken), n))
    BY <2>2, <2>3, <2>4, OneOfBoth
  <2> QED BY <1>3, <2>4, <2>5
<1>6. \A g \in M : Interest(g) \in D
  BY <1>1 DEF Valued
<1>7. Layered(m, M)
  BY <1>3, <1>4, <1>5, <1>6 DEF Layered, Stands
<1> QED BY <1>7 DEF m, taken

\* Everything else is no more interesting than k of those that the best are
\* the best of.
AtLeast(X, h) == {g \in X : Interest(g) >= Interest(h)}
LEMMA TopWiden ==
  ASSUME NEW X, IsFiniteSet(X), \A g \in X : Interest(g) \in Nat, NEW M, M \subseteq X, NEW k \in Nat, NEW R, TopOf(R, M, k),
         \A h \in X \ M : Cardinality(AtLeast(M, h)) >= k
  PROVE  TopOf(R, X, k)
<1>1. IsFiniteSet(M) /\ IsFiniteSet(R) /\ R \subseteq M /\ R \subseteq X
  BY FS_Subset DEF TopOf
<1>2. Cardinality(M) \in Nat /\ Cardinality(R) \in Nat /\ Cardinality(X) \in Nat /\ Cardinality(M) <= Cardinality(X)
  BY <1>1, FS_Subset, FS_CardinalityType
<1>3. CASE X = M
  BY <1>3
<1>4. CASE X # M
  <2>1. ASSUME NEW h \in X \ M
        PROVE  /\ IsFiniteSet(AtLeast(M, h)) /\ Cardinality(AtLeast(M, h)) \in Nat
               /\ Cardinality(AtLeast(M, h)) <= Cardinality(M) /\ Cardinality(AtLeast(M, h)) >= k
    <3>1. AtLeast(M, h) \subseteq M
      BY DEF AtLeast
    <3> QED BY <1>1, <3>1, FS_Subset, FS_CardinalityType
  <2>2. Cardinality(M) >= k
    <3>1. PICK h \in X \ M : TRUE
      BY <1>4
    <3> QED BY <1>2, <2>1
  <2>3. Cardinality(R) = k
    BY <1>2, <2>2 DEF TopOf
  <2>4. ASSUME NEW g \in R, NEW h \in X \ R
        PROVE  Interest(g) >= Interest(h)
    <3>1. CASE h \in M
      BY <3>1 DEF TopOf
    <3>2. CASE h \notin M
      <4> SUFFICES ASSUME ~(Interest(g) >= Interest(h)) PROVE FALSE
        OBVIOUS
      <4> DEFINE S == AtLeast(M, h)
      <4>1. g \notin S
        BY DEF AtLeast
      <4>2. IsFiniteSet(S) /\ Cardinality(S) \in Nat /\ Cardinality(S) >= k
        BY <2>1, <3>2
      <4>3. PICK o \in S : o \notin R
        <5> SUFFICES ASSUME S \subseteq R PROVE FALSE
          OBVIOUS
        <5> HIDE DEF S
        <5>1. S \subseteq R \ {g}
          BY <4>1
        <5>2. IsFiniteSet(R \ {g}) /\ Cardinality(R \ {g}) = Cardinality(R) - 1
          BY <1>1, FS_RemoveElement
        <5>3. Cardinality(S) <= Cardinality(R \ {g})
          BY <5>1, <5>2, FS_Subset
        <5> QED BY <1>2, <2>3, <4>2, <5>2, <5>3
      <4>4. o \in M /\ Interest(o) >= Interest(h)
        BY DEF AtLeast
      <4>5. Interest(g) >= Interest(o)
        BY <4>3, <4>4 DEF TopOf
      <4>6. Interest(g) \in Nat /\ Interest(o) \in Nat /\ Interest(h) \in Nat
        BY <1>1, <4>4
      <4> QED BY <4>4, <4>5, <4>6
    <3> QED BY <3>1, <3>2
  <2> QED BY <1>1, <1>2, <2>2, <2>3, <2>4 DEF TopOf
<1> QED BY <1>3, <1>4

\* After the cut the best k are left: everything above the lowest level that
\* is kept, and as many of this level as there is room for.
LEMMA CutBest ==
  ASSUME NEW M, IsFiniteSet(M), NEW m, Layered(m, M), NEW k \in Nat \ {0}, NEW f, CutsTo(m, f, k)
  PROVE  Layered(f, GraphsOf(f)) /\ TopOf(GraphsOf(f), M, k)
<1> DEFINE kept == TakenOf(m, k)
           R == GraphsOf(f)
           Gs(n) == {Graph(p) : p \in f[n]}
<1>1. /\ IsFiniteSet(DOMAIN m) /\ DOMAIN m \subseteq Nat
      /\ \A g \in M : Interest(g) \in DOMAIN m /\ Interest(g) \in Nat
      /\ \A n \in DOMAIN m : Stands(m[n], Valued(M, {n}))
  BY DEF Layered, Stands, Valued
<1>2. /\ \A n \in DOMAIN m : IsFiniteSet(m[n]) /\ Cardinality(m[n]) = Cardinality(Valued(M, {n}))
      /\ \A n : Above(m, n) = Cardinality(Over(M, n))
  BY LayeredSums
<1>3. \A n : IsFiniteSet(Over(M, n)) /\ Cardinality(Over(M, n)) \in Nat
  <2> SUFFICES ASSUME NEW n PROVE IsFiniteSet(Over(M, n)) /\ Cardinality(Over(M, n)) \in Nat
    OBVIOUS
  <2>1. Over(M, n) \subseteq M
    BY DEF Over
  <2> QED BY <2>1, FS_Subset, FS_CardinalityType
<1>4. kept = {n \in DOMAIN m : Cardinality(Over(M, n)) < k}
  BY <1>2 DEF TakenOf
<1>5. DOMAIN f = kept /\ \A n \in kept : Cut(m[n], f[n], k - Cardinality(Over(M, n)))
  BY <1>2 DEF CutsTo
<1> HIDE DEF kept
<1>6. \A n \in kept : f[n] \subseteq m[n] /\ n \in DOMAIN m /\ n \in Nat
  BY <1>1, <1>4, <1>5 DEF Cut
<1>7. ASSUME NEW n \in kept
      PROVE  /\ OneOf(f[n]) /\ Gs(n) \subseteq Valued(M, {n})
             /\ IsFiniteSet(Gs(n)) /\ Cardinality(Gs(n)) = Cardinality(f[n]) /\ Cardinality(f[n]) \in Nat
  <2>1. OneOf(m[n]) /\ {Graph(p) : p \in m[n]} = Valued(M, {n}) /\ f[n] \subseteq m[n] /\ IsFiniteSet(m[n])
    BY <1>1, <1>2, <1>6 DEF Stands
  <2>2. OneOf(f[n]) /\ IsFiniteSet(f[n])
    BY <2>1, FS_Subset DEF OneOf
  <2>3. Gs(n) \subseteq Valued(M, {n})
    BY <2>1
  <2>4. IsFiniteSet(Valued(M, {n}))
    <3>1. Valued(M, {n}) \subseteq M
      BY DEF Valued
    <3> QED BY <3>1, FS_Subset
  <2>5. IsFiniteSet(Gs(n))
    BY <2>3, <2>4, FS_Subset
  <2>6. \E gs : gs = Gs(n)
    OBVIOUS
  <2>7. Cardinality(f[n]) = Cardinality(Gs(n))
    BY <2>2, <2>5, OneEachCount
  <2> QED BY <2>2, <2>3, <2>5, <2>7, FS_CardinalityType
<1>8. \A g : g \in R <=> \E n \in kept : g \in Gs(n)
  BY <1>5 DEF GraphsOf
<1> HIDE DEF R, Gs
<1>9. \A n \in kept : \A g \in Gs(n) : g \in M /\ Interest(g) = n
  BY <1>7 DEF Valued
<1>10. R \subseteq M /\ IsFiniteSet(R)
  <2>1. R \subseteq M
    BY <1>8, <1>9
  <2> QED BY <2>1, FS_Subset
<1>11. Layered(f, R)
  <2>1. IsFiniteSet(DOMAIN f) /\ DOMAIN f \subseteq Nat
    <3>1. kept \subseteq DOMAIN m
      BY <1>4
    <3> QED BY <1>1, <1>5, <3>1, FS_Subset
  <2>2. ASSUME NEW n \in DOMAIN f
        PROVE  OneOf(f[n]) /\ {Graph(p) : p \in f[n]} = {g \in R : Interest(g) = n}
    <3>1. n \in kept
      BY <1>5
    <3>2. Gs(n) = {g \in R : Interest(g) = n}
      BY <1>8, <1>9, <3>1
    <3> QED BY <1>7, <3>1, <3>2 DEF Gs
  <2>3. \A g \in R : Interest(g) \in DOMAIN f
    BY <1>5, <1>8, <1>9
  <2> QED BY <2>1, <2>2, <2>3 DEF Layered
<1>12. Cardinality(M) \in Nat /\ Cardinality(R) \in Nat /\ Cardinality(R) <= Cardinality(M)
  BY <1>10, FS_Subset, FS_CardinalityType
<1>13. CASE DOMAIN m = {}
  <2>1. M = {}
    BY <1>1, <1>13
  <2>2. Cardinality(M) = 0 /\ Cardinality(R) = 0 /\ R = {}
    BY <1>10, <2>1, FS_EmptySet
  <2>3. TopOf(R, M, k)
    BY <2>1, <2>2 DEF TopOf
  <2> QED BY <1>11, <2>3 DEF R
<1>14. CASE DOMAIN m # {}
  <2>1. PICK c \in kept : \A n \in kept : c <= n
    <3>1. PICK n \in DOMAIN m : \A x \in DOMAIN m : x <= n
      BY <1>1, <1>14, GreatestNumber
    <3>2. Over(M, n) = {}
      <4> SUFFICES ASSUME NEW g \in M, Interest(g) > n PROVE FALSE
        BY DEF Over
      <4>1. Interest(g) <= n /\ Interest(g) \in Nat /\ n \in Nat
        BY <1>1, <3>1
      <4> QED BY <4>1
    <3>3. Cardinality(Over(M, n)) < k
      BY <3>2, FS_EmptySet
    <3>4. n \in kept
      BY <1>4, <3>3
    <3>5. kept \subseteq Nat
      BY <1>6
    <3> QED BY <3>4, <3>5, LeastNumber
  <2>2. c \in DOMAIN m /\ c \in Nat /\ Cardinality(Over(M, c)) < k
    BY <1>4, <1>6, <2>1
  <2>3. ASSUME NEW n \in DOMAIN m, n > c
        PROVE  n \in kept /\ Gs(n) = Valued(M, {n})
    <3>1. n \in Nat
      BY <1>1
    <3> DEFINE A == Over(M, n)
               B == Valued(M, {n})
    <3>2. A \subseteq Over(M, c) /\ B \subseteq Over(M, c) /\ A \cap B = {}
      <4>1. \A g \in M : Interest(g) >= n => Interest(g) > c
        BY <1>1, <2>2, <2>3, <3>1
      <4>2. \A g \in M : Interest(g) > n => Interest(g) >= n
        BY <1>1, <3>1
      <4>3. n >= n /\ ~(n > n)
        BY <3>1
      <4> QED BY <4>1, <4>2, <4>3 DEF Over, Valued
    <3>3. IsFiniteSet(A) /\ IsFiniteSet(B) /\ Cardinality(A) \in Nat /\ Cardinality(B) \in Nat
      BY <1>3, <3>2, FS_Subset, FS_CardinalityType
    <3>4. Cardinality(m[n]) = Cardinality(B) /\ OneOf(m[n]) /\ {Graph(p) : p \in m[n]} = B
      BY <1>1, <1>2 DEF Stands
    <3>5. n \in kept <=> Cardinality(A) < k
      BY <1>4
    <3>6. n \in kept => Cut(m[n], f[n], k - Cardinality(A))
      BY <1>5
    <3> HIDE DEF A, B
    <3>7. Cardinality(A \union B) = Cardinality(A) + Cardinality(B)
      <4>1. Cardinality(A \union B) = Cardinality(A) + Cardinality(B) - Cardinality(A \cap B)
        BY <3>3, FS_Union
      <4>2. Cardinality(A \cap B) = 0
        BY <3>2, FS_EmptySet
      <4> QED BY <3>3, <4>1, <4>2
    <3>8. Cardinality(A \union B) <= Cardinality(Over(M, c))
      <4>1. A \union B \subseteq Over(M, c)
        BY <3>2
      <4> QED BY <1>3, <4>1, FS_Subset
    <3>9. Cardinality(Over(M, c)) \in Nat
      BY <1>3
    <3>10. Cardinality(A) < k /\ Cardinality(B) <= k - Cardinality(A)
      BY <2>2, <3>3, <3>7, <3>8, <3>9
    <3>11. f[n] = m[n]
      BY <3>4, <3>5, <3>6, <3>10 DEF Cut
    <3> QED BY <3>4, <3>5, <3>10, <3>11 DEF Gs, B
  <2> DEFINE A == Over(M, c)
             B == Gs(c)
  <2>4. R = A \union B
    <3>1. A \subseteq R
      <4> SUFFICES ASSUME NEW g \in A PROVE g \in R
        OBVIOUS
      <4>1. g \in M /\ Interest(g) > c /\ Interest(g) \in DOMAIN m
        BY <1>1 DEF Over
      <4>2. g \in Gs(Interest(g)) /\ Interest(g) \in kept
        BY <2>3, <4>1 DEF Valued
      <4> QED BY <1>8, <4>2
    <3>2. B \subseteq R
      BY <1>8, <2>1
    <3>3. ASSUME NEW g \in R PROVE g \in A \union B
      <4>1. PICK n \in kept : g \in Gs(n)
        BY <1>8
      <4>2. g \in M /\ Interest(g) = n /\ c <= n /\ n \in Nat
        BY <1>6, <1>9, <2>1, <4>1
      <4>3. n = c \/ n > c
        BY <2>2, <4>2
      <4> QED BY <4>1, <4>2, <4>3 DEF Over
    <3> QED BY <3>1, <3>2, <3>3
  <2>5. A \cap B = {}
    BY <1>9, <2>1, <2>2 DEF Over
  <2>6. IsFiniteSet(A) /\ IsFiniteSet(B) /\ Cardinality(A) \in Nat /\ Cardinality(B) \in Nat
    BY <1>3, <1>7, <2>1
  <2>7. Cardinality(B) = Cardinality(f[c]) /\ Cut(m[c], f[c], k - Cardinality(A)) /\ Cardinality(A) < k
    BY <1>5, <1>7, <2>1, <2>2
  <2>8. \A g \in R, h \in M \ R : Interest(g) >= Interest(h)
    <3> SUFFICES ASSUME NEW g \in R, NEW h \in M \ R PROVE Interest(g) >= Interest(h)
      OBVIOUS
    <3>1. PICK n \in kept : g \in Gs(n)
      BY <1>8
    <3>2. Interest(g) = n /\ c <= n /\ n \in Nat
      BY <1>6, <1>9, <2>1, <3>1
    <3>3. ~(Interest(h) > c) /\ Interest(h) \in Nat
      BY <1>1, <2>4 DEF Over
    <3> QED BY <2>2, <3>2, <3>3
  <2> HIDE DEF A, B
  <2>9. Cardinality(R) = Cardinality(A) + Cardinality(B)
    <3>1. Cardinality(A \union B) = Cardinality(A) + Cardinality(B) - Cardinality(A \cap B)
      BY <2>6, FS_Union
    <3>2. Cardinality(A \cap B) = 0
      BY <2>5, FS_EmptySet
    <3> QED BY <2>4, <2>6, <3>1, <3>2
  <2>10. CASE Cardinality(B) = k - Cardinality(A)
    <3>1. Cardinality(R) = k
      BY <2>6, <2>9, <2>10
    <3> QED BY <1>10, <1>11, <1>12, <2>8, <3>1 DEF TopOf, R
  <2>11. CASE Cardinality(m[c]) <= k - Cardinality(A)
    <3>1. f[c] = m[c] /\ Cardinality(R) <= k
      <4>1. f[c] = m[c]
        BY <2>7, <2>11 DEF Cut
      <4> QED BY <2>6, <2>7, <2>9, <2>11, <4>1
    <3>2. B = Valued(M, {c})
      BY <1>1, <2>2, <3>1 DEF Stands, B, Gs
    <3>3. \A g \in M : Interest(g) >= c => g \in R
      <4> SUFFICES ASSUME NEW g \in M, Interest(g) >= c PROVE g \in R
        OBVIOUS
      <4>1. Interest(g) = c \/ Interest(g) > c
        BY <1>1, <2>2
      <4> QED BY <2>4, <3>2, <4>1 DEF A, Over, Valued
    <3>4. CASE \E u \in DOMAIN m : u < c
      <4> DEFINE Low == {u \in DOMAIN m : u < c}
      <4>1. Low \subseteq Nat /\ IsFiniteSet(Low) /\ Low # {}
        <5>1. Low \subseteq DOMAIN m
          OBVIOUS
        <5> QED BY <1>1, <3>4, <5>1, FS_Subset
      <4>2. PICK u \in Low : \A x \in Low : x <= u
        <5> HIDE DEF Low
        <5> QED BY <4>1, GreatestNumber
      <4>3. u \in DOMAIN m /\ u < c /\ u \in Nat
        BY <4>1, <4>2
      <4>4. Cardinality(Over(M, u)) >= k
        <5>1. u \notin kept
          BY <2>1, <2>2, <4>3
        <5>2. ~(Cardinality(Over(M, u)) < k)
          BY <1>4, <4>3, <5>1
        <5> QED BY <1>3, <5>2
      <4>5. Over(M, u) \subseteq R
        <5> SUFFICES ASSUME NEW g \in M, Interest(g) > u PROVE g \in R
          BY DEF Over
        <5>1. Interest(g) \in DOMAIN m /\ Interest(g) \in Nat
          BY <1>1
        <5>2. ~(Interest(g) < c)
          BY <4>2, <4>3, <5>1
        <5>3. Interest(g) >= c
          BY <2>2, <5>1, <5>2
        <5> QED BY <3>3, <5>3
      <4>6. Cardinality(Over(M, u)) <= Cardinality(R)
        BY <1>10, <4>5, FS_Subset
      <4>7. Cardinality(R) = k
        BY <1>3, <1>12, <3>1, <4>4, <4>6
      <4> QED BY <1>10, <1>11, <1>12, <2>8, <4>7 DEF TopOf, R
    <3>5. CASE ~ \E u \in DOMAIN m : u < c
      <4>1. \A g \in M : Interest(g) >= c
        BY <1>1, <2>2, <3>5
      <4>2. R = M
        BY <1>10, <3>3, <4>1
      <4>3. TopOf(R, M, k)
        BY <1>12, <3>1, <4>2 DEF TopOf
      <4> QED BY <1>11, <4>3 DEF R
    <3> QED BY <3>4, <3>5
  <2>12. Cardinality(B) = k - Cardinality(A) \/ Cardinality(m[c]) <= k - Cardinality(A)
    BY <2>7 DEF Cut
  <2> QED BY <2>10, <2>11, <2>12
<1> QED BY <1>13, <1>14

\* AddTopk (Backward_topk.java): with the best k of the levels so far, and
\* all patterns of the next, it has the best k of them all.
LEMMA AddTopkBest ==
  ASSUME NEW P, IsFiniteSet(P), NEW Y, IsFiniteSet(Y), P \cap Y = {}, \A g \in P \union Y : Interest(g) \in Nat,
         NEW k \in Nat \ {0}, NEW X, NEW sum, Layered(sum, X), TopOf(X, P, k), NEW itrs, Layered(itrs, Y),
         NEW f \in AddTopk(sum, itrs, k)
  PROVE  Layered(f, GraphsOf(f)) /\ TopOf(GraphsOf(f), P \union Y, k)
<1> DEFINE m == MergedOf(sum, itrs, k)
           taken == TakenOf(itrs, k)
           M == X \union Valued(Y, taken)
           R == GraphsOf(f)
<1>1. X \subseteq P /\ IsFiniteSet(X) /\ X \cap Y = {}
  BY FS_Subset DEF TopOf
<1>2. Layered(m, M)
  BY <1>1, MergedIs
<1>3. M \subseteq X \union Y /\ M \subseteq P \union Y /\ X \subseteq M
  BY <1>1 DEF Valued
<1>4. IsFiniteSet(M) /\ IsFiniteSet(X \union Y) /\ IsFiniteSet(P \union Y)
  <2>1. IsFiniteSet(P \union Y) /\ IsFiniteSet(X \union Y)
    BY <1>1, FS_Union
  <2> QED BY <1>3, <2>1, FS_Subset
<1>5. CutsTo(m, f, k)
  BY AddTopkIs
<1> HIDE DEF m
<1>6. Layered(f, R) /\ TopOf(R, M, k)
  <2> HIDE DEF M
  <2> QED BY <1>2, <1>4, <1>5, CutBest
<1>7. \A h : IsFiniteSet(AtLeast(M, h)) /\ Cardinality(AtLeast(M, h)) \in Nat
  <2> HIDE DEF M
  <2> SUFFICES ASSUME NEW h PROVE IsFiniteSet(AtLeast(M, h)) /\ Cardinality(AtLeast(M, h)) \in Nat
    OBVIOUS
  <2>1. AtLeast(M, h) \subseteq M
    BY DEF AtLeast
  <2> QED BY <1>4, <2>1, FS_Subset, FS_CardinalityType
<1>8. ASSUME NEW h \in (P \union Y) \ M
      PROVE  Cardinality(AtLeast(M, h)) >= k
  <2>1. CASE h \in P
    <3>1. h \in P \ X
      BY <1>3, <2>1
    <3>2. X \subseteq AtLeast(M, h)
      BY <1>3, <3>1 DEF TopOf, AtLeast
    <3>3. Cardinality(X) = k
      <4>1. Cardinality(P) \in Nat /\ Cardinality(X) \in Nat /\ Cardinality(X) # Cardinality(P)
        BY <1>1, <3>1, FS_Subset, FS_CardinalityType
      <4> QED BY <4>1 DEF TopOf
    <3>4. Cardinality(X) <= Cardinality(AtLeast(M, h))
      BY <1>7, <3>2, FS_Subset
    <3> HIDE DEF M
    <3> QED BY <1>7, <3>3, <3>4
  <2>2. CASE h \in Y
    <3>1. Interest(h) \in DOMAIN itrs /\ Interest(h) \in Nat /\ DOMAIN itrs \subseteq Nat /\ IsFiniteSet(DOMAIN itrs)
      BY <2>2 DEF Layered
    <3>2. \A n : Above(itrs, n) = Cardinality(Over(Y, n))
      BY LayeredSums
    <3>3. \A n : IsFiniteSet(Over(Y, n)) /\ Cardinality(Over(Y, n)) \in Nat
      <4> SUFFICES ASSUME NEW n PROVE IsFiniteSet(Over(Y, n)) /\ Cardinality(Over(Y, n)) \in Nat
        OBVIOUS
      <4>1. Over(Y, n) \subseteq Y
        BY DEF Over
      <4> QED BY <4>1, FS_Subset, FS_CardinalityType
    <3> DEFINE Left == {n \in DOMAIN itrs : n \notin taken}
    <3>4. Interest(h) \in Left
      BY <2>2, <3>1 DEF Valued
    <3>5. Left \subseteq Nat /\ IsFiniteSet(Left)
      <4>1. Left \subseteq DOMAIN itrs
        OBVIOUS
      <4> QED BY <3>1, <4>1, FS_Subset
    <3>6. PICK u \in Left : \A x \in Left : x <= u
      <4> HIDE DEF Left
      <4> QED BY <3>4, <3>5, GreatestNumber
    <3>7. u \in Nat /\ Interest(h) <= u
      BY <3>4, <3>5, <3>6
    <3>8. Cardinality(Over(Y, u)) >= k
      <4>1. ~(Above(itrs, u) < k)
        BY <3>6 DEF TakenOf
      <4> QED BY <3>2, <3>3, <4>1
    <3>9. Over(Y, u) \subseteq AtLeast(M, h)
      <4> SUFFICES ASSUME NEW g \in Y, Interest(g) > u PROVE g \in AtLeast(M, h)
        BY DEF Over
      <4>1. Interest(g) \in DOMAIN itrs /\ Interest(g) \in Nat
        BY <3>1 DEF Layered
      <4>2. Interest(g) \in taken
        <5> SUFFICES ASSUME Interest(g) \in Left PROVE FALSE
          BY <4>1
        <5>1. Interest(g) <= u
          BY <3>6
        <5> QED BY <3>7, <4>1, <5>1
      <4>3. Interest(g) >= Interest(h)
        BY <3>1, <3>7, <4>1
      <4> QED BY <4>2, <4>3 DEF AtLeast, Valued
    <3>10. Cardinality(Over(Y, u)) <= Cardinality(AtLeast(M, h))
      BY <1>7, <3>9, FS_Subset
    <3> HIDE DEF M
    <3> QED BY <1>7, <3>3, <3>8, <3>10
  <2> QED BY <2>1, <2>2
<1> HIDE DEF M
<1>9. TopOf(R, P \union Y, k)
  BY <1>3, <1>4, <1>6, <1>8, TopWiden
<1> QED BY <1>6, <1>9

-----------------------------------------------------------------------------
(* How interesting a pattern on so many labels can be.                      *)

\* Edges between different nodes, of which any two have at most one.
Loopless(g) == \A e \in g : \E a, b \in e : a # b /\ e = {a, b}
LEMMA EdgeBound ==
  ASSUME NEW g, IsFiniteSet(g), Loopless(g)
  PROVE  2 * Cardinality(g) <= Cardinality(Nodes(g)) * (Cardinality(Nodes(g)) - 1)
<1> DEFINE v(h) == Cardinality(Nodes(h))
           Holds(h) == 2 * Cardinality(h) <= v(h) * (v(h) - 1)
           Bad == {h \in SUBSET g : ~Holds(h)}
           Sizes == {Cardinality(h) : h \in Bad}
<1> SUFFICES ASSUME Bad # {} PROVE FALSE
  OBVIOUS
<1>1. \A h \in SUBSET g : IsFiniteSet(h) /\ Cardinality(h) \in Nat
  BY FS_Subset, FS_CardinalityType
<1>2. Sizes \subseteq Nat /\ Sizes # {}
  <2> HIDE DEF Holds
  <2> QED BY <1>1
<1>3. PICK n \in Sizes : \A m \in Sizes : n <= m
  <2> HIDE DEF Sizes
  <2> QED BY <1>2, LeastNumber
<1>4. PICK h \in Bad : n = Cardinality(h)
  OBVIOUS
<1>5. \A k \in Bad : Cardinality(h) <= Cardinality(k)
  BY <1>3, <1>4
<1> HIDE DEF Sizes
<1>6. h \subseteq g /\ IsFiniteSet(h) /\ Cardinality(h) \in Nat /\ ~Holds(h)
  <2> HIDE DEF Holds
  <2> QED BY <1>1, <1>4
<1>7. Loopless(h) /\ Pairs(h)
  BY <1>6 DEF Loopless, Pairs
<1>8. IsFiniteSet(Nodes(h)) /\ Cardinality(Nodes(h)) \in Nat
  BY <1>6, <1>7, NodesFinite
<1>9. h # {}
  <2> SUFFICES ASSUME h = {} PROVE FALSE
    OBVIOUS
  <2>1. Nodes(h) = {}
    BY NodesOfParts
  <2>2. Cardinality(h) = 0 /\ Cardinality(Nodes(h)) = 0
    BY <2>1, FS_EmptySet
  <2> QED BY <1>6, <2>2
<1>10. PICK e \in h : TRUE
  BY <1>9
<1>11. PICK a, b \in e : a # b /\ e = {a, b}
  BY <1>7, <1>10 DEF Loopless
<1> DEFINE k == {d \in h : a \notin d}
           r == {d \in h : a \in d}
           o == Nodes(h) \ {a}
<1>12. k \union r = h /\ k \cap r = {} /\ k \subseteq g /\ e \in r /\ e \notin k /\ a \in Nodes(h)
  BY <1>6, <1>10, <1>11 DEF Nodes
<1>13. IsFiniteSet(k) /\ IsFiniteSet(r) /\ Cardinality(k) \in Nat /\ Cardinality(r) \in Nat
  <2>1. k \subseteq h /\ r \subseteq h
    OBVIOUS
  <2> HIDE DEF k, r
  <2> QED BY <1>6, <2>1, FS_Subset, FS_CardinalityType
<1>14. Nodes(k) \subseteq o
  BY DEF Nodes
<1>15. IsFiniteSet(o) /\ Cardinality(o) = Cardinality(Nodes(h)) - 1 /\ Cardinality(o) \in Nat
  <2>1. IsFiniteSet(o) /\ Cardinality(o) = Cardinality(Nodes(h)) - 1
    BY <1>8, <1>12, FS_RemoveElement
  <2> QED BY <2>1, FS_CardinalityType
<1>16. Cardinality(r) <= Cardinality(o)
  <2> DEFINE f == [x \in o |-> {a, x}]
             q == {{a, x} : x \in o}
  <2>1. f \in Surjection(o, q)
    BY DEF Surjection
  <2>2. r \subseteq q
    <3> SUFFICES ASSUME NEW d \in h, a \in d PROVE \E x \in o : d = {a, x}
      OBVIOUS
    <3>1. PICK x, y \in d : x # y /\ d = {x, y}
      BY <1>7 DEF Loopless
    <3>2. x \in Nodes(h) /\ y \in Nodes(h)
      BY DEF Nodes
    <3>3. (x = a /\ d = {a, y} /\ y \in o) \/ (y = a /\ d = {a, x} /\ x \in o)
      BY <3>1, <3>2
    <3> QED BY <3>3
  <2> HIDE DEF f, q, o, r
  <2>3. IsFiniteSet(q) /\ Cardinality(q) <= Cardinality(o)
    BY <1>15, <2>1, FS_Surjection
  <2>4. Cardinality(r) <= Cardinality(q) /\ Cardinality(q) \in Nat
    BY <2>2, <2>3, FS_Subset, FS_CardinalityType
  <2> QED BY <1>13, <1>15, <2>3, <2>4
<1> HIDE DEF k, r, o
<1>17. Cardinality(h) = Cardinality(k) + Cardinality(r)
  <2>1. Cardinality(k \union r) = Cardinality(k) + Cardinality(r) - Cardinality(k \cap r)
    BY <1>13, FS_Union
  <2>2. Cardinality(k \cap r) = 0
    BY <1>12, FS_EmptySet
  <2>3. k \union r = h
    BY <1>12
  <2>4. Cardinality(h) = Cardinality(k) + Cardinality(r) - 0
    BY <2>1, <2>2, <2>3
  <2> QED BY <1>13, <2>4
<1>18. Cardinality(k) < Cardinality(h)
  <2>1. k \subseteq h /\ k # h
    BY <1>10, <1>12
  <2>2. Cardinality(k) <= Cardinality(h) /\ Cardinality(k) # Cardinality(h)
    BY <1>6, <2>1, FS_Subset
  <2> QED BY <1>6, <1>13, <2>2
<1>19. Holds(k)
  <2> SUFFICES ASSUME ~Holds(k) PROVE FALSE
    OBVIOUS
  <2>1. k \in Bad
    BY <1>12
  <2> HIDE DEF Bad, Holds
  <2> QED BY <1>5, <1>6, <1>13, <1>18, <2>1
<1>20. Cardinality(Nodes(k)) \in Nat /\ Cardinality(Nodes(k)) <= Cardinality(o)
  BY <1>14, <1>15, FS_Subset, FS_CardinalityType
<1>21. PICK x \in Nat : x = Cardinality(Nodes(k))
  BY <1>20
<1>22. PICK y \in Nat : y = Cardinality(o)
  BY <1>15
<1>23. 2 * Cardinality(k) <= y * (y - 1)
  <2>1. x * (x - 1) <= y * (y - 1)
    <3>1. CASE x = 0
      BY <3>1
    <3>2. CASE x # 0
      <4>1. x - 1 \in Nat /\ y - 1 \in Nat /\ x - 1 <= y - 1 /\ x <= y
        BY <1>20, <1>21, <1>22, <3>2
      <4>2. x * (x - 1) <= y * (x - 1) /\ y * (x - 1) <= y * (y - 1)
        BY <4>1
      <4> QED BY <4>1, <4>2
    <3> QED BY <3>1, <3>2
  <2>2. 2 * Cardinality(k) <= x * (x - 1)
    BY <1>19, <1>21
  <2>3. x * (x - 1) \in Int /\ y * (y - 1) \in Int /\ 2 * Cardinality(k) \in Int
    BY <1>13
  <2> QED BY <2>1, <2>2, <2>3
<1>24. 2 * Cardinality(h) <= y * (y - 1) + 2 * y
  BY <1>13, <1>16, <1>17, <1>22, <1>23
<1>25. Cardinality(Nodes(h)) = y + 1
  BY <1>8, <1>15, <1>22
<1>26. y * (y - 1) + 2 * y = (y + 1) * ((y + 1) - 1)
  OBVIOUS
<1>27. Holds(h)
  BY <1>24, <1>25, <1>26
<1> QED BY <1>6, <1>27

\* Labels and edges of a frequent pattern.
LEMMA SizeIs ==
  ASSUME NEW F, Closed(F), NEW g \in F
  PROVE  /\ Size(g) \in Nat /\ Size(g) >= 2 /\ Interest(g) \in Nat /\ Interest(g) >= 2 * Size(g) - 1
         /\ Cardinality(g) = 1 => Size(g) = 2 /\ Interest(g) = 3
         /\ Cardinality(g) # 1 => /\ Size(g) = Cardinality(Nodes(g)) /\ Interest(g) = Size(g) + Cardinality(g)
                                  /\ Cardinality(g) > 1 /\ Loopless(g)
<1>1. IsPattern(g)
  BY DEF Closed
<1>2. /\ Pairs(g) /\ IsFiniteSet(g) /\ g # {} /\ Connected(g) /\ Cardinality(g) \in Nat \ {0}
      /\ IsFiniteSet(Nodes(g)) /\ Cardinality(Nodes(g)) \in Nat
  BY <1>1, PatternPairs
<1>3. CASE Cardinality(g) = 1
  BY <1>3 DEF Size, Interest
<1>4. CASE Cardinality(g) # 1
  <2>1. Cardinality(g) > 1
    BY <1>2, <1>4
  <2>2. Loopless(g)
    <3> SUFFICES ASSUME NEW e \in g PROVE \E a, b \in e : a # b /\ e = {a, b}
      BY DEF Loopless
    <3>1. PICK a, b \in e : e = {a, b} /\ (a = b => g = {e})
      BY <1>1 DEF IsPattern
    <3>2. a # b
      <4> SUFFICES ASSUME g = {e} PROVE FALSE
        BY <3>1
      <4> QED BY <1>4, FS_Singleton
    <3> QED BY <3>1, <3>2
  <2>3. PICK d \in g : TRUE
    BY <1>2
  <2>4. PICK a, b \in d : a # b /\ d = {a, b}
    BY <2>2, <2>3 DEF Loopless
  <2>5. Cardinality(d) = 2 /\ IsFiniteSet(d)
    BY <2>4, PairSize
  <2>6. Cardinality(Nodes(g)) <= Cardinality(g) + Cardinality(d) - 1
    BY <1>2, NodesBound
  <2>7. Cardinality(Nodes(g)) >= 2
    <3>1. d \subseteq Nodes(g)
      BY DEF Nodes
    <3>2. Cardinality(d) <= Cardinality(Nodes(g))
      BY <1>2, <3>1, FS_Subset
    <3> QED BY <1>2, <2>5, <3>2
  <2>8. Size(g) = Cardinality(Nodes(g)) /\ Interest(g) = Size(g) + Cardinality(g)
    BY <1>4 DEF Size, Interest
  <2> QED BY <1>2, <1>4, <2>1, <2>2, <2>5, <2>6, <2>7, <2>8
<1> QED BY <1>3, <1>4

\* MaxItrs: with fewer labels a pattern is not more interesting.  (For the
\* single edges the bound is too low by one, but every pattern of a larger
\* level has more.)
LEMMA LowerLevels ==
  ASSUME NEW F, Closed(F), NEW g \in F, NEW l \in Nat \ {0}, Size(g) <= l + 1, NEW n \in Nat, n >= MaxItrs(l - 1), n >= 2 * l + 3
  PROVE  n >= Interest(g)
<1>1. CASE Cardinality(g) = 1
  <2>1. Interest(g) = 3
    BY <1>1, SizeIs
  <2> QED BY <2>1
<1>2. CASE Cardinality(g) # 1
  <2>1. IsFiniteSet(g) /\ Cardinality(g) \in Nat /\ Cardinality(Nodes(g)) \in Nat
    BY PatternPairs DEF Closed
  <2>2. PICK s \in Nat : s = Size(g) /\ s >= 2 /\ s <= l + 1
    BY SizeIs
  <2>3. PICK e \in Nat : e = Cardinality(g) /\ e > 1
    BY <1>2, <2>1, SizeIs
  <2>4. Interest(g) = s + e /\ 2 * e <= s * (s - 1)
    <3>1. Loopless(g) /\ Size(g) = Cardinality(Nodes(g)) /\ Interest(g) = Size(g) + Cardinality(g)
      BY <1>2, SizeIs
    <3>2. 2 * Cardinality(g) <= Cardinality(Nodes(g)) * (Cardinality(Nodes(g)) - 1)
      BY <2>1, <3>1, EdgeBound
    <3>3. Cardinality(Nodes(g)) = s
      BY <2>2, <3>1
    <3> QED BY <2>2, <2>3, <3>1, <3>2, <3>3
  <2>5. s * (s - 1) <= (l + 1) * l
    <3>1. s - 1 \in Nat /\ s - 1 <= l
      BY <2>2
    <3>2. s * (s - 1) <= (l + 1) * (s - 1)
      BY <2>2, <3>1
    <3>3. (l + 1) * (s - 1) <= (l + 1) * l
      BY <3>1
    <3>4. s * (s - 1) \in Int /\ (l + 1) * (s - 1) \in Int /\ (l + 1) * l \in Int
      BY <3>1
    <3> QED BY <3>2, <3>3, <3>4
  <2>6. l # 1
    <3> SUFFICES ASSUME l = 1 PROVE FALSE
      OBVIOUS
    <3>1. s = 2
      BY <2>2
    <3>2. 2 * e <= 2
      BY <2>4, <3>1
    <3> QED BY <2>3, <3>2
  <2>7. MaxItrs(l - 1) = 2 * l + l * (l - 1)
    <3>1. (l - 1) + 1 = l
      OBVIOUS
    <3> QED BY <3>1 DEF MaxItrs
  <2>8. 2 * (l + 1) + (l + 1) * l <= 2 * (2 * l + l * (l - 1))
    <3>1. PICK m \in Nat : l = m + 2
      <4>1. l - 2 \in Nat /\ l = (l - 2) + 2
        BY <2>6
      <4> QED BY <4>1
    <3>2. 2 * (l + 1) + (l + 1) * l = m * m + 7 * m + 12
      BY <3>1
    <3>3. 2 * (2 * l + l * (l - 1)) = 2 * (m * m) + 10 * m + 12
      BY <3>1
    <3>4. m * m \in Nat
      OBVIOUS
    <3> QED BY <3>2, <3>3, <3>4
  <2>9. 2 * (s + e) <= 2 * (2 * l + l * (l - 1))
    <3>1. PICK x \in Int : x = (l + 1) * l
      OBVIOUS
    <3>2. PICK y \in Int : y = 2 * (2 * l + l * (l - 1))
      OBVIOUS
    <3>3. PICK z \in Int : z = s * (s - 1)
      OBVIOUS
    <3>4. 2 * e <= z /\ z <= x /\ 2 * (l + 1) + x <= y
      BY <2>4, <2>5, <2>8, <3>1, <3>2, <3>3
    <3>5. 2 * (s + e) <= y
      BY <2>2, <3>4
    <3> QED BY <3>2, <3>5
  <2>10. PICK y \in Int : y = 2 * l + l * (l - 1)
    OBVIOUS
  <2> QED BY <2>4, <2>7, <2>9, <2>10
<1> QED BY <1>1, <1>2

\* Without a pattern of one more edge there is none of many more.
LEMMA NoGap ==
  ASSUME NEW F, Closed(F), NEW l \in Nat, NEW b \in Nat, b >= 2 * l - 1, l >= 2,
         {g \in F : Size(g) = l /\ Interest(g) = b + 1} = {}, NEW g \in F, Size(g) = l
  PROVE  Interest(g) <= b
<1> DEFINE Bad == {h \in F : Size(h) = l /\ Interest(h) > b}
           Values == {Interest(h) : h \in Bad}
<1> SUFFICES ASSUME Bad # {} PROVE FALSE
  BY SizeIs
<1>1. Values \subseteq Nat /\ Values # {}
  BY SizeIs
<1>2. PICK n \in Values : \A m \in Values : n <= m
  <2> HIDE DEF Values
  <2> QED BY <1>1, LeastNumber
<1>3. PICK h \in Bad : n = Interest(h)
  OBVIOUS
<1>4. \A k \in Bad : Interest(h) <= Interest(k)
  BY <1>2, <1>3
<1>5. h \in F /\ Size(h) = l /\ Interest(h) > b /\ Interest(h) # b + 1 /\ Interest(h) \in Nat
  BY <1>3, SizeIs
<1> HIDE DEF Values
<1>6. Cardinality(h) # 1
  <2> SUFFICES ASSUME Cardinality(h) = 1 PROVE FALSE
    OBVIOUS
  <2>1. Interest(h) = 3
    BY <1>5, SizeIs
  <2> QED BY <1>5, <2>1
<1>7. /\ Cardinality(Nodes(h)) = l /\ Interest(h) = l + Cardinality(h) /\ Cardinality(h) > 1
  BY <1>5, <1>6, SizeIs
<1>8. IsPattern(h)
  BY <1>5 DEF Closed
<1>9. IsFiniteSet(h) /\ Cardinality(h) \in Nat
  BY <1>8, PatternPairs
<1>10. Cardinality(h) >= l + 1
  BY <1>5, <1>7, <1>9
<1>11. PICK e \in h : Connected(h \ {e}) /\ Nodes(h \ {e}) = Nodes(h)
  BY <1>7, <1>8, <1>9, <1>10, Spare
<1>12. IsFiniteSet(h \ {e}) /\ Cardinality(h \ {e}) = Cardinality(h) - 1
  BY <1>9, <1>11, FS_RemoveElement
<1> DEFINE k == h \ {e}
<1>13. k \subseteq h /\ Connected(k) /\ Nodes(k) = Nodes(h) /\ Cardinality(k) = Cardinality(h) - 1 /\ IsFiniteSet(k)
  BY <1>11, <1>12
<1> HIDE DEF k
<1>14. k # {}
  <2> SUFFICES ASSUME k = {} PROVE FALSE
    OBVIOUS
  <2>1. Cardinality(k) = 0
    BY FS_EmptySet
  <2> QED BY <1>9, <1>10, <1>13, <2>1
<1>15. k \in F
  BY <1>5, <1>13, <1>14, PartsFrequent
<1>16. Cardinality(k) # 1
  BY <1>9, <1>10, <1>13
<1>17. Size(k) = l /\ Interest(k) = l + Cardinality(k)
  BY <1>7, <1>13, <1>15, <1>16, SizeIs
<1>18. Interest(k) = Interest(h) - 1
  BY <1>7, <1>9, <1>13, <1>17
<1>19. k \in Bad
  BY <1>5, <1>15, <1>17, <1>18
<1> QED BY <1>4, <1>5, <1>18, <1>19

\* Without a tree of one more edge there is no pattern on more labels.
LEMMA NoLarger ==
  ASSUME NEW F, Closed(F), NEW n \in Nat \ {0}, TreesIn(F, n + 1) = {}, NEW g \in F
  PROVE  Size(g) <= n + 1
<1> DEFINE Bad == {h \in F : Size(h) > n + 1}
           Sizes == {Cardinality(h) : h \in Bad}
<1> SUFFICES ASSUME Bad # {} PROVE FALSE
  BY SizeIs
<1>1. \A h \in Bad : IsPattern(h) /\ IsFiniteSet(h) /\ Cardinality(h) \in Nat
  BY PatternPairs DEF Closed
<1>2. Sizes \subseteq Nat /\ Sizes # {}
  BY <1>1
<1>3. PICK m \in Sizes : \A x \in Sizes : m <= x
  <2> HIDE DEF Sizes
  <2> QED BY <1>2, LeastNumber
<1>4. PICK h \in Bad : m = Cardinality(h)
  OBVIOUS
<1>5. \A k \in Bad : Cardinality(h) <= Cardinality(k)
  BY <1>3, <1>4
<1> HIDE DEF Sizes
<1>6. h \in F /\ Size(h) > n + 1 /\ IsPattern(h) /\ IsFiniteSet(h) /\ Cardinality(h) \in Nat
  BY <1>1, <1>4
<1>7. Cardinality(h) # 1
  <2> SUFFICES ASSUME Cardinality(h) = 1 PROVE FALSE
    OBVIOUS
  <2>1. Size(h) = 2
    BY <1>6, SizeIs
  <2> QED BY <1>6, <2>1
<1>8. Cardinality(Nodes(h)) = Size(h) /\ Cardinality(h) > 1 /\ Size(h) \in Nat /\ Interest(h) = Size(h) + Cardinality(h)
      /\ Interest(h) >= 2 * Size(h) - 1
  BY <1>6, <1>7, SizeIs
<1>9. Cardinality(h) >= Size(h) - 1
  BY <1>6, <1>8
<1>10. ASSUME NEW k \in F, Cardinality(k) < Cardinality(h), Cardinality(k) # 1, Cardinality(Nodes(k)) > n + 1 PROVE FALSE
  <2>1. Size(k) > n + 1
    BY <1>10, SizeIs
  <2>2. k \in Bad
    BY <2>1
  <2>3. Cardinality(h) <= Cardinality(k) /\ Cardinality(k) \in Nat
    BY <1>1, <1>5, <2>2
  <2> QED BY <1>6, <1>10, <2>3
<1> HIDE DEF Bad
<1>11. CASE Cardinality(h) >= Size(h)
  <2>1. PICK e \in h : Connected(h \ {e}) /\ Nodes(h \ {e}) = Nodes(h)
    BY <1>6, <1>8, <1>11, Spare
  <2>2. IsFiniteSet(h \ {e}) /\ Cardinality(h \ {e}) = Cardinality(h) - 1
    BY <1>6, <2>1, FS_RemoveElement
  <2> DEFINE k == h \ {e}
  <2>3. k \subseteq h /\ Connected(k) /\ Nodes(k) = Nodes(h) /\ Cardinality(k) = Cardinality(h) - 1
    BY <2>1, <2>2
  <2> HIDE DEF k
  <2>4. Cardinality(k) > 1 /\ Cardinality(k) # 0
    BY <1>6, <1>8, <1>11, <2>3
  <2>5. k # {}
    BY <2>4, FS_EmptySet
  <2>6. k \in F
    BY <1>6, <2>3, <2>5, PartsFrequent
  <2> QED BY <1>6, <1>8, <1>10, <2>3, <2>4, <2>6
<1>12. CASE Cardinality(h) = Size(h) - 1
  <2>1. CASE Cardinality(h) = n + 1
    <3>1. Cardinality(Nodes(h)) = (n + 1) + 1
      BY <1>8, <1>12, <2>1
    <3>2. h \in TreesIn(F, n + 1)
      BY <1>6, <2>1, <3>1 DEF TreesIn
    <3> QED BY <3>2
  <2>2. CASE Cardinality(h) # n + 1
    <3> DEFINE t == Cardinality(h) - 1
    <3>1. t \in Nat \ {0} /\ Cardinality(h) = t + 1 /\ Cardinality(Nodes(h)) = t + 2 /\ t > n /\ t > 1
      <4>1. PICK x \in Nat : x = Cardinality(h)
        BY <1>6
      <4>2. Size(h) = x + 1 /\ x + 1 > n + 1 /\ x > 1 /\ x # n + 1
        BY <1>6, <1>8, <1>12, <2>2, <4>1
      <4>3. x - 1 \in Nat \ {0} /\ x = (x - 1) + 1 /\ x + 1 = (x - 1) + 2 /\ x - 1 > n
        BY <4>1, <4>2
      <4>4. x - 1 > 1
        BY <4>1, <4>2, <4>3
      <4> QED BY <1>8, <4>1, <4>2, <4>3, <4>4
    <3> HIDE DEF t
    <3>2. PICK k, a, b : LeavesTree(h, k, t, a, b)
      BY <1>6, <3>1, Leaf
    <3>3. k \subseteq h /\ k # {} /\ Connected(k) /\ Cardinality(k) = t /\ Cardinality(Nodes(k)) = t + 1
      BY <3>2 DEF LeavesTree
    <3>4. k \in F
      BY <1>6, <3>3, PartsFrequent
    <3> QED BY <1>10, <3>1, <3>3, <3>4
  <2> QED BY <2>1, <2>2
<1> QED BY <1>6, <1>8, <1>9, <1>11, <1>12

-----------------------------------------------------------------------------
(* No graph is found twice.                                                 *)

LEMMA CountedOnce ==
  ASSUME NEW cs, Apart(cs), NEW F
  PROVE  OneOf(FrequentOf(cs, F))
<1> SUFFICES ASSUME NEW p \in FrequentOf(cs, F), NEW q \in FrequentOf(cs, F), Graph(p) = Graph(q)
             PROVE  p = q
  BY DEF OneOf
<1>1. PICK c \in cs : p = c.pat
  BY DEF FrequentOf
<1>2. PICK d \in cs : q = d.pat
  BY DEF FrequentOf
<1>3. c = d
  BY <1>1, <1>2 DEF Apart
<1> QED BY <1>1, <1>2, <1>3

LEMMA FrequentOnce ==
  ASSUME SInv, EdgesKnown, Answered, mphase \in {"mni", "back_mni"}
  PROVE  \A fs \in Counted : OneOf(fs)
<1>1. Apart(candidate_patterns)
  <2>1. MasterInv
    BY DEF SInv, MasterInv
  <2>2. CASE mphase = "mni"
    <3>1. mphase \in Forward
      BY <2>2 DEF Forward
    <3> QED BY <2>1, <3>1, ForwardNow
  <2>3. CASE mphase = "back_mni"
    <3>1. mphase \in LayerPhases
      BY <2>3 DEF LayerPhases
    <3> QED BY <2>1, <3>1, BackwardNow
  <2> QED BY <2>2, <2>3
<1>2. OneOf(FrequentOf(candidate_patterns, world.frequent))
  BY <1>1, CountedOnce
<1>3. \A fs \in Counted : fs \subseteq FrequentOf(candidate_patterns, world.frequent)
  BY CountedIs
<1> QED BY <1>2, <1>3 DEF OneOf

LEMMA EdgesOnce ==
  ASSUME NEW gs
  PROVE  OneOf({[fwd |-> g, bwd |-> {}] : g \in gs})
BY DEF OneOf, Graph

LEMMA LevelOnce ==
  ASSUME NEW l, NEW tr, OpenLevel(l, tr), OneOf(tr[l + 1])
  PROVE  \A n \in DOMAIN ItrsOfP' : OneOf(ItrsOfP'[n])
<1>1. ItrsOfP' = [n \in {backlevel'} |-> tr[l + 1]]
  BY DEF OpenLevel
<1> QED BY <1>1

LEMMA LoopOnce ==
  ASSUME UniqueInv, NEW pm, NEW tr, IsLevels(tr), Len(tr) > 0, \A n \in 1 .. Len(tr) : OneOf(tr[n]), MasterLoop(pm, tr)
  PROVE  \A n \in DOMAIN ItrsOfP' : OneOf(ItrsOfP'[n])
<1>1. CASE pm # {}
  <2>1. ItrsOfP' = ItrsOfP
    BY <1>1 DEF MasterLoop
  <2> QED BY <2>1 DEF UniqueInv
<1>2. CASE pm = {}
  <2>1. OpenLevel(Len(tr) - 1, tr)
    BY <1>2 DEF MasterLoop
  <2>2. Len(tr) \in Nat
    BY DEF IsLevels
  <2>3. (Len(tr) - 1) + 1 \in 1 .. Len(tr)
    BY <2>2
  <2> QED BY <2>1, <2>3, LevelOnce
<1> QED BY <1>1, <1>2

LEMMA UniqueStep ==
  ASSUME SInv, EdgesKnown, UniqueInv, Master
  PROVE  UniqueInv'
<1>1. CASE UNCHANGED <<patternMap, T, ItrsOfP>>
  BY <1>1 DEF UniqueInv
<1>2. CASE MasterEdges
  <2> DEFINE level == {[fwd |-> g, bwd |-> {}] : g \in Answer \cap world.frequent}
  <2>1. patternMap' = level /\ T' = <<level>> /\ ItrsOfP' = ItrsOfP
    BY <1>2 DEF MasterEdges, topk
  <2>2. OneOf(level)
    BY EdgesOnce
  <2> HIDE DEF level
  <2>3. Len(T') = 1 /\ T'[1] = level
    BY <2>1, OneLevel
  <2>4. \A n \in 1 .. Len(T') : n = 1
    BY <2>3
  <2> QED BY <2>1, <2>2, <2>3, <2>4 DEF UniqueInv
<1>3. CASE MasterReady
  <2>1. mphase # "edges" /\ MasterLoop(patternMap, T) /\ T' = T /\ patternMap' = patternMap
    BY <1>3 DEF MasterReady
  <2>2. IsLevels(T) /\ Len(T) > 0
    BY <2>1 DEF SInv, TreeInv
  <2>3. \A n \in DOMAIN ItrsOfP' : OneOf(ItrsOfP'[n])
    BY <2>1, <2>2, LoopOnce DEF UniqueInv
  <2> QED BY <2>1, <2>3 DEF UniqueInv
<1>4. CASE MasterForwards
  <2>1. UNCHANGED <<patternMap, T, ItrsOfP>>
    BY <1>4 DEF MasterForwards, Dies, tree, topk
  <2> QED BY <1>1, <2>1
<1>5. CASE MasterCounts
  <2>1. mphase \in {"mni", "back_mni"} /\ Answered
    BY <1>5 DEF MasterCounts
  <2>2. \A fs \in Counted : OneOf(fs)
    BY <2>1, FrequentOnce
  <2>3. T' = T /\ ItrsOfP' = ItrsOfP /\ (patternMap' \in Counted \/ patternMap' = patternMap)
    BY <1>5 DEF MasterCounts, Dies, tree, topk
  <2> QED BY <2>2, <2>3 DEF UniqueInv
<1>6. CASE MasterGrows
  <2>1. /\ mphase # "edges" /\ patternMap' = patternMap /\ MasterLoop(patternMap, T')
        /\ T' = (IF patternMap # {} THEN Append(T, patternMap) ELSE T)
    BY <1>6 DEF MasterGrows
  <2>2. IsLevels(T) /\ Len(T) > 0 /\ Len(T) \in Nat
    BY <2>1 DEF SInv, TreeInv, IsLevels
  <2>3. IsLevels(T') /\ Len(T') > 0 /\ \A n \in 1 .. Len(T') : OneOf(T'[n])
    <3>1. CASE patternMap = {}
      BY <2>1, <2>2, <3>1 DEF UniqueInv
    <3>2. CASE patternMap # {}
      <4>1. /\ IsLevels(T') /\ Len(T') = Len(T) + 1 /\ T'[Len(T) + 1] = patternMap
            /\ \A k \in 1 .. Len(T) : T'[k] = T[k]
        BY <2>1, <2>2, <3>2, MoreLevels
      <4>2. \A k \in 1 .. Len(T') : k \in 1 .. Len(T) \/ k = Len(T) + 1
        BY <2>2, <4>1
      <4>3. \A k \in 1 .. Len(T') : OneOf(T'[k])
        BY <4>1, <4>2 DEF UniqueInv
      <4> QED BY <2>2, <4>1, <4>3
    <3> QED BY <3>1, <3>2
  <2>4. \A n \in DOMAIN ItrsOfP' : OneOf(ItrsOfP'[n])
    BY <2>1, <2>3, LoopOnce
  <2> QED BY <2>1, <2>3, <2>4 DEF UniqueInv
<1>7. CASE MasterDeepens
  <2> DEFINE b == backlevel + 1
  <2>1. /\ T' = T /\ patternMap' = patternMap
        /\ ItrsOfP' = [n \in DOMAIN ItrsOfP \union {b} |-> IF n = b THEN patternMap ELSE ItrsOfP[n]]
    BY <1>7 DEF MasterDeepens
  <2> HIDE DEF b
  <2>2. \A n \in DOMAIN ItrsOfP' : OneOf(ItrsOfP'[n])
    BY <2>1 DEF UniqueInv
  <2> QED BY <2>1, <2>2 DEF UniqueInv
<1>8. CASE MasterClosesLevel
  <2>1. mphase = "back_got" /\ T' = T /\ patternMap' = patternMap
        /\ (ItrsOfP' = ItrsOfP \/ (j # 0 /\ OpenLevel(j - 1, T)))
    BY <1>8 DEF MasterClosesLevel
  <2>2. mphase \in Backward
    BY <2>1 DEF Backward
  <2>3. j \in Nat /\ j + 1 \in 1 .. Len(T) /\ Len(T) \in Nat
    BY <2>2, LevelNow DEF SInv, MasterInv
  <2>4. CASE j # 0 /\ OpenLevel(j - 1, T)
    <3>1. (j - 1) + 1 \in 1 .. Len(T)
      BY <2>3, <2>4
    <3>2. \A n \in DOMAIN ItrsOfP' : OneOf(ItrsOfP'[n])
      BY <2>4, <3>1, LevelOnce DEF UniqueInv
    <3> QED BY <2>1, <3>2 DEF UniqueInv
  <2> QED BY <1>1, <2>1, <2>4
<1> QED BY <1>2, <1>3, <1>4, <1>5, <1>6, <1>7, <1>8 DEF Master
-----------------------------------------------------------------------------
(* The best K.                                                              *)

LEMMA FrequentFinite ==
  ASSUME SInv, EdgesKnown
  PROVE  IsFiniteSet(world.frequent) /\ Closed(world.frequent) /\ K \in Nat \ {0}
BY WorldFacts, WorldAssumption DEF SInv, WorldAssumption

LEMMA TopKeeps ==
  ASSUME TopInv, UNCHANGED <<world, j, SumItrsOfP>>, mphase' = mphase \/ (mphase # "done" /\ mphase' # "done"),
         mphase \in Backward <=> mphase' \in Backward
  PROVE  TopInv'
<1>1. Passed' = Passed /\ Result' = Result /\ SumItrsOfP' = SumItrsOfP
  BY DEF Passed, Result
<1>2. SafeOf(Passed)' = SafeOf(Passed)
  BY <1>1 DEF SafeOf, Safe
<1> QED BY <1>1, <1>2 DEF TopInv

LEMMA TopEmpty == \A k \in Nat \ {0} : Layered(<<>>, {}) /\ TopOf({}, {}, k)
<1>1. DOMAIN <<>> = {}
  OBVIOUS
<1>2. IsFiniteSet({}) /\ Cardinality({}) = 0
  BY FS_EmptySet
<1> QED BY <1>1, <1>2 DEF Layered, TopOf

\* Before the first level of the loop nothing safe has been passed: no such
\* pattern is on more labels than the largest trees.
LEMMA TopEnters ==
  ASSUME SInv, EdgesKnown, TopInv, mphase \notin Backward, mphase' \in Backward \ {"done"},
         mphase # "edges", SafeOf(Trees(Len(T) + 1)) = {}, j' = Len(T) - 1, UNCHANGED <<world, SumItrsOfP>>
  PROVE  TopInv'
<1> DEFINE F == SafeNow
<1>1. Closed(F) /\ K \in Nat \ {0}
  BY FrequentFinite, SafePart DEF SInv, Part
<1>2. Len(T) \in Nat \ {0}
  BY DEF SInv, TreeInv, IsLevels
<1>3. TreesIn(F, Len(T) + 1) = {}
  BY TreesAre
<1>4. ASSUME NEW g \in F
      PROVE  ~(Size(g) > j' + 2)
  <2>1. Size(g) \in Nat
    BY <1>1, SizeIs
  <2>2. Size(g) <= Len(T) + 1
    BY <1>1, <1>2, <1>3, NoLarger
  <2> QED BY <1>2, <2>1, <2>2
<1>5. SafeOf(Passed)' = {}
  <2>1. SafeOf(Passed)' \subseteq {g \in F : Size(g) > j' + 2}
    BY DEF Passed, SafeOf, Safe, SafeNow
  <2> QED BY <1>4, <2>1
<1>6. SumItrsOfP' = <<>>
  BY DEF TopInv
<1>7. Result' = {}
  BY <1>6 DEF Result
<1>8. Layered(SumItrsOfP', Result') /\ TopOf(Result', {}, K)
  BY <1>1, <1>6, <1>7, TopEmpty
<1> QED BY <1>5, <1>8 DEF TopInv

\* When a level is left, its layers have patterns of the level, among them
\* all the safe ones.
LEMMA LevelLayered ==
  ASSUME SInv, EdgesKnown, UniqueInv, mphase = "back_got", patternMap = {}
  PROVE  LET Y == {g \in world.frequent : Size(g) = j + 2}
             found == GraphsOf(ItrsOfP)
         IN found \subseteq Y /\ SafeOf(Y) \subseteq found /\ Layered(ItrsOfP, found)
<1> DEFINE F == SafeNow
           Y == {g \in world.frequent : Size(g) = j + 2}
           found == GraphsOf(ItrsOfP)
<1>1. mphase \in Backward
  BY DEF Backward
<1>2. /\ j \in Nat /\ backlevel \in Nat /\ backlevel >= 2 * j + 3 /\ DOMAIN ItrsOfP = 2 * j + 3 .. backlevel
      /\ Closed(F)
  BY <1>1, LevelNow, SafePart DEF SInv, MasterInv, Part
<1>3. IsFiniteSet(DOMAIN ItrsOfP) /\ DOMAIN ItrsOfP \subseteq Nat
  <2>1. IsFiniteSet(2 * j + 3 .. backlevel)
    BY <1>2, FS_Interval
  <2> QED BY <1>2, <2>1
<1>4. \A n \in DOMAIN ItrsOfP : /\ \A p \in ItrsOfP[n] : Graph(p) \in Y /\ Interest(Graph(p)) = n
                               /\ \A g \in SafeOf(Y) : Interest(g) = n => \E p \in ItrsOfP[n] : Graph(p) = g
  <2> SUFFICES ASSUME NEW n \in DOMAIN ItrsOfP
               PROVE  /\ \A p \in ItrsOfP[n] : Graph(p) \in Y /\ Interest(Graph(p)) = n
                      /\ \A g \in SafeOf(Y) : Interest(g) = n => \E p \in ItrsOfP[n] : Graph(p) = g
    OBVIOUS
  <2>1. SafeOf(Layer(n)) \subseteq Graphs(ItrsOfP[n]) /\ Graphs(ItrsOfP[n]) \subseteq Layer(n)
    BY <1>1 DEF SInv, LayerInv, Finds
  <2>2. \A p \in ItrsOfP[n] : Graph(p) \in Layer(n)
    BY <2>1 DEF Graphs
  <2>3. \A g \in SafeOf(Y) : Interest(g) = n => g \in SafeOf(Layer(n))
    BY DEF SafeOf, Layer
  <2>4. \A g \in Graphs(ItrsOfP[n]) : \E p \in ItrsOfP[n] : Graph(p) = g
    BY DEF Graphs
  <2>5. \A g \in Layer(n) : g \in Y /\ Interest(g) = n
    BY DEF Layer
  <2> HIDE DEF Y
  <2> QED BY <2>1, <2>2, <2>3, <2>4, <2>5
<1>5. SafeOf(Layer(backlevel + 1)) = {}
  BY DEF SInv, LayerInv, Finds, Graphs
<1>6. {g \in F : Size(g) = j + 2 /\ Interest(g) = backlevel + 1} = {}
  BY <1>5 DEF Layer, SafeOf, SafeNow
<1>7. ASSUME NEW g \in SafeOf(Y)
      PROVE  Interest(g) \in DOMAIN ItrsOfP
  <2> DEFINE l == j + 2
  <2>1. l \in Nat /\ l >= 2 /\ backlevel >= 2 * l - 1 /\ g \in F /\ Size(g) = l
    BY <1>2 DEF SafeOf, SafeNow
  <2>2. {h \in F : Size(h) = l /\ Interest(h) = backlevel + 1} = {}
    BY <1>6
  <2>3. Interest(g) \in Nat /\ Interest(g) >= 2 * l - 1
    BY <1>2, <2>1, SizeIs
  <2> HIDE DEF l, F
  <2>4. Interest(g) <= backlevel
    BY <1>2, <2>1, <2>2, NoGap
  <2>5. 2 * l - 1 = 2 * j + 3
    BY <1>2 DEF l
  <2> QED BY <1>2, <2>3, <2>4, <2>5
<1> HIDE DEF Y
<1>8. \A g : g \in found <=> \E n \in DOMAIN ItrsOfP : \E p \in ItrsOfP[n] : Graph(p) = g
  BY DEF GraphsOf
<1> HIDE DEF found
<1>9. found \subseteq Y
  BY <1>4, <1>8
<1>10. SafeOf(Y) \subseteq found
  BY <1>4, <1>7, <1>8
<1>11. \A n \in DOMAIN ItrsOfP : {Graph(p) : p \in ItrsOfP[n]} = {g \in found : Interest(g) = n}
  BY <1>4, <1>8
<1>12. \A g \in found : Interest(g) \in DOMAIN ItrsOfP
  BY <1>4, <1>8
<1>13. Layered(ItrsOfP, found)
  BY <1>3, <1>11, <1>12 DEF Layered, UniqueInv
<1> QED BY <1>9, <1>10, <1>13 DEF Y, found

\* The early stop loses none: the patterns of the lower levels are at most as
\* interesting as the K that are there.
LEMMA StopIsRight ==
  ASSUME NEW F, IsFiniteSet(F), Closed(F), K \in Nat \ {0}, NEW l \in Nat \ {0}, NEW Q, Q \subseteq {g \in F : Size(g) >= l + 2},
         NEW R, TopOf(R, Q, K), NEW f, Layered(f, R), StopsEarly(f, l)
  PROVE  TopOf(R, Q \union {g \in F : Size(g) < l + 2}, K)
<1> DEFINE all == Q \union {g \in F : Size(g) < l + 2}
<1>1. R \subseteq Q /\ Q \subseteq F /\ IsFiniteSet(R) /\ IsFiniteSet(Q) /\ Q \subseteq all /\ all \subseteq F /\ IsFiniteSet(all)
  <2>1. R \subseteq Q /\ Q \subseteq F /\ Q \subseteq all /\ all \subseteq F
    BY DEF TopOf
  <2> HIDE DEF all
  <2> QED BY <2>1, FS_Subset
<1>2. \A g \in F : Interest(g) \in Nat /\ Size(g) \in Nat
  BY SizeIs
<1>3. Cardinality(R) \in Nat /\ Cardinality(R) >= K
  <2>1. NumofItrsOfP(f) = Cardinality(R)
    BY <1>1, LayeredSums
  <2>2. Cardinality(R) \in Nat
    BY <1>1, FS_CardinalityType
  <2> QED BY <2>1, <2>2 DEF StopsEarly
<1>4. DOMAIN f # {} /\ DOMAIN f \subseteq Nat
  <2>1. Cardinality(R) # 0
    BY <1>3
  <2>2. R # {}
    BY <2>1, FS_EmptySet
  <2> QED BY <2>2 DEF Layered
<1>5. \A m \in DOMAIN f : IntrsOfK(f) <= m /\ IntrsOfK(f) \in Nat
  <2> DEFINE Least(n) == n \in DOMAIN f /\ \A m \in DOMAIN f : n <= m
  <2>1. \E n : Least(n)
    BY <1>4, LeastNumber
  <2>2. IntrsOfK(f) = CHOOSE n : Least(n)
    BY DEF IntrsOfK
  <2>3. Least(IntrsOfK(f))
    <3> HIDE DEF Least
    <3> QED BY <2>1, <2>2
  <2> QED BY <1>4, <2>3
<1>6. ASSUME NEW h \in all \ Q
      PROVE  Cardinality(AtLeast(Q, h)) >= K
  <2>1. h \in F /\ Size(h) <= l + 1
    BY <1>2
  <2>2. ASSUME NEW g \in R
        PROVE  Interest(g) >= Interest(h)
    <3>1. g \in F /\ Size(g) >= l + 2
      BY <1>1
    <3>2. Interest(g) \in Nat /\ Interest(g) >= 2 * Size(g) - 1 /\ Size(g) \in Nat
      BY <3>1, SizeIs
    <3>3. Interest(g) >= 2 * l + 3
      BY <3>1, <3>2
    <3>4. Interest(g) \in DOMAIN f
      BY DEF Layered
    <3>5. MaxItrs(l - 1) \in Nat
      <4>1. MaxItrs(l - 1) = 2 * l + l * (l - 1)
        BY DEF MaxItrs
      <4>2. l - 1 \in Nat
        OBVIOUS
      <4>3. \A a, b \in Nat : a * b \in Nat
        OBVIOUS
      <4> QED BY <4>1, <4>2, <4>3
    <3>6. IntrsOfK(f) >= MaxItrs(l - 1)
      BY DEF StopsEarly
    <3>7. Interest(g) >= MaxItrs(l - 1)
      BY <1>5, <3>2, <3>4, <3>5, <3>6
    <3> QED BY <2>1, <3>2, <3>3, <3>7, LowerLevels
  <2>3. R \subseteq AtLeast(Q, h)
    BY <1>1, <2>2 DEF AtLeast
  <2>4. IsFiniteSet(AtLeast(Q, h))
    <3>1. AtLeast(Q, h) \subseteq Q
      BY DEF AtLeast
    <3> QED BY <1>1, <3>1, FS_Subset
  <2>5. Cardinality(R) <= Cardinality(AtLeast(Q, h)) /\ Cardinality(AtLeast(Q, h)) \in Nat
    BY <2>3, <2>4, FS_Subset, FS_CardinalityType
  <2> QED BY <1>3, <2>5
<1>7. \A g \in all : Interest(g) \in Nat
  BY <1>1, <1>2
<1> HIDE DEF all
<1>8. TopOf(R, all, K)
  BY <1>1, <1>6, <1>7, TopWiden
<1> QED BY <1>8 DEF all

LEMMA TopCloses ==
  ASSUME SInv, EdgesKnown, UniqueInv, TopInv, MasterClosesLevel, world' = world
  PROVE  TopInv'
<1> DEFINE F == world.frequent
           Y == {g \in F : Size(g) = j + 2}
           Q == {g \in F : Size(g) >= j + 2}
           sum == SumItrsOfP'
           R == GraphsOf(sum)
           new == GraphsOf(ItrsOfP)
<1>1. /\ mphase = "back_got" /\ patternMap = {} /\ sum \in AddTopk(SumItrsOfP, ItrsOfP, K)
      /\ \/ (j = 0 \/ StopsEarly(sum, j)) /\ mphase' = "done"
         \/ j # 0 /\ OpenLevel(j - 1, T)
  BY DEF MasterClosesLevel
<1>2. mphase \in Backward /\ mphase # "done"
  BY <1>1 DEF Backward
<1>3. IsFiniteSet(F) /\ Closed(F) /\ K \in Nat \ {0} /\ j \in Nat
  BY <1>2, FrequentFinite, LevelNow DEF SInv, MasterInv
<1>4. \A g \in F : Interest(g) \in Nat /\ Size(g) \in Nat /\ Size(g) >= 2
  BY <1>3, SizeIs
<1>5. IsFiniteSet(Passed) /\ IsFiniteSet(Y) /\ Passed \cap Y = {} /\ Passed \union Y = Q
  <2>1. Passed = {g \in F : Size(g) > j + 2}
    BY <1>2 DEF Passed
  <2>2. Passed \subseteq F /\ Y \subseteq F
    BY <2>1
  <2>3. \A g \in F : (Size(g) > j + 2 \/ Size(g) = j + 2) <=> Size(g) >= j + 2
    BY <1>3, <1>4
  <2>4. \A g \in F : ~(Size(g) > j + 2 /\ Size(g) = j + 2)
    BY <1>3, <1>4
  <2>5. IsFiniteSet(Passed) /\ IsFiniteSet(Y)
    BY <1>3, <2>2, FS_Subset
  <2> QED BY <2>1, <2>3, <2>4, <2>5
<1>6. new \subseteq Y /\ SafeOf(Y) \subseteq new /\ Layered(ItrsOfP, new)
  BY <1>1, LevelLayered
<1>7. PICK before \in SUBSET Passed : /\ Layered(SumItrsOfP, Result) /\ SafeOf(Passed) \subseteq before
                                      /\ TopOf(Result, before, K)
  BY <1>2 DEF TopInv
<1> DEFINE found == before \union new
<1>8. Layered(sum, R) /\ TopOf(R, found, K)
  <2>1. IsFiniteSet(before) /\ IsFiniteSet(new) /\ before \cap new = {}
    <3> HIDE DEF new, Y
    <3> QED BY <1>5, <1>6, <1>7, FS_Subset
  <2>2. \A g \in before \union new : Interest(g) \in Nat
    <3>1. before \union new \subseteq F
      BY <1>5, <1>6, <1>7
    <3> QED BY <1>4, <3>1
  <2>3. Layered(ItrsOfP, new) /\ Layered(SumItrsOfP, Result) /\ TopOf(Result, before, K)
    BY <1>6, <1>7
  <2>4. sum \in AddTopk(SumItrsOfP, ItrsOfP, K) /\ K \in Nat \ {0}
    BY <1>1, <1>3
  <2> HIDE DEF F, Y, Q, R, sum, new
  <2>5. Layered(sum, GraphsOf(sum)) /\ TopOf(GraphsOf(sum), before \union new, K)
    BY <2>1, <2>2, <2>3, <2>4, AddTopkBest
  <2> QED BY <2>5 DEF R
<1>9. Result' = R
  BY DEF Result, GraphsOf, Graphs
<1>10. found \subseteq Q /\ SafeOf(Q) \subseteq found
  <2>1. SafeOf(Q) = SafeOf(Passed) \union SafeOf(Y)
    <3> HIDE DEF Q, Y
    <3> QED BY <1>5 DEF SafeOf
  <2> QED BY <1>5, <1>6, <1>7, <2>1
<1> HIDE DEF found, R, sum, new, Y
<1>11. CASE j # 0 /\ OpenLevel(j - 1, T)
  <2>1. j' = j - 1 /\ mphase' = "back_external"
    BY <1>11 DEF OpenLevel, OpenBackward
  <2>2. Passed' = {g \in F : Size(g) > (j - 1) + 2}
    BY <2>1 DEF Passed
  <2>3. \A g \in F : Size(g) > (j - 1) + 2 <=> Size(g) >= j + 2
    BY <1>3, <1>4
  <2>4. Passed' = Q
    BY <2>2, <2>3
  <2>5. SafeOf(Passed)' = SafeOf(Q)
    BY <2>4 DEF SafeOf, Safe
  <2>6. mphase' \in Backward
    BY <2>1 DEF Backward
  <2> HIDE DEF Q
  <2> QED BY <1>8, <1>9, <1>10, <2>4, <2>5, <2>6 DEF TopInv, sum
<1>12. CASE (j = 0 \/ StopsEarly(sum, j)) /\ mphase' = "done"
  <2>1. Passed' = F /\ mphase' \in Backward
    BY <1>12 DEF Passed, Backward
  <2>2. SafeOf(Passed)' = SafeOf(F)
    BY <2>1 DEF SafeOf, Safe
  <2>3. \E all \in SUBSET F : SafeOf(F) \subseteq all /\ TopOf(R, all, K)
    <3>1. CASE j = 0
      <4>1. Q = F
        BY <1>4, <3>1
      <4> QED BY <1>8, <1>10, <4>1
    <3>2. CASE j # 0
      <4> DEFINE all == found \union {g \in F : Size(g) < j + 2}
      <4>1. StopsEarly(sum, j) /\ j \in Nat \ {0}
        BY <1>3, <1>12, <3>2
      <4>2. all \subseteq F
        BY <1>10
      <4>3. SafeOf(F) \subseteq all
        <5>1. \A g \in F : g \in Q \/ Size(g) < j + 2
          BY <1>3, <1>4
        <5>2. \A g \in SafeOf(F) : g \in F /\ (g \in Q => g \in SafeOf(Q))
          BY DEF SafeOf
        <5> HIDE DEF Q
        <5> QED BY <1>10, <5>1, <5>2
      <4>4. found \subseteq {g \in F : Size(g) >= j + 2}
        BY <1>10
      <4> HIDE DEF F, Q
      <4>5. TopOf(R, all, K)
        BY <1>3, <1>8, <4>1, <4>4, StopIsRight
      <4> QED BY <4>2, <4>3, <4>5
    <3> QED BY <3>1, <3>2
  <2> QED BY <1>8, <1>9, <2>1, <2>2, <2>3 DEF TopInv, sum
<1> QED BY <1>1, <1>11, <1>12

LEMMA TopStep ==
  ASSUME SInv, EdgesKnown, UniqueInv, TopInv, Master
  PROVE  TopInv'
<1>1. world' = world
  BY DEF Master
<1>2. CASE MasterEdges
  <2>1. mphase = "edges" /\ mphase' = "ready" /\ UNCHANGED <<world, j, SumItrsOfP>>
    BY <1>1, <1>2 DEF MasterEdges, topk
  <2>2. mphase \notin Backward /\ mphase' \notin Backward
    BY <2>1 DEF Backward
  <2> QED BY <2>1, <2>2, TopKeeps
<1>3. CASE MasterReady
  <2>1. mphase = "ready" /\ MasterLoop(patternMap, T) /\ UNCHANGED <<world, SumItrsOfP>>
    BY <1>1, <1>3 DEF MasterReady
  <2>2. mphase \notin Backward /\ mphase \notin {"edges", "done"}
    BY <2>1 DEF Backward
  <2>3. Finds(patternMap, Trees(1))
    <3>1. patternMap = T[1] /\ 1 \in 1 .. Len(T)
      BY <2>1 DEF SInv, TreeInv
    <3> QED BY <3>1 DEF SInv, TreeInv
  <2>4. patternMap # {}
    <3>1. PICK g \in TreesIn(world.frequent, 1) : TRUE
      BY WorldFacts, SomeEdge DEF SInv
    <3>2. g \in world.frequent /\ Cardinality(g) = 1
      BY DEF TreesIn
    <3>3. g \in SafeOf(Trees(1))
      BY <3>2, SafePart DEF SInv, Trees, SafeOf
    <3> QED BY <2>3, <3>3 DEF Finds, Graphs
  <2>5. mphase' = "need" /\ j' = j
    BY <2>1, <2>4 DEF MasterLoop, OpenForward
  <2>6. mphase' \notin Backward /\ mphase' # "done"
    BY <2>5 DEF Backward
  <2> QED BY <2>1, <2>2, <2>5, <2>6, TopKeeps
<1>4. CASE MasterForwards \/ MasterCounts
  <2>1. /\ UNCHANGED <<world, j, SumItrsOfP>>
        /\ \/ mphase \in {"need", "nodes", "got_nodes", "external", "got_external"} /\ mphase' \in {"nodes", "got_nodes", "external", "got_external", "mni", "dead"}
           \/ mphase = "mni" /\ mphase' \in {"got_frequent", "dead"}
           \/ mphase = "back_external" /\ mphase' \in {"back_mni", "dead"}
           \/ mphase = "back_mni" /\ mphase' \in {"back_got", "dead"}
    BY <1>1, <1>4, Phases DEF MasterForwards, MasterCounts, MasterRelay, Dies, topk
  <2>2. mphase' # "dead"
    <3>1. ScriptInv'
      BY <1>4, MasterStep DEF SInv, Master
    <3> QED BY <3>1, Phases DEF ScriptInv
  <2>3. (mphase \in Backward <=> mphase' \in Backward) /\ mphase # "done" /\ mphase' # "done"
    BY <2>1, <2>2 DEF Backward
  <2> QED BY <2>1, <2>3, TopKeeps
<1>5. CASE MasterGrows
  <2>1. mphase = "got_frequent" /\ MasterLoop(patternMap, T') /\ UNCHANGED <<world, SumItrsOfP>>
        /\ T' = (IF patternMap # {} THEN Append(T, patternMap) ELSE T)
    BY <1>1, <1>5 DEF MasterGrows
  <2>2. mphase \notin Backward /\ mphase \notin {"edges", "done"}
    BY <2>1 DEF Backward
  <2>3. CASE patternMap # {}
    <3>1. mphase' = "need" /\ j' = j
      BY <2>1, <2>3 DEF MasterLoop, OpenForward
    <3>2. mphase' \notin Backward /\ mphase' # "done"
      BY <3>1 DEF Backward
    <3> QED BY <2>1, <2>2, <3>1, <3>2, TopKeeps
  <2>4. CASE patternMap = {}
    <3>1. j' = Len(T) - 1 /\ mphase' = "back_external"
      BY <2>1, <2>4 DEF MasterLoop, OpenLevel, OpenBackward
    <3>2. Finds(patternMap, Trees(Len(T) + 1))
      BY <2>1 DEF SInv, TreeInv
    <3>3. mphase' \in Backward \ {"done"} /\ SafeOf(Trees(Len(T) + 1)) = {}
      BY <2>4, <3>1, <3>2 DEF Backward, Finds, Graphs
    <3> QED BY <2>1, <2>2, <3>1, <3>3, TopEnters
  <2> QED BY <2>3, <2>4
<1>6. CASE MasterDeepens
  <2>1. mphase = "back_got" /\ mphase' = "back_external" /\ UNCHANGED <<world, j, SumItrsOfP>>
    BY <1>1, <1>6 DEF MasterDeepens, OpenBackward
  <2>2. mphase \in Backward /\ mphase' \in Backward /\ mphase # "done" /\ mphase' # "done"
    BY <2>1 DEF Backward
  <2> QED BY <2>1, <2>2, TopKeeps
<1>7. CASE MasterClosesLevel
  BY <1>1, <1>7, TopCloses
<1> QED BY <1>2, <1>3, <1>4, <1>5, <1>6, <1>7 DEF Master

\* What is kept on top of the scripts: no graph twice, and the best of the
\* levels that are closed.
LEMMA BestStep ==
  ASSUME SInv, EdgesKnown, UniqueInv, TopInv, [Next]_vars
  PROVE  UniqueInv' /\ TopInv'
<1>1. CASE Master
  BY <1>1, UniqueStep, TopStep
<1>2. CASE UNCHANGED <<world, master>>
  <2>1. UNCHANGED <<world, mphase, T, patternMap, j, ItrsOfP, SumItrsOfP>>
    BY <1>2 DEF master, tree, topk
  <2>2. UniqueInv'
    BY <2>1 DEF UniqueInv
  <2> QED BY <2>1, <2>2, TopKeeps
<1>3. CASE UNCHANGED vars
  <2>1. UNCHANGED <<world, master>>
    BY <1>3 DEF vars, master, tree, topk
  <2> QED BY <1>2, <2>1
<1> QED BY <1>1, <1>2, <1>3 DEF Next, Site

LEMMA BestInit ==
  ASSUME Init
  PROVE  UniqueInv /\ TopInv
<1>1. /\ patternMap = {} /\ Len(T) = 0 /\ DOMAIN ItrsOfP = {} /\ SumItrsOfP = <<>> /\ mphase = "edges"
  BY DEF Init
<1> QED BY <1>1 DEF UniqueInv, OneOf, TopInv, Backward

LEMMA BestFits ==
  ASSUME SInv, EdgesKnown, TopInv
  PROVE  TopKCorrect
<1> SUFFICES ASSUME mphase = "done"
             PROVE  /\ Result \subseteq world.frequent
                    /\ NumofItrsOfP(SumItrsOfP) = Cardinality(Result)
                    /\ Cardinality(Result) <= K
                    /\ Cardinality(Result) < K => SafeOf(world.frequent) \subseteq Result
                    /\ \A g \in Result, h \in SafeOf(world.frequent) \ Result : Interest(g) >= Interest(h)
  BY DEF TopKCorrect
<1>1. PICK found \in SUBSET world.frequent : /\ Layered(SumItrsOfP, Result)
                                             /\ SafeOf(world.frequent) \subseteq found /\ TopOf(Result, found, K)
  BY DEF TopInv, Passed, Backward
<1>2. /\ Result \subseteq found /\ Result \subseteq world.frequent /\ IsFiniteSet(Result) /\ IsFiniteSet(found)
      /\ Cardinality(Result) \in Nat /\ Cardinality(found) \in Nat /\ K \in Nat
  <2>1. Result \subseteq found
    BY <1>1 DEF TopOf
  <2> QED BY <2>1, FrequentFinite, FS_Subset, FS_CardinalityType
<1>3. NumofItrsOfP(SumItrsOfP) = Cardinality(Result)
  BY <1>1, <1>2, LayeredSums
<1>4. Cardinality(Result) = IF Cardinality(found) < K THEN Cardinality(found) ELSE K
  BY <1>1 DEF TopOf
<1>5. Cardinality(Result) <= K
  BY <1>2, <1>4
<1>6. Cardinality(Result) < K => SafeOf(world.frequent) \subseteq Result
  <2> SUFFICES ASSUME Cardinality(Result) < K PROVE Result = found
    BY <1>1
  <2>1. Cardinality(Result) = Cardinality(found)
    BY <1>2, <1>4
  <2> QED BY <1>2, <2>1, FS_Subset
<1>7. \A g \in Result, h \in SafeOf(world.frequent) \ Result : Interest(g) >= Interest(h)
  BY <1>1 DEF TopOf
<1> QED BY <1>2, <1>3, <1>5, <1>6, <1>7

\* The session ends with at most K frequent patterns (Backward_topk.AddTopk
\* and the loop of Server.main that calls it), fewer only if all of which no
\* site misses a part are among them, and none of them is less interesting
\* than such a pattern that is left out.  What AddTopk cuts off and the
\* levels an early stop leaves out lose none.
THEOREM BestAreFound ==
  ASSUME EdgesKnown
  PROVE  Spec => []TopKCorrect
<1>1. Init => UniqueInv /\ TopInv
  BY BestInit
<1>2. SInv /\ (UniqueInv /\ TopInv) /\ [Next]_vars => (UniqueInv /\ TopInv)'
  BY BestStep
<1>3. SInv /\ TopInv => TopKCorrect
  BY BestFits
<1> QED BY <1>1, <1>2, <1>3, SInvHolds, PTL DEF Spec
=============================================================================
