------------------------ MODULE SubgraphSearchProofs ------------------------
(***************************************************************************)
(* The proofs that every answer of the search in SubgraphSearch maps the   *)
(* query into the data graph, for any searches, cut short or not; and that *)
(* a search that is not cut short misses none.                             *)
(***************************************************************************)
EXTENDS SubgraphSearch, LabelledGraphProofs

-----------------------------------------------------------------------------
(* Iterators.                                                               *)

LEMMA CurIn ==
  ASSUME NEW S, S # {}
  PROVE  Cur(S) \in S
BY DEF Cur

\* What an iterator that moves on stands at was still to be passed.
LEMMA RestIn ==
  ASSUME NEW S
  PROVE  /\ Rest(S) \subseteq S /\ At(S) \subseteq S
         /\ S # {} => At(S) = {Cur(S)} /\ Cur(S) \notin Rest(S) /\ S # Rest(S)
         /\ At({}) = {}
BY CurIn DEF Rest, At

\* The nodes in use are those the iterators stand at.
LEMMA InUse ==
  ASSUME TypeOK, LevelInv, NEW i \in 1 .. depth, selected[i] # {}
  PROVE  Image(i) \in selectedDataMap
<1>1. Image(i) \in At(selected[i])
  BY DEF At, Image
<1> QED BY <1>1 DEF LevelInv
-----------------------------------------------------------------------------
(* The initial states.                                                      *)

LEMMA InitIInv == Init => IInv
<1> SUFFICES ASSUME Init PROVE IInv
  OBVIOUS
<1>1. PICK v \in NodesOf(query) : toCheck = <<IF restricted THEN search.col ELSE v>>
  BY DEF Init
<1>2. restricted => search.col \in NodesOf(query)
  BY SearchAssumption DEF Init, restricted, query, Free
<1>3. toCheck \in Seq(NodesOf(query)) /\ toCheck # <<>>
  BY <1>1, <1>2
<1>4. depth = 0
  BY DEF Init, depth
<1>5. TypeOK
  BY <1>3, <1>4 DEF Init, TypeOK
<1>6. OrderInv
  BY <1>1, <1>3 DEF Init, OrderInv, InOrder
<1>7. LevelInv /\ ComparedInv
  BY <1>4 DEF Init, LevelInv, ComparedInv
<1>8. ResultsSound
  BY DEF Init, ResultsSound
<1> QED BY <1>5, <1>6, <1>7, <1>8 DEF IInv
-----------------------------------------------------------------------------
(* The order of the query nodes.                                            *)

\* A batch holds all new neighbours.
LEMMA BatchAll ==
  ASSUME search \in Searches, NEW v \in NodesOf(query), NEW b \in Batches(v),
         NEW u \in Near(query, v), ~InOrder(u), u # v
  PROVE  /\ b \in Seq(NodesOf(query))
         /\ \E i \in 1 .. Len(b) : b[i] = u
<1> DEFINE new == {w \in Near(query, v) : ~InOrder(w) /\ w # v}
           n   == Cardinality(new)
<1>1. IsFiniteSet(new) /\ new \subseteq NodesOf(query)
  <2>1. IsFiniteSet(NodesOf(query))
    BY SearchAssumption DEF query
  <2>2. new \subseteq NodesOf(query)
    BY DEF Near
  <2> QED BY <2>1, <2>2, FS_Subset
<1>2. n \in Nat
  BY <1>1, FS_CardinalityType
<1>3. b \in [1 .. n -> new] /\ \A i, j \in DOMAIN b : i < j => b[i] # b[j]
  BY DEF Batches
<1> HIDE DEF n, new
<1>4. IsFiniteSet(1 .. n) /\ Cardinality(1 .. n) = n
  BY <1>2, FS_Interval
<1>5. b \in Injection(1 .. n, new)
  BY <1>2, <1>3 DEF Injection, IsInjective
<1>6. b \in Surjection(1 .. n, new)
  BY <1>1, <1>4, <1>5, FS_Injection DEF n
<1>7. u \in new
  BY DEF new
<1>8. \E i \in 1 .. n : b[i] = u
  BY <1>6, <1>7 DEF Surjection
<1>9. b \in Seq(NodesOf(query)) /\ Len(b) = n
  BY <1>1, <1>2, <1>3
<1> QED BY <1>8, <1>9

LEMMA BatchSeq ==
  ASSUME search \in Searches, NEW v \in NodesOf(query), NEW b \in Batches(v)
  PROVE  b \in Seq(NodesOf(query))
<1> DEFINE new == {w \in Near(query, v) : ~InOrder(w) /\ w # v}
           n   == Cardinality(new)
<1>1. IsFiniteSet(new) /\ new \subseteq NodesOf(query)
  <2>1. IsFiniteSet(NodesOf(query))
    BY SearchAssumption DEF query
  <2>2. new \subseteq NodesOf(query)
    BY DEF Near
  <2> QED BY <2>1, <2>2, FS_Subset
<1>2. n \in Nat
  BY <1>1, FS_CardinalityType
<1>3. b \in [1 .. n -> new]
  BY DEF Batches
<1> HIDE DEF n, new
<1> QED BY <1>1, <1>2, <1>3

\* Steps that only touch the order.
LEMMA LevelFrame ==
  ASSUME IInv, search' = search, nodesOrder' = nodesOrder, selected' = selected,
         selectedDataMap' = selectedDataMap
  PROVE  LevelInv' /\ ComparedInv'
<1>1. /\ depth' = depth /\ query' = query /\ data' = data /\ \A i : Image(i)' = Image(i)
      /\ \A i : selected'[i] = selected[i]
  BY DEF depth, query, data, Image
<1>2. UNION {At(selected'[i]) : i \in 1 .. depth} = UNION {At(selected[i]) : i \in 1 .. depth}
  OBVIOUS
<1>3. LevelInv'
  BY <1>1, <1>2 DEF IInv, LevelInv
<1>4. ComparedInv'
  BY <1>1 DEF IInv, ComparedInv, Compared
<1> QED BY <1>3, <1>4

LEMMA ResultsFrame ==
  ASSUME IInv, search' = search, results' = results
  PROVE  ResultsSound'
BY DEF IInv, ResultsSound, query, data

LEMMA VisitIInv ==
  ASSUME IInv, Visit
  PROVE  IInv'
<1> DEFINE v == Head(toCheck)
<1>1. /\ UNCHANGED <<search, selected, selectedDataMap, results>> /\ toCheck # <<>>
      /\ toCheck \in Seq(NodesOf(query)) /\ nodesOrder \in Seq(NodesOf(query)) /\ search \in Searches
      /\ selected = <<>> /\ depth = 0
  BY DEF Visit, IInv, TypeOK, OrderInv, depth
<1>2. v \in NodesOf(query) /\ Tail(toCheck) \in Seq(NodesOf(query))
  BY <1>1
<1>3. ResultsSound'
  BY <1>1, ResultsFrame
<1>4. LevelInv' /\ ComparedInv'
  <2>1. depth' = 0 /\ selectedDataMap = UNION {At(selected[i]) : i \in 1 .. 0}
    BY <1>1 DEF depth, IInv, LevelInv
  <2> QED BY <1>1, <2>1 DEF LevelInv, ComparedInv
<1>5. CASE InOrder(v)
  <2>1. toCheck' = Tail(toCheck) /\ nodesOrder' = nodesOrder
    BY <1>5 DEF Visit
  <2>2. TypeOK'
    BY <1>1, <1>2, <2>1 DEF IInv, TypeOK, query, data, depth
  <2>3. \A u \in NodesOf(query) : InOrder(u)' <=> InOrder(u)
    BY <2>1 DEF InOrder
  <2>4. ASSUME NEW k \in DOMAIN toCheck, toCheck[k] # v
        PROVE  \E l \in DOMAIN toCheck' : toCheck'[l] = toCheck[k]
    <3>1. k \in 2 .. Len(toCheck)
      BY <1>1, <2>4
    <3>2. k - 1 \in DOMAIN toCheck' /\ toCheck'[k - 1] = toCheck[k]
      BY <1>1, <2>1, <3>1
    <3> QED BY <3>2
  <2>5. nodesOrder # <<>>
    BY <1>5 DEF InOrder
  <2>6. ASSUME NEW x \in NodesOf(query), InOrder(x), NEW u \in Near(query, x)
        PROVE  InOrder(u) \/ \E l \in DOMAIN toCheck' : toCheck'[l] = u
    <3>1. InOrder(u) \/ \E k \in DOMAIN toCheck : toCheck[k] = u
      BY <2>6 DEF IInv, OrderInv
    <3> QED BY <1>5, <2>4, <3>1
  <2>7. /\ \A i, j \in DOMAIN nodesOrder : nodesOrder[i] = nodesOrder[j] => i = j
        /\ nodesOrder # <<>> /\ restricted => nodesOrder[1] = search.col
    BY DEF IInv, OrderInv
  <2>8. NodesOf(query)' = NodesOf(query) /\ restricted' = restricted /\ \A x : Near(query, x)' = Near(query, x)
    BY <1>1 DEF query, restricted
  <2>9. \A u : u \in NodesOf(query) => (InOrder(u)' <=> InOrder(u))
    BY <2>3
  <2>10. OrderInv'
    <3>1. \A x \in NodesOf(query) : \A u \in Near(query, x) : u \in NodesOf(query)
      BY DEF Near
    <3> QED BY <1>1, <2>1, <2>5, <2>6, <2>7, <2>8, <2>9, <3>1 DEF OrderInv
  <2> QED BY <1>3, <1>4, <2>2, <2>10 DEF IInv
<1>6. CASE ~InOrder(v)
  <2>1. PICK b \in Batches(v) : toCheck' = Tail(toCheck) \o b
    BY <1>6 DEF Visit
  <2>2. nodesOrder' = Append(nodesOrder, v) /\ b \in Seq(NodesOf(query))
    BY <1>1, <1>2, <1>6, BatchSeq DEF Visit
  <2>3. TypeOK'
    <3>1. toCheck' \in Seq(NodesOf(query)) /\ nodesOrder' \in Seq(NodesOf(query)) /\ Len(nodesOrder') \in Nat
      BY <1>1, <1>2, <2>1, <2>2
    <3>2. depth' = 0
      BY <1>1 DEF depth
    <3> QED BY <1>1, <3>1, <3>2 DEF IInv, TypeOK, query, data
  <2>4. /\ \A i \in DOMAIN nodesOrder : i \in DOMAIN nodesOrder' /\ nodesOrder'[i] = nodesOrder[i] /\ nodesOrder[i] # v
        /\ DOMAIN nodesOrder' = DOMAIN nodesOrder \union {Len(nodesOrder) + 1}
        /\ nodesOrder'[Len(nodesOrder) + 1] = v /\ Len(nodesOrder) + 1 \notin DOMAIN nodesOrder
    BY <1>1, <1>2, <1>6, <2>2 DEF InOrder
  <2>5. \A u : InOrder(u)' <=> InOrder(u) \/ u = v
    BY <2>4 DEF InOrder
  <2>6. ASSUME NEW k \in DOMAIN toCheck, toCheck[k] # v
        PROVE  \E l \in DOMAIN toCheck' : toCheck'[l] = toCheck[k]
    <3>1. k \in 2 .. Len(toCheck)
      BY <1>1, <2>6
    <3>2. k - 1 \in DOMAIN Tail(toCheck) /\ Tail(toCheck)[k - 1] = toCheck[k]
      BY <1>1, <3>1
    <3>3. k - 1 \in DOMAIN toCheck' /\ toCheck'[k - 1] = Tail(toCheck)[k - 1]
      BY <1>2, <2>1, <2>2, <3>2
    <3> QED BY <3>2, <3>3
  <2>7. ASSUME NEW i \in 1 .. Len(b)
        PROVE  \E l \in DOMAIN toCheck' : toCheck'[l] = b[i]
    <3> DEFINE t == Tail(toCheck)
    <3>1. t \in Seq(NodesOf(query))
      BY <1>2
    <3> HIDE DEF t
    <3>2. Len(t) + i \in DOMAIN (t \o b) /\ (t \o b)[Len(t) + i] = b[i]
      BY <2>2, <3>1
    <3> QED BY <2>1, <3>2 DEF t
  <2>8. ASSUME NEW x \in NodesOf(query), InOrder(x) \/ x = v, NEW u \in Near(query, x)
        PROVE  InOrder(u) \/ u = v \/ \E l \in DOMAIN toCheck' : toCheck'[l] = u
    <3>1. CASE InOrder(x)
      <4>1. InOrder(u) \/ \E k \in DOMAIN toCheck : toCheck[k] = u
        BY <3>1 DEF IInv, OrderInv
      <4> QED BY <2>6, <4>1
    <3>2. CASE x = v /\ ~InOrder(u) /\ u # v
      <4>1. \E i \in 1 .. Len(b) : b[i] = u
        BY <1>1, <1>2, <3>2, BatchAll
      <4> QED BY <2>7, <4>1
    <3> QED BY <2>8, <3>1, <3>2
  <2>9. NodesOf(query)' = NodesOf(query) /\ restricted' = restricted /\ \A x : Near(query, x)' = Near(query, x)
    BY <1>1 DEF query, restricted
  <2>10. \A i, j \in DOMAIN nodesOrder' : nodesOrder'[i] = nodesOrder'[j] => i = j
    BY <2>4 DEF IInv, OrderInv
  <2>11. nodesOrder' # <<>> /\ (restricted => nodesOrder'[1] = search.col)
    <3>1. nodesOrder' # <<>>
      BY <2>4
    <3>2. CASE nodesOrder = <<>>
      <4>1. restricted => toCheck = <<search.col>>
        BY <3>2 DEF IInv, OrderInv
      <4>2. restricted => v = search.col
        BY <4>1
      <4>3. nodesOrder'[1] = v
        BY <2>4, <3>2
      <4> QED BY <3>1, <4>2, <4>3
    <3>3. CASE nodesOrder # <<>>
      <4>1. 1 \in DOMAIN nodesOrder
        BY <1>1, <3>3
      <4> QED BY <2>4, <3>1, <3>3, <4>1 DEF IInv, OrderInv
    <3> QED BY <3>1, <3>2, <3>3
  <2>12. OrderInv'
    BY <1>1, <2>5, <2>8, <2>9, <2>10, <2>11 DEF OrderInv
  <2> QED BY <1>3, <1>4, <2>3, <2>12 DEF IInv
<1> QED BY <1>5, <1>6
-----------------------------------------------------------------------------
(* The search: no step changes the order any more.                          *)

LEMMA OrderFrame ==
  ASSUME IInv, UNCHANGED <<search, toCheck, nodesOrder>>, selected' # <<>> => toCheck = <<>>
  PROVE  OrderInv'
<1>1. query' = query /\ restricted' = restricted /\ \A u : InOrder(u)' <=> InOrder(u)
  BY DEF query, restricted, InOrder
<1> QED BY <1>1 DEF IInv, OrderInv

\* What holds while the iterators move.
LEMMA Levels ==
  ASSUME IInv
  PROVE  /\ selected \in Seq(SUBSET NodesOf(data)) /\ depth = Len(selected) /\ depth \in Nat
         /\ DOMAIN selected = 1 .. depth
         /\ \A i \in 1 .. depth : selected[i] \subseteq NodesOf(data)
         /\ \A i \in 1 .. depth : selected[i] # {} =>
              /\ Image(i) \in selected[i] /\ At(selected[i]) = {Image(i)}
              /\ Image(i) \in selectedDataMap
         /\ \A i \in 1 .. depth : selected[i] # {} => \A j \in 1 .. depth : selected[j] # {} /\ i # j => Image(i) # Image(j)
         /\ nodesOrder \in Seq(NodesOf(query)) /\ depth <= Len(nodesOrder)
         /\ depth > 0 => toCheck = <<>>
<1>1. /\ selected \in Seq(SUBSET NodesOf(data)) /\ depth = Len(selected) /\ depth \in Nat
      /\ DOMAIN selected = 1 .. depth
      /\ nodesOrder \in Seq(NodesOf(query)) /\ depth <= Len(nodesOrder)
  BY DEF IInv, TypeOK, depth
<1>2. \A i \in 1 .. depth : selected[i] \subseteq NodesOf(data)
  BY <1>1
<1>3. \A i \in 1 .. depth : selected[i] # {} => Image(i) \in selected[i] /\ At(selected[i]) = {Image(i)}
  BY CurIn DEF Image, At
<1>4. \A i \in 1 .. depth : selected[i] # {} => Image(i) \in selectedDataMap
  BY InUse DEF IInv
<1>5. ASSUME NEW i \in 1 .. depth, NEW j \in 1 .. depth, selected[i] # {}, selected[j] # {}, i < j
      PROVE  Image(i) # Image(j)
  <2>1. i \in 1 .. j - 1
    BY <1>1, <1>5
  <2>2. Image(i) \notin selected[j]
    BY <2>1 DEF IInv, LevelInv
  <2> QED BY <1>3, <1>5, <2>2
<1>6. \A i \in 1 .. depth : selected[i] # {} => \A j \in 1 .. depth : selected[j] # {} /\ i # j => Image(i) # Image(j)
  <2> SUFFICES ASSUME NEW i \in 1 .. depth, NEW j \in 1 .. depth, selected[i] # {}, selected[j] # {}, i # j
               PROVE  Image(i) # Image(j)
    OBVIOUS
  <2>1. i < j \/ j < i
    BY <1>1
  <2> QED BY <1>5, <2>1
<1>7. depth > 0 => toCheck = <<>>
  BY <1>1 DEF IInv, OrderInv
<1> QED BY <1>1, <1>2, <1>3, <1>4, <1>6, <1>7

\* When no node waits, the order has every query node.
LEMMA AllPlaced ==
  ASSUME IInv, toCheck = <<>>
  PROVE  {nodesOrder[i] : i \in DOMAIN nodesOrder} = NodesOf(query)
<1> DEFINE V == {nodesOrder[i] : i \in DOMAIN nodesOrder}
<1>1. nodesOrder # <<>> /\ nodesOrder \in Seq(NodesOf(query)) /\ search \in Searches
  BY DEF IInv, TypeOK, OrderInv
<1>2. V \subseteq NodesOf(query) /\ 1 \in DOMAIN nodesOrder
  BY <1>1
<1>3. V # {}
  BY <1>2
<1>4. ASSUME NEW v \in V, NEW u \in Near(query, v)
      PROVE  u \in V
  <2>1. InOrder(v) /\ v \in NodesOf(query)
    BY <1>2, <1>4 DEF InOrder
  <2>2. InOrder(u) \/ \E k \in DOMAIN toCheck : toCheck[k] = u
    BY <1>4, <2>1 DEF IInv, OrderInv
  <2>3. InOrder(u)
    BY <2>2
  <2> QED BY <2>3 DEF InOrder
<1>5. \A v \in V : Near(query, v) \subseteq V
  BY <1>4
<1> HIDE DEF V
<1>6. V = NodesOf(query)
  BY <1>1, <1>2, <1>3, <1>5, SearchAssumption DEF query
<1> QED BY <1>6 DEF V

LEMMA StartIInv ==
  ASSUME IInv, Start
  PROVE  IInv'
<1>1. /\ UNCHANGED <<search, toCheck, nodesOrder, results>> /\ toCheck = <<>> /\ selected = <<>>
      /\ search \in Searches
  BY DEF Start, IInv, TypeOK
<1>2. OrderInv'
  BY <1>1, OrderFrame
<1>3. ResultsSound'
  BY <1>1, ResultsFrame
<1>4. CASE Roots = {}
  <2>1. UNCHANGED <<selected, selectedDataMap>>
    BY <1>4 DEF Start
  <2>2. TypeOK'
    BY <1>1, <2>1 DEF IInv, TypeOK, query, data, depth
  <2> QED BY <1>1, <1>2, <1>3, <2>1, <2>2, LevelFrame DEF IInv
<1>5. CASE Roots # {}
  <2>1. selected' = <<Roots>> /\ selectedDataMap' = {Cur(Roots)}
    BY <1>5 DEF Start
  <2>2. nodesOrder # <<>> /\ nodesOrder \in Seq(NodesOf(query)) /\ (restricted => nodesOrder[1] = search.col)
    BY <1>1 DEF IInv, TypeOK, OrderInv
  <2>3. \A v \in Roots : v \in NodesOf(data) /\ data.label[v] = query.label[nodesOrder[1]]
    <3>1. CASE restricted
      <4>1. search.node \in getNodesByLabel(data, query.label[search.col])
        BY <1>1, <3>1, SearchAssumption DEF restricted, query, data, Free
      <4> QED BY <2>2, <3>1, <4>1 DEF Roots, getNodesByLabel
    <3>2. CASE ~restricted
      BY <3>2 DEF Roots, getNodesByLabel
    <3> QED BY <3>1, <3>2
  <2>4. depth' = 1 /\ query' = query /\ data' = data /\ selected'[1] = Roots
    BY <1>1, <2>1 DEF depth, query, data
  <2>5. TypeOK'
    <3>1. selected' \in Seq(SUBSET NodesOf(data))
      BY <2>1, <2>3
    <3>2. 1 <= Len(nodesOrder)
      BY <2>2
    <3> QED BY <1>1, <2>2, <2>4, <3>1, <3>2 DEF IInv, TypeOK
  <2>6. LevelInv'
    <3>1. \A i \in 1 .. 1 : i = 1
      OBVIOUS
    <3>2. \A j \in 1 .. 1 : \A i \in 1 .. j - 1 : FALSE
      OBVIOUS
    <3>3. UNION {At(selected'[i]) : i \in 1 .. 1} = At(Roots)
      BY <2>4, <3>1
    <3>4. At(Roots) = {Cur(Roots)}
      BY <1>5 DEF At
    <3>5. \A i \in 1 .. 1 - 1 : FALSE
      OBVIOUS
    <3> QED BY <1>1, <2>1, <2>3, <2>4, <3>1, <3>2, <3>3, <3>4, <3>5 DEF LevelInv
  <2>7. ComparedInv'
    <3>1. \A j \in 1 .. 1 - 1 : FALSE
      OBVIOUS
    <3> QED BY <2>4, <3>1 DEF ComparedInv
  <2> QED BY <1>2, <1>3, <2>5, <2>6, <2>7 DEF IInv
<1> QED BY <1>4, <1>5

LEMMA PostponeIInv ==
  ASSUME IInv, Postpone
  PROVE  IInv'
<1>1. UNCHANGED <<search, toCheck, nodesOrder, selected, selectedDataMap, results>>
  BY DEF Postpone
<1>2. TypeOK'
  BY <1>1 DEF IInv, TypeOK, query, data, depth
<1>3. OrderInv'
  BY <1>1, OrderFrame DEF IInv, OrderInv
<1> QED BY <1>1, <1>2, <1>3, LevelFrame, ResultsFrame DEF IInv
-----------------------------------------------------------------------------
(* The iterators move.                                                      *)

\* Where levels are cut off and the last one moves on, the levels are right.
\* The last iterator alone is the case k = depth.
LEMMA Moved ==
  ASSUME IInv, UNCHANGED <<search, toCheck, nodesOrder>>,
         NEW k \in 1 .. depth, selected[k] # {},
         selected' = [i \in 1 .. k |-> IF i = k THEN Rest(selected[k]) ELSE selected[i]],
         selectedDataMap' = {Image(i) : i \in 1 .. k - 1} \union At(Rest(selected[k]))
  PROVE  TypeOK' /\ OrderInv' /\ LevelInv' /\ ComparedInv'
<1> DEFINE R == Rest(selected[k])
<1>1. R \subseteq selected[k]
  BY RestIn
<1> HIDE DEF R
<1>2. /\ \A i \in 1 .. k - 1 : i \in 1 .. depth /\ i \in 1 .. k /\ i # k /\ i \in 1 .. depth - 1
      /\ k \in Nat /\ depth \in Nat /\ 1 <= k /\ k <= depth
  BY Levels
<1>3. /\ selected' = [i \in 1 .. k |-> IF i = k THEN R ELSE selected[i]]
      /\ selectedDataMap' = {Image(i) : i \in 1 .. k - 1} \union At(R)
  BY DEF R
<1>4. /\ selected' \in Seq(SUBSET NodesOf(data)) /\ Len(selected') = k
      /\ selected'[k] = R /\ \A i \in 1 .. k - 1 : selected'[i] = selected[i]
  <2>1. \A i \in 1 .. k : selected'[i] \in SUBSET NodesOf(data)
    BY <1>1, <1>2, <1>3, Levels
  <2>2. selected' \in [1 .. k -> SUBSET NodesOf(data)]
    BY <1>3, <2>1
  <2> QED BY <1>2, <1>3, <2>2
<1>5. depth' = k /\ query' = query /\ data' = data
  BY <1>4 DEF depth, query, data
<1>6. \A i \in 1 .. k - 1 : Image(i)' = Image(i)
  BY <1>4 DEF Image
<1>7. TypeOK'
  BY <1>2, <1>4, <1>5 DEF IInv, TypeOK
<1>8. OrderInv'
  BY <1>2, Levels, OrderFrame
<1>9. \A i \in 1 .. k : selected'[i] \subseteq selected[i]
  BY <1>1, <1>2, <1>3
<1>10. LevelInv'
  <2>1. \A i \in 1 .. k : \A v \in selected'[i] : data.label[v] = query.label[nodesOrder[i]]
    <3>1. \A i \in 1 .. k : i \in 1 .. depth
      BY <1>2
    <3> QED BY <1>9, <3>1 DEF IInv, LevelInv
  <2>2. \A i \in 1 .. k - 1 : selected'[i] # {}
    BY <1>2, <1>4 DEF IInv, LevelInv
  <2>3. ASSUME NEW j \in 1 .. k, NEW i \in 1 .. j - 1
        PROVE  Image(i)' \notin selected'[j]
    <3>1. i \in 1 .. k - 1 /\ j \in 1 .. depth
      BY <1>2
    <3>2. Image(i) \notin selected[j]
      BY <3>1 DEF IInv, LevelInv
    <3> QED BY <1>6, <1>9, <3>1, <3>2
  <2>4. selectedDataMap' = UNION {At(selected'[i]) : i \in 1 .. k}
    <3>1. \A i \in 1 .. k - 1 : At(selected'[i]) = {Image(i)}
      <4>1. \A i \in 1 .. k - 1 : selected[i] # {}
        BY <1>2 DEF IInv, LevelInv
      <4> QED BY <1>2, <1>4, <4>1, Levels
    <3>2. At(selected'[k]) = At(R)
      BY <1>4
    <3>3. \A i \in 1 .. k : i = k \/ i \in 1 .. k - 1
      BY <1>2
    <3>4. \A i \in 1 .. k - 1 : i \in 1 .. k
      BY <1>2
    <3>5. k \in 1 .. k
      BY <1>2
    <3> DEFINE M == {Image(i) : i \in 1 .. k - 1}
               U == UNION {At(selected'[i]) : i \in 1 .. k}
    <3>6. M \subseteq U
      BY <3>1, <3>4
    <3>7. At(R) \subseteq U
      BY <3>2, <3>5
    <3>8. U \subseteq M \union At(R)
      <4> SUFFICES ASSUME NEW i \in 1 .. k PROVE At(selected'[i]) \subseteq M \union At(R)
        OBVIOUS
      <4>1. CASE i = k
        BY <3>2, <4>1
      <4>2. CASE i \in 1 .. k - 1
        BY <3>1, <4>2
      <4> QED BY <3>3, <4>1, <4>2
    <3>9. selectedDataMap' = M \union At(R)
      BY <1>3
    <3> HIDE DEF M, U
    <3>10. selectedDataMap' = U
      BY <3>6, <3>7, <3>8, <3>9
    <3> QED BY <3>10 DEF U
  <2> QED BY <1>5, <2>1, <2>2, <2>3, <2>4 DEF LevelInv
<1>11. ComparedInv'
  <2> SUFFICES ASSUME NEW j \in 1 .. k - 1, NEW i \in 1 .. j - 1
               PROVE  Compared(i, j)'
    BY <1>5 DEF ComparedInv
  <2>1. i \in 1 .. k - 1 /\ j \in 1 .. depth - 1
    BY <1>2
  <2>2. Compared(i, j)
    BY <2>1 DEF IInv, ComparedInv
  <2> QED BY <1>5, <1>6, <2>1, <2>2 DEF Compared
<1> QED BY <1>7, <1>8, <1>10, <1>11

\* The nodes in use are those of the levels, an exhausted one has none.
LEMMA InUseIs ==
  ASSUME IInv, depth > 0
  PROVE  selectedDataMap = {Image(i) : i \in 1 .. depth - 1} \union At(selected[depth])
<1>1. depth \in Nat /\ depth \in 1 .. depth
  BY Levels
<1>2. \A i \in 1 .. depth - 1 : i \in 1 .. depth /\ At(selected[i]) = {Image(i)}
  <2>1. \A i \in 1 .. depth - 1 : i \in 1 .. depth /\ selected[i] # {}
    BY <1>1 DEF IInv, LevelInv
  <2> QED BY <2>1, Levels
<1>3. \A i \in 1 .. depth : i = depth \/ i \in 1 .. depth - 1
  BY <1>1
<1>4. selectedDataMap = UNION {At(selected[i]) : i \in 1 .. depth}
  BY DEF IInv, LevelInv
<1> QED BY <1>1, <1>2, <1>3, <1>4

LEMMA Advanced ==
  ASSUME IInv, AtNode, Advance, UNCHANGED <<search, toCheck, nodesOrder>>
  PROVE  TypeOK' /\ OrderInv' /\ LevelInv' /\ ComparedInv'
<1>1. depth \in 1 .. depth /\ selected[depth] # {} /\ depth > 0 /\ DOMAIN selected = 1 .. depth
  BY Levels DEF AtNode, Searching, IInv, TypeOK
<1>2. selected' = [i \in 1 .. depth |-> IF i = depth THEN Rest(selected[depth]) ELSE selected[i]]
  BY <1>1, Levels DEF Advance
<1>3. selectedDataMap \ {Image(depth)} = {Image(i) : i \in 1 .. depth - 1}
  <2>1. \A i \in 1 .. depth - 1 : i \in 1 .. depth /\ i # depth /\ selected[i] # {}
    BY <1>1, Levels DEF IInv, LevelInv
  <2>2. \A i \in 1 .. depth - 1 : Image(i) # Image(depth)
    BY <1>1, <2>1, Levels
  <2>3. At(selected[depth]) = {Image(depth)}
    BY <1>1, Levels
  <2> QED BY <1>1, <2>2, <2>3, InUseIs
<1>4. selectedDataMap' = {Image(i) : i \in 1 .. depth - 1} \union At(Rest(selected[depth]))
  BY <1>3 DEF Advance
<1> QED BY <1>1, <1>2, <1>4, Moved

LEMMA RejectIInv ==
  ASSUME IInv, Reject
  PROVE  IInv'
<1>1. AtNode /\ Advance /\ UNCHANGED <<search, toCheck, nodesOrder, results>>
  BY DEF Reject
<1> QED BY <1>1, Advanced, ResultsFrame DEF IInv

LEMMA BacktrackIInv ==
  ASSUME IInv, Backtrack
  PROVE  IInv'
<1>1. UNCHANGED <<search, toCheck, nodesOrder, results>> /\ selected[depth] = {} /\ selected # <<>>
  BY DEF Backtrack, Searching
<1>2. depth \in Nat /\ depth > 0
  BY <1>1, Levels
<1>3. CASE UNCHANGED <<selected, selectedDataMap>>
  <2>1. TypeOK'
    BY <1>1, <1>3 DEF IInv, TypeOK, query, data, depth
  <2>2. OrderInv'
    BY <1>1, <1>3, OrderFrame DEF IInv, OrderInv
  <2> QED BY <1>1, <1>3, <2>1, <2>2, LevelFrame, ResultsFrame DEF IInv
<1>4. ASSUME NEW k \in 1 .. depth - 1,
             selected' = [i \in 1 .. k |-> IF i = k THEN Rest(selected[k]) ELSE selected[i]],
             selectedDataMap' = (selectedDataMap \ Freed(k)) \union {Cur(Rest(selected[k]))},
             Rest(selected[k]) # {}
      PROVE  IInv'
  <2>1. /\ k \in 1 .. depth /\ \A i \in 1 .. depth - 1 : selected[i] # {} /\ i \in 1 .. depth
        /\ \A i \in 1 .. k - 1 : i \in 1 .. depth - 1 /\ i \notin k .. depth - 1
        /\ \A i \in 1 .. depth - 1 : i \in 1 .. k - 1 \/ i \in k .. depth - 1
        /\ \A i \in k .. depth - 1 : i \in 1 .. depth - 1
    BY <1>2 DEF IInv, LevelInv
  <2>2. selectedDataMap = {Image(i) : i \in 1 .. depth - 1}
    <3>1. At(selected[depth]) = {}
      BY <1>1 DEF At
    <3> QED BY <1>2, <3>1, InUseIs
  <2>3. \A i \in 1 .. k - 1 : \A j \in k .. depth - 1 : Image(i) # Image(j)
    <3> SUFFICES ASSUME NEW i \in 1 .. k - 1, NEW j \in k .. depth - 1 PROVE Image(i) # Image(j)
      OBVIOUS
    <3>1. i \in 1 .. depth /\ j \in 1 .. depth /\ i # j /\ selected[i] # {} /\ selected[j] # {}
      BY <2>1
    <3> QED BY <3>1, Levels
  <2>4. selectedDataMap \ Freed(k) = {Image(i) : i \in 1 .. k - 1}
    BY <2>1, <2>2, <2>3 DEF Freed
  <2>5. At(Rest(selected[k])) = {Cur(Rest(selected[k]))}
    BY <1>4 DEF At
  <2>6. selectedDataMap' = {Image(i) : i \in 1 .. k - 1} \union At(Rest(selected[k]))
    BY <1>4, <2>4, <2>5
  <2>7. selected[k] # {}
    BY <2>1
  <2> QED BY <1>1, <1>4, <2>1, <2>6, <2>7, Moved, ResultsFrame DEF IInv
<1> QED BY <1>3, <1>4 DEF Backtrack
-----------------------------------------------------------------------------
(* Further nodes, and answers.                                              *)

\* What the candidate loop takes, seen or unseen, fits.
LEMMA CandidatesFit ==
  ASSUME NEW S, Candidates(S), NEW v \in S
  PROVE  Fits(v)
<1> DEFINE all == {u \in Near(data, Image(Source)) : Fits(u)}
<1>1. v \in all
  <2>1. CASE S = {u \in all : Joined(u)}
    BY <2>1
  <2>2. CASE S = {}
    BY <2>2
  <2>3. CASE S \in {{u \in seen : Joined(u)} \union more :
                 seen \in SUBSET all, more \in {{}} \union {{u} : u \in all}}
    <3> DEFINE M == {{}} \union {{u} : u \in all}
    <3>0. ASSUME NEW m \in M PROVE m \subseteq all
      <4> HIDE DEF all
      <4>1. m = {} \/ \E u \in all : m = {u}
        OBVIOUS
      <4> QED BY <4>1
    <3>a. S \in {{u \in seen : Joined(u)} \union more : seen \in SUBSET all, more \in M}
      BY <2>3
    <3> HIDE DEF all, M
    <3>1. PICK seen \in SUBSET all, more \in M : S = {u \in seen : Joined(u)} \union more
      BY <3>a
    <3>2. more \subseteq all
      BY <3>0
    <3> QED BY <3>1, <3>2
  <2> QED BY <2>1, <2>2, <2>3 DEF Candidates
<1> QED BY <1>1

\* When the last node agrees, all pairs do.
LEMMA AllCompared ==
  ASSUME IInv, AtNode, Agrees, NEW j \in 1 .. depth, NEW i \in 1 .. j - 1
  PROVE  Compared(i, j)
<1>1. depth \in Nat /\ (j = depth \/ j \in 1 .. depth - 1)
  BY Levels
<1>2. CASE j = depth
  BY <1>2 DEF Agrees, Compared
<1>3. CASE j \in 1 .. depth - 1
  BY <1>3 DEF IInv, ComparedInv
<1> QED BY <1>1, <1>2, <1>3

LEMMA ExtendIInv ==
  ASSUME IInv, Extend
  PROVE  IInv'
<1>1. AtNode /\ Agrees /\ ~Full /\ UNCHANGED <<search, toCheck, nodesOrder, results>>
  BY DEF Extend
<1>2. PICK S \in SUBSET Near(data, Image(Source)) :
        /\ Candidates(S)
        /\ IF S = {} THEN Advance
           ELSE selected' = Append(selected, S) /\ selectedDataMap' = selectedDataMap \union {Cur(S)}
  BY DEF Extend
<1>3. CASE S = {}
  BY <1>1, <1>2, <1>3, Advanced, ResultsFrame DEF IInv
<1>4. CASE S # {}
  <2> DEFINE d == depth
  <2>1. /\ d \in Nat /\ d > 0 /\ selected[d] # {} /\ d < Len(nodesOrder) /\ Len(selected) = d
        /\ selected \in Seq(SUBSET NodesOf(data)) /\ nodesOrder \in Seq(NodesOf(query))
    BY <1>1, Levels DEF AtNode, Searching, Full
  <2>2. selected' = Append(selected, S) /\ selectedDataMap' = selectedDataMap \union {Cur(S)}
    BY <1>2, <1>4
  <2>3. S \subseteq NodesOf(data)
    BY DEF Near
  <2>4. \A v \in S : data.label[v] = query.label[nodesOrder[d + 1]] /\ v \notin selectedDataMap
    BY <1>2, CandidatesFit DEF Fits, next
  <2>5. /\ selected' \in Seq(SUBSET NodesOf(data)) /\ Len(selected') = d + 1
        /\ selected'[d + 1] = S /\ \A i \in 1 .. d : selected'[i] = selected[i]
    BY <2>1, <2>2, <2>3
  <2>6. depth' = d + 1 /\ query' = query /\ data' = data
    BY <1>1, <2>5 DEF depth, query, data
  <2>7. \A i \in 1 .. d : Image(i)' = Image(i)
    BY <2>5 DEF Image
  <2>8. TypeOK'
    BY <1>1, <2>1, <2>5, <2>6 DEF IInv, TypeOK
  <2>9. OrderInv'
    BY <1>1, <2>1, Levels, OrderFrame
  <2>10. \A i \in 1 .. d : selected[i] # {}
    <3>1. \A i \in 1 .. d : i = d \/ i \in 1 .. d - 1
      BY <2>1
    <3> QED BY <2>1, <3>1 DEF IInv, LevelInv
  <2>11. \A i \in 1 .. d + 1 : i = d + 1 \/ i \in 1 .. d
    BY <2>1
  <2>12. LevelInv'
    <3>1. \A i \in 1 .. d + 1 : \A v \in selected'[i] : data.label[v] = query.label[nodesOrder[i]]
      BY <2>4, <2>5, <2>11 DEF IInv, LevelInv
    <3>2. \A i \in 1 .. (d + 1) - 1 : selected'[i] # {}
      BY <2>1, <2>5, <2>10
    <3>3. ASSUME NEW j \in 1 .. d + 1, NEW i \in 1 .. j - 1
          PROVE  Image(i)' \notin selected'[j]
      <4>1. CASE j = d + 1
        <5>1. i \in 1 .. d
          BY <2>1, <4>1
        <5>2. Image(i) \in selectedDataMap
          BY <2>10, <5>1, Levels
        <5> QED BY <2>4, <2>5, <2>7, <4>1, <5>1, <5>2
      <4>2. CASE j \in 1 .. d
        <5>1. i \in 1 .. d
          BY <2>1, <4>2
        <5>2. Image(i) \notin selected[j]
          BY <4>2 DEF IInv, LevelInv
        <5> QED BY <2>5, <2>7, <4>2, <5>1, <5>2
      <4> QED BY <2>11, <4>1, <4>2
    <3>4. selectedDataMap' = UNION {At(selected'[i]) : i \in 1 .. d + 1}
      <4>1. selectedDataMap = UNION {At(selected[i]) : i \in 1 .. d}
        BY DEF IInv, LevelInv
      <4>2. At(S) = {Cur(S)}
        BY <1>4 DEF At
      <4>3. \A i \in 1 .. d : i \in 1 .. d + 1 /\ At(selected'[i]) = At(selected[i])
        BY <2>1, <2>5
      <4>4. d + 1 \in 1 .. d + 1 /\ At(selected'[d + 1]) = {Cur(S)}
        BY <2>1, <2>5, <4>2
      <4> QED BY <2>2, <2>11, <4>1, <4>3, <4>4
    <3> QED BY <1>1, <2>6, <3>1, <3>2, <3>3, <3>4 DEF LevelInv
  <2>13. ComparedInv'
    <3> SUFFICES ASSUME NEW j \in 1 .. d, NEW i \in 1 .. j - 1
                 PROVE  Compared(i, j)'
      BY <2>1, <2>6 DEF ComparedInv
    <3>1. Compared(i, j)
      BY <1>1, AllCompared
    <3>2. i \in 1 .. d
      BY <2>1
    <3> QED BY <1>1, <2>6, <2>7, <3>1, <3>2 DEF Compared
  <2> QED BY <1>1, <2>8, <2>9, <2>12, <2>13, ResultsFrame DEF IInv
<1> QED BY <1>3, <1>4

\* The answer that is noted maps the query into the data graph.
LEMMA AnswerSound ==
  ASSUME IInv, AtNode, Agrees, Full, NEW m,
         m = [v \in {nodesOrder[i] : i \in 1 .. depth} |-> ImageOf(v)]
  PROVE  DOMAIN m = NodesOf(query) /\ Embeds(query, data, m)
<1>1. /\ depth \in Nat /\ depth > 0 /\ selected[depth] # {} /\ toCheck = <<>>
      /\ DOMAIN nodesOrder = 1 .. depth
  BY Levels DEF AtNode, Searching, Full
<1>2. DOMAIN m = NodesOf(query)
  BY <1>1, AllPlaced
<1>3. \A i \in 1 .. depth : m[nodesOrder[i]] = Image(i)
  <2> SUFFICES ASSUME NEW i \in 1 .. depth PROVE ImageOf(nodesOrder[i]) = Image(i)
    OBVIOUS
  <2>1. (CHOOSE j \in 1 .. depth : nodesOrder[j] = nodesOrder[i]) = i
    BY <1>1 DEF IInv, OrderInv
  <2> QED BY <2>1 DEF ImageOf
<1>4. \A i \in 1 .. depth : selected[i] # {}
  <2>1. \A i \in 1 .. depth : i = depth \/ i \in 1 .. depth - 1
    BY <1>1
  <2> QED BY <1>1, <2>1 DEF IInv, LevelInv
<1>5. \A v \in DOMAIN m : \E i \in 1 .. depth : v = nodesOrder[i]
  OBVIOUS
<1>6. \A v \in DOMAIN m : m[v] \in NodesOf(data) /\ data.label[m[v]] = query.label[v]
  <2> SUFFICES ASSUME NEW i \in 1 .. depth
               PROVE  Image(i) \in NodesOf(data) /\ data.label[Image(i)] = query.label[nodesOrder[i]]
    BY <1>3, <1>5
  <2>1. Image(i) \in selected[i] /\ selected[i] \subseteq NodesOf(data)
    BY <1>4, Levels
  <2> QED BY <2>1 DEF IInv, LevelInv
<1>7. \A v, w \in DOMAIN m : v # w => m[v] # m[w]
  <2> SUFFICES ASSUME NEW i \in 1 .. depth, NEW j \in 1 .. depth, i # j PROVE Image(i) # Image(j)
    BY <1>3, <1>5
  <2> QED BY <1>4, Levels
<1>8. \A v, w \in DOMAIN m : {v, w} \in DOMAIN query.edge => Linked(data, m[v], m[w], query.edge[{v, w}])
  <2> SUFFICES ASSUME NEW i \in 1 .. depth, NEW j \in 1 .. depth,
                      {nodesOrder[i], nodesOrder[j]} \in DOMAIN query.edge
               PROVE  Linked(data, Image(i), Image(j), query.edge[{nodesOrder[i], nodesOrder[j]}])
    BY <1>3, <1>5
  <2>1. CASE i < j
    <3>1. i \in 1 .. j - 1
      BY <1>1, <2>1
    <3> QED BY <3>1, AllCompared DEF Compared
  <2>2. CASE j < i
    <3>1. j \in 1 .. i - 1
      BY <1>1, <2>2
    <3>2. {nodesOrder[j], nodesOrder[i]} = {nodesOrder[i], nodesOrder[j]} /\ {Image(j), Image(i)} = {Image(i), Image(j)}
      OBVIOUS
    <3>3. Compared(j, i)
      BY <3>1, AllCompared
    <3> QED BY <3>2, <3>3 DEF Compared, Linked
  <2>3. i # j
    <3> SUFFICES ASSUME i = j PROVE FALSE
      OBVIOUS
    <3>1. nodesOrder[i] \in NodesOf(query) /\ search \in Searches
      BY <1>2 DEF IInv, TypeOK
    <3>2. {nodesOrder[i]} \notin DOMAIN query.edge
      BY <3>1, SearchAssumption DEF query
    <3> QED BY <3>2
  <2> QED BY <1>1, <2>1, <2>2, <2>3
<1> QED BY <1>2, <1>6, <1>7, <1>8 DEF Embeds

LEMMA FoundIInv ==
  ASSUME IInv, Found
  PROVE  IInv'
<1> DEFINE m == [v \in {nodesOrder[i] : i \in 1 .. depth} |-> ImageOf(v)]
<1>1. /\ AtNode /\ Agrees /\ Full /\ UNCHANGED <<search, toCheck, nodesOrder>>
      /\ results' = results \union {m}
  BY DEF Found
<1>2. ResultsSound'
  <2>1. DOMAIN m = NodesOf(query) /\ Embeds(query, data, m)
    BY <1>1, AnswerSound
  <2>2. query' = query /\ data' = data
    BY <1>1 DEF query, data
  <2> HIDE DEF m
  <2> QED BY <1>1, <2>1, <2>2 DEF IInv, ResultsSound
<1>3. CASE UNCHANGED <<selected, selectedDataMap>>
  <2>1. TypeOK'
    BY <1>1, <1>3 DEF IInv, TypeOK, query, data, depth
  <2>2. OrderInv'
    BY <1>1, <1>3, OrderFrame DEF IInv, OrderInv
  <2> QED BY <1>1, <1>2, <1>3, <2>1, <2>2, LevelFrame DEF IInv
<1>4. CASE Advance
  BY <1>1, <1>2, <1>4, Advanced DEF IInv
<1> QED BY <1>3, <1>4 DEF Found
-----------------------------------------------------------------------------
(* No answer is missed.                                                     *)

LEMMA WantedAre ==
  ASSUME search \in Searches, NEW m
  PROVE  m \in Wanted <=> /\ m \in [NodesOf(query) -> NodesOf(data)]
                          /\ Embeds(query, data, m)
                          /\ restricted => m[search.col] = search.node
<1>1. NodesOf(query) \subseteq Int /\ IsFiniteSet(NodesOf(query))
  BY SearchAssumption DEF query
<1>2. Embeddings(query, data) = {e \in [NodesOf(query) -> NodesOf(data)] : Embeds(query, data, e)}
  BY <1>1, EmbeddingsAre
<1> QED BY <1>2 DEF Wanted

LEMMA WantedInDomains ==
  ASSUME DomainsKeep, search \in Searches, search.domains # <<>>, NEW m \in Wanted, NEW v \in NodesOf(query)
  PROVE  m[v] \in search.domains[v]
<1>1. m \in Embeddings(search.query, search.data) /\ (search.col # -1 => m[search.col] = search.node)
  BY DEF Wanted, query, data, restricted, Free
<1> QED BY <1>1 DEF DomainsKeep, query

\* What is wanted depends on the arguments alone, and what is settled stays so.
LEMMA WantedFrame ==
  ASSUME search' = search
  PROVE  /\ Wanted' = Wanted /\ query' = query /\ data' = data /\ restricted' = restricted
         /\ \A m : results \subseteq results' /\ Settled(m) => Settled(m)'
BY DEF Wanted, query, data, restricted, Settled

LEMMA InitCInv == Init => CInv
<1> SUFFICES ASSUME Init PROVE CInv
  OBVIOUS
<1>1. PICK v \in NodesOf(query) : toCheck = <<IF restricted THEN search.col ELSE v>>
  BY DEF Init
<1>2. ReachedInv
  BY <1>1 DEF Init, ReachedInv
<1>3. AnswerInv
  BY DEF Init, AnswerInv
<1>4. CompleteInv
  BY DEF Init, CompleteInv, Ahead
<1> QED BY <1>2, <1>3, <1>4 DEF CInv

LEMMA ReachedFrame ==
  ASSUME CInv, UNCHANGED <<search, toCheck, nodesOrder>>
  PROVE  ReachedInv'
BY DEF CInv, ReachedInv, query

LEMMA VisitReached ==
  ASSUME IInv, CInv, Visit
  PROVE  ReachedInv'
<1> DEFINE v == Head(toCheck)
<1>1. /\ search' = search /\ toCheck # <<>> /\ query' = query /\ search \in Searches
      /\ toCheck \in Seq(NodesOf(query)) /\ nodesOrder \in Seq(NodesOf(query))
  BY DEF Visit, IInv, TypeOK, query
<1>2. v \in NodesOf(query) /\ Tail(toCheck) \in Seq(NodesOf(query)) /\ v = toCheck[1] /\ 1 \in DOMAIN toCheck
  BY <1>1
<1>3. \A k \in DOMAIN Tail(toCheck) : k + 1 \in DOMAIN toCheck /\ Tail(toCheck)[k] = toCheck[k + 1]
  BY <1>1
<1>4. CASE InOrder(v)
  <2>1. toCheck' = Tail(toCheck) /\ nodesOrder' = nodesOrder
    BY <1>4 DEF Visit
  <2>2. nodesOrder # <<>>
    BY <1>4 DEF InOrder
  <2> QED BY <1>1, <1>3, <2>1, <2>2 DEF CInv, ReachedInv
<1>5. CASE ~InOrder(v)
  <2>1. PICK b \in Batches(v) : toCheck' = Tail(toCheck) \o b
    BY <1>5 DEF Visit
  <2>2. nodesOrder' = Append(nodesOrder, v) /\ b \in Seq(NodesOf(query))
    BY <1>1, <1>2, <1>5, BatchSeq DEF Visit
  <2> DEFINE n == Len(nodesOrder)
  <2>3. /\ n \in Nat /\ Len(nodesOrder') = n + 1 /\ nodesOrder'[n + 1] = v
        /\ \A i \in 1 .. n : nodesOrder'[i] = nodesOrder[i] /\ i \in 1 .. n + 1
        /\ DOMAIN nodesOrder = 1 .. n /\ DOMAIN nodesOrder' = 1 .. n + 1
    BY <1>1, <1>2, <2>2
  <2>4. \A k \in DOMAIN b : {v, b[k]} \in DOMAIN query.edge
    <3>1. b \in [DOMAIN b -> {w \in Near(query, v) : ~InOrder(w) /\ w # v}]
      BY DEF Batches
    <3>2. \A k \in DOMAIN b : b[k] \in Near(query, v)
      BY <3>1
    <3> QED BY <3>2 DEF Near
  <2>5. ASSUME NEW k \in DOMAIN toCheck'
        PROVE  \E i \in DOMAIN nodesOrder' : {nodesOrder'[i], toCheck'[k]} \in DOMAIN query.edge
    <3> DEFINE t == Tail(toCheck)
    <3>1. t \in Seq(NodesOf(query)) /\ toCheck' = t \o b
      BY <1>2, <2>1
    <3>2. \A j \in DOMAIN t : j + 1 \in DOMAIN toCheck /\ t[j] = toCheck[j + 1]
      BY <1>3
    <3>3. nodesOrder = <<>> => Len(t) = 0
      BY <1>1 DEF CInv, ReachedInv
    <3> HIDE DEF t
    <3>4. \/ k \in DOMAIN t /\ toCheck'[k] = t[k]
          \/ k - Len(t) \in DOMAIN b /\ toCheck'[k] = b[k - Len(t)]
      BY <2>2, <3>1
    <3>5. CASE k \in DOMAIN t /\ toCheck'[k] = t[k]
      <4>1. nodesOrder # <<>>
        BY <3>1, <3>3, <3>5
      <4>2. \E i \in DOMAIN nodesOrder : {nodesOrder[i], toCheck[k + 1]} \in DOMAIN query.edge
        BY <3>2, <3>5, <4>1 DEF CInv, ReachedInv
      <4> QED BY <2>3, <3>2, <3>5, <4>2
    <3>6. CASE k - Len(t) \in DOMAIN b /\ toCheck'[k] = b[k - Len(t)]
      <4>1. n + 1 \in DOMAIN nodesOrder'
        BY <2>3
      <4> QED BY <2>3, <2>4, <3>6, <4>1
    <3> QED BY <3>4, <3>5, <3>6
  <2>6. ASSUME NEW k \in 2 .. n + 1
        PROVE  \E i \in 1 .. k - 1 : {nodesOrder'[i], nodesOrder'[k]} \in DOMAIN query.edge
    <3>1. CASE k \in 2 .. n
      <4>1. PICK i \in 1 .. k - 1 : {nodesOrder[i], nodesOrder[k]} \in DOMAIN query.edge
        BY <3>1 DEF CInv, ReachedInv
      <4>2. i \in 1 .. n /\ k \in 1 .. n
        BY <2>3, <3>1
      <4> QED BY <2>3, <4>1, <4>2
    <3>2. CASE k = n + 1
      <4>1. nodesOrder # <<>>
        BY <1>1, <2>6, <3>2
      <4>2. PICK i \in DOMAIN nodesOrder : {nodesOrder[i], v} \in DOMAIN query.edge
        BY <1>2, <4>1 DEF CInv, ReachedInv
      <4>3. i \in 1 .. n /\ i \in 1 .. k - 1
        BY <2>3, <3>2
      <4> QED BY <2>3, <3>2, <4>2, <4>3
    <3>3. k \in 2 .. n \/ k = n + 1
      BY <2>3, <2>6
    <3> QED BY <3>1, <3>2, <3>3
  <2>7. nodesOrder' # <<>>
    <3> SUFFICES ASSUME nodesOrder' = <<>> PROVE FALSE
      OBVIOUS
    <3>1. Len(nodesOrder') = 0
      OBVIOUS
    <3> QED BY <2>3, <3>1
  <2> QED BY <1>1, <2>3, <2>5, <2>6, <2>7 DEF ReachedInv
<1> QED BY <1>4, <1>5
-----------------------------------------------------------------------------
(* The answers noted, and how a search ends.                                *)

LEMMA AnswerFrame ==
  ASSUME CInv, UNCHANGED <<search, results, postponed>>, done => done', selected # <<>> => selected' # <<>>,
         over' => over \/ selected # <<>>
  PROVE  AnswerInv'
<1>1. query' = query /\ data' = data /\ restricted' = restricted
  BY DEF query, data, restricted
<1> QED BY <1>1 DEF CInv, AnswerInv

LEMMA AdvancedSome ==
  ASSUME IInv, Advance, selected # <<>>
  PROVE  selected' # <<>>
<1>1. selected' = [selected EXCEPT ![depth] = Rest(@)]
  BY DEF Advance
<1>2. DOMAIN selected' = DOMAIN selected /\ DOMAIN selected = 1 .. depth /\ depth \in Nat
  BY <1>1, Levels
<1>3. depth # 0
  BY Levels
<1>4. 1 \in DOMAIN selected'
  BY <1>2, <1>3
<1> QED BY <1>4

\* The answer that is noted is a map of the nodes of the query, and it is where
\* the iterators stand.
LEMMA Noted ==
  ASSUME IInv, AtNode, Agrees, Full, NEW r,
         r = [v \in {nodesOrder[i] : i \in 1 .. depth} |-> ImageOf(v)]
  PROVE  /\ r \in [NodesOf(query) -> NodesOf(data)]
         /\ \A i \in 1 .. depth : r[nodesOrder[i]] = Image(i)
         /\ NodesOf(query) = {nodesOrder[i] : i \in 1 .. depth}
<1>1. /\ depth \in Nat /\ depth > 0 /\ selected[depth] # {} /\ toCheck = <<>>
      /\ DOMAIN nodesOrder = 1 .. depth
  BY Levels DEF AtNode, Searching, Full
<1>2. NodesOf(query) = {nodesOrder[i] : i \in 1 .. depth}
  BY <1>1, AllPlaced
<1>3. \A i \in 1 .. depth : r[nodesOrder[i]] = Image(i)
  <2> SUFFICES ASSUME NEW i \in 1 .. depth PROVE ImageOf(nodesOrder[i]) = Image(i)
    OBVIOUS
  <2>1. (CHOOSE j \in 1 .. depth : nodesOrder[j] = nodesOrder[i]) = i
    BY <1>1 DEF IInv, OrderInv
  <2> QED BY <2>1 DEF ImageOf
<1>4. \A v \in NodesOf(query) : r[v] \in NodesOf(data)
  <2>1. DOMAIN r = NodesOf(query) /\ Embeds(query, data, r)
    BY AnswerSound
  <2> QED BY <2>1 DEF Embeds
<1>5. r = [v \in NodesOf(query) |-> ImageOf(v)]
  BY <1>2
<1> QED BY <1>2, <1>3, <1>4, <1>5

LEMMA FoundAnswer ==
  ASSUME IInv, CInv, Found
  PROVE  AnswerInv'
<1> DEFINE r == [v \in {nodesOrder[i] : i \in 1 .. depth} |-> ImageOf(v)]
<1>1. /\ AtNode /\ Agrees /\ Full /\ UNCHANGED <<search, toCheck, nodesOrder, postponed>>
      /\ results' = results \union {r}
      /\ IF restricted THEN done' = TRUE /\ UNCHANGED <<selected, selectedDataMap>>
                       ELSE Advance /\ UNCHANGED done
  BY DEF Found
<1>2. r \in [NodesOf(query) -> NodesOf(data)]
  BY <1>1, Noted
<1> HIDE DEF r
<1>3. query' = query /\ data' = data /\ restricted' = restricted
  BY <1>1 DEF query, data, restricted
<1>4. selected # <<>> /\ ~done
  BY <1>1 DEF AtNode, Searching
<1>5. selected' # <<>>
  <2>1. CASE restricted
    BY <1>1, <1>4, <2>1
  <2>2. CASE ~restricted
    BY <1>1, <1>4, <2>2, AdvancedSome
  <2> QED BY <2>1, <2>2
<1>6. ~postponed
  BY <1>4 DEF CInv, AnswerInv
<1> QED BY <1>1, <1>2, <1>3, <1>5, <1>6 DEF CInv, AnswerInv

LEMMA NextAnswer ==
  ASSUME IInv, CInv, [Next]_vars
  PROVE  AnswerInv'
<1>1. CASE UNCHANGED vars
  BY <1>1, AnswerFrame DEF vars
<1>2. CASE Visit
  BY <1>2, AnswerFrame DEF Visit
<1>3. CASE Start
  BY <1>3, AnswerFrame DEF Start
<1>4. CASE Postpone
  <2>1. /\ UNCHANGED <<search, selected, results, over>> /\ done' /\ ~done /\ selected # <<>>
    BY <1>4 DEF Postpone, Searching
  <2>2. query' = query /\ data' = data /\ restricted' = restricted
    BY <2>1 DEF query, data, restricted
  <2> QED BY <2>1, <2>2 DEF CInv, AnswerInv
<1>5. CASE Backtrack
  <2>1. UNCHANGED <<search, results, postponed>> /\ selected # <<>> /\ ~done
    BY <1>5 DEF Backtrack, Searching
  <2>2. selected' # <<>>
    <3>1. CASE UNCHANGED selected
      BY <2>1, <3>1
    <3>2. ASSUME NEW k \in 1 .. depth - 1,
                 selected' = [i \in 1 .. k |-> IF i = k THEN Rest(selected[k]) ELSE selected[i]]
          PROVE  selected' # <<>>
      <4>1. 1 \in DOMAIN selected'
        BY <3>2, Levels
      <4> QED BY <4>1
    <3> QED BY <1>5, <3>1, <3>2 DEF Backtrack
  <2> QED BY <2>1, <2>2, AnswerFrame
<1>6. CASE Reject
  <2>1. UNCHANGED <<search, results, postponed, done>> /\ selected # <<>> /\ Advance
    BY <1>6 DEF Reject, AtNode, Searching
  <2>2. selected' # <<>>
    BY <2>1, AdvancedSome
  <2> QED BY <2>1, <2>2, AnswerFrame
<1>7. CASE Found
  BY <1>7, FoundAnswer
<1>8. CASE Extend
  <2>1. UNCHANGED <<search, results, postponed, done>> /\ selected # <<>>
    BY <1>8 DEF Extend, AtNode, Searching
  <2>2. selected' # <<>>
    <3>1. CASE Advance
      BY <2>1, <3>1, AdvancedSome
    <3>2. ASSUME NEW S \in SUBSET Near(data, Image(Source)), selected' = Append(selected, S)
          PROVE  selected' # <<>>
      <4>1. Len(selected') = depth + 1 /\ depth \in Nat
        BY <3>2, Levels DEF Near
      <4> QED BY <4>1
    <3> QED BY <1>8, <3>1, <3>2 DEF Extend
  <2> QED BY <2>1, <2>2, AnswerFrame
<1> QED BY <1>1, <1>2, <1>3, <1>4, <1>5, <1>6, <1>7, <1>8 DEF Next
-----------------------------------------------------------------------------
(* A map that is wanted stays ahead of the iterators until it is noted.      *)

\* The iterators stand at the nodes of m, up to the last place.
StandsAt(m) == \A i \in 1 .. depth : Image(i) = m[nodesOrder[i]]

\* What is wanted at the placed nodes.
LEMMA WantedPlaced ==
  ASSUME IInv, NEW m \in Wanted, NEW i \in DOMAIN nodesOrder, NEW j \in DOMAIN nodesOrder,
         i # j
  PROVE  /\ m[nodesOrder[i]] \in NodesOf(data)
         /\ data.label[m[nodesOrder[i]]] = query.label[nodesOrder[i]]
         /\ m[nodesOrder[i]] # m[nodesOrder[j]]
         /\ {nodesOrder[i], nodesOrder[j]} \in DOMAIN query.edge =>
              Linked(data, m[nodesOrder[i]], m[nodesOrder[j]], query.edge[{nodesOrder[i], nodesOrder[j]}])
<1>1. search \in Searches /\ nodesOrder \in Seq(NodesOf(query)) /\ nodesOrder[i] # nodesOrder[j]
  BY DEF IInv, TypeOK, OrderInv
<1>2. nodesOrder[i] \in NodesOf(query) /\ nodesOrder[j] \in NodesOf(query)
  BY <1>1
<1>3. m \in [NodesOf(query) -> NodesOf(data)] /\ Embeds(query, data, m)
  BY <1>1, WantedAre
<1> QED BY <1>1, <1>2, <1>3 DEF Embeds

\* The iterators never reject a node they should stand at.
LEMMA StandsAgree ==
  ASSUME IInv, AtNode, NEW m \in Wanted, StandsAt(m)
  PROVE  Agrees
<1>1. depth \in Nat /\ depth > 0 /\ depth \in DOMAIN nodesOrder
  BY Levels DEF AtNode, Searching
<1> SUFFICES ASSUME NEW i \in 1 .. depth - 1, {nodesOrder[i], nodesOrder[depth]} \in DOMAIN query.edge
             PROVE  Linked(data, Image(i), Image(depth), query.edge[{nodesOrder[i], nodesOrder[depth]}])
  BY DEF Agrees
<1>2. i \in 1 .. depth /\ depth \in 1 .. depth /\ i \in DOMAIN nodesOrder /\ i # depth
  BY <1>1, Levels
<1>3. Image(i) = m[nodesOrder[i]] /\ Image(depth) = m[nodesOrder[depth]]
  BY <1>2 DEF StandsAt
<1> QED BY <1>1, <1>2, <1>3, WantedPlaced

\* The last iterator moves on: only the map it stood at is passed.
LEMMA AheadAdvanced ==
  ASSUME IInv, AtNode, Advance, UNCHANGED <<nodesOrder, done>>, NEW m, Ahead(m), ~StandsAt(m)
  PROVE  Ahead(m)'
<1>1. selected # <<>> /\ ~done
  BY DEF AtNode, Searching
<1>2. PICK k \in 1 .. depth : AheadAt(m, k)
  BY <1>1 DEF Ahead
<1>3. /\ depth \in Nat /\ k \in Nat /\ k <= depth /\ DOMAIN selected = 1 .. depth
      /\ selected \in Seq(SUBSET NodesOf(data)) /\ selected' = [selected EXCEPT ![depth] = Rest(@)]
  BY Levels DEF Advance
<1>4. depth' = depth /\ \A i \in 1 .. depth : i # depth => selected'[i] = selected[i] /\ Image(i)' = Image(i)
  <2>1. \A i \in 1 .. depth : i # depth => selected'[i] = selected[i]
    BY <1>3
  <2>2. Len(selected') = Len(selected)
    BY <1>3
  <2> QED BY <2>1, <2>2 DEF depth, Image
<1>5. \A i \in 1 .. k - 1 : i \in 1 .. depth /\ i # depth
  BY <1>3
<1>6. CASE k # depth
  <2>1. k < depth
    BY <1>3, <1>6
  <2> QED BY <1>1, <1>2, <1>4, <1>5, <1>6, <2>1 DEF Ahead, AheadAt
<1>7. CASE k = depth
  <2>1. \A i \in 1 .. depth - 1 : Image(i) = m[nodesOrder[i]]
    BY <1>2, <1>7 DEF AheadAt
  <2>2. Image(depth) # m[nodesOrder[depth]]
    <3>1. \A i \in 1 .. depth : i = depth \/ i \in 1 .. depth - 1
      BY <1>3
    <3> QED BY <2>1, <3>1 DEF StandsAt
  <2>3. m[nodesOrder[depth]] \in Rest(selected[depth])
    BY <1>2, <1>7, <2>2 DEF AheadAt, Rest, Image
  <2>4. selected'[depth] = Rest(selected[depth])
    BY <1>2, <1>3, <1>7
  <2>5. AheadAt(m, depth)'
    BY <1>3, <1>4, <1>5, <1>7, <2>1, <2>3, <2>4 DEF AheadAt
  <2> QED BY <1>1, <1>2, <1>4, <1>7, <2>5 DEF Ahead
<1> QED BY <1>6, <1>7

\* The candidates that are looked at in full have the node of every map the
\* iterators stand at.
LEMMA CandidateFound ==
  ASSUME DomainsKeep, IInv, CInv, AtNode, ~Full, NEW m \in Wanted, StandsAt(m)
  PROVE  m[next] \in Near(data, Image(Source)) /\ Fits(m[next]) /\ Joined(m[next])
<1> DEFINE n == depth + 1
<1>1. /\ depth \in Nat /\ depth > 0 /\ n \in 2 .. Len(nodesOrder) /\ n - 1 = depth
      /\ nodesOrder \in Seq(NodesOf(query)) /\ n \in DOMAIN nodesOrder
      /\ \A i \in 1 .. depth : i \in DOMAIN nodesOrder /\ i # n
  <2>1. depth = Len(selected) /\ depth \in Nat /\ nodesOrder \in Seq(NodesOf(query)) /\ depth <= Len(nodesOrder)
    BY Levels
  <2>2. depth # 0 /\ depth # Len(nodesOrder)
    <3>1. selected \in Seq(SUBSET NodesOf(data)) /\ selected # <<>>
      BY Levels DEF AtNode, Searching
    <3> QED BY <2>1, <3>1 DEF Full
  <2>3. PICK l \in Nat : l = Len(nodesOrder) /\ DOMAIN nodesOrder = 1 .. l
    BY <2>1
  <2>4. depth > 0 /\ n \in 2 .. l /\ n - 1 = depth /\ n \in 1 .. l
    BY <2>1, <2>2, <2>3
  <2>5. \A i \in 1 .. depth : i \in 1 .. l /\ i # n
    BY <2>1, <2>4
  <2> QED BY <2>1, <2>3, <2>4, <2>5
<1>2. next = nodesOrder[n] /\ next \in NodesOf(query) /\ search \in Searches
  BY <1>1 DEF next, IInv, TypeOK
<1>3. \A i \in 1 .. depth : Image(i) = m[nodesOrder[i]]
  BY DEF StandsAt
<1> DEFINE T == {i \in 1 .. depth : {nodesOrder[i], next} \in DOMAIN query.edge}
<1>4. Source \in T
  <2>1. PICK i \in 1 .. n - 1 : {nodesOrder[i], nodesOrder[n]} \in DOMAIN query.edge
    BY <1>1 DEF CInv, ReachedInv
  <2>2. i \in T /\ T \subseteq Nat
    BY <1>1, <1>2, <2>1
  <2> HIDE DEF T
  <2>3. PICK s \in T : \A j \in T : s <= j
    BY <2>2, NatLeast
  <2>4. /\ s \in 1 .. depth /\ {nodesOrder[s], next} \in DOMAIN query.edge
        /\ \A j \in 1 .. s - 1 : j \notin T
    <3>1. s \in 1 .. depth /\ {nodesOrder[s], next} \in DOMAIN query.edge
      BY <2>3 DEF T
    <3>2. ASSUME NEW j \in 1 .. s - 1 PROVE j \notin T
      <4>1. j < s
        BY <2>2
      <4>2. \A x \in T : s <= x /\ x \in Nat
        BY <2>2, <2>3
      <4> QED BY <2>2, <4>1, <4>2
    <3> QED BY <3>1, <3>2
  <2>5. \A j \in 1 .. s - 1 : {nodesOrder[j], next} \notin DOMAIN query.edge
    <3>1. \A j \in 1 .. s - 1 : j \in 1 .. depth
      BY <1>1, <2>4
    <3> QED BY <2>4, <3>1 DEF T
  <2>6. /\ Source \in 1 .. depth
        /\ {nodesOrder[Source], next} \in DOMAIN query.edge
    BY <2>4, <2>5 DEF Source
  <2> QED BY <2>6 DEF T
<1>5. \A i \in 1 .. depth :
        /\ m[next] \in NodesOf(data) /\ data.label[m[next]] = query.label[next]
        /\ m[next] # m[nodesOrder[i]]
        /\ {nodesOrder[i], next} \in DOMAIN query.edge =>
             Linked(data, m[next], m[nodesOrder[i]], query.edge[{nodesOrder[i], next}])
  <2> SUFFICES ASSUME NEW i \in 1 .. depth
               PROVE  /\ m[next] \in NodesOf(data) /\ data.label[m[next]] = query.label[next]
                      /\ m[next] # m[nodesOrder[i]]
                      /\ {nodesOrder[i], next} \in DOMAIN query.edge =>
                           Linked(data, m[next], m[nodesOrder[i]], query.edge[{nodesOrder[i], next}])
    OBVIOUS
  <2>1. {nodesOrder[n], nodesOrder[i]} = {nodesOrder[i], nodesOrder[n]}
    OBVIOUS
  <2>2. /\ m[nodesOrder[n]] \in NodesOf(data)
        /\ data.label[m[nodesOrder[n]]] = query.label[nodesOrder[n]]
        /\ m[nodesOrder[n]] # m[nodesOrder[i]]
        /\ {nodesOrder[n], nodesOrder[i]} \in DOMAIN query.edge =>
             Linked(data, m[nodesOrder[n]], m[nodesOrder[i]], query.edge[{nodesOrder[n], nodesOrder[i]}])
    <3>1. n \in DOMAIN nodesOrder /\ i \in DOMAIN nodesOrder /\ n # i
      BY <1>1
    <3> HIDE DEF n
    <3> QED BY <3>1, WantedPlaced
  <2> QED BY <1>2, <2>1, <2>2
<1> HIDE DEF T
<1>6. Source \in 1 .. depth /\ {nodesOrder[Source], next} \in DOMAIN query.edge
  BY <1>4 DEF T
<1>7. m[next] \in Near(data, Image(Source))
  <2>1. {m[next], Image(Source)} \in DOMAIN data.edge /\ m[next] \in NodesOf(data)
    BY <1>3, <1>5, <1>6 DEF Linked
  <2>2. {m[next], Image(Source)} = {Image(Source), m[next]}
    OBVIOUS
  <2> QED BY <2>1, <2>2 DEF Near
<1>8. Fits(m[next])
  <2>1. m[next] \notin selectedDataMap
    <3>1. \A x \in selectedDataMap : \E i \in 1 .. depth : x \in At(selected[i])
      BY DEF IInv, LevelInv
    <3>2. \A i \in 1 .. depth : \A x \in At(selected[i]) : x = Image(i)
      BY DEF At, Image
    <3> QED BY <1>3, <1>5, <3>1, <3>2
  <2>2. search.domains # <<>> => m[next] \in search.domains[next]
    BY <1>2, WantedInDomains
  <2> QED BY <1>5, <1>6, <2>1, <2>2 DEF Fits
<1>9. Joined(m[next])
  BY <1>3, <1>5 DEF Joined
<1> QED BY <1>7, <1>8, <1>9

LEMMA VisitComplete ==
  ASSUME IInv, CInv, Visit
  PROVE  CompleteInv'
<1>1. UNCHANGED <<search, selected, results, postponed, over, done>> /\ toCheck # <<>> /\ selected = <<>>
  BY DEF Visit, IInv, OrderInv
<1>2. \A m : Ahead(m) => Ahead(m)'
  BY <1>1 DEF Ahead
<1> QED BY <1>1, <1>2, WantedFrame DEF CInv, CompleteInv

LEMMA StartComplete ==
  ASSUME IInv, CInv, Start
  PROVE  CompleteInv'
<1>1. /\ UNCHANGED <<search, toCheck, nodesOrder, results, postponed, over>>
      /\ toCheck = <<>> /\ selected = <<>> /\ ~done /\ ~over /\ search \in Searches
  BY DEF Start, CInv, AnswerInv, IInv, TypeOK
<1>2. 1 \in DOMAIN nodesOrder /\ nodesOrder[1] \in NodesOf(query)
  BY <1>1 DEF IInv, TypeOK, OrderInv
<1>3. \A m \in Wanted : m[nodesOrder[1]] \in Roots
  <2> SUFFICES ASSUME NEW m \in Wanted PROVE m[nodesOrder[1]] \in Roots
    OBVIOUS
  <2>1. CASE restricted
    <3>1. m[search.col] = search.node /\ nodesOrder[1] = search.col
      BY <1>1, <1>2, <2>1, WantedAre DEF IInv, OrderInv
    <3> QED BY <2>1, <3>1 DEF Roots
  <2>2. CASE ~restricted
    <3>1. m \in [NodesOf(query) -> NodesOf(data)] /\ Embeds(query, data, m)
      BY <1>1, WantedAre
    <3> QED BY <1>2, <2>2, <3>1 DEF Roots, getNodesByLabel, Embeds
  <2> QED BY <2>1, <2>2
<1>4. CASE Roots = {}
  BY <1>1, <1>3, <1>4, WantedFrame DEF CompleteInv
<1>5. CASE Roots # {}
  <2>1. selected' = <<Roots>> /\ ~done'
    BY <1>1, <1>5 DEF Start
  <2>2. depth' = 1 /\ selected'[1] = Roots
    BY <2>1 DEF depth
  <2>3. ASSUME NEW m \in Wanted PROVE Ahead(m)'
    <3>1. AheadAt(m, 1)'
      BY <1>1, <1>3, <2>2 DEF AheadAt
    <3> QED BY <2>1, <2>2, <3>1 DEF Ahead
  <2> QED BY <1>1, <2>1, <2>3, WantedFrame DEF CompleteInv
<1> QED BY <1>4, <1>5

LEMMA PostponeComplete ==
  ASSUME Postpone
  PROVE  CompleteInv'
BY DEF Postpone, GivesUp, CompleteInv

\* What lies ahead of an exhausted last level lies at a level that has more.
LEMMA BacktrackComplete ==
  ASSUME IInv, CInv, Backtrack
  PROVE  CompleteInv'
<1>1. /\ UNCHANGED <<search, toCheck, nodesOrder, results, postponed>> /\ MayRunOver
      /\ selected # <<>> /\ ~done /\ selected[depth] = {} /\ (over => ~search.postponing)
  BY DEF Backtrack, Searching, GivesUp
<1>2. over => over'
  BY <1>1 DEF MayRunOver
<1>3. ASSUME NEW m, Ahead(m)
      PROVE  \E k \in 1 .. depth - 1 : AheadAt(m, k) /\ m[nodesOrder[k]] \in Rest(selected[k])
  <2>1. PICK k \in 1 .. depth : AheadAt(m, k)
    BY <1>1, <1>3 DEF Ahead
  <2>2. k # depth
    BY <1>1, <2>1 DEF AheadAt
  <2>3. k \in 1 .. depth - 1 /\ k < depth
    BY <2>2, Levels
  <2>4. m[nodesOrder[k]] \in Rest(selected[k])
    BY <2>1, <2>3 DEF AheadAt, Rest, Image
  <2> QED BY <2>1, <2>3, <2>4
<1>4. CASE \A j \in 1 .. depth - 1 : Rest(selected[j]) = {}
  <2>1. ~over => \A m \in Wanted : Settled(m)
    BY <1>3, <1>4 DEF CInv, CompleteInv
  <2> QED BY <1>1, <1>2, <2>1, WantedFrame DEF CompleteInv
<1>5. ASSUME NEW k \in 1 .. depth - 1, UNCHANGED done,
             \A j \in k + 1 .. depth - 1 : Rest(selected[j]) = {},
             selected' = [i \in 1 .. k |-> IF i = k THEN Rest(selected[k]) ELSE selected[i]]
      PROVE  CompleteInv'
  <2>1. depth \in Nat /\ k \in Nat /\ \A i \in 1 .. k - 1 : i \in 1 .. k /\ i # k
    BY Levels
  <2>2. /\ selected'[k] = Rest(selected[k])
        /\ \A i \in 1 .. k - 1 : selected'[i] = selected[i]
    BY <1>5, <2>1
  <2>3. depth' = k
    <3>1. DOMAIN selected' = 1 .. k
      BY <1>5
    <3>2. selected' \in Seq({selected'[i] : i \in 1 .. k})
      BY <1>5, <2>1
    <3> QED BY <2>1, <3>1, <3>2 DEF depth
  <2>4. \A i \in 1 .. k - 1 : Image(i)' = Image(i)
    BY <2>2 DEF Image
  <2>5. ASSUME NEW m, Ahead(m) PROVE Ahead(m)'
    <3>1. PICK l \in 1 .. depth - 1 : AheadAt(m, l) /\ m[nodesOrder[l]] \in Rest(selected[l])
      BY <1>3, <2>5
    <3>2. l \in 1 .. k /\ l \in Nat
      <4>1. l \notin k + 1 .. depth - 1
        BY <1>5, <3>1
      <4> QED BY <2>1, <4>1
    <3>3. \A i \in 1 .. l - 1 : i \in 1 .. k - 1
      BY <2>1, <3>2
    <3>4. \A i \in 1 .. l - 1 : Image(i)' = m[nodesOrder'[i]]
      BY <1>1, <2>4, <3>1, <3>3 DEF AheadAt
    <3>5. CASE l = k
      <4>1. AheadAt(m, k)'
        BY <1>1, <2>1, <2>2, <2>3, <3>1, <3>4, <3>5 DEF AheadAt
      <4> QED BY <1>1, <1>5, <2>3, <3>2, <3>5, <4>1 DEF Ahead
    <3>6. CASE l # k
      <4>1. l \in 1 .. k - 1 /\ l < depth
        BY <2>1, <3>2, <3>6
      <4>2. Image(l)' # m[nodesOrder'[l]] /\ m[nodesOrder'[l]] \in selected'[l]
        BY <1>1, <2>2, <2>4, <3>1, <4>1 DEF AheadAt
      <4>3. AheadAt(m, l)'
        BY <3>4, <4>2 DEF AheadAt
      <4> QED BY <1>1, <1>5, <2>3, <3>2, <4>3 DEF Ahead
    <3> QED BY <3>5, <3>6
  <2> QED BY <1>1, <1>2, <1>5, <2>5, WantedFrame DEF CInv, CompleteInv
<1> QED BY <1>4, <1>5 DEF Backtrack

LEMMA RejectComplete ==
  ASSUME IInv, CInv, Reject
  PROVE  CompleteInv'
<1>1. /\ AtNode /\ ~Agrees /\ Advance /\ UNCHANGED <<search, nodesOrder, results, done>>
      /\ ~done /\ MayRunOver
  BY DEF Reject, AtNode, Searching
<1>2. over => over'
  BY <1>1 DEF MayRunOver
<1>3. \A m \in Wanted : Ahead(m) => Ahead(m)'
  BY <1>1, StandsAgree, AheadAdvanced
<1> QED BY <1>1, <1>2, <1>3, WantedFrame DEF CInv, CompleteInv

LEMMA FoundComplete ==
  ASSUME IInv, CInv, Found
  PROVE  CompleteInv'
<1> DEFINE r == [v \in {nodesOrder[i] : i \in 1 .. depth} |-> ImageOf(v)]
<1>1. /\ AtNode /\ Agrees /\ Full /\ UNCHANGED <<search, nodesOrder>>
      /\ results' = results \union {r} /\ ~done /\ MayRunOver /\ search \in Searches
      /\ IF restricted THEN done' = TRUE ELSE Advance /\ UNCHANGED done
  BY DEF Found, AtNode, Searching, IInv, TypeOK
<1>2. over => over'
  BY <1>1 DEF MayRunOver
<1>3. /\ r \in [NodesOf(query) -> NodesOf(data)]
      /\ \A i \in 1 .. depth : r[nodesOrder[i]] = Image(i)
      /\ NodesOf(query) = {nodesOrder[i] : i \in 1 .. depth}
  BY <1>1, Noted
<1> HIDE DEF r
<1>4. ASSUME NEW m \in Wanted, StandsAt(m)
      PROVE  m = r
  <2>1. m \in [NodesOf(query) -> NodesOf(data)]
    BY <1>1, WantedAre
  <2>2. \A v \in NodesOf(query) : m[v] = r[v]
    BY <1>3, <1>4 DEF StandsAt
  <2> QED BY <1>3, <2>1, <2>2
<1>5. results \subseteq results' /\ r \in results'
  BY <1>1
<1>6. CASE restricted
  <2>1. \A m : Settled(m)'
    BY <1>1, <1>5, <1>6 DEF Settled, restricted
  <2> QED BY <2>1 DEF CompleteInv
<1>7. CASE ~restricted
  <2>1. \A m \in Wanted : Ahead(m) => Ahead(m)' \/ m \in results'
    BY <1>1, <1>4, <1>5, <1>7, AheadAdvanced
  <2>2. \A m \in Wanted : Settled(m) \/ Ahead(m) => Settled(m)' \/ Ahead(m)'
    BY <1>1, <1>5, <2>1, WantedFrame DEF Settled
  <2>3. ~done'
    BY <1>1, <1>7
  <2> QED BY <1>1, <1>2, <2>2, <2>3, WantedFrame DEF CInv, CompleteInv
<1> QED BY <1>6, <1>7

LEMMA ExtendComplete ==
  ASSUME DomainsKeep, IInv, CInv, Extend
  PROVE  CompleteInv'
<1>1. /\ AtNode /\ ~Full /\ MayRunOver /\ UNCHANGED <<search, nodesOrder, results, done>>
      /\ ~done /\ selected # <<>>
  BY DEF Extend, AtNode, Searching
<1>2. PICK S \in SUBSET Near(data, Image(Source)) :
        /\ Candidates(S)
        /\ IF S = {} THEN Advance
           ELSE selected' = Append(selected, S) /\ selectedDataMap' = selectedDataMap \union {Cur(S)}
  BY DEF Extend
<1>3. over => over'
  BY <1>1 DEF MayRunOver
<1>4. ASSUME ~over', NEW m \in Wanted, StandsAt(m)
      PROVE  m[next] \in S
  <2>1. S = {v \in {u \in Near(data, Image(Source)) : Fits(u)} : Joined(v)}
    BY <1>2, <1>3, <1>4 DEF Candidates
  <2> QED BY <1>1, <1>4, <2>1, CandidateFound
<1>5. ASSUME ~over', NEW m \in Wanted, Ahead(m)
      PROVE  Ahead(m)'
  <2>1. CASE S = {}
    BY <1>1, <1>2, <1>4, <1>5, <2>1, AheadAdvanced
  <2>2. CASE S # {}
    <3>1. /\ depth \in Nat /\ Len(selected) = depth /\ selected \in Seq(SUBSET NodesOf(data))
          /\ S \in SUBSET NodesOf(data) /\ selected' = Append(selected, S)
      BY <1>2, <2>2, Levels DEF Near
    <3>2. /\ depth' = depth + 1 /\ selected'[depth + 1] = S
          /\ \A i \in 1 .. depth : selected'[i] = selected[i]
      BY <3>1 DEF depth
    <3>3. \A i \in 1 .. depth : Image(i)' = Image(i) /\ i \in 1 .. depth + 1 /\ i < depth + 1
      BY <3>1, <3>2 DEF Image
    <3>4. CASE StandsAt(m)
      <4>1. m[nodesOrder[depth + 1]] \in S
        BY <1>4, <1>5, <3>4 DEF next
      <4>2. PICK d \in Nat : d = depth + 1
        BY <3>1
      <4>3. d \in 1 .. d /\ ~(d < d) /\ \A i \in 1 .. d - 1 : i \in 1 .. depth
        BY <3>1, <4>2
      <4>4. \A i \in 1 .. d - 1 : Image(i)' = m[nodesOrder'[i]]
        BY <1>1, <3>3, <3>4, <4>3 DEF StandsAt
      <4>5. depth' = d /\ selected'[d] = S /\ m[nodesOrder'[d]] \in S
        BY <1>1, <3>2, <4>1, <4>2
      <4>6. AheadAt(m, d)'
        BY <4>3, <4>4, <4>5 DEF AheadAt
      <4> QED BY <1>1, <4>3, <4>5, <4>6 DEF Ahead
    <3>5. CASE ~StandsAt(m)
      <4>1. PICK k \in 1 .. depth : AheadAt(m, k)
        BY <1>1, <1>5 DEF Ahead
      <4>2. k \in 1 .. depth + 1 /\ k < depth + 1 /\ \A i \in 1 .. k - 1 : i \in 1 .. depth
        BY <3>1, <4>1
      <4>3. Image(k) # m[nodesOrder[k]]
        <5>1. CASE k < depth
          BY <4>1, <5>1 DEF AheadAt
        <5>2. CASE k = depth
          <6>1. \A i \in 1 .. depth : i = depth \/ i \in 1 .. depth - 1
            BY <3>1
          <6> QED BY <3>5, <4>1, <5>2, <6>1 DEF AheadAt, StandsAt
        <5> QED BY <3>1, <4>1, <5>1, <5>2
      <4>4. AheadAt(m, k)'
        BY <1>1, <3>2, <3>3, <4>1, <4>2, <4>3 DEF AheadAt
      <4> QED BY <1>1, <3>2, <4>2, <4>4 DEF Ahead
    <3> QED BY <3>4, <3>5
  <2> QED BY <2>1, <2>2
<1> QED BY <1>1, <1>3, <1>5, WantedFrame DEF CInv, CompleteInv

LEMMA NextCInv ==
  ASSUME DomainsKeep, IInv, CInv, [Next]_vars
  PROVE  CInv'
<1>1. AnswerInv'
  BY NextAnswer
<1>2. ReachedInv'
  <2>1. CASE Visit
    BY <2>1, VisitReached
  <2>2. CASE UNCHANGED <<search, toCheck, nodesOrder>>
    BY <2>2, ReachedFrame
  <2> QED BY <2>1, <2>2 DEF Next, vars, Start, Postpone, Backtrack, Reject, Found, Extend
<1>3. CompleteInv'
  <2>1. CASE UNCHANGED vars
    <3>1. \A m : Ahead(m)' = Ahead(m)
      BY <2>1 DEF vars, Ahead, AheadAt, depth, Image
    <3> QED BY <2>1, <3>1, WantedFrame DEF vars, CInv, CompleteInv
  <2> QED BY <2>1, VisitComplete, StartComplete, PostponeComplete, BacktrackComplete, RejectComplete,
             FoundComplete, ExtendComplete DEF Next
<1> QED BY <1>1, <1>2, <1>3 DEF CInv
-----------------------------------------------------------------------------
(* The theorems.                                                            *)

LEMMA NextIInv == IInv /\ [Next]_vars => IInv'
<1> SUFFICES ASSUME IInv, [Next]_vars PROVE IInv'
  OBVIOUS
<1>1. CASE UNCHANGED vars
  <2>1. UNCHANGED <<search, toCheck, nodesOrder, selected, selectedDataMap, results>>
    BY <1>1 DEF vars
  <2>2. TypeOK'
    BY <2>1 DEF IInv, TypeOK, query, data, depth
  <2>3. OrderInv'
    BY <2>1, OrderFrame DEF IInv, OrderInv
  <2> QED BY <2>1, <2>2, <2>3, LevelFrame, ResultsFrame DEF IInv
<1> QED BY <1>1, VisitIInv, StartIInv, PostponeIInv, BacktrackIInv, RejectIInv, FoundIInv, ExtendIInv DEF Next

\* The stack of iterators, the order and the map of nodes in use agree at every
\* step of the search (GraphX::isIsomorphic).
THEOREM Invariance == Spec => []IInv
BY InitIInv, NextIInv, PTL DEF Spec

\* No search, however it is cut short, notes an answer that is none
\* (GraphX.cpp, checkCurrentStatus).
THEOREM SearchSound == Spec => []ResultsSound
<1>1. IInv => ResultsSound
  BY DEF IInv
<1> QED BY <1>1, Invariance, PTL

\* The map of data nodes in use is the set of nodes the iterators stand at, each
\* at one level only (GraphX::isIsomorphic, selectedDataMap).
THEOREM SearchMap == Spec => []MapIsSelected
<1>1. IInv => MapIsSelected
  <2> SUFFICES ASSUME IInv PROVE MapIsSelected
    OBVIOUS
  <2>1. selectedDataMap = UNION {At(selected[i]) : i \in 1 .. depth}
    BY DEF IInv, LevelInv
  <2>2. ASSUME NEW i \in 1 .. depth, NEW j \in 1 .. depth, i # j
        PROVE  At(selected[i]) \intersect At(selected[j]) = {}
    <3>1. CASE selected[i] # {} /\ selected[j] # {}
      <4>1. At(selected[i]) = {Image(i)} /\ At(selected[j]) = {Image(j)} /\ Image(i) # Image(j)
        BY <2>2, <3>1, Levels
      <4> QED BY <4>1
    <3>2. CASE selected[i] = {} \/ selected[j] = {}
      BY <3>2 DEF At
    <3> QED BY <3>1, <3>2
  <2> QED BY <2>1, <2>2 DEF MapIsSelected
<1> QED BY <1>1, Invariance, PTL

\* A search that was not cut short, or had a set for postponed nodes, says the
\* truth: a restricted one that found nothing had nothing to find or postponed the
\* node, a free one has noted every map of the query into the data graph
\* (GraphX::isIsomorphic, the loop over selected).  The domains it is given must
\* not leave out a node of an answer.
THEOREM SearchComplete == ASSUME DomainsKeep PROVE Spec => []AnswersRight
<1>1. Init => CInv
  BY InitCInv
<1>2. IInv /\ CInv /\ [Next]_vars => CInv'
  BY NextCInv
<1>3. IInv /\ CInv => AnswersRight
  <2> SUFFICES ASSUME IInv, CInv, done, search.postponing \/ ~over
               PROVE  /\ restricted => (results # {} \/ postponed \/ Wanted = {})
                      /\ ~restricted /\ ~postponed => results = Wanted
                      /\ postponed => results = {} \/ ~restricted
    BY DEF AnswersRight
  <2>1. ~postponed => \A m \in Wanted : Settled(m)
    BY DEF CInv, CompleteInv
  <2>2. \A m \in results : ~restricted => m \in Wanted
    <3>1. search \in Searches /\ results \subseteq [NodesOf(query) -> NodesOf(data)]
      BY DEF IInv, TypeOK, CInv, AnswerInv
    <3>2. \A m \in results : Embeds(query, data, m)
      BY DEF IInv, ResultsSound
    <3> QED BY <3>1, <3>2, WantedAre
  <2>3. restricted /\ postponed => results = {}
    BY DEF CInv, AnswerInv
  <2> QED BY <2>1, <2>2, <2>3 DEF Settled
<1> QED BY <1>1, <1>2, <1>3, Invariance, PTL DEF Spec
=============================================================================
