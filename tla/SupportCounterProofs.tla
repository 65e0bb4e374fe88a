------------------------ MODULE SupportCounterProofs ------------------------
(***************************************************************************)
(* The proofs that counting is right, with the invariant IInv of           *)
(* SupportCounter, for any connected patterns and any data graphs: no      *)
(* image is pruned, the parts add up, and a pattern is decided as its      *)
(* support asks for.                                                       *)
(*                                                                         *)
(* In order: what an embedding keeps; the walk of isItAcyclic, and that in *)
(* a pattern it accepts every consistent choice of nodes is an embedding;  *)
(* the support; parts; the order of the columns; then one lemma for each   *)
(* step of a count.                                                        *)
(***************************************************************************)
EXTENDS SupportCounter, LabelledGraphProofs

-----------------------------------------------------------------------------
(* Embeddings.                                                              *)

\* What an embedding keeps.
LEMMA Kept ==
  ASSUME NEW q, IsPattern(q), NEW g, NEW m \in Embeddings(q, g)
  PROVE  /\ m \in [NodesOf(q) -> NodesOf(g)]
         /\ \A c \in NodesOf(q) : g.label[m[c]] = q.label[c]
         /\ \A c, d \in NodesOf(q) : c # d => m[c] # m[d]
         /\ \A c, d \in NodesOf(q) : {c, d} \in DOMAIN q.edge => Linked(g, m[c], m[d], q.edge[{c, d}])
<1>1. m \in [NodesOf(q) -> NodesOf(g)] /\ Embeds(q, g, m)
  <2>1. NodesOf(q) \subseteq Int /\ IsFiniteSet(NodesOf(q))
    BY DEF IsPattern
  <2> QED BY <2>1, EmbeddingsAre
<1>2. DOMAIN m = NodesOf(q)
  BY <1>1
<1> QED BY <1>1, <1>2 DEF Embeds

\* A node has as many neighbours as its image, at most.
LEMMA DegreeKept ==
  ASSUME NEW q, IsPattern(q), NEW g, IsFiniteSet(NodesOf(g)), NEW m \in Embeddings(q, g), NEW c \in NodesOf(q)
  PROVE  Degree(g, m[c]) \in Nat /\ Degree(q, c) \in Nat /\ Degree(g, m[c]) >= Degree(q, c)
<1> DEFINE f == [d \in Near(q, c) |-> m[d]]
<1>1. f \in [Near(q, c) -> Near(g, m[c])]
  <2> SUFFICES ASSUME NEW d \in Near(q, c) PROVE m[d] \in Near(g, m[c])
    OBVIOUS
  <2>1. d \in NodesOf(q) /\ {c, d} \in DOMAIN q.edge
    BY DEF Near
  <2>2. m[d] \in NodesOf(g) /\ Linked(g, m[c], m[d], q.edge[{c, d}])
    BY <2>1, Kept
  <2> QED BY <2>2 DEF Near, Linked
<1>2. \A x, y \in Near(q, c) : f[x] = f[y] => x = y
  <2>1. Near(q, c) \subseteq NodesOf(q)
    BY DEF Near
  <2> QED BY <2>1, Kept
<1>3. f \in Injection(Near(q, c), Near(g, m[c]))
  <2> HIDE DEF f
  <2> QED BY <1>1, <1>2 DEF Injection, IsInjective
<1>4. IsFiniteSet(Near(g, m[c])) /\ IsFiniteSet(Near(q, c))
  <2>1. Near(g, m[c]) \subseteq NodesOf(g) /\ Near(q, c) \subseteq NodesOf(q)
    BY DEF Near
  <2>2. IsFiniteSet(NodesOf(q))
    BY DEF IsPattern
  <2> QED BY <2>1, <2>2, FS_Subset
<1>5. Cardinality(Near(q, c)) <= Cardinality(Near(g, m[c]))
  <2> HIDE DEF f
  <2> QED BY <1>3, <1>4, FS_Injection
<1> QED BY <1>4, <1>5, FS_CardinalityType DEF Degree

-----------------------------------------------------------------------------
(* isItAcyclic.                                                             *)

\* The walk that it takes, as a sequence of its states.
States(q) == [visited : SUBSET NodesOf(q), queue : Seq(NodesOf(q)), ok : BOOLEAN]
Visit(q, s) ==
  LET v == Head(s.queue)
      seen == s.visited \union {v}
  IN [visited |-> seen,
      queue |-> Tail(s.queue) \o SetToSeqById(Near(q, v) \ seen),
      ok |-> Cardinality(Near(q, v) \intersect seen) <= 1]
Halts(q, s) == s.visited = NodesOf(q) \/ s.queue = <<>> \/ ~s.ok
Walked(q, s) == IF Halts(q, s) THEN s ELSE Visit(q, s)
Start == [visited |-> {}, queue |-> <<0>>, ok |-> TRUE]
IsWalk(q, f) == f = [n \in Nat |-> IF n = 0 THEN Start ELSE Walked(q, f[n - 1])]

LEMMA NearAre ==
  ASSUME NEW q, IsPattern(q), NEW v \in NodesOf(q)
  PROVE  /\ Near(q, v) \subseteq NodesOf(q) /\ v \notin Near(q, v)
         /\ IsFiniteSet(Near(q, v))
         /\ \A w \in NodesOf(q) : w \in Near(q, v) <=> {v, w} \in DOMAIN q.edge
         /\ \A w \in NodesOf(q) : w \in Near(q, v) <=> v \in Near(q, w)
<1>1. v \notin Near(q, v)
  <2>1. ASSUME {v, v} \in DOMAIN q.edge PROVE FALSE
    <3>1. PICK a, b \in NodesOf(q) : a # b /\ {v, v} = {a, b}
      BY <2>1 DEF IsPattern
    <3>2. a \in {v, v} /\ b \in {v, v}
      BY <3>1
    <3> QED BY <3>1, <3>2
  <2> QED BY <2>1 DEF Near
<1>2. \A w : {v, w} = {w, v}
  OBVIOUS
<1>3. Near(q, v) \subseteq NodesOf(q) /\ IsFiniteSet(NodesOf(q))
  BY DEF Near, IsPattern
<1> QED BY <1>1, <1>2, <1>3, FS_Subset DEF Near

LEMMA JoinedSet ==
  ASSUME NEW X, NEW a \in Seq(X), NEW b \in Seq(X)
  PROVE  /\ ToSet(a \o b) = ToSet(a) \union ToSet(b)
         /\ Len(a \o b) = Len(a) + Len(b)
         /\ \A k \in 1 .. Len(a) : (a \o b)[k] = a[k]
         /\ \A k \in Len(a) + 1 .. Len(a) + Len(b) : (a \o b)[k] = b[k - Len(a)]
<1>1. /\ Len(a \o b) = Len(a) + Len(b)
      /\ \A k \in 1 .. Len(a) : (a \o b)[k] = a[k]
      /\ \A k \in Len(a) + 1 .. Len(a) + Len(b) : (a \o b)[k] = b[k - Len(a)]
  OBVIOUS
<1>2. DOMAIN (a \o b) = 1 .. Len(a) + Len(b) /\ DOMAIN a = 1 .. Len(a) /\ DOMAIN b = 1 .. Len(b) /\ Len(a) \in Nat /\ Len(b) \in Nat
  OBVIOUS
<1>3. PICK c : c = a \o b
  OBVIOUS
<1>4. ASSUME NEW x \in ToSet(a) PROVE x \in ToSet(c)
  <2>1. PICK k \in 1 .. Len(a) : a[k] = x
    BY <1>2 DEF ToSet
  <2>2. k \in 1 .. Len(a) + Len(b)
    BY <1>2
  <2> QED BY <1>1, <1>2, <1>3, <2>1, <2>2 DEF ToSet
<1>5. ASSUME NEW x \in ToSet(b) PROVE x \in ToSet(c)
  <2>1. PICK k \in 1 .. Len(b) : b[k] = x
    BY <1>2 DEF ToSet
  <2>2. k + Len(a) \in Len(a) + 1 .. Len(a) + Len(b) /\ (k + Len(a)) - Len(a) = k /\ k + Len(a) \in 1 .. Len(a) + Len(b)
    BY <1>2
  <2>3. c[k + Len(a)] = x
    BY <1>1, <1>3, <2>1, <2>2
  <2> QED BY <1>2, <1>3, <2>2, <2>3 DEF ToSet
<1>6. ASSUME NEW x \in ToSet(c) PROVE x \in ToSet(a) \union ToSet(b)
  <2>1. PICK k \in 1 .. Len(a) + Len(b) : c[k] = x
    BY <1>2, <1>3 DEF ToSet
  <2>2. CASE k \in 1 .. Len(a)
    BY <1>1, <1>2, <1>3, <2>1, <2>2 DEF ToSet
  <2>3. CASE k \notin 1 .. Len(a)
    <3>1. k \in Len(a) + 1 .. Len(a) + Len(b) /\ k - Len(a) \in 1 .. Len(b)
      BY <1>2, <2>1, <2>3
    <3>2. b[k - Len(a)] = x
      BY <1>1, <1>3, <2>1, <3>1
    <3> QED BY <1>2, <3>1, <3>2 DEF ToSet
  <2> QED BY <2>2, <2>3
<1> QED BY <1>1, <1>3, <1>4, <1>5, <1>6

LEMMA SeqById ==
  ASSUME NEW X, NEW S, S \subseteq X, S \subseteq Int, IsFiniteSet(S)
  PROVE  SetToSeqById(S) \in Seq(X) /\ Len(SetToSeqById(S)) = Cardinality(S) /\ ToSet(SetToSeqById(S)) = S
<1> DEFINE e(k) == CHOOSE w \in S : Cardinality({u \in S : u < w}) = k - 1
           F == [k \in 1 .. Cardinality(S) |-> e(k)]
<1>1. DOMAIN F = 1 .. Cardinality(S) /\ F = [k \in DOMAIN F |-> F[k]]
  <2> HIDE DEF e
  <2> QED OBVIOUS
<1>2. SetToSeqById(S) = F
  BY Zenon DEF SetToSeqById
<1> HIDE DEF F
<1>3. /\ Cardinality(S) \in Nat
      /\ \A k \in 1 .. Cardinality(S) : F[k] \in S
      /\ \A w \in S : \E k \in 1 .. Cardinality(S) : F[k] = w
  BY <1>2, Ranked
<1>4. F \in Seq(X) /\ Len(F) = Cardinality(S)
  BY <1>1, <1>3
<1> QED BY <1>1, <1>2, <1>3, <1>4 DEF ToSet

\* What a step does to the queue.
LEMMA VisitIs ==
  ASSUME NEW q, IsPattern(q), NEW s \in States(q), s.queue # <<>>
  PROVE  /\ Head(s.queue) \in ToSet(s.queue) /\ Visit(q, s) \in States(q)
         /\ ToSet(Visit(q, s).queue) = ToSet(Tail(s.queue)) \union (Near(q, Head(s.queue)) \ (s.visited \union {Head(s.queue)}))
<1> DEFINE v == Head(s.queue)
           seen == s.visited \union {v}
           new == Near(q, v) \ seen
           more == SetToSeqById(new)
<1>1. s.queue \in Seq(NodesOf(q)) /\ s.visited \in SUBSET NodesOf(q)
  BY DEF States
<1>2. v \in NodesOf(q) /\ v = s.queue[1] /\ 1 \in DOMAIN s.queue /\ Tail(s.queue) \in Seq(NodesOf(q))
  BY <1>1
<1>3. new \subseteq NodesOf(q) /\ new \subseteq Int /\ IsFiniteSet(new) /\ IsFiniteSet(seen \intersect Near(q, v))
  <2>1. Near(q, v) \subseteq NodesOf(q) /\ IsFiniteSet(Near(q, v))
    BY <1>2, NearAre
  <2>2. NodesOf(q) \subseteq Int
    BY DEF IsPattern
  <2>3. IsFiniteSet(new) /\ IsFiniteSet(seen \intersect Near(q, v))
    BY <2>1, FS_Subset
  <2> QED BY <2>1, <2>2, <2>3
<1>4. more \in Seq(NodesOf(q)) /\ Len(more) = Cardinality(new) /\ ToSet(more) = new
  <2> HIDE DEF new
  <2> QED BY <1>3, SeqById
<1>5. v \in ToSet(s.queue)
  BY <1>2 DEF ToSet
<1>6. Visit(q, s).queue = Tail(s.queue) \o more /\ Visit(q, s).visited = seen
  BY DEF Visit
<1> HIDE DEF more, new
<1>7. ToSet(Tail(s.queue) \o more) = ToSet(Tail(s.queue)) \union ToSet(more)
  <2>1. PICK a, b, X : a = Tail(s.queue) /\ b = more /\ X = NodesOf(q)
    OBVIOUS
  <2>2. a \in Seq(X) /\ b \in Seq(X)
    BY <1>2, <1>4, <2>1
  <2>3. ToSet(a \o b) = ToSet(a) \union ToSet(b)
    BY <2>2, JoinedSet
  <2> QED BY <2>1, <2>3
<1>8. Visit(q, s) \in States(q)
  <2>1. Tail(s.queue) \o more \in Seq(NodesOf(q)) /\ seen \in SUBSET NodesOf(q)
    BY <1>1, <1>2, <1>4
  <2> QED BY <2>1 DEF Visit, States, more, new
<1> QED BY <1>4, <1>5, <1>6, <1>7, <1>8 DEF new

\* The walk as long as it has met no cycle: what waits is new, next to what has
\* been visited, and would end the walk if it waited twice; and there are edges
\* for all that has been visited.
Inner(q, V) == {e \in DOMAIN q.edge : e \subseteq V}
Waiting(q, s) ==
  /\ ToSet(s.queue) \intersect s.visited = {} /\ 0 \in s.visited \union ToSet(s.queue)
  /\ \A i, j \in 1 .. Len(s.queue) : i # j /\ s.queue[i] = s.queue[j] =>
       \E p, r \in s.visited : p # r /\ p \in Near(q, s.queue[i]) /\ r \in Near(q, s.queue[i])
  /\ \A x \in ToSet(s.queue) : (s.visited = {} /\ s.queue = <<0>>) \/ \E p \in s.visited : p \in Near(q, x)
  /\ \A v \in s.visited : Near(q, v) \subseteq s.visited \union ToSet(s.queue)
WalkInv(q, s) ==
  /\ Waiting(q, s)
  /\ s.visited = {} \/ Cardinality(s.visited) <= Cardinality(Inner(q, s.visited)) + 1

LEMMA AtMostOne ==
  ASSUME NEW S, IsFiniteSet(S), Cardinality(S) <= 1, NEW a \in S, NEW b \in S
  PROVE  a = b
<1> SUFFICES ASSUME a # b PROVE FALSE
  OBVIOUS
<1>1. Cardinality({a, b}) <= Cardinality(S) /\ IsFiniteSet({a, b})
  BY FS_Subset
<1>2. Cardinality({a}) = 1 /\ IsFiniteSet({a})
  BY FS_Singleton
<1>3. Cardinality({a} \union {b}) = Cardinality({a}) + 1
  BY <1>2, FS_AddElement
<1>4. {a} \union {b} = {a, b}
  OBVIOUS
<1>5. Cardinality(S) \in Nat
  BY FS_CardinalityType
<1> QED BY <1>1, <1>2, <1>3, <1>4, <1>5

\* The node at the head has one neighbour that has been visited, or none has.
LEMMA OneNeighbour ==
  ASSUME NEW q, IsPattern(q), NEW s \in States(q), Waiting(q, s), s.queue # <<>>, Visit(q, s).ok,
         NEW v, v = Head(s.queue)
  PROVE  /\ v \in NodesOf(q) /\ v \notin s.visited /\ v \notin ToSet(Tail(s.queue))
         /\ \A p, r \in s.visited : p \in Near(q, v) /\ r \in Near(q, v) => p = r
         /\ (s.visited = {} /\ s.queue = <<0>>) \/ \E p \in s.visited : p \in Near(q, v)
<1>1. v \in ToSet(s.queue) /\ s.queue \in Seq(NodesOf(q))
  BY VisitIs DEF States
<1>2. v \in NodesOf(q) /\ v \notin s.visited /\ s.queue[1] = v
  BY <1>1 DEF Waiting, ToSet
<1>3. Cardinality(Near(q, v) \intersect (s.visited \union {v})) <= 1
  BY DEF Visit
<1>4. IsFiniteSet(Near(q, v) \intersect (s.visited \union {v}))
  BY <1>2, NearAre, FS_Subset
<1>5. \A p, r \in s.visited : p \in Near(q, v) /\ r \in Near(q, v) => p = r
  <2> SUFFICES ASSUME NEW p \in s.visited, NEW r \in s.visited, p \in Near(q, v), r \in Near(q, v) PROVE p = r
    OBVIOUS
  <2> DEFINE S == Near(q, v) \intersect (s.visited \union {v})
  <2>1. p \in S /\ r \in S
    OBVIOUS
  <2>2. IsFiniteSet(S) /\ Cardinality(S) <= 1
    BY <1>3, <1>4
  <2> HIDE DEF S
  <2> QED BY <2>1, <2>2, AtMostOne
<1>6. v \notin ToSet(Tail(s.queue))
  <2> SUFFICES ASSUME v \in ToSet(Tail(s.queue)) PROVE FALSE
    OBVIOUS
  <2>1. PICK k \in 1 .. Len(s.queue) - 1 : s.queue[k + 1] = v
    <3>1. Len(Tail(s.queue)) = Len(s.queue) - 1 /\ DOMAIN Tail(s.queue) = 1 .. Len(s.queue) - 1
          /\ \A k \in 1 .. Len(s.queue) - 1 : Tail(s.queue)[k] = s.queue[k + 1]
      BY <1>1
    <3>2. PICK k \in DOMAIN Tail(s.queue) : Tail(s.queue)[k] = v
      BY DEF ToSet
    <3> QED BY <3>1, <3>2
  <2>2. k + 1 \in 1 .. Len(s.queue) /\ 1 \in 1 .. Len(s.queue) /\ k + 1 # 1
    BY <1>1
  <2>3. \E p, r \in s.visited : p # r /\ p \in Near(q, v) /\ r \in Near(q, v)
    BY <1>2, <2>1, <2>2 DEF Waiting
  <2> QED BY <1>5, <2>3
<1> QED BY <1>1, <1>2, <1>5, <1>6 DEF Waiting

LEMMA VisitWaiting ==
  ASSUME NEW q, IsPattern(q), NEW s \in States(q), Waiting(q, s), s.queue # <<>>, Visit(q, s).ok
  PROVE  Waiting(q, Visit(q, s))
<1>1. PICK v, t : v = Head(s.queue) /\ t = Visit(q, s)
  OBVIOUS
<1>2. PICK new, tail, more : new = Near(q, v) \ (s.visited \union {v}) /\ tail = Tail(s.queue) /\ more = SetToSeqById(new)
  OBVIOUS
<1>3. /\ v \in NodesOf(q) /\ v \notin s.visited /\ v \notin ToSet(tail)
      /\ \A p, r \in s.visited : p \in Near(q, v) /\ r \in Near(q, v) => p = r
      /\ (s.visited = {} /\ s.queue = <<0>>) \/ \E p \in s.visited : p \in Near(q, v)
  BY <1>1, <1>2, OneNeighbour
<1>4. /\ t \in States(q) /\ t.visited = s.visited \union {v} /\ t.queue = tail \o more
      /\ ToSet(t.queue) = ToSet(tail) \union new /\ v \in ToSet(s.queue)
  BY <1>1, <1>2, VisitIs DEF Visit
<1>5. /\ s.queue \in Seq(NodesOf(q)) /\ tail \in Seq(NodesOf(q)) /\ Len(tail) = Len(s.queue) - 1
      /\ \A k \in 1 .. Len(tail) : tail[k] = s.queue[k + 1] /\ k + 1 \in 1 .. Len(s.queue)
      /\ \A k \in 1 .. Len(s.queue) : k = 1 \/ k - 1 \in 1 .. Len(tail)
  BY <1>2 DEF States
<1>6. ToSet(s.queue) = {v} \union ToSet(tail)
  <2>1. ToSet(s.queue) = {s.queue[k] : k \in 1 .. Len(s.queue)} /\ ToSet(tail) = {tail[k] : k \in 1 .. Len(tail)}
    BY <1>5 DEF ToSet
  <2>2. s.queue[1] = v
    BY <1>1, <1>5
  <2>3. ASSUME NEW x \in ToSet(tail) PROVE x \in ToSet(s.queue)
    BY <1>5, <2>1
  <2>4. ASSUME NEW x \in ToSet(s.queue), x # v PROVE x \in ToSet(tail)
    <3>1. PICK k \in 1 .. Len(s.queue) : s.queue[k] = x
      BY <2>1
    <3>2. k - 1 \in 1 .. Len(tail) /\ (k - 1) + 1 = k
      BY <1>5, <2>2, <2>4, <3>1
    <3>3. tail[k - 1] = x
      BY <1>5, <3>1, <3>2
    <3> QED BY <2>1, <3>2, <3>3
  <2> QED BY <1>4, <2>3, <2>4
<1>7. new \subseteq NodesOf(q) /\ new \intersect s.visited = {} /\ v \notin new /\ new \subseteq Near(q, v)
  <2>1. Near(q, v) \subseteq NodesOf(q) /\ v \notin Near(q, v)
    BY <1>3, NearAre
  <2> QED BY <1>2, <2>1
<1>8. /\ more \in Seq(NodesOf(q)) /\ \A k \in 1 .. Len(more) : more[k] \in new
      /\ \A i, j \in 1 .. Len(more) : more[i] = more[j] => i = j
  <2>1. new \subseteq Int /\ IsFiniteSet(new)
    <3>1. IsFiniteSet(NodesOf(q)) /\ NodesOf(q) \subseteq Int
      BY DEF IsPattern
    <3> QED BY <1>7, <3>1, FS_Subset
  <2>2. more = SetToSeqById(new) /\ Len(more) = Cardinality(new) /\ more \in Seq(NodesOf(q))
    BY <1>2, <1>7, <2>1, SeqById
  <2> QED BY <2>1, <2>2, Ranked
<1>9. ASSUME NEW x \in ToSet(tail), NEW y \in Near(q, v), x = y PROVE \E p \in s.visited : p # v /\ p \in Near(q, x)
  <2>1. s.queue # <<0>>
    <3>1. ASSUME s.queue = << 0 >> PROVE ToSet(tail) = {}
      <4>1. Len(tail) = 0
        BY <1>5, <3>1
      <4> QED BY <1>5, <4>1 DEF ToSet
    <3> QED BY <3>1
  <2> QED BY <1>3, <1>6, <2>1 DEF Waiting
<1>10. ToSet(t.queue) \intersect t.visited = {} /\ 0 \in t.visited \union ToSet(t.queue)
  BY <1>3, <1>4, <1>6, <1>7 DEF Waiting
<1>11. ASSUME NEW i \in 1 .. Len(t.queue), NEW j \in 1 .. Len(t.queue), i # j, t.queue[i] = t.queue[j]
       PROVE  \E p, r \in t.visited : p # r /\ p \in Near(q, t.queue[i]) /\ r \in Near(q, t.queue[i])
  <2>1. /\ Len(t.queue) = Len(tail) + Len(more) /\ Len(tail) \in Nat /\ Len(more) \in Nat
        /\ \A k \in 1 .. Len(tail) : t.queue[k] = tail[k]
        /\ \A k \in Len(tail) + 1 .. Len(tail) + Len(more) : t.queue[k] = more[k - Len(tail)]
    <3>1. PICK X, c : X = NodesOf(q) /\ c = t.queue
      OBVIOUS
    <3>2. tail \in Seq(X) /\ more \in Seq(X) /\ c = tail \o more
      BY <1>4, <1>5, <1>8, <3>1
    <3>3. /\ Len(c) = Len(tail) + Len(more)
          /\ \A k \in 1 .. Len(tail) : c[k] = tail[k]
          /\ \A k \in Len(tail) + 1 .. Len(tail) + Len(more) : c[k] = more[k - Len(tail)]
      BY <3>2, JoinedSet
    <3>4. Len(tail) \in Nat /\ Len(more) \in Nat
      BY <3>2
    <3> QED BY <3>1, <3>3, <3>4
  <2>2. ASSUME NEW k \in 1 .. Len(t.queue), k \notin 1 .. Len(tail)
        PROVE  k \in Len(tail) + 1 .. Len(tail) + Len(more) /\ k - Len(tail) \in 1 .. Len(more) /\ t.queue[k] \in new
    <3>1. k \in Len(tail) + 1 .. Len(tail) + Len(more) /\ k - Len(tail) \in 1 .. Len(more)
      BY <2>1, <2>2
    <3> QED BY <1>8, <2>1, <3>1
  <2>3. CASE i \in 1 .. Len(tail) /\ j \in 1 .. Len(tail)
    <3>1. s.queue[i + 1] = s.queue[j + 1] /\ i + 1 # j + 1 /\ i + 1 \in 1 .. Len(s.queue) /\ j + 1 \in 1 .. Len(s.queue)
          /\ s.queue[i + 1] = t.queue[i]
      BY <1>5, <1>11, <2>1, <2>3
    <3>2. \E p, r \in s.visited : p # r /\ p \in Near(q, t.queue[i]) /\ r \in Near(q, t.queue[i])
      BY <3>1 DEF Waiting
    <3> QED BY <1>4, <3>2
  <2>4. ASSUME NEW x \in ToSet(tail), x \in new
        PROVE  \E p, r \in t.visited : p # r /\ p \in Near(q, x) /\ r \in Near(q, x)
    <3>1. x \in NodesOf(q) /\ x \in Near(q, v)
      BY <1>7, <2>4
    <3>2. v \in Near(q, x)
      BY <1>3, <3>1, NearAre
    <3>3. PICK p \in s.visited : p # v /\ p \in Near(q, x)
      BY <1>9, <3>1
    <3> QED BY <1>4, <3>2, <3>3
  <2>5. ASSUME NEW k \in 1 .. Len(tail) PROVE t.queue[k] \in ToSet(tail)
    <3>1. t.queue[k] = tail[k] /\ k \in DOMAIN tail
      BY <1>5, <2>1
    <3> QED BY <3>1 DEF ToSet
  <2>6. CASE i \in 1 .. Len(tail) /\ j \notin 1 .. Len(tail)
    BY <1>11, <2>2, <2>4, <2>5, <2>6
  <2>7. CASE i \notin 1 .. Len(tail) /\ j \in 1 .. Len(tail)
    BY <1>11, <2>2, <2>4, <2>5, <2>7
  <2>8. CASE i \notin 1 .. Len(tail) /\ j \notin 1 .. Len(tail)
    <3>1. more[i - Len(tail)] = more[j - Len(tail)]
      BY <1>11, <2>1, <2>2, <2>8
    <3>2. i - Len(tail) = j - Len(tail)
      BY <1>8, <2>2, <2>8, <3>1
    <3> QED BY <1>11, <2>1, <3>2
  <2> QED BY <2>3, <2>6, <2>7, <2>8
<1>12. ASSUME NEW x \in ToSet(t.queue) PROVE \E p \in t.visited : p \in Near(q, x)
  <2>1. CASE x \in new
    BY <1>3, <1>4, <1>7, <2>1, NearAre
  <2>2. CASE x \in ToSet(tail)
    <3>1. s.queue # <<0>>
      <4>1. ASSUME s.queue = << 0 >> PROVE ToSet(tail) = {}
        <5>1. Len(tail) = 0
          BY <1>5, <4>1
        <5> QED BY <1>5, <5>1 DEF ToSet
      <4> QED BY <2>2, <4>1
    <3> QED BY <1>4, <1>6, <2>2, <3>1 DEF Waiting
  <2> QED BY <1>4, <2>1, <2>2
<1>13. ASSUME NEW w \in t.visited PROVE Near(q, w) \subseteq t.visited \union ToSet(t.queue)
  <2>1. CASE w = v
    BY <1>2, <1>4, <2>1
  <2>2. CASE w \in s.visited
    BY <1>4, <1>6, <2>2 DEF Waiting
  <2> QED BY <1>4, <2>1, <2>2
<1> QED BY <1>1, <1>10, <1>11, <1>12, <1>13 DEF Waiting

LEMMA VisitCounts ==
  ASSUME NEW q, IsPattern(q), NEW s \in States(q), WalkInv(q, s), s.queue # <<>>, Visit(q, s).ok
  PROVE  /\ WalkInv(q, Visit(q, s))
         /\ IsFiniteSet(s.visited) /\ Cardinality(Visit(q, s).visited) = Cardinality(s.visited) + 1
<1>1. PICK v, t : v = Head(s.queue) /\ t = Visit(q, s)
  OBVIOUS
<1>2. t.visited = s.visited \union {v}
  BY <1>1 DEF Visit
<1>3. /\ v \in NodesOf(q) /\ v \notin s.visited
      /\ (s.visited = {} /\ s.queue = <<0>>) \/ \E p \in s.visited : p \in Near(q, v)
  BY <1>1, OneNeighbour DEF WalkInv
<1>4. IsFiniteSet(s.visited) /\ s.visited \subseteq NodesOf(q)
  BY FS_Subset DEF States, IsPattern
<1>5. Cardinality(t.visited) = Cardinality(s.visited) + 1 /\ Cardinality(s.visited) \in Nat
  <2>1. Cardinality(s.visited \union {v}) = Cardinality(s.visited) + 1
    BY <1>3, <1>4, FS_AddElement
  <2>2. Cardinality(s.visited) \in Nat
    BY <1>4, FS_CardinalityType
  <2> QED BY <1>2, <2>1, <2>2
<1>6. /\ IsFiniteSet(Inner(q, s.visited)) /\ IsFiniteSet(Inner(q, t.visited))
      /\ Cardinality(Inner(q, s.visited)) \in Nat /\ Cardinality(Inner(q, t.visited)) \in Nat
  <2>1. \A V : V \subseteq NodesOf(q) => IsFiniteSet(Inner(q, V))
    <3>1. \A V : V \subseteq NodesOf(q) => Inner(q, V) \subseteq SUBSET NodesOf(q)
      BY DEF Inner
    <3>2. IsFiniteSet(SUBSET NodesOf(q))
      BY FS_SUBSET DEF IsPattern
    <3> QED BY <3>1, <3>2, FS_Subset
  <2> QED BY <1>2, <1>3, <1>4, <2>1, FS_CardinalityType
<1>7. Cardinality(t.visited) <= Cardinality(Inner(q, t.visited)) + 1
  <2>1. CASE s.visited = {}
    <3>1. Cardinality(s.visited) = 0
      BY <2>1, FS_EmptySet
    <3> QED BY <1>5, <1>6, <3>1
  <2>2. CASE s.visited # {}
    <3>1. PICK p \in s.visited : p \in Near(q, v)
      BY <1>3, <2>2
    <3>2. {v, p} \in DOMAIN q.edge
      BY <3>1 DEF Near
    <3>3. {v, p} \in Inner(q, t.visited) /\ {v, p} \notin Inner(q, s.visited)
      BY <1>2, <1>3, <3>1, <3>2 DEF Inner
    <3>4. Inner(q, s.visited) \union {{v, p}} \subseteq Inner(q, t.visited)
      BY <1>2, <3>3 DEF Inner
    <3>5. Cardinality(Inner(q, s.visited) \union {{v, p}}) = Cardinality(Inner(q, s.visited)) + 1
      BY <1>6, <3>3, FS_AddElement
    <3>6. Cardinality(Inner(q, s.visited) \union {{v, p}}) <= Cardinality(Inner(q, t.visited))
      BY <1>6, <3>4, FS_Subset
    <3> QED BY <1>5, <1>6, <2>2, <3>5, <3>6 DEF WalkInv
  <2> QED BY <2>1, <2>2
<1> QED BY <1>1, <1>4, <1>5, <1>7, VisitWaiting DEF WalkInv

-----------------------------------------------------------------------------
(* Trees.                                                                   *)

\* A map of some of the nodes into the domains that keeps the edges.
Partly(q, g, D, V) ==
  {m \in [V -> NodesOf(g)] :
     /\ \A c \in V : m[c] \in D[c]
     /\ \A c, d \in V : {c, d} \in DOMAIN q.edge => Linked(g, m[c], m[d], q.edge[{c, d}])}
\* Whatever node is taken first, the others can be placed.
Placeable(q, g, D, V) == \A c \in V : \A x \in D[c] : \E m \in Partly(q, g, D, V) : m[c] = x
\* Arc consistency.
Consistent(q, g, D) ==
  \A c, d \in NodesOf(q) : {c, d} \in DOMAIN q.edge =>
    \A x \in D[c] : \E y \in D[d] : Linked(g, x, y, q.edge[{c, d}])

LEMMA LinkedBothWays ==
  ASSUME NEW g, NEW x, NEW y, NEW l
  PROVE  Linked(g, x, y, l) <=> Linked(g, y, x, l)
<1>1. {x, y} = {y, x}
  OBVIOUS
<1> QED BY <1>1 DEF Linked

\* The image x of v is linked to the images of the neighbours of v.
Hooked(q, g, V, v, m, x) == \A w \in V : {v, w} \in DOMAIN q.edge => Linked(g, x, m[w], q.edge[{v, w}])

\* A node with one neighbour among those that are placed.
Placed(q, g, D, V, v, m, x, e) == e \in Partly(q, g, D, V \union {v}) /\ e[v] = x /\ \A w \in V : e[w] = m[w]
LEMMA PlaceOne ==
  ASSUME NEW q, IsPattern(q), NEW g, NEW D \in [NodesOf(q) -> SUBSET NodesOf(g)],
         NEW V, V \subseteq NodesOf(q), NEW v \in NodesOf(q), v \notin V,
         NEW m \in Partly(q, g, D, V), NEW x \in D[v],
         Hooked(q, g, V, v, m, x)
  PROVE  \E e : Placed(q, g, D, V, v, m, x, e)
<1>1. PICK e : e = [w \in V \union {v} |-> IF w = v THEN x ELSE m[w]]
  OBVIOUS
<1>2. m \in [V -> NodesOf(g)] /\ x \in NodesOf(g)
  BY DEF Partly
<1>3. e \in [V \union {v} -> NodesOf(g)] /\ e[v] = x /\ \A w \in V : e[w] = m[w]
  BY <1>1, <1>2
<1>4. \A c \in V \union {v} : e[c] \in D[c]
  BY <1>3 DEF Partly
<1>5. ASSUME NEW c \in V \union {v}, NEW d \in V \union {v}, {c, d} \in DOMAIN q.edge
      PROVE  Linked(g, e[c], e[d], q.edge[{c, d}])
  <2>1. CASE c \in V /\ d \in V
    BY <1>3, <1>5, <2>1 DEF Partly
  <2>2. CASE c = v /\ d \in V
    BY <1>3, <1>5, <2>2 DEF Hooked
  <2>3. CASE c \in V /\ d = v
    <3>1. {c, d} = {v, c}
      BY <2>3
    <3>2. Linked(g, x, m[c], q.edge[{v, c}])
      BY <1>5, <2>3, <3>1 DEF Hooked
    <3> QED BY <1>3, <2>3, <3>1, <3>2, LinkedBothWays
  <2>4. CASE c = v /\ d = v
    <3>1. PICK a, b \in NodesOf(q) : a # b /\ {c, d} = {a, b}
      BY <1>5 DEF IsPattern
    <3>2. a \in {c, d} /\ b \in {c, d}
      BY <3>1
    <3> QED BY <2>4, <3>1, <3>2
  <2> QED BY <2>1, <2>2, <2>3, <2>4
<1>6. Placed(q, g, D, V, v, m, x, e)
  BY <1>3, <1>4, <1>5 DEF Partly, Placed
<1> QED BY <1>6

LEMMA VisitPlaces ==
  ASSUME NEW q, IsPattern(q), NEW g, NEW D \in [NodesOf(q) -> SUBSET NodesOf(g)], Consistent(q, g, D),
         NEW s \in States(q), Waiting(q, s), s.queue # <<>>, Visit(q, s).ok, Placeable(q, g, D, s.visited)
  PROVE  Placeable(q, g, D, Visit(q, s).visited)
<1>1. PICK v, t, V : v = Head(s.queue) /\ t = Visit(q, s) /\ V = s.visited
  OBVIOUS
<1>2. t.visited = V \union {v}
  BY <1>1 DEF Visit
<1>3. /\ v \in NodesOf(q) /\ v \notin V /\ V \subseteq NodesOf(q)
      /\ \A p, r \in V : p \in Near(q, v) /\ r \in Near(q, v) => p = r
      /\ V = {} \/ \E p \in V : p \in Near(q, v)
  BY <1>1, OneNeighbour DEF States
<1>4. \A w \in V : w \in Near(q, v) <=> {v, w} \in DOMAIN q.edge
  BY <1>3, NearAre
<1>5. ASSUME V = {}, NEW x \in D[v] PROVE \E m \in Partly(q, g, D, V \union {v}) : m[v] = x
  <2>1. PICK m : m = [w \in V |-> x]
    OBVIOUS
  <2>2. m \in Partly(q, g, D, V)
    BY <1>5, <2>1 DEF Partly
  <2>3. Hooked(q, g, V, v, m, x)
    BY <1>5 DEF Hooked
  <2>4. PICK e : Placed(q, g, D, V, v, m, x, e)
    BY <1>3, <1>5, <2>2, <2>3, PlaceOne
  <2> QED BY <2>4 DEF Placed
<1>6. ASSUME V # {}, NEW c \in V \union {v}, NEW x \in D[c] PROVE \E m \in Partly(q, g, D, V \union {v}) : m[c] = x
  <2>1. PICK p \in V : p \in Near(q, v) /\ \A w \in V : {v, w} \in DOMAIN q.edge => w = p
    BY <1>3, <1>4, <1>6
  <2>2. {v, p} \in DOMAIN q.edge /\ {p, v} = {v, p} /\ p \in NodesOf(q)
    BY <1>3, <1>4, <2>1
  <2>3. CASE c = v
    <3>1. PICK y \in D[p] : Linked(g, x, y, q.edge[{v, p}])
      BY <1>3, <1>6, <2>2, <2>3 DEF Consistent
    <3>2. PICK m \in Partly(q, g, D, V) : m[p] = y
      BY <1>1, <2>1 DEF Placeable
    <3>3. Hooked(q, g, V, v, m, x)
      BY <2>1, <3>1, <3>2 DEF Hooked
    <3>4. x \in D[v]
      BY <1>6, <2>3
    <3>5. PICK e : Placed(q, g, D, V, v, m, x, e)
      BY <1>3, <3>2, <3>3, <3>4, PlaceOne
    <3> QED BY <2>3, <3>5 DEF Placed
  <2>4. CASE c \in V
    <3>1. PICK m \in Partly(q, g, D, V) : m[c] = x
      BY <1>1, <1>6, <2>4 DEF Placeable
    <3>2. m[p] \in D[p]
      BY <2>1 DEF Partly
    <3>3. PICK y \in D[v] : Linked(g, m[p], y, q.edge[{v, p}])
      BY <1>3, <2>2, <3>2 DEF Consistent
    <3>4. Hooked(q, g, V, v, m, y)
      BY <2>1, <3>3, LinkedBothWays DEF Hooked
    <3>5. PICK e : Placed(q, g, D, V, v, m, y, e)
      BY <1>3, <3>1, <3>3, <3>4, PlaceOne
    <3> QED BY <2>4, <3>1, <3>5 DEF Placed
  <2> QED BY <1>6, <2>3, <2>4
<1>7. ASSUME NEW c \in V \union {v}, NEW x \in D[c] PROVE \E m \in Partly(q, g, D, V \union {v}) : m[c] = x
  <2>1. CASE V = {}
    BY <1>5, <1>7, <2>1
  <2> QED BY <1>6, <1>7, <2>1
<1>8. Placeable(q, g, D, V \union {v})
  BY <1>7 DEF Placeable
<1> QED BY <1>1, <1>2, <1>8

LEMMA WalkExists ==
  ASSUME NEW q, IsPattern(q)
  PROVE  \E f \in [Nat -> States(q)] : IsWalk(q, f)
<1> DEFINE X == States(q)
           step == [z \in Nat \X X |-> Walked(q, z[2])]
<1>1. Start \in X
  <2>1. <<0>> \in Seq(NodesOf(q))
    BY DEF IsPattern
  <2> QED BY <2>1 DEF Start, States
<1>2. ASSUME NEW s \in X PROVE Walked(q, s) \in X
  BY VisitIs DEF Walked, Halts
<1>3. step \in [Nat \X X -> X]
  <2> HIDE DEF X
  <2> QED BY <1>2
<1>4. PICK f \in [Nat -> X] : f[0] = Start /\ \A n \in Nat : f[n + 1] = step[<<n, f[n]>>]
  <2> HIDE DEF X, step
  <2>1. IsStep(X, step)
    BY <1>3 DEF IsStep
  <2>2. PICK f : Iterates(X, Start, step, f)
    BY <1>1, <2>1, Recursion
  <2> QED BY <2>2 DEF Iterates
<1>5. ASSUME NEW n \in Nat, n # 0 PROVE f[n] = Walked(q, f[n - 1])
  <2>1. n - 1 \in Nat /\ (n - 1) + 1 = n
    BY <1>5
  <2>2. f[n] = step[<<n - 1, f[n - 1]>>] /\ f[n - 1] \in X
    <3> HIDE DEF X, step
    <3> QED BY <1>4, <2>1
  <2>3. <<n - 1, f[n - 1]>> \in Nat \X X
    <3> HIDE DEF X
    <3> QED BY <2>1, <2>2
  <2> QED BY <2>1, <2>2, <2>3
<1> HIDE DEF X, step
<1>6. f = [n \in Nat |-> f[n]]
  BY <1>4
<1>7. IsWalk(q, f)
  BY <1>4, <1>5, <1>6 DEF IsWalk
<1> QED BY <1>4, <1>7 DEF X

LEMMA WalkSteps ==
  ASSUME NEW q, NEW f, IsWalk(q, f)
  PROVE  f[0] = Start /\ \A n \in Nat : f[n + 1] = Walked(q, f[n])
<1>1. f[0] = Start
  BY DEF IsWalk
<1>2. ASSUME NEW n \in Nat PROVE f[n + 1] = Walked(q, f[n])
  <2>1. n + 1 \in Nat /\ n + 1 # 0 /\ (n + 1) - 1 = n
    OBVIOUS
  <2>2. f[n + 1] = Walked(q, f[(n + 1) - 1])
    BY <2>1 DEF IsWalk
  <2> QED BY <2>1, <2>2
<1> QED BY <1>1, <1>2

LEMMA AcyclicIs ==
  ASSUME NEW q, IsPattern(q)
  PROVE  \E f \in [Nat -> States(q)] : IsWalk(q, f) /\ isItAcyclic(q) = f[2 * Cardinality(DOMAIN q.edge) + 1].ok
<1>1. PICK f : f = CHOOSE h : IsWalk(q, h)
  OBVIOUS
<1>2. IsWalk(q, f)
  BY <1>1, WalkExists
<1>3. isItAcyclic(q) = f[2 * Cardinality(DOMAIN q.edge) + 1].ok
  BY <1>1 DEF isItAcyclic, IsWalk, Walked, Halts, Visit, Start
<1>4. f \in [Nat -> States(q)]
  <2>1. PICK h \in [Nat -> States(q)] : IsWalk(q, h)
    BY WalkExists
  <2> DEFINE S == {n \in Nat : f[n] = h[n]}
  <2>2. f[0] = h[0] /\ \A n \in Nat : f[n + 1] = Walked(q, f[n]) /\ h[n + 1] = Walked(q, h[n])
    BY <1>2, <2>1, WalkSteps
  <2>3. 0 \in S /\ \A n \in Nat : n \in S => n + 1 \in S
    BY <2>2
  <2> HIDE DEF S
  <2>4. Nat \subseteq S
    BY <2>3, NatSteps
  <2>5. \A n \in Nat : f[n] = h[n]
    BY <2>4 DEF S
  <2>6. f = [n \in Nat |-> f[n]]
    BY <1>2 DEF IsWalk
  <2> QED BY <2>1, <2>5, <2>6
<1> QED BY <1>2, <1>3, <1>4

LEMMA Reached ==
  ASSUME NEW q, IsPattern(q), NEW V \in SUBSET NodesOf(q), V # {}, \A v \in V : Near(q, v) \subseteq V
  PROVE  V = NodesOf(q)
BY DEF IsPattern

\* What is visited can be placed, as long as no cycle is met.
LEMMA WalkGood ==
  ASSUME NEW q, IsPattern(q), NEW g, NEW D \in [NodesOf(q) -> SUBSET NodesOf(g)], Consistent(q, g, D),
         NEW f \in [Nat -> States(q)], IsWalk(q, f)
  PROVE  \A n \in Nat : f[n].ok =>
           /\ WalkInv(q, f[n]) /\ Placeable(q, g, D, f[n].visited)
           /\ Halts(q, f[n]) \/ Cardinality(f[n].visited) = n
<1> DEFINE Good(n) == f[n].ok =>
             /\ WalkInv(q, f[n]) /\ Placeable(q, g, D, f[n].visited)
             /\ Halts(q, f[n]) \/ Cardinality(f[n].visited) = n
           S == {n \in Nat : Good(n)}
<1>1. Good(0)
  <2>1. PICK s : s = f[0]
    OBVIOUS
  <2>2. s.visited = {} /\ s.queue = <<0>>
    BY <2>1, WalkSteps DEF Start
  <2>3. ToSet(s.queue) = {0} /\ Len(s.queue) = 1
    BY <2>2 DEF ToSet
  <2>4. Waiting(q, s)
    BY <2>2, <2>3 DEF Waiting
  <2>5. Placeable(q, g, D, s.visited)
    BY <2>2 DEF Placeable
  <2>6. Cardinality(s.visited) = 0
    BY <2>2, FS_EmptySet
  <2> QED BY <2>1, <2>2, <2>4, <2>5, <2>6 DEF WalkInv
<1>2. ASSUME NEW n \in Nat, Good(n) PROVE Good(n + 1)
  <2>1. PICK s, t : s = f[n] /\ t = f[n + 1]
    OBVIOUS
  <2>2. t = Walked(q, s) /\ s \in States(q)
    BY <2>1, WalkSteps
  <2>3. CASE Halts(q, s)
    BY <1>2, <2>1, <2>2, <2>3 DEF Walked
  <2>4. CASE ~Halts(q, s)
    <3>1. /\ t = Visit(q, s) /\ s.ok /\ s.queue # <<>>
      BY <2>2, <2>4 DEF Walked, Halts
    <3>2. WalkInv(q, s) /\ Placeable(q, g, D, s.visited) /\ Cardinality(s.visited) = n
      BY <1>2, <2>1, <2>4, <3>1
    <3>3. CASE t.ok
      <4>1. WalkInv(q, t) /\ Cardinality(t.visited) = n + 1
        BY <2>2, <3>1, <3>2, <3>3, VisitCounts
      <4>2. Placeable(q, g, D, t.visited)
        BY <2>2, <3>1, <3>2, <3>3, VisitPlaces DEF WalkInv
      <4> QED BY <2>1, <4>1, <4>2
    <3> QED BY <2>1, <3>3
  <2> QED BY <2>3, <2>4
<1>3. 0 \in S /\ \A n \in Nat : n \in S => n + 1 \in S
  <2> HIDE DEF Good
  <2> QED BY <1>1, <1>2
<1> HIDE DEF S
<1>4. Nat \subseteq S
  BY <1>3, NatSteps
<1> QED BY <1>4 DEF S

\* In a tree whose domains are arc consistent every node of a domain is the
\* image of its column in some map.
LEMMA TreePlaces ==
  ASSUME NEW q, IsPattern(q), isItAcyclic(q), NEW g, NEW D \in [NodesOf(q) -> SUBSET NodesOf(g)], Consistent(q, g, D)
  PROVE  Placeable(q, g, D, NodesOf(q))
<1>1. PICK f \in [Nat -> States(q)] : IsWalk(q, f) /\ isItAcyclic(q) = f[2 * Cardinality(DOMAIN q.edge) + 1].ok
  BY AcyclicIs
<1>2. IsFiniteSet(DOMAIN q.edge) /\ Cardinality(DOMAIN q.edge) \in Nat
  <2>1. DOMAIN q.edge \subseteq SUBSET NodesOf(q)
    BY DEF IsPattern
  <2>2. IsFiniteSet(SUBSET NodesOf(q))
    BY FS_SUBSET DEF IsPattern
  <2> QED BY <2>1, <2>2, FS_Subset, FS_CardinalityType
<1>3. PICK n \in Nat : n = 2 * Cardinality(DOMAIN q.edge) + 1
  BY <1>2
<1>4. PICK s \in States(q) : s = f[n]
  BY <1>1, <1>3
<1>5. WalkInv(q, s) /\ Placeable(q, g, D, s.visited) /\ s.ok /\ (Halts(q, s) \/ Cardinality(s.visited) = n)
  BY <1>1, <1>3, <1>4, WalkGood
<1>6. Cardinality(s.visited) # n
  <2> SUFFICES ASSUME Cardinality(s.visited) = n PROVE FALSE
    OBVIOUS
  <2>1. s.visited # {}
    <3>1. n # 0
      BY <1>2, <1>3
    <3>2. Cardinality({}) = 0
      BY FS_EmptySet
    <3> QED BY <3>1, <3>2
  <2>2. Cardinality(s.visited) <= Cardinality(Inner(q, s.visited)) + 1
    BY <1>5, <2>1 DEF WalkInv
  <2>3. Inner(q, s.visited) \subseteq DOMAIN q.edge
    BY DEF Inner
  <2>4. Cardinality(Inner(q, s.visited)) <= Cardinality(DOMAIN q.edge) /\ Cardinality(Inner(q, s.visited)) \in Nat
    BY <1>2, <2>3, FS_Subset, FS_CardinalityType
  <2>5. Cardinality(DOMAIN q.edge) = 0
    BY <1>2, <1>3, <2>2, <2>4
  <2>6. DOMAIN q.edge = {}
    BY <1>2, <2>5, FS_EmptySet
  <2>7. \A v \in {0} : Near(q, v) \subseteq {0}
    BY <2>6 DEF Near
  <2>8. {0} = NodesOf(q)
    <3>1. PICK V : V = {0}
      OBVIOUS
    <3>2. V \in SUBSET NodesOf(q) /\ V # {} /\ \A v \in V : Near(q, v) \subseteq V
      BY <2>7, <3>1 DEF IsPattern
    <3>3. V = NodesOf(q)
      BY <3>2, Reached
    <3> QED BY <3>1, <3>3
  <2> QED BY <2>8 DEF IsPattern
<1>7. s.visited = NodesOf(q)
  <2>1. CASE s.queue = <<>>
    <3>1. ToSet(s.queue) = {}
      BY <2>1 DEF ToSet
    <3>2. 0 \in s.visited /\ \A v \in s.visited : Near(q, v) \subseteq s.visited
      BY <1>5, <3>1 DEF WalkInv, Waiting
    <3>3. s.visited \in SUBSET NodesOf(q)
      BY DEF States
    <3> QED BY <3>2, <3>3 DEF IsPattern
  <2> QED BY <1>5, <1>6, <2>1 DEF Halts
<1> QED BY <1>5, <1>7

\* Images under a pattern with one node of each label are different.
LEMMA TreeImages ==
  ASSUME NEW q, IsPattern(q), isItAcyclic(q), hasUniqueLabels(q), NEW g,
         NEW D \in [NodesOf(q) -> SUBSET NodesOf(g)], Consistent(q, g, D),
         \A c \in NodesOf(q) : \A x \in D[c] : g.label[x] = q.label[c]
  PROVE  \A c \in NodesOf(q) : \A x \in D[c] : \E m \in Embeddings(q, g) : m[c] = x
<1> SUFFICES ASSUME NEW c \in NodesOf(q), NEW x \in D[c] PROVE \E m \in Embeddings(q, g) : m[c] = x
  OBVIOUS
<1>1. PICK m \in Partly(q, g, D, NodesOf(q)) : m[c] = x
  BY TreePlaces DEF Placeable
<1>2. /\ m \in [NodesOf(q) -> NodesOf(g)]
      /\ \A v \in NodesOf(q) : m[v] \in D[v]
      /\ \A v, w \in NodesOf(q) : {v, w} \in DOMAIN q.edge => Linked(g, m[v], m[w], q.edge[{v, w}])
  BY <1>1 DEF Partly
<1>3. \A v \in NodesOf(q) : m[v] \in NodesOf(g) /\ g.label[m[v]] = q.label[v]
  BY <1>2
<1>4. \A v, w \in NodesOf(q) : v # w => m[v] # m[w]
  <2> SUFFICES ASSUME NEW v \in NodesOf(q), NEW w \in NodesOf(q), m[v] = m[w] PROVE v = w
    OBVIOUS
  <2>1. q.label[v] = q.label[w]
    BY <1>3
  <2> QED BY <2>1 DEF hasUniqueLabels
<1>5. Embeds(q, g, m)
  <2>1. DOMAIN m = NodesOf(q)
    BY <1>2
  <2> QED BY <1>2, <1>3, <1>4, <2>1 DEF Embeds
<1>6. m \in Embeddings(q, g)
  <2>1. NodesOf(q) \subseteq Int /\ IsFiniteSet(NodesOf(q))
    BY DEF IsPattern
  <2> QED BY <1>2, <1>5, <2>1, EmbeddingsAre
<1> QED BY <1>1, <1>6

-----------------------------------------------------------------------------
(* The support.                                                             *)

LEMMA MinIs ==
  ASSUME NEW C, C # {}, NEW t \in [C -> Nat]
  PROVE  /\ MinOf(t) \in Nat /\ \A c \in C : MinOf(t) <= t[c]
         /\ \E c \in C : MinOf(t) = t[c]
<1>1. PICK T : T = {t[c] : c \in DOMAIN t}
  OBVIOUS
<1>2. T \subseteq Nat /\ T # {}
  BY <1>1
<1>3. PICK n \in T : \A m \in T : n <= m
  BY <1>2, NatLeast
<1>4. Min(T) \in T /\ \A m \in T : Min(T) <= m
  BY <1>3 DEF Min
<1> QED BY <1>1, <1>2, <1>4 DEF MinOf

\* What the type invariant says of the job.
LEMMA JobIs ==
  ASSUME TypeInv
  PROVE  /\ IsPattern(pattern) /\ IsFiniteSet(cols) /\ cols \subseteq Nat /\ cols # {} /\ NoCol \notin cols
         /\ IsFiniteSet(NodesOf(data)) /\ NodesOf(data) \subseteq Nat
         /\ job.support \in Nat /\ job.parts \in Nat \ {0} /\ part \in 0 .. job.parts - 1
         /\ job.col \in cols \union {NoCol} /\ job.kind \in {"s", "a"}
         /\ job.kind = "a" => ~divided /\ job.col = NoCol
<1>1. JobOK(job) /\ part \in 0 .. job.parts - 1
  BY DEF TypeInv
<1>2. IsPattern(job.pattern) /\ IsFiniteSet(NodesOf(job.data)) /\ NodesOf(job.data) \subseteq Nat
  BY <1>1 DEF JobOK
<1>3. /\ IsFiniteSet(NodesOf(job.pattern)) /\ NodesOf(job.pattern) \subseteq Nat /\ NodesOf(job.pattern) # {}
      /\ NoCol \notin NodesOf(job.pattern)
  BY <1>2 DEF IsPattern, NoCol
<1>4. /\ job.support \in Nat /\ job.parts \in Nat \ {0} /\ job.col \in NodesOf(job.pattern) \union {NoCol}
      /\ job.kind \in {"s", "a"} /\ (job.kind = "a" => job.parts = 1 /\ job.col = NoCol)
  BY <1>1 DEF JobOK
<1> QED BY <1>1, <1>2, <1>3, <1>4 DEF pattern, data, cols, divided

\* The images of a column: nodes of the data with its label and degree.
LEMMA RealAre ==
  ASSUME TypeInv, NEW c \in cols
  PROVE  Real(c) \subseteq ByDegree(c) /\ ByDegree(c) \subseteq ByLabel(c) /\ ByLabel(c) \subseteq NodesOf(data)
<1>1. IsPattern(pattern) /\ IsFiniteSet(NodesOf(data)) /\ c \in NodesOf(pattern)
  BY JobIs DEF cols
<1>2. ASSUME NEW m \in Embeddings(pattern, data) PROVE m[c] \in ByDegree(c)
  <2>1. m[c] \in NodesOf(data) /\ data.label[m[c]] = pattern.label[c]
    BY <1>1, Kept
  <2>2. Degree(data, m[c]) >= Degree(pattern, c)
    BY <1>1, DegreeKept
  <2> QED BY <2>1, <2>2 DEF ByDegree, ByLabel, getNodesByLabel
<1> QED BY <1>2 DEF Real, ByDegree, ByLabel, getNodesByLabel

LEMMA SizesAre ==
  ASSUME TypeInv, NEW S, S \subseteq NodesOf(data)
  PROVE  IsFiniteSet(S) /\ Cardinality(S) \in Nat /\ \A T \in SUBSET S : Cardinality(T) \in Nat /\ Cardinality(T) <= Cardinality(S)
<1>1. IsFiniteSet(S) /\ Cardinality(S) \in Nat
  BY JobIs, FS_Subset, FS_CardinalityType
<1>2. ASSUME NEW T \in SUBSET S PROVE Cardinality(T) \in Nat /\ Cardinality(T) <= Cardinality(S)
  BY <1>1, FS_Subset, FS_CardinalityType
<1> QED BY <1>1, <1>2

LEMMA SizesType ==
  ASSUME TypeInv, NEW D \in [cols -> SUBSET NodesOf(data)]
  PROVE  Sizes(D) \in [cols -> Nat] /\ \A c \in cols : Sizes(D)[c] = Cardinality(D[c])
<1>1. \A c \in cols : Cardinality(D[c]) \in Nat
  BY SizesAre
<1> QED BY <1>1 DEF Sizes, ByCol

\* The support is the size of the smallest column.
LEMMA SupportIs ==
  ASSUME TypeInv
  PROVE  /\ Support \in Nat /\ \A c \in cols : Support <= Cardinality(Real(c)) /\ Cardinality(Real(c)) \in Nat
         /\ \E c \in cols : Support = Cardinality(Real(c))
<1>1. PICK D : D = ByCol(Real)
  OBVIOUS
<1>2. D \in [cols -> SUBSET NodesOf(data)] /\ \A c \in cols : D[c] = Real(c)
  BY <1>1, RealAre DEF ByCol
<1>3. /\ Sizes(D) \in [cols -> Nat] /\ \A c \in cols : Sizes(D)[c] = Cardinality(Real(c))
  BY <1>2, SizesType
<1>4. Support = MinOf(Sizes(D))
  BY <1>1 DEF Support
<1>5. cols # {}
  BY JobIs
<1> QED BY <1>3, <1>4, <1>5, MinIs

\* One column with too few images is enough.
LEMMA HopelessIs ==
  ASSUME TypeInv, NEW c \in cols, NEW S \in SUBSET NodesOf(data), Real(c) \subseteq S, Cardinality(S) < job.support
  PROVE  Hopeless
<1>1. Cardinality(Real(c)) <= Cardinality(S) /\ Cardinality(S) \in Nat
  BY SizesAre
<1> QED BY <1>1, SupportIs, JobIs DEF Hopeless

-----------------------------------------------------------------------------
(* The parts.                                                               *)

LEMMA ModIs ==
  ASSUME NEW v \in Nat, NEW n \in Nat \ {0}
  PROVE  v % n \in 0 .. n - 1
OBVIOUS

\* The nodes of a part, next to those of the parts before.
LEMMA PartsOf ==
  ASSUME TypeInv, NEW S, S \subseteq NodesOf(data)
  PROVE  /\ Own(S) \subseteq S /\ \A T : T \subseteq S => Own(T) \subseteq Own(S) /\ Own(Own(T)) = Own(T)
         /\ Before(S) \subseteq S
         /\ ~divided => Own(S) = S /\ Before(S) = {}
         /\ part = job.parts - 1 => Before(S) = {}
         /\ divided => /\ Before(S) \intersect Own(S) = {}
                       /\ Cardinality(Before(S) \union Own(S)) = Cardinality(Before(S)) + Cardinality(Own(S))
                       /\ part = 0 => Before(S) \union Own(S) = S
<1>1. /\ S \subseteq Nat /\ job.parts \in Nat \ {0} /\ part \in 0 .. job.parts - 1
  BY JobIs
<1>2. \A v \in S : v % job.parts \in 0 .. job.parts - 1
  BY <1>1, ModIs
<1>3. Before(S) \subseteq S /\ Own(S) \subseteq S
  BY DEF Before, Own
<1>5. ASSUME part = job.parts - 1 PROVE Before(S) = {}
  <2> SUFFICES ASSUME NEW v \in S, v % job.parts > part PROVE FALSE
    BY DEF Before
  <2>1. PICK n : n = v % job.parts
    OBVIOUS
  <2>2. n \in 0 .. job.parts - 1 /\ n > job.parts - 1
    BY <1>2, <1>5, <2>1
  <2> QED BY <1>1, <2>2
<1>4. ASSUME ~divided PROVE Own(S) = S /\ Before(S) = {}
  <2>1. part = job.parts - 1
    BY <1>1, <1>4 DEF divided
  <2> QED BY <1>4, <1>5, <2>1 DEF Own
<1>6. ASSUME divided
      PROVE  /\ Before(S) \intersect Own(S) = {}
             /\ Cardinality(Before(S) \union Own(S)) = Cardinality(Before(S)) + Cardinality(Own(S))
  <2>1. Before(S) \intersect Own(S) = {}
    BY <1>1, <1>2, <1>6 DEF Before, Own
  <2>2. IsFiniteSet(Before(S)) /\ IsFiniteSet(Own(S)) /\ Cardinality(Before(S)) \in Nat /\ Cardinality(Own(S)) \in Nat
    BY <1>3, SizesAre
  <2>3. Cardinality(Before(S) \union Own(S)) = Cardinality(Before(S)) + Cardinality(Own(S)) - Cardinality(Before(S) \intersect Own(S))
    BY <2>2, FS_Union
  <2>4. Cardinality(Before(S) \intersect Own(S)) = 0
    BY <2>1, FS_EmptySet
  <2> QED BY <2>1, <2>2, <2>3, <2>4
<1>7. ASSUME divided, part = 0 PROVE Before(S) \union Own(S) = S
  <2> SUFFICES ASSUME NEW v \in S PROVE v % job.parts > part \/ v % job.parts = part
    BY <1>3, <1>7 DEF Before, Own
  <2>1. PICK n : n = v % job.parts
    OBVIOUS
  <2>2. n \in 0 .. job.parts - 1
    BY <1>2, <2>1
  <2> QED BY <1>1, <1>7, <2>1, <2>2
<1>8. \A T : T \subseteq S => Own(T) \subseteq Own(S) /\ Own(Own(T)) = Own(T)
  BY DEF Own
<1> QED BY <1>3, <1>4, <1>5, <1>6, <1>7, <1>8

\* A step that changes neither the job nor the part.
LEMMA Frame ==
  ASSUME job' = job, part' = part
  PROVE  /\ pattern' = pattern /\ data' = data /\ cols' = cols /\ divided' = divided
         /\ useAC3' = useAC3 /\ Readable' = Readable /\ Hopeless' = Hopeless /\ Support' = Support
         /\ none' = none /\ zero' = zero
         /\ \A c : /\ Real(c)' = Real(c) /\ ByDegree(c)' = ByDegree(c) /\ OfInvalid(c)' = OfInvalid(c)
         /\ \A S : Own(S)' = Own(S) /\ Before(S)' = Before(S)
         /\ \A c : Own(Real(c))' = Own(Real(c)) /\ Before(Real(c))' = Before(Real(c))
<1>1. pattern' = pattern /\ data' = data /\ cols' = cols /\ divided' = divided
  BY DEF pattern, data, cols, divided
<1>2. \A c : /\ Real(c)' = Real(c) /\ ByDegree(c)' = ByDegree(c) /\ OfInvalid(c)' = OfInvalid(c)
  BY <1>1 DEF Real, ByDegree, ByLabel, OfInvalid
<1>3. \A S : Own(S)' = Own(S) /\ Before(S)' = Before(S)
  BY <1>1 DEF Own, Before
<1>4. \A c : Own(Real(c))' = Own(Real(c)) /\ Before(Real(c))' = Before(Real(c))
  BY <1>1, <1>2 DEF Own, Before
<1>5. useAC3' = useAC3 /\ Readable' = Readable /\ none' = none /\ zero' = zero
  BY <1>1 DEF useAC3, Readable, none, zero, ByCol
<1>6. Hopeless' = Hopeless /\ Support' = Support
  BY <1>1 DEF Hopeless, Support, Sizes, ByCol, MinOf, Real
<1> QED BY <1>1, <1>2, <1>3, <1>4, <1>5, <1>6

-----------------------------------------------------------------------------
(* The order of the columns.                                                *)

\* Every node of a pattern has an edge, and there are two nodes at least.
LEMMA PatternIs ==
  ASSUME NEW q, IsPattern(q)
  PROVE  /\ \A c \in NodesOf(q) : Degree(q, c) \in Nat \ {0}
         /\ Cardinality(NodesOf(q)) \in Nat /\ Cardinality(NodesOf(q)) > 1
<1>1. IsFiniteSet(NodesOf(q)) /\ 0 \in NodesOf(q) /\ NodesOf(q) # {0}
  BY DEF IsPattern
<1>2. ASSUME NEW c \in NodesOf(q) PROVE Degree(q, c) \in Nat \ {0}
  <2>1. IsFiniteSet(Near(q, c))
    BY NearAre
  <2>2. Near(q, c) # {}
    <3> SUFFICES ASSUME Near(q, c) = {} PROVE FALSE
      OBVIOUS
    <3>1. PICK V : V = {c}
      OBVIOUS
    <3>2. V \in SUBSET NodesOf(q) /\ V # {} /\ \A v \in V : Near(q, v) \subseteq V
      BY <3>1
    <3>3. V = NodesOf(q)
      BY <3>2, Reached
    <3> QED BY <1>1, <3>1, <3>3
  <2> QED BY <2>1, <2>2, FS_CardinalityType, FS_EmptySet DEF Degree
<1>3. Cardinality(NodesOf(q)) \in Nat /\ Cardinality(NodesOf(q)) > 1
  <2>1. PICK a \in NodesOf(q) : a # 0
    BY <1>1
  <2>2. Cardinality(NodesOf(q)) \in Nat
    BY <1>1, FS_CardinalityType
  <2>3. ~(Cardinality(NodesOf(q)) <= 1)
    <3> SUFFICES ASSUME Cardinality(NodesOf(q)) <= 1 PROVE FALSE
      OBVIOUS
    <3>1. PICK S : S = NodesOf(q)
      OBVIOUS
    <3>2. IsFiniteSet(S) /\ Cardinality(S) <= 1 /\ 0 \in S /\ a \in S
      BY <1>1, <2>1, <3>1
    <3>3. 0 = a
      BY <3>2, AtMostOne
    <3> QED BY <2>1, <3>3
  <2> QED BY <2>2, <2>3
<1> QED BY <1>2, <1>3

\* All columns, once each, the invalid one first.
LEMMA OrderIs ==
  ASSUME TypeInv
  PROVE  /\ DomainsOrder \in Seq(cols) /\ ToSet(DomainsOrder) = cols
         /\ Len(DomainsOrder) > 1 /\ DomainsOrder # <<>>
         /\ job.col # NoCol => Head(DomainsOrder) = job.col
<1>1. /\ IsPattern(pattern) /\ IsFiniteSet(cols) /\ cols \subseteq Nat /\ job.col \in cols \union {NoCol}
      /\ domains \in [cols -> SUBSET NodesOf(data)] /\ cols = NodesOf(pattern)
  BY JobIs DEF TypeInv, cols
<1>2. PICK weight : weight = [c \in cols |-> IF c = job.col THEN -1 ELSE Cardinality(domains[c]) \div Degree(pattern, c)]
  OBVIOUS
<1>3. /\ weight \in [cols -> Int]
      /\ \A c \in cols : (c = job.col => weight[c] = -1) /\ (c # job.col => weight[c] >= 0)
  <2>1. ASSUME NEW c \in cols PROVE Cardinality(domains[c]) \div Degree(pattern, c) \in Nat
    <3>1. PICK a, b : a = Cardinality(domains[c]) /\ b = Degree(pattern, c)
      OBVIOUS
    <3>2. a \in Nat /\ b \in Nat \ {0}
      BY <1>1, <3>1, SizesAre, PatternIs
    <3>3. a \div b \in Nat
      BY <3>2
    <3> QED BY <3>1, <3>3
  <2> QED BY <1>2, <2>1
<1>4. PICK R : R = {p \in cols \X cols : weight[p[1]] < weight[p[2]] \/ (weight[p[1]] = weight[p[2]] /\ p[1] < p[2])}
  OBVIOUS
<1>5. \A c, d \in cols : <<c, d>> \in R <=> weight[c] < weight[d] \/ (weight[c] = weight[d] /\ c < d)
  BY <1>4
<1>6. TotalOrder(cols, R)
  BY <1>1, <1>3, <1>5 DEF TotalOrder
<1>7. PICK vs : vs = DomainsOrder
  OBVIOUS
<1> DEFINE wt(c) == IF c = job.col THEN -1 ELSE Cardinality(domains[c]) \div Degree(pattern, c)
           Low(c) == {d \in cols : wt(d) < wt(c) \/ (wt(d) = wt(c) /\ d < c)}
           e(k) == CHOOSE c \in cols : Cardinality(Low(c)) = k - 1
<1>8. vs = [k \in 1 .. Cardinality(cols) |-> e(k)]
  BY <1>7, Zenon DEF DomainsOrder
<1>9. \A c \in cols : Under(cols, R, c) = Low(c)
  <2>1. \A c \in cols : weight[c] = wt(c)
    BY <1>2
  <2> HIDE DEF wt
  <2> QED BY <1>5, <2>1 DEF Under
<1>10. ByRank(cols, R, vs)
  <2> SUFFICES ASSUME NEW k \in 1 .. Cardinality(cols), NEW u \in cols, Cardinality(Under(cols, R, u)) = k - 1
               PROVE  vs[k] \in cols /\ Cardinality(Under(cols, R, vs[k])) = k - 1
    BY DEF ByRank
  <2> HIDE DEF Low
  <2>1. vs[k] = e(k)
    <3> HIDE DEF e
    <3> QED BY <1>8
  <2>2. e(k) \in cols /\ Cardinality(Low(e(k))) = k - 1
    BY <1>9
  <2> HIDE DEF e
  <2> QED BY <1>9, <2>1, <2>2
<1> HIDE DEF wt, Low, e
<1>11. /\ Cardinality(cols) \in Nat
       /\ \A k \in 1 .. Cardinality(cols) : vs[k] \in cols /\ Cardinality(Under(cols, R, vs[k])) = k - 1
       /\ \A v \in cols : \E k \in 1 .. Cardinality(cols) : vs[k] = v
  <2>1. PICK C : C = cols
    OBVIOUS
  <2>2. IsFiniteSet(C) /\ TotalOrder(C, R) /\ ByRank(C, R, vs)
    BY <1>1, <1>6, <1>10, <2>1
  <2> QED BY <2>1, <2>2, RankedBy
<1>12. DOMAIN vs = 1 .. Cardinality(cols) /\ vs = [k \in DOMAIN vs |-> vs[k]]
  BY <1>8
<1>13. vs \in Seq(cols) /\ Len(vs) = Cardinality(cols)
  BY <1>11, <1>12
<1>14. ToSet(vs) = cols
  BY <1>11, <1>12 DEF ToSet
<1>15. Len(vs) > 1 /\ vs # <<>>
  BY <1>1, <1>13, PatternIs
<1>16. ASSUME job.col # NoCol PROVE Head(vs) = job.col
  <2>1. job.col \in cols /\ Head(vs) = vs[1] /\ 1 \in 1 .. Cardinality(cols)
    BY <1>1, <1>11, <1>13, <1>15, <1>16
  <2>2. vs[1] \in cols /\ Cardinality(Under(cols, R, vs[1])) = 0
    BY <1>11, <2>1
  <2>3. IsFiniteSet(Under(cols, R, vs[1]))
    BY <1>1, FS_Subset DEF Under
  <2>4. job.col \notin Under(cols, R, vs[1])
    BY <2>2, <2>3, FS_EmptySet
  <2>5. vs[1] # job.col => <<job.col, vs[1]>> \in R
    <3>1. ASSUME vs[1] # job.col PROVE weight[job.col] < weight[vs[1]]
      BY <1>3, <2>1, <2>2, <3>1
    <3> QED BY <1>5, <2>1, <2>2, <3>1
  <2> QED BY <2>1, <2>4, <2>5 DEF Under
<1> QED BY <1>7, <1>13, <1>14, <1>15, <1>16

-----------------------------------------------------------------------------
(* The steps of a count keep the invariant.                                 *)

\* What a step that decides nothing owes to the sums and the verdict.
LEMMA Undecided ==
  ASSUME IInv, UNCHANGED <<job, part, sums, late, verdict>>, stage # "done", cut => cut'
  PROVE  SumsInv' /\ VerdictRight'
<1>1. job' = job /\ part' = part /\ sums' = sums /\ late' = late /\ verdict' = verdict
  OBVIOUS
<1>2. VerdictRight'
  BY <1>1 DEF IInv, StageInv, VerdictRight
<1>3. SumsInv
  BY DEF IInv
<1>4. cols' = cols /\ Hopeless' = Hopeless /\ \A c : Before(Real(c))' = Before(Real(c))
  BY <1>1, Frame
<1>5. ASSUME job.col = NoCol
      PROVE  /\ \A c \in cols' : sums'[c] <= Cardinality(Before(Real(c)))'
             /\ cut' \/ Hopeless' \/ \A c \in cols' : Cardinality(Before(Real(c)))' <= sums'[c] + late'[c]
  BY <1>1, <1>3, <1>4, <1>5 DEF SumsInv
<1>6. ASSUME job.col # NoCol
      PROVE  cut' \/ Hopeless' \/ Cardinality(Before(Real(job.col)))' <= sums'[job.col] + late'[job.col]
  BY <1>1, <1>3, <1>4, <1>6, Zenon DEF SumsInv
<1>7. SumsInv'
  BY <1>1, <1>5, <1>6, Zenon DEF SumsInv
<1> QED BY <1>2, <1>7

LEMMA Inside ==
  ASSUME TypeInv, ArcsLossless, stage \in {"arcs", "columns", "open", "samples"}, job.kind = "s" \/ useAC3, NEW c \in cols
  PROVE  Own(Real(c)) \subseteq domains[c] /\ (~OfInvalid(c) => Real(c) \subseteq domains[c])
<1>1. Own(Real(c)) \subseteq Real(c)
  BY DEF Own
<1>2. job.kind # "a" \/ useAC3
  BY JobIs
<1> QED BY <1>1, <1>2 DEF ArcsLossless

\* A column whose domain is too small ends the count rightly.
LEMMA FewIs ==
  ASSUME TypeInv, ArcsLossless, stage \in {"arcs", "columns", "open", "samples"}, job.kind = "s" \/ useAC3,
         NEW c \in cols, ~OfInvalid(c), Cardinality(domains[c]) < job.support
  PROVE  Hopeless
<1>1. Real(c) \subseteq domains[c] /\ domains[c] \in SUBSET NodesOf(data)
  BY Inside DEF TypeInv
<1> QED BY <1>1, HopelessIs

LEMMA ZeroType ==
  ASSUME TypeInv
  PROVE  zero \in [cols -> Nat] /\ (\A c \in cols : zero[c] = 0) /\ MinOf(zero) = 0
         /\ none \in [cols -> SUBSET NodesOf(data)] /\ \A c \in cols : none[c] = {}
<1>1. zero \in [cols -> Nat] /\ (\A c \in cols : zero[c] = 0)
  BY DEF zero, ByCol
<1>2. cols # {}
  BY JobIs
<1>3. MinOf(zero) = 0
  BY <1>1, <1>2, MinIs
<1> QED BY <1>1, <1>3 DEF none, ByCol

LEMMA CreateDomainsKeeps ==
  ASSUME IInv, CreateDomains
  PROVE  IInv'
<1> USE DEF IInv
<1> DEFINE new == ByCol(LAMBDA c : IF job.kind = "s" \/ useAC3 THEN Domain(c) ELSE {})
<1>1. stage = "domains" /\ postponed' = none /\ solutions' = none /\ UNCHANGED <<order, todo, sample, deciding, cut>>
  BY DEF CreateDomains
<1>2. /\ job' = job /\ part' = part /\ keeping' = keeping /\ sums' = sums /\ late' = late /\ verdict' = verdict
      /\ order' = order /\ todo' = todo /\ sample' = sample /\ cut' = cut
  BY <1>1 DEF deciding
<1>3. /\ cols' = cols /\ data' = data /\ pattern' = pattern /\ divided' = divided /\ useAC3' = useAC3
      /\ Hopeless' = Hopeless /\ Support' = Support /\ none' = none
      /\ \A c : Real(c)' = Real(c) /\ ByDegree(c)' = ByDegree(c) /\ OfInvalid(c)' = OfInvalid(c)
      /\ \A c : Own(Real(c))' = Own(Real(c))
  BY <1>2, Frame
<1>4. \A c \in cols : /\ Real(c) \subseteq ByDegree(c) /\ ByDegree(c) \subseteq NodesOf(data)
                      /\ Domain(c) \subseteq ByDegree(c) /\ Own(Real(c)) \subseteq Own(ByDegree(c)) /\ Own(Real(c)) \subseteq Real(c)
  <2>1. ASSUME NEW c \in cols
        PROVE  Real(c) \subseteq ByDegree(c) /\ ByDegree(c) \subseteq NodesOf(data)
    BY RealAre
  <2>2. ASSUME NEW c \in cols
        PROVE  Domain(c) \subseteq ByDegree(c) /\ Own(Real(c)) \subseteq Own(ByDegree(c)) /\ Own(Real(c)) \subseteq Real(c)
    BY <2>1, PartsOf DEF Domain
  <2> QED BY <2>1, <2>2
<1>5. \A c \in cols : new[c] = IF job.kind = "s" \/ useAC3 THEN Domain(c) ELSE {}
  BY DEF ByCol
<1>6. new \in [cols -> SUBSET NodesOf(data)]
  BY <1>4 DEF ByCol
<1>7. SumsInv' /\ VerdictRight'
  BY <1>1, <1>2, Undecided
<1>8. arcs = {}
  BY <1>1 DEF StageInv
<1>9. /\ TypeInv /\ none \in [cols -> SUBSET NodesOf(data)] /\ zero \in [cols -> Nat] /\ MinOf(zero) = 0
      /\ \A c \in cols : zero[c] = 0 /\ none[c] = {}
  BY ZeroType
<1>a. \/ job.kind = "s" /\ (\E c \in cols : ErasedTooFew(c)) /\ Counted(0, zero) /\ UNCHANGED <<domains, arcs, answer>>
      \/ job.kind = "a" /\ useAC3 /\ TooFew(new, cols) /\ Answered(Infrequent(TRUE)) /\ UNCHANGED <<domains, arcs, table>>
      \/ /\ domains' = new /\ arcs' = IF useAC3 THEN AllArcs ELSE {}
         /\ stage' = "arcs" /\ UNCHANGED <<answer, table>>
  BY DEF CreateDomains
<1> HIDE DEF new
<1>10. ASSUME job.kind = "s", NEW c \in cols, ErasedTooFew(c), Counted(0, zero), UNCHANGED <<domains, arcs, answer>> PROVE IInv'
  <2>1. stage' = "answer" /\ table' = [freq |-> 0, mni |-> zero] /\ domains' = domains /\ arcs' = arcs /\ answer' = answer
    BY <1>10 DEF Counted
  <2>2. Hopeless
    <3>1. Cardinality(ByDegree(c)) < job.support /\ ByDegree(c) \in SUBSET NodesOf(data)
      BY <1>4, <1>10 DEF ErasedTooFew
    <3> QED BY <1>4, <3>1, HopelessIs
  <2>3. TypeInv'
    BY <1>2, <1>3, <1>1, <1>9, <2>1 DEF TypeInv, Stages
  <2>4. StageInv' /\ ArcsInv' /\ SampleInv' /\ ColumnsInv' /\ ExactSound'
    BY <1>1, <1>2, <1>8, <1>10, <2>1 DEF StageInv, ArcsInv, ArcsLossless, SampleInv, ColumnsInv, ExactSound, StaysForSupport
  <2>5. TableInv'
    <3>1. \A d \in cols : postponed'[d] = {}
      BY <1>1, <1>9
    <3>2. \A d \in cols : Cardinality(Own(Real(d))) \in Nat
      BY <1>4, SizesAre
    <3>3. table'.freq = 0 /\ table'.mni = zero
      BY <2>1
    <3>4. \A d \in cols : table'.mni[d] <= Cardinality(Own(Real(d)))
      BY <1>9, <3>2, <3>3
    <3> QED BY <1>2, <1>3, <1>9, <2>2, <3>1, <3>3, <3>4 DEF TableInv
  <2> QED BY <1>7, <2>3, <2>4, <2>5
<1>11. ASSUME job.kind = "a", useAC3, TooFew(new, cols), Answered(Infrequent(TRUE)), UNCHANGED <<domains, arcs, table>> PROVE IInv'
  <2>1. stage' = "done" /\ answer' = Infrequent(TRUE) /\ domains' = domains /\ arcs' = arcs /\ table' = table
    BY <1>11 DEF Answered
  <2>2. Hopeless
    <3>1. PICK c \in cols : Cardinality(new[c]) < job.support
      BY <1>11 DEF TooFew
    <3>2. new[c] = ByDegree(c)
      BY <1>5, <1>11, JobIs DEF Domain, OfInvalid
    <3>3. ByDegree(c) \in SUBSET NodesOf(data) /\ Real(c) \subseteq ByDegree(c)
      BY <1>4
    <3> QED BY <3>1, <3>2, <3>3, HopelessIs
  <2>3. TypeInv'
    BY <1>2, <1>3, <1>1, <1>9, <2>1 DEF TypeInv, Stages
  <2>4. StageInv' /\ ArcsInv' /\ SampleInv' /\ ColumnsInv' /\ TableInv'
    BY <1>2, <1>8, <1>11, <1>1, <2>1 DEF StageInv, ArcsInv, ArcsLossless, SampleInv, ColumnsInv, TableInv, StaysForSupport
  <2>5. ExactSound'
    <3>1. answer'.freq = 0
      BY <2>1 DEF Infrequent
    <3>2. Support < job.support /\ Support \in Nat /\ job.support \in Nat
      BY <2>2, SupportIs, JobIs DEF Hopeless
    <3> QED BY <1>2, <1>3, <3>1, <3>2 DEF ExactSound
  <2> QED BY <1>7, <2>3, <2>4, <2>5
<1>12. ASSUME domains' = new, arcs' = IF useAC3 THEN AllArcs ELSE {}, stage' = "arcs", UNCHANGED <<answer, table>> PROVE IInv'
  <2>1. table' = table /\ answer' = answer
    BY <1>12
  <2>2. \A a \in AllArcs : a.ends \in DOMAIN pattern.edge
    BY DEF AllArcs
  <2>3. TypeInv'
    BY <1>2, <1>3, <1>1, <1>6, <1>9, <1>12, <2>1, <2>2 DEF TypeInv, Stages
  <2>4. StageInv' /\ SampleInv' /\ ColumnsInv' /\ TableInv' /\ ExactSound'
    BY <1>2, <1>3, <1>8, <1>12, <1>1 DEF StageInv, SampleInv, ColumnsInv, TableInv, ExactSound, StaysForSupport
  <2>5. ArcsLossless'
    <3> SUFFICES ASSUME NEW c \in cols
                 PROVE  (job.kind = "a" /\ ~useAC3 /\ new[c] = {}) \/ (IF OfInvalid(c) THEN Own(Real(c)) ELSE Real(c)) \subseteq new[c]
      BY <1>2, <1>3, <1>12 DEF ArcsLossless
    <3>1. job.kind \in {"s", "a"}
      BY JobIs
    <3> QED BY <1>4, <1>5, <3>1 DEF Domain
  <2>6. \A c \in cols : new[c] \subseteq ByDegree(c)
    BY <1>4, <1>5
  <2>7. ASSUME useAC3, NEW c \in cols, NEW d \in cols, {c, d} \in DOMAIN pattern.edge PROVE \E a \in arcs' : a.ends = {c, d}
    <3>1. PICK a : a = [ends |-> {c, d}, sig |-> pattern.edge[{c, d}]]
      OBVIOUS
    <3>2. a \in arcs' /\ a.ends = {c, d}
      BY <1>12, <2>7, <3>1 DEF AllArcs
    <3> QED BY <3>2
  <2>8. ArcsInv'
    BY <1>2, <1>3, <1>12, <2>5, <2>6, <2>7 DEF ArcsInv
  <2> QED BY <1>7, <2>3, <2>4, <2>8
<1> QED BY <1>a, <1>10, <1>11, <1>12

\* What refining the two ends of an edge leaves.
Refined(a, c, d, D) ==
  /\ c \in cols /\ d \in cols /\ c # d
  /\ D \in [cols -> SUBSET NodesOf(data)] /\ \A e \in cols : D[e] \subseteq domains[e] /\ (e \notin a.ends => D[e] = domains[e])
  /\ \A v \in D[c] : \E w \in D[d] : Linked(data, v, w, pattern.edge[{c, d}])
  /\ \A w \in D[d] : \E v \in D[c] : Linked(data, w, v, pattern.edge[{c, d}])
  /\ \A v \in domains[c] : \A w \in domains[d] : Linked(data, v, w, pattern.edge[{c, d}]) => v \in D[c] /\ w \in D[d]
LEMMA RefineIs ==
  ASSUME TypeInv, NEW a, a.ends \in DOMAIN pattern.edge, NEW c \in a.ends, NEW d \in a.ends, a.ends = {c, d}
  PROVE  Refined(a, c, d, refine(a, c, d))
<1>0. PICK D : D = refine(a, c, d)
  OBVIOUS
<1>1. PICK l : l = pattern.edge[{c, d}]
  OBVIOUS
<1>2. c \in cols /\ d \in cols /\ c # d
  <2>0. IsPattern(pattern)
    BY JobIs
  <2>1. PICK v, w \in NodesOf(pattern) : v # w /\ a.ends = {v, w}
    BY <2>0 DEF IsPattern
  <2>2. c \in {v, w} /\ d \in {v, w} /\ v \in {c, d} /\ w \in {c, d}
    BY <2>1
  <2> QED BY <2>1, <2>2 DEF cols
<1>3. domains \in [cols -> SUBSET NodesOf(data)]
  BY DEF TypeInv
<1>4. \A v, w : w \in Partners(a, v, domains[d]) <=> w \in domains[d] /\ Linked(data, v, w, l)
  <2>1. LabelOf(a) = l
    BY <1>1 DEF LabelOf
  <2>2. domains[d] \subseteq NodesOf(data)
    BY <1>2, <1>3
  <2> QED BY <2>1, <2>2 DEF Partners, Near, Linked
<1> DEFINE kept == {v \in domains[c] : Partners(a, v, domains[d]) # {}}
           other == UNION {Partners(a, v, domains[d]) : v \in kept}
<1>5. kept \subseteq domains[c] /\ \A v \in domains[c] : v \in kept <=> \E w \in domains[d] : Linked(data, v, w, l)
  BY <1>4
<1>6. \A w : w \in other <=> \E v \in kept : w \in domains[d] /\ Linked(data, v, w, l)
  <2> HIDE DEF kept
  <2> QED BY <1>4
<1>7. D = [domains EXCEPT ![c] = kept, ![d] = other]
  BY <1>0 DEF refine
<1> HIDE DEF kept, other
<1>8. D[c] = kept /\ D[d] = other /\ \A e \in cols : e # c /\ e # d => D[e] = domains[e]
  BY <1>2, <1>3, <1>7
<1>9. \A e \in cols : D[e] \subseteq domains[e] /\ (e \notin a.ends => D[e] = domains[e])
  BY <1>5, <1>6, <1>8
<1>10. D \in [cols -> SUBSET NodesOf(data)]
  <2>1. D = [e \in cols |-> D[e]]
    BY <1>2, <1>3, <1>7
  <2> QED BY <1>3, <1>9, <2>1
<1>11. ASSUME NEW v \in kept PROVE \E w \in other : Linked(data, v, w, l)
  <2>1. PICK w \in domains[d] : Linked(data, v, w, l)
    BY <1>5, <1>11
  <2> QED BY <1>6, <1>11, <2>1
<1>12. ASSUME NEW w \in other PROVE \E v \in kept : Linked(data, w, v, l)
  <2>1. PICK v \in kept : w \in domains[d] /\ Linked(data, v, w, l)
    BY <1>6, <1>12
  <2> QED BY <2>1, LinkedBothWays
<1>13. ASSUME NEW v \in domains[c], NEW w \in domains[d], Linked(data, v, w, l) PROVE v \in kept /\ w \in other
  BY <1>5, <1>6, <1>13
<1>14. Refined(a, c, d, D)
  BY <1>1, <1>2, <1>8, <1>9, <1>10, <1>11, <1>12, <1>13 DEF Refined
<1> QED BY <1>0, <1>14

LEMMA TooFewStays ==
  ASSUME TypeInv, NEW D \in [cols -> SUBSET NodesOf(data)], \A e \in cols : D[e] \subseteq domains[e], TooFew(domains, cols)
  PROVE  TooFew(D, cols)
<1>1. PICK e \in cols : Cardinality(domains[e]) < job.support
  BY DEF TooFew
<1>2. Cardinality(D[e]) <= Cardinality(domains[e]) /\ Cardinality(D[e]) \in Nat /\ Cardinality(domains[e]) \in Nat
  <2>1. domains[e] \subseteq NodesOf(data) /\ D[e] \in SUBSET domains[e]
    BY DEF TypeInv
  <2> QED BY <2>1, SizesAre
<1>3. Cardinality(D[e]) < job.support
  BY <1>1, <1>2, JobIs
<1> QED BY <1>3 DEF TooFew

LEMMA AC_3Keeps ==
  ASSUME IInv, AC_3
  PROVE  IInv'
<1> USE DEF IInv
<1>1. PICK a \in FirstArcs : \E c, d \in a.ends :
        /\ a.ends = {c, d}
        /\ domains' = refine(a, c, d)
        /\ arcs' = IF \E e \in a.ends : domains'[e] # domains[e] /\ Cardinality(domains'[e]) < job.support
                   THEN {} ELSE (arcs \ {a}) \union Affected(a, domains')
  BY DEF AC_3
<1>2. PICK c, d \in a.ends :
        /\ a.ends = {c, d}
        /\ domains' = refine(a, c, d)
        /\ arcs' = IF \E e \in a.ends : domains'[e] # domains[e] /\ Cardinality(domains'[e]) < job.support
                   THEN {} ELSE (arcs \ {a}) \union Affected(a, domains')
  BY <1>1
<1>3. /\ stage = "arcs" /\ stage' = stage /\ order' = order /\ todo' = todo /\ solutions' = solutions /\ postponed' = postponed
      /\ table' = table /\ cut' = cut /\ sample' = sample /\ answer' = answer /\ UNCHANGED deciding
      /\ job' = job /\ part' = part /\ keeping' = keeping /\ sums' = sums /\ late' = late /\ verdict' = verdict
  BY DEF AC_3, deciding, sampling
<1>4. /\ cols' = cols /\ data' = data /\ pattern' = pattern /\ divided' = divided /\ useAC3' = useAC3
      /\ none' = none
      /\ \A e : Real(e)' = Real(e) /\ ByDegree(e)' = ByDegree(e) /\ OfInvalid(e)' = OfInvalid(e)
      /\ \A e : Own(Real(e))' = Own(Real(e))
  BY <1>3, Frame
<1>5. a \in arcs /\ a.ends \in DOMAIN pattern.edge /\ arcs # {} /\ useAC3
  <2>1. a \in arcs
    BY <1>1 DEF FirstArcs
  <2> QED BY <2>1 DEF TypeInv, StageInv
<1>6. PICK D : D = domains' /\ D = refine(a, c, d)
  BY <1>2
<1>7. TypeInv
  OBVIOUS
<1>8. /\ c \in cols /\ d \in cols /\ c # d
      /\ D \in [cols -> SUBSET NodesOf(data)] /\ \A e \in cols : D[e] \subseteq domains[e] /\ (e \notin a.ends => D[e] = domains[e])
      /\ \A v \in D[c] : \E w \in D[d] : Linked(data, v, w, pattern.edge[{c, d}])
      /\ \A w \in D[d] : \E v \in D[c] : Linked(data, w, v, pattern.edge[{c, d}])
      /\ \A v \in domains[c] : \A w \in domains[d] : Linked(data, v, w, pattern.edge[{c, d}]) => v \in D[c] /\ w \in D[d]
  <2> HIDE DEF IInv
  <2>1. Refined(a, c, d, refine(a, c, d))
    BY <1>2, <1>5, <1>7, RefineIs
  <2> QED BY <1>6, <2>1 DEF Refined
<1>9. \A b \in arcs' : b.ends \in DOMAIN pattern.edge
  <2>1. \A b \in Affected(a, domains') : b.ends \in DOMAIN pattern.edge
    BY DEF Affected
  <2> QED BY <1>2, <2>1 DEF TypeInv
<1>10. TypeInv'
  BY <1>3, <1>4, <1>6, <1>8, <1>9 DEF TypeInv, Stages
<1>11. StageInv' /\ SampleInv' /\ ColumnsInv' /\ TableInv' /\ ExactSound'
  BY <1>3, <1>4, <1>5 DEF StageInv, SampleInv, ColumnsInv, TableInv, ExactSound, StaysForSupport
<1>12. SumsInv' /\ VerdictRight'
  BY <1>3, Undecided
<1>13. \A e \in cols : ~OfInvalid(e)
  BY <1>5, JobIs DEF OfInvalid, useAC3
<1>14. ArcsLossless'
  <2>1. \A e \in cols : Real(e) \subseteq domains[e]
    BY <1>3, <1>5, <1>13, Inside DEF ArcsInv
  <2>2. ASSUME NEW e \in cols, NEW m \in Embeddings(pattern, data) PROVE m[e] \in D[e]
    <3>1. m[c] \in domains[c] /\ m[d] \in domains[d] /\ m[e] \in domains[e]
      BY <1>8, <2>1 DEF Real
    <3>2. Linked(data, m[c], m[d], pattern.edge[{c, d}])
      <4>1. IsPattern(pattern) /\ {c, d} \in DOMAIN pattern.edge /\ c \in NodesOf(pattern) /\ d \in NodesOf(pattern)
        BY <1>2, <1>5, <1>8, JobIs DEF cols
      <4> QED BY <4>1, Kept
    <3>3. m[c] \in D[c] /\ m[d] \in D[d]
      BY <1>8, <3>1, <3>2
    <3> QED BY <1>2, <1>8, <3>1, <3>3
  <2>3. \A e \in cols : Real(e) \subseteq D[e]
    BY <2>2 DEF Real
  <2> QED BY <1>3, <1>4, <1>6, <1>13, <2>3 DEF ArcsLossless
<1>15. \A e \in cols : D[e] \subseteq ByDegree(e)
  BY <1>3, <1>8 DEF ArcsInv
<1>16. \/ TooFew(D, cols)
       \/ \A x, y \in cols : {x, y} \in DOMAIN pattern.edge =>
            (\E b \in arcs' : b.ends = {x, y}) \/ \A v \in D[x] : \E w \in D[y] : Linked(data, v, w, pattern.edge[{x, y}])
  <2>1. CASE \E e \in a.ends : D[e] # domains[e] /\ Cardinality(D[e]) < job.support
    BY <1>2, <1>8, <2>1 DEF TooFew
  <2>2. CASE TooFew(domains, cols)
    BY <1>7, <1>8, <2>2, TooFewStays
  <2>3. ASSUME ~TooFew(domains, cols), ~(\E e \in a.ends : D[e] # domains[e] /\ Cardinality(D[e]) < job.support),
               NEW x \in cols, NEW y \in cols, {x, y} \in DOMAIN pattern.edge
        PROVE  (\E b \in arcs' : b.ends = {x, y}) \/ \A v \in D[x] : \E w \in D[y] : Linked(data, v, w, pattern.edge[{x, y}])
    <3>1. arcs' = (arcs \ {a}) \union Affected(a, D)
      BY <1>2, <1>6, <2>3
    <3>2. CASE {x, y} = a.ends
      <4>1. (x = c /\ y = d) \/ (x = d /\ y = c)
        <5>1. x \in {c, d} /\ y \in {c, d} /\ c \in {x, y} /\ d \in {x, y}
          BY <1>2, <3>2
        <5> QED BY <1>8, <5>1
      <4>2. {c, d} = {d, c}
        OBVIOUS
      <4> QED BY <1>8, <4>1, <4>2
    <3>3. CASE {x, y} # a.ends /\ \E e \in {x, y} \intersect a.ends : D[e] # domains[e]
      <4>1. PICK b : b = [ends |-> {x, y}, sig |-> LabelOf(a)]
        OBVIOUS
      <4>2. b \in Affected(a, D)
        BY <2>3, <3>3, <4>1 DEF Affected
      <4>3. b \in arcs' /\ b.ends = {x, y}
        BY <3>1, <4>1, <4>2
      <4> QED BY <4>3
    <3>4. CASE {x, y} # a.ends /\ ~(\E e \in {x, y} \intersect a.ends : D[e] # domains[e])
      <4>1. D[x] = domains[x] /\ D[y] = domains[y]
        BY <1>8, <3>4
      <4>2. (\E b \in arcs : b.ends = {x, y}) \/ Matched(x, y)
        BY <1>3, <1>5, <2>3 DEF ArcsInv
      <4>3. CASE \E b \in arcs : b.ends = {x, y}
        BY <3>1, <3>4, <4>3
      <4>4. CASE Matched(x, y)
        BY <4>1, <4>4 DEF Matched
      <4> QED BY <4>2, <4>3, <4>4
    <3> QED BY <3>2, <3>3, <3>4
  <2> QED BY <2>1, <2>2, <2>3
<1>17. ArcsInv'
  <2>1. TooFew(D, cols) => TooFew(domains, cols)'
    BY <1>3, <1>4, <1>6 DEF TooFew
  <2>2. \A x, y \in cols : (\A v \in D[x] : \E w \in D[y] : Linked(data, v, w, pattern.edge[{x, y}])) => Matched(x, y)'
    BY <1>4, <1>6 DEF Matched
  <2> QED BY <1>3, <1>4, <1>6, <1>14, <1>15, <1>16, <2>1, <2>2 DEF ArcsInv
<1> QED BY <1>10, <1>11, <1>12, <1>17

\* A support that is read off the domains is the support.
LEMMA ReadIs ==
  ASSUME TypeInv, ArcsInv, stage = "arcs", arcs = {}, useAC3, Readable, ~TooFew(domains, cols)
  PROVE  /\ ~divided /\ \A c \in cols : domains[c] = Real(c)
         /\ Sizes(domains) \in [cols -> Nat] /\ \A c \in cols : Sizes(domains)[c] = Cardinality(Real(c))
         /\ MinOf(Sizes(domains)) = Support /\ Support >= job.support
<1>1. ~divided
  BY JobIs DEF useAC3
<1>2. domains \in [cols -> SUBSET NodesOf(data)] /\ cols = NodesOf(pattern) /\ IsPattern(pattern)
  BY JobIs DEF TypeInv, cols
<1>3. Consistent(pattern, data, domains)
  <2>1. \A c, d \in cols : {c, d} \in DOMAIN pattern.edge => Matched(c, d)
    BY DEF ArcsInv
  <2> QED BY <1>2, <2>1 DEF Consistent, Matched
<1>4. \A c \in cols : \A x \in domains[c] : data.label[x] = pattern.label[c]
  BY DEF ArcsInv, ByDegree, ByLabel, getNodesByLabel
<1>5. isItAcyclic(pattern) /\ hasUniqueLabels(pattern)
  BY DEF Readable
<1>6. ASSUME NEW c \in cols, NEW x \in domains[c] PROVE x \in Real(c)
  <2>1. PICK q, g : q = pattern /\ g = data
    OBVIOUS
  <2>2. \A e \in NodesOf(q) : \A y \in domains[e] : \E m \in Embeddings(q, g) : m[e] = y
    <3>1. /\ IsPattern(q) /\ isItAcyclic(q) /\ hasUniqueLabels(q) /\ Consistent(q, g, domains)
          /\ domains \in [NodesOf(q) -> SUBSET NodesOf(g)]
          /\ \A e \in NodesOf(q) : \A y \in domains[e] : g.label[y] = q.label[e]
      BY <1>2, <1>3, <1>4, <1>5, <2>1
    <3> QED BY <3>1, TreeImages
  <2> QED BY <1>2, <1>6, <2>1, <2>2 DEF Real
<1>7. \A c \in cols : Real(c) \subseteq domains[c]
  BY <1>1, Inside DEF ArcsInv, OfInvalid
<1>8. \A c \in cols : domains[c] = Real(c)
  BY <1>6, <1>7
<1>9. /\ Sizes(domains) \in [cols -> Nat] /\ \A c \in cols : Sizes(domains)[c] = Cardinality(Real(c))
  BY <1>2, <1>8, SizesType
<1>10. MinOf(Sizes(domains)) = Support
  <2>1. /\ MinOf(Sizes(domains)) \in Nat /\ \A c \in cols : MinOf(Sizes(domains)) <= Cardinality(Real(c))
        /\ \E c \in cols : MinOf(Sizes(domains)) = Cardinality(Real(c))
    BY <1>9, JobIs, MinIs
  <2> QED BY <2>1, SupportIs
<1>11. Support >= job.support
  <2>1. PICK c \in cols : Support = Cardinality(Real(c))
    BY SupportIs
  <2>2. ~(Cardinality(domains[c]) < job.support)
    BY DEF TooFew
  <2> QED BY <1>8, <2>1, <2>2, SupportIs, JobIs
<1> QED BY <1>1, <1>8, <1>9, <1>10, <1>11

\* The columns that a new order of the columns starts with.
LEMMA ColumnOpens ==
  ASSUME TypeInv, ArcsLossless, stage \in {"arcs", "columns"}, job.kind = "s",
         NEW ord \in Seq(cols), ord # <<>>
  PROVE  /\ Head(ord) \in cols /\ Own(domains[Head(ord)]) \subseteq NodesOf(data)
         /\ Own(Real(Head(ord))) \subseteq Own(domains[Head(ord)])
<1>1. Head(ord) \in cols
  OBVIOUS
<1>2. PICK c \in cols : c = Head(ord)
  BY <1>1
<1>3. domains[c] \subseteq NodesOf(data) /\ Real(c) \subseteq NodesOf(data)
  BY RealAre DEF TypeInv
<1>4. Own(Real(c)) \subseteq domains[c]
  BY Inside
<1>5. Own(domains[c]) \subseteq domains[c] /\ Own(Own(Real(c))) \subseteq Own(domains[c]) /\ Own(Own(Real(c))) = Own(Real(c))
  BY <1>3, <1>4, PartsOf
<1> QED BY <1>2, <1>3, <1>5

LEMMA CheckDomainsKeeps ==
  ASSUME IInv, CheckDomains
  PROVE  IInv'
<1> USE DEF IInv
<1> DEFINE few  == TooFew(domains, cols) /\ IF job.kind = "s" THEN ~(divided /\ job.col # NoCol) ELSE useAC3
           read == Readable /\ ~divided
           mni  == IF few THEN zero ELSE Sizes(domains)
<1>1. /\ stage = "arcs" /\ arcs = {} /\ domains' = domains /\ arcs' = arcs /\ solutions' = solutions /\ postponed' = postponed
      /\ sample' = sample /\ cut' = cut /\ UNCHANGED deciding
      /\ job' = job /\ part' = part /\ keeping' = keeping /\ sums' = sums /\ late' = late /\ verdict' = verdict
  BY DEF CheckDomains, deciding
<1>2. /\ cols' = cols /\ data' = data /\ pattern' = pattern /\ divided' = divided /\ useAC3' = useAC3
      /\ Hopeless' = Hopeless /\ Support' = Support /\ none' = none
      /\ \A c : Real(c)' = Real(c) /\ ByDegree(c)' = ByDegree(c) /\ OfInvalid(c)' = OfInvalid(c)
      /\ \A c : Own(Real(c))' = Own(Real(c))
  BY <1>1, Frame
<1>3. SumsInv' /\ VerdictRight'
  BY <1>1, Undecided
<1>4. /\ TypeInv /\ ArcsInv /\ ArcsLossless /\ none \in [cols -> SUBSET NodesOf(data)] /\ zero \in [cols -> Nat] /\ MinOf(zero) = 0
      /\ (\A c \in cols : zero[c] = 0 /\ none[c] = {}) /\ solutions = none /\ postponed = none
  BY <1>1, ZeroType DEF StageInv, ArcsInv
<1>5. few => Hopeless
  <2> SUFFICES ASSUME few PROVE Hopeless
    OBVIOUS
  <2>1. PICK c \in cols : Cardinality(domains[c]) < job.support
    BY DEF TooFew
  <2>2. ~OfInvalid(c) /\ (job.kind = "s" \/ useAC3)
    BY JobIs DEF OfInvalid
  <2> QED BY <1>1, <1>4, <2>1, <2>2, FewIs
<1>6. ~few /\ read => /\ useAC3 /\ ~divided /\ \A c \in cols : domains[c] = Real(c)
                      /\ Sizes(domains) \in [cols -> Nat] /\ \A c \in cols : Sizes(domains)[c] = Cardinality(Real(c))
                      /\ MinOf(Sizes(domains)) = Support /\ Support >= job.support
  <2> SUFFICES ASSUME ~few, read
               PROVE  /\ useAC3 /\ ~divided /\ \A c \in cols : domains[c] = Real(c)
                      /\ Sizes(domains) \in [cols -> Nat] /\ \A c \in cols : Sizes(domains)[c] = Cardinality(Real(c))
                      /\ MinOf(Sizes(domains)) = Support /\ Support >= job.support
    OBVIOUS
  <2>1. useAC3 /\ ~TooFew(domains, cols) /\ Readable
    BY DEF useAC3
  <2>2. TypeInv /\ ArcsInv /\ stage = "arcs" /\ arcs = {}
    BY <1>1, <1>4
  <2> QED BY <2>1, <2>2, ReadIs
<1>7. few \/ read => mni \in [cols -> Nat] /\ MinOf(mni) \in Nat
  <2>1. cols # {}
    BY JobIs
  <2> QED BY <1>4, <1>6, <2>1, MinIs
<1> HIDE DEF few, read, mni
<1>8. ASSUME few \/ read, job.kind = "s", Counted(MinOf(mni), mni), UNCHANGED answer, UNCHANGED <<order, todo>> PROVE IInv'
  <2>1. stage' = "answer" /\ table' = [freq |-> MinOf(mni), mni |-> mni] /\ answer' = answer /\ order' = order /\ todo' = todo
    BY <1>8 DEF Counted
  <2>2. TypeInv'
    BY <1>1, <1>2, <1>7, <1>8, <2>1 DEF TypeInv, Stages
  <2>3. StageInv' /\ ArcsInv' /\ SampleInv' /\ ColumnsInv' /\ ExactSound'
    BY <1>1, <1>8, <2>1 DEF StageInv, ArcsInv, ArcsLossless, SampleInv, ColumnsInv, ExactSound, StaysForSupport
  <2>4. TableInv'
    <3>1. \A d \in cols : Cardinality(Own(Real(d))) \in Nat
      BY RealAre, PartsOf, SizesAre
    <3>2. CASE few
      <4>1. mni = zero
        BY <3>2 DEF mni
      <4>2. \A d \in cols : mni[d] <= Cardinality(Own(Real(d)))
        BY <1>4, <3>1, <4>1
      <4> QED BY <1>1, <1>2, <1>4, <1>5, <2>1, <3>2, <4>2 DEF TableInv
    <3>3. CASE ~few
      <4>1. /\ mni = Sizes(domains) /\ ~divided /\ MinOf(mni) = Support /\ Support >= job.support
            /\ \A c \in cols : mni[c] = Cardinality(Real(c))
        BY <1>6, <1>8, <3>3 DEF mni
      <4>2. \A c \in cols : Own(Real(c)) = Real(c)
        BY <4>1 DEF Own
      <4>3. \A d \in cols : mni[d] <= Cardinality(Own(Real(d))) /\ Cardinality(Own(Real(d))) <= mni[d]
        BY <3>1, <4>1, <4>2
      <4> QED BY <1>1, <1>2, <1>4, <2>1, <4>1, <4>3 DEF TableInv
    <3> QED BY <3>2, <3>3
  <2> QED BY <1>3, <2>2, <2>3, <2>4
<1>9. ASSUME few \/ read, job.kind = "a", Answered([Infrequent(TRUE) EXCEPT !.freq = MinOf(mni)]), UNCHANGED table, UNCHANGED <<order, todo>> PROVE IInv'
  <2>1. stage' = "done" /\ answer'.freq = MinOf(mni) /\ table' = table /\ order' = order /\ todo' = todo
    BY <1>9 DEF Answered, Infrequent
  <2>2. TypeInv'
    BY <1>1, <1>2, <2>1 DEF TypeInv, Stages
  <2>3. StageInv' /\ ArcsInv' /\ SampleInv' /\ ColumnsInv' /\ TableInv'
    BY <1>1, <1>9, <2>1 DEF StageInv, ArcsInv, ArcsLossless, SampleInv, ColumnsInv, TableInv, StaysForSupport
  <2>4. ExactSound'
    <3>1. Support \in Nat /\ job.support \in Nat
      BY SupportIs, JobIs
    <3>2. MinOf(mni) >= job.support <=> Support >= job.support
      <4>1. CASE few
        BY <1>4, <1>5, <3>1, <4>1 DEF mni, Hopeless
      <4>2. CASE ~few
        BY <1>6, <1>9, <4>2 DEF mni
      <4> QED BY <4>1, <4>2
    <3> QED BY <1>1, <1>2, <2>1, <3>2 DEF ExactSound
  <2> QED BY <1>3, <2>2, <2>3, <2>4
<1>10. ASSUME ~few, ~read, job.kind = "s", CheckColumn(DomainsOrder), UNCHANGED <<answer, table>> PROVE IInv'
  <2>1. PICK ord : ord = DomainsOrder
    OBVIOUS
  <2>2. ord \in Seq(cols) /\ ToSet(ord) = cols /\ Len(ord) > 1 /\ ord # <<>> /\ (job.col # NoCol => Head(ord) = job.col)
    BY <2>1, OrderIs
  <2>3. stage' = "columns" /\ order' = ord /\ todo' = Own(domains[Head(ord)]) /\ answer' = answer /\ table' = table
    BY <1>10, <2>1 DEF CheckColumn
  <2>4. /\ Head(ord) \in cols /\ Own(domains[Head(ord)]) \subseteq NodesOf(data)
        /\ Own(Real(Head(ord))) \subseteq Own(domains[Head(ord)])
    BY <1>1, <1>4, <1>10, <2>2, ColumnOpens
  <2>5. TypeInv'
    BY <1>1, <1>2, <2>2, <2>3, <2>4 DEF TypeInv, Stages
  <2>6. StageInv' /\ SampleInv' /\ TableInv' /\ ExactSound'
    BY <1>1, <1>2, <1>10, <2>3 DEF StageInv, SampleInv, TableInv, ExactSound, StaysForSupport
  <2>7. ArcsInv'
    BY <1>1, <1>2, <1>4, <1>10, <2>3 DEF ArcsInv, ArcsLossless
  <2>8. ColumnsInv'
    <3>1. column' = Head(ord)
      BY <2>3 DEF column
    <3>2. \A c \in cols : c \in ToSet(order')
      BY <2>2, <2>3
    <3>3. \A c \in cols : c = column' => Own(Real(c)) \subseteq todo'
      BY <2>3, <2>4, <3>1
    <3>4. \A c \in cols : solutions'[c] = {} /\ postponed'[c] = {}
      BY <1>1, <1>4
    <3> QED BY <1>1, <1>2, <2>2, <2>3, <3>1, <3>2, <3>3, <3>4 DEF ColumnsInv
  <2> QED BY <1>3, <2>5, <2>6, <2>7, <2>8
<1>11. ASSUME ~few, ~read, job.kind = "a", SampleColumn(DomainsOrder), UNCHANGED <<answer, table>> PROVE IInv'
  <2>1. PICK ord : ord = DomainsOrder
    OBVIOUS
  <2>2. ord \in Seq(cols) /\ ord # <<>>
    BY <2>1, OrderIs
  <2>3. stage' = "open" /\ order' = ord /\ todo' = todo /\ answer' = answer /\ table' = table
    BY <1>11, <2>1 DEF SampleColumn
  <2>4. TypeInv'
    BY <1>1, <1>2, <2>2, <2>3 DEF TypeInv, Stages
  <2>5. StageInv' /\ ColumnsInv' /\ TableInv' /\ ExactSound'
    BY <1>1, <1>2, <1>11, <2>3 DEF StageInv, ColumnsInv, TableInv, ExactSound
  <2>6. ArcsInv'
    BY <1>1, <1>2, <1>4, <2>3 DEF ArcsInv, ArcsLossless
  <2>7. SampleInv'
    <3>1. useAC3 => ~TooFew(domains, cols)
      BY <1>11 DEF few
    <3>2. TooFew(domains, cols)' = TooFew(domains, cols)
      BY <1>1, <1>2 DEF TooFew
    <3> QED BY <1>2, <2>2, <2>3, <3>1, <3>2 DEF SampleInv
  <2> QED BY <1>3, <2>4, <2>5, <2>6, <2>7
<1>12. job.kind \in {"s", "a"}
  BY JobIs
<1> QED
  <2> USE DEF few, read, mni
  <2> QED BY <1>8, <1>9, <1>10, <1>11, <1>12 DEF CheckDomains

\* What a step within a column, which may end the count, leaves alone.
LEMMA ColumnFrame ==
  ASSUME IInv, stage = "columns", UNCHANGED <<domains, arcs, deciding, sampling>>,
         cut' \in BOOLEAN, cut => cut', order' \in Seq(cols), todo' \subseteq NodesOf(data), stage' \in {"columns", "answer"},
         solutions' \in [cols -> SUBSET NodesOf(data)], postponed' \in [cols -> SUBSET NodesOf(data)],
         table' \in [freq : Nat, mni : [cols -> Nat]]
  PROVE  /\ TypeInv' /\ StageInv' /\ ArcsInv' /\ SampleInv' /\ SumsInv' /\ VerdictRight' /\ ExactSound'
         /\ job' = job /\ part' = part /\ keeping' = keeping /\ domains' = domains
         /\ cols' = cols /\ data' = data /\ pattern' = pattern /\ divided' = divided
         /\ Hopeless' = Hopeless /\ \A c : Real(c)' = Real(c) /\ Own(Real(c))' = Own(Real(c))
<1>1. /\ domains' = domains /\ arcs' = arcs /\ sample' = sample /\ answer' = answer
      /\ job' = job /\ part' = part /\ keeping' = keeping /\ sums' = sums /\ late' = late /\ verdict' = verdict
  BY DEF deciding, sampling
<1>2. /\ cols' = cols /\ data' = data /\ pattern' = pattern /\ divided' = divided /\ useAC3' = useAC3
      /\ Hopeless' = Hopeless /\ none' = none
      /\ \A c : Real(c)' = Real(c) /\ ByDegree(c)' = ByDegree(c) /\ OfInvalid(c)' = OfInvalid(c)
      /\ \A c : Own(Real(c))' = Own(Real(c))
  BY <1>1, Frame
<1>3. SumsInv' /\ VerdictRight'
  BY <1>1, Undecided
<1>4. TypeInv'
  BY <1>1, <1>2 DEF IInv, TypeInv, Stages
<1>5. StageInv' /\ SampleInv' /\ ExactSound'
  BY <1>1, <1>2 DEF IInv, StageInv, SampleInv, ExactSound, StaysForSupport
<1>6. ArcsInv'
  BY <1>1, <1>2 DEF IInv, ArcsInv, ArcsLossless
<1> QED BY <1>1, <1>2, <1>3, <1>4, <1>5, <1>6

\* An image adds itself to each column, in the parts that own it.
LEMMA WithIs ==
  ASSUME TypeInv, NEW m \in Embeddings(pattern, data)
  PROVE  /\ With(m) \in [cols -> SUBSET NodesOf(data)]
         /\ \A c \in cols : /\ With(m)[c] = solutions[c] \union Own({m[c]})
                            /\ m[c] \in Real(c) /\ Own({m[c]}) \subseteq Own(Real(c))
                            /\ m[c] \in Own(Real(c)) => m[c] \in Own({m[c]})
<1>1. \A c \in cols : With(m)[c] = solutions[c] \union Own({m[c]})
  BY DEF With, ByCol
<1>2. \A c \in cols : m[c] \in Real(c)
  BY DEF Real
<1>3. \A c \in cols : Own({m[c]}) \subseteq Own(Real(c)) /\ (m[c] \in Own(Real(c)) => m[c] \in Own({m[c]}))
  BY <1>2 DEF Own
<1>4. ASSUME NEW c \in cols PROVE solutions[c] \union Own({m[c]}) \subseteq NodesOf(data)
  <2>1. Real(c) \subseteq NodesOf(data)
    BY RealAre
  <2>2. Own({m[c]}) \subseteq {m[c]}
    BY DEF Own
  <2> QED BY <1>2, <2>1, <2>2 DEF TypeInv
<1>5. With(m) \in [cols -> SUBSET NodesOf(data)]
  BY <1>4 DEF With, ByCol
<1> QED BY <1>1, <1>2, <1>3, <1>5

\* A search within the domains misses no image.
LEMMA ImagesAre ==
  ASSUME IInv, stage = "columns", NEW v \in Own(Real(column))
  PROVE  Images(column, v, TRUE) # {}
<1>1. /\ TypeInv /\ ArcsLossless /\ job.kind = "s" /\ order # <<>> /\ order \in Seq(cols)
      /\ (job.col # NoCol => column = job.col)
  BY DEF IInv, ArcsInv, StageInv, ColumnsInv, TypeInv
<1>2. column \in cols
  BY <1>1 DEF column
<1>3. PICK m \in Embeddings(pattern, data) : m[column] = v
  BY DEF Own, Real
<1>4. ASSUME NEW w \in cols PROVE m[w] \in domains[w]
  <2>1. CASE OfInvalid(w)
    <3>1. w = column
      BY <1>1, <2>1, JobIs DEF OfInvalid
    <3>2. Own(Real(w)) \subseteq domains[w]
      BY <1>1, Inside
    <3> QED BY <1>3, <3>1, <3>2
  <2>2. CASE ~OfInvalid(w)
    <3>1. Real(w) \subseteq domains[w]
      BY <1>1, <2>2, Inside
    <3> QED BY <3>1 DEF Real
  <2> QED BY <2>1, <2>2
<1> QED BY <1>3, <1>4 DEF Images

LEMMA KnownKeeps ==
  ASSUME IInv, Known
  PROVE  IInv'
<1>1. PICK v \in todo \intersect solutions[column] : todo' = todo \ {v}
  BY DEF Known
<1>2. /\ stage = "columns" /\ UNCHANGED <<domains, arcs, order, solutions, postponed, table, stage, deciding, sampling, cut>>
      /\ order' = order /\ solutions' = solutions /\ postponed' = postponed /\ table' = table /\ stage' = stage /\ cut' = cut
  BY DEF Known
<1>3. TypeInv /\ ColumnsInv
  BY DEF IInv
<1>4. /\ TypeInv' /\ StageInv' /\ ArcsInv' /\ SampleInv' /\ SumsInv' /\ VerdictRight' /\ ExactSound'
      /\ job' = job /\ keeping' = keeping /\ cols' = cols /\ \A c : Own(Real(c))' = Own(Real(c))
  <2>1. /\ cut' \in BOOLEAN /\ (cut => cut') /\ order' \in Seq(cols) /\ todo' \subseteq NodesOf(data)
        /\ stage' \in {"columns", "answer"}
        /\ solutions' \in [cols -> SUBSET NodesOf(data)] /\ postponed' \in [cols -> SUBSET NodesOf(data)]
        /\ table' \in [freq : Nat, mni : [cols -> Nat]]
    BY <1>1, <1>2, <1>3 DEF TypeInv
  <2>2. UNCHANGED <<domains, arcs, deciding, sampling>>
    BY <1>2
  <2> QED BY <1>2, <2>1, <2>2, ColumnFrame
<1>5. ColumnsInv'
  BY <1>1, <1>2, <1>3, <1>4 DEF ColumnsInv, column
<1>6. TableInv'
  BY <1>2 DEF TableInv
<1> QED BY <1>4, <1>5, <1>6 DEF IInv

LEMMA FindKeeps ==
  ASSUME IInv, Find
  PROVE  IInv'
<1>1. PICK v \in todo \ solutions[column] : todo' = todo \ {v} /\ \E m \in Images(column, v, TRUE) : solutions' = With(m)
  BY DEF Find
<1>2. PICK m \in Images(column, v, TRUE) : solutions' = With(m)
  BY <1>1
<1>3. /\ stage = "columns" /\ UNCHANGED <<domains, arcs, order, postponed, table, stage, deciding, sampling, cut>>
      /\ order' = order /\ postponed' = postponed /\ table' = table /\ stage' = stage /\ cut' = cut
  BY DEF Find
<1>4. TypeInv /\ ColumnsInv
  BY DEF IInv
<1>5. m \in Embeddings(pattern, data) /\ m[column] = v
  BY <1>2 DEF Images
<1>6. /\ solutions' \in [cols -> SUBSET NodesOf(data)]
      /\ \A c \in cols : /\ solutions'[c] = solutions[c] \union Own({m[c]})
                         /\ Own({m[c]}) \subseteq Own(Real(c)) /\ (m[c] \in Own(Real(c)) => m[c] \in Own({m[c]}))
  BY <1>2, <1>4, <1>5, WithIs
<1>7. /\ TypeInv' /\ StageInv' /\ ArcsInv' /\ SampleInv' /\ SumsInv' /\ VerdictRight' /\ ExactSound'
      /\ job' = job /\ keeping' = keeping /\ cols' = cols /\ \A c : Own(Real(c))' = Own(Real(c))
  <2>1. /\ cut' \in BOOLEAN /\ (cut => cut') /\ order' \in Seq(cols) /\ todo' \subseteq NodesOf(data)
        /\ stage' \in {"columns", "answer"}
        /\ postponed' \in [cols -> SUBSET NodesOf(data)]
        /\ table' \in [freq : Nat, mni : [cols -> Nat]]
    BY <1>1, <1>3, <1>4 DEF TypeInv
  <2>2. UNCHANGED <<domains, arcs, deciding, sampling>>
    BY <1>3
  <2> QED BY <1>3, <1>6, <2>1, <2>2, ColumnFrame
<1>8. column' = column /\ order # <<>>
  BY <1>3, <1>4 DEF column, ColumnsInv
<1>9. \A c \in cols : solutions'[c] \subseteq Own(Real(c)) /\ solutions[c] \subseteq solutions'[c]
  BY <1>3, <1>4, <1>6 DEF ColumnsInv
<1>10. ASSUME ~cut, NEW c \in cols, c = column \/ c \notin ToSet(order)
       PROVE  Own(Real(c)) \subseteq solutions'[c] \union postponed'[c] \union (IF c = column THEN todo' ELSE {})
  <2>1. Own(Real(c)) \subseteq solutions[c] \union postponed[c] \union (IF c = column THEN todo ELSE {})
    BY <1>3, <1>4, <1>10 DEF ColumnsInv
  <2>2. c = column /\ v \in Own(Real(c)) => v \in solutions'[c]
    BY <1>5, <1>6
  <2> QED BY <1>1, <1>3, <1>9, <2>1, <2>2
<1>11. ColumnsInv'
  BY <1>3, <1>4, <1>7, <1>8, <1>9, <1>10 DEF ColumnsInv
<1>12. TableInv'
  BY <1>3 DEF TableInv
<1> QED BY <1>7, <1>11, <1>12 DEF IInv

LEMMA NotFoundIs ==
  ASSUME IInv, stage = "columns", NEW v \in todo, NotFound(v)
  PROVE  /\ cut' \in BOOLEAN /\ (cut => cut') /\ postponed' \in [cols -> SUBSET NodesOf(data)]
         /\ \A c \in cols : postponed[c] \subseteq postponed'[c] /\ (postponed'[c] # {} => keeping /\ c = job.col)
         /\ cut' \/ v \in postponed'[column] \/ v \notin Own(Real(column))
<1>1. TypeInv /\ ColumnsInv
  BY DEF IInv
<1>2. /\ order # <<>> /\ order \in Seq(cols) /\ (job.col # NoCol => column = job.col) /\ (keeping => job.col # NoCol)
      /\ \A c \in cols : postponed[c] # {} => keeping /\ c = job.col
  BY <1>1 DEF ColumnsInv, TypeInv
<1>3. column \in cols
  BY <1>2 DEF column
<1>4. postponed \in [cols -> SUBSET NodesOf(data)] /\ v \in NodesOf(data) /\ cut \in BOOLEAN
  BY <1>1 DEF TypeInv
<1>5. CASE Images(column, v, TRUE) = {} /\ UNCHANGED <<postponed, cut>>
  <2>1. v \notin Own(Real(column))
    BY <1>5, ImagesAre
  <2> QED BY <1>2, <1>4, <1>5, <2>1
<1>6. CASE keeping /\ postponed' = [postponed EXCEPT ![column] = @ \union {v}] /\ UNCHANGED cut
  BY <1>2, <1>3, <1>4, <1>6
<1>7. CASE cut' = TRUE /\ UNCHANGED postponed
  BY <1>2, <1>4, <1>7
<1> QED BY <1>5, <1>6, <1>7 DEF NotFound

\* The size of what is covered.
LEMMA CoverIs ==
  ASSUME TypeInv, NEW A, NEW B, NEW C, NEW S, A \subseteq NodesOf(data), B \subseteq NodesOf(data), C \subseteq NodesOf(data),
         S \subseteq A \union B \union C
  PROVE  /\ Cardinality(A) \in Nat /\ Cardinality(B) \in Nat /\ Cardinality(C) \in Nat /\ Cardinality(S) \in Nat
         /\ Cardinality(S) <= Cardinality(A) + Cardinality(B) + Cardinality(C)
<1>1. /\ IsFiniteSet(A) /\ IsFiniteSet(B) /\ IsFiniteSet(C) /\ IsFiniteSet(A \union B) /\ IsFiniteSet(A \union B \union C)
      /\ Cardinality(A) \in Nat /\ Cardinality(B) \in Nat /\ Cardinality(C) \in Nat
      /\ Cardinality(A \union B) \in Nat /\ Cardinality(A \union B \union C) \in Nat
      /\ Cardinality(A \intersect B) \in Nat /\ Cardinality((A \union B) \intersect C) \in Nat
  BY SizesAre
<1>2. Cardinality(A \union B) <= Cardinality(A) + Cardinality(B)
  <2>1. Cardinality(A \union B) = Cardinality(A) + Cardinality(B) - Cardinality(A \intersect B)
    BY <1>1, FS_Union
  <2> QED BY <1>1, <2>1
<1>3. Cardinality(A \union B \union C) <= Cardinality(A \union B) + Cardinality(C)
  <2>1. PICK D : D = A \union B
    OBVIOUS
  <2>2. IsFiniteSet(D) /\ Cardinality(D \union C) = Cardinality(D) + Cardinality(C) - Cardinality(D \intersect C)
    BY <1>1, <2>1, FS_Union
  <2> QED BY <1>1, <2>1, <2>2
<1>4. Cardinality(S) \in Nat /\ Cardinality(S) <= Cardinality(A \union B \union C)
  <2>1. A \union B \union C \subseteq NodesOf(data)
    OBVIOUS
  <2>2. PICK D : D = A \union B \union C
    OBVIOUS
  <2> QED BY <2>1, <2>2, SizesAre
<1> QED BY <1>1, <1>2, <1>3, <1>4

LEMMA MissKeeps ==
  ASSUME IInv, Miss
  PROVE  IInv'
<1> DEFINE Rest(v) == todo \ {v}
           break(v) == ~divided /\ CannotReach(Rest(v), postponed'[column])
           believe(v) == divided /\ job.col # NoCol /\ AsPredicted(Rest(v), postponed'[column])
           all == [solutions EXCEPT ![column] = @ \union todo]
<1>1. PICK v \in todo \ solutions[column] :
        /\ NotFound(v)
        /\ \/ break(v) /\ Counted(MinOf(Sizes(solutions)), Sizes(solutions)) /\ UNCHANGED <<todo, solutions>>
           \/ /\ believe(v) /\ solutions' = all
              /\ Counted(Cardinality(all[column]), [zero EXCEPT ![column] = Cardinality(all[column])]) /\ UNCHANGED todo
           \/ todo' = Rest(v) /\ UNCHANGED <<solutions, stage, table>>
  BY DEF Miss
<1>2. /\ stage = "columns" /\ UNCHANGED <<domains, arcs, deciding, sampling>> /\ order' = order
  BY DEF Miss
<1>3. TypeInv /\ ColumnsInv /\ order # <<>> /\ order \in Seq(cols) /\ (job.col # NoCol => column = job.col) /\ job.kind = "s"
  BY <1>2 DEF IInv, TypeInv, ColumnsInv, StageInv
<1>4. /\ cut' \in BOOLEAN /\ (cut => cut') /\ postponed' \in [cols -> SUBSET NodesOf(data)]
      /\ \A c \in cols : postponed[c] \subseteq postponed'[c] /\ (postponed'[c] # {} => keeping /\ c = job.col)
      /\ cut' \/ v \in postponed'[column] \/ v \notin Own(Real(column))
  BY <1>1, <1>2, NotFoundIs
<1>5. column \in cols /\ column' = column
  BY <1>2, <1>3 DEF column
<1>6. PICK rest : rest = todo \ {v}
  OBVIOUS
<1>7. /\ rest \subseteq todo /\ todo \subseteq NodesOf(data) /\ order' \in Seq(cols)
      /\ solutions \in [cols -> SUBSET NodesOf(data)] /\ table \in [freq : Nat, mni : [cols -> Nat]]
      /\ \A c \in cols : solutions[c] \subseteq Own(Real(c))
  BY <1>2, <1>3, <1>6 DEF TypeInv, ColumnsInv
<1>8. ASSUME ~cut', NEW c \in cols, c = column \/ c \notin ToSet(order)
      PROVE  Own(Real(c)) \subseteq solutions[c] \union postponed'[c] \union (IF c = column THEN rest ELSE {})
  <2>1. Own(Real(c)) \subseteq solutions[c] \union postponed[c] \union (IF c = column THEN todo ELSE {})
    BY <1>2, <1>3, <1>4, <1>8 DEF ColumnsInv
  <2> QED BY <1>4, <1>6, <1>8, <2>1
<1>9. ASSUME stage' \in {"columns", "answer"}, solutions' \in [cols -> SUBSET NodesOf(data)], todo' \subseteq NodesOf(data),
             table' \in [freq : Nat, mni : [cols -> Nat]]
      PROVE  /\ TypeInv' /\ StageInv' /\ ArcsInv' /\ SampleInv' /\ SumsInv' /\ VerdictRight' /\ ExactSound'
             /\ job' = job /\ keeping' = keeping /\ cols' = cols /\ divided' = divided /\ Hopeless' = Hopeless
             /\ \A c : Own(Real(c))' = Own(Real(c))
  <2>1. UNCHANGED <<domains, arcs, deciding, sampling>>
    BY <1>2
  <2> QED BY <1>2, <1>4, <1>7, <1>9, <2>1, ColumnFrame
<1>10. /\ Sizes(solutions) \in [cols -> Nat] /\ MinOf(Sizes(solutions)) \in Nat
       /\ \A c \in cols : Sizes(solutions)[c] = Cardinality(solutions[c])
  <2>1. /\ Sizes(solutions) \in [cols -> Nat] /\ \A c \in cols : Sizes(solutions)[c] = Cardinality(solutions[c])
    BY <1>3, <1>7, SizesType
  <2>2. cols # {}
    BY <1>3, JobIs
  <2> QED BY <2>1, <2>2, MinIs
<1>11. \A c \in cols : Real(c) \subseteq NodesOf(data) /\ Own(Real(c)) \subseteq NodesOf(data) /\ (~divided => Own(Real(c)) = Real(c))
  BY <1>3, RealAre, PartsOf
<1>12. ASSUME break(v), Counted(MinOf(Sizes(solutions)), Sizes(solutions)), UNCHANGED <<todo, solutions>> PROVE IInv'
  <2>1. /\ stage' = "answer" /\ table' = [freq |-> MinOf(Sizes(solutions)), mni |-> Sizes(solutions)]
        /\ todo' = todo /\ solutions' = solutions
    BY <1>12 DEF Counted
  <2>2. /\ TypeInv' /\ StageInv' /\ ArcsInv' /\ SampleInv' /\ SumsInv' /\ VerdictRight' /\ ExactSound'
        /\ job' = job /\ keeping' = keeping /\ cols' = cols /\ divided' = divided /\ Hopeless' = Hopeless
        /\ \A c : Own(Real(c))' = Own(Real(c))
    BY <1>7, <1>9, <1>10, <2>1
  <2>3. cut' \/ Hopeless
    <3> SUFFICES ASSUME ~cut' PROVE Hopeless
      OBVIOUS
    <3>1. Real(column) \subseteq solutions[column] \union postponed'[column] \union rest /\ ~divided
      BY <1>5, <1>8, <1>11, <1>12
    <3>2. solutions[column] \subseteq NodesOf(data) /\ postponed'[column] \subseteq NodesOf(data) /\ rest \subseteq NodesOf(data)
      BY <1>4, <1>5, <1>7
    <3>3. PICK A, B, S : A = solutions[column] /\ B = postponed'[column] /\ S = Real(column)
      OBVIOUS
    <3>4. /\ Cardinality(A) \in Nat /\ Cardinality(B) \in Nat /\ Cardinality(rest) \in Nat /\ Cardinality(S) \in Nat
          /\ Cardinality(S) <= Cardinality(A) + Cardinality(B) + Cardinality(rest)
      BY <1>3, <3>1, <3>2, <3>3, CoverIs
    <3>5. Cardinality(rest) + Cardinality(A) + Cardinality(B) < job.support
      BY <1>6, <1>12, <3>3 DEF CannotReach
    <3>6. Cardinality(Real(column)) < job.support /\ Real(column) \in SUBSET NodesOf(data)
      <4>1. job.support \in Nat
        BY <1>3, JobIs
      <4>2. Cardinality(S) < job.support
        BY <3>4, <3>5, <4>1
      <4>3. Real(column) \in SUBSET NodesOf(data)
        BY <1>5, <1>11
      <4> QED BY <3>3, <4>2, <4>3
    <3> QED BY <1>3, <1>5, <3>6, HopelessIs
  <2>4. \A c \in cols : Sizes(solutions)[c] <= Cardinality(Own(Real(c)))
    <3> SUFFICES ASSUME NEW c \in cols PROVE Cardinality(solutions[c]) <= Cardinality(Own(Real(c)))
      BY <1>10
    <3>1. Own(Real(c)) \subseteq NodesOf(data) /\ solutions[c] \in SUBSET Own(Real(c))
      BY <1>7, <1>11
    <3> QED BY <1>3, <3>1, SizesAre
  <2>5. TableInv'
    BY <1>4, <2>1, <2>2, <2>3, <2>4 DEF TableInv
  <2>6. ColumnsInv'
    BY <2>1 DEF ColumnsInv
  <2> QED BY <2>2, <2>5, <2>6 DEF IInv
<1>13. ASSUME believe(v), solutions' = all, Counted(Cardinality(all[column]), [zero EXCEPT ![column] = Cardinality(all[column])]), UNCHANGED todo PROVE IInv'
  <2>1. all \in [cols -> SUBSET NodesOf(data)] /\ all[column] = solutions[column] \union todo
    BY <1>5, <1>7
  <2>2. PICK n : n = Cardinality(all[column])
    OBVIOUS
  <2>3. n \in Nat
    <3> HIDE DEF all
    <3>1. all[column] \subseteq NodesOf(data)
      BY <1>5, <2>1
    <3> QED BY <1>3, <2>2, <3>1, SizesAre
  <2>4. stage' = "answer" /\ table' = [freq |-> n, mni |-> [zero EXCEPT ![column] = n]] /\ todo' = todo
    BY <1>13, <2>2 DEF Counted
  <2>5. zero \in [cols -> Nat]
    BY <1>3, ZeroType
  <2>6. [zero EXCEPT ![column] = n] \in [cols -> Nat] /\ [zero EXCEPT ![column] = n][column] = n
    BY <1>5, <2>3, <2>5
  <2>7. /\ TypeInv' /\ StageInv' /\ ArcsInv' /\ SampleInv' /\ SumsInv' /\ VerdictRight' /\ ExactSound'
        /\ job' = job /\ keeping' = keeping /\ cols' = cols /\ divided' = divided /\ Hopeless' = Hopeless
        /\ \A c : Own(Real(c))' = Own(Real(c))
    BY <1>7, <1>9, <1>13, <2>1, <2>3, <2>4, <2>6
  <2>8. ~cut' => Cardinality(Own(Real(column))) <= n + Cardinality(postponed'[column])
    <3> SUFFICES ASSUME ~cut' PROVE Cardinality(Own(Real(column))) <= n + Cardinality(postponed'[column])
      OBVIOUS
    <3>1. Own(Real(column)) \subseteq all[column] \union postponed'[column] \union {}
      BY <1>5, <1>6, <1>8, <2>1
    <3>2. PICK A, B, C, S : A = all[column] /\ B = postponed'[column] /\ S = Own(Real(column)) /\ C = {}
      OBVIOUS
    <3>3. A \subseteq NodesOf(data) /\ B \subseteq NodesOf(data) /\ C \subseteq NodesOf(data) /\ S \subseteq A \union B \union C
      BY <1>4, <1>5, <2>1, <3>1, <3>2
    <3>4. /\ Cardinality(A) \in Nat /\ Cardinality(B) \in Nat /\ Cardinality(C) \in Nat /\ Cardinality(S) \in Nat
          /\ Cardinality(S) <= Cardinality(A) + Cardinality(B) + Cardinality(C)
      BY <1>3, <3>3, CoverIs
    <3>5. Cardinality(C) = 0
      BY <3>2, FS_EmptySet
    <3>6. n = Cardinality(A)
      BY <2>2, <3>2
    <3> HIDE DEF all
    <3> QED BY <3>2, <3>4, <3>5, <3>6
  <2>9. job.col = column /\ divided /\ job.col # NoCol
    BY <1>3, <1>13
  <2>10. table'.mni[column] = n
    BY <2>4, <2>6
  <2>11. TableInv'
    BY <1>4, <2>4, <2>7, <2>8, <2>9, <2>10 DEF TableInv
  <2>12. ColumnsInv'
    BY <2>4 DEF ColumnsInv
  <2> QED BY <2>7, <2>11, <2>12 DEF IInv
<1>14. ASSUME todo' = Rest(v), UNCHANGED <<solutions, stage, table>> PROVE IInv'
  <2>1. todo' = rest /\ solutions' = solutions /\ stage' = stage /\ table' = table
    BY <1>6, <1>14
  <2>2. /\ TypeInv' /\ StageInv' /\ ArcsInv' /\ SampleInv' /\ SumsInv' /\ VerdictRight' /\ ExactSound'
        /\ job' = job /\ keeping' = keeping /\ cols' = cols /\ divided' = divided /\ Hopeless' = Hopeless
        /\ \A c : Own(Real(c))' = Own(Real(c))
    BY <1>2, <1>7, <1>9, <2>1
  <2>3. ColumnsInv'
    BY <1>2, <1>3, <1>4, <1>5, <1>7, <1>8, <2>1, <2>2 DEF ColumnsInv
  <2>4. TableInv'
    BY <1>2, <2>1 DEF TableInv
  <2> QED BY <2>2, <2>3, <2>4 DEF IInv
<1> HIDE DEF Rest, break, believe, all
<1> QED BY <1>1, <1>12, <1>13, <1>14

LEMMA CloseColumnKeeps ==
  ASSUME IInv, CloseColumn
  PROVE  IInv'
<1> DEFINE valid == Cardinality(solutions[column])
           last == Len(order) = 1 \/ (~divided /\ valid + Cardinality(postponed[column]) < job.support)
<1>1. \/ last /\ Counted(MinOf(Sizes(solutions)), Sizes(solutions)) /\ UNCHANGED <<order, todo>>
      \/ ~last /\ job.col # NoCol /\ Counted(valid, [zero EXCEPT ![column] = valid]) /\ UNCHANGED <<order, todo>>
      \/ ~last /\ job.col = NoCol /\ CheckColumn(Tail(order)) /\ UNCHANGED table
  BY DEF CloseColumn
<1>2. /\ stage = "columns" /\ todo = {} /\ UNCHANGED <<domains, arcs, solutions, postponed, deciding, sampling, cut>>
      /\ domains' = domains /\ solutions' = solutions /\ postponed' = postponed /\ cut' = cut
  BY DEF CloseColumn
<1>3. /\ TypeInv /\ ColumnsInv /\ ArcsLossless /\ order # <<>> /\ order \in Seq(cols) /\ job.kind = "s"
      /\ (job.col # NoCol => column = job.col /\ Len(order) > 1)
      /\ cut \in BOOLEAN /\ (keeping => job.col # NoCol)
  BY <1>2 DEF IInv, TypeInv, ColumnsInv, StageInv, ArcsInv
<1>5. column \in cols
  BY <1>3 DEF column
<1>6. /\ solutions \in [cols -> SUBSET NodesOf(data)] /\ postponed \in [cols -> SUBSET NodesOf(data)]
      /\ table \in [freq : Nat, mni : [cols -> Nat]]
      /\ \A c \in cols : solutions[c] \subseteq Own(Real(c)) /\ (postponed[c] # {} => keeping /\ c = job.col)
  BY <1>2, <1>3 DEF TypeInv, ColumnsInv
<1>7. ASSUME ~cut, NEW c \in cols, c = column \/ c \notin ToSet(order) PROVE Own(Real(c)) \subseteq solutions[c] \union postponed[c]
  BY <1>2, <1>3, <1>7 DEF ColumnsInv
<1>8. ASSUME stage' \in {"columns", "answer"}, order' \in Seq(cols), todo' \subseteq NodesOf(data),
             table' \in [freq : Nat, mni : [cols -> Nat]]
      PROVE  /\ TypeInv' /\ StageInv' /\ ArcsInv' /\ SampleInv' /\ SumsInv' /\ VerdictRight' /\ ExactSound'
             /\ job' = job /\ keeping' = keeping /\ cols' = cols /\ divided' = divided /\ Hopeless' = Hopeless
             /\ \A c : Own(Real(c))' = Own(Real(c))
  <2>1. UNCHANGED <<domains, arcs, deciding, sampling>>
    BY <1>2
  <2>2. /\ cut' \in BOOLEAN /\ (cut => cut')
        /\ solutions' \in [cols -> SUBSET NodesOf(data)] /\ postponed' \in [cols -> SUBSET NodesOf(data)]
    BY <1>2, <1>3, <1>6
  <2> QED BY <1>2, <1>8, <2>1, <2>2, ColumnFrame
<1>9. /\ Sizes(solutions) \in [cols -> Nat] /\ MinOf(Sizes(solutions)) \in Nat
      /\ \A c \in cols : Sizes(solutions)[c] = Cardinality(solutions[c])
  <2>1. /\ Sizes(solutions) \in [cols -> Nat] /\ \A c \in cols : Sizes(solutions)[c] = Cardinality(solutions[c])
    BY <1>3, <1>6, SizesType
  <2>2. cols # {}
    BY <1>3, JobIs
  <2> QED BY <2>1, <2>2, MinIs
<1>10. \A c \in cols : /\ Real(c) \subseteq NodesOf(data) /\ Own(Real(c)) \subseteq NodesOf(data) /\ (~divided => Own(Real(c)) = Real(c))
                       /\ Cardinality(Own(Real(c))) \in Nat /\ Cardinality(solutions[c]) \in Nat /\ Cardinality(postponed[c]) \in Nat
                       /\ Cardinality(solutions[c]) <= Cardinality(Own(Real(c)))
  <2> SUFFICES ASSUME NEW c \in cols
               PROVE  /\ Real(c) \subseteq NodesOf(data) /\ Own(Real(c)) \subseteq NodesOf(data) /\ (~divided => Own(Real(c)) = Real(c))
                      /\ Cardinality(Own(Real(c))) \in Nat /\ Cardinality(solutions[c]) \in Nat /\ Cardinality(postponed[c]) \in Nat
                      /\ Cardinality(solutions[c]) <= Cardinality(Own(Real(c)))
    OBVIOUS
  <2>1. Real(c) \subseteq NodesOf(data) /\ Own(Real(c)) \subseteq NodesOf(data) /\ (~divided => Own(Real(c)) = Real(c))
    BY <1>3, RealAre, PartsOf
  <2>2. solutions[c] \in SUBSET Own(Real(c)) /\ postponed[c] \subseteq NodesOf(data)
    BY <1>6
  <2> QED BY <1>3, <2>1, <2>2, SizesAre
<1>11. ASSUME ~cut, NEW c \in cols, c = column \/ c \notin ToSet(order)
       PROVE  Cardinality(Own(Real(c))) <= Cardinality(solutions[c]) + Cardinality(postponed[c])
  <2>1. PICK A, B, C, S : A = solutions[c] /\ B = postponed[c] /\ C = {} /\ S = Own(Real(c))
    OBVIOUS
  <2>2. A \subseteq NodesOf(data) /\ B \subseteq NodesOf(data) /\ C \subseteq NodesOf(data) /\ S \subseteq A \union B \union C
    BY <1>6, <1>7, <1>11, <2>1
  <2>3. Cardinality(A) \in Nat /\ Cardinality(B) \in Nat /\ Cardinality(S) <= Cardinality(A) + Cardinality(B) + Cardinality(C)
    BY <1>3, <2>2, CoverIs
  <2>4. Cardinality(C) = 0
    BY <2>1, FS_EmptySet
  <2> QED BY <2>1, <2>3, <2>4
<1>12. ASSUME last, Counted(MinOf(Sizes(solutions)), Sizes(solutions)), UNCHANGED <<order, todo>> PROVE IInv'
  <2>1. /\ stage' = "answer" /\ table' = [freq |-> MinOf(Sizes(solutions)), mni |-> Sizes(solutions)]
        /\ todo' = todo /\ order' = order
    BY <1>12 DEF Counted
  <2>2. /\ TypeInv' /\ StageInv' /\ ArcsInv' /\ SampleInv' /\ SumsInv' /\ VerdictRight' /\ ExactSound'
        /\ job' = job /\ keeping' = keeping /\ cols' = cols /\ divided' = divided /\ Hopeless' = Hopeless
        /\ \A c : Own(Real(c))' = Own(Real(c))
    BY <1>2, <1>3, <1>8, <1>9, <2>1
  <2>3. \/ cut \/ Hopeless
        \/ job.col = NoCol /\ \A c \in cols : Cardinality(Own(Real(c))) <= Sizes(solutions)[c]
    <3> SUFFICES ASSUME ~cut PROVE Hopeless \/ (job.col = NoCol /\ \A c \in cols : Cardinality(Own(Real(c))) <= Sizes(solutions)[c])
      OBVIOUS
    <3>1. CASE Len(order) = 1
      <4>1. job.col = NoCol /\ ~keeping
        BY <1>3, <3>1
      <4>2. order = <<column>> /\ ToSet(order) = {column}
        BY <1>3, <3>1 DEF column, ToSet
      <4>3. \A c \in cols : Cardinality(postponed[c]) = 0
        BY <1>6, <4>1, FS_EmptySet
      <4>4. \A c \in cols : c = column \/ c \notin ToSet(order)
        BY <4>2
      <4>5. \A c \in cols : Cardinality(Own(Real(c))) <= Cardinality(solutions[c])
        BY <1>10, <1>11, <4>3, <4>4
      <4> QED BY <1>9, <4>1, <4>5
    <3>2. CASE ~divided /\ valid + Cardinality(postponed[column]) < job.support
      <4>1. Cardinality(Real(column)) < job.support
        <5>1. Own(Real(column)) = Real(column) /\ Cardinality(Real(column)) \in Nat /\ Cardinality(postponed[column]) \in Nat
          BY <1>5, <1>10, <3>2
        <5>2. Cardinality(Real(column)) <= valid + Cardinality(postponed[column])
          BY <1>5, <1>11, <5>1
        <5>3. valid \in Nat /\ job.support \in Nat
          BY <1>3, <1>5, <1>10, JobIs
        <5> HIDE DEF valid
        <5> QED BY <3>2, <5>1, <5>2, <5>3
      <4> QED BY <1>3, <1>5, <1>10, <4>1, HopelessIs
    <3> QED BY <1>12, <3>1, <3>2
  <2>4. \A c \in cols : Sizes(solutions)[c] <= Cardinality(Own(Real(c)))
    BY <1>9, <1>10
  <2>5. TableInv'
    BY <1>2, <1>6, <2>1, <2>2, <2>3, <2>4 DEF TableInv
  <2>6. ColumnsInv'
    BY <2>1 DEF ColumnsInv
  <2> QED BY <2>2, <2>5, <2>6 DEF IInv
<1>13. ASSUME job.col # NoCol, Counted(valid, [zero EXCEPT ![column] = valid]), UNCHANGED <<order, todo>> PROVE IInv'
  <2>1. zero \in [cols -> Nat] /\ \A c \in cols : zero[c] = 0
    BY <1>3, ZeroType
  <2>2. PICK t : t = [zero EXCEPT ![column] = valid]
    OBVIOUS
  <2>3. /\ t \in [cols -> Nat] /\ t[column] = valid /\ valid \in Nat /\ \A c \in cols : c # column => t[c] = 0
    BY <1>5, <1>10, <2>1, <2>2
  <2>4. stage' = "answer" /\ table' = [freq |-> valid, mni |-> t] /\ todo' = todo /\ order' = order
    BY <1>13, <2>2 DEF Counted
  <2>5. /\ TypeInv' /\ StageInv' /\ ArcsInv' /\ SampleInv' /\ SumsInv' /\ VerdictRight' /\ ExactSound'
        /\ job' = job /\ keeping' = keeping /\ cols' = cols /\ divided' = divided /\ Hopeless' = Hopeless
        /\ \A c : Own(Real(c))' = Own(Real(c))
    BY <1>2, <1>3, <1>8, <2>3, <2>4
  <2>6. ~cut => Cardinality(Own(Real(column))) <= valid + Cardinality(postponed[column])
    BY <1>5, <1>11
  <2>7. TableInv'
    BY <1>2, <1>3, <1>6, <1>13, <2>3, <2>4, <2>5, <2>6 DEF TableInv
  <2>8. ColumnsInv'
    BY <2>4 DEF ColumnsInv
  <2> QED BY <2>5, <2>7, <2>8 DEF IInv
<1>14. ASSUME ~last, job.col = NoCol, CheckColumn(Tail(order)), UNCHANGED table PROVE IInv'
  <2>1. PICK ord : ord = Tail(order)
    OBVIOUS
  <2>2. ord \in Seq(cols) /\ ord # <<>>
    <3>1. Len(order) # 1 /\ Len(order) # 0
      BY <1>3, <1>14
    <3>2. ord \in Seq(cols) /\ Len(ord) = Len(order) - 1
      BY <1>3, <2>1
    <3>3. Len(order) \in Nat
      BY <1>3
    <3> QED BY <3>1, <3>2, <3>3
  <2>3. stage' = "columns" /\ order' = ord /\ todo' = Own(domains[Head(ord)]) /\ table' = table
    BY <1>14, <2>1 DEF CheckColumn
  <2>4. /\ Head(ord) \in cols /\ Own(domains[Head(ord)]) \subseteq NodesOf(data)
        /\ Own(Real(Head(ord))) \subseteq Own(domains[Head(ord)])
    BY <1>2, <1>3, <2>2, ColumnOpens
  <2>5. /\ TypeInv' /\ StageInv' /\ ArcsInv' /\ SampleInv' /\ SumsInv' /\ VerdictRight' /\ ExactSound'
        /\ job' = job /\ keeping' = keeping /\ cols' = cols /\ divided' = divided /\ Hopeless' = Hopeless
        /\ \A c : Own(Real(c))' = Own(Real(c))
    BY <1>6, <1>8, <2>2, <2>3, <2>4
  <2>6. \A c \in cols : c \in ToSet(order) => c = column \/ c \in ToSet(ord)
    <3> SUFFICES ASSUME NEW c \in cols, c \in ToSet(order), c # column PROVE c \in ToSet(ord)
      OBVIOUS
    <3>1. PICK k \in 1 .. Len(order) : order[k] = c
      BY <1>3 DEF ToSet
    <3>2. k # 1 /\ k - 1 \in 1 .. Len(ord) /\ ord[k - 1] = c /\ DOMAIN ord = 1 .. Len(ord)
      BY <1>3, <2>1, <3>1 DEF column
    <3> QED BY <3>2 DEF ToSet
  <2>7. column' = Head(ord)
    BY <2>3 DEF column
  <2>8. ASSUME ~cut, NEW c \in cols, c = column' \/ c \notin ToSet(ord)
        PROVE  Own(Real(c)) \subseteq solutions[c] \union postponed[c] \union (IF c = column' THEN todo' ELSE {})
    <3>1. CASE c = column'
      BY <2>3, <2>4, <2>7, <3>1
    <3>2. CASE c # column'
      <4>1. c = column \/ c \notin ToSet(order)
        BY <2>6, <2>8, <3>2
      <4>2. Own(Real(c)) \subseteq solutions[c] \union postponed[c]
        BY <1>7, <2>8, <4>1
      <4> QED BY <3>2, <4>2
    <3> QED BY <3>1, <3>2
  <2>9. ColumnsInv'
    BY <1>2, <1>6, <1>14, <2>2, <2>3, <2>5, <2>8 DEF ColumnsInv
  <2>10. TableInv'
    BY <2>3 DEF TableInv
  <2> QED BY <2>5, <2>9, <2>10 DEF IInv
<1> HIDE DEF valid, last
<1> QED BY <1>1, <1>12, <1>13, <1>14

\* What the steps of an approximate count leave alone.
LEMMA SampleFrame ==
  ASSUME IInv, stage \in {"open", "samples"}, UNCHANGED <<arcs, todo, postponed, table, deciding, cut>>,
         order' \in Seq(cols), stage' \in {"open", "samples", "exited", "done"}, stage' = "done" => ~answer'.exact,
         sample' = [now |-> sample'.now, approx |-> sample'.approx], sample'.now.counter \in Nat,
         solutions' \in [cols -> SUBSET NodesOf(data)], domains' \in [cols -> SUBSET NodesOf(data)],
         \A c \in cols : domains'[c] = domains[c] \/ domains'[c] = ByDegree(c)
  PROVE  /\ TypeInv' /\ StageInv' /\ ArcsInv' /\ ColumnsInv' /\ TableInv' /\ SumsInv' /\ VerdictRight' /\ ExactSound'
         /\ job' = job /\ cols' = cols /\ useAC3' = useAC3
<1>1. /\ arcs' = arcs /\ todo' = todo /\ postponed' = postponed /\ table' = table /\ cut' = cut
      /\ job' = job /\ part' = part /\ keeping' = keeping /\ sums' = sums /\ late' = late /\ verdict' = verdict
  BY DEF deciding
<1>2. /\ cols' = cols /\ data' = data /\ pattern' = pattern /\ divided' = divided /\ useAC3' = useAC3
      /\ none' = none
      /\ \A c : Real(c)' = Real(c) /\ ByDegree(c)' = ByDegree(c) /\ OfInvalid(c)' = OfInvalid(c)
      /\ \A c : Own(Real(c))' = Own(Real(c))
  BY <1>1, Frame
<1>3. SumsInv' /\ VerdictRight'
  BY <1>1, Undecided
<1>4. TypeInv /\ StageInv /\ ArcsLossless /\ job.kind = "a"
  BY DEF IInv, ArcsInv, StageInv
<1>5. TypeInv'
  BY <1>1, <1>2, <1>4 DEF TypeInv, Stages
<1>6. StageInv' /\ ColumnsInv' /\ TableInv' /\ ExactSound'
  BY <1>1, <1>2, <1>4 DEF StageInv, ColumnsInv, TableInv, ExactSound
<1>7. ASSUME NEW c \in cols
      PROVE  (~useAC3 /\ domains'[c] = {}) \/ Real(c) \subseteq domains'[c]
  <2>1. (~useAC3 /\ domains[c] = {}) \/ Real(c) \subseteq domains[c]
    BY <1>4, JobIs DEF ArcsLossless, OfInvalid
  <2>2. Real(c) \subseteq ByDegree(c)
    BY <1>4, RealAre
  <2> QED BY <2>1, <2>2
<1>8. \A c \in cols : ~OfInvalid(c)
  BY <1>4, JobIs DEF OfInvalid
<1>9. ArcsInv'
  BY <1>1, <1>2, <1>4, <1>7, <1>8 DEF ArcsInv, ArcsLossless
<1> QED BY <1>1, <1>2, <1>3, <1>5, <1>6, <1>9

LEMMA OpenSamplesKeeps ==
  ASSUME IInv, OpenSamples
  PROVE  IInv'
<1>1. /\ stage = "open" /\ UNCHANGED <<arcs, order, todo, solutions, postponed, table, deciding, cut>>
      /\ UNCHANGED <<arcs, todo, postponed, table, deciding, cut>> /\ order' = order /\ solutions' = solutions
      /\ domains' = IF useAC3 THEN domains ELSE [domains EXCEPT ![column] = ByDegree(column)]
      /\ \/ SampleFew /\ stage' = "done" /\ answer' = Infrequent(FALSE) /\ sample' = sample
         \/ ~SampleFew /\ stage' = "samples" /\ sample' = [sample EXCEPT !.now = EmptySample] /\ answer' = answer
  BY DEF OpenSamples, Answered
<1>2. TypeInv /\ SampleInv /\ order # <<>> /\ order \in Seq(cols)
  BY <1>1 DEF IInv, TypeInv, SampleInv
<1>3. column \in cols /\ column' = column
  BY <1>1, <1>2 DEF column
<1>4. domains \in [cols -> SUBSET NodesOf(data)] /\ \A c \in cols : ByDegree(c) \subseteq NodesOf(data)
  BY <1>2, RealAre DEF TypeInv
<1>5. /\ domains' \in [cols -> SUBSET NodesOf(data)]
      /\ \A c \in cols : domains'[c] = domains[c] \/ domains'[c] = ByDegree(c)
      /\ ~useAC3 => domains'[column] = ByDegree(column)
      /\ useAC3 => domains' = domains
  BY <1>1, <1>3, <1>4
<1>6. PICK n, x : n = sample.now /\ x = sample.approx /\ sample = [now |-> n, approx |-> x] /\ n.counter \in Nat
  BY <1>2 DEF TypeInv
<1>7. sample' = [now |-> sample'.now, approx |-> sample'.approx] /\ sample'.now.counter \in Nat
  <2>1. CASE sample' = sample
    BY <1>6, <2>1
  <2>2. CASE sample' = [sample EXCEPT !.now = EmptySample]
    <3>1. PICK e : e = EmptySample
      OBVIOUS
    <3>2. e.counter = 0
      BY <3>1 DEF EmptySample
    <3>3. sample' = [now |-> e, approx |-> x]
      BY <1>6, <2>2, <3>1
    <3> QED BY <3>2, <3>3
  <2> QED BY <1>1, <2>1, <2>2
<1>8. stage' = "done" => ~answer'.exact
  BY <1>1 DEF Infrequent
<1>9. stage' \in {"open", "samples", "exited", "done"} /\ stage \in {"open", "samples"} /\ order' \in Seq(cols)
      /\ solutions' \in [cols -> SUBSET NodesOf(data)]
  BY <1>1, <1>2 DEF TypeInv
<1>10. /\ TypeInv' /\ StageInv' /\ ArcsInv' /\ ColumnsInv' /\ TableInv' /\ SumsInv' /\ VerdictRight' /\ ExactSound'
       /\ job' = job /\ cols' = cols /\ useAC3' = useAC3
  BY <1>1, <1>5, <1>7, <1>8, <1>9, SampleFrame
<1>11. SampleInv'
  <2>1. useAC3 => ~TooFew(domains, cols)
    BY <1>1, <1>2 DEF SampleInv
  <2>2. useAC3 => ~TooFew(domains, cols)'
    BY <1>5, <1>10, <2>1 DEF TooFew
  <2>3. CASE stage' = "samples"
    <3>1. Cardinality(domains'[column]) \in Nat /\ job.support \in Nat
      BY <1>2, <1>3, <1>5, SizesAre, JobIs
    <3>2. ~(Cardinality(domains'[column]) < job.support)
      <4>1. CASE useAC3
        BY <1>3, <1>5, <2>1, <4>1 DEF TooFew
      <4>2. CASE ~useAC3
        BY <1>1, <1>5, <2>3, <4>2 DEF SampleFew
      <4> QED BY <4>1, <4>2
    <3> QED BY <1>1, <1>2, <1>3, <1>10, <2>2, <2>3, <3>1, <3>2 DEF SampleInv
  <2>4. CASE stage' = "done"
    BY <2>4 DEF SampleInv
  <2> QED BY <1>1, <2>3, <2>4
<1> QED BY <1>10, <1>11 DEF IInv

LEMMA DrawKeeps ==
  ASSUME IInv, Draw
  PROVE  IInv'
<1>1. /\ stage = "samples" /\ UNCHANGED <<domains, arcs, order, todo, postponed, table, stage, answer, deciding, cut>>
      /\ UNCHANGED <<arcs, todo, postponed, table, deciding, cut>> /\ order' = order /\ domains' = domains /\ stage' = stage
  BY DEF Draw
<1>2. TypeInv /\ SampleInv /\ order # <<>> /\ order \in Seq(cols) /\ sample.now.counter \in Nat
      /\ domains \in [cols -> SUBSET NodesOf(data)] /\ solutions \in [cols -> SUBSET NodesOf(data)]
  BY <1>1 DEF IInv, TypeInv, SampleInv
<1>3. PICK n, x : n = sample.now /\ x = sample.approx /\ sample = [now |-> n, approx |-> x]
  BY <1>2 DEF TypeInv
<1>4. PICK v \in domains[column] :
        LET found == v \in solutions[column] \/ Images(column, v, useAC3) # {}
            one   == IF found THEN 1 ELSE 0
        IN /\ sample' = [sample EXCEPT !.now =
                 [counter |-> now.counter + 1, valid |-> (IF Boundary THEN 0 ELSE now.valid) + one,
                  good |-> now.good + one, avgs |-> Averages]]
           /\ IF v \in solutions[column] \/ ~found THEN UNCHANGED solutions
              ELSE \E m \in Images(column, v, useAC3) : solutions' = With(m)
  BY DEF Draw
<1>5. sample' = [now |-> sample'.now, approx |-> sample'.approx] /\ sample'.now.counter \in Nat
  <2> DEFINE one == IF v \in solutions[column] \/ Images(column, v, useAC3) # {} THEN 1 ELSE 0
             y == [counter |-> now.counter + 1, valid |-> (IF Boundary THEN 0 ELSE now.valid) + one,
                   good |-> now.good + one, avgs |-> Averages]
  <2>1. y.counter = now.counter + 1
    OBVIOUS
  <2>2. sample' = [sample EXCEPT !.now = y]
    BY <1>4
  <2> HIDE DEF one, y
  <2>3. sample' = [now |-> y, approx |-> x]
    BY <1>3, <2>2
  <2> QED BY <1>2, <2>1, <2>3 DEF now
<1>6. solutions' \in [cols -> SUBSET NodesOf(data)]
  <2>1. CASE solutions' = solutions
    BY <1>2, <2>1
  <2>2. CASE \E m \in Images(column, v, useAC3) : solutions' = With(m)
    <3>1. PICK m \in Embeddings(pattern, data) : solutions' = With(m)
      BY <2>2 DEF Images
    <3> QED BY <1>2, <3>1, WithIs
  <2> QED BY <1>4, <2>1, <2>2
<1>7. /\ TypeInv' /\ StageInv' /\ ArcsInv' /\ ColumnsInv' /\ TableInv' /\ SumsInv' /\ VerdictRight' /\ ExactSound'
      /\ job' = job /\ cols' = cols /\ useAC3' = useAC3
  <2>1. \A c \in cols : domains'[c] = domains[c] \/ domains'[c] = ByDegree(c)
    BY <1>1
  <2>2. /\ stage' \in {"open", "samples", "exited", "done"} /\ stage \in {"open", "samples"} /\ (stage' = "done" => ~answer'.exact)
        /\ order' \in Seq(cols) /\ domains' \in [cols -> SUBSET NodesOf(data)]
    BY <1>1, <1>2
  <2> QED BY <1>1, <1>5, <1>6, <2>1, <2>2, SampleFrame
<1>8. SampleInv'
  BY <1>1, <1>2, <1>7 DEF SampleInv, TooFew, column
<1> QED BY <1>7, <1>8 DEF IInv

LEMMA DivIs ==
  ASSUME NEW a \in Nat, NEW b \in Nat \ {0}
  PROVE  /\ a \div b \in Nat /\ (a \div b = 0 => a < b)
         /\ a < b /\ a % b = 0 => a = 0
<1>1. a = b * (a \div b) + (a % b) /\ a % b \in 0 .. b - 1 /\ a \div b \in Nat
  OBVIOUS
<1>2. a < b => a % b = a
  OBVIOUS
<1>3. ASSUME a \div b = 0 PROVE a < b
  <2>1. b * (a \div b) = 0
    BY <1>3
  <2> QED BY <1>1, <2>1
<1> QED BY <1>1, <1>2, <1>3

LEMMA ApproximateKeeps ==
  ASSUME IInv, Approximate
  PROVE  IInv'
<1>1. /\ stage = "samples" /\ Enough /\ UNCHANGED <<domains, arcs, solutions, postponed, table, deciding, cut>>
      /\ domains' = domains /\ solutions' = solutions
  BY DEF Approximate
<1>2. /\ TypeInv /\ SampleInv /\ order # <<>> /\ order \in Seq(cols) /\ sample.now.counter \in Nat
      /\ domains \in [cols -> SUBSET NodesOf(data)] /\ solutions \in [cols -> SUBSET NodesOf(data)]
      /\ Cardinality(domains[column]) >= job.support
  BY <1>1 DEF IInv, TypeInv, SampleInv
<1>3. PICK n, x : n = sample.now /\ x = sample.approx /\ sample = [now |-> n, approx |-> x]
  BY <1>2 DEF TypeInv
<1>4. \/ now.counter \div Sampling.bucket = 0 /\ stage' = "exited" /\ order' = order /\ todo' = todo /\ sample' = sample /\ answer' = answer
      \/ stage' = "done" /\ ~answer'.exact /\ order' = order /\ todo' = todo /\ sample' = sample
      \/ /\ Len(order) > 1 /\ stage' = "open" /\ order' = Tail(order) /\ todo' = todo /\ answer' = answer
         /\ \E y : sample' = [sample EXCEPT !.approx = y]
  <2> DEFINE n0  == now.counter \div Sampling.bucket
             avg(k) == IF k \in DOMAIN Averages THEN Averages[k] ELSE -Sampling.bucket
             sum == FoldLeft(LAMBDA y, k : y + avg(k), 0, [k \in 1 .. n0 |-> k])
             all == n0 * Sampling.bucket
             approx == [sample.approx EXCEPT ![column] = IF sum > -all THEN Trunc(sum * size, all) ELSE 0]
             few == sum * size < job.support * all
             first == [freq |-> MinOf(approx), exact |-> FALSE, col |-> column, valids |-> Trunc(sum * size, all)]
             second == [Infrequent(FALSE) EXCEPT !.freq = MinOf(approx)]
  <2>1. ~first.exact /\ ~second.exact
    BY DEF Infrequent
  <2>2. \/ n0 = 0 /\ stage' = "exited" /\ UNCHANGED <<order, todo, sample, answer>>
        \/ n0 > 0 /\ few /\ Answered(first) /\ UNCHANGED <<order, todo, sample>>
        \/ n0 > 0 /\ ~few /\ Len(order) = 1 /\ Answered(second) /\ UNCHANGED <<order, todo, sample>>
        \/ /\ n0 > 0 /\ ~few /\ Len(order) > 1
           /\ SampleColumn(Tail(order)) /\ sample' = [sample EXCEPT !.approx = approx]
           /\ UNCHANGED answer
    BY DEF Approximate
  <2> HIDE DEF avg, sum, all, approx, few, first, second
  <2> QED BY <2>1, <2>2 DEF Answered, SampleColumn
<1>5. column \in cols /\ Cardinality(domains[column]) \in Nat /\ job.support \in Nat
  <2>1. column \in cols
    BY <1>2 DEF column
  <2> QED BY <1>2, <2>1, SizesAre, JobIs
<1>6. ASSUME stage' \in {"open", "samples", "exited", "done"}, stage' = "done" => ~answer'.exact, order' \in Seq(cols),
             todo' = todo, sample' = [now |-> sample'.now, approx |-> sample'.approx], sample'.now.counter \in Nat
      PROVE  /\ TypeInv' /\ StageInv' /\ ArcsInv' /\ ColumnsInv' /\ TableInv' /\ SumsInv' /\ VerdictRight' /\ ExactSound'
             /\ job' = job /\ cols' = cols /\ useAC3' = useAC3
  <2>1. /\ UNCHANGED <<arcs, todo, postponed, table, deciding, cut>> /\ stage \in {"open", "samples"}
        /\ domains' \in [cols -> SUBSET NodesOf(data)] /\ solutions' \in [cols -> SUBSET NodesOf(data)]
        /\ \A c \in cols : domains'[c] = domains[c] \/ domains'[c] = ByDegree(c)
    BY <1>1, <1>2, <1>6
  <2> QED BY <1>6, <2>1, SampleFrame
<1>7. ASSUME now.counter \div Sampling.bucket = 0, stage' = "exited", order' = order, todo' = todo, sample' = sample PROVE IInv'
  <2>1. /\ TypeInv' /\ StageInv' /\ ArcsInv' /\ ColumnsInv' /\ TableInv' /\ SumsInv' /\ VerdictRight' /\ ExactSound'
        /\ job' = job /\ cols' = cols /\ useAC3' = useAC3
    BY <1>2, <1>3, <1>6, <1>7
  <2>2. job.support < Sampling.bucket
    <3>1. PICK a, b, s : a = now.counter /\ b = Sampling.bucket /\ s = Cardinality(domains[column])
      OBVIOUS
    <3>2. a \in Nat /\ b \in Nat \ {0} /\ Sampling.most \in Nat /\ b <= Sampling.most /\ s \in Nat /\ s >= job.support
      BY <1>2, <1>5, <3>1, JobAssumption DEF now
    <3>3. a < b /\ (a % b = 0 => a = 0)
      BY <1>7, <3>1, <3>2, DivIs
    <3>4. a >= s \/ a >= Sampling.most \/ (0 < a /\ a % b = 0)
      BY <1>1, <3>1 DEF Enough, Boundary, size
    <3> QED BY <1>5, <3>1, <3>2, <3>3, <3>4
  <2>3. SampleInv'
    BY <1>7, <2>1, <2>2 DEF SampleInv, StaysForSupport
  <2> QED BY <2>1, <2>3 DEF IInv
<1>8. ASSUME stage' = "done", ~answer'.exact, order' = order, todo' = todo, sample' = sample PROVE IInv'
  <2>1. /\ TypeInv' /\ StageInv' /\ ArcsInv' /\ ColumnsInv' /\ TableInv' /\ SumsInv' /\ VerdictRight' /\ ExactSound'
    BY <1>2, <1>3, <1>6, <1>8
  <2>2. SampleInv'
    BY <1>8 DEF SampleInv
  <2> QED BY <2>1, <2>2 DEF IInv
<1>9. ASSUME Len(order) > 1, stage' = "open", order' = Tail(order), todo' = todo, NEW y, sample' = [sample EXCEPT !.approx = y] PROVE IInv'
  <2>1. order' \in Seq(cols) /\ order' # <<>>
    <3>1. PICK ord : ord = Tail(order)
      OBVIOUS
    <3>2. ord \in Seq(cols) /\ Len(ord) = Len(order) - 1 /\ Len(order) \in Nat
      BY <1>2, <3>1
    <3>3. ord # <<>>
      BY <1>9, <3>2
    <3> QED BY <1>9, <3>1, <3>2, <3>3
  <2>2. sample' = [now |-> sample'.now, approx |-> sample'.approx] /\ sample'.now.counter \in Nat
    BY <1>2, <1>3, <1>9
  <2>3. /\ TypeInv' /\ StageInv' /\ ArcsInv' /\ ColumnsInv' /\ TableInv' /\ SumsInv' /\ VerdictRight' /\ ExactSound'
        /\ job' = job /\ cols' = cols /\ useAC3' = useAC3
    BY <1>6, <1>9, <2>1, <2>2
  <2>4. SampleInv'
    BY <1>1, <1>2, <1>9, <2>1, <2>3 DEF SampleInv, TooFew
  <2> QED BY <2>3, <2>4 DEF IInv
<1> QED BY <1>4, <1>7, <1>8, <1>9

-----------------------------------------------------------------------------
(* The decision.                                                            *)

LEMMA DecidedKeeps ==
  ASSUME IInv, stage = "answer", UNCHANGED <<counting, sampling, cut>>, NEW v \in {"frequent", "infrequent"}, Decided(v),
         v = "frequent" => Support >= job.support, v = "infrequent" => cut \/ Hopeless
  PROVE  IInv'
<1>1. /\ domains' = domains /\ arcs' = arcs /\ order' = order /\ todo' = todo /\ solutions' = solutions /\ postponed' = postponed
      /\ table' = table /\ sample' = sample /\ answer' = answer /\ cut' = cut
      /\ job' = job /\ part' = part /\ keeping' = keeping /\ sums' = sums /\ late' = late /\ verdict' = v /\ stage' = "done"
  BY DEF counting, sampling, Decided
<1>2. cols' = cols /\ data' = data /\ pattern' = pattern /\ Hopeless' = Hopeless /\ Support' = Support
  BY <1>1, Frame
<1>3. TypeInv /\ StageInv /\ job.kind = "s"
  BY DEF IInv, StageInv
<1>4. TypeInv'
  BY <1>1, <1>2, <1>3 DEF TypeInv, Stages
<1>5. StageInv' /\ ArcsInv' /\ SampleInv' /\ ColumnsInv' /\ TableInv' /\ SumsInv' /\ ExactSound'
  BY <1>1, <1>3 DEF StageInv, ArcsInv, ArcsLossless, SampleInv, ColumnsInv, TableInv, SumsInv, ExactSound, StaysForSupport
<1>6. VerdictRight'
  BY <1>1, <1>2 DEF VerdictRight, Hopeless
<1> QED BY <1>4, <1>5, <1>6 DEF IInv

\* A count that starts again has counted no part yet.
LEMMA AgainKeeps ==
  ASSUME IInv, stage = "answer", UNCHANGED <<counting, sampling, cut>>, NEW j, JobOK(j),
         j.pattern = job.pattern, j.data = job.data, j.postpone = FALSE, Again(j)
  PROVE  IInv'
<1>1. /\ domains' = domains /\ arcs' = arcs /\ order' = order /\ todo' = todo /\ solutions' = solutions /\ postponed' = postponed
      /\ table' = table /\ sample' = sample /\ answer' = answer /\ cut' = cut
      /\ job' = j /\ part' = j.parts - 1 /\ keeping' = FALSE /\ sums' = zero /\ late' = zero /\ verdict' = verdict /\ stage' = "domains"
  BY DEF counting, sampling, Again
<1>2. cols' = cols /\ data' = data /\ pattern' = pattern
  BY <1>1 DEF cols, data, pattern
<1>3. TypeInv /\ StageInv /\ verdict = "none" /\ arcs = {}
  BY DEF IInv, StageInv
<1>4. zero \in [cols -> Nat] /\ \A c \in cols : zero[c] = 0
  BY <1>3, ZeroType
<1>5. j.parts \in Nat \ {0}
  BY DEF JobOK
<1>6. TypeInv'
  <2>1. JobOK(job)'
    BY <1>1
  <2>2. part' \in 0 .. job'.parts - 1
    BY <1>1, <1>5
  <2> QED BY <1>1, <1>2, <1>3, <1>4, <2>1, <2>2 DEF TypeInv, Stages
<1>7. StageInv' /\ ArcsInv' /\ SampleInv' /\ ColumnsInv' /\ TableInv' /\ VerdictRight' /\ ExactSound'
  BY <1>1, <1>3 DEF StageInv, ArcsInv, ArcsLossless, SampleInv, ColumnsInv, TableInv, VerdictRight, ExactSound, StaysForSupport
<1>8. ASSUME NEW c \in cols PROVE Cardinality(Before(Real(c)))' = 0
  <2>1. Real(c)' = Real(c) /\ Real(c) \subseteq Nat
    <3>1. Real(c) \subseteq NodesOf(data) /\ NodesOf(data) \subseteq Nat
      BY <1>3, RealAre, JobIs
    <3> QED BY <1>2, <3>1 DEF Real
  <2>2. ASSUME NEW v \in Real(c), v % j.parts > j.parts - 1 PROVE FALSE
    <3>1. PICK n : n = v % j.parts
      OBVIOUS
    <3>2. n \in 0 .. j.parts - 1 /\ n > j.parts - 1
      BY <1>5, <2>1, <2>2, <3>1, ModIs
    <3> QED BY <1>5, <3>2
  <2>3. Before(Real(c))' = {v \in Real(c) : v % j.parts > j.parts - 1}
    BY <1>1, <2>1 DEF Before
  <2>4. Before(Real(c))' = {}
    BY <2>2, <2>3
  <2> QED BY <2>4, FS_EmptySet
<1>9. SumsInv'
  <2>1. \A c \in cols : sums'[c] = 0 /\ late'[c] = 0
    BY <1>1, <1>4
  <2>2. job'.col # NoCol => job'.col \in cols
    BY <1>1 DEF JobOK, cols, pattern
  <2> QED BY <1>1, <1>2, <1>8, <2>1, <2>2 DEF SumsInv
<1> QED BY <1>6, <1>7, <1>9 DEF IInv

\* The arguments that a job is counted again with.
AsWhole(j, n) == [j EXCEPT !.parts = n, !.col = NoCol, !.valids = -1, !.postpone = FALSE]
AsBefore(j, n) == [j EXCEPT !.parts = n, !.postpone = FALSE]
LEMMA AgainOK ==
  ASSUME NEW j, JobOK(j), j.kind = "s", NEW n \in Nat \ {0}, NEW k, k \in {AsWhole(j, n), AsBefore(j, n)}
  PROVE  JobOK(k) /\ k.pattern = j.pattern /\ k.data = j.data /\ k.postpone = FALSE
<1>1. PICK N, p, D, C : N = NodesOf(j.pattern) \union {NoCol} /\ p = j.pattern /\ D = j.data /\ C = j.costly
  OBVIOUS
<1>2. NoCol \in N
  BY <1>1
<1>3. j \in [kind : {"s", "a"}, pattern : {p}, data : {D}, support : Nat, col : N, valids : Int, parts : Nat \ {0},
             postpone : BOOLEAN, again : Nat \ {0}, costly : {C}]
  BY <1>1 DEF JobOK
<1>4. \/ k = [kind |-> j.kind, pattern |-> p, data |-> D, support |-> j.support, col |-> NoCol, valids |-> -1,
              parts |-> n, postpone |-> FALSE, again |-> j.again, costly |-> C]
      \/ k = [kind |-> j.kind, pattern |-> p, data |-> D, support |-> j.support, col |-> j.col, valids |-> j.valids,
              parts |-> n, postpone |-> FALSE, again |-> j.again, costly |-> C]
  <2>1. CASE k = AsWhole(j, n)
    BY <1>3, <2>1 DEF AsWhole
  <2>2. CASE k = AsBefore(j, n)
    BY <1>3, <2>2 DEF AsBefore
  <2> QED BY <2>1, <2>2
<1>5. /\ k \in [kind : {"s", "a"}, pattern : {p}, data : {D}, support : Nat, col : N, valids : Int, parts : Nat \ {0},
                postpone : BOOLEAN, again : Nat \ {0}, costly : {C}]
      /\ k.pattern = p /\ k.data = D /\ k.postpone = FALSE /\ k.kind = "s" /\ k.costly = C
  <2>1. j.kind = "s" /\ j.support \in Nat /\ j.col \in N /\ j.valids \in Int /\ j.again \in Nat \ {0}
    BY <1>3
  <2>2. PICK s \in Nat, a \in Nat \ {0}, d \in N, w \in Int :
          s = j.support /\ a = j.again /\ d = j.col /\ w = j.valids
    BY <2>1
  <2>3. CASE k = [kind |-> j.kind, pattern |-> p, data |-> D, support |-> j.support, col |-> NoCol, valids |-> -1,
                  parts |-> n, postpone |-> FALSE, again |-> j.again, costly |-> C]
    <3>1. k = [kind |-> "s", pattern |-> p, data |-> D, support |-> s, col |-> NoCol, valids |-> -1,
               parts |-> n, postpone |-> FALSE, again |-> a, costly |-> C]
      BY <2>1, <2>2, <2>3
    <3> QED BY <1>2, <3>1
  <2>4. CASE k = [kind |-> j.kind, pattern |-> p, data |-> D, support |-> j.support, col |-> j.col, valids |-> j.valids,
                  parts |-> n, postpone |-> FALSE, again |-> j.again, costly |-> C]
    <3>1. k = [kind |-> "s", pattern |-> p, data |-> D, support |-> s, col |-> d, valids |-> w,
               parts |-> n, postpone |-> FALSE, again |-> a, costly |-> C]
      BY <2>1, <2>2, <2>4
    <3> QED BY <3>1
  <2> QED BY <1>4, <2>3, <2>4
<1>6. IsPattern(p) /\ IsFiniteSet(NodesOf(D)) /\ NodesOf(D) \subseteq Nat
  BY <1>1 DEF JobOK
<1> QED BY <1>1, <1>5, <1>6 DEF JobOK

LEMMA VerdictKeeps ==
  ASSUME IInv, stage = "answer", UNCHANGED <<counting, sampling, cut>>, NEW freq \in Int, Verdict(freq),
         freq < job.support => cut \/ Hopeless, freq >= job.support /\ job.col = NoCol => Support >= job.support
  PROVE  IInv'
<1>1. TypeInv /\ job.kind = "s" /\ job.support \in Nat
  BY JobIs DEF IInv, StageInv
<1>2. CASE freq < job.support
  <2>1. Decided("infrequent")
    BY <1>2 DEF Verdict
  <2> QED BY <1>2, <2>1, DecidedKeeps
<1>3. CASE ~(freq < job.support) /\ job.col = NoCol
  <2>1. Decided("frequent")
    BY <1>3 DEF Verdict
  <2>2. Support >= job.support
    BY <1>1, <1>3
  <2> QED BY <2>1, <2>2, DecidedKeeps
<1>4. CASE ~(freq < job.support) /\ job.col # NoCol
  <2>1. PICK n \in {job.parts, job.again} : WholeAgain(n)
    BY <1>4 DEF Verdict
  <2>2. JobOK(job) /\ n \in Nat \ {0}
    BY <1>1, <2>1 DEF TypeInv, JobOK
  <2>3. PICK g, j : g = job /\ j = AsWhole(g, n)
    OBVIOUS
  <2>4. JobOK(g) /\ g.kind = "s" /\ j \in {AsWhole(g, n), AsBefore(g, n)}
    BY <1>1, <2>2, <2>3
  <2>5. JobOK(j) /\ j.pattern = job.pattern /\ j.data = job.data /\ j.postpone = FALSE
    BY <2>2, <2>3, <2>4, AgainOK
  <2>6. Again(j)
    BY <2>1, <2>3 DEF WholeAgain, AsWhole
  <2> QED BY <2>5, <2>6, AgainKeeps
<1> QED BY <1>2, <1>3, <1>4

LEMMA MaxIs ==
  ASSUME NEW T, T \subseteq Int, NEW x \in T, \A y \in T : y <= x
  PROVE  Max(T) = x
<1>1. \A y \in T : x >= y
  OBVIOUS
<1>2. PICK z : z = Max(T)
  OBVIOUS
<1>3. z \in T /\ \A y \in T : z >= y
  BY <1>1, <1>2 DEF Max
<1>4. z \in Int /\ x \in Int /\ z >= x /\ z <= x
  BY <1>3
<1> QED BY <1>2, <1>4

LEMMA AnswerWholeKeeps ==
  ASSUME IInv, AnswerWhole
  PROVE  IInv'
<1>1. /\ stage = "answer" /\ ~divided /\ UNCHANGED <<counting, sampling, cut>>
      /\ \/ Recount /\ keeping' = FALSE /\ stage' = "domains" /\ UNCHANGED <<job, part, sums, late, verdict>>
         \/ ~Recount /\ Verdict(table.freq)
  BY DEF AnswerWhole
<1>2. TypeInv /\ StageInv /\ TableInv /\ job.kind = "s" /\ table \in [freq : Nat, mni : [cols -> Nat]]
  BY <1>1 DEF IInv, StageInv, TypeInv
<1>3. ASSUME Recount, keeping' = FALSE, stage' = "domains", UNCHANGED <<job, part, sums, late, verdict>> PROVE IInv'
  <2>1. /\ domains' = domains /\ arcs' = arcs /\ order' = order /\ todo' = todo /\ solutions' = solutions /\ postponed' = postponed
        /\ table' = table /\ sample' = sample /\ answer' = answer /\ cut' = cut
        /\ job' = job /\ part' = part /\ sums' = sums /\ late' = late /\ verdict' = verdict
    BY <1>1, <1>3 DEF counting, sampling
  <2>2. cols' = cols /\ data' = data /\ pattern' = pattern
    BY <2>1, Frame
  <2>3. SumsInv' /\ VerdictRight'
    BY <1>1, <1>3, <2>1, Undecided
  <2>4. TypeInv'
    BY <1>2, <1>3, <2>1, <2>2 DEF TypeInv, Stages
  <2>5. StageInv' /\ ArcsInv' /\ SampleInv' /\ ColumnsInv' /\ TableInv' /\ ExactSound'
    BY <1>1, <1>2, <1>3, <2>1 DEF StageInv, ArcsInv, ArcsLossless, SampleInv, ColumnsInv, TableInv, ExactSound, StaysForSupport
  <2> QED BY <2>3, <2>4, <2>5 DEF IInv
<1>4. ASSUME ~Recount, Verdict(table.freq) PROVE IInv'
  <2>1. PICK freq \in Nat : freq = table.freq
    BY <1>2
  <2>2. \A c \in cols : /\ Real(c) \subseteq NodesOf(data) /\ Own(Real(c)) = Real(c)
                        /\ Cardinality(Real(c)) \in Nat /\ table.mni[c] \in Nat
    BY <1>1, <1>2, RealAre, PartsOf, SizesAre
  <2>3. job.support \in Nat /\ job.col \in cols \union {NoCol} /\ cols # {}
    BY <1>2, JobIs
  <2>4. CASE job.col = NoCol
    <3>1. /\ \A c \in cols : table.mni[c] <= Cardinality(Real(c))
          /\ cut \/ Hopeless \/ \A c \in cols : Cardinality(Real(c)) <= table.mni[c]
          /\ freq = MinOf(table.mni)
      BY <1>1, <1>2, <2>1, <2>2, <2>4 DEF TableInv
    <3>2. (\A c \in cols : freq <= table.mni[c]) /\ \E c \in cols : freq = table.mni[c]
      BY <1>2, <2>3, <3>1, MinIs
    <3>3. freq >= job.support => Support >= job.support
      <4>1. PICK c \in cols : Support = Cardinality(Real(c))
        BY <1>2, SupportIs
      <4> QED BY <2>1, <2>2, <2>3, <3>1, <3>2, <4>1
    <3>4. freq < job.support => cut \/ Hopeless
      <4>1. PICK c \in cols : freq = table.mni[c]
        BY <3>2
      <4>2. SUFFICES ASSUME freq < job.support, Cardinality(Real(c)) <= table.mni[c] PROVE Hopeless
        BY <3>1
      <4>3. Cardinality(Real(c)) < job.support
        BY <2>1, <2>2, <2>3, <4>1, <4>2
      <4> QED BY <1>2, <2>2, <4>3, HopelessIs
    <3>5. freq \in Int /\ Verdict(freq)
      BY <1>4, <2>1
    <3> QED BY <1>1, <3>3, <3>4, <3>5, VerdictKeeps
  <2>5. CASE job.col # NoCol
    <3>1. freq < job.support => cut \/ Hopeless
      <4>1. SUFFICES ASSUME freq < job.support, ~cut, ~Hopeless PROVE FALSE
        OBVIOUS
      <4>2. PICK c \in cols : c = job.col
        BY <2>3, <2>5
      <4>3. PICK p : p = Cardinality(postponed[c])
        OBVIOUS
      <4>4. /\ Cardinality(Real(c)) <= table.mni[c] + p
            /\ freq = table.mni[c] /\ \A d \in cols \ {c} : table.mni[d] = 0
            /\ \A d \in cols : d # c => postponed[d] = {}
        BY <1>1, <1>2, <2>1, <2>2, <2>3, <2>5, <4>1, <4>2, <4>3 DEF TableInv
      <4>5. p \in Nat
        BY <1>2, <4>3, SizesAre DEF TypeInv
      <4>6. PICK T1, T2 : T1 = {table.mni[d] : d \in cols} /\ T2 = {WithLate(table.mni)[d] : d \in cols}
        OBVIOUS
      <4>7. \A d \in cols : WithLate(table.mni)[d] = table.mni[d] + Cardinality(postponed[d])
        BY DEF WithLate, ByCol
      <4>8. \A d \in cols : d # c => WithLate(table.mni)[d] = 0
        <5>1. ASSUME NEW d \in cols, d # c PROVE WithLate(table.mni)[d] = 0
          <6>1. table.mni[d] = 0 /\ Cardinality(postponed[d]) = 0
            BY <4>4, <5>1, FS_EmptySet
          <6> QED BY <4>7, <6>1
        <5> QED BY <5>1
      <4>9. WithLate(table.mni)[c] = freq + p
        BY <4>3, <4>4, <4>7
      <4>10. Max(T1) = freq
        <5>1. T1 \subseteq Int /\ freq \in T1 /\ \A y \in T1 : y <= freq
          BY <2>1, <2>2, <4>4, <4>6
        <5> QED BY <5>1, MaxIs
      <4>11. Max(T2) = freq + p
        <5>1. PICK z : z = freq + p
          OBVIOUS
        <5>2. T2 \subseteq Int /\ z \in T2 /\ \A y \in T2 : y <= z
          BY <2>1, <4>5, <4>6, <4>8, <4>9, <5>1
        <5> QED BY <5>1, <5>2, MaxIs
      <4>12. ~(freq # freq + p /\ (freq >= job.support \/ freq + p >= job.support))
        BY <1>4, <2>1, <4>6, <4>10, <4>11 DEF Recount
      <4>13. Cardinality(Real(c)) < job.support
        BY <2>1, <2>2, <2>3, <4>1, <4>4, <4>5, <4>12
      <4> QED BY <1>2, <2>2, <4>1, <4>13, HopelessIs
    <3>2. freq \in Int /\ Verdict(freq)
      BY <1>4, <2>1
    <3> QED BY <1>1, <2>5, <3>1, <3>2, VerdictKeeps
  <2> QED BY <2>4, <2>5
<1> QED BY <1>1, <1>3, <1>4

\* What Pattern makes of the sums when all parts are done.
LEMMA SubTaskIs ==
  ASSUME TypeInv, NEW mni \in [cols -> Nat], NEW ppn \in [cols -> Nat], NEW f, f = subTaskDone(mni, ppn)
  PROVE  f # Rerun =>
           /\ f \in Nat
           /\ job.col = NoCol => /\ f = MinOf(mni)
                                 /\ f < job.support => \E c \in cols : mni[c] + ppn[c] < job.support
           /\ job.col # NoCol => /\ f = mni[job.col]
                                 /\ f < job.support => mni[job.col] + ppn[job.col] < job.support
<1>1. PICK both : both = ByCol(LAMBDA c : mni[c] + ppn[c])
  OBVIOUS
<1>2. both \in [cols -> Nat] /\ \A c \in cols : both[c] = mni[c] + ppn[c]
  BY <1>1 DEF ByCol
<1>3. PICK min1, min2 : min1 = MinOf(mni) /\ min2 = MinOf(both)
  OBVIOUS
<1>4. min1 \in Nat /\ min2 \in Nat /\ \E c \in cols : min2 = mni[c] + ppn[c]
  BY <1>2, <1>3, MinIs, JobIs
<1>5. f = IF job.col = NoCol
          THEN IF min1 # min2 /\ min2 >= job.support THEN Rerun ELSE min1
          ELSE IF mni[job.col] < job.support /\ mni[job.col] + ppn[job.col] >= job.support THEN Rerun ELSE mni[job.col]
  BY <1>1, <1>3 DEF subTaskDone
<1>6. job.support \in Nat /\ job.col \in cols \union {NoCol}
  BY JobIs
<1> HIDE DEF Rerun
<1>7. CASE job.col = NoCol
  <2>1. f # Rerun => f = min1 /\ (min1 = min2 \/ ~(min2 >= job.support))
    BY <1>5, <1>7
  <2> QED BY <1>3, <1>4, <1>6, <1>7, <2>1
<1>8. CASE job.col # NoCol
  <2>1. PICK c \in cols : c = job.col
    BY <1>6, <1>8
  <2>2. f # Rerun => f = mni[c] /\ ~(mni[c] < job.support /\ mni[c] + ppn[c] >= job.support)
    BY <1>5, <1>8, <2>1
  <2>3. mni[c] \in Nat /\ ppn[c] \in Nat
    OBVIOUS
  <2> QED BY <1>6, <1>8, <2>1, <2>2, <2>3
<1> QED BY <1>7, <1>8

\* The images that the parts up to the present one count.
SoFar(c) == Before(Real(c)) \union Own(Real(c))
LEMMA SoFarIs ==
  ASSUME TypeInv, divided, NEW c \in cols
  PROVE  /\ Real(c) \subseteq NodesOf(data)
         /\ Cardinality(Before(Real(c))) \in Nat /\ Cardinality(Own(Real(c))) \in Nat
         /\ Cardinality(SoFar(c)) = Cardinality(Before(Real(c))) + Cardinality(Own(Real(c)))
         /\ part = 0 => SoFar(c) = Real(c)
<1>1. PICK S : S = Real(c)
  OBVIOUS
<1>2. S \subseteq NodesOf(data)
  BY <1>1, RealAre
<1>3. /\ Before(S) \subseteq S /\ Own(S) \subseteq S
      /\ Cardinality(Before(S) \union Own(S)) = Cardinality(Before(S)) + Cardinality(Own(S))
      /\ part = 0 => Before(S) \union Own(S) = S
  BY <1>2, PartsOf
<1>4. Cardinality(Before(S)) \in Nat /\ Cardinality(Own(S)) \in Nat
  BY <1>2, <1>3, SizesAre
<1> QED BY <1>1, <1>2, <1>3, <1>4 DEF SoFar

Summed == ByCol(LAMBDA c : sums[c] + table.mni[c])
Postponed == ByCol(LAMBDA c : late[c] + Cardinality(postponed[c]))
LEMMA PartSums ==
  ASSUME IInv, stage = "answer", divided, NEW mni, NEW ppn, mni = Summed, ppn = Postponed
  PROVE  /\ mni \in [cols -> Nat] /\ ppn \in [cols -> Nat]
         /\ job.col = NoCol =>
              /\ \A c \in cols : mni[c] <= Cardinality(SoFar(c))
              /\ cut \/ Hopeless \/ \A c \in cols : Cardinality(SoFar(c)) <= mni[c] + ppn[c]
         /\ job.col # NoCol => cut \/ Hopeless \/ Cardinality(SoFar(job.col)) <= mni[job.col] + ppn[job.col]
<1>1. TypeInv /\ TableInv /\ SumsInv /\ stage # "done"
  BY DEF IInv
<1>2. /\ table.mni \in [cols -> Nat] /\ sums \in [cols -> Nat] /\ late \in [cols -> Nat]
      /\ \A c \in cols : Cardinality(postponed[c]) \in Nat
  BY <1>1, SizesAre DEF TypeInv
<1>3. \A c \in cols : mni[c] = sums[c] + table.mni[c] /\ ppn[c] = late[c] + Cardinality(postponed[c])
  BY DEF ByCol, Summed, Postponed
<1>4. mni \in [cols -> Nat] /\ ppn \in [cols -> Nat]
  BY <1>2, <1>3 DEF ByCol, Summed, Postponed
<1>5. \A c \in cols : /\ Cardinality(Before(Real(c))) \in Nat /\ Cardinality(Own(Real(c))) \in Nat
                      /\ Cardinality(SoFar(c)) = Cardinality(Before(Real(c))) + Cardinality(Own(Real(c)))
  BY <1>1, SoFarIs
<1>6. ASSUME NEW c \in cols, sums[c] <= Cardinality(Before(Real(c))), table.mni[c] <= Cardinality(Own(Real(c)))
      PROVE  mni[c] <= Cardinality(SoFar(c))
  <2>1. PICK s \in Nat, t \in Nat, a \in Nat, b \in Nat :
          /\ s = sums[c] /\ t = table.mni[c] /\ a = Cardinality(Before(Real(c))) /\ b = Cardinality(Own(Real(c)))
    BY <1>2, <1>5
  <2>2. s <= a /\ t <= b
    BY <1>6, <2>1
  <2>3. s + t <= a + b
    BY <2>2
  <2>4. mni[c] = s + t /\ Cardinality(SoFar(c)) = a + b
    BY <1>3, <1>5, <2>1
  <2> QED BY <2>3, <2>4
<1>7. ASSUME NEW c \in cols, Cardinality(Before(Real(c))) <= sums[c] + late[c],
             Cardinality(Own(Real(c))) <= table.mni[c] + Cardinality(postponed[c])
      PROVE  Cardinality(SoFar(c)) <= mni[c] + ppn[c]
  <2>1. PICK s \in Nat, t \in Nat, a \in Nat, b \in Nat, l \in Nat, p \in Nat :
          /\ s = sums[c] /\ t = table.mni[c] /\ a = Cardinality(Before(Real(c)))
          /\ b = Cardinality(Own(Real(c))) /\ l = late[c] /\ p = Cardinality(postponed[c])
    BY <1>2, <1>5
  <2>2. a <= s + l /\ b <= t + p
    BY <1>7, <2>1
  <2>3. a + b <= (s + t) + (l + p)
    BY <2>2
  <2>4. mni[c] = s + t /\ ppn[c] = l + p /\ Cardinality(SoFar(c)) = a + b
    BY <1>3, <1>5, <2>1
  <2> QED BY <2>3, <2>4
<1>8. ASSUME job.col = NoCol
      PROVE  /\ \A c \in cols : mni[c] <= Cardinality(SoFar(c))
             /\ cut \/ Hopeless \/ \A c \in cols : Cardinality(SoFar(c)) <= mni[c] + ppn[c]
  <2>1. \A c \in cols : sums[c] <= Cardinality(Before(Real(c))) /\ table.mni[c] <= Cardinality(Own(Real(c)))
    BY <1>1, <1>8 DEF TableInv, SumsInv
  <2>2. ASSUME ~cut, ~Hopeless, NEW c \in cols PROVE Cardinality(SoFar(c)) <= mni[c] + ppn[c]
    <3>1. Cardinality(Before(Real(c))) <= sums[c] + late[c] /\ Cardinality(Own(Real(c))) <= table.mni[c]
      BY <1>1, <1>8, <2>2 DEF TableInv, SumsInv
    <3>2. PICK o \in Nat, t \in Nat, p \in Nat :
            o = Cardinality(Own(Real(c))) /\ t = table.mni[c] /\ p = Cardinality(postponed[c])
      BY <1>2, <1>5
    <3>3. o <= t + p
      BY <3>1, <3>2
    <3> QED BY <1>7, <3>1, <3>2, <3>3
  <2> QED BY <1>6, <2>1, <2>2
<1>9. ASSUME job.col # NoCol, ~cut, ~Hopeless
      PROVE  Cardinality(SoFar(job.col)) <= mni[job.col] + ppn[job.col]
  <2>1. PICK c \in cols : c = job.col
    BY <1>1, <1>9, JobIs
  <2>2. Cardinality(Before(Real(c))) <= sums[c] + late[c]
    BY <1>1, <1>9, <2>1 DEF SumsInv
  <2>3. Cardinality(Own(Real(c))) <= table.mni[c] + Cardinality(postponed[c])
    BY <1>1, <1>9, <2>1 DEF TableInv
  <2> QED BY <1>7, <2>1, <2>2, <2>3
<1> QED BY <1>4, <1>8, <1>9

LEMMA AnswerPartKeeps ==
  ASSUME IInv, AnswerPart
  PROVE  IInv'
<1>1. PICK mni, ppn, freq : mni = Summed /\ ppn = Postponed /\ freq = subTaskDone(mni, ppn)
  OBVIOUS
<1>2. stage = "answer" /\ divided /\ UNCHANGED <<counting, sampling, cut>>
  BY DEF AnswerPart
<1>3. \/ /\ part > 0
         /\ part' = part - 1 /\ keeping' = job.postpone /\ sums' = mni /\ late' = ppn
         /\ stage' = "domains" /\ UNCHANGED <<job, verdict>>
      \/ /\ part = 0 /\ freq = Rerun
         /\ \E n \in {job.parts, Max({job.parts, job.again})} : Again(AsBefore(job, n))
      \/ part = 0 /\ freq # Rerun /\ Verdict(freq)
  BY <1>1 DEF AnswerPart, AsBefore, Summed, Postponed
<1>4. /\ mni \in [cols -> Nat] /\ ppn \in [cols -> Nat]
      /\ job.col = NoCol =>
           /\ \A c \in cols : mni[c] <= Cardinality(SoFar(c))
           /\ cut \/ Hopeless \/ \A c \in cols : Cardinality(SoFar(c)) <= mni[c] + ppn[c]
      /\ job.col # NoCol => cut \/ Hopeless \/ Cardinality(SoFar(job.col)) <= mni[job.col] + ppn[job.col]
  BY <1>1, <1>2, PartSums
<1>5. TypeInv /\ StageInv /\ JobOK(job) /\ job.kind = "s" /\ verdict = "none" /\ arcs = {}
  BY <1>2 DEF IInv, StageInv, TypeInv
<1>6. CASE part > 0 /\ part' = part - 1 /\ keeping' = job.postpone /\ sums' = mni /\ late' = ppn
           /\ stage' = "domains" /\ UNCHANGED <<job, verdict>>
  <2>1. /\ domains' = domains /\ arcs' = arcs /\ order' = order /\ todo' = todo /\ solutions' = solutions /\ postponed' = postponed
        /\ table' = table /\ sample' = sample /\ answer' = answer /\ cut' = cut /\ job' = job /\ verdict' = verdict
    BY <1>2, <1>6 DEF counting, sampling
  <2>2. cols' = cols /\ data' = data /\ pattern' = pattern /\ \A c : Real(c)' = Real(c)
    BY <2>1 DEF cols, data, pattern, Real
  <2>3. Hopeless' = Hopeless
    BY <2>1, <2>2 DEF Hopeless, Support, Sizes, ByCol, MinOf, Real
  <2>4. part' \in 0 .. job.parts - 1 /\ (job.postpone => job.col # NoCol) /\ job.postpone \in BOOLEAN
    <3>1. part \in 0 .. job.parts - 1 /\ job.parts \in Nat \ {0}
      BY <1>5, JobIs
    <3>2. (job.postpone => job.col # NoCol) /\ job.postpone \in BOOLEAN
      BY <1>5 DEF JobOK
    <3> QED BY <1>6, <3>1, <3>2
  <2>5. TypeInv'
    BY <1>4, <1>5, <1>6, <2>1, <2>2, <2>4 DEF TypeInv, Stages
  <2>6. StageInv' /\ ArcsInv' /\ SampleInv' /\ ColumnsInv' /\ TableInv' /\ VerdictRight' /\ ExactSound'
    BY <1>5, <1>6, <2>1
    DEF StageInv, ArcsInv, ArcsLossless, SampleInv, ColumnsInv, TableInv, VerdictRight, ExactSound, StaysForSupport
  <2>7. ASSUME NEW c \in cols PROVE Before(Real(c))' = SoFar(c)
    <3>1. PICK R, n, p : R = Real(c) /\ n = job.parts /\ p = part
      OBVIOUS
    <3>2. R \subseteq Nat /\ n \in Nat \ {0} /\ p \in 0 .. n - 1
      <4>1. Real(c) \subseteq NodesOf(data) /\ NodesOf(data) \subseteq Nat
        BY <1>2, <1>5, JobIs, SoFarIs
      <4> QED BY <1>5, <3>1, <4>1, JobIs
    <3>3. Before(Real(c))' = {v \in R : v % n > p - 1}
      BY <1>6, <2>1, <2>2, <3>1 DEF Before
    <3>4. SoFar(c) = {v \in R : v % n > p} \union {v \in R : v % n = p}
      BY <1>2, <3>1 DEF SoFar, Before, Own
    <3>5. ASSUME NEW v \in R PROVE v % n > p - 1 <=> v % n > p \/ v % n = p
      <4>1. PICK m : m = v % n
        OBVIOUS
      <4>2. m \in 0 .. n - 1
        BY <3>2, <4>1, ModIs
      <4>3. m > p - 1 <=> m > p \/ m = p
        BY <3>2, <4>2
      <4> QED BY <4>1, <4>3
    <3> QED BY <3>3, <3>4, <3>5
  <2>8. ASSUME job.col = NoCol
        PROVE  /\ \A c \in cols' : sums'[c] <= Cardinality(Before(Real(c)))'
               /\ cut' \/ Hopeless' \/ \A c \in cols' : Cardinality(Before(Real(c)))' <= sums'[c] + late'[c]
    BY <1>4, <1>6, <2>1, <2>2, <2>3, <2>7, <2>8
  <2>9. ASSUME job.col # NoCol
        PROVE  cut' \/ Hopeless' \/ Cardinality(Before(Real(job.col)))' <= sums'[job.col] + late'[job.col]
    <3>1. PICK c \in cols : c = job.col
      BY <1>5, <2>9, JobIs
    <3>2. cut \/ Hopeless \/ Cardinality(SoFar(c)) <= mni[c] + ppn[c]
      BY <1>4, <2>9, <3>1
    <3>3. Before(Real(job.col))' = Before(Real(c))'
      BY <2>1, <3>1 DEF Real
    <3>4. Cardinality(Before(Real(job.col)))' = Cardinality(SoFar(c)) /\ sums'[job.col] = mni[c] /\ late'[job.col] = ppn[c]
      BY <1>6, <2>7, <3>1, <3>3
    <3> QED BY <2>1, <2>3, <3>2, <3>4
  <2>10. SumsInv'
    BY <2>1, <2>8, <2>9, Zenon DEF SumsInv
  <2> QED BY <2>5, <2>6, <2>10 DEF IInv
<1>7. ASSUME NEW n \in {job.parts, Max({job.parts, job.again})}, Again(AsBefore(job, n)) PROVE IInv'
  <2>1. PICK a \in Nat \ {0}, b \in Nat \ {0} : a = job.parts /\ b = job.again
    BY <1>5 DEF JobOK
  <2>2. Max({a, b}) \in Nat \ {0}
    <3>1. CASE a <= b
      <4>1. PICK T : T = {a, b}
        OBVIOUS
      <4>2. T \subseteq Int /\ b \in T /\ \A y \in T : y <= b
        BY <3>1, <4>1
      <4>3. Max(T) = b
        BY <4>2, MaxIs
      <4> QED BY <4>1, <4>3
    <3>2. CASE b <= a
      <4>1. PICK T : T = {a, b}
        OBVIOUS
      <4>2. T \subseteq Int /\ a \in T /\ \A y \in T : y <= a
        BY <3>2, <4>1
      <4>3. Max(T) = a
        BY <4>2, MaxIs
      <4> QED BY <4>1, <4>3
    <3> QED BY <3>1, <3>2
  <2>3. n \in Nat \ {0}
    BY <1>7, <2>1, <2>2
  <2>4. PICK g, j : g = job /\ j = AsBefore(g, n)
    OBVIOUS
  <2>5. JobOK(g) /\ g.kind = "s" /\ j \in {AsWhole(g, n), AsBefore(g, n)}
    BY <1>5, <2>4
  <2>6. JobOK(j) /\ j.pattern = job.pattern /\ j.data = job.data /\ j.postpone = FALSE
    BY <2>3, <2>4, <2>5, AgainOK
  <2>7. Again(j)
    BY <1>7, <2>4
  <2> QED BY <1>2, <2>6, <2>7, AgainKeeps
<1>8. ASSUME part = 0, freq # Rerun, Verdict(freq) PROVE IInv'
  <2>1. /\ freq \in Nat
        /\ job.col = NoCol => /\ freq = MinOf(mni)
                              /\ freq < job.support => \E c \in cols : mni[c] + ppn[c] < job.support
        /\ job.col # NoCol => /\ freq = mni[job.col]
                              /\ freq < job.support => mni[job.col] + ppn[job.col] < job.support
    <3>1. PICK f : f = freq
      OBVIOUS
    <3>2. f = subTaskDone(mni, ppn) /\ f # Rerun
      BY <1>1, <1>8, <3>1
    <3> QED BY <1>4, <1>5, <3>1, <3>2, SubTaskIs
  <2>2. \A c \in cols : /\ Real(c) \subseteq NodesOf(data) /\ SoFar(c) = Real(c)
                        /\ Cardinality(Real(c)) \in Nat
    BY <1>2, <1>5, <1>8, SoFarIs, SupportIs
  <2>3. job.support \in Nat /\ job.col \in cols \union {NoCol} /\ cols # {}
    BY <1>5, JobIs
  <2>4. freq < job.support => cut \/ Hopeless
    <3>1. SUFFICES ASSUME freq < job.support, ~cut, ~Hopeless PROVE FALSE
      OBVIOUS
    <3>2. PICK c \in cols : Cardinality(Real(c)) <= mni[c] + ppn[c] /\ mni[c] + ppn[c] < job.support
      <4>1. CASE job.col = NoCol
        BY <1>4, <2>1, <2>2, <3>1, <4>1
      <4>2. CASE job.col # NoCol
        <5>1. PICK c \in cols : c = job.col
          BY <2>3, <4>2
        <5> QED BY <1>4, <2>1, <2>2, <3>1, <4>2, <5>1
      <4> QED BY <4>1, <4>2
    <3>3. mni[c] \in Nat /\ ppn[c] \in Nat
      BY <1>4
    <3>4. Cardinality(Real(c)) < job.support
      BY <2>2, <2>3, <3>2, <3>3
    <3> QED BY <1>5, <2>2, <3>1, <3>4, HopelessIs
  <2>5. freq >= job.support /\ job.col = NoCol => Support >= job.support
    <3>1. SUFFICES ASSUME freq >= job.support, job.col = NoCol PROVE Support >= job.support
      OBVIOUS
    <3>2. PICK c \in cols : Support = Cardinality(Real(c))
      BY <1>5, SupportIs
    <3>3. MinOf(mni) <= mni[c] /\ mni[c] <= Cardinality(Real(c))
      BY <1>4, <2>2, <2>3, <3>1, MinIs
    <3>4. freq = MinOf(mni) /\ mni[c] \in Nat
      BY <1>4, <2>1, <3>1
    <3> QED BY <2>1, <2>2, <2>3, <3>1, <3>2, <3>3, <3>4
  <2>6. freq \in Int
    BY <2>1
  <2> QED BY <1>2, <1>8, <2>4, <2>5, <2>6, VerdictKeeps
<1> QED BY <1>3, <1>6, <1>7, <1>8

-----------------------------------------------------------------------------
(* The theorems.                                                            *)

\* A job that no step has touched satisfies the invariant.
LEMMA InitInv ==
  ASSUME Init
  PROVE  IInv
<1>1. JobOK(job)
  BY JobAssumption DEF Init
<1>2. part = job.parts - 1 /\ job.parts \in Nat \ {0} /\ part \in 0 .. job.parts - 1
  BY <1>1 DEF JobOK, Init
<1>3. /\ keeping = job.postpone /\ stage = "domains" /\ verdict = "none" /\ cut = FALSE /\ arcs = {} /\ order = <<>> /\ todo = {}
      /\ sums = zero /\ late = zero /\ domains = none /\ solutions = none /\ postponed = none
      /\ table = [freq |-> 0, mni |-> zero] /\ sample = [now |-> EmptySample, approx |-> zero]
  BY DEF Init
<1>4. zero \in [cols -> Nat] /\ (\A c \in cols : zero[c] = 0) /\ none \in [cols -> SUBSET NodesOf(data)]
  BY DEF zero, none, ByCol
<1>5. job.postpone \in BOOLEAN /\ (job.postpone => job.col # NoCol)
  BY <1>1 DEF JobOK
<1>6. TypeInv
  <2>1. sample = [now |-> sample.now, approx |-> sample.approx] /\ sample.now.counter \in Nat
    BY <1>3 DEF EmptySample
  <2>2. order \in Seq(cols) /\ todo \subseteq NodesOf(data)
    BY <1>3
  <2>3. table \in [freq : Nat, mni : [cols -> Nat]]
    BY <1>3, <1>4
  <2> QED BY <1>1, <1>2, <1>3, <1>4, <1>5, <2>1, <2>2, <2>3 DEF TypeInv, Stages
<1>7. StageInv /\ ArcsInv /\ SampleInv /\ ColumnsInv /\ TableInv /\ VerdictRight /\ ExactSound
  BY <1>3 DEF StageInv, ArcsInv, ArcsLossless, SampleInv, ColumnsInv, TableInv, VerdictRight, ExactSound, StaysForSupport
<1>8. ASSUME NEW c \in cols PROVE Cardinality(Before(Real(c))) = 0
  <2>1. PICK S : S = Real(c)
    OBVIOUS
  <2>2. S \subseteq NodesOf(data)
    BY <1>6, <2>1, RealAre
  <2>3. Before(S) = {}
    BY <1>2, <1>6, <2>2, PartsOf
  <2> QED BY <2>1, <2>3, FS_EmptySet
<1>9. SumsInv
  <2>1. job.col \in cols \union {NoCol}
    BY <1>6, JobIs
  <2> QED BY <1>3, <1>4, <1>8, <2>1 DEF SumsInv
<1> QED BY <1>6, <1>7, <1>9 DEF IInv

LEMMA StutterKeeps ==
  ASSUME IInv, UNCHANGED vars
  PROVE  IInv'
<1>1. /\ domains' = domains /\ arcs' = arcs /\ order' = order /\ todo' = todo /\ solutions' = solutions /\ postponed' = postponed
      /\ table' = table /\ sample' = sample /\ answer' = answer /\ cut' = cut
      /\ job' = job /\ part' = part /\ keeping' = keeping /\ sums' = sums /\ late' = late /\ verdict' = verdict /\ stage' = stage
  BY DEF vars, counting, deciding, sampling
<1>2. /\ pattern' = pattern /\ data' = data /\ cols' = cols /\ divided' = divided
      /\ useAC3' = useAC3 /\ Hopeless' = Hopeless /\ Support' = Support /\ none' = none
      /\ \A c : Real(c)' = Real(c) /\ ByDegree(c)' = ByDegree(c) /\ OfInvalid(c)' = OfInvalid(c)
      /\ \A S : Own(S)' = Own(S) /\ Before(S)' = Before(S)
      /\ \A c : Own(Real(c))' = Own(Real(c)) /\ Before(Real(c))' = Before(Real(c))
  BY <1>1, Frame
<1>3. TypeInv'
  BY <1>1, <1>2 DEF IInv, TypeInv
<1>4. StageInv'
  BY <1>1, <1>2 DEF IInv, StageInv
<1>5. TooFew(domains, cols)' = TooFew(domains, cols) /\ \A c, d : Matched(c, d)' = Matched(c, d)
  BY <1>1, <1>2 DEF TooFew, Matched
<1>6. ArcsLossless'
  BY <1>1, <1>2 DEF IInv, ArcsInv, ArcsLossless
<1>7. ArcsInv'
  BY <1>1, <1>2, <1>5, <1>6 DEF IInv, ArcsInv
<1>8. SampleInv'
  BY <1>1, <1>2, <1>5 DEF IInv, SampleInv, StaysForSupport, column
<1>9. ColumnsInv'
  BY <1>1, <1>2 DEF IInv, ColumnsInv, column
<1>10. TableInv'
  BY <1>1, <1>2 DEF IInv, TableInv
<1>11. SumsInv'
  BY <1>1, <1>2 DEF IInv, SumsInv
<1>12. VerdictRight' /\ ExactSound'
  BY <1>1, <1>2 DEF IInv, VerdictRight, ExactSound
<1> QED BY <1>3, <1>4, <1>7, <1>8, <1>9, <1>10, <1>11, <1>12 DEF IInv

LEMMA NextInv ==
  ASSUME IInv, [Next]_vars
  PROVE  IInv'
<1>1. CASE CreateDomains
  BY <1>1, CreateDomainsKeeps
<1>2. CASE AC_3
  BY <1>2, AC_3Keeps
<1>3. CASE CheckDomains
  BY <1>3, CheckDomainsKeeps
<1>4. CASE Known
  BY <1>4, KnownKeeps
<1>5. CASE Find
  BY <1>5, FindKeeps
<1>6. CASE Miss
  BY <1>6, MissKeeps
<1>7. CASE CloseColumn
  BY <1>7, CloseColumnKeeps
<1>8. CASE OpenSamples
  BY <1>8, OpenSamplesKeeps
<1>9. CASE Draw
  BY <1>9, DrawKeeps
<1>10. CASE Approximate
  BY <1>10, ApproximateKeeps
<1>11. CASE AnswerWhole
  BY <1>11, AnswerWholeKeeps
<1>12. CASE AnswerPart
  BY <1>12, AnswerPartKeeps
<1>13. CASE UNCHANGED vars
  BY <1>13, StutterKeeps
<1> QED BY <1>1, <1>2, <1>3, <1>4, <1>5, <1>6, <1>7, <1>8, <1>9, <1>10, <1>11, <1>12, <1>13 DEF Next

\* What the present states satisfy together: the inductive invariant.
THEOREM CounterInv == Spec => []IInv
<1>1. Init => IInv
  BY InitInv
<1>2. IInv /\ [Next]_vars => IInv'
  BY NextInv
<1> QED BY <1>1, <1>2, PTL DEF Spec

\* Neither the labels and degrees (createDomains) nor AC_3 ever take a data
\* node that is the image of a column.
THEOREM CountArcsLossless == Spec => []ArcsLossless
<1>1. IInv => ArcsLossless
  BY DEF IInv, ArcsInv
<1> QED BY <1>1, CounterInv, PTL

\* The master's decision, through early breaks, invalid columns, parts,
\* postponed nodes and repetitions, is the one that the support asks for,
\* unless a search was given up without a trace.
THEOREM CountVerdictRight == Spec => []VerdictRight
<1>1. IInv => VerdictRight
  BY DEF IInv
<1> QED BY <1>1, CounterInv, PTL

\* When the last part has answered, the sums of Pattern hold every image of
\* every column once, or a postponed node for it.
THEOREM CountPartsAddUp == Spec => []PartsAddUp
<1>1. IInv => PartsAddUp
  <2>1. SUFFICES ASSUME IInv, stage = "answer", divided, part = 0, job.col = NoCol, NEW c \in cols
                 PROVE  LET mni == sums[c] + table.mni[c] ppn == late[c] + Cardinality(postponed[c])
                        IN /\ mni <= Cardinality(Real(c))
                           /\ Support >= job.support /\ ~cut => mni + ppn >= Cardinality(Real(c))
    BY DEF PartsAddUp
  <2>2. PICK mni, ppn : mni = Summed /\ ppn = Postponed
    OBVIOUS
  <2>3. /\ mni \in [cols -> Nat] /\ ppn \in [cols -> Nat]
        /\ \A d \in cols : mni[d] <= Cardinality(SoFar(d))
        /\ cut \/ Hopeless \/ \A d \in cols : Cardinality(SoFar(d)) <= mni[d] + ppn[d]
    BY <2>1, <2>2, PartSums
  <2>4. mni[c] = sums[c] + table.mni[c] /\ ppn[c] = late[c] + Cardinality(postponed[c])
    BY <2>1, <2>2 DEF Summed, Postponed, ByCol
  <2>5. TypeInv
    BY <2>1 DEF IInv
  <2>6. SoFar(c) = Real(c) /\ Support \in Nat /\ job.support \in Nat
    BY <2>1, <2>5, SoFarIs, SupportIs, JobIs
  <2>7. mni[c] <= Cardinality(Real(c))
    BY <2>3, <2>6
  <2>8. ASSUME Support >= job.support, ~cut PROVE mni[c] + ppn[c] >= Cardinality(Real(c))
    <3>1. ~Hopeless
      BY <2>6, <2>8 DEF Hopeless
    <3>2. PICK a \in Nat, b \in Nat, r \in Nat : a = mni[c] /\ b = ppn[c] /\ r = Cardinality(Real(c))
      BY <2>3, <2>5, SupportIs
    <3>3. r <= a + b
      BY <2>3, <2>6, <2>8, <3>1, <3>2
    <3> QED BY <3>2, <3>3
  <2> QED BY <2>4, <2>7, <2>8
<1> QED BY <1>1, CounterInv, PTL

\* An approximate count that calls itself exact decides as the support does.
THEOREM CountExactSound == Spec => []ExactSound
<1>1. IInv => ExactSound
  BY DEF IInv
<1> QED BY <1>1, CounterInv, PTL

\* A worker leaves an approximate count in the middle (no bucket is full) only
\* for a support below one bucket.
THEOREM CountStaysForSupport == Spec => []StaysForSupport
<1>1. IInv => StaysForSupport
  BY DEF IInv, SampleInv, StaysForSupport
<1> QED BY <1>1, CounterInv, PTL

=============================================================================
