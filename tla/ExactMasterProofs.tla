-------------------------- MODULE ExactMasterProofs --------------------------
(***************************************************************************)
(* The proof that IInv is an invariant of ExactMaster, for any worlds, any *)
(* hard labels and any number of threads, what follows from it, that a     *)
(* threshold is found, and that it implements PatternMining.               *)
(***************************************************************************)
EXTENDS ExactMaster, FiniteSetTheorems, TLAPS

-----------------------------------------------------------------------------
(* Numbers.                                                                 *)

\* Numbers are well founded.
LEMMA MinIs ==
  ASSUME NEW S \in SUBSET Nat, S # {}
  PROVE  Min(S) \in S /\ \A x \in S : Min(S) <= x
<1> DEFINE R == {ss \in Nat \X Nat : ss[1] < ss[2]}
<1>1. IsWellFoundedOn(R, Nat)
  BY NatLessThanWellFounded, Zenon DEF OpToRel
<1>2. PICK x \in S : \A y \in S : ~(<<y, x>> \in R)
  <2> HIDE DEF R
  <2> QED BY <1>1, WFMin
<1>3. \A y \in S : x <= y
  <2> SUFFICES ASSUME NEW y \in S, y < x PROVE FALSE
    OBVIOUS
  <2>1. <<y, x>> \in Nat \X Nat /\ <<y, x>>[1] < <<y, x>>[2]
    OBVIOUS
  <2>2. <<y, x>> \in R
    BY <2>1
  <2> QED BY <1>2, <2>2
<1> QED BY <1>3 DEF Min

LEMMA MinOfTwo ==
  ASSUME NEW a \in Int, NEW b \in Int
  PROVE  /\ Min({a, b}) \in {a, b} /\ Min({a, b}) <= a /\ Min({a, b}) <= b
         /\ Max({a, b}) \in {a, b} /\ Max({a, b}) >= a /\ Max({a, b}) >= b
BY DEF Min, Max

LEMMA CappedType ==
  ASSUME NEW n \in Int
  PROVE  /\ Capped(n) \in Int
         /\ n > 0 => Capped(n) > 0
         /\ n > 1 => Capped(n) > 1
<1>1. NumWorkers \in Int /\ NumWorkers > 1
  BY DivisionAssumption
<1>2. Min({n, NumWorkers}) \in {n, NumWorkers}
  BY <1>1, MinOfTwo
<1> QED BY <1>1, <1>2 DEF Capped

LEMMA CeilPositive ==
  ASSUME NEW a \in Nat, NEW b \in Nat, a > 0, b > 0
  PROVE  Ceil(a, b) \in Int /\ Ceil(a, b) > 0
BY DEF Ceil

\* A predicted pattern is given at least one part.
LEMMA DividedPositive ==
  ASSUME NEW time \in Nat, NEW most \in Int, most > 0, threshold \in Nat, threshold > 0
  PROVE  Divided(time, threshold, most) \in Int /\ Divided(time, threshold, most) > 0
<1>1. CASE time > 2 * threshold
  <2>1. Ceil(time, threshold) \in Int /\ Ceil(time, threshold) > 0
    BY <1>1, CeilPositive
  <2>2. Min({Ceil(time, threshold), most}) \in Int /\ Min({Ceil(time, threshold), most}) > 0
    BY <2>1, MinOfTwo
  <2> QED BY <1>1, <2>2, CappedType DEF Divided
<1>2. CASE ~(time > 2 * threshold)
  BY <1>2 DEF Divided
<1> QED BY <1>1, <1>2

LEMMA QuotientType ==
  ASSUME NEW time \in Nat, threshold \in Nat, threshold > 0
  PROVE  Quotient(time, threshold) \in Int
BY DEF Quotient
-----------------------------------------------------------------------------
(* Sets.                                                                    *)

\* The image of a finite set is finite.
LEMMA ImageFinite ==
  ASSUME NEW S, IsFiniteSet(S), NEW f, f = [x \in S |-> f[x]]
  PROVE  IsFiniteSet({f[x] : x \in S})
<1> DEFINE T == {f[x] : x \in S}
<1>1. f \in Surjection(S, T)
  BY DEF Surjection
<1> QED BY <1>1, FS_Surjection

LEMMA WorkersFinite == IsFiniteSet(Worker)
BY DivisionAssumption, FS_Interval DEF Worker

LEMMA InUseFinite ==
  ASSUME TypeOK
  PROVE  IsFiniteSet(InUse)
<1> DEFINE f == [w \in Busy |-> wire[w].id]
<1>1. IsFiniteSet(Busy)
  BY WorkersFinite, FS_Subset DEF Busy
<1>2. IsFiniteSet({f[w] : w \in Busy})
  <2>1. f = [w \in Busy |-> f[w]]
    OBVIOUS
  <2> HIDE DEF f
  <2> QED BY <1>1, <2>1, ImageFinite
<1>3. {f[w] : w \in Busy} = {wire[w].id : w \in {v \in Worker : wire[v] # Idle}}
  BY DEF Busy
<1>4. IsFiniteSet(candidates \union checking)
  BY FS_Union DEF TypeOK
<1>5. IsFiniteSet((candidates \union checking) \union {wire[w].id : w \in {v \in Worker : wire[v] # Idle}})
  BY <1>2, <1>3, <1>4, FS_Union
<1> QED BY <1>5 DEF InUse

\* Of more numbers than there are ids in use, one is free.
LEMMA SomeFree ==
  ASSUME NEW p, IsFiniteSet(InUse)
  PROVE  /\ {k \in 1 .. Cardinality(InUse) + 1 : <<p, k>> \notin InUse} # {}
         /\ {k \in 1 .. Cardinality(InUse) + 1 : <<p, -k>> \notin InUse} # {}
<1> DEFINE n == Cardinality(InUse)
           K == 1 .. n + 1
           f == [k \in K |-> <<p, k>>]
           g == [k \in K |-> <<p, -k>>]
<1>1. n \in Nat
  BY FS_CardinalityType
<1>2. IsFiniteSet(K) /\ Cardinality(K) = n + 1
  <2> HIDE DEF n
  <2> QED BY <1>1, FS_Interval
<1>3. Cardinality(InUse) < Cardinality(K)
  BY <1>1, <1>2
<1>4. ASSUME NEW h \in [K -> InUse] PROVE \E x, y \in K : x # y /\ h[x] = h[y]
  <2> HIDE DEF K, n
  <2> QED BY <1>2, <1>3, FS_PigeonHole
<1>5. \E k \in K : <<p, k>> \notin InUse
  <2> SUFFICES ASSUME \A k \in K : <<p, k>> \in InUse PROVE FALSE
    OBVIOUS
  <2>1. f \in [K -> InUse]
    OBVIOUS
  <2>2. \E x, y \in K : x # y /\ f[x] = f[y]
    BY <1>4, <2>1
  <2> QED BY <2>2
<1>6. \E k \in K : <<p, -k>> \notin InUse
  <2> SUFFICES ASSUME \A k \in K : <<p, -k>> \in InUse PROVE FALSE
    OBVIOUS
  <2>1. g \in [K -> InUse]
    OBVIOUS
  <2>2. \E x, y \in K : x # y /\ g[x] = g[y]
    BY <1>4, <2>1
  <2> QED BY <1>1, <2>2
<1> QED BY <1>5, <1>6

\* A new object has an id that nothing has.
LEMMA Fresh ==
  ASSUME TypeOK, NEW p \in Patterns
  PROVE  /\ NewId(p) \in Ids /\ NewId(p) \notin InUse /\ Of(NewId(p)) = p /\ ~Copy(NewId(p))
         /\ CopyId(p) \in Ids /\ CopyId(p) \notin InUse /\ Of(CopyId(p)) = p /\ Copy(CopyId(p))
<1> DEFINE N == {k \in 1 .. Cardinality(InUse) + 1 : <<p, k>> \notin InUse}
           C == {k \in 1 .. Cardinality(InUse) + 1 : <<p, -k>> \notin InUse}
<1>1. Cardinality(InUse) \in Nat
  BY InUseFinite, FS_CardinalityType
<1>2. N \in SUBSET Nat /\ C \in SUBSET Nat /\ N # {} /\ C # {}
  <2>1. N # {} /\ C # {}
    BY InUseFinite, SomeFree
  <2>2. 1 .. Cardinality(InUse) + 1 \subseteq Nat
    BY <1>1
  <2>3. N \in SUBSET Nat /\ C \in SUBSET Nat
    BY <2>2
  <2> QED BY <2>1, <2>3
<1>3. Min(N) \in N /\ Min(C) \in C
  <2> HIDE DEF N, C
  <2> QED BY <1>2, MinIs
<1>4. NewId(p) = <<p, Min(N)>> /\ CopyId(p) = <<p, -Min(C)>>
  BY DEF NewId, CopyId
<1>5. Min(N) \in Nat \ {0} /\ Min(C) \in Nat \ {0} /\ <<p, Min(N)>> \notin InUse /\ <<p, -Min(C)>> \notin InUse
  BY <1>1, <1>3
<1> HIDE DEF N, C
<1> QED BY <1>4, <1>5 DEF Ids, Of, Copy

\* All threads are threads, and the one served next is free.
LEMMA DestinationFree ==
  ASSUME Free # {}
  PROVE  Destination \in Free /\ Free \subseteq Worker
<1>1. Free \in SUBSET Nat
  BY DivisionAssumption DEF Free, Worker
<1>2. Destination \in Free
  BY <1>1, MinIs DEF Destination
<1> QED BY <1>2 DEF Free
-----------------------------------------------------------------------------
(* What does not change.                                                    *)

Messages == {Idle} \union Short \union Part \union Task

\* The kind of a message tells its fields.
LEMMA KindOf ==
  ASSUME TypeOK, NEW w \in Worker
  PROVE  /\ wire[w].kind \in {"predict", "a", "t", "f"} => wire[w] \in Short
         /\ wire[w].kind = "m" => wire[w] \in Part
         /\ wire[w].kind = "count" => wire[w] \in Task
         /\ w \in Busy <=> wire[w].kind \in {"predict", "a", "t", "f", "m", "count"}
         /\ w \in Busy => wire[w].id \in Ids
<1>1. wire[w] \in Messages
  BY DEF TypeOK, Messages
<1>2. CASE wire[w] = Idle
  BY <1>2 DEF Idle, Busy
<1>3. CASE wire[w] \in Short
  BY <1>3 DEF Idle, Short, Busy
<1>4. CASE wire[w] \in Part
  BY <1>4 DEF Idle, Part, Busy
<1>5. CASE wire[w] \in Task
  BY <1>5 DEF Idle, Task, Busy
<1> QED BY <1>1, <1>2, <1>3, <1>4, <1>5 DEF Messages

\* The types that depend on the world.
LEMMA WorldFrame ==
  ASSUME world' = world
  PROVE  Patterns' = Patterns /\ Ids' = Ids /\ Short' = Short /\ Part' = Part /\ Task' = Task
BY DEF Patterns, Ids, Short, Part, Task

\* Steps of the threads leave the lists alone.
LEMMA ListsFrame ==
  ASSUME IInv, UNCHANGED <<known, lists>>
  PROVE  /\ UNCHANGED <<world, threshold, expected, object, candidates, checking, processed, frequent, infrequent>>
         /\ Originals' = Originals
         /\ ExpectedInv' /\ ColumnInv' /\ OneObject' /\ Sound' /\ (\A id \in candidates' : ~Copy(id))
<1>1. UNCHANGED <<world, threshold, expected, object, candidates, checking, processed, frequent, infrequent>>
  BY DEF known, lists
<1>2. Originals' = Originals
  BY <1>1 DEF Originals
<1>3. ExpectedInv'
  BY <1>1, WorldFrame DEF IInv, ExpectedInv
<1>4. ColumnInv'
  BY <1>1, <1>2 DEF IInv, ColumnInv
<1>5. OneObject'
  BY <1>1 DEF IInv, OneObject, OfAll
<1>6. Sound' /\ (\A id \in candidates' : ~Copy(id))
  BY <1>1 DEF IInv, Sound, KindInv
<1> QED BY <1>1, <1>2, <1>3, <1>4, <1>5, <1>6

\* What is known of a pattern stays, when nothing new is sent of it.
SameObject(id) ==
  /\ object'[id].fixed = object[id].fixed /\ object'[id].left = object[id].left /\ object'[id].rem = object[id].rem
  /\ object'[id].col = object[id].col /\ object'[id].got = object[id].got
SameRound(id) ==
  /\ world' = world /\ SameObject(id)
  /\ (id \in checking' <=> id \in checking) /\ (id \in candidates' => id \in candidates)
  /\ \A w \in Sent(id)' : w \in Sent(id) /\ wire'[w] = wire[w]

LEMMA RoundFrame ==
  ASSUME NEW id, Round(id), SameRound(id)
  PROVE  Round(id)'
<1>1. id \notin checking' => Resting(id)'
  BY DEF Round, Resting, SameRound, SameObject
<1>2. ASSUME id \in checking', object'[id].fixed <= 1
      PROVE  Single(id)'
  <2>1. Single(id)
    BY <1>2 DEF Round, SameRound, SameObject
  <2> QED BY <2>1 DEF Single, SameRound, SameObject
<1>3. ASSUME id \in checking', ~(object'[id].fixed <= 1)
      PROVE  InParts(id)'
  <2>1. InParts(id)
    BY <1>3 DEF Round, SameRound, SameObject
  <2> QED BY <2>1 DEF InParts, SameRound, SameObject
<1> QED BY <1>1, <1>2, <1>3 DEF Round
-----------------------------------------------------------------------------
(* The threads.                                                             *)

\* A thread answers with a message on the same pattern.
LEMMA Answering ==
  ASSUME IInv, NEW w \in Busy, NEW id, id = wire[w].id, NEW m \in Short \union Part, m.id = id,
         m.kind = "a" <=> wire[w].kind = "predict", m.kind # "predict", wire[w].kind \in {"predict", "count"},
         wire' = [wire EXCEPT ![w] = m], UNCHANGED <<known, lists, pc>>,
         id \in Originals => Round(id)'
  PROVE  IInv'
<1> USE DEF IInv
<1>1. /\ UNCHANGED <<world, threshold, expected, object, candidates, checking, processed, frequent, infrequent, pc>>
      /\ Originals' = Originals
      /\ ExpectedInv' /\ ColumnInv' /\ OneObject' /\ Sound' /\ (\A i \in candidates' : ~Copy(i))
  BY ListsFrame
<1>2. /\ w \in Worker /\ m # Idle /\ wire'[w] = m /\ \A v \in Worker \ {w} : wire'[v] = wire[v]
      /\ wire' \in [Worker -> Messages] /\ wire \in [Worker -> Messages]
  <2>1. wire \in [Worker -> Messages] /\ w \in Worker
    BY DEF TypeOK, Messages, Busy
  <2>2. m # Idle
    BY DEF Short, Part, Idle
  <2> QED BY <2>1, <2>2 DEF Messages
<1>3. Busy' = Busy /\ wire[w] # Idle
  BY <1>2 DEF Busy
<1>4. \A i : Sent(i)' = Sent(i)
  BY <1>2, <1>3 DEF Sent
<1>5. TypeOK'
  BY <1>1, <1>2, WorldFrame DEF TypeOK, Messages
<1>6. KindInv'
  <2>1. Copy(wire[w].id) <=> wire[w].kind \in {"predict", "a"}
    BY DEF KindInv
  <2>2. Copy(wire'[w].id) <=> wire'[w].kind \in {"predict", "a"}
    BY <1>2, <2>1
  <2>3. \A v \in Busy' : Copy(wire'[v].id) <=> wire'[v].kind \in {"predict", "a"}
    BY <1>2, <1>3, <2>2 DEF KindInv, Busy
  <2> QED BY <1>1, <2>3 DEF KindInv
<1>7. PostponeHasColumn'
  <2>1. wire'[w].kind # "count"
    BY <1>2 DEF Short, Part
  <2> QED BY <1>2, <2>1 DEF PostponeHasColumn
<1>8. \A i \in Originals' : Round(i)'
  <2> SUFFICES ASSUME NEW i \in Originals, i # id PROVE Round(i)'
    BY <1>1
  <2>1. w \notin Sent(i)
    BY DEF Sent
  <2>2. SameRound(i)
    BY <1>1, <1>2, <1>4, <2>1 DEF SameRound, SameObject, Sent, Busy
  <2> QED BY <2>2, RoundFrame
<1> QED BY <1>1, <1>5, <1>6, <1>7, <1>8

LEMMA WorkIInv ==
  ASSUME IInv, NEW w \in Worker, Work(w)
  PROVE  IInv'
<1>0. PICK id : id = wire[w].id
  OBVIOUS
<1>1. UNCHANGED <<known, lists, pc>>
  BY DEF Work
<1>2. /\ UNCHANGED <<world, object, candidates, checking>> /\ Originals' = Originals /\ TypeOK
      /\ wire \in [Worker -> Messages]
  BY <1>1, ListsFrame DEF IInv, TypeOK, Messages
<1>3. ASSUME NEW m, wire' = [wire EXCEPT ![w] = m], m.id = id, m # Idle, w \in Busy
      PROVE  /\ Sent(id)' = Sent(id) /\ wire'[w] = m /\ w \in Sent(id)
             /\ \A v \in Sent(id) \ {w} : wire'[v] = wire[v]
  <2>1. wire'[w] = m /\ \A v \in Worker \ {w} : wire'[v] = wire[v]
    BY <1>2, <1>3
  <2> QED BY <1>0, <1>3, <2>1 DEF Sent, Busy
<1>4. CASE Predict(w)
  <2> DEFINE m == [kind |-> "a", id |-> id]
  <2>1. wire[w].kind = "predict" /\ wire' = [wire EXCEPT ![w] = m]
    BY <1>0, <1>4 DEF Predict
  <2>2. w \in Busy /\ id \in Ids
    BY <1>0, <1>2, <2>1, KindOf
  <2>3. m \in Short /\ m.kind = "a" /\ m.id = id
    BY <2>2 DEF Short
  <2>4. Copy(id)
    BY <1>0, <2>1, <2>2 DEF IInv, KindInv
  <2>5. id \notin Originals
    BY <2>4 DEF Originals
  <2> HIDE DEF m
  <2> QED BY <1>0, <1>1, <2>1, <2>2, <2>3, <2>5, Answering
<1>5. CASE CountWhole(w)
  <2>1. /\ wire[w].kind = "count" /\ wire[w].part = Whole
        /\ \/ /\ Of(id) \in world.truth \/ wire[w].col # NoCol
              /\ wire' = [wire EXCEPT ![w] = [kind |-> "t", id |-> id]]
           \/ /\ Of(id) \notin world.truth
              /\ wire' = [wire EXCEPT ![w] = [kind |-> "f", id |-> id]]
    BY <1>0, <1>5 DEF CountWhole
  <2>2. w \in Busy /\ id \in Ids
    BY <1>0, <1>2, <2>1, KindOf
  <2>3. PICK k \in {"t", "f"} : /\ wire' = [wire EXCEPT ![w] = [kind |-> k, id |-> id]]
                                /\ k = "t" => Of(id) \in world.truth \/ wire[w].col # NoCol
                                /\ k = "f" => Of(id) \notin world.truth
    BY <2>1
  <2> DEFINE m == [kind |-> k, id |-> id]
  <2>4. m \in Short /\ m.kind = k /\ m.id = id /\ m # Idle
    BY <2>2 DEF Short, Idle
  <2>5. wire' = [wire EXCEPT ![w] = m]
    BY <2>3
  <2> HIDE DEF m
  <2>6. ASSUME id \in Originals PROVE Round(id)'
    <3>1. Round(id) /\ w \in Sent(id)
      BY <1>0, <2>2, <2>6 DEF IInv, Sent
    <3>2. id \in checking
      BY <3>1 DEF Round, Resting
    <3>3. object[id] \in Objects
      BY <2>6 DEF IInv, TypeOK
    <3>4. object[id].fixed <= 1
      <4> SUFFICES ASSUME ~(object[id].fixed <= 1) PROVE FALSE
        OBVIOUS
      <4>1. object[id].left >= 0 /\ wire[w].part \in object[id].left .. object[id].fixed - 1
        BY <3>1, <3>2 DEF Round, InParts
      <4> QED BY <2>1, <3>3, <4>1 DEF Whole, Objects
    <3>5. Single(id)
      BY <3>1, <3>2, <3>4 DEF Round
    <3>6. Single(id)'
      <4>1. Sent(id)' = Sent(id) /\ wire'[w] = m
        BY <1>3, <2>2, <2>4, <2>5
      <4>2. \A v \in Sent(id) : v = w
        BY <3>1, <3>5 DEF Single
      <4>3. wire[w].col = object[id].col
        BY <2>1, <3>1, <3>5 DEF Single
      <4>4. id \notin candidates' /\ object' = object /\ world' = world
        BY <1>2, <3>5 DEF Single
      <4>5. wire'[w].kind = k
        BY <2>4, <4>1
      <4>6. /\ \A u, v \in Sent(id)' : u = v
            /\ \A v \in Sent(id)' : wire'[v].kind = k
        BY <4>1, <4>2, <4>5
      <4> QED BY <2>3, <4>3, <4>4, <4>6 DEF Single
    <3> QED BY <1>2, <3>2, <3>4, <3>6 DEF Round
  <2> QED BY <1>0, <1>1, <2>1, <2>2, <2>4, <2>5, <2>6, Answering
<1>6. CASE CountPart(w)
  <2> DEFINE m == [kind |-> "m", id |-> id, part |-> wire[w].part, parts |-> wire[w].parts]
  <2>1. wire[w].kind = "count" /\ wire[w].part # Whole /\ wire' = [wire EXCEPT ![w] = m]
    BY <1>0, <1>6 DEF CountPart
  <2>2. w \in Busy /\ id \in Ids /\ wire[w].part \in Int /\ wire[w].parts \in Int
    BY <1>0, <1>2, <2>1, KindOf DEF Task
  <2>3. m \in Part /\ m.kind = "m" /\ m.id = id /\ m # Idle /\ m.part = wire[w].part /\ m.parts = wire[w].parts
    BY <2>2 DEF Part, Idle
  <2> HIDE DEF m
  <2>4. ASSUME id \in Originals PROVE Round(id)'
    <3>1. Round(id) /\ w \in Sent(id)
      BY <1>0, <2>2, <2>4 DEF IInv, Sent
    <3>2. id \in checking
      BY <3>1 DEF Round, Resting
    <3>3. ~(object[id].fixed <= 1)
      BY <2>1, <3>1, <3>2 DEF Round, Single
    <3>4. InParts(id)
      BY <3>1, <3>2, <3>3 DEF Round
    <3>5. InParts(id)'
      <4>1. /\ Sent(id)' = Sent(id) /\ wire'[w] = m /\ w \in Sent(id)
            /\ \A v \in Sent(id) \ {w} : wire'[v] = wire[v]
        BY <1>3, <2>1, <2>2, <2>3
      <4>2. \A v \in Sent(id) : wire'[v].part = wire[v].part /\ wire'[v].parts = wire[v].parts /\ wire'[v].kind \in {wire[v].kind, "m"}
        BY <2>3, <4>1
      <4> QED BY <1>2, <3>4, <4>1, <4>2 DEF InParts
    <3> QED BY <1>2, <3>2, <3>3, <3>5 DEF Round
  <2> QED BY <1>0, <1>1, <2>1, <2>2, <2>3, <2>4, Answering
<1> QED BY <1>4, <1>5, <1>6 DEF Work
-----------------------------------------------------------------------------
(* What is found.                                                           *)

\* No message is sent; one may be taken.
WiresShrink ==
  /\ wire' \in [Worker -> Messages]
  /\ \A v \in Busy' : v \in Busy /\ wire'[v] = wire[v]

LEMMA Taken ==
  ASSUME TypeOK, NEW w \in Worker, wire' = [wire EXCEPT ![w] = Idle]
  PROVE  WiresShrink /\ \A id : Sent(id)' = Sent(id) \ {w}
<1>1. /\ wire \in [Worker -> Messages] /\ wire' \in [Worker -> Messages]
      /\ wire'[w] = Idle /\ \A v \in Worker \ {w} : wire'[v] = wire[v]
  BY DEF TypeOK, Messages
<1>2. Busy' = Busy \ {w}
  BY <1>1 DEF Busy
<1> QED BY <1>1, <1>2 DEF WiresShrink, Sent, Busy

LEMMA Wires ==
  ASSUME IInv, WiresShrink, \A id \in candidates' : ~Copy(id)
  PROVE  /\ KindInv' /\ PostponeHasColumn'
         /\ \A id : \A v \in Sent(id)' : v \in Sent(id) /\ wire'[v] = wire[v]
<1>1. KindInv'
  BY DEF IInv, KindInv, WiresShrink
<1>2. PostponeHasColumn'
  <2> SUFFICES ASSUME NEW v \in Worker, wire'[v].kind = "count", wire'[v].postpone
               PROVE  wire'[v].col # NoCol
    BY DEF PostponeHasColumn
  <2>1. wire'[v] # Idle
    BY DEF Idle
  <2>2. wire'[v] = wire[v]
    BY <2>1 DEF WiresShrink, Busy
  <2> QED BY <2>2 DEF IInv, PostponeHasColumn
<1>3. \A id : \A v \in Sent(id)' : v \in Sent(id) /\ wire'[v] = wire[v]
  BY DEF Sent, WiresShrink
<1> QED BY <1>1, <1>2, <1>3

\* The objects that are kept are those of what is still a candidate or checked.
LEMMA KeepIs ==
  ASSUME NEW o, \A i \in DOMAIN o : ~Copy(i), \A i \in Originals' : i \in DOMAIN o /\ o[i] \in Objects,
         object' = Keep(o)
  PROVE  object' \in [Originals' -> Objects] /\ \A i \in Originals' : object'[i] = o[i]
<1>1. {i \in DOMAIN o : i \in candidates' \union checking'} = Originals'
  BY DEF Originals
<1> QED BY <1>1 DEF Keep

\* A pattern is found frequent: the joins that nothing is known of get objects.
LEMMA FoundFrequent ==
  ASSUME IInv, NEW p \in Patterns, p \in world.truth, NEW gone, PatternFoundFrequent(p, gone),
         WiresShrink, checking' \subseteq checking, \A id \in checking \ checking' : id \notin candidates,
         UNCHANGED <<world, threshold, expected, processed>>, pc' \in {"dispatch", pc}, threshold > 0
  PROVE  IInv'
<1> DEFINE E   == Extensions(p, frequent')
           new == {NewId(r) : r \in E}
           o   == [id \in DOMAIN object \union new |-> IF id \in new THEN NewPattern ELSE object[id]]
<1>1. /\ frequent' = frequent \union {p} /\ infrequent' = infrequent
      /\ candidates' = (candidates \ gone) \union new
      /\ object' = Keep(o)
  BY DEF PatternFoundFrequent
<1>2. /\ TypeOK /\ DOMAIN object = Originals /\ \A id \in Originals : object[id] \in Objects
      /\ \A id \in candidates : ~Copy(id)
  BY DEF IInv, TypeOK, KindInv
<1>3. E \subseteq Patterns /\ \A r \in E : r \notin processed' /\ r \notin OfAll(candidates) /\ r \notin OfAll(checking')
  BY DEF Extensions
<1>4. \A r \in E : NewId(r) \in Ids /\ NewId(r) \notin InUse /\ Of(NewId(r)) = r /\ ~Copy(NewId(r))
  BY <1>2, <1>3, Fresh
<1>5. /\ new \subseteq Ids /\ \A id \in new : ~Copy(id) /\ id \notin InUse /\ Of(id) \in E
      /\ \A i, j \in new : Of(i) = Of(j) => i = j
  BY <1>4
<1>6. IsFiniteSet(new)
  <2>1. IsFiniteSet(E)
    BY <1>2, <1>3, WorldAssumption, FS_Subset DEF TypeOK, Patterns
  <2> DEFINE f == [r \in E |-> NewId(r)]
  <2>2. IsFiniteSet({f[r] : r \in E})
    <3>1. f = [r \in E |-> f[r]]
      OBVIOUS
    <3> HIDE DEF f, E
    <3> QED BY <2>1, <3>1, ImageFinite
  <2>3. {f[r] : r \in E} = new
    OBVIOUS
  <2> QED BY <2>2, <2>3
<1>7. NewPattern \in Objects /\ NewPattern.fixed = 1
  BY DEF NewPattern, Objects, NoCol
<1>8. \A id \in new : id \notin candidates /\ id \notin checking /\ Sent(id) = {}
  BY <1>5 DEF InUse, Sent, Busy
<1>9. Originals' \subseteq Originals \union new
  BY <1>1, <1>2 DEF Originals
<1>10. /\ object' \in [Originals' -> Objects]
       /\ \A id \in Originals' : object'[id] = IF id \in new THEN NewPattern ELSE object[id]
  <2>1. \A i \in DOMAIN o : ~Copy(i)
    BY <1>2, <1>5 DEF Originals
  <2>2. \A i \in Originals' : i \in DOMAIN o /\ o[i] \in Objects /\ o[i] = IF i \in new THEN NewPattern ELSE object[i]
    BY <1>2, <1>7, <1>9
  <2> HIDE DEF o, new
  <2> QED BY <1>1, <2>1, <2>2, KeepIs
<1> HIDE DEF o, new, E
<1>11. TypeOK'
  <2>1. IsFiniteSet(candidates') /\ IsFiniteSet(checking')
    <3>1. IsFiniteSet((candidates \ gone) \union new)
      BY <1>2, <1>6, FS_Subset, FS_Union DEF TypeOK
    <3>2. IsFiniteSet(checking')
      BY <1>2, FS_Subset DEF TypeOK
    <3> QED BY <1>1, <3>1, <3>2
  <2>2. candidates' \subseteq Ids /\ checking' \subseteq Ids
    BY <1>1, <1>2, <1>5 DEF TypeOK
  <2> QED BY <1>2, <1>10, <2>1, <2>2, WorldFrame DEF TypeOK, WiresShrink, Messages
<1>12. \A id \in candidates' : ~Copy(id)
  BY <1>1, <1>2, <1>5
<1>13. /\ KindInv' /\ PostponeHasColumn'
       /\ \A id : \A v \in Sent(id)' : v \in Sent(id) /\ wire'[v] = wire[v]
  BY <1>12, Wires
<1>14. ExpectedInv'
  BY WorldFrame DEF IInv, ExpectedInv
<1>15. ColumnInv'
  BY <1>7, <1>9, <1>10 DEF IInv, ColumnInv
<1>16. OneObject'
  <2>1. ASSUME NEW i \in Originals', NEW j \in Originals', Of(i) = Of(j) PROVE i = j
    <3>1. CASE i \in new /\ j \in new
      BY <1>5, <2>1, <3>1
    <3>2. ASSUME NEW k \in new, NEW l \in Originals', l \notin new, Of(k) = Of(l) PROVE FALSE
      <4>1. l \in candidates \/ l \in checking'
        BY <1>1, <3>2 DEF Originals
      <4>2. Of(l) \notin OfAll(candidates) /\ Of(l) \notin OfAll(checking')
        BY <1>3, <1>5, <3>2
      <4> QED BY <4>1, <4>2 DEF OfAll
    <3>3. CASE i \notin new /\ j \notin new
      <4>1. i \in Originals /\ j \in Originals
        BY <1>9, <3>3
      <4> QED BY <2>1, <4>1 DEF IInv, OneObject, Originals
    <3> QED BY <2>1, <3>1, <3>2, <3>3
  <2>2. OfAll(candidates') \cap processed' = {}
    <3>1. \A id \in candidates : Of(id) \notin processed
      BY DEF IInv, OneObject, OfAll
    <3>2. \A id \in candidates' : Of(id) \notin processed'
      BY <1>1, <1>3, <1>5, <3>1
    <3> QED BY <3>2 DEF OfAll
  <2>3. OfAll(candidates)' = OfAll(candidates')
    BY DEF OfAll
  <2> QED BY <2>1, <2>2, <2>3 DEF OneObject, Originals
<1>17. \A id \in Originals' : Round(id)'
  <2> SUFFICES ASSUME NEW id \in Originals' PROVE Round(id)'
    OBVIOUS
  <2>1. CASE id \in new
    <3>1. id \notin checking' /\ Sent(id)' = {}
      BY <1>8, <1>13, <2>1
    <3> QED BY <1>7, <1>10, <2>1, <3>1 DEF Round, Resting
  <2>2. CASE id \notin new
    <3>1. id \in Originals /\ (id \in candidates' => id \in candidates)
      BY <1>1, <1>9, <2>2
    <3>2. id \in checking' <=> id \in checking
      BY <3>1 DEF Originals
    <3>3. SameRound(id)
      BY <1>10, <1>13, <2>2, <3>1, <3>2 DEF SameRound, SameObject
    <3> QED BY <3>1, <3>3, RoundFrame DEF IInv
  <2> QED BY <2>1, <2>2
<1>18. Sound'
  BY <1>1 DEF IInv, Sound
<1> QED BY <1>11, <1>13, <1>14, <1>15, <1>16, <1>17, <1>18 DEF IInv

\* A pattern is found infrequent: what is above it may go.
LEMMA FoundInfrequent ==
  ASSUME IInv, NEW p, p \notin world.truth, NEW gone, NEW rest, PatternFoundInFrequent(p, gone, rest),
         WiresShrink, rest \subseteq checking, \A id \in checking \ rest : id \notin candidates,
         UNCHANGED <<world, threshold, expected, processed>>, pc' \in {"dispatch", pc}, threshold > 0
  PROVE  IInv'
<1>1. PICK supers \in SUBSET candidates :
        /\ infrequent' = infrequent \union {p} /\ frequent' = frequent
        /\ candidates' = (candidates \ gone) \ supers /\ checking' = rest \ supers
        /\ object' = Keep(object)
  <2> DEFINE above == {n \in {Size(id) : id \in candidates} : n > Cardinality(p)}
             mixed == {n \in above : \E id \in candidates : Size(id) = n /\ ~(p \subseteq Of(id))}
  <2>1. PICK stopped \in SUBSET mixed :
          /\ candidates' = (candidates \ gone) \ UNION {Supers(p, n) : n \in above \ stopped}
          /\ checking' = rest \ UNION {Supers(p, n) : n \in above \ stopped}
    BY DEF PatternFoundInFrequent
  <2>2. UNION {Supers(p, n) : n \in above \ stopped} \subseteq candidates
    BY DEF Supers
  <2>3. infrequent' = infrequent \union {p} /\ frequent' = frequent /\ object' = Keep(object)
    BY DEF PatternFoundInFrequent
  <2> HIDE DEF above, mixed
  <2> QED BY <2>1, <2>2, <2>3
<1>2. /\ TypeOK /\ DOMAIN object = Originals /\ \A id \in Originals : object[id] \in Objects
      /\ \A id \in candidates : ~Copy(id)
  BY DEF IInv, TypeOK, KindInv
<1>3. candidates' \subseteq candidates /\ checking' \subseteq checking /\ Originals' \subseteq Originals
  BY <1>1 DEF Originals
<1>4. object' \in [Originals' -> Objects] /\ \A id \in Originals' : object'[id] = object[id]
  <2>1. \A i \in DOMAIN object : ~Copy(i)
    BY <1>2 DEF Originals
  <2> QED BY <1>1, <1>2, <1>3, <2>1, KeepIs
<1>5. TypeOK'
  <2>1. IsFiniteSet(candidates') /\ IsFiniteSet(checking')
    BY <1>2, <1>3, FS_Subset DEF TypeOK
  <2>2. candidates' \subseteq Ids /\ checking' \subseteq Ids
    BY <1>2, <1>3 DEF TypeOK
  <2> QED BY <1>2, <1>4, <2>1, <2>2, WorldFrame DEF TypeOK, WiresShrink, Messages
<1>6. /\ KindInv' /\ PostponeHasColumn'
      /\ \A id : \A v \in Sent(id)' : v \in Sent(id) /\ wire'[v] = wire[v]
  BY <1>2, <1>3, Wires
<1>7. ExpectedInv'
  BY WorldFrame DEF IInv, ExpectedInv
<1>8. ColumnInv'
  BY <1>3, <1>4 DEF IInv, ColumnInv
<1>9. OneObject'
  BY <1>3 DEF IInv, OneObject, OfAll
<1>10. \A id \in Originals' : Round(id)'
  <2> SUFFICES ASSUME NEW id \in Originals' PROVE Round(id)'
    OBVIOUS
  <2>1. id \in checking' <=> id \in checking
    BY <1>1 DEF Originals
  <2>2. SameRound(id)
    BY <1>3, <1>4, <1>6, <2>1 DEF SameRound, SameObject
  <2> QED BY <1>3, <2>2, RoundFrame DEF IInv
<1>11. Sound'
  BY <1>1 DEF IInv, Sound
<1> QED BY <1>5, <1>6, <1>7, <1>8, <1>9, <1>10, <1>11 DEF IInv
-----------------------------------------------------------------------------
(* A pattern goes back to the candidates.                                   *)

LEMMA SubtaskingIs ==
  ASSUME NEW o \in Objects, NEW n \in Int
  PROVE  LET s == SetSubtasking(o, n) IN
         /\ s \in Objects /\ s.fixed = Capped(n) /\ s.left = s.fixed /\ s.rem = s.fixed /\ s.got = {}
         /\ s.col = o.col /\ s.postpone = o.postpone
<1>1. Capped(n) \in Int
  BY CappedType
<1> QED BY <1>1 DEF SetSubtasking, Objects

LEMMA ColumnIs ==
  ASSUME NEW o \in Objects, NEW c \in Int
  PROVE  LET s == SetInvalidCol(o, c) IN
         /\ s \in Objects /\ s.fixed = o.fixed /\ s.left = o.left /\ s.rem = o.rem /\ s.got = o.got
         /\ s.col = c /\ (s.postpone => c # NoCol)
BY DEF SetInvalidCol, Objects

LEMMA Again ==
  ASSUME IInv, NEW id \in Originals, id \in checking, NEW o \in Objects, AddAgain(id, o),
         o.fixed > 1 => o.left = o.fixed /\ o.rem = o.fixed /\ o.got = {},
         o.fixed > 1 /\ o.postpone => o.col # NoCol,
         WiresShrink, Sent(id)' = {}, checking' = checking \ {id} \/ (checking' = checking /\ o.fixed > 1),
         expected' \in [Patterns -> Entries], ExpectedInv',
         UNCHANGED <<world, threshold>>, pc' = "dispatch", threshold > 0
  PROVE  IInv'
<1>1. /\ TypeOK /\ DOMAIN object = Originals /\ \A i \in Originals : object[i] \in Objects
      /\ \A i \in candidates : ~Copy(i)
  BY DEF IInv, TypeOK, KindInv
<1>2. /\ processed' = processed \ {Of(id)}
      /\ object' = Keep([object EXCEPT ![id] = o])
      /\ UNCHANGED <<frequent, infrequent>>
  BY DEF AddAgain
<1>3. candidates' = candidates \union {id}
  <2>1. CASE Of(id) \in OfAll(candidates)
    <3>1. PICK j \in candidates : Of(j) = Of(id)
      BY <2>1 DEF OfAll
    <3>2. j = id
      BY <1>1, <3>1 DEF IInv, OneObject, Originals
    <3> QED BY <2>1, <3>2 DEF AddAgain
  <2>2. CASE Of(id) \notin OfAll(candidates)
    BY <2>2 DEF AddAgain
  <2> QED BY <2>1, <2>2
<1>4. Originals' = Originals
  BY <1>3 DEF Originals
<1>5. /\ object' \in [Originals' -> Objects] /\ object'[id] = o
      /\ \A i \in Originals \ {id} : object'[i] = object[i]
  <2> DEFINE f == [object EXCEPT ![id] = o]
  <2>1. /\ \A i \in DOMAIN f : ~Copy(i)
        /\ \A i \in Originals' : i \in DOMAIN f /\ f[i] \in Objects
        /\ f[id] = o /\ \A i \in Originals \ {id} : f[i] = object[i]
    BY <1>1, <1>4 DEF Originals
  <2>2. object' = Keep(f)
    BY <1>2
  <2> HIDE DEF f
  <2>3. object' \in [Originals' -> Objects] /\ \A i \in Originals' : object'[i] = f[i]
    BY <2>1, <2>2, KeepIs
  <2> QED BY <1>4, <2>1, <2>3
<1>6. id \in Ids
  BY <1>1 DEF TypeOK
<1>7. TypeOK'
  <2>1. IsFiniteSet(candidates') /\ IsFiniteSet(checking')
    <3>1. IsFiniteSet(candidates \union {id})
      BY <1>1, FS_AddElement DEF TypeOK
    <3>2. IsFiniteSet(checking')
      BY <1>1, FS_Subset DEF TypeOK
    <3> QED BY <1>3, <3>1, <3>2
  <2>2. candidates' \subseteq Ids /\ checking' \subseteq Ids
    BY <1>1, <1>3, <1>6 DEF TypeOK
  <2> QED BY <1>1, <1>5, <2>1, <2>2, WorldFrame DEF TypeOK, WiresShrink, Messages
<1>8. ~Copy(id)
  BY DEF Originals
<1>9. \A i \in candidates' : ~Copy(i)
  BY <1>1, <1>3, <1>8
<1>10. /\ KindInv' /\ PostponeHasColumn'
       /\ \A i : \A v \in Sent(i)' : v \in Sent(i) /\ wire'[v] = wire[v]
  BY <1>9, Wires
<1>11. ColumnInv'
  BY <1>4, <1>5 DEF IInv, ColumnInv
<1>12. OneObject'
  <2>1. \A i, j \in Originals' : Of(i) = Of(j) => i = j
    BY <1>4 DEF IInv, OneObject, Originals
  <2>2. \A i \in candidates' : Of(i) \notin processed'
    BY <1>2, <1>3 DEF IInv, OneObject, OfAll
  <2>3. OfAll(candidates)' \cap processed' = {}
    BY <2>2 DEF OfAll
  <2> QED BY <2>1, <2>3 DEF OneObject, Originals
<1>13. \A i \in Originals' : Round(i)'
  <2>1. Round(id)'
    <3>1. CASE id \notin checking'
      BY <1>5, <3>1 DEF Round, Resting
    <3>2. CASE id \in checking'
      <4>1. o.fixed > 1
        BY <3>2
      <4>2. Cardinality({}) = 0 /\ o.fixed \in Int
        BY FS_EmptySet DEF Objects
      <4>3. PICK n \in Int : n > 1 /\ n = object'[id].fixed /\ n = object'[id].left /\ n = object'[id].rem
        BY <1>5, <4>1, <4>2
      <4>4. object'[id].got = {} /\ n - Cardinality({}) = n
        BY <1>5, <4>1, <4>2, <4>3
      <4>5. Sent(id)' = {}
        OBVIOUS
      <4>6. InParts(id)'
        BY <4>3, <4>4, <4>5 DEF InParts
      <4> QED BY <1>5, <3>2, <4>1, <4>2, <4>6 DEF Round
    <3> QED BY <3>1, <3>2
  <2>2. ASSUME NEW i \in Originals, i # id PROVE Round(i)'
    <3>1. SameRound(i)
      BY <1>3, <1>5, <1>10, <2>2 DEF SameRound, SameObject
    <3> QED BY <3>1, RoundFrame DEF IInv
  <2> QED BY <1>4, <2>1, <2>2
<1>14. Sound'
  BY <1>2 DEF IInv, Sound
<1> QED BY <1>7, <1>10, <1>11, <1>12, <1>13, <1>14 DEF IInv

\* The column of an entry is forgotten.
LEMMA ForgetColumn ==
  ASSUME IInv, NEW p \in Patterns, expected' = [expected EXCEPT ![p].col = NoCol], world' = world
  PROVE  expected' \in [Patterns -> Entries] /\ ExpectedInv'
<1>1. expected \in [Patterns -> Entries]
  BY DEF IInv, TypeOK
<1>2. /\ expected' \in [Patterns -> Entries] /\ \A q \in Patterns \ {p} : expected'[q] = expected[q]
      /\ expected'[p] = [expected[p] EXCEPT !.col = NoCol]
  BY <1>1 DEF Entries, NoCol
<1>3. expected'[p].parts = expected[p].parts /\ expected'[p].exact = expected[p].exact /\ expected'[p].freq = expected[p].freq
  BY <1>1, <1>2 DEF Entries
<1>4. expected[p] = None => expected'[p] = None
  <2>1. [None EXCEPT !.col = NoCol] = None
    BY DEF None, NoCol
  <2> QED BY <1>2, <2>1
<1>5. ExpectedInv'
  BY <1>2, <1>3, <1>4, WorldFrame DEF IInv, ExpectedInv
<1> QED BY <1>2, <1>5
-----------------------------------------------------------------------------
(* The answers.                                                             *)

LEMMA AnswerLateIInv ==
  ASSUME IInv, NEW w \in Worker, AnswerLate(w)
  PROVE  IInv'
<1>1. UNCHANGED <<known, lists>> /\ wire' = [wire EXCEPT ![w] = Idle] /\ pc = "receive" /\ pc' = "dispatch"
  BY DEF AnswerLate, Receive
<1>2. /\ UNCHANGED <<world, threshold, expected, object, candidates, checking, processed, frequent, infrequent>>
      /\ Originals' = Originals
      /\ ExpectedInv' /\ ColumnInv' /\ OneObject' /\ Sound' /\ (\A id \in candidates' : ~Copy(id))
  BY <1>1, ListsFrame
<1>3. TypeOK
  BY DEF IInv
<1>4. WiresShrink
  BY <1>1, <1>3, Taken
<1>5. /\ KindInv' /\ PostponeHasColumn'
      /\ \A i : \A v \in Sent(i)' : v \in Sent(i) /\ wire'[v] = wire[v]
  BY <1>2, <1>4, Wires
<1>6. TypeOK'
  BY <1>1, <1>2, <1>3, <1>4, WorldFrame DEF TypeOK, WiresShrink, Messages
<1>7. \A i \in Originals' : Round(i)'
  <2> SUFFICES ASSUME NEW i \in Originals PROVE Round(i)'
    BY <1>2
  <2>1. SameRound(i)
    BY <1>2, <1>5 DEF SameRound, SameObject
  <2> QED BY <2>1, RoundFrame DEF IInv
<1> QED BY <1>2, <1>5, <1>6, <1>7 DEF IInv

\* What is known when an answer on a pattern that is checked is taken.
LEMMA Received ==
  ASSUME IInv, NEW w \in Worker, NEW kind \in {"t", "f", "m"}, Receive(w, kind), NEW id, id = wire[w].id, id \in checking
  PROVE  /\ UNCHANGED <<world, threshold>> /\ pc' = "dispatch" /\ threshold > 0
         /\ WiresShrink /\ id \in Originals /\ id \in Ids /\ Of(id) \in Patterns
         /\ w \in Sent(id) /\ Sent(id)' = Sent(id) \ {w}
         /\ object[id] \in Objects /\ expected[Of(id)].time \in Nat /\ expected[Of(id)] \in Entries
         /\ kind \in {"t", "f"} => Single(id) /\ object[id].fixed <= 1
         /\ kind = "m" => InParts(id) /\ object[id].fixed > 1 /\ wire[w].part \in Int
<1>1. /\ wire[w].kind = kind /\ wire' = [wire EXCEPT ![w] = Idle] /\ pc = "receive" /\ pc' = "dispatch"
      /\ UNCHANGED <<world, threshold>> /\ TypeOK
  BY DEF Receive, known, IInv
<1>2. w \in Busy /\ id \in Ids /\ (kind = "m" => wire[w] \in Part)
  BY <1>1, KindOf
<1>3. ~Copy(id)
  BY <1>1, <1>2 DEF IInv, KindInv
<1>4. id \in Originals /\ w \in Sent(id)
  BY <1>2, <1>3 DEF Originals, Sent
<1>5. Of(id) \in Patterns
  BY <1>2 DEF Ids, Of
<1>6. object[id] \in Objects /\ expected[Of(id)] \in Entries
  BY <1>1, <1>4, <1>5 DEF TypeOK
<1>7. Round(id)
  BY <1>4 DEF IInv
<1>8. kind \in {"t", "f"} => Single(id) /\ object[id].fixed <= 1
  BY <1>1, <1>4, <1>7 DEF Round, InParts
<1>9. kind = "m" => InParts(id) /\ object[id].fixed > 1 /\ wire[w].part \in Int
  BY <1>1, <1>2, <1>4, <1>6, <1>7 DEF Round, Single, Objects, Part
<1>10. threshold > 0
  BY <1>1 DEF TypeOK
<1>11. WiresShrink /\ Sent(id)' = Sent(id) \ {w}
  BY <1>1, Taken
<1>12. expected[Of(id)].time \in Nat
  BY <1>6 DEF Entries
<1> QED BY <1>1, <1>2, <1>4, <1>5, <1>6, <1>8, <1>9, <1>10, <1>11, <1>12

LEMMA AnswerFrequentIInv ==
  ASSUME IInv, NEW w \in Worker, AnswerFrequent(w)
  PROVE  IInv'
<1>0. PICK id : id = wire[w].id
  OBVIOUS
<1>1. /\ Receive(w, "t") /\ id \in checking /\ checking' = checking \ {id} /\ wire[w].kind = "t"
      /\ \/ /\ object[id].col # NoCol
            /\ ColumnWasValid(id, SetSubtasking(object[id], Quotient(expected[Of(id)].time, threshold)))
         \/ /\ object[id].col = NoCol
            /\ UNCHANGED <<processed, expected>>
            /\ PatternFoundFrequent(Of(id), {})
  BY <1>0 DEF AnswerFrequent, Receive
<1>2. /\ UNCHANGED <<world, threshold>> /\ pc' = "dispatch" /\ threshold > 0
      /\ WiresShrink /\ id \in Originals /\ Of(id) \in Patterns
      /\ w \in Sent(id) /\ Sent(id)' = Sent(id) \ {w}
      /\ object[id] \in Objects /\ expected[Of(id)].time \in Nat
      /\ Single(id)
  BY <1>0, <1>1, Received
<1>3. Sent(id)' = {} /\ id \notin candidates
  BY <1>2 DEF Single
<1>4. CASE object[id].col # NoCol
  <2>1. PICK n \in Int : n = Quotient(expected[Of(id)].time, threshold)
    BY <1>2, QuotientType DEF IInv, TypeOK
  <2>2. PICK s \in Objects : /\ s = SetSubtasking(object[id], n)
                             /\ s.left = s.fixed /\ s.rem = s.fixed /\ s.got = {}
    BY <1>2, SubtaskingIs
  <2>3. PICK o \in Objects : /\ o = SetInvalidCol(s, NoCol) /\ o.left = o.fixed /\ o.rem = o.fixed /\ o.got = {}
                             /\ ~o.postpone
    BY <2>2, ColumnIs DEF NoCol
  <2>4. AddAgain(id, o) /\ expected' = [expected EXCEPT ![Of(id)].col = NoCol]
    BY <1>1, <1>4, <2>1, <2>2, <2>3 DEF ColumnWasValid
  <2>5. expected' \in [Patterns -> Entries] /\ ExpectedInv'
    BY <1>2, <2>4, ForgetColumn
  <2> QED BY <1>1, <1>2, <1>3, <2>3, <2>4, <2>5, Again
<1>5. CASE object[id].col = NoCol
  <2>1. PICK p \in Patterns : p = Of(id)
    BY <1>2
  <2>2. p \in world.truth
    BY <1>1, <1>2, <1>5, <2>1 DEF Single
  <2>3. PatternFoundFrequent(p, {}) /\ UNCHANGED <<processed, expected>>
    BY <1>1, <1>5, <2>1
  <2> QED BY <1>1, <1>2, <1>3, <2>2, <2>3, FoundFrequent
<1> QED BY <1>4, <1>5

LEMMA AnswerInfrequentIInv ==
  ASSUME IInv, NEW w \in Worker, AnswerInfrequent(w)
  PROVE  IInv'
<1>0. PICK id : id = wire[w].id
  OBVIOUS
<1>1. /\ Receive(w, "f") /\ id \in checking /\ wire[w].kind = "f"
      /\ PatternFoundInFrequent(Of(id), {}, checking \ {id}) /\ UNCHANGED <<processed, expected>>
  BY <1>0 DEF AnswerInfrequent, Receive
<1>2. /\ UNCHANGED <<world, threshold>> /\ pc' = "dispatch" /\ threshold > 0
      /\ WiresShrink /\ w \in Sent(id) /\ Single(id)
  BY <1>0, <1>1, Received
<1>3. PICK p : p = Of(id)
  OBVIOUS
<1>4. PICK rest : rest = checking \ {id}
  OBVIOUS
<1>5. p \notin world.truth /\ id \notin candidates
  BY <1>1, <1>2, <1>3 DEF Single
<1>6. PatternFoundInFrequent(p, {}, rest) /\ rest \subseteq checking /\ \A i \in checking \ rest : i \notin candidates
  BY <1>1, <1>3, <1>4, <1>5
<1> QED BY <1>1, <1>2, <1>5, <1>6, FoundInfrequent

\* A part that comes is one of the present division that has not come.
Came(id, o) ==
  /\ o \in Objects /\ o.fixed = object[id].fixed /\ o.left = object[id].left /\ o.col = object[id].col
  /\ o.postpone = object[id].postpone
  /\ o.fixed > 1 /\ o.left \in 0 .. o.fixed /\ (id \in candidates => o.left > 0)
  /\ o.got \subseteq o.left .. o.fixed - 1 /\ o.rem = o.fixed - Cardinality(o.got)
  /\ \A v \in Sent(id)' : /\ v \in Sent(id) /\ wire'[v] = wire[v] /\ wire[v].kind \in {"count", "m"} /\ wire[v].parts = o.fixed
                          /\ wire[v].part \in (o.left .. o.fixed - 1) \ o.got
  /\ \A u, v \in Sent(id)' : wire[u].part = wire[v].part => u = v
LEMMA PartComes ==
  ASSUME IInv, NEW w \in Worker, Receive(w, "m"), NEW id, id = wire[w].id, id \in checking,
         NEW o, o = Added(object[id], wire[w])
  PROVE  Came(id, o)
<1>1. /\ object[id] \in Objects /\ InParts(id) /\ object[id].fixed > 1 /\ wire[w].part \in Int
      /\ w \in Sent(id) /\ Sent(id)' = Sent(id) \ {w} /\ WiresShrink
  BY Received
<1>2. PICK got \in SUBSET Int, part \in Int : got = object[id].got /\ part = wire[w].part
  BY <1>1 DEF Objects
<1>3. PICK fixed \in Int, left \in Int, rem \in Int : fixed = object[id].fixed /\ left = object[id].left /\ rem = object[id].rem
  BY <1>1 DEF Objects
<1>4. /\ left \in 0 .. fixed /\ (id \in candidates => left > 0)
      /\ got \subseteq left .. fixed - 1 /\ rem = fixed - Cardinality(got)
      /\ wire[w].parts = fixed /\ part \in (left .. fixed - 1) \ got
  BY <1>1, <1>2, <1>3 DEF InParts
<1>5. Cardinality(got) \in Int /\ Cardinality(got \union {part}) = Cardinality(got) + 1
  <2>1. IsFiniteSet(left .. fixed - 1)
    BY FS_Interval
  <2>2. IsFiniteSet(got)
    BY <1>4, <2>1, FS_Subset
  <2>3. Cardinality(got) \in Nat
    BY <2>2, FS_CardinalityType
  <2>4. part \notin got
    BY <1>4
  <2>5. Cardinality(got \union {part}) = IF part \in got THEN Cardinality(got) ELSE Cardinality(got) + 1
    BY <2>2, FS_AddElement
  <2> QED BY <2>3, <2>4, <2>5
<1>6. o = [object[id] EXCEPT !.rem = @ - 1, !.got = @ \union {part}]
  <2>1. wire[w].parts = object[id].fixed /\ wire[w].part \notin object[id].got
    BY <1>2, <1>3, <1>4
  <2> QED BY <1>2, <2>1 DEF Added
<1>7. /\ o \in Objects /\ o.fixed = fixed /\ o.left = left /\ o.col = object[id].col /\ o.postpone = object[id].postpone
      /\ o.rem = rem - 1 /\ o.got = got \union {part}
  <2>1. PICK r \in Int, g \in SUBSET Int : r = rem - 1 /\ g = got \union {part}
    <3>1. rem - 1 \in Int
      OBVIOUS
    <3>2. got \union {part} \in SUBSET Int
      OBVIOUS
    <3> QED BY <3>1, <3>2
  <2>2. o = [object[id] EXCEPT !.rem = r, !.got = g]
    BY <1>2, <1>3, <1>6, <2>1
  <2> QED BY <1>1, <1>3, <2>1, <2>2 DEF Objects
<1>8. o.got \subseteq o.left .. o.fixed - 1 /\ o.rem = o.fixed - Cardinality(o.got)
  BY <1>4, <1>5, <1>7
<1>9. ASSUME NEW v \in Sent(id)'
      PROVE  /\ v \in Sent(id) /\ v # w /\ wire'[v] = wire[v] /\ wire[v].kind \in {"count", "m"} /\ wire[v].parts = o.fixed
             /\ wire[v].part \in (o.left .. o.fixed - 1) \ o.got
  <2>1. v \in Sent(id) /\ v # w /\ wire'[v] = wire[v]
    BY <1>1, <1>9 DEF Sent, WiresShrink
  <2>2. wire[v].kind \in {"count", "m"} /\ wire[v].parts = fixed /\ wire[v].part \in (left .. fixed - 1) \ got
    BY <1>1, <1>2, <1>3, <2>1 DEF InParts
  <2>3. wire[v].part # part
    BY <1>1, <1>2, <2>1 DEF InParts
  <2> QED BY <1>7, <2>1, <2>2, <2>3
<1>10. \A u, v \in Sent(id)' : wire[u].part = wire[v].part => u = v
  BY <1>1 DEF InParts
<1>11. /\ o.fixed = object[id].fixed /\ o.left = object[id].left
       /\ o.fixed > 1 /\ o.left \in 0 .. o.fixed /\ (id \in candidates => o.left > 0)
  BY <1>1, <1>3, <1>4, <1>7
<1> QED BY <1>7, <1>8, <1>9, <1>10, <1>11 DEF Came

\* More parts are to come.
LEMMA MorePartsIInv ==
  ASSUME IInv, NEW w \in Worker, Receive(w, "m"), NEW id, id = wire[w].id, id \in checking,
         NEW o, o = Added(object[id], wire[w]),
         object' = [object EXCEPT ![id] = o],
         UNCHANGED <<candidates, checking, processed, expected, frequent, infrequent>>
  PROVE  IInv'
<1>1. /\ o \in Objects /\ o.fixed = object[id].fixed /\ o.left = object[id].left /\ o.col = object[id].col
      /\ o.postpone = object[id].postpone
      /\ o.fixed > 1 /\ o.left \in 0 .. o.fixed /\ (id \in candidates => o.left > 0)
      /\ o.got \subseteq o.left .. o.fixed - 1 /\ o.rem = o.fixed - Cardinality(o.got)
      /\ \A v \in Sent(id)' : /\ v \in Sent(id) /\ wire'[v] = wire[v] /\ wire[v].kind \in {"count", "m"} /\ wire[v].parts = o.fixed
                              /\ wire[v].part \in (o.left .. o.fixed - 1) \ o.got
      /\ \A u, v \in Sent(id)' : wire[u].part = wire[v].part => u = v
  <2>1. Came(id, o)
    BY PartComes
  <2> QED BY <2>1 DEF Came
<1>2. /\ UNCHANGED <<world, threshold>> /\ pc' = "dispatch" /\ threshold > 0 /\ WiresShrink /\ id \in Originals
  BY Received
<1>3. TypeOK /\ Originals' = Originals /\ object \in [Originals -> Objects] /\ \A i \in candidates' : ~Copy(i)
  BY DEF IInv, TypeOK, KindInv, Originals
<1>4. /\ object' \in [Originals' -> Objects] /\ object'[id] = o
      /\ \A i \in Originals \ {id} : object'[i] = object[i]
  BY <1>1, <1>2, <1>3
<1>5. TypeOK'
  BY <1>2, <1>3, <1>4, WorldFrame DEF TypeOK, WiresShrink, Messages
<1>6. /\ KindInv' /\ PostponeHasColumn'
      /\ \A i : \A v \in Sent(i)' : v \in Sent(i) /\ wire'[v] = wire[v]
  BY <1>2, <1>3, Wires
<1>7. ExpectedInv'
  BY <1>2, WorldFrame DEF IInv, ExpectedInv
<1>8. ColumnInv'
  <2>1. o.fixed > 1 /\ o.postpone => o.col # NoCol
    BY <1>1, <1>2 DEF IInv, ColumnInv
  <2>2. \A i \in Originals \ {id} : object'[i].fixed > 1 /\ object'[i].postpone => object'[i].col # NoCol
    BY <1>4 DEF IInv, ColumnInv
  <2> QED BY <1>3, <1>4, <2>1, <2>2 DEF ColumnInv
<1>9. OneObject'
  BY DEF IInv, OneObject, OfAll
<1>10. InParts(id)'
  <2>1. o.left \in 0 .. o.fixed /\ (id \in candidates' => o.left > 0)
    BY <1>1
  <2>2. o.got \subseteq o.left .. o.fixed - 1 /\ o.rem = o.fixed - Cardinality(o.got)
    BY <1>1
  <2>3. \A v \in Sent(id)' : /\ wire'[v].kind \in {"count", "m"} /\ wire'[v].parts = o.fixed
                             /\ wire'[v].part \in (o.left .. o.fixed - 1) \ o.got
    BY <1>1
  <2>4. \A u, v \in Sent(id)' : wire'[u].part = wire'[v].part => u = v
    <3>1. \A v \in Sent(id)' : wire'[v].part = wire[v].part
      BY <1>1
    <3>2. \A u, v \in Sent(id)' : wire[u].part = wire[v].part => u = v
      BY <1>1
    <3> QED BY <3>1, <3>2
  <2> QED BY <1>4, <2>1, <2>2, <2>3, <2>4 DEF InParts
<1>11. Round(id)'
  <2>1. ~(object'[id].fixed <= 1)
    <3>1. PICK n \in Int : n = o.fixed /\ n > 1
      BY <1>1 DEF Objects
    <3> QED BY <1>4, <3>1
  <2>2. id \in checking'
    OBVIOUS
  <2> QED BY <1>10, <2>1, <2>2 DEF Round
<1>12. ASSUME NEW i \in Originals, i # id PROVE Round(i)'
  <2>1. SameRound(i)
    BY <1>2, <1>4, <1>6, <1>12 DEF SameRound, SameObject
  <2> QED BY <2>1, RoundFrame DEF IInv
<1>13. \A i \in Originals' : Round(i)'
  BY <1>3, <1>11, <1>12
<1>14. Sound'
  BY <1>2 DEF IInv, Sound
<1> QED BY <1>5, <1>6, <1>7, <1>8, <1>9, <1>13, <1>14 DEF IInv

\* The last part has come: nothing else of the pattern is under way.
Completed(id, o) ==
  /\ o \in Objects /\ o.fixed > 1 /\ o.col = object[id].col
  /\ Sent(id)' = {} /\ id \notin candidates /\ o.got = 0 .. o.fixed - 1
LEMMA LastPart ==
  ASSUME IInv, NEW w \in Worker, Receive(w, "m"), NEW id, id = wire[w].id, id \in checking,
         NEW o, o = Added(object[id], wire[w]), o.rem = 0
  PROVE  Completed(id, o)
<1>1. /\ o \in Objects /\ o.col = object[id].col
      /\ o.fixed > 1 /\ o.left \in 0 .. o.fixed /\ (id \in candidates => o.left > 0)
      /\ o.got \subseteq o.left .. o.fixed - 1 /\ o.rem = o.fixed - Cardinality(o.got)
      /\ \A v \in Sent(id)' : wire[v].part \in (o.left .. o.fixed - 1) \ o.got
  <2>1. Came(id, o)
    BY PartComes
  <2> QED BY <2>1 DEF Came
<1>2. o.fixed \in Int /\ o.left \in Int
  BY <1>1 DEF Objects
<1>3. Cardinality(o.got) = o.fixed
  <2>1. IsFiniteSet(o.left .. o.fixed - 1)
    BY <1>2, FS_Interval
  <2>2. Cardinality(o.got) \in Nat
    BY <1>1, <2>1, FS_Subset, FS_CardinalityType
  <2>3. o.rem = o.fixed - Cardinality(o.got)
    BY <1>1
  <2> QED BY <1>2, <2>2, <2>3
<1>4. o.left = 0 /\ o.got = 0 .. o.fixed - 1
  <2>1. PICK fixed \in Int, left \in Int, got \in SUBSET Int : fixed = o.fixed /\ left = o.left /\ got = o.got
    BY <1>1 DEF Objects
  <2>2. left = 0 /\ got = 0 .. fixed - 1
    <3>1. got \in SUBSET (left .. fixed - 1) /\ fixed > 1 /\ left >= 0 /\ Cardinality(got) = fixed
      <4>1. o.got \subseteq o.left .. o.fixed - 1 /\ o.left \in 0 .. o.fixed /\ o.fixed > 1
        BY <1>1
      <4>2. got \subseteq left .. fixed - 1 /\ left \in 0 .. fixed /\ fixed > 1
        BY <2>1, <4>1
      <4>3. Cardinality(got) = fixed
        BY <1>3, <2>1
      <4> QED BY <4>2, <4>3
    <3>2. IsFiniteSet(left .. fixed - 1) /\ Cardinality(left .. fixed - 1) = IF left > fixed - 1 THEN 0 ELSE fixed - 1 - left + 1
      BY FS_Interval
    <3>3. Cardinality(got) <= Cardinality(left .. fixed - 1) /\ (Cardinality(left .. fixed - 1) = Cardinality(got) => left .. fixed - 1 = got)
      BY <3>1, <3>2, FS_Subset
    <3>4. left = 0
      BY <3>1, <3>2, <3>3
    <3> QED BY <3>1, <3>2, <3>3, <3>4
  <2> QED BY <2>1, <2>2
<1>5. Sent(id)' = {}
  <2>1. \A v \in Sent(id)' : wire[v].part \in (o.left .. o.fixed - 1) \ o.got
    BY <1>1
  <2>2. (o.left .. o.fixed - 1) \ o.got = {}
    BY <1>4
  <2> QED BY <2>1, <2>2
<1>6. id \notin candidates
  <2>1. id \in candidates => o.left > 0
    BY <1>1
  <2> QED BY <1>4, <2>1
<1>7. o \in Objects /\ o.fixed > 1 /\ o.col = object[id].col
  BY <1>1
<1> QED BY <1>4, <1>5, <1>6, <1>7 DEF Completed

LEMMA NotPostponed ==
  ASSUME NEW o \in Objects
  PROVE  LET s == [o EXCEPT !.postpone = FALSE] IN
         s \in Objects /\ s.fixed = o.fixed /\ s.left = o.left /\ s.rem = o.rem /\ s.got = o.got /\ ~s.postpone
BY DEF Objects

LEMMA AnswerPartIInv ==
  ASSUME IInv, NEW w \in Worker, AnswerPart(w)
  PROVE  IInv'
<1>0. PICK id, o : id = wire[w].id /\ o = Added(object[id], wire[w])
  OBVIOUS
<1>1. /\ Receive(w, "m") /\ id \in checking
      /\ \/ /\ o.rem # 0
            /\ object' = [object EXCEPT ![id] = o]
            /\ UNCHANGED <<candidates, checking, processed, expected, frequent, infrequent>>
         \/ /\ o.rem = 0 /\ "enough" \in Outcomes(o, Of(id))
            /\ checking' = checking \ {id}
            /\ \/ /\ o.col = NoCol
                  /\ UNCHANGED <<processed, expected>>
                  /\ PatternFoundFrequent(Of(id), {})
               \/ /\ o.col # NoCol
                  /\ ColumnWasValid(id, SetSubtasking(o, EnoughWorkers(Quotient(expected[Of(id)].time, threshold))))
         \/ /\ o.rem = 0 /\ "few" \in Outcomes(o, Of(id))
            /\ PatternFoundInFrequent(Of(id), {}, checking \ {id})
            /\ UNCHANGED <<processed, expected>>
         \/ /\ o.rem = 0 /\ "again" \in Outcomes(o, Of(id))
            /\ UNCHANGED <<checking, expected>>
            /\ AddAgain(id, [SetSubtasking(o, EnoughWorkers(o.fixed)) EXCEPT !.postpone = FALSE])
  BY <1>0 DEF AnswerPart
<1>5. Receive(w, "m") /\ id \in checking
  BY <1>1
<1>2. /\ UNCHANGED <<world, threshold>> /\ pc' = "dispatch" /\ threshold > 0
      /\ WiresShrink /\ id \in Originals /\ Of(id) \in Patterns /\ expected[Of(id)].time \in Nat
  BY <1>0, <1>5, Received
<1>3. CASE o.rem # 0
  BY <1>0, <1>1, <1>3, MorePartsIInv
<1>4. CASE o.rem = 0
  <2>1. /\ o \in Objects /\ o.fixed > 1 /\ o.col = object[id].col
        /\ Sent(id)' = {} /\ id \notin candidates /\ o.got = 0 .. o.fixed - 1
    <3>1. id = wire[w].id /\ o = Added(object[id], wire[w]) /\ o.rem = 0
      BY <1>0, <1>4
    <3>2. Completed(id, o)
      BY <1>5, <3>1, LastPart
    <3> QED BY <3>2 DEF Completed
  <2>2. Cardinality(Free) \in Nat
    BY WorkersFinite, FS_Subset, FS_CardinalityType DEF Free
  <2>3. ASSUME NEW n \in Int PROVE EnoughWorkers(n) \in Int /\ EnoughWorkers(n) >= n
    <3>1. PICK m \in Int : m = Cardinality(Free)
      BY <2>2
    <3>2. Max({n, m}) \in {n, m} /\ Max({n, m}) >= n
      BY MinOfTwo
    <3> QED BY <3>1, <3>2 DEF EnoughWorkers
  <2>4. /\ "enough" \in Outcomes(o, Of(id)) => Of(id) \in world.truth \/ o.col # NoCol
        /\ "few" \in Outcomes(o, Of(id)) => Of(id) \notin world.truth
    BY <2>1 DEF Outcomes
  <2>5. CASE "enough" \in Outcomes(o, Of(id)) /\ checking' = checking \ {id} /\ o.col = NoCol
               /\ PatternFoundFrequent(Of(id), {}) /\ UNCHANGED <<processed, expected>>
    <3>1. PICK p \in Patterns : p = Of(id)
      BY <1>2
    <3> QED BY <1>2, <2>1, <2>4, <2>5, <3>1, FoundFrequent
  <2>6. CASE checking' = checking \ {id} /\ o.col # NoCol
               /\ ColumnWasValid(id, SetSubtasking(o, EnoughWorkers(Quotient(expected[Of(id)].time, threshold))))
    <3>1. PICK n \in Int : n = EnoughWorkers(Quotient(expected[Of(id)].time, threshold))
      BY <1>2, <2>3, QuotientType DEF IInv, TypeOK
    <3>2. PICK s \in Objects : /\ s = SetSubtasking(o, n) /\ s.left = s.fixed /\ s.rem = s.fixed /\ s.got = {}
      BY <2>1, SubtaskingIs
    <3>3. PICK c \in Objects : /\ c = SetInvalidCol(s, NoCol) /\ c.left = c.fixed /\ c.rem = c.fixed /\ c.got = {}
                               /\ ~c.postpone
      BY <3>2, ColumnIs DEF NoCol
    <3>4. AddAgain(id, c) /\ expected' = [expected EXCEPT ![Of(id)].col = NoCol]
      BY <2>6, <3>1, <3>2, <3>3 DEF ColumnWasValid
    <3>5. expected' \in [Patterns -> Entries] /\ ExpectedInv'
      BY <1>2, <3>4, ForgetColumn
    <3> QED BY <1>1, <1>2, <2>1, <2>6, <3>3, <3>4, <3>5, Again
  <2>7. CASE "few" \in Outcomes(o, Of(id)) /\ PatternFoundInFrequent(Of(id), {}, checking \ {id}) /\ UNCHANGED <<processed, expected>>
    <3>1. PICK p, rest : p = Of(id) /\ rest = checking \ {id}
      OBVIOUS
    <3>2. PatternFoundInFrequent(p, {}, rest) /\ rest \subseteq checking /\ \A i \in checking \ rest : i \notin candidates
      BY <2>1, <2>7, <3>1
    <3> QED BY <1>2, <2>4, <2>7, <3>1, <3>2, FoundInfrequent
  <2>8. CASE UNCHANGED <<checking, expected>> /\ AddAgain(id, [SetSubtasking(o, EnoughWorkers(o.fixed)) EXCEPT !.postpone = FALSE])
    <3>1. PICK n \in Int : n = EnoughWorkers(o.fixed) /\ n > 1
      BY <2>1, <2>3 DEF Objects
    <3>2. PICK s \in Objects : /\ s = SetSubtasking(o, n) /\ s.fixed = Capped(n) /\ s.left = s.fixed /\ s.rem = s.fixed /\ s.got = {}
      BY <2>1, SubtaskingIs
    <3>3. PICK c \in Objects : /\ c = [s EXCEPT !.postpone = FALSE] /\ c.fixed = Capped(n) /\ c.left = c.fixed
                               /\ c.rem = c.fixed /\ c.got = {} /\ ~c.postpone
      <4>1. PICK c : c = [s EXCEPT !.postpone = FALSE]
        OBVIOUS
      <4>2. c \in Objects /\ c.fixed = s.fixed /\ c.left = s.left /\ c.rem = s.rem /\ c.got = s.got /\ ~c.postpone
        BY <4>1, NotPostponed
      <4> QED BY <3>2, <4>1, <4>2
    <3>4. AddAgain(id, c) /\ c.fixed > 1
      BY <2>8, <3>1, <3>2, <3>3, CappedType
    <3>5. expected' \in [Patterns -> Entries] /\ ExpectedInv'
      BY <1>2, <2>8, WorldFrame DEF IInv, TypeOK, ExpectedInv
    <3> QED BY <1>1, <1>2, <2>1, <2>8, <3>3, <3>4, <3>5, Again
  <2> QED BY <1>1, <1>4, <2>5, <2>6, <2>7, <2>8
<1> QED BY <1>3, <1>4
-----------------------------------------------------------------------------
(* Predictions.                                                             *)

\* A step that changes only what is known of predictions.
LEMMA StillIInv ==
  ASSUME IInv, UNCHANGED <<world, threshold, candidates, processed, frequent, infrequent>>, Originals' = Originals,
         checking' \subseteq Ids, IsFiniteSet(checking'), object' \in [Originals -> Objects],
         \A i \in Originals : SameObject(i) /\ object'[i].postpone = object[i].postpone,
         \A i \in Originals : i \in checking' <=> i \in checking,
         \A i \in Originals : \A v \in Sent(i)' : v \in Sent(i) /\ wire'[v] = wire[v],
         wire' \in [Worker -> Messages], KindInv', PostponeHasColumn',
         expected' \in [Patterns -> Entries], ExpectedInv', pc' \in {"dispatch", pc}, threshold > 0
  PROVE  IInv'
<1>1. TypeOK'
  BY WorldFrame DEF IInv, TypeOK, Messages
<1>2. ColumnInv'
  BY DEF IInv, ColumnInv, SameObject
<1>3. OneObject'
  BY DEF IInv, OneObject, OfAll, Originals
<1>4. \A i \in Originals' : Round(i)'
  <2> SUFFICES ASSUME NEW i \in Originals PROVE Round(i)'
    OBVIOUS
  <2>1. SameRound(i)
    BY DEF SameRound
  <2> QED BY <2>1, RoundFrame DEF IInv
<1>5. Sound'
  BY DEF IInv, Sound
<1> QED BY <1>1, <1>2, <1>3, <1>4, <1>5 DEF IInv

LEMMA PredictingIs ==
  ASSUME NEW o \in Objects, NEW b \in BOOLEAN
  PROVE  LET s == [o EXCEPT !.predicting = b] IN
         /\ s \in Objects /\ s.fixed = o.fixed /\ s.left = o.left /\ s.rem = o.rem /\ s.col = o.col /\ s.got = o.got
         /\ s.postpone = o.postpone
BY DEF Objects

LEMMA EntryIs ==
  ASSUME NEW e \in [freq : BOOLEAN, time : Nat, col : Int, exact : BOOLEAN], NEW n \in Int
  PROVE  LET f == Entry(e, n) IN
         f \in Entries /\ f.parts = n /\ f.exact = e.exact /\ f.freq = e.freq /\ f.col = e.col /\ f.time = e.time
BY DEF Entry, Entries

\* A prediction that is kept.
LEMMA Kept ==
  ASSUME IInv, NEW p \in Patterns, world' = world, threshold > 0,
         expected' = IF expected[p] = None THEN [expected EXCEPT ![p] = Entry(world.pred[p], PartsPredicted(world.pred[p]))]
                                           ELSE expected
  PROVE  expected' \in [Patterns -> Entries] /\ ExpectedInv'
<1>1. expected \in [Patterns -> Entries] /\ threshold \in Nat /\ world \in Worlds
  BY DEF IInv, TypeOK
<1>2. PICK e : e = world.pred[p]
  OBVIOUS
<1>3. e \in [freq : BOOLEAN, time : Nat, col : Int, exact : BOOLEAN] /\ (e.exact => (e.freq <=> p \in world.truth))
  BY <1>1, <1>2, WorldAssumption DEF Patterns
<1>4. PICK n \in Int : n = PartsPredicted(e) /\ n > 0
  <2>1. NumWorkers \in Int /\ NumWorkers > 1
    BY DivisionAssumption
  <2>2. PICK most \in Int : most > 0 /\ most = IF e.col = NoCol THEN NumWorkers - 1 ELSE 2 * (NumWorkers - 1)
    BY <2>1
  <2>3. Divided(e.time, threshold, most) \in Int /\ Divided(e.time, threshold, most) > 0
    BY <1>1, <1>3, <2>2, DividedPositive
  <2> QED BY <2>2, <2>3 DEF PartsPredicted
<1>5. PICK f \in Entries : f = Entry(e, n) /\ f.parts = n /\ f.exact = e.exact /\ f.freq = e.freq
  <2>1. PICK f : f = Entry(e, n)
    OBVIOUS
  <2>2. f \in Entries /\ f.parts = n /\ f.exact = e.exact /\ f.freq = e.freq
    BY <1>3, <2>1, EntryIs
  <2> QED BY <2>1, <2>2
<1>6. expected' = IF expected[p] = None THEN [expected EXCEPT ![p] = f] ELSE expected
  BY <1>2, <1>4, <1>5
<1>7. expected' \in [Patterns -> Entries] /\ \A q \in Patterns : expected'[q] \in {expected[q]} \/ (q = p /\ expected'[q] = f)
  BY <1>1, <1>6
<1>8. \A q \in Patterns : expected'[q].exact => (expected'[q].freq <=> q \in world.truth)
  BY <1>3, <1>5, <1>7 DEF IInv, ExpectedInv
<1>9. \A q \in Patterns : expected'[q] # None => expected'[q].parts > 0
  BY <1>4, <1>5, <1>7 DEF IInv, ExpectedInv
<1> QED BY <1>7, <1>8, <1>9, WorldFrame DEF ExpectedInv

LEMMA AnswerPredictedIInv ==
  ASSUME IInv, NEW w \in Worker, AnswerPredicted(w)
  PROVE  IInv'
<1>0. PICK id : id = wire[w].id
  OBVIOUS
<1>1. /\ wire[w].kind = "a" /\ wire' = [wire EXCEPT ![w] = Idle] /\ pc = "receive" /\ pc' = "dispatch"
      /\ UNCHANGED <<world, threshold, candidates, processed, frequent, infrequent>>
      /\ checking' = checking \ {id}
      /\ expected' = IF expected[Of(id)] = None
                       THEN [expected EXCEPT ![Of(id)] = Entry(world.pred[Of(id)], PartsPredicted(world.pred[Of(id)]))]
                       ELSE expected
      /\ (\E t \in candidates : object' = Keep([object EXCEPT ![t].predicting = FALSE])) \/ object' = Keep(object)
  BY <1>0 DEF AnswerPredicted, Receive, known
<1>2. /\ TypeOK /\ object \in [Originals -> Objects] /\ threshold > 0 /\ \A i \in candidates : ~Copy(i)
  BY <1>1 DEF IInv, TypeOK, KindInv
<1>3. w \in Busy /\ id \in Ids
  BY <1>0, <1>1, <1>2, KindOf
<1>4. Copy(id)
  BY <1>0, <1>1, <1>3 DEF IInv, KindInv
<1>5. Of(id) \in Patterns
  BY <1>3 DEF Ids, Of
<1>6. Originals' = Originals /\ \A i \in Originals : i \in checking' <=> i \in checking
  BY <1>1, <1>4 DEF Originals
<1>7. expected' \in [Patterns -> Entries] /\ ExpectedInv'
  <2>1. PICK p \in Patterns : p = Of(id)
    BY <1>5
  <2> QED BY <1>1, <1>2, <2>1, Kept
<1>8. object' \in [Originals -> Objects] /\ \A i \in Originals : SameObject(i) /\ object'[i].postpone = object[i].postpone
  <2>1. ASSUME NEW o, o \in [Originals -> Objects], object' = Keep(o)
        PROVE  object' \in [Originals -> Objects] /\ \A i \in Originals : object'[i] = o[i]
    <3>1. \A i \in DOMAIN o : ~Copy(i)
      BY <2>1 DEF Originals
    <3> QED BY <1>6, <2>1, <3>1, KeepIs
  <2>2. CASE object' = Keep(object)
    BY <1>2, <2>1, <2>2 DEF SameObject
  <2>3. ASSUME NEW t \in candidates, object' = Keep([object EXCEPT ![t].predicting = FALSE])
        PROVE  object' \in [Originals -> Objects] /\ \A i \in Originals : SameObject(i) /\ object'[i].postpone = object[i].postpone
    <3>1. PICK o : o = [object EXCEPT ![t].predicting = FALSE]
      OBVIOUS
    <3>2. t \in Originals
      BY <1>2 DEF Originals
    <3>3. PICK c \in Objects : /\ c = [object[t] EXCEPT !.predicting = FALSE] /\ c.fixed = object[t].fixed
                               /\ c.left = object[t].left /\ c.rem = object[t].rem /\ c.col = object[t].col
                               /\ c.got = object[t].got /\ c.postpone = object[t].postpone
      <4>1. object[t] \in Objects
        BY <1>2, <3>2
      <4>2. PICK c : c = [object[t] EXCEPT !.predicting = FALSE]
        OBVIOUS
      <4> QED BY <4>1, <4>2, PredictingIs
    <3>4. /\ o \in [Originals -> Objects] /\ o[t] = c /\ \A i \in Originals \ {t} : o[i] = object[i]
      BY <1>2, <3>1, <3>2, <3>3
    <3>5. object' \in [Originals -> Objects] /\ \A i \in Originals : object'[i] = o[i]
      BY <2>1, <2>3, <3>1, <3>4
    <3> QED BY <3>3, <3>4, <3>5 DEF SameObject
  <2> QED BY <1>1, <2>2, <2>3
<1>9. WiresShrink
  BY <1>1, <1>2, Taken
<1>10. /\ KindInv' /\ PostponeHasColumn'
       /\ \A i : \A v \in Sent(i)' : v \in Sent(i) /\ wire'[v] = wire[v]
  BY <1>1, <1>2, <1>9, Wires
<1>11. checking' \subseteq Ids /\ IsFiniteSet(checking')
  BY <1>1, <1>2, FS_Subset DEF TypeOK
<1> QED BY <1>1, <1>2, <1>6, <1>7, <1>8, <1>9, <1>10, <1>11, StillIInv DEF WiresShrink
-----------------------------------------------------------------------------
(* What is handed out.                                                      *)

\* A message goes to a thread that is free.
Goes(m, d) ==
  /\ wire' \in [Worker -> Messages] /\ KindInv' /\ PostponeHasColumn'
  /\ d \in Worker \ Busy /\ wire'[d] = m /\ \A v \in Worker \ {d} : wire'[v] = wire[v]
  /\ \A i : Sent(i)' = IF i = m.id THEN Sent(i) \union {d} ELSE Sent(i)
LEMMA Posted ==
  ASSUME IInv, NEW m \in Short \union Task, Free # {}, wire' = [wire EXCEPT ![Destination] = m], NEW d, d = Destination,
         \A i \in candidates' : ~Copy(i), Copy(m.id) <=> m.kind \in {"predict", "a"},
         m.kind = "count" /\ m.postpone => m.col # NoCol
  PROVE  Goes(m, d)
<1>1. d \in Worker \ Busy
  BY DestinationFree DEF Free
<1>2. wire \in [Worker -> Messages] /\ m \in Messages /\ m # Idle
  BY DEF IInv, TypeOK, Messages, Idle, Short, Task
<1>3. wire' \in [Worker -> Messages] /\ wire'[d] = m /\ \A v \in Worker \ {d} : wire'[v] = wire[v]
  BY <1>1, <1>2
<1>4. Busy' = Busy \union {d}
  BY <1>2, <1>3 DEF Busy
<1>5. \A i : Sent(i)' = IF i = m.id THEN Sent(i) \union {d} ELSE Sent(i)
  BY <1>1, <1>3, <1>4 DEF Sent, Busy
<1>6. KindInv'
  <2>1. \A v \in Busy' : Copy(wire'[v].id) <=> wire'[v].kind \in {"predict", "a"}
    BY <1>3, <1>4 DEF IInv, KindInv, Busy
  <2> QED BY <2>1 DEF KindInv
<1>7. PostponeHasColumn'
  <2>1. wire'[d].kind = "count" /\ wire'[d].postpone => wire'[d].col # NoCol
    BY <1>3
  <2>2. \A v \in Worker \ {d} : wire'[v].kind = "count" /\ wire'[v].postpone => wire'[v].col # NoCol
    BY <1>3 DEF IInv, PostponeHasColumn
  <2> QED BY <2>1, <2>2 DEF PostponeHasColumn
<1> QED BY <1>1, <1>3, <1>5, <1>6, <1>7 DEF Goes

\* No candidate is processed, and what is chosen is a candidate.
LEMMA Chosen ==
  ASSUME IInv, NEW id, Select(id)
  PROVE  /\ Remaining = candidates /\ id \in candidates /\ id \in Originals /\ id \in Ids /\ Of(id) \in Patterns /\ ~Copy(id)
         /\ UNCHANGED <<world, threshold, pc>> /\ pc = "dispatch" /\ threshold > 0 /\ Free # {}
         /\ object \in [Originals -> Objects] /\ expected \in [Patterns -> Entries]
<1>1. /\ UNCHANGED <<world, threshold, pc>> /\ pc = "dispatch" /\ Free # {} /\ id \in candidates
  BY DEF Select, known, Choice, Selectable
<1>2. TypeOK /\ \A i \in candidates : ~Copy(i) /\ Of(i) \notin processed
  BY DEF IInv, KindInv, OneObject, OfAll
<1>3. id \in Ids
  BY <1>1, <1>2 DEF TypeOK
<1>4. Of(id) \in Patterns
  BY <1>3 DEF Ids, Of
<1>5. Remaining = candidates
  BY <1>2 DEF Remaining
<1> QED BY <1>1, <1>2, <1>3, <1>4, <1>5 DEF Originals, TypeOK

LEMMA SendForPredictionIInv ==
  ASSUME IInv, NEW id, SendForPrediction(id)
  PROVE  IInv'
<1>1. /\ Remaining = candidates /\ id \in candidates /\ id \in Originals /\ Of(id) \in Patterns
      /\ UNCHANGED <<world, threshold, pc>> /\ pc = "dispatch" /\ threshold > 0 /\ Free # {}
      /\ object \in [Originals -> Objects] /\ expected \in [Patterns -> Entries] /\ TypeOK
  BY Chosen DEF SendForPrediction, IInv
<1>2. PICK copy : copy = CopyId(Of(id))
  OBVIOUS
<1>3. copy \in Ids /\ Copy(copy)
  BY <1>1, <1>2, Fresh
<1>4. PICK m : m = [kind |-> "predict", id |-> copy]
  OBVIOUS
<1>5. m \in Short /\ m.kind = "predict" /\ m.id = copy
  BY <1>3, <1>4 DEF Short
<1>6. /\ object' = [object EXCEPT ![id].predicting = TRUE] /\ candidates' = candidates /\ checking' = checking \union {copy}
      /\ wire' = [wire EXCEPT ![Destination] = m]
      /\ UNCHANGED <<expected, processed, frequent, infrequent>>
  BY <1>1, <1>2, <1>4 DEF SendForPrediction
<1>7. Originals' = Originals /\ (\A i \in Originals : i \in checking' <=> i \in checking) /\ copy \notin Originals
  BY <1>3, <1>6 DEF Originals
<1>8. \A i \in candidates' : ~Copy(i)
  BY <1>6 DEF IInv, KindInv
<1>9. PICK d : d = Destination
  OBVIOUS
<1>10. /\ wire' \in [Worker -> Messages] /\ KindInv' /\ PostponeHasColumn'
       /\ d \in Worker \ Busy /\ wire'[d] = m /\ \A v \in Worker \ {d} : wire'[v] = wire[v]
       /\ \A i : Sent(i)' = IF i = m.id THEN Sent(i) \union {d} ELSE Sent(i)
  <2>1. m \in Short \union Task /\ (Copy(m.id) <=> m.kind \in {"predict", "a"}) /\ m.kind # "count"
    BY <1>3, <1>5
  <2>2. Goes(m, d)
    BY <1>1, <1>6, <1>8, <1>9, <2>1, Posted
  <2> QED BY <2>2 DEF Goes
<1>11. \A i \in Originals : \A v \in Sent(i)' : v \in Sent(i) /\ wire'[v] = wire[v]
  <2>1. \A i \in Originals : Sent(i)' = Sent(i)
    BY <1>5, <1>7, <1>10
  <2> QED BY <1>10, <2>1 DEF Sent, Busy
<1>12. object' \in [Originals -> Objects] /\ \A i \in Originals : SameObject(i) /\ object'[i].postpone = object[i].postpone
  <2>1. PICK c \in Objects : /\ c = [object[id] EXCEPT !.predicting = TRUE] /\ c.fixed = object[id].fixed
                             /\ c.left = object[id].left /\ c.rem = object[id].rem /\ c.col = object[id].col
                             /\ c.got = object[id].got /\ c.postpone = object[id].postpone
    <3>1. object[id] \in Objects
      BY <1>1
    <3>2. PICK c : c = [object[id] EXCEPT !.predicting = TRUE]
      OBVIOUS
    <3> QED BY <3>1, <3>2, PredictingIs
  <2>2. /\ object' \in [Originals -> Objects] /\ object'[id] = c /\ \A i \in Originals \ {id} : object'[i] = object[i]
    BY <1>1, <1>6, <2>1
  <2> QED BY <2>1, <2>2 DEF SameObject
<1>13. checking' \subseteq Ids /\ IsFiniteSet(checking')
  BY <1>1, <1>3, <1>6, FS_AddElement DEF TypeOK
<1>14. ExpectedInv'
  BY <1>1, <1>6, WorldFrame DEF IInv, ExpectedInv
<1> QED BY <1>1, <1>6, <1>7, <1>10, <1>11, <1>12, <1>13, <1>14, StillIInv

LEMMA DecideByPredictionIInv ==
  ASSUME IInv, NEW id, DecideByPrediction(id)
  PROVE  IInv'
<1>1. /\ Of(id) \in Patterns /\ UNCHANGED <<world, threshold, pc>> /\ threshold > 0
  BY Chosen DEF DecideByPrediction
<1>2. /\ expected[Of(id)].exact /\ UNCHANGED <<expected, wire, processed>>
      /\ \/ expected[Of(id)].freq /\ checking' = checking /\ PatternFoundFrequent(Of(id), {id})
         \/ ~expected[Of(id)].freq /\ PatternFoundInFrequent(Of(id), {id}, checking)
  BY DEF DecideByPrediction
<1>3. PICK p \in Patterns : p = Of(id)
  BY <1>1
<1>4. PICK gone : gone = {id}
  OBVIOUS
<1>5. expected[p].freq <=> p \in world.truth
  BY <1>2, <1>3 DEF IInv, ExpectedInv
<1>6. WiresShrink
  BY <1>2 DEF IInv, TypeOK, WiresShrink, Messages, Busy
<1>7. CASE p \in world.truth
  <2>1. PatternFoundFrequent(p, gone) /\ checking' = checking
    BY <1>2, <1>3, <1>4, <1>5, <1>7
  <2> QED BY <1>1, <1>2, <1>6, <1>7, <2>1, FoundFrequent
<1>8. CASE p \notin world.truth
  <2>1. PICK rest : rest = checking
    OBVIOUS
  <2>2. PatternFoundInFrequent(p, gone, rest)
    BY <1>2, <1>3, <1>4, <1>5, <1>8, <2>1
  <2> QED BY <1>1, <1>2, <1>6, <1>8, <2>1, <2>2, FoundInfrequent
<1> QED BY <1>7, <1>8

\* What a candidate is like when it, or its next part, is sent.
LEMMA ReadyToSend ==
  ASSUME IInv, NEW id, Select(id), expected[Of(id)] # None,
         NEW o, o = BorrowTimeInfor(object[id], expected[Of(id)])
  PROVE  /\ o \in Objects /\ o.fixed \in Nat /\ o.left \in 1 .. o.fixed
         /\ o.postpone => o.col # NoCol
         /\ o.fixed <= 1 => Sent(id) = {}
         /\ o.fixed > 1 =>
              /\ o.got \subseteq o.left .. o.fixed - 1 /\ o.rem = o.fixed - Cardinality(o.got)
              /\ \A v \in Sent(id) : /\ wire[v].kind \in {"count", "m"} /\ wire[v].parts = o.fixed
                                     /\ wire[v].part \in (o.left .. o.fixed - 1) \ o.got
              /\ \A u, v \in Sent(id) : wire[u].part = wire[v].part => u = v
<1>1. /\ id \in candidates /\ id \in Originals /\ Of(id) \in Patterns /\ threshold > 0 /\ TypeOK
      /\ object[id] \in Objects /\ expected[Of(id)] \in Entries
  BY Chosen DEF IInv
<1>2. Round(id)
  BY <1>1 DEF IInv
<1>3. expected[Of(id)].parts > 0 /\ expected[Of(id)].parts \in Int /\ expected[Of(id)].col \in Int
  BY <1>1 DEF IInv, ExpectedInv, Entries
<1>4. Cardinality({}) = 0
  BY FS_EmptySet
<1>5. CASE object[id].fixed > 1
  <2>1. o = object[id]
    BY <1>5 DEF BorrowTimeInfor
  <2>2. o.postpone => o.col # NoCol
    BY <1>1, <1>5, <2>1 DEF IInv, ColumnInv
  <2>3. PICK fixed \in Int, left \in Int, rem \in Int, got \in SUBSET Int :
          fixed = o.fixed /\ left = o.left /\ rem = o.rem /\ got = o.got /\ fixed > 1
    BY <1>1, <1>5, <2>1 DEF Objects
  <2>4. CASE id \in checking
    <3>1. InParts(id)
      BY <1>2, <1>5, <2>1, <2>3, <2>4 DEF Round
    <3>2. left \in 1 .. fixed /\ fixed \in Nat
      BY <1>1, <2>1, <2>3, <3>1 DEF InParts
    <3>3. /\ o.got \subseteq o.left .. o.fixed - 1 /\ o.rem = o.fixed - Cardinality(o.got)
          /\ \A v \in Sent(id) : /\ wire[v].kind \in {"count", "m"} /\ wire[v].parts = o.fixed
                                 /\ wire[v].part \in (o.left .. o.fixed - 1) \ o.got
          /\ \A u, v \in Sent(id) : wire[u].part = wire[v].part => u = v
      BY <2>1, <3>1 DEF InParts
    <3> QED BY <1>1, <2>1, <2>2, <2>3, <3>2, <3>3
  <2>5. CASE id \notin checking
    <3>1. Sent(id) = {} /\ left = fixed /\ rem = fixed /\ got = {}
      BY <1>2, <1>5, <2>1, <2>3, <2>5 DEF Round, Resting
    <3>2. left \in 1 .. fixed /\ fixed \in Nat /\ got \subseteq left .. fixed - 1 /\ rem = fixed - Cardinality(got)
      BY <1>4, <2>3, <3>1
    <3> QED BY <1>1, <2>1, <2>2, <2>3, <3>1, <3>2
  <2> QED BY <2>4, <2>5
<1>6. CASE ~(object[id].fixed > 1)
  <2>1. PICK n \in Int, c \in Int : n = expected[Of(id)].parts /\ c = expected[Of(id)].col /\ n > 0
    BY <1>3
  <2>2. PICK s : s = SetSubtasking(object[id], n)
    OBVIOUS
  <2>3. s \in Objects /\ s.fixed = Capped(n) /\ s.left = s.fixed /\ s.rem = s.fixed /\ s.got = {}
    BY <1>1, <2>2, SubtaskingIs
  <2>4. o = SetInvalidCol(s, c)
    BY <1>6, <2>1, <2>2 DEF BorrowTimeInfor
  <2>5. o \in Objects /\ o.fixed = s.fixed /\ o.left = s.left /\ o.rem = s.rem /\ o.got = s.got /\ (o.postpone => o.col # NoCol)
    BY <2>3, <2>4, ColumnIs
  <2>6. id \notin checking
    <3> SUFFICES ASSUME id \in checking PROVE FALSE
      OBVIOUS
    <3>1. object[id].fixed <= 1
      BY <1>1, <1>6 DEF Objects
    <3> QED BY <1>1, <1>2, <3>1 DEF Round, Single
  <2>7. Sent(id) = {}
    BY <1>2, <2>6 DEF Round, Resting
  <2>8. PICK f \in Nat : f = Capped(n) /\ f > 0
    BY <2>1, CappedType
  <2>9. /\ o.fixed = f /\ o.left = f /\ o.rem = f /\ o.got = {}
    BY <2>3, <2>5, <2>8
  <2>10. f \in 1 .. f /\ {} \subseteq f .. f - 1 /\ f = f - Cardinality({})
    BY <1>4, <2>8
  <2> QED BY <2>5, <2>7, <2>8, <2>9, <2>10
<1> QED BY <1>5, <1>6

LEMMA LeftIs ==
  ASSUME NEW o \in Objects, NEW n \in Int
  PROVE  LET s == [o EXCEPT !.left = n] IN
         /\ s \in Objects /\ s.fixed = o.fixed /\ s.left = n /\ s.rem = o.rem /\ s.col = o.col /\ s.got = o.got
         /\ s.postpone = o.postpone
BY DEF Objects

LEMMA SendIInv ==
  ASSUME IInv, NEW id, Send(id)
  PROVE  IInv'
<1>1. /\ Select(id) /\ Remaining = candidates /\ id \in candidates /\ id \in Originals /\ id \in Ids /\ Of(id) \in Patterns
      /\ UNCHANGED <<world, threshold, pc>> /\ pc = "dispatch" /\ threshold > 0 /\ Free # {} /\ ~Copy(id)
      /\ object \in [Originals -> Objects] /\ expected \in [Patterns -> Entries] /\ TypeOK
  BY Chosen DEF Send, IInv
<1>2. PICK o : o = BorrowTimeInfor(object[id], expected[Of(id)])
  OBVIOUS
<1>3. /\ expected[Of(id)] # None
      /\ wire' = [wire EXCEPT ![Destination] =
           [kind |-> "count", id |-> id, part |-> IF o.fixed <= 1 THEN Whole ELSE o.left - 1,
            parts |-> IF o.fixed <= 1 THEN Whole ELSE o.fixed, col |-> o.col, postpone |-> o.postpone]]
      /\ candidates' = IF o.left - 1 = 0 THEN candidates \ {id} ELSE candidates
      /\ processed' = IF o.left - 1 = 0 THEN processed \union {Of(id)} ELSE processed
      /\ checking' = checking \union {id}
      /\ object' = Keep([object EXCEPT ![id] = [o EXCEPT !.left = o.left - 1]])
      /\ UNCHANGED <<expected, frequent, infrequent>>
  BY <1>1, <1>2 DEF Send
<1>4. /\ o \in Objects /\ o.fixed \in Nat /\ o.left \in 1 .. o.fixed
      /\ o.postpone => o.col # NoCol
      /\ o.fixed <= 1 => Sent(id) = {}
      /\ o.fixed > 1 =>
           /\ o.got \subseteq o.left .. o.fixed - 1 /\ o.rem = o.fixed - Cardinality(o.got)
           /\ \A v \in Sent(id) : /\ wire[v].kind \in {"count", "m"} /\ wire[v].parts = o.fixed
                                  /\ wire[v].part \in (o.left .. o.fixed - 1) \ o.got
           /\ \A u, v \in Sent(id) : wire[u].part = wire[v].part => u = v
  BY <1>1, <1>2, <1>3, ReadyToSend
<1>5. PICK fixed \in Nat, left \in Int, part \in Int, parts \in Int, col \in Int, postpone \in BOOLEAN :
        /\ fixed = o.fixed /\ left = o.left - 1 /\ left \in 0 .. fixed - 1
        /\ part = IF fixed <= 1 THEN Whole ELSE left
        /\ parts = IF fixed <= 1 THEN Whole ELSE fixed
        /\ col = o.col /\ postpone = o.postpone /\ (postpone => col # NoCol)
  <2>1. o.left - 1 \in Int /\ o.left - 1 \in 0 .. o.fixed - 1 /\ Whole \in Int /\ o.col \in Int /\ o.postpone \in BOOLEAN
    BY <1>4 DEF Whole, Objects
  <2> QED BY <1>4, <2>1
<1>6. PICK c : c = [o EXCEPT !.left = left]
  OBVIOUS
<1>7. /\ c \in Objects /\ c.fixed = fixed /\ c.left = left /\ c.col = col /\ c.got = o.got /\ c.rem = o.rem
      /\ c.postpone = postpone
  BY <1>4, <1>5, <1>6, LeftIs
<1>8. PICK m : m = [kind |-> "count", id |-> id, part |-> part, parts |-> parts, col |-> col, postpone |-> postpone]
  OBVIOUS
<1>9. m \in Task /\ m.kind = "count" /\ m.id = id /\ m.part = part /\ m.parts = parts /\ m.col = col /\ m.postpone = postpone
  BY <1>1, <1>5, <1>8 DEF Task
<1>10. /\ wire' = [wire EXCEPT ![Destination] = m]
       /\ candidates' = IF left = 0 THEN candidates \ {id} ELSE candidates
       /\ processed' = IF left = 0 THEN processed \union {Of(id)} ELSE processed
       /\ object' = Keep([object EXCEPT ![id] = c])
  BY <1>3, <1>5, <1>6, <1>8
<1>11. \A i \in candidates : ~Copy(i)
  BY DEF IInv, KindInv
<1>12. candidates' \subseteq candidates /\ Originals' = Originals
  BY <1>1, <1>3, <1>10 DEF Originals
<1>13. \A i \in candidates' : ~Copy(i)
  BY <1>11, <1>12
<1>14. PICK d : d = Destination
  OBVIOUS
<1>15. /\ wire' \in [Worker -> Messages] /\ KindInv' /\ PostponeHasColumn'
       /\ d \in Worker \ Busy /\ wire'[d] = m /\ \A v \in Worker \ {d} : wire'[v] = wire[v]
       /\ \A i : Sent(i)' = IF i = id THEN Sent(i) \union {d} ELSE Sent(i)
  <2>1. /\ m \in Short \union Task /\ (Copy(m.id) <=> m.kind \in {"predict", "a"})
        /\ m.kind = "count" /\ m.postpone => m.col # NoCol
    BY <1>1, <1>5, <1>9
  <2>2. Free # {} /\ wire' = [wire EXCEPT ![Destination] = m]
    BY <1>1, <1>10
  <2>3. Goes(m, d)
    BY <1>13, <1>14, <2>1, <2>2, Posted
  <2> QED BY <1>9, <2>3 DEF Goes
<1>16. /\ object' \in [Originals -> Objects] /\ object'[id] = c
       /\ \A i \in Originals \ {id} : object'[i] = object[i]
  <2>1. PICK f : f = [object EXCEPT ![id] = c]
    OBVIOUS
  <2>2. /\ f \in [Originals -> Objects] /\ f[id] = c /\ \A i \in Originals \ {id} : f[i] = object[i]
    BY <1>1, <1>7, <2>1
  <2>3. /\ \A i \in DOMAIN f : ~Copy(i)
        /\ \A i \in Originals' : i \in DOMAIN f /\ f[i] \in Objects
    BY <1>12, <2>2 DEF Originals
  <2>4. object' \in [Originals' -> Objects] /\ \A i \in Originals' : object'[i] = f[i]
    BY <1>10, <2>1, <2>3, KeepIs
  <2> QED BY <1>1, <1>12, <2>2, <2>4
<1>17. TypeOK'
  <2>1. IsFiniteSet(candidates') /\ IsFiniteSet(checking')
    BY <1>1, <1>3, <1>12, FS_Subset, FS_AddElement DEF TypeOK
  <2>2. candidates' \subseteq Ids /\ checking' \subseteq Ids
    BY <1>1, <1>3, <1>12 DEF TypeOK
  <2> QED BY <1>1, <1>3, <1>12, <1>15, <1>16, <2>1, <2>2, WorldFrame DEF TypeOK, Messages
<1>18. ExpectedInv'
  BY <1>1, <1>3, WorldFrame DEF IInv, ExpectedInv
<1>19. ColumnInv'
  BY <1>5, <1>7, <1>12, <1>16 DEF IInv, ColumnInv
<1>20. OneObject'
  <2>1. \A i, j \in Originals' : Of(i) = Of(j) => i = j
    BY <1>12 DEF IInv, OneObject, Originals
  <2>2. \A i \in candidates : Of(i) \notin processed
    BY DEF IInv, OneObject, OfAll
  <2>3. \A i \in candidates' : Of(i) \notin processed'
    BY <1>1, <1>10, <1>11, <1>12, <2>1, <2>2 DEF Originals
  <2>4. OfAll(candidates)' \cap processed' = {}
    BY <2>3 DEF OfAll
  <2> QED BY <2>1, <2>4 DEF OneObject, Originals
<1>21. Round(id)'
  <2>1. Sent(id)' = Sent(id) \union {d} /\ d \notin Sent(id) /\ \A v \in Sent(id) : v # d /\ wire'[v] = wire[v]
    BY <1>15 DEF Sent, Busy
  <2>2. id \in checking'
    BY <1>3
  <2>3. CASE fixed <= 1
    <3>1. left = 0 /\ Sent(id)' = {d} /\ id \notin candidates'
      BY <1>4, <1>5, <1>10, <2>1, <2>3
    <3>2. wire'[d].kind = "count" /\ wire'[d].part = Whole /\ wire'[d].col = col
      BY <1>5, <1>9, <1>15, <2>3
    <3>3. Single(id)'
      BY <1>7, <1>16, <3>1, <3>2 DEF Single
    <3> QED BY <1>7, <1>16, <2>2, <2>3, <3>3 DEF Round
  <2>4. CASE ~(fixed <= 1)
    <3>1. PICK got : got = o.got
      OBVIOUS
    <3>2. /\ got \subseteq left + 1 .. fixed - 1 /\ o.rem = fixed - Cardinality(got)
          /\ \A v \in Sent(id) : /\ wire[v].kind \in {"count", "m"} /\ wire[v].parts = fixed
                                 /\ wire[v].part \in (left + 1 .. fixed - 1) \ got
          /\ \A u, v \in Sent(id) : wire[u].part = wire[v].part => u = v
      <4>1. o.left = left + 1 /\ o.fixed > 1
        BY <1>4, <1>5, <2>4
      <4> QED BY <1>4, <1>5, <3>1, <4>1
    <3>3. wire'[d].kind = "count" /\ wire'[d].part = left /\ wire'[d].parts = fixed
      BY <1>5, <1>9, <1>15, <2>4
    <3>4. left \in 0 .. fixed /\ (id \in candidates' => left > 0) /\ got \subseteq left .. fixed - 1
      <4>1. got \subseteq left .. fixed - 1
        BY <1>5, <3>2
      <4>2. left = 0 => id \notin candidates'
        BY <1>10
      <4>3. left \in 0 .. fixed /\ (left > 0 \/ left = 0)
        <5>1. left \in 0 .. fixed - 1
          BY <1>5
        <5> QED BY <5>1
      <4> QED BY <4>1, <4>2, <4>3
    <3>5. left \in (left .. fixed - 1) \ got
      BY <1>5, <3>2
    <3>6. \A v \in Sent(id)' : /\ wire'[v].kind \in {"count", "m"} /\ wire'[v].parts = fixed
                               /\ wire'[v].part \in (left .. fixed - 1) \ got
      <4>1. \A v \in Sent(id) : wire'[v].part \in (left .. fixed - 1) \ got
        BY <1>5, <2>1, <3>2
      <4> QED BY <2>1, <3>2, <3>3, <3>5, <4>1
    <3>7. \A u, v \in Sent(id)' : wire'[u].part = wire'[v].part => u = v
      <4>1. \A v \in Sent(id) : wire'[v].part # left
        BY <1>5, <2>1, <3>2
      <4> QED BY <2>1, <3>2, <3>3, <4>1
    <3>8. InParts(id)'
      BY <1>7, <1>16, <3>1, <3>2, <3>4, <3>6, <3>7 DEF InParts
    <3> QED BY <1>7, <1>16, <2>2, <2>4, <3>8 DEF Round
  <2> QED BY <2>3, <2>4
<1>22. ASSUME NEW i \in Originals, i # id PROVE Round(i)'
  <2>1. Sent(i)' = Sent(i) /\ \A v \in Sent(i) : wire'[v] = wire[v]
    BY <1>15, <1>22 DEF Sent, Busy
  <2>2. SameRound(i)
    BY <1>1, <1>3, <1>12, <1>16, <1>22, <2>1 DEF SameRound, SameObject
  <2> QED BY <2>2, RoundFrame DEF IInv
<1>23. \A i \in Originals' : Round(i)'
  BY <1>12, <1>21, <1>22
<1>24. Sound'
  BY <1>1, <1>3 DEF IInv, Sound
<1> QED BY <1>15, <1>17, <1>18, <1>19, <1>20, <1>23, <1>24 DEF IInv

\* The turn of the loop, and a step that changes nothing.
LEMMA TurnIInv ==
  ASSUME IInv, NextTurn \/ UNCHANGED vars
  PROVE  IInv'
<1>1. UNCHANGED <<known, lists>> /\ wire' = wire
  BY DEF NextTurn, vars
<1>2. /\ UNCHANGED <<world, threshold, expected, object, candidates, checking, processed, frequent, infrequent>>
      /\ Originals' = Originals
      /\ ExpectedInv' /\ ColumnInv' /\ OneObject' /\ Sound' /\ (\A id \in candidates' : ~Copy(id))
  BY <1>1, ListsFrame
<1>3. WiresShrink
  BY <1>1 DEF IInv, TypeOK, WiresShrink, Messages, Busy
<1>4. /\ KindInv' /\ PostponeHasColumn'
      /\ \A i : \A v \in Sent(i)' : v \in Sent(i) /\ wire'[v] = wire[v]
  BY <1>2, <1>3, Wires
<1>5. pc' \in {"undefined", "dispatch", "receive", "done"} /\ (pc' # "undefined" => threshold > 0)
  BY DEF NextTurn, vars, IInv, TypeOK
<1>6. TypeOK'
  BY <1>2, <1>3, <1>5, WorldFrame DEF IInv, TypeOK, WiresShrink, Messages
<1>7. \A i \in Originals' : Round(i)'
  <2> SUFFICES ASSUME NEW i \in Originals PROVE Round(i)'
    BY <1>2
  <2>1. SameRound(i)
    BY <1>2, <1>4 DEF SameRound, SameObject
  <2> QED BY <2>1, RoundFrame DEF IInv
<1> QED BY <1>2, <1>4, <1>6, <1>7 DEF IInv
-----------------------------------------------------------------------------
(* Folds.                                                                   *)

\* Induction: a set that has 0 and with each number below n the next one.
LEMMA UpTo ==
  ASSUME NEW n \in Nat, NEW S, 0 \in S, \A k \in 1 .. n : k - 1 \in S => k \in S
  PROVE  0 .. n \subseteq S
<1> DEFINE B == (0 .. n) \ S
<1> SUFFICES ASSUME B # {} PROVE FALSE
  OBVIOUS
<1>1. B \in SUBSET Nat
  OBVIOUS
<1>2. PICK k \in B : \A j \in B : k <= j
  <2> HIDE DEF B
  <2> QED BY <1>1, MinIs
<1>3. k \in 1 .. n /\ k - 1 \in 0 .. n /\ k \notin S
  BY <1>2
<1>4. k - 1 \notin B
  BY <1>2, <1>3
<1> QED BY <1>3, <1>4

\* The largest of some numbers up to n is one of them.
LEMMA LastIs ==
  ASSUME NEW n \in Nat
  PROVE  /\ IsFiniteSet(1 .. n)
         /\ \A d \in SUBSET (1 .. n) : d # {} => Max(d) \in d /\ \A x \in d : Max(d) >= x
         /\ \A k \in 1 .. n : Max(1 .. k) = k /\ (1 .. k) \ {k} = 1 .. k - 1
<1>1. IsFiniteSet(1 .. n)
  BY FS_Interval
<1>2. ASSUME NEW d \in SUBSET (1 .. n), d # {} PROVE Max(d) \in d /\ \A x \in d : Max(d) >= x
  <2> DEFINE S == {n - x : x \in d}
  <2>0. \A x \in d : x \in 1 .. n /\ n - x \in Nat
    BY <1>2
  <2>1. S \in SUBSET Nat /\ S # {}
    BY <1>2, <2>0
  <2> HIDE DEF S
  <2>2. PICK m \in S : \A j \in S : m <= j
    BY <2>1, MinIs
  <2>3. PICK x \in d : m = n - x
    BY <2>2 DEF S
  <2>4. \A y \in d : x >= y
    <3> SUFFICES ASSUME NEW y \in d PROVE x >= y
      OBVIOUS
    <3>1. n - y \in S
      BY DEF S
    <3>2. x \in Int /\ y \in Int
      BY <2>0
    <3> QED BY <2>2, <2>3, <3>1, <3>2
  <2> QED BY <2>4 DEF Max
<1>3. ASSUME NEW k \in 1 .. n PROVE Max(1 .. k) = k
  <2>1. \A x \in 1 .. k : (\A y \in 1 .. k : x >= y) <=> x = k
    OBVIOUS
  <2>2. k \in 1 .. k
    OBVIOUS
  <2> QED BY <2>1, <2>2 DEF Max
<1>4. \A k \in 1 .. n : (1 .. k) \ {k} = 1 .. k - 1
  OBVIOUS
<1> QED BY <1>1, <1>2, <1>3, <1>4

\* There is a function that folds all sets of numbers up to n, largest last, the
\* step being G in a set R that it does not leave.
LastOut(d) == d \ {Max(d)}
Folding(it, n, b, G) == it[{}] = b /\ \A d \in SUBSET (1 .. n) : d # {} => it[d] = G[<<it[LastOut(d)], Max(d)>>]
LEMMA FoldingExists ==
  ASSUME NEW n \in Nat, NEW R, NEW b \in R, NEW G, \A y \in R, k \in 1 .. n : G[<<y, k>>] \in R
  PROVE  \E it \in [SUBSET (1 .. n) -> R] : Folding(it, n, b, G)
<1> DEFINE Sets(c) == SUBSET (1 .. c)
           U == {c \in Nat : \E h \in [Sets(c) -> R] : Folding(h, c, b, G)}
<1>1. 0 \in U
  <2> DEFINE h == [d \in Sets(0) |-> b]
  <2>1. Sets(0) = {{}}
    OBVIOUS
  <2>2. \A d \in SUBSET (1 .. 0) : d = {}
    OBVIOUS
  <2>3. h \in [Sets(0) -> R] /\ h[{}] = b
    BY <2>1
  <2> HIDE DEF h
  <2>4. Folding(h, 0, b, G)
    BY <2>2, <2>3 DEF Folding
  <2> QED BY <2>3, <2>4
<1>2. ASSUME NEW c \in 1 .. n, c - 1 \in U PROVE c \in U
  <2>1. PICK h \in [Sets(c - 1) -> R] : Folding(h, c - 1, b, G)
    BY <1>2
  <2> DEFINE j == [d \in Sets(c) |-> IF d \in Sets(c - 1) THEN h[d] ELSE G[<<h[LastOut(d)], Max(d)>>]]
  <2>2. ASSUME NEW d \in Sets(c), d # {}
        PROVE  LastOut(d) \in Sets(c - 1) /\ LastOut(d) \in Sets(c) /\ Max(d) \in 1 .. c
    <3>1. d \in SUBSET (1 .. c) /\ c \in Nat
      OBVIOUS
    <3>2. Max(d) \in d /\ \A x \in d : Max(d) >= x
      BY <2>2, <3>1, LastIs
    <3> HIDE DEF j, U
    <3>3. ASSUME NEW x \in LastOut(d) PROVE x \in 1 .. c - 1
      <4>1. x \in 1 .. c /\ Max(d) \in 1 .. c /\ x # Max(d) /\ Max(d) >= x
        BY <3>1, <3>2 DEF LastOut
      <4> QED BY <4>1
    <3>4. LastOut(d) \subseteq d
      BY DEF LastOut
    <3> QED BY <3>1, <3>2, <3>3, <3>4
  <2>3. Sets(c - 1) \subseteq Sets(c) /\ {} \in Sets(c - 1)
    <3>1. 1 .. c - 1 \subseteq 1 .. c
      OBVIOUS
    <3> QED BY <3>1
  <2> HIDE DEF Sets
  <2>4. ASSUME NEW d \in Sets(c), d # {}
        PROVE  j[d] = G[<<j[LastOut(d)], Max(d)>>] /\ j[d] \in R
    <3>1. j[LastOut(d)] = h[LastOut(d)] /\ h[LastOut(d)] \in R
      BY <2>1, <2>2, <2>4
    <3>2. d \in Sets(c - 1) => h[d] = G[<<h[LastOut(d)], Max(d)>>]
      BY <2>1, <2>4 DEF Folding, Sets
    <3>3. j[d] = G[<<h[LastOut(d)], Max(d)>>]
      BY <3>2
    <3>4. Max(d) \in 1 .. n
      BY <2>2, <2>4
    <3> QED BY <3>1, <3>3, <3>4
  <2>5. j[{}] = b
    BY <2>1, <2>3 DEF Folding
  <2>6. j \in [Sets(c) -> R]
    <3>1. \A d \in Sets(c) : j[d] \in R
      BY <2>4, <2>5
    <3> QED BY <3>1
  <2> HIDE DEF j
  <2>7. Folding(j, c, b, G)
    BY <2>4, <2>5 DEF Folding, Sets
  <2> QED BY <2>6, <2>7
<1> HIDE DEF U
<1>3. n \in U
  BY <1>1, <1>2, UpTo
<1> QED BY <1>3 DEF U

\* What such a function gives, element by element.
Stays(n, R, G) == \A y \in R, k \in 1 .. n : G[<<y, k>>] \in R
Steps(f, n, R, b, G) ==
  f[{}] = b /\ \A d \in SUBSET (1 .. n) : d # {} /\ f[LastOut(d)] \in R => f[d] = G[<<f[LastOut(d)], Max(d)>>]
Trace(h, n, R, b, G) == h \in [0 .. n -> R] /\ h[0] = b /\ \A k \in 1 .. n : h[k] = G[<<h[k - 1], k>>]
LEMMA Traced ==
  ASSUME NEW n \in Nat, NEW R, NEW b \in R, NEW G, Stays(n, R, G), NEW f, Steps(f, n, R, b, G)
  PROVE  \E h : Trace(h, n, R, b, G) /\ h[n] = f[1 .. n]
<1> USE DEF Stays, Steps
<1> DEFINE h == [k \in 0 .. n |-> f[1 .. k]]
           S == {k \in 0 .. n : f[1 .. k] \in R}
<1>1. 1 .. 0 = {} /\ 0 \in 0 .. n
  OBVIOUS
<1>2. h[0] = b /\ 0 \in S
  <2>1. PICK e : e = 1 .. 0 /\ e = {}
    BY <1>1
  <2> QED BY <1>1, <2>1
<1>3. ASSUME NEW k \in 1 .. n, k - 1 \in S PROVE k \in S /\ h[k] = G[<<h[k - 1], k>>]
  <2>1. PICK d : d = 1 .. k
    OBVIOUS
  <2>2. d \in SUBSET (1 .. n) /\ d # {} /\ Max(d) = k /\ LastOut(d) = 1 .. k - 1
    <3>1. Max(1 .. k) = k /\ (1 .. k) \ {k} = 1 .. k - 1
      BY LastIs
    <3>2. 1 .. k \in SUBSET (1 .. n) /\ 1 .. k # {}
      OBVIOUS
    <3> QED BY <2>1, <3>1, <3>2 DEF LastOut
  <2>3. PICK e : e = 1 .. k - 1 /\ f[e] \in R
    BY <1>3
  <2>4. f[d] = G[<<f[e], k>>] /\ f[d] \in R
    BY <2>2, <2>3
  <2>5. h[k] = f[d] /\ h[k - 1] = f[e]
    BY <2>1, <2>3
  <2>6. k \in S
    BY <2>1, <2>4
  <2>7. h[k] = G[<<h[k - 1], k>>]
    <3> HIDE DEF h
    <3> QED BY <2>4, <2>5
  <2> QED BY <2>6, <2>7
<1> HIDE DEF S
<1>4. 0 .. n \subseteq S
  BY <1>2, <1>3, UpTo
<1>5. \A k \in 1 .. n : k - 1 \in S
  BY <1>4
<1>6. h \in [0 .. n -> R]
  BY <1>4 DEF S
<1>7. h[n] = f[1 .. n]
  OBVIOUS
<1> HIDE DEF h
<1> QED BY <1>2, <1>3, <1>5, <1>6, <1>7 DEF Trace
-----------------------------------------------------------------------------
(* The simulation.                                                          *)

\* A queue is the shortest and the first of those.
LEMMA DealIs ==
  ASSUME NEW queues \in [1 .. Threads -> Nat], NEW t \in Nat
  PROVE  \E w \in 1 .. Threads :
           /\ \A v \in 1 .. Threads : queues[w] < queues[v] \/ (queues[w] = queues[v] /\ w <= v)
           /\ Deal(queues, t) = [queues EXCEPT ![w] = @ + t]
           /\ Deal(queues, t) \in [1 .. Threads -> Nat]
<1> DEFINE First(w) == \A v \in 1 .. Threads : queues[w] < queues[v] \/ (queues[w] = queues[v] /\ w <= v)
<1>1. \E w \in 1 .. Threads : First(w)
  <2> DEFINE L == {queues[v] : v \in 1 .. Threads}
  <2>1. L \in SUBSET Nat /\ L # {} /\ 1 .. Threads \subseteq Nat
    BY DivisionAssumption
  <2>2. PICK m \in L : \A x \in L : m <= x
    <3> HIDE DEF L
    <3> QED BY <2>1, MinIs
  <2> DEFINE S == {v \in 1 .. Threads : queues[v] = m}
  <2>3. S \in SUBSET Nat /\ S # {}
    BY <2>1, <2>2
  <2>4. PICK w \in S : \A x \in S : w <= x
    <3> HIDE DEF S
    <3> QED BY <2>3, MinIs
  <2>5. \A v \in 1 .. Threads : m <= queues[v] /\ (queues[v] = m => w <= v) /\ queues[v] \in Nat
    BY <2>2, <2>4
  <2>6. \A v \in 1 .. Threads : queues[w] < queues[v] \/ (queues[w] = queues[v] /\ w <= v)
    <3> HIDE DEF L
    <3>1. w \in 1 .. Threads /\ queues[w] = m /\ m \in Nat
      BY <2>1, <2>2, <2>4
    <3> HIDE DEF S
    <3> QED BY <2>5, <3>1
  <2> QED BY <2>4, <2>6
<1>2. PICK w : w = CHOOSE v \in 1 .. Threads : First(v)
  OBVIOUS
<1>3. w \in 1 .. Threads /\ First(w)
  <2> HIDE DEF First
  <2> QED BY <1>1, <1>2
<1>4. Deal(queues, t) = [queues EXCEPT ![w] = @ + t]
  BY <1>2 DEF Deal
<1>5. [queues EXCEPT ![w] = @ + t] \in [1 .. Threads -> Nat]
  BY <1>3
<1> QED BY <1>3, <1>4, <1>5

\* What is dealt, one part after the other.
NoQueues == [w \in 1 .. Threads |-> 0]
LEMMA Dealt ==
  ASSUME NEW n \in Nat, NEW parts \in [1 .. n -> Nat]
  PROVE  \E h \in [0 .. n -> [1 .. Threads -> Nat]] :
           /\ h[0] = NoQueues /\ h[n] = FoldLeft(Deal, NoQueues, parts)
           /\ \A k \in 1 .. n : h[k] = Deal(h[k - 1], parts[k])
<1> DEFINE R == [1 .. Threads -> Nat]
           G == [p \in R \X (1 .. n) |-> Deal(p[1], parts[p[2]])]
           Eq(it) == it = [d \in SUBSET (1 .. n) |-> IF d = {} THEN NoQueues ELSE Deal(it[d \ {Max(d)}], parts[Max(d)])]
<1>1. DOMAIN parts = 1 .. n
  OBVIOUS
<1>2. FoldLeft(Deal, NoQueues, parts) = (CHOOSE it : Eq(it))[1 .. n]
  BY <1>1 DEF FoldLeft, MapThenFoldSet
<1>3. NoQueues \in R
  BY DEF NoQueues
<1>4. ASSUME NEW y \in R, NEW k \in 1 .. n PROVE G[<<y, k>>] = Deal(y, parts[k]) /\ G[<<y, k>>] \in R
  <2>1. Deal(y, parts[k]) \in R
    BY DealIs
  <2>2. G[<<y, k>>] = Deal(y, parts[k])
    <3> HIDE DEF R
    <3> QED OBVIOUS
  <2> QED BY <2>1, <2>2
<1> HIDE DEF R, G
<1>5. PICK it \in [SUBSET (1 .. n) -> R] : Folding(it, n, NoQueues, G)
  BY <1>3, <1>4, FoldingExists
<1>6. Eq(it)
  <2>1. ASSUME NEW d \in SUBSET (1 .. n), d # {}
        PROVE  it[d] = Deal(it[d \ {Max(d)}], parts[Max(d)])
    <3>1. Max(d) \in 1 .. n /\ LastOut(d) \in SUBSET (1 .. n)
      BY <2>1, LastIs DEF LastOut
    <3>2. it[d] = G[<<it[LastOut(d)], Max(d)>>] /\ it[LastOut(d)] \in R
      BY <1>5, <2>1, <3>1 DEF Folding
    <3> QED BY <1>4, <3>1, <3>2 DEF LastOut
  <2>2. it[{}] = NoQueues
    BY <1>5 DEF Folding
  <2> QED BY <1>5, <2>1, <2>2
<1>7. PICK f : f = (CHOOSE it0 : Eq(it0))
  OBVIOUS
<1>8. Eq(f)
  <2> HIDE DEF Eq
  <2> QED BY <1>6, <1>7
<1>9. f[{}] = NoQueues /\ \A d \in SUBSET (1 .. n) : d # {} => f[d] = Deal(f[LastOut(d)], parts[Max(d)])
  BY <1>8 DEF LastOut
<1> HIDE DEF Eq
<1>10. ASSUME NEW d \in SUBSET (1 .. n), d # {}, f[LastOut(d)] \in R
       PROVE  f[d] = G[<<f[LastOut(d)], Max(d)>>]
  <2>1. Max(d) \in 1 .. n
    BY <1>10, LastIs
  <2> QED BY <1>4, <1>9, <1>10, <2>1
<1>a. Stays(n, R, G) /\ Steps(f, n, R, NoQueues, G)
  BY <1>4, <1>9, <1>10 DEF Stays, Steps
<1>11. PICK h : Trace(h, n, R, NoQueues, G) /\ h[n] = f[1 .. n]
  BY <1>3, <1>a, Traced
<1>12. \A k \in 1 .. n : h[k - 1] \in R
  <2>1. \A k \in 1 .. n : k - 1 \in 0 .. n
    OBVIOUS
  <2> QED BY <1>11, <2>1 DEF Trace
<1>13. FoldLeft(Deal, NoQueues, parts) = f[1 .. n]
  BY <1>2, <1>7
<1>14. /\ h \in [0 .. n -> R] /\ h[0] = NoQueues /\ h[n] = FoldLeft(Deal, NoQueues, parts)
       /\ \A k \in 1 .. n : h[k] = Deal(h[k - 1], parts[k])
  BY <1>4, <1>11, <1>12, <1>13 DEF Trace
<1> QED BY <1>14 DEF R

\* The total of times, one after the other.
LEMMA Totalled ==
  ASSUME NEW times \in Seq(Nat)
  PROVE  \E h \in [0 .. Len(times) -> Nat] :
           /\ h[0] = 0 /\ h[Len(times)] = Total(times)
           /\ \A k \in 1 .. Len(times) : h[k] = h[k - 1] + times[k]
<1> DEFINE n == Len(times)
           G == [p \in Nat \X (1 .. n) |-> p[1] + times[p[2]]]
           Eq(it) == it = [d \in SUBSET (1 .. n) |-> IF d = {} THEN 0 ELSE it[d \ {Max(d)}] + times[Max(d)]]
<1>1. n \in Nat /\ DOMAIN times = 1 .. n /\ \A k \in 1 .. n : times[k] \in Nat
  OBVIOUS
<1>2. Total(times) = (CHOOSE it : Eq(it))[1 .. n]
  BY <1>1 DEF Total, FoldLeft, MapThenFoldSet
<1>4. ASSUME NEW y \in Nat, NEW k \in 1 .. n PROVE G[<<y, k>>] = y + times[k] /\ G[<<y, k>>] \in Nat
  BY <1>1
<1> HIDE DEF n, G
<1>5. PICK it \in [SUBSET (1 .. n) -> Nat] : Folding(it, n, 0, G)
  BY <1>1, <1>4, FoldingExists
<1>6. Eq(it)
  <2>1. ASSUME NEW d \in SUBSET (1 .. n), d # {}
        PROVE  it[d] = it[d \ {Max(d)}] + times[Max(d)]
    <3>1. Max(d) \in 1 .. n /\ LastOut(d) \in SUBSET (1 .. n)
      BY <1>1, <2>1, LastIs DEF LastOut
    <3>2. it[d] = G[<<it[LastOut(d)], Max(d)>>] /\ it[LastOut(d)] \in Nat
      BY <1>5, <2>1, <3>1 DEF Folding
    <3> QED BY <1>4, <3>1, <3>2 DEF LastOut
  <2>2. it[{}] = 0
    BY <1>5 DEF Folding
  <2> QED BY <1>5, <2>1, <2>2
<1>7. PICK f : f = (CHOOSE it0 : Eq(it0))
  OBVIOUS
<1>8. Eq(f)
  <2> HIDE DEF Eq
  <2> QED BY <1>6, <1>7
<1>9. f[{}] = 0 /\ \A d \in SUBSET (1 .. n) : d # {} => f[d] = f[LastOut(d)] + times[Max(d)]
  BY <1>8 DEF LastOut
<1> HIDE DEF Eq
<1>10. ASSUME NEW d \in SUBSET (1 .. n), d # {}, f[LastOut(d)] \in Nat
       PROVE  f[d] = G[<<f[LastOut(d)], Max(d)>>]
  <2>1. Max(d) \in 1 .. n
    BY <1>1, <1>10, LastIs
  <2> QED BY <1>4, <1>9, <1>10, <2>1
<1>a. Stays(n, Nat, G) /\ Steps(f, n, Nat, 0, G)
  BY <1>4, <1>9, <1>10 DEF Stays, Steps
<1>b. PICK R : R = Nat
  OBVIOUS
<1>c. n \in Nat /\ 0 \in R /\ Stays(n, R, G) /\ Steps(f, n, R, 0, G)
  BY <1>1, <1>a, <1>b
<1>d. \E h : Trace(h, n, R, 0, G) /\ h[n] = f[1 .. n]
  BY <1>c, Traced
<1>11. PICK h : Trace(h, n, Nat, 0, G) /\ h[n] = f[1 .. n]
  BY <1>b, <1>d
<1>12. \A k \in 1 .. n : h[k - 1] \in Nat
  <2>1. \A k \in 1 .. n : k - 1 \in 0 .. n
    BY <1>1
  <2> QED BY <1>11, <2>1 DEF Trace
<1>13. Total(times) = f[1 .. n]
  BY <1>2, <1>7
<1>14. /\ h \in [0 .. n -> Nat] /\ h[0] = 0 /\ h[n] = Total(times)
       /\ \A k \in 1 .. n : h[k] = h[k - 1] + times[k]
  BY <1>4, <1>11, <1>12, <1>13 DEF Trace
<1> QED BY <1>14 DEF n

\* Parts of equal length, one after the other: part x is of block x \div n.
Block(x, n) == ((x - 1) \div n) + 1
Laid(q, n, k) == [x \in 1 .. k * n |-> q[Block(x, n)]]
LEMMA BlockIs ==
  ASSUME NEW n \in Nat, NEW k \in Nat, NEW x \in 1 .. (k + 1) * n
  PROVE  /\ Block(x, n) \in 1 .. k + 1
         /\ x > k * n => Block(x, n) = k + 1 /\ x - k * n \in 1 .. n
         /\ Block(x, n) = k + 1 => x > k * n
<1>1. (k + 1) * n = k * n + n /\ k * n \in Nat /\ n > 0
  OBVIOUS
<1>2. PICK d \in Int, r \in Int : d = (x - 1) \div n /\ x - 1 = d * n + r /\ 0 <= r /\ r < n
  BY <1>1
<1>3. d >= 0
  <2> SUFFICES ASSUME d <= -1 PROVE FALSE
    OBVIOUS
  <2>1. d * n <= -n
    BY <1>1
  <2> QED BY <1>1, <1>2, <2>1
<1>4. d <= k
  <2> SUFFICES ASSUME d >= k + 1 PROVE FALSE
    OBVIOUS
  <2>1. d * n >= (k + 1) * n
    BY <1>1
  <2> QED BY <1>1, <1>2, <2>1
<1>5. d <= k - 1 => d * n <= k * n - n
  <2> SUFFICES ASSUME d <= k - 1 PROVE d * n <= k * n - n
    OBVIOUS
  <2>1. d * n <= (k - 1) * n /\ (k - 1) * n = k * n - n
    BY <1>1
  <2> QED BY <2>1
<1>6. x > k * n => d = k
  BY <1>1, <1>2, <1>3, <1>4, <1>5
<1>7. d = k => x > k * n
  BY <1>1, <1>2
<1>8. x > k * n => x - k * n \in 1 .. n
  BY <1>1
<1> QED BY <1>2, <1>3, <1>4, <1>6, <1>7, <1>8 DEF Block

\* Sequences of one length with the same elements are the same.
LEMMA SameSequence ==
  ASSUME NEW s \in Seq(Nat), NEW t \in Seq(Nat), Len(s) = Len(t), \A x \in 1 .. Len(s) : s[x] = t[x]
  PROVE  s = t
<1>1. PICK n \in Nat : n = Len(s) /\ n = Len(t)
  OBVIOUS
<1>2. s = [x \in 1 .. n |-> s[x]] /\ t = [x \in 1 .. n |-> t[x]]
  BY <1>1
<1>3. [x \in 1 .. n |-> s[x]] = [x \in 1 .. n |-> t[x]]
  BY <1>1
<1> QED BY <1>2, <1>3

\* Where the second of two sequences is in what they are joined to.
LEMMA SecondOf ==
  ASSUME NEW s \in Seq(Nat), NEW t \in Seq(Nat), NEW x \in 1 .. Len(s) + Len(t), x > Len(s)
  PROVE  (s \o t)[x] = t[x - Len(s)]
OBVIOUS

\* What is in the first of two intervals laid one after the other.
LEMMA InFirst ==
  ASSUME NEW l \in Nat, NEW n \in Nat, NEW m, m = l + n, NEW x \in 1 .. l
  PROVE  x \in 1 .. m /\ ~(x > l)
<1>1. x <= l + n
  OBVIOUS
<1> QED BY <1>1

\* One more block is laid at the end.
LEMMA LaidMore ==
  ASSUME NEW n \in Nat, NEW k \in Nat, NEW q, \A j \in 1 .. k + 1 : q[j] \in Nat
  PROVE  Laid(q, n, k + 1) = Laid(q, n, k) \o [i \in 1 .. n |-> q[k + 1]]
<1> DEFINE s == Laid(q, n, k)
           t == [i \in 1 .. n |-> q[k + 1]]
           u == Laid(q, n, k + 1)
<1>1. (k + 1) * n = k * n + n /\ k * n \in Nat /\ (k + 1) * n \in Nat
  OBVIOUS
<1>2. \A x \in 1 .. k * n : Block(x, n) \in 1 .. k
  <2>1. ASSUME NEW x \in 1 .. k * n
        PROVE  x \in 1 .. (k + 1) * n /\ ~(x > k * n)
    <3>1. PICK l \in Nat, m \in Nat : l = k * n /\ m = (k + 1) * n /\ m = l + n
      BY <1>1
    <3> HIDE DEF s, t, u
    <3>2. x \in 1 .. l
      BY <2>1, <3>1
    <3>3. x \in 1 .. m /\ ~(x > l)
      BY <3>1, <3>2, InFirst
    <3> QED BY <3>1, <3>3
  <2> SUFFICES ASSUME NEW x \in 1 .. k * n PROVE Block(x, n) \in 1 .. k
    OBVIOUS
  <2>2. x \in 1 .. (k + 1) * n /\ ~(x > k * n)
    BY <2>1
  <2>3. Block(x, n) \in 1 .. k + 1 /\ Block(x, n) # k + 1
    BY <2>2, BlockIs
  <2> QED BY <2>3
<1>3. s \in Seq(Nat) /\ Len(s) = k * n /\ \A x \in 1 .. k * n : s[x] = q[Block(x, n)]
  <2>1. \A x \in 1 .. k * n : q[Block(x, n)] \in Nat
    BY <1>2
  <2> QED BY <1>1, <2>1 DEF Laid
<1>4. t \in Seq(Nat) /\ Len(t) = n /\ \A i \in 1 .. n : t[i] = q[k + 1]
  OBVIOUS
<1>5. u \in Seq(Nat) /\ Len(u) = (k + 1) * n /\ \A x \in 1 .. (k + 1) * n : u[x] = q[Block(x, n)]
  <2>1. \A x \in 1 .. (k + 1) * n : q[Block(x, n)] \in Nat
    BY BlockIs
  <2> QED BY <1>1, <2>1 DEF Laid
<1> HIDE DEF s, t, u
<1>6. s \o t \in Seq(Nat) /\ Len(s \o t) = (k + 1) * n
  <2>1. s \o t \in Seq(Nat) /\ Len(s \o t) = Len(s) + Len(t)
    <3>1. s \in Seq(Nat) /\ t \in Seq(Nat)
      BY <1>3, <1>4
    <3>2. s \o t \in Seq(Nat)
      BY <3>1
    <3>3. Len(s \o t) = Len(s) + Len(t)
      BY <3>1
    <3> QED BY <3>2, <3>3
  <2> QED BY <1>1, <1>3, <1>4, <2>1
<1>7. ASSUME NEW x \in 1 .. (k + 1) * n PROVE u[x] = (s \o t)[x]
  <2>1. CASE x > k * n
    <3>1. Block(x, n) = k + 1 /\ x - k * n \in 1 .. n
      BY <2>1, BlockIs
    <3>2. (s \o t)[x] = t[x - k * n]
      <4>1. PICK l \in Nat : l = k * n
        BY <1>1
      <4>2. Len(s) = l /\ x \in 1 .. l + n /\ x > l
        BY <1>1, <1>3, <2>1, <4>1
      <4>3. (s \o t)[x] = t[x - l]
        BY <1>3, <1>4, <4>2, SecondOf
      <4> QED BY <4>1, <4>3
    <3> QED BY <1>4, <1>5, <3>1, <3>2
  <2>2. CASE ~(x > k * n)
    <3>1. x \in 1 .. k * n
      BY <1>1, <2>2
    <3>2. (s \o t)[x] = s[x]
      BY <1>3, <1>4, <3>1
    <3> QED BY <1>3, <1>5, <3>1, <3>2
  <2> QED BY <2>1, <2>2
<1>8. u = s \o t
  BY <1>5, <1>6, <1>7, SameSequence
<1> QED BY <1>8 DEF s, t, u

\* FlattenSeq lays blocks one after the other.
Blocks(q, n, K) == [k \in 1 .. K |-> [i \in 1 .. n |-> q[k]]]
LEMMA Flattened ==
  ASSUME NEW n \in Nat, NEW K \in Nat, K > 0, NEW q, \A j \in 1 .. K : q[j] \in Nat,
         NEW blocks, blocks = Blocks(q, n, K)
  PROVE  FlattenSeq(blocks) = Laid(q, n, K)
<1> USE DEF Blocks
<1> DEFINE Eq(f) == f = [k \in 1 .. K |-> IF k = 1 THEN blocks[k] ELSE f[k - 1] \o blocks[k]]
           J == [k \in 1 .. K |-> Laid(q, n, k)]
<1>1. Len(blocks) = K
  OBVIOUS
<1>2. FlattenSeq(blocks) = (CHOOSE f : Eq(f))[K]
  BY <1>1 DEF FlattenSeq
<1>3. ASSUME NEW k \in 1 .. K PROVE Laid(q, n, k) = IF k = 1 THEN blocks[k] ELSE Laid(q, n, k - 1) \o blocks[k]
  <2>1. blocks[k] = [i \in 1 .. n |-> q[k]]
    OBVIOUS
  <2>2. CASE k = 1
    <3>1. 1 * n = n
      OBVIOUS
    <3>2. ASSUME NEW x \in 1 .. n PROVE Block(x, n) = 1
      <4>1. PICK z \in Nat : z = 0
        OBVIOUS
      <4>2. x \in 1 .. (z + 1) * n
        BY <4>1
      <4>3. Block(x, n) \in 1 .. z + 1
        BY <4>2, BlockIs
      <4> QED BY <4>1, <4>3
    <3> QED BY <2>1, <2>2, <3>1, <3>2 DEF Laid
  <2>3. CASE k # 1
    <3>1. PICK m \in Nat : k = m + 1 /\ m = k - 1
      BY <2>3
    <3>2. \A j \in 1 .. m + 1 : q[j] \in Nat
      BY <3>1
    <3>3. Laid(q, n, m + 1) = Laid(q, n, m) \o [i \in 1 .. n |-> q[m + 1]]
      BY <3>2, LaidMore
    <3> QED BY <2>1, <2>3, <3>1, <3>3
  <2> QED BY <2>2, <2>3
<1>a. \A k \in 1 .. K : k # 1 => k - 1 \in 1 .. K
  OBVIOUS
<1>4. Eq(J)
  <2>1. \A k \in 1 .. K : k # 1 => J[k - 1] = Laid(q, n, k - 1)
    BY <1>a
  <2>2. \A k \in 1 .. K : (IF k = 1 THEN blocks[k] ELSE J[k - 1] \o blocks[k]) = Laid(q, n, k)
    BY <1>3, <2>1
  <2> QED BY <2>2
<1>5. PICK f : f = (CHOOSE f0 : Eq(f0))
  OBVIOUS
<1>6. Eq(f)
  <2> HIDE DEF Eq
  <2> QED BY <1>4, <1>5
<1> DEFINE S == {k \in Nat : k \in 1 .. K => f[k] = Laid(q, n, k)}
<1>7. 0 \in S
  OBVIOUS
<1>8. ASSUME NEW k \in 1 .. K, k - 1 \in S PROVE k \in S
  <2>1. f[k] = IF k = 1 THEN blocks[k] ELSE f[k - 1] \o blocks[k]
    BY <1>6
  <2>2. k # 1 => f[k - 1] = Laid(q, n, k - 1)
    BY <1>8, <1>a
  <2>3. f[k] = Laid(q, n, k)
    <3> HIDE DEF Eq, S
    <3> QED BY <1>3, <2>1, <2>2
  <2> QED BY <2>3
<1> HIDE DEF S
<1>b. K \in 0 .. K
  OBVIOUS
<1>9. K \in S
  <2> HIDE DEF Eq
  <2> QED BY <1>7, <1>8, <1>b, UpTo
<1>10. f[K] = Laid(q, n, K)
  BY <1>9 DEF S
<1> HIDE DEF Eq
<1> QED BY <1>2, <1>5, <1>10

\* Where the next part goes while the parts of one time are dealt.
Levels(c, i, p) == [w \in 1 .. Threads |-> c + IF w <= i THEN p ELSE 0]
LEMMA NextLevel ==
  ASSUME NEW c \in Nat, NEW p \in Nat, p > 0, NEW i \in 0 .. Threads - 1
  PROVE  Deal(Levels(c, i, p), p) = Levels(c, i + 1, p)
<1>1. Threads \in Nat /\ i \in Nat /\ i + 1 \in 1 .. Threads
  BY DivisionAssumption
<1>a. PICK y : y = Levels(c, i, p)
  OBVIOUS
<1>2. y = Levels(c, i, p) /\ y \in [1 .. Threads -> Nat] /\ \A v \in 1 .. Threads : y[v] = IF v <= i THEN c + p ELSE c
  <2>1. ASSUME NEW v \in 1 .. Threads
        PROVE  c + (IF v <= i THEN p ELSE 0) \in Nat /\ c + (IF v <= i THEN p ELSE 0) = IF v <= i THEN c + p ELSE c
    BY <1>1
  <2>2. y = [v \in 1 .. Threads |-> c + IF v <= i THEN p ELSE 0]
    BY <1>a DEF Levels
  <2>3. \A v \in 1 .. Threads : y[v] = c + IF v <= i THEN p ELSE 0
    BY <2>2
  <2> QED BY <1>a, <2>1, <2>2, <2>3
<1>3. PICK w \in 1 .. Threads :
        /\ \A v \in 1 .. Threads : y[w] < y[v] \/ (y[w] = y[v] /\ w <= v)
        /\ Deal(y, p) = [y EXCEPT ![w] = @ + p]
  BY <1>2, DealIs
<1>4. w = i + 1
  <2>1. y[w] < y[i + 1] \/ (y[w] = y[i + 1] /\ w <= i + 1)
    BY <1>1, <1>3
  <2>2. y[i + 1] = c
    BY <1>1, <1>2
  <2>3. y[w] = IF w <= i THEN c + p ELSE c
    BY <1>2
  <2> QED BY <1>1, <2>1, <2>2, <2>3
<1>5. \A v \in 1 .. Threads : [y EXCEPT ![w] = @ + p][v] = c + IF v <= i + 1 THEN p ELSE 0
  <2> SUFFICES ASSUME NEW v \in 1 .. Threads PROVE [y EXCEPT ![w] = @ + p][v] = c + IF v <= i + 1 THEN p ELSE 0
    OBVIOUS
  <2>1. CASE v = i + 1
    BY <1>1, <1>2, <1>4, <2>1
  <2>2. CASE v # i + 1
    <3>1. [y EXCEPT ![w] = @ + p][v] = y[v]
      BY <1>2, <1>4, <2>2
    <3> QED BY <1>1, <1>2, <2>2, <3>1
  <2> QED BY <2>1, <2>2
<1>6. [y EXCEPT ![w] = @ + p] = [v \in 1 .. Threads |-> c + IF v <= i + 1 THEN p ELSE 0]
  BY <1>2, <1>5
<1> QED BY <1>2, <1>3, <1>6 DEF Levels

\* Times that give each queue a part leave the queues level, and no longer than
\* the average.
LEMMA Levelled ==
  ASSUME NEW times \in Seq(Nat), NEW q, \A k \in 1 .. Len(times) : q[k] \in Nat /\ q[k] > 0 /\ q[k] * Threads <= times[k]
  PROVE  \E c \in Nat : /\ FoldLeft(Deal, NoQueues, Laid(q, Threads, Len(times))) = Levels(c, 0, 0)
                        /\ c * Threads <= Total(times)
<1> DEFINE K == Len(times)
           n == Threads
           parts == Laid(q, n, K)
<1>1. K \in Nat /\ n \in Nat /\ n > 0 /\ \A k \in 1 .. K : times[k] \in Nat
  BY DivisionAssumption
<1> HIDE DEF n, K
<1>2. PICK N \in Nat : N = K * n
  BY <1>1
<1>3. ASSUME NEW k \in 0 .. K - 1 PROVE (k + 1) * n = k * n + n /\ k * n \in Nat /\ (k + 1) * n <= N
  <2>1. k \in Nat /\ k + 1 \in Nat /\ k + 1 <= K
    BY <1>1
  <2>2. (k + 1) * n = k * n + n /\ k * n \in Nat
    BY <1>1, <2>1
  <2>3. PICK m \in Nat : m = K - (k + 1)
    BY <1>1, <2>1
  <2>4. m * n \in Nat /\ K * n = (k + 1) * n + m * n
    <3>1. K = (k + 1) + m
      BY <1>1, <2>1, <2>3
    <3> QED BY <1>1, <2>1, <3>1
  <2> QED BY <1>1, <1>2, <2>1, <2>2, <2>4
<1>4. parts \in [1 .. N -> Nat] /\ \A x \in 1 .. N : parts[x] = q[Block(x, n)]
  <2>1. ASSUME NEW x \in 1 .. N PROVE q[Block(x, n)] \in Nat
    <3>1. PICK k \in Nat : K = k + 1
      <4>1. K # 0
        <5> SUFFICES ASSUME K = 0 PROVE FALSE
          OBVIOUS
        <5>1. N = 0
          BY <1>1, <1>2
        <5> QED BY <5>1
      <4> QED BY <1>1, <4>1
    <3>2. Block(x, n) \in 1 .. k + 1
      BY <1>1, <1>2, <3>1, BlockIs
    <3> QED BY <3>1, <3>2 DEF K
  <2> QED BY <1>2, <2>1 DEF Laid
<1>5. PICK h \in [0 .. N -> [1 .. Threads -> Nat]] :
        /\ h[0] = NoQueues /\ h[N] = FoldLeft(Deal, NoQueues, parts)
        /\ \A j \in 1 .. N : h[j] = Deal(h[j - 1], parts[j])
  <2> HIDE DEF parts
  <2> QED BY <1>4, Dealt
<1>6. PICK T \in [0 .. K -> Nat] : T[0] = 0 /\ T[K] = Total(times) /\ \A k \in 1 .. K : T[k] = T[k - 1] + times[k]
  BY Totalled DEF K
<1> DEFINE At(j, k, i, c) == /\ j = k * n + i /\ (i > 0 => k < K) /\ c * n <= T[k]
                            /\ h[j] = Levels(c, i, IF i > 0 THEN q[k + 1] ELSE 0)
           S == {j \in 0 .. N : \E k \in 0 .. K, i \in 0 .. n - 1, c \in Nat : At(j, k, i, c)}
<1>7. 0 \in S
  <2>1. NoQueues = Levels(0, 0, 0)
    BY DEF NoQueues, Levels
  <2>2. 0 * n = 0 /\ 0 \in 0 .. K /\ 0 \in 0 .. n - 1 /\ 0 \in Nat /\ 0 \in 0 .. N
    BY <1>1
  <2>3. At(0, 0, 0, 0)
    BY <1>5, <1>6, <2>1, <2>2
  <2> HIDE DEF At
  <2> QED BY <2>2, <2>3
<1>8. ASSUME NEW j \in 1 .. N, j - 1 \in S PROVE j \in S
  <2>1. PICK k \in 0 .. K, i \in 0 .. n - 1, c \in Nat : At(j - 1, k, i, c)
    BY <1>8
  <2>2. k \in 0 .. K - 1
    <3> SUFFICES ASSUME k = K PROVE FALSE
      BY <1>1
    <3>1. j - 1 = N + i
      BY <1>2, <2>1
    <3> QED BY <1>1, <3>1
  <2>3. /\ k \in Nat /\ i \in Nat /\ k + 1 \in 1 .. K /\ (k + 1) * n = k * n + n /\ k * n \in Nat /\ (k + 1) * n <= N
        /\ i + 1 \in 1 .. n /\ j = k * n + (i + 1)
    BY <1>1, <1>3, <2>1, <2>2
  <2>4. PICK p \in Nat : p = q[k + 1] /\ p > 0 /\ p * n <= times[k + 1]
    BY <2>3 DEF K, n
  <2>5. parts[j] = p
    <3>1. j \in 1 .. (k + 1) * n /\ j > k * n
      <4>1. PICK a \in Nat : a = k * n
        BY <2>3
      <4>2. i + 1 \in 1 .. n /\ j = a + (i + 1) /\ (k + 1) * n = a + n
        BY <2>3, <4>1
      <4>3. j \in 1 .. a + n /\ j > a
        BY <1>1, <4>2
      <4> QED BY <4>1, <4>2, <4>3
    <3>2. Block(j, n) = k + 1
      BY <1>1, <2>3, <3>1, BlockIs
    <3> QED BY <1>4, <2>4, <3>2
  <2>6. h[j - 1] = Levels(c, i, p)
    <3>1. CASE i > 0
      BY <2>1, <2>4, <3>1
    <3>2. CASE ~(i > 0)
      <4>1. h[j - 1] = Levels(c, 0, 0) /\ i = 0
        BY <2>1, <2>3, <3>2
      <4>2. Levels(c, 0, 0) = Levels(c, 0, p)
        BY DEF Levels
      <4> QED BY <4>1, <4>2
    <3> QED BY <3>1, <3>2
  <2>7. h[j] = Levels(c, i + 1, p)
    <3>1. h[j] = Deal(Levels(c, i, p), p)
      BY <1>5, <2>5, <2>6
    <3>2. i \in 0 .. Threads - 1
      BY DEF n
    <3> QED BY <2>4, <3>1, <3>2, NextLevel
  <2>8. CASE i + 1 < n
    <3>1. i + 1 \in 0 .. n - 1 /\ i + 1 > 0 /\ k < K
      BY <1>1, <2>3, <2>8
    <3>2. At(j, k, i + 1, c)
      BY <2>1, <2>3, <2>4, <2>7, <3>1
    <3> HIDE DEF At
    <3> QED BY <3>1, <3>2
  <2>9. CASE ~(i + 1 < n)
    <3>1. i + 1 = n /\ 0 \in 0 .. n - 1 /\ k + 1 \in 0 .. K /\ c + p \in Nat
      BY <1>1, <2>3, <2>9
    <3>2. Levels(c, i + 1, p) = Levels(c + p, 0, 0)
      <4>1. \A w \in 1 .. Threads : c + (IF w <= i + 1 THEN p ELSE 0) = (c + p) + (IF w <= 0 THEN 0 ELSE 0)
        BY <3>1 DEF n
      <4> QED BY <4>1 DEF Levels
    <3>3. (c + p) * n <= T[k + 1]
      <4>1. T[k + 1] = T[k] + times[k + 1] /\ c * n <= T[k]
        <5>1. (k + 1) - 1 = k
          BY <2>3
        <5> QED BY <1>6, <2>1, <2>3, <5>1
      <4>2. (c + p) * n = c * n + p * n /\ c * n \in Nat /\ p * n \in Nat
        BY <1>1
      <4>3. T[k] \in Nat /\ times[k + 1] \in Nat
        BY <1>1, <1>6, <2>3
      <4>4. PICK x \in Nat, y \in Nat : x = c * n /\ y = p * n
        BY <4>2
      <4>5. PICK u \in Nat, v \in Nat : u = T[k] /\ v = times[k + 1]
        BY <4>3
      <4>6. x <= u /\ y <= v
        BY <2>4, <4>1, <4>4, <4>5
      <4>7. x + y <= u + v
        BY <4>6
      <4> QED BY <4>1, <4>2, <4>4, <4>5, <4>7
    <3>4. At(j, k + 1, 0, c + p)
      BY <2>3, <2>7, <3>1, <3>2, <3>3
    <3> HIDE DEF At
    <3> QED BY <3>1, <3>4
  <2> QED BY <2>8, <2>9
<1> HIDE DEF S
<1>9. N \in S
  <2>1. N \in 0 .. N
    OBVIOUS
  <2> QED BY <1>7, <1>8, <2>1, UpTo
<1>10. PICK k \in 0 .. K, i \in 0 .. n - 1, c \in Nat : At(N, k, i, c)
  BY <1>9 DEF S
<1>11. k = K /\ i = 0
  <2>1. ASSUME k # K PROVE FALSE
    <3>1. k \in 0 .. K - 1
      BY <1>1, <2>1
    <3>2. (k + 1) * n = k * n + n /\ k * n \in Nat /\ (k + 1) * n <= N
      BY <1>3, <3>1
    <3> QED BY <1>1, <1>10, <3>2
  <2> QED BY <1>1, <1>2, <1>10, <2>1
<1>12. h[N] = Levels(c, 0, 0) /\ c * n <= T[K]
  BY <1>10, <1>11
<1> QED BY <1>5, <1>6, <1>12 DEF n, K

\* With as many parts for each time, the queues are those of blocks of parts.
LEMMA QueuesAre ==
  ASSUME NEW times \in Seq(Nat), NEW l,
         NEW n \in Nat, NEW q, \A k \in 1 .. Len(times) : q[k] \in Nat /\ PartsOf(times[k], l) = n /\ (n > 0 => q[k] = times[k] \div n)
  PROVE  Len(times) > 0 => Queues(times, l) = FoldLeft(Deal, NoQueues, Laid(q, n, Len(times)))
<1> SUFFICES ASSUME Len(times) > 0 PROVE Queues(times, l) = FoldLeft(Deal, NoQueues, Laid(q, n, Len(times)))
  OBVIOUS
<1>1. PICK blocks : blocks = [k \in DOMAIN times |-> [i \in 1 .. PartsOf(times[k], l) |-> times[k] \div PartsOf(times[k], l)]]
  OBVIOUS
<1>2. Queues(times, l) = FoldLeft(Deal, NoQueues, FlattenSeq(blocks))
  BY <1>1 DEF Queues, NoQueues
<1>3. blocks = [k \in 1 .. Len(times) |-> [i \in 1 .. n |-> q[k]]]
  <2>1. ASSUME NEW k \in 1 .. Len(times)
        PROVE  [i \in 1 .. PartsOf(times[k], l) |-> times[k] \div PartsOf(times[k], l)] = [i \in 1 .. n |-> q[k]]
    <3>1. CASE n > 0
      BY <3>1
    <3>2. CASE n = 0
      <4>1. 1 .. n = {}
        BY <3>2
      <4>2. PICK p : p = PartsOf(times[k], l) /\ 1 .. p = {}
        BY <4>1
      <4> QED BY <4>1, <4>2
    <3> QED BY <3>1, <3>2
  <2>2. DOMAIN times = 1 .. Len(times)
    OBVIOUS
  <2>3. blocks = [k \in 1 .. Len(times) |-> [i \in 1 .. PartsOf(times[k], l) |-> times[k] \div PartsOf(times[k], l)]]
    BY <1>1, <2>2
  <2> QED BY <2>1, <2>3
<1>4. FlattenSeq(blocks) = Laid(q, n, Len(times))
  <2>1. PICK K \in Nat : K = Len(times) /\ K > 0 /\ \A k \in 1 .. K : q[k] \in Nat
    OBVIOUS
  <2>2. blocks = Blocks(q, n, K)
    BY <1>3, <2>1 DEF Blocks
  <2>3. FlattenSeq(blocks) = Laid(q, n, K)
    BY <2>1, <2>2, Flattened
  <2> QED BY <2>1, <2>3
<1> QED BY <1>2, <1>4

\* With no parts, and with a part for each queue, the queues are balanced.
LEMMA BalancedAtZero ==
  ASSUME NEW times \in Seq(Nat)
  PROVE  Balanced(times, 0)
<1>1. PICK K \in Nat : K = Len(times) /\ DOMAIN times = 1 .. K
  OBVIOUS
<1>2. Queues(times, 0) = NoQueues
  <2>1. \E parts \in [1 .. 0 -> Nat] : Queues(times, 0) = FoldLeft(Deal, NoQueues, parts)
    <3>1. CASE K = 0
      <4>1. PICK blocks : blocks = [k \in DOMAIN times |-> [i \in 1 .. PartsOf(times[k], 0) |-> times[k] \div PartsOf(times[k], 0)]]
        OBVIOUS
      <4>2. Queues(times, 0) = FoldLeft(Deal, NoQueues, FlattenSeq(blocks))
        BY <4>1 DEF Queues, NoQueues
      <4>3. DOMAIN times = 1 .. 0
        BY <1>1, <3>1
      <4>4. Len(blocks) = 0 /\ blocks \in [1 .. 0 -> Nat]
        BY <4>1, <4>3
      <4>5. FlattenSeq(blocks) = blocks
        BY <4>4 DEF FlattenSeq
      <4> QED BY <4>2, <4>4, <4>5
    <3>2. CASE K > 0
      <4> DEFINE q == [k \in 1 .. K |-> 0]
      <4>1. \A k \in 1 .. Len(times) : q[k] \in Nat /\ PartsOf(times[k], 0) = 0
        BY <1>1 DEF PartsOf
      <4> HIDE DEF q
      <4>2. Queues(times, 0) = FoldLeft(Deal, NoQueues, Laid(q, 0, K))
        <5>1. \A k \in 1 .. Len(times) : 0 > 0 => q[k] = times[k] \div 0
          OBVIOUS
        <5>2. Queues(times, 0) = FoldLeft(Deal, NoQueues, Laid(q, 0, Len(times)))
          BY <1>1, <3>2, <4>1, <5>1, QueuesAre
        <5> QED BY <1>1, <5>2
      <4>3. Laid(q, 0, K) \in [1 .. 0 -> Nat]
        <5>1. K * 0 = 0
          OBVIOUS
        <5> QED BY <5>1 DEF Laid
      <4> QED BY <4>2, <4>3
    <3> QED BY <3>1, <3>2
  <2>2. PICK parts \in [1 .. 0 -> Nat] : Queues(times, 0) = FoldLeft(Deal, NoQueues, parts)
    BY <2>1
  <2>3. FoldLeft(Deal, NoQueues, parts) = NoQueues
    <3>1. PICK n \in Nat : n = 0
      OBVIOUS
    <3>2. parts \in [1 .. n -> Nat]
      BY <3>1
    <3>3. PICK h \in [0 .. n -> [1 .. Threads -> Nat]] : h[0] = NoQueues /\ h[n] = FoldLeft(Deal, NoQueues, parts)
      BY <3>2, Dealt
    <3> QED BY <3>1, <3>3
  <2> QED BY <2>2, <2>3
<1>3. {NoQueues[w] : w \in 1 .. Threads} = {0}
  BY DivisionAssumption DEF NoQueues
<1>4. Max({0}) = 0
  BY DEF Max
<1>5. Total(times) \in Nat
  <2>1. PICK h \in [0 .. K -> Nat] : h[K] = Total(times)
    BY <1>1, Totalled
  <2>2. h[K] \in Nat
    BY <1>1
  <2> QED BY <2>1, <2>2
<1>6. PICK average \in Nat : average = Total(times) \div Threads
  BY <1>5, DivisionAssumption
<1>7. average = 0 \/ 0 * 100 < (100 + MinImbalance) * average
  <2>1. average > 0 => (100 + MinImbalance) * average > 0
    BY DivisionAssumption
  <2> QED BY <2>1
<1> QED BY <1>2, <1>3, <1>4, <1>6, <1>7 DEF Balanced

\* The longest queue is then no longer than the average.
LEMMA BalancedAtOne ==
  ASSUME MinImbalance > 0, NEW times \in Seq(Nat), Len(times) > 0, \A k \in 1 .. Len(times) : times[k] >= Threads
  PROVE  Balanced(times, 1)
<1>0. Threads \in Nat /\ Threads > 0 /\ \A k \in 1 .. Len(times) : times[k] \in Nat
  BY DivisionAssumption
<1> DEFINE q == [k \in 1 .. Len(times) |-> times[k] \div Threads]
<1>1. ASSUME NEW k \in 1 .. Len(times)
      PROVE  /\ q[k] \in Nat /\ q[k] > 0 /\ q[k] * Threads <= times[k]
             /\ PartsOf(times[k], 1) = Threads /\ q[k] = times[k] \div Threads
  <2>1. PICK t \in Nat : t = times[k] /\ t >= Threads
    BY <1>0
  <2>2. PICK d \in Int, r \in Int : d = t \div Threads /\ t = d * Threads + r /\ 0 <= r /\ r < Threads
    BY <1>0
  <2>3. d > 0
    <3> SUFFICES ASSUME d <= 0 PROVE FALSE
      OBVIOUS
    <3>1. d * Threads <= 0
      BY <1>0
    <3> QED BY <1>0, <2>1, <2>2, <3>1
  <2>4. q[k] = d /\ q[k] = times[k] \div Threads
    BY <2>1, <2>2
  <2>5. Ceil(t, 1) = t
    BY DEF Ceil
  <2>6. Min({Ceil(t, 1), Threads}) = Threads
    <3>1. PICK c \in Int, n \in Int : c = Ceil(t, 1) /\ n = Threads /\ c >= n
      BY <1>0, <2>1, <2>5
    <3>2. Min({c, n}) \in {c, n} /\ Min({c, n}) <= n
      BY MinOfTwo
    <3>3. Min({c, n}) = n
      BY <3>1, <3>2
    <3> QED BY <3>1, <3>3
  <2>7. PartsOf(t, 1) = Threads
    BY <2>6 DEF PartsOf
  <2>8. d * Threads <= t
    BY <1>0, <2>2
  <2> HIDE DEF q
  <2>9. q[k] \in Nat /\ q[k] > 0 /\ q[k] * Threads <= times[k]
    BY <2>1, <2>3, <2>4, <2>8
  <2> QED BY <2>1, <2>4, <2>7, <2>9
<1> HIDE DEF q
<1>2. Queues(times, 1) = FoldLeft(Deal, NoQueues, Laid(q, Threads, Len(times)))
  BY <1>0, <1>1, QueuesAre
<1>3. PICK c \in Nat : /\ FoldLeft(Deal, NoQueues, Laid(q, Threads, Len(times))) = Levels(c, 0, 0)
                       /\ c * Threads <= Total(times)
  BY <1>1, Levelled
<1>4. {Levels(c, 0, 0)[w] : w \in 1 .. Threads} = {c}
  <2>1. \A w \in 1 .. Threads : Levels(c, 0, 0)[w] = c
    BY DEF Levels
  <2>2. 1 \in 1 .. Threads
    BY <1>0
  <2> QED BY <2>1, <2>2
<1>5. Max({c}) = c
  <2>1. c \in {c} /\ \A y \in {c} : c >= y
    OBVIOUS
  <2>2. PICK m : m = Max({c})
    OBVIOUS
  <2>3. m \in {c}
    BY <2>1, <2>2 DEF Max
  <2> QED BY <2>2, <2>3
<1>6. PICK total \in Nat : total = Total(times)
  <2>1. PICK K \in Nat : K = Len(times)
    OBVIOUS
  <2>2. PICK h \in [0 .. K -> Nat] : h[K] = Total(times)
    BY <2>1, Totalled
  <2>3. h[K] \in Nat
    BY <2>1
  <2> QED BY <2>2, <2>3
<1>7. PICK average \in Int, r \in Int : average = total \div Threads /\ total = average * Threads + r /\ 0 <= r /\ r < Threads
  BY <1>0
<1>8. c <= average
  <2> SUFFICES ASSUME c >= average + 1 PROVE FALSE
    OBVIOUS
  <2>1. c * Threads >= (average + 1) * Threads
    BY <1>0
  <2>2. (average + 1) * Threads = average * Threads + Threads
    BY <1>0
  <2>3. PICK x \in Int, y \in Int : x = c * Threads /\ y = average * Threads
    BY <1>0
  <2>4. x >= y + Threads
    BY <2>1, <2>2, <2>3
  <2>5. x <= total /\ total = y + r /\ r < Threads
    BY <1>3, <1>6, <1>7, <2>3
  <2> QED BY <1>0, <2>4, <2>5
<1>9. average = 0 \/ c * 100 < (100 + MinImbalance) * average
  <2> SUFFICES ASSUME average # 0 PROVE c * 100 < (100 + MinImbalance) * average
    OBVIOUS
  <2>1. average > 0 /\ MinImbalance \in Nat
    BY <1>8, DivisionAssumption
  <2>2. (100 + MinImbalance) * average = 100 * average + MinImbalance * average /\ MinImbalance * average > 0
    BY <2>1
  <2> QED BY <1>8, <2>1, <2>2
<1> QED BY <1>2, <1>3, <1>4, <1>5, <1>6, <1>7, <1>9 DEF Balanced

\* Lowering ends: at a natural number, and above 0 if 1 is balanced.
LEMMA Lowered ==
  ASSUME NEW times \in Seq(Nat)
  PROVE  /\ simulate(times) \in Nat
         /\ Balanced(times, 1) /\ (\E k \in DOMAIN times : times[k] > 0) => simulate(times) > 0
<1>1. PICK first \in Nat : /\ first = Max({0} \union {times[k] : k \in DOMAIN times})
                           /\ \A k \in DOMAIN times : times[k] <= first
  <2>1. PICK K \in Nat : K = Len(times) /\ DOMAIN times = 1 .. K /\ \A k \in 1 .. K : times[k] \in Nat
    OBVIOUS
  <2> DEFINE M(j) == {0} \union {times[k] : k \in 1 .. j}
             S == {j \in 0 .. K : \E m \in M(j) : \A x \in M(j) : m >= x}
  <2>2. 0 \in S
    <3>1. M(0) = {0}
      OBVIOUS
    <3> HIDE DEF M
    <3>a. 0 \in M(0) /\ \A x \in M(0) : 0 >= x
      BY <3>1
    <3>2. \E m \in M(0) : \A x \in M(0) : m >= x
      BY <3>a
    <3>3. 0 \in 0 .. K
      OBVIOUS
    <3> QED BY <3>2, <3>3
  <2>3. ASSUME NEW j \in 1 .. K, j - 1 \in S PROVE j \in S
    <3>1. M(j) = M(j - 1) \union {times[j]}
      <4>1. 1 .. j = (1 .. j - 1) \union {j}
        OBVIOUS
      <4> QED BY <4>1
    <3>2. M(j) \subseteq Nat
      BY <2>1
    <3>3. PICK m \in M(j - 1) : \A x \in M(j - 1) : m >= x
      BY <2>3
    <3> HIDE DEF M
    <3>4. m \in Nat /\ times[j] \in Nat
      BY <3>1, <3>2, <3>3
    <3>5. CASE m >= times[j]
      BY <3>1, <3>3, <3>5
    <3>6. CASE ~(m >= times[j])
      <4>1. \A x \in M(j) : times[j] >= x
        BY <3>1, <3>2, <3>3, <3>4, <3>6
      <4>2. times[j] \in M(j) /\ j \in 0 .. K
        BY <3>1
      <4> QED BY <4>1, <4>2
    <3> QED BY <3>5, <3>6
  <2>4. K \in S
    <3>1. K \in 0 .. K
      OBVIOUS
    <3> HIDE DEF S
    <3> QED BY <2>2, <2>3, <3>1, UpTo
  <2>5. PICK m \in M(K) : \A x \in M(K) : m >= x
    BY <2>4
  <2>6. M(K) \subseteq Nat /\ M(K) = {0} \union {times[k] : k \in DOMAIN times}
    BY <2>1
  <2> HIDE DEF M
  <2>7. Max(M(K)) = m
    BY <2>5, <2>6 DEF Max
  <2> QED BY <2>1, <2>5, <2>6, <2>7
<1> DEFINE B == {t \in 0 .. first : Balanced(times, t)}
           Lower(t) == (9 * t) \div 10
           Eq(f) == f = [t \in 0 .. first |-> IF Balanced(times, t) THEN t ELSE f[(9 * t) \div 10]]
           From(g, m) == \A t \in 0 .. m : g[t] = IF t \in B THEN t ELSE g[Lower(t)]
<1>2. simulate(times) = (CHOOSE f : Eq(f))[first]
  BY <1>1 DEF simulate
<1>3. 0 \in B
  BY BalancedAtZero
<1>4. \A t \in 1 .. first : Lower(t) \in 0 .. t - 1 /\ (t > 1 => Lower(t) >= 1)
  OBVIOUS
<1> HIDE DEF B, Lower
<1>5. \E g : g \in [0 .. first -> Nat] /\ From(g, first)
  <2> DEFINE S == {m \in 0 .. first : \E g \in [0 .. m -> Nat] : From(g, m)}
  <2>1. 0 \in S
    <3> DEFINE g == [t \in 0 .. 0 |-> 0]
    <3>1. g \in [0 .. 0 -> Nat] /\ From(g, 0)
      BY <1>3
    <3> HIDE DEF From, g
    <3> QED BY <3>1
  <2>2. ASSUME NEW m \in 1 .. first, m - 1 \in S PROVE m \in S
    <3>1. PICK g \in [0 .. m - 1 -> Nat] : From(g, m - 1)
      BY <2>2
    <3> DEFINE j == [t \in 0 .. m |-> IF t = m THEN (IF m \in B THEN m ELSE g[Lower(m)]) ELSE g[t]]
    <3>2. Lower(m) \in 0 .. m - 1
      BY <1>4
    <3>3. \A t \in 0 .. m : t # m => t \in 0 .. m - 1
      OBVIOUS
    <3>4. j \in [0 .. m -> Nat]
      BY <3>1, <3>2, <3>3
    <3>5. ASSUME NEW t \in 0 .. m PROVE j[t] = IF t \in B THEN t ELSE j[Lower(t)]
      <4>1. CASE t = m
        <5>1. Lower(m) \in 0 .. m /\ Lower(m) # m
          BY <3>2
        <5> QED BY <4>1, <5>1
      <4>2. CASE t # m
        <5>1. g[t] = IF t \in B THEN t ELSE g[Lower(t)]
          BY <3>1, <3>3, <4>2
        <5>2. t \notin B => t \in 1 .. first
          BY <1>3
        <5>3. t \notin B => Lower(t) \in 0 .. m /\ Lower(t) # m
          BY <1>4, <5>2
        <5> QED BY <4>2, <5>1, <5>3
      <4> QED BY <4>1, <4>2
    <3> HIDE DEF j
    <3>6. From(j, m)
      BY <3>5
    <3> HIDE DEF From
    <3>7. m \in 0 .. first
      OBVIOUS
    <3> QED BY <3>4, <3>6, <3>7
  <2>3. first \in S
    <3>1. first \in 0 .. first
      OBVIOUS
    <3> HIDE DEF S
    <3> QED BY <2>1, <2>2, <3>1, UpTo
  <2> QED BY <2>3
<1>6. PICK g \in [0 .. first -> Nat] : Eq(g)
  <2>1. PICK g \in [0 .. first -> Nat] : From(g, first)
    BY <1>5
  <2>2. Eq(g)
    BY <2>1 DEF B, Lower
  <2> QED BY <2>2
<1>7. PICK f : f = (CHOOSE f0 : Eq(f0))
  OBVIOUS
<1>8. Eq(f)
  <2> HIDE DEF Eq
  <2> QED BY <1>6, <1>7
<1>9. \A t \in 0 .. first : f[t] = IF t \in B THEN t ELSE f[Lower(t)]
  BY <1>8 DEF B, Lower
<1> HIDE DEF Eq, From
<1> DEFINE Fine(t) == f[t] \in Nat /\ (t > 0 /\ Balanced(times, 1) => f[t] > 0)
           S == {m \in 0 .. first : \A t \in 0 .. m : Fine(t)}
<1>10. 0 \in S
  BY <1>3, <1>9
<1>11. ASSUME NEW m \in 1 .. first, m - 1 \in S PROVE m \in S
  <2>1. ASSUME m \in B PROVE Fine(m)
    BY <1>9, <2>1
  <2>2. ASSUME m \notin B PROVE Fine(m)
    <3>1. f[m] = f[Lower(m)] /\ Lower(m) \in 0 .. m - 1 /\ (m > 1 => Lower(m) >= 1)
      BY <1>4, <1>9, <2>2
    <3>2. Fine(Lower(m))
      BY <1>11, <3>1
    <3>3. Balanced(times, 1) => m > 1
      <4>1. Balanced(times, 1) /\ m = 1 => m \in B
        BY DEF B
      <4> QED BY <2>2, <4>1
    <3> QED BY <3>1, <3>2, <3>3
  <2>3. \A t \in 0 .. m : t = m \/ t \in 0 .. m - 1
    OBVIOUS
  <2>4. Fine(m)
    BY <2>1, <2>2
  <2>5. m \in 0 .. first /\ \A t \in 0 .. m - 1 : Fine(t)
    BY <1>11
  <2> HIDE DEF Fine
  <2> QED BY <2>3, <2>4, <2>5
<1>12. first \in S
  <2>1. first \in 0 .. first
    OBVIOUS
  <2> HIDE DEF S
  <2> QED BY <1>10, <1>11, <2>1, UpTo
<1>13. Fine(first)
  BY <1>12
<1>14. (\E k \in DOMAIN times : times[k] > 0) => first > 0
  <2>1. \A k \in DOMAIN times : times[k] \in Nat
    OBVIOUS
  <2> QED BY <1>1, <2>1
<1> QED BY <1>2, <1>7, <1>13, <1>14

\* Of a world: the times are natural numbers, and those of all patterns of two edges
\* are among them.
LEMMA TimesAre ==
  ASSUME NEW w \in Worlds
  PROVE  Times(w) \in Seq(Nat) /\ ((\E k \in DOMAIN w.order : Cardinality(w.order[k]) = 2) => Len(Times(w)) > 0)
<1> DEFINE R == Seq(Nat)
<1>1. PICK n \in Nat : n = Len(w.order) /\ DOMAIN w.order = 1 .. n /\ \A k \in 1 .. n : w.order[k] \in DOMAIN w.pred
  <2>1. PICK S : S = DOMAIN w.pred /\ w.order \in Seq(S)
    BY WorldAssumption
  <2>2. Len(w.order) \in Nat /\ DOMAIN w.order = 1 .. Len(w.order) /\ \A k \in 1 .. Len(w.order) : w.order[k] \in S
    BY <2>1
  <2> QED BY <2>1, <2>2
<1>2. \A p \in DOMAIN w.pred : w.pred[p].time \in Nat
  BY WorldAssumption
<1>3. \A p \in DOMAIN w.pred : Cardinality(p) = 2 => p \in Known(w)
  BY DEF Known
<1> DEFINE G == [p \in R \X (1 .. n) |-> IF w.order[p[2]] \in Known(w) THEN Append(p[1], w.pred[w.order[p[2]]].time) ELSE p[1]]
           Eq(it) == it = [d \in SUBSET (1 .. n) |-> IF d = {} THEN <<>> ELSE
                             IF w.order[Max(d)] \in Known(w) THEN Append(it[d \ {Max(d)}], w.pred[w.order[Max(d)]].time)
                                                              ELSE it[d \ {Max(d)}]]
<1>4. Times(w) = (CHOOSE it : Eq(it))[1 .. n]
  BY <1>1 DEF Times, FoldLeft, MapThenFoldSet
<1>5. <<>> \in R
  OBVIOUS
<1>6. ASSUME NEW y \in R, NEW k \in 1 .. n
      PROVE  /\ G[<<y, k>>] = IF w.order[k] \in Known(w) THEN Append(y, w.pred[w.order[k]].time) ELSE y
             /\ G[<<y, k>>] \in R /\ Len(G[<<y, k>>]) >= Len(y)
             /\ w.order[k] \in Known(w) => Len(G[<<y, k>>]) > 0
  <2>1. G[<<y, k>>] = IF w.order[k] \in Known(w) THEN Append(y, w.pred[w.order[k]].time) ELSE y
    <3> HIDE DEF R
    <3> QED OBVIOUS
  <2>2. w.pred[w.order[k]].time \in Nat
    BY <1>1, <1>2
  <2> HIDE DEF G
  <2> QED BY <2>1, <2>2
<1> HIDE DEF R, G
<1>7. PICK it \in [SUBSET (1 .. n) -> R] : Folding(it, n, <<>>, G)
  <2>1. \A y \in R, k \in 1 .. n : G[<<y, k>>] \in R
    BY <1>6
  <2> QED BY <1>5, <2>1, FoldingExists
<1>8. Eq(it)
  <2>1. ASSUME NEW d \in SUBSET (1 .. n), d # {}
        PROVE  it[d] = IF w.order[Max(d)] \in Known(w) THEN Append(it[d \ {Max(d)}], w.pred[w.order[Max(d)]].time)
                                                          ELSE it[d \ {Max(d)}]
    <3>1. Max(d) \in 1 .. n /\ LastOut(d) \in SUBSET (1 .. n)
      BY <2>1, LastIs DEF LastOut
    <3>2. it[d] = G[<<it[LastOut(d)], Max(d)>>] /\ it[LastOut(d)] \in R
      BY <1>7, <2>1, <3>1 DEF Folding
    <3> QED BY <1>6, <3>1, <3>2 DEF LastOut
  <2>2. it[{}] = <<>>
    BY <1>7 DEF Folding
  <2> QED BY <1>7, <2>1, <2>2
<1>9. PICK f : f = (CHOOSE it0 : Eq(it0))
  OBVIOUS
<1>10. Eq(f)
  <2> HIDE DEF Eq
  <2> QED BY <1>8, <1>9
<1>11. /\ f[{}] = <<>>
       /\ \A d \in SUBSET (1 .. n) : d # {} =>
             f[d] = IF w.order[Max(d)] \in Known(w) THEN Append(f[LastOut(d)], w.pred[w.order[Max(d)]].time) ELSE f[LastOut(d)]
  BY <1>10 DEF LastOut
<1> HIDE DEF Eq
<1>12. Stays(n, R, G) /\ Steps(f, n, R, <<>>, G)
  <2>1. ASSUME NEW d \in SUBSET (1 .. n), d # {}, f[LastOut(d)] \in R
        PROVE  f[d] = G[<<f[LastOut(d)], Max(d)>>]
    <3>1. Max(d) \in 1 .. n
      BY <2>1, LastIs
    <3> QED BY <1>6, <1>11, <2>1, <3>1
  <2> QED BY <1>6, <1>11, <2>1 DEF Stays, Steps
<1>13. PICK h : Trace(h, n, R, <<>>, G) /\ h[n] = f[1 .. n]
  BY <1>5, <1>12, Traced
<1> DEFINE Has(k) == \A i \in 1 .. k : w.order[i] \in Known(w) => Len(h[k]) > 0
           S == {k \in 0 .. n : Has(k)}
<1>14. 0 \in S
  OBVIOUS
<1>15. ASSUME NEW k \in 1 .. n, k - 1 \in S PROVE k \in S
  <2>1. h[k] = G[<<h[k - 1], k>>] /\ h[k - 1] \in R
    BY <1>13 DEF Trace
  <2>2. Len(h[k]) >= Len(h[k - 1]) /\ (w.order[k] \in Known(w) => Len(h[k]) > 0) /\ h[k] \in R
    BY <1>6, <2>1
  <2>3. Len(h[k]) \in Nat /\ Len(h[k - 1]) \in Nat
    BY <2>1, <2>2 DEF R
  <2>4. ASSUME NEW i \in 1 .. k, w.order[i] \in Known(w) PROVE Len(h[k]) > 0
    <3>1. CASE i = k
      BY <2>2, <2>4, <3>1
    <3>2. CASE i # k
      <4>1. i \in 1 .. k - 1 /\ Has(k - 1)
        BY <1>15, <3>2
      <4> QED BY <2>2, <2>3, <2>4, <4>1
    <3> QED BY <3>1, <3>2
  <2> QED BY <2>4
<1> HIDE DEF S
<1>16. n \in S
  <2>1. n \in 0 .. n
    OBVIOUS
  <2> HIDE DEF Has
  <2> QED BY <1>14, <1>15, <2>1, UpTo
<1>17. Has(n)
  BY <1>16 DEF S
<1>18. Times(w) = h[n] /\ h[n] \in R
  BY <1>4, <1>9, <1>13 DEF Trace
<1> QED BY <1>1, <1>3, <1>17, <1>18 DEF R

-----------------------------------------------------------------------------
(* The start.                                                               *)

LEMMA MostPartsPositive == MostParts \in Int /\ MostParts > 0
<1>1. PICK a \in Nat, b \in Nat : a = NumWorkers - 1 /\ b = NumWorkers - Threads /\ a > 0 /\ b > 0
  BY DivisionAssumption
<1>2. a * b \in Int /\ a * b > 0
  BY <1>1
<1> QED BY <1>1, <1>2 DEF MostParts

LEMMA InitIInv == Init => IInv
<1> SUFFICES ASSUME Init PROVE IInv
  OBVIOUS
<1>1. /\ world \in Worlds /\ threshold = simulate(Times(world))
      /\ candidates = {<<p, 1>> : p \in Known(world)} /\ checking = {} /\ processed = {}
      /\ object = [id \in candidates |-> BorrowTimeInfor(NewPattern, Entry(world.pred[Of(id)], 1))]
      /\ frequent \subseteq world.truth /\ infrequent = {}
      /\ wire = [w \in Worker |-> Idle]
      /\ pc = IF threshold = 0 THEN "undefined" ELSE "dispatch"
  BY DEF Init
<1>2. threshold \in Nat
  <2>1. Times(world) \in Seq(Nat)
    BY <1>1, TimesAre
  <2> QED BY <1>1, <2>1, Lowered
<1>3. /\ IsFiniteSet(Patterns) /\ Known(world) \subseteq Patterns
      /\ \A p \in Patterns : /\ world.pred[p] \in [freq : BOOLEAN, time : Nat, col : Int, exact : BOOLEAN]
                             /\ world.pred[p].exact => (world.pred[p].freq <=> p \in world.truth)
  BY <1>1, WorldAssumption DEF Patterns, Known
<1>4. /\ Originals = candidates /\ Busy = {} /\ \A id \in candidates : ~Copy(id) /\ id \in Ids /\ Of(id) \in Patterns
      /\ \A i, j \in candidates : Of(i) = Of(j) => i = j
  BY <1>1, <1>3 DEF Originals, Busy, Copy, Of, Ids
<1>5. IsFiniteSet(candidates)
  <2>1. IsFiniteSet(Known(world))
    BY <1>3, FS_Subset
  <2>2. PICK f : f = [p \in Known(world) |-> <<p, 1>>]
    OBVIOUS
  <2>3. IsFiniteSet({f[p] : p \in Known(world)})
    BY <2>1, <2>2, ImageFinite
  <2>4. {f[p] : p \in Known(world)} = candidates
    BY <1>1, <2>2
  <2> QED BY <2>3, <2>4
<1>6. ASSUME NEW id \in candidates PROVE object[id] \in Objects /\ object[id].fixed <= 1
  <2>1. PICK e : e = Entry(world.pred[Of(id)], 1)
    OBVIOUS
  <2>2. e \in Entries /\ e.parts = 1
    BY <1>3, <1>4, <2>1, EntryIs
  <2>3. NewPattern \in Objects /\ ~(NewPattern.fixed > 1)
    BY DEF NewPattern, Objects, NoCol
  <2>4. PICK s : s = SetSubtasking(NewPattern, 1)
    OBVIOUS
  <2>5. s \in Objects /\ s.fixed = Capped(1)
    BY <2>3, <2>4, SubtaskingIs
  <2>6. PICK c \in Int : c = e.col
    BY <2>2 DEF Entries
  <2>7. object[id] = SetInvalidCol(s, c)
    BY <1>1, <2>1, <2>2, <2>3, <2>4, <2>6 DEF BorrowTimeInfor
  <2>8. object[id] \in Objects /\ object[id].fixed = s.fixed
    BY <2>5, <2>7, ColumnIs
  <2>9. Capped(1) <= 1
    <3>1. NumWorkers \in Int
      BY DivisionAssumption
    <3>2. PICK a \in Int, b \in Int : a = 1 /\ b = NumWorkers
      BY <3>1
    <3>3. Min({a, b}) <= a
      BY MinOfTwo
    <3> QED BY <3>2, <3>3 DEF Capped
  <2> QED BY <2>5, <2>8, <2>9
<1>7. ASSUME NEW p \in Patterns
      PROVE  /\ expected[p] \in Entries /\ (expected[p] # None => expected[p].parts > 0)
             /\ expected[p].exact => (expected[p].freq <=> p \in world.truth)
  <2>1. CASE p \notin Known(world)
    <3>1. expected[p] = None
      BY <2>1 DEF Init
    <3>2. None \in Entries /\ ~None.exact
      BY DEF None, NoCol, Entries
    <3> QED BY <3>1, <3>2
  <2>2. CASE p \in Known(world)
    <3>1. PICK e : e = world.pred[p]
      OBVIOUS
    <3>2. e \in [freq : BOOLEAN, time : Nat, col : Int, exact : BOOLEAN] /\ (e.exact => (e.freq <=> p \in world.truth))
      BY <1>3, <3>1
    <3>3. PICK n \in Int : n = (IF threshold = 0 THEN 1 ELSE Divided(e.time, threshold, MostParts)) /\ n > 0
      <4>1. e.time \in Nat
        BY <3>2
      <4>2. CASE threshold = 0
        BY <4>2
      <4>3. CASE threshold # 0
        <5>1. PICK most \in Int : most = MostParts /\ most > 0
          BY MostPartsPositive
        <5>2. Divided(e.time, threshold, most) \in Int /\ Divided(e.time, threshold, most) > 0
          BY <1>2, <4>1, <4>3, <5>1, DividedPositive
        <5> QED BY <4>3, <5>1, <5>2
      <4> QED BY <4>2, <4>3
    <3>4. expected[p] = Entry(e, n)
      BY <2>2, <3>1, <3>3 DEF Init
    <3>5. expected[p] \in Entries /\ expected[p].parts = n /\ expected[p].exact = e.exact /\ expected[p].freq = e.freq
      BY <3>2, <3>4, EntryIs
    <3> QED BY <3>2, <3>3, <3>5
  <2> QED BY <2>1, <2>2
<1>8. TypeOK
  <2>1. expected \in [Patterns -> Entries]
    BY <1>7 DEF Init
  <2>2. object \in [Originals -> Objects]
    BY <1>1, <1>4, <1>6
  <2>3. wire \in [Worker -> {Idle} \union Short \union Part \union Task]
    BY <1>1
  <2>4. candidates \subseteq Ids /\ checking \subseteq Ids /\ IsFiniteSet(checking)
    BY <1>1, <1>4, FS_EmptySet
  <2>5. pc \in {"undefined", "dispatch", "receive", "done"} /\ (pc # "undefined" => threshold > 0)
    BY <1>1, <1>2
  <2> QED BY <1>1, <1>2, <1>5, <2>1, <2>2, <2>3, <2>4, <2>5 DEF TypeOK
<1>9. KindInv
  BY <1>4 DEF KindInv
<1>10. ExpectedInv
  BY <1>7 DEF ExpectedInv
<1>11. ColumnInv
  <2> SUFFICES ASSUME NEW id \in candidates, object[id].fixed > 1 PROVE FALSE
    BY <1>4 DEF ColumnInv
  <2>1. object[id].fixed \in Int /\ object[id].fixed <= 1
    BY <1>6 DEF Objects
  <2> QED BY <2>1
<1>12. PostponeHasColumn
  BY <1>1 DEF PostponeHasColumn, Idle
<1>13. OneObject
  BY <1>1, <1>4 DEF OneObject, OfAll
<1>14. ASSUME NEW id \in Originals PROVE Round(id)
  <2>1. Sent(id) = {} /\ id \notin checking
    BY <1>1, <1>4 DEF Sent
  <2>2. ~(object[id].fixed > 1)
    <3>1. object[id].fixed \in Int /\ object[id].fixed <= 1
      BY <1>4, <1>6 DEF Objects
    <3> QED BY <3>1
  <2> QED BY <2>1, <2>2 DEF Round, Resting
<1>15. Sound
  BY <1>1 DEF Sound
<1> QED BY <1>8, <1>9, <1>10, <1>11, <1>12, <1>13, <1>14, <1>15 DEF IInv
-----------------------------------------------------------------------------
(* The invariant and what follows.                                          *)

LEMMA NextIInv == IInv /\ [Next]_vars => IInv'
<1> SUFFICES ASSUME IInv, [Next]_vars PROVE IInv'
  OBVIOUS
<1>1. ASSUME NEW w \in Worker, AnswerLate(w) PROVE IInv'
  BY <1>1, AnswerLateIInv
<1>2. ASSUME NEW w \in Worker, AnswerFrequent(w) PROVE IInv'
  BY <1>2, AnswerFrequentIInv
<1>3. ASSUME NEW w \in Worker, AnswerInfrequent(w) PROVE IInv'
  BY <1>3, AnswerInfrequentIInv
<1>4. ASSUME NEW w \in Worker, AnswerPart(w) PROVE IInv'
  BY <1>4, AnswerPartIInv
<1>5. ASSUME NEW w \in Worker, AnswerPredicted(w) PROVE IInv'
  BY <1>5, AnswerPredictedIInv
<1>6. ASSUME NEW id \in candidates, SendForPrediction(id) PROVE IInv'
  BY <1>6, SendForPredictionIInv
<1>7. ASSUME NEW id \in candidates, DecideByPrediction(id) PROVE IInv'
  BY <1>7, DecideByPredictionIInv
<1>8. ASSUME NEW id \in candidates, Send(id) PROVE IInv'
  BY <1>8, SendIInv
<1>9. ASSUME NEW w \in Worker, Work(w) PROVE IInv'
  BY <1>9, WorkIInv
<1>10. ASSUME NextTurn \/ UNCHANGED vars PROVE IInv'
  BY <1>10, TurnIInv
<1> QED BY <1>1, <1>2, <1>3, <1>4, <1>5, <1>6, <1>7, <1>8, <1>9, <1>10 DEF Next, Master, Ended

\* IInv holds in every state: types, what is predicted and what is counted, and
\* for each pattern that its messages and its object are of one round.
THEOREM Invariance == Spec => []IInv
BY InitIInv, NextIInv, PTL DEF Spec

\* A pattern is put among the frequent ones only if it is frequent, and among
\* the infrequent ones only if it is not, whatever is late, divided, counted
\* again or predicted (patternFoundFrequent, patternFoundInFrequent).
THEOREM ExactSound == Spec => []Sound
<1>1. IInv => Sound
  BY DEF IInv
<1> QED BY <1>1, Invariance, PTL

\* No thread is asked to postpone nodes without an invalid column, which it
\* answers by leaving (Worker.cpp).
THEOREM ExactPostpone == Spec => []PostponeHasColumn
<1>1. IInv => PostponeHasColumn
  BY DEF IInv
<1> QED BY <1>1, Invariance, PTL

\* No two objects of a pattern are candidates or checked, and no candidate is
\* processed (MinerX2.cpp keeps candidates, currentlyChecking and processed).
THEOREM ExactOneObject == Spec => []OneObject
<1>1. IInv => OneObject
  BY DEF IInv
<1> QED BY <1>1, Invariance, PTL

\* The parts that subTaskDone adds up are those of the present division, each
\* once, and remainingSubtasks counts those that are missing.
THEOREM ExactPartsOnce == Spec => []PartsOnce
<1>1. IInv => PartsOnce
  <2> SUFFICES ASSUME IInv, NEW id \in checking, ~Copy(id), object[id].fixed > 1
               PROVE  Stray \notin object[id].got /\ Cardinality(object[id].got) = object[id].fixed - object[id].rem
    BY DEF PartsOnce
  <2>1. id \in Originals
    BY DEF Originals
  <2>2. PICK fixed \in Int, left \in Int, got \in SUBSET Int : fixed = object[id].fixed /\ left = object[id].left /\ got = object[id].got
    BY <2>1 DEF IInv, TypeOK, Objects
  <2>3. InParts(id)
    BY <2>1, <2>2 DEF IInv, Round
  <2>4. left \in 0 .. fixed /\ got \subseteq left .. fixed - 1 /\ object[id].rem = fixed - Cardinality(got)
    BY <2>2, <2>3 DEF InParts
  <2>5. Stray \notin got
    BY <2>4 DEF Stray
  <2>6. Cardinality(got) \in Nat
    <3>1. IsFiniteSet(left .. fixed - 1)
      BY FS_Interval
    <3> QED BY <2>4, <3>1, FS_Subset, FS_CardinalityType
  <2> QED BY <2>2, <2>4, <2>5, <2>6
<1> QED BY <1>1, Invariance, PTL

\* There is no way back to where no threshold was found.
LEMMA UndefinedStays ==
  ASSUME [Next]_vars
  PROVE  world' = world /\ (pc' = "undefined" => pc = "undefined")
<1>1. ASSUME NEW w, NEW kind, Receive(w, kind) PROVE world' = world /\ pc' = "dispatch"
  BY <1>1 DEF Receive, known
<1>2. ASSUME NEW w \in Worker, AnswerLate(w) \/ AnswerFrequent(w) \/ AnswerInfrequent(w) \/ AnswerPart(w) \/ AnswerPredicted(w)
      PROVE  world' = world /\ pc' = "dispatch"
  BY <1>1, <1>2 DEF AnswerLate, AnswerFrequent, AnswerInfrequent, AnswerPart, AnswerPredicted
<1>3. ASSUME NEW id \in candidates, SendForPrediction(id) \/ DecideByPrediction(id) \/ Send(id)
      PROVE  world' = world /\ pc' = pc
  BY <1>3 DEF SendForPrediction, DecideByPrediction, Send, Select, known
<1>4. ASSUME NextTurn PROVE world' = world /\ pc' # "undefined"
  BY <1>4 DEF NextTurn, known
<1>5. ASSUME (\E w \in Worker : Work(w)) \/ UNCHANGED vars PROVE world' = world /\ pc' = pc
  BY <1>5 DEF Work, known, vars
<1> QED BY <1>2, <1>3, <1>4, <1>5 DEF Next, Master, Ended

\* What is predicted gives a threshold, as long as no predicted time is shorter than
\* there are threads: dealt in as many parts as there are queues, the times leave the
\* queues level, and lowering the threshold meets 1 before 0 (divideFFun4, evaluate).
THEOREM ThresholdIsFound ==
  ASSUME SomePredicted
  PROVE  Spec => []ThresholdFound
<1>1. Init => ThresholdFound
  <2> SUFFICES ASSUME Init, \A k \in DOMAIN Times(world) : ~(Times(world)[k] < Threads)
               PROVE  pc # "undefined"
    BY DEF ThresholdFound
  <2>1. world \in Worlds /\ threshold = simulate(Times(world)) /\ pc = IF threshold = 0 THEN "undefined" ELSE "dispatch"
    BY DEF Init
  <2>2. PICK times \in Seq(Nat) : times = Times(world) /\ Len(times) > 0
    BY <2>1, TimesAre DEF SomePredicted
  <2>3. DOMAIN times = 1 .. Len(times) /\ \A k \in 1 .. Len(times) : times[k] \in Nat /\ times[k] >= Threads
    BY <2>2, DivisionAssumption
  <2>4. Balanced(times, 1)
    BY <2>2, <2>3, BalancedAtOne DEF SomePredicted
  <2>5. 1 \in DOMAIN times /\ times[1] > 0
    BY <2>2, <2>3, DivisionAssumption
  <2>6. simulate(times) > 0 /\ simulate(times) \in Nat
    BY <2>4, <2>5, Lowered
  <2> QED BY <2>1, <2>2, <2>6
<1>2. ThresholdFound /\ [Next]_vars => ThresholdFound'
  <2> SUFFICES ASSUME ThresholdFound, [Next]_vars PROVE ThresholdFound'
    OBVIOUS
  <2>1. world' = world /\ (pc' = "undefined" => pc = "undefined")
    BY UndefinedStays
  <2>2. Times(world)' = Times(world)
    BY <2>1
  <2> QED BY <2>1, <2>2 DEF ThresholdFound
<1> QED BY <1>1, <1>2, PTL DEF Spec
-----------------------------------------------------------------------------
(* ExactMaster implements PatternMining: the exact phase ends with all       *)
(* frequent patterns found, for any worlds as graphs make them, any          *)
(* predictions, any number of threads, and no hard labels (of hard labels    *)
(* getNumElems does not count the candidates, and the phase may end before   *)
(* them).                                                                    *)

-----------------------------------------------------------------------------
(* What a step does to what is found.                                       *)

\* A step of the loop: at most one pattern is decided, and the phase goes on.
Decides ==
  /\ world' = world /\ pc # "done" /\ pc' # "done"
  /\ \/ infrequent' = infrequent /\ \E p : frequent' = frequent \union {p}
     \/ frequent' = frequent /\ \E p : infrequent' = infrequent \union {p}
     \/ UNCHANGED <<frequent, infrequent>>

\* The steps that lose no pattern: what is a candidate or counted stays so unless
\* it is decided, and what is handed out was a candidate.
LEMMA StillAccounted ==
  ASSUME NoneLost, world' = world, frequent \subseteq frequent',
         \A id \in Originals : Of(id) \in world.truth => Of(id) \in frequent' \/ Of(id) \in OfAll(Originals)',
         \A p \in processed' : p \in processed \/ p \in OfAll(Originals),
         \A id \in checking' : id \in checking \/ Of(id) \in OfAll(Originals),
         \A p \in Patterns : p \in world.truth /\ Joined(p, frequent') => Joined(p, frequent) \/ Accounted(p) \/ Accounted(p)'
  PROVE  NoneLost'
<1>1. Patterns' = Patterns
  BY DEF Patterns
<1>2. ASSUME NEW p \in Patterns, p \in world.truth, Accounted(p)
      PROVE  Accounted(p)'
  BY <1>2 DEF Accounted, OfAll
<1>3. ASSUME NEW p \in Patterns, p \in world.truth, Due(p)'
      PROVE  Accounted(p)'
  <2>1. CASE Cardinality(p) = 2
    BY <1>2, <1>3, <2>1 DEF NoneLost, Due
  <2>2. CASE p \in processed'
    <3>1. p \in processed \/ Accounted(p)
      BY <2>2 DEF Accounted
    <3> QED BY <1>2, <1>3, <3>1 DEF NoneLost, Due
  <2>3. CASE p \in OfAll(checking')
    <3>1. p \in OfAll(checking) \/ Accounted(p)
      BY <2>3 DEF OfAll, Accounted
    <3> QED BY <1>2, <1>3, <3>1 DEF NoneLost, Due
  <2>4. CASE Joined(p, frequent')
    <3>1. Joined(p, frequent) \/ Accounted(p) \/ Accounted(p)'
      BY <1>3, <2>4
    <3> QED BY <1>2, <1>3, <3>1 DEF NoneLost, Due
  <2>5. Cardinality(p) = 2 \/ p \in processed' \/ p \in OfAll(checking') \/ Joined(p, frequent')
    BY <1>3 DEF Due, OfAll, Joined
  <2> QED BY <2>1, <2>2, <2>3, <2>4, <2>5
<1>4. \A p \in world'.truth : Cardinality(p) = 1 => p \in frequent'
  BY DEF NoneLost
<1>5. \A p \in Patterns' \intersect world'.truth : Due(p)' => Accounted(p)'
  BY <1>1, <1>3
<1> QED BY <1>4, <1>5 DEF NoneLost

\* A step that finds nothing.
LEMMA NothingFound ==
  ASSUME NoneLost, UNCHANGED <<world, frequent>>,
         \A id \in Originals : Of(id) \in OfAll(Originals)',
         \A p \in processed' : p \in processed \/ p \in OfAll(Originals),
         \A id \in checking' : id \in checking \/ Of(id) \in OfAll(Originals)
  PROVE  NoneLost'
BY StillAccounted

\* patternFoundFrequent makes a candidate of each join that is not accounted for.
LEMMA FrequentLosesNone ==
  ASSUME IInv, NoneLost, NEW id \in Originals, NEW gone \in {{}, {id}}, PatternFoundFrequent(Of(id), gone),
         UNCHANGED <<world, processed>>, checking' \subseteq checking, checking \ {id} \subseteq checking'
  PROVE  NoneLost' /\ infrequent' = infrequent /\ \E p : frequent' = frequent \union {p}
<1> DEFINE p   == Of(id)
           new == {NewId(r) : r \in Extensions(p, frequent')}
<1>1. /\ frequent' = frequent \union {p} /\ infrequent' = infrequent
      /\ candidates' = (candidates \ gone) \union new
  BY DEF PatternFoundFrequent
<1>2. \A i \in Originals : Of(i) \in frequent' \/ Of(i) \in OfAll(Originals)'
  <2> SUFFICES ASSUME NEW i \in Originals, i # id PROVE Of(i) \in OfAll(Originals)'
    BY <1>1
  <2>1. i \in Originals'
    <3>1. ~Copy(i) /\ (i \in candidates \/ i \in checking)
      BY DEF Originals
    <3>2. i \in candidates' \/ i \in checking'
      BY <1>1, <3>1
    <3> QED BY <3>1, <3>2 DEF Originals
  <2> QED BY <2>1 DEF OfAll
<1>3. ASSUME NEW r \in Patterns, r \in world.truth, Joined(r, frequent')
      PROVE  Joined(r, frequent) \/ Accounted(r) \/ Accounted(r)'
  <2> SUFFICES ASSUME ~Joined(r, frequent) PROVE Accounted(r) \/ Accounted(r)'
    OBVIOUS
  <2>1. PICK s, t \in frequent \union {p} : Cardinality(s) = Cardinality(t) /\ Cardinality(r) = Cardinality(s) + 1 /\ r = s \union t
    BY <1>1, <1>3 DEF Joined
  <2>2. s = p \/ t = p
    BY <2>1 DEF Joined
  <2>3. \E q \in frequent' : Cardinality(q) = Cardinality(p) /\ Cardinality(r) = Cardinality(p) + 1 /\ r = p \union q
    <3>1. CASE s = p
      BY <1>1, <2>1, <3>1
    <3>2. CASE t = p
      <4>1. r = t \union s
        BY <2>1
      <4> QED BY <1>1, <2>1, <3>2, <4>1
    <3> QED BY <2>2, <3>1, <3>2
  <2>4. CASE r \in processed' \/ r \in OfAll(checking')
    <3>1. r \in processed \/ r \in OfAll(checking)
      BY <2>4 DEF OfAll
    <3> QED BY <1>3, <3>1 DEF NoneLost, Due
  <2>5. CASE r \in OfAll(candidates)
    <3>1. OfAll(candidates) \subseteq OfAll(Originals)
      BY DEF IInv, KindInv, OfAll, Originals
    <3> QED BY <2>5, <3>1 DEF Accounted
  <2>6. CASE r \notin processed' /\ r \notin OfAll(checking') /\ r \notin OfAll(candidates)
    <3>1. r \in Extensions(p, frequent')
      BY <2>3, <2>6 DEF Extensions
    <3>2. PICK n : n = NewId(r)
      OBVIOUS
    <3>3. n \in candidates' /\ ~Copy(n) /\ Of(n) = r
      BY <1>1, <3>1, <3>2, Fresh DEF IInv
    <3>4. r \in OfAll(Originals)'
      BY <3>3 DEF OfAll, Originals
    <3> QED BY <3>4 DEF Accounted
  <2> QED BY <2>4, <2>5, <2>6
<1>4. NoneLost'
  <2>1. \A q \in processed' : q \in processed
    OBVIOUS
  <2>2. \A i \in checking' : i \in checking
    OBVIOUS
  <2>3. frequent \subseteq frequent'
    BY <1>1
  <2> HIDE DEF p, new
  <2> QED BY <1>2, <1>3, <2>1, <2>2, <2>3, StillAccounted
<1> QED BY <1>1, <1>4

\* patternFoundInFrequent drops supergraphs of an infrequent pattern: none is frequent.
LEMMA InfrequentLosesNone ==
  ASSUME IInv, IInv', NoneLost, WorldsClosed, NEW id \in Originals, NEW gone \in {{}, {id}}, NEW rest,
         PatternFoundInFrequent(Of(id), gone, rest), rest \subseteq checking, checking \ {id} \subseteq rest,
         UNCHANGED <<world, processed>>
  PROVE  NoneLost' /\ frequent' = frequent /\ \E p : infrequent' = infrequent \union {p}
<1>1. PICK p \in Patterns : p = Of(id)
  BY DEF IInv, TypeOK, Originals, Ids, Of
<1>2. PICK supers \in SUBSET candidates :
        /\ infrequent' = infrequent \union {p} /\ frequent' = frequent
        /\ candidates' = (candidates \ gone) \ supers /\ checking' = rest \ supers
        /\ \A i \in supers : p \subseteq Of(i)
  <2> DEFINE above == {n \in {Size(i) : i \in candidates} : n > Cardinality(p)}
             mixed == {n \in above : \E i \in candidates : Size(i) = n /\ ~(p \subseteq Of(i))}
  <2>0. PatternFoundInFrequent(p, gone, rest)
    BY <1>1
  <2>1. PICK stopped \in SUBSET mixed :
          /\ candidates' = (candidates \ gone) \ UNION {Supers(p, n) : n \in above \ stopped}
          /\ checking' = rest \ UNION {Supers(p, n) : n \in above \ stopped}
    BY <2>0 DEF PatternFoundInFrequent
  <2>2. \A i \in UNION {Supers(p, n) : n \in above \ stopped} : i \in candidates /\ p \subseteq Of(i)
    BY DEF Supers
  <2>3. infrequent' = infrequent \union {p} /\ frequent' = frequent
    BY <2>0 DEF PatternFoundInFrequent
  <2> QED BY <2>1, <2>2, <2>3
<1>3. p \notin world.truth
  BY <1>2 DEF IInv, Sound
<1>4. ASSUME NEW q \in world.truth PROVE ~(p \subseteq q)
  BY <1>1, <1>3 DEF IInv, TypeOK, WorldsClosed, Patterns
<1>5. \A i \in Originals : Of(i) \in world.truth => Of(i) \in OfAll(Originals)'
  <2> SUFFICES ASSUME NEW i \in Originals, Of(i) \in world.truth PROVE i \in Originals'
    BY DEF OfAll
  <2>1. i # id /\ i \notin supers
    BY <1>1, <1>2, <1>3, <1>4
  <2>2. ~Copy(i) /\ (i \in candidates \/ i \in checking)
    BY DEF Originals
  <2>3. i \in candidates' \/ i \in checking'
    BY <1>2, <2>1, <2>2
  <2> QED BY <2>2, <2>3 DEF Originals
<1>6. \A i \in checking' : i \in checking
  BY <1>2
<1>7. NoneLost'
  BY <1>2, <1>5, <1>6, StillAccounted
<1> QED BY <1>2, <1>7

\* A pattern that goes back to the candidates is one of them or was counted.
LEMMA AgainLosesNone ==
  ASSUME IInv, NoneLost, NEW id \in Originals, NEW o, AddAgain(id, o), world' = world,
         checking' \subseteq checking, checking \ {id} \subseteq checking'
  PROVE  NoneLost' /\ UNCHANGED <<frequent, infrequent>>
<1>1. /\ processed' = processed \ {Of(id)} /\ UNCHANGED <<frequent, infrequent>>
      /\ candidates' = IF Of(id) \in OfAll(candidates) THEN candidates ELSE candidates \union {id}
  BY DEF AddAgain
<1>2. \A i \in Originals : Of(i) \in OfAll(Originals)'
  <2>1. ASSUME NEW i \in Originals, i # id PROVE i \in Originals'
    BY <1>1, <2>1 DEF Originals
  <2>2. Of(id) \in OfAll(Originals)'
    <3>1. CASE Of(id) \in OfAll(candidates)
      <4>1. PICK j \in candidates : Of(j) = Of(id)
        BY <3>1 DEF OfAll
      <4>2. ~Copy(j) /\ j \in candidates'
        BY <1>1, <3>1 DEF IInv, KindInv
      <4> QED BY <4>1, <4>2 DEF OfAll, Originals
    <3>2. CASE Of(id) \notin OfAll(candidates)
      BY <1>1, <3>2 DEF OfAll, Originals
    <3> QED BY <3>1, <3>2
  <2> QED BY <2>1, <2>2 DEF OfAll
<1>3. \A p \in processed' : p \in processed
  BY <1>1
<1> QED BY <1>1, <1>2, <1>3, NothingFound
-----------------------------------------------------------------------------
(* The answers.                                                             *)

LEMMA AnswerLateDecides ==
  ASSUME IInv, NoneLost, NEW w \in Worker, AnswerLate(w)
  PROVE  NoneLost' /\ Decides
<1>1. /\ pc = "receive" /\ pc' = "dispatch" /\ UNCHANGED <<world, candidates, checking, processed, frequent, infrequent>>
  BY DEF AnswerLate, Receive, known, lists
<1>2. Originals' = Originals
  BY <1>1 DEF Originals
<1>3. NoneLost'
  <2>1. \A id \in Originals : Of(id) \in OfAll(Originals)'
    BY <1>2 DEF OfAll
  <2> QED BY <1>1, <2>1, NothingFound
<1> QED BY <1>1, <1>3 DEF Decides

LEMMA AnswerFrequentDecides ==
  ASSUME IInv, NoneLost, NEW w \in Worker, AnswerFrequent(w)
  PROVE  NoneLost' /\ Decides
<1>0. PICK id : id = wire[w].id
  OBVIOUS
<1>1. /\ Receive(w, "t") /\ id \in checking /\ checking' = checking \ {id} /\ pc = "receive"
      /\ \/ /\ object[id].col # NoCol
            /\ ColumnWasValid(id, SetSubtasking(object[id], Quotient(expected[Of(id)].time, threshold)))
         \/ UNCHANGED <<processed, expected>> /\ PatternFoundFrequent(Of(id), {})
  BY <1>0 DEF AnswerFrequent, Receive
<1>2. UNCHANGED <<world, threshold>> /\ pc' = "dispatch" /\ id \in Originals
  BY <1>0, <1>1, Received
<1>3. checking' \subseteq checking /\ checking \ {id} \subseteq checking'
  BY <1>1
<1>4. CASE ColumnWasValid(id, SetSubtasking(object[id], Quotient(expected[Of(id)].time, threshold)))
  <2>1. PICK o : AddAgain(id, o)
    BY <1>4 DEF ColumnWasValid
  <2>2. NoneLost' /\ UNCHANGED <<frequent, infrequent>>
    BY <1>2, <1>3, <2>1, AgainLosesNone
  <2> QED BY <1>1, <1>2, <2>2 DEF Decides
<1>5. CASE UNCHANGED <<processed, expected>> /\ PatternFoundFrequent(Of(id), {})
  <2>1. NoneLost' /\ infrequent' = infrequent /\ \E p : frequent' = frequent \union {p}
    <3>1. PICK gone \in {{}, {id}} : gone = {}
      OBVIOUS
    <3>2. PatternFoundFrequent(Of(id), gone)
      BY <1>5, <3>1
    <3> QED BY <1>2, <1>3, <1>5, <3>2, FrequentLosesNone
  <2> QED BY <1>1, <1>2, <2>1 DEF Decides
<1> QED BY <1>1, <1>4, <1>5

LEMMA AnswerInfrequentDecides ==
  ASSUME IInv, IInv', NoneLost, WorldsClosed, NEW w \in Worker, AnswerInfrequent(w)
  PROVE  NoneLost' /\ Decides
<1>0. PICK id : id = wire[w].id
  OBVIOUS
<1>1. /\ Receive(w, "f") /\ id \in checking /\ pc = "receive"
      /\ PatternFoundInFrequent(Of(id), {}, checking \ {id}) /\ processed' = processed
  BY <1>0 DEF AnswerInfrequent, Receive
<1>2. UNCHANGED <<world, threshold>> /\ pc' = "dispatch" /\ id \in Originals
  BY <1>0, <1>1, Received
<1>3. PICK gone, rest : gone \in {{}, {id}} /\ gone = {} /\ rest = checking \ {id}
  OBVIOUS
<1>4. PatternFoundInFrequent(Of(id), gone, rest) /\ rest \subseteq checking /\ checking \ {id} \subseteq rest
  BY <1>1, <1>3
<1>5. NoneLost' /\ frequent' = frequent /\ \E p : infrequent' = infrequent \union {p}
  BY <1>1, <1>2, <1>4, InfrequentLosesNone
<1> QED BY <1>1, <1>2, <1>5 DEF Decides

LEMMA AnswerPartDecides ==
  ASSUME IInv, IInv', NoneLost, WorldsClosed, NEW w \in Worker, AnswerPart(w)
  PROVE  NoneLost' /\ Decides
<1>0. PICK id : id = wire[w].id
  OBVIOUS
<1>1. /\ Receive(w, "m") /\ id \in checking /\ pc = "receive"
      /\ \/ UNCHANGED <<candidates, checking, processed, expected, frequent, infrequent>>
         \/ /\ checking' = checking \ {id} /\ UNCHANGED <<processed, expected>>
            /\ PatternFoundFrequent(Of(id), {})
         \/ checking' = checking \ {id} /\ \E o : AddAgain(id, o)
         \/ processed' = processed /\ PatternFoundInFrequent(Of(id), {}, checking \ {id})
         \/ checking' = checking /\ \E o : AddAgain(id, o)
  <2>1. PICK o : o = Added(object[id], wire[w])
    OBVIOUS
  <2> QED BY <1>0, <2>1 DEF AnswerPart, Receive, ColumnWasValid
<1>2. UNCHANGED <<world, threshold>> /\ pc' = "dispatch" /\ id \in Originals
  BY <1>0, <1>1, Received
<1>3. CASE UNCHANGED <<candidates, checking, processed, expected, frequent, infrequent>>
  <2>1. \A i \in Originals : Of(i) \in OfAll(Originals)'
    BY <1>3 DEF OfAll, Originals
  <2> QED BY <1>1, <1>2, <1>3, <2>1, NothingFound DEF Decides
<1>4. CASE checking' = checking \ {id} /\ UNCHANGED <<processed, expected>> /\ PatternFoundFrequent(Of(id), {})
  <2>1. NoneLost' /\ infrequent' = infrequent /\ \E p : frequent' = frequent \union {p}
    <3>1. PICK gone \in {{}, {id}} : gone = {}
      OBVIOUS
    <3>2. PatternFoundFrequent(Of(id), gone)
      BY <1>4, <3>1
    <3>3. checking' \subseteq checking /\ checking \ {id} \subseteq checking'
      BY <1>4
    <3> QED BY <1>2, <1>4, <3>2, <3>3, FrequentLosesNone
  <2> QED BY <1>1, <1>2, <2>1 DEF Decides
<1>5. CASE checking' \in {checking, checking \ {id}} /\ \E o : AddAgain(id, o)
  <2>1. NoneLost' /\ UNCHANGED <<frequent, infrequent>>
    BY <1>2, <1>5, AgainLosesNone
  <2> QED BY <1>1, <1>2, <2>1 DEF Decides
<1>6. CASE processed' = processed /\ PatternFoundInFrequent(Of(id), {}, checking \ {id})
  <2>1. PICK gone, rest : gone \in {{}, {id}} /\ gone = {} /\ rest = checking \ {id}
    OBVIOUS
  <2>2. PatternFoundInFrequent(Of(id), gone, rest) /\ rest \subseteq checking /\ checking \ {id} \subseteq rest
    BY <1>6, <2>1
  <2>3. NoneLost' /\ frequent' = frequent /\ \E p : infrequent' = infrequent \union {p}
    BY <1>2, <1>6, <2>2, InfrequentLosesNone
  <2> QED BY <1>1, <1>2, <2>3 DEF Decides
<1> QED BY <1>1, <1>3, <1>4, <1>5, <1>6

\* The copy that was predicted goes, its original stays.
LEMMA AnswerPredictedDecides ==
  ASSUME IInv, NoneLost, NEW w \in Worker, AnswerPredicted(w)
  PROVE  NoneLost' /\ Decides
<1>0. PICK id : id = wire[w].id
  OBVIOUS
<1>1. /\ wire[w].kind = "a" /\ pc = "receive" /\ pc' = "dispatch" /\ checking' = checking \ {id}
      /\ UNCHANGED <<world, candidates, processed, frequent, infrequent>>
  BY <1>0 DEF AnswerPredicted, Receive, known
<1>2. w \in Busy
  BY <1>1, KindOf DEF IInv
<1>3. Copy(id)
  BY <1>0, <1>1, <1>2 DEF IInv, KindInv
<1>4. Originals' = Originals
  BY <1>1, <1>3 DEF Originals
<1>5. \A i \in Originals : Of(i) \in OfAll(Originals)'
  BY <1>4 DEF OfAll
<1>6. NoneLost'
  BY <1>1, <1>5, NothingFound
<1> QED BY <1>1, <1>6 DEF Decides
-----------------------------------------------------------------------------
(* The work.                                                                *)

LEMMA SendForPredictionDecides ==
  ASSUME IInv, NoneLost, NEW id, SendForPrediction(id)
  PROVE  NoneLost' /\ Decides
<1>1. /\ Remaining = candidates /\ id \in Originals /\ Of(id) \in Patterns
      /\ UNCHANGED <<world, threshold, pc>> /\ pc = "dispatch"
  BY Chosen DEF SendForPrediction
<1>2. PICK copy : copy = CopyId(Of(id))
  OBVIOUS
<1>3. Of(copy) = Of(id)
  BY <1>1, <1>2, Fresh DEF IInv
<1>4. candidates' = candidates /\ checking' = checking \union {copy} /\ UNCHANGED <<processed, frequent, infrequent>>
  BY <1>1, <1>2 DEF SendForPrediction
<1>5. \A i \in Originals : Of(i) \in OfAll(Originals)'
  BY <1>4 DEF OfAll, Originals
<1>6. \A i \in checking' : i \in checking \/ Of(i) \in OfAll(Originals)
  BY <1>1, <1>3, <1>4 DEF OfAll
<1>7. NoneLost'
  BY <1>1, <1>4, <1>5, <1>6, NothingFound
<1> QED BY <1>1, <1>4, <1>7 DEF Decides

LEMMA DecideByPredictionDecides ==
  ASSUME IInv, IInv', NoneLost, WorldsClosed, NEW id, DecideByPrediction(id)
  PROVE  NoneLost' /\ Decides
<1>1. id \in Originals /\ UNCHANGED <<world, threshold, pc>> /\ pc = "dispatch"
  BY Chosen DEF DecideByPrediction
<1>2. /\ processed' = processed
      /\ \/ checking' = checking /\ PatternFoundFrequent(Of(id), {id})
         \/ PatternFoundInFrequent(Of(id), {id}, checking)
  BY DEF DecideByPrediction
<1>3. PICK gone, rest : gone \in {{}, {id}} /\ gone = {id} /\ rest = checking
  OBVIOUS
<1>4. CASE checking' = checking /\ PatternFoundFrequent(Of(id), {id})
  <2>1. PatternFoundFrequent(Of(id), gone) /\ checking' \subseteq checking /\ checking \ {id} \subseteq checking'
    BY <1>3, <1>4
  <2>2. NoneLost' /\ infrequent' = infrequent /\ \E p : frequent' = frequent \union {p}
    BY <1>1, <1>2, <1>3, <2>1, FrequentLosesNone
  <2> QED BY <1>1, <2>2 DEF Decides
<1>5. CASE PatternFoundInFrequent(Of(id), {id}, checking)
  <2>1. PatternFoundInFrequent(Of(id), gone, rest) /\ rest \subseteq checking /\ checking \ {id} \subseteq rest
    BY <1>3, <1>5
  <2>2. NoneLost' /\ frequent' = frequent /\ \E p : infrequent' = infrequent \union {p}
    BY <1>1, <1>2, <1>3, <2>1, InfrequentLosesNone
  <2> QED BY <1>1, <2>2 DEF Decides
<1> QED BY <1>2, <1>4, <1>5

\* What is sent is counted, and processed once all its parts are.
LEMMA SendDecides ==
  ASSUME IInv, NoneLost, NEW id, Send(id)
  PROVE  NoneLost' /\ Decides
<1>1. /\ Remaining = candidates /\ id \in Originals /\ ~Copy(id)
      /\ UNCHANGED <<world, threshold, pc>> /\ pc = "dispatch"
  BY Chosen DEF Send
<1>2. /\ candidates' \in {candidates, candidates \ {id}} /\ checking' = checking \union {id}
      /\ processed' \in {processed, processed \union {Of(id)}} /\ UNCHANGED <<frequent, infrequent>>
  BY <1>1 DEF Send
<1>3. Originals' = Originals
  BY <1>1, <1>2 DEF Originals
<1>4. /\ \A i \in Originals : Of(i) \in OfAll(Originals)' /\ Of(i) \in OfAll(Originals)
  BY <1>3 DEF OfAll
<1>5. /\ \A p \in processed' : p \in processed \/ p \in OfAll(Originals)
      /\ \A i \in checking' : i \in checking \/ Of(i) \in OfAll(Originals)
  BY <1>1, <1>2, <1>4
<1>6. NoneLost'
  BY <1>1, <1>2, <1>4, <1>5, NothingFound
<1> QED BY <1>1, <1>2, <1>6 DEF Decides

\* A thread works, the loop turns, or nothing happens: nothing is found.
LEMMA QuietLosesNone ==
  ASSUME NoneLost, UNCHANGED <<world, lists>>
  PROVE  NoneLost' /\ UNCHANGED <<frequent, infrequent>>
<1>1. UNCHANGED <<candidates, checking, processed, frequent, infrequent>>
  BY DEF lists
<1>2. \A i \in Originals : Of(i) \in OfAll(Originals)'
  BY <1>1 DEF OfAll, Originals
<1> QED BY <1>1, <1>2, NothingFound
-----------------------------------------------------------------------------
(* The invariant.                                                           *)

LEMMA InitLosesNone ==
  ASSUME Init, WorldsClosed
  PROVE  NoneLost
<1>1. /\ world \in Worlds /\ candidates = {<<p, 1>> : p \in Known(world)} /\ checking = {} /\ processed = {}
      /\ frequent = {p \in world.truth : Cardinality(p) = 1}
  BY DEF Init
<1>2. \A p \in Patterns : Cardinality(p) = 2 => p \in Known(world)
  BY DEF Known, Patterns
<1>3. ASSUME NEW p \in Patterns, Due(p) PROVE Cardinality(p) = 2
  <2>1. Cardinality(p) = 2 \/ Joined(p, frequent)
    BY <1>1, <1>3 DEF Due, OfAll
  <2> QED BY <1>1, <2>1 DEF Joined
<1>4. ASSUME NEW p \in Known(world) PROVE Accounted(p)
  <2>1. <<p, 1>> \in Originals /\ Of(<<p, 1>>) = p
    BY <1>1, <1>4 DEF Originals, Copy, Of
  <2> QED BY <2>1 DEF Accounted, OfAll
<1> QED BY <1>1, <1>2, <1>3, <1>4 DEF NoneLost

\* The phase ends only when nothing is a candidate nor counted.
Ends == pc = "dispatch" /\ pc' = "done" /\ UNCHANGED <<world, lists>> /\ checking = {} /\ Countable = {}
Idles == UNCHANGED <<world, lists, pc>>

LEMMA NextDecides ==
  ASSUME IInv, IInv', NoneLost, WorldsClosed, [Next]_vars
  PROVE  NoneLost' /\ (Decides \/ Ends \/ Idles)
<1>1. ASSUME NEW w \in Worker, AnswerLate(w) \/ AnswerFrequent(w) \/ AnswerInfrequent(w) \/ AnswerPart(w) \/ AnswerPredicted(w)
      PROVE  NoneLost' /\ Decides
  BY <1>1, AnswerLateDecides, AnswerFrequentDecides, AnswerInfrequentDecides, AnswerPartDecides, AnswerPredictedDecides
<1>2. ASSUME NEW id \in candidates, SendForPrediction(id) \/ DecideByPrediction(id) \/ Send(id)
      PROVE  NoneLost' /\ Decides
  BY <1>2, SendForPredictionDecides, DecideByPredictionDecides, SendDecides
<1>3. ASSUME NextTurn PROVE NoneLost' /\ (Decides \/ Ends \/ Idles)
  <2>1. UNCHANGED <<world, lists>> /\ pc = "dispatch"
    BY <1>3 DEF NextTurn, known
  <2>2. NoneLost' /\ UNCHANGED <<frequent, infrequent>>
    BY <2>1, QuietLosesNone
  <2>3. CASE pc' = "done"
    <3>1. checking = {} /\ Countable = {}
      BY <1>3, <2>3 DEF NextTurn
    <3> QED BY <2>1, <2>2, <2>3, <3>1 DEF Ends
  <2>4. CASE pc' # "done"
    BY <2>1, <2>2, <2>4 DEF Decides
  <2> QED BY <2>2, <2>1, <2>3, <2>4
<1>4. ASSUME (\E w \in Worker : Work(w)) \/ UNCHANGED vars PROVE NoneLost' /\ Idles
  <2>1. Idles
    BY <1>4 DEF Work, Idles, known, vars
  <2> QED BY <2>1, QuietLosesNone DEF Idles
<1> QED BY <1>1, <1>2, <1>3, <1>4 DEF Next, Master, Ended

LEMMA NoneIsLost ==
  ASSUME WorldsClosed
  PROVE  Spec => [](IInv /\ NoneLost)
<1>1. Init => NoneLost
  BY InitLosesNone
<1>2. IInv /\ IInv' /\ NoneLost /\ [Next]_vars => NoneLost'
  BY NextDecides
<1> QED BY <1>1, <1>2, Invariance, PTL DEF Spec
-----------------------------------------------------------------------------
(* The refinement.                                                          *)

\* With nothing left to do all frequent patterns have been found: of those that
\* have not, a smallest would be the join of two that have.
LEMMA AllFound ==
  ASSUME IInv, NoneLost, WorldsClosed, Hard = {}, checking = {}, Countable = {}
  PROVE  frequent = world.truth
<1>1. frequent \subseteq world.truth /\ world \in Worlds
  BY DEF IInv, Sound, TypeOK
<1>2. \A p : ~(p \in OfAll(Originals))
  BY DEF Countable, Originals, OfAll
<1>3. SUFFICES ASSUME world.truth \ frequent # {} PROVE FALSE
  BY <1>1
<1> DEFINE Sizes == {Cardinality(p) : p \in world.truth \ frequent}
<1>4. \A p \in world.truth : Cardinality(p) \in Nat /\ Cardinality(p) # 0
  <2> SUFFICES ASSUME NEW p \in world.truth PROVE Cardinality(p) \in Nat /\ Cardinality(p) # 0
    OBVIOUS
  <2>1. IsFiniteSet(p) /\ p # {}
    BY <1>1 DEF WorldsClosed
  <2> QED BY <2>1, FS_CardinalityType, FS_EmptySet
<1>5. Sizes \in SUBSET Nat /\ Sizes # {}
  BY <1>3, <1>4
<1>6. PICK p \in world.truth \ frequent : \A q \in world.truth \ frequent : Cardinality(p) <= Cardinality(q)
  <2>1. Min(Sizes) \in Sizes /\ \A n \in Sizes : Min(Sizes) <= n
    <3> HIDE DEF Sizes
    <3> QED BY <1>5, MinIs
  <2> QED BY <2>1
<1>7. Cardinality(p) \in Nat /\ Cardinality(p) > 1
  BY <1>4, <1>6 DEF NoneLost
<1>8. p \in Patterns
  BY <1>1, <1>7 DEF WorldsClosed, Patterns
<1>9. CASE Cardinality(p) = 2
  BY <1>2, <1>6, <1>8, <1>9 DEF NoneLost, Due, Accounted
<1>10. CASE Cardinality(p) # 2
  <2>1. Joined(p, world.truth)
    BY <1>1, <1>6, <1>7, <1>10 DEF WorldsClosed
  <2>2. PICK q, r \in world.truth : Cardinality(q) = Cardinality(r) /\ Cardinality(p) = Cardinality(q) + 1 /\ p = q \union r
    BY <2>1 DEF Joined
  <2>3. Cardinality(q) \in Nat /\ Cardinality(r) \in Nat
    BY <1>4
  <2>4. q \in frequent /\ r \in frequent
    BY <1>6, <2>2, <2>3
  <2>5. Joined(p, frequent)
    BY <2>2, <2>4 DEF Joined
  <2> QED BY <1>2, <1>6, <1>8, <2>5 DEF NoneLost, Due, Accounted
<1> QED BY <1>9, <1>10

\* Each step is one of PatternMining, or none.
LEMMA StepImplements ==
  ASSUME IInv, IInv', NoneLost, WorldsClosed, Hard = {}, [Next]_vars
  PROVE  [Mining!Next]_(Mining!vars)
<1>1. Decides \/ Ends \/ Idles
  BY NextDecides
<1>2. Sound'
  BY DEF IInv
<1>3. CASE Decides
  <2>1. CASE infrequent' = infrequent /\ \E p : frequent' = frequent \union {p}
    <3>1. PICK p : frequent' = frequent \union {p}
      BY <2>1
    <3>2. p \in world.truth
      BY <1>2, <1>3, <3>1 DEF Sound, Decides
    <3>3. Mining!Find
      BY <1>3, <2>1, <3>1, <3>2 DEF Mining!Find, Decides
    <3> QED BY <3>3 DEF Mining!Next
  <2>2. CASE frequent' = frequent /\ \E p : infrequent' = infrequent \union {p}
    <3>1. PICK p : infrequent' = infrequent \union {p}
      BY <2>2
    <3>2. p \in infrequent' /\ p \notin world.truth
      BY <1>2, <1>3, <3>1 DEF Sound, Decides
    <3>3. Mining!Reject
      BY <1>3, <2>2, <3>1, <3>2 DEF Mining!Reject, Decides
    <3> QED BY <3>3 DEF Mining!Next
  <2>3. CASE UNCHANGED <<frequent, infrequent>>
    BY <1>3, <2>3 DEF Decides, Mining!vars
  <2> QED BY <1>3, <2>1, <2>2, <2>3 DEF Decides
<1>4. CASE Ends
  <2>1. frequent = world.truth
    BY <1>4, AllFound DEF Ends
  <2>2. Mining!Finish
    BY <1>4, <2>1 DEF Ends, lists, Mining!Finish
  <2> QED BY <2>2 DEF Mining!Next
<1>5. CASE Idles
  BY <1>5 DEF Idles, lists, Mining!vars
<1> QED BY <1>1, <1>3, <1>4, <1>5

LEMMA InitImplements ==
  ASSUME Init
  PROVE  Mining!Init
<1>1. pc # "done"
  BY DEF Init
<1>2. (pc = "done") = FALSE
  BY <1>1
<1>3. frequent = {p \in world.truth : Cardinality(p) = 1} /\ infrequent = {}
  BY DEF Init
<1>4. \A p : Mining!Cardinality(p) = Cardinality(p)
  BY DEF Mining!Cardinality, Cardinality
<1> QED BY <1>2, <1>3, <1>4 DEF Mining!Init

\* The exact phase does what PatternMining promises: whatever is predicted, late,
\* divided or counted again, each pattern is decided rightly and for good, and when
\* startMining ends all frequent patterns have been found (MinerX2.cpp:501-1199).
THEOREM ExactImplements ==
  ASSUME Hard = {}, WorldsClosed
  PROVE  Spec => ImplementsMining
<1>1. Init => Mining!Init
  BY InitImplements
<1>2. IInv /\ IInv' /\ NoneLost /\ [Next]_vars => [Mining!Next]_(Mining!vars)
  BY StepImplements
<1> QED BY <1>1, <1>2, NoneIsLost, PTL DEF Spec, ImplementsMining, Mining!Spec
=============================================================================
