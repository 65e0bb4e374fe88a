------------------------- MODULE ApproxMasterProofs -------------------------
(***************************************************************************)
(* The proof that IInv is an invariant of ApproxMaster, for any families   *)
(* of patterns, any hard labels and any number of machines and threads,    *)
(* and what follows from it.                                               *)
(***************************************************************************)
EXTENDS ApproxMaster, FiniteSetTheorems, TLAPS

-----------------------------------------------------------------------------
(* Facts about the operators.                                               *)

\* Numbering the members of a finite set gives a finite set.
LEMMA ImageFinite ==
  ASSUME NEW S, IsFiniteSet(S), NEW f, f = [x \in S |-> f[x]]
  PROVE  IsFiniteSet({f[x] : x \in S})
<1> DEFINE T == {f[x] : x \in S}
<1>1. f \in Surjection(S, T)
  BY DEF Surjection
<1> QED BY <1>1, FS_Surjection

\* There is always a number that no id of the pattern has.
LEMMA Fresh ==
  ASSUME NEW p, IsFiniteSet(InUse)
  PROVE  /\ NewId(p) \notin InUse
         /\ \E k \in Nat : NewId(p) = <<p, k>>
<1> DEFINE n    == Cardinality(InUse)
           K    == 1 .. n + 1
           f    == [k \in K |-> <<p, k>>]
<1>1. n \in Nat
  BY FS_CardinalityType
<1>2. IsFiniteSet(K) /\ Cardinality(K) = n + 1
  <2> HIDE DEF n
  <2> QED BY <1>1, FS_Interval
<1>3. \E k \in K : <<p, k>> \notin InUse
  <2> SUFFICES ASSUME \A k \in K : <<p, k>> \in InUse PROVE FALSE
    OBVIOUS
  <2>1. f \in [K -> InUse]
    OBVIOUS
  <2>2. \E x, y \in K : x # y /\ f[x] = f[y]
    <3>1. Cardinality(InUse) < Cardinality(K)
      BY <1>1, <1>2
    <3> HIDE DEF K, f, n
    <3> QED BY <1>2, <2>1, <3>1, FS_PigeonHole
  <2> QED BY <2>2
<1>4. NewId(p) = <<p, CHOOSE k \in K : <<p, k>> \notin InUse>>
  BY DEF NewId
<1>5. /\ (CHOOSE k \in K : <<p, k>> \notin InUse) \in K
      /\ <<p, CHOOSE k \in K : <<p, k>> \notin InUse>> \notin InUse
  BY <1>3
<1>6. K \subseteq Nat
  BY <1>1
<1> QED
  <2> HIDE DEF K
  <2> QED BY <1>4, <1>5, <1>6

\* A new id is one of its pattern.
LEMMA NewIdOf ==
  ASSUME NEW p
  PROVE  Of(NewId(p)) = p
BY DEF Of, NewId

\* What a list may hold at one size: finitely many.
LEMMA LevelFacts ==
  ASSUME family \in Families, NEW n \in Nat
  PROVE  /\ Level(n) \subseteq Listed /\ IsFiniteSet(Level(n))
         /\ \A x \in Level(n) : getSize(x) = n
<1>1. IsFiniteSet(family \X {n})
  <2>1. IsFiniteSet(family) /\ IsFiniteSet({n})
    BY ApproxAssumption, FS_Singleton
  <2> QED BY <2>1, FS_Product
<1>2. Level(n) \subseteq family \X {n} /\ (Level(n) # {} => Fits(n))
  BY DEF Level
<1>3. \A x \in Level(n) : getSize(x) = n /\ x \in family \X Nat
  BY <1>2 DEF getSize
<1>4. Level(n) \subseteq Listed
  BY <1>2, <1>3 DEF Listed
<1> QED BY <1>1, <1>2, <1>3, <1>4, FS_Subset

LEMMA SizeType ==
  ASSUME NEW x \in Listed
  PROVE  getSize(x) \in Nat
BY DEF Listed, getSize

LEMMA ThreadNonempty == Thread # {}
<1>1. PICK m \in Machine : TRUE
  BY ApproxAssumption
<1>2. <<m, 0>> \in Thread
  BY ApproxAssumption DEF Thread
<1> QED BY <1>2

\* Every machine has a thread.
LEMMA ThreadOf ==
  ASSUME NEW m \in Machine
  PROVE  \E w \in Thread : w[1] = m
<1>1. <<m, 0>> \in Thread /\ <<m, 0>>[1] = m
  BY ApproxAssumption DEF Thread
<1> QED BY <1>1

\* When the ids being checked are those under way, InUse is finite.
LEMMA InUseFinite ==
  ASSUME TypeOK, IdInv
  PROVE  InUse = candidates \union checking /\ IsFiniteSet(InUse)
<1>1. InUse = candidates \union checking
  BY DEF IdInv, InUse
<1> QED BY <1>1, FS_Union DEF TypeOK
-----------------------------------------------------------------------------
(* The initial states.                                                      *)

LEMMA InitIInv == Init => IInv
<1> SUFFICES ASSUME Init PROVE IInv
  OBVIOUS
<1>1. TypeOK
  BY FS_EmptySet DEF Init, TypeOK
<1>2. Busy = {}
  BY DEF Init, Busy, Idle
<1>3. OfReady = {}
  BY DEF Init, OfReady, Thread
<1>4. ThreadInv
  BY <1>2, <1>3 DEF Init, ThreadInv
<1>5. {m \in Machine : machine[m] # "ready"} = Machine
  BY DEF Init
<1>6. LoadInv
  BY <1>2, <1>5 DEF Init, LoadInv
<1>7. IdInv
  BY <1>2 DEF Init, IdInv
<1>8. TurnInv /\ GrownInv
  BY DEF Init, TurnInv, GrownInv
<1> QED BY <1>1, <1>4, <1>6, <1>7, <1>8 DEF IInv
-----------------------------------------------------------------------------
(* Loading.                                                                 *)

\* Steps that leave the ids and the threads alone.
SameThreads == wire' = wire /\ available' = available
SameIds     == candidates' = candidates /\ checking' = checking

\* Busy, and what IdInv says, are functions of the wire and the ids.
LEMMA BusyFrame ==
  ASSUME wire' = wire
  PROVE  Busy' = Busy
BY DEF Busy

LEMMA IdFrame ==
  ASSUME IdInv, wire' = wire, SameIds
  PROVE  IdInv'
BY BusyFrame DEF IdInv, SameIds

\* What may be listed is a function of the family.
LEMMA ListedFrame ==
  ASSUME family' = family
  PROVE  Listed' = Listed /\ Edges' = Edges /\ Pairs' = Pairs
BY DEF Listed, Edges, Pairs, Level

\* What has grown is a function of what was found.
LEMMA GrownFrame ==
  ASSUME family' = family, found' = found
  PROVE  Grown' = Grown /\ Repeated' = Repeated /\ Edges' = Edges /\ Pairs' = Pairs
BY DEF Grown, Repeated, Larger, Again, Level, Edges, Pairs

LEMMA LoadIInv ==
  ASSUME IInv, NEW m \in Machine, Load(m)
  PROVE  IInv'
<1> USE DEF IInv, Load
<1>1. PICK o \in {"loaded", "failed"} : machine' = [machine EXCEPT ![m] = o]
  OBVIOUS
<1>2. /\ UNCHANGED <<family, waiting, available, candidates, checking, found, rejected, wire, pc>>
      /\ machine \in [Machine -> {"asked", "loaded", "failed", "ready"}] /\ machine[m] = "asked"
  BY DEF lists, TypeOK
<1>3. TypeOK'
  BY <1>1, <1>2, ListedFrame DEF TypeOK
<1>4. /\ OfReady' = OfReady
      /\ {k \in Machine : machine'[k] # "ready"} = {k \in Machine : machine[k] # "ready"}
  BY <1>1, <1>2 DEF OfReady, Thread
<1>5. Busy' = Busy
  BY <1>2, BusyFrame
<1>6. ThreadInv' /\ LoadInv'
  BY <1>2, <1>4, <1>5 DEF ThreadInv, LoadInv
<1>7. IdInv'
  BY <1>2, IdFrame DEF SameIds
<1>8. TurnInv'
  BY <1>2, <1>5 DEF TurnInv, AllDone, Countable, IsHard
<1>9. GrownInv'
  BY <1>2, GrownFrame DEF GrownInv, OfAll
<1> HIDE DEF IInv, Load
<1> QED BY <1>3, <1>6, <1>7, <1>8, <1>9 DEF IInv

LEMMA AcknowledgedIInv ==
  ASSUME IInv, NEW m \in Machine, Acknowledged(m)
  PROVE  IInv'
<1> USE DEF IInv, Acknowledged
<1>1. /\ UNCHANGED <<family, candidates, checking, found, rejected, wire, pc>>
      /\ machine \in [Machine -> {"asked", "loaded", "failed", "ready"}] /\ machine[m] = "loaded"
      /\ pc = "loading"
  BY DEF lists, TypeOK
<1>2. TypeOK'
  BY <1>1, ListedFrame DEF TypeOK
<1> DEFINE Rest == {k \in Machine : machine[k] # "ready"}
<1>3. /\ OfReady' = OfReady \union {w \in Thread : w[1] = m}
      /\ Rest' = Rest \ {m} /\ m \in Rest
  BY <1>1 DEF OfReady, Thread
<1>4. Busy = {} /\ Busy' = {}
  BY <1>1, BusyFrame DEF LoadInv
<1>5. ThreadInv'
  BY <1>1, <1>3, <1>4 DEF ThreadInv
<1>6. waiting' = Cardinality(Rest')
  <2>1. IsFiniteSet(Rest)
    BY ApproxAssumption, FS_Subset
  <2>2. waiting = Cardinality(Rest)
    BY <1>1 DEF LoadInv
  <2>3. Cardinality(Rest \ {m}) = Cardinality(Rest) - 1
    <3> HIDE DEF Rest
    <3> QED BY <1>3, <2>1, FS_RemoveElement
  <2> HIDE DEF Rest
  <2> QED BY <1>3, <2>2, <2>3
<1>7. LoadInv'
  BY <1>1, <1>4, <1>6 DEF LoadInv
<1>8. IdInv'
  BY <1>1, IdFrame DEF SameIds
<1>9. TurnInv' /\ GrownInv'
  BY <1>1 DEF TurnInv, GrownInv
<1> HIDE DEF IInv, Acknowledged
<1> QED BY <1>2, <1>5, <1>7, <1>8, <1>9 DEF IInv

LEMMA NoEdgesIInv ==
  ASSUME IInv, NoEdges
  PROVE  IInv'
<1> USE DEF IInv, NoEdges
<1>1. UNCHANGED <<family, machine, waiting, available, candidates, checking, found, rejected, wire>> /\ pc' = "exit"
  BY DEF lists, loading
<1>2. OfReady = Thread
  <2>1. IsFiniteSet({k \in Machine : machine[k] # "ready"})
    BY ApproxAssumption, FS_Subset
  <2>2. {k \in Machine : machine[k] # "ready"} = {}
    BY <2>1, FS_EmptySet DEF LoadInv
  <2> QED BY <2>2 DEF OfReady, Thread
<1>3. TypeOK'
  BY <1>1, ListedFrame DEF TypeOK
<1>4. ThreadInv'
  BY <1>1, <1>2, BusyFrame DEF ThreadInv, OfReady
<1>5. IdInv'
  BY <1>1, IdFrame DEF SameIds
<1>6. LoadInv' /\ TurnInv' /\ GrownInv'
  BY <1>1 DEF LoadInv, TurnInv, GrownInv
<1> HIDE DEF IInv, NoEdges
<1> QED BY <1>3, <1>4, <1>5, <1>6 DEF IInv

LEMMA StartedIInv ==
  ASSUME IInv, Started
  PROVE  IInv'
<1> USE DEF IInv, Started
<1>1. /\ UNCHANGED <<family, machine, waiting, available, checking, rejected, wire>>
      /\ pc' = "test" /\ pc = "loading" /\ found' = Edges
      /\ candidates' = {<<p, 1>> : p \in Pairs}
  BY DEF loading
<1>2. Busy = {} /\ checking = {} /\ rejected = {}
  BY <1>1 DEF LoadInv
<1>3. OfReady = Thread
  <2>1. IsFiniteSet({k \in Machine : machine[k] # "ready"})
    BY ApproxAssumption, FS_Subset
  <2>2. {k \in Machine : machine[k] # "ready"} = {}
    BY <2>1, FS_EmptySet DEF LoadInv
  <2> QED BY <2>2 DEF OfReady, Thread
<1>4. IsFiniteSet(candidates') /\ candidates' \subseteq Listed \X Nat
  <2>1. Pairs \subseteq Listed /\ Pairs \subseteq Level(2) /\ IsFiniteSet(Level(2))
    BY LevelFacts DEF Pairs, TypeOK
  <2>2. IsFiniteSet(Pairs)
    BY <2>1, FS_Subset
  <2> DEFINE f == [p \in Pairs |-> <<p, 1>>]
  <2>3. IsFiniteSet({f[p] : p \in Pairs})
    <3>1. f = [p \in Pairs |-> f[p]]
      OBVIOUS
    <3> HIDE DEF f
    <3> QED BY <2>2, <3>1, ImageFinite
  <2>4. {f[p] : p \in Pairs} = candidates'
    BY <1>1
  <2>5. IsFiniteSet(candidates')
    <3> HIDE DEF f
    <3> QED BY <2>3, <2>4
  <2>6. ASSUME NEW c \in candidates' PROVE c \in Listed \X Nat
    <3>1. PICK p \in Pairs : c = <<p, 1>>
      BY <1>1
    <3> QED BY <2>1, <3>1
  <2> QED BY <2>5, <2>6
<1>5. TypeOK'
  <2>1. Edges \subseteq Listed
    BY LevelFacts DEF Edges, TypeOK
  <2> QED BY <1>1, <1>4, <2>1, ListedFrame DEF TypeOK
<1>6. ThreadInv'
  BY <1>1, <1>3, BusyFrame DEF ThreadInv, OfReady
<1>7. IdInv'
  <2>1. Busy' = {}
    BY <1>1, <1>2, BusyFrame
  <2> QED BY <1>1, <1>2, <2>1 DEF IdInv
<1>8. LoadInv' /\ TurnInv'
  BY <1>1 DEF LoadInv, TurnInv
<1>9. GrownInv'
  <2>1. OfAll(candidates \union checking)' = Pairs
    <3>1. (candidates \union checking)' = {<<p, 1>> : p \in Pairs}
      BY <1>1, <1>2
    <3>2. OfAll(candidates \union checking)' = {id[1] : id \in {<<p, 1>> : p \in Pairs}}
      BY <3>1 DEF OfAll, Of
    <3>3. \A p \in Pairs : <<p, 1>> \in {<<q, 1>> : q \in Pairs} /\ <<p, 1>>[1] = p
      OBVIOUS
    <3>4. {id[1] : id \in {<<p, 1>> : p \in Pairs}} \subseteq Pairs
      OBVIOUS
    <3>5. Pairs \subseteq {id[1] : id \in {<<p, 1>> : p \in Pairs}}
      BY <3>3, Zenon
    <3> QED BY <3>2, <3>4, <3>5
  <2>2. Edges' = Edges /\ Pairs' = Pairs
    BY <1>1, ListedFrame
  <2>3. Grown' = Edges \union Pairs
    BY <1>1, <2>2 DEF Grown
  <2>4. \A p \in Pairs : getSize(p) >= 2
    BY LevelFacts DEF Pairs, TypeOK
  <2> QED BY <1>1, <1>2, <2>1, <2>2, <2>3, <2>4 DEF GrownInv
<1> HIDE DEF IInv, Started
<1> QED BY <1>5, <1>6, <1>7, <1>8, <1>9 DEF IInv
-----------------------------------------------------------------------------
(* The loop.                                                                *)

LEMMA TestIInv ==
  ASSUME IInv, Test
  PROVE  IInv'
<1> USE DEF IInv, Test
<1>1. /\ UNCHANGED <<family, machine, waiting, available, candidates, checking, found, rejected, wire>>
      /\ pc = "test" /\ pc' = IF AllDone THEN "done" ELSE "send"
  BY DEF lists, loading
<1>2. TypeOK'
  BY <1>1, ListedFrame DEF TypeOK
<1>3. ThreadInv' /\ LoadInv'
  BY <1>1, BusyFrame DEF ThreadInv, LoadInv, OfReady
<1>4. IdInv'
  BY <1>1, IdFrame DEF SameIds
<1>5. TurnInv'
  <2>1. AllDone' <=> AllDone
    BY <1>1 DEF AllDone, Countable
  <2>2. ~AllDone => candidates # {} \/ checking # {}
    BY DEF AllDone, Countable
  <2> QED BY <1>1, <2>1, <2>2 DEF TurnInv
<1>6. GrownInv'
  BY <1>1, GrownFrame DEF GrownInv, OfAll
<1> HIDE DEF IInv, Test
<1> QED BY <1>2, <1>3, <1>4, <1>5, <1>6 DEF IInv

\* The master receives only when some thread has a candidate: either it has sent
\* the last one or it has no thread left.
LEMMA WaitIInv ==
  ASSUME IInv, Wait
  PROVE  IInv'
<1> USE DEF IInv, Wait
<1>1. /\ UNCHANGED <<family, machine, waiting, available, candidates, checking, found, rejected, wire>>
      /\ pc = "send" /\ pc' = "receive"
  BY DEF lists, loading
<1>2. TypeOK'
  BY <1>1, ListedFrame DEF TypeOK
<1>3. ThreadInv' /\ LoadInv'
  BY <1>1, BusyFrame DEF ThreadInv, LoadInv, OfReady
<1>4. IdInv'
  BY <1>1, IdFrame DEF SameIds
<1>5. Busy # {}
  <2>1. CASE candidates = {}
    BY <1>1, <2>1 DEF TurnInv, IdInv
  <2>2. CASE available = {}
    BY <1>1, <2>2, ThreadNonempty DEF ThreadInv
  <2> QED BY <2>1, <2>2
<1>6. TurnInv'
  BY <1>1, <1>5, BusyFrame DEF TurnInv
<1>7. GrownInv'
  BY <1>1, GrownFrame DEF GrownInv, OfAll
<1> HIDE DEF IInv, Wait
<1> QED BY <1>2, <1>3, <1>4, <1>6, <1>7 DEF IInv

LEMMA SendIInv ==
  ASSUME IInv, NEW id \in candidates, NEW w \in Thread, Send(id, w)
  PROVE  IInv'
<1> USE DEF IInv, Send
<1> DEFINE sent == [kind |-> "a", id |-> id]
<1>1. /\ UNCHANGED <<family, machine, waiting, found, rejected, pc>>
      /\ pc = "send" /\ w \in available
      /\ candidates' = candidates \ {id} /\ checking' = checking \union {id}
      /\ available' = available \ {w}
      /\ wire' = [wire EXCEPT ![w] = sent]
  BY DEF loading
<1>2. /\ sent # Idle /\ sent \in [kind : {"a", "at", "af"}, id : Listed \X Nat] /\ sent.id = id
      /\ wire \in [Thread -> {Idle} \union [kind : {"a", "at", "af"}, id : Listed \X Nat]]
  BY DEF Idle, TypeOK
<1>3. TypeOK'
  <2>1. IsFiniteSet(candidates')
    <3>1. IsFiniteSet(candidates \ {id})
      BY FS_RemoveElement DEF TypeOK
    <3> QED BY <1>1, <3>1
  <2>2. IsFiniteSet(checking')
    <3>1. IsFiniteSet(checking \union {id})
      BY FS_AddElement DEF TypeOK
    <3> QED BY <1>1, <3>1
  <2> QED BY <1>1, <1>2, <2>1, <2>2, ListedFrame DEF TypeOK
<1> HIDE DEF sent
<1>4. Busy' = Busy \union {w} /\ w \notin Busy
  BY <1>1, <1>2 DEF Busy, ThreadInv
<1>5. ThreadInv' /\ LoadInv'
  BY <1>1, <1>4 DEF ThreadInv, LoadInv, OfReady
<1>6. \A v \in Busy : wire'[v] = wire[v]
  BY <1>1, <1>2, <1>4 DEF Busy
<1>7. wire'[w].id = id
  BY <1>1, <1>2
<1>8. IdInv'
  <2>1. {wire'[v].id : v \in Busy'} = {wire[v].id : v \in Busy} \union {id}
    BY <1>4, <1>6, <1>7
  <2>2. \A v \in Busy : wire[v].id # id
    BY DEF IdInv
  <2> QED BY <1>1, <1>4, <1>6, <1>7, <2>1, <2>2 DEF IdInv
<1>9. TurnInv'
  BY <1>1 DEF TurnInv
<1>10. GrownInv'
  <2>1. (candidates \union checking)' = candidates \union checking
    BY <1>1
  <2>2. OfAll(candidates \union checking)' = OfAll(candidates \union checking)
    BY <2>1 DEF OfAll
  <2> QED BY <1>1, <2>2, GrownFrame DEF GrownInv
<1> HIDE DEF IInv, Send
<1> QED BY <1>3, <1>5, <1>8, <1>9, <1>10 DEF IInv

LEMMA PredictIInv ==
  ASSUME IInv, NEW w \in Thread, Predict(w)
  PROVE  IInv'
<1> USE DEF IInv, Predict
<1>1. PICK k \in {"at", "af"} : wire' = [wire EXCEPT ![w].kind = k]
  OBVIOUS
<1>2. /\ UNCHANGED <<family, machine, waiting, available, candidates, checking, found, rejected, pc>>
      /\ wire[w] \in [kind : {"a", "at", "af"}, id : Listed \X Nat]
      /\ wire \in [Thread -> {Idle} \union [kind : {"a", "at", "af"}, id : Listed \X Nat]]
  BY DEF lists, loading, TypeOK, Idle
<1>3. /\ wire'[w] = [wire[w] EXCEPT !.kind = k] /\ \A v \in Thread \ {w} : wire'[v] = wire[v]
      /\ wire'[w] \in [kind : {"a", "at", "af"}, id : Listed \X Nat] /\ wire'[w].id = wire[w].id
      /\ wire' \in [Thread -> {Idle} \union [kind : {"a", "at", "af"}, id : Listed \X Nat]]
  BY <1>1, <1>2
<1>4. TypeOK'
  BY <1>2, <1>3, ListedFrame DEF TypeOK
<1>5. Busy' = Busy
  <2>1. wire[w] # Idle /\ wire'[w] # Idle
    BY <1>2, <1>3 DEF Idle
  <2> QED BY <1>3, <2>1 DEF Busy
<1>6. \A v \in Busy : wire'[v].id = wire[v].id
  BY <1>3 DEF Busy
<1>7. ThreadInv' /\ LoadInv'
  BY <1>2, <1>5 DEF ThreadInv, LoadInv, OfReady
<1>8. IdInv'
  BY <1>2, <1>5, <1>6 DEF IdInv
<1>9. TurnInv'
  BY <1>2, <1>5 DEF TurnInv, AllDone, Countable, IsHard
<1>10. GrownInv'
  BY <1>2, GrownFrame DEF GrownInv, OfAll
<1> HIDE DEF IInv, Predict
<1> QED BY <1>4, <1>7, <1>8, <1>9, <1>10 DEF IInv
-----------------------------------------------------------------------------
(* An answer.                                                               *)

\* The thread that answers is free again, and its id is no longer checked: what
\* does not depend on where the pattern goes.
LEMMA ReceiveInv ==
  ASSUME IInv, NEW w \in Thread, NEW k \in {"at", "af"}, Receive(w, k)
  PROVE  /\ ThreadInv'
         /\ LoadInv' /\ TurnInv'
         /\ wire[w].id \in checking /\ wire[w].id \in Listed \X Nat
         /\ Of(wire[w].id) \in Listed
         /\ checking' = {wire'[v].id : v \in Busy'}
         /\ \A v, u \in Busy' : wire'[v].id = wire'[u].id => v = u
         /\ checking' \subseteq checking /\ IsFiniteSet(checking')
         /\ wire' \in [Thread -> {Idle} \union [kind : {"a", "at", "af"}, id : Listed \X Nat]]
<1> USE DEF IInv, Receive
<1> DEFINE id == wire[w].id
<1>1. /\ UNCHANGED <<family, machine, waiting>>
      /\ pc = "receive" /\ pc' = "test" /\ wire[w].kind = k
      /\ wire' = [wire EXCEPT ![w] = Idle]
      /\ available' = available \union {w} /\ checking' = checking \ {id}
  BY DEF loading, Freed
<1>2. /\ wire \in [Thread -> {Idle} \union [kind : {"a", "at", "af"}, id : Listed \X Nat]]
      /\ wire[w] \in [kind : {"a", "at", "af"}, id : Listed \X Nat]
      /\ wire[w] # Idle
  BY <1>1 DEF TypeOK, Idle
<1>3. Busy' = Busy \ {w} /\ w \in Busy /\ \A v \in Busy' : wire'[v] = wire[v]
  BY <1>1, <1>2 DEF Busy
<1>4. ThreadInv'
  BY <1>1, <1>3 DEF ThreadInv, OfReady
<1>5. LoadInv' /\ TurnInv'
  BY <1>1 DEF LoadInv, TurnInv
<1>6. id \in checking
  BY <1>3 DEF IdInv
<1>7. id \in Listed \X Nat /\ Of(id) \in Listed
  BY <1>2 DEF Of
<1>8. checking' = {wire'[v].id : v \in Busy'}
  <2>1. {wire'[v].id : v \in Busy'} = {wire[v].id : v \in Busy \ {w}}
    BY <1>3
  <2>2. {wire[v].id : v \in Busy \ {w}} = {wire[v].id : v \in Busy} \ {id}
    BY <1>3 DEF IdInv
  <2> QED BY <1>1, <2>1, <2>2 DEF IdInv
<1>9. \A v, u \in Busy' : wire'[v].id = wire'[u].id => v = u
  BY <1>3 DEF IdInv
<1>10. IsFiniteSet(checking')
  <2>1. IsFiniteSet(checking \ {id})
    BY FS_RemoveElement DEF TypeOK
  <2> QED BY <1>1, <2>1
<1>11. wire' \in [Thread -> {Idle} \union [kind : {"a", "at", "af"}, id : Listed \X Nat]]
  BY <1>1, <1>2
<1>12. checking' \subseteq checking
  BY <1>1
<1> QED BY <1>4, <1>5, <1>6, <1>7, <1>8, <1>9, <1>10, <1>11, <1>12

\* The patterns of a union of ids.
LEMMA OfUnion ==
  ASSUME NEW S, NEW T
  PROVE  OfAll(S \union T) = OfAll(S) \union OfAll(T)
BY DEF OfAll

\* Without an id, all other patterns are still there.
LEMMA OfRemove ==
  ASSUME NEW S, NEW id \in S
  PROVE  OfAll(S) = OfAll(S \ {id}) \union {Of(id)}
BY DEF OfAll

LEMMA AnswerInfrequentIInv ==
  ASSUME IInv, NEW w \in Thread, AnswerInfrequent(w)
  PROVE  IInv'
<1> DEFINE id == wire[w].id
           p  == Of(id)
<1>1. Receive(w, "af") /\ rejected' = rejected \union {p} /\ UNCHANGED <<candidates, found>>
  BY DEF AnswerInfrequent
<1>2. /\ UNCHANGED <<family, machine, waiting>> /\ pc = "receive" /\ pc' = "test"
      /\ checking' = checking \ {id}
  BY <1>1 DEF Receive, loading
<1>3. /\ ThreadInv' /\ LoadInv' /\ TurnInv'
      /\ id \in checking /\ p \in Listed
      /\ checking' = {wire'[v].id : v \in Busy'}
      /\ \A v, u \in Busy' : wire'[v].id = wire'[u].id => v = u
      /\ checking' \subseteq checking /\ IsFiniteSet(checking')
      /\ wire' \in [Thread -> {Idle} \union [kind : {"a", "at", "af"}, id : Listed \X Nat]]
  BY <1>1, ReceiveInv
<1> HIDE DEF id, p
<1>4. TypeOK'
  BY <1>1, <1>2, <1>3, ListedFrame DEF TypeOK, IInv
<1>5. IdInv'
  BY <1>1, <1>3 DEF IdInv, IInv
<1>6. GrownInv'
  <2>1. OfAll(checking) = OfAll(checking') \union {p}
    BY <1>2, <1>3, OfRemove DEF p
  <2>2. /\ OfAll(candidates \union checking) = OfAll(candidates) \union OfAll(checking)
        /\ OfAll(candidates \union checking') = OfAll(candidates) \union OfAll(checking')
    BY OfUnion
  <2>3. OfAll(candidates \union checking)' = OfAll(candidates \union checking')
    BY <1>1 DEF OfAll
  <2> QED BY <1>1, <1>2, <2>1, <2>2, <2>3, GrownFrame DEF GrownInv, IInv
<1> QED BY <1>3, <1>4, <1>5, <1>6 DEF IInv

\* What has grown when one more pattern is found: what had, and the joins of the
\* new one, whichever of the two patterns of a join it is.
LEMMA GrownStep ==
  ASSUME NEW p \in Listed, p \notin Edges, family' = family, found' = found \union {p}
  PROVE  Grown' = Grown \union Larger(p, found')
<1>1. Edges' = Edges /\ Pairs' = Pairs
  BY ListedFrame
<1>2. \A q : Larger(q, found)' = Larger(q, found')
  BY DEF Larger, Level
<1>3. Grown' = Edges \union Pairs \union UNION {Larger(q, found') : q \in found' \ Edges}
  <2>1. Grown' = Edges' \union Pairs' \union UNION {Larger(q, found)' : q \in found' \ Edges'}
    BY DEF Grown
  <2>2. {Larger(q, found)' : q \in found' \ Edges'} = {Larger(q, found') : q \in found' \ Edges}
    BY <1>1, <1>2
  <2> QED BY <1>1, <2>1, <2>2
<1>4. \A q : Larger(q, found) \subseteq Larger(q, found')
  BY DEF Larger
<1>5. ASSUME NEW q \in found \ Edges, NEW r \in Larger(q, found')
      PROVE  r \in Larger(q, found) \union Larger(p, found')
  <2>1. PICK s \in found' : /\ getSize(s) = getSize(q) /\ Cardinality(Graph(s)) = Cardinality(Graph(q))
                            /\ Graph(r) = Graph(q) \union Graph(s)
    BY <1>5 DEF Larger
  <2>2. r \in Level(getSize(q) + 1) /\ Cardinality(Graph(r)) = Cardinality(Graph(q)) + 1
    BY <1>5 DEF Larger
  <2>3. CASE s \in found
    BY <2>1, <2>2, <2>3 DEF Larger
  <2>4. CASE s = p
    <3>1. q \in found' /\ Graph(r) = Graph(p) \union Graph(q)
      BY <2>1, <2>4
    <3>2. /\ getSize(q) = getSize(p) /\ Cardinality(Graph(q)) = Cardinality(Graph(p))
          /\ r \in Level(getSize(p) + 1) /\ Cardinality(Graph(r)) = Cardinality(Graph(p)) + 1
      BY <2>1, <2>2, <2>4
    <3> QED BY <3>1, <3>2 DEF Larger
  <2> QED BY <2>1, <2>3, <2>4
<1>6. Grown' \subseteq Grown \union Larger(p, found')
  <2> SUFFICES ASSUME NEW r \in Grown' PROVE r \in Grown \union Larger(p, found')
    OBVIOUS
  <2>1. CASE r \in Edges \union Pairs
    BY <2>1 DEF Grown
  <2>2. CASE r \notin Edges \union Pairs
    <3>1. PICK q \in found' \ Edges : r \in Larger(q, found')
      BY <1>3, <2>2
    <3>2. CASE q = p
      BY <3>1, <3>2
    <3>3. CASE q \in found \ Edges
      <4>1. r \in Larger(q, found) \/ r \in Larger(p, found')
        BY <1>5, <3>1, <3>3
      <4>2. r \in Larger(q, found) => r \in Grown
        BY <3>3 DEF Grown
      <4> QED BY <4>1, <4>2
    <3> QED BY <3>1, <3>2, <3>3
  <2> QED BY <2>1, <2>2
<1>7. Grown \subseteq Grown'
  <2> SUFFICES ASSUME NEW r \in Grown PROVE r \in Grown'
    OBVIOUS
  <2>1. CASE r \in Edges \union Pairs
    BY <1>3, <2>1
  <2>2. CASE r \notin Edges \union Pairs
    <3>1. PICK q \in found \ Edges : r \in Larger(q, found)
      BY <2>2 DEF Grown
    <3>2. q \in found' \ Edges /\ r \in Larger(q, found')
      BY <1>4, <3>1
    <3> QED BY <1>3, <3>2
  <2> QED BY <2>1, <2>2
<1>8. Larger(p, found') \subseteq Grown'
  <2>1. p \in found' \ Edges
    OBVIOUS
  <2> QED BY <1>3, <2>1
<1> QED BY <1>6, <1>7, <1>8

\* And what has come back one size up.
LEMMA RepeatedStep ==
  ASSUME NEW p, family' = family, found' = found \union {p}
  PROVE  Repeated \union Again(p, found') \subseteq Repeated'
<1>1. \A q : Again(q, found)' = Again(q, found')
  BY DEF Again, Level
<1>2. \A q : Again(q, found) \subseteq Again(q, found')
  BY DEF Again
<1>3. Repeated' = UNION {Again(q, found') : q \in found'}
  <2>1. Repeated' = UNION {Again(q, found)' : q \in found'}
    BY DEF Repeated
  <2>2. {Again(q, found)' : q \in found'} = {Again(q, found') : q \in found'}
    BY <1>1
  <2> QED BY <2>1, <2>2
<1>4. ASSUME NEW r \in Repeated PROVE r \in Repeated'
  <2>1. PICK q \in found : r \in Again(q, found)
    BY DEF Repeated
  <2>2. q \in found' /\ r \in Again(q, found')
    BY <1>2, <2>1
  <2> QED BY <1>3, <2>2
<1>5. Again(p, found') \subseteq Repeated'
  BY <1>3
<1> QED BY <1>4, <1>5

LEMMA AnswerFrequentIInv ==
  ASSUME IInv, NEW w \in Thread, AnswerFrequent(w)
  PROVE  IInv'
<1> DEFINE id  == wire[w].id
           p   == Of(id)
           E   == Extensions(p)
           new == {NewId(r) : r \in E}
<1>1. /\ Receive(w, "at") /\ found' = found \union {p} /\ rejected' = rejected
      /\ candidates' = candidates \union new
  BY DEF AnswerFrequent
<1>2. /\ UNCHANGED <<family, machine, waiting>> /\ pc = "receive" /\ pc' = "test"
      /\ checking' = checking \ {id}
  BY <1>1 DEF Receive, loading
<1>3. /\ ThreadInv' /\ LoadInv' /\ TurnInv'
      /\ id \in checking /\ p \in Listed
      /\ checking' = {wire'[v].id : v \in Busy'}
      /\ \A v, u \in Busy' : wire'[v].id = wire'[u].id => v = u
      /\ checking' \subseteq checking /\ IsFiniteSet(checking')
      /\ wire' \in [Thread -> {Idle} \union [kind : {"a", "at", "af"}, id : Listed \X Nat]]
  BY <1>1, ReceiveInv
<1>4. family \in Families /\ found \subseteq Listed /\ rejected \subseteq Listed
  BY DEF IInv, TypeOK
<1>5. /\ E = {r \in Joins(p, found') : r \notin OfAll(candidates)}
      /\ Joins(p, found') \subseteq Level(getSize(p) + 1) /\ E \subseteq Level(getSize(p) + 1)
      /\ E \subseteq Listed /\ IsFiniteSet(E) /\ \A r \in E : getSize(r) = getSize(p) + 1
  <2>1. E = {r \in Joins(p, found') : r \notin OfAll(candidates)}
    BY DEF Extensions
  <2>2. Joins(p, found') \subseteq Level(getSize(p) + 1)
    BY DEF Joins, Larger, Again
  <2>3. getSize(p) + 1 \in Nat
    BY <1>3, SizeType
  <2>4. /\ Level(getSize(p) + 1) \subseteq Listed /\ IsFiniteSet(Level(getSize(p) + 1))
        /\ \A x \in Level(getSize(p) + 1) : getSize(x) = getSize(p) + 1
    BY <1>4, <2>3, LevelFacts
  <2> HIDE DEF p, E
  <2> QED BY <2>1, <2>2, <2>4, FS_Subset
<1>6. /\ IsFiniteSet(InUse) /\ InUse = candidates \union checking
      /\ \A r : NewId(r) \notin InUse /\ Of(NewId(r)) = r
      /\ \A r \in Listed : NewId(r) \in Listed \X Nat
  BY InUseFinite, Fresh, NewIdOf DEF IInv
<1>7. IsFiniteSet(new)
  <2>1. IsFiniteSet(E)
    BY <1>5
  <2> DEFINE f == [r \in E |-> NewId(r)]
  <2>2. IsFiniteSet({f[r] : r \in E})
    <3>1. f = [r \in E |-> f[r]]
      OBVIOUS
    <3> HIDE DEF f, E
    <3> QED BY <2>1, <3>1, ImageFinite
  <2>3. {f[r] : r \in E} = new
    OBVIOUS
  <2> QED BY <2>2, <2>3
<1>8. new \subseteq Listed \X Nat /\ new \intersect (candidates \union checking) = {}
  BY <1>5, <1>6
<1>9. OfAll(new) = E
  BY <1>6 DEF OfAll
<1> HIDE DEF id, p, E, new
<1>10. TypeOK'
  <2>1. IsFiniteSet(candidates \union new)
    BY <1>7, FS_Union DEF IInv, TypeOK
  <2> QED BY <1>1, <1>2, <1>3, <1>8, <2>1, ListedFrame DEF TypeOK, IInv
<1>11. IdInv'
  BY <1>1, <1>3, <1>8 DEF IdInv, IInv
<1>12. GrownInv'
  <2>1. OfAll(checking) = OfAll(checking') \union {p}
    BY <1>2, <1>3, OfRemove DEF p
  <2>2. /\ OfAll(candidates \union checking) = OfAll(candidates) \union OfAll(checking)
        /\ OfAll((candidates \union new) \union checking') = OfAll(candidates) \union E \union OfAll(checking')
    <3>1. OfAll(candidates \union checking) = OfAll(candidates) \union OfAll(checking)
      BY OfUnion
    <3>2. OfAll((candidates \union new) \union checking') = OfAll(candidates \union new) \union OfAll(checking')
      BY OfUnion
    <3>3. OfAll(candidates \union new) = OfAll(candidates) \union OfAll(new)
      BY OfUnion
    <3> QED BY <1>9, <3>1, <3>2, <3>3
  <2>3. OfAll(candidates \union checking)' = OfAll(candidates) \union E \union OfAll(checking')
    <3>1. OfAll(candidates \union checking)' = OfAll((candidates \union new) \union checking')
      BY <1>1 DEF OfAll
    <3> QED BY <2>2, <3>1
  <2>4. /\ Edges \subseteq found /\ \A q \in OfAll(candidates \union checking) : getSize(q) >= 2
        /\ Grown \subseteq found \union rejected \union OfAll(candidates \union checking)
        /\ found \union rejected \union OfAll(candidates \union checking) \subseteq Grown \union Repeated
    BY <1>2 DEF GrownInv, IInv
  <2>5. getSize(p) \in Nat /\ getSize(p) >= 2
    BY <1>3, <2>1, <2>2, <2>4, SizeType
  <2>6. p \notin Edges
    BY <1>4, <2>5, LevelFacts DEF Edges
  <2>7. Grown' = Grown \union Larger(p, found')
    BY <1>1, <1>2, <1>3, <2>6, GrownStep
  <2>8. \A r \in E : getSize(r) >= 2
    BY <1>5, <2>5
  <2>9. Edges' = Edges
    BY <1>2, ListedFrame
  <2>10. Repeated \union Again(p, found') \subseteq Repeated'
    BY <1>1, <1>2, RepeatedStep
  <2>11. /\ Grown' \subseteq found' \union rejected' \union OfAll(candidates \union checking)'
         /\ found' \union rejected' \union OfAll(candidates \union checking)' \subseteq Grown' \union Repeated'
    <3>1. /\ Larger(p, found') \union Again(p, found') \subseteq E \union OfAll(candidates)
          /\ E \subseteq Larger(p, found') \union Again(p, found')
      BY <1>5 DEF Joins
    <3> QED BY <1>1, <2>1, <2>2, <2>3, <2>4, <2>7, <2>10, <3>1
  <2>12. \A q \in OfAll(candidates \union checking)' : getSize(q) >= 2
    BY <2>1, <2>2, <2>3, <2>4, <2>8
  <2> QED BY <1>1, <2>4, <2>9, <2>11, <2>12 DEF GrownInv
<1> QED BY <1>3, <1>10, <1>11, <1>12 DEF IInv
-----------------------------------------------------------------------------
(* The theorems.                                                            *)

LEMMA NextIInv == IInv /\ [Next]_vars => IInv'
<1> SUFFICES ASSUME IInv, [Next]_vars PROVE IInv'
  OBVIOUS
<1>1. ASSUME NEW m \in Machine, Load(m) PROVE IInv'
  BY <1>1, LoadIInv
<1>2. ASSUME NEW m \in Machine, Acknowledged(m) PROVE IInv'
  BY <1>2, AcknowledgedIInv
<1>3. CASE NoEdges
  BY <1>3, NoEdgesIInv
<1>4. CASE Started
  BY <1>4, StartedIInv
<1>5. CASE Test
  BY <1>5, TestIInv
<1>6. CASE Wait
  BY <1>6, WaitIInv
<1>7. ASSUME NEW id \in candidates, NEW w \in Thread, Send(id, w) PROVE IInv'
  BY <1>7, SendIInv
<1>8. ASSUME NEW w \in Thread, AnswerFrequent(w) PROVE IInv'
  BY <1>8, AnswerFrequentIInv
<1>9. ASSUME NEW w \in Thread, AnswerInfrequent(w) PROVE IInv'
  BY <1>9, AnswerInfrequentIInv
<1>10. ASSUME NEW w \in Thread, Predict(w) PROVE IInv'
  BY <1>10, PredictIInv
<1>11. CASE UNCHANGED vars
  <2>1. UNCHANGED <<family, machine, waiting, available, candidates, checking, found, rejected, wire, pc>>
    BY <1>11 DEF vars, loading, lists
  <2>2. TypeOK' /\ LoadInv' /\ ThreadInv' /\ TurnInv'
    <3>1. TypeOK'
      BY <2>1, ListedFrame DEF IInv, TypeOK
    <3>2. LoadInv' /\ ThreadInv'
      BY <2>1, BusyFrame DEF IInv, LoadInv, ThreadInv, OfReady
    <3>3. TurnInv'
      BY <2>1, BusyFrame DEF IInv, TurnInv, AllDone, Countable, IsHard
    <3> QED BY <3>1, <3>2, <3>3
  <2>3. IdInv'
    BY <2>1, IdFrame DEF IInv, SameIds
  <2>4. GrownInv'
    BY <2>1, GrownFrame DEF IInv, GrownInv, OfAll
  <2> QED BY <2>2, <2>3, <2>4 DEF IInv
<1> QED BY <1>1, <1>2, <1>3, <1>4, <1>5, <1>6, <1>7, <1>8, <1>9, <1>10, <1>11
        DEF Next, Master, Ended

\* At every moment of the approximate phase the lists, the threads and what is
\* under way agree (MinerAdv.cpp, startMining).
THEOREM Invariance == Spec => []IInv
BY InitIInv, NextIInv, PTL DEF Spec

\* What IInv says of the end is that the exact phase starts from all patterns
\* that have grown, but for those with a hard label (MinerAdv.cpp:149).
THEOREM ApproxCovered == Spec => []Covered
<1>1. IInv => Covered
  <2> SUFFICES ASSUME IInv, pc = "done"
               PROVE  /\ \A x \in Grown \ (found \union rejected) : Graph(x) \in Hard
                      /\ found \union rejected \subseteq Grown \union Repeated
    BY DEF Covered
  <2>1. checking = {} /\ \A id \in candidates : Graph(Of(id)) \in Hard
    BY DEF IInv, TurnInv, AllDone, Countable, IsHard
  <2>2. \A x \in OfAll(candidates \union checking) : Graph(x) \in Hard
    BY <2>1 DEF OfAll
  <2> QED BY <2>2 DEF IInv, GrownInv
<1> QED BY <1>1, Invariance, PTL

\* Each answer is on an object that is being checked (MinerAdv.cpp:326, 497).
THEOREM ApproxAnswersKnown == Spec => []AnswersKnown
<1>1. IInv => AnswersKnown
  BY DEF IInv, IdInv, AnswersKnown
<1> QED BY <1>1, Invariance, PTL

\* The master receives only when some thread has something to answer
\* (MinerAdv.cpp:173).
THEOREM ApproxAnswerComing == Spec => []AnswerComing
<1>1. IInv => AnswerComing
  BY DEF IInv, TurnInv, AnswerComing
<1> QED BY <1>1, Invariance, PTL
=============================================================================
