------------------------------ MODULE MCExact ------------------------------
(* Two families of patterns, on two threads: four edges in a path, with     *)
(* three patterns of two edges, two of three and one of four; and three     *)
(* edges that all meet.  One prediction at a time is varied on the path (of *)
(* its two halves one is enough), three of the four for the edges that      *)
(* meet.  In a late world, with five edges, a part of a pattern is sent     *)
(* before its subpattern is rejected.                                       *)
EXTENDS ExactMaster

\* What the proofs of ImplementsMining and of ThresholdFound ask of the worlds.
ASSUME ClosedAssumption == WorldsClosed
ASSUME PredictedAssumption == SomePredicted

AB == {"a", "b"}  BC == {"b", "c"}  CD == {"c", "d"}  AC == {"a", "c"}
ABC == AB \union BC  BCD == BC \union CD  ABCD == ABC \union CD
DE == {"d", "e"}  CDE == CD \union DE  BCDE == BCD \union DE
Path == <<AB, BC, CD, ABC, BCD, ABCD>>
Long == <<AB, BC, CD, DE, ABC, BCD, CDE, ABCD, BCDE>>
Meet == <<AB, AC, BC, ABC>>
Set(order) == {order[k] : k \in DOMAIN order}
Edges(order) == {{e} : e \in UNION Set(order)}

\* What is frequent: closed under subpatterns.
Truths(order) == {T \in SUBSET Set(order) : \A p \in T : \A q \in Set(order) : q \subseteq p => q \in T}

P(freq, time, exact) == [freq |-> freq, time |-> time, col |-> IF freq \/ exact THEN NoCol ELSE 0, exact |-> exact]
Right(T, order) == [p \in Set(order) |-> P(p \in T, 4, FALSE)]
World(order, T, pred) == [order |-> order, truth |-> T \union Edges(order), pred |-> pred]

PathWorlds ==
  UNION {{World(Path, T, [Right(T, Path) EXCEPT ![p] = x]) :
            p \in {BC, ABC}, x \in {P(f, 4, FALSE) : f \in BOOLEAN}} : T \in Truths(Path)} \union
  UNION {{World(Path, T, [Right(T, Path) EXCEPT ![p] = x]) :
            p \in {ABC, ABCD}, x \in {P(f, 30, FALSE) : f \in BOOLEAN}} : T \in Truths(Path)}
MeetWorlds ==
  UNION {{World(Meet, T, [Right(T, Meet) EXCEPT ![AB] = x, ![BC] = y, ![ABC] = z]) :
            x \in {P(f, 30, FALSE) : f \in BOOLEAN}, y \in {P(f, 4, FALSE) : f \in BOOLEAN},
            z \in {P(TRUE, 30, FALSE), P(FALSE, 30, FALSE)}} : T \in Truths(Meet)}
ExactWorlds ==
  UNION {{World(o, T, [Right(T, o) EXCEPT ![p] = P(p \in T, 4, TRUE)]) : p \in {AB, ABC}, T \in Truths(o)} : o \in {Path, Meet}}
ShortWorlds == {World(Meet, Set(Meet), [p \in Set(Meet) |-> P(TRUE, t, FALSE)]) : t \in {0, 1, 2}}
LateWorlds ==
  {World(Long, Set(Long) \ {ABC, ABCD}, [p \in Set(Long) |-> P(p \notin {ABCD, BCDE} \/ f, CASE p = ABCD -> 30 [] p = BCDE -> 8 [] OTHER -> 4, FALSE)]) :
     f \in BOOLEAN}
AllWorlds == PathWorlds \union MeetWorlds \union ExactWorlds \union ShortWorlds \union LateWorlds

\* Two patterns of three edges whose labels are hard, found while the phase runs.
Twins == {ABC, BCD}
TwinWorlds == {World(Path, Set(Path), [p \in Set(Path) |-> P(p # BC, 4, FALSE)])}
=============================================================================
