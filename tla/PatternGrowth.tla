--------------------------- MODULE PatternGrowth ---------------------------
(***************************************************************************)
(* Patterns and how the master grows them by one edge (TreeGenForward,     *)
(* TreeGenBackward).                                                       *)
(*                                                                         *)
(* The labels of a pattern are all different (TreeGenForward.java:61-80),  *)
(* so a pattern is the set of its edges and an edge the set of its two     *)
(* labels; two patterns are isomorphic when these sets are equal.  A       *)
(* pattern also remembers which edges are forward, which backward edges.   *)
(***************************************************************************)
EXTENDS Integers, FiniteSets

Graph(p) == p.fwd \union p.bwd
Nodes(g) == UNION g

\* No part of the edges is cut off from the rest.
Connected(g) == \A s \in SUBSET g : s \in {{}, g} \/ Nodes(s) \cap Nodes(g \ s) # {}
Down(g) == {h \in SUBSET g : h # {} /\ Connected(h)}

\* Labels are numbers, and only the pattern of a single edge may have two
\* equal ones.
IsPattern(g) ==
  /\ g # {} /\ IsFiniteSet(g) /\ Connected(g)
  /\ \A e \in g : e \subseteq Nat /\ \E a, b \in e : e = {a, b} /\ (a = b => g = {e})

-----------------------------------------------------------------------------
\* Get_Seedmap: the neighbours of each label along the frequent edges.
SeedsOf(edges) == [a \in UNION edges |-> {b \in UNION edges : {a, b} \in edges}]

\* What is left of g after label a and its edges are taken out, if it is
\* still connected and has all other labels.
Without(g, a) == {e \in g : a \notin e}
\* (mutant: whatever is left counts)
StillWholeLoose(g, a) == Without(g, a) # {}
StillWhole(g, a) == LET h == Without(g, a) IN
  h # {} /\ Connected(h) /\ Nodes(h) = Nodes(g) \ {a}

\* TreeGenForward.checkfrequent: every smaller tree of g that keeps the new
\* label is one of the fathers.
CheckForward(g, new, fathers) ==
  \A a \in Nodes(g) \ {new} : StillWhole(g, a) => \E p \in fathers : Graph(p) = Without(g, a)

\* Of the candidates with the same graph only the first is kept, by the
\* place of its father in a HashMap (rank, which may leave it open).
First(cs, rank) == CHOOSE c \in cs : \A d \in cs :
  \/ rank[Graph(c.father)] < rank[Graph(d.father)]
  \/ rank[Graph(c.father)] = rank[Graph(d.father)] /\ c.ex <= d.ex
OnePerGraph(all, rank) ==
  UNION {{First({x \in c : Graph(x.pat) = g}, rank) : g \in {Graph(x.pat) : x \in c}} : c \in {all}}

\* TreeGenForward: a father with one more edge, from its label ex to a new
\* label.  (A father with two equal labels has no such extension.)
ForwardOf(p, seeds, fathers) ==
  LET new(a) == {b \in seeds[a] \ Nodes(p.fwd) : CheckForward(p.fwd \union {{a, b}}, b, fathers)}
      by(a) == {[pat |-> [fwd |-> p.fwd \union {{a, b}}, bwd |-> {}], father |-> p, ex |-> a, new |-> b] : b \in new(a)}
  IN UNION {by(a) : a \in {x \in Nodes(p.fwd) : {x} \notin p.fwd}}
GenForward(fathers, seeds, rank) ==
  OnePerGraph(UNION {ForwardOf(p, seeds, fathers) : p \in fathers}, rank)

\* TreeGenBackward.checkfrequent: with one backward edge in the place of a
\* forward edge that touches it, a tree on the same labels is in the level
\* of the tree.
\* (mutant: the other backward edges stay)
CheckBackwardOthers(p, level) ==
  \A b \in p.bwd, f \in p.fwd :
    LET h == Graph(p) \ {f} IN
    f \cap b # {} /\ Connected(h) /\ Nodes(h) = Nodes(p.fwd) => \E q \in level : Graph(q) = h
CheckBackward(p, level) ==
  \A b \in p.bwd, f \in p.fwd :
    LET h == (p.fwd \ {f}) \union {b} IN
    f \cap b # {} /\ Connected(h) /\ Nodes(h) = Nodes(p.fwd) => \E q \in level : Graph(q) = h

\* TreeGenBackward: a father with one more edge, between its labels ex and new.
WithBack(p, e) == [fwd |-> p.fwd, bwd |-> p.bwd \union {e}]
BackwardOf(p, seeds, level) ==
  LET to(a) == {b \in Nodes(p.fwd) : /\ a # b /\ b \in seeds[a] /\ {a, b} \notin Graph(p)
                                     /\ CheckBackward(WithBack(p, {a, b}), level)}
      by(a) == {[pat |-> WithBack(p, {a, b}), father |-> p, ex |-> a, new |-> b] : b \in to(a)}
  IN UNION {by(a) : a \in Nodes(p.fwd)}
GenBackward(fathers, seeds, level, rank) ==
  OnePerGraph(UNION {BackwardOf(p, seeds, level) : p \in fathers}, rank)

=============================================================================
