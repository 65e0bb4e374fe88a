----------------------------- MODULE MCSession -----------------------------
(***************************************************************************)
(* Instances of MiningSession: two sites, each with one largest pattern on *)
(* at most five labels.  Everything smaller is frequent too.               *)
(***************************************************************************)
EXTENDS MiningSessionInv

Ring    == {{1, 2}, {2, 3}, {3, 4}, {1, 4}}
Full    == Ring \union {{1, 3}, {2, 4}}
Kite    == {{1, 2}, {2, 3}, {1, 3}, {3, 4}}
Star    == {{1, 2}, {1, 3}, {1, 4}}
Penta   == {{1, 2}, {2, 3}, {3, 4}, {4, 5}, {1, 5}} \* less interesting than Full
Path    == {{1, 2}, {2, 3}}
Twins   == {{1}}            \* an edge between equal labels
Elsewhere == {{5, 6}}

\* Site 1 has the first, site 2 the second, and both all frequent edges.
Both(g, h) ==
  [frequent |-> Down(g) \union Down(h),
   present  |-> [i \in Client |-> Down(IF i = 1 THEN g ELSE h) \union {{e} : e \in g \union h}],
   missed   |-> [i \in Client |-> {}]]

\* Site 1 has matches of all patterns on the labels, though few are frequent.
Rare(g, h) == [Both(g, h) EXCEPT !.present[1] = Down(Full)]

\* Site i may not count the patterns of m in full, though they are frequent.
Missing(w, i, m) == [w EXCEPT !.missed[i] = m]
Claw4  == {{1, 2}, {2, 3}, {2, 4}}
Path4  == {{2, 3}, {3, 4}, {1, 4}}   \* the father of Ring as a candidate
Arc    == {{1, 2}, {1, 5}, {4, 5}}   \* and one of the fathers on Penta
Triangle == {{1, 2}, {2, 3}, {1, 3}}

MCClient == {1, 2}
MCWorld ==
  {Both(g, h) : g \in {Ring, Kite, Star}, h \in {g2 \in SUBSET Full : g2 # {} /\ Connected(g2)}}
  \union {Both(g, h) : g \in {Full, Path, Twins}, h \in {Full, Ring, Path, Twins, Elsewhere}}
  \union {Rare(g, Ring) : g \in {Kite, Star, Path, Ring}}
  \union {Both(Full, Penta)}
  \union {Missing(Both(Ring, Ring), i, {m}) : i \in Client, m \in {Path, Path4, Ring}}
  \union {Missing(Both(Penta, Penta), 1, {Arc})}
  \union {Missing(Both(Kite, Full), i, {m}) : i \in Client, m \in {Triangle, Claw4}}
  \union {Missing(Missing(Both(Full, Kite), 1, {Path4}), 2, {Triangle}), Missing(Both(Kite, Kite), 1, {Path, Triangle})}

\* The hypothesis of the theorems about sessions (MiningSessionProofs).
ASSUME KnownAssumption == \A w \in MCWorld : HasEdges(w)

\* Each site has only the edges of its own pattern.
Apart(g, h) == [Both(g, h) EXCEPT !.present = [i \in Client |-> Down(IF i = 1 THEN g ELSE h)]]
EmptyWorld == {[frequent |-> {}, present |-> [i \in Client |-> Down(Path)], missed |-> [i \in Client |-> {}]]}
ApartWorld == {Apart(Path, h) : h \in {Star, Elsewhere}}
=============================================================================
