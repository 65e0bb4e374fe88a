---------------------------- MODULE MCPartition ----------------------------
EXTENDS Partition

\* A ladder of eight vertices: every edge of two paths, and some rungs.
Paths == {<<0, 1>>, <<1, 2>>, <<2, 3>>, <<4, 5>>, <<5, 6>>, <<6, 7>>}
Rungs == {<<0, 4>>, <<1, 5>>, <<2, 6>>, <<3, 7>>, <<0, 5>>}
Label1 == [v \in 0 .. 7 |-> 0]
Label3 == [v \in 0 .. 7 |-> IF v < 3 THEN 1 ELSE IF v = 5 THEN 2 ELSE 0]

World(label, edges, part, num) == [label |-> label, pairs |-> edges, part |-> part, num_nodes |-> num]

\* Ten vertices on a cycle with three tails, coarsened to six and four nodes.
Ten == World([v \in 0 .. 9 |-> <<3, 4, 1, 3, 4, 1, 2, 1, 2, 4>>[v + 1]],
             {<<0, 4>>, <<4, 8>>, <<0, 9>>, <<2, 5>>, <<2, 9>>, <<3, 7>>, <<5, 6>>, <<3, 5>>, <<3, 8>>, <<1, 9>>},
             3, 5)

\* Two and three parts; the ladder without rungs is too small for the
\* threshold 8, and too coarse for four parts with the threshold 2.
Ladders == {World(Label3, Paths \union R, 2, 3) : R \in SUBSET Rungs}
Three   == {World(Label1, Paths \union R, 3, 4) : R \in {{}, {<<0, 4>>}, {<<0, 4>>, <<3, 7>>}}}
Extreme == {World(Label3, Paths, 2, 8), World(Label3, Paths, 4, 2)}

All == Ladders \union Three \union Extreme
Skipping == {Ten}
=============================================================================
