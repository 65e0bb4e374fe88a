------------------------------ MODULE MCJoins ------------------------------
(* Data graphs of four and five nodes, mined to the last subgraph.          *)
EXTENDS CandidateJoins

\* Whole numbers as edge labels, in tenths.
Tenths(lines) == [k \in DOMAIN lines |-> <<lines[k][1], lines[k][2], 10 * lines[k][3]>>]
W(label, lines, support, limit, exact, one) ==
  [file |-> [label |-> label, lines |-> Tenths(lines)], support |-> support, limit |-> limit, exact |-> exact, one |-> one]
Labels(s) == [v \in 0 .. Len(s) - 1 |-> s[v + 1]]

Ring  == <<<<0, 1, 1>>, <<1, 2, 1>>, <<2, 3, 1>>, <<3, 0, 1>>>>
Whole == Ring \o <<<<0, 2, 1>>, <<1, 3, 1>>>>
Paw   == <<<<0, 1, 1>>, <<1, 2, 1>>, <<2, 0, 1>>, <<3, 0, 1>>>>
Kite  == Paw \o <<<<3, 1, 2>>, <<3, 4, 1>>, <<4, 2, 2>>>>
Star  == <<<<0, 1, 1>>, <<0, 2, 1>>, <<0, 3, 2>>, <<4, 0, 1>>, <<1, 2, 2>>>>
Long  == <<<<0, 1, 12>>, <<1, 2, 1>>, <<2, 3, 12>>, <<3, 0, 11>>, <<0, 2, 2>>>>
House == Ring \o <<<<3, 4, 1>>, <<4, 0, 1>>>>

\* The exact phase: cliques with one and two labels, graphs whose patterns are
\* infrequent in part, and one with edge labels of two digits, in one order of
\* deciding the candidates.
OneOrder ==
  {W(Labels(l), Whole, 1, 6, TRUE, TRUE) : l \in {<<1, 1, 1, 1>>, <<1, 1, 2, 2>>}}
  \union {W(Labels(<<1, 1, 1, 1>>), Paw, 1, 5, TRUE, TRUE), W(Labels(<<1, 1, 1, 1, 1>>), Kite, 2, 5, TRUE, TRUE),
          W(Labels(<<1, 1, 2, 1, 2>>), House, 1, 5, TRUE, TRUE), W(Labels(<<1, 2, 2, 1, 2>>), Kite, 1, 3, TRUE, TRUE),
          W(Labels(<<1, 1, 1, 1, 1>>), Star, 1, 5, TRUE, TRUE), W(Labels(<<1, 1, 2, 2>>), Long, 1, 5, TRUE, TRUE)}
\* In every order.
AnyOrder ==
  {W(Labels(<<1, 1, 1, 1>>), Paw, 2, 3, TRUE, FALSE), W(Labels(<<1, 2, 1>>), SubSeq(Paw, 1, 3), 1, 3, TRUE, FALSE)}
\* The approximate phase, where a closing edge may repeat one: at the limit the
\* lists hold the paw under the sizes 4 and 5.
Approximate ==
  {W(Labels(<<1, 2, 3, 1>>), Paw, 1, 4, FALSE, TRUE), W(Labels(<<1, 1, 1, 1>>), Paw, 1, 5, FALSE, TRUE)}
Mined == OneOrder \union AnyOrder \union Approximate

\* What the runs with a counterexample mine: two stars whose edge labels give
\* one text, and the paw with a limit beyond its edges.
TwoStars == {W(Labels(<<2, 1, 1, 2, 1, 1>>), <<<<0, 1, 1>>, <<0, 2, 12>>, <<3, 4, 11>>, <<3, 5, 2>>>>, 1, 2, TRUE, TRUE)}
OnePaw == {W(Labels(<<1, 1, 1, 1>>), Paw, 1, 10, FALSE, TRUE)}

\* The bytes behind the literal "_": its end after one, and that of the next
\* literal after four.
BytesBehind == [d \in 0 .. 9 |-> IF d = 4 THEN 1 ELSE d]
\* So that a star with four leaves has a hard label.
LimitsSmall == [part |-> 5, others |-> 20, first |-> 200, all |-> 100]
=============================================================================
