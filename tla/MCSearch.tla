------------------------------ MODULE MCSearch ------------------------------
(* Queries of two to four nodes in data graphs of four and five.            *)
EXTENDS SubgraphSearch

Graph(label, lines) == Parsed([label |-> label, lines |-> lines], -1)
One(n) == [v \in 0 .. n - 1 |-> 1]

\* An edge, a path with two labels, a triangle with one odd edge, and a path
\* of four nodes.
Edge     == Graph(One(2), <<<<0, 1, 1>>>>)
Path     == Graph([v \in 0 .. 2 |-> IF v = 1 THEN 2 ELSE 1], <<<<0, 1, 1>>, <<1, 2, 1>>>>)
Triangle == Graph(One(3), <<<<0, 1, 1>>, <<1, 2, 1>>, <<2, 0, 2>>>>)
Square   == Graph(One(4), <<<<0, 1, 1>>, <<1, 2, 1>>, <<2, 3, 1>>, <<3, 0, 1>>>>)
Queries == {Edge, Path, Triangle, Square}

Diamond == Graph(One(5), <<<<0, 1, 1>>, <<1, 2, 1>>, <<2, 3, 1>>, <<3, 0, 1>>, <<0, 2, 2>>, <<3, 4, 2>>>>)
Star    == Graph([v \in 0 .. 4 |-> IF v \in {1, 4} THEN 2 ELSE 1],
                 <<<<0, 1, 1>>, <<1, 2, 1>>, <<1, 3, 2>>, <<2, 4, 1>>, <<3, 4, 1>>, <<0, 3, 1>>>>)
Datas == {Diamond, Star}

\* The domains GraMiCounter passes: all data nodes with label and degree.
Domains(q, d) == [c \in NodesOf(q) |-> {v \in getNodesByLabel(d, q.label[c]) : Degree(d, v) >= Degree(q, c)}]

Limits == {[postponing |-> p, limited |-> l] : p \in BOOLEAN, l \in BOOLEAN}
Task(q, d, c, v, dom, lim) ==
  [query |-> q, data |-> d, col |-> c, node |-> v, domains |-> dom, postponing |-> lim.postponing, limited |-> lim.limited]
FreeTasks == {Task(q, d, Free, Free, <<>>, [postponing |-> FALSE, limited |-> l]) :
                q \in Queries, d \in Datas, l \in BOOLEAN}
ColTasks == UNION {UNION {{Task(q, d, c, v, dom, lim) : v \in Domains(q, d)[c], dom \in {<<>>, Domains(q, d)}, lim \in Limits} :
                      c \in NodesOf(q)} : q \in Queries, d \in Datas}
All == FreeTasks \union ColTasks

\* What the proof that no answer is missed asks of the domains.
ASSUME DomainsAssumption == DomainsKeep

\* Searches of Worker.cpp:236: limited, with nothing to postpone to.
Uncounted == {s \in ColTasks : s.limited /\ ~s.postponing}
=============================================================================
