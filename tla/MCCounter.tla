----------------------------- MODULE MCCounter -----------------------------
(* Paths, triangles and a cycle with different labels in data graphs of     *)
(* six and eight nodes; buckets of two samples.                              *)
EXTENDS SupportCounter

Graph(label, lines) == Parsed([label |-> [v \in 0 .. Len(label) - 1 |-> label[v + 1]], lines |-> lines], -1)

\* Two triangles 1-1-2 that share a node, with two tails; edge labels 1 and 2.
Chain == Graph(<<1, 2, 1, 2, 1, 1, 2, 1>>,
               <<<<0, 1, 1>>, <<1, 2, 1>>, <<0, 2, 2>>, <<2, 3, 1>>, <<3, 4, 1>>, <<2, 4, 2>>, <<4, 5, 2>>, <<5, 6, 2>>, <<3, 7, 1>>>>)
\* A ring of labels 1, 2 and 3, twice around, and an edge: sparse.
Ring == Graph(<<1, 2, 3, 1, 2, 3, 1, 3>>,
              <<<<0, 1, 1>>, <<1, 2, 1>>, <<2, 3, 1>>, <<3, 4, 1>>, <<4, 5, 1>>, <<5, 0, 1>>, <<6, 7, 1>>>>)
\* Three petals 1-2 around, and one edge of label 2.
Flower == Graph(<<1, 1, 1, 2, 2, 2>>,
                <<<<0, 3, 1>>, <<3, 1, 1>>, <<1, 4, 1>>, <<4, 2, 1>>, <<2, 5, 1>>, <<5, 0, 1>>, <<0, 1, 2>>>>)

Path2 == Graph(<<1, 2, 1>>, <<<<0, 1, 1>>, <<1, 2, 1>>>>)
Tri   == Graph(<<1, 2, 1>>, <<<<0, 1, 1>>, <<1, 2, 1>>, <<0, 2, 2>>>>)
Hook  == Graph(<<1, 2, 1, 1>>, <<<<0, 1, 1>>, <<1, 2, 1>>, <<2, 3, 2>>>>)
Claw  == Graph(<<2, 1, 1, 1>>, <<<<0, 1, 1>>, <<0, 2, 1>>, <<0, 3, 1>>>>)
Path3 == Graph(<<1, 2, 3>>, <<<<0, 1, 1>>, <<1, 2, 1>>>>)
Tri3  == Graph(<<1, 2, 3>>, <<<<0, 1, 1>>, <<1, 2, 1>>, <<0, 2, 1>>>>)

Job(kind, p, d, s, col, valids, parts, again, costly) ==
  [kind |-> kind, pattern |-> p, data |-> d, support |-> s, col |-> col, valids |-> valids,
   parts |-> parts, postpone |-> col # NoCol, again |-> again, costly |-> costly]
Whole == {Job("s", p, Chain, s, c, v, 1, 2, e) : p \in {Path2, Tri, Hook}, s \in {2, 3}, c \in {NoCol}, v \in {-1}, e \in {{}, {2, 4}}}
Cols  == {Job("s", p, Chain, s, c, 1, n, 2, e) : p \in {Tri, Hook}, s \in {2, 3}, c \in {0, 1}, n \in {1, 2}, e \in {{}, {2}, {3, 4}}}
         \union {Job("s", Tri, Flower, 3, c, 1, 2, 1, {}) : c \in {0, 1}}
Parts == {Job("s", p, Chain, s, NoCol, -1, 2, 1, e) : p \in {Path2, Tri, Hook}, s \in {2, 3}, e \in {{}, {4}}}
Labels == {Job("s", p, Ring, s, NoCol, -1, n, 1, {}) : p \in {Path3, Tri3}, s \in {1, 2, 3}, n \in {1, 2}}
Approx == {Job("a", p, d, s, NoCol, -1, 1, 1, {}) : p \in {Tri, Path2, Claw}, d \in {Chain, Flower}, s \in {1, 2, 3, 4}}
  \union {Job("a", p, d, s, NoCol, -1, 1, 1, {}) : p \in {Path3, Tri3}, d \in {Ring}, s \in {1, 2, 3}}
All == Whole \union Cols \union Parts \union Labels \union Approx
Buckets == [bucket |-> 2, least |-> 2, most |-> 4, dense |-> 0]
=============================================================================
