----------------------------- MODULE NodeQueue -----------------------------
(***************************************************************************)
(* java.util.PriorityQueue<Node> as PARTITION uses it: a binary heap, here *)
(* a sequence whose node k has its children at 2k and 2k + 1, with the     *)
(* largest Dvalue at its head (Node.compareTo turns the order round).      *)
(*                                                                         *)
(* The program changes the Dvalue of a node that is in the queue, which    *)
(* the heap does not notice.  What it then returns depends on the order of *)
(* its array, so the sifting is modelled and not only the set of nodes.    *)
(* Every operator takes the Dvalues that hold at the time of the call.     *)
(***************************************************************************)
EXTENDS Integers, Sequences, SequencesExt

Swapped(q, j, k) == [q EXCEPT ![j] = q[k], ![k] = q[j]]

\* siftUp and siftDown of the node x at place k: it changes places with its
\* parent while that one is smaller, with its larger child while it is larger.
Up(q, k, D) ==
  LET x == q[k]
      rise(h, j) == IF h[j] = x /\ D[h[j \div 2]] < D[x] THEN Swapped(h, j, j \div 2) ELSE h
  IN FoldLeft(rise, q, [i \in 1 .. k - 1 |-> k + 1 - i])

Down(q, k, D) ==
  LET x == q[k]
      larger(h, j) == IF 2 * j < Len(q) /\ D[h[2 * j + 1]] > D[h[2 * j]] THEN 2 * j + 1 ELSE 2 * j
      sink(h, j) == IF h[j] = x /\ D[h[larger(h, j)]] > D[x] THEN Swapped(h, j, larger(h, j)) ELSE h
  IN FoldLeft(sink, q, [j \in 1 .. Len(q) \div 2 |-> j])

Shorter(q) == SubSeq(q, 1, Len(q) - 1)

Add(q, node, D) == Up(Append(q, node), Len(q) + 1, D)

\* The queue after poll, which returns Head(q).
Polled(q, D) == IF Len(q) = 1 THEN <<>> ELSE Down([Shorter(q) EXCEPT ![1] = q[Len(q)]], 1, D)

\* remove(node): the last node takes its place and moves down, else up.
Removed(q, node, D) ==
  LET i     == CHOOSE k \in DOMAIN q : q[k] = node
      moved == q[Len(q)]
      down  == Down([Shorter(q) EXCEPT ![i] = moved], i, D)
  IN IF i = Len(q) THEN Shorter(q) ELSE IF down[i] = moved THEN Up(down, i, D) ELSE down

\* A node of the largest Dvalue is added and polled again, "so that the queue
\* is updated": only the path to the last place is.
Stirred(q, D) ==
  LET nmax == -1
      top  == CHOOSE t \in {D[n] : n \in DOMAIN D} : \A n \in DOMAIN D : D[n] <= t
      with == [n \in DOMAIN D \union {nmax} |-> IF n = nmax THEN top + 1 ELSE D[n]]
  IN Polled(Add(q, nmax, with), with)
=============================================================================
