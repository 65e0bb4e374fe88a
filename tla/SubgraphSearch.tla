--------------------------- MODULE SubgraphSearch ---------------------------
(***************************************************************************)
(* GraphX::isIsomorphic: the search for the ways a query graph lies in a   *)
(* data graph, by an explicit stack of iterators over candidate sets.      *)
(* Workers run it with one query node (col, the restrictedDomainID) tied   *)
(* to one data node, and stop at the first answer; the master runs it free *)
(* (col = Free) and collects all answers.                                  *)
(*                                                                         *)
(* numIterations only matters against maxIters: over says that it has      *)
(* passed it, which in a limited search may happen at any point.  A search *)
(* that is given a set for postponed nodes then gives the node up and says *)
(* so; one that is not goes on, but its candidate loops break.             *)
(***************************************************************************)
EXTENDS LabelledGraph

CONSTANT Searches \* [query, data, col, node, domains, postponing, limited]

\* Patterns are connected, without an edge from a node to itself, and a worker
\* ties a query node to a data node of its label.
ASSUME SearchAssumption ==
  \A s \in Searches : LET nodes == NodesOf(s.query) IN
    /\ IsFiniteSet(nodes) /\ nodes # {} /\ nodes \subseteq Int
    /\ \A V \in SUBSET nodes : V # {} /\ (\A v \in V : Near(s.query, v) \subseteq V) => V = nodes
    /\ \A v \in nodes : {v} \notin DOMAIN s.query.edge
    /\ s.col # -1 => s.col \in nodes /\ s.node \in getNodesByLabel(s.data, s.query.label[s.col])

VARIABLES
  search,          \* the arguments
  toCheck,         \* query nodes waiting for a place in the order
  nodesOrder,
  selected,        \* per place: what its iterator has still to pass, the current node included
  selectedDataMap, \* data nodes in use
  results, postponed, over, done
vars == <<search, toCheck, nodesOrder, selected, selectedDataMap, results, postponed, over, done>>

Free == -1
query == search.query
data  == search.data
restricted == search.col # Free

\* Where an iterator over S stands, and what is left when it moves on.
Cur(S)  == CHOOSE v \in S : TRUE
Rest(S) == S \ {Cur(S)}
At(S)   == IF S = {} THEN {} ELSE {Cur(S)}

depth == Len(selected)
Image(i) == Cur(selected[i])
Placed(v) == \E i \in 1 .. depth : nodesOrder[i] = v
ImageOf(v) == Image(CHOOSE i \in 1 .. depth : nodesOrder[i] = v)

Init ==
  /\ search \in Searches
  /\ \E v \in NodesOf(query) : toCheck = <<IF restricted THEN search.col ELSE v>>
  /\ nodesOrder = <<>> /\ selected = <<>> /\ selectedDataMap = {}
  /\ results = {} /\ postponed = FALSE /\ over = FALSE /\ done = FALSE

-----------------------------------------------------------------------------
(* The order of the query nodes.                                            *)

InOrder(v) == \E i \in DOMAIN nodesOrder : nodesOrder[i] = v

\* The neighbours that are still without a place, those of low degree first
\* (equal degrees in the order of a hash map).
Batches(v) ==
  LET new == {w \in Near(query, v) : ~InOrder(w) /\ w # v}
  IN {b \in [1 .. Cardinality(new) -> new] :
        \A i, j \in DOMAIN b : i < j => b[i] # b[j] /\ Degree(query, b[i]) <= Degree(query, b[j])}

\* The first waiting node gets its place, once; its neighbours wait.
Visit ==
  /\ toCheck # <<>>
  /\ LET v == Head(toCheck)
     IN IF InOrder(v)
        THEN toCheck' = Tail(toCheck) /\ UNCHANGED nodesOrder
        ELSE /\ nodesOrder' = Append(nodesOrder, v)
             /\ \E b \in Batches(v) : toCheck' = Tail(toCheck) \o b
  /\ UNCHANGED <<search, selected, selectedDataMap, results, postponed, over, done>>

-----------------------------------------------------------------------------
(* The search.                                                              *)

Roots == IF restricted THEN {search.node} ELSE getNodesByLabel(data, query.label[nodesOrder[1]])

\* The first candidate set; without a node of that label there is no answer.
Start ==
  /\ toCheck = <<>> /\ selected = <<>> /\ ~done
  /\ IF Roots = {} THEN done' = TRUE /\ UNCHANGED <<selected, selectedDataMap>>
     ELSE selected' = <<Roots>> /\ selectedDataMap' = {Cur(Roots)} /\ UNCHANGED done
  /\ UNCHANGED <<search, toCheck, nodesOrder, results, postponed, over>>

(* (The faulty variant, used by no specification, never looks.)             *)
Searching == selected # <<>> /\ ~done
GivesUpNever == FALSE
GivesUp   == over /\ search.postponing

\* The head of the loop: too many iterations, the node is postponed.
Postpone ==
  /\ Searching /\ GivesUp
  /\ postponed' = TRUE /\ done' = TRUE
  /\ UNCHANGED <<search, toCheck, nodesOrder, selected, selectedDataMap, results, over>>

MayRunOver == over' \in IF search.limited THEN {over, TRUE} ELSE {over}

\* Levels that are exhausted go, until one has a further node (the faulty
\* variant, used by no specification, keeps the nodes of the levels gone).
FreedNone(k) == {Image(k)}
Freed(k) == {Image(i) : i \in k .. depth - 1}
Backtrack ==
  /\ Searching /\ ~GivesUp /\ selected[depth] = {}
  /\ \/ /\ \A j \in 1 .. depth - 1 : Rest(selected[j]) = {}
        /\ done' = TRUE
        /\ UNCHANGED <<selected, selectedDataMap>>
     \/ \E k \in 1 .. depth - 1 :
          /\ Rest(selected[k]) # {} /\ \A j \in k + 1 .. depth - 1 : Rest(selected[j]) = {}
          /\ selected' = [i \in 1 .. k |-> IF i = k THEN Rest(selected[k]) ELSE selected[i]]
          /\ selectedDataMap' = (selectedDataMap \ Freed(k)) \union {Cur(Rest(selected[k]))}
          /\ UNCHANGED done
  /\ MayRunOver
  /\ UNCHANGED <<search, toCheck, nodesOrder, results, postponed>>

\* checkCurrentStatus: the last data node has all the edges to the earlier
\* ones that the query asks for.  (The faulty variant, used by no
\* specification, relies on the candidate loop.)
AgreesAlways == TRUE
Agrees ==
  \A i \in 1 .. depth - 1 : LET e == {nodesOrder[i], nodesOrder[depth]}
    IN e \in DOMAIN query.edge => Linked(data, Image(i), Image(depth), query.edge[e])

\* The iterator of the last level moves on, with the entry in the map.  (The
\* faulty variant, used by no specification, forgets the iterator.)
AdvanceMap ==
  /\ UNCHANGED selected
  /\ selectedDataMap' = (selectedDataMap \ {Image(depth)}) \union At(Rest(selected[depth]))
Advance ==
  /\ selected' = [selected EXCEPT ![depth] = Rest(@)]
  /\ selectedDataMap' = (selectedDataMap \ {Image(depth)}) \union At(Rest(selected[depth]))

AtNode == Searching /\ ~GivesUp /\ selected[depth] # {}
Full   == depth = Len(nodesOrder)

Reject ==
  /\ AtNode /\ ~Agrees
  /\ Advance
  /\ MayRunOver
  /\ UNCHANGED <<search, toCheck, nodesOrder, results, postponed, done>>

\* All query nodes have an image: an answer; a restricted search wants one.
Found ==
  /\ AtNode /\ Agrees /\ Full
  /\ results' = results \union {[v \in {nodesOrder[i] : i \in 1 .. depth} |-> ImageOf(v)]}
  /\ IF restricted THEN done' = TRUE /\ UNCHANGED <<selected, selectedDataMap>>
                   ELSE Advance /\ UNCHANGED done
  /\ MayRunOver
  /\ UNCHANGED <<search, toCheck, nodesOrder, postponed>>

\* The next query node; the data nodes that fit it by label, domain and not
\* being in use; and that have the edges to the images of its neighbours.
next == nodesOrder[depth + 1]
Fits(v) ==
  /\ data.label[v] = query.label[next]
  /\ search.domains # <<>> => v \in search.domains[next]
  /\ v \notin selectedDataMap
Joined(v) ==
  \A i \in 1 .. depth : LET e == {nodesOrder[i], next}
    IN e \in DOMAIN query.edge => Linked(data, v, Image(i), query.edge[e])

\* Candidates come from the neighbours of the image of one placed neighbour.
Source == CHOOSE i \in 1 .. depth :
            /\ {nodesOrder[i], next} \in DOMAIN query.edge
            /\ \A j \in 1 .. i - 1 : {nodesOrder[j], next} \notin DOMAIN query.edge

\* With too many iterations behind it, the loop over the neighbours breaks at
\* once; when that happens inside the loop, any part of them has been seen,
\* and one whose edges were being looked at is taken unseen.
Candidates(S) ==
  LET all  == {v \in Near(data, Image(Source)) : Fits(v)}
      some == {{v \in seen : Joined(v)} \union more :
                 seen \in SUBSET all, more \in {{}} \union {{v} : v \in all}}
  IN \/ ~over' /\ S = {v \in all : Joined(v)}
     \/ over /\ S = {}
     \/ ~over /\ over' /\ S \in some

Extend ==
  /\ AtNode /\ Agrees /\ ~Full
  /\ MayRunOver
  /\ \E S \in SUBSET Near(data, Image(Source)) :
       /\ Candidates(S)
       /\ IF S = {} THEN Advance
          ELSE /\ selected' = Append(selected, S)
               /\ selectedDataMap' = selectedDataMap \union {Cur(S)}
  /\ UNCHANGED <<search, toCheck, nodesOrder, results, postponed, done>>

Next == Visit \/ Start \/ Postpone \/ Backtrack \/ Reject \/ Found \/ Extend
Spec == Init /\ [][Next]_vars /\ WF_vars(Next)
-----------------------------------------------------------------------------
(* What the search promises.                                                *)

\* The map of data nodes in use is the set of nodes the iterators stand at,
\* each at one level only: what was taken out and put back by the seven places
\* that move an iterator adds up, also over several levels at once.
MapIsSelected ==
  /\ selectedDataMap = UNION {At(selected[i]) : i \in 1 .. depth}
  /\ \A i, j \in 1 .. depth : i # j => At(selected[i]) \intersect At(selected[j]) = {}

\* Every answer maps the query into the data graph, whether the search was cut
\* short or not: a candidate that was taken unseen is found out later.
ResultsSound == \A m \in results : DOMAIN m = NodesOf(query) /\ Embeds(query, data, m)

Wanted == {m \in Embeddings(query, data) : restricted => m[search.col] = search.node}

\* A search that ends without an answer says the truth, or says that the node
\* is postponed; a free search that is not cut short has all the answers.
AnswersRight ==
  done /\ (search.postponing \/ ~over) =>
    /\ restricted => (results # {} \/ postponed \/ Wanted = {})
    /\ ~restricted /\ ~postponed => results = Wanted
    /\ postponed => results = {} \/ ~restricted

\* What makes ResultsSound inductive (SubgraphSearchProofs).  A query node has its
\* place once, and its neighbours have theirs or wait; a level holds data nodes
\* of the right label, none of which an earlier level stands at; and of what the
\* earlier levels stand at, all edges have been compared.
TypeOK ==
  /\ search \in Searches
  /\ toCheck \in Seq(NodesOf(query)) /\ nodesOrder \in Seq(NodesOf(query))
  /\ selected \in Seq(SUBSET NodesOf(data)) /\ depth <= Len(nodesOrder)
OrderInv ==
  /\ \A i, j \in DOMAIN nodesOrder : nodesOrder[i] = nodesOrder[j] => i = j
  /\ \A v \in NodesOf(query) : InOrder(v) =>
       \A u \in Near(query, v) : InOrder(u) \/ \E k \in DOMAIN toCheck : toCheck[k] = u
  /\ nodesOrder = <<>> => toCheck # <<>> /\ (restricted => toCheck = <<search.col>>)
  /\ nodesOrder # <<>> /\ restricted => nodesOrder[1] = search.col
  /\ selected # <<>> => toCheck = <<>>
LevelInv ==
  /\ \A i \in 1 .. depth : \A v \in selected[i] : data.label[v] = query.label[nodesOrder[i]]
  /\ \A i \in 1 .. depth - 1 : selected[i] # {}
  /\ \A j \in 1 .. depth : \A i \in 1 .. j - 1 : Image(i) \notin selected[j]
  /\ selectedDataMap = UNION {At(selected[i]) : i \in 1 .. depth}
Compared(i, j) == LET e == {nodesOrder[i], nodesOrder[j]}
                  IN e \in DOMAIN query.edge => Linked(data, Image(i), Image(j), query.edge[e])
ComparedInv == \A j \in 1 .. depth - 1 : \A i \in 1 .. j - 1 : Compared(i, j)
IInv == TypeOK /\ OrderInv /\ LevelInv /\ ComparedInv /\ ResultsSound

\* What makes AnswersRight inductive (SubgraphSearchProofs).  A query node other
\* than the first has its place after a neighbour of it, so that candidates have
\* a source; a restricted search stops at its first answer; and a map that is
\* wanted and not noted yet is still ahead of the iterators: they stand at its
\* nodes up to a place where its node is among those they have still to pass.
ReachedInv ==
  /\ nodesOrder = <<>> => Len(toCheck) = 1
  /\ nodesOrder # <<>> => \A k \in DOMAIN toCheck : \E i \in DOMAIN nodesOrder :
       {nodesOrder[i], toCheck[k]} \in DOMAIN query.edge
  /\ \A k \in 2 .. Len(nodesOrder) : \E i \in 1 .. k - 1 :
       {nodesOrder[i], nodesOrder[k]} \in DOMAIN query.edge
AnswerInv ==
  /\ results \subseteq [NodesOf(query) -> NodesOf(data)]
  /\ over => selected # <<>>
  /\ postponed => done
  /\ restricted => (results # {} => done) /\ (postponed => results = {})
Settled(m) == m \in results \/ (restricted /\ results # {})
AheadAt(m, k) ==
  /\ \A i \in 1 .. k - 1 : Image(i) = m[nodesOrder[i]]
  /\ m[nodesOrder[k]] \in selected[k]
  /\ k < depth => Image(k) # m[nodesOrder[k]]
Ahead(m) == ~done /\ (selected # <<>> => \E k \in 1 .. depth : AheadAt(m, k))
CompleteInv ==
  /\ ~over => \A m \in Wanted : Settled(m) \/ Ahead(m)
  /\ done /\ (search.postponing \/ ~over) /\ ~postponed => \A m \in Wanted : Settled(m)
CInv == ReachedInv /\ AnswerInv /\ CompleteInv

\* The domains a search is given leave out no node of a map that is wanted.
DomainsKeep ==
  \A s \in Searches : s.domains # <<>> =>
    \A m \in Embeddings(s.query, s.data) :
      (s.col # -1 => m[s.col] = s.node) => \A v \in NodesOf(s.query) : m[v] \in s.domains[v]

\* Every search ends.
Ends == <>done
=============================================================================
