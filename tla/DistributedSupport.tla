------------------------- MODULE DistributedSupport -------------------------
(***************************************************************************)
(* How the support of the candidates is counted over a partitioned graph:  *)
(* what a site knows of the vertices of other sites, what it asks for      *)
(* (Get_Needmessage), the matches it finds (ForwardEx, BackwardEx), those  *)
(* it sends to the owners (Get_external) and the sums (StatisticMNI at the *)
(* sites, StatisticMNItable at the master).                                *)
(*                                                                         *)
(* Here every message of a round is one step of its site, and the          *)
(* acknowledgements are left out: the scripts are those of MiningSession.  *)
(* The master mines all levels: it does not stop early as long as it has   *)
(* fewer than K patterns.  The columns of a pattern are its labels.        *)
(***************************************************************************)
EXTENDS PatternGrowth, ColumnCheck, FiniteSetsExt, TLC

CONSTANTS Client,  \* the sites, numbered by their connection
          Problem, \* partitioned graphs: see ProblemAssumption
          Support  \* the threshold (Server.java:53)

Labels(graph, e) == {graph.label[v] : v \in e}
Virtual(graph, e, i) == {v \in e : graph.own[v] # i}
\* The graph of site i has the edges with an end of its own.
Component(graph, i) == {e \in graph.edges : Virtual(graph, e, i) # e}

\* A problem has the label of each vertex, the edges, the site each vertex
\* belongs to, and the orders of HashSets and HashMaps: a place for each
\* vertex (hash) and for each pattern (rank).  Every site has an instance of
\* every pair of labels (MiningSession, SitesSurvive).
ProblemAssumption ==
  /\ Client \subseteq Nat /\ IsFiniteSet(Client) /\ Support \in Nat \ {0}
  /\ \A p \in Problem :
       /\ IsFiniteSet(DOMAIN p.label)
       /\ \A v \in DOMAIN p.label : p.own[v] \in Client /\ p.label[v] \in Nat /\ p.hash[v] \in Nat
       /\ \A u, v \in DOMAIN p.label : p.label[u] = p.label[v] /\ p.hash[u] = p.hash[v] => u = v
       /\ \A e \in p.edges : /\ e \subseteq DOMAIN p.label /\ Cardinality(e) = 2 /\ Cardinality(Labels(p, e)) = 2
                             /\ \A i \in Client : \E f \in Component(p, i) : Labels(p, f) = Labels(p, e)
       /\ \A q \in Down({Labels(p, e) : e \in p.edges}) : p.rank[q] \in Nat
ASSUME ProblemAssumption

VARIABLES
  g,           \* the problem
  \* the master: the tree, the level of the backward loop (0 in the forward
  \* loop), the last frequent patterns, the candidates, their counts
  T, at, level, cands, freq,
  step, done,  \* the step of the round, and the sites that have taken it
  inbox, outbox,
  \* the sites: the edges they know, the questions they have asked, their
  \* patterns, and the candidates they have matches of
  known, asked, pattern_map, local

master == <<T, at, level, cands, freq>>
vars   == <<g, T, at, level, cands, freq, step, done, inbox, outbox, known, asked, pattern_map, local>>

-----------------------------------------------------------------------------
(* Matches *)

\* The matches of a set of label edges with each label from its candidates.
Matches(p, candidates, edges) ==
  FoldSet(LAMBDA l, found :
            {f \in {Put(x[1], l, x[2]) : x \in found \X candidates[l]} :
               \A e \in p : l \in e /\ e \subseteq DOMAIN f => {f[a] : a \in e} \in edges},
          {<<>>}, Nodes(p))
Columns(p, found) == [l \in Nodes(p) |-> {f[l] : f \in found}]

\* The MNI of a pattern in the whole graph.
Truth(p) == Columns(Graph(p), Matches(Graph(p), [l \in Nodes(Graph(p)) |-> {v \in DOMAIN g.label : g.label[v] = l}], g.edges))
Reaches(counts) == \A l \in DOMAIN counts : counts[l] >= Support
Sizes(columns) == [l \in DOMAIN columns |-> Cardinality(columns[l])]
IsFrequent(p) == Reaches(Sizes(Truth(p)))

-----------------------------------------------------------------------------
\* Frequent_Edge_topk and Frequent_Edge.Get_Frequent_Edgepattern.
FrequentEdges(graph) ==
  {[fwd |-> {Labels(graph, e)}, bwd |-> {}] : e \in
     {f \in graph.edges : \A l \in Labels(graph, f) :
        Cardinality({v \in UNION {h \in graph.edges : Labels(graph, h) = Labels(graph, f)} : graph.label[v] = l}) >= Support}}
EdgePattern(graph, i, p) ==
  LET e == UNION p.fwd
      min == CHOOSE a \in e : \A b \in e : a <= b
  IN [order |-> <<<<min, CHOOSE b \in e : b # min>>>>,
      mni |-> [l \in e |-> {v \in UNION {f \in Component(graph, i) : Labels(graph, f) = e} : graph.label[v] = l}],
      all |-> <<>>, localMNI |-> <<>>]

Init ==
  /\ g \in Problem
  /\ T = <<>> /\ at = 0 /\ level = FrequentEdges(g)
  /\ cands = {} /\ freq = <<>>
  /\ step = "keep" /\ done = Client
  /\ inbox = [i \in Client |-> {}] /\ outbox = [i \in Client |-> {}]
  /\ known = [i \in Client |-> Component(g, i)]
  /\ asked = [i \in Client |-> {}]
  /\ pattern_map = [i \in Client |-> [p \in level |-> EdgePattern(g, i, p)]]
  /\ local = [i \in Client |-> <<>>]

-----------------------------------------------------------------------------
(* Site i *)

Turn(i, s) == step = s /\ i \in Client \ done /\ done' = done \union {i}
Says(i, message) == outbox' = [outbox EXCEPT ![i] = message]

\* Trans_sendPattern
Mine(i) == {c \in cands : c.father \in DOMAIN pattern_map[i]}

\* Get_Needmessage.getsendmessage: ask the owners of the virtual vertices
\* that are to be extended for the neighbours with the new label, once.
\* (mutant: a vertex that was asked for one label is not asked again)
SiteAsksOnce(i) ==
  /\ Turn(i, "ask")
  /\ LET need == {q \in UNION {Virtual(g, pattern_map[i][c.father].mni[c.ex], i) \X {c.new} : c \in Mine(i)} :
                   \A a \in asked[i] : a[1] # q[1]}
     IN Says(i, need) /\ asked' = [asked EXCEPT ![i] = @ \union need]
  /\ UNCHANGED <<known, pattern_map, local>>
SiteAsks(i) ==
  /\ Turn(i, "ask")
  /\ LET need == (UNION {Virtual(g, pattern_map[i][c.father].mni[c.ex], i) \X {c.new} : c \in Mine(i)}) \ asked[i]
     IN Says(i, need) /\ asked' = [asked EXCEPT ![i] = @ \union need]
  /\ UNCHANGED <<known, pattern_map, local>>

\* Get_Needmessage.Getneedmessage, for the questions of each site.
SiteAnswers(i) ==
  /\ Turn(i, "answer")
  /\ Says(i, [j \in Client |-> UNION {{{q[1], u} : u \in Neighbers(g, known[i], q[1], q[2])} : q \in inbox[i][j]}])
  /\ UNCHANGED <<known, asked, pattern_map, local>>

\* GetcandidateMNI of ForwardEx and BackwardEx: the columns of the father,
\* less the vertices of ex and new that the new edge cannot join.
CandidateMNI(c, father, edges) ==
  LET ex  == {v \in father[c.ex] : Neighbers(g, edges, v, c.new) # {}}
      new == UNION {Neighbers(g, edges, v, c.new) : v \in ex}
  IN IF c.new \in DOMAIN father THEN [father EXCEPT ![c.ex] = ex, ![c.new] = @ \intersect new]
     ELSE Put([father EXCEPT ![c.ex] = ex], c.new, new)

\* How many vertices of column l other sites may have, for the early end:
\* AllMNI less LocalMNI, from which GetcandidateMNI takes this site's own
\* vertices that the new edge has excluded.
AtLeast0(n) == IF n < 0 THEN 0 ELSE n
ElseNum(i, c, father, candidates, l) ==
  LET gone == father.mni[l] \ candidates[l]
  IN father.all[l] - (IF l \in {c.ex, c.new} THEN AtLeast0(father.localMNI[l] - Cardinality(gone \ Virtual(g, gone, i)))
                      ELSE father.localMNI[l])

\* A column has lost a vertex, and what is left is too little.
Ends(i, c, father, candidates, mni) ==
  LET forward == c.new \notin DOMAIN father.mni
      large   == Cardinality(DOMAIN candidates) > IF forward THEN 3 ELSE 2
      tested  == DOMAIN candidates \ IF forward THEN {c.new} ELSE {}
  IN large /\ \E l \in tested : /\ mni[l] # candidates[l]
                                /\ Cardinality(mni[l]) + ElseNum(i, c, father, candidates, l) < Support

\* ForwardEx, BackwardEx: the candidate with its columns, nothing if it has
\* no match or is given up.
Extension(i, c, edges) ==
  LET father     == pattern_map[i][c.father]
      order      == IF c.new \in DOMAIN father.mni THEN father.order ELSE Append(father.order, <<c.ex, c.new>>)
      candidates == CandidateMNI(c, father.mni, edges)
      mni        == MNI_List(g, edges, candidates, order, c.pat.bwd)
  IN IF {} \in {mni[l] : l \in DOMAIN mni} \/ Ends(i, c, father, candidates, mni) THEN {}
     ELSE {[order |-> order, mni |-> mni, all |-> <<>>, localMNI |-> <<>>]}

\* savemessage, ForwardEx or BackwardEx, and Get_external: every virtual
\* vertex of a match is sent to its owner.
SiteExtends(i) ==
  /\ Turn(i, "extend")
  /\ LET edges  == known[i] \union inbox[i]
         result == UNION {{c.pat} \X Extension(i, c, edges) : c \in Mine(i)}
     IN /\ known' = [known EXCEPT ![i] = edges]
        /\ local' = [local EXCEPT ![i] = [p \in {r[1] : r \in result} |-> (CHOOSE r \in result : r[1] = p)[2]]]
        /\ Says(i, UNION {UNION {{<<r[1], l, v>> : v \in Virtual(g, r[2].mni[l], i)} : l \in Nodes(Graph(r[1]))} :
                             r \in result})
  /\ UNCHANGED <<asked, pattern_map>>

\* StatisticMNI: the site's own vertices, found here or by another site.
\* LocalMNI is for the early end of the pattern's children.
\* (mutant: a vertex found here and elsewhere counts twice)
SiteCountsTwice(i) ==
  /\ Turn(i, "count")
  /\ LET sent(p, l)  == {x[3] : x \in {y \in inbox[i] : y[1] = p /\ y[2] = l}}
         found(p, l) == IF p \in DOMAIN local[i] THEN local[i][p].mni[l] ELSE {}
         here(p, l)  == found(p, l) \ Virtual(g, found(p, l), i)
     IN /\ Says(i, [p \in DOMAIN local[i] \union {x[1] : x \in inbox[i]} |->
                      [l \in Nodes(Graph(p)) |-> Cardinality(here(p, l)) + Cardinality(sent(p, l))]])
        /\ local' = [local EXCEPT ![i] = [p \in DOMAIN @ |-> [@[p] EXCEPT !.localMNI =
                       [l \in Nodes(Graph(p)) |->
                          IF sent(p, l) = {} THEN Cardinality(here(p, l))
                          ELSE AtLeast0(Cardinality(found(p, l)) - Cardinality(sent(p, l)))]]]]
  /\ UNCHANGED <<known, asked, pattern_map>>
SiteCounts(i) ==
  /\ Turn(i, "count")
  /\ LET sent(p, l)  == {x[3] : x \in {y \in inbox[i] : y[1] = p /\ y[2] = l}}
         found(p, l) == IF p \in DOMAIN local[i] THEN local[i][p].mni[l] ELSE {}
         here(p, l)  == found(p, l) \ Virtual(g, found(p, l), i)
     IN /\ Says(i, [p \in DOMAIN local[i] \union {x[1] : x \in inbox[i]} |->
                      [l \in Nodes(Graph(p)) |-> Cardinality(here(p, l) \union sent(p, l))]])
        /\ local' = [local EXCEPT ![i] = [p \in DOMAIN @ |-> [@[p] EXCEPT !.localMNI =
                       [l \in Nodes(Graph(p)) |->
                          IF sent(p, l) = {} THEN Cardinality(here(p, l))
                          ELSE AtLeast0(Cardinality(found(p, l)) - Cardinality(sent(p, l)))]]]]
  /\ UNCHANGED <<known, asked, pattern_map>>

\* Keep the frequent candidates, with their global counts.
SiteKeeps(i) ==
  /\ Turn(i, "keep")
  /\ LET new == DOMAIN local[i] \intersect DOMAIN inbox[i]
     IN pattern_map' = [pattern_map EXCEPT ![i] =
          [p \in new \union DOMAIN @ |-> IF p \in new THEN [local[i][p] EXCEPT !.all = inbox[i][p]] ELSE @[p]]]
  /\ UNCHANGED <<outbox, known, asked, local>>

Site(i) == /\ SiteAsks(i) \/ SiteAnswers(i) \/ SiteExtends(i) \/ SiteCounts(i) \/ SiteKeeps(i)
           /\ UNCHANGED <<g, master, step, inbox>>

-----------------------------------------------------------------------------
(* The master, when every site has answered *)

All(s) == step = s /\ done = Client
Then(s) == step' = s /\ done' = {} /\ outbox' = [i \in Client |-> {}]

\* Questions go to the owner, answers to the site that has asked.
MasterRoutesQuestions ==
  /\ All("ask") /\ Then("answer")
  /\ inbox' = [i \in Client |-> [j \in Client |-> {q \in outbox[j] : g.own[q[1]] = i}]]
  /\ UNCHANGED master
MasterRoutesNodes ==
  /\ All("answer") /\ Then("extend")
  /\ inbox' = [j \in Client |-> UNION {outbox[i][j] : i \in Client}]
  /\ UNCHANGED master

\* Matches go to the owner of the vertex: in the forward loop of every site
\* together, in the backward loop, for one pattern, those of the last site.
For(i) == {x \in UNION {outbox[j] : j \in Client} : g.own[x[3]] = i}
LastFor(i) == UNION {{x \in For(i) \intersect outbox[j] :
                     \A k \in Client : k > j => \A y \in For(i) \intersect outbox[k] : y[1] # x[1]} : j \in Client}
\* (mutant: the last site only in the forward loop too)
MasterRoutesLast ==
  /\ All("extend") /\ step' = "count" /\ done' = {}
  /\ inbox' = [i \in Client |-> LastFor(i)]
  /\ UNCHANGED <<master, outbox>>
MasterRoutesMatches ==
  /\ All("extend") /\ step' = "count" /\ done' = {}
  /\ inbox' = [i \in Client |-> IF at = 0 THEN For(i) ELSE LastFor(i)]
  /\ UNCHANGED <<master, outbox>>

\* StatisticMNItable: the sums, and the frequent patterns of them.
MasterSums ==
  /\ All("count") /\ Then("keep")
  /\ LET reported == UNION {DOMAIN outbox[i] : i \in Client}
     IN freq' = [p \in reported |-> [l \in Nodes(Graph(p)) |->
                   MapThenSumSet(LAMBDA i : outbox[i][p][l], {i \in Client : p \in DOMAIN outbox[i]})]]
  /\ level' = {p \in DOMAIN freq' : Reaches(freq'[p])}
  /\ inbox' = [i \in Client |-> [p \in level' |-> freq'[p]]]
  /\ UNCHANGED <<T, at, cands>>

Seeds(tree) == SeedsOf(UNION {p.fwd : p \in tree[1]})
Clear == inbox' = [i \in Client |-> {}] /\ UNCHANGED <<level, freq>>

\* The next forward candidates.
MasterGrows ==
  /\ All("keep") /\ at = 0 /\ level # {}
  /\ T' = Append(T, level) /\ cands' = GenForward(level, Seeds(T'), g.rank)
  /\ Then("ask") /\ Clear
  /\ UNCHANGED at

\* The backward candidates: of the patterns just found, or else of the next
\* level of the tree, from the last to the first.
MasterDeepens ==
  /\ All("keep") /\ at > 0 /\ level # {}
  /\ cands' = GenBackward(level, Seeds(T), T[at], g.rank)
  /\ Then("extend") /\ Clear
  /\ UNCHANGED <<T, at>>
MasterOpensLevel ==
  /\ All("keep") /\ level = {}
  /\ at' = IF at = 0 THEN Len(T) ELSE at - 1
  /\ IF at' = 0 THEN step' = "end" /\ cands' = {} /\ UNCHANGED <<done, outbox>>
               ELSE cands' = GenBackward(T[at'], Seeds(T), T[at'], g.rank) /\ Then("extend")
  /\ Clear
  /\ UNCHANGED T

Master == /\ \/ MasterRoutesQuestions \/ MasterRoutesNodes \/ MasterRoutesMatches
             \/ MasterSums \/ MasterGrows \/ MasterDeepens \/ MasterOpensLevel
          /\ UNCHANGED <<g, known, asked, pattern_map, local>>

-----------------------------------------------------------------------------
Next == Master \/ \E i \in Client : Site(i)
Spec == Init /\ [][Next]_vars
-----------------------------------------------------------------------------
(* What holds of the counts *)

Counts(columns) == \A l \in DOMAIN columns : columns[l] \subseteq {v \in DOMAIN g.label : g.label[v] = l}
TypeOK ==
  /\ at \in 0 .. Len(T) /\ done \subseteq Client
  /\ \A c \in cands : Connected(Graph(c.pat))
  /\ \A i \in Client : /\ known[i] \subseteq g.edges
                       /\ \A p \in DOMAIN pattern_map[i] : Counts(pattern_map[i][p].mni)
                       /\ \A p \in DOMAIN local[i] : Counts(local[i][p].mni)

Counted == step = "keep" /\ done = {}

\* No count is too large: a vertex that several sites find in one column is
\* counted once, by its owner, and every match is a real one.
NeverTooMany ==
  Counted => \A p \in level : \A l \in DOMAIN freq[p] : freq[p][l] <= Cardinality(Truth(p)[l])

\* The columns hold vertices of their label only, and none is counted twice.
SupportInv == TypeOK /\ NeverTooMany

\* A vertex that any site has found in a column is counted for it, once.
FoundBy(p, l) == UNION {local[i][p].mni[l] : i \in {k \in Client : p \in DOMAIN local[k]}}
CountedOnce(p) == freq[p] = [l \in DOMAIN freq[p] |-> Cardinality(FoundBy(p, l))]
TreesSummed  == Counted /\ at = 0 => \A p \in DOMAIN freq : CountedOnce(p)
CyclesSummed == Counted /\ at > 0 => \A p \in DOMAIN freq : CountedOnce(p)

\* The forward counts of a frequent pattern are those of the whole graph,
\* whatever the partition: what a site needs to know of other sites it has
\* asked for, and each column is checked in full (ForwardEx.java:49).
TreesCounted ==
  Counted /\ at = 0 =>
    \A c \in cands : IsFrequent(c.pat) =>
      c.pat \in DOMAIN freq /\ freq[c.pat] = Sizes(Truth(c.pat))

\* So are the backward counts: nothing has to be asked for backward edges
\* (Node.java:15 of the client).
CyclesCounted ==
  Counted /\ at > 0 =>
    \A c \in cands : IsFrequent(c.pat) =>
      c.pat \in DOMAIN freq /\ freq[c.pat] = Sizes(Truth(c.pat))

\* A virtual vertex that is extended has all its neighbours with the label.
NeighboursKnown ==
  step = "extend" /\ at = 0 => \A i \in Client \ done : \A c \in Mine(i) :
    \A v \in pattern_map[i][c.father].mni[c.ex] :
      Neighbers(g, known[i] \union inbox[i], v, c.new) = Neighbers(g, g.edges, v, c.new)

\* A site that gives a candidate up early (ForwardEx.java:76) gives up
\* none that is frequent.
EarlyEndSound ==
  step = "count" /\ done = {} => \A i \in Client : \A c \in Mine(i) :
    IsFrequent(c.pat) /\ c.pat \notin DOMAIN local[i] =>
      Matches(Graph(c.pat), CandidateMNI(c, pattern_map[i][c.father].mni, known[i]), known[i]) = {}

-----------------------------------------------------------------------------
(***************************************************************************)
(* An inductive invariant of DistributedSupport: what the sites have asked *)
(* and know, what the patterns and the candidates are, what has been found *)
(* and counted.                                                            *)
(***************************************************************************)

(* Questions and answers                                                    *)

\* What the edges have to say to question q.
Answered(edges, q) == Neighbers(g, edges, q[1], q[2]) = Neighbers(g, g.edges, q[1], q[2])
Answer(k, j) == UNION {{{q[1], u} : u \in Neighbers(g, known[k], q[1], q[2])} : q \in inbox[k][j]}
Wanted(i) == UNION {Virtual(g, pattern_map[i][c.father].mni[c.ex], i) \X {c.new} : c \in Mine(i)}

\* A site has the edges of its own vertices, and no others than the graph has.
EdgesReal == \A i \in Client : Component(g, i) \subseteq known[i] /\ known[i] \subseteq g.edges

\* Each question is with its site, its owner, under way back or answered.
Questions ==
  \A i \in Client : \A q \in asked[i] :
    /\ step = "ask" => q \in outbox[i] \/ Answered(known[i], q)
    /\ step = "answer" => Answered(known[i], q) \/ \A k \in Client : g.own[q[1]] = k => q \in inbox[k][i]
    /\ step = "extend" /\ i \notin done => Answered(known[i] \union inbox[i], q)
    /\ (step = "extend" /\ i \in done) \/ step \in {"count", "keep", "end"} => Answered(known[i], q)
Answers ==
  /\ step = "ask" => \A i \in Client \ done : outbox[i] = {}
  /\ step = "answer" => \A k \in done, j \in Client : outbox[k][j] = Answer(k, j)
  /\ step = "extend" => \A j \in Client : inbox[j] \subseteq g.edges
AskedFor ==
  at = 0 => \A i \in Client :
    (step = "ask" /\ i \in done) \/ step = "answer" \/ (step = "extend" /\ i \notin done) => Wanted(i) \subseteq asked[i]

Steps ==
  /\ g \in Problem /\ done \subseteq Client /\ step \in {"ask", "answer", "extend", "count", "keep", "end"}
  /\ Client = DOMAIN known /\ Client = DOMAIN asked /\ Client = DOMAIN inbox /\ Client = DOMAIN outbox
  /\ Client = DOMAIN pattern_map /\ Client = DOMAIN local
AskInv == Steps /\ EdgesReal /\ Questions /\ Answers /\ AskedFor

-----------------------------------------------------------------------------
(* Patterns and candidates                                                  *)

FrequentLabels(graph) == UNION {p.fwd : p \in FrequentEdges(graph)}
Patterns(graph) ==
  {p \in [fwd : SUBSET FrequentLabels(graph), bwd : SUBSET FrequentLabels(graph)] :
     p.fwd # {} /\ Connected(p.fwd) /\ Nodes(p.bwd) \subseteq Nodes(p.fwd)}

\* A candidate is its father and an edge, to a new label or between two of its own.
Extends(c) ==
  /\ c.ex \in Nodes(c.father.fwd)
  /\ IF c.new \in Nodes(c.father.fwd)
     THEN c.new # c.ex /\ c.pat.fwd = c.father.fwd /\ c.pat.bwd = c.father.bwd \union {{c.ex, c.new}}
     ELSE c.pat.fwd = c.father.fwd \union {{c.ex, c.new}} /\ c.pat.bwd = {}
GrowInv ==
  /\ T \in Seq(SUBSET Patterns(g)) /\ at \in 0 .. Len(T) /\ level \subseteq Patterns(g)
  /\ IF T = <<>> THEN level = FrequentEdges(g) /\ step \in {"keep", "end"} /\ done = Client
                 ELSE T[1] = FrequentEdges(g)
  /\ \A c \in cands : c.father \in Patterns(g) /\ c.pat \in Patterns(g) /\ Extends(c)
  /\ \A c, d \in cands : c.pat = d.pat => c = d

-----------------------------------------------------------------------------
(* What the sites have found                                                *)

\* The record of a pattern: its forward edges in order, and columns in which
\* every vertex is in a match.
IsRecord(p, r) ==
  /\ r = [order |-> r.order, mni |-> r.mni, all |-> r.all, localMNI |-> r.localMNI]
  /\ IsOrder(r.order, Nodes(Graph(p)))
  /\ p.fwd = {{r.order[k][1], r.order[k][2]} : k \in DOMAIN r.order}
  /\ DOMAIN r.mni = Nodes(Graph(p)) /\ \A l \in Nodes(Graph(p)) : r.mni[l] \subseteq Truth(p)[l]
AreRecords(f) == DOMAIN f \subseteq Patterns(g) /\ \A p \in DOMAIN f : IsRecord(p, f[p])
SitesInv == \A i \in Client : AreRecords(pattern_map[i]) /\ AreRecords(local[i])

-----------------------------------------------------------------------------
(* Messages and counts                                                      *)

\* What a site tells of the vertices of others, and what is there for a site.
Sent(i) == UNION {UNION {{<<p, l, v>> : v \in Virtual(g, local[i][p].mni[l], i)} : l \in Nodes(Graph(p))} : p \in DOMAIN local[i]}
Due(i)  == {x \in UNION {Sent(j) : j \in Client} : g.own[x[3]] = i}

\* The vertices of column l that site i counts.
Here(i, p, l) == IF p \in DOMAIN local[i] THEN local[i][p].mni[l] \ Virtual(g, local[i][p].mni[l], i) ELSE {}
Told(i, p, l) == {x[3] : x \in {y \in inbox[i] : y[1] = p /\ y[2] = l}}
Share(i, p, l) == Here(i, p, l) \union Told(i, p, l)
Report(i) == [p \in DOMAIN local[i] \union {x[1] : x \in inbox[i]} |-> [l \in Nodes(Graph(p)) |-> Cardinality(Share(i, p, l))]]
BoxInv ==
  /\ step = "extend" => \A i \in done : outbox[i] = Sent(i)
  /\ step = "count" => /\ \A i \in Client : inbox[i] \subseteq Due(i) /\ (at = 0 => inbox[i] = Due(i))
                       /\ \A i \in done : outbox[i] = Report(i)

SumsInv ==
  Counted => /\ level \subseteq DOMAIN freq
             /\ \A p \in DOMAIN freq : /\ DOMAIN freq[p] = Nodes(Graph(p))
                                       /\ \A l \in Nodes(Graph(p)) : freq[p][l] \in 0 .. Cardinality(FoundBy(p, l))
                                       /\ at = 0 => CountedOnce(p)
IInv == AskInv /\ GrowInv /\ SitesInv /\ BoxInv /\ SumsInv
=============================================================================
