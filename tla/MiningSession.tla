---------------------------- MODULE MiningSession ----------------------------
(***************************************************************************)
(* One session of the distributed miner, above the message layer: the      *)
(* script of the master (Server.main) and that of the clients              *)
(* (Client.main), the level-wise growth of the patterns (TreeGenForward,   *)
(* TreeGenBackward), and the best K of them (Backward_topk).               *)
(*                                                                         *)
(* Messages are exchanged in lockstep (LockstepRounds): the master acts    *)
(* when every client has answered.  A message is a ConnectionData object   *)
(* with one field set; the program that reads another field gets null.     *)
(***************************************************************************)
EXTENDS PatternGrowth, Integers, Sequences, FiniteSets, FiniteSetsExt

CONSTANTS Client, \* the sites
          World,  \* what counting can find: see WorldAssumption
          K       \* how many patterns are wanted (Server.java:56)

\* In a world, frequent are the patterns that reach the support threshold
\* and present[i] those with a match at site i.  Both shrink with the
\* pattern, and what is frequent has a match somewhere.  missed[i] are the
\* patterns site i may not count in full: it may give them up early though
\* they are frequent (StatisticMNI.java:71, ForwardEx.java:76), skip
\* vertices (ForwardEx.java:69), not know an edge, or its part of the sum
\* may be replaced (Server.java:584).  Single edges are always counted.
WorldAssumption ==
  /\ K \in Nat \ {0}
  /\ \A w \in World :
       /\ IsFiniteSet(w.frequent)
       /\ \A g \in w.frequent : /\ IsPattern(g) /\ Down(g) \subseteq w.frequent
                                /\ \E i \in Client : g \in w.present[i]
       /\ \A i \in Client : /\ \A g \in w.present[i] : IsPattern(g) /\ Down(g) \subseteq w.present[i]
                           /\ \A g \in w.missed[i] : Cardinality(g) > 1
ASSUME WorldAssumption

None == [field |-> "none", value |-> {}]

VARIABLES
  world,
  \* the master
  mphase, T, Seed_map, patternMap, candidate_patterns, j, backlevel, ItrsOfP, SumItrsOfP,
  \* the message each site has from and for the master
  down, up,
  \* the sites
  cphase, pattern_map, local_candidates

tree   == <<T, Seed_map, patternMap, candidate_patterns>>
topk   == <<j, backlevel, ItrsOfP, SumItrsOfP>>
master == <<mphase, tree, topk>>
site   == <<cphase, pattern_map, local_candidates>>
vars   == <<world, mphase, T, Seed_map, patternMap, candidate_patterns, j, backlevel,
            ItrsOfP, SumItrsOfP, down, up, cphase, pattern_map, local_candidates>>

Init ==
  /\ world \in World
  /\ mphase = "edges"
  /\ T = <<>> /\ Seed_map = <<>> /\ patternMap = {} /\ candidate_patterns = {}
  /\ j = 0 /\ backlevel = 0
  /\ ItrsOfP = <<>> /\ SumItrsOfP = <<>>
  /\ down = [i \in Client |-> None]
  /\ up = [i \in Client |-> [field |-> "edge_Frequence", value |-> {g \in world.present[i] : Cardinality(g) = 1}]]
  /\ cphase = [i \in Client |-> "edges_id"]
  /\ pattern_map = [i \in Client |-> {}]
  /\ local_candidates = [i \in Client |-> {}]

-----------------------------------------------------------------------------
(* The best K: maps from an interest value to patterns *)

Above(f, n) == MapThenSumSet(LAMBDA m : Cardinality(f[m]), {m \in DOMAIN f : m > n})
Get(f, n) == IF n \in DOMAIN f THEN f[n] ELSE {}

\* Backward_topk.AddTopk: take over the best levels of itrs, then keep the
\* best k.  Which patterns of the last level remain is the map's order.
AddTopk(sum, itrs, k) ==
  LET taken  == {n \in DOMAIN itrs : Above(itrs, n) < k}
      merged == [n \in DOMAIN sum \union taken |->
                   Get(sum, n) \union (IF n \in taken THEN itrs[n] ELSE {})]
      kept   == {n \in DOMAIN merged : Above(merged, n) < k}
      room(n) == k - Above(merged, n)
      choices(n) == IF Cardinality(merged[n]) <= room(n) THEN {merged[n]}
                    ELSE kSubset(room(n), merged[n])
  IN {f \in [kept -> UNION {choices(n) : n \in kept}] : \A n \in kept : f[n] \in choices(n)}

NumofItrsOfP(f) == MapThenSumSet(LAMBDA n : Cardinality(f[n]), DOMAIN f)
IntrsOfK(f) == CHOOSE n \in DOMAIN f : \A m \in DOMAIN f : n <= m
MaxItrs(i) == 2 * (i + 1) + (i + 1) * i

-----------------------------------------------------------------------------
(* The master *)

Answered == \A i \in Client : up[i] # None
Answers(field) == \A i \in Client : up[i].field = field
Answer == UNION {up[i].value : i \in Client}

\* The same message is posted to every site; the old answers are cleared.
Post(field, value) ==
  /\ down' = [i \in Client |-> [field |-> field, value |-> value]]
  /\ up' = [i \in Client |-> None]

\* A field that the message does not have is null: the main thread ends.
Dies == mphase' = "dead" /\ UNCHANGED <<tree, topk, down, up>>

\* StatisticMNItable: of the patterns in the tables those whose columns add
\* up to the support.  No sum is too high; it is right if each site with a
\* match has a table for it that misses nothing.
Frequent == {c.pat : c \in {x \in candidate_patterns : x.pat \in Answer /\ Graph(x.pat) \in world.frequent}}
CountsAll(i, p) == Graph(p) \in world.present[i] => p \in up[i].value /\ Graph(p) \notin world.missed[i]
Sure == {p \in Frequent : \A i \in Client : CountsAll(i, p)}
Counted == {Sure \union s : s \in SUBSET (Frequent \ Sure)}

\* Frequent_Edge_topk: the first level of the tree, which is there even if
\* it is empty.
MasterEdges ==
  /\ mphase = "edges" /\ Answered
  /\ LET frequent == Answer \cap world.frequent
         level == {[fwd |-> g, bwd |-> {}] : g \in frequent}
     IN /\ Seed_map' = SeedsOf(UNION frequent)
        /\ patternMap' = level /\ T' = <<level>>
        /\ Post("edges_id", level)
  /\ mphase' = "ready"
  /\ UNCHANGED <<candidate_patterns, topk>>

\* The order of the fathers in their HashMap is left open.
Unordered(fathers) == [q \in {Graph(p) : p \in fathers} |-> 0]

\* Broadcast the next forward candidates; there may be none.
OpenForward(fathers) ==
  /\ candidate_patterns' = GenForward(fathers, Seed_map, Unordered(fathers))
  /\ Post("send_pattern", candidate_patterns')
  /\ mphase' = "need"

\* Broadcast the next backward candidates of the level.
OpenBackward(fathers, level) ==
  /\ candidate_patterns' = GenBackward(fathers, Seed_map, level, Unordered(fathers))
  /\ Post("send_pattern", candidate_patterns')
  /\ mphase' = "back_external"

\* The turn of the loop over the levels of the tree, from the largest.
OpenLevel(l, tr) ==
  /\ j' = l
  /\ backlevel' = (l + 2) * 2 - 1
  /\ ItrsOfP' = [n \in {backlevel'} |-> tr[l + 1]]
  /\ OpenBackward(tr[l + 1], tr[l + 1])

\* while (patternMap.size() > 0), and the loop that follows it.
MasterLoop(pm, tr) == IF pm # {} THEN OpenForward(pm) /\ UNCHANGED <<j, backlevel, ItrsOfP>>
                                 ELSE OpenLevel(Len(tr) - 1, tr)

MasterReady ==
  /\ mphase = "ready" /\ Answered
  /\ MasterLoop(patternMap, T)
  /\ UNCHANGED <<T, Seed_map, patternMap, SumItrsOfP>>

\* The exchanges between candidates and counts: what the master reads, what
\* it posts, what it waits for next.  "flag" reads no field.
MasterRelay ==
  [need          |-> <<"need_message", "trans_message", "nodes">>,
   nodes         |-> <<"trans_nodes", "need_nodes", "got_nodes">>,
   got_nodes     |-> <<"flag", "ack", "external">>,
   external      |-> <<"send_external", "external_mni", "got_external">>,
   got_external  |-> <<"flag", "ack", "mni">>,
   back_external |-> <<"send_external", "external_mni", "back_mni">>]

MasterForwards ==
  /\ mphase \in DOMAIN MasterRelay /\ Answered
  /\ LET step == MasterRelay[mphase]
     IN IF step[1] = "flag" \/ Answers(step[1])
        THEN Post(step[2], {}) /\ mphase' = step[3] /\ UNCHANGED <<tree, topk>>
        ELSE Dies

\* Sum the tables and broadcast the frequent candidates.
MasterCounts ==
  /\ mphase \in {"mni", "back_mni"} /\ Answered
  /\ IF Answers("pattern_mnitable")
     THEN /\ patternMap' \in Counted
          /\ Post("frequentpatternid", patternMap')
          /\ mphase' = IF mphase = "mni" THEN "got_frequent" ELSE "back_got"
          /\ UNCHANGED <<T, Seed_map, candidate_patterns, topk>>
     ELSE Dies

MasterGrows ==
  /\ mphase = "got_frequent" /\ Answered
  /\ T' = IF patternMap # {} THEN Append(T, patternMap) ELSE T
  /\ MasterLoop(patternMap, T')
  /\ UNCHANGED <<Seed_map, patternMap, SumItrsOfP>>

\* One more layer of backward edges on the same level.
MasterDeepens ==
  /\ mphase = "back_got" /\ Answered /\ patternMap # {}
  /\ backlevel' = backlevel + 1
  /\ ItrsOfP' = [n \in DOMAIN ItrsOfP \union {backlevel + 1} |->
                   IF n = backlevel + 1 THEN patternMap ELSE ItrsOfP[n]]
  /\ OpenBackward(patternMap, T[j + 1])
  /\ UNCHANGED <<T, Seed_map, patternMap, j, SumItrsOfP>>

\* The level has no more layers: take its best patterns over, and stop if
\* no pattern of a lower level can be among the best K.
\* (mutant: the count alone)
StopsEarlyCount(sum, l) == l > 0 /\ NumofItrsOfP(sum) >= K
StopsEarly(sum, l) == /\ l > 0 /\ NumofItrsOfP(sum) >= K
                      /\ IntrsOfK(sum) >= MaxItrs(l - 1)
\* (mutant: the flag is sent on the early stop only)
MasterClosesLevelSilent ==
  /\ mphase = "back_got" /\ Answered /\ patternMap = {}
  /\ SumItrsOfP' \in AddTopk(SumItrsOfP, ItrsOfP, K)
  /\ IF j = 0 \/ StopsEarly(SumItrsOfP', j)
     THEN /\ IF j = 0 THEN UNCHANGED <<down, up>> ELSE Post("flag", {})
          /\ mphase' = "done" /\ UNCHANGED <<candidate_patterns, j, backlevel, ItrsOfP>>
     ELSE OpenLevel(j - 1, T)
  /\ UNCHANGED <<T, Seed_map, patternMap>>
MasterClosesLevel ==
  /\ mphase = "back_got" /\ Answered /\ patternMap = {}
  /\ SumItrsOfP' \in AddTopk(SumItrsOfP, ItrsOfP, K)
  /\ IF j = 0 \/ StopsEarly(SumItrsOfP', j)
     THEN /\ Post("flag", {}) /\ mphase' = "done"
          /\ UNCHANGED <<candidate_patterns, j, backlevel, ItrsOfP>>
     ELSE OpenLevel(j - 1, T)
  /\ UNCHANGED <<T, Seed_map, patternMap>>

Master == /\ \/ MasterEdges \/ MasterReady \/ MasterForwards \/ MasterCounts
             \/ MasterGrows \/ MasterDeepens \/ MasterClosesLevel
          /\ UNCHANGED <<world, site>>

-----------------------------------------------------------------------------
(* Site i *)

\* Take the message and answer it; a missing field ends the main thread.
Take(i, field, value) ==
  /\ down' = [down EXCEPT ![i] = None]
  /\ up' = [up EXCEPT ![i] = [field |-> field, value |-> value]]
Goto(i, phase) == cphase' = [cphase EXCEPT ![i] = phase]
Ends(i, phase) == Goto(i, phase) /\ down' = [down EXCEPT ![i] = None] /\ UNCHANGED up

\* Frequent_Edge.Get_Frequent_Edgepattern: the loop over the instances of a
\* type of edge that this site does not have at all is a null dereference.
SiteEdges(i) ==
  /\ cphase[i] = "edges_id" /\ down[i] # None
  /\ IF \A p \in down[i].value : p.fwd \in world.present[i]
     THEN /\ pattern_map' = [pattern_map EXCEPT ![i] = down[i].value]
          /\ Take(i, "flag", {}) /\ Goto(i, "pattern")
     ELSE UNCHANGED pattern_map /\ Ends(i, "dead")
  /\ UNCHANGED local_candidates

\* Trans_sendPattern: the candidates whose father this site has.
Known(i) == {c.pat : c \in {x \in down[i].value : x.father \in pattern_map[i]}}
\* ForwardEx, BackwardEx: those with a match remain, but for the ones that
\* this site may give up, which have more than three columns in the forward,
\* more than two in the backward loop.
Matched(i, c) == {p \in c : Graph(p) \in world.present[i]}
GivesUp(i, p) == /\ Graph(p) \in world.missed[i]
                 /\ Cardinality(Nodes(Graph(p))) > (IF p.bwd = {} THEN 3 ELSE 2)
Extended(i, c) ==
  LET lost == {p \in Matched(i, c) : GivesUp(i, p)}
  IN {Matched(i, c) \ s : s \in SUBSET lost}

SitePattern(i) ==
  /\ cphase[i] = "pattern" /\ down[i] # None
  /\ IF down[i].field = "send_pattern"
     THEN /\ local_candidates' = [local_candidates EXCEPT ![i] = Known(i)]
          /\ Take(i, "need_message", {}) /\ Goto(i, "trans")
     ELSE UNCHANGED local_candidates /\ Ends(i, "dead")
  /\ UNCHANGED pattern_map

\* The exchanges that change neither set.
SiteRelay ==
  [trans    |-> <<"trans_message", "trans_nodes", "nodes">>,
   nodes    |-> <<"need_nodes", "flag", "ack_nodes">>,
   external |-> <<"external_mni", "flag", "ack_external">>]

SiteForwards(i) ==
  /\ cphase[i] \in DOMAIN SiteRelay /\ down[i] # None
  /\ LET step == SiteRelay[cphase[i]]
     IN IF down[i].field = step[1] THEN Take(i, step[2], {}) /\ Goto(i, step[3])
        ELSE Ends(i, "dead")
  /\ UNCHANGED <<pattern_map, local_candidates>>

\* Extend the candidates; the message that starts it is not looked at.
SiteExtends(i) ==
  /\ cphase[i] = "ack_nodes" /\ down[i] # None
  /\ \E kept \in Extended(i, local_candidates[i]) : local_candidates' = [local_candidates EXCEPT ![i] = kept]
  /\ Take(i, "send_external", {}) /\ Goto(i, "external")
  /\ UNCHANGED pattern_map

\* Report the local candidates (and those the other sites have sent matches
\* of, which these report too): after the second acknowledgement, or in the
\* backward loop as soon as the external matches are there.
SiteCounts(i) ==
  /\ cphase[i] \in {"ack_external", "back_external"} /\ down[i] # None
  /\ IF cphase[i] = "ack_external" \/ down[i].field = "external_mni"
     THEN /\ Take(i, "pattern_mnitable", local_candidates[i])
          /\ Goto(i, IF cphase[i] = "ack_external" THEN "frequent" ELSE "back_frequent")
     ELSE Ends(i, "dead")
  /\ UNCHANGED <<pattern_map, local_candidates>>

\* (mutant: the loop ends when none is kept here)
SiteKeepsLocal(i) ==
  /\ cphase[i] \in {"frequent", "back_frequent"} /\ down[i] # None
  /\ LET kept == down[i].value \cap local_candidates[i]
     IN /\ pattern_map' = [pattern_map EXCEPT ![i] = @ \union kept]
        /\ Goto(i, IF cphase[i] = "frequent" /\ kept # {} THEN "pattern" ELSE "back_pattern")
  /\ Take(i, "flag", {})
  /\ UNCHANGED local_candidates

\* Keep the frequent ones; none at all ends the forward loop.
SiteKeeps(i) ==
  /\ cphase[i] \in {"frequent", "back_frequent"} /\ down[i] # None
  /\ IF down[i].field = "frequentpatternid"
     THEN /\ pattern_map' = [pattern_map EXCEPT ![i] = @ \union (down[i].value \cap local_candidates[i])]
          /\ Take(i, "flag", {})
          /\ Goto(i, IF cphase[i] = "frequent" /\ down[i].value # {} THEN "pattern" ELSE "back_pattern")
     ELSE UNCHANGED pattern_map /\ Ends(i, "dead")
  /\ UNCHANGED local_candidates

\* The flag -1 ends the session; candidates are extended at once.
SiteBackPattern(i) ==
  /\ cphase[i] = "back_pattern" /\ down[i] # None
  /\ CASE down[i].field = "flag" -> Ends(i, "done") /\ UNCHANGED local_candidates
       [] down[i].field = "send_pattern" ->
            /\ \E kept \in Extended(i, Known(i)) : local_candidates' = [local_candidates EXCEPT ![i] = kept]
            /\ Take(i, "send_external", {}) /\ Goto(i, "back_external")
       [] OTHER -> Ends(i, "dead") /\ UNCHANGED local_candidates
  /\ UNCHANGED pattern_map

Site(i) == /\ \/ SiteEdges(i) \/ SitePattern(i) \/ SiteForwards(i) \/ SiteExtends(i)
              \/ SiteCounts(i) \/ SiteKeeps(i) \/ SiteBackPattern(i)
           /\ UNCHANGED <<world, master>>

-----------------------------------------------------------------------------
Next == Master \/ \E i \in Client : Site(i)
Spec == Init /\ [][Next]_vars
\* Every main program that has its message goes on.
FairSpec == Spec /\ WF_vars(Master) /\ \A i \in Client : WF_vars(Site(i))
-----------------------------------------------------------------------------
(* What holds of a session *)

Backward == {"back_external", "back_mni", "back_got", "done"}

TypeOK ==
  /\ mphase \in DOMAIN MasterRelay \union Backward \union {"edges", "ready", "mni", "got_frequent", "dead"}
  /\ j \in Nat /\ backlevel \in Nat /\ Len(T) \in Nat
  /\ \A p \in patternMap \union {c.pat : c \in candidate_patterns} :
       Connected(Graph(p)) /\ p.fwd \cap p.bwd = {}
  /\ \A i \in Client : /\ down[i] = None \/ up[i] = None
                       /\ \A p \in local_candidates[i] : Connected(Graph(p))
                       /\ \A p \in pattern_map[i] : Graph(p) \in world.frequent

\* The two scripts agree: a program that takes a message takes the one its
\* place in the script is for, also where it looks at no field of it, and
\* no field it reads is null.  (Each side leaves its loops on its own: the
\* master by patternMap and by k, a site by frequentpatternid and the flag.)
SiteAwaits ==
  [edges_id      |-> {"edges_id"},      pattern       |-> {"send_pattern"},
   trans         |-> {"trans_message"}, nodes         |-> {"need_nodes"},
   ack_nodes     |-> {"ack"},           external      |-> {"external_mni"},
   ack_external  |-> {"ack"},           frequent      |-> {"frequentpatternid"},
   back_pattern  |-> {"send_pattern", "flag"},
   back_external |-> {"external_mni"},  back_frequent |-> {"frequentpatternid"}]
MasterAwaits ==
  [edges         |-> "edge_Frequence",  ready         |-> "flag",
   need          |-> "need_message",    nodes         |-> "trans_nodes",
   got_nodes     |-> "flag",            external      |-> "send_external",
   got_external  |-> "flag",            mni           |-> "pattern_mnitable",
   got_frequent  |-> "flag",            back_external |-> "send_external",
   back_mni      |-> "pattern_mnitable", back_got     |-> "flag"]
ScriptsAgree ==
  /\ mphase # "dead"
  /\ \A i \in Client :
       /\ cphase[i] # "dead"
       /\ down[i] # None => cphase[i] # "done" /\ down[i].field \in SiteAwaits[cphase[i]]
       /\ up[i] # None => mphase # "done" /\ up[i].field = MasterAwaits[mphase]

\* No site misses anything of g or of a part of it.
Safe(g) == \A i \in Client : Down(g) \cap world.missed[i] = {}
SafeOf(X) == {g \in X : Safe(g)}

\* Trans_sendPattern drops a candidate that the site has matches of only if
\* this very site may have missed the father, or a part of it: what other
\* sites give up never costs a site the father of what it must count.
FathersKnown ==
  \A i \in Client : down[i].field = "send_pattern" =>
    \A c \in down[i].value :
      Graph(c.pat) \in world.present[i] /\ Down(Graph(c.father)) \cap world.missed[i] = {}
        => c.father \in pattern_map[i]

\* Nobody is out of step, and every variable keeps its type.
SessionInv == TypeOK /\ ScriptsAgree

\* A loss does not spread: the n-th level of the tree are frequent trees of
\* n edges (the first level also the edges between equal labels), and all of
\* them of which no site misses a part, whatever the sites give up and
\* checkfrequent cuts off; the backward loop starts below no larger safe tree.
Graphs(ps) == {Graph(p) : p \in ps}
Finds(ps, X) == SafeOf(X) \subseteq Graphs(ps) /\ Graphs(ps) \subseteq X
Trees(n) == {g \in world.frequent : Cardinality(g) = n /\ (n = 1 \/ Cardinality(Nodes(g)) = n + 1)}
LevelsComplete ==
  /\ \A n \in 1 .. Len(T) : Finds(T[n], Trees(n))
  /\ mphase \in Backward => SafeOf(Trees(Len(T) + 1)) = {}

\* Both at once: a site drops only what it has missed a part of itself, and
\* no level of the tree lacks a pattern that nobody misses a part of.
TreesComplete == FathersKnown /\ LevelsComplete

\* Nor in the backward loop: under each interest value (labels plus edges)
\* are frequent patterns of that value on the j + 2 labels of the level and
\* all the safe ones, and it leaves the level when there are no more of them.
Interest(g) == IF Cardinality(g) = 1 THEN 3 ELSE Cardinality(Nodes(g)) + Cardinality(g)
Size(g) == IF Cardinality(g) = 1 THEN 2 ELSE Cardinality(Nodes(g))
Layer(n) == {g \in world.frequent : Size(g) = j + 2 /\ Interest(g) = n}
LayersComplete ==
  /\ \A n \in DOMAIN ItrsOfP : Finds(ItrsOfP[n], Layer(n))
  /\ mphase = "back_got" /\ patternMap = {} => SafeOf(Layer(backlevel + 1)) = {}

\* At the end SumItrsOfP are at most K frequent patterns, fewer only if all
\* the safe ones are among them, and no safe one that is left out is more
\* interesting: neither the cut after K nor the early stop loses one.
Result == UNION {Graphs(SumItrsOfP[n]) : n \in DOMAIN SumItrsOfP}
TopKCorrect ==
  mphase = "done" =>
    /\ Result \subseteq world.frequent
    /\ NumofItrsOfP(SumItrsOfP) = Cardinality(Result)
    /\ Cardinality(Result) <= K
    /\ Cardinality(Result) < K => SafeOf(world.frequent) \subseteq Result
    /\ \A g \in Result, h \in SafeOf(world.frequent) \ Result : Interest(g) >= Interest(h)

\* Every session ends, at the master and at every site.
SessionEnds == <>(mphase = "done" /\ \A i \in Client : cphase[i] = "done")

\* A site turns the frequent edges of the master into its own patterns
\* (Frequent_Edge.java:126-128 of the client): it is still there afterwards.
SitesSurvive == \A i \in Client : cphase[i] # "dead"
=============================================================================
