-------------------------- MODULE MiningSessionInv --------------------------
(***************************************************************************)
(* The inductive invariant of MiningSession: at which message of the two   *)
(* scripts every site is, what the master has grown so far, what each site *)
(* knows of it, and which of the patterns are the best so far.             *)
(***************************************************************************)
EXTENDS MiningSession

\* There is a frequent edge, and every site has an instance of each.
HasEdges(w) == /\ w.frequent # {}
               /\ \A g \in w.frequent : Cardinality(g) = 1 => \A i \in Client : g \in w.present[i]
EdgesKnown == \A w \in World : HasEdges(w)

-----------------------------------------------------------------------------
(* The two scripts.  At each place of the master: the field it has posted,  *)
(* where a site is that has not taken it yet, and where one that has.       *)

Posted ==
  [ready         |-> "edges_id",      need         |-> "send_pattern",
   nodes         |-> "trans_message", got_nodes    |-> "need_nodes",
   external      |-> "ack",           got_external |-> "external_mni",
   mni           |-> "ack",           got_frequent |-> "frequentpatternid",
   back_external |-> "send_pattern",  back_mni     |-> "external_mni",
   back_got      |-> "frequentpatternid", done     |-> "flag"]
Before ==
  [ready         |-> "edges_id",      need         |-> "pattern",
   nodes         |-> "trans",         got_nodes    |-> "nodes",
   external      |-> "ack_nodes",     got_external |-> "external",
   mni           |-> "ack_external",  got_frequent |-> "frequent",
   back_external |-> "back_pattern",  back_mni     |-> "back_external",
   back_got      |-> "back_frequent", done         |-> "back_pattern"]
After ==
  [edges         |-> "edges_id",
   ready         |-> "pattern",       need         |-> "trans",
   nodes         |-> "nodes",         got_nodes    |-> "ack_nodes",
   external      |-> "external",      got_external |-> "ack_external",
   mni           |-> "frequent",      got_frequent |-> "pattern",
   back_external |-> "back_external", back_mni     |-> "back_frequent",
   back_got      |-> "back_pattern",  done         |-> "done"]

\* What the messages carry.
PostedValue ==
  CASE mphase \in {"need", "back_external"} -> candidate_patterns
    [] mphase \in {"ready", "got_frequent", "back_got"} -> patternMap
    [] OTHER -> {}
HandedValue(i) ==
  CASE mphase = "edges" -> {g \in world.present[i] : Cardinality(g) = 1}
    [] mphase \in {"mni", "back_mni"} -> local_candidates[i]
    [] OTHER -> {}

\* The forward loop of the sites ends with that of the master.
AfterNow == IF mphase = "got_frequent" /\ patternMap = {} THEN "back_pattern" ELSE After[mphase]

Pending(i) ==
  /\ mphase \in DOMAIN Posted /\ cphase[i] = Before[mphase] /\ up[i] = None
  /\ down[i] = [field |-> Posted[mphase], value |-> PostedValue]
Handed(i) ==
  /\ mphase \in DOMAIN After /\ cphase[i] = AfterNow /\ down[i] = None
  /\ up[i] = IF mphase = "done" THEN None ELSE [field |-> MasterAwaits[mphase], value |-> HandedValue(i)]
ScriptInv ==
  /\ DOMAIN down = Client /\ DOMAIN up = Client /\ DOMAIN cphase = Client
  /\ DOMAIN pattern_map = Client /\ DOMAIN local_candidates = Client
  /\ mphase \in DOMAIN After /\ \A i \in Client : Pending(i) \/ Handed(i)

-----------------------------------------------------------------------------
(* What the master has grown.                                               *)

IsLevels(t) == Len(t) \in Nat /\ t = [n \in 1 .. Len(t) |-> t[n]]
Pats == {c.pat : c \in candidate_patterns}
Forward == {"need", "nodes", "got_nodes", "external", "got_external", "mni"}
LayerPhases == {"back_external", "back_mni"}

\* The levels of the tree, and the candidates for the next one.
TreeInv ==
  /\ IsLevels(T)
  /\ IF mphase = "edges" THEN T = <<>> ELSE Len(T) > 0 /\ Seed_map = SeedsOf(UNION Trees(1))
  /\ \A n \in 1 .. Len(T) : Finds(T[n], Trees(n)) /\ \A p \in T[n] : p.bwd = {}
  /\ mphase = "ready" => patternMap = T[1] /\ Len(T) = 1
  /\ mphase \in Forward => candidate_patterns = GenForward(T[Len(T)], Seed_map, Unordered(T[Len(T)]))
  /\ mphase = "got_frequent" => Finds(patternMap, Trees(Len(T) + 1)) /\ \A p \in patternMap : p.bwd = {}
  /\ mphase \in Backward => SafeOf(Trees(Len(T) + 1)) = {}

\* A pattern of the backward loop: its tree, on all of its labels.
OnLevel(p) == /\ p.fwd \in Trees(j + 1) /\ p.fwd \cap p.bwd = {} /\ Nodes(p.bwd) \subseteq Nodes(p.fwd)

\* The layers of the present level, and the candidates for the next one.
LayerInv ==
  /\ mphase \notin Backward => j = 0 /\ backlevel = 0 /\ ItrsOfP = <<>>
  /\ mphase \in Backward =>
       /\ j \in 0 .. Len(T) - 1 /\ backlevel \in Nat /\ backlevel >= 2 * j + 3
       /\ DOMAIN ItrsOfP = 2 * j + 3 .. backlevel
       /\ \A n \in DOMAIN ItrsOfP : Finds(ItrsOfP[n], Layer(n)) /\ \A p \in ItrsOfP[n] : OnLevel(p)
  /\ mphase \in LayerPhases =>
       candidate_patterns = GenBackward(ItrsOfP[backlevel], Seed_map, T[j + 1], Unordered(ItrsOfP[backlevel]))
  /\ mphase = "back_got" => Finds(patternMap, Layer(backlevel + 1)) /\ \A p \in patternMap : OnLevel(p)

\* Candidates and counted patterns are connected, with different edges.
ShapeInv ==
  /\ \A p \in patternMap \union Pats : Connected(Graph(p)) /\ p.fwd \cap p.bwd = {}
  /\ mphase \in {"got_frequent", "back_got"} => patternMap \subseteq Pats

-----------------------------------------------------------------------------
(* What a site knows.                                                       *)

\* What it has matches of and misses no part of.
Sees(i) == {g \in world.present[i] : Down(g) \cap world.missed[i] = {}}

\* It has all of ps that it sees.
Knows(i, ps) == \A p \in ps : Graph(p) \in Sees(i) => p \in pattern_map[i]

\* It has chosen among the present candidates.
Chosen(i) ==
  \/ mphase \in {"need", "back_external"} /\ Handed(i)
  \/ mphase \in {"nodes", "got_nodes", "external", "got_external", "mni", "got_frequent", "back_mni", "back_got"}

KnowInv(i) ==
  /\ \A p \in pattern_map[i] : Graph(p) \in world.frequent
  /\ \A p \in local_candidates[i] : Connected(Graph(p))
  /\ mphase = "edges" \/ (mphase = "ready" /\ Pending(i)) \/ \A n \in 1 .. Len(T) : Knows(i, T[n])
  /\ mphase \in Backward => Knows(i, ItrsOfP[backlevel])
  /\ Chosen(i) => /\ local_candidates[i] \subseteq Pats
                  /\ \A p \in Pats : Graph(p) \in Sees(i) => p \in local_candidates[i]
  /\ mphase \in {"got_frequent", "back_got"} /\ Handed(i) => Knows(i, patternMap)

SInv == /\ world \in World
        /\ ScriptInv /\ TreeInv /\ LayerInv /\ ShapeInv
        /\ \A i \in Client : KnowInv(i)
-----------------------------------------------------------------------------
(* The best K of the levels that are closed.                                *)

\* No graph twice.
OneOf(ps) == \A p, q \in ps : Graph(p) = Graph(q) => p = q
UniqueInv == /\ OneOf(patternMap)
             /\ \A n \in 1 .. Len(T) : OneOf(T[n])
             /\ \A n \in DOMAIN ItrsOfP : OneOf(ItrsOfP[n])

\* f has the graphs of X, each once, under their interest values.
Layered(f, X) ==
  /\ IsFiniteSet(DOMAIN f) /\ DOMAIN f \subseteq Nat
  /\ \A n \in DOMAIN f : OneOf(f[n]) /\ {Graph(p) : p \in f[n]} = {g \in X : Interest(g) = n}
  /\ \A g \in X : Interest(g) \in DOMAIN f

\* R are k of X, or all there are, and no other of X is more interesting.
TopOf(R, X, k) ==
  /\ R \subseteq X /\ Cardinality(R) = IF Cardinality(X) < k THEN Cardinality(X) ELSE k
  /\ \A g \in R, h \in X \ R : Interest(g) >= Interest(h)

\* SumItrsOfP has the best of the levels above the present one; at the end,
\* of all, although lower levels may not have been looked at.
Passed == IF mphase = "done" THEN world.frequent ELSE {g \in world.frequent : Size(g) > j + 2}
\* They are the best of the patterns that were found on these levels, which
\* are at least the safe ones.
TopInv == /\ mphase \notin Backward => SumItrsOfP = <<>>
          /\ mphase \in Backward => /\ Layered(SumItrsOfP, Result)
                                    /\ \E found \in SUBSET Passed : SafeOf(Passed) \subseteq found /\ TopOf(Result, found, K)
=============================================================================
