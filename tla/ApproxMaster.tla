---------------------------- MODULE ApproxMaster ----------------------------
(***************************************************************************)
(* The approximate phase of ScaleMine (MinerAdv.cpp): the master has every *)
(* machine load the graph, then sends candidates, smallest first, to the   *)
(* threads of the machines (Worker.cpp), which predict whether they are    *)
(* frequent.  A pattern is a set of edges, and two patterns of one size    *)
(* that differ in one edge join to their union, as in ExactMaster.         *)
(*                                                                         *)
(* The size under which the lists keep a pattern counts the edges that were *)
(* added, and a join may add one that is there (MinerAdv.cpp:433,          *)
(* GraphX.cpp:268): the same pattern then comes back one size up.  So the  *)
(* lists hold pairs of a pattern and a size.                               *)
(*                                                                         *)
(* A prediction is a sample: the same pattern may be predicted frequent    *)
(* once and infrequent another time.  And a pattern is compared with the   *)
(* candidates only, so that it may be predicted again: ids are of objects. *)
(***************************************************************************)
EXTENDS Integers, FiniteSets

CONSTANTS Families,  \* sets of patterns, closed under subpatterns; one is mined
          Hard,      \* the patterns whose canonical label is hard
          Repeats,   \* <<p, q>>: a join of p with q adds an edge that p has
          maxSubgraphSize, \* the largest size, -1 for any (the default)
          Machine,   \* 1 .. n: the machines without the master's
          Threads    \* the threads of one machine

ASSUME ApproxAssumption ==
  /\ Machine \subseteq Nat \ {0} /\ Machine # {} /\ IsFiniteSet(Machine)
  /\ Threads \in Nat \ {0} /\ maxSubgraphSize \in Int
  /\ \A ps \in Families : IsFiniteSet(ps) /\ \A p \in ps : IsFiniteSet(p)

VARIABLES
  family,
  machine,    \* what has become of each machine's graph
  waiting,    \* tempNumWorkers: machines that have not answered
  available,  \* availableWorker: the threads that can be sent a candidate
  candidates, \* ids
  checking,   \* currentlyChecking: ids
  found,      \* frequentPatterns
  rejected,   \* infrequentPatterns
  wire,       \* what is under way to or from a thread, or Idle
  pc          \* where startMining is

loading == <<machine, waiting>>
lists   == <<candidates, checking, found, rejected>>
vars    == <<family, loading, available, lists, wire, pc>>

Thread == Machine \X (0 .. Threads - 1)
Idle   == [kind |-> "idle"]
Busy   == {w \in Thread : wire[w] # Idle}

\* A pattern in a list, and its size; CLMap::addPattern refuses what is larger
\* than the limit.
Graph(x)   == x[1]
getSize(x) == x[2]
Fits(n)    == maxSubgraphSize > -1 => n <= maxSubgraphSize
Level(n)   == IF Fits(n) THEN family \X {n} ELSE {}

\* An id is such a pair and a number, that of a counter in the code.  (The faulty
\* variant, used by no specification, numbers patterns.)
Of(id)       == id[1]
OfAll(ids)   == {Of(id) : id \in ids}
Size(id)     == getSize(Of(id))
InUse        == candidates \union checking \union {wire[w].id : w \in Busy}
NewIdOnce(x) == <<x, 1>>
NewId(x)     == <<x, CHOOSE k \in 1 .. Cardinality(InUse) + 1 : <<x, k>> \notin InUse>>

\* What getNumElems counts.
IsHard(id) == Graph(Of(id)) \in Hard
Countable  == {id \in candidates : ~IsHard(id)}

Init ==
  /\ family \in Families
  /\ machine = [m \in Machine |-> "asked"] /\ waiting = Cardinality(Machine)
  /\ available = {}
  /\ candidates = {} /\ checking = {} /\ found = {} /\ rejected = {}
  /\ wire = [w \in Thread |-> Idle]
  /\ pc = "loading"

-----------------------------------------------------------------------------
(* Loading.  A machine that cannot load the graph leaves without a word.    *)

Load(m) ==
  /\ machine[m] = "asked"
  /\ \E outcome \in {"loaded", "failed"} : machine' = [machine EXCEPT ![m] = outcome]
  /\ UNCHANGED <<family, waiting, available, lists, wire, pc>>

Acknowledged(m) ==
  /\ pc = "loading" /\ waiting > 0 /\ machine[m] = "loaded"
  /\ machine' = [machine EXCEPT ![m] = "ready"]
  /\ waiting' = waiting - 1
  /\ available' = available \union {w \in Thread : w[1] = m}
  /\ UNCHANGED <<family, lists, wire, pc>>

Edges == {x \in Level(1) : Cardinality(Graph(x)) = 1}
Pairs == {x \in Level(2) : Cardinality(Graph(x)) = 2}

\* Without a frequent edge the program ends here.
NoEdges ==
  /\ pc = "loading" /\ waiting = 0 /\ Edges = {}
  /\ pc' = "exit"
  /\ UNCHANGED <<family, loading, available, lists, wire>>

Started ==
  /\ pc = "loading" /\ waiting = 0 /\ Edges # {}
  /\ found' = Edges /\ candidates' = {<<x, 1>> : x \in Pairs}
  /\ pc' = "test"
  /\ UNCHANGED <<family, loading, available, checking, rejected, wire>>

-----------------------------------------------------------------------------
(* The loop: a test whether all is done, work for all free threads, and one *)
(* message, even when all threads were sent work.                           *)

\* (The faulty variant, used by no specification, does not wait for answers.)
AllDoneEarly == Countable = {}
AllDone == checking = {} /\ Countable = {}
Test ==
  /\ pc = "test"
  /\ pc' = IF AllDone THEN "done" ELSE "send"
  /\ UNCHANGED <<family, loading, available, lists, wire>>

\* popACandidateApprox: of the lowest level, labels before hard ones.
Choice ==
  LET least == {id \in candidates : \A i \in candidates : Size(id) <= Size(i)}
      plain == {id \in least : ~IsHard(id)}
  IN IF plain # {} THEN plain ELSE least

\* The free threads are served by number.
First(w) == \A v \in available : w[1] < v[1] \/ (w[1] = v[1] /\ w[2] <= v[2])

Send(id, w) ==
  /\ pc = "send" /\ w \in available /\ First(w) /\ id \in Choice
  /\ candidates' = candidates \ {id}
  /\ checking' = checking \union {id}
  /\ available' = available \ {w}
  /\ wire' = [wire EXCEPT ![w] = [kind |-> "a", id |-> id]]
  /\ UNCHANGED <<family, loading, found, rejected, pc>>

Wait ==
  /\ pc = "send" /\ (available = {} \/ candidates = {})
  /\ pc' = "receive"
  /\ UNCHANGED <<family, loading, available, lists, wire>>

-----------------------------------------------------------------------------
(* An answer.                                                               *)

\* (The faulty variant, used by no specification, leaves the thread busy.)
FreedNever(w) == available
Freed(w) == available \union {w}
Receive(w, kind) ==
  /\ pc = "receive" /\ wire[w].kind = kind
  /\ wire' = [wire EXCEPT ![w] = Idle]
  /\ available' = Freed(w) /\ pc' = "test"
  /\ checking' = checking \ {wire[w].id}
  /\ UNCHANGED <<family, loading>>

\* The joins of x with what has been found of its size: with the edge that the
\* other pattern has more, or with a closing edge that x has already.
Larger(x, xs) ==
  {y \in Level(getSize(x) + 1) :
     /\ Cardinality(Graph(y)) = Cardinality(Graph(x)) + 1
     /\ \E z \in xs : /\ getSize(z) = getSize(x) /\ Cardinality(Graph(z)) = Cardinality(Graph(x))
                     /\ Graph(y) = Graph(x) \union Graph(z)}
Again(x, xs) ==
  {y \in Level(getSize(x) + 1) :
     Graph(y) = Graph(x) /\ \E z \in xs : getSize(z) = getSize(x) /\ <<Graph(x), Graph(z)>> \in Repeats}
Joins(x, xs) == Larger(x, xs) \union Again(x, xs)
Extensions(x) == {y \in Joins(x, found') : y \notin OfAll(candidates)}

AnswerFrequent(w) ==
  /\ Receive(w, "at")
  /\ found' = found \union {Of(wire[w].id)}
  /\ candidates' = candidates \union {NewId(r) : r \in Extensions(Of(wire[w].id))}
  /\ UNCHANGED rejected

AnswerInfrequent(w) ==
  /\ Receive(w, "af")
  /\ rejected' = rejected \union {Of(wire[w].id)}
  /\ UNCHANGED <<candidates, found>>

\* A thread predicts either way.
Predict(w) ==
  /\ wire[w].kind = "a"
  /\ \E kind \in {"at", "af"} : wire' = [wire EXCEPT ![w].kind = kind]
  /\ UNCHANGED <<family, loading, available, lists, pc>>

Master ==
  \/ \E m \in Machine : Acknowledged(m)
  \/ NoEdges \/ Started \/ Test \/ Wait
  \/ \E id \in candidates, w \in Thread : Send(id, w)
  \/ \E w \in Thread : AnswerFrequent(w) \/ AnswerInfrequent(w)
Failed == \E m \in Machine : machine[m] = "failed"
Ended  == (pc \in {"done", "exit"} \/ Failed) /\ UNCHANGED vars
Next   == Master \/ (\E m \in Machine : Load(m)) \/ (\E w \in Thread : Predict(w)) \/ Ended

Spec ==
  /\ Init /\ [][Next]_vars
  /\ WF_vars(Master) /\ (\A m \in Machine : WF_vars(Load(m))) /\ (\A w \in Thread : WF_vars(Predict(w)))
-----------------------------------------------------------------------------
(* What the approximate phase must achieve.                                 *)

\* What the exact phase starts from: of the patterns that do not have a hard
\* label, all pairs and all joins of what was found have been predicted, and
\* nothing else but what came back one size up.
Grown    == Edges \union Pairs \union UNION {Larger(x, found) : x \in found \ Edges}
Repeated == UNION {Again(x, found) : x \in found}
Covered ==
  pc = "done" => /\ \A x \in Grown \ (found \union rejected) : Graph(x) \in Hard
                 /\ found \union rejected \subseteq Grown \union Repeated

\* Each answer is on an object that is being checked, though several may be of
\* one pattern: on any other the master leaves (MinerAdv.cpp:326, 497).
AnswersKnown ==
  /\ \A w \in Busy : wire[w].id \in checking
  /\ \A w, v \in Busy : wire[w].id = wire[v].id => w = v
  /\ candidates \intersect checking = {}

\* The master never waits for a message when no thread has anything to answer.
AnswerComing == pc = "receive" => Busy # {}

\* What makes these three inductive (ApproxMasterProofs).  A thread can be sent
\* a candidate when its machine is ready and nothing is under way to it or back;
\* the ids that are checked are those under way; when the master has decided to
\* send there is a candidate or something under way, and when it receives there
\* is; and every pattern that has grown is somewhere.
Listed == {x \in family \X Nat : Fits(getSize(x))}
TypeOK ==
  /\ family \in Families
  /\ machine \in [Machine -> {"asked", "loaded", "failed", "ready"}]
  /\ found \subseteq Listed /\ rejected \subseteq Listed
  /\ candidates \subseteq Listed \X Nat /\ IsFiniteSet(candidates)
  /\ checking \subseteq Listed \X Nat /\ IsFiniteSet(checking)
  /\ wire \in [Thread -> {Idle} \union [kind : {"a", "at", "af"}, id : Listed \X Nat]]
  /\ pc \in {"loading", "exit", "test", "send", "receive", "done"}
OfReady == {w \in Thread : machine[w[1]] = "ready"}
ThreadInv ==
  /\ Busy \subseteq OfReady /\ available = OfReady \ Busy
  /\ pc # "loading" => OfReady = Thread
LoadInv ==
  pc = "loading" =>
    /\ waiting = Cardinality({m \in Machine : machine[m] # "ready"})
    /\ Busy = {} /\ candidates = {} /\ checking = {} /\ found = {} /\ rejected = {}
IdInv ==
  /\ checking = {wire[w].id : w \in Busy}
  /\ \A w, v \in Busy : wire[w].id = wire[v].id => w = v
  /\ candidates \intersect checking = {}
TurnInv ==
  /\ pc = "send" => candidates # {} \/ checking # {}
  /\ pc = "receive" => Busy # {}
  /\ pc = "done" => AllDone
GrownInv ==
  pc \in {"test", "send", "receive", "done"} =>
    /\ Edges \subseteq found /\ \A x \in OfAll(candidates \union checking) : getSize(x) >= 2
    /\ Grown \subseteq found \union rejected \union OfAll(candidates \union checking)
    /\ found \union rejected \union OfAll(candidates \union checking) \subseteq Grown \union Repeated
IInv == TypeOK /\ ThreadInv /\ LoadInv /\ IdInv /\ TurnInv /\ GrownInv

\* With a limit on sizes the phase ends, unless some machine cannot load the
\* graph.  (Without one it need not: what comes back may come back again.)
Finishes == maxSubgraphSize > -1 => <>(pc \in {"done", "exit"} \/ Failed)
=============================================================================
