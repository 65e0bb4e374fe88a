----------------------------- MODULE ExactMaster -----------------------------
(***************************************************************************)
(* The exact phase of ScaleMine (MinerX2.cpp, MinerX.cpp): a master keeps  *)
(* candidates and hands them, whole or in parts, to the threads of its     *)
(* workers (Worker.cpp), first for a prediction where the approximate      *)
(* phase has left none.                                                    *)
(*                                                                         *)
(* A pattern is a set of edges, frequent or not in a world; what counting  *)
(* one takes is the matter of SupportCounter, and what joining two gives   *)
(* that of CandidateJoins.  Here two patterns of one size that differ in   *)
(* one edge are joined to their union.                                     *)
(***************************************************************************)
EXTENDS TaskDivision

CONSTANTS Worlds,  \* [order, truth, pred]: the patterns of two edges or more, smaller
                   \* ones first, those that are frequent, and for each of order the
                   \* prediction [freq, time, col, exact] a worker makes
          Hard     \* the patterns whose canonical label is hard: the same for one size

ASSUME WorldAssumption ==
  \A w \in Worlds :
    /\ \A i, j \in DOMAIN w.order : i < j => Cardinality(w.order[i]) <= Cardinality(w.order[j])
    /\ w.order \in Seq(DOMAIN w.pred)
    /\ DOMAIN w.pred = {w.order[k] : k \in DOMAIN w.order} /\ IsFiniteSet(DOMAIN w.pred)
    /\ \A p \in DOMAIN w.pred :
         /\ w.pred[p] \in [freq : BOOLEAN, time : Nat, col : Int, exact : BOOLEAN]
         /\ w.pred[p].exact => (w.pred[p].freq <=> p \in w.truth)

VARIABLES
  world, threshold,     \* timeThreshold
  expected,             \* expected_frequentPatterns and expected_infrequentPatterns
  object,               \* the Pattern objects of candidates and currentlyChecking
  candidates, checking, \* sets of ids
  processed, frequent, infrequent,
  wire,                 \* what is under way to or from a thread, or Idle (availableWorker)
  pc                    \* where startMining is

known == <<world, threshold>>
lists == <<expected, object, candidates, checking, processed, frequent, infrequent>>
vars  == <<known, lists, wire, pc>>

Patterns == DOMAIN world.pred
Worker   == 1 .. Threads
NoCol    == -1
Whole    == -1
Idle     == [kind |-> "idle"]
None     == [freq |-> FALSE, time |-> 0, col |-> NoCol, exact |-> FALSE, parts |-> 0]

\* An id is the pattern and a number: the code counts its objects, and those
\* made for a prediction have negative ids.
Of(id)    == id[1]
Copy(id)  == id[2] < 0
InUse     == candidates \union checking \union {wire[w].id : w \in {v \in Worker : wire[v] # Idle}}
NewId(p)  == <<p, Min({k \in 1 .. Cardinality(InUse) + 1 : <<p, k>> \notin InUse})>>
CopyId(p) == <<p, -Min({k \in 1 .. Cardinality(InUse) + 1 : <<p, -k>> \notin InUse})>>

\* Labels: those of hard patterns of one size are the same.
SameLabel(p, q) == p = q \/ ({p, q} \subseteq Hard /\ Cardinality(p) = Cardinality(q))
Countable       == {id \in candidates : Of(id) \notin Hard}

-----------------------------------------------------------------------------
(* The Pattern object.                                                      *)

\* got, the parts of this round that have come, is not in the code.
NewPattern ==
  [fixed |-> 1, left |-> 1, rem |-> 0, col |-> NoCol, postpone |-> TRUE, predicting |-> FALSE, got |-> {}]

\* (The faulty variant, used by no specification, forgets remainingSubtasks.)
SetSubtaskingLess(o, n) == [o EXCEPT !.fixed = Capped(n), !.left = Capped(n), !.got = {}]
SetSubtasking(o, n) ==
  [o EXCEPT !.fixed = Capped(n), !.left = Capped(n), !.rem = Capped(n), !.got = {}]

\* (The faulty variant, used by no specification, keeps postponing.)
SetInvalidColOnly(o, c) == [o EXCEPT !.col = c]
SetInvalidCol(o, c) == [o EXCEPT !.col = c, !.postpone = @ /\ c # NoCol]

BorrowTimeInfor(o, e) ==
  IF o.fixed > 1 THEN o ELSE SetInvalidCol(SetSubtasking(o, e.parts), e.col)

\* A prediction as it is kept.
Entry(e, parts) == [freq |-> e.freq, time |-> e.time, col |-> e.col, exact |-> e.exact, parts |-> parts]

-----------------------------------------------------------------------------
(* The start.                                                               *)

\* What the approximate phase has predicted: all candidates it makes, those of
\* two edges and the joins of those that it takes to be frequent.
Known(w) ==
  LET all == DOMAIN w.pred
      two == {p \in all : Cardinality(p) = 2}
      joins(ps) == LET last == {p \in two \union ps : w.pred[p].freq}
                   IN {p \in all : \E q, r \in last :
                        Cardinality(q) = Cardinality(r) /\ Cardinality(p) = Cardinality(q) + 1 /\ p = q \union r}
  IN two \union (all \intersect FoldLeft(LAMBDA ps, p : joins(ps), {}, w.order))

\* divideFFun4: single edges are predicted with time 0 and change nothing here.
Times(w)  == LET predicted == Known(w)
             IN FoldLeft(LAMBDA ts, p : IF p \in predicted THEN Append(ts, w.pred[p].time) ELSE ts, <<>>, w.order)
MostParts == (NumWorkers - 1) * (NumWorkers - Threads)

\* setExpectedPatterns makes a candidate of each prediction, extendFreqEdges
\* has no others.  With threshold 0 the numbers of parts are conversions of
\* infinite values, which the model does not follow.
Init ==
  /\ world \in Worlds
  /\ threshold = simulate(Times(world))
  /\ expected = LET predicted == Known(world) IN [p \in Patterns |->
       IF p \in predicted THEN Entry(world.pred[p], IF threshold = 0 THEN 1 ELSE Divided(world.pred[p].time, threshold, MostParts))
                          ELSE None]
  /\ candidates = {<<p, 1>> : p \in Known(world)}
  /\ object = [id \in candidates |-> BorrowTimeInfor(NewPattern, Entry(world.pred[Of(id)], 1))]
  /\ checking = {} /\ processed = {}
  /\ frequent = {p \in world.truth : Cardinality(p) = 1} /\ infrequent = {}
  /\ wire = [w \in Worker |-> Idle]
  /\ pc = IF threshold = 0 THEN "undefined" ELSE "dispatch"

-----------------------------------------------------------------------------
(* What an answer changes.                                                  *)

OfAll(ids)  == {Of(id) : id \in ids}
Size(id)    == Cardinality(Of(id))
Keep(o)     == [id \in {i \in DOMAIN o : i \in candidates' \union checking'} |-> o[id]]

\* A pattern goes back to the candidates.
AddAgain(id, o) ==
  /\ processed' = processed \ {Of(id)}
  /\ candidates' = IF Of(id) \in OfAll(candidates) THEN candidates ELSE candidates \union {id}
  /\ object' = Keep([object EXCEPT ![id] = o])
  /\ UNCHANGED <<frequent, infrequent>>

\* patternFoundFrequent: the unions with frequent patterns of the size that
\* are neither processed nor being checked nor candidates.  (The faulty
\* variant, used by no specification, does not look at what is processed.)
ExtensionsAgain(p, found) ==
  {r \in Patterns : Cardinality(r) = Cardinality(p) + 1 /\ (\E q \in found : Cardinality(q) = Cardinality(p) /\ r = p \union q)
                    /\ r \notin OfAll(candidates) /\ r \notin OfAll(checking')}
Extensions(p, found) ==
  {r \in Patterns : Cardinality(r) = Cardinality(p) + 1 /\ (\E q \in found : Cardinality(q) = Cardinality(p) /\ r = p \union q)
                    /\ r \notin processed' /\ r \notin OfAll(candidates) /\ r \notin OfAll(checking')}

PatternFoundFrequent(p, gone) ==
  /\ frequent' = frequent \union {p}
  /\ LET new == {NewId(r) : r \in Extensions(p, frequent')}
     IN /\ candidates' = (candidates \ gone) \union new
        /\ object' = Keep([id \in DOMAIN object \union new |-> IF id \in new THEN NewPattern ELSE object[id]])
  /\ UNCHANGED infrequent

\* patternFoundInFrequent: supergraphs are no candidates any more and no longer
\* checked.  At a level whose first pattern is none, the loop stops at once.
\* (The faulty variant, used by no specification, takes the whole level.)
SupersAll(p, n) == {id \in candidates : Size(id) = n}
Supers(p, n) == {id \in candidates : Size(id) = n /\ p \subseteq Of(id)}
PatternFoundInFrequent(p, gone, rest) ==
  /\ infrequent' = infrequent \union {p}
  /\ LET above == {n \in {Size(id) : id \in candidates} : n > Cardinality(p)}
         mixed == {n \in above : \E id \in candidates : Size(id) = n /\ ~(p \subseteq Of(id))}
     IN \E stopped \in SUBSET mixed :
          LET supers == UNION {Supers(p, n) : n \in above \ stopped}
          IN /\ candidates' = (candidates \ gone) \ supers
             /\ checking' = rest \ supers
  /\ object' = Keep(object)
  /\ UNCHANGED frequent

-----------------------------------------------------------------------------
(* The master takes an answer.                                              *)

Busy  == {w \in Worker : wire[w] # Idle}
Free  == Worker \ Busy
Answers == {"t", "f", "m", "a"}
Receive(w, kind) ==
  /\ pc = "receive" /\ wire[w].kind = kind
  /\ wire' = [wire EXCEPT ![w] = Idle] /\ pc' = "dispatch"
  /\ UNCHANGED known

\* An answer on a pattern that is not checked any more changes nothing.
AnswerLate(w) ==
  /\ \E kind \in Answers : Receive(w, kind)
  /\ wire[w].id \notin checking
  /\ UNCHANGED lists

\* The column that was to be invalid is not: count all columns, and do not
\* predict it again.
ColumnWasValid(id, o) ==
  /\ expected' = [expected EXCEPT ![Of(id)].col = NoCol]
  /\ AddAgain(id, SetInvalidCol(o, NoCol))

AnswerFrequent(w) ==
  LET id == wire[w].id
  IN /\ Receive(w, "t")
     /\ id \in checking /\ checking' = checking \ {id}
     /\ \/ /\ object[id].col # NoCol
           /\ ColumnWasValid(id, SetSubtasking(object[id], Quotient(expected[Of(id)].time, threshold)))
        \/ /\ object[id].col = NoCol
           /\ UNCHANGED <<processed, expected>>
           /\ PatternFoundFrequent(Of(id), {})

AnswerInfrequent(w) ==
  LET id == wire[w].id
  IN /\ Receive(w, "f")
     /\ id \in checking
     /\ PatternFoundInFrequent(Of(id), {}, checking \ {id})
     /\ UNCHANGED <<processed, expected>>

\* What the sums of the parts may say (subTaskDone): the support, the size of
\* the column, or that postponed nodes matter.  Counts that are not of all
\* parts, each once, may say anything.
Outcomes(o, p) ==
  LET fits == o.got = 0 .. o.fixed - 1
  IN {x \in {"enough", "few", "again"} :
        /\ x = "enough" => (p \in world.truth \/ o.col # NoCol \/ ~fits)
        /\ x = "few" => (p \notin world.truth \/ ~fits)
        /\ x = "again" => o.postpone}

\* The part of an answer; one that has come before, or one of another division,
\* is a stray.
Stray == -1
Added(o, r) ==
  [o EXCEPT !.rem = @ - 1, !.got = @ \union {IF r.parts = o.fixed /\ r.part \notin @ THEN r.part ELSE Stray}]
EnoughWorkers(n) == Max({n, Cardinality(Free)})

AnswerPart(w) ==
  LET id == wire[w].id
      o  == Added(object[id], wire[w])
  IN /\ Receive(w, "m")
     /\ id \in checking
     /\ \/ /\ o.rem # 0
           /\ object' = [object EXCEPT ![id] = o]
           /\ UNCHANGED <<candidates, checking, processed, expected, frequent, infrequent>>
        \/ /\ o.rem = 0 /\ "enough" \in Outcomes(o, Of(id))
           /\ checking' = checking \ {id}
           /\ \/ /\ o.col = NoCol
                 /\ UNCHANGED <<processed, expected>>
                 /\ PatternFoundFrequent(Of(id), {})
              \/ /\ o.col # NoCol
                 /\ ColumnWasValid(id, SetSubtasking(o, EnoughWorkers(Quotient(expected[Of(id)].time, threshold))))
        \/ /\ o.rem = 0 /\ "few" \in Outcomes(o, Of(id))
           /\ PatternFoundInFrequent(Of(id), {}, checking \ {id})
           /\ UNCHANGED <<processed, expected>>
        \/ /\ o.rem = 0 /\ "again" \in Outcomes(o, Of(id))
           /\ UNCHANGED <<checking, expected>>
           /\ AddAgain(id, [SetSubtasking(o, EnoughWorkers(o.fixed)) EXCEPT !.postpone = FALSE])

\* A prediction: it is kept, and the first candidate with the label of the
\* copy may be sent.
PartsPredicted(e) ==
  Divided(e.time, threshold, IF e.col = NoCol THEN NumWorkers - 1 ELSE 2 * (NumWorkers - 1))
AnswerPredicted(w) ==
  LET id == wire[w].id
      e  == world.pred[Of(id)]
      twins == {i \in candidates : SameLabel(Of(i), Of(id))}
  IN /\ Receive(w, "a")
     /\ id \in checking /\ checking' = checking \ {id}
     /\ expected' = IF expected[Of(id)] = None THEN [expected EXCEPT ![Of(id)] = Entry(e, PartsPredicted(e))] ELSE expected
     /\ UNCHANGED <<candidates, processed, frequent, infrequent>>
     /\ \/ \E t \in twins : object' = Keep([object EXCEPT ![t].predicting = FALSE])
        \/ twins = {} /\ object' = Keep(object)

-----------------------------------------------------------------------------
(* The master hands out work.                                               *)

\* selectCandidate: of the smallest size, labels before hard ones.  A pattern
\* that is under prediction waits, one that is processed goes.
Selectable == {id \in candidates : ~object[id].predicting /\ Of(id) \notin processed}
Choice ==
  LET least == {id \in Selectable : \A i \in Selectable : Size(id) <= Size(i)}
      plain == {id \in least : Of(id) \notin Hard}
  IN IF plain # {} THEN plain ELSE least
Remaining == {id \in candidates : Of(id) \notin processed}

Select(id) == pc = "dispatch" /\ Free # {} /\ id \in Choice /\ UNCHANGED <<known, pc>>
Destination == Min(Free)

\* No prediction yet: a copy is sent for one.
SendForPrediction(id) ==
  LET copy == CopyId(Of(id))
  IN /\ Select(id)
     /\ expected[Of(id)] = None
     /\ object' = [object EXCEPT ![id].predicting = TRUE]
     /\ candidates' = Remaining
     /\ checking' = checking \union {copy}
     /\ wire' = [wire EXCEPT ![Destination] = [kind |-> "predict", id |-> copy]]
     /\ UNCHANGED <<expected, processed, frequent, infrequent>>

\* A prediction that was exact decides without counting.
DecideByPrediction(id) ==
  LET e == expected[Of(id)]
  IN /\ Select(id)
     /\ e.exact
     /\ \/ e.freq /\ checking' = checking /\ processed' = processed /\ PatternFoundFrequent(Of(id), {id})
        \/ ~e.freq /\ PatternFoundInFrequent(Of(id), {id}, checking) /\ processed' = processed
     /\ UNCHANGED <<expected, wire>>

\* Or the pattern, or its next part, is counted.
Send(id) ==
  LET o == BorrowTimeInfor(object[id], expected[Of(id)])
      whole == o.fixed <= 1
      left  == o.left - 1
  IN /\ Select(id)
     /\ expected[Of(id)] # None /\ ~expected[Of(id)].exact
     /\ wire' = [wire EXCEPT ![Destination] =
          [kind |-> "count", id |-> id, part |-> IF whole THEN Whole ELSE left,
           parts |-> IF whole THEN Whole ELSE o.fixed, col |-> o.col, postpone |-> o.postpone]]
     /\ candidates' = IF left = 0 THEN Remaining \ {id} ELSE Remaining
     /\ processed' = IF left = 0 THEN processed \union {Of(id)} ELSE processed
     /\ checking' = checking \union {id}
     /\ object' = Keep([object EXCEPT ![id] = [o EXCEPT !.left = left]])
     /\ UNCHANGED <<expected, frequent, infrequent>>

\* Nothing more to send: done, or wait for an answer.  Hard labels do not count.
NextTurn ==
  /\ pc = "dispatch" /\ (Free = {} \/ Choice = {})
  /\ pc' = IF checking = {} /\ Countable = {} THEN "done" ELSE IF Busy # {} THEN "receive" ELSE "dispatch"
  /\ UNCHANGED <<known, lists, wire>>

-----------------------------------------------------------------------------
(* A thread of a worker answers.  One that is to postpone nodes without a   *)
(* column leaves without an answer.                                         *)

CountWhole(w) ==
  LET m == wire[w] IN
  /\ m.kind = "count" /\ m.part = Whole /\ ~(m.postpone /\ m.col = NoCol)
  /\ \/ /\ Of(m.id) \in world.truth \/ m.col # NoCol
        /\ wire' = [wire EXCEPT ![w] = [kind |-> "t", id |-> m.id]]
     \/ /\ Of(m.id) \notin world.truth
        /\ wire' = [wire EXCEPT ![w] = [kind |-> "f", id |-> m.id]]
CountPart(w) ==
  LET m == wire[w] IN
  /\ m.kind = "count" /\ m.part # Whole /\ ~(m.postpone /\ m.col = NoCol)
  /\ wire' = [wire EXCEPT ![w] = [kind |-> "m", id |-> m.id, part |-> m.part, parts |-> m.parts]]
Predict(w) ==
  /\ wire[w].kind = "predict"
  /\ wire' = [wire EXCEPT ![w] = [kind |-> "a", id |-> wire[w].id]]
Work(w) == (CountWhole(w) \/ CountPart(w) \/ Predict(w)) /\ UNCHANGED <<known, lists, pc>>

Master ==
  \/ \E w \in Worker : AnswerLate(w) \/ AnswerFrequent(w) \/ AnswerInfrequent(w) \/ AnswerPart(w) \/ AnswerPredicted(w)
  \/ \E id \in candidates : SendForPrediction(id) \/ DecideByPrediction(id) \/ Send(id)
  \/ NextTurn
Ended == pc \in {"done", "undefined"} /\ UNCHANGED vars
Next == Master \/ (\E w \in Worker : Work(w)) \/ Ended

Spec == Init /\ [][Next]_vars /\ WF_vars(Master) /\ \A w \in Worker : WF_vars(Work(w))
-----------------------------------------------------------------------------
(* What the exact phase must achieve.                                       *)

\* A pattern is found frequent or infrequent only if it is, through late
\* answers, repeated rounds and predictions that were wrong, and when the
\* phase ends all frequent patterns have been found.
Mining == INSTANCE PatternMining WITH
  truth <- world.truth, found <- frequent, rejected <- infrequent, finished <- pc = "done"
ImplementsMining == Mining!Spec

\* The parts that a pattern adds up are those of its present division, each
\* at most once, and it is complete when as many have come as were sent.
PartsOnce ==
  \A id \in checking : ~Copy(id) /\ object[id].fixed > 1 =>
    /\ Stray \notin object[id].got
    /\ Cardinality(object[id].got) = object[id].fixed - object[id].rem

\* No thread is asked to postpone nodes without a column: it would leave.
PostponeHasColumn ==
  \A w \in Worker : wire[w].kind = "count" /\ wire[w].postpone => wire[w].col # NoCol

\* No pattern has two objects, nor is it a candidate when it is processed.
OneObject ==
  LET ids == {id \in candidates \union checking : ~Copy(id)} IN
  /\ \A i, j \in ids : Of(i) = Of(j) => i = j
  /\ OfAll(candidates) \cap processed = {}

\* There is a threshold to divide by, unless some predicted time is shorter than
\* there are threads.
ThresholdFound == pc = "undefined" => \E k \in DOMAIN Times(world) : Times(world)[k] < Threads

\* The phase ends, unless there is no threshold.
Finishes == <>(pc \in {"done", "undefined"})

\* "set the original candidate available for processing" (MinerX2.cpp:971)
OriginalAvailable ==
  [][\A w \in Worker : wire[w].kind = "a" /\ wire'[w] = Idle /\ expected' # expected =>
       \A id \in candidates' : Of(id) = Of(wire[w].id) => ~object'[id].predicting]_vars

-----------------------------------------------------------------------------
(***************************************************************************)
(* The inductive invariant of ExactMaster: what is known, at any moment of *)
(* the exact phase, of a pattern that is a candidate or being checked and  *)
(* of the messages about it.                                               *)
(***************************************************************************)

Entries == [freq : BOOLEAN, time : Nat, col : Int, exact : BOOLEAN, parts : Int]
Objects == [fixed : Int, left : Int, rem : Int, col : Int, postpone : BOOLEAN, predicting : BOOLEAN, got : SUBSET Int]
Ids     == Patterns \X Int
Short   == [kind : {"predict", "a", "t", "f"}, id : Ids]
Part    == [kind : {"m"}, id : Ids, part : Int, parts : Int]
Task    == [kind : {"count"}, id : Ids, part : Int, parts : Int, col : Int, postpone : BOOLEAN]

\* Every candidate has an object, and so has what is checked, but for copies.
Originals == {id \in candidates \union checking : ~Copy(id)}
TypeOK ==
  /\ world \in Worlds /\ threshold \in Nat
  /\ expected \in [Patterns -> Entries]
  /\ candidates \subseteq Ids /\ IsFiniteSet(candidates)
  /\ checking \subseteq Ids /\ IsFiniteSet(checking)
  /\ object \in [Originals -> Objects]
  /\ wire \in [Worker -> {Idle} \union Short \union Part \union Task]
  /\ pc \in {"undefined", "dispatch", "receive", "done"} /\ (pc # "undefined" => threshold > 0)

\* Copies are predicted, originals are counted.
KindInv ==
  /\ \A id \in candidates : ~Copy(id)
  /\ \A w \in Busy : Copy(wire[w].id) <=> wire[w].kind \in {"predict", "a"}

\* A prediction gives at least one part, and is right when it is exact.
ExpectedInv ==
  \A p \in Patterns :
    /\ expected[p] # None => expected[p].parts > 0
    /\ expected[p].exact => (expected[p].freq <=> p \in world.truth)

\* A pattern that is divided and may be postponed has a column.
ColumnInv == \A id \in Originals : object[id].fixed > 1 /\ object[id].postpone => object[id].col # NoCol

\* A pattern that is not checked has nothing under way, and no parts have come;
\* one that is counted whole is under way once, and its answer is right; of one
\* that is divided, what has come and what is under way are different parts.
Sent(id) == {w \in Busy : wire[w].id = id}
Resting(id) ==
  /\ Sent(id) = {}
  /\ object[id].fixed > 1 =>
       object[id].left = object[id].fixed /\ object[id].rem = object[id].fixed /\ object[id].got = {}
Single(id) ==
  /\ id \notin candidates
  /\ \A v, w \in Sent(id) : v = w
  /\ \A w \in Sent(id) :
       /\ wire[w].kind \in {"count", "t", "f"}
       /\ wire[w].kind = "count" => wire[w].part = Whole /\ wire[w].col = object[id].col
       /\ wire[w].kind = "t" => Of(id) \in world.truth \/ object[id].col # NoCol
       /\ wire[w].kind = "f" => Of(id) \notin world.truth
InParts(id) ==
  LET o == object[id] IN
  /\ o.left \in 0 .. o.fixed /\ (id \in candidates => o.left > 0)
  /\ o.got \subseteq o.left .. o.fixed - 1 /\ o.rem = o.fixed - Cardinality(o.got)
  /\ \A w \in Sent(id) : /\ wire[w].kind \in {"count", "m"} /\ wire[w].parts = o.fixed
                         /\ wire[w].part \in (o.left .. o.fixed - 1) \ o.got
  /\ \A v, w \in Sent(id) : wire[v].part = wire[w].part => v = w
Round(id) ==
  /\ id \notin checking => Resting(id)
  /\ id \in checking => IF object[id].fixed <= 1 THEN Single(id) ELSE InParts(id)

\* What is found is right.
Sound == frequent \subseteq world.truth /\ infrequent \intersect world.truth = {}

IInv ==
  /\ TypeOK /\ KindInv /\ ExpectedInv /\ ColumnInv /\ PostponeHasColumn /\ OneObject
  /\ \A id \in Originals : Round(id)
  /\ Sound
-----------------------------------------------------------------------------
(* What it takes to find a threshold.                                       *)

\* Some pattern of two edges is predicted, and the queues may differ by more
\* than nothing (main.cpp:95 sets 15 percent).
SomePredicted == MinImbalance > 0 /\ \A w \in Worlds : \E k \in DOMAIN w.order : Cardinality(w.order[k]) = 2

-----------------------------------------------------------------------------
(* What it takes to find all frequent patterns.                             *)

\* A world as graphs make it: patterns are finite, a subpattern of a frequent one
\* is frequent, and a frequent one of three edges or more is the join of two.
Joined(p, Q) ==
  \E q, r \in Q : Cardinality(q) = Cardinality(r) /\ Cardinality(p) = Cardinality(q) + 1 /\ p = q \union r
WorldsClosed ==
  \A w \in Worlds :
    /\ \A p \in DOMAIN w.pred : IsFiniteSet(p) /\ Cardinality(p) > 1
    /\ \A p \in w.truth :
         /\ IsFiniteSet(p) /\ p # {} /\ (Cardinality(p) > 1 => p \in DOMAIN w.pred)
         /\ \A q \in DOMAIN w.pred : q \subseteq p => q \in w.truth
         /\ Cardinality(p) > 2 => Joined(p, w.truth)

\* A frequent pattern that is due, because it has two edges, or is the join of two
\* patterns that have been found, or has been handed out, is found already, a
\* candidate or being counted.
Accounted(p) == p \in frequent \/ p \in OfAll(Originals)
Due(p) == Cardinality(p) = 2 \/ p \in processed \/ p \in OfAll(checking) \/ Joined(p, frequent)
NoneLost ==
  /\ \A p \in world.truth : Cardinality(p) = 1 => p \in frequent
  /\ \A p \in Patterns \intersect world.truth : Due(p) => Accounted(p)
=============================================================================
