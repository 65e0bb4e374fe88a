--------------------------- MODULE SupportCounter ---------------------------
(***************************************************************************)
(* GraMiCounter of ScaleMine, and what Worker and Pattern make of it: how  *)
(* the support of one pattern is counted, whole or in parts.  A job is a   *)
(* pattern on its way through the exact phase: all its parts are counted   *)
(* ("s"), their tables are added up, and the master decides it or has it   *)
(* counted again, without the invalid column or without postponed nodes.   *)
(* A job may also be one approximate count ("a").                          *)
(*                                                                         *)
(* The parts are counted one after the other here: their order and their   *)
(* workers are the matter of ExactMaster.  A search (SubgraphSearch) finds *)
(* an image exactly when there is one, unless the data node is costly: its *)
(* search may then pass maxIters, and the node is postponed; without a set *)
(* for postponed nodes nothing is found.                                   *)
(***************************************************************************)
EXTENDS LabelledGraph, FiniteSetsExt

CONSTANTS
  Jobs,     \* [kind, pattern, data, support, col, valids, parts, postpone, again, costly]
  Sampling  \* [bucket, least, most, dense]: 20, 60, 300 and 10

NoCol == -1

\* A connected graph of two or more nodes, 0 among them, without loops.
IsPattern(q) == LET nodes == NodesOf(q) IN
  /\ IsFiniteSet(nodes) /\ nodes \subseteq Nat /\ 0 \in nodes /\ nodes # {0}
  /\ \A e \in DOMAIN q.edge : \E v, w \in nodes : v # w /\ e = {v, w}
  /\ \A V \in SUBSET nodes : V # {} /\ (\A v \in V : Near(q, v) \subseteq V) => V = nodes

\* Only with an invalid column are nodes postponed (a worker that is asked for
\* anything else exits).
JobOK(j) ==
  /\ IsPattern(j.pattern) /\ IsFiniteSet(NodesOf(j.data)) /\ NodesOf(j.data) \subseteq Nat
  /\ j \in [kind : {"s", "a"}, pattern : {j.pattern}, data : {j.data}, support : Nat,
            col : NodesOf(j.pattern) \union {NoCol}, valids : Int, parts : Nat \ {0},
            postpone : BOOLEAN, again : Nat \ {0}, costly : {j.costly}]
  /\ j.postpone => j.col # NoCol
  /\ j.kind = "a" => j.parts = 1 /\ j.col = NoCol

ASSUME JobAssumption ==
  /\ \A j \in Jobs : JobOK(j)
  /\ Sampling.bucket \in Nat \ {0} /\ Sampling.most \in Nat /\ Sampling.bucket <= Sampling.most

VARIABLES
  job,       \* its parts, col, valids and postpone change when it is counted again
  part,      \* the part that is counted, from parts - 1 down to 0
  stage,
  keeping,   \* a set for postponed nodes is given
  domains, arcs,
  order,     \* the columns to come, the current one first
  todo,      \* its nodes to come
  solutions, \* per column; an "s" job has the side solutions in the same sets
  postponed,
  table,     \* the answer of the counter: freq and mni
  sums, late,\* Pattern: tempMNITable and postponedNodes_mniTable
  sample,    \* [counter, valid, good, avgs] of the column, approx per column
  answer,    \* of an approximate count: [freq, exact, col, valids]
  cut,       \* a search has been given up without a trace
  verdict
counting == <<domains, arcs, order, todo, solutions, postponed, table>>
deciding == <<job, part, keeping, sums, late, verdict>>
sampling == <<sample, answer>>
vars == <<counting, deciding, sampling, stage, cut>>

pattern == job.pattern
data == job.data
cols == NodesOf(pattern)
divided == job.parts > 1
ByCol(f(_)) == [c \in cols |-> f(c)]
none == ByCol(LAMBDA c : {})
zero == ByCol(LAMBDA c : 0)
Sizes(sets) == ByCol(LAMBDA c : Cardinality(sets[c]))
MinOf(t) == Min({t[c] : c \in DOMAIN t})

\* The nodes of the present part (nodeID % subTaskMax = subTaskNum).  (The
\* faulty variant, used by no specification, takes all nodes.)
OwnAll(S) == S
Own(S) == IF divided THEN {v \in S : v % job.parts = part} ELSE S

-----------------------------------------------------------------------------
(* Domains and arc consistency.                                             *)

ByLabel(c) == getNodesByLabel(data, pattern.label[c])
ByDegree(c) == {v \in ByLabel(c) : Degree(data, v) >= Degree(pattern, c)}
OfInvalid(c) == divided /\ c = job.col
Domain(c) == IF OfInvalid(c) THEN Own(ByDegree(c)) ELSE ByDegree(c)

\* Erasing a node that leaves too few ends the count.
ErasedTooFew(c) ==
  ~OfInvalid(c) /\ ByDegree(c) # ByLabel(c) /\ Cardinality(ByDegree(c)) < job.support

\* Breadth first from node 0: no node has two visited neighbours.
isItAcyclic(q) ==
  LET step(s) == LET v == Head(s.queue)
                     seen == s.visited \union {v}
                 IN [visited |-> seen,
                     queue |-> Tail(s.queue) \o SetToSeqById(Near(q, v) \ seen),
                     ok |-> Cardinality(Near(q, v) \intersect seen) <= 1]
      walk[n \in Nat] == IF n = 0 THEN [visited |-> {}, queue |-> <<0>>, ok |-> TRUE]
                         ELSE LET s == walk[n - 1]
                              IN IF s.visited = NodesOf(q) \/ s.queue = <<>> \/ ~s.ok THEN s ELSE step(s)
  IN walk[2 * Cardinality(DOMAIN q.edge) + 1].ok
hasUniqueLabels(q) == \A v, w \in NodesOf(q) : q.label[v] = q.label[w] => v = w
\* (The faulty variant, used by no specification, forgets the cycles.)
LabelsOnly == hasUniqueLabels(pattern)
Readable == hasUniqueLabels(pattern) /\ isItAcyclic(pattern)

\* The approximate count prunes unless the graph is dense.
useAC3 ==
  IF job.kind = "s" THEN ~divided
  ELSE Readable \/ data.edges \div Cardinality(NodesOf(data)) <= Sampling.dense

\* An arc is an edge of the pattern under a label: getSig.  (Affected arcs are
\* kept under the label of the arc that was refined, and refined by their own.
\* The faulty variant, used by no specification, takes the one for the other.)
SignedLabel(a) == a.sig
LabelOf(a) == pattern.edge[a.ends]
AllArcs == {[ends |-> e, sig |-> pattern.edge[e]] : e \in DOMAIN pattern.edge}
FirstArcs ==
  LET ofCol == {a \in arcs : job.col \in a.ends} IN IF ofCol = {} THEN arcs ELSE ofCol

\* refine: the smaller domain keeps the nodes with a partner in the other one,
\* which keeps the partners.
Partners(a, v, D) == {w \in Near(data, v) \intersect D : data.edge[{v, w}] = LabelOf(a)}
refine(a, small, large) ==
  LET kept == {v \in domains[small] : Partners(a, v, domains[large]) # {}}
  IN [domains EXCEPT ![small] = kept, ![large] = UNION {Partners(a, v, domains[large]) : v \in kept}]

\* The other arcs of an end whose domain has shrunk.
Affected(a, new) ==
  {[ends |-> e, sig |-> LabelOf(a)] : e \in {f \in DOMAIN pattern.edge :
      /\ f # a.ends
      /\ \E c \in f \intersect a.ends : new[c] # domains[c]}}

TooFew(sets, C) == \E c \in C : Cardinality(sets[c]) < job.support

\* The count ends with these numbers.
Counted(f, mni) == table' = [freq |-> f, mni |-> mni] /\ stage' = "answer"

\* An approximate count ends.
Answered(a) == answer' = a /\ stage' = "done"
Infrequent(exact) == [freq |-> 0, exact |-> exact, col |-> NoCol, valids |-> -1]

\* Without a node too few on the way the domains are those by degree.
CreateDomains ==
  /\ stage = "domains"
  /\ postponed' = none /\ solutions' = none
  /\ LET new == ByCol(LAMBDA c : IF job.kind = "s" \/ useAC3 THEN Domain(c) ELSE {})
     IN \/ /\ job.kind = "s" /\ \E c \in cols : ErasedTooFew(c)
           /\ Counted(0, zero) /\ UNCHANGED <<domains, arcs, answer>>
        \/ /\ job.kind = "a" /\ useAC3 /\ TooFew(new, cols)
           /\ Answered(Infrequent(TRUE)) /\ UNCHANGED <<domains, arcs, table>>
        \/ /\ IF job.kind = "s" THEN \A c \in cols : ~ErasedTooFew(c) ELSE ~(useAC3 /\ TooFew(new, cols))
           /\ domains' = new /\ arcs' = IF useAC3 THEN AllArcs ELSE {}
           /\ stage' = "arcs" /\ UNCHANGED <<answer, table>>
  /\ UNCHANGED <<order, todo, sample, deciding, cut>>

\* AC_3; a domain that becomes too small ends it (the program leaves that
\* domain in the middle, which is as small).
AC_3 ==
  /\ stage = "arcs" /\ arcs # {}
  /\ \E a \in FirstArcs : \E c, d \in a.ends :
       /\ a.ends = {c, d} /\ Cardinality(domains[c]) <= Cardinality(domains[d])
       /\ domains' = refine(a, c, d)
       /\ arcs' = IF \E e \in a.ends : domains'[e] # domains[e] /\ Cardinality(domains'[e]) < job.support
                  THEN {} ELSE (arcs \ {a}) \union Affected(a, domains')
  /\ UNCHANGED <<order, todo, solutions, postponed, table, stage, deciding, sampling, cut>>

-----------------------------------------------------------------------------
(* Columns.                                                                 *)

\* setDomainsOrder: the invalid column, then by size over degree.
DomainsOrder ==
  LET weight(c) == IF c = job.col THEN -1 ELSE Cardinality(domains[c]) \div Degree(pattern, c)
      before(c, d) == weight(c) < weight(d) \/ (weight(c) = weight(d) /\ c < d)
  IN [k \in 1 .. Cardinality(cols) |-> CHOOSE c \in cols : Cardinality({d \in cols : before(d, c)}) = k - 1]

column == Head(order)
CheckColumn(ord)  == order' = ord /\ todo' = Own(domains[Head(ord)]) /\ stage' = "columns"
SampleColumn(ord) == order' = ord /\ stage' = "open" /\ UNCHANGED todo

\* What the domains alone decide; "a" counts without AC_3 look at them later.
CheckDomains ==
  /\ stage = "arcs" /\ arcs = {}
  /\ LET few  == TooFew(domains, cols) /\ IF job.kind = "s" THEN ~(divided /\ job.col # NoCol) ELSE useAC3
         read == Readable /\ ~divided
         mni  == IF few THEN zero ELSE Sizes(domains)
     IN \/ /\ few \/ read
           /\ IF job.kind = "s" THEN Counted(MinOf(mni), mni) /\ UNCHANGED answer
                                ELSE Answered([Infrequent(TRUE) EXCEPT !.freq = MinOf(mni)]) /\ UNCHANGED table
           /\ UNCHANGED <<order, todo>>
        \/ /\ ~few /\ ~read
           /\ IF job.kind = "s" THEN CheckColumn(DomainsOrder) ELSE SampleColumn(DomainsOrder)
           /\ UNCHANGED <<answer, table>>
  /\ UNCHANGED <<domains, arcs, solutions, postponed, sample, deciding, cut>>

Images(c, v, pruned) ==
  {m \in Embeddings(pattern, data) : m[c] = v /\ (pruned => \A w \in cols : m[w] \in domains[w])}
\* What one answer adds: to a whole count all images, to a part its own.
With(m) == ByCol(LAMBDA c : solutions[c] \union Own({m[c]}))

\* A node that is known as the image in an earlier answer, and one that is found.
Known ==
  /\ stage = "columns"
  /\ \E v \in todo \intersect solutions[column] : todo' = todo \ {v}
  /\ UNCHANGED <<domains, arcs, order, solutions, postponed, table, stage, deciding, sampling, cut>>
Find ==
  /\ stage = "columns"
  /\ \E v \in todo \ solutions[column] :
       /\ todo' = todo \ {v}
       /\ \E m \in Images(column, v, TRUE) : solutions' = With(m)
  /\ UNCHANGED <<domains, arcs, order, postponed, table, stage, deciding, sampling, cut>>

\* A search without an answer, for one of three reasons.
NotFound(v) ==
  \/ Images(column, v, TRUE) = {} /\ UNCHANGED <<postponed, cut>>
  \/ /\ v \in job.costly /\ keeping
     /\ postponed' = [postponed EXCEPT ![column] = @ \union {v}] /\ UNCHANGED cut
  \/ /\ v \in job.costly /\ ~keeping
     /\ cut' = TRUE /\ UNCHANGED postponed

\* smartBreak.  A whole count stops when the rest cannot reach the support
\* (the faulty variant, used by no specification, forgets the postponed nodes) ...
CannotReachSolved(rest, late_) == Cardinality(rest) + Cardinality(solutions[column]) < job.support
CannotReach(rest, late_) ==
  Cardinality(rest) + Cardinality(solutions[column]) + Cardinality(late_) < job.support
\* ... and a part with an invalid column when it looks no worse than predicted:
\* 0.8 of what is missing, in the share of this part.
AsPredicted(rest, late_) ==
  LET n     == Cardinality(Own(domains[column]))
      left  == Cardinality(rest)
      valid == Cardinality(solutions[column]) + Cardinality(late_)
  IN /\ 10 * job.parts * n * (valid + left) - 10 * job.valids * (n - left) < 8 * (job.support - job.valids) * n
     /\ 20 * left > n

\* The rest, this node included, is then taken for valid.
Miss ==
  /\ stage = "columns"
  /\ \E v \in todo \ solutions[column] :
       /\ NotFound(v)
       /\ LET rest   == todo \ {v}
              late_  == postponed'[column]
              break  == ~divided /\ CannotReach(rest, late_)
              believe == divided /\ job.col # NoCol /\ AsPredicted(rest, late_)
              all    == [solutions EXCEPT ![column] = @ \union todo]
          IN \/ /\ break
                /\ Counted(MinOf(Sizes(solutions)), Sizes(solutions))
                /\ UNCHANGED <<todo, solutions>>
             \/ /\ believe
                /\ solutions' = all
                /\ Counted(Cardinality(all[column]), [zero EXCEPT ![column] = Cardinality(all[column])])
                /\ UNCHANGED todo
             \/ /\ ~break /\ ~believe
                /\ todo' = rest /\ UNCHANGED <<solutions, stage, table>>
  /\ UNCHANGED <<domains, arcs, order, deciding, sampling>>

\* A whole count ends after a column with too few; with an invalid column
\* nothing else is counted.
CloseColumn ==
  /\ stage = "columns" /\ todo = {}
  /\ LET valid == Cardinality(solutions[column])
         last  == Len(order) = 1 \/ (~divided /\ valid + Cardinality(postponed[column]) < job.support)
     IN \/ last /\ Counted(MinOf(Sizes(solutions)), Sizes(solutions)) /\ UNCHANGED <<order, todo>>
        \/ ~last /\ job.col # NoCol /\ Counted(valid, [zero EXCEPT ![column] = valid]) /\ UNCHANGED <<order, todo>>
        \/ ~last /\ job.col = NoCol /\ CheckColumn(Tail(order)) /\ UNCHANGED table
  /\ UNCHANGED <<domains, arcs, solutions, postponed, deciding, sampling, cut>>

-----------------------------------------------------------------------------
(* isFrequent_approx: columns by samples.                                   *)

EmptySample == [counter |-> 0, valid |-> 0, good |-> 0, avgs |-> <<>>]

\* Without AC_3 the domain of a column is made when it is its turn (the faulty
\* variant, used by no specification, does not look at its size).
SampleFewNever == FALSE
SampleFew == ~useAC3 /\ Cardinality(ByDegree(column)) < job.support
OpenSamples ==
  /\ stage = "open"
  /\ domains' = IF useAC3 THEN domains ELSE [domains EXCEPT ![column] = ByDegree(column)]
  /\ IF SampleFew THEN Answered(Infrequent(FALSE)) /\ UNCHANGED sample
     ELSE stage' = "samples" /\ sample' = [sample EXCEPT !.now = EmptySample] /\ UNCHANGED answer
  /\ UNCHANGED <<arcs, order, todo, solutions, postponed, table, deciding, cut>>

now  == sample.now
size == Cardinality(domains[column])
\* The head of the loop, which runs at most once for each node of the domain:
\* at the end of a bucket its average is kept.
Boundary == 0 < now.counter /\ now.counter < size /\ now.counter % Sampling.bucket = 0
Averages == IF Boundary THEN Append(now.avgs, now.valid) ELSE now.avgs

\* The wanted rate is outside of the 99% interval (2.58) around the rate seen.
Confident ==
  LET v == now.good n == now.counter b == Sampling.bucket
      distance == b * (v * size - job.support * n)
  IN 10000 * distance * distance > 66564 * v * (n - v) * size * size
Enough ==
  \/ now.counter >= size \/ now.counter >= Sampling.most
  \/ Boundary /\ now.counter >= Sampling.least /\ Confident

Draw ==
  /\ stage = "samples" /\ ~Enough
  /\ \E v \in domains[column] :
       LET found == v \in solutions[column] \/ Images(column, v, useAC3) # {}
           one   == IF found THEN 1 ELSE 0
       IN /\ sample' = [sample EXCEPT !.now =
                [counter |-> now.counter + 1, valid |-> (IF Boundary THEN 0 ELSE now.valid) + one,
                 good |-> now.good + one, avgs |-> Averages]]
          /\ IF v \in solutions[column] \/ ~found THEN UNCHANGED solutions
             ELSE \E m \in Images(column, v, useAC3) : solutions' = With(m)
  /\ UNCHANGED <<domains, arcs, order, todo, postponed, table, stage, answer, deciding, cut>>

\* The average of a bucket that was full when the domain ended is missing: -1.
Trunc(a, b) == IF a < 0 THEN -((-a) \div b) ELSE a \div b
Approximate ==
  /\ stage = "samples" /\ Enough
  /\ LET n   == now.counter \div Sampling.bucket
         avg(k) == IF k \in DOMAIN Averages THEN Averages[k] ELSE -Sampling.bucket
         sum == FoldLeft(LAMBDA x, k : x + avg(k), 0, [k \in 1 .. n |-> k])
         all == n * Sampling.bucket
         approx == [sample.approx EXCEPT ![column] = IF sum > -all THEN Trunc(sum * size, all) ELSE 0]
         few == sum * size < job.support * all
     IN \/ n = 0 /\ stage' = "exited" /\ UNCHANGED <<order, todo, sample, answer>>
        \/ /\ n > 0 /\ few
           /\ Answered([freq |-> MinOf(approx), exact |-> FALSE, col |-> column, valids |-> Trunc(sum * size, all)])
           /\ UNCHANGED <<order, todo, sample>>
        \/ /\ n > 0 /\ ~few /\ Len(order) = 1
           /\ Answered([Infrequent(FALSE) EXCEPT !.freq = MinOf(approx)])
           /\ UNCHANGED <<order, todo, sample>>
        \/ /\ n > 0 /\ ~few /\ Len(order) > 1
           /\ SampleColumn(Tail(order)) /\ sample' = [sample EXCEPT !.approx = approx]
           /\ UNCHANGED answer
  /\ UNCHANGED <<domains, arcs, solutions, postponed, table, deciding, cut>>

-----------------------------------------------------------------------------
(* The worker's answer and the decision.                                    *)

WithLate(t) == ByCol(LAMBDA c : t[c] + Cardinality(postponed[c]))

\* The count starts, or starts again with other arguments.
Again(j) ==
  /\ job' = j /\ part' = j.parts - 1 /\ keeping' = j.postpone
  /\ sums' = zero /\ late' = zero /\ stage' = "domains" /\ UNCHANGED verdict
Decided(v) == verdict' = v /\ stage' = "done" /\ UNCHANGED <<job, part, keeping, sums, late>>

\* Without the invalid column and without postponed nodes; the number of parts
\* follows the predicted time or the idle workers.  (The faulty variant, used
\* by no specification, keeps the column.)
WholeAgainSame(n) == Again([job EXCEPT !.parts = n, !.postpone = FALSE])
WholeAgain(n) == Again([job EXCEPT !.parts = n, !.col = NoCol, !.valids = -1, !.postpone = FALSE])
Verdict(freq) ==
  IF freq < job.support THEN Decided("infrequent")
  ELSE IF job.col = NoCol THEN Decided("frequent")
  ELSE \E n \in {job.parts, job.again} : WholeAgain(n)

\* A whole count in which postponed nodes may matter is made again at once.
Recount ==
  LET freq1 == Max({table.mni[c] : c \in cols})
      freq2 == Max({WithLate(table.mni)[c] : c \in cols})
  IN freq1 # freq2 /\ (table.freq >= job.support \/ freq2 >= job.support)
AnswerWhole ==
  /\ stage = "answer" /\ ~divided
  /\ IF Recount THEN keeping' = FALSE /\ stage' = "domains" /\ UNCHANGED <<job, part, sums, late, verdict>>
                ELSE Verdict(table.freq)
  /\ UNCHANGED <<counting, sampling, cut>>

\* Pattern::subTaskDone: the support when all parts are done, or that postponed
\* nodes matter.  (The faulty variant, used by no specification, does not care.)
Rerun == -2
subTaskDoneNow(mni, ppn) == IF job.col = NoCol THEN MinOf(mni) ELSE mni[job.col]
subTaskDone(mni, ppn) ==
  LET min1 == MinOf(mni)
      min2 == MinOf(ByCol(LAMBDA c : mni[c] + ppn[c]))
  IN IF job.col = NoCol
     THEN IF min1 # min2 /\ min2 >= job.support THEN Rerun ELSE min1
     ELSE IF mni[job.col] < job.support /\ mni[job.col] + ppn[job.col] >= job.support THEN Rerun ELSE mni[job.col]

AnswerPart ==
  /\ stage = "answer" /\ divided
  /\ LET mni  == ByCol(LAMBDA c : sums[c] + table.mni[c])
         ppn  == ByCol(LAMBDA c : late[c] + Cardinality(postponed[c]))
         freq == subTaskDone(mni, ppn)
     IN \/ /\ part > 0
           /\ part' = part - 1 /\ keeping' = job.postpone /\ sums' = mni /\ late' = ppn
           /\ stage' = "domains" /\ UNCHANGED <<job, verdict>>
        \/ /\ part = 0 /\ freq = Rerun
           /\ \E n \in {job.parts, Max({job.parts, job.again})} : Again([job EXCEPT !.parts = n, !.postpone = FALSE])
        \/ part = 0 /\ freq # Rerun /\ Verdict(freq)
  /\ UNCHANGED <<counting, sampling, cut>>

Init ==
  /\ job \in Jobs
  /\ part = job.parts - 1 /\ keeping = job.postpone
  /\ sums = zero /\ late = zero /\ verdict = "none" /\ stage = "domains"
  /\ domains = none /\ arcs = {} /\ order = <<>> /\ todo = {}
  /\ solutions = none /\ postponed = none /\ table = [freq |-> 0, mni |-> zero]
  /\ sample = [now |-> EmptySample, approx |-> zero] /\ answer = Infrequent(FALSE)
  /\ cut = FALSE

Next ==
  \/ CreateDomains \/ AC_3 \/ CheckDomains
  \/ Known \/ Find \/ Miss \/ CloseColumn
  \/ OpenSamples \/ Draw \/ Approximate
  \/ AnswerWhole \/ AnswerPart
Spec == Init /\ [][Next]_vars /\ WF_vars(Next)
-----------------------------------------------------------------------------
(* What counting must achieve.                                              *)

Real(c) == {m[c] : m \in Embeddings(pattern, data)}
Support == MinOf(Sizes(ByCol(Real)))

\* Pruning never takes a data node that is the image of a column.
ArcsLossless ==
  stage \in {"arcs", "columns", "open", "samples"} => \A c \in cols :
    (job.kind = "a" /\ ~useAC3 /\ domains[c] = {}) \/ (IF OfInvalid(c) THEN Own(Real(c)) ELSE Real(c)) \subseteq domains[c]

\* A pattern that is decided is decided rightly, through all breaks, parts,
\* postponed nodes and repetitions, unless a search was cut without a trace.
VerdictRight ==
  /\ verdict = "frequent" => Support >= job.support
  /\ verdict = "infrequent" /\ ~cut => Support < job.support

\* The parts of a count of all columns add up: each image is counted in one.
PartsAddUp ==
  stage = "answer" /\ divided /\ part = 0 /\ job.col = NoCol => \A c \in cols :
    LET mni == sums[c] + table.mni[c] ppn == late[c] + Cardinality(postponed[c])
    IN /\ mni <= Cardinality(Real(c))
       /\ Support >= job.support /\ ~cut => mni + ppn >= Cardinality(Real(c))

\* An approximate count that says it is exact decides rightly.
ExactSound ==
  job.kind = "a" /\ stage = "done" /\ answer.exact => (answer.freq >= job.support <=> Support >= job.support)

\* A support of at least one bucket never makes a worker leave in the middle of
\* an approximate count.
StaysForSupport == stage = "exited" => job.support < Sampling.bucket

\* Every count ends.
Ends == <>(stage \in {"done", "exited"})

\* "The second phase computes the exact solution" (README.md:9).
VerdictExact == verdict = "infrequent" => Support < job.support
-----------------------------------------------------------------------------
(* The inductive invariant: what the domains, the columns, the table of a    *)
(* part and the sums of the parts owe to the images the pattern really has.  *)

Stages == {"domains", "arcs", "columns", "open", "samples", "answer", "done", "exited"}

\* What the steps of a count and of its parts leave in the variables.
TypeInv ==
  /\ JobOK(job)
  /\ part \in 0 .. job.parts - 1 /\ keeping \in BOOLEAN /\ cut \in BOOLEAN
  /\ keeping => job.col # NoCol
  /\ stage \in Stages /\ verdict \in {"none", "frequent", "infrequent"}
  /\ domains \in [cols -> SUBSET NodesOf(data)]
  /\ solutions \in [cols -> SUBSET NodesOf(data)]
  /\ postponed \in [cols -> SUBSET NodesOf(data)]
  /\ \A a \in arcs : a.ends \in DOMAIN pattern.edge
  /\ order \in Seq(cols) /\ todo \subseteq NodesOf(data)
  /\ table \in [freq : Nat, mni : [cols -> Nat]]
  /\ sums \in [cols -> Nat] /\ late \in [cols -> Nat]
  /\ sample = [now |-> sample.now, approx |-> sample.approx] /\ sample.now.counter \in Nat

\* Which counts reach which stages.
StageInv ==
  /\ stage \in {"columns", "answer"} => job.kind = "s"
  /\ stage \in {"open", "samples", "exited"} => job.kind = "a"
  /\ verdict # "none" => job.kind = "s" /\ stage = "done"
  /\ arcs # {} => useAC3 /\ stage = "arcs"
  /\ stage = "arcs" => solutions = none /\ postponed = none

\* Every node of an end of the edge has a partner at the other end.
Matched(c, d) ==
  \A v \in domains[c] : \E w \in domains[d] : Linked(data, v, w, pattern.edge[{c, d}])

\* An edge that no arc waits for is consistent, unless a domain is too small.
ArcsInv ==
  /\ ArcsLossless
  /\ stage = "arcs" => \A c \in cols : domains[c] \subseteq ByDegree(c)
  /\ stage = "arcs" /\ useAC3 =>
       \/ TooFew(domains, cols)
       \/ \A c, d \in cols : {c, d} \in DOMAIN pattern.edge =>
            (\E a \in arcs : a.ends = {c, d}) \/ Matched(c, d)

\* No domain that samples are drawn from is smaller than the support.
SampleInv ==
  /\ stage \in {"open", "samples"} => order # <<>>
  /\ stage \in {"open", "samples"} /\ useAC3 => ~TooFew(domains, cols)
  /\ stage = "samples" => Cardinality(domains[column]) >= job.support
  /\ stage = "exited" => StaysForSupport

\* What is left of the columns, and what is found of those that are done.
ColumnsInv ==
  stage = "columns" =>
    /\ order # <<>>
    /\ job.col # NoCol => column = job.col /\ Len(order) > 1
    /\ \A c \in cols : solutions[c] \subseteq Own(Real(c))
    /\ cut \/ \A c \in cols : c = column \/ c \notin ToSet(order) =>
         Own(Real(c)) \subseteq solutions[c] \union postponed[c] \union (IF c = column THEN todo ELSE {})
    /\ \A c \in cols : postponed[c] # {} => keeping /\ c = job.col

Hopeless == Support < job.support

\* The table of a count, whole or of one part: of all columns, or of one.
TableInv ==
  stage = "answer" =>
    /\ \A c \in cols : postponed[c] # {} => keeping /\ c = job.col
    /\ job.col = NoCol =>
         /\ \A c \in cols : table.mni[c] <= Cardinality(Own(Real(c)))
         /\ cut \/ Hopeless \/ \A c \in cols : Cardinality(Own(Real(c))) <= table.mni[c]
         /\ ~divided => table.freq = MinOf(table.mni)
    /\ job.col # NoCol =>
         \/ cut \/ Hopeless
         \/ ~divided /\ table.freq >= job.support
         \/ /\ Cardinality(Own(Real(job.col))) <= table.mni[job.col] + Cardinality(postponed[job.col])
            /\ ~divided => /\ table.freq = table.mni[job.col]
                           /\ \A c \in cols \ {job.col} : table.mni[c] = 0

\* The images that the parts before have counted.
Before(S) == {v \in S : v % job.parts > part}

\* The sums of the parts before, likewise.
SumsInv ==
  stage # "done" =>
    /\ job.col = NoCol =>
         /\ \A c \in cols : sums[c] <= Cardinality(Before(Real(c)))
         /\ cut \/ Hopeless \/ \A c \in cols : Cardinality(Before(Real(c))) <= sums[c] + late[c]
    /\ job.col # NoCol =>
         cut \/ Hopeless \/ Cardinality(Before(Real(job.col))) <= sums[job.col] + late[job.col]

IInv == TypeInv /\ StageInv /\ ArcsInv /\ SampleInv /\ ColumnsInv /\ TableInv /\ SumsInv /\ VerdictRight /\ ExactSound
=============================================================================
