# Verification of Distributed Frequent Pattern Mining

TLA+ models of the programs in this repository, what TLC finds about them on
small instances, and what TLAPS proves about most of them for all instances.

The repository holds three programs:

* **DFPM**, in Java: a master and one client per site mine the K most
  interesting frequent patterns of a graph that is partitioned over the sites.
  The support of a pattern is its MNI: the smallest number of vertices in one
  column of its table of matches.
* **PARTITION**, in Java: divides a graph into parts for the sites, by
  multilevel coarsening and refinement.
* **ScaleMine**, in C++ with MPI: the miner DFPM is compared with. A master
  hands candidates, or parts of the search for one, to worker threads.

All three are modelled: their protocols, their algorithms and the places where
the two meet. Section 6 lists what is left out.

## 1. Inventory

In the paths below `M/` stands for `src/DFPM/Distributed Frequent Pattern
Mining(master)/src/` and `C/` for the client's directory of the same form.

### 1.1 Message layer of DFPM (`M/Server_Work/Server.java`, `C/Work/Client.java`)

*State.* At the master: `condition` (how many answers have come), `getlist` (the
last message of each connection), `sendlist` and `sendflaglist` (what to send to
whom, and whether to), the byte counter. At a client: `senddata`, `send_flag`,
`getdata`, `recive_flag`. The TCP stream of each connection.

*Operations.* `Server_Listen` reads a message, and under the lock stores it,
counts it and wakes the main thread. The main thread waits for `condition ==
numofclient`, resets it, reads and clears `getlist`, computes, and for each
connection puts a message and sets its flag. `Server_send` is a busy loop on the
flag: write, count, clear. The client has the same two threads with one
connection.

*Hard.* 5n + 1 threads (n clients), flags and counters that are reset outside
the lock, messages without numbers, `condition++` on a volatile field.

*Correct when* the main programs go through rounds in lockstep, no message is
lost, overwritten or taken for that of another round, and the session ends.

### 1.2 Mining session of DFPM (`main` of both programs, `M/Mining/TreeGen*`, `Backward_topk`)

*State.* The master's tree `T` of levels, `Seed_map`, the frequent patterns of
the last round, the candidates, the level `j` and the layer `backlevel` of the
backward loop, and the best K so far (`SumItrsOfP`). A site's `pattern_map` and
local candidates.

*Operations.* One exchange of edge counts; then the forward loop (add a label:
seven exchanges a turn) until nothing is frequent; then, for each level from the
largest, the backward loop (add an edge between labels: three exchanges a turn);
after a level the best K are selected, and the loop stops early when no lower
level can matter.

*Hard.* The scripts are two separate programs that leave their loops on
different evidence and must not get out of step by one message. Two pruning
tests and two cuts after K may lose patterns. Counting does lose some (1.3), and
what is lost is the father of others, at the master and at each site.

*Correct when* every message is the one its receiver expects, what a site gives
up or miscounts costs only the patterns that contain it, the result is a best K
of what is found, and every session ends.

### 1.3 Support counting (`M/Mining/StatisticMNItable`, `C/Mining/*`)

*State.* The edges a site knows (its own and what it was told about vertices of
other sites, "virtual" ones), what it has asked for, the columns of its
patterns, the counts from the master (`AllMNI`) and its own part (`localMNI`).

*Operations.* In the forward loop a site asks the owners of its virtual vertices
for their neighbours, searches the columns of each candidate, sends the virtual
vertices it has found to their owners, and counts its own. The master routes the
messages and sums. In the backward loop nothing is asked.

*Hard.* The same vertex is found by several sites; what a site sees depends on
the partition; an estimate of what others have ends a search early; the order of
HashSets and HashMaps decides what the search tries and which of two equal
candidates is kept.

*Correct when* the sum is the MNI of the whole graph, whatever the partition.

### 1.4 PARTITION (`src/PARTITION/src`)

*State.* The graph of each level with its matchsets, the part (`color`) of each
node, the sizes of the parts in one map shared by all levels, a priority queue
of nodes by gain (`Dvalue`), and for each node its `E_value` and `tempcolor`.

*Operations.* Load; coarsen by merging the edges of largest rido; grow the parts
on the coarsest graph; project back level by level and refine by trial moves, of
which the best prefix is made.

*Hard.* Gains of queued nodes change in place under a heap that does not notice.
Sums are updated by differences while nodes leave the queue and return. Sizes
are tested on a clone and changed on the original.

*Correct when* sizes and cut mean the same on all levels, refinement keeps the
bounds and never makes the cut heavier, and the program ends.

### 1.5 ScaleMine (`src/ScaleMine-master/src`)

One process is the master, the others are workers with a number of threads. The
program has two phases, each a loop of the master: send what can be sent, then
wait for one message.

*Exact phase* (`MinerX2`, `MinerX`, `Pattern`, `QueueSimulator`). *State.* The
candidates by size, the patterns being checked (`currentlyChecking`), those that
have been sent (`processed`), the frequent and infrequent ones, the predictions
of the approximate phase, and which thread has what. A pattern carries the
number of its parts, how many are left to send (`subtasking`) and to come back
(`remainingSubtasks`), the column that is taken to be too small (`invalidCol`)
and whether expensive nodes may be postponed. *Operations.* A candidate is
decided by an exact prediction, sent for a prediction if it has none, or sent to
be counted, whole or in parts; a simulation of the workers' queues decides into
how many. A worker answers frequent (`t`), infrequent (`f`), with its part of a
count (`m`), or with a prediction (`a`). A pattern whose column was valid after
all, or whose postponed nodes matter, goes back to the candidates. *Hard.* Parts
come in any order, late, and after the pattern has been decided by a subpattern
or put back with another division; two fields set in different places together
make a worker leave; the threshold of the simulation may reach zero. *Correct
when* each pattern is decided rightly whatever the predictions said, no part is
counted twice or for another division, and the phase ends with all frequent
patterns found.

*Approximate phase* (`MinerAdv`, `Miner`, `Worker`). *State.* The machines that
have loaded the graph, the free threads, the candidates by size and what is
being checked. *Operations.* Load, take the frequent edges, and have candidates
predicted until there are none. *Hard.* The loop receives after each attempt to
send; predictions are samples, and the same pattern may be predicted twice with
different results; a closing edge may be one that is there, so that a pattern
comes back one size up. *Correct when* the exact phase is handed all that was to
be predicted, and the phase ends.

*Candidates and labels* (`Pattern`, `CLMap`, `CanonibalLabel`). Larger patterns
are joins of two frequent ones that share all but an edge; a map finds equal
ones by a canonical label, or by a search where the label is too costly. *Hard.*
Joins that close a cycle, levels by a counter of calls, labels that depend on
what lies behind a string literal and that print edge labels without a separator. *Correct when* nothing frequent is missed and
one label never stands for two patterns.

*Counting* (`GraMiCounter`, `GraphX`). A worker prunes domains by arc
consistency, searches images column by column with early breaks, limits and
postponed nodes; an approximate count samples. *Hard.* Breaks on scaled shares,
an iterator stack moved in seven places, searches that are cut without saying
so. *Correct when* every decision is that of the MNI in the data graph.

*Start-up.* Settings and MPI.

### 1.6 Parts without protocol state

DFPM's data classes and byte helpers, the edge statistics the master prints at
the end, the readers and writers of files.

### How the parts interact

PARTITION writes a part for each vertex; each site loads its part with the edges
that cross. Sites and master then talk only through the message layer, in rounds
(1.1); the session (1.2) is the script of those rounds, and support counting
(1.3) is what their payloads do. In ScaleMine the approximate phase hands its
predictions to the exact one; both masters use the joins and maps, the workers
use the counter, and the counter and the maps use the search in a graph. The step from PARTITION's
output to the files of the sites is a program that is not in the repository.

## 2. Modules

| module | models | lines of code it stands for |
|---|---|---|
| `LockstepRounds` | abstract: rounds of messages in lockstep | the promise of the message layer |
| `MasterClientLink` | every thread of master and clients, one action per access to shared state, and its inductive invariant | Server.java, socketfuntion.java, Client.java |
| `MasterClientLinkProofs` | theorems and proofs | |
| `PatternGrowth` | patterns, candidate generation, both pruning tests | TreeGenForward, TreeGenBackward |
| `MiningSession` | the scripts of the two main programs, selection of the best K | Server.main, Client.main, Backward_topk, Frequent_Edge... |
| `MiningSessionInv`, `MiningSessionProofs` | its inductive invariant; theorems and proofs, those about `PatternGrowth` too | |
| `ColumnCheck` | the search for the vertices of a column that are in a match | ForwardEx, BackwardEx, Pattern.Getorder |
| `DistributedSupport` | the rounds of counting over a partitioned graph, and its inductive invariant | Get_Needmessage, Get_external, StatisticMNI, StatisticMNItable, the routing in Server.main |
| `DistributedSupportProofs` | theorems and proofs, also about `ColumnCheck` and the library's folds | |
| `NodeQueue` | java.util.PriorityQueue: the array and its sifting | as used in setp3 and Setp2 |
| `GraphLevels` | loading, rido, the coarser graph, the cut | CreateGraph, Get_rido, Coarsing_phase |
| `Partition` | main of PARTITION | Coarsing_phase, Inital_partition, Uncoarsing_phase |
| `PatternMining` | abstract: patterns are found or rejected, rightly and for good, until all are found | the promise of the exact phase |
| `TaskDivision` | into how many parts a pattern is divided | QueueSimulator, MinerX2.divideFFun4, Pattern.setSubtasking |
| `ExactMaster` | the exact phase: master, messages, threads, and its inductive invariant | MinerX2, MinerX, Pattern, Worker |
| `ExactMasterProofs` | theorems and proofs | |
| `ApproxMaster` | the approximate phase, from loading on, and its inductive invariant | MinerAdv, Miner, Worker |
| `ApproxMasterProofs` | theorems and proofs | |
| `LabelledGraph` | graphs with labels, and files of them | GraphX, NodeX, EdgeX |
| `LabelledGraphProofs` | what the proofs of search and counter share | |
| `SubgraphSearch` | the search for a pattern, one action per move of the stack, and its inductive invariant | GraphX.isIsomorphic |
| `SubgraphSearchProofs` | theorems and proofs | |
| `CanonicalLabel` | the canonical label, and when it is too costly | CanonibalLabel.cpp |
| `CandidateJoins` | primary graphs, joins, maps of labels, pruning | Pattern, CLMap, MinerX, MinerX2, MinerAdv, Miner |
| `SupportCounter` | one pattern counted, whole, in parts, again, or by samples, and its inductive invariant | GraMiCounter, Worker, Pattern.subTaskDone |
| `SupportCounterProofs` | theorems and proofs | |
| `MC...` | instances | |

`MasterClientLink` implements `LockstepRounds`. `MiningSession` and
`DistributedSupport` are written on top of what `LockstepRounds` promises: a
message is there when all have answered. `DistributedSupport` takes its script
from `MiningSession` (without acknowledgements) and both take candidate
generation from `PatternGrowth`. `MiningSession` has counting as a parameter,
its world; what counting really gives is the subject of `DistributedSupport`.

`ExactMaster` implements `PatternMining`, uses `TaskDivision`, and takes three
things from other modules as they are shown there: that a count is right
(`SupportCounter`), what a prediction may say (any combination; `ApproxMaster`),
and what the join of two patterns is (`CandidateJoins`, here the union of two
sets of edges). `SupportCounter` takes the search as `SubgraphSearch` shows it:
an image is found when there is one, unless the limit is passed.
`CandidateJoins` uses `CanonicalLabel`, and all four `LabelledGraph`.

Several modules have faulty variants of an action or operator beside the right
one, marked as such and used by no specification. Putting one in the place of
the definition it varies makes TLC report a property; every property of a
passing run is known to reject at least one such variant.

### 2.1 MasterClientLink

One action is one read or write of shared state: `condition++` is `ListenLoad`
and `ListenStore`; `sendlist.put` and `sendflaglist.set` are `MasterPut` and
`MasterFlag`; clearing a flag (`SendReset`, `ClientSendReset`) is a step of its
own, because it may come after the flag was set again. The monitor is free when
no thread's program counter is in a critical section. A message is the number of
its round. Closing a connection after an IOException is not modelled; TCP loses
and reorders nothing.

`Slots` is the length of `sendflaglist` (30). Ids start at 1 and indices at 0,
so the thirtieth client has no slot: its sender and the main thread are ended by
an exception, which the model does too.

`sendlist` is a HashMap that the senders read without a lock. The put of a key
in `Resizing` (the 13th and the 25th) makes it replace its table by an empty one
and move the keys there: `MasterPut` hides them, `MasterMove` gives them back
one by one, and a sender that reads a hidden key gets null and ends. `getlist`
may move too, but under the lock and while nobody reads it (`QuietAccess`).

### 2.2 MiningSession

Labels of a pattern differ (TreeGenForward.java:61-80), so a pattern is a set of
edges between labels. One action is the handling of one message at a site, or of
a full set of answers at the master. A message has one field set; a program that
reads another one gets null, and its main thread ends ("dead"). Which of equally
interesting patterns survive the cut after K is left open, and so is the order
of HashMaps.

The world says which patterns are frequent, which have a match at which site
(`present`), and which a site may not count in full (`missed`): because its search
ends early, skips a vertex or lacks an edge, or because the owner of its vertices
loses its report (the counterexamples of section 3). A site keeps the candidates
that have a match there, but for those it gives up (`Extended`: missed ones with
enough columns for the early end of ForwardEx and BackwardEx, frequent or not).
The master counts as frequent those that are (`Counted`); it must count one only
if each site with a match reports it and misses nothing of it. So a frequent
pattern may be lost at a site, or at the master, and `Trans_sendPattern` then
drops its children there. What the properties promise is about the patterns of
which no site misses a part (`Safe`): `Finds(ps, X)` says that ps are of X, and all
the safe ones of X among them.

`MiningSessionInv` writes the two scripts once more as tables, by the place of
the master: what it has posted, where a site is before it takes that, and where
it is after. `HasEdges` is what a session needs of its data: a frequent edge,
and at every site an instance of each frequent edge. `MCSession` evaluates it on
all worlds of the run; the two configurations without it end in counterexamples
(section 3).

### 2.3 DistributedSupport and ColumnCheck

A problem is a labelled graph with an owner for each vertex. The two search
procedures are modelled as they are coded, with the variable `result` that keeps
its entry from one column to the next. The order in which a HashSet is traversed
(`hash`) and the order of patterns in a HashMap (`rank`) belong to the problem,
and the runs range over them. Graphs have no edge between equal labels, and the
early stop after K patterns does not happen (K is large).

### 2.4 Partition, GraphLevels, NodeQueue

One action is one merge, one node that joins a part, one polled node, one
exchange. Edges of equal rido are merged in any order: the code's order is that
of the file, later that of a HashMap. Nodes have ids of one digit, which a
HashMap traverses by number, and the loops over neighbours use that order. The
heap is modelled with its array, because a gain changed in place leaves it out
of order and what is polled then depends on the array. Level 0 has no neighbours
(CreateGraph.java:68-69 leaves the maps empty), so it is never refined. When the
first parts have used up all nodes the program ends on an exception
(`Exhausted`).

### 2.5 ExactMaster and TaskDivision

A pattern is a set of edges. A world says which patterns are frequent and what
would be predicted of each: frequent or not, a time, a column, and whether the
prediction is exact. Exact predictions are right; the others may say anything.
An action of the master is the handling of one message or the sending of one
candidate, with all it changes: lists, objects, predictions, the message. Ids
are those of the program's objects: negative ones are copies that are sent for a
prediction. `got`, the parts of the present division that have come, is the only
variable the code has not; nothing depends on it but the sum of the parts, which
is right when each has come once (that it is, is `PartsOnce`). What the sum says
otherwise is left open. A thread that is asked to postpone nodes without a
column never answers, as in Worker.cpp:184. `patternFoundInFrequent` looks at
the first pattern of a level only when it decides to leave the level; which is
the first depends on a map of labels, so that any mixed level may be skipped.

The simulation of the queues is a function of times in milliseconds; the loop of
`simulate` is a recursive function. When it ends at 0 the parts are conversions
of infinite values, which is undefined in C++: `Init` then ends in "undefined",
and `ThresholdFound` says when that can happen; section 5 proves it.

### 2.6 ApproxMaster

Machines acknowledge that they have loaded the graph, or leave; then the loop of
the master tests for the end, sends, and receives. `First` is the decision
which free thread is served next. What `getSize` counts is calls of `addEdge`,
and a join may add an edge that is there: the lists therefore hold pairs of a
pattern and a size, and `Repeats` says which joins do that (`Again`). The limit
`maxSubgraphSize` is -1 by default; then nothing bounds the sizes.

### 2.7 SubgraphSearch

One action is one turn of a loop: a node is put in the order, the first level is
started, a candidate is rejected, an answer is noted, a level is added, the
stack goes back. The number of iterations only matters against its limit, which
a limited search may pass at any step. The faulty variants move one of the
iterator, the set of used nodes and the map without the others.

### 2.8 CanonicalLabel and CandidateJoins

Both are the code's algorithms as functions on graphs; a step of `CandidateJoins`
decides one candidate by its support in the data graph. The sorting key of a
node is `degree + "_"`, which in C++ is an address: it points into or behind the
literal. `Bytes` says what lies there, the runs give it values that differ from
text, and `NumberingForgotten` says that the label does not depend on node
numbers all the same.

Edge labels are given in tenths. A label of a pattern holds their whole parts
without anything between them (`Entry`), the lists of neighbours hold them as
texts (`Text`). Labels of one digit are told apart, others need not be: 1.2 and
1.7 print as 1, and 1,12 as 11,2. `LabelsSound` and `Complete` are for data with
labels of one digit (`OneDigit`); `MCJoinsLabels.cfg` shows what becomes of
the others.

A closing edge that is there already is ignored by the node and counted by the
graph. The exact phase finds the result among the patterns it has sent out
(`Passes`), so that its levels stay right (`SizesReal`); the approximate phase
does not look there, and keeps the pattern one level up (`MCJoinsRepeat.cfg`).

Joins may give a node an edge to itself. No such pattern has an image in the data
graphs, and the modules of the search and the counter take patterns without.

### 2.9 SupportCounter

A job is a pattern with its division and column; its parts are counted one after
the other, each node of a column in an order that is left open, and the tables
are added as in `Pattern::subTaskDone`. A *costly* node is one whose search
passes the limit: it is postponed when there is a set for postponed nodes, and
counts as no image when there is none (`cut`). `JobOK` is what a job is: a
connected pattern, finite graphs, a postponement only with an invalid column.

## 3. Runs

Runs that pass:

| run | instance | what it shows |
|---|---|---|
| `link` | 2 clients, 2 rounds, 3 slots, the table moves at the second client | `RoundAgreement`: programs act on the message of their own round only. `NoOverwrite`. `NobodyElseDies`: a thread is ended by a missing slot or a moving table, by nothing else. `ImplementsLockstep`: refinement of LockstepRounds. `EndsUnlessPostLost`: if the session hangs, a post was lost in one of two flag races or a sender has met a moving table. `IInv`: the invariant of the proofs |
| `session` | 2 sites, patterns on at most 5 labels, K = 3 | `SessionInv`: the scripts never get out of step. `TreesComplete`: a site drops only candidates whose father it may have missed a part of itself, and no level lacks a safe tree. `LayersComplete`: nor does the backward loop. `TopKCorrect`: neither the cuts after K nor the early stop loses a better safe pattern. `SessionEnds` |
| `support` | 3 sites, a triangle, a path of four and a star, support 2 | `SupportInv`: no count exceeds the MNI of the whole graph. `TreesSummed`: what any site finds of a tree is counted once, by its owner. `NeighboursKnown`: nothing a site needs for an extension is missing |
| `partition` | ladders of eight vertices, every subset of five rungs; 2, 3 and 4 parts | `Inv`: the shared size map is right on all levels, and what is polled is not fixed and has a target. `CutProjected`: the cut weighs the same one level below. `ExchangeSound`: an exchange takes no part over a bound, and gains are right as long as nothing was skipped, or with two parts. With the check for deadlock, the program ends |
| `search` | queries of 2 to 4 nodes in graphs of 5, tied to each node or free, limited or not | `ResultsSound`: answers are embeddings. `AnswersRight`: no answer means none, or postponed; a free search has all. `Ends` |
| `joins` | graphs of 3 to 5 nodes with one to four labels, in both phases, in one order or all | `Complete`: with edge labels of one digit all frequent connected subgraphs are found. `LabelsSound`: with such labels a label stands for one pattern. `NumberingForgotten`: renumbering leaves no trace in a label. `SizesReal`: levels of the exact phase hold patterns of their size |
| `counter` | paths, triangles, a claw and a hook in graphs of 6 and 8 nodes; 1 to 3 parts | `ArcsLossless`: pruning loses no image. `VerdictRight`: each decision is that of the MNI, unless a search was cut without a trace. `PartsAddUp`: each image is counted in one part. `ExactSound`: an approximate count that calls itself exact is right. `StaysForSupport`: no worker leaves in a prediction when the support is a bucket or more. `Ends` |
| `exact` | 2 threads; 4 patterns of three edges that meet, 6 of a path, 9 of a longer one; right, wrong, missing and exact predictions | `ImplementsMining`: refinement of PatternMining, with its liveness. `PartsOnce`, `OneObject`, `PostponeHasColumn` (section 5). `ThresholdFound`: there is a threshold unless a time is shorter than there are threads. `Finishes` |
| `approx` | 2 machines with 2 threads; a path of four edges, three that meet, none | `Covered`: what the exact phase starts from is all there. `AnswersKnown`: no answer is on an unknown pattern. `AnswerComing`: the master waits only when something is under way. `Finishes`: with a limit on sizes, unless a machine cannot load the graph |

Runs that end in a counterexample, each against a sentence of the repository's
own (quoted in the findings of PROJECT.json):

| run | property | what happens |
|---|---|---|
| `link_post_lost` | `MasterPostIsSent` | Server.java:973 clears the flag that the main thread has just set for the next round. The message is never sent and all sides wait. The client has the same race at Client.java:725, which `EndsUnlessPostLost` allows for |
| `count_exact` | `VerdictExact` | When nothing is postponed any more, a search that passes maxIters looks at no further candidates and says nothing: the node counts as no image, and a frequent pattern may be decided infrequent |
| `exact_twins` | `OriginalAvailable` | Two patterns with a hard label of one size share it; the answer to the prediction of one releases the other, and the first waits for ever |

Ten more configurations show where the programs are not what their comments and
READMEs say. They are not in the list of runs; each ends in a counterexample
when TLC is run on it:

| configuration | property | what happens |
|---|---|---|
| `MCLinkResize.cfg` | `NoThreadConflict` | Server.java:955 reads the HashMap without a lock while Server.java:134 puts the entry of a later client: when that put moves the table, the sender finds nothing and ends |
| `MCSessionEdge.cfg` | `SitesSurvive` | A site without any instance of an edge that is frequent overall ends on a null dereference (Frequent_Edge.java:155) |
| `MCSessionEmpty.cfg` | `SessionEnds` | Without a frequent edge the master is in its backward loop while the sites are in their forward loop; the master ends on a null field |
| `MCSupportColumn.cfg` | `TreesCounted` | ForwardEx.java:69: the last vertex tried for a column stays in `result` and is skipped in the next columns; even a single site counts a tree too low |
| `MCSupportCycle.cfg` | `CyclesCounted` | Nothing is asked in the backward loop: a cycle over four sites is not counted |
| `MCSupportPutAll.cfg` | `CyclesSummed` | Server.java:584: of two sites that report vertices of one pattern to one owner the second replaces the first |
| `MCSupportEarly.cfg` | `EarlyEndSound` | StatisticMNI.java:71 counts virtual vertices as own, and a frequent candidate is given up |
| `MCPartitionSkip.cfg` | `CutNeverRises` | A node skipped for the bounds is fixed and keeps its `tempcolor`; neighbours count it where it never went (Uncoarsing_phase.java:268-272), and an exchange with positive `U_max` makes the cut heavier |
| `MCJoinsLabels.cfg` | `ExactSolution` | Edge labels 1 and 12, and 11 and 2, are the same text in a label (CanonibalLabel.cpp:602-611): of two frequent stars one is taken for the other and never becomes a candidate |
| `MCJoinsRepeat.cfg` | `LevelsReal` | The approximate phase adds a closing edge that is there (MinerAdv.cpp:433): a pattern of four edges comes back with size five, and would again with every size up to the limit |

### Bounds and why they are enough

* *Link.* Two clients are the least with a race between listeners; two rounds
  are one turn of every flag and the turn after it, which is all that a flag or
  a message can survive. Larger instances are covered by the proofs (section 5).
  The table of `sendlist` moves at the second client, where it takes thirteen in
  the code: what counts is a sender whose entry is there when the table moves.
  All clients have a slot; that the thirtieth has none is in the model, and in
  the theorems, but in no run.
* *Session.* With two sites one may have matches the other has not, in all
  combinations the worlds list. Four labels have all graphs that the pruning
  tests distinguish (tree, triangle with a tail, cycle, complete graph), the
  fifth a larger cycle. K = 3 lies below and above the number of patterns of a
  level, so both cuts and the early stop happen, and worlds with fewer than 3
  patterns as well. In thirteen worlds one or both sites miss patterns: fathers of
  candidates of both loops, a result itself, at the site that has them alone and at
  one of two.
* *Support.* The graphs are two copies of a pattern with one pair of labels also
  joined across, in every distribution over three sites that leaves each site an
  instance of each edge (the session ends otherwise: `MCSessionEdge.cfg`),
  with a few vertices fixed since sites can be renamed. Three sites are needed
  for two that report to a third. Other graphs, partitions and numbers of sites
  are covered by the proofs. The graphs of the counterexamples were built by
  hand. `IInv` of the proofs is not a property of the run, for its cost; as an
  invariant of MCSupport's configurations TLC finds it true, in those that end in
  counterexamples of other properties too.
* *Partition.* Main stops coarsening at 50 * 4 nodes and has 4 parts, bounds of
  103 and 97 percent, and 50 moves without gain. The worlds carry the first two;
  `Upper` = 150 and `Lower` = 50 stand for the percentages, since 3 percent of a
  small graph allow no move; `MaxNugrow` = 2 lets the limit be reached. Ladders
  with five possible rungs give two coarse levels, ties in rido, moves that are
  skipped and taken back, and a shortage of nodes for a last part. The
  counterexample has ten vertices and the code's 50 moves.

* *Search, counter.* Graphs of five to eight nodes hold a triangle, a cycle that
  goes twice around, tails and petals: every branch of the search, domains that
  arc consistency empties, columns that break early, and (with buckets of two in
  place of 20) all stages of sampling. Other graphs are covered by the proofs.
  `IInv` of the counter is not a property of the run, for its cost; as an
  invariant of MCCounter.cfg TLC finds it true.
* *Joins.* Up to the limit of six edges on four nodes a clique is mined whole,
  with one and two labels, so that all joins that close a cycle happen; one world
  has edge labels of two digits. In the approximate phase the paw has one label
  and a limit of five, so that a closing edge is repeated. The limits on orders
  of a label are lowered until hard labels happen.
* *Exact.* Two threads are the least with a part that comes late. The families
  are the least in which a pattern has two subpatterns that can reject it, a
  join has two sources, and (the longer path) a part is sent before the
  subpattern is rejected. Times of 4 and 30 give whole patterns and divided
  ones; 0, 1 and 2 the thresholds at the boundary. More threads and patterns are
  covered by the proofs, except for liveness and the end.
* *Approx.* Two machines acknowledge in any order; two threads each keep up to
  four predictions under way, one pattern several times among them. Sizes go to five,
  so that a pattern of four edges in a path of four is there once more.

Deadlock is looked for in the runs of `Partition`, `ExactMaster` and
`ApproxMaster`, where the end is a stuttering action. The other programs stop
when their work is over.

## 4. Fairness

* *Link:* weak fairness for each thread. The JVM schedules every runnable
  thread, and a monitor is entered a bounded number of times in a session, so no
  thread can be kept out for ever.
* *Session:* weak fairness for the master and each site: a main program that has
  its message goes on. That the message comes is what LockstepRounds and
  `EndsUnlessPostLost` say; a lost post (a hang of the link) is outside this
  model.
* *Exact, approx:* weak fairness of the master, of each thread that has a
  message, and of each machine that loads. The master is one loop that is never
  idle while it can send or has a message; MPI delivers what was sent. `Finishes`
  of the approximate phase has a limit on sizes as its hypothesis. Which
  answer the master takes first is open and needs no fairness, since each answer
  frees a thread.
* *Search, counter:* weak fairness of the one program that runs.
* *Joins:* none; only safety is claimed.
* *Support, partition:* none. The one is about counts, and that the other ends
  is stated without fairness, as a measure that every step advances.

## 5. Proofs

`MasterClientLinkProofs` proves, for any number of clients, rounds and slots:

| theorem | says |
|---|---|
| `TokenInvariance` | `Spec => []IInv`, the inductive invariant |
| `TypeCorrect` | `[]TypeOK` |
| `Agreement` | `[]RoundAgreement` |
| `QuietAccess` | `[]UnlockedAccessIsQuiet` |
| `SingleMessage` | `[]OneInFlight` |
| `OnlyTheseDie` | `[]NobodyElseDies` |
| `FewClientsLive` | `[]NobodyDies`, with fewer clients than slots and than the first size at which a table moves (in the code: with at most 12) |
| `Preservation` | `NoOverwrite` |
| `Implementation` | `ImplementsLockstep`: every step is a step of LockstepRounds or a stutter |

*Assumption.* `LinkAssumption`: at least one client, at least one round, `Slots`
a natural number, `Resizing` a set of them.

*Argument.* None of these is inductive: RoundAgreement, for instance, says
nothing of a message that is still in a sender's hands. `IInv` says where the
turn of each connection is. There is one token per connection, and `TokenInv`
lists its places: held by the master, pending in a flag, on the wire, received,
signalled, used by the client, and the same on the way back, or lost to a flag
race or a moving table. Each place fixes the program counters of all five threads of the
connection. `CountInv` says that `condition` is the number of tokens that have
come back; it needs `MonitorInv` (one listener inside the monitor, or
`condition++` could lose a count). `MasterInv` and `ThreadInv` tie the places to
the main thread and to connections not accepted yet. The proof that a step
preserves it has one lemma per action; `TokenFrame` and `ThreadStep` hold what
all actions of a connection have in common, that the other connections keep
their tokens.

### 5.1 The exact phase

`ExactMasterProofs` proves, for any worlds, any hard labels and any numbers of
threads and workers:

| theorem | says |
|---|---|
| `Invariance` | `Spec => []IInv`, the inductive invariant |
| `ExactSound` | `[]Sound`: what is found is frequent, what is rejected is not |
| `ExactPostpone` | `[]PostponeHasColumn`: no thread is asked what makes it leave |
| `ExactOneObject` | `[]OneObject`: a pattern has one object, and none once it is processed |
| `ExactPartsOnce` | `[]PartsOnce`: the parts added up are of one division, each once |
| `ThresholdIsFound` | `SomePredicted => []ThresholdFound`: there is a threshold to divide by, unless a predicted time is shorter than there are threads |

*Assumptions.* `DivisionAssumption` (at least one thread, and more workers than
threads: the program numbers the master too), `WorldAssumption` (an exact
prediction is right, which is `CountExactSound` of section 5.7; smaller patterns come first; finitely many). That lowering the threshold ends in a
natural number is proved (`Lowered`). `ThresholdIsFound` needs `SomePredicted`: in each
world some pattern of two edges is predicted (otherwise there is no time at all), and
`MinImbalance` is not 0, with which queues of equal length would not count as balanced;
main.cpp:95 sets it to 15. TLC evaluates `SomePredicted` for the worlds of the runs.

*The threshold.* `simulate` and what it calls are recursive functions and folds;
they are proved about without an induction over data, by functions that the proof
gives. `Dealt` and `Totalled` unfold a left fold to a sequence of states, `Flattened`
gives the parts as blocks of equal length. With the threshold 1 and no time shorter
than there are threads, each time is dealt in as many equal parts as there are
queues; `Levelled` shows by induction over the parts that in the middle of a block
the first queues are one part ahead of the rest, so that the next part goes to the
first of these, and that after a block all are level, no longer than the average
(`BalancedAtOne`). `Lowered` follows the loop from the longest time down: a tenth
less, rounded down, meets 1 before 0, and at 0 nothing is dealt (`BalancedAtZero`).

*Argument.* `Sound` is not inductive: an answer `f` must be right when it is
taken, although the column it was counted with may have changed since. `Round`
says of each pattern what its messages can be. One that is not checked has
nothing under way (`Resting`). One that is counted whole has at most one message
under way, with the column its object has now, and an answer that is right for
it (`Single`). One that is divided (`InParts`) has the parts not yet sent, those
under way and those that have come, all different and all of one division, and
`remainingSubtasks` is what has not come. When it is 0 all have come, and so
none is under way: the pattern can be put back with a new division
(`LastPart`), and nothing of the old one can be added to it. `ColumnInv` ties
`postpone` to the column, `ExpectedInv` says that a prediction has at least one
part, `KindInv` keeps copies and originals apart. Steps are grouped by what they
do to the lists: a pattern found frequent (`FoundFrequent`), infrequent
(`FoundInfrequent`), put back (`Again`), or unchanged (`StillIInv`); the lemma of
an action shows the hypotheses of one of these. Patterns an action is not about
are covered by `RoundFrame`.

The same module proves

| theorem | says |
|---|---|
| `ExactImplements` | `ImplementsMining`: every step is a step of PatternMining or a stutter, and when the phase ends all frequent patterns have been found |

*Hypotheses.* `WorldsClosed`: subpatterns of frequent patterns are frequent, and
a pattern of more than two edges has two subpatterns that join to it, which is
how supports and joins behave (TLC evaluates it on the worlds of the run).
`Hard = {}`: with hard labels it is false, which the run `exact_twins` shows.

*Argument.* Soundness is not enough: at the end nothing may be missing. A
frequent pattern is due (`Due`) when it has two edges, has been handed out, or
is the join of two patterns that have been found; `NoneLost` says that one that
is due is found already, a candidate, or being counted (`Accounted`). The phase
ends when nothing is a candidate or being counted. The smallest frequent pattern
that is not found would then be the join of two that are, and so be due. That
there is a smallest one follows from the patterns being finite, without an
induction over data.

### 5.2 The approximate phase

`ApproxMasterProofs` proves `ApproxCovered`, `ApproxAnswersKnown` and
`ApproxAnswerComing`, the three invariants of the run `approx`, and `Invariance`
of `IInv`, for any families, machines, threads, repeated edges and limit on sizes
(`ApproxAssumption`: at least one machine and thread, families of finite sets).
`ApproxCovered` needs no limit: if the phase ends, what was to be predicted has
been, and the rest came back one size up. The ids that are checked are those under
way, each once; between its test and its receive the master knows of something
that is a candidate or under way; and every pattern that has grown is predicted,
a candidate or checked. The last is what makes the test for the end
(`AllDone`) enough.

### 5.3 The search

`SubgraphSearchProofs` proves `SearchSound` (every answer of every search is an
embedding, cut short or not), `SearchMap` (the set of used nodes is that of the
nodes the iterators stand at, each at one level) and `Invariance`, for any
graphs. `SearchAssumption`: queries are finite, connected and loop-free, and a
tied node has the right label, as the patterns and domains of the callers have.
The invariant says that the order visits each node next to an earlier one, that
the candidates of a level are data nodes with the right label whose iterator
has not passed their end, and that the nodes at all levels but the last have
been compared with all earlier ones (`Compared`): a candidate is taken unseen
and found out when the level above it is added.

`SearchComplete` adds that nothing is missed (`AnswersRight`): a restricted
search that says there is no embedding is right, a free one has noted every one,
unless the search was cut without a trace. Its hypothesis `DomainsKeep` says that
the domains a search is given leave out no node of an embedding, which is what
arc consistency promises (`CountArcsLossless`, section 5.7); `MCSearch` has TLC
evaluate it. `CompleteInv` is the reason: an embedding that is wanted and not
noted yet is still ahead of the iterators. They stand at its nodes up to some
level, where its node is among those they have still to pass, and every move of
the stack (reject, answer, one level more, one back) keeps that.

`EmbeddingsAre` (in `LabelledGraphProofs`) shows that the reference these properties
use is what it should be: built up one node after the other for TLC's sake, it is
the set of all maps that keep node labels, edges and edge labels. It rests on
the finite enumeration of a set of numbers, by a least-number argument in place
of an induction.

### 5.4 Growth of patterns

The first part of `MiningSessionProofs` is about TreeGenForward and
TreeGenBackward alone, for any set F of frequent patterns that is closed under
connected parts (as supports are), any part S of it that is closed in the same
way (the patterns that nobody misses), and any order of the HashMap of fathers
(`Ranks`), which decides which of several equal candidates is kept:

| theorem | says |
|---|---|
| `ForwardComplete` | from fathers that are frequent trees of n edges, among them all of S, come candidates that cover the trees of n + 1 edges of S, no graph twice; every candidate is a father and one edge to a new label |
| `BackwardComplete` | from fathers that are frequent patterns of m edges on l labels, among them all of S, come candidates that cover those of m + 1 edges on l labels of S, no graph twice; every candidate is a father and one edge between its labels |

*Argument.* Both have two halves. Something is proposed: a tree of more than one
edge has a leaf (`Leaf`), and what is left without it is a smaller tree and so
a father (`Peel`); a connected graph that is no tree has an edge that can be
spared (`Spare`), other than those of the tree it was grown from. And nothing
of S is pruned: what checkfrequent looks for is connected and a part
of the candidate, so that it is in S, and it has the number of labels and
edges that put it among the fathers, or in the level of the tree. The facts
about trees (a connected graph has at most one label more than edges, and a leaf
if it has exactly one more) are proved from the definition of `Connected` as a
statement about all cuts.

### 5.5 The session

`MiningSessionProofs` proves, for any sites, any world and any K:

| theorem | says |
|---|---|
| `SInvHolds` | `[]SInv`, the inductive invariant |
| `SessionAgrees` | `[]SessionInv`: the scripts never get out of step, no program dies on a null field |
| `TreesAreComplete` | `[]TreesComplete`: a site drops a candidate it has matches of only if it may have missed a part of the father itself, and no level of the tree lacks a safe tree |
| `LayersAreComplete` | `[]LayersComplete`: nor does a layer of the backward loop lack a safe pattern |
| `BestAreFound` | `[]TopKCorrect`: a session ends with at most K frequent patterns, and no safe one that is left out is more interesting |

Nothing is assumed of what the sites miss, except that it is no single edge: the
edge counts are not searched for. A world in which nobody misses anything is one
of them, and there all frequent patterns are safe. What the three theorems say is that
a loss does not spread: neither to another site, whose fathers are complete
whatever the others give up, nor to a pattern that does not contain what is lost.
The versions without `Safe` are false of the model, as of the code.

*Assumptions.* `WorldAssumption` (supports and presence shrink with the pattern,
what is frequent has a match somewhere, no site misses a single edge, and the
frequent patterns are finitely many, as the edges of the data are), and the
hypothesis `EdgesKnown`: in every world `HasEdges`. The second cannot be dropped:
`MCSessionEdge.cfg` and `MCSessionEmpty.cfg` are the counterexamples.

*Argument.* None of the first three properties is inductive, and none can be
proved without the others. A site leaves the forward loop by `frequentpatternid`, the master by
`patternMap`: that they agree needs `ScriptInv`, in which every site has either
not taken the present message and stands before it (`Pending`) or has answered
and stands behind it (`Handed`), with the values the messages carry. That the
next level lacks no safe tree needs that the sum over the sites misses none, and so that
a site which has matches of a safe candidate reports it; that needs that it knows the
father (`KnowInv`), although it keeps only what it has matches of itself and has not
given up. It does because the father is a part of the candidate, is present where
the candidate is, and was reported and kept there at the round before. This holds
at each site for all patterns the site itself misses no part of (`Sees`), safe or
not, whatever the others do. And what the candidates are
is `ForwardComplete` and `BackwardComplete`, with F the frequent and S the safe
patterns. `TreeInv` and `LayerInv` hold the
levels and layers that are finished, and the candidates that follow from the
last. There is a lemma for each handler of a site and of the master; `SiteFrame`
and `Posts` hold what all of them share.

The best K rest on `UniqueInv`, `TopInv` and `SInv`. The master keeps lists of
patterns and counts them, so that a graph that were in a list twice would cost
another its place: `UniqueInv` says that none is, since candidate generation
keeps one candidate per graph (`OneEach`). Then the folds over the lists are
cardinalities (`LayeredSums`). `TopInv` says that `SumItrsOfP` has the best K of
a set of patterns on more labels than those of the present level in which no safe
one is missing: what was found there. Each call of
`AddTopk` keeps this (`AddTopkBest`): the first cut, of the level alone, takes
over only what can be among the best of both, and the second cuts from the least
interesting end. When a level is left all its safe patterns are in its layers,
because between the least and the greatest interest of those no value is missing
(`NoGap`: an edge can be spared until a tree is left, and the parts of a safe
pattern are safe), and the layer that ends the loop, which has none, is the end of
them. The early stop compares with `MaxItrs`:
v (v + 1), twice the interest of the complete pattern on v labels, although the
patterns of the next level have v + 1. It is right all the same (`LowerLevels`):
these have at most (v + 1) v / 2 edges (`EdgeBound`) and so an interest of at most
(v + 1) (v + 2) / 2, which is no more than v (v + 1) from v = 2 on; and for v = 1,
where the next level are the single edges, every pattern kept has three labels.

### 5.6 Support counting

`DistributedSupportProofs` proves, for any labelled graph, any division of it
over any sites, and any orders of HashSets and HashMaps:

| theorem | says |
|---|---|
| `ColumnsSound` | what the column search leaves in the columns of a candidate is in a match of all its edges |
| `CountingInv` | `[]IInv`, the inductive invariant |
| `NoNeighbourMissing` | `[]NeighboursKnown`: a vertex that is extended in the forward loop has all its neighbours there |
| `SupportNeverTooLarge` | `[]SupportInv`: no count is larger than the support in the whole graph |
| `TreesAddUp` | `[]TreesSummed`: in the forward loop the sum counts every vertex that any site has found, once |

*Assumption.* `ProblemAssumption`: finitely many vertices and sites, each vertex
with a site, no edge between equal labels, and vertices of one label in some
order.

*Argument.* The column search is two nested folds around a recursive function
with memory: `result` keeps an entry from one column to the next, and a vertex
that is in it is skipped. `ColumnsSound` follows every assignment of `Checks`:
where a search says there is a match, `result` has been set for all labels in
the order of `Getorder`, each next to one that was set before, and what was in
it earlier only makes fewer vertices eligible. So entries that are left over can
cost vertices (`TreesCounted`, section 3, is violated) and cannot add any.

`IInv` has five parts. `AskInv`: every question is with the site that asks, with
the owner, under way back, or answered, and all answers are edges of the graph.
`GrowInv`: fathers and candidates are patterns over the frequent edges, a
candidate is its father and one edge, and no two candidates have the same
pattern, so that a site has one record for each. `SitesInv`: every column holds
only vertices that a match in the whole graph has there; for a new record this is
`ColumnsSound`, and that a match with edges a site knows is one of the whole
graph is `EdgesReal`. `BoxInv`: what has been sent is what was found of the
vertices of others, and an owner has all of it in the forward loop, a part of it
in the backward loop (where `putAll` loses the rest). `SumsInv`: the shares of
the sites are disjoint, because each has vertices of its own only, so that the
sum of their sizes is the size of their union (`TotalIs`), which is within what
was found, and all of it if the owners have been told all.

That the counts of frequent patterns are not too small either is false of the
code (`TreesCounted`, `CyclesCounted`, `EarlyEndSound`: section 3). What such a
count costs a session is the subject of 5.5: `missed` stands for it there.

### 5.7 The counter

`SupportCounterProofs` proves, for any connected patterns without loops, any data
graphs, any supports, divisions, invalid columns, predictions and costly nodes:

| theorem | says |
|---|---|
| `CounterInv` | `[]IInv`, the inductive invariant |
| `CountArcsLossless` | `[]ArcsLossless`: pruning by label, degree and arc consistency takes no image |
| `CountVerdictRight` | `[]VerdictRight`: the decision is that of the MNI, unless a search was cut without a trace |
| `CountPartsAddUp` | `[]PartsAddUp`: the sums hold each image once, or a postponed node for it |
| `CountExactSound` | `[]ExactSound`: an approximate count that calls itself exact is right |
| `CountStaysForSupport` | `[]StaysForSupport`: a support of a bucket or more keeps a worker from leaving |

*Assumption.* `JobAssumption`: every job satisfies `JobOK`, and a bucket is not
larger than the number of samples. That a search that is not cut finds an image
when there is one is in the model (`Images`), and shown of the search by
`SearchComplete`.

*Argument.* `IInv` measures everything by `Real(c)`, the nodes of the data that an
embedding has for column c. `ArcsInv`: the domains hold all of them, because an
embedding gives every node a partner along every edge (`RefineIs`); and an edge
no arc waits for is consistent (`Matched`), unless a domain is too small already.
`ColumnsInv`: what is left to try, found or postponed covers the images of the
part. A break leaves that column smaller than the support, and then the pattern
is hopeless (`Hopeless`), so that nothing more is claimed of it: with the
postponed nodes counted in, the break of a whole count is right. The break of a
part on a prediction (`AsPredicted`) can only make a column with an invalid
column look larger, which never decides anything but that the pattern is counted
again without that column. `TableInv` and `SumsInv` say the same of the table of
a part and of the sums, for the images with the residues of the parts that have
come (`Before`); a part adds its residue, which is disjoint from them
(`PartsOf`). `subTaskDone` then compares the sums with and without the postponed
nodes, and is right whichever it is (`SubTaskIs`).

When all labels differ and the graph has no cycle the domains are read as the
answer, without a search. That is right because every node that arc consistency
leaves is an image: `TreePlaces` walks the pattern as isItAcyclic does, breadth
first, and gives each node it reaches a partner of its one neighbour that has
been visited; the labels make the partners different (`TreeImages`).

### 5.8 What is only model-checked

* Liveness (`EndsUnlessPostLost`, `SessionEnds`, `Finishes`, `Ends`), which is
  beyond the prover.
* What the canonical label and the joins of ScaleMine compute.
* PARTITION of DFPM.

## 6. Not modelled, and why

* DFPM: IOExceptions and reconnection (the session ends with the connection);
  byte counters (a step, no property), timing, logs, serialisation; the edge
  statistics at the end of the master (Server.java:780-843), which change no
  state; patterns with equal labels beyond single edges, which candidate
  generation cannot make.
* PARTITION: reading and writing files; `Create_inputGraph`, which nothing calls.
* ScaleMine, not called: `Miner::startMining`, `MinerX::startMining` and
  `initWithoutApprox`, `GraMiCounter::isFrequent` (76-324). Not the default:
  `divideByFunc` 0 to 3, directed graphs. Without effect: the request `t` to a
  worker. `maxNumCandids` is -1, so that its cap never applies.
* ScaleMine, of maps: the counters of `CLMap`, its iterators, `clear` and
  `addAll`; sets stand for maps.
* ScaleMine, after undefined behaviour: a run with threshold 0 is not followed.
* ScaleMine, between the phases: the order of start-up, the settings and the end
  of MPI (main.cpp). A machine that cannot load the graph is modelled; a process
  that dies later is not, since nothing in the program notices one.
* Time: predictions carry times as numbers, and nothing else depends on a clock.
* Seven disagreements of DFPM and PARTITION are kept as configurations (section
  3) and not as runs.

## 7. What could follow

1. An abstract specification of the session (level-wise mining as one step per
   level) and `MiningSession` shown to implement it, from `SInv`.
2. A proof of the size map of PARTITION (`Inv`).
