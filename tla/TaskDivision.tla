---------------------------- MODULE TaskDivision ----------------------------
(***************************************************************************)
(* Into how many parts ScaleMine's exact phase divides a pattern: the      *)
(* times that the approximate phase predicts are dealt to simulated        *)
(* queues (QueueSimulator.cpp), and the threshold above which a time is    *)
(* divided is lowered until the queues are balanced (MinerX2.cpp,          *)
(* divideFFun4).  Times are natural numbers (milliseconds).                *)
(***************************************************************************)
EXTENDS Integers, Sequences, FiniteSetsExt, SequencesExt

CONSTANTS Threads,      \* the threads of the workers, each with a queue
          NumWorkers,   \* what the code calls numWorkers: those and the master's
          MinImbalance  \* Settings::minImbalance, in percent

ASSUME DivisionAssumption ==
  /\ Threads \in Nat \ {0} /\ NumWorkers \in Nat /\ Threads < NumWorkers
  /\ MinImbalance \in Nat

Ceil(a, b) == (a + b - 1) \div b

-----------------------------------------------------------------------------
(* The simulation.                                                          *)

\* One part goes to the queue that is shortest so far, the first of them.
Deal(queues, t) ==
  LET w == CHOOSE w \in 1 .. Threads : \A v \in 1 .. Threads :
             queues[w] < queues[v] \/ (queues[w] = queues[v] /\ w <= v)
  IN [queues EXCEPT ![w] = @ + t]

\* A time is dealt in parts, at most one for each queue.  With threshold 0 the
\* number of parts is the conversion of an infinite value, none on x86.  (The
\* faulty variant, used by no specification, leaves one queue out.)
PartsOfLess(t, threshold) == IF threshold = 0 THEN 0 ELSE Min({Ceil(t, threshold), Threads - 1})
PartsOf(t, threshold) == IF threshold = 0 THEN 0 ELSE Min({Ceil(t, threshold), Threads})
Queues(times, threshold) ==
  LET dealt(t) == [i \in 1 .. PartsOf(t, threshold) |-> t \div PartsOf(t, threshold)]
  IN FoldLeft(Deal, [w \in 1 .. Threads |-> 0], FlattenSeq([k \in DOMAIN times |-> dealt(times[k])]))

Total(times) == FoldLeft(LAMBDA s, t : s + t, 0, times)

\* evaluate: the longest queue is less than MinImbalance percent above the
\* average.  With an average of 0 the percentage is converted from an infinite
\* value or none at all, and counts as small.
Balanced(times, threshold) ==
  LET average == Total(times) \div Threads
      queues  == Queues(times, threshold)
      longest == Max({queues[w] : w \in 1 .. Threads})
  IN average = 0 \/ longest * 100 < (100 + MinImbalance) * average

\* simulate: a tenth less, rounded down, until balanced.
simulate(times) ==
  LET first == Max({0} \union {times[k] : k \in DOMAIN times})
      from[t \in 0 .. first] == IF Balanced(times, t) THEN t ELSE from[(9 * t) \div 10]
  IN from[first]

-----------------------------------------------------------------------------
(* Its use.                                                                 *)

\* Pattern::setSubtasking: never more parts than numWorkers.
Capped(n) == Min({n, NumWorkers})

\* The parts that a predicted pattern is given: `most` is the cap of the place.
Divided(time, threshold, most) ==
  IF time > 2 * threshold THEN Capped(Min({Ceil(time, threshold), most})) ELSE 1

\* A pattern that is counted again: the quotient, rounded down.
Quotient(time, threshold) == time \div threshold
=============================================================================
