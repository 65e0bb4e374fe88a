---------------------------- MODULE PatternMining ----------------------------
(***************************************************************************)
(* What the exact phase of ScaleMine promises, whoever counts and in       *)
(* whatever order: patterns are found frequent or rejected one by one,     *)
(* each rightly and for good, and the phase ends with all frequent         *)
(* patterns found.  ExactMaster implements this specification.             *)
(***************************************************************************)
EXTENDS FiniteSets

VARIABLES truth,     \* the patterns that are frequent, as sets of edges
          found,     \* those that have been found
          rejected,  \* those that have been found infrequent
          finished

vars == <<truth, found, rejected, finished>>

Init ==
  /\ found = {p \in truth : Cardinality(p) = 1}
  /\ rejected = {} /\ finished = FALSE

Find ==
  /\ ~finished
  /\ \E p \in truth : found' = found \union {p}
  /\ UNCHANGED <<truth, rejected, finished>>

Reject ==
  /\ ~finished
  /\ \E p \in rejected' : rejected' = rejected \union {p} /\ p \notin truth
  /\ UNCHANGED <<truth, found, finished>>

Finish ==
  /\ ~finished /\ found = truth
  /\ finished' = TRUE
  /\ UNCHANGED <<truth, found, rejected>>

Next == Find \/ Reject \/ Finish
Spec == Init /\ [][Next]_vars
=============================================================================
