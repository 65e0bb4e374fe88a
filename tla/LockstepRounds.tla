--------------------------- MODULE LockstepRounds ---------------------------
(***************************************************************************)
(* What the socket layer of the distributed miner promises its two main    *)
(* programs, and nothing else: a number of rounds in lockstep.  In round   *)
(* r every client hands over its r-th message, the master takes them all   *)
(* and posts its own r-th message to every client.  A client never runs    *)
(* ahead of the master and the master never goes on without every client.  *)
(* MasterClientLink implements this specification.                         *)
(***************************************************************************)
EXTENDS Integers

CONSTANTS Client,   \* the sites that take part
          Rounds    \* how many rounds the session has

VARIABLES mround,   \* rounds the master has completed
          cround    \* cround[c]: messages the main program of c has handed over

vars == <<mround, cround>>

Init == /\ mround = 0
        /\ cround = [c \in Client |-> 0]

\* A client that has the master's last message hands over its next one.
Answer(c) == /\ cround[c] = mround
             /\ cround[c] < Rounds
             /\ cround' = [cround EXCEPT ![c] = @ + 1]
             /\ UNCHANGED mround

\* The master has a message of every client and closes the round.
CloseRound == /\ \A c \in Client : cround[c] = mround + 1
              /\ mround' = mround + 1
              /\ UNCHANGED cround

Next == CloseRound \/ \E c \in Client : Answer(c)

Spec == Init /\ [][Next]_vars
=============================================================================
