-------------------------- MODULE MasterClientLink --------------------------
(***************************************************************************)
(* The message layer of the distributed miner: the master program, its two *)
(* threads per connection (Server_Listen, Server_send), and on each client *)
(* the main program with its two threads (Client_listen, Client_send).     *)
(*                                                                         *)
(* Every exchange of the mining session has the same form (only the        *)
(* payload differs), so a message is the number of its round: client i's   *)
(* r-th message, the master's r-th message.  A session of Rounds rounds is *)
(* closed by the master's last message, the flag -1 in the code.           *)
(*                                                                         *)
(* One action is one access to shared state.  A thread inside             *)
(* synchronized(lock) is one whose program counter is in a critical        *)
(* section; the monitor is free when no thread is.                         *)
(***************************************************************************)
EXTENDS Integers, Sequences, FiniteSets

CONSTANTS numofclient,  \* clients the master waits for (Server.numofclient)
          Rounds,       \* number of exchanges of the session
          Slots,        \* entries InitialSendflag puts into sendflaglist: 30
          Resizing      \* the keys with which a HashMap moves to a new table: 13, 25

ASSUME LinkAssumption == /\ numofclient \in Nat \ {0}
                         /\ Rounds \in Nat \ {0}
                         /\ Slots \in Nat /\ Resizing \subseteq Nat

Ids  == 1 .. numofclient     \* connection ids, in the order of accept()
None == 0                    \* no entry in getlist or sendlist

VARIABLES
  \* the master's main thread; hidden: keys of sendlist it has yet to move
  mpc, mi, mround, hidden,
  \* what it shares with the connection threads
  condition, getlist, sendlist, sendflaglist, byteall,
  \* Server_Listen and Server_send, one of each per connection
  lpc, ldata, ltmp, spc,
  \* the TCP stream of each connection, one sequence for each direction
  toClient, toServer,
  \* the main thread of each client and what it shares with its threads
  cpc, cround, senddata, send_flag, getdata, recive_flag,
  \* Client_listen and Client_send
  rpc, wpc

master  == <<mpc, mi, mround, hidden>>
shared  == <<condition, getlist, sendlist, sendflaglist, byteall>>
threads == <<lpc, ldata, ltmp, spc>>
wire    == <<toClient, toServer>>
client  == <<cpc, cround, senddata, send_flag, getdata, recive_flag, rpc, wpc>>
vars    == <<mpc, mi, mround, hidden, condition, getlist, sendlist, sendflaglist,
             byteall, lpc, ldata, ltmp, spc, toClient, toServer, cpc, cround,
             senddata, send_flag, getdata, recive_flag, rpc, wpc>>

\* The bytes of a message.  Its round stands for its size, so that two
\* messages of different rounds differ.
Bytes(m) == m

\* Nobody is inside synchronized (Server.lock).
LockFree == \A i \in Ids : lpc[i] \notin {"put", "load", "store"} /\ spc[i] # "reset"

Init ==
  /\ mpc = "accept" /\ mi = 1 /\ mround = 0 /\ hidden = {}
  /\ condition = 0
  /\ getlist = [i \in Ids |-> None]
  /\ sendlist = [i \in Ids |-> None]
  /\ sendflaglist = [i \in Ids |-> FALSE]
  /\ byteall = 0
  /\ lpc = [i \in Ids |-> "off"]
  /\ ldata = [i \in Ids |-> None]
  /\ ltmp = [i \in Ids |-> 0]
  /\ spc = [i \in Ids |-> "off"]
  /\ toClient = [i \in Ids |-> <<>>]
  /\ toServer = [i \in Ids |-> <<>>]
  /\ cpc = [i \in Ids |-> "put"]
  /\ cround = [i \in Ids |-> 0]
  /\ senddata = [i \in Ids |-> None]
  /\ send_flag = [i \in Ids |-> FALSE]
  /\ getdata = [i \in Ids |-> None]
  /\ recive_flag = [i \in Ids |-> FALSE]
  /\ rpc = [i \in Ids |-> "read"]
  /\ wpc = [i \in Ids |-> "poll"]

-----------------------------------------------------------------------------
(* Faulty variants of some actions below.  No specification uses them: a   *)
(* property is tested by putting one in the place of the action it varies. *)

\* condition keeps its count
MasterResetForgotten ==
  /\ mpc = "reset"
  /\ mpc' = "collect" /\ mi' = 1
  /\ UNCHANGED <<mround, hidden, shared, threads, wire, client>>

\* getlist.clear() comes before the answers are read
MasterResetClears ==
  /\ mpc = "reset"
  /\ condition' = 0
  /\ getlist' = [i \in Ids |-> None]
  /\ mpc' = "collect" /\ mi' = 1
  /\ UNCHANGED <<mround, hidden, sendlist, sendflaglist, byteall, threads, wire, client>>

\* the listener does not wake the main thread
ListenStoreSilent(i) ==
  /\ lpc[i] = "store"
  /\ condition' = ltmp[i] + 1
  /\ lpc' = [lpc EXCEPT ![i] = "read"]
  /\ UNCHANGED <<master, getlist, sendlist, sendflaglist, byteall, ldata, ltmp, spc, wire, client>>

\* the client goes on without waiting for recive_flag
ClientWaitSkipped(i) ==
  /\ cpc[i] = "enter"
  /\ cpc' = [cpc EXCEPT ![i] = "reset"]
  /\ UNCHANGED <<master, shared, threads, wire, cround, senddata, send_flag, getdata, recive_flag, rpc, wpc>>

\* recive_flag stays set
ClientResetForgotten(i) ==
  /\ cpc[i] = "reset"
  /\ cpc' = [cpc EXCEPT ![i] = "read"]
  /\ UNCHANGED <<master, shared, threads, wire, cround, senddata, send_flag, getdata, recive_flag, rpc, wpc>>

-----------------------------------------------------------------------------
(* The master's main thread *)

\* start(): take the next connection and start its two threads.  The sender
\* of an id beyond the end of sendflaglist dies on its first get(id).
Accept ==
  /\ mpc = "accept"
  /\ lpc' = [lpc EXCEPT ![mi] = "read"]
  /\ spc' = [spc EXCEPT ![mi] = IF mi < Slots THEN "poll" ELSE "dead"]
  /\ IF mi < numofclient THEN mi' = mi + 1 /\ UNCHANGED mpc
                         ELSE mi' = 1 /\ mpc' = "enter"
  /\ UNCHANGED <<mround, hidden, shared, ldata, ltmp, wire, client>>

\* synchronized (lock) { while (condition < numofclient) lock.wait(); }
MasterWait ==
  /\ mpc = "enter"
  /\ LockFree
  /\ mpc' = IF condition < numofclient THEN "waiting" ELSE "reset"
  /\ UNCHANGED <<mi, mround, hidden, shared, threads, wire, client>>

\* condition = 0, outside the lock
MasterReset ==
  /\ mpc = "reset"
  /\ condition' = 0
  /\ mpc' = "collect" /\ mi' = 1
  /\ UNCHANGED <<mround, hidden, getlist, sendlist, sendflaglist, byteall, threads, wire, client>>

\* getlist.get(mi).get...(): a missing entry is a NullPointerException.  The
\* rounds whose answer is a bare flag skip this read.
MasterCollect ==
  /\ mpc = "collect"
  /\ IF getlist[mi] = None THEN mpc' = "dead" /\ UNCHANGED mi
     ELSE IF mi < numofclient THEN mi' = mi + 1 /\ UNCHANGED mpc
     ELSE mi' = 1 /\ mpc' = "clear"
  /\ UNCHANGED <<mround, hidden, shared, threads, wire, client>>

\* getlist.clear(); the master now computes its own message of the round
MasterClear ==
  /\ mpc = "clear"
  /\ getlist' = [i \in Ids |-> None]
  /\ mround' = mround + 1
  /\ mpc' = "put" /\ mi' = 1
  /\ UNCHANGED <<hidden, condition, sendlist, sendflaglist, byteall, threads, wire, client>>

\* sendlist.put(i, connectionData).  The keys come in order, so that the first
\* put of mi is that of the mi-th key; when the table is full it is replaced
\* by an empty one, to which the keys are then moved.
MasterPut ==
  /\ mpc = "put"
  /\ sendlist' = [sendlist EXCEPT ![mi] = mround]
  /\ IF sendlist[mi] = None /\ mi \in Resizing
     THEN hidden' = 1 .. mi /\ mpc' = "move"
     ELSE hidden' = hidden /\ mpc' = "flag"
  /\ UNCHANGED <<mi, mround, condition, getlist, sendflaglist, byteall, threads, wire, client>>

\* HashMap.resize(), key by key
MasterMove ==
  /\ mpc = "move"
  /\ hidden' = {i \in hidden : \E k \in hidden : k < i}
  /\ mpc' = IF hidden' = {} THEN "flag" ELSE "move"
  /\ UNCHANGED <<mi, mround, shared, threads, wire, client>>

\* sendflaglist.set(i, true), which throws beyond the end of the list
MasterFlag ==
  /\ mpc = "flag"
  /\ IF mi >= Slots
     THEN mpc' = "dead" /\ UNCHANGED <<mi, sendflaglist>>
     ELSE /\ sendflaglist' = [sendflaglist EXCEPT ![mi] = TRUE]
          /\ IF mi < numofclient
             THEN mi' = mi + 1 /\ mpc' = "put"
             ELSE mi' = 1 /\ mpc' = IF mround = Rounds THEN "done" ELSE "enter"
  /\ UNCHANGED <<mround, hidden, condition, getlist, sendlist, byteall, threads, wire, client>>

MasterMain == \/ Accept \/ MasterWait \/ MasterReset \/ MasterCollect
              \/ MasterClear \/ MasterPut \/ MasterMove \/ MasterFlag

-----------------------------------------------------------------------------
(* Server_Listen of connection i *)

\* data = kryo.readObject(input, ...)
ListenRead(i) ==
  /\ lpc[i] = "read" /\ toServer[i] # <<>>
  /\ ldata' = [ldata EXCEPT ![i] = Head(toServer[i])]
  /\ toServer' = [toServer EXCEPT ![i] = Tail(@)]
  /\ lpc' = [lpc EXCEPT ![i] = "lock"]
  /\ UNCHANGED <<master, shared, ltmp, spc, toClient, client>>

\* enter the monitor and add the message to the shipment count
ListenLock(i) ==
  /\ lpc[i] = "lock" /\ LockFree
  /\ byteall' = byteall + Bytes(ldata[i])
  /\ lpc' = [lpc EXCEPT ![i] = "put"]
  /\ UNCHANGED <<master, condition, getlist, sendlist, sendflaglist, ldata, ltmp, spc, wire, client>>

\* getlist.put(id, data)
ListenPut(i) ==
  /\ lpc[i] = "put"
  /\ getlist' = [getlist EXCEPT ![i] = ldata[i]]
  /\ lpc' = [lpc EXCEPT ![i] = "load"]
  /\ UNCHANGED <<master, condition, sendlist, sendflaglist, byteall, ldata, ltmp, spc, wire, client>>

\* condition++ on a volatile field is a read ...
ListenLoad(i) ==
  /\ lpc[i] = "load"
  /\ ltmp' = [ltmp EXCEPT ![i] = condition]
  /\ lpc' = [lpc EXCEPT ![i] = "store"]
  /\ UNCHANGED <<master, shared, ldata, spc, wire, client>>

\* ... and a write; then notifyAll() and out of the monitor
ListenStore(i) ==
  /\ lpc[i] = "store"
  /\ condition' = ltmp[i] + 1
  /\ mpc' = IF mpc = "waiting" THEN "enter" ELSE mpc
  /\ lpc' = [lpc EXCEPT ![i] = "read"]
  /\ UNCHANGED <<mi, mround, hidden, getlist, sendlist, sendflaglist, byteall, ldata, ltmp, spc, wire, client>>

ServerListen(i) == ListenRead(i) \/ ListenLock(i) \/ ListenPut(i) \/ ListenLoad(i) \/ ListenStore(i)

-----------------------------------------------------------------------------
(* Server_send of connection i *)

\* the busy loop finds its flag set
SendPoll(i) ==
  /\ spc[i] = "poll" /\ sendflaglist[i]
  /\ spc' = [spc EXCEPT ![i] = "write"]
  /\ UNCHANGED <<master, shared, lpc, ldata, ltmp, wire, client>>

\* kryo.writeObject(output, sendlist.get(id)); output.flush().  A key that has
\* not been moved is not found, and kryo refuses null: the thread ends.
SendWrite(i) ==
  /\ spc[i] = "write"
  /\ IF i \in hidden
     THEN spc' = [spc EXCEPT ![i] = "dead"] /\ UNCHANGED toClient
     ELSE /\ toClient' = [toClient EXCEPT ![i] = Append(@, sendlist[i])]
          /\ spc' = [spc EXCEPT ![i] = "count"]
  /\ UNCHANGED <<master, shared, lpc, ldata, ltmp, toServer, client>>

\* enter the monitor; the bytes counted are those of sendlist.get(id) NOW,
\* where null is written like anything else
SendCount(i) ==
  /\ spc[i] = "count" /\ LockFree
  /\ byteall' = byteall + Bytes(IF i \in hidden THEN None ELSE sendlist[i])
  /\ spc' = [spc EXCEPT ![i] = "reset"]
  /\ UNCHANGED <<master, condition, getlist, sendlist, sendflaglist, lpc, ldata, ltmp, wire, client>>

\* sendflaglist.set(id, false), whoever set it in the meantime
SendReset(i) ==
  /\ spc[i] = "reset"
  /\ sendflaglist' = [sendflaglist EXCEPT ![i] = FALSE]
  /\ spc' = [spc EXCEPT ![i] = "poll"]
  /\ UNCHANGED <<master, condition, getlist, sendlist, byteall, lpc, ldata, ltmp, wire, client>>

ServerSend(i) == SendPoll(i) \/ SendWrite(i) \/ SendCount(i) \/ SendReset(i)

-----------------------------------------------------------------------------
(* The main thread of client i *)

\* senddata = connectionData
ClientPut(i) ==
  /\ cpc[i] = "put"
  /\ senddata' = [senddata EXCEPT ![i] = cround[i] + 1]
  /\ cround' = [cround EXCEPT ![i] = @ + 1]
  /\ cpc' = [cpc EXCEPT ![i] = "flag"]
  /\ UNCHANGED <<master, shared, threads, wire, send_flag, getdata, recive_flag, rpc, wpc>>

\* send_flag = true
ClientFlag(i) ==
  /\ cpc[i] = "flag"
  /\ send_flag' = [send_flag EXCEPT ![i] = TRUE]
  /\ cpc' = [cpc EXCEPT ![i] = "enter"]
  /\ UNCHANGED <<master, shared, threads, wire, cround, senddata, getdata, recive_flag, rpc, wpc>>

\* synchronized (lock) { while (!recive_flag) lock.wait(); }
ClientWait(i) ==
  /\ cpc[i] = "enter"
  /\ cpc' = [cpc EXCEPT ![i] = IF recive_flag[i] THEN "reset" ELSE "waiting"]
  /\ UNCHANGED <<master, shared, threads, wire, cround, senddata, send_flag, getdata, recive_flag, rpc, wpc>>

\* recive_flag = false, outside the lock
ClientReset(i) ==
  /\ cpc[i] = "reset"
  /\ recive_flag' = [recive_flag EXCEPT ![i] = FALSE]
  /\ cpc' = [cpc EXCEPT ![i] = "read"]
  /\ UNCHANGED <<master, shared, threads, wire, cround, senddata, send_flag, getdata, rpc, wpc>>

\* use getdata; the master's last message ends the client's loop
ClientRead(i) ==
  /\ cpc[i] = "read"
  /\ cpc' = [cpc EXCEPT ![i] = IF getdata[i] = Rounds THEN "done" ELSE "put"]
  /\ UNCHANGED <<master, shared, threads, wire, cround, senddata, send_flag, getdata, recive_flag, rpc, wpc>>

ClientMain(i) == ClientPut(i) \/ ClientFlag(i) \/ ClientWait(i) \/ ClientReset(i) \/ ClientRead(i)

-----------------------------------------------------------------------------
(* Client_listen and Client_send of client i *)

\* getdata = kryo.readObject(input, ...), outside the lock
ClientListenRead(i) ==
  /\ rpc[i] = "read" /\ toClient[i] # <<>>
  /\ getdata' = [getdata EXCEPT ![i] = Head(toClient[i])]
  /\ toClient' = [toClient EXCEPT ![i] = Tail(@)]
  /\ rpc' = [rpc EXCEPT ![i] = "notify"]
  /\ UNCHANGED <<master, shared, threads, toServer, cpc, cround, senddata, send_flag, recive_flag, wpc>>

\* synchronized (lock) { recive_flag = true; lock.notifyAll(); }
ClientListenNotify(i) ==
  /\ rpc[i] = "notify"
  /\ recive_flag' = [recive_flag EXCEPT ![i] = TRUE]
  /\ cpc' = [cpc EXCEPT ![i] = IF @ = "waiting" THEN "enter" ELSE @]
  /\ rpc' = [rpc EXCEPT ![i] = "read"]
  /\ UNCHANGED <<master, shared, threads, wire, cround, senddata, send_flag, getdata, wpc>>

\* the busy loop finds send_flag set
ClientSendPoll(i) ==
  /\ wpc[i] = "poll" /\ send_flag[i]
  /\ wpc' = [wpc EXCEPT ![i] = "write"]
  /\ UNCHANGED <<master, shared, threads, wire, cpc, cround, senddata, send_flag, getdata, recive_flag, rpc>>

\* kryo.writeObject(output, senddata); output.flush()
ClientSendWrite(i) ==
  /\ wpc[i] = "write"
  /\ toServer' = [toServer EXCEPT ![i] = Append(@, senddata[i])]
  /\ wpc' = [wpc EXCEPT ![i] = "reset"]
  /\ UNCHANGED <<master, shared, threads, toClient, cpc, cround, senddata, send_flag, getdata, recive_flag, rpc>>

\* send_flag = false, whoever set it in the meantime
ClientSendReset(i) ==
  /\ wpc[i] = "reset"
  /\ send_flag' = [send_flag EXCEPT ![i] = FALSE]
  /\ wpc' = [wpc EXCEPT ![i] = "poll"]
  /\ UNCHANGED <<master, shared, threads, wire, cpc, cround, senddata, getdata, recive_flag, rpc>>

ClientListen(i) == ClientListenRead(i) \/ ClientListenNotify(i)
ClientSend(i)   == ClientSendPoll(i) \/ ClientSendWrite(i) \/ ClientSendReset(i)

-----------------------------------------------------------------------------
Next == \/ MasterMain
        \/ \E i \in Ids : \/ ServerListen(i) \/ ServerSend(i)
                          \/ ClientMain(i) \/ ClientListen(i) \/ ClientSend(i)

Spec == Init /\ [][Next]_vars

\* The JVM schedules every runnable thread.  A monitor is entered a bounded
\* number of times (twice a message), so weak fairness is enough for it too.
Fairness == /\ WF_vars(MasterMain)
            /\ \A i \in Ids : /\ WF_vars(ServerListen(i)) /\ WF_vars(ServerSend(i))
                              /\ WF_vars(ClientMain(i)) /\ WF_vars(ClientListen(i))
                              /\ WF_vars(ClientSend(i))

FairSpec == Spec /\ Fairness
-----------------------------------------------------------------------------
(* What holds of the message layer *)

Round == 0 .. Rounds
Waiting(i) == cpc[i] \in {"enter", "waiting"}

\* Every variable has its type.  A stored message is a round number, None
\* before the first.
TypeOK ==
  /\ mpc \in {"accept", "enter", "waiting", "reset", "collect", "clear",
              "put", "move", "flag", "done", "dead"}
  /\ mi \in Ids /\ mround \in Round /\ hidden \subseteq Ids
  /\ condition \in Nat /\ byteall \in Nat
  /\ getlist \in [Ids -> Round] /\ sendlist \in [Ids -> Round]
  /\ sendflaglist \in [Ids -> BOOLEAN]
  /\ lpc \in [Ids -> {"off", "read", "lock", "put", "load", "store"}]
  /\ ldata \in [Ids -> Round] /\ ltmp \in [Ids -> Nat]
  /\ spc \in [Ids -> {"off", "dead", "poll", "write", "count", "reset"}]
  /\ toClient \in [Ids -> Seq(Round)] /\ toServer \in [Ids -> Seq(Round)]
  /\ cpc \in [Ids -> {"put", "flag", "enter", "waiting", "reset", "read", "done"}]
  /\ cround \in [Ids -> Round] /\ senddata \in [Ids -> Round]
  /\ send_flag \in [Ids -> BOOLEAN]
  /\ getdata \in [Ids -> Round] /\ recive_flag \in [Ids -> BOOLEAN]
  /\ rpc \in [Ids -> {"read", "notify"}]
  /\ wpc \in [Ids -> {"poll", "write", "reset"}]

\* A main program only ever acts on the message of its own round: the client
\* on the master's answer to what it sent last, the master on every client's
\* answer to what it posted last.  (Both flags, and condition, are reset
\* outside the lock and no message carries a number.)
RoundAgreement ==
  /\ \A i \in Ids : cpc[i] = "read" => getdata[i] = cround[i]
  /\ mpc = "collect" => \A i \in Ids : getlist[i] = mround + 1

\* While the main thread uses condition and getlist without the lock
\* (condition = 0, the get(i) loop, clear()), every listener is blocked in
\* its read and nothing is on its way to one.
UnlockedAccessIsQuiet ==
  mpc \in {"reset", "collect", "clear"} =>
    \A i \in Ids : lpc[i] = "read" /\ toServer[i] = <<>> /\ Waiting(i)

\* A connection carries at most one message, of both directions together.
OneInFlight == \A i \in Ids : Len(toClient[i]) + Len(toServer[i]) <= 1

\* No thread is ended by an exception but for two reasons: an id past the end
\* of sendflaglist ends its sender and, at its flag, the master's main thread;
\* and a sender may meet the table of sendlist while the post for a later
\* client makes it move (Torn).  No getlist entry is ever missing.
Torn(i) == \E k \in Resizing : i < k /\ k <= numofclient
NobodyElseDies ==
  /\ mpc = "dead" => numofclient >= Slots
  /\ \A i \in Ids : spc[i] = "dead" => i >= Slots \/ Torn(i)

\* What is left of it for few clients (FewClientsLive).
NobodyDies == mpc # "dead" /\ \A i \in Ids : spc[i] # "dead"

\* Each connection has its own sendData "to avoid thread conflicts"
\* (Server.java:39): what the master posts to one client is no danger to the
\* sender of another.
NoThreadConflict == \A i \in Ids : i < Slots => spc[i] # "dead"

\* A message that a main program has not used yet is never overwritten: an
\* entry of getlist only changes from empty or in clear(), getdata only while
\* its client is waiting and has no message.
NoOverwrite ==
  [][\A i \in Ids :
       /\ getlist'[i] # getlist[i] => getlist[i] = None \/ mpc = "clear"
       /\ getdata'[i] # getdata[i] => Waiting(i) /\ ~recive_flag[i]]_vars

\* The message layer implements rounds in lockstep.
Lockstep == INSTANCE LockstepRounds WITH Client <- Ids
ImplementsLockstep == Lockstep!Spec

\* The master's message of this round to i is neither pending with its
\* sender, nor on the wire, nor with client i: its flag was cleared by the
\* sender that was still finishing the round before (Server.java:973).
Posted(i) == mpc \notin {"put", "move", "flag", "dead"} \/ i < mi
PostLostAtMaster(i) ==
  /\ mround > 0 /\ Posted(i) /\ cround[i] = mround
  /\ Waiting(i) /\ ~recive_flag[i] /\ rpc[i] = "read" /\ toClient[i] = <<>>
  /\ spc[i] \in {"count", "reset"} \/ ~sendflaglist[i]

\* The same for the message of client i (Client.java:725).
PostLostAtClient(i) ==
  /\ cround[i] = mround + 1 /\ Waiting(i) /\ getlist[i] = None
  /\ lpc[i] \in {"off", "read"} /\ toServer[i] = <<>>
  /\ wpc[i] = "reset" \/ ~send_flag[i]

\* Every round completes and all main programs end, unless a post was lost or
\* a sender has met a moving table: the two flag races and the resize are the
\* only ways the session can hang.
AllDone == mpc = "done" /\ \A i \in Ids : cpc[i] = "done"
EndsUnlessPostLost ==
  <>(AllDone \/ \E i \in Ids : \/ PostLostAtMaster(i) \/ PostLostAtClient(i)
                              \/ spc[i] = "dead")

\* Setting a flag gets the message sent ("set the send signal to true, start
\* sending", Server.java:134): no post is ever lost at the master.
MasterPostIsSent == \A i \in Ids : ~PostLostAtMaster(i)

-----------------------------------------------------------------------------
(***************************************************************************)
(* The inductive invariant of MasterClientLink.  Between the master and a  *)
(* client there is one token, the turn to act; IInv says at which of its   *)
(* places the token of each connection is, and that condition counts the   *)
(* tokens that have come back.  A post whose flag is cleared by a late     *)
(* sender takes its token out of the game (LostUp, LostDown).              *)
(***************************************************************************)

\* The sender of i has nothing left to write, even if it has yet to clear
\* its flag; the same for the client's sender.
SenderRested(i) == \/ spc[i] \in {"off", "dead", "count", "reset"}
                   \/ (spc[i] = "poll" /\ ~sendflaglist[i])
WriterRested(i) == wpc[i] = "reset" \/ (wpc[i] = "poll" /\ ~send_flag[i])

\* Nothing of connection i is on its way to the master's main thread ...
UpQuiet(i) == /\ WriterRested(i) /\ toServer[i] = <<>>
              /\ lpc[i] \in {"off", "read"} /\ getlist[i] = None
\* ... nor to the main thread of client i.
DownQuiet(i) == /\ SenderRested(i) /\ toClient[i] = <<>>
                /\ rpc[i] = "read" /\ ~recive_flag[i]

\* The places of the token after the master has taken i's answer.
Held(i) == ~Posted(i) /\ Waiting(i) /\ UpQuiet(i) /\ DownQuiet(i)
Pending(i) == /\ Posted(i) /\ Waiting(i) /\ UpQuiet(i)
              /\ spc[i] \in {"poll", "write"} /\ sendflaglist[i] /\ sendlist[i] = mround
              /\ toClient[i] = <<>> /\ rpc[i] = "read" /\ ~recive_flag[i]
OnWire(i) == /\ Posted(i) /\ Waiting(i) /\ UpQuiet(i) /\ SenderRested(i)
             /\ toClient[i] = <<mround>> /\ rpc[i] = "read" /\ ~recive_flag[i]
Received(i) == /\ Posted(i) /\ Waiting(i) /\ UpQuiet(i) /\ SenderRested(i)
               /\ toClient[i] = <<>> /\ rpc[i] = "notify" /\ ~recive_flag[i]
               /\ getdata[i] = mround
Signalled(i) == /\ Posted(i) /\ cpc[i] \in {"enter", "reset"} /\ UpQuiet(i)
                /\ SenderRested(i) /\ toClient[i] = <<>> /\ rpc[i] = "read"
                /\ recive_flag[i] /\ getdata[i] = mround
Reading(i) == /\ Posted(i) /\ cpc[i] = "read" /\ UpQuiet(i) /\ DownQuiet(i)
              /\ getdata[i] = mround
LostDown(i) == Posted(i) /\ Waiting(i) /\ UpQuiet(i) /\ DownQuiet(i)

\* The client has the master's last message, or has not sent its first.
Computing(i) == /\ Posted(i) /\ cpc[i] = "put" /\ UpQuiet(i) /\ DownQuiet(i)
                /\ mround < Rounds
Finished(i) == /\ Posted(i) /\ cpc[i] = "done" /\ UpQuiet(i) /\ DownQuiet(i)
               /\ mround = Rounds

\* The places of the token once the client has written its next message.
Written(i) == /\ Posted(i) /\ cpc[i] = "flag" /\ senddata[i] = mround + 1
              /\ UpQuiet(i) /\ DownQuiet(i)
UpPending(i) == /\ Posted(i) /\ Waiting(i) /\ DownQuiet(i)
                /\ wpc[i] \in {"poll", "write"} /\ send_flag[i] /\ senddata[i] = mround + 1
                /\ toServer[i] = <<>> /\ lpc[i] \in {"off", "read"} /\ getlist[i] = None
UpOnWire(i) == /\ Posted(i) /\ Waiting(i) /\ DownQuiet(i) /\ WriterRested(i)
               /\ toServer[i] = <<mround + 1>> /\ lpc[i] \in {"off", "read"}
               /\ getlist[i] = None
UpTaken(i) == /\ Posted(i) /\ Waiting(i) /\ DownQuiet(i) /\ WriterRested(i)
              /\ toServer[i] = <<>> /\ lpc[i] \in {"lock", "put"}
              /\ ldata[i] = mround + 1 /\ getlist[i] = None
UpStored(i) == /\ Posted(i) /\ Waiting(i) /\ DownQuiet(i) /\ WriterRested(i)
               /\ toServer[i] = <<>> /\ lpc[i] \in {"load", "store"}
               /\ getlist[i] = mround + 1
Counted(i) == /\ Posted(i) /\ Waiting(i) /\ DownQuiet(i) /\ WriterRested(i)
              /\ toServer[i] = <<>> /\ lpc[i] = "read" /\ getlist[i] = mround + 1
LostUp(i) == Posted(i) /\ Waiting(i) /\ UpQuiet(i) /\ DownQuiet(i)

\* cround tells the two halves apart.
Down(i) == Held(i) \/ Pending(i) \/ OnWire(i) \/ Received(i) \/ Signalled(i)
             \/ Reading(i) \/ LostDown(i)
Up(i) == Written(i) \/ UpPending(i) \/ UpOnWire(i) \/ UpTaken(i) \/ UpStored(i)
             \/ Counted(i) \/ LostUp(i)

TokenInv(i) == \/ cround[i] = mround /\ mround > 0 /\ Down(i)
               \/ cround[i] = mround /\ (Computing(i) \/ Finished(i))
               \/ cround[i] = mround + 1 /\ Up(i)

\* The main thread of the master: which rounds it can be in at each place.
MasterInv ==
  /\ mpc \in {"accept", "enter", "waiting", "reset", "collect", "clear"} => mround < Rounds
  /\ mpc \in {"put", "move", "flag", "dead"} => mround > 0
  /\ mpc = "accept" => mround = 0
  /\ mpc = "done" => mround = Rounds
  /\ mpc \in {"move", "flag"} => sendlist[mi] = mround
  /\ mpc = "dead" => mi >= Slots
  /\ IF mpc = "move" THEN mi \in Resizing /\ \A i \in hidden : i <= mi ELSE hidden = {}

\* A connection's threads run once it is accepted; a sender that is dead has no
\* slot or has met a moving table.
ThreadInv ==
  /\ \A i \in Ids : mpc = "accept" /\ i >= mi => lpc[i] = "off" /\ spc[i] = "off"
  /\ \A i \in Ids : spc[i] = "off" => mpc = "accept" /\ i >= mi
  /\ \A i \in Ids : spc[i] = "dead" => i >= Slots \/ Torn(i)
  /\ \A i \in Ids : spc[i] = "off" => ~sendflaglist[i]

\* At most one listener is inside the monitor.
MonitorInv ==
  \A i, j \in Ids : /\ lpc[i] \in {"put", "load", "store"}
                    /\ lpc[j] \in {"put", "load", "store"}
                    => i = j

\* condition is the number of answers counted since it was last set to 0.
CountedSet == {i \in Ids : cround[i] = mround + 1 /\ Counted(i)}
CountInv ==
  /\ mpc \in {"reset", "collect", "clear"} => CountedSet = Ids
  /\ mpc \in {"collect", "clear"} => condition = 0
  /\ mpc \notin {"collect", "clear"} => condition = Cardinality(CountedSet)
  /\ \A i \in Ids : lpc[i] = "store" => ltmp[i] = condition

\* The inductive invariant: every connection has exactly one token, where
\* TokenInv says, and condition counts those that have come back.
IInv == /\ TypeOK
        /\ \A i \in Ids : TokenInv(i)
        /\ MasterInv /\ ThreadInv /\ MonitorInv /\ CountInv
=============================================================================
