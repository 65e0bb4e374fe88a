----------------------- MODULE MasterClientLinkProofs -----------------------
(***************************************************************************)
(* The proof that IInv is an invariant of MasterClientLink, for any number *)
(* of clients, rounds and flag slots, and what follows from it.            *)
(***************************************************************************)
EXTENDS MasterClientLink, FiniteSetTheorems, TLAPS

\* Nothing that TokenInv(i) reads changes.
SameAt(i) ==
  /\ (Posted(i)' <=> Posted(i)) /\ mround' = mround
  /\ getlist'[i] = getlist[i] /\ sendlist'[i] = sendlist[i]
  /\ sendflaglist'[i] = sendflaglist[i]
  /\ lpc'[i] = lpc[i] /\ ldata'[i] = ldata[i] /\ spc'[i] = spc[i]
  /\ toClient'[i] = toClient[i] /\ toServer'[i] = toServer[i]
  /\ cpc'[i] = cpc[i] /\ cround'[i] = cround[i] /\ senddata'[i] = senddata[i]
  /\ send_flag'[i] = send_flag[i] /\ getdata'[i] = getdata[i]
  /\ recive_flag'[i] = recive_flag[i] /\ rpc'[i] = rpc[i] /\ wpc'[i] = wpc[i]

\* A connection that a step does not touch keeps its token where it is.
LEMMA TokenFrame ==
  ASSUME NEW i \in Ids, TokenInv(i), SameAt(i)
  PROVE  TokenInv(i)'
BY DEF TokenInv, Down, Up, Held, Pending, OnWire, Received, Signalled, Reading,
  LostDown, Computing, Finished, Written, UpPending, UpOnWire, UpTaken, UpStored,
  Counted, LostUp, UpQuiet, DownQuiet, SenderRested, WriterRested, Waiting, SameAt

\* The answer of i has been counted.
CountedAt(i) == cround[i] = mround + 1 /\ Counted(i)

\* An answer that was counted, and only such a one, still is.
LEMMA CountedFrame ==
  ASSUME NEW i \in Ids, SameAt(i)
  PROVE  CountedAt(i)' <=> CountedAt(i)
BY DEF CountedAt, Counted, DownQuiet, SenderRested, WriterRested, Waiting, SameAt

LEMMA InitIInv == Init => IInv
<1> SUFFICES ASSUME Init PROVE IInv
  OBVIOUS
<1> USE LinkAssumption
<1>1. TypeOK
  BY DEF Init, TypeOK, Ids, Round, None
<1>2. \A i \in Ids : TokenInv(i)
  BY DEF Init, TokenInv, Computing, UpQuiet, DownQuiet, SenderRested, WriterRested, Posted, Ids, None
<1>3. MasterInv /\ ThreadInv /\ MonitorInv
  BY DEF Init, MasterInv, ThreadInv, MonitorInv, Ids
<1>4. CountInv
  <2>1. CountedSet = {}
    BY DEF Init, CountedSet, Counted
  <2>2. Cardinality({}) = 0
    BY FS_EmptySet
  <2> QED BY <2>1, <2>2 DEF Init, CountInv
<1> QED BY <1>1, <1>2, <1>3, <1>4 DEF IInv
-----------------------------------------------------------------------------
(* One lemma for each thread: its steps preserve the invariant *)

\* The program counters and the wire tell where the token is.
LEMMA Where ==
  ASSUME TypeOK, NEW i \in Ids, TokenInv(i)
  PROVE  /\ toServer[i] # <<>> => UpOnWire(i) /\ cround[i] = mround + 1
         /\ lpc[i] \in {"lock", "put"} => UpTaken(i) /\ cround[i] = mround + 1
         /\ lpc[i] \in {"load", "store"} => UpStored(i) /\ cround[i] = mround + 1
         /\ wpc[i] = "write" \/ (wpc[i] = "poll" /\ send_flag[i])
              => UpPending(i) /\ cround[i] = mround + 1
         /\ spc[i] = "write" \/ (spc[i] = "poll" /\ sendflaglist[i])
              => Pending(i) /\ cround[i] = mround /\ mround > 0
         /\ toClient[i] # <<>> => OnWire(i) /\ cround[i] = mround /\ mround > 0
         /\ rpc[i] = "notify" => Received(i) /\ cround[i] = mround /\ mround > 0
         /\ recive_flag[i] => Signalled(i) /\ cround[i] = mround /\ mround > 0
         /\ cpc[i] = "reset" => Signalled(i) /\ cround[i] = mround /\ mround > 0
         /\ cpc[i] = "read" => Reading(i) /\ cround[i] = mround /\ mround > 0
         /\ cpc[i] = "put" => Computing(i) /\ cround[i] = mround
         /\ cpc[i] = "flag" => Written(i) /\ cround[i] = mround + 1
         /\ ~Posted(i) => Held(i) /\ cround[i] = mround /\ mround > 0
BY DEF TokenInv, Down, Up, Held, Pending, OnWire, Received, Signalled, Reading, LostDown,
  Computing, Finished, Written, UpPending, UpOnWire, UpTaken, UpStored, Counted, LostUp, UpQuiet, DownQuiet, SenderRested, WriterRested, Waiting, None

\* What a step of connection j's threads leaves alone: the master, condition
\* and every other connection.  It enters the monitor only if that is free.
ThreadFrame(j) ==
  /\ mpc' = mpc /\ mi' = mi /\ mround' = mround /\ hidden' = hidden
  /\ condition' = condition /\ sendlist' = sendlist
  /\ \A i \in Ids : i # j => SameAt(i) /\ ltmp'[i] = ltmp[i]
  /\ lpc'[j] = "off" <=> lpc[j] = "off"
  /\ spc'[j] = "off" <=> spc[j] = "off"
  /\ spc'[j] = "dead" => spc[j] = "dead" \/ Torn(j)
  /\ spc[j] = "off" => sendflaglist'[j] = sendflaglist[j]
  /\ lpc'[j] \in {"put", "load", "store"} =>
       LockFree \/ lpc[j] \in {"put", "load", "store"}
  /\ lpc'[j] = "store" =>
       ltmp'[j] = condition \/ (lpc[j] = "store" /\ ltmp'[j] = ltmp[j])

LEMMA ThreadStep ==
  ASSUME IInv, NEW j \in Ids, TypeOK', TokenInv(j)', ThreadFrame(j),
         CountedAt(j)' <=> CountedAt(j)
  PROVE  IInv'
<1> USE DEF ThreadFrame
<1>1. \A i \in Ids : TokenInv(i)'
  BY TokenFrame DEF IInv
<1>2. MasterInv'
  BY DEF IInv, MasterInv
<1>3. ThreadInv'
  BY DEF IInv, ThreadInv, SameAt
<1>4. MonitorInv'
  BY DEF IInv, MonitorInv, SameAt, LockFree
<1>5. CountedSet' = CountedSet
  BY CountedFrame DEF CountedSet, CountedAt, Ids
<1>6. CountInv'
  BY <1>5 DEF IInv, CountInv, SameAt
<1> QED BY <1>1, <1>2, <1>3, <1>4, <1>6 DEF IInv

-----------------------------------------------------------------------------
(* The threads of a connection: each step preserves the invariant *)

LEMMA ListenReadStep ==
  ASSUME IInv, NEW j \in Ids, ListenRead(j)
  PROVE  IInv'
<1> USE LinkAssumption DEF None, master, shared, client
<1>1. TypeOK /\ UpOnWire(j) /\ cround[j] = mround + 1
  BY Where DEF IInv, ListenRead
<1>2. Head(toServer[j]) = mround + 1 /\ Tail(toServer[j]) = <<>> /\ mround + 1 \in Round
  BY <1>1 DEF TypeOK, UpOnWire
<1>3. TypeOK'
  BY <1>1, <1>2 DEF TypeOK, ListenRead
<1>4. UpTaken(j)'
  BY <1>1, <1>2 DEF TypeOK, UpOnWire, UpTaken, ListenRead, Posted, Waiting,
    DownQuiet, SenderRested, WriterRested
<1>5. ~CountedAt(j) /\ ~CountedAt(j)'
  BY <1>1, <1>4 DEF CountedAt, Counted, UpOnWire, UpTaken
<1>6. TokenInv(j)'
  BY <1>1, <1>4 DEF TokenInv, Up, ListenRead
<1>7. ThreadFrame(j)
  BY <1>1 DEF TypeOK, ThreadFrame, SameAt, ListenRead, Posted
<1> QED BY <1>1, <1>3, <1>5, <1>6, <1>7, ThreadStep

LEMMA ListenLockStep ==
  ASSUME IInv, NEW j \in Ids, ListenLock(j)
  PROVE  IInv'
<1> USE LinkAssumption DEF None, master, wire, client
<1>1. TypeOK /\ UpTaken(j) /\ cround[j] = mround + 1
  BY Where DEF IInv, ListenLock
<1>2. TypeOK'
  <2>1. ldata[j] \in Nat
    BY <1>1 DEF TypeOK, Round
  <2> QED BY <1>1, <2>1 DEF TypeOK, ListenLock, Bytes
<1>3. UpTaken(j)'
  BY <1>1 DEF TypeOK, UpTaken, ListenLock, Posted, Waiting, DownQuiet, SenderRested, WriterRested
<1>4. ~CountedAt(j) /\ ~CountedAt(j)'
  BY <1>1, <1>3 DEF CountedAt, Counted, UpTaken
<1>5. TokenInv(j)'
  BY <1>1, <1>3 DEF TokenInv, Up, ListenLock
<1>6. ThreadFrame(j)
  BY <1>1 DEF TypeOK, ThreadFrame, SameAt, ListenLock, Posted
<1> QED BY <1>1, <1>2, <1>4, <1>5, <1>6, ThreadStep

LEMMA ListenPutStep ==
  ASSUME IInv, NEW j \in Ids, ListenPut(j)
  PROVE  IInv'
<1> USE LinkAssumption DEF None, master, wire, client
<1>1. TypeOK /\ UpTaken(j) /\ cround[j] = mround + 1
  BY Where DEF IInv, ListenPut
<1>2. TypeOK'
  BY <1>1 DEF TypeOK, ListenPut
<1>3. UpStored(j)'
  BY <1>1 DEF TypeOK, UpTaken, UpStored, ListenPut, Posted, Waiting, DownQuiet,
    SenderRested, WriterRested
<1>4. ~CountedAt(j) /\ ~CountedAt(j)'
  BY <1>1, <1>3 DEF CountedAt, Counted, UpTaken, UpStored
<1>5. TokenInv(j)'
  BY <1>1, <1>3 DEF TokenInv, Up, ListenPut
<1>6. ThreadFrame(j)
  BY <1>1 DEF TypeOK, ThreadFrame, SameAt, ListenPut, Posted
<1> QED BY <1>1, <1>2, <1>4, <1>5, <1>6, ThreadStep

LEMMA ListenLoadStep ==
  ASSUME IInv, NEW j \in Ids, ListenLoad(j)
  PROVE  IInv'
<1> USE LinkAssumption DEF None, master, shared, wire, client
<1>1. TypeOK /\ UpStored(j) /\ cround[j] = mround + 1
  BY Where DEF IInv, ListenLoad
<1>2. TypeOK'
  BY <1>1 DEF TypeOK, ListenLoad
<1>3. UpStored(j)'
  BY <1>1 DEF TypeOK, UpStored, ListenLoad, Posted, Waiting, DownQuiet, SenderRested, WriterRested
<1>4. ~CountedAt(j) /\ ~CountedAt(j)'
  BY <1>1, <1>3 DEF CountedAt, Counted, UpStored
<1>5. TokenInv(j)'
  BY <1>1, <1>3 DEF TokenInv, Up, ListenLoad
<1>6. ThreadFrame(j)
  BY <1>1 DEF TypeOK, ThreadFrame, SameAt, ListenLoad, Posted
<1> QED BY <1>1, <1>2, <1>4, <1>5, <1>6, ThreadStep

LEMMA SendPollStep ==
  ASSUME IInv, NEW j \in Ids, SendPoll(j)
  PROVE  IInv'
<1> USE LinkAssumption DEF None, master, shared, wire, client
<1>1. TypeOK /\ Pending(j) /\ cround[j] = mround /\ mround > 0
  BY Where DEF IInv, SendPoll
<1>2. TypeOK'
  BY <1>1 DEF TypeOK, SendPoll
<1>3. Pending(j)'
  BY <1>1 DEF TypeOK, Pending, SendPoll, Posted, Waiting, UpQuiet, DownQuiet, SenderRested,
    WriterRested
<1>4. ~CountedAt(j) /\ ~CountedAt(j)'
  BY <1>1, <1>3 DEF CountedAt, Counted, Pending, UpQuiet, Waiting, DownQuiet, SendPoll,
    TypeOK, Round
<1>5. TokenInv(j)'
  BY <1>1, <1>3 DEF TokenInv, Down, SendPoll, TypeOK
<1>6. ThreadFrame(j)
  BY <1>1 DEF TypeOK, ThreadFrame, SameAt, SendPoll, Posted
<1> QED BY <1>2, <1>4, <1>5, <1>6, ThreadStep

\* A message goes out, or its sender dies over a key that is not found: then
\* the post is lost.
LEMMA SendWriteStep ==
  ASSUME IInv, NEW j \in Ids, SendWrite(j)
  PROVE  IInv'
<1> USE LinkAssumption DEF None, master, shared, client
<1>1. TypeOK /\ Pending(j) /\ cround[j] = mround /\ mround > 0
  BY Where DEF IInv, SendWrite
<1>2. Append(toClient[j], sendlist[j]) = <<mround>>
  BY <1>1 DEF TypeOK, Pending
<1>3. TypeOK'
  <2>1. toClient' \in [Ids -> Seq(Round)]
    <3>1. <<mround>> \in Seq(Round) /\ toClient \in [Ids -> Seq(Round)]
      BY <1>1 DEF TypeOK
    <3>2. CASE j \in hidden
      BY <3>1, <3>2 DEF SendWrite
    <3>3. CASE j \notin hidden
      <4>1. toClient' = [toClient EXCEPT ![j] = <<mround>>]
        BY <1>2, <3>1, <3>3 DEF SendWrite
      <4> QED BY <3>1, <4>1
    <3> QED BY <3>2, <3>3
  <2>2. spc' \in [Ids -> {"off", "dead", "poll", "write", "count", "reset"}]
    BY <1>1 DEF TypeOK, SendWrite
  <2> QED BY <1>1, <2>1, <2>2 DEF TypeOK, SendWrite
<1>4. CASE j \notin hidden
  <2>1. OnWire(j)'
    BY <1>1, <1>2, <1>4 DEF TypeOK, Pending, OnWire, SendWrite, Posted, Waiting, UpQuiet,
      DownQuiet, SenderRested, WriterRested
  <2>2. ~CountedAt(j) /\ ~CountedAt(j)'
    BY <1>1, <1>2, <2>1 DEF CountedAt, Counted, Pending, OnWire, UpQuiet, Waiting, DownQuiet,
      SendWrite, TypeOK, Round
  <2>3. TokenInv(j)'
    BY <1>1, <1>2, <2>1 DEF TokenInv, Down, SendWrite, TypeOK
  <2>4. ThreadFrame(j)
    BY <1>1, <1>4 DEF TypeOK, ThreadFrame, SameAt, SendWrite, Posted
  <2> QED BY <1>3, <2>2, <2>3, <2>4, ThreadStep
<1>5. CASE j \in hidden
  <2>1. Torn(j)
    <3>1. mpc = "move" /\ mi \in Resizing /\ j <= mi
      BY <1>5 DEF IInv, MasterInv
    <3>2. j < mi /\ mi <= numofclient
      BY <1>1, <3>1 DEF TypeOK, Pending, Posted, Ids
    <3> QED BY <3>1, <3>2 DEF Torn
  <2>2. spc'[j] = "dead" /\ spc[j] = "write" /\ UNCHANGED <<toClient, toServer>>
    BY <1>1, <1>5 DEF TypeOK, SendWrite
  <2>3. LostDown(j)'
    BY <1>1, <2>2 DEF TypeOK, Pending, LostDown, SendWrite, Posted, Waiting, UpQuiet,
      DownQuiet, SenderRested, WriterRested
  <2>4. ~CountedAt(j) /\ ~CountedAt(j)'
    BY <1>1, <2>3 DEF CountedAt, SendWrite, TypeOK, Round
  <2>5. TokenInv(j)'
    BY <1>1, <2>3 DEF TokenInv, Down, SendWrite, TypeOK
  <2>6. ThreadFrame(j)
    BY <1>1, <1>5, <2>1, <2>2 DEF TypeOK, ThreadFrame, SameAt, SendWrite, Posted
  <2> QED BY <1>3, <2>4, <2>5, <2>6, ThreadStep
<1> QED BY <1>4, <1>5

LEMMA SendCountStep ==
  ASSUME IInv, NEW j \in Ids, SendCount(j)
  PROVE  IInv'
<1> USE LinkAssumption DEF None, master, wire, client
<1>1. TypeOK /\ TokenInv(j)
  BY DEF IInv
<1>2. TypeOK'
  <2>1. sendlist[j] \in Nat
    BY <1>1 DEF TypeOK, Round
  <2> QED BY <1>1, <2>1 DEF TypeOK, SendCount, Bytes
<1>3. TokenInv(j)'
  BY <1>1 DEF TypeOK, SendCount, TokenInv, Down, Up, Held, Pending, OnWire, Received,
    Signalled, Reading, LostDown, Computing, Finished, Written, UpPending, UpOnWire,
    UpTaken, UpStored, Counted, LostUp, Posted, Waiting, UpQuiet, DownQuiet, SenderRested,
    WriterRested
<1>4. CountedAt(j)' <=> CountedAt(j)
  BY <1>1 DEF TypeOK, SendCount, CountedAt, Counted, Posted, Waiting, UpQuiet, DownQuiet,
    SenderRested, WriterRested
<1>5. ThreadFrame(j)
  BY <1>1 DEF TypeOK, ThreadFrame, SameAt, SendCount, Posted
<1> QED BY <1>2, <1>3, <1>4, <1>5, ThreadStep

LEMMA SendResetStep ==
  ASSUME IInv, NEW j \in Ids, SendReset(j)
  PROVE  IInv'
<1> USE LinkAssumption DEF None, master, wire, client
<1>1. TypeOK /\ TokenInv(j)
  BY DEF IInv
<1>2. TypeOK'
  BY <1>1 DEF TypeOK, SendReset
<1>3. TokenInv(j)'
  BY <1>1 DEF TypeOK, SendReset, TokenInv, Down, Up, Held, Pending, OnWire, Received,
    Signalled, Reading, LostDown, Computing, Finished, Written, UpPending, UpOnWire,
    UpTaken, UpStored, Counted, LostUp, Posted, Waiting, UpQuiet, DownQuiet, SenderRested,
    WriterRested
<1>4. CountedAt(j)' <=> CountedAt(j)
  BY <1>1 DEF TypeOK, SendReset, CountedAt, Counted, Posted, Waiting, UpQuiet, DownQuiet,
    SenderRested, WriterRested
<1>5. ThreadFrame(j)
  BY <1>1 DEF TypeOK, ThreadFrame, SameAt, SendReset, Posted
<1> QED BY <1>2, <1>3, <1>4, <1>5, ThreadStep

LEMMA ClientPutStep ==
  ASSUME IInv, NEW j \in Ids, ClientPut(j)
  PROVE  IInv'
<1> USE LinkAssumption DEF None, master, shared, threads, wire
<1>1. TypeOK /\ Computing(j) /\ cround[j] = mround
  BY Where DEF IInv, ClientPut
<1>2. mround + 1 \in Round
  BY <1>1 DEF TypeOK, Computing, Round
<1>3. TypeOK'
  BY <1>1, <1>2 DEF TypeOK, ClientPut
<1>4. Written(j)'
  BY <1>1, <1>2 DEF TypeOK, Computing, Written, ClientPut, Posted, Waiting, UpQuiet,
    DownQuiet, SenderRested, WriterRested
<1>5. ~CountedAt(j) /\ ~CountedAt(j)'
  BY <1>1, <1>2, <1>4 DEF CountedAt, Counted, Computing, Written, UpQuiet, Waiting,
    DownQuiet, ClientPut, TypeOK, Round
<1>6. TokenInv(j)'
  BY <1>1, <1>2, <1>4 DEF TokenInv, Up, ClientPut, TypeOK
<1>7. ThreadFrame(j)
  BY <1>1 DEF TypeOK, ThreadFrame, SameAt, ClientPut, Posted
<1> QED BY <1>3, <1>5, <1>6, <1>7, ThreadStep

LEMMA ClientFlagStep ==
  ASSUME IInv, NEW j \in Ids, ClientFlag(j)
  PROVE  IInv'
<1> USE LinkAssumption DEF None, master, shared, threads, wire
<1>1. TypeOK /\ Written(j) /\ cround[j] = mround + 1
  BY Where DEF IInv, ClientFlag
<1>2. TypeOK'
  BY <1>1 DEF TypeOK, ClientFlag
<1>3. UpPending(j)' \/ LostUp(j)'
  BY <1>1 DEF TypeOK, Written, UpPending, LostUp, ClientFlag, Posted, Waiting, UpQuiet,
    DownQuiet, SenderRested, WriterRested
<1>4. ~CountedAt(j) /\ ~CountedAt(j)'
  BY <1>1, <1>3 DEF CountedAt, Counted, Written, UpPending, LostUp, UpQuiet, Waiting,
    DownQuiet, ClientFlag, TypeOK, Round
<1>5. TokenInv(j)'
  BY <1>1, <1>3 DEF TokenInv, Up, ClientFlag, TypeOK
<1>6. ThreadFrame(j)
  BY <1>1 DEF TypeOK, ThreadFrame, SameAt, ClientFlag, Posted
<1> QED BY <1>2, <1>4, <1>5, <1>6, ThreadStep

LEMMA ClientWaitStep ==
  ASSUME IInv, NEW j \in Ids, ClientWait(j)
  PROVE  IInv'
<1> USE LinkAssumption DEF None, master, shared, threads, wire
<1>1. TypeOK /\ TokenInv(j)
  BY DEF IInv
<1>2. TypeOK'
  BY <1>1 DEF TypeOK, ClientWait
<1>3. TokenInv(j)'
  BY <1>1 DEF TypeOK, ClientWait, TokenInv, Down, Up, Held, Pending, OnWire, Received,
    Signalled, Reading, LostDown, Computing, Finished, Written, UpPending, UpOnWire,
    UpTaken, UpStored, Counted, LostUp, Posted, Waiting, UpQuiet, DownQuiet, SenderRested,
    WriterRested
<1>4. CountedAt(j)' <=> CountedAt(j)
  BY <1>1 DEF TypeOK, ClientWait, CountedAt, Counted, Posted, Waiting, UpQuiet, DownQuiet,
    SenderRested, WriterRested
<1>5. ThreadFrame(j)
  BY <1>1 DEF TypeOK, ThreadFrame, SameAt, ClientWait, Posted
<1> QED BY <1>2, <1>3, <1>4, <1>5, ThreadStep

LEMMA ClientResetStep ==
  ASSUME IInv, NEW j \in Ids, ClientReset(j)
  PROVE  IInv'
<1> USE LinkAssumption DEF None, master, shared, threads, wire
<1>1. TypeOK /\ Signalled(j) /\ cround[j] = mround /\ mround > 0
  BY Where DEF IInv, ClientReset
<1>2. TypeOK'
  BY <1>1 DEF TypeOK, ClientReset
<1>3. Reading(j)'
  BY <1>1 DEF TypeOK, Signalled, Reading, ClientReset, Posted, Waiting, UpQuiet, DownQuiet,
    SenderRested, WriterRested
<1>4. ~CountedAt(j) /\ ~CountedAt(j)'
  BY <1>1, <1>3 DEF CountedAt, Counted, Signalled, Reading, UpQuiet, Waiting, DownQuiet,
    ClientReset, TypeOK, Round
<1>5. TokenInv(j)'
  BY <1>1, <1>3 DEF TokenInv, Down, ClientReset, TypeOK
<1>6. ThreadFrame(j)
  BY <1>1 DEF TypeOK, ThreadFrame, SameAt, ClientReset, Posted
<1> QED BY <1>2, <1>4, <1>5, <1>6, ThreadStep

LEMMA ClientReadStep ==
  ASSUME IInv, NEW j \in Ids, ClientRead(j)
  PROVE  IInv'
<1> USE LinkAssumption DEF None, master, shared, threads, wire
<1>1. TypeOK /\ Reading(j) /\ cround[j] = mround /\ mround > 0
  BY Where DEF IInv, ClientRead
<1>2. mround \in 0 .. Rounds
  BY <1>1 DEF TypeOK, Round
<1>3. TypeOK'
  BY <1>1, <1>2 DEF TypeOK, ClientRead
<1>4. Computing(j)' \/ Finished(j)'
  BY <1>1, <1>2 DEF TypeOK, Reading, Computing, Finished, ClientRead, Posted, Waiting,
    UpQuiet, DownQuiet, SenderRested, WriterRested
<1>5. ~CountedAt(j) /\ ~CountedAt(j)'
  BY <1>1, <1>2, <1>4 DEF CountedAt, Counted, Reading, Computing, Finished, UpQuiet,
    Waiting, DownQuiet, ClientRead, TypeOK, Round
<1>6. TokenInv(j)'
  BY <1>1, <1>2, <1>4 DEF TokenInv, ClientRead, TypeOK
<1>7. ThreadFrame(j)
  BY <1>1 DEF TypeOK, ThreadFrame, SameAt, ClientRead, Posted
<1> QED BY <1>3, <1>5, <1>6, <1>7, ThreadStep

LEMMA ClientListenReadStep ==
  ASSUME IInv, NEW j \in Ids, ClientListenRead(j)
  PROVE  IInv'
<1> USE LinkAssumption DEF None, master, shared, threads
<1>1. TypeOK /\ OnWire(j) /\ cround[j] = mround /\ mround > 0
  BY Where DEF IInv, ClientListenRead
<1>2. Head(toClient[j]) = mround /\ Tail(toClient[j]) = <<>>
  BY <1>1 DEF TypeOK, OnWire
<1>3. TypeOK'
  BY <1>1, <1>2 DEF TypeOK, ClientListenRead
<1>4. Received(j)'
  BY <1>1, <1>2 DEF TypeOK, OnWire, Received, ClientListenRead, Posted, Waiting, UpQuiet,
    DownQuiet, SenderRested, WriterRested
<1>5. ~CountedAt(j) /\ ~CountedAt(j)'
  BY <1>1, <1>2, <1>4 DEF CountedAt, Counted, OnWire, Received, UpQuiet, Waiting,
    DownQuiet, ClientListenRead, TypeOK, Round
<1>6. TokenInv(j)'
  BY <1>1, <1>2, <1>4 DEF TokenInv, Down, ClientListenRead, TypeOK
<1>7. ThreadFrame(j)
  BY <1>1 DEF TypeOK, ThreadFrame, SameAt, ClientListenRead, Posted
<1> QED BY <1>3, <1>5, <1>6, <1>7, ThreadStep

LEMMA ClientListenNotifyStep ==
  ASSUME IInv, NEW j \in Ids, ClientListenNotify(j)
  PROVE  IInv'
<1> USE LinkAssumption DEF None, master, shared, threads, wire
<1>1. TypeOK /\ Received(j) /\ cround[j] = mround /\ mround > 0
  BY Where DEF IInv, ClientListenNotify
<1>2. TypeOK'
  BY <1>1 DEF TypeOK, ClientListenNotify
<1>3. Signalled(j)'
  BY <1>1 DEF TypeOK, Received, Signalled, ClientListenNotify, Posted, Waiting, UpQuiet,
    DownQuiet, SenderRested, WriterRested
<1>4. ~CountedAt(j) /\ ~CountedAt(j)'
  BY <1>1, <1>3 DEF CountedAt, Counted, Received, Signalled, UpQuiet, Waiting, DownQuiet,
    ClientListenNotify, TypeOK, Round
<1>5. TokenInv(j)'
  BY <1>1, <1>3 DEF TokenInv, Down, ClientListenNotify, TypeOK
<1>6. ThreadFrame(j)
  BY <1>1 DEF TypeOK, ThreadFrame, SameAt, ClientListenNotify, Posted
<1> QED BY <1>2, <1>4, <1>5, <1>6, ThreadStep

LEMMA ClientSendPollStep ==
  ASSUME IInv, NEW j \in Ids, ClientSendPoll(j)
  PROVE  IInv'
<1> USE LinkAssumption DEF None, master, shared, threads, wire
<1>1. TypeOK /\ UpPending(j) /\ cround[j] = mround + 1
  BY Where DEF IInv, ClientSendPoll
<1>2. TypeOK'
  BY <1>1 DEF TypeOK, ClientSendPoll
<1>3. UpPending(j)'
  BY <1>1 DEF TypeOK, UpPending, ClientSendPoll, Posted, Waiting, UpQuiet, DownQuiet,
    SenderRested, WriterRested
<1>4. ~CountedAt(j) /\ ~CountedAt(j)'
  BY <1>1, <1>3 DEF CountedAt, Counted, UpPending, UpQuiet, Waiting, DownQuiet,
    ClientSendPoll, TypeOK, Round
<1>5. TokenInv(j)'
  BY <1>1, <1>3 DEF TokenInv, Up, ClientSendPoll, TypeOK
<1>6. ThreadFrame(j)
  BY <1>1 DEF TypeOK, ThreadFrame, SameAt, ClientSendPoll, Posted
<1> QED BY <1>2, <1>4, <1>5, <1>6, ThreadStep

LEMMA ClientSendWriteStep ==
  ASSUME IInv, NEW j \in Ids, ClientSendWrite(j)
  PROVE  IInv'
<1> USE LinkAssumption DEF None, master, shared, threads
<1>1. TypeOK /\ UpPending(j) /\ cround[j] = mround + 1
  BY Where DEF IInv, ClientSendWrite
<1>2. Append(toServer[j], senddata[j]) = <<mround + 1>>
  BY <1>1 DEF TypeOK, UpPending
<1>3. TypeOK'
  BY <1>1, <1>2 DEF TypeOK, ClientSendWrite
<1>4. UpOnWire(j)'
  BY <1>1, <1>2 DEF TypeOK, UpPending, UpOnWire, ClientSendWrite, Posted, Waiting, UpQuiet,
    DownQuiet, SenderRested, WriterRested
<1>5. ~CountedAt(j) /\ ~CountedAt(j)'
  BY <1>1, <1>2, <1>4 DEF CountedAt, Counted, UpPending, UpOnWire, UpQuiet, Waiting,
    DownQuiet, ClientSendWrite, TypeOK, Round
<1>6. TokenInv(j)'
  BY <1>1, <1>2, <1>4 DEF TokenInv, Up, ClientSendWrite, TypeOK
<1>7. ThreadFrame(j)
  BY <1>1 DEF TypeOK, ThreadFrame, SameAt, ClientSendWrite, Posted
<1> QED BY <1>3, <1>5, <1>6, <1>7, ThreadStep

LEMMA ClientSendResetStep ==
  ASSUME IInv, NEW j \in Ids, ClientSendReset(j)
  PROVE  IInv'
<1> USE LinkAssumption DEF None, master, shared, threads, wire
<1>1. TypeOK /\ TokenInv(j)
  BY DEF IInv
<1>2. TypeOK'
  BY <1>1 DEF TypeOK, ClientSendReset
<1>3. TokenInv(j)'
  BY <1>1 DEF TypeOK, ClientSendReset, TokenInv, Down, Up, Held, Pending, OnWire, Received,
    Signalled, Reading, LostDown, Computing, Finished, Written, UpPending, UpOnWire,
    UpTaken, UpStored, Counted, LostUp, Posted, Waiting, UpQuiet, DownQuiet, SenderRested,
    WriterRested
<1>4. CountedAt(j)' <=> CountedAt(j)
  BY <1>1 DEF TypeOK, ClientSendReset, CountedAt, Counted, Posted, Waiting, UpQuiet,
    DownQuiet, SenderRested, WriterRested
<1>5. ThreadFrame(j)
  BY <1>1 DEF TypeOK, ThreadFrame, SameAt, ClientSendReset, Posted
<1> QED BY <1>2, <1>3, <1>4, <1>5, ThreadStep

\* The last step of a listener counts the answer of its connection.
LEMMA ListenStoreStep ==
  ASSUME IInv, NEW j \in Ids, ListenStore(j)
  PROVE  IInv'
<1> USE LinkAssumption DEF None, wire, client
<1>1. TypeOK /\ UpStored(j) /\ cround[j] = mround + 1
  BY Where DEF IInv, ListenStore
<1>2. ltmp[j] = condition /\ condition \in Nat /\ condition' = condition + 1
  BY <1>1 DEF IInv, CountInv, TypeOK, ListenStore
<1>3. TypeOK'
  BY <1>1, <1>2 DEF TypeOK, ListenStore
<1>4. j \notin CountedSet
  BY <1>1 DEF CountedSet, Counted, UpStored
<1>5. mpc \notin {"reset", "collect", "clear"}
  BY <1>4 DEF IInv, CountInv
<1>6. \A i \in Ids : Posted(i)' <=> Posted(i)
  BY <1>1 DEF Posted, ListenStore
<1>7. Counted(j)' /\ cround'[j] = mround' + 1
  BY <1>1, <1>6 DEF TypeOK, UpStored, Counted, ListenStore, Waiting, DownQuiet,
    SenderRested, WriterRested
<1>8. \A i \in Ids \ {j} : SameAt(i)
  BY <1>1, <1>6 DEF TypeOK, SameAt, ListenStore
<1>9. \A i \in Ids : TokenInv(i)'
  BY <1>7, <1>8, TokenFrame DEF IInv, TokenInv, Up
<1>10. MasterInv' /\ ThreadInv' /\ MonitorInv'
  BY <1>1 DEF IInv, TypeOK, MasterInv, ThreadInv, MonitorInv, ListenStore
<1>11. CountedSet' = CountedSet \cup {j}
  BY <1>7, <1>8, CountedFrame DEF CountedSet, CountedAt, Ids
<1>12. Cardinality(CountedSet \cup {j}) = Cardinality(CountedSet) + 1
  <2>1. IsFiniteSet(Ids) /\ CountedSet \in SUBSET Ids
    BY FS_Interval DEF CountedSet, Ids
  <2>2. IsFiniteSet(CountedSet)
    BY <2>1, FS_Subset
  <2> QED BY <1>4, <2>2, FS_AddElement
<1>13. \A i \in Ids : lpc'[i] # "store"
  BY <1>1 DEF IInv, MonitorInv, TypeOK, ListenStore
<1>14. CountInv'
  BY <1>2, <1>5, <1>11, <1>12, <1>13 DEF IInv, CountInv, ListenStore
<1> QED BY <1>3, <1>9, <1>10, <1>14 DEF IInv

-----------------------------------------------------------------------------
(* The master's main thread: each step preserves the invariant *)

\* A step that only moves the main thread keeps every token, and CountedSet.
LEMMA MasterFrame ==
  ASSUME IInv, \A i \in Ids : SameAt(i)
  PROVE  (\A i \in Ids : TokenInv(i)') /\ CountedSet' = CountedSet
<1>1. \A i \in Ids : TokenInv(i)'
  BY TokenFrame DEF IInv
<1>2. CountedSet' = CountedSet
  BY CountedFrame DEF CountedSet, CountedAt, Ids
<1> QED BY <1>1, <1>2

LEMMA IdsFacts ==
  /\ 1 \in Ids /\ Ids \subseteq Nat
  /\ \A i \in Ids : i >= 1 /\ i <= numofclient /\ (i < numofclient => i + 1 \in Ids)
BY LinkAssumption DEF Ids

\* accept() starts two threads whose connection has nothing for them yet.
LEMMA AcceptStep == ASSUME IInv, Accept PROVE IInv'
<1> USE LinkAssumption DEF None, shared, wire, client
<1>0. PICK m \in Ids : m = mi
  BY DEF IInv, TypeOK
<1>1. TypeOK /\ mi \in Ids /\ mi >= mi
  <2>1. TypeOK
    BY DEF IInv
  <2>2. m >= m
    BY DEF Ids
  <2> QED BY <1>0, <2>1, <2>2
<1>2. mround = 0 /\ lpc[m] = "off" /\ spc[m] = "off" /\ ~sendflaglist[m]
  BY <1>0, <1>1 DEF IInv, MasterInv, ThreadInv, Accept
<1>3. mi' \in Ids /\ (mpc' = "accept" => mi' = mi + 1) /\ mpc' \in {"accept", "enter"}
  BY <1>0, <1>1 DEF Ids, Accept
<1>4. TypeOK'
  BY <1>0, <1>1, <1>3 DEF TypeOK, Accept
<1>5. \A i \in Ids : Posted(i) /\ Posted(i)'
  BY <1>0, <1>3 DEF Posted, Accept
<1>6. ASSUME NEW i \in Ids, i # m PROVE SameAt(i) /\ ltmp'[i] = ltmp[i]
  BY <1>0, <1>1, <1>5, <1>6 DEF TypeOK, SameAt, Accept
<1>7. TokenInv(m)' /\ ~CountedAt(m) /\ ~CountedAt(m)'
  <2>1. TokenInv(m) /\ cround[m] \in Nat
    BY <1>0, <1>1 DEF IInv, TypeOK, Round
  <2>2. lpc'[m] = "read" /\ spc'[m] \in {"poll", "dead"}
    BY <1>0, <1>1 DEF TypeOK, Accept
  <2>3. getlist[m] = None
    BY <1>0, <1>1, <1>2, <2>1 DEF TokenInv, Down, Up, Held, Pending, OnWire, Received, Signalled, Reading,
      LostDown, Computing, Finished, Written, UpPending, UpOnWire, UpTaken, UpStored, Counted,
      LostUp, UpQuiet, DownQuiet, SenderRested, WriterRested, Waiting
  <2> QED
    BY <1>0, <1>1, <1>2, <1>5, <2>1, <2>2, <2>3 DEF Accept, CountedAt, TokenInv, Down, Up, Held, Pending, OnWire, Received, Signalled, Reading,
      LostDown, Computing, Finished, Written, UpPending, UpOnWire, UpTaken, UpStored, Counted,
      LostUp, UpQuiet, DownQuiet, SenderRested, WriterRested, Waiting
<1>8. \A i \in Ids : TokenInv(i)'
  BY <1>0, <1>6, <1>7, TokenFrame DEF IInv
<1>9. MasterInv' /\ MonitorInv'
  BY <1>0, <1>1, <1>2, <1>3 DEF IInv, TypeOK, MasterInv, MonitorInv, Accept
<1>10. ThreadInv'
  <2>1. \A i \in Ids : i # mi => lpc'[i] = lpc[i] /\ spc'[i] = spc[i]
    BY <1>1 DEF TypeOK, Accept
  <2>2. spc'[m] = IF m < Slots THEN "poll" ELSE "dead"
    BY <1>0, <1>1 DEF TypeOK, Accept
  <2>3. sendflaglist' = sendflaglist /\ mpc = "accept"
    BY DEF Accept
  <2>4. \A i \in Ids : mpc' = "accept" /\ i >= mi' => i # mi /\ i >= mi
    <3>1. \A i \in Ids : i \in Nat
      BY IdsFacts
    <3> QED BY <1>1, <1>3, <3>1
  <2>5. \A i \in Ids : mpc' = "accept" /\ i >= mi' => lpc'[i] = "off" /\ spc'[i] = "off"
    BY <2>1, <2>3, <2>4 DEF IInv, ThreadInv
  <2>6. \A i \in Ids : spc'[i] = "off" => mpc' = "accept" /\ i >= mi'
    <3>1. \A i \in Ids : i \in Nat /\ i <= numofclient /\ numofclient \in Nat /\ mi \in Nat
      BY <1>1, IdsFacts, LinkAssumption
    <3>2. \A i \in Ids : i # mi /\ i >= mi => mpc' = "accept" /\ i >= mi'
      BY <3>1 DEF Accept
    <3> QED BY <1>0, <2>1, <2>2, <3>2 DEF IInv, ThreadInv
  <2>7. \A i \in Ids : spc'[i] = "dead" => i >= Slots \/ Torn(i)
    <3>1. ~(m < Slots) => m >= Slots
      BY LinkAssumption, IdsFacts
    <3> QED BY <1>0, <2>1, <2>2, <3>1 DEF IInv, ThreadInv
  <2>8. \A i \in Ids : spc'[i] = "off" => ~sendflaglist'[i]
    BY <1>0, <1>2, <2>1, <2>3 DEF IInv, ThreadInv
  <2> QED BY <2>5, <2>6, <2>7, <2>8 DEF ThreadInv, Torn
<1>11. CountedSet' = CountedSet
  BY <1>0, <1>6, <1>7, CountedFrame DEF CountedSet, CountedAt, Ids
<1>12. CountInv'
  BY <1>0, <1>1, <1>3, <1>11 DEF IInv, TypeOK, CountInv, Accept
<1> QED BY <1>0, <1>4, <1>8, <1>9, <1>10, <1>12 DEF IInv

LEMMA MasterWaitStep == ASSUME IInv, MasterWait PROVE IInv'
<1> USE LinkAssumption DEF None, shared, threads, wire, client
<1>1. TypeOK /\ TypeOK'
  BY DEF IInv, TypeOK, MasterWait
<1>2. \A i \in Ids : SameAt(i)
  BY DEF SameAt, MasterWait, Posted
<1>3. condition >= numofclient => CountedSet = Ids
  <2>1. IsFiniteSet(Ids) /\ Cardinality(Ids) = numofclient
    BY FS_Interval DEF Ids
  <2>2. CountedSet \subseteq Ids
    BY DEF CountedSet
  <2>3. condition = Cardinality(CountedSet)
    BY DEF IInv, CountInv, MasterWait
  <2> QED BY <2>1, <2>2, <2>3, FS_Subset, FS_CardinalityType
<1>4. MasterInv' /\ ThreadInv' /\ MonitorInv'
  BY DEF IInv, MasterInv, ThreadInv, MonitorInv, MasterWait
<1>5. CountInv'
  BY <1>1, <1>2, <1>3, MasterFrame DEF IInv, TypeOK, CountInv, MasterWait
<1> QED BY <1>1, <1>2, <1>4, <1>5, MasterFrame DEF IInv

LEMMA MasterResetStep == ASSUME IInv, MasterReset PROVE IInv'
<1> USE LinkAssumption DEF None, threads, wire, client
<1>1. TypeOK /\ TypeOK'
  BY IdsFacts DEF IInv, TypeOK, MasterReset
<1>2. \A i \in Ids : SameAt(i)
  BY DEF SameAt, MasterReset, Posted
<1>3. \A i \in Ids : lpc[i] = "read"
  BY DEF IInv, CountInv, CountedSet, Counted, MasterReset
<1>4. MasterInv' /\ ThreadInv' /\ MonitorInv'
  BY DEF IInv, MasterInv, ThreadInv, MonitorInv, MasterReset
<1>5. CountInv'
  BY <1>2, <1>3, MasterFrame DEF IInv, CountInv, MasterReset
<1> QED BY <1>1, <1>2, <1>4, <1>5, MasterFrame DEF IInv

\* The getlist entries are all there, so this never ends in an exception.
LEMMA MasterCollectStep == ASSUME IInv, MasterCollect PROVE IInv'
<1> USE LinkAssumption DEF None, shared, threads, wire, client
<1>1. TypeOK /\ mi \in Ids
  BY DEF IInv, TypeOK
<1>2. getlist[mi] # None
  BY <1>1 DEF IInv, TypeOK, Round, CountInv, CountedSet, Counted, MasterCollect
<1>3. mi' \in Ids /\ mpc' \in {"collect", "clear"}
  BY <1>1, <1>2 DEF Ids, MasterCollect
<1>4. TypeOK'
  BY <1>1, <1>3 DEF TypeOK, MasterCollect
<1>5. \A i \in Ids : SameAt(i)
  BY <1>3 DEF SameAt, MasterCollect, Posted
<1>6. MasterInv' /\ ThreadInv' /\ MonitorInv'
  BY <1>3 DEF IInv, MasterInv, ThreadInv, MonitorInv, MasterCollect
<1>7. CountInv'
  BY <1>3, <1>5, MasterFrame DEF IInv, CountInv, MasterCollect
<1> QED BY <1>4, <1>5, <1>6, <1>7, MasterFrame DEF IInv

\* clear() takes back all tokens at once and opens the master's half.
LEMMA MasterClearStep == ASSUME IInv, MasterClear PROVE IInv'
<1> USE LinkAssumption DEF None, threads, wire, client
<1>1. TypeOK /\ mround + 1 \in Round /\ mround + 1 > 0
  <2>1. TypeOK /\ mround < Rounds
    BY DEF IInv, MasterInv, MasterClear
  <2>2. mround \in Nat
    BY <2>1 DEF TypeOK, Round
  <2>3. mround + 1 \in Round /\ mround + 1 > 0
    BY <2>1, <2>2 DEF Round
  <2> QED BY <2>1, <2>3
<1>2. TypeOK'
  <2>1. 0 \in Round
    BY DEF Round
  <2> QED BY <1>1, <2>1, IdsFacts DEF TypeOK, MasterClear
<1>3. ASSUME NEW i \in Ids
      PROVE  lpc[i] = "read" /\ cround'[i] = mround' /\ Held(i)'
  <2>1. cround[i] = mround + 1 /\ Counted(i)
    BY DEF IInv, CountInv, CountedSet, MasterClear
  <2> QED
    BY <1>1, <2>1 DEF TypeOK, Ids, Counted, Held, MasterClear, Posted, Waiting, UpQuiet, DownQuiet,
      SenderRested, WriterRested
<1>4. \A i \in Ids : TokenInv(i)'
  BY <1>1, <1>3 DEF TokenInv, Down, MasterClear
<1>5. MasterInv' /\ ThreadInv' /\ MonitorInv'
  BY <1>1, <1>3 DEF IInv, MasterInv, ThreadInv, MonitorInv, MasterClear
<1>6. CountedSet' = {}
  BY <1>1, <1>3 DEF CountedSet, TypeOK, Round, MasterClear
<1>7. Cardinality({}) = 0
  BY FS_EmptySet
<1>8. CountInv'
  BY <1>3, <1>6, <1>7 DEF IInv, CountInv, MasterClear
<1> QED BY <1>2, <1>4, <1>5, <1>8 DEF IInv

LEMMA MasterPutStep == ASSUME IInv, MasterPut PROVE IInv'
<1> USE LinkAssumption DEF None, threads, wire, client
<1>0. PICK m \in Ids : m = mi
  BY DEF IInv, TypeOK
<1>1. TypeOK /\ mi \in Ids /\ ~Posted(m)
  <2>1. TypeOK
    BY DEF IInv
  <2>2. ~Posted(m)
    BY <1>0, IdsFacts DEF Posted, MasterPut
  <2> QED BY <1>0, <2>1, <2>2
<1>2. TypeOK'
  <2>1. 1 .. mi \subseteq Ids
    BY <1>0 DEF Ids
  <2>2. hidden' \subseteq Ids /\ mpc' \in {"move", "flag"}
    BY <1>1, <2>1 DEF TypeOK, MasterPut
  <2>3. sendlist' \in [Ids -> Round]
    BY <1>1 DEF TypeOK, MasterPut
  <2> QED BY <1>1, <2>2, <2>3 DEF TypeOK, MasterPut
<1>3. \A i \in Ids : Posted(i)' <=> Posted(i)
  BY <1>0 DEF Posted, MasterPut
<1>4. ASSUME NEW i \in Ids, i # m PROVE SameAt(i)
  BY <1>0, <1>1, <1>3, <1>4 DEF TypeOK, SameAt, MasterPut
<1>5. TokenInv(m)' /\ ~CountedAt(m) /\ ~CountedAt(m)'
  <2>1. Held(m) /\ cround[m] = mround /\ mround > 0
    BY <1>0, <1>1, Where DEF IInv
  <2>2. Held(m)'
    BY <1>0, <1>1, <1>3, <2>1 DEF TypeOK, Held, MasterPut, Waiting, UpQuiet, DownQuiet, SenderRested, WriterRested
  <2> QED BY <1>1, <2>1, <2>2 DEF TokenInv, Down, Held, CountedAt, Counted, MasterPut
<1>6. \A i \in Ids : TokenInv(i)'
  BY <1>0, <1>4, <1>5, TokenFrame DEF IInv
<1>7. MasterInv'
  <2>1. mround > 0 /\ hidden = {} /\ sendlist'[m] = mround
    BY <1>0, <1>1 DEF IInv, TypeOK, MasterInv, MasterPut
  <2>2. mpc' \in {"move", "flag"} /\ mi' = m /\ mround' = mround
    BY <1>0 DEF MasterPut
  <2>3. \A i \in 1 .. m : i <= m
    BY DEF Ids
  <2>4. IF mpc' = "move" THEN m \in Resizing /\ \A i \in hidden' : i <= m ELSE hidden' = {}
    BY <1>0, <2>1, <2>3 DEF MasterPut
  <2> QED BY <2>1, <2>2, <2>4 DEF MasterInv
<1>10. ThreadInv' /\ MonitorInv'
  BY <1>0, <1>1 DEF IInv, TypeOK, ThreadInv, MonitorInv, MasterPut, Torn
<1>8. CountedSet' = CountedSet
  BY <1>0, <1>4, <1>5, CountedFrame DEF CountedSet, CountedAt, Ids
<1>9. CountInv'
  BY <1>0, <1>8 DEF IInv, CountInv, MasterPut
<1> QED BY <1>0, <1>2, <1>6, <1>7, <1>9, <1>10 DEF IInv

LEMMA MasterMoveStep == ASSUME IInv, MasterMove PROVE IInv'
<1> USE LinkAssumption DEF None, shared, threads, wire, client
<1>1. TypeOK /\ TypeOK'
  BY DEF IInv, TypeOK, MasterMove
<1>2. \A i \in Ids : SameAt(i)
  BY DEF SameAt, MasterMove, Posted
<1>3. MasterInv'
  BY DEF IInv, MasterInv, MasterMove
<1>4. ThreadInv' /\ MonitorInv'
  BY DEF IInv, ThreadInv, MonitorInv, MasterMove, Torn
<1>5. CountInv'
  BY <1>2, MasterFrame DEF IInv, CountInv, MasterMove
<1> QED BY <1>1, <1>2, <1>3, <1>4, <1>5, MasterFrame DEF IInv

\* The post is pending if its sender polls, and lost if the sender still has
\* the flag of the round before to clear.
LEMMA MasterFlagStep == ASSUME IInv, MasterFlag PROVE IInv'
<1> USE LinkAssumption DEF None, threads, wire, client
<1>0. PICK m \in Ids : m = mi
  BY DEF IInv, TypeOK
<1>1. /\ TypeOK /\ mi \in Ids /\ ~Posted(m) /\ sendlist[m] = mround
      /\ mround \in Nat /\ mround > 0 /\ mround <= Rounds
  <2>1. TypeOK /\ mround > 0 /\ sendlist[m] = mround
    BY <1>0 DEF IInv, MasterInv, MasterFlag
  <2>2. mround \in Nat /\ mround <= Rounds
    BY <2>1 DEF TypeOK, Round
  <2>3. ~Posted(m)
    BY <1>0, IdsFacts DEF Posted, MasterFlag
  <2> QED BY <1>0, <2>1, <2>2, <2>3
<1>2. Held(m) /\ cround[m] = mround
  BY <1>0, <1>1, Where DEF IInv
<1>3. CASE mi >= Slots
  <2>1. TypeOK'
    BY <1>0, <1>1, <1>3 DEF TypeOK, MasterFlag
  <2>2. \A i \in Ids : SameAt(i)
    BY <1>0, <1>3 DEF SameAt, Posted, MasterFlag
  <2>3. MasterInv' /\ ThreadInv' /\ MonitorInv'
    BY <1>0, <1>1, <1>3 DEF IInv, MasterInv, ThreadInv, MonitorInv, MasterFlag
  <2>4. CountInv'
    BY <1>0, <1>3, <2>2, MasterFrame DEF IInv, CountInv, MasterFlag
  <2> QED BY <2>1, <2>2, <2>3, <2>4, MasterFrame DEF IInv
<1>4. CASE mi < Slots
  <2>1. mi' \in Ids /\ mpc' \in {"put", "done", "enter"}
    <3>1. mi \in Nat /\ ~(mi >= Slots)
      BY <1>1, <1>4, IdsFacts
    <3>2. CASE mi < numofclient
      <4>1. mi' = mi + 1 /\ mpc' = "put"
        BY <3>1, <3>2 DEF MasterFlag
      <4> QED BY <1>1, <3>2, <4>1, IdsFacts
    <3>3. CASE ~(mi < numofclient)
      <4>1. mi' = 1 /\ mpc' \in {"done", "enter"}
        BY <3>1, <3>3 DEF MasterFlag
      <4> QED BY <4>1, IdsFacts
    <3> QED BY <3>2, <3>3
  <2>2. TypeOK'
    BY <1>0, <1>1, <1>4, <2>1 DEF TypeOK, MasterFlag
  <2>3. Posted(m)' /\ \A i \in Ids : i # m => (Posted(i)' <=> Posted(i))
    BY <1>0, <1>1, <1>4, <2>1 DEF Posted, MasterFlag, Ids
  <2>4. ASSUME NEW i \in Ids, i # m PROVE SameAt(i)
    BY <1>0, <1>1, <1>4, <2>3, <2>4 DEF TypeOK, SameAt, MasterFlag
  <2>5. spc[m] \in {"poll", "count", "reset", "dead"}
    BY <1>0, <1>1, <1>2, <1>4 DEF IInv, TypeOK, ThreadInv, Held, DownQuiet, SenderRested, MasterFlag, Ids
  <2>6. Pending(m)' \/ LostDown(m)'
    BY <1>0, <1>1, <1>2, <1>4, <2>3, <2>5 DEF TypeOK, Held, Pending, LostDown, MasterFlag,
      Waiting, UpQuiet, DownQuiet, SenderRested, WriterRested
  <2>7. TokenInv(m)' /\ ~CountedAt(m) /\ ~CountedAt(m)'
    <3>1. cround'[m] = mround' /\ mround' = mround
      BY <1>2 DEF MasterFlag
    <3> QED BY <1>1, <1>2, <2>6, <3>1 DEF TokenInv, Down, CountedAt
  <2>8. \A i \in Ids : TokenInv(i)'
    BY <1>0, <2>4, <2>7, TokenFrame DEF IInv
  <2>9. MasterInv'
    BY <1>0, <1>1, <1>4 DEF IInv, MasterInv, MasterFlag
  <2>10. ThreadInv' /\ MonitorInv'
    <3>1. mpc = "flag" /\ mpc' # "accept" /\ lpc' = lpc /\ spc' = spc
      BY <2>1 DEF MasterFlag
    <3>2. \A i \in Ids : i # m => sendflaglist'[i] = sendflaglist[i]
      BY <1>0, <1>1, <1>4 DEF TypeOK, MasterFlag
    <3> QED BY <2>5, <3>1, <3>2 DEF IInv, ThreadInv, MonitorInv, Torn
  <2>11. CountedSet' = CountedSet
    BY <1>0, <2>4, <2>7, CountedFrame DEF CountedSet, CountedAt, Ids
  <2>12. CountInv'
    BY <1>0, <1>4, <2>1, <2>11 DEF IInv, CountInv, MasterFlag
  <2> QED BY <2>2, <2>8, <2>9, <2>10, <2>12 DEF IInv
<1> QED BY <1>0, <1>1, <1>3, <1>4 DEF Ids

-----------------------------------------------------------------------------
(* The invariant, and what it gives *)

LEMMA NextIInv == IInv /\ [Next]_vars => IInv'
<1> SUFFICES ASSUME IInv, [Next]_vars PROVE IInv'
  OBVIOUS
<1>1. CASE MasterMain
  BY <1>1, AcceptStep, MasterWaitStep, MasterResetStep, MasterCollectStep,
    MasterClearStep, MasterPutStep, MasterMoveStep, MasterFlagStep DEF MasterMain
<1>2. ASSUME NEW i \in Ids, ServerListen(i) PROVE IInv'
  BY <1>2, ListenReadStep, ListenLockStep, ListenPutStep, ListenLoadStep,
    ListenStoreStep DEF ServerListen
<1>3. ASSUME NEW i \in Ids, ServerSend(i) PROVE IInv'
  BY <1>3, SendPollStep, SendWriteStep, SendCountStep, SendResetStep DEF ServerSend
<1>4. ASSUME NEW i \in Ids, ClientMain(i) PROVE IInv'
  BY <1>4, ClientPutStep, ClientFlagStep, ClientWaitStep, ClientResetStep,
    ClientReadStep DEF ClientMain
<1>5. ASSUME NEW i \in Ids, ClientListen(i) PROVE IInv'
  BY <1>5, ClientListenReadStep, ClientListenNotifyStep DEF ClientListen
<1>6. ASSUME NEW i \in Ids, ClientSend(i) PROVE IInv'
  BY <1>6, ClientSendPollStep, ClientSendWriteStep, ClientSendResetStep DEF ClientSend
<1>7. CASE UNCHANGED vars
  <2>1. (\A i \in Ids : SameAt(i)) /\ TypeOK'
    BY <1>7 DEF vars, SameAt, Posted, IInv, TypeOK
  <2>2. MasterInv' /\ ThreadInv' /\ MonitorInv'
    BY <1>7 DEF vars, IInv, MasterInv, ThreadInv, MonitorInv
  <2>3. CountInv'
    BY <1>7, <2>1, MasterFrame DEF vars, IInv, CountInv
  <2> QED BY <2>1, <2>2, <2>3, MasterFrame DEF IInv
<1> QED BY <1>1, <1>2, <1>3, <1>4, <1>5, <1>6, <1>7 DEF Next

\* The master, its connection threads and the clients keep exactly one token
\* on each connection, and condition counts those that have come back
\* (Server.java:67-77, 893-914, 950-975; Client.java:60-71, 681-725).
THEOREM TokenInvariance == Spec => []IInv
<1> QED BY InitIInv, NextIInv, PTL DEF Spec

\* Every variable of the message layer keeps its type.
THEOREM TypeCorrect == Spec => []TypeOK
<1>1. IInv => TypeOK
  BY DEF IInv
<1> QED BY <1>1, TokenInvariance, PTL

\* The main programs only act on messages of their own round, although no
\* message carries a number and the flags are reset outside the lock.
THEOREM Agreement == Spec => []RoundAgreement
<1>1. IInv => RoundAgreement
  <2> SUFFICES ASSUME IInv PROVE RoundAgreement
    OBVIOUS
  <2>1. \A i \in Ids : cpc[i] = "read" => getdata[i] = cround[i]
    BY Where DEF IInv, Reading
  <2>2. mpc = "collect" => \A i \in Ids : getlist[i] = mround + 1
    BY DEF IInv, CountInv, CountedSet, Counted
  <2> QED BY <2>1, <2>2 DEF RoundAgreement
<1> QED BY <1>1, TokenInvariance, PTL

\* No listener is active while the main thread of the master uses condition
\* and getlist without the lock (Server.java:79-84 and its like).
THEOREM QuietAccess == Spec => []UnlockedAccessIsQuiet
<1>1. IInv => UnlockedAccessIsQuiet
  BY DEF IInv, CountInv, CountedSet, Counted, UnlockedAccessIsQuiet
<1> QED BY <1>1, TokenInvariance, PTL

\* A connection never carries two messages at once.
THEOREM SingleMessage == Spec => []OneInFlight
<1>1. IInv => OneInFlight
  <2> SUFFICES ASSUME IInv, NEW i \in Ids
               PROVE  Len(toClient[i]) + Len(toServer[i]) <= 1
    BY DEF OneInFlight
  <2>0. Len(<<>>) = 0 /\ Len(<<mround>>) = 1 /\ Len(<<mround + 1>>) = 1
    OBVIOUS
  <2>1. CASE toServer[i] # <<>>
    <3>1. UpOnWire(i)
      BY <2>1, Where DEF IInv
    <3>2. toClient[i] = <<>> /\ toServer[i] = <<mround + 1>>
      BY <3>1 DEF UpOnWire, DownQuiet
    <3> QED BY <2>0, <3>2
  <2>2. CASE toClient[i] # <<>>
    <3>1. OnWire(i)
      BY <2>2, Where DEF IInv
    <3>2. toClient[i] = <<mround>> /\ toServer[i] = <<>>
      BY <3>1 DEF OnWire, UpQuiet
    <3> QED BY <2>0, <3>2
  <2>3. CASE toClient[i] = <<>> /\ toServer[i] = <<>>
    BY <2>0, <2>3
  <2> QED BY <2>1, <2>2, <2>3
<1> QED BY <1>1, TokenInvariance, PTL

\* An exception ends a thread of the master only over an id without a flag
\* slot, or, in a sender, over a key that has not been moved: never over a
\* missing answer (Server.java:83, 134, 135, 952, 955).
THEOREM OnlyTheseDie == Spec => []NobodyElseDies
<1>1. IInv => NobodyElseDies
  <2> SUFFICES ASSUME IInv PROVE NobodyElseDies
    OBVIOUS
  <2>1. mpc = "dead" => mi >= Slots /\ mi \in Nat /\ mi <= numofclient
    BY IdsFacts DEF IInv, TypeOK, MasterInv
  <2>2. mpc = "dead" => numofclient >= Slots
    BY <2>1, LinkAssumption
  <2> QED BY <2>2 DEF IInv, ThreadInv, NobodyElseDies
<1> QED BY <1>1, TokenInvariance, PTL

\* With fewer clients than flag slots, and than the first size at which a
\* HashMap moves (29 and 12 clients), no thread is ended by an exception.
THEOREM FewClientsLive ==
  ASSUME numofclient < Slots, \A k \in Resizing : numofclient < k
  PROVE  Spec => []NobodyDies
<1>1. NobodyElseDies => NobodyDies
  <2>1. \A i \in Ids : i \in Nat /\ i <= numofclient
    BY IdsFacts
  <2>2. \A i \in Ids : ~(i >= Slots) /\ ~Torn(i)
    BY <2>1, LinkAssumption DEF Torn
  <2>3. ~(numofclient >= Slots)
    BY LinkAssumption
  <2> QED BY <2>2, <2>3 DEF NobodyElseDies, NobodyDies
<1> QED BY <1>1, OnlyTheseDie, PTL

\* The message layer implements rounds in lockstep: what its threads do is a
\* client answering, the master closing a round, or invisible.
THEOREM Implementation == Spec => ImplementsLockstep
<1>1. Init => Lockstep!Init
  BY DEF Init, Lockstep!Init
<1>2. IInv /\ [Next]_vars => [Lockstep!Next]_(Lockstep!vars)
  <2> SUFFICES ASSUME IInv, [Next]_vars PROVE [Lockstep!Next]_(Lockstep!vars)
    OBVIOUS
  <2> USE DEF Lockstep!Next, Lockstep!vars, master, shared, threads, wire, client
  <2>1. CASE MasterMain
    <3>1. CASE MasterClear
      <4>1. \A i \in Ids : cround[i] = mround + 1
        BY <3>1 DEF MasterClear, IInv, CountInv, CountedSet
      <4> QED BY <3>1, <4>1 DEF MasterClear, Lockstep!CloseRound
    <3>2. CASE ~MasterClear
      BY <2>1, <3>2 DEF MasterMain, Accept, MasterWait, MasterReset, MasterCollect,
        MasterPut, MasterMove, MasterFlag
    <3> QED BY <3>1, <3>2
  <2>2. ASSUME NEW i \in Ids, ServerListen(i) \/ ServerSend(i)
        PROVE  UNCHANGED <<mround, cround>>
    BY <2>2 DEF ServerListen, ListenRead, ListenLock, ListenPut, ListenLoad, ListenStore,
      ServerSend, SendPoll, SendWrite, SendCount, SendReset
  <2>3. ASSUME NEW i \in Ids, ClientMain(i)
        PROVE  [Lockstep!Next]_(Lockstep!vars)
    <3>1. CASE ClientPut(i)
      <4>1. Computing(i) /\ cround[i] = mround
        BY <3>1, Where DEF IInv, ClientPut
      <4> QED BY <3>1, <4>1 DEF ClientPut, Computing, Lockstep!Answer
    <3>2. CASE ~ClientPut(i)
      BY <2>3, <3>2 DEF ClientMain, ClientFlag, ClientWait, ClientReset, ClientRead
    <3> QED BY <3>1, <3>2
  <2>4. ASSUME NEW i \in Ids, ClientListen(i) \/ ClientSend(i)
        PROVE  UNCHANGED <<mround, cround>>
    BY <2>4 DEF ClientListen, ClientListenRead, ClientListenNotify, ClientSend,
      ClientSendPoll, ClientSendWrite, ClientSendReset
  <2>5. CASE UNCHANGED vars
    BY <2>5 DEF vars
  <2> QED BY <2>1, <2>2, <2>3, <2>4, <2>5 DEF Next
<1> QED BY <1>1, <1>2, TokenInvariance, PTL DEF Spec, ImplementsLockstep, Lockstep!Spec

\* A message that is not used yet is never overwritten by the next one.
THEOREM Preservation == Spec => NoOverwrite
<1> DEFINE Keeps == \A i \in Ids :
      /\ getlist'[i] # getlist[i] => getlist[i] = None \/ mpc = "clear"
      /\ getdata'[i] # getdata[i] => Waiting(i) /\ ~recive_flag[i]
<1>1. IInv /\ [Next]_vars => [Keeps]_vars
  <2> SUFFICES ASSUME IInv, [Next]_vars PROVE Keeps
    OBVIOUS
  <2> USE DEF master, shared, threads, wire, client
  <2>1. CASE MasterMain
    BY <2>1 DEF MasterMain, Accept, MasterWait, MasterReset, MasterCollect,
        MasterClear, MasterPut, MasterMove, MasterFlag
  <2>2. ASSUME NEW j \in Ids, ServerListen(j)
        PROVE  Keeps
    <3>1. CASE ListenPut(j)
      <4>1. UpTaken(j)
        BY <3>1, Where DEF IInv, ListenPut
      <4> QED BY <3>1, <4>1 DEF ListenPut, UpTaken, IInv, TypeOK
    <3>2. CASE ~ListenPut(j)
      BY <2>2, <3>2 DEF ServerListen, ListenRead, ListenLock, ListenLoad, ListenStore
    <3> QED BY <3>1, <3>2
  <2>3. ASSUME NEW j \in Ids, ServerSend(j) \/ ClientMain(j) \/ ClientSend(j)
        PROVE  Keeps
    BY <2>3 DEF ServerSend, SendPoll, SendWrite, SendCount, SendReset, ClientMain,
      ClientPut, ClientFlag, ClientWait, ClientReset, ClientRead, ClientSend,
      ClientSendPoll, ClientSendWrite, ClientSendReset
  <2>4. ASSUME NEW j \in Ids, ClientListen(j)
        PROVE  Keeps
    <3>1. CASE ClientListenRead(j)
      <4>1. OnWire(j)
        BY <3>1, Where DEF IInv, ClientListenRead
      <4> QED BY <3>1, <4>1 DEF ClientListenRead, OnWire, IInv, TypeOK
    <3>2. CASE ClientListenNotify(j)
      BY <3>2 DEF ClientListenNotify
    <3> QED BY <2>4, <3>1, <3>2 DEF ClientListen
  <2>5. CASE UNCHANGED vars
    BY <2>5 DEF vars
  <2> QED BY <2>1, <2>2, <2>3, <2>4, <2>5 DEF Next
<1> QED BY <1>1, TokenInvariance, PTL DEF Spec, NoOverwrite
=============================================================================
