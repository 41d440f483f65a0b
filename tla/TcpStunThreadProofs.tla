------------------------- MODULE TcpStunThreadProofs -------------------------
(***************************************************************************)
(* TLAPS proofs about TcpStunThread, for any number of listening sockets   *)
(* and descriptors, any connection limit, sweep period and growth of the   *)
(* pool.                                                                   *)
(***************************************************************************)
EXTENDS TcpStunThread, FiniteSetTheorems, TLAPS

ConnState == {"free", "Receiving", "Transmitting", "Closing"}
Inbox == {"empty", "data", "eof"}

-----------------------------------------------------------------------------
(***************************************************************************)
(* Arithmetic of the pool: growing it by GrowRate keeps its total a        *)
(* multiple of GrowRate.                                                   *)
(***************************************************************************)
LEMMA MultipleHasNoRest ==
  ASSUME NEW g \in Nat \ {0}, NEW k \in Nat
  PROVE  (k * g) % g = 0
  OBVIOUS

(* The pool grows by whole multiples. *)
LEMMA NextMultiple ==
  ASSUME NEW g \in Nat \ {0}, NEW x \in Nat, x % g = 0
  PROVE  (x + g) % g = 0
<1>1. PICK k \in Nat : x = k * g
  <2>1. x = (x \div g) * g + (x % g) /\ x \div g \in Nat
    OBVIOUS
  <2>2. QED BY <2>1
<1>2. x + g = (k + 1) * g
  BY <1>1
<1>3. ((k + 1) * g) % g = 0
  BY MultipleHasNoRest
<1>4. QED BY <1>2, <1>3

-----------------------------------------------------------------------------
(***************************************************************************)
(* What every handler leaves behind: a closed connection, or one on which  *)
(* nothing is left to do until the kernel reports something new, because   *)
(* recv or send was called until it would have blocked.                    *)
(***************************************************************************)
Settled(c) ==
  /\ c.state \in ConnState /\ c.inbox \in Inbox /\ c.blocked \in BOOLEAN
  /\ c.state # "free" => ~Watched(c.state, c.inbox, c.blocked)

(* Each record a handler may leave behind is settled. *)
LEMMA OutcomesSettled ==
  ASSUME NEW i \in Inbox, NEW c
  PROVE  /\ c = Closed => Settled(c)
         /\ c = [state |-> "Receiving", inbox |-> "empty", blocked |-> FALSE] => Settled(c)
         /\ c = [state |-> "Closing", inbox |-> "empty", blocked |-> FALSE] => Settled(c)
         /\ c = [state |-> "Transmitting", inbox |-> i, blocked |-> TRUE] => Settled(c)
<1>1. ASSUME c.state \in ConnState, c.inbox = "empty", c.blocked = FALSE,
             c.state # "Transmitting"
      PROVE  Settled(c)
  BY <1>1, Zenon DEF Settled, Watched, Reads, ConnState, Inbox
<1>2. ASSUME c.state = "Transmitting", c.inbox \in Inbox, c.blocked = TRUE
      PROVE  Settled(c)
  BY <1>2, Zenon DEF Settled, Watched, Reads, ConnState, Inbox
<1>3. ASSUME \/ c = [state |-> "free", inbox |-> "empty", blocked |-> FALSE]
             \/ c = [state |-> "Receiving", inbox |-> "empty", blocked |-> FALSE]
             \/ c = [state |-> "Closing", inbox |-> "empty", blocked |-> FALSE]
      PROVE  c.state \in ConnState \ {"Transmitting"} /\ c.inbox = "empty" /\ c.blocked = FALSE
  BY <1>3 DEF ConnState
<1>4. ASSUME c = [state |-> "Transmitting", inbox |-> i, blocked |-> TRUE]
      PROVE  c.state = "Transmitting" /\ c.inbox \in Inbox /\ c.blocked = TRUE
  BY <1>4
<1>5. QED BY <1>1, <1>2, <1>3, <1>4, Zenon DEF Closed

(* ConsumeRemoteClose reads until there is nothing left, or closes. *)
LEMMA CloseSettles ==
  ASSUME NEW i \in Inbox, NEW c \in ConsumeRemoteClose(i)
  PROVE  Settled(c)
  BY OutcomesSettled DEF ConsumeRemoteClose

(* WriteBytesForConnection writes until the buffer is full, or goes on. *)
LEMMA WriteSettles ==
  ASSUME NEW i \in Inbox, NEW c \in WriteBytes(i)
  PROVE  Settled(c)
  BY OutcomesSettled, CloseSettles DEF WriteBytes

(* ReceiveBytesForConnection reads until there is nothing left, or goes on. *)
LEMMA ReceiveSettles ==
  ASSUME NEW i \in Inbox, NEW c \in ReceiveBytes(i)
  PROVE  Settled(c)
<1>1. CASE \E j \in Inbox : c \in WriteBytes(j)
  BY <1>1, WriteSettles
<1>2. CASE c \in {Closed, [state |-> "Receiving", inbox |-> "empty", blocked |-> FALSE]}
  BY <1>2, OutcomesSettled
<1>3. QED BY <1>1, <1>2 DEF ReceiveBytes, Inbox

(* So whatever the state of a connection, its handler settles it. *)
LEMMA HandlerSettles ==
  ASSUME TypeOK, NEW f \in Open, NEW c \in HandlerOutcomes(f)
  PROVE  Settled(c)
<1>1. inbox[f] \in Inbox /\ state[f] \in {"Receiving", "Transmitting", "Closing"}
  BY DEF TypeOK, Open, Inbox
<1>2. QED
  BY <1>1, ReceiveSettles, WriteSettles, CloseSettles DEF HandlerOutcomes

-----------------------------------------------------------------------------
(***************************************************************************)
(* Counting.                                                               *)
(***************************************************************************)
LEMMA Finiteness ==
  /\ \A S \in SUBSET Fd : IsFiniteSet(S) /\ Cardinality(S) \in Nat
  /\ \A S \in SUBSET Listen : /\ IsFiniteSet(S) /\ Cardinality(S) \in Nat
                              /\ Cardinality(S) <= Cardinality(Listen)
  /\ Cardinality(Listen) \in Nat \ {0}
<1>1. IsFiniteSet(Fd) /\ IsFiniteSet(Listen) /\ Listen # {}
  BY ServerAssumption
<1>2. QED
  BY <1>1, FS_Subset, FS_CardinalityType, FS_EmptySet

(* The listen events that have been fetched and not yet served. *)
Outstanding == Cardinality(pending \cap Listen) + (IF event \in Listen THEN 1 ELSE 0)

(***************************************************************************)
(* The inductive invariant.                                                *)
(***************************************************************************)
(* An event is held only while it is being handled. *)
EventInv == pc # "event" => event = NoEvent

(* The connections in one of the two tables are the open ones. *)
TablesInv == \A f \in Fd : f \in Open <=> table[f] # 0

(* Every fetched listen event stands for a connection still to be added, and
   counts as one already. *)
LimitInv == Cardinality(Open) + Outstanding < MaxConnections + Cardinality(Listen)

(* The connections of the old table were there at the last sweep. *)
AgeInv == \A f \in Open : table[f] = OldTable => sinceSweep <= life[f]

ServerInv ==
  /\ TypeOK
  /\ EventInv
  /\ TablesInv
  /\ NoLostWakeup
  /\ LimitInv
  /\ PoolConserved
  /\ AgeInv
  /\ NothingLeftBehind

(* The invariant holds initially. *)
LEMMA InitInv == Init => ServerInv
<1> SUFFICES ASSUME Init PROVE ServerInv
  OBVIOUS
<1>1. Open = {} /\ pending \cap Listen = {} /\ event \notin Listen
  BY ServerAssumption DEF Init, Open
<1>2. Cardinality({}) = 0
  BY FS_EmptySet
<1>3. TypeOK
  <2>1. blocked \in [Fd -> BOOLEAN] /\ backlog \in [Listen -> BOOLEAN]
    BY Zenon DEF Init
  <2>2. fNeedToExit \in BOOLEAN /\ pipe \in BOOLEAN
    BY DEF Init
  <2>3. life \in [Fd -> 0 .. SweepTimeout] /\ sinceSweep \in 0 .. SweepTimeout
    BY ServerAssumption DEF Init
  <2>4. QED BY <1>1, <2>1, <2>2, <2>3 DEF Init, TypeOK
<1>4. LimitInv
  BY <1>1, <1>2, Finiteness, ServerAssumption DEF LimitInv, Outstanding
<1>5. PoolConserved
  BY <1>1, <1>2, MultipleHasNoRest, ServerAssumption DEF PoolConserved, Init
<1>6. EventInv /\ TablesInv /\ NoLostWakeup /\ AgeInv /\ NothingLeftBehind
  BY <1>1 DEF EventInv, TablesInv, NoLostWakeup, AgeInv, NothingLeftBehind, Init
<1>7. QED BY <1>3, <1>4, <1>5, <1>6 DEF ServerInv

-----------------------------------------------------------------------------
(***************************************************************************)
(* Steps that leave the connections, the thread and its events alone.      *)
(***************************************************************************)
LEMMA FrameInv ==
  ASSUME ServerInv, TypeOK', UNCHANGED <<connVars, threadVars, ready, pending>>
  PROVE  ServerInv'
<1>1. Open' = Open /\ Outstanding' = Outstanding /\ OldTable' = OldTable
  BY DEF Open, Outstanding, OldTable, connVars, threadVars
<1>2. EventInv' /\ TablesInv' /\ LimitInv' /\ PoolConserved' /\ AgeInv' /\ NothingLeftBehind'
  BY <1>1 DEF ServerInv, EventInv, TablesInv, LimitInv, PoolConserved, AgeInv,
              NothingLeftBehind, connVars, threadVars
<1>3. NoLostWakeup'
  BY <1>1 DEF ServerInv, NoLostWakeup, Watched, Reads, connVars, threadVars
<1>4. QED BY <1>2, <1>3 DEF ServerInv

(* Clients that connect and give up before accept preserve the invariant. *)
LEMMA BacklogInv ==
  ASSUME ServerInv, NEW l \in Listen, ClientConnects(l) \/ ClientAborts(l)
  PROVE  ServerInv'
<1>1. UNCHANGED <<connVars, threadVars, ready, pending, stopVars>>
  BY DEF ClientConnects, ClientAborts
<1>2. backlog' \in [Listen -> BOOLEAN]
  BY DEF ClientConnects, ClientAborts, ServerInv, TypeOK
<1>3. TypeOK'
  BY <1>1, <1>2 DEF ServerInv, TypeOK, Open, connVars, threadVars, stopVars
<1>4. QED BY <1>1, <1>3, FrameInv

(* The steps of Stop preserve the invariant. *)
LEMMA StopInv ==
  ASSUME ServerInv, Stop
  PROVE  ServerInv'
<1>1. UNCHANGED <<connVars, threadVars, pollVars>>
  BY DEF Stop, StopSetsFlag, StopWritesPipe, StopJoins
<1>2. /\ fNeedToExit' \in BOOLEAN /\ pipe' \in BOOLEAN
      /\ stop' \in {"no", "flagged", "notified", "joined"}
  BY DEF Stop, StopSetsFlag, StopWritesPipe, StopJoins, ServerInv, TypeOK
<1>3. TypeOK'
  BY <1>1, <1>2 DEF ServerInv, TypeOK, Open, connVars, threadVars, pollVars
<1>4. QED BY <1>1, <1>3, FrameInv DEF pollVars

-----------------------------------------------------------------------------
(***************************************************************************)
(* The clients and the clock.                                              *)
(***************************************************************************)
LEMMA ClientSendsInv ==
  ASSUME ServerInv, NEW f \in Fd, NEW what \in {"data", "eof"}, ClientSends(f, what)
  PROVE  ServerInv'
<1>1. Open' = Open /\ Outstanding' = Outstanding /\ OldTable' = OldTable
  BY DEF ClientSends, Open, Outstanding, OldTable, threadVars
<1>2. TypeOK'
  BY <1>1 DEF ClientSends, ServerInv, TypeOK, threadVars, stopVars
<1>3. EventInv' /\ TablesInv' /\ LimitInv' /\ PoolConserved' /\ AgeInv'
  BY <1>1 DEF ServerInv, EventInv, TablesInv, LimitInv, PoolConserved, AgeInv,
              ClientSends, threadVars
<1>4. NothingLeftBehind'
  BY <1>1 DEF ServerInv, NothingLeftBehind, ClientSends, threadVars
<1>5. NoLostWakeup'
  <2> SUFFICES ASSUME NEW g \in Open, Watched(state[g], inbox'[g], blocked[g])
               PROVE  g \in ready' \cup pending \cup {event}
    BY <1>1, Zenon DEF NoLostWakeup, ClientSends, threadVars
  <2>1. CASE g = f /\ Reads(state[f])
    BY <2>1 DEF ClientSends
  <2>2. CASE g # f \/ ~Reads(state[f])
    <3>1. Watched(state[g], inbox[g], blocked[g])
      BY <2>2 DEF ClientSends, Watched, ServerInv, TypeOK
    <3>2. ready \subseteq ready'
      BY DEF ClientSends
    <3>3. QED BY <3>1, <3>2 DEF ServerInv, NoLostWakeup
  <2>3. QED BY <2>1, <2>2
<1>6. QED BY <1>2, <1>3, <1>4, <1>5 DEF ServerInv

(* ClientReads preserves the invariant. *)
LEMMA ClientReadsInv ==
  ASSUME ServerInv, NEW f \in Fd, ClientReads(f)
  PROVE  ServerInv'
<1>1. Open' = Open /\ Outstanding' = Outstanding /\ OldTable' = OldTable
  BY DEF ClientReads, Open, Outstanding, OldTable, threadVars
<1>2. TypeOK'
  BY <1>1 DEF ClientReads, ServerInv, TypeOK, threadVars, stopVars
<1>3. EventInv' /\ TablesInv' /\ LimitInv' /\ PoolConserved' /\ AgeInv'
  BY <1>1 DEF ServerInv, EventInv, TablesInv, LimitInv, PoolConserved, AgeInv,
              ClientReads, threadVars
<1>4. NothingLeftBehind'
  BY <1>1 DEF ServerInv, NothingLeftBehind, ClientReads, threadVars
<1>5. NoLostWakeup'
  <2> SUFFICES ASSUME NEW g \in Open, Watched(state[g], inbox[g], blocked'[g])
               PROVE  g \in ready' \cup pending \cup {event}
    BY <1>1, Zenon DEF NoLostWakeup, ClientReads, threadVars
  <2>1. CASE g = f /\ ~Reads(state[f])
    BY <2>1 DEF ClientReads
  <2>2. CASE g # f \/ Reads(state[f])
    <3>1. Watched(state[g], inbox[g], blocked[g])
      BY <2>2 DEF ClientReads, Watched, ServerInv, TypeOK
    <3>2. ready \subseteq ready'
      BY DEF ClientReads
    <3>3. QED BY <3>1, <3>2 DEF ServerInv, NoLostWakeup
  <2>3. QED BY <2>1, <2>2
<1>6. QED BY <1>2, <1>3, <1>4, <1>5 DEF ServerInv

(* Tick preserves the invariant. *)
LEMMA TickInv ==
  ASSUME ServerInv, Tick
  PROVE  ServerInv'
<1>1. Open' = Open /\ Outstanding' = Outstanding /\ OldTable' = OldTable
  BY DEF Tick, Open, Outstanding, OldTable, pollVars
<1>2. TypeOK'
  <2>1. sinceSweep' \in 0 .. SweepTimeout /\ life' \in [Fd -> 0 .. SweepTimeout]
    BY ServerAssumption DEF Tick, ServerInv, TypeOK
  <2>2. QED BY <1>1, <2>1 DEF Tick, ServerInv, TypeOK, pollVars, stopVars
<1>3. EventInv' /\ TablesInv' /\ LimitInv' /\ PoolConserved' /\ NothingLeftBehind'
  BY <1>1 DEF ServerInv, EventInv, TablesInv, LimitInv, PoolConserved,
              NothingLeftBehind, Tick, pollVars
<1>4. NoLostWakeup'
  BY <1>1, Zenon DEF ServerInv, NoLostWakeup, Tick, pollVars
<1>5. AgeInv'
  BY <1>1, ServerAssumption DEF ServerInv, AgeInv, Tick, TypeOK, Open
<1>6. QED BY <1>2, <1>3, <1>4, <1>5 DEF ServerInv

-----------------------------------------------------------------------------
(***************************************************************************)
(* The wait.                                                               *)
(***************************************************************************)
LEMMA RunStartsInv ==
  ASSUME ServerInv, RunStarts
  PROVE  ServerInv'
<1>1. Open' = Open /\ Outstanding' = Outstanding /\ OldTable' = OldTable
  BY DEF RunStarts, Open, Outstanding, OldTable, connVars, pollVars
<1>2. TypeOK' /\ EventInv' /\ TablesInv' /\ LimitInv' /\ PoolConserved' /\ NothingLeftBehind'
  BY <1>1, ServerAssumption
     DEF ServerInv, TypeOK, EventInv, TablesInv, LimitInv, PoolConserved, NothingLeftBehind,
         RunStarts, WhileNotNeedToExit, connVars, pollVars, stopVars
<1>3. NoLostWakeup'
  BY <1>1, Zenon DEF ServerInv, NoLostWakeup, RunStarts, connVars, pollVars
<1>4. AgeInv'
  BY <1>1, ServerAssumption DEF ServerInv, AgeInv, RunStarts, TypeOK, connVars, Open
<1>5. QED BY <1>2, <1>3, <1>4 DEF ServerInv

(* WaitTimesOut preserves the invariant. *)
LEMMA WaitTimesOutInv ==
  ASSUME ServerInv, WaitTimesOut
  PROVE  ServerInv'
<1>1. Open' = Open /\ Outstanding' = Outstanding /\ OldTable' = OldTable
  BY DEF WaitTimesOut, Open, Outstanding, OldTable, connVars, pollVars
<1>2. TypeOK' /\ EventInv' /\ TablesInv' /\ LimitInv' /\ PoolConserved' /\ NothingLeftBehind'
  BY <1>1
     DEF ServerInv, TypeOK, EventInv, TablesInv, LimitInv, PoolConserved, NothingLeftBehind,
         WaitTimesOut, connVars, pollVars, stopVars
<1>3. NoLostWakeup' /\ AgeInv'
  BY <1>1, Zenon DEF ServerInv, NoLostWakeup, AgeInv, WaitTimesOut, connVars, pollVars
<1>4. QED BY <1>2, <1>3 DEF ServerInv

(***************************************************************************)
(* Taking one event out of a set of events does not change how many listen *)
(* events there are in all.                                                *)
(***************************************************************************)
LEMMA TakeEvent ==
  ASSUME NEW P, NEW e \in P, NEW Q, Q = P \ {e}
  PROVE  Cardinality(Q \cap Listen) + (IF e \in Listen THEN 1 ELSE 0)
           = Cardinality(P \cap Listen)
<1>1. IsFiniteSet(P \cap Listen) /\ Cardinality(P \cap Listen) \in Nat
  BY Finiteness
<1>2. Q \cap Listen = (P \cap Listen) \ {e}
  OBVIOUS
<1>3. Cardinality(Q \cap Listen)
        = IF e \in P \cap Listen THEN Cardinality(P \cap Listen) - 1
                                 ELSE Cardinality(P \cap Listen)
  BY <1>1, <1>2, FS_RemoveElement
<1>4. QED BY <1>1, <1>3

(* WaitForNextEvent preserves the invariant. *)
LEMMA WaitForNextEventInv ==
  ASSUME ServerInv, WaitForNextEvent
  PROVE  ServerInv'
<1>1. Open' = Open /\ OldTable' = OldTable /\ Open \subseteq Fd /\ Cardinality(Open) \in Nat
  BY Finiteness DEF WaitForNextEvent, Open, OldTable, connVars
<1>2. event \notin Listen /\ event \notin Fd /\ Outstanding = Cardinality(pending \cap Listen)
  BY ServerAssumption, Finiteness DEF ServerInv, EventInv, WaitForNextEvent, Outstanding
<1>3. PICK P : /\ event' \in P /\ pending' = P \ {event'}
               /\ P = IF pending # {} THEN pending ELSE Reported
  BY DEF WaitForNextEvent
<1>4. P \subseteq Event
  <2>1. Reported \subseteq Event
    BY DEF Reported, ListenSocketsOnEpoll, ServerInv, TypeOK, Event, Open
  <2>2. QED BY <1>3, <2>1 DEF ServerInv, TypeOK
<1>5. TypeOK'
  <2>1. event' \in Event /\ pending' \subseteq Event
    BY <1>3, <1>4
  <2>2. ready' \subseteq Open'
    BY <1>1 DEF WaitForNextEvent, ServerInv, TypeOK
  <2>3. QED BY <2>1, <2>2 DEF WaitForNextEvent, ServerInv, TypeOK, connVars, stopVars
<1>6. EventInv' /\ TablesInv' /\ PoolConserved' /\ AgeInv' /\ NothingLeftBehind'
  BY <1>1 DEF WaitForNextEvent, ServerInv, EventInv, TablesInv, PoolConserved, AgeInv,
              NothingLeftBehind, connVars
<1>7. NoLostWakeup'
  <2> SUFFICES ASSUME NEW f \in Open, Watched(state[f], inbox[f], blocked[f])
               PROVE  f \in ready' \cup pending' \cup {event'}
    BY <1>1, Zenon DEF NoLostWakeup, WaitForNextEvent, connVars
  <2>1. f \in ready \cup pending
    BY <1>1, <1>2 DEF ServerInv, NoLostWakeup
  <2>2. ready \cup pending \subseteq ready' \cup P
    BY <1>3 DEF WaitForNextEvent, Reported
  <2>3. QED BY <1>3, <2>1, <2>2
<1>8. LimitInv'
  <2>1. Outstanding' = Cardinality(P \cap Listen)
    BY <1>3, TakeEvent DEF Outstanding
  <2>2. CASE pending # {}
    BY <1>1, <1>2, <1>3, <2>1, <2>2 DEF LimitInv, ServerInv
  <2>3. CASE pending = {} /\ IsConnectionCountAtMax
    <3>1. P \cap Listen = {}
      BY <1>1, <1>3, <2>3, ServerAssumption
         DEF Reported, ListenSocketsOnEpoll, ServerInv, TypeOK
    <3>2. Outstanding' = 0 /\ Outstanding \in Nat
      BY <1>2, <2>1, <3>1, FS_EmptySet, Finiteness
    <3>3. QED BY <1>1, <3>2, Finiteness, ServerAssumption DEF LimitInv, ServerInv
  <2>4. CASE pending = {} /\ ~IsConnectionCountAtMax
    <3>1. Outstanding' \in Nat /\ Outstanding' <= Cardinality(Listen)
      BY <2>1, Finiteness
    <3>2. QED
      BY <1>1, <2>4, <3>1, Finiteness, ServerAssumption DEF LimitInv, IsConnectionCountAtMax
  <2>5. QED BY <2>2, <2>3, <2>4
<1>9. QED BY <1>5, <1>6, <1>7, <1>8 DEF ServerInv

-----------------------------------------------------------------------------
(***************************************************************************)
(* What a handler's outcome does to the open connections, their count, the *)
(* events and the tables.                                                  *)
(***************************************************************************)
LEMMA BecomesOpen ==
  ASSUME TypeOK, NEW f \in Fd, NEW c, Settled(c), NEW t, NEW n, Becomes(f, c, t, n)
  PROVE  /\ Open' = IF c.state = "free" THEN Open \ {f} ELSE Open \cup {f}
         /\ Cardinality(Open) \in Nat /\ Cardinality(Open') \in Nat
         /\ c.state = "free" => Cardinality(Open') = IF f \in Open THEN Cardinality(Open) - 1
                                                                   ELSE Cardinality(Open)
         /\ c.state # "free" => Cardinality(Open') = IF f \in Open THEN Cardinality(Open)
                                                                   ELSE Cardinality(Open) + 1
<1>1. Open' = IF c.state = "free" THEN Open \ {f} ELSE Open \cup {f}
  BY DEF Becomes, Open, TypeOK
<1>2. IsFiniteSet(Open) /\ Open \subseteq Fd /\ Open' \subseteq Fd
  BY Finiteness DEF Open
<1>3. Cardinality(Open) \in Nat /\ Cardinality(Open') \in Nat
  BY <1>2, Finiteness
<1>4. QED BY <1>1, <1>2, <1>3, FS_AddElement, FS_RemoveElement

(* The types after a handler. *)
LEMMA BecomesType ==
  ASSUME TypeOK, NEW f \in Fd, NEW c, Settled(c), NEW t \in {1, 2}, NEW n \in Nat,
         Becomes(f, c, t, n)
  PROVE  /\ state' \in [Fd -> ConnState] /\ inbox' \in [Fd -> Inbox]
         /\ blocked' \in [Fd -> BOOLEAN]
         /\ table' \in [Fd -> 0 .. 2]
         /\ life' \in [Fd -> 0 .. SweepTimeout]
         /\ poolFree' \in Nat
         /\ ready' \subseteq Open'
<1>1. c.state \in ConnState /\ c.inbox \in Inbox /\ c.blocked \in BOOLEAN
  BY DEF Settled
<1>2. state' \in [Fd -> ConnState] /\ inbox' \in [Fd -> Inbox]
  BY <1>1 DEF Becomes, TypeOK, ConnState, Inbox
<1>3. blocked' \in [Fd -> BOOLEAN]
  BY <1>1 DEF Becomes, TypeOK
<1>4. table' \in [Fd -> 0 .. 2] /\ life' \in [Fd -> 0 .. SweepTimeout] /\ poolFree' \in Nat
  <2>1. table' \in [Fd -> 0 .. 2]
    BY DEF Becomes, TypeOK
  <2>2. life' \in [Fd -> 0 .. SweepTimeout]
    BY ServerAssumption DEF Becomes, TypeOK
  <2>3. poolFree' \in Nat
    BY DEF Becomes, TypeOK
  <2>4. QED BY <2>1, <2>2, <2>3
<1>5. ready' \subseteq Open'
  <2>1. Open' = IF c.state = "free" THEN Open \ {f} ELSE Open \cup {f}
    BY BecomesOpen
  <2>2. ready \subseteq Open /\ ready' = ReadyAfter(f, c)
    BY DEF Becomes, TypeOK
  <2>3. QED BY <2>1, <2>2 DEF ReadyAfter
<1>6. QED BY <1>2, <1>3, <1>4, <1>5

(***************************************************************************)
(* Every wake-up but that of the connection just handled is kept, and that *)
(* one needs none.                                                         *)
(***************************************************************************)
LEMMA BecomesWakeup ==
  ASSUME TypeOK, NoLostWakeup, NEW f \in Fd, NEW c, Settled(c), NEW t, NEW n,
         Becomes(f, c, t, n), event = f \/ event \notin Fd, UNCHANGED pending
  PROVE  NoLostWakeup'
<1> SUFFICES ASSUME NEW g \in Open', Watched(state'[g], inbox'[g], blocked'[g])
             PROVE  g \in ready' \cup pending \cup {event'}
  BY DEF NoLostWakeup
<1>1. g \in Fd /\ (g # f => g \in Open)
  BY BecomesOpen DEF Open
<1>2. g # f
  <2> SUFFICES ASSUME g = f PROVE FALSE
    OBVIOUS
  <2>1. state'[f] = c.state /\ inbox'[f] = c.inbox /\ blocked'[f] = c.blocked
    BY DEF Becomes, TypeOK
  <2>2. c.state # "free"
    BY <2>1 DEF Open
  <2>3. QED BY <2>1, <2>2 DEF Settled
<1>3. state'[g] = state[g] /\ inbox'[g] = inbox[g] /\ blocked'[g] = blocked[g]
  BY <1>1, <1>2 DEF Becomes, TypeOK
<1>4. g \in ready \cup pending
  BY <1>1, <1>2, <1>3 DEF NoLostWakeup
<1>5. g \in ready => g \in ready'
  BY <1>2 DEF Becomes, ReadyAfter
<1>6. QED BY <1>4, <1>5

(* The tables and ages after a handler. *)
LEMMA BecomesTables ==
  ASSUME TypeOK, TablesInv, AgeInv, NEW f \in Fd, NEW c, Settled(c), NEW t \in {1, 2}, NEW n,
         Becomes(f, c, t, n), t = newTable \/ (f \in Open /\ t = table[f]),
         UNCHANGED <<newTable, sinceSweep>>
  PROVE  TablesInv' /\ AgeInv'
<1>1. Open' = IF c.state = "free" THEN Open \ {f} ELSE Open \cup {f}
  BY BecomesOpen
<1>2. TablesInv'
  BY <1>1 DEF TablesInv, Becomes, TypeOK
<1>3. AgeInv'
  <2> SUFFICES ASSUME NEW g \in Open', table'[g] = OldTable
               PROVE  sinceSweep <= life'[g]
    BY DEF AgeInv, OldTable
  <2>1. CASE g # f
    BY <1>1, <2>1 DEF AgeInv, Becomes, TypeOK, Open
  <2>2. CASE g = f
    <3>1. c.state # "free" /\ t = OldTable
      BY <1>1, <2>2 DEF Becomes, TypeOK
    <3>2. f \in Open /\ table[f] = OldTable
      BY <3>1 DEF OldTable, TypeOK
    <3>3. life'[f] = life[f]
      BY <3>1 DEF Becomes, TypeOK
    <3>4. QED BY <2>2, <3>2, <3>3 DEF AgeInv
  <2>3. QED BY <2>1, <2>2
<1>4. QED BY <1>2, <1>3

-----------------------------------------------------------------------------
(***************************************************************************)
(* The event handlers.                                                     *)
(***************************************************************************)
(* Serving an event on a listening socket uses up one outstanding event. *)
LEMMA ListenEventServed ==
  ASSUME TypeOK, event \in Listen, event' = NoEvent, UNCHANGED pending
  PROVE  Outstanding \in Nat /\ Outstanding' = Outstanding - 1
<1>1. Cardinality(pending \cap Listen) \in Nat
  BY Finiteness
<1>2. NoEvent \notin Listen
  BY ServerAssumption
<1>3. QED BY <1>1, <1>2 DEF Outstanding

(* The pool still holds a multiple of GrowRate when an object is taken out,
   after growing it if it was empty. *)
LEMMA GetConnectionConserves ==
  ASSUME TypeOK, PoolConserved
  PROVE  /\ GetConnection \in Nat
         /\ (GetConnection + 1 + Cardinality(Open)) % GrowRate = 0
<1>1. Cardinality(Open) \in Nat
  BY Finiteness DEF Open
<1>2. CASE poolFree = 0
  <2>1. GetConnection + 1 + Cardinality(Open) = (poolFree + Cardinality(Open)) + GrowRate
    BY <1>1, <1>2, ServerAssumption DEF GetConnection
  <2>2. ((poolFree + Cardinality(Open)) + GrowRate) % GrowRate = 0
    BY <1>1, NextMultiple, ServerAssumption DEF PoolConserved, TypeOK
  <2>3. QED BY <1>2, <2>1, <2>2, ServerAssumption DEF GetConnection
<1>3. CASE poolFree # 0
  <2>1. GetConnection \in Nat
        /\ GetConnection + 1 + Cardinality(Open) = poolFree + Cardinality(Open)
    BY <1>1, <1>3 DEF GetConnection, TypeOK
  <2>2. QED BY <2>1 DEF PoolConserved
<1>4. QED BY <1>2, <1>3

(* AcceptConnection preserves the invariant. *)
LEMMA AcceptConnectionInv ==
  ASSUME ServerInv, AcceptConnection
  PROVE  ServerInv'
<1>0. PICK f \in Fd \ Open, i \in Inbox :
        \E c \in ReceiveBytes(i) : Becomes(f, c, newTable, GetConnection)
  BY DEF AcceptConnection, Inbox
<1>1. PICK c \in ReceiveBytes(i) : Becomes(f, c, newTable, GetConnection)
  BY <1>0
<1>2. Settled(c) /\ GetConnection \in Nat /\ newTable \in {1, 2}
  BY ReceiveSettles, GetConnectionConserves DEF ServerInv, TypeOK
<1>3. TypeOK'
  <2>1. backlog' \in [Listen -> BOOLEAN]
    BY DEF AcceptConnection, ServerInv, TypeOK
  <2>2. QED
    BY <1>1, <1>2, <2>1, BecomesType
       DEF AcceptConnection, ServerInv, TypeOK, ConnState, Inbox, stopVars
<1>4. EventInv' /\ NothingLeftBehind'
  BY DEF AcceptConnection, EventInv, NothingLeftBehind
<1>5. TablesInv' /\ AgeInv'
  BY <1>1, <1>2, BecomesTables DEF ServerInv, AcceptConnection
<1>6. NoLostWakeup'
  BY <1>1, <1>2, BecomesWakeup, ServerAssumption DEF ServerInv, AcceptConnection
<1>7. /\ Cardinality(Open) \in Nat /\ Cardinality(Open') \in Nat
      /\ Cardinality(Open') <= Cardinality(Open) + 1
      /\ poolFree' + Cardinality(Open') = GetConnection + 1 + Cardinality(Open)
  <2>1. /\ Cardinality(Open) \in Nat /\ Cardinality(Open') \in Nat
        /\ Cardinality(Open') = IF c.state = "free" THEN Cardinality(Open)
                                                    ELSE Cardinality(Open) + 1
    BY <1>1, <1>2, BecomesOpen DEF ServerInv
  <2>2. poolFree' = IF c.state = "free" THEN GetConnection + 1 ELSE GetConnection
    BY <1>1 DEF Becomes
  <2>3. QED BY <1>2, <2>1, <2>2
<1>8. LimitInv'
  <2>1. Outstanding \in Nat /\ Outstanding' = Outstanding - 1
    BY ListenEventServed DEF AcceptConnection, ServerInv
  <2>2. QED BY <1>7, <2>1, Finiteness, ServerAssumption DEF LimitInv, ServerInv
<1>9. PoolConserved'
  BY <1>7, GetConnectionConserves DEF PoolConserved, ServerInv
<1>10. QED BY <1>3, <1>4, <1>5, <1>6, <1>8, <1>9 DEF ServerInv

(* An accept that yields no connection preserves the invariant. *)
LEMMA AcceptWithoutConnectionInv ==
  ASSUME ServerInv, AcceptFails \/ AcceptFindsNobody
  PROVE  ServerInv'
<1>1. Open' = Open /\ OldTable' = OldTable /\ Cardinality(Open) \in Nat
  BY Finiteness DEF AcceptFails, AcceptFindsNobody, Open, OldTable, connVars
<1>2. poolFree' \in Nat /\ (poolFree' + Cardinality(Open)) % GrowRate = 0
  <2>1. CASE AcceptFails
    <3>1. poolFree' = GetConnection + 1
      BY <2>1 DEF AcceptFails
    <3>2. QED BY <3>1, GetConnectionConserves DEF ServerInv
  <2>2. CASE AcceptFindsNobody
    BY <2>2 DEF AcceptFindsNobody, ServerInv, PoolConserved, TypeOK
  <2>3. QED BY <2>1, <2>2
<1>3. TypeOK'
  <2>1. backlog' \in [Listen -> BOOLEAN]
    BY DEF AcceptFails, AcceptFindsNobody, pollVars, ServerInv, TypeOK
  <2>2. QED
    BY <1>1, <1>2, <2>1
       DEF AcceptFails, AcceptFindsNobody, ServerInv, TypeOK, connVars, pollVars, stopVars
<1>4. EventInv' /\ NothingLeftBehind' /\ TablesInv' /\ AgeInv' /\ PoolConserved'
  BY <1>1, <1>2
     DEF AcceptFails, AcceptFindsNobody, ServerInv, EventInv, NothingLeftBehind, TablesInv,
         AgeInv, PoolConserved, connVars
<1>5. NoLostWakeup'
  <2> SUFFICES ASSUME NEW f \in Open, Watched(state[f], inbox[f], blocked[f])
               PROVE  f \in ready \cup pending
    BY <1>1, Zenon DEF NoLostWakeup, AcceptFails, AcceptFindsNobody, connVars, pollVars
  <2>1. f # event
    BY ServerAssumption DEF AcceptFails, AcceptFindsNobody, Open
  <2>2. QED BY <2>1 DEF ServerInv, NoLostWakeup
<1>6. LimitInv'
  <2>1. Outstanding \in Nat /\ Outstanding' = Outstanding - 1
    BY ListenEventServed DEF AcceptFails, AcceptFindsNobody, pollVars, ServerInv
  <2>2. QED BY <1>1, <2>1, Finiteness, ServerAssumption DEF LimitInv, ServerInv
<1>7. QED BY <1>3, <1>4, <1>5, <1>6 DEF ServerInv

(* ProcessConnectionEvent preserves the invariant. *)
LEMMA ProcessConnectionEventInv ==
  ASSUME ServerInv, ProcessConnectionEvent
  PROVE  ServerInv'
<1>1. event \notin Listen /\ event' \notin Listen /\ event \in Fd
  BY ServerAssumption DEF ProcessConnectionEvent
<1>2. Outstanding' = Outstanding
  BY <1>1 DEF Outstanding, ProcessConnectionEvent
<1>3. EventInv' /\ NothingLeftBehind'
  BY DEF ProcessConnectionEvent, EventInv, NothingLeftBehind
<1>4. Outstanding \in Nat
  BY Finiteness DEF Outstanding
<1>5. CASE event \in Open
  <2>1. PICK c \in HandlerOutcomes(event) : Becomes(event, c, table[event], poolFree)
    BY <1>5 DEF ProcessConnectionEvent
  <2>2. Settled(c) /\ table[event] \in {1, 2} /\ poolFree \in Nat
    BY <1>5, HandlerSettles DEF ServerInv, TypeOK, TablesInv, Open
  <2>3. TypeOK'
    BY <1>1, <2>1, <2>2, BecomesType
       DEF ProcessConnectionEvent, ServerInv, TypeOK, ConnState, Inbox, stopVars
  <2>4. TablesInv' /\ AgeInv'
    BY <1>1, <1>5, <2>1, <2>2, BecomesTables DEF ServerInv, ProcessConnectionEvent
  <2>5. NoLostWakeup'
    BY <1>1, <2>1, <2>2, BecomesWakeup DEF ServerInv, ProcessConnectionEvent
  <2>6. /\ Cardinality(Open) \in Nat /\ Cardinality(Open') \in Nat
        /\ Cardinality(Open') <= Cardinality(Open)
        /\ poolFree' + Cardinality(Open') = poolFree + Cardinality(Open)
    <3>1. /\ Cardinality(Open) \in Nat /\ Cardinality(Open') \in Nat
          /\ Cardinality(Open') = IF c.state = "free" THEN Cardinality(Open) - 1
                                                      ELSE Cardinality(Open)
      BY <1>1, <1>5, <2>1, <2>2, BecomesOpen DEF ServerInv
    <3>2. poolFree' = IF c.state = "free" THEN poolFree + 1 ELSE poolFree
      BY <2>1 DEF Becomes
    <3>3. QED BY <2>2, <3>1, <3>2
  <2>7. LimitInv' /\ PoolConserved'
    BY <1>2, <1>4, <2>6, Finiteness, ServerAssumption DEF LimitInv, PoolConserved, ServerInv
  <2>8. QED BY <1>3, <2>3, <2>4, <2>5, <2>7 DEF ServerInv
<1>6. CASE event \notin Open
  <2>1. UNCHANGED <<connVars, ready, poolFree, newTable, sinceSweep, pending>>
    BY <1>6 DEF ProcessConnectionEvent
  <2>2. Open' = Open /\ OldTable' = OldTable
    BY <2>1 DEF Open, OldTable, connVars
  <2>3. TypeOK' /\ TablesInv' /\ AgeInv' /\ LimitInv' /\ PoolConserved'
    BY <1>2, <2>1, <2>2
       DEF ProcessConnectionEvent, ServerInv, TypeOK, TablesInv, AgeInv, LimitInv,
           PoolConserved, connVars, stopVars
  <2>4. NoLostWakeup'
    BY <1>6, <2>1, <2>2, Zenon DEF ServerInv, NoLostWakeup, connVars
  <2>5. QED BY <1>3, <2>3, <2>4 DEF ServerInv
<1>7. QED BY <1>5, <1>6

-----------------------------------------------------------------------------
(***************************************************************************)
(* CloseAllConnections, in a sweep and when the thread ends.               *)
(***************************************************************************)
LEMMA CloseAllInv ==
  ASSUME ServerInv, NEW S \in SUBSET Open, CloseAll(S), UNCHANGED pending,
         event \notin Fd, event' \notin Fd
  PROVE  /\ Open' = Open \ S
         /\ Cardinality(Open) \in Nat /\ Cardinality(Open') \in Nat
         /\ Cardinality(Open') <= Cardinality(Open)
         /\ state' \in [Fd -> ConnState] /\ inbox' \in [Fd -> Inbox]
         /\ blocked' \in [Fd -> BOOLEAN]
         /\ table' \in [Fd -> 0 .. 2] /\ life' \in [Fd -> 0 .. SweepTimeout]
         /\ poolFree' \in Nat
         /\ ready' \subseteq Open'
         /\ PoolConserved' /\ TablesInv' /\ NoLostWakeup'
<1>1. Open' = Open \ S /\ S \subseteq Fd /\ Open \subseteq Fd
  BY DEF CloseAll, Open
<1>2. /\ IsFiniteSet(Open) /\ Cardinality(Open) \in Nat /\ Cardinality(S) \in Nat
      /\ Cardinality(Open') \in Nat
  BY <1>1, Finiteness
<1>3. Cardinality(Open') = Cardinality(Open) - Cardinality(S)
  <2>1. Open \cap S = S
    OBVIOUS
  <2>2. QED BY <1>1, <1>2, <2>1, FS_Difference
<1>4. state' \in [Fd -> ConnState] /\ inbox' \in [Fd -> Inbox]
  BY DEF CloseAll, ServerInv, TypeOK, ConnState, Inbox
<1>5. blocked' \in [Fd -> BOOLEAN]
  BY DEF CloseAll, ServerInv, TypeOK
<1>6. table' \in [Fd -> 0 .. 2] /\ life' \in [Fd -> 0 .. SweepTimeout] /\ poolFree' \in Nat
  BY <1>2, ServerAssumption DEF CloseAll, ServerInv, TypeOK
<1>7. ready' \subseteq Open'
  BY <1>1 DEF CloseAll, ServerInv, TypeOK
<1>8. PoolConserved'
  <2>1. poolFree' + Cardinality(Open') = poolFree + Cardinality(Open)
    BY <1>2, <1>3 DEF CloseAll, ServerInv, TypeOK
  <2>2. QED BY <2>1 DEF PoolConserved, ServerInv
<1>9. TablesInv'
  BY <1>1 DEF TablesInv, CloseAll, ServerInv, TypeOK
<1>10. NoLostWakeup'
  <2> SUFFICES ASSUME NEW f \in Open', Watched(state'[f], inbox'[f], blocked'[f])
               PROVE  f \in ready' \cup pending
    BY DEF NoLostWakeup
  <2>1. f \in Open /\ f \in Fd /\ f \notin S
    BY <1>1
  <2>2. state'[f] = state[f] /\ inbox'[f] = inbox[f] /\ blocked'[f] = blocked[f]
    BY <2>1 DEF CloseAll
  <2>3. f \in ready \cup pending
    BY <2>1, <2>2 DEF NoLostWakeup, ServerInv
  <2>4. QED BY <2>1, <2>3 DEF CloseAll
<1>11. QED BY <1>1, <1>2, <1>3, <1>4, <1>5, <1>6, <1>7, <1>8, <1>9, <1>10

(* Sweep preserves the invariant. *)
LEMMA SweepInv ==
  ASSUME ServerInv, SweepDeadConnections
  PROVE  ServerInv'
<1>1. event = NoEvent /\ event' = NoEvent /\ NoEvent \notin Fd
  BY ServerAssumption DEF ServerInv, EventInv, SweepDeadConnections
<1>2. Outstanding' = Outstanding /\ Outstanding \in Nat
  BY <1>1, Finiteness DEF Outstanding, SweepDeadConnections
<1>3. EventInv' /\ NothingLeftBehind'
  BY <1>1 DEF SweepDeadConnections, EventInv, NothingLeftBehind, WhileNotNeedToExit
<1>4. CASE sinceSweep >= SweepTimeout
  <2>1. /\ CloseAll(Swept) /\ sinceSweep' = 0 /\ newTable' = OldTable
        /\ Swept \in SUBSET Open /\ UNCHANGED pending
    BY <1>4 DEF SweepDeadConnections, Swept, InTable
  <2>2. newTable' \in {1, 2} /\ sinceSweep' \in 0 .. SweepTimeout
    BY <2>1, ServerAssumption DEF ServerInv, TypeOK, OldTable
  <2>3. TypeOK'
    BY <1>1, <2>1, <2>2, CloseAllInv
       DEF SweepDeadConnections, ServerInv, TypeOK, ConnState, Inbox, WhileNotNeedToExit,
           stopVars
  <2>4. LimitInv'
    BY <1>1, <1>2, <2>1, CloseAllInv, Finiteness, ServerAssumption DEF LimitInv, ServerInv
  <2>5. AgeInv'
    BY <2>1, <2>3 DEF AgeInv, TypeOK, Open
  <2>6. QED
    BY <1>1, <1>3, <2>1, <2>3, <2>4, <2>5, CloseAllInv DEF ServerInv
<1>5. CASE ~(sinceSweep >= SweepTimeout)
  <2>1. UNCHANGED <<connVars, ready, poolFree, sinceSweep, newTable, pending>>
    BY <1>5 DEF SweepDeadConnections
  <2>2. Open' = Open /\ OldTable' = OldTable
    BY <2>1 DEF Open, OldTable, connVars
  <2>3. TypeOK' /\ TablesInv' /\ AgeInv' /\ LimitInv' /\ PoolConserved'
    BY <1>1, <1>2, <2>1, <2>2
       DEF SweepDeadConnections, WhileNotNeedToExit, ServerInv, TypeOK, TablesInv, AgeInv,
           LimitInv, PoolConserved, connVars, stopVars
  <2>4. NoLostWakeup'
    BY <1>1, <2>1, <2>2, Zenon DEF ServerInv, NoLostWakeup, connVars
  <2>5. QED BY <1>3, <2>3, <2>4 DEF ServerInv
<1>6. QED BY <1>4, <1>5

(* ThreadExits preserves the invariant. *)
LEMMA ThreadExitsInv ==
  ASSUME ServerInv, ThreadExits
  PROVE  ServerInv'
<1>1. CleanedUp = Open
  BY DEF CleanedUp, InTable, OldTable, ServerInv, TablesInv, TypeOK, Open
<1>2. event' = NoEvent /\ NoEvent \notin Fd /\ NoEvent \notin Listen /\ pc' = "exit"
  BY ServerAssumption DEF ThreadExits
<1>3. CloseAll(Open)
  BY <1>1 DEF ThreadExits
<1>4. Open' = {}
  BY <1>3 DEF CloseAll, Open
<1>5. /\ state' \in [Fd -> ConnState] /\ inbox' \in [Fd -> Inbox]
      /\ table' \in [Fd -> 0 .. 2] /\ life' \in [Fd -> 0 .. SweepTimeout]
  BY <1>3, ServerAssumption DEF CloseAll, ServerInv, TypeOK, ConnState, Inbox
<1>6. blocked' \in [Fd -> BOOLEAN]
  BY <1>3 DEF CloseAll, ServerInv, TypeOK
<1>7. Cardinality(Open) \in Nat /\ Cardinality({}) = 0
  BY Finiteness, FS_EmptySet DEF Open
<1>8. ready' = {} /\ poolFree' = poolFree + Cardinality(Open)
  BY <1>3 DEF CloseAll, ServerInv, TypeOK
<1>9. TypeOK'
  BY <1>2, <1>4, <1>5, <1>6, <1>7, <1>8
     DEF ThreadExits, ServerInv, TypeOK, ConnState, Inbox, stopVars
<1>10. TablesInv'
  BY <1>3, <1>4 DEF TablesInv, CloseAll, ServerInv
<1>11. LimitInv'
  <2>1. Outstanding' \in Nat /\ Outstanding' <= Cardinality(Listen)
    BY <1>2, Finiteness DEF Outstanding
  <2>2. QED BY <1>4, <1>7, <2>1, Finiteness, ServerAssumption DEF LimitInv
<1>12. PoolConserved'
  BY <1>4, <1>7, <1>8 DEF PoolConserved, ServerInv, TypeOK
<1>13. NoLostWakeup' /\ AgeInv' /\ NothingLeftBehind' /\ EventInv'
  BY <1>2, <1>4, <1>8 DEF NoLostWakeup, AgeInv, NothingLeftBehind, EventInv
<1>14. QED BY <1>9, <1>10, <1>11, <1>12, <1>13 DEF ServerInv

-----------------------------------------------------------------------------
(***************************************************************************)
(* The invariant holds at every step.                                      *)
(***************************************************************************)
LEMMA NextInv == ServerInv /\ [Next]_vars => ServerInv'
<1> SUFFICES ASSUME ServerInv, [Next]_vars PROVE ServerInv'
  OBVIOUS
<1>1. CASE Run
  BY <1>1, RunStartsInv, WaitForNextEventInv, WaitTimesOutInv, AcceptConnectionInv,
     AcceptWithoutConnectionInv, ProcessConnectionEventInv, SweepInv, ThreadExitsInv DEF Run
<1>2. CASE Stop
  BY <1>2, StopInv
<1>3. CASE Clients
  BY <1>3, BacklogInv, ClientSendsInv, ClientReadsInv DEF Clients
<1>4. CASE Tick
  BY <1>4, TickInv
<1>5. CASE UNCHANGED vars
  <2>1. TypeOK'
    BY <1>5 DEF vars, connVars, threadVars, pollVars, stopVars, ServerInv, TypeOK, Open
  <2>2. QED BY <1>5, <2>1, FrameInv DEF vars, pollVars
<1>6. QED BY <1>1, <1>2, <1>3, <1>4, <1>5 DEF Next

(***************************************************************************)
(* ServerInv is an invariant of the server thread, stopped or not.         *)
(***************************************************************************)
THEOREM InvariantHolds == Spec => []ServerInv
<1>1. QED BY InitInv, NextInv, PTL DEF Spec

(***************************************************************************)
(* The variables keep their types.                                         *)
(***************************************************************************)
THEOREM TypeCorrect == Spec => []TypeOK
<1>1. ServerInv => TypeOK
  BY DEF ServerInv
<1>2. QED BY <1>1, InvariantHolds, PTL

(***************************************************************************)
(* No edge-triggered event is lost, with any number of connections and     *)
(* whatever stale events are pending for descriptors in use again.         *)
(***************************************************************************)
THEOREM WakeupsKept == Spec => []NoLostWakeup
<1>1. ServerInv => NoLostWakeup
  BY DEF ServerInv
<1>2. QED BY <1>1, InvariantHolds, PTL

(***************************************************************************)
(* The connection limit is exceeded by less than the number of listening   *)
(* sockets.                                                                *)
(***************************************************************************)
THEOREM OverrunIsBounded == Spec => []OverrunBounded
<1>1. ServerInv => OverrunBounded
  <2> SUFFICES ASSUME ServerInv PROVE OverrunBounded
    OBVIOUS
  <2>1. Cardinality(Open) \in Nat /\ Cardinality(pending \cap Listen) \in Nat
    BY Finiteness DEF Open
  <2>2. QED
    BY <2>1, Finiteness, ServerAssumption DEF ServerInv, LimitInv, Outstanding, OverrunBounded
<1>2. QED BY <1>1, InvariantHolds, PTL

(***************************************************************************)
(* No connection object is ever lost to the pool.                          *)
(***************************************************************************)
THEOREM PoolIsConserved == Spec => []PoolConserved
<1>1. ServerInv => PoolConserved
  BY DEF ServerInv
<1>2. QED BY <1>1, InvariantHolds, PTL

(***************************************************************************)
(* A thread that has ended leaves no connection open.                      *)
(***************************************************************************)
THEOREM CleanupIsComplete == Spec => []NothingLeftBehind
<1>1. ServerInv => NothingLeftBehind
  BY DEF ServerInv
<1>2. QED BY <1>1, InvariantHolds, PTL

(***************************************************************************)
(* A sweep closes only connections that are at least as old as the sweep   *)
(* period.                                                                 *)
(***************************************************************************)
THEOREM OnlyOldAreSwept == Spec => SweepsOnlyOld
<1>1. ServerInv /\ [Next]_vars =>
        [\A f \in Open : pc = "sweep" /\ state'[f] = "free" => life[f] = SweepTimeout]_vars
  <2> SUFFICES ASSUME ServerInv, Next, NEW f \in Open, pc = "sweep", state'[f] = "free"
               PROVE  life[f] = SweepTimeout
    BY Zenon
  <2>1. state[f] # "free" /\ f \in Fd
    BY DEF Open
  <2>2. SweepDeadConnections
    <3>1. state' # state
      BY <2>1
    <3>2. QED
      BY <3>1 DEF Next, Run, RunStarts, WaitForNextEvent, WaitTimesOut, AcceptConnection,
         AcceptFails, AcceptFindsNobody, ProcessConnectionEvent, ThreadExits, Stop,
         StopSetsFlag, StopWritesPipe, StopJoins, Clients, ClientConnects, ClientAborts,
         ClientSends, ClientReads, Tick, connVars
  <2>3. sinceSweep >= SweepTimeout /\ f \in Swept
    BY <2>1, <2>2 DEF SweepDeadConnections, CloseAll, connVars
  <2>4. sinceSweep <= life[f]
    BY <2>3 DEF ServerInv, AgeInv, Swept, InTable
  <2>5. QED
    BY <2>1, <2>3, <2>4, ServerAssumption DEF ServerInv, TypeOK
<1>2. QED BY <1>1, InvariantHolds, PTL DEF SweepsOnlyOld, Spec
=============================================================================
