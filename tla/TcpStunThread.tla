--------------------------- MODULE TcpStunThread ---------------------------
(***************************************************************************)
(* CTCPStunThread (server/tcpserver.cpp) with its connection pool          *)
(* (server/stunconnection.cpp) on top of CEpoll (networkutils/polling.cpp):*)
(* one thread that accepts STUN clients on up to four listening sockets,   *)
(* reads a request, writes the response, waits for the client to close,    *)
(* and every c_sweepTimeoutSeconds closes the connections that were        *)
(* already there at the sweep before.  Another thread stops it.            *)
(*                                                                         *)
(* The kernel's part, outside this repository: connections wait in the     *)
(* backlog of a listening socket, accept returns a descriptor that is not   *)
(* in use, a client's bytes and its close reach inbox, and epoll keeps the *)
(* edge-triggered descriptors whose condition became true since they were  *)
(* last reported (ready).  Descriptors are reused, so an event in pending  *)
(* may concern a connection that is gone.                                  *)
(***************************************************************************)
EXTENDS Integers, FiniteSets

CONSTANTS Listen,          \* the listening sockets
          Pipe,            \* the read end of the pipe
          Fd,              \* the descriptors left for connections
          MaxConnections,  \* _maxConnections
          SweepTimeout,    \* c_sweepTimeoutSeconds, in clock ticks
          GrowRate         \* c_growrate of the connection pool

NoEvent == 0  \* pollevent = {}

ASSUME ServerAssumption ==
  /\ IsFiniteSet(Listen) /\ Listen # {}
  /\ Pipe \notin Listen
  /\ Fd \cap (Listen \cup {Pipe}) = {}
  /\ NoEvent \notin Fd \cup Listen \cup {Pipe}
  /\ MaxConnections \in Nat \ {0}
  /\ SweepTimeout \in Nat \ {0}
  /\ GrowRate \in Nat \ {0}
  /\ IsFiniteSet(Fd)
  /\ Cardinality(Fd) >= MaxConnections + Cardinality(Listen) - 1

VARIABLES
  \* connections, by descriptor
  state,       \* _state, "free" if the descriptor is not in use
  table,       \* _idHashTable: the table the connection is in, 0 if none
  inbox,       \* unread bytes: "empty", "data", or "eof" once the client closed
  blocked,     \* the send buffer is full
  life,        \* ticks since accept, at most SweepTimeout
  \* the thread
  pc,          \* "start", "wait", "event", "sweep", "cleanup" or "exit"
  event,       \* pollevent, until it is handled
  newTable,    \* which table _pNewConnList is, 1 or 2
  sinceSweep,  \* ticks since _timeLastSweep, at most SweepTimeout
  poolFree,    \* length of the pool's free list
  \* CEpoll and the kernel
  ready,       \* connections with an unreported edge
  pending,     \* events fetched by epoll_wait and not yet returned
  backlog,     \* backlog[l]: a client waits to be accepted
  \* Stop
  fNeedToExit, \* _fNeedToExit
  pipe,        \* the pipe has been written to
  stop         \* "no", "flagged", "notified", "joined"

connVars == <<state, table, inbox, blocked, life>>
threadVars == <<pc, event, newTable, sinceSweep, poolFree>>
pollVars == <<ready, pending, backlog>>
stopVars == <<fNeedToExit, pipe, stop>>
vars == <<connVars, threadVars, pollVars, stopVars>>

Open == {f \in Fd : state[f] # "free"}
Event == Fd \cup Listen \cup {Pipe}

Init ==
  /\ state = [f \in Fd |-> "free"]
  /\ table = [f \in Fd |-> 0]
  /\ inbox = [f \in Fd |-> "empty"]
  /\ blocked = [f \in Fd |-> FALSE]
  /\ life = [f \in Fd |-> 0]
  /\ pc = "start"
  /\ event = NoEvent
  /\ newTable = 1
  /\ sinceSweep = 0
  /\ poolFree = 0
  /\ ready = {}
  /\ pending = {}
  /\ backlog = [l \in Listen |-> FALSE]
  /\ fNeedToExit = FALSE
  /\ pipe = FALSE
  /\ stop = "no"

-----------------------------------------------------------------------------
(***************************************************************************)
(* The clients and the clock.                                              *)
(***************************************************************************)
ClientConnects(l) ==
  /\ ~backlog[l]
  /\ backlog' = [backlog EXCEPT ![l] = TRUE]
  /\ UNCHANGED <<connVars, threadVars, ready, pending, stopVars>>

ClientAborts(l) ==
  /\ backlog[l]
  /\ backlog' = [backlog EXCEPT ![l] = FALSE]
  /\ UNCHANGED <<connVars, threadVars, ready, pending, stopVars>>

(* Only read events are asked for while Receiving or Closing, only write
   events while Transmitting. *)
Reads(st) == st \in {"Receiving", "Closing"}

(* What epoll watches for holds of a connection. *)
Watched(st, i, b) == IF Reads(st) THEN i # "empty" ELSE ~b

ClientSends(f, what) ==
  /\ f \in Open
  /\ inbox[f] # "eof"
  /\ inbox' = [inbox EXCEPT ![f] = what]
  /\ ready' = IF Reads(state[f]) THEN ready \cup {f} ELSE ready
  /\ UNCHANGED <<state, table, blocked, life, threadVars, pending, backlog, stopVars>>

ClientReads(f) ==
  /\ f \in Open
  /\ blocked[f]
  /\ blocked' = [blocked EXCEPT ![f] = FALSE]
  /\ ready' = IF Reads(state[f]) THEN ready ELSE ready \cup {f}
  /\ UNCHANGED <<state, table, inbox, life, threadVars, pending, backlog, stopVars>>

Tick ==
  /\ \/ sinceSweep < SweepTimeout
     \/ \E f \in Open : life[f] < SweepTimeout
  /\ sinceSweep' = IF sinceSweep < SweepTimeout THEN sinceSweep + 1 ELSE sinceSweep
  /\ life' = [f \in Fd |-> IF f \in Open /\ life[f] < SweepTimeout
                           THEN life[f] + 1 ELSE life[f]]
  /\ UNCHANGED <<state, table, inbox, blocked, pc, event, newTable,
                 poolFree, pollVars, stopVars>>

-----------------------------------------------------------------------------
(***************************************************************************)
(* Stop, called by another thread: flag, pipe, join.                       *)
(***************************************************************************)
StopSetsFlag ==
  /\ stop = "no"
  /\ fNeedToExit' = TRUE
  /\ stop' = "flagged"
  /\ UNCHANGED <<connVars, threadVars, pollVars, pipe>>

(* Mutant: the thread is not notified through the pipe. *)
StopWithoutPipe ==
  /\ stop = "flagged"
  /\ stop' = "notified"
  /\ UNCHANGED <<connVars, threadVars, pollVars, fNeedToExit, pipe>>

StopWritesPipe ==
  /\ stop = "flagged"
  /\ pipe' = TRUE
  /\ stop' = "notified"
  /\ UNCHANGED <<connVars, threadVars, pollVars, fNeedToExit>>

StopJoins ==
  /\ stop = "notified"
  /\ pc = "exit"
  /\ stop' = "joined"
  /\ UNCHANGED <<connVars, threadVars, pollVars, fNeedToExit, pipe>>

-----------------------------------------------------------------------------
(***************************************************************************)
(* Run: the loop condition, then the wait.                                 *)
(***************************************************************************)
WhileNotNeedToExit == IF fNeedToExit THEN "cleanup" ELSE "wait"

RunStarts ==
  /\ pc = "start"
  /\ sinceSweep' = 0
  /\ pc' = WhileNotNeedToExit
  /\ UNCHANGED <<connVars, event, newTable, poolFree, pollVars, stopVars>>

(* Mutant: off by one. *)
IsConnectionCountAboveMax == Cardinality(Open) > MaxConnections

IsConnectionCountAtMax == Cardinality(Open) >= MaxConnections

(* SetListenSocketsOnEpoll: the listening sockets are polled, level-triggered,
   only below the connection limit. *)
ListenSocketsOnEpoll == IF IsConnectionCountAtMax THEN {} ELSE Listen

(* What epoll_wait reports. *)
Reported ==
  ready \cup {l \in ListenSocketsOnEpoll : backlog[l]}
        \cup (IF pipe THEN {Pipe} ELSE {})

(* WaitForNextEvent returns a fetched event if one is left and calls
   epoll_wait otherwise, which reports an edge only once. *)
WaitForNextEvent ==
  /\ pc = "wait"
  /\ IF pending # {}
     THEN /\ event' \in pending
          /\ pending' = pending \ {event'}
          /\ UNCHANGED ready
     ELSE /\ event' \in Reported
          /\ pending' = Reported \ {event'}
          /\ ready' = {}
  /\ pc' = "event"
  /\ UNCHANGED <<connVars, newTable, sinceSweep, poolFree, backlog, stopVars>>

(* Mutant: the timeout and its absence exchanged. *)
HasTimeoutWhenIdle == Open = {}

(* GetTimeoutSeconds: without a connection there is no timeout. *)
HasTimeout == Open # {}

WaitTimesOut ==
  /\ pc = "wait"
  /\ pending = {}
  /\ Reported = {}
  /\ HasTimeout
  /\ pc' = IF fNeedToExit THEN "cleanup" ELSE "sweep"
  /\ UNCHANGED <<connVars, event, newTable, sinceSweep, poolFree, pollVars, stopVars>>

-----------------------------------------------------------------------------
(***************************************************************************)
(* What the handlers leave behind: the connection's state, its unread      *)
(* bytes and whether the send buffer is full, or Closed.  AddBytes,        *)
(* ProcessRequest and send may succeed or fail.                            *)
(***************************************************************************)
Closed == [state |-> "free", inbox |-> "empty", blocked |-> FALSE]

(* ConsumeRemoteClose reads and drops everything the client still sends. *)
ConsumeRemoteClose(i) ==
  IF i = "eof" THEN {Closed}
  ELSE {[state |-> "Closing", inbox |-> "empty", blocked |-> FALSE]}

(* WriteBytesForConnection. *)
WriteBytes(i) ==
  {Closed, [state |-> "Transmitting", inbox |-> i, blocked |-> TRUE]}
    \cup ConsumeRemoteClose(i)

(* Mutant: one recv per event. *)
ReceiveOnce(i) ==
  CASE i = "empty" -> {[state |-> "Receiving", inbox |-> "empty", blocked |-> FALSE]}
    [] i = "data" -> {[state |-> "Receiving", inbox |-> "data", blocked |-> FALSE]}
                       \cup WriteBytes("empty")
    [] i = "eof" -> {Closed}

(* ReceiveBytesForConnection reads until recv would block or the request is
   complete; bytes after the request stay unread. *)
ReceiveBytes(i) ==
  CASE i = "empty" -> {[state |-> "Receiving", inbox |-> "empty", blocked |-> FALSE]}
    [] i = "data" -> {Closed, [state |-> "Receiving", inbox |-> "empty", blocked |-> FALSE]}
                       \cup WriteBytes("empty") \cup WriteBytes("data")
    [] i = "eof" -> {Closed} \cup WriteBytes("eof")

HandlerOutcomes(f) ==
  CASE state[f] = "Receiving" -> ReceiveBytes(inbox[f])
    [] state[f] = "Transmitting" -> WriteBytes(inbox[f])
    [] state[f] = "Closing" -> ConsumeRemoteClose(inbox[f])

(* Mutant: a closed connection is not removed from the poller. *)
ReadyWhenClosed(f, c) ==
  IF c.state # "free" /\ ~Watched(c.state, c.inbox, c.blocked) THEN ready \ {f}
  ELSE IF c.state # "free" /\ c.state # state[f] THEN ready \cup {f}
  ELSE ready

(* epoll_ctl looks at a connection again when it is added or its event set
   changes, and forgets one that is removed; what the handler has read or
   sent is not reported any more. *)
ReadyAfter(f, c) ==
  IF /\ c.state # "free"
     /\ Watched(c.state, c.inbox, c.blocked)
     /\ f \in ready \/ c.state # state[f]
  THEN ready \cup {f} ELSE ready \ {f}

(* The connection on f, in table t, after its handler: CloseConnection takes
   it out of its table and gives it back to the pool, which had n free ones. *)
Becomes(f, c, t, n) ==
  /\ state' = [state EXCEPT ![f] = c.state]
  /\ inbox' = [inbox EXCEPT ![f] = c.inbox]
  /\ blocked' = [blocked EXCEPT ![f] = c.blocked]
  /\ table' = [table EXCEPT ![f] = IF c.state = "free" THEN 0 ELSE t]
  /\ life' = [life EXCEPT ![f] = IF c.state = "free" THEN 0 ELSE @]
  /\ ready' = ReadyAfter(f, c)
  /\ poolFree' = IF c.state = "free" THEN n + 1 ELSE n

(***************************************************************************)
(* An event on a listening socket: AcceptConnection, then a first read.    *)
(***************************************************************************)
(* The pool after GetConnection has grown it if necessary. *)
GetConnection == IF poolFree = 0 THEN GrowRate - 1 ELSE poolFree - 1

TableFull(t) == Cardinality({f \in Open : table[f] = t}) >= MaxConnections

AcceptConnection ==
  /\ pc = "event"
  /\ ~fNeedToExit
  /\ event \in Listen
  /\ backlog[event]
  /\ ~TableFull(newTable)
  /\ \E f \in Fd \ Open, i \in {"empty", "data", "eof"} :
       \E c \in ReceiveBytes(i) : Becomes(f, c, newTable, GetConnection)
  /\ backlog' = [backlog EXCEPT ![event] = FALSE]
  /\ event' = NoEvent
  /\ pc' = "sweep"
  /\ UNCHANGED <<newTable, sinceSweep, pending, stopVars>>

(* Mutant: the connection object of a failed accept is lost. *)
AcceptFailsKeepsObject ==
  /\ pc = "event"
  /\ ~fNeedToExit
  /\ event \in Listen
  /\ backlog[event]
  /\ backlog' = [backlog EXCEPT ![event] = FALSE]
  /\ poolFree' = GetConnection
  /\ event' = NoEvent
  /\ pc' = "sweep"
  /\ UNCHANGED <<connVars, newTable, sinceSweep, ready, pending, stopVars>>

(* The table has no room, or the socket cannot be added to the poller: the
   new connection is closed and given back at once. *)
AcceptFails ==
  /\ pc = "event"
  /\ ~fNeedToExit
  /\ event \in Listen
  /\ backlog[event]
  /\ backlog' = [backlog EXCEPT ![event] = FALSE]
  /\ poolFree' = GetConnection + 1
  /\ event' = NoEvent
  /\ pc' = "sweep"
  /\ UNCHANGED <<connVars, newTable, sinceSweep, ready, pending, stopVars>>

(* The client is gone again, or there never was one for this stale event. *)
AcceptFindsNobody ==
  /\ pc = "event"
  /\ ~fNeedToExit
  /\ event \in Listen
  /\ ~backlog[event]
  /\ event' = NoEvent
  /\ pc' = "sweep"
  /\ UNCHANGED <<connVars, newTable, sinceSweep, poolFree, pollVars,
                 stopVars>>

(***************************************************************************)
(* An event on a connection, or on what used to be one.                    *)
(***************************************************************************)
ProcessConnectionEvent ==
  /\ pc = "event"
  /\ ~fNeedToExit
  /\ event \in Fd
  /\ IF event \in Open
     THEN \E c \in HandlerOutcomes(event) : Becomes(event, c, table[event], poolFree)
     ELSE UNCHANGED <<connVars, ready, poolFree>>
  /\ event' = NoEvent
  /\ pc' = "sweep"
  /\ UNCHANGED <<newTable, sinceSweep, pending, backlog, stopVars>>

-----------------------------------------------------------------------------
(* CloseAllConnections on the connections in S. *)
CloseAll(S) ==
  /\ state' = [f \in Fd |-> IF f \in S THEN "free" ELSE state[f]]
  /\ table' = [f \in Fd |-> IF f \in S THEN 0 ELSE table[f]]
  /\ inbox' = [f \in Fd |-> IF f \in S THEN "empty" ELSE inbox[f]]
  /\ blocked' = [f \in Fd |-> IF f \in S THEN FALSE ELSE blocked[f]]
  /\ life' = [f \in Fd |-> IF f \in S THEN 0 ELSE life[f]]
  /\ ready' = ready \ S
  /\ poolFree' = poolFree + Cardinality(S)

OldTable == 3 - newTable
InTable(t) == {f \in Open : table[f] = t}

(* Mutant: the lists are exchanged before the connections are closed. *)
SweptAfterSwap == InTable(newTable)

(* The connections SweepDeadConnections closes. *)
Swept == InTable(OldTable)

SweepDeadConnections ==
  /\ pc = "sweep"
  /\ IF sinceSweep >= SweepTimeout
     THEN /\ CloseAll(Swept)
          /\ sinceSweep' = 0
          /\ newTable' = OldTable
     ELSE UNCHANGED <<connVars, ready, poolFree, sinceSweep, newTable>>
  /\ pc' = WhileNotNeedToExit
  /\ UNCHANGED <<event, pending, backlog, stopVars>>

(* Mutant: ThreadCleanup forgets the old table. *)
CleanedUpNewOnly == InTable(newTable)

(* The connections ThreadCleanup closes: those in either table. *)
CleanedUp == InTable(OldTable) \cup InTable(newTable)

(* The loop ends. *)
ThreadExits ==
  /\ \/ pc = "cleanup"
     \/ pc = "event" /\ (fNeedToExit \/ event = Pipe)
  /\ CloseAll(CleanedUp)
  /\ event' = NoEvent
  /\ pc' = "exit"
  /\ UNCHANGED <<newTable, sinceSweep, pending, backlog, stopVars>>

Run ==
  \/ RunStarts
  \/ WaitForNextEvent
  \/ WaitTimesOut
  \/ AcceptConnection
  \/ AcceptFails
  \/ AcceptFindsNobody
  \/ ProcessConnectionEvent
  \/ SweepDeadConnections
  \/ ThreadExits

Stop == StopSetsFlag \/ StopWritesPipe \/ StopJoins

Clients ==
  \/ \E l \in Listen : ClientConnects(l) \/ ClientAborts(l)
  \/ \E f \in Fd : \/ \E what \in {"data", "eof"} : ClientSends(f, what)
                   \/ ClientReads(f)

Next == Run \/ Stop \/ Clients \/ Tick

Spec == Init /\ [][Next]_vars

(* A server that nobody stops. *)
ServingSpec == Init /\ [][Run \/ Clients \/ Tick]_vars

(***************************************************************************)
(* The server thread is scheduled, the clock advances and a Stop that has  *)
(* been called goes on.  Clients may do nothing for ever.                  *)
(***************************************************************************)
Fairness == WF_vars(Run) /\ WF_vars(Tick) /\ WF_vars(StopWritesPipe) /\ WF_vars(StopJoins)

FairSpec == Spec /\ Fairness

-----------------------------------------------------------------------------
TypeOK ==
  /\ state \in [Fd -> {"free", "Receiving", "Transmitting", "Closing"}]
  /\ table \in [Fd -> 0 .. 2]
  /\ inbox \in [Fd -> {"empty", "data", "eof"}]
  /\ blocked \in [Fd -> BOOLEAN]
  /\ life \in [Fd -> 0 .. SweepTimeout]
  /\ pc \in {"start", "wait", "event", "sweep", "cleanup", "exit"}
  /\ event \in Event \cup {NoEvent}
  /\ newTable \in {1, 2}
  /\ sinceSweep \in 0 .. SweepTimeout
  /\ poolFree \in Nat
  /\ ready \subseteq Open
  /\ pending \subseteq Event
  /\ backlog \in [Listen -> BOOLEAN]
  /\ fNeedToExit \in BOOLEAN
  /\ pipe \in BOOLEAN
  /\ stop \in {"no", "flagged", "notified", "joined"}

(***************************************************************************)
(* Edge-triggered events are not lost: a connection the thread could make  *)
(* progress on (unread bytes or a close while it reads, room in the send   *)
(* buffer while it writes) has an event that is still to be handled, even  *)
(* though an edge is reported once and events of closed connections with   *)
(* the same descriptor get mixed up with it.                               *)
(***************************************************************************)
NoLostWakeup ==
  \A f \in Open :
    Watched(state[f], inbox[f], blocked[f]) => f \in ready \cup pending \cup {event}

(***************************************************************************)
(* How far the connection limit can be overrun: listen events fetched in   *)
(* one epoll_wait are still served after the limit is reached, so at most  *)
(* one connection per further listening socket is added.                   *)
(***************************************************************************)
OverrunBounded ==
  /\ Cardinality(Open) < MaxConnections + Cardinality(Listen)
  /\ event \in Listen =>
       Cardinality(Open) + Cardinality(pending \cap Listen)
         < MaxConnections + Cardinality(Listen) - 1

(***************************************************************************)
(* A sweep closes a connection only if it has been there for at least      *)
(* c_sweepTimeoutSeconds.                                                  *)
(***************************************************************************)
SweepsOnlyOld ==
  [][\A f \in Open : pc = "sweep" /\ state'[f] = "free" => life[f] = SweepTimeout]_vars

(***************************************************************************)
(* No connection object is lost on any of the ways a connection ends: the  *)
(* pool, which allocates GrowRate of them at a time, has those that are    *)
(* not in use, so Reset deletes them all.                                  *)
(***************************************************************************)
PoolConserved == (poolFree + Cardinality(Open)) % GrowRate = 0

(***************************************************************************)
(* When the thread has ended, Reset finds what it asserts: no connection   *)
(* is open, in either table or in none.                                    *)
(***************************************************************************)
NothingLeftBehind == pc = "exit" => Open = {} /\ ready = {}

(***************************************************************************)
(* Every connection ends, also that of a client that never sends anything, *)
(* never reads its response or never closes.                               *)
(***************************************************************************)
ConnectionsEnd == \A f \in Fd : f \in Open ~> f \notin Open

(***************************************************************************)
(* Stop returns: the thread wakes up and ends whatever it is waiting for.  *)
(***************************************************************************)
StopReturns == stop # "no" ~> stop = "joined"
=============================================================================
