----------------------------- MODULE PollServer -----------------------------
(***************************************************************************)
(* CPoll (networkutils/polling.cpp), the poller of the builds without      *)
(* epoll, under the calls CTCPStunThread (server/tcpserver.cpp) makes: a   *)
(* vector of descriptors for poll(), a hash table from a descriptor to its *)
(* position in the vector, and the events of the last poll() that are      *)
(* still to be reported.                                                   *)
(*                                                                         *)
(* What the thread does with a connection is in TcpStunThread; here its    *)
(* handlers leave the connection as it is, change its event set or close   *)
(* it, and a sweep is due or not.  poll() reports the descriptors in       *)
(* active, those whose condition holds: it is level-triggered.             *)
(***************************************************************************)
EXTENDS Integers, FiniteSets, SequencesExt

CONSTANTS Listen,          \* the listening sockets, in the order of their roles
          Pipe,            \* the read end of the pipe
          Fd,              \* the descriptors left for connections
          MaxConnections,  \* _maxConnections
          Spare            \* room in the poller besides the connections

NoEvent == 0  \* pollevent = {}

ListenSet == ToSet(Listen)

ASSUME PollAssumption ==
  /\ Listen \in Seq(ListenSet) /\ IsInjective(Listen) /\ Listen # <<>>
  /\ Pipe \notin ListenSet
  /\ Fd \cap (ListenSet \cup {Pipe}) = {}
  /\ NoEvent \notin Fd \cup ListenSet \cup {Pipe}
  /\ MaxConnections \in Nat \ {0}
  /\ Spare \in Nat /\ Spare > Len(Listen)
  /\ IsFiniteSet(Fd) /\ Cardinality(Fd) >= MaxConnections

VARIABLES
  poll,         \* the CPoll object
  listenOn,     \* _fListenSocketsOnEpoll
  role,         \* the listening socket SetListenSocketsOnEpoll is at
  events,       \* connections: the event set the thread wants, "none" if free
  old,          \* the connections in _pOldConnList
  pc,           \* "init" in Init, then where Run is, "exit" after it, "gone" after Reset
  event,        \* pollevent, until it is handled
  active,       \* the descriptors whose condition holds
  fNeedToExit   \* _fNeedToExit

vars == <<poll, listenOn, role, events, old, pc, event, active, fNeedToExit>>

Open == {f \in Fd : events[f] # "none"}

-----------------------------------------------------------------------------
(***************************************************************************)
(* CPoll.  fds is _fds, counted from 1; pos is _hashtable.                 *)
(***************************************************************************)
maxSockets == MaxConnections + Spare

(* Initialize *)
Created == [fds |-> <<>>, pos |-> <<>>, rotation |-> 0, unreadcount |-> 0]

(* _hashtable.Insert fails once maxSockets nodes are in use, and Add does not
   look at its result. *)
HashInsert(pos, fd, i) ==
  IF Cardinality(DOMAIN pos) < maxSockets
  THEN [g \in DOMAIN pos \cup {fd} |-> IF g = fd THEN i ELSE pos[g]]
  ELSE pos

AddFd(p, fd, flags) ==
  IF fd \in DOMAIN p.pos THEN p
  ELSE [p EXCEPT !.fds = Append(@, [fd |-> fd, events |-> flags, revents |-> FALSE]),
                 !.pos = HashInsert(@, fd, Len(p.fds) + 1)]

(* The position of fd, 0 if the call fails. *)
Position(p, fd) ==
  IF /\ fd \in DOMAIN p.pos
     /\ p.pos[fd] <= Len(p.fds)
     /\ p.fds[p.pos[fd]].fd = fd
  THEN p.pos[fd] ELSE 0

(* Mutant: the position of the moved descriptor is not updated, which the
   comment in Remove says some compilers do. *)
PositionsAfterRemoveStale(p, i) ==
  [g \in DOMAIN p.pos \ {p.fds[i].fd} |-> p.pos[g]]

PositionsAfterRemove(p, i) ==
  [g \in DOMAIN p.pos \ {p.fds[i].fd} |->
     IF g = Last(p.fds).fd THEN i ELSE p.pos[g]]

(* Mutant: an event is taken off the count whether or not there was one. *)
RemoveFdUncounted(p, fd) ==
  LET i == Position(p, fd)
  IN IF i = 0 THEN p
     ELSE [p EXCEPT !.fds = Front([p.fds EXCEPT ![i] = Last(p.fds)]),
                    !.pos = PositionsAfterRemove(p, i),
                    !.unreadcount = IF @ > 0 THEN @ - 1 ELSE 0]

(* The last descriptor takes the place of the removed one, its unreported
   event with it. *)
RemoveFd(p, fd) ==
  LET i == Position(p, fd)
  IN IF i = 0 THEN p
     ELSE [p EXCEPT !.fds = Front([p.fds EXCEPT ![i] = Last(p.fds)]),
                    !.pos = PositionsAfterRemove(p, i)]

ChangeEventSet(p, fd, flags) ==
  LET i == Position(p, fd)
  IN IF i = 0 THEN p ELSE [p EXCEPT !.fds[i].events = flags]

(* The event at slotindex k. *)
revents(p, k) == p.fds[(k % Len(p.fds)) + 1].revents

(* Mutant: the slot before the one the scan starts at is left out. *)
FirstFromOffByOne(p, from) ==
  {k \in from .. from + Len(p.fds) - 2 :
     revents(p, k) /\ \A j \in from .. k - 1 : ~revents(p, j)}

(* The first slot with an event from slot from on, all the way round. *)
FirstFrom(p, from) ==
  {k \in from .. from + Len(p.fds) - 1 :
     revents(p, k) /\ \A j \in from .. k - 1 : ~revents(p, j)}

(* Where FindNextEvent starts. *)
Rotation(p) == IF p.rotation >= Len(p.fds) THEN 0 ELSE p.rotation

(* FindNextEvent: the next event and the poller without it, if there is one. *)
FindNextEvent(p) ==
  IF p.unreadcount = 0 THEN {}
  ELSE {[fd |-> p.fds[(k % Len(p.fds)) + 1].fd,
         poll |-> [p EXCEPT !.fds[(k % Len(p.fds)) + 1].revents = FALSE,
                            !.rotation = Rotation(p) + 1,
                            !.unreadcount = @ - 1]] : k \in FirstFrom(p, Rotation(p))}

(* poll(), after FindNextEvent found nothing: the kernel writes every revents
   and returns how many it set. *)
SystemPoll(p) ==
  [p EXCEPT !.fds = [i \in DOMAIN p.fds |-> [p.fds[i] EXCEPT !.revents = p.fds[i].fd \in active]],
            !.rotation = IF p.unreadcount = 0 THEN @ ELSE Rotation(p),
            !.unreadcount = Cardinality({i \in DOMAIN p.fds : p.fds[i].fd \in active})]

-----------------------------------------------------------------------------
(***************************************************************************)
(* The TCP thread.                                                         *)
(***************************************************************************)
(* Mutant: off by one. *)
IsConnectionCountAboveMax == Cardinality(Open) > MaxConnections

IsConnectionCountAtMax == Cardinality(Open) >= MaxConnections

Init ==
  /\ poll = Created
  /\ listenOn = FALSE
  /\ role = 1
  /\ events = [f \in Fd |-> "none"]
  /\ old = {}
  /\ pc = "init"
  /\ event = NoEvent
  /\ active = {}
  /\ fNeedToExit = FALSE

(* SetListenSocketsOnEpoll: below the connection limit, as in Init, the
   listening sockets are on the poller, at the limit they are off it. *)
ListenSocketsAreSet ==
  /\ pc = "listen"
  /\ listenOn = ~IsConnectionCountAtMax
  /\ pc' = "wait"
  /\ UNCHANGED <<poll, listenOn, role, events, old, event, active, fNeedToExit>>

SetListenSocket ==
  /\ pc \in {"init", "listen"}
  /\ listenOn = IsConnectionCountAtMax
  /\ poll' = IF listenOn THEN RemoveFd(poll, Listen[role])
                         ELSE AddFd(poll, Listen[role], "read")
  /\ IF role < Len(Listen)
     THEN role' = role + 1 /\ UNCHANGED listenOn
     ELSE role' = 1 /\ listenOn' = ~listenOn
  /\ UNCHANGED <<events, old, pc, event, active, fNeedToExit>>

(* The end of Init. *)
AddPipe ==
  /\ pc = "init"
  /\ listenOn
  /\ poll' = AddFd(poll, Pipe, "read")
  /\ pc' = "listen"
  /\ UNCHANGED <<listenOn, role, events, old, event, active, fNeedToExit>>

(* WaitForNextEvent returns an event. *)
Report(next) ==
  /\ poll' = next.poll
  /\ IF fNeedToExit \/ next.fd = Pipe
     THEN pc' = "cleanup" /\ UNCHANGED event
     ELSE pc' = "event" /\ event' = next.fd
  /\ UNCHANGED <<role, listenOn, events, old, active, fNeedToExit>>

(* One that is left from the last poll(). *)
WaitFindsEvent ==
  /\ pc = "wait"
  /\ \E next \in FindNextEvent(poll) : Report(next)

(* None is left, and poll() reports some. *)
WaitPolls ==
  /\ pc = "wait"
  /\ FindNextEvent(poll) = {}
  /\ \E polled \in {SystemPoll(poll)} :
       \E next \in FindNextEvent(polled) : Report(next)

(* Nothing to report: the timeout, which there is only with a connection, or
   a poll() whose events FindNextEvent does not find. *)
WaitTimesOut ==
  /\ pc = "wait"
  /\ FindNextEvent(poll) = {}
  /\ \E polled \in {SystemPoll(poll)} :
       /\ FindNextEvent(polled) = {}
       /\ polled.unreadcount = 0 => Open # {}
       /\ poll' = polled
  /\ pc' = IF fNeedToExit THEN "cleanup" ELSE "sweep"
  /\ UNCHANGED <<role, listenOn, events, old, event, active, fNeedToExit>>

(* CloseConnection: the descriptor leaves the poller and may be used again. *)
CloseConnection(f) ==
  /\ poll' = RemoveFd(poll, f)
  /\ events' = [events EXCEPT ![f] = "none"]
  /\ old' = old \ {f}
  /\ active' = active \ {f}

(* What the handlers do with the connection on f, registered in p: they read
   or write until that would block, and then wait for the same or the other
   direction, or they close.  served is what is no longer active then. *)
Handle(p, f, served) ==
  /\ \/ /\ poll' = RemoveFd(p, f)
        /\ events' = [events EXCEPT ![f] = "none"]
        /\ old' = old \ {f}
     \/ \E flags \in {"read", "write"} :
          /\ poll' = ChangeEventSet(p, f, flags)
          /\ events' = [events EXCEPT ![f] = flags]
          /\ UNCHANGED old
  /\ active' = active \ served

(* AcceptConnection and the first read, or giving the new connection up at
   once.  More clients may be waiting behind the one that is accepted. *)
AcceptConnection ==
  /\ pc = "event"
  /\ event \in ListenSet \cap active
  /\ \E f \in Fd \ Open, served \in SUBSET {event} :
       \E p \in {AddFd(poll, f, "read")} : Handle(p, f, served)
  /\ event' = NoEvent
  /\ pc' = "sweep"
  /\ UNCHANGED <<role, listenOn, fNeedToExit>>

(* The client is gone again. *)
AcceptFindsNobody ==
  /\ pc = "event"
  /\ event \in ListenSet \ active
  /\ event' = NoEvent
  /\ pc' = "sweep"
  /\ UNCHANGED <<role, poll, listenOn, events, old, active, fNeedToExit>>

ProcessConnectionEvent ==
  /\ pc = "event"
  /\ event \in Fd
  /\ IF event \in Open THEN Handle(poll, event, {event}) ELSE UNCHANGED <<poll, events, old, active>>
  /\ event' = NoEvent
  /\ pc' = "sweep"
  /\ UNCHANGED <<role, listenOn, fNeedToExit>>

Loop == IF fNeedToExit THEN "cleanup" ELSE "listen"

(* SweepDeadConnections, when no sweep is due. *)
NoSweepDue ==
  /\ pc = "sweep"
  /\ pc' = Loop
  /\ UNCHANGED <<role, poll, listenOn, events, old, event, active, fNeedToExit>>

(* A sweep closes the old connections, in the order of their table... *)
SweepCloses ==
  /\ pc \in {"sweep", "sweeping"}
  /\ \E f \in old : CloseConnection(f)
  /\ pc' = "sweeping"
  /\ UNCHANGED <<role, listenOn, event, fNeedToExit>>

(* ...and exchanges the lists. *)
SweepSwaps ==
  /\ pc \in {"sweep", "sweeping"}
  /\ old = {}
  /\ old' = Open
  /\ pc' = Loop
  /\ UNCHANGED <<role, poll, listenOn, events, event, active, fNeedToExit>>

(* ThreadCleanup *)
CleanupCloses ==
  /\ pc = "cleanup"
  /\ \E f \in Open : CloseConnection(f)
  /\ UNCHANGED <<role, listenOn, pc, event, fNeedToExit>>

ThreadExits ==
  /\ pc = "cleanup"
  /\ Open = {}
  /\ pc' = "exit"
  /\ UNCHANGED <<role, poll, listenOn, events, old, event, active, fNeedToExit>>

(* Reset releases the poller; its destructor calls Close. *)
Close ==
  /\ pc = "exit"
  /\ poll' = [poll EXCEPT !.fds = <<>>, !.pos = <<>>]
  /\ listenOn' = FALSE
  /\ pc' = "gone"
  /\ UNCHANGED <<role, events, old, event, active, fNeedToExit>>

Run ==
  \/ ListenSocketsAreSet \/ SetListenSocket \/ AddPipe
  \/ WaitFindsEvent \/ WaitPolls \/ WaitTimesOut
  \/ AcceptConnection \/ AcceptFindsNobody \/ ProcessConnectionEvent
  \/ NoSweepDue \/ SweepCloses \/ SweepSwaps
  \/ CleanupCloses \/ ThreadExits

-----------------------------------------------------------------------------
(***************************************************************************)
(* The clients, and Stop in another thread.                                *)
(***************************************************************************)
BecomesActive(f) ==
  /\ pc \notin {"cleanup", "exit", "gone"}  \* nobody would notice
  /\ f \in (ListenSet \cup Open) \ active
  /\ active' = active \cup {f}
  /\ UNCHANGED <<role, poll, listenOn, events, old, pc, event, fNeedToExit>>

(* Whoever waited to be accepted is gone. *)
BecomesInactive(l) ==
  /\ pc \notin {"cleanup", "exit", "gone"}
  /\ l \in ListenSet \cap active
  /\ active' = active \ {l}
  /\ UNCHANGED <<role, poll, listenOn, events, old, pc, event, fNeedToExit>>

(* The flag and the pipe, the steps of which are in TcpStunThread. *)
Stop ==
  /\ pc # "init" /\ ~fNeedToExit
  /\ fNeedToExit' = TRUE
  /\ active' = active \cup {Pipe}
  /\ UNCHANGED <<poll, listenOn, role, events, old, pc, event>>

Others ==
  \/ \E f \in ListenSet \cup Fd : BecomesActive(f)
  \/ \E l \in ListenSet : BecomesInactive(l)
  \/ Stop

Next == Run \/ Others \/ Close

(* The thread is scheduled; clients and Stop do what they like. *)
Spec == Init /\ [][Next]_vars /\ WF_vars(Run)

-----------------------------------------------------------------------------
Registered == {poll.fds[i].fd : i \in DOMAIN poll.fds}

(***************************************************************************)
(* The hash table and the vector agree through every sequence of calls:    *)
(* each has exactly what the thread has registered, every position is the  *)
(* right one, and every connection has the event set the thread last asked *)
(* for.  Add ignores a full hash table, so this also says that the         *)
(* poller, made for _maxConnections + 5 sockets, never gets fuller.        *)
(***************************************************************************)
PositionsExact ==
  pc # "gone" =>
    /\ role = 1 =>
         Registered = Open \cup (IF pc = "init" THEN {} ELSE {Pipe})
                           \cup (IF listenOn THEN ListenSet ELSE {})
    /\ DOMAIN poll.pos = Registered
    /\ Len(poll.fds) = Cardinality(Registered)
    /\ \A f \in Registered : poll.pos[f] \in DOMAIN poll.fds /\ poll.fds[poll.pos[f]].fd = f
    /\ \A f \in Open : poll.fds[poll.pos[f]].events = events[f]

(***************************************************************************)
(* FindNextEvent stops looking when _unreadcount is 0, so the count may    *)
(* exceed the events that are left, as it does after Remove took one away  *)
(* (and ASSERT(_unreadcount == 0) in WaitForNextEvent then fails), but may *)
(* never fall short of them.                                               *)
(***************************************************************************)
EventsAccounted ==
  Cardinality({i \in DOMAIN poll.fds : poll.fds[i].revents}) <= poll.unreadcount

(***************************************************************************)
(* No event outlives the registration it belongs to, although descriptors  *)
(* are reused and events wait while others are handled: the thread is      *)
(* never given a closed connection, nor a listening socket once the        *)
(* connection limit is reached, so that --maxconn is kept exactly.         *)
(***************************************************************************)
EventsCurrent ==
  /\ Cardinality(Open) <= MaxConnections
  /\ pc = "event" =>
       /\ event \in Registered
       /\ event \in ListenSet => Cardinality(Open) < MaxConnections

(***************************************************************************)
(* No descriptor is passed over for ever by the rotation while others are  *)
(* busy, moved within the vector and come and go: one whose condition      *)
(* holds is reported to the thread, or is taken off the poller, or its     *)
(* condition ends, or the thread has been told to exit.                    *)
(***************************************************************************)
EveryEventReported ==
  \A f \in ListenSet \cup Fd :
    (f \in Registered /\ f \in active /\ event # f)
      ~> (event = f \/ f \notin Registered \/ f \notin active \/ fNeedToExit)
=============================================================================
