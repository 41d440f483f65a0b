-------------------------- MODULE PollServerProofs --------------------------
(***************************************************************************)
(* TLAPS proofs about PollServer, for any number of listening sockets and  *)
(* descriptors and any connection limit.                                   *)
(***************************************************************************)
EXTENDS PollServer, FiniteSetTheorems, TLAPS

Descriptor == Fd \cup ListenSet \cup {Pipe}

Slot == [fd : Descriptor, events : {"read", "write"}, revents : BOOLEAN]

(* What a poller is registered for, and where its unreported events are. *)
Fds(p) == {p.fds[i].fd : i \in DOMAIN p.fds}

Unread(p) == {i \in DOMAIN p.fds : p.fds[i].revents}

(* A poller whose hash table has every descriptor of the vector, at its
   position, and nothing else. *)
PollOK(p) ==
  /\ p = [fds |-> p.fds, pos |-> p.pos, rotation |-> p.rotation, unreadcount |-> p.unreadcount]
  /\ p.fds \in Seq(Slot) /\ p.rotation \in Nat /\ p.unreadcount \in Nat
  /\ DOMAIN p.pos = Fds(p)
  /\ \A i \in DOMAIN p.fds : p.pos[p.fds[i].fd] = i

Accounted(p) == Cardinality(Unread(p)) <= p.unreadcount

(* Every connection waits for what ev says. *)
Want(p, ev) == \A i \in DOMAIN p.fds : p.fds[i].fd \in Fd => p.fds[i].events = ev[p.fds[i].fd]

(* The listening sockets on the poller, while SetListenSocketsOnEpoll is at
   work too. *)
Listening ==
  IF listenOn THEN {Listen[i] : i \in role .. Len(Listen)}
              ELSE {Listen[i] : i \in 1 .. role - 1}

PollInv ==
  pc # "gone" => /\ PollOK(poll) /\ Want(poll, events)
                 /\ Fds(poll) = Open \cup (IF pc = "init" THEN {} ELSE {Pipe}) \cup Listening

ControlInv ==
  /\ role \in 1 .. Len(Listen) /\ listenOn \in BOOLEAN /\ fNeedToExit \in BOOLEAN
  /\ events \in [Fd -> {"none", "read", "write"}] /\ old \subseteq Open
  /\ pc \in {"init", "listen", "wait", "event", "sweep", "sweeping", "cleanup", "exit", "gone"}
  /\ Cardinality(Open) <= MaxConnections
  /\ pc = "init" => Open = {}
  /\ role # 1 => pc \in {"init", "listen"} /\ (listenOn <=> IsConnectionCountAtMax)
  /\ pc \in {"wait", "event"} => (listenOn <=> ~IsConnectionCountAtMax)
  /\ pc = "event" => event \in Fds(poll) \ {Pipe}

(* The inductive invariant. *)
Inv == ControlInv /\ PollInv /\ Accounted(poll)

-----------------------------------------------------------------------------
(* The unreported events are finitely many. *)
LEMMA UnreadFinite ==
  ASSUME NEW p, PollOK(p)
  PROVE  /\ Len(p.fds) \in Nat /\ DOMAIN p.fds = 1 .. Len(p.fds)
         /\ IsFiniteSet(Unread(p)) /\ Cardinality(Unread(p)) \in Nat
<1>1. Len(p.fds) \in Nat /\ DOMAIN p.fds = 1 .. Len(p.fds)
  BY DEF PollOK
<1>2. IsFiniteSet(1 .. Len(p.fds))
  BY <1>1, FS_Interval
<1>3. IsFiniteSet(Unread(p))
  BY <1>1, <1>2, FS_Subset DEF Unread
<1>4. QED BY <1>1, <1>3, FS_CardinalityType

(* The vector has one slot for every registered descriptor. *)
LEMMA OneSlotEach ==
  ASSUME NEW p, PollOK(p)
  PROVE  IsFiniteSet(Fds(p)) /\ Cardinality(Fds(p)) = Len(p.fds)
<1>1. Len(p.fds) \in Nat /\ DOMAIN p.fds = 1 .. Len(p.fds)
  BY UnreadFinite
<1> DEFINE g == [i \in 1 .. Len(p.fds) |-> p.fds[i].fd]
<1>2. g \in Bijection(1 .. Len(p.fds), Fds(p))
  BY <1>1 DEF PollOK, Fds, Bijection, Injection, Surjection, IsInjective
<1>3. IsFiniteSet(1 .. Len(p.fds)) /\ Cardinality(1 .. Len(p.fds)) = Len(p.fds)
  BY <1>1, FS_Interval
<1>4. ExistsBijection(1 .. Len(p.fds), Fds(p))
  BY <1>2 DEF ExistsBijection
<1>5. QED BY <1>3, <1>4, FS_SameCardinalityBij, FS_Bijection

(* Add, while the hash table has a free node. *)
LEMMA AddFdFacts ==
  ASSUME NEW p, PollOK(p), NEW fd \in Descriptor, fd \notin Fds(p),
         NEW flags \in {"read", "write"}, Cardinality(Fds(p)) < maxSockets
  PROVE  LET q == AddFd(p, fd, flags) IN
         /\ PollOK(q) /\ Fds(q) = Fds(p) \cup {fd} /\ (Accounted(p) => Accounted(q))
         /\ \A ev : Want(p, ev) /\ (fd \in Fd => ev[fd] = flags) => Want(q, ev)
<1> DEFINE q == AddFd(p, fd, flags)
           n == Len(p.fds)
           slot == [fd |-> fd, events |-> flags, revents |-> FALSE]
<1>1. n \in Nat /\ DOMAIN p.fds = 1 .. n
  BY UnreadFinite
<1>2. slot \in Slot
  BY DEF Slot
<1>3. q = [fds |-> Append(p.fds, slot), pos |-> HashInsert(p.pos, fd, n + 1),
           rotation |-> p.rotation, unreadcount |-> p.unreadcount]
  BY DEF AddFd, PollOK
<1>4. HashInsert(p.pos, fd, n + 1) = [g \in Fds(p) \cup {fd} |-> IF g = fd THEN n + 1 ELSE p.pos[g]]
  BY DEF HashInsert, PollOK
<1>5. /\ q.fds = Append(p.fds, slot) /\ q.rotation = p.rotation /\ q.unreadcount = p.unreadcount
      /\ q.pos = [g \in Fds(p) \cup {fd} |-> IF g = fd THEN n + 1 ELSE p.pos[g]]
      /\ q = [fds |-> q.fds, pos |-> q.pos, rotation |-> q.rotation, unreadcount |-> q.unreadcount]
  BY <1>3, <1>4
<1> HIDE DEF q, slot
<1>6. /\ q.fds \in Seq(Slot) /\ DOMAIN q.fds = 1 .. n + 1
      /\ \A i \in 1 .. n : q.fds[i] = p.fds[i]
      /\ q.fds[n + 1] = slot
  BY <1>1, <1>2, <1>5 DEF PollOK
<1>7. slot.fd = fd /\ slot.events = flags /\ slot.revents = FALSE
  BY DEF slot
<1>8. Fds(q) = Fds(p) \cup {fd}
  <2>1. \A i \in 1 .. n + 1 : i \in 1 .. n \/ i = n + 1
    BY <1>1
  <2>2. n + 1 \in 1 .. n + 1 /\ \A i \in 1 .. n : i \in 1 .. n + 1
    BY <1>1
  <2> HIDE DEF n
  <2>3. QED BY <1>1, <1>6, <1>7, <2>1, <2>2 DEF Fds
<1>9. \A i \in DOMAIN q.fds : q.pos[q.fds[i].fd] = i
  BY <1>1, <1>5, <1>6, <1>7 DEF PollOK, Fds
<1>10. PollOK(q)
  BY <1>5, <1>6, <1>8, <1>9 DEF PollOK
<1>11. Unread(q) = Unread(p)
  BY <1>1, <1>6, <1>7 DEF Unread
<1>12. ASSUME NEW ev, Want(p, ev), fd \in Fd => ev[fd] = flags
       PROVE  Want(q, ev)
  <2>1. ASSUME NEW i \in 1 .. n + 1, q.fds[i].fd \in Fd
        PROVE  q.fds[i].events = ev[q.fds[i].fd]
    <3>1. CASE i = n + 1
      BY <1>6, <1>7, <1>12, <2>1, <3>1
    <3>2. CASE i # n + 1
      <4>1. i \in DOMAIN p.fds /\ q.fds[i] = p.fds[i]
        BY <1>1, <1>6, <3>2
      <4>2. QED BY <1>12, <2>1, <4>1 DEF Want
    <3>3. QED BY <3>1, <3>2
  <2>2. QED BY <1>6, <2>1 DEF Want
<1>13. Accounted(p) => Accounted(q)
  BY <1>5, <1>11 DEF Accounted
<1>14. QED BY <1>8, <1>10, <1>12, <1>13 DEF q

(* Where the descriptors of a correct poller are. *)
LEMMA PositionFacts ==
  ASSUME NEW p, PollOK(p), NEW fd \in Fds(p)
  PROVE  Position(p, fd) \in DOMAIN p.fds /\ p.fds[Position(p, fd)].fd = fd
<1>1. PICK i \in DOMAIN p.fds : p.fds[i].fd = fd
  BY DEF Fds
<1>2. p.pos[fd] = i /\ fd \in DOMAIN p.pos
  BY <1>1 DEF PollOK
<1>3. DOMAIN p.fds = 1 .. Len(p.fds) /\ Len(p.fds) \in Nat
  BY UnreadFinite
<1>4. Position(p, fd) = i
  BY <1>1, <1>2, <1>3 DEF Position
<1>5. QED BY <1>1, <1>4

(* Remove: the last slot moves, and its event with it. *)
LEMMA RemoveFdFacts ==
  ASSUME NEW p, PollOK(p), NEW fd \in Fds(p)
  PROVE  LET q == RemoveFd(p, fd) IN
         /\ PollOK(q) /\ Fds(q) = Fds(p) \ {fd} /\ (Accounted(p) => Accounted(q))
         /\ \A ev, ew : Want(p, ev) /\ (\A f \in Fd \ {fd} : ew[f] = ev[f]) => Want(q, ew)
<1> DEFINE q == RemoveFd(p, fd)
           n == Len(p.fds)
           i == Position(p, fd)
<1>1. n \in Nat /\ DOMAIN p.fds = 1 .. n
  BY UnreadFinite
<1>2. i \in 1 .. n /\ p.fds[i].fd = fd
  BY <1>1, PositionFacts
<1> HIDE DEF i
<1>3. q = [fds |-> Front([p.fds EXCEPT ![i] = Last(p.fds)]), pos |-> PositionsAfterRemove(p, i),
           rotation |-> p.rotation, unreadcount |-> p.unreadcount]
  <2>1. i # 0
    BY <1>1, <1>2
  <2>2. q = [p EXCEPT !.fds = Front([p.fds EXCEPT ![i] = Last(p.fds)]),
                      !.pos = PositionsAfterRemove(p, i)]
    BY <2>1 DEF RemoveFd, i
  <2>3. QED BY <2>2 DEF PollOK
<1>4. /\ q.fds = Front([p.fds EXCEPT ![i] = Last(p.fds)]) /\ q.pos = PositionsAfterRemove(p, i)
      /\ q.rotation = p.rotation /\ q.unreadcount = p.unreadcount
      /\ q = [fds |-> q.fds, pos |-> q.pos, rotation |-> q.rotation, unreadcount |-> q.unreadcount]
  BY <1>3
<1> HIDE DEF q
<1>5. /\ q.fds \in Seq(Slot) /\ DOMAIN q.fds = 1 .. n - 1
      /\ \A j \in 1 .. n - 1 : q.fds[j] = IF j = i THEN p.fds[n] ELSE p.fds[j]
  <2> DEFINE r == [p.fds EXCEPT ![i] = p.fds[n]]
  <2>1. r \in Seq(Slot) /\ Len(r) = n /\ \A j \in 1 .. n : r[j] = IF j = i THEN p.fds[n] ELSE p.fds[j]
    BY <1>1, <1>2 DEF PollOK
  <2> HIDE DEF r
  <2>2. q.fds = SubSeq(r, 1, n - 1)
    BY <1>4, <2>1 DEF Front, Last, r
  <2>3. n \in Nat /\ n > 0
    BY <1>1, <1>2
  <2> HIDE DEF n
  <2>4. \A j \in 1 .. n - 1 : j \in 1 .. n /\ r[j] \in Slot
    BY <2>1, <2>3
  <2>5. q.fds = [j \in 1 .. n - 1 |-> r[j]]
    BY <2>1, <2>2, <2>3
  <2>6. q.fds \in Seq(Slot)
    BY <2>3, <2>4, <2>5
  <2>7. QED BY <2>1, <2>4, <2>5, <2>6
<1>6. \A j, k \in 1 .. n : p.fds[j].fd = p.fds[k].fd => j = k
  BY <1>1 DEF PollOK
<1>7. Fds(q) = Fds(p) \ {fd}
  <2>1. ASSUME NEW j \in 1 .. n - 1
        PROVE  \E k \in 1 .. n : k # i /\ q.fds[j] = p.fds[k]
    BY <1>1, <1>2, <1>5
  <2>2. ASSUME NEW k \in 1 .. n, k # i
        PROVE  \E j \in 1 .. n - 1 : q.fds[j] = p.fds[k]
    BY <1>1, <1>2, <1>5, <2>2
  <2> HIDE DEF n
  <2>3. ASSUME NEW f \in Fds(q) PROVE f \in Fds(p) \ {fd}
    <3>1. PICK j \in 1 .. n - 1 : f = q.fds[j].fd
      BY <1>5, <2>3 DEF Fds
    <3>2. PICK k \in 1 .. n : k # i /\ q.fds[j] = p.fds[k]
      BY <2>1
    <3>3. f = p.fds[k].fd /\ f # p.fds[i].fd
      BY <1>2, <1>6, <3>1, <3>2
    <3>4. QED BY <1>1, <1>2, <3>3 DEF Fds
  <2>4. ASSUME NEW f \in Fds(p), f # fd PROVE f \in Fds(q)
    <3>1. PICK k \in 1 .. n : f = p.fds[k].fd
      BY <1>1, <2>4 DEF Fds
    <3>2. k # i
      BY <1>2, <2>4, <3>1
    <3>3. PICK j \in 1 .. n - 1 : q.fds[j] = p.fds[k]
      BY <2>2, <3>2
    <3>4. QED BY <1>5, <3>1, <3>3 DEF Fds
  <2>5. QED BY <2>3, <2>4
<1>8. q.pos = [g \in Fds(p) \ {fd} |-> IF g = p.fds[n].fd THEN i ELSE p.pos[g]]
  BY <1>2, <1>4 DEF PositionsAfterRemove, Last, PollOK
<1>9. \A j \in DOMAIN q.fds : q.pos[q.fds[j].fd] = j
  <2> SUFFICES ASSUME NEW j \in 1 .. n - 1 PROVE q.pos[q.fds[j].fd] = j
    BY <1>5
  <2>1. q.fds[j].fd \in Fds(p) \ {fd}
    BY <1>5, <1>7 DEF Fds
  <2>2. CASE j = i
    BY <1>5, <1>8, <2>1, <2>2
  <2>3. CASE j # i
    <3>1. q.fds[j] = p.fds[j] /\ j \in 1 .. n /\ n \in 1 .. n /\ j # n
      BY <1>1, <1>5, <2>3
    <3>2. p.fds[j].fd # p.fds[n].fd
      BY <1>6, <3>1
    <3>3. p.pos[p.fds[j].fd] = j
      BY <1>1, <3>1 DEF PollOK
    <3>4. QED BY <1>8, <2>1, <3>1, <3>2, <3>3
  <2>4. QED BY <2>2, <2>3
<1>10. PollOK(q)
  BY <1>4, <1>5, <1>7, <1>8, <1>9 DEF PollOK
<1>11. Cardinality(Unread(q)) <= Cardinality(Unread(p))
  <2>1. /\ IsFiniteSet(Unread(p)) /\ Cardinality(Unread(p)) \in Nat
        /\ IsFiniteSet(Unread(q)) /\ Cardinality(Unread(q)) \in Nat
    BY <1>10, UnreadFinite
  <2>2. CASE n \in Unread(p) /\ i # n
    <3> DEFINE U == Unread(p) \ {n}
    <3>1. IsFiniteSet(U) /\ Cardinality(U) = Cardinality(Unread(p)) - 1
      BY <2>1, <2>2, FS_RemoveElement
    <3>2. IsFiniteSet(U \cup {i}) /\ Cardinality(U \cup {i}) <= Cardinality(U) + 1
      <4>1. Cardinality(U) \in Nat
        BY <3>1, FS_CardinalityType
      <4>2. CASE i \in U
        <5>1. U \cup {i} = U
          BY <4>2
        <5>2. Cardinality(U) <= Cardinality(U) + 1
          BY <4>1
        <5>3. QED BY <3>1, <5>1, <5>2, Zenon
      <4>3. CASE i \notin U
        <5>1. IsFiniteSet(U \cup {i}) /\ Cardinality(U \cup {i}) = Cardinality(U) + 1
          BY <3>1, <4>3, FS_AddElement
        <5>2. QED BY <4>1, <5>1
      <4>4. QED BY <4>2, <4>3
    <3>3. Unread(q) \subseteq U \cup {i}
      BY <1>1, <1>5 DEF Unread
    <3>4. Cardinality(Unread(q)) <= Cardinality(U \cup {i})
      BY <3>2, <3>3, FS_Subset
    <3>5. Cardinality(U \cup {i}) \in Nat
      BY <3>2, FS_CardinalityType
    <3> HIDE DEF U
    <3>6. QED BY <2>1, <3>1, <3>2, <3>4, <3>5
  <2>3. CASE ~(n \in Unread(p) /\ i # n)
    <3>1. Unread(q) \subseteq Unread(p)
      BY <1>1, <1>2, <1>5, <2>3 DEF Unread
    <3>2. QED BY <2>1, <3>1, FS_Subset
  <2>4. QED BY <2>2, <2>3
<1>12. Accounted(p) => Accounted(q)
  <2>1. Cardinality(Unread(p)) \in Nat /\ Cardinality(Unread(q)) \in Nat /\ p.unreadcount \in Nat
    BY <1>10, UnreadFinite DEF PollOK
  <2>2. QED BY <1>4, <1>11, <2>1 DEF Accounted
<1>13. ASSUME NEW ev, NEW ew, Want(p, ev), \A f \in Fd \ {fd} : ew[f] = ev[f]
       PROVE  Want(q, ew)
  <2> SUFFICES ASSUME NEW j \in 1 .. n - 1, q.fds[j].fd \in Fd
               PROVE  q.fds[j].events = ew[q.fds[j].fd]
    BY <1>5 DEF Want
  <2>1. PICK k \in 1 .. n : q.fds[j] = p.fds[k]
    BY <1>1, <1>2, <1>5
  <2>2. q.fds[j].fd # fd
    BY <1>5, <1>7 DEF Fds
  <2>3. QED BY <1>1, <1>13, <2>1, <2>2 DEF Want
<1>14. QED BY <1>7, <1>10, <1>12, <1>13 DEF q

(* A poller with the same descriptors at the same positions is as correct. *)
LEMMA SamePlaces ==
  ASSUME NEW p, PollOK(p), NEW q,
         q = [fds |-> q.fds, pos |-> q.pos, rotation |-> q.rotation, unreadcount |-> q.unreadcount],
         q.fds \in Seq(Slot), q.rotation \in Nat, q.unreadcount \in Nat, q.pos = p.pos,
         DOMAIN q.fds = DOMAIN p.fds, \A i \in DOMAIN p.fds : q.fds[i].fd = p.fds[i].fd
  PROVE  PollOK(q) /\ Fds(q) = Fds(p)
<1>1. Fds(q) = Fds(p)
  BY DEF Fds
<1>2. QED BY <1>1 DEF PollOK

(* ChangeEventSet alters the event set of one descriptor and nothing else. *)
LEMMA ChangeEventSetFacts ==
  ASSUME NEW p, PollOK(p), NEW fd \in Fds(p), NEW flags \in {"read", "write"}
  PROVE  LET q == ChangeEventSet(p, fd, flags) IN
         /\ PollOK(q) /\ Fds(q) = Fds(p) /\ (Accounted(p) => Accounted(q))
         /\ \A ev, ew : Want(p, ev) /\ (\A f \in Fd \ {fd} : ew[f] = ev[f]) /\ ew[fd] = flags
                          => Want(q, ew)
<1> DEFINE q == ChangeEventSet(p, fd, flags)
           n == Len(p.fds)
           i == Position(p, fd)
           slot == [p.fds[i] EXCEPT !.events = flags]
<1>1. n \in Nat /\ DOMAIN p.fds = 1 .. n
  BY UnreadFinite
<1>2. i \in 1 .. n /\ p.fds[i].fd = fd
  BY <1>1, PositionFacts
<1> HIDE DEF i
<1>3. q = [fds |-> [p.fds EXCEPT ![i] = slot], pos |-> p.pos,
           rotation |-> p.rotation, unreadcount |-> p.unreadcount]
  <2>1. i # 0
    BY <1>1, <1>2
  <2>2. q = [p EXCEPT !.fds[i].events = flags]
    BY <2>1 DEF ChangeEventSet, i
  <2>3. QED BY <2>2 DEF PollOK
<1>4. /\ q.fds = [p.fds EXCEPT ![i] = slot] /\ q.pos = p.pos
      /\ q.rotation = p.rotation /\ q.unreadcount = p.unreadcount
      /\ q = [fds |-> q.fds, pos |-> q.pos, rotation |-> q.rotation, unreadcount |-> q.unreadcount]
  BY <1>3
<1>5. p.fds[i] \in Slot
  BY <1>1, <1>2 DEF PollOK
<1>6. slot \in Slot /\ slot.fd = fd /\ slot.events = flags /\ slot.revents = p.fds[i].revents
  BY <1>2, <1>5 DEF Slot
<1> HIDE DEF q, slot
<1>7. /\ q.fds \in Seq(Slot) /\ DOMAIN q.fds = DOMAIN p.fds
      /\ \A j \in DOMAIN p.fds : q.fds[j] = IF j = i THEN slot ELSE p.fds[j]
  BY <1>1, <1>2, <1>4, <1>6 DEF PollOK
<1>8. PollOK(q) /\ Fds(q) = Fds(p)
  <2>1. \A j \in DOMAIN p.fds : q.fds[j].fd = p.fds[j].fd
    BY <1>2, <1>6, <1>7
  <2>2. p.rotation \in Nat /\ p.unreadcount \in Nat
    BY DEF PollOK
  <2>3. QED BY <1>4, <1>7, <2>1, <2>2, SamePlaces
<1>9. Unread(q) = Unread(p)
  BY <1>6, <1>7 DEF Unread
<1>10. Accounted(p) => Accounted(q)
  BY <1>4, <1>9 DEF Accounted
<1>11. ASSUME NEW ev, NEW ew, Want(p, ev), \A f \in Fd \ {fd} : ew[f] = ev[f], ew[fd] = flags
       PROVE  Want(q, ew)
  <2> SUFFICES ASSUME NEW j \in DOMAIN p.fds, q.fds[j].fd \in Fd
               PROVE  q.fds[j].events = ew[q.fds[j].fd]
    BY <1>7 DEF Want
  <2>1. CASE j = i
    BY <1>6, <1>7, <1>11, <2>1
  <2>2. CASE j # i
    <3>1. q.fds[j] = p.fds[j] /\ p.fds[j].fd # fd
      BY <1>1, <1>2, <1>7, <2>2 DEF PollOK
    <3>2. QED BY <1>11, <3>1 DEF Want
  <2>3. QED BY <2>1, <2>2
<1>12. QED BY <1>8, <1>10, <1>11 DEF q

(* A rotation stays within the vector. *)
LEMMA ModFacts ==
  ASSUME NEW n \in Nat, n # 0, NEW k \in Nat
  PROVE  (k % n) + 1 \in 1 .. n
  OBVIOUS

(* FindNextEvent takes one event off, and off the count. *)
LEMMA FindNextEventFacts ==
  ASSUME NEW p, PollOK(p), NEW next \in FindNextEvent(p)
  PROVE  /\ PollOK(next.poll) /\ Fds(next.poll) = Fds(p) /\ next.fd \in Fds(p)
         /\ Accounted(p) => Accounted(next.poll)
         /\ \A ev : Want(p, ev) => Want(next.poll, ev)
<1> DEFINE n == Len(p.fds)
<1>1. n \in Nat /\ DOMAIN p.fds = 1 .. n
  BY UnreadFinite
<1>2. p.unreadcount # 0 /\ p.unreadcount \in Nat /\ p.rotation \in Nat
  BY DEF FindNextEvent, PollOK
<1>3. PICK k \in FirstFrom(p, Rotation(p)) :
        next = [fd |-> p.fds[(k % n) + 1].fd,
                poll |-> [p EXCEPT !.fds[(k % n) + 1].revents = FALSE,
                                   !.rotation = Rotation(p) + 1, !.unreadcount = @ - 1]]
  BY <1>2 DEF FindNextEvent
<1>4. Rotation(p) \in Nat
  BY <1>2 DEF Rotation
<1>5. k \in Rotation(p) .. Rotation(p) + n - 1 /\ revents(p, k)
  BY <1>3 DEF FirstFrom
<1> DEFINE i == (k % n) + 1
           slot == [p.fds[i] EXCEPT !.revents = FALSE]
           q == next.poll
<1>6. i \in 1 .. n
  <2>1. n # 0 /\ k \in Nat
    BY <1>1, <1>4, <1>5
  <2>2. QED BY <1>1, <2>1, ModFacts
<1>7. p.fds[i].revents
  BY <1>5 DEF revents
<1> HIDE DEF i
<1>8. q = [fds |-> [p.fds EXCEPT ![i] = slot], pos |-> p.pos,
           rotation |-> Rotation(p) + 1, unreadcount |-> p.unreadcount - 1]
  <2>1. q = [p EXCEPT !.fds[i].revents = FALSE, !.rotation = Rotation(p) + 1, !.unreadcount = @ - 1]
    BY <1>3 DEF i
  <2>2. QED BY <2>1 DEF PollOK
<1>9. next.fd = p.fds[i].fd
  BY <1>3 DEF i
<1> HIDE DEF q
<1>10. /\ q.fds = [p.fds EXCEPT ![i] = slot] /\ q.pos = p.pos
       /\ q.rotation = Rotation(p) + 1 /\ q.unreadcount = p.unreadcount - 1
       /\ q = [fds |-> q.fds, pos |-> q.pos, rotation |-> q.rotation, unreadcount |-> q.unreadcount]
  BY <1>8
<1>11. p.fds[i] \in Slot
  BY <1>1, <1>6 DEF PollOK
<1>12. slot \in Slot /\ slot.fd = p.fds[i].fd /\ slot.events = p.fds[i].events /\ slot.revents = FALSE
  BY <1>11 DEF Slot
<1> HIDE DEF slot
<1>13. /\ q.fds \in Seq(Slot) /\ DOMAIN q.fds = DOMAIN p.fds
       /\ \A j \in DOMAIN p.fds : q.fds[j] = IF j = i THEN slot ELSE p.fds[j]
  BY <1>1, <1>6, <1>10, <1>12 DEF PollOK
<1>14. PollOK(q) /\ Fds(q) = Fds(p)
  <2>1. \A j \in DOMAIN p.fds : q.fds[j].fd = p.fds[j].fd
    BY <1>12, <1>13
  <2>2. Rotation(p) + 1 \in Nat /\ p.unreadcount - 1 \in Nat
    BY <1>2, <1>4
  <2>3. QED BY <1>10, <1>13, <2>1, <2>2, SamePlaces
<1>15. Accounted(p) => Accounted(q)
  <2>1. Unread(q) = Unread(p) \ {i} /\ i \in Unread(p)
    BY <1>1, <1>6, <1>7, <1>12, <1>13 DEF Unread
  <2>2. IsFiniteSet(Unread(p)) /\ Cardinality(Unread(p)) \in Nat
    BY UnreadFinite
  <2>3. Cardinality(Unread(q)) = Cardinality(Unread(p)) - 1
    BY <2>1, <2>2, FS_RemoveElement
  <2>4. QED BY <1>2, <1>10, <2>2, <2>3 DEF Accounted
<1>16. ASSUME NEW ev, Want(p, ev) PROVE Want(q, ev)
  BY <1>12, <1>13, <1>16 DEF Want
<1>17. next.fd \in Fds(p)
  BY <1>1, <1>6, <1>9 DEF Fds
<1>18. QED BY <1>14, <1>15, <1>16, <1>17 DEF q

(* Whether x is in S is a Boolean, for the type of revents. *)
LEMMA MembershipIsBoolean ==
  ASSUME NEW x, NEW S
  PROVE  (x \in S) \in BOOLEAN
<1>1. CASE x \in S
  BY <1>1
<1>2. CASE x \notin S
  BY <1>2
<1>3. QED BY <1>1, <1>2

(* poll() sets every event and returns their number. *)
LEMMA SystemPollFacts ==
  ASSUME NEW p, PollOK(p)
  PROVE  LET q == SystemPoll(p) IN
         /\ PollOK(q) /\ Fds(q) = Fds(p) /\ Accounted(q)
         /\ \A ev : Want(p, ev) => Want(q, ev)
<1> DEFINE q == SystemPoll(p)
           n == Len(p.fds)
           ready == {i \in DOMAIN p.fds : p.fds[i].fd \in active}
           new == [i \in DOMAIN p.fds |-> [p.fds[i] EXCEPT !.revents = p.fds[i].fd \in active]]
<1>1. n \in Nat /\ DOMAIN p.fds = 1 .. n
  BY UnreadFinite
<1>2. /\ q.fds = new /\ q.pos = p.pos /\ q.unreadcount = Cardinality(ready)
      /\ q.rotation = IF p.unreadcount = 0 THEN p.rotation ELSE Rotation(p)
      /\ q = [fds |-> q.fds, pos |-> q.pos, rotation |-> q.rotation, unreadcount |-> q.unreadcount]
  <2>1. q = [fds |-> new, pos |-> p.pos,
             rotation |-> IF p.unreadcount = 0 THEN p.rotation ELSE Rotation(p),
             unreadcount |-> Cardinality(ready)]
    <3>1. q = [p EXCEPT !.fds = new,
                        !.rotation = IF p.unreadcount = 0 THEN @ ELSE Rotation(p),
                        !.unreadcount = Cardinality(ready)]
      BY Zenon DEF SystemPoll
    <3> HIDE DEF q, new, ready
    <3>2. QED BY <3>1 DEF PollOK
  <2> HIDE DEF q, new, ready
  <2>2. QED BY <2>1
<1>3. \A i \in DOMAIN p.fds : /\ new[i] \in Slot /\ new[i].fd = p.fds[i].fd
                              /\ new[i].events = p.fds[i].events
                              /\ new[i].revents = (p.fds[i].fd \in active)
  <2> SUFFICES ASSUME NEW i \in DOMAIN p.fds
               PROVE  /\ new[i] \in Slot /\ new[i].fd = p.fds[i].fd
                      /\ new[i].events = p.fds[i].events
                      /\ new[i].revents = (p.fds[i].fd \in active)
    OBVIOUS
  <2>1. p.fds[i] \in Slot
    BY DEF PollOK
  <2> DEFINE b == p.fds[i].fd \in active
  <2>2. b \in BOOLEAN /\ new[i] = [p.fds[i] EXCEPT !.revents = b]
    <3>1. b \in BOOLEAN
      BY MembershipIsBoolean, Zenon
    <3>2. new[i] = [p.fds[i] EXCEPT !.revents = b]
      BY Zenon
    <3>3. QED BY <3>1, <3>2
  <2> HIDE DEF b, new
  <2>3. QED BY <2>1, <2>2 DEF Slot, b
<1>4. new \in Seq(Slot) /\ DOMAIN new = DOMAIN p.fds
  <2>1. new = [i \in DOMAIN p.fds |-> new[i]]
    BY Zenon
  <2> HIDE DEF new, n
  <2>2. new \in [1 .. n -> Slot]
    BY <1>1, <1>3, <2>1
  <2>3. QED BY <1>1, <2>2
<1>5. IsFiniteSet(ready) /\ Cardinality(ready) \in Nat
  <2>1. IsFiniteSet(1 .. n)
    <3>1. 1 \in Int /\ n \in Int
      BY <1>1
    <3>2. QED BY <3>1, FS_Interval, Zenon
  <2>2. IsFiniteSet(ready)
    BY <1>1, <2>1, FS_Subset
  <2>3. QED BY <2>2, FS_CardinalityType
<1>6. q.rotation \in Nat
  BY <1>2 DEF Rotation, PollOK
<1> HIDE DEF q, new
<1>7. PollOK(q) /\ Fds(q) = Fds(p)
  BY <1>2, <1>3, <1>4, <1>5, <1>6, SamePlaces
<1>8. Unread(q) = ready
  BY <1>2, <1>3, <1>4 DEF Unread
<1>9. Accounted(q)
  BY <1>2, <1>5, <1>8 DEF Accounted
<1>10. ASSUME NEW ev, Want(p, ev) PROVE Want(q, ev)
  BY <1>2, <1>3, <1>4, <1>10 DEF Want
<1>11. QED BY <1>7, <1>9, <1>10 DEF q

-----------------------------------------------------------------------------
(* The sockets are finitely many and different from each other. *)
LEMMA Sockets ==
  /\ Len(Listen) \in Nat \ {0} /\ \A i \in 1 .. Len(Listen) : Listen[i] \in ListenSet
  /\ IsFiniteSet(ListenSet) /\ Cardinality(ListenSet) = Len(Listen)
  /\ \A i, j \in 1 .. Len(Listen) : Listen[i] = Listen[j] => i = j
  /\ ListenSet = {Listen[i] : i \in 1 .. Len(Listen)}
<1>1. Len(Listen) \in Nat /\ DOMAIN Listen = 1 .. Len(Listen) /\ Len(Listen) # 0
  BY PollAssumption
<1>2. ListenSet = {Listen[i] : i \in 1 .. Len(Listen)}
  BY <1>1 DEF ListenSet, ToSet
<1>3. \A i, j \in 1 .. Len(Listen) : Listen[i] = Listen[j] => i = j
  BY <1>1, PollAssumption DEF IsInjective
<1> DEFINE g == [i \in 1 .. Len(Listen) |-> Listen[i]]
<1>4. g \in Bijection(1 .. Len(Listen), ListenSet)
  BY <1>1, <1>2, <1>3 DEF Bijection, Injection, Surjection, IsInjective
<1>5. IsFiniteSet(1 .. Len(Listen)) /\ Cardinality(1 .. Len(Listen)) = Len(Listen)
  BY <1>1, FS_Interval
<1>6. ExistsBijection(1 .. Len(Listen), ListenSet)
  BY <1>4 DEF ExistsBijection
<1>7. IsFiniteSet(ListenSet) /\ Cardinality(ListenSet) = Len(Listen)
  BY <1>5, <1>6, FS_SameCardinalityBij, FS_Bijection
<1>8. QED BY <1>1, <1>2, <1>3, <1>7

(* The sizes the poller is created with. *)
LEMMA Limits ==
  /\ Len(Listen) \in Nat \ {0} /\ MaxConnections \in Nat \ {0} /\ Spare \in Nat
  /\ Spare > Len(Listen) /\ maxSockets = MaxConnections + Spare
  BY Sockets, PollAssumption DEF maxSockets

(* Pipe, listening sockets and connections are different descriptors. *)
LEMMA Apart ==
  Pipe \notin ListenSet /\ Pipe \notin Fd /\ Fd \cap ListenSet = {}
  BY PollAssumption

(* The poller has room for a descriptor while these many are registered. *)
LEMMA Room ==
  ASSUME NEW A, IsFiniteSet(A), NEW L, IsFiniteSet(L),
         Cardinality(A) + 1 + Cardinality(L) < maxSockets, NEW S \in SUBSET (A \cup {Pipe} \cup L)
  PROVE  Cardinality(S) < maxSockets
<1> DEFINE B == A \cup {Pipe}
<1>1. IsFiniteSet(B) /\ Cardinality(B) <= Cardinality(A) + 1
  <2>1. Cardinality(A) \in Nat
    BY FS_CardinalityType
  <2>2. CASE Pipe \in A
    <3>1. B = A
      BY <2>2
    <3> HIDE DEF B
    <3>2. QED BY <2>1, <3>1
  <2>3. CASE Pipe \notin A
    <3>1. IsFiniteSet(B) /\ Cardinality(B) = Cardinality(A) + 1
      BY <2>3, FS_AddElement
    <3> HIDE DEF B
    <3>2. QED BY <2>1, <3>1
  <2>4. QED BY <2>2, <2>3
<1> HIDE DEF B
<1>2. /\ IsFiniteSet(B \cup L)
      /\ Cardinality(B \cup L) = Cardinality(B) + Cardinality(L) - Cardinality(B \cap L)
  BY <1>1, FS_Union
<1>3. IsFiniteSet(B \cap L)
  BY <1>1, FS_Intersection
<1>4. /\ Cardinality(A) \in Nat /\ Cardinality(B) \in Nat /\ Cardinality(L) \in Nat
      /\ Cardinality(B \cap L) \in Nat
  BY <1>1, <1>3, FS_CardinalityType
<1>5. S \subseteq B \cup L
  BY DEF B
<1>6. IsFiniteSet(S) /\ Cardinality(S) <= Cardinality(B \cup L)
  BY <1>2, <1>5, FS_Subset
<1>7. Cardinality(S) \in Nat /\ maxSockets \in Int
  BY <1>6, FS_CardinalityType, PollAssumption DEF maxSockets
<1>8. QED BY <1>1, <1>2, <1>4, <1>6, <1>7

(* The connections are finitely many. *)
LEMMA OpenFinite ==
  /\ Open \subseteq Fd /\ IsFiniteSet(Open) /\ Cardinality(Open) \in Nat
<1>1. Open \subseteq Fd
  BY DEF Open
<1>2. IsFiniteSet(Open)
  BY <1>1, PollAssumption, FS_Subset
<1>3. QED BY <1>1, <1>2, FS_CardinalityType

(* The open connections after one has got the event set e, or lost it. *)
LEMMA OpenAfter ==
  ASSUME ControlInv, NEW f \in Fd, NEW e \in {"none", "read", "write"},
         events' = [events EXCEPT ![f] = e]
  PROVE  /\ events' \in [Fd -> {"none", "read", "write"}]
         /\ Open' = IF e = "none" THEN Open \ {f} ELSE Open \cup {f}
         /\ events'[f] = e /\ \A g \in Fd \ {f} : events'[g] = events[g]
<1>1. events \in [Fd -> {"none", "read", "write"}]
  BY DEF ControlInv
<1>2. /\ events' \in [Fd -> {"none", "read", "write"}]
      /\ events'[f] = e /\ \A g \in Fd \ {f} : events'[g] = events[g]
  BY <1>1
<1>3. QED BY <1>2 DEF Open

(* What stays the same when neither the connections nor the listening sockets
   change. *)
LEMMA Frame ==
  ASSUME events' = events
  PROVE  /\ Open' = Open /\ (IsConnectionCountAtMax' <=> IsConnectionCountAtMax)
         /\ role' = role /\ listenOn' = listenOn => Listening' = Listening
<1>1. Open' = Open
  BY DEF Open
<1>2. IsConnectionCountAtMax' <=> IsConnectionCountAtMax
  BY <1>1 DEF IsConnectionCountAtMax
<1>3. ASSUME role' = role, listenOn' = listenOn PROVE Listening' = Listening
  <2>1. CASE listenOn
    BY <1>3, <2>1 DEF Listening
  <2>2. CASE ~listenOn
    BY <1>3, <2>2 DEF Listening
  <2>3. QED BY <2>1, <2>2
<1>4. QED BY <1>1, <1>2, <1>3

(* The invariant holds initially. *)
LEMMA InitInv == Init => Inv
<1> SUFFICES ASSUME Init PROVE Inv
  OBVIOUS
<1>1. poll = Created /\ poll.fds = <<>> /\ poll.pos = <<>> /\ poll.unreadcount = 0 /\ poll.rotation = 0
  BY DEF Init, Created
<1>2. Fds(poll) = {} /\ Unread(poll) = {} /\ DOMAIN poll.pos = {} /\ DOMAIN poll.fds = {}
  BY <1>1 DEF Fds, Unread
<1>3. Accounted(poll)
  BY <1>1, <1>2, FS_EmptySet DEF Accounted
<1>4. Open = {} /\ Cardinality(Open) = 0
  BY FS_EmptySet DEF Init, Open
<1>5. PollOK(poll) /\ Want(poll, events)
  BY <1>1, <1>2 DEF PollOK, Want, Created
<1>6. Listening = {}
  BY DEF Init, Listening
<1>7. PollInv
  BY <1>2, <1>4, <1>5, <1>6 DEF PollInv, Init
<1>8. ControlInv
  <2>1. 1 \in 1 .. Len(Listen) /\ 0 <= MaxConnections
    BY Limits
  <2>2. events \in [Fd -> {"none", "read", "write"}]
    BY DEF Init
  <2>3. QED BY <1>4, <2>1, <2>2, Zenon DEF ControlInv, Init
<1>9. QED BY <1>3, <1>7, <1>8 DEF Inv

-----------------------------------------------------------------------------
(* A step that opens and closes nothing. *)
LEMMA SameConnections ==
  ASSUME Inv, UNCHANGED <<events, role, listenOn>>, old' \subseteq Open, fNeedToExit' \in BOOLEAN,
         pc' \in {"init", "listen", "wait", "event", "sweep", "sweeping", "cleanup", "exit", "gone"},
         pc' # "gone" => pc # "gone", pc' = "init" <=> pc = "init",
         pc # "gone" => PollOK(poll') /\ Fds(poll') = Fds(poll) /\ Want(poll', events),
         Accounted(poll'),
         role # 1 => pc' \in {"init", "listen"},
         pc' \in {"wait", "event"} => (listenOn <=> ~IsConnectionCountAtMax),
         pc' = "event" => event' \in Fds(poll) \ {Pipe} /\ pc # "gone"
  PROVE  Inv'
<1>1. Open' = Open /\ (IsConnectionCountAtMax' <=> IsConnectionCountAtMax) /\ Listening' = Listening
  BY Frame
<1>2. PollInv'
  BY <1>1 DEF Inv, PollInv
<1>3. ControlInv'
  BY <1>1 DEF Inv, ControlInv
<1>4. QED BY <1>2, <1>3 DEF Inv

(* Steps of Run that leave the poller alone, and those of the others. *)
LEMMA QuietInv ==
  ASSUME Inv, \/ ListenSocketsAreSet \/ AcceptFindsNobody \/ NoSweepDue \/ SweepSwaps
              \/ ThreadExits \/ Others \/ UNCHANGED vars
  PROVE  Inv'
<1>1. UNCHANGED <<poll, events, role, listenOn>>
  BY DEF ListenSocketsAreSet, AcceptFindsNobody, NoSweepDue, SweepSwaps, ThreadExits, Others,
         BecomesActive, BecomesInactive, Stop, vars
<1>2. old' \subseteq Open
  BY DEF ListenSocketsAreSet, AcceptFindsNobody, NoSweepDue, SweepSwaps, ThreadExits, Others,
         BecomesActive, BecomesInactive, Stop, vars, Inv, ControlInv
<1>3. fNeedToExit' \in BOOLEAN
  BY DEF ListenSocketsAreSet, AcceptFindsNobody, NoSweepDue, SweepSwaps, ThreadExits, Others,
         BecomesActive, BecomesInactive, Stop, vars, Inv, ControlInv
<1>4. Accounted(poll') /\ (pc # "gone" => PollOK(poll') /\ Fds(poll') = Fds(poll) /\ Want(poll', events))
  BY <1>1 DEF Inv, PollInv
<1>5. CASE pc' = pc /\ event' = event
  BY <1>1, <1>2, <1>3, <1>4, <1>5, SameConnections DEF Inv, ControlInv, PollInv
<1>6. CASE ListenSocketsAreSet
  <2>1. pc = "listen" /\ pc' = "wait" /\ (listenOn <=> ~IsConnectionCountAtMax)
    BY <1>6 DEF ListenSocketsAreSet
  <2>2. role = 1
    BY <2>1 DEF Inv, ControlInv
  <2>3. QED BY <1>1, <1>2, <1>3, <1>4, <2>1, <2>2, SameConnections
<1>7. CASE AcceptFindsNobody \/ NoSweepDue \/ SweepSwaps \/ ThreadExits
  <2>1. /\ pc \in {"event", "sweep", "sweeping", "cleanup"}
        /\ pc' \in {"sweep", "cleanup", "listen", "exit"}
    BY <1>7 DEF AcceptFindsNobody, NoSweepDue, SweepSwaps, ThreadExits, Loop
  <2>2. role = 1
    BY <2>1 DEF Inv, ControlInv
  <2>3. QED BY <1>1, <1>2, <1>3, <1>4, <2>1, <2>2, SameConnections
<1>8. QED BY <1>5, <1>6, <1>7 DEF Others, BecomesActive, BecomesInactive, Stop, vars

(* What WaitForNextEvent returns is registered. *)
LEMMA ReportInv ==
  ASSUME Inv, pc = "wait", NEW p, PollOK(p), Fds(p) = Fds(poll), Accounted(p), Want(p, events),
         NEW next \in FindNextEvent(p), Report(next)
  PROVE  Inv'
<1>1. /\ PollOK(next.poll) /\ Fds(next.poll) = Fds(p) /\ next.fd \in Fds(p)
      /\ Accounted(next.poll) /\ Want(next.poll, events)
  BY FindNextEventFacts
<1>2. poll' = next.poll /\ UNCHANGED <<role, listenOn, events, old, fNeedToExit>>
  BY DEF Report
<1>3. pc' = "cleanup" \/ (pc' = "event" /\ event' = next.fd /\ next.fd # Pipe)
  BY DEF Report
<1>4. /\ role = 1 /\ old \subseteq Open /\ fNeedToExit \in BOOLEAN
      /\ (listenOn <=> ~IsConnectionCountAtMax)
  BY DEF Inv, ControlInv
<1>5. QED BY <1>1, <1>2, <1>3, <1>4, SameConnections

(* WaitForNextEvent preserves the invariant, whichever way it returns. *)
LEMMA WaitInv ==
  ASSUME Inv, WaitFindsEvent \/ WaitPolls \/ WaitTimesOut
  PROVE  Inv'
<1>1. pc = "wait" /\ PollOK(poll) /\ Want(poll, events) /\ Accounted(poll)
  BY DEF WaitFindsEvent, WaitPolls, WaitTimesOut, Inv, PollInv
<1> DEFINE polled == SystemPoll(poll)
<1>2. PollOK(polled) /\ Fds(polled) = Fds(poll) /\ Accounted(polled) /\ Want(polled, events)
  BY <1>1, SystemPollFacts
<1> HIDE DEF polled
<1>3. CASE WaitFindsEvent
  BY <1>1, <1>3, ReportInv DEF WaitFindsEvent
<1>4. CASE WaitPolls
  <2>1. PICK next \in FindNextEvent(polled) : Report(next)
    BY <1>4 DEF WaitPolls, polled
  <2>2. QED BY <1>1, <1>2, <2>1, ReportInv
<1>5. CASE WaitTimesOut
  <2>1. poll' = polled /\ UNCHANGED <<role, listenOn, events, old, fNeedToExit>>
    BY <1>5 DEF WaitTimesOut, polled
  <2>2. pc' \in {"cleanup", "sweep"}
    BY <1>5 DEF WaitTimesOut
  <2>3. role = 1 /\ old \subseteq Open /\ fNeedToExit \in BOOLEAN
    BY <1>1 DEF Inv, ControlInv
  <2>4. QED BY <1>1, <1>2, <2>1, <2>2, <2>3, SameConnections
<1>6. QED BY <1>3, <1>4, <1>5

-----------------------------------------------------------------------------
(* How Listening changes as SetListenSocketsOnEpoll goes from role to role. *)
LEMMA ListeningSteps ==
  ASSUME role \in 1 .. Len(Listen), listenOn \in BOOLEAN,
         IF role < Len(Listen) THEN role' = role + 1 /\ UNCHANGED listenOn
                               ELSE role' = 1 /\ listenOn' = ~listenOn
  PROVE  /\ listenOn => Listen[role] \in Listening /\ Listening' = Listening \ {Listen[role]}
         /\ ~listenOn => Listen[role] \notin Listening /\ Listening' = Listening \cup {Listen[role]}
         /\ role' \in 1 .. Len(Listen) /\ listenOn' \in BOOLEAN /\ Listening \subseteq ListenSet
         /\ role' # 1 => listenOn' = listenOn
<1>1. /\ Len(Listen) \in Nat \ {0} /\ \A i, j \in 1 .. Len(Listen) : Listen[i] = Listen[j] => i = j
      /\ \A i \in 1 .. Len(Listen) : Listen[i] \in ListenSet
  BY Sockets
<1>2. role' \in 1 .. Len(Listen) /\ listenOn' \in BOOLEAN
  <2>1. role' \in 1 .. Len(Listen)
    BY <1>1
  <2>2. listenOn' \in BOOLEAN
    BY Zenon
  <2>3. QED BY <2>1, <2>2
<1>3. Listening \subseteq ListenSet
  <2>1. CASE listenOn
    BY <1>1, <2>1 DEF Listening
  <2>2. CASE ~listenOn
    BY <1>1, <2>2 DEF Listening
  <2>3. QED BY <2>1, <2>2
<1>4. CASE listenOn
  <2>1. Listening = {Listen[i] : i \in role .. Len(Listen)}
    BY <1>4 DEF Listening
  <2>2. Listening' = {Listen[i] : i \in role + 1 .. Len(Listen)}
    <3>1. CASE role < Len(Listen)
      BY <1>4, <3>1 DEF Listening
    <3>2. CASE ~(role < Len(Listen))
      <4>1. ~listenOn' /\ role' = 1 /\ role = Len(Listen)
        <5>1. ~listenOn' /\ role' = 1
          BY <1>4, <3>2, Zenon
        <5>2. role = Len(Listen)
          BY <1>1, <3>2
        <5>3. QED BY <5>1, <5>2
      <4>2. Listening' = {Listen[i] : i \in 1 .. 1 - 1}
        BY <4>1 DEF Listening
      <4>3. 1 .. 1 - 1 = {} /\ role + 1 .. Len(Listen) = {}
        BY <1>1, <4>1
      <4>4. QED BY <4>2, <4>3, Zenon
    <3>3. QED BY <3>1, <3>2
  <2>3. \A i \in role .. Len(Listen) : i = role \/ i \in role + 1 .. Len(Listen)
    BY <1>1
  <2>4. \A i \in role + 1 .. Len(Listen) : i \in role .. Len(Listen) /\ Listen[i] # Listen[role]
    BY <1>1
  <2>5. role \in role .. Len(Listen)
    BY <1>1
  <2>6. Listen[role] \in Listening /\ Listening' = Listening \ {Listen[role]}
    BY <2>1, <2>2, <2>3, <2>4, <2>5
  <2>7. QED BY <1>2, <1>3, <1>4, <2>6
<1>5. CASE ~listenOn
  <2>1. Listening = {Listen[i] : i \in 1 .. role - 1}
    BY <1>5 DEF Listening
  <2>2. Listening' = {Listen[i] : i \in 1 .. role}
    <3>1. CASE role < Len(Listen)
      <4>1. listenOn' = listenOn /\ role' = role + 1 /\ role' - 1 = role
        BY <1>1, <3>1
      <4>2. QED BY <1>5, <4>1 DEF Listening
    <3>2. CASE ~(role < Len(Listen))
      <4>1. listenOn' /\ role' = 1 /\ role = Len(Listen)
        <5>1. listenOn' /\ role' = 1
          BY <1>5, <3>2, Zenon
        <5>2. role = Len(Listen)
          BY <1>1, <3>2
        <5>3. QED BY <5>1, <5>2
      <4>2. QED BY <4>1 DEF Listening
    <3>3. QED BY <3>1, <3>2
  <2>3. \A i \in 1 .. role : i = role \/ i \in 1 .. role - 1
    BY <1>1
  <2>4. \A i \in 1 .. role - 1 : i \in 1 .. role /\ Listen[i] # Listen[role]
    BY <1>1
  <2>5. role \in 1 .. role
    BY <1>1
  <2>6. Listen[role] \notin Listening /\ Listening' = Listening \cup {Listen[role]}
    BY <2>1, <2>2, <2>3, <2>4, <2>5
  <2>7. QED BY <1>2, <1>3, <1>5, <2>6
<1>6. QED BY <1>4, <1>5

(* SetListenSocket preserves the invariant. *)
LEMMA SetListenSocketInv == Inv /\ SetListenSocket => Inv'
<1> SUFFICES ASSUME Inv, SetListenSocket PROVE Inv'
  OBVIOUS
<1>1. /\ pc \in {"init", "listen"} /\ pc' = pc /\ (listenOn <=> IsConnectionCountAtMax)
      /\ UNCHANGED <<events, old, fNeedToExit>>
  BY DEF SetListenSocket
<1>2. /\ role \in 1 .. Len(Listen) /\ listenOn \in BOOLEAN
      /\ IF role < Len(Listen) THEN role' = role + 1 /\ UNCHANGED listenOn
                               ELSE role' = 1 /\ listenOn' = ~listenOn
  BY DEF Inv, ControlInv, SetListenSocket
<1> DEFINE l == Listen[role]
<1>3. /\ PollOK(poll) /\ Want(poll, events) /\ Accounted(poll)
      /\ Fds(poll) = Open \cup (IF pc = "init" THEN {} ELSE {Pipe}) \cup Listening
  BY <1>1 DEF Inv, PollInv
<1>4. l \in ListenSet /\ l \notin Fd /\ l # Pipe /\ Open \subseteq Fd
  BY <1>2, Sockets, Apart, OpenFinite
<1>5. /\ Open' = Open /\ (IsConnectionCountAtMax' <=> IsConnectionCountAtMax)
  BY <1>1, Frame
<1>6. /\ listenOn => l \in Listening /\ Listening' = Listening \ {l}
      /\ ~listenOn => l \notin Listening /\ Listening' = Listening \cup {l}
      /\ role' \in 1 .. Len(Listen) /\ listenOn' \in BOOLEAN /\ Listening \subseteq ListenSet
      /\ role' # 1 => listenOn' = listenOn
  BY <1>2, ListeningSteps
<1>7. ControlInv'
  BY <1>1, <1>5, <1>6 DEF Inv, ControlInv
<1> HIDE DEF l
<1>8. CASE listenOn
  <2>1. poll' = RemoveFd(poll, l) /\ l \in Fds(poll)
    BY <1>3, <1>6, <1>8 DEF SetListenSocket, l
  <2>2. PollOK(poll') /\ Fds(poll') = Fds(poll) \ {l} /\ Accounted(poll') /\ Want(poll', events)
    BY <1>3, <2>1, RemoveFdFacts
  <2>3. PollInv'
    BY <1>1, <1>3, <1>4, <1>5, <1>6, <1>8, <2>2 DEF PollInv
  <2>4. QED BY <1>7, <2>2, <2>3 DEF Inv
<1>9. CASE ~listenOn
  <2>1. poll' = AddFd(poll, l, "read") /\ l \notin Fds(poll) /\ l \in Descriptor
    BY <1>3, <1>4, <1>6, <1>9 DEF SetListenSocket, l, Descriptor
  <2>2. Cardinality(Fds(poll)) < maxSockets
    <3> DEFINE L == ListenSet \ {l}
    <3>1. IsFiniteSet(L) /\ Cardinality(L) = Len(Listen) - 1
      <4>1. IsFiniteSet(ListenSet) /\ Cardinality(ListenSet) = Len(Listen)
        BY Sockets
      <4>2. QED BY <1>4, <4>1, FS_RemoveElement
    <3>2. Fds(poll) \subseteq Open \cup {Pipe} \cup L
      BY <1>3, <1>6, <1>9
    <3>3. IsFiniteSet(Open) /\ Cardinality(Open) \in Nat /\ Cardinality(Open) <= MaxConnections
      BY OpenFinite DEF Inv, ControlInv
    <3> HIDE DEF L
    <3>4. Cardinality(Open) + 1 + Cardinality(L) < maxSockets
      BY <3>1, <3>3, Limits
    <3>5. QED BY <3>1, <3>2, <3>3, <3>4, Room
  <2>3. PollOK(poll') /\ Fds(poll') = Fds(poll) \cup {l} /\ Accounted(poll') /\ Want(poll', events)
    BY <1>3, <1>4, <2>1, <2>2, AddFdFacts
  <2>4. PollInv'
    BY <1>1, <1>3, <1>5, <1>6, <1>9, <2>3 DEF PollInv
  <2>5. QED BY <1>7, <2>3, <2>4 DEF Inv
<1>10. QED BY <1>8, <1>9

(* AddPipe preserves the invariant. *)
LEMMA AddPipeInv == Inv /\ AddPipe => Inv'
<1> SUFFICES ASSUME Inv, AddPipe PROVE Inv'
  OBVIOUS
<1>1. /\ pc = "init" /\ pc' = "listen" /\ listenOn /\ poll' = AddFd(poll, Pipe, "read")
      /\ UNCHANGED <<listenOn, role, events, old, fNeedToExit>>
  BY DEF AddPipe
<1>2. Open' = Open /\ (IsConnectionCountAtMax' <=> IsConnectionCountAtMax) /\ Listening' = Listening
  BY <1>1, Frame
<1>3. role = 1
  <2>1. Open = {} /\ Cardinality(Open) = 0
    BY <1>1, FS_EmptySet DEF Inv, ControlInv
  <2>2. ~IsConnectionCountAtMax
    BY <2>1, Limits DEF IsConnectionCountAtMax
  <2>3. QED BY <1>1, <2>2 DEF Inv, ControlInv
<1>4. Listening = ListenSet
  BY <1>1, <1>3, Sockets DEF Listening
<1>5. PollOK(poll) /\ Want(poll, events) /\ Accounted(poll) /\ Fds(poll) = Open \cup ListenSet
  BY <1>1, <1>4 DEF Inv, PollInv
<1>6. Pipe \notin Fds(poll) /\ Pipe \notin Fd /\ Pipe \in Descriptor
  BY <1>5, Apart, OpenFinite DEF Descriptor
<1>7. Cardinality(Fds(poll)) < maxSockets
  <2>1. /\ IsFiniteSet(Open) /\ Cardinality(Open) \in Nat /\ Cardinality(Open) <= MaxConnections
        /\ Open = {} /\ Cardinality(Open) = 0
    BY <1>1, OpenFinite, FS_EmptySet DEF Inv, ControlInv
  <2>2. IsFiniteSet(ListenSet) /\ Cardinality(ListenSet) = Len(Listen)
    BY Sockets
  <2>3. Cardinality(Open) + 1 + Cardinality(ListenSet) < maxSockets
    BY <2>1, <2>2, Limits
  <2>4. QED BY <1>5, <2>1, <2>2, <2>3, Room
<1>8. PollOK(poll') /\ Fds(poll') = Fds(poll) \cup {Pipe} /\ Accounted(poll') /\ Want(poll', events)
  BY <1>1, <1>5, <1>6, <1>7, AddFdFacts
<1>9. PollInv'
  BY <1>1, <1>2, <1>4, <1>5, <1>8 DEF PollInv
<1>10. ControlInv'
  BY <1>1, <1>2, <1>3 DEF Inv, ControlInv
<1>11. QED BY <1>8, <1>9, <1>10 DEF Inv

-----------------------------------------------------------------------------
(* A connection leaves the poller and the tables together. *)
LEMMA CloseConnectionInv ==
  ASSUME Inv, pc \in {"sweep", "sweeping", "cleanup"}, NEW f \in Open, CloseConnection(f),
         pc' \in {"sweeping", "cleanup"}, UNCHANGED <<role, listenOn, fNeedToExit>>
  PROVE  Inv'
<1>1. /\ poll' = RemoveFd(poll, f) /\ events' = [events EXCEPT ![f] = "none"] /\ old' = old \ {f}
      /\ f \in Fd
  BY OpenFinite DEF CloseConnection
<1>2. /\ PollOK(poll) /\ Want(poll, events) /\ Accounted(poll)
      /\ Fds(poll) = Open \cup {Pipe} \cup Listening
  BY DEF Inv, PollInv
<1>3. /\ events' \in [Fd -> {"none", "read", "write"}] /\ Open' = Open \ {f}
      /\ \A g \in Fd \ {f} : events'[g] = events[g]
  BY <1>1, OpenAfter DEF Inv
<1>4. f \in Fds(poll)
  BY <1>2
<1>5. PollOK(poll') /\ Fds(poll') = Fds(poll) \ {f} /\ Accounted(poll') /\ Want(poll', events')
  <2>1. /\ PollOK(poll') /\ Fds(poll') = Fds(poll) \ {f} /\ Accounted(poll')
        /\ \A ev, ew : Want(poll, ev) /\ (\A g \in Fd \ {f} : ew[g] = ev[g]) => Want(poll', ew)
    BY <1>1, <1>2, <1>4, RemoveFdFacts
  <2>2. Want(poll', events')
    BY <1>2, <1>3, <2>1, Zenon
  <2>3. QED BY <2>1, <2>2
<1>6. role = 1 /\ listenOn \in BOOLEAN
  BY DEF Inv, ControlInv
<1>7. Listening' = Listening /\ Listening \subseteq ListenSet
  <2>1. CASE listenOn
    BY <1>6, <2>1, Sockets DEF Listening
  <2>2. CASE ~listenOn
    <3>1. 1 .. 1 - 1 = {}
      OBVIOUS
    <3>2. QED BY <1>6, <2>2, <3>1 DEF Listening
  <2>3. QED BY <2>1, <2>2
<1>8. PollInv'
  <2>1. f \notin ListenSet /\ f # Pipe
    BY <1>1, Apart
  <2>2. QED BY <1>2, <1>3, <1>5, <1>7, <2>1 DEF PollInv
<1>9. Cardinality(Open') <= MaxConnections
  <2>1. IsFiniteSet(Open) /\ Cardinality(Open) \in Nat /\ Cardinality(Open) <= MaxConnections
    BY OpenFinite DEF Inv, ControlInv
  <2>2. Cardinality(Open') = Cardinality(Open) - 1
    BY <1>3, <2>1, FS_RemoveElement
  <2>3. QED BY <2>1, <2>2, Limits
<1>10. ControlInv'
  BY <1>1, <1>3, <1>6, <1>9 DEF Inv, ControlInv
<1>11. QED BY <1>5, <1>8, <1>10 DEF Inv

(* What the handlers do with a connection that is registered in p, new or old. *)
LEMMA HandleInv ==
  ASSUME Inv, pc = "event", NEW f \in Fd, NEW p, PollOK(p), Accounted(p), NEW ev, Want(p, ev),
         \A g \in Fd \ {f} : ev[g] = events[g],
         Fds(p) = Open \cup {f} \cup {Pipe} \cup Listening,
         Cardinality(Open \cup {f}) <= MaxConnections,
         NEW served, Handle(p, f, served), pc' = "sweep", UNCHANGED <<role, listenOn, fNeedToExit>>
  PROVE  Inv'
<1>1. role = 1 /\ listenOn \in BOOLEAN
  BY DEF Inv, ControlInv
<1>2. Listening' = Listening /\ Listening \subseteq ListenSet
  <2>1. CASE listenOn
    BY <1>1, <2>1, Sockets DEF Listening
  <2>2. CASE ~listenOn
    <3>1. 1 .. 1 - 1 = {}
      OBVIOUS
    <3>2. QED BY <1>1, <2>2, <3>1 DEF Listening
  <2>3. QED BY <2>1, <2>2
<1>3. f \notin ListenSet /\ f # Pipe /\ f \in Fds(p)
  BY Apart
<1>4. CASE /\ poll' = RemoveFd(p, f) /\ events' = [events EXCEPT ![f] = "none"]
           /\ old' = old \ {f}
  <2>1. /\ events' \in [Fd -> {"none", "read", "write"}] /\ Open' = Open \ {f}
        /\ \A g \in Fd \ {f} : events'[g] = ev[g]
    BY <1>4, OpenAfter DEF Inv
  <2>2. PollOK(poll') /\ Fds(poll') = Fds(p) \ {f} /\ Accounted(poll') /\ Want(poll', events')
    <3>1. /\ PollOK(poll') /\ Fds(poll') = Fds(p) \ {f} /\ Accounted(poll')
          /\ \A eu, ew : Want(p, eu) /\ (\A g \in Fd \ {f} : ew[g] = eu[g]) => Want(poll', ew)
      BY <1>3, <1>4, RemoveFdFacts
    <3>2. Want(poll', events')
      BY <2>1, <3>1, Zenon
    <3>3. QED BY <3>1, <3>2
  <2>3. PollInv'
    BY <1>2, <1>3, <2>1, <2>2 DEF PollInv
  <2>4. Cardinality(Open') <= MaxConnections
    <3>1. IsFiniteSet(Open) /\ Cardinality(Open) \in Nat /\ Cardinality(Open) <= MaxConnections
      BY OpenFinite DEF Inv, ControlInv
    <3>2. Cardinality(Open') <= Cardinality(Open) /\ IsFiniteSet(Open')
      BY <2>1, <3>1, FS_Subset
    <3>3. Cardinality(Open') \in Nat
      BY <3>2, FS_CardinalityType
    <3>4. QED BY <3>1, <3>2, <3>3, Limits
  <2>5. ControlInv'
    BY <1>1, <1>4, <2>1, <2>4 DEF Inv, ControlInv
  <2>6. QED BY <2>2, <2>3, <2>5 DEF Inv
<1>5. ASSUME NEW flags \in {"read", "write"}, poll' = ChangeEventSet(p, f, flags),
             events' = [events EXCEPT ![f] = flags], UNCHANGED old
      PROVE  Inv'
  <2>1. /\ events' \in [Fd -> {"none", "read", "write"}] /\ Open' = Open \cup {f}
        /\ events'[f] = flags /\ \A g \in Fd \ {f} : events'[g] = ev[g]
    BY <1>5, OpenAfter DEF Inv
  <2>2. PollOK(poll') /\ Fds(poll') = Fds(p) /\ Accounted(poll') /\ Want(poll', events')
    BY <1>3, <1>5, <2>1, ChangeEventSetFacts
  <2>3. PollInv'
    BY <1>2, <2>1, <2>2 DEF PollInv
  <2>4. ControlInv'
    BY <1>1, <1>5, <2>1 DEF Inv, ControlInv
  <2>5. QED BY <2>2, <2>3, <2>4 DEF Inv
<1>6. QED BY <1>4, <1>5 DEF Handle

(* ProcessConnectionEvent preserves the invariant. *)
LEMMA ProcessConnectionEventInv == Inv /\ ProcessConnectionEvent => Inv'
<1> SUFFICES ASSUME Inv, ProcessConnectionEvent PROVE Inv'
  OBVIOUS
<1>1. /\ pc = "event" /\ event \in Fd /\ pc' = "sweep" /\ UNCHANGED <<role, listenOn, fNeedToExit>>
  BY DEF ProcessConnectionEvent
<1>2. /\ PollOK(poll) /\ Want(poll, events) /\ Accounted(poll)
      /\ Fds(poll) = Open \cup {Pipe} \cup Listening
      /\ Cardinality(Open) <= MaxConnections
  BY <1>1 DEF Inv, PollInv, ControlInv
<1>3. CASE event \in Open
  <2>1. Handle(poll, event, {event})
    BY <1>3 DEF ProcessConnectionEvent
  <2>2. Open \cup {event} = Open
    BY <1>3
  <2>3. \A g \in Fd \ {event} : events[g] = events[g]
    OBVIOUS
  <2>4. QED BY <1>1, <1>2, <2>1, <2>2, <2>3, HandleInv
<1>4. CASE event \notin Open
  <2>1. UNCHANGED <<poll, events, old>>
    BY <1>4 DEF ProcessConnectionEvent
  <2>2. role = 1 /\ old \subseteq Open /\ fNeedToExit \in BOOLEAN
    BY <1>1 DEF Inv, ControlInv
  <2>3. QED BY <1>1, <1>2, <2>1, <2>2, SameConnections
<1>5. QED BY <1>3, <1>4

(* The event of a listening socket is never stale: there is room for one more
   connection, in the tables and in the poller. *)
LEMMA AcceptConnectionInv == Inv /\ AcceptConnection => Inv'
<1> SUFFICES ASSUME Inv, AcceptConnection PROVE Inv'
  OBVIOUS
<1>1. /\ pc = "event" /\ event \in ListenSet /\ pc' = "sweep"
      /\ UNCHANGED <<role, listenOn, fNeedToExit>>
  BY DEF AcceptConnection
<1>2. /\ PollOK(poll) /\ Want(poll, events) /\ Accounted(poll)
      /\ Fds(poll) = Open \cup {Pipe} \cup Listening
  BY <1>1 DEF Inv, PollInv
<1>3. PICK f \in Fd \ Open, served \in SUBSET {event} : Handle(AddFd(poll, f, "read"), f, served)
  BY DEF AcceptConnection
<1>4. role = 1 /\ listenOn \in BOOLEAN /\ (listenOn <=> ~IsConnectionCountAtMax)
  BY <1>1 DEF Inv, ControlInv
<1>5. event \in Listening /\ Listening \subseteq ListenSet /\ listenOn
  <2>1. event \in Listening
    BY <1>1, <1>2, Apart, OpenFinite DEF Inv, ControlInv
  <2>2. listenOn
    <3>1. SUFFICES ASSUME ~listenOn PROVE FALSE
      OBVIOUS
    <3>2. Listening = {Listen[i] : i \in 1 .. 1 - 1}
      BY <1>4, <3>1 DEF Listening
    <3>3. 1 .. 1 - 1 = {}
      OBVIOUS
    <3>4. QED BY <2>1, <3>2, <3>3
  <2>3. Listening \subseteq ListenSet
    BY <1>4, <2>2, Sockets DEF Listening
  <2>4. QED BY <2>1, <2>2, <2>3
<1>6. /\ IsFiniteSet(Open) /\ Cardinality(Open) \in Nat /\ Cardinality(Open) < MaxConnections
  BY <1>4, <1>5, OpenFinite, Limits DEF IsConnectionCountAtMax
<1>7. Cardinality(Open \cup {f}) <= MaxConnections
  <2>1. Cardinality(Open \cup {f}) = Cardinality(Open) + 1
    BY <1>6, FS_AddElement
  <2>2. QED BY <1>6, <2>1, Limits
<1>8. Cardinality(Fds(poll)) < maxSockets
  <2>1. IsFiniteSet(ListenSet) /\ Cardinality(ListenSet) = Len(Listen)
    BY Sockets
  <2>2. Cardinality(Open) + 1 + Cardinality(ListenSet) < maxSockets
    BY <1>6, <2>1, Limits
  <2>3. Fds(poll) \subseteq Open \cup {Pipe} \cup ListenSet
    BY <1>2, <1>5
  <2>4. QED BY <1>6, <2>1, <2>2, <2>3, Room
<1>9. f \notin Fds(poll) /\ f \in Descriptor
  BY <1>2, <1>5, Apart DEF Descriptor
<1> DEFINE p == AddFd(poll, f, "read")
           ev == [events EXCEPT ![f] = "read"]
<1>10. /\ ev[f] = "read" /\ \A g \in Fd \ {f} : ev[g] = events[g]
  BY DEF Inv, ControlInv
<1>11. \A i \in DOMAIN poll.fds : poll.fds[i].fd # f
  BY <1>9 DEF Fds
<1>12. Want(poll, ev)
  BY <1>2, <1>10, <1>11 DEF Want
<1>13. PollOK(p) /\ Fds(p) = Fds(poll) \cup {f} /\ Accounted(p) /\ Want(p, ev)
  <2> HIDE DEF ev
  <2>1. QED BY <1>2, <1>8, <1>9, <1>10, <1>12, AddFdFacts
<1>14. Handle(p, f, served)
  BY <1>3
<1>15. Fds(p) = Open \cup {f} \cup {Pipe} \cup Listening
  BY <1>2, <1>13
<1> HIDE DEF p, ev
<1>16. QED BY <1>1, <1>7, <1>10, <1>13, <1>14, <1>15, HandleInv

(* CPoll::Close preserves the invariant. *)
LEMMA CloseInv == Inv /\ Close => Inv'
<1> SUFFICES ASSUME Inv, Close PROVE Inv'
  OBVIOUS
<1>1. /\ pc = "exit" /\ pc' = "gone" /\ poll' = [poll EXCEPT !.fds = <<>>, !.pos = <<>>]
      /\ listenOn' = FALSE /\ UNCHANGED <<role, events, old, fNeedToExit>>
  BY DEF Close
<1>2. PollOK(poll) /\ role = 1
  BY <1>1 DEF Inv, PollInv, ControlInv
<1>3. poll'.fds = <<>> /\ poll'.unreadcount = poll.unreadcount /\ poll.unreadcount \in Nat
  BY <1>1, <1>2 DEF PollOK
<1>4. Unread(poll') = {}
  BY <1>3 DEF Unread
<1>5. Accounted(poll')
  BY <1>3, <1>4, FS_EmptySet DEF Accounted
<1>6. PollInv'
  BY <1>1 DEF PollInv
<1>7. Open' = Open
  BY <1>1, Frame
<1>8. ControlInv'
  BY <1>1, <1>2, <1>7 DEF Inv, ControlInv
<1>9. QED BY <1>5, <1>6, <1>8 DEF Inv

(* Every step preserves the invariant. *)
LEMMA NextInv == Inv /\ [Next]_vars => Inv'
<1> SUFFICES ASSUME Inv, [Next]_vars PROVE Inv'
  OBVIOUS
<1>1. ASSUME SweepCloses PROVE Inv'
  <2>1. PICK f \in old : CloseConnection(f)
    BY <1>1 DEF SweepCloses
  <2>2. f \in Open
    BY DEF Inv, ControlInv
  <2>3. QED BY <1>1, <2>1, <2>2, CloseConnectionInv DEF SweepCloses
<1>2. ASSUME CleanupCloses PROVE Inv'
  BY <1>2, CloseConnectionInv DEF CleanupCloses
<1>3. CASE Run
  BY <1>1, <1>2, <1>3, QuietInv, SetListenSocketInv, AddPipeInv, WaitInv, AcceptConnectionInv,
     ProcessConnectionEventInv DEF Run
<1>4. CASE Others \/ UNCHANGED vars
  BY <1>4, QuietInv
<1>5. CASE Close
  BY <1>5, CloseInv
<1>6. QED BY <1>3, <1>4, <1>5 DEF Next

(***************************************************************************)
(* CPoll and the thread that uses it keep the inductive invariant.         *)
(***************************************************************************)
THEOREM InvariantHolds == Spec => []Inv
<1>1. QED BY InitInv, NextInv, PTL DEF Spec

(***************************************************************************)
(* The hash table of CPoll and its vector agree after any sequence of Add, *)
(* Remove and ChangeEventSet calls the thread makes, and the table never   *)
(* fills up (polling.cpp:354-441).                                         *)
(***************************************************************************)
THEOREM PositionsAreExact == Spec => []PositionsExact
<1>1. Inv => PositionsExact
  <2> SUFFICES ASSUME Inv, pc # "gone"
               PROVE  /\ role = 1 =>
                           Registered = Open \cup (IF pc = "init" THEN {} ELSE {Pipe})
                                             \cup (IF listenOn THEN ListenSet ELSE {})
                      /\ DOMAIN poll.pos = Registered
                      /\ Len(poll.fds) = Cardinality(Registered)
                      /\ \A f \in Registered :
                           poll.pos[f] \in DOMAIN poll.fds /\ poll.fds[poll.pos[f]].fd = f
                      /\ \A f \in Open : poll.fds[poll.pos[f]].events = events[f]
    BY DEF PositionsExact
  <2>1. PollOK(poll) /\ Want(poll, events) /\ Registered = Fds(poll)
    BY DEF Inv, PollInv, Registered, Fds
  <2>2. Registered = Open \cup (IF pc = "init" THEN {} ELSE {Pipe}) \cup Listening
    BY <2>1 DEF Inv, PollInv
  <2>3. role = 1 => Listening = IF listenOn THEN ListenSet ELSE {}
    <3>1. SUFFICES ASSUME role = 1 PROVE Listening = IF listenOn THEN ListenSet ELSE {}
      OBVIOUS
    <3>2. CASE listenOn
      BY <3>1, <3>2, Sockets DEF Listening
    <3>3. CASE ~listenOn
      <4>1. 1 .. 1 - 1 = {}
        OBVIOUS
      <4>2. QED BY <3>1, <3>3, <4>1 DEF Listening
    <3>4. QED BY <3>2, <3>3
  <2>4. DOMAIN poll.pos = Registered /\ Len(poll.fds) = Cardinality(Registered)
    BY <2>1, OneSlotEach DEF PollOK
  <2>5. ASSUME NEW f \in Registered
        PROVE  poll.pos[f] \in DOMAIN poll.fds /\ poll.fds[poll.pos[f]].fd = f
    <3>1. PICK i \in DOMAIN poll.fds : f = poll.fds[i].fd
      BY DEF Registered
    <3>2. QED BY <2>1, <3>1 DEF PollOK
  <2>6. ASSUME NEW f \in Open PROVE poll.fds[poll.pos[f]].events = events[f]
    <3>1. f \in Registered /\ f \in Fd
      BY <2>2, OpenFinite
    <3>2. QED BY <2>1, <2>5, <3>1 DEF Want
  <2>7. QED BY <2>2, <2>3, <2>4, <2>5, <2>6
<1>2. QED BY <1>1, InvariantHolds, PTL

(***************************************************************************)
(* _unreadcount never falls short of the events that are left, whatever is *)
(* removed or moved between two calls of FindNextEvent (polling.cpp:486).  *)
(***************************************************************************)
THEOREM EventsAreAccounted == Spec => []EventsAccounted
<1>1. Inv => EventsAccounted
  BY DEF Inv, Accounted, Unread, EventsAccounted
<1>2. QED BY <1>1, InvariantHolds, PTL

(***************************************************************************)
(* An event the thread is given belongs to a descriptor that is still      *)
(* registered, and one of a listening socket comes only while a connection *)
(* is free, so the connection limit is exact with CPoll                    *)
(* (tcpserver.cpp:360-420).                                                *)
(***************************************************************************)
THEOREM EventsAreCurrent == Spec => []EventsCurrent
<1>1. Inv => EventsCurrent
  <2> SUFFICES ASSUME Inv PROVE EventsCurrent
    OBVIOUS
  <2>1. Cardinality(Open) <= MaxConnections
    BY DEF Inv, ControlInv
  <2>2. ASSUME pc = "event" PROVE event \in Registered
    BY <2>2 DEF Inv, ControlInv, Registered, Fds
  <2>3. ASSUME pc = "event", event \in ListenSet PROVE Cardinality(Open) < MaxConnections
    <3>1. event \in Listening /\ role = 1 /\ (listenOn <=> ~IsConnectionCountAtMax)
      BY <2>3, Apart, OpenFinite DEF Inv, ControlInv, PollInv
    <3>2. listenOn
      <4>1. SUFFICES ASSUME ~listenOn PROVE FALSE
        OBVIOUS
      <4>2. Listening = {Listen[i] : i \in 1 .. 1 - 1} /\ 1 .. 1 - 1 = {}
        BY <3>1, <4>1 DEF Listening
      <4>3. QED BY <3>1, <4>2
    <3>3. QED BY <3>1, <3>2, OpenFinite, Limits DEF IsConnectionCountAtMax
  <2>4. QED BY <2>1, <2>2, <2>3 DEF EventsCurrent
<1>2. QED BY <1>1, InvariantHolds, PTL
=============================================================================
