----------------------------- MODULE Rendezvous -----------------------------
(***************************************************************************)
(* How peers find each other: the end of UdpClientLoop with                *)
(* doFetchP2pServer (client/clientmain.cpp).  Once its STUN tests are done *)
(* a client registers with the application server, asks it up to MaxTries  *)
(* times for a list of peers, sends "ready" to the first one listed, has   *)
(* the server tell that peer to do the same, and starts its receive        *)
(* thread, whose handshake P2PTransfer continues.                          *)
(*                                                                         *)
(* Everything arrives at one socket, in the order of arrival (inbox), and  *)
(* doFetchP2pServer reads one datagram per try, whatever it is.  The       *)
(* application server is not in this repository: it remembers who has      *)
(* registered, lists the others and passes doConnect on.  A lossy network  *)
(* may lose any datagram, and none is ever sent again.                     *)
(***************************************************************************)
EXTENDS Integers, Sequences

CONSTANTS Peer,      \* the peers
          NoPeer,    \* "no address yet"
          MaxTries,  \* how often doFetchP2pServer asks, 10
          Stray      \* at most this many late STUN replies wait at the start

ASSUME RendezvousAssumption ==
  /\ NoPeer \notin Peer
  /\ MaxTries \in Nat \ {0}
  /\ Stray \in Nat

VARIABLES
  pc,          \* pc[p]: the next thing UdpClientLoop does, or "gone"
  tryCount,    \* tryCount[p]
  p2pServer,   \* p2pServer[p]: the front of the list, NoPeer if it is empty
  inbox,       \* inbox[p]: what p's socket has received
  mConnection, \* mConnection[p]: p's receive thread has seen an answer
  net,         \* datagrams under way
  registered,  \* the peers the application server knows
  lossy        \* the network loses datagrams

peerVars == <<pc, tryCount, p2pServer, inbox, mConnection>>
vars == <<peerVars, net, registered, lossy>>

Init ==
  /\ pc = [p \in Peer |-> "register"]
  /\ tryCount = [p \in Peer |-> 0]
  /\ p2pServer = [p \in Peer |-> NoPeer]
  /\ inbox \in [Peer -> {[i \in 1 .. n |-> [type |-> "stun"]] : n \in 0 .. Stray}]
  /\ mConnection = [p \in Peer |-> FALSE]
  /\ net = {}
  /\ registered = {}
  /\ lossy \in BOOLEAN

Goto(p, l) == pc' = [pc EXCEPT ![p] = l]

(* What can be under way once the datagrams in out have been sent. *)
Sending(s, out) == {s \cup arrive : arrive \in IF lossy THEN SUBSET out ELSE {out}}

Send(out) == net' \in Sending(net, out)

-----------------------------------------------------------------------------
(***************************************************************************)
(* UdpClientLoop.                                                          *)
(***************************************************************************)
RegisterToServerRequest(p) ==
  /\ pc[p] = "register"
  /\ Send({[type |-> "register", src |-> p]})
  /\ Goto(p, "fetch")
  /\ UNCHANGED <<tryCount, p2pServer, inbox, mConnection, registered, lossy>>

FetchP2pServerRequest(p) ==
  /\ pc[p] = "fetch"
  /\ Send({[type |-> "fetch", src |-> p, try |-> tryCount[p]]})
  /\ Goto(p, "select")
  /\ UNCHANGED <<tryCount, p2pServer, inbox, mConnection, registered, lossy>>

(* A list with somebody in it. *)
IsList(m) == m.type = "p2pList" /\ m.front # NoPeer

(* p2pServer is still empty. *)
AnotherTry(p) ==
  /\ tryCount' = [tryCount EXCEPT ![p] = @ + 1]
  /\ Goto(p, IF tryCount[p] + 1 < MaxTries THEN "fetch" ELSE "gone")

(* recvfrom takes the first datagram; one that is not a list costs a try, a
   peer's "ready" too. *)
FetchReceives(p) ==
  /\ pc[p] = "select"
  /\ inbox[p] # <<>>
  /\ inbox' = [inbox EXCEPT ![p] = Tail(@)]
  /\ IF IsList(Head(inbox[p]))
     THEN /\ p2pServer' = [p2pServer EXCEPT ![p] = Head(inbox[p]).front]
          /\ Goto(p, "ready")
          /\ UNCHANGED tryCount
     ELSE AnotherTry(p) /\ UNCHANGED p2pServer
  /\ UNCHANGED <<mConnection, net, registered, lossy>>

FetchTimesOut(p) ==
  /\ pc[p] = "select"
  /\ inbox[p] = <<>>
  /\ AnotherTry(p)
  /\ UNCHANGED <<p2pServer, inbox, mConnection, net, registered, lossy>>

(* sendReadyToP2pServerRequest, sendToServerToDoConnectRequest and
   initReceiveThread, with nothing between them that others could see. *)
SendReadyAndDoConnect(p) ==
  /\ pc[p] = "ready"
  /\ Send({[type |-> "request status ready", src |-> p, dst |-> p2pServer[p]],
           [type |-> "todo connect", src |-> p, peer |-> p2pServer[p]]})
  /\ Goto(p, "receive")
  /\ UNCHANGED <<tryCount, p2pServer, inbox, mConnection, registered, lossy>>

(***************************************************************************)
(* receiveThreadFunction, as far as the handshake goes: both requests are  *)
(* answered, the first answer makes the connection, the rest is ignored.   *)
(***************************************************************************)
(* Mutant: the answer goes back to the sender of the datagram, which for a
   forwarded request is the server, and "ready" is taken for an answer. *)
RespondsToSender(m) == {}

RespondsTo(m) ==
  CASE m.type = "request status ready" -> {m.src}
    [] m.type = "request data doConnect" -> {m.requester}
    [] OTHER -> {}

ReceiveThread(p) ==
  /\ pc[p] = "receive"
  /\ inbox[p] # <<>>
  /\ inbox' = [inbox EXCEPT ![p] = Tail(@)]
  /\ net' \in Sending(net, {[type |-> "respond status ready", src |-> p, dst |-> q] :
                               q \in RespondsTo(Head(inbox[p]))})
  /\ mConnection' = [mConnection EXCEPT ![p] = @ \/ Head(inbox[p]).type = "respond status ready"]
  /\ UNCHANGED <<pc, tryCount, p2pServer, registered, lossy>>

Client(p) ==
  \/ RegisterToServerRequest(p) \/ FetchP2pServerRequest(p)
  \/ FetchReceives(p) \/ FetchTimesOut(p)
  \/ SendReadyAndDoConnect(p)
  \/ ReceiveThread(p)

-----------------------------------------------------------------------------
(***************************************************************************)
(* The application server and the network.                                 *)
(***************************************************************************)
ServerRegisters(m) ==
  /\ m.type = "register"
  /\ registered' = registered \cup {m.src}
  /\ net' = net \ {m}
  /\ UNCHANGED <<peerVars, lossy>>

Others(p) == registered \ {p}

ServerLists(m) ==
  /\ m.type = "fetch"
  /\ \E q \in IF Others(m.src) = {} THEN {NoPeer} ELSE Others(m.src) :
       net' \in Sending(net \ {m},
                      {[type |-> "p2pList", dst |-> m.src, front |-> q, try |-> m.try]})
  /\ UNCHANGED <<peerVars, registered, lossy>>

ServerForwards(m) ==
  /\ m.type = "todo connect"
  /\ net' \in Sending(net \ {m},
                    {[type |-> "request data doConnect", requester |-> m.src, dst |-> m.peer]})
  /\ UNCHANGED <<peerVars, registered, lossy>>

(* What arrives for a client that has ended is gone. *)
Deliver(m) ==
  /\ m.type \notin {"register", "fetch", "todo connect"}
  /\ net' = net \ {m}
  /\ inbox' = [inbox EXCEPT ![m.dst] = IF pc[m.dst] = "gone" THEN @ ELSE Append(@, m)]
  /\ UNCHANGED <<pc, tryCount, p2pServer, mConnection, registered, lossy>>

Network ==
  \E m \in net :
    ServerRegisters(m) \/ ServerLists(m) \/ ServerForwards(m) \/ Deliver(m)

Next == Network \/ \E p \in Peer : Client(p)

(***************************************************************************)
(* The system does not stop while something can happen: clients are        *)
(* scheduled, their waits are bounded and what is under way arrives.  No   *)
(* stronger fairness is needed, because every behaviour is finite.         *)
(***************************************************************************)
Spec == Init /\ [][Next]_vars /\ WF_vars(Next)

-----------------------------------------------------------------------------
Receiving == {p \in Peer : pc[p] = "receive"}
AllDone == \A p \in Peer : pc[p] \in {"receive", "gone"}

(***************************************************************************)
(* Every client's search ends, in a started receive thread or in giving    *)
(* up, whatever else arrives at its socket.  And although a client that    *)
(* still searches throws its peers' only requests away, peers that found   *)
(* each other do not all wait for ever: on a network that loses nothing,   *)
(* if everybody who started a receive thread found somebody who did, one   *)
(* of them is connected (the one who found its peer last).                 *)
(***************************************************************************)
RendezvousConnects ==
  /\ <>AllDone
  /\ (/\ ~lossy /\ AllDone
      /\ Receiving # {}
      /\ \A p \in Receiving : p2pServer[p] \in Receiving)
        ~> \E p \in Receiving : mConnection[p]
=============================================================================
