----------------------------- MODULE StunClient -----------------------------
(***************************************************************************)
(* The STUN client: the driver loops UdpClientLoop and TcpClientLoop of    *)
(* client/clientmain.cpp around CStunClientLogic, the server's binding     *)
(* response (stuncore/messagehandler.cpp) and, outside this repository,    *)
(* the NAT between them.  Over UDP, requests and replies stay deliverable  *)
(* for ever: they may be lost (never delivered), delayed until a later     *)
(* test runs, overtaken and repeated.                                      *)
(***************************************************************************)
EXTENDS StunClientLogic

VARIABLES
  proto,      \* "udp" or "tcp"
  fixedPort,  \* --localport was given
  nat,        \* the mapping and filtering behaviour of the NAT
  hasOther,   \* the server has all four sockets
  sock,       \* number of the local port in use
  contacted,  \* server addresses the UDP socket has sent to
  requests,   \* UDP requests that have passed the NAT
  replies,    \* the server's replies
  exited      \* TcpClientLoop has returned without results

envVars == <<proto, fixedPort, nat, hasOther>>
netVars == <<sock, contacted, requests, replies, exited>>
vars == <<logicVars, envVars, netVars>>

-----------------------------------------------------------------------------
(***************************************************************************)
(* The NAT: RFC 4787's mapping and filtering behaviours.  A client that is *)
(* reached directly may still be behind a filter.                          *)
(***************************************************************************)
Mapping == Behavior \ {"UnknownBehavior"}
NatFilter == Filtering \ {"UnknownFiltering"}

LocalEndpoint(l) == [local |-> l, nat |-> FALSE, ip |-> "any", port |-> "any"]

(* The endpoint from which the server at d sees what local port l sends. *)
Mapped(l, d) ==
  [local |-> l,
   nat |-> nat.mapping # "DirectMapping",
   ip |-> IF nat.mapping \in {"AddressDependentMapping", "AddressAndPortDependentMapping"}
          THEN d.ip ELSE "any",
   port |-> IF nat.mapping = "AddressAndPortDependentMapping" THEN d.port ELSE "any"]

(* A datagram from src to the mapped endpoint e is let through. *)
Admits(src, e) ==
  \E d \in contacted :
    /\ Mapped(sock, d) = e
    /\ nat.filtering # "EndpointIndependentFiltering" => d.ip = src.ip
    /\ nat.filtering = "AddressAndPortDependentFiltering" => d.port = src.port

(***************************************************************************)
(* The server: the reply leaves from the address it was sent to, or from   *)
(* the one the CHANGE-REQUEST names, and reports the sender's address and, *)
(* if the server has four sockets, the address opposite to that of the     *)
(* request.  Without them a change request is answered by an error.        *)
(***************************************************************************)
Swap(x) == IF x = "P" THEN "A" ELSE "P"

Request(t, l) == [id |-> t, dst |-> Destination(t), ext |-> Mapped(l, Destination(t)),
                  changeIP |-> ChangeIP(t), changePort |-> ChangePort(t)]

ProcessBindingRequest(q) ==
  [id |-> q.id,
   src |-> [ip |-> IF q.changeIP THEN Swap(q.dst.ip) ELSE q.dst.ip,
            port |-> IF q.changePort THEN Swap(q.dst.port) ELSE q.dst.port],
   mapped |-> q.ext,
   hasOther |-> hasOther,
   other |-> [ip |-> Swap(q.dst.ip), port |-> Swap(q.dst.port)]]

(* What TcpClientLoop passes on when the connection is closed early. *)
Truncated == [id |-> "none"]

-----------------------------------------------------------------------------
(* CreateConfigFromCommandLine: the configurations a command line can ask for. *)
CommandLineConfig(p, full) ==
  [fBehaviorTest |-> full, fFilteringTest |-> full /\ p = "udp",
   fTimeoutIsInstant |-> FALSE, timeoutSeconds |-> 0,
   uMaxAttempts |-> IF p = "tcp" THEN 1 ELSE 0]

Init ==
  /\ proto \in {"udp", "tcp"}
  /\ \E full \in BOOLEAN : config = CommandLineConfig(proto, full)
  /\ fixedPort \in BOOLEAN
  /\ nat \in [mapping : Mapping, filtering : NatFilter]
  /\ hasOther \in BOOLEAN
  /\ sock = IF proto = "tcp" /\ ~fixedPort THEN 0 ELSE 1
  /\ contacted = {}
  /\ requests = {}
  /\ replies = {}
  /\ exited = FALSE
  /\ Initialize

(***************************************************************************)
(* Both loops start with a call of GetNextMessage.                         *)
(***************************************************************************)
GetNextMessage ==
  /\ ResultsReady
       \/ \E t \in Test : PreRunCheck(t) \/ NextTest(t) \/ StillWaiting(t) \/ NotifyTimeout(t)
  /\ UNCHANGED <<envVars, netVars>>

(***************************************************************************)
(* UdpClientLoop: send the message if there is one, wait up to half a      *)
(* second for a datagram, hand it over.                                    *)
(***************************************************************************)
UdpSend(t) ==
  /\ proto = "udp"
  /\ GetMessage(t)
  /\ requests' = requests \cup {Request(t, sock)}
  /\ contacted' = contacted \cup {Destination(t)}
  /\ UNCHANGED <<envVars, sock, replies, exited>>

UdpReceive(m) ==
  /\ proto = "udp"
  /\ Admits(m.src, m.mapped)
  /\ ProcessResponse(LocalEndpoint(sock), m)
  /\ UNCHANGED <<envVars, netVars>>

UdpNoData ==
  /\ proto = "udp"
  /\ NoResponse
  /\ UNCHANGED <<envVars, netVars>>

ServerResponds(q) ==
  /\ replies' = replies \cup {ProcessBindingRequest(q)}
  /\ UNCHANGED <<logicVars, envVars, sock, contacted, requests, exited>>

(***************************************************************************)
(* TcpClientLoop: every message goes over a connection of its own, from a  *)
(* new socket that is bound to the local port of the command line, if any. *)
(***************************************************************************)
TcpSend(t) ==
  /\ proto = "tcp"
  /\ GetMessage(t)
  /\ sock' = IF fixedPort THEN sock ELSE sock + 1
  /\ UNCHANGED <<envVars, contacted, requests, replies, exited>>

TcpReceive ==
  /\ proto = "tcp"
  /\ ~exited
  /\ call = "S_OK"
  /\ LET q == Request(testlist[nTestIndex], sock)
     IN  ProcessResponse(LocalEndpoint(sock), ProcessBindingRequest(q))
  /\ UNCHANGED <<envVars, netVars>>

(* The server cuts the connection before the whole response was read. *)
TcpCutOff ==
  /\ proto = "tcp"
  /\ ~exited
  /\ call = "S_OK"
  /\ ProcessResponse(LocalEndpoint(sock), Truncated)
  /\ UNCHANGED <<envVars, netVars>>

(* connect, send or recv fails, or GetNextMessage has returned an error. *)
TcpExit ==
  /\ proto = "tcp"
  /\ ~exited
  /\ call \in {"S_OK", "STILL_WAITING"}
  /\ exited' = TRUE
  /\ UNCHANGED <<logicVars, envVars, sock, contacted, requests, replies>>

ClockTick ==
  /\ ~exited
  /\ Tick
  /\ UNCHANGED <<envVars, netVars>>

UdpStep ==
  \/ GetNextMessage
  \/ \E t \in Test : UdpSend(t)
  \/ \E m \in replies : UdpReceive(m)
  \/ UdpNoData

TcpStep ==
  \/ \E t \in Test : TcpSend(t)
  \/ TcpReceive
  \/ TcpCutOff
  \/ TcpExit

Next ==
  \/ UdpStep
  \/ TcpStep
  \/ \E q \in requests : ServerResponds(q)
  \/ ClockTick

(***************************************************************************)
(* The UDP loop is one thread that never waits for longer than its         *)
(* timeout, and the clock advances for ever: strong fairness, because it   *)
(* is read once per call of GetNextMessage and so does not move inside     *)
(* one.  Nothing is assumed about the network, the server or the blocking  *)
(* calls of the TCP loop.                                                  *)
(***************************************************************************)
Spec == Init /\ [][Next]_vars /\ WF_vars(UdpStep) /\ SF_vars(ClockTick)

-----------------------------------------------------------------------------
TypeOK ==
  /\ LogicTypeOK
  /\ proto \in {"udp", "tcp"}
  /\ fixedPort \in BOOLEAN
  /\ nat \in [mapping : Mapping, filtering : NatFilter]
  /\ hasOther \in BOOLEAN
  /\ sock \in Nat
  /\ contacted \subseteq Addr
  /\ \A q \in requests : q.id \in Test /\ q.dst \in Addr /\ q.ext \in Endpoint
  /\ \A m \in replies : m.id \in Test /\ m.src \in Addr /\ m.mapped \in Endpoint
  /\ exited \in BOOLEAN

(***************************************************************************)
(* The mapping behaviour the client reports is the NAT's, however late or  *)
(* often the replies to the three requests it is inferred from arrive,     *)
(* provided that all requests leave from one local port.                   *)
(***************************************************************************)
MappingSound ==
  proto = "udp" \/ fixedPort =>
    results.behavior \in {"UnknownBehavior", nat.mapping}

(***************************************************************************)
(* The reported filtering never misses a restriction the NAT has, but for  *)
(* two cases: a direct connection is reported as endpoint independent      *)
(* whatever filter there is, and with an endpoint-independent mapping the  *)
(* behaviour test has already opened an address-dependent filter for the   *)
(* server's alternate address when the filtering test asks for a reply     *)
(* from it.  (Losses make the report more restrictive, never less.)        *)
(***************************************************************************)
FilteringSound ==
  /\ results.filtering = "AddressDependentFiltering" =>
       nat.filtering # "AddressAndPortDependentFiltering"
  /\ results.filtering = "EndpointIndependentFiltering" =>
       \/ nat.filtering = "EndpointIndependentFiltering"
       \/ results.fIsDirect
       \/ /\ nat.mapping = "EndpointIndependentMapping"
          /\ nat.filtering = "AddressDependentFiltering"

(***************************************************************************)
(* UdpClientLoop registers with the application server at addrDest once    *)
(* the results are ready: the last request of every test list went to the  *)
(* configured server, never to its alternate address.                      *)
(***************************************************************************)
RegistersWithServer ==
  proto = "udp" /\ call = "RESULTS_READY" => addrDest = addrServer

(***************************************************************************)
(* A test fails for want of an answer only after it has sent its request   *)
(* the configured number of times, and no test sends it more often.        *)
(***************************************************************************)
AllAttemptsMade ==
  /\ \A t \in Test : sends[t] <= MaxAttempts
  /\ nTestIndex > 1 /\ ~results.fBindingTestSuccess => sends["binding"] = MaxAttempts
  /\ results.filtering = "AddressAndPortDependentFiltering" =>
       sends["filtering2"] = MaxAttempts /\ sends["filtering3"] = MaxAttempts

(***************************************************************************)
(* While the driver may receive, there is a current test and it is not     *)
(* completed: ProcessResponse never takes its E_UNEXPECTED exits.          *)
(***************************************************************************)
ResponseHasTest ==
  call \in {"S_OK", "STILL_WAITING"} =>
    nTestIndex <= Len(testlist) /\ ~completed[testlist[nTestIndex]]

(***************************************************************************)
(* A classification is made once: no later test, timeout or reply changes  *)
(* it or withdraws its success flag.                                       *)
(***************************************************************************)
ClassifiedOnce ==
  [][ /\ results.behavior # "UnknownBehavior" =>
           /\ results'.behavior = results.behavior
           /\ results'.fBehaviorTestSuccess
      /\ results.filtering # "UnknownFiltering" =>
           /\ results'.filtering = results.filtering
           /\ results'.fFilteringTestSuccess ]_vars

(***************************************************************************)
(* Over UDP the client always comes to its results, whatever happens to    *)
(* its requests and however many datagrams keep arriving.                  *)
(***************************************************************************)
Completes == proto = "udp" ~> call = "RESULTS_READY"
=============================================================================
