---------------------------- MODULE StunServer ----------------------------
(***************************************************************************)
(* The server process: main (server/main.cpp) builds a CStunServer         *)
(* (server.cpp) with its CStunSocketThread objects (stunsocketthread.cpp), *)
(* or a CTCPServer (tcpserver.cpp) with its CTCPStunThread objects, starts *)
(* the threads, waits for SIGINT or SIGTERM, stops them and deletes        *)
(* everything.  Any socket or thread may fail to come up.                  *)
(*                                                                         *)
(* A UDP thread answers datagrams from one socket, on which it blocks, or  *)
(* from several, on which it selects.  What it answers is MessageHandler.  *)
(* The body of a TCP thread is TcpStunThread; here it runs until stopped.  *)
(*                                                                         *)
(* The kernel's part: a bounded number of datagrams waits at a socket,     *)
(* further ones are lost, and select may report a socket whose only        *)
(* datagram recv then discards (a bad checksum).                           *)
(***************************************************************************)
EXTENDS MessageHandler, Sequences, FiniteSets, FiniteSetsExt, SequencesExt

CONSTANTS Configs,  \* the configurations the servers are made with
          Backlog   \* datagrams a socket holds

(* A CStunServerConfig.  main asks for the primary role alone, or for all four;
   only alone may it be bound to every interface.  fMultiThreadedMode is for
   other users of the two classes: main leaves it FALSE. *)
Config == [roles : SUBSET Role, fMultiThreadedMode : BOOLEAN, fTCP : BOOLEAN,
           anyInterface : BOOLEAN, advertised : SUBSET {"P", "A"}]

ASSUME StunServerAssumption ==
  /\ Backlog \in Nat \ {0}
  /\ Configs \subseteq Config
  /\ \A c \in Configs : RolePP \in c.roles /\ (c.anyInterface => c.roles = {RolePP})

VARIABLES
  config,    \* the CStunServerConfig
  \* main
  pc,        \* where main is
  todo,      \* roles or threads the current loop of main has not reached
  shutdown,  \* Stop was called by Shutdown
  threads,   \* the thread objects that exist
  open,      \* roles whose socket is open
  \* a thread, by its index
  valid,     \* _fThreadIsValid
  fNeedToExit,
  socks,     \* _socks
  rotation,  \* _rotation
  at,        \* where the thread is
  sock,      \* pSocket, RolePP while it has none
  \* the kernel
  queue      \* datagrams waiting at the socket of a role

mainVars == <<pc, todo, shutdown, threads, open>>
stopVars == <<valid, fNeedToExit, socks>>
runVars == <<rotation, at, sock>>
vars == <<config, mainVars, stopVars, runVars, queue>>

-----------------------------------------------------------------------------
(* The address a socket of role r is known by. *)
Side(r) == IF r < 2 THEN "P" ELSE "A"

Port(r) == 1 + (r % 2)

Advertised(s) == IF s = "P" THEN "advP" ELSE "advA"

ListenAddr(r) == [ip |-> IF config.anyInterface THEN "zero" ELSE Side(r), port |-> Port(r)]

(* AddSocket and InitTSA: the advertised IP address goes before the bound one. *)
TSA == [r \in Role |->
          [valid |-> r \in config.roles,
           addr |-> IF r \notin config.roles THEN NoAddr
                    ELSE IF Side(r) \in config.advertised
                         THEN [ListenAddr(r) EXCEPT !.ip = Advertised(Side(r))]
                         ELSE ListenAddr(r)]]

(* One thread for all sockets, or one for every socket. *)
Threads == IF config.fMultiThreadedMode THEN config.roles ELSE {RolePP}

IfPresent(r) == IF r \in config.roles THEN <<r>> ELSE <<>>

RecvSockets(t) ==
  IF config.fMultiThreadedMode THEN <<t>>
  ELSE IfPresent(0) \o IfPresent(1) \o IfPresent(2) \o IfPresent(3)

Init ==
  /\ config \in Configs
  /\ pc = IF config.fTCP THEN "TcpInit" ELSE "AddSocket"
  /\ todo = IF config.fTCP THEN Threads ELSE config.roles
  /\ shutdown = FALSE
  /\ threads = {}
  /\ open = {}
  /\ valid = [t \in Role |-> FALSE]
  /\ fNeedToExit = [t \in Role |-> FALSE]
  /\ socks = [t \in Role |-> <<>>]
  /\ rotation = [t \in Role |-> 0]
  /\ at = [t \in Role |-> "none"]
  /\ sock = [t \in Role |-> RolePP]
  /\ queue = [r \in Role |-> 0]

-----------------------------------------------------------------------------
(***************************************************************************)
(* main with a CStunServer.  Initialize: AddSocket for every role, then    *)
(* the threads; Start; Stop in three passes; Shutdown.                     *)
(***************************************************************************)
This == Min(todo)

CallStop(byShutdown) ==
  /\ pc' = "SignalFlag"
  /\ todo' = threads
  /\ shutdown' = byShutdown

AddSocket ==
  /\ pc = "AddSocket" /\ todo # {}
  /\ \/ open' = open \cup {This} /\ todo' = todo \ {This} /\ UNCHANGED <<pc, shutdown>>
     \/ CallStop(TRUE) /\ UNCHANGED open
  /\ UNCHANGED <<config, threads, stopVars, runVars, queue>>

CreateThreads ==
  /\ pc = "AddSocket" /\ todo = {}
  /\ threads' = Threads
  /\ socks' = [t \in Role |-> IF t \in Threads THEN RecvSockets(t) ELSE <<>>]
  /\ pc' = "Start"
  /\ todo' = Threads
  /\ UNCHANGED <<config, shutdown, open, valid, fNeedToExit, runVars, queue>>

(* pthread_create may fail; Start then calls Stop. *)
StartThread ==
  /\ pc = "Start" /\ todo # {}
  /\ \/ /\ valid' = [valid EXCEPT ![This] = TRUE]
        /\ at' = [at EXCEPT ![This] = "loop"]
        /\ todo' = todo \ {This}
        /\ UNCHANGED <<pc, shutdown>>
     \/ CallStop(FALSE) /\ UNCHANGED <<valid, at>>
  /\ UNCHANGED <<config, threads, open, fNeedToExit, socks, rotation, sock, queue>>

Started ==
  /\ pc \in {"Start", "TcpStart"} /\ todo = {}
  /\ pc' = "WaitForAppExitSignal"
  /\ UNCHANGED <<config, todo, shutdown, threads, open, stopVars, runVars, queue>>

AppExitSignal ==
  /\ pc = "WaitForAppExitSignal"
  /\ IF config.fTCP THEN pc' = "TcpDelete" /\ todo' = threads /\ UNCHANGED shutdown
                    ELSE CallStop(FALSE)
  /\ UNCHANGED <<config, threads, open, stopVars, runVars, queue>>

(* Mutant: no datagram is posted. *)
SignalForStopQuietly(t, fPostMessages) ==
  /\ fNeedToExit' = [fNeedToExit EXCEPT ![t] = TRUE]
  /\ queue' = queue

(* The flag first, then a datagram to every socket the thread reads. *)
SignalForStop(t, fPostMessages) ==
  /\ fNeedToExit' = [fNeedToExit EXCEPT ![t] = TRUE]
  /\ queue' = [r \in Role |-> IF fPostMessages /\ Contains(socks[t], r) /\ queue[r] < Backlog
                              THEN queue[r] + 1 ELSE queue[r]]

SignalPass ==
  /\ pc \in {"SignalFlag", "SignalPost"} /\ todo # {}
  /\ SignalForStop(This, pc = "SignalPost")
  /\ todo' = todo \ {This}
  /\ UNCHANGED <<config, pc, shutdown, threads, open, valid, socks, runVars>>

(* Mutant: the thread is not joined. *)
WaitForStopAndCloseDetached(t) ==
  /\ valid' = [valid EXCEPT ![t] = FALSE]
  /\ socks' = [socks EXCEPT ![t] = <<>>]

(* pthread_join, if the thread was ever started and not joined before. *)
WaitForStopAndClose(t) ==
  /\ valid[t] => at[t] = "exit"
  /\ valid' = [valid EXCEPT ![t] = FALSE]
  /\ socks' = [socks EXCEPT ![t] = <<>>]

WaitPass ==
  /\ pc = "WaitForStop" /\ todo # {}
  /\ WaitForStopAndClose(This)
  /\ todo' = todo \ {This}
  /\ UNCHANGED <<config, pc, shutdown, threads, open, fNeedToExit, runVars, queue>>

(* The end of a pass.  Whoever called Stop goes on to the destructor, which
   calls Shutdown, which calls Stop again. *)
NextPass ==
  /\ todo = {}
  /\ \/ pc = "SignalFlag" /\ pc' = "SignalPost" /\ UNCHANGED shutdown
     \/ pc = "SignalPost" /\ pc' = "WaitForStop" /\ UNCHANGED shutdown
     \/ pc = "WaitForStop" /\ ~shutdown /\ pc' = "SignalFlag" /\ shutdown' = TRUE
     \/ pc = "WaitForStop" /\ shutdown /\ pc' = "Close" /\ UNCHANGED shutdown
  /\ todo' = threads
  /\ UNCHANGED <<config, threads, open, stopVars, runVars, queue>>

Close ==
  /\ pc = "Close"
  /\ open' = {}
  /\ queue' = [r \in Role |-> 0]
  /\ pc' = "Delete"
  /\ UNCHANGED <<config, todo, shutdown, threads, stopVars, runVars>>

(* ~CStunSocketThread signals and joins once more. *)
DeleteThread ==
  /\ pc = "Delete" /\ todo # {}
  /\ SignalForStop(This, TRUE)
  /\ WaitForStopAndClose(This)
  /\ threads' = threads \ {This}
  /\ todo' = todo \ {This}
  /\ UNCHANGED <<config, pc, shutdown, open, runVars>>

Exit ==
  /\ pc \in {"Delete", "TcpDelete"} /\ todo = {}
  /\ pc' = "done"
  /\ UNCHANGED <<config, todo, shutdown, threads, open, stopVars, runVars, queue>>

-----------------------------------------------------------------------------
(***************************************************************************)
(* main with a CTCPServer.  A thread opens its own listening sockets in    *)
(* Init and closes them in Stop; Start leaves the threads it started to    *)
(* the destructor; Shutdown deletes the threads one after the other.       *)
(***************************************************************************)
TcpInit ==
  /\ pc = "TcpInit" /\ todo # {}
  /\ threads' = threads \cup {This}
  /\ \/ open' = open \cup Range(RecvSockets(This)) /\ todo' = todo \ {This} /\ UNCHANGED pc
     \/ pc' = "TcpDelete" /\ todo' = threads' /\ UNCHANGED open
  /\ UNCHANGED <<config, shutdown, stopVars, runVars, queue>>

TcpInitialized ==
  /\ pc = "TcpInit" /\ todo = {}
  /\ pc' = "TcpStart"
  /\ todo' = threads
  /\ UNCHANGED <<config, shutdown, threads, open, stopVars, runVars, queue>>

TcpStart ==
  /\ pc = "TcpStart" /\ todo # {}
  /\ \/ /\ valid' = [valid EXCEPT ![This] = TRUE]
        /\ at' = [at EXCEPT ![This] = "tcp"]
        /\ todo' = todo \ {This}
        /\ UNCHANGED pc
     \/ pc' = "TcpDelete" /\ todo' = threads /\ UNCHANGED <<valid, at>>
  /\ UNCHANGED <<config, shutdown, threads, open, fNeedToExit, socks, rotation, sock, queue>>

(* CTCPStunThread::Stop: the flag and the pipe, *)
TcpSignal ==
  /\ pc = "TcpDelete" /\ todo # {}
  /\ valid[This] /\ ~fNeedToExit[This]
  /\ fNeedToExit' = [fNeedToExit EXCEPT ![This] = TRUE]
  /\ UNCHANGED <<config, mainVars, valid, socks, runVars, queue>>

(* the join, and Reset, which closes the listening sockets. *)
TcpJoin ==
  /\ pc = "TcpDelete" /\ todo # {}
  /\ valid[This] => at[This] = "exit"
  /\ valid' = [valid EXCEPT ![This] = FALSE]
  /\ open' = open \ Range(RecvSockets(This))
  /\ queue' = [r \in Role |-> IF r \in open' THEN queue[r] ELSE 0]
  /\ threads' = threads \ {This}
  /\ todo' = todo \ {This}
  /\ UNCHANGED <<config, pc, shutdown, fNeedToExit, socks, runVars>>

(* CTCPStunThread::Run returns once it was told to. *)
TcpRunEnds(t) ==
  /\ at[t] = "tcp"
  /\ fNeedToExit[t]
  /\ at' = [at EXCEPT ![t] = "exit"]
  /\ UNCHANGED <<config, mainVars, stopVars, rotation, sock, queue>>

-----------------------------------------------------------------------------
(***************************************************************************)
(* CStunSocketThread::Run.                                                 *)
(***************************************************************************)
fMultiSocketMode(t) == Len(socks[t]) > 1

Goto(t, where, s) ==
  /\ at' = [at EXCEPT ![t] = where]
  /\ sock' = [sock EXCEPT ![t] = s]

(* Mutant: the search starts at the same socket every time. *)
NextRotationFixed(t) == 0

NextRotation(t) == (rotation[t] + 1) % Len(socks[t])

Loop(t) ==
  /\ at[t] = "loop"
  /\ IF fNeedToExit[t] THEN Goto(t, "exit", RolePP) /\ UNCHANGED rotation
     ELSE IF fMultiSocketMode(t)
          THEN /\ Goto(t, "select", RolePP)
               /\ rotation' = [rotation EXCEPT ![t] = NextRotation(t)]
          ELSE Goto(t, "recv", socks[t][1]) /\ UNCHANGED rotation
  /\ UNCHANGED <<config, mainVars, stopVars, queue>>

(* The first socket select reports, counted from rotation. *)
FirstReady(t, reported) ==
  LET n == Len(socks[t])
      place(i) == socks[t][1 + ((rotation[t] + i) % n)]
      i == Min({j \in 0 .. n - 1 : place(j) \in reported})
  IN  place(i)

(* The rest of WaitForSocketData; reported may hold sockets with nothing to
   read. *)
Select(t) ==
  /\ at[t] = "select"
  /\ \E reported \in (SUBSET Range(socks[t])) \ {{}} :
       /\ {r \in Range(socks[t]) : queue[r] > 0} \subseteq reported
       /\ Goto(t, "selected", FirstReady(t, reported))
  /\ UNCHANGED <<config, mainVars, stopVars, rotation, queue>>

Selected(t) ==
  /\ at[t] = "selected"
  /\ IF fNeedToExit[t] THEN Goto(t, "exit", RolePP) ELSE Goto(t, "recv", sock[t])
  /\ UNCHANGED <<config, mainVars, stopVars, rotation, queue>>

(* recvfromex: blocking with one socket, MSG_DONTWAIT with several. *)
Recv(t) ==
  /\ at[t] = "recv"
  /\ LET s == sock[t] IN
     \/ /\ queue[s] > 0
        /\ queue' = [queue EXCEPT ![s] = @ - 1]
        /\ IF fNeedToExit[t] THEN Goto(t, "exit", RolePP) ELSE Goto(t, "process", s)
     \/ /\ queue[s] = 0 /\ fMultiSocketMode(t)
        /\ Goto(t, "loop", RolePP)
        /\ UNCHANGED queue
  /\ UNCHANGED <<config, mainVars, stopVars, rotation>>

(* ProcessRequestAndSendResponse: the answer, if any, is Answer below. *)
Process(t) ==
  /\ at[t] = "process"
  /\ Goto(t, "loop", RolePP)
  /\ UNCHANGED <<config, mainVars, stopVars, rotation, queue>>

Thread(t) == Loop(t) \/ Select(t) \/ Selected(t) \/ Recv(t) \/ Process(t)

(* A datagram arrives. *)
Datagram(r) ==
  /\ r \in open /\ ~config.fTCP
  /\ queue[r] < Backlog
  /\ queue' = [queue EXCEPT ![r] = @ + 1]
  /\ UNCHANGED <<config, mainVars, stopVars, runVars>>

-----------------------------------------------------------------------------
Main ==
  \/ AddSocket \/ CreateThreads \/ StartThread \/ Started
  \/ SignalPass \/ WaitPass \/ NextPass \/ Close \/ DeleteThread \/ Exit
  \/ TcpInit \/ TcpInitialized \/ TcpStart \/ TcpSignal \/ TcpJoin

(* The process is gone. *)
Gone == pc = "done" /\ UNCHANGED vars

Next ==
  \/ Main
  \/ AppExitSignal
  \/ \E t \in Role : Thread(t) \/ TcpRunEnds(t)
  \/ \E r \in Role : Datagram(r)
  \/ Gone

(***************************************************************************)
(* main and every thread keep running; nothing is assumed about datagrams  *)
(* or signals.                                                             *)
(***************************************************************************)
Spec ==
  /\ Init /\ [][Next]_vars
  /\ WF_vars(Main)
  /\ \A t \in Role : WF_vars(Thread(t)) /\ WF_vars(TcpRunEnds(t))

-----------------------------------------------------------------------------
TypeOK ==
  /\ config \in Configs
  /\ pc \in {"AddSocket", "Start", "WaitForAppExitSignal", "SignalFlag", "SignalPost",
             "WaitForStop", "Close", "Delete", "TcpInit", "TcpStart", "TcpDelete", "done"}
  /\ todo \subseteq Role /\ threads \subseteq Role /\ open \subseteq Role
  /\ shutdown \in BOOLEAN
  /\ valid \in [Role -> BOOLEAN] /\ fNeedToExit \in [Role -> BOOLEAN]
  /\ socks \in [Role -> Seq(Role)]
  /\ rotation \in [Role -> Role]
  /\ at \in [Role -> {"none", "loop", "select", "selected", "recv", "process", "tcp", "exit"}]
  /\ sock \in [Role -> Role]
  /\ queue \in [Role -> 0 .. Backlog]

(***************************************************************************)
(* A thread that has not returned from Run still has its object, the       *)
(* sockets it reads and all sockets it may answer from                     *)
(* (stunsocketthread.cpp:275, :221, :374): nothing that Stop, Shutdown,    *)
(* Close or a failed Start does takes them away before the join.           *)
(***************************************************************************)
ThreadsOwnOpenSockets ==
  \A t \in Role : at[t] \notin {"none", "exit"} =>
    /\ t \in threads
    /\ Range(RecvSockets(t)) \subseteq open
    /\ at[t] # "tcp" => socks[t] = RecvSockets(t) /\ config.roles \subseteq open

(* The requests a thread may meet on the socket of role r; the local address
   is the one the datagram was sent to. *)
Request(r) ==
  [class : {"Request", "Indication"}, type : {"Binding", "Other"}, responsePort : {0, 9},
   padding : BOOLEAN, changeIP : BOOLEAN, changePort : BOOLEAN, role : {r},
   remote : {[ip |-> "client", port |-> 5]},
   local : {[ip |-> IF config.anyInterface THEN "nic" ELSE Side(r), port |-> Port(r)]},
   tcp : {FALSE}, user : {EmptyString}, realm : {EmptyString}, nonce : {EmptyString},
   integrity : {NoIntegrity}]

Answer(in) == ProcessRequest(in, TSA, NoAuth)

(* addr is one by which the socket of role r may be known. *)
Names(addr, r) ==
  /\ addr.ip \in {Side(r), Advertised(Side(r)), "nic"}
  /\ addr.port = Port(r)

(***************************************************************************)
(* Whatever request a UDP thread is processing, its answer is sent from a  *)
(* socket that exists (the assertions of stunsocketthread.cpp:371-374), it *)
(* names that socket as its origin and not the one the request arrived at, *)
(* and the address it offers as the other one is that of an open socket    *)
(* with both the IP address and the port changed.                          *)
(***************************************************************************)
AnswersAreTrue ==
  \A t \in Role : at[t] = "process" =>
    \A in \in Request(sock[t]) :
      LET a == Answer(in)
          opposite == SocketRoleSwapIP(SocketRoleSwapPort(sock[t]))
      IN  a.kind # "none" =>
            /\ a.role \in open /\ TSA[a.role].valid
            /\ a.kind = "success" =>
                 /\ a.origin # NoAddr => Names(a.origin, a.role)
                 /\ a.other # NoAddr => opposite \in open /\ Names(a.other, opposite)

(***************************************************************************)
(* No socket starves: while the server runs, a datagram that waits at a    *)
(* socket is followed by one being received from that socket, however many *)
(* arrive at the others, because WaitForSocketData starts its search one   *)
(* socket further every time (stunsocketthread.cpp:231).                   *)
(***************************************************************************)
EverySocketServed ==
  \A r \in Role :
    queue[r] > 0 ~> \/ queue[r] = 0
                    \/ \E t \in Role : at[t] = "process" /\ sock[t] = r
                    \/ pc \notin {"AddSocket", "Start", "WaitForAppExitSignal"}

(***************************************************************************)
(* main never hangs: it comes to wait for the signal or ends, whichever    *)
(* socket or thread fails to come up, and after the signal it ends, with   *)
(* the threads blocked in recv or select or in the middle of a request     *)
(* (server.cpp:234).                                                       *)
(***************************************************************************)
MainReturns ==
  pc # "WaitForAppExitSignal" ~> pc \in {"WaitForAppExitSignal", "done"}
=============================================================================
