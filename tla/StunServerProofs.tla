-------------------------- MODULE StunServerProofs --------------------------
(***************************************************************************)
(* TLAPS proofs about StunServer, for any configurations and any length of *)
(* the kernel's queues.                                                    *)
(***************************************************************************)
EXTENDS StunServer, TLAPS

-----------------------------------------------------------------------------
(***************************************************************************)
(* The smallest of some roles is one of them.                              *)
(***************************************************************************)
LEMMA MinRole ==
  ASSUME NEW S \in SUBSET Role, S # {}
  PROVE  Min(S) \in S
<1>1. \E x \in S : \A y \in S : x =< y
  <2>1. CASE 0 \in S
    BY <2>1 DEF Role
  <2>2. CASE 0 \notin S /\ 1 \in S
    BY <2>2 DEF Role
  <2>3. CASE 0 \notin S /\ 1 \notin S /\ 2 \in S
    BY <2>3 DEF Role
  <2>4. CASE 0 \notin S /\ 1 \notin S /\ 2 \notin S
    <3>1. \A x \in S : x = 3
      BY <2>4 DEF Role
    <3>2. QED BY <3>1
  <2>5. QED BY <2>1, <2>2, <2>3, <2>4
<1>2. QED BY <1>1 DEF Min

(* RecvSockets is put together of such sequences. *)
LEMMA SingletonSeq ==
  ASSUME NEW S, NEW x \in S
  PROVE  <<x>> \in Seq(S) /\ Len(<<x>>) = 1
  OBVIOUS

(* The type and the length of a concatenation. *)
LEMMA ConcatSeq ==
  ASSUME NEW S, NEW a \in Seq(S), NEW b \in Seq(S)
  PROVE  /\ a \o b \in Seq(S)
         /\ Len(a) \in Nat /\ Len(b) \in Nat /\ Len(a \o b) = Len(a) + Len(b)
  OBVIOUS

(* The role a pass over the threads looks at is one it still has to do. *)
LEMMA ThisInTodo ==
  ASSUME TypeOK, todo # {}
  PROVE  This \in todo /\ This \in Role
  BY MinRole DEF TypeOK, This

(***************************************************************************)
(* The configuration is one of those allowed.                              *)
(***************************************************************************)
LEMMA ConfigFacts ==
  ASSUME config \in Configs
  PROVE  /\ config.roles \subseteq Role /\ RolePP \in config.roles
         /\ config.anyInterface => config.roles = {RolePP}
         /\ config.fTCP \in BOOLEAN /\ config.fMultiThreadedMode \in BOOLEAN
         /\ config.anyInterface \in BOOLEAN
  BY StunServerAssumption DEF Config

(***************************************************************************)
(* A thread reads at least one and at most four sockets, all of which the  *)
(* configuration asks for.                                                 *)
(***************************************************************************)
LEMMA RecvSocketsFacts ==
  ASSUME config \in Configs, NEW t \in Threads
  PROVE  /\ RecvSockets(t) \in Seq(Role)
         /\ Len(RecvSockets(t)) \in 1 .. 4
         /\ Range(RecvSockets(t)) \subseteq config.roles
         /\ config.fMultiThreadedMode => Range(RecvSockets(t)) = {t}
<1>1. /\ config.roles \subseteq Role /\ RolePP \in config.roles
  BY ConfigFacts
<1>2. CASE config.fMultiThreadedMode
  <2>1. RecvSockets(t) = <<t>> /\ t \in config.roles
    BY <1>2 DEF RecvSockets, Threads
  <2>2. QED BY <1>1, <2>1 DEF Range
<1>3. CASE ~config.fMultiThreadedMode
  <2>1. ASSUME NEW s \in Seq(config.roles), NEW r \in Role, NEW n \in Nat, Len(s) \in 1 .. n
        PROVE  s \o IfPresent(r) \in Seq(config.roles) /\ Len(s \o IfPresent(r)) \in 1 .. n + 1
    <3>1. CASE r \in config.roles
      <4>1. IfPresent(r) = <<r>> /\ <<r>> \in Seq(config.roles) /\ Len(<<r>>) = 1
        BY <3>1, SingletonSeq DEF IfPresent
      <4>2. s \o <<r>> \in Seq(config.roles) /\ Len(s \o <<r>>) = Len(s) + 1
        BY <4>1, ConcatSeq
      <4>3. Len(s) + 1 \in 1 .. n + 1
        BY <2>1
      <4>4. QED BY <4>1, <4>2, <4>3
    <3>2. CASE r \notin config.roles
      <4>1. IfPresent(r) = <<>>
        BY <3>2 DEF IfPresent
      <4>2. s \o <<>> = s
        OBVIOUS
      <4>3. Len(s) \in 1 .. n + 1
        BY <2>1
      <4>4. QED BY <4>1, <4>2, <4>3
    <3>3. QED BY <3>1, <3>2
  <2>2. IfPresent(0) = <<0>> /\ <<0>> \in Seq(config.roles) /\ Len(<<0>>) = 1
    BY <1>1, SingletonSeq DEF IfPresent, RolePP
  <2>3. RecvSockets(t) = ((<<0>> \o IfPresent(1)) \o IfPresent(2)) \o IfPresent(3)
    BY <1>3, <2>2 DEF RecvSockets
  <2>4. /\ 1 \in Role /\ 2 \in Role /\ 3 \in Role
        /\ 1 \in Nat /\ 2 \in Nat /\ 3 \in Nat /\ 1 \in 1 .. 1
        /\ 1 + 1 = 2 /\ 2 + 1 = 3 /\ 3 + 1 = 4
    BY DEF Role
  <2> DEFINE s1 == <<0>> \o IfPresent(1)
             s2 == s1 \o IfPresent(2)
             s3 == s2 \o IfPresent(3)
  <2>5. s1 \in Seq(config.roles) /\ Len(s1) \in 1 .. 2
    BY <2>1, <2>2, <2>4, Zenon
  <2> HIDE DEF s1
  <2>6. s2 \in Seq(config.roles) /\ Len(s2) \in 1 .. 3
    BY <2>1, <2>5, <2>4, Zenon
  <2> HIDE DEF s2
  <2>7. s3 \in Seq(config.roles) /\ Len(s3) \in 1 .. 4
    BY <2>1, <2>6, <2>4, Zenon
  <2>8. RecvSockets(t) = s3
    BY <2>3 DEF s1, s2
  <2> HIDE DEF s3
  <2>9. QED BY <1>1, <1>3, <2>7, <2>8 DEF Range
<1>4. QED BY <1>2, <1>3

(* Two threads read different sockets. *)
LEMMA RecvSocketsDisjoint ==
  ASSUME config \in Configs, NEW t \in Threads, NEW u \in Threads, t # u
  PROVE  Range(RecvSockets(t)) \cap Range(RecvSockets(u)) = {}
<1>1. config.fMultiThreadedMode
  BY DEF Threads
<1>2. QED BY <1>1, RecvSocketsFacts

-----------------------------------------------------------------------------
(* Where a thread of CStunServer may be while it runs. *)
Serving == {"loop", "select", "selected", "recv", "process"}

(* What main has when it starts thread t, and leaves alone until the join. *)
Owns(t) ==
  /\ Range(RecvSockets(t)) \subseteq open
  /\ ~config.fTCP => socks[t] = RecvSockets(t) /\ config.roles \subseteq open

(* A thread runs only while it counts as started; a started thread has its
   object and its sockets; a thread at work holds one of the sockets. *)
ThreadInv ==
  /\ threads \subseteq Threads
  /\ \A t \in Role : at[t] \notin {"none", "exit"} => valid[t]
  /\ \A t \in Role : valid[t] => t \in threads /\ Owns(t)
  /\ \A t \in Role : at[t] \in Serving => ~config.fTCP
  /\ \A t \in Role : at[t] \in {"selected", "recv", "process"} => sock[t] \in config.roles

(* Which server main runs. *)
KindInv ==
  /\ pc \in {"AddSocket", "Start", "SignalFlag", "SignalPost", "WaitForStop", "Close", "Delete"}
       => ~config.fTCP
  /\ pc \in {"TcpInit", "TcpStart", "TcpDelete"} => config.fTCP

(* What has come up before the threads are started. *)
StartInv ==
  /\ pc \in {"AddSocket", "TcpInit"} => \A t \in Role : ~valid[t]
  /\ pc = "AddSocket" => config.roles \ todo \subseteq open /\ threads = {}
  /\ pc = "TcpInit" => todo \subseteq Threads
  /\ pc \in {"Start", "TcpStart"} => todo \subseteq threads
  /\ pc \in {"Start", "TcpInit", "TcpStart"} => \A t \in threads : Owns(t)

(* No thread has been forgotten when main stops waiting for them. *)
StopInv ==
  /\ pc = "TcpDelete" => todo = threads
  /\ pc = "WaitForStop" => \A t \in Role : valid[t] => t \in todo
  /\ pc \in {"Close", "Delete", "done"} => \A t \in Role : ~valid[t]

(* The inductive invariant. *)
ServerInv == TypeOK /\ ThreadInv /\ KindInv /\ StartInv /\ StopInv

(* The configuration does not change, and neither does what is derived from it. *)
LEMMA ConfigFrame ==
  ASSUME config' = config
  PROVE  /\ Threads' = Threads
         /\ \A t \in Role : RecvSockets(t)' = RecvSockets(t)
         /\ \A t \in Role : Owns(t) /\ socks'[t] = socks[t] /\ open \subseteq open' => Owns(t)'
<1>1. Threads' = Threads /\ \A t \in Role : RecvSockets(t)' = RecvSockets(t)
  BY DEF Threads, RecvSockets, IfPresent
<1>2. ASSUME NEW t \in Role, Owns(t), socks'[t] = socks[t], open \subseteq open'
      PROVE  Owns(t)'
  BY <1>1, <1>2 DEF Owns
<1>3. QED BY <1>1, <1>2

(* Threads are numbered by roles. *)
LEMMA ThreadsAreRoles ==
  ASSUME config \in Configs
  PROVE  Threads \subseteq Role
  BY ConfigFacts DEF Threads, Role, RolePP

(* The invariant holds initially. *)
LEMMA InitInv == Init => ServerInv
<1> SUFFICES ASSUME Init PROVE ServerInv
  OBVIOUS
<1>1. config \in Configs
  BY DEF Init
<1>2. TypeOK
  <2>1. valid \in [Role -> BOOLEAN] /\ fNeedToExit \in [Role -> BOOLEAN]
    BY Zenon DEF Init
  <2>2. socks \in [Role -> Seq(Role)] /\ todo \subseteq Role
    BY <1>1, ConfigFacts, ThreadsAreRoles DEF Init
  <2>3. /\ rotation \in [Role -> Role] /\ sock \in [Role -> Role]
        /\ queue \in [Role -> 0 .. Backlog]
    BY StunServerAssumption DEF Init, Role, RolePP
  <2>4. at \in [Role -> {"none", "loop", "select", "selected", "recv", "process", "tcp", "exit"}]
    BY DEF Init
  <2>5. /\ pc \in {"AddSocket", "TcpInit"} /\ shutdown \in BOOLEAN
        /\ threads \subseteq Role /\ open \subseteq Role
    BY Zenon DEF Init
  <2>6. QED BY <1>1, <2>1, <2>2, <2>3, <2>4, <2>5, Zenon DEF TypeOK
<1>3. ThreadInv
  BY DEF Init, ThreadInv, Serving
<1>4. KindInv
  BY DEF Init, KindInv
<1>5. StartInv
  BY DEF Init, StartInv
<1>6. StopInv
  BY DEF Init, StopInv
<1>7. QED BY <1>2, <1>3, <1>4, <1>5, <1>6 DEF ServerInv

-----------------------------------------------------------------------------
(* main brings the sockets up. *)
LEMMA AddSocketInv == ServerInv /\ AddSocket => ServerInv'
<1> SUFFICES ASSUME ServerInv, AddSocket PROVE ServerInv'
  OBVIOUS
<1>1. This \in todo /\ This \in Role
  BY ThisInTodo DEF AddSocket, ServerInv
<1>2. config' = config /\ Threads' = Threads
  BY ConfigFrame DEF AddSocket
<1>3. TypeOK'
  BY <1>1 DEF ServerInv, TypeOK, AddSocket, CallStop, stopVars, runVars
<1>4. ThreadInv' /\ KindInv' /\ StartInv' /\ StopInv'
  BY <1>1, <1>2 DEF ServerInv, TypeOK, ThreadInv, KindInv, StartInv, StopInv, AddSocket, CallStop,
       stopVars, runVars
<1>5. QED BY <1>3, <1>4 DEF ServerInv

(* main makes the threads. *)
LEMMA CreateThreadsInv == ServerInv /\ CreateThreads => ServerInv'
<1> SUFFICES ASSUME ServerInv, CreateThreads PROVE ServerInv'
  OBVIOUS
<1>1. config' = config /\ Threads' = Threads /\ config \in Configs
  BY ConfigFrame DEF CreateThreads, ServerInv, TypeOK
<1>2. Threads \subseteq Role
  BY <1>1, ThreadsAreRoles
<1>3. \A t \in Threads : RecvSockets(t) \in Seq(Role) /\ Range(RecvSockets(t)) \subseteq config.roles
  BY <1>1, RecvSocketsFacts
<1>4. socks' \in [Role -> Seq(Role)]
  BY <1>3 DEF CreateThreads
<1>5. TypeOK'
  BY <1>2, <1>4 DEF ServerInv, TypeOK, CreateThreads, runVars
<1>6. \A t \in Threads : Owns(t)'
  <2>1. \A t \in Threads : RecvSockets(t)' = RecvSockets(t)
    BY <1>1, <1>2, ConfigFrame
  <2>2. config.roles \subseteq open /\ open' = open
    BY DEF CreateThreads, ServerInv, StartInv
  <2>3. \A t \in Threads : socks'[t] = RecvSockets(t)
    BY <1>2 DEF CreateThreads
  <2>4. QED BY <1>1, <1>3, <2>1, <2>2, <2>3 DEF Owns
<1>7. ThreadInv' /\ KindInv' /\ StartInv' /\ StopInv'
  BY <1>1, <1>6 DEF ServerInv, ThreadInv, KindInv, StartInv, StopInv, CreateThreads,
       runVars
<1>8. QED BY <1>5, <1>7 DEF ServerInv

(* main starts a thread of either kind. *)
LEMMA StartThreadInv == ServerInv /\ StartThread => ServerInv'
<1> SUFFICES ASSUME ServerInv, StartThread PROVE ServerInv'
  OBVIOUS
<1>1. This \in todo /\ This \in Role
  BY ThisInTodo DEF StartThread, ServerInv
<1>2. config' = config /\ Threads' = Threads
  BY ConfigFrame DEF StartThread
<1>3. \A t \in Role : Owns(t) => Owns(t)'
  BY <1>2, ConfigFrame DEF StartThread
<1>4. TypeOK'
  BY <1>1 DEF ServerInv, TypeOK, StartThread, CallStop
<1>5. KindInv' /\ StartInv' /\ StopInv'
  BY <1>1, <1>2, <1>3 DEF ServerInv, TypeOK, KindInv, StartInv, StopInv, StartThread, CallStop
<1>6. This \in threads /\ Owns(This) /\ ~config.fTCP
  BY <1>1 DEF ServerInv, StartInv, KindInv, StartThread
<1>7. ThreadInv'
  <2>1. ASSUME NEW t \in Role
        PROVE  /\ (at[t] \notin {"none", "exit"})' => valid'[t]
               /\ valid'[t] => (t \in threads /\ Owns(t))'
               /\ (at[t] \in Serving)' => ~config'.fTCP
               /\ (at[t] \in {"selected", "recv", "process"})' => (sock[t] \in config.roles)'
    BY <1>1, <1>2, <1>3, <1>6 DEF ServerInv, TypeOK, ThreadInv, StartThread, Serving
  <2>2. QED BY <1>2, <2>1 DEF ServerInv, ThreadInv, StartThread
<1>8. QED BY <1>4, <1>5, <1>7 DEF ServerInv

(* What main does between the passes of its loops. *)
LEMMA PassesInv ==
  ServerInv /\ (Started \/ AppExitSignal \/ NextPass \/ Exit \/ TcpInitialized) => ServerInv'
<1> SUFFICES ASSUME ServerInv, Started \/ AppExitSignal \/ NextPass \/ Exit \/ TcpInitialized
             PROVE  ServerInv'
  OBVIOUS
<1>1. UNCHANGED <<config, threads, open, stopVars, runVars, queue>>
  BY DEF Started, AppExitSignal, NextPass, Exit, TcpInitialized
<1>2. Threads' = Threads /\ \A t \in Role : Owns(t) => Owns(t)'
  BY <1>1, ConfigFrame DEF stopVars
<1>3. TypeOK'
  <2>1. /\ pc' \in {"WaitForAppExitSignal", "SignalFlag", "SignalPost", "WaitForStop", "Close",
                    "TcpStart", "TcpDelete", "done"}
        /\ todo' \subseteq Role
    BY DEF ServerInv, TypeOK, Started, AppExitSignal, NextPass, Exit, TcpInitialized, CallStop
  <2>2. shutdown' \in BOOLEAN
    BY DEF ServerInv, TypeOK, Started, AppExitSignal, NextPass, Exit, TcpInitialized, CallStop
  <2>3. QED BY <1>1, <2>1, <2>2 DEF ServerInv, TypeOK, stopVars, runVars
<1>4. ThreadInv'
  BY <1>1, <1>2 DEF ServerInv, ThreadInv, stopVars, runVars
<1>5. KindInv' /\ StartInv' /\ StopInv'
  BY <1>1, <1>2 DEF ServerInv, TypeOK, ThreadInv, KindInv, StartInv, StopInv, Started,
       AppExitSignal, NextPass, Exit, TcpInitialized, CallStop, stopVars
<1>6. QED BY <1>3, <1>4, <1>5 DEF ServerInv

(* The flag and the datagrams of SignalForStop are of the right type. *)
LEMMA SignalType ==
  ASSUME TypeOK, NEW t \in Role, NEW post, SignalForStop(t, post)
  PROVE  fNeedToExit' \in [Role -> BOOLEAN] /\ queue' \in [Role -> 0 .. Backlog]
<1>1. fNeedToExit' \in [Role -> BOOLEAN]
  BY DEF TypeOK, SignalForStop
<1>2. ASSUME NEW r \in Role
      PROVE  (IF post /\ Contains(socks[t], r) /\ queue[r] < Backlog
              THEN queue[r] + 1 ELSE queue[r]) \in 0 .. Backlog
  BY StunServerAssumption DEF TypeOK
<1>3. QED BY <1>1, <1>2 DEF SignalForStop

(* The two passes of Stop that tell the threads to end. *)
LEMMA SignalPassInv == ServerInv /\ SignalPass => ServerInv'
<1> SUFFICES ASSUME ServerInv, SignalPass PROVE ServerInv'
  OBVIOUS
<1>1. This \in todo /\ This \in Role
  BY ThisInTodo DEF SignalPass, ServerInv
<1>2. UNCHANGED <<config, pc, threads, open, valid, socks, runVars>>
  BY DEF SignalPass
<1>3. Threads' = Threads /\ \A t \in Role : Owns(t) => Owns(t)'
  BY <1>2, ConfigFrame
<1>4. fNeedToExit' \in [Role -> BOOLEAN] /\ queue' \in [Role -> 0 .. Backlog]
  BY <1>1, SignalType DEF ServerInv, SignalPass
<1>5. TypeOK'
  BY <1>2, <1>4 DEF ServerInv, TypeOK, SignalPass, runVars
<1>6. ThreadInv'
  BY <1>2, <1>3 DEF ServerInv, ThreadInv, runVars
<1>7. KindInv' /\ StartInv' /\ StopInv'
  BY <1>2 DEF ServerInv, KindInv, StartInv, StopInv, SignalPass
<1>8. QED BY <1>5, <1>6, <1>7 DEF ServerInv

(* The join of a thread: it had returned from Run, or was never started. *)
LEMMA JoinInv ==
  ASSUME TypeOK, ThreadInv, NEW j \in Role,
         valid[j] => at[j] = "exit", valid' = [valid EXCEPT ![j] = FALSE],
         socks' = [socks EXCEPT ![j] = <<>>], threads \ {j} \subseteq threads', threads' \subseteq threads,
         UNCHANGED <<config, open, runVars>>
  PROVE  ThreadInv' /\ valid' \in [Role -> BOOLEAN] /\ socks' \in [Role -> Seq(Role)]
<1>1. Threads' = Threads /\ \A t \in Role : t # j /\ Owns(t) => Owns(t)'
  BY ConfigFrame DEF TypeOK
<1>2. valid' \in [Role -> BOOLEAN]
  BY DEF TypeOK
<1>3. socks' \in [Role -> Seq(Role)]
  <2>1. <<>> \in Seq(Role)
    OBVIOUS
  <2>2. QED BY <2>1 DEF TypeOK
<1>4. ThreadInv'
  BY <1>1 DEF TypeOK, ThreadInv, runVars
<1>5. QED BY <1>2, <1>3, <1>4

(* WaitPass preserves the invariant. *)
LEMMA WaitPassInv == ServerInv /\ WaitPass => ServerInv'
<1> SUFFICES ASSUME ServerInv, WaitPass PROVE ServerInv'
  OBVIOUS
<1>1. This \in todo /\ This \in Role
  BY ThisInTodo DEF WaitPass, ServerInv
<1>2. ThreadInv' /\ valid' \in [Role -> BOOLEAN] /\ socks' \in [Role -> Seq(Role)]
  BY <1>1, JoinInv DEF ServerInv, WaitPass, WaitForStopAndClose
<1>3. TypeOK'
  BY <1>2 DEF ServerInv, TypeOK, WaitPass, runVars
<1>4. KindInv' /\ StartInv'
  BY DEF ServerInv, KindInv, StartInv, WaitPass
<1>5. StopInv'
  BY <1>1 DEF ServerInv, TypeOK, StopInv, WaitPass, WaitForStopAndClose
<1>6. QED BY <1>2, <1>3, <1>4, <1>5 DEF ServerInv

(* DeleteThread preserves the invariant. *)
LEMMA DeleteThreadInv == ServerInv /\ DeleteThread => ServerInv'
<1> SUFFICES ASSUME ServerInv, DeleteThread PROVE ServerInv'
  OBVIOUS
<1>1. This \in todo /\ This \in Role
  BY ThisInTodo DEF DeleteThread, ServerInv
<1>2. ThreadInv' /\ valid' \in [Role -> BOOLEAN] /\ socks' \in [Role -> Seq(Role)]
  BY <1>1, JoinInv DEF ServerInv, DeleteThread, WaitForStopAndClose
<1>3. fNeedToExit' \in [Role -> BOOLEAN] /\ queue' \in [Role -> 0 .. Backlog]
  BY <1>1, SignalType DEF ServerInv, DeleteThread
<1>4. TypeOK'
  BY <1>2, <1>3 DEF ServerInv, TypeOK, DeleteThread, runVars
<1>5. KindInv' /\ StartInv'
  BY DEF ServerInv, KindInv, StartInv, DeleteThread
<1>6. StopInv'
  BY <1>1 DEF ServerInv, TypeOK, StopInv, DeleteThread, WaitForStopAndClose
<1>7. QED BY <1>2, <1>4, <1>5, <1>6 DEF ServerInv

(* Shutdown closes the sockets when every thread has been joined. *)
LEMMA CloseInv == ServerInv /\ Close => ServerInv'
<1> SUFFICES ASSUME ServerInv, Close PROVE ServerInv'
  OBVIOUS
<1>1. Threads' = Threads
  BY ConfigFrame DEF Close
<1>2. queue' \in [Role -> 0 .. Backlog]
  BY StunServerAssumption DEF Close
<1>3. TypeOK'
  BY <1>2 DEF ServerInv, TypeOK, Close, stopVars, runVars
<1>4. ThreadInv' /\ KindInv' /\ StartInv' /\ StopInv'
  BY <1>1 DEF ServerInv, ThreadInv, KindInv, StartInv, StopInv, Close, stopVars, runVars
<1>5. QED BY <1>3, <1>4 DEF ServerInv

-----------------------------------------------------------------------------
(* A TCP thread opens its listening sockets, or main gives up. *)
LEMMA TcpInitInv == ServerInv /\ TcpInit => ServerInv'
<1> SUFFICES ASSUME ServerInv, TcpInit PROVE ServerInv'
  OBVIOUS
<1>1. This \in todo /\ This \in Role
  BY ThisInTodo DEF TcpInit, ServerInv
<1>2. config' = config /\ Threads' = Threads /\ config \in Configs /\ config.fTCP
  BY ConfigFrame DEF TcpInit, ServerInv, TypeOK, KindInv
<1>3. This \in Threads
  BY <1>1 DEF TcpInit, ServerInv, StartInv
<1>4. Range(RecvSockets(This)) \subseteq config.roles /\ config.roles \subseteq Role
  BY <1>2, <1>3, RecvSocketsFacts, ConfigFacts
<1>5. TypeOK'
  BY <1>1, <1>4 DEF ServerInv, TypeOK, TcpInit, stopVars, runVars
<1>6. ThreadInv' /\ KindInv' /\ StopInv'
  BY <1>2, <1>3 DEF ServerInv, ThreadInv, KindInv, StartInv, StopInv, TcpInit, stopVars, runVars
<1>7. CASE pc' = "TcpInit"
  <2>1. open' = open \cup Range(RecvSockets(This)) /\ todo' = todo \ {This}
    BY <1>7 DEF TcpInit
  <2>4. ASSUME NEW t \in threads' PROVE Owns(t)'
    <3>1. CASE t = This
      BY <1>2, <2>1, <3>1 DEF Owns, RecvSockets, IfPresent
    <3>2. CASE t # This
      <4>1. t \in threads /\ t \in Role /\ Owns(t)
        BY <3>2 DEF ServerInv, TypeOK, StartInv, TcpInit
      <4>2. socks' = socks /\ open \subseteq open'
        BY <2>1 DEF TcpInit, stopVars
      <4>3. QED BY <1>2, <4>1, <4>2, ConfigFrame
    <3>3. QED BY <3>1, <3>2
  <2>5. StartInv'
    BY <1>2, <1>7, <2>1, <2>4 DEF ServerInv, StartInv, TcpInit, stopVars
  <2>6. QED BY <1>5, <1>6, <2>5 DEF ServerInv
<1>8. CASE pc' # "TcpInit"
  <2>1. StartInv'
    BY <1>8 DEF StartInv, TcpInit
  <2>2. QED BY <1>5, <1>6, <2>1 DEF ServerInv
<1>9. QED BY <1>7, <1>8

(* TcpStart preserves the invariant. *)
LEMMA TcpStartInv == ServerInv /\ TcpStart => ServerInv'
<1> SUFFICES ASSUME ServerInv, TcpStart PROVE ServerInv'
  OBVIOUS
<1>1. This \in todo /\ This \in Role
  BY ThisInTodo DEF TcpStart, ServerInv
<1>2. config' = config /\ Threads' = Threads
  BY ConfigFrame DEF TcpStart
<1>3. \A t \in Role : Owns(t) => Owns(t)'
  BY <1>2, ConfigFrame DEF TcpStart
<1>4. TypeOK'
  BY <1>1 DEF ServerInv, TypeOK, TcpStart
<1>5. KindInv' /\ StartInv' /\ StopInv'
  BY <1>1, <1>2, <1>3 DEF ServerInv, TypeOK, KindInv, StartInv, StopInv, TcpStart
<1>6. This \in threads /\ Owns(This)
  BY <1>1 DEF ServerInv, StartInv, TcpStart
<1>7. ThreadInv'
  <2>1. ASSUME NEW t \in Role
        PROVE  /\ (at[t] \notin {"none", "exit"})' => valid'[t]
               /\ valid'[t] => (t \in threads /\ Owns(t))'
               /\ (at[t] \in Serving)' => ~config'.fTCP
               /\ (at[t] \in {"selected", "recv", "process"})' => (sock[t] \in config.roles)'
    BY <1>1, <1>2, <1>3, <1>6 DEF ServerInv, TypeOK, ThreadInv, TcpStart, Serving
  <2>2. QED BY <1>2, <2>1 DEF ServerInv, ThreadInv, TcpStart
<1>8. QED BY <1>4, <1>5, <1>7 DEF ServerInv

(* TcpSignal preserves the invariant. *)
LEMMA TcpSignalInv == ServerInv /\ TcpSignal => ServerInv'
<1> SUFFICES ASSUME ServerInv, TcpSignal PROVE ServerInv'
  OBVIOUS
<1>1. This \in todo /\ This \in Role
  BY ThisInTodo DEF TcpSignal, ServerInv
<1>2. UNCHANGED <<config, mainVars, valid, socks, runVars>>
  BY DEF TcpSignal
<1>3. Threads' = Threads /\ \A t \in Role : Owns(t) => Owns(t)'
  BY <1>2, ConfigFrame DEF mainVars
<1>4. TypeOK'
  BY <1>1 DEF ServerInv, TypeOK, TcpSignal, mainVars, runVars
<1>5. ThreadInv' /\ KindInv' /\ StartInv' /\ StopInv'
  BY <1>2, <1>3 DEF ServerInv, TypeOK, ThreadInv, KindInv, StartInv, StopInv, mainVars, runVars
<1>6. QED BY <1>4, <1>5 DEF ServerInv

(* Closing the listening sockets of one thread leaves those of the others. *)
LEMMA TcpJoinInv == ServerInv /\ TcpJoin => ServerInv'
<1> SUFFICES ASSUME ServerInv, TcpJoin PROVE ServerInv'
  OBVIOUS
<1>1. This \in todo /\ This \in Role
  BY ThisInTodo DEF TcpJoin, ServerInv
<1>2. config' = config /\ Threads' = Threads /\ config \in Configs /\ config.fTCP
  BY ConfigFrame DEF TcpJoin, ServerInv, TypeOK, KindInv
<1>3. This \in Threads /\ todo = threads
  BY <1>1 DEF TcpJoin, ServerInv, ThreadInv, StopInv
<1>4. queue' \in [Role -> 0 .. Backlog]
  BY StunServerAssumption DEF TcpJoin, ServerInv, TypeOK
<1>5. TypeOK'
  BY <1>1, <1>4 DEF ServerInv, TypeOK, TcpJoin, runVars
<1>6. ASSUME NEW t \in Role, valid[t], t # This
      PROVE  Owns(t)'
  <2>1. t \in Threads /\ Range(RecvSockets(t)) \subseteq open
    BY <1>6 DEF ServerInv, ThreadInv, Owns
  <2>2. Range(RecvSockets(t)) \cap Range(RecvSockets(This)) = {}
    BY <1>2, <1>3, <1>6, <2>1, RecvSocketsDisjoint
  <2>3. RecvSockets(t)' = RecvSockets(t)
    BY <1>2, ConfigFrame
  <2>4. open' = open \ Range(RecvSockets(This))
    BY DEF TcpJoin
  <2>5. QED BY <1>2, <2>1, <2>2, <2>3, <2>4 DEF Owns
<1>7. ThreadInv'
  BY <1>1, <1>2, <1>6 DEF ServerInv, TypeOK, ThreadInv, TcpJoin, runVars, Serving
<1>8. KindInv' /\ StartInv' /\ StopInv'
  BY <1>2, <1>3 DEF ServerInv, KindInv, StartInv, StopInv, TcpJoin
<1>9. QED BY <1>5, <1>7, <1>8 DEF ServerInv

-----------------------------------------------------------------------------
(* A step of a thread that is at work: it changes where the thread is and
   which socket it holds, and nothing that main looks after. *)
LEMMA GotoInv ==
  ASSUME ServerInv, NEW t \in Role, at[t] \in Serving \cup {"tcp"},
         NEW w \in Serving \cup {"exit"}, w # "exit" => at[t] # "tcp",
         at' = [at EXCEPT ![t] = w],
         sock' \in [Role -> Role], \A u \in Role \ {t} : sock'[u] = sock[u],
         w \in {"selected", "recv", "process"} => sock'[t] \in config.roles,
         rotation' \in [Role -> Role], queue' \in [Role -> 0 .. Backlog],
         UNCHANGED <<config, mainVars, stopVars>>
  PROVE  ServerInv'
<1>1. Threads' = Threads /\ \A u \in Role : Owns(u) => Owns(u)'
  BY ConfigFrame DEF mainVars, stopVars
<1>2. TypeOK'
  BY DEF ServerInv, TypeOK, mainVars, stopVars, Serving
<1>3. KindInv' /\ StartInv' /\ StopInv'
  BY <1>1 DEF ServerInv, TypeOK, KindInv, StartInv, StopInv, mainVars, stopVars
<1>4. ASSUME NEW u \in Role
      PROVE  /\ (at[u] \notin {"none", "exit"})' => valid'[u]
             /\ (at[u] \in Serving)' => ~config'.fTCP
             /\ (at[u] \in {"selected", "recv", "process"})' => (sock[u] \in config.roles)'
  <2>1. CASE u = t
    <3>1. at'[u] = w
      BY <2>1 DEF ServerInv, TypeOK
    <3>2. at[u] \notin {"none", "exit"} /\ (w # "exit" => at[u] \in Serving)
      BY <2>1 DEF Serving
    <3>3. QED BY <2>1, <3>1, <3>2 DEF ServerInv, ThreadInv, mainVars, stopVars, Serving
  <2>2. CASE u # t
    <3>1. at'[u] = at[u] /\ sock'[u] = sock[u]
      BY <2>2 DEF ServerInv, TypeOK
    <3>2. QED BY <3>1 DEF ServerInv, ThreadInv, mainVars, stopVars
  <2>3. QED BY <2>1, <2>2
<1>5. ThreadInv'
  BY <1>1, <1>4 DEF ServerInv, ThreadInv, mainVars, stopVars
<1>6. QED BY <1>2, <1>3, <1>5 DEF ServerInv

(* A UDP thread that runs has between one and four sockets, all of them asked
   for by the configuration. *)
LEMMA ServingFacts ==
  ASSUME ServerInv, NEW t \in Role, at[t] \in Serving
  PROVE  /\ socks[t] = RecvSockets(t) /\ socks[t] \in Seq(config.roles)
         /\ Len(socks[t]) \in 1 .. 4 /\ config.roles \subseteq Role
         /\ config.roles \subseteq open
<1>1. config \in Configs /\ t \in Threads /\ ~config.fTCP /\ Owns(t)
  BY DEF ServerInv, TypeOK, ThreadInv, Serving
<1>2. socks[t] = RecvSockets(t) /\ config.roles \subseteq open
  BY <1>1 DEF Owns
<1>3. /\ RecvSockets(t) \in Seq(Role) /\ Len(RecvSockets(t)) \in 1 .. 4
      /\ Range(RecvSockets(t)) \subseteq config.roles
  BY <1>1, RecvSocketsFacts
<1>4. ASSUME NEW s \in Seq(Role), Range(s) \subseteq config.roles
      PROVE  s \in Seq(config.roles)
  BY <1>4 DEF Range
<1>5. config.roles \subseteq Role
  BY <1>1, ConfigFacts
<1>6. QED BY <1>2, <1>3, <1>4, <1>5, Zenon

(* The socket WaitForSocketData finds is one the thread reads. *)
LEMMA FirstReadyIsOwn ==
  ASSUME NEW t \in Role, NEW S, socks[t] \in Seq(S), Len(socks[t]) \in 1 .. 4,
         rotation[t] \in Role,
         NEW reported \in SUBSET Range(socks[t]), reported # {}
  PROVE  FirstReady(t, reported) \in S
<1> DEFINE n == Len(socks[t])
           rot == rotation[t]
           place(i) == socks[t][1 + ((rot + i) % n)]
           J == {j \in 0 .. n - 1 : place(j) \in reported}
<1>1. ASSUME NEW i \in Nat PROVE 1 + ((rot + i) % n) \in 1 .. n
  <2>1. n \in {1, 2, 3, 4} /\ rot \in {0, 1, 2, 3}
    BY DEF Role
  <2> HIDE DEF n, rot
  <2>2. QED BY <2>1
<1>2. ASSUME NEW i \in Nat PROVE place(i) \in S
  BY <1>1
<1>3. PICK k \in 1 .. n : socks[t][k] \in reported
  BY DEF Range
<1>4. \E j \in 0 .. n - 1 : (rot + j) % n = k - 1
  <2>1. n \in {1, 2, 3, 4} /\ rot \in {0, 1, 2, 3} /\ k \in 1 .. n
    BY DEF Role
  <2> HIDE DEF n, rot
  <2>2. CASE n = 1
    <3>1. (rot + 0) % 1 = k - 1 /\ 0 \in 0 .. n - 1
      BY <2>1, <2>2
    <3>2. QED BY <2>2, <3>1
  <2>3. CASE n = 2
    <3>1. \E j \in 0 .. 1 : (rot + j) % 2 = k - 1
      BY <2>1, <2>3
    <3>2. QED BY <2>3, <3>1
  <2>4. CASE n = 3
    <3>1. \E j \in 0 .. 2 : (rot + j) % 3 = k - 1
      BY <2>1, <2>4
    <3>2. QED BY <2>4, <3>1
  <2>5. CASE n = 4
    <3>1. \E j \in 0 .. 3 : (rot + j) % 4 = k - 1
      BY <2>1, <2>5
    <3>2. QED BY <2>5, <3>1
  <2>6. QED BY <2>1, <2>2, <2>3, <2>4, <2>5
<1>5. PICK j \in 0 .. n - 1 : (rot + j) % n = k - 1
  BY <1>4
<1>6. place(j) = socks[t][k]
  <2>1. 1 + (k - 1) = k
    OBVIOUS
  <2>2. QED BY <1>5, <2>1
<1>7. J # {} /\ J \in SUBSET Role
  <2>1. ASSUME NEW m \in 1 .. 4 PROVE 0 .. m - 1 \subseteq Role
    BY DEF Role
  <2>2. QED BY <1>3, <1>6, <2>1
<1>8. Min(J) \in J /\ Min(J) \in Nat
  <2>1. Min(J) \in J
    BY <1>7, MinRole
  <2>2. Min(J) \in Role
    BY <1>7, <2>1, Zenon
  <2>3. Role \subseteq Nat
    BY DEF Role
  <2>4. QED BY <2>1, <2>2, <2>3, Zenon
<1>9. FirstReady(t, reported) = place(Min(J))
  BY DEF FirstReady
<1> HIDE DEF place, J
<1>10. QED BY <1>2, <1>8, <1>9

(* The test of the exit flag preserves the invariant. *)
LEMMA LoopInv ==
  ASSUME ServerInv, NEW t \in Role, Loop(t)
  PROVE  ServerInv'
<1>1. at[t] \in Serving
  BY DEF Loop, Serving
<1>2. /\ socks[t] \in Seq(config.roles) /\ Len(socks[t]) \in 1 .. 4
      /\ config.roles \subseteq Role
  BY <1>1, ServingFacts
<1>3. socks[t][1] \in config.roles
  BY <1>2
<1>4. rotation' \in [Role -> Role]
  <2>1. NextRotation(t) \in Role
    <3>1. rotation[t] \in Role
      BY DEF ServerInv, TypeOK
    <3>2. ASSUME NEW r \in Role, NEW n \in {1, 2, 3, 4} PROVE (r + 1) % n \in Role
      BY DEF Role
    <3>3. Len(socks[t]) \in {1, 2, 3, 4}
      BY <1>2
    <3>4. QED BY <3>1, <3>2, <3>3 DEF NextRotation
  <2>2. QED BY <2>1 DEF Loop, ServerInv, TypeOK
<1>5. /\ queue' \in [Role -> 0 .. Backlog] /\ sock \in [Role -> Role] /\ RolePP \in Role
      /\ UNCHANGED <<config, mainVars, stopVars>>
  BY DEF Loop, ServerInv, TypeOK, Role, RolePP
<1>6. PICK w \in {"exit", "select", "recv"}, s \in Role :
        Goto(t, w, s) /\ (w = "recv" => s \in config.roles)
  BY <1>2, <1>3, <1>5 DEF Loop
<1>7. /\ sock' \in [Role -> Role] /\ \A u \in Role \ {t} : sock'[u] = sock[u]
      /\ sock'[t] = s /\ at' = [at EXCEPT ![t] = w]
  BY <1>5, <1>6 DEF Goto
<1>8. w \in Serving \cup {"exit"} /\ (w \in {"selected", "recv", "process"} => w = "recv")
  BY DEF Serving
<1>9. QED BY <1>1, <1>4, <1>5, <1>6, <1>7, <1>8, GotoInv DEF Loop

(* Select preserves the invariant. *)
LEMMA SelectInv ==
  ASSUME ServerInv, NEW t \in Role, Select(t)
  PROVE  ServerInv'
<1>1. at[t] \in Serving
  BY DEF Select, Serving
<1>2. /\ socks[t] \in Seq(config.roles) /\ Len(socks[t]) \in 1 .. 4
      /\ config.roles \subseteq Role
  BY <1>1, ServingFacts
<1>3. PICK reported \in SUBSET Range(socks[t]) :
        reported # {} /\ Goto(t, "selected", FirstReady(t, reported))
  BY DEF Select
<1>4. rotation[t] \in Role /\ sock \in [Role -> Role]
  BY DEF ServerInv, TypeOK
<1>5. FirstReady(t, reported) \in config.roles
  BY <1>2, <1>3, <1>4, FirstReadyIsOwn
<1> DEFINE s == FirstReady(t, reported)
<1>6. s \in config.roles /\ s \in Role /\ Goto(t, "selected", s)
  BY <1>2, <1>3, <1>5
<1> HIDE DEF s
<1>7. /\ sock' \in [Role -> Role] /\ \A u \in Role \ {t} : sock'[u] = sock[u]
      /\ sock'[t] = s /\ at' = [at EXCEPT ![t] = "selected"]
  BY <1>4, <1>6 DEF Goto
<1>8. /\ queue' \in [Role -> 0 .. Backlog] /\ rotation' \in [Role -> Role]
      /\ UNCHANGED <<config, mainVars, stopVars>>
  BY DEF Select, ServerInv, TypeOK
<1>9. "selected" \in Serving \cup {"exit"} /\ at[t] # "tcp"
  BY DEF Select, Serving
<1>10. QED BY <1>1, <1>6, <1>7, <1>8, <1>9, GotoInv

(* Receiving and answering a datagram preserves the invariant. *)
LEMMA ServeInv ==
  ASSUME ServerInv, NEW t \in Role, Selected(t) \/ Recv(t) \/ Process(t)
  PROVE  ServerInv'
<1>1. at[t] \in Serving /\ at[t] # "tcp" /\ RolePP \in Role
  BY DEF Selected, Recv, Process, Serving, Role, RolePP
<1>2. config.roles \subseteq Role
  BY <1>1, ServingFacts
<1>3. sock \in [Role -> Role] /\ (at[t] \in {"selected", "recv"} => sock[t] \in config.roles)
  BY DEF ServerInv, TypeOK, ThreadInv
<1>4. PICK w \in {"exit", "loop", "recv", "process"}, s \in Role :
        Goto(t, w, s) /\ (w \in {"recv", "process"} => s \in config.roles)
  BY <1>1, <1>2, <1>3 DEF Selected, Recv, Process
<1>5. queue' \in [Role -> 0 .. Backlog]
  <2>1. queue \in [Role -> 0 .. Backlog] /\ sock[t] \in Role
    BY <1>3 DEF ServerInv, TypeOK
  <2>2. queue' = queue \/ (queue[sock[t]] > 0 /\ queue' = [queue EXCEPT ![sock[t]] = @ - 1])
    BY DEF Selected, Recv, Process
  <2>3. QED BY <2>1, <2>2, StunServerAssumption
<1>6. rotation' \in [Role -> Role] /\ UNCHANGED <<config, mainVars, stopVars>>
  BY DEF Selected, Recv, Process, ServerInv, TypeOK
<1>7. /\ sock' \in [Role -> Role] /\ \A u \in Role \ {t} : sock'[u] = sock[u]
      /\ sock'[t] = s /\ at' = [at EXCEPT ![t] = w]
  BY <1>3, <1>4 DEF Goto
<1>8. w \in Serving \cup {"exit"} /\ (w \in {"selected", "recv", "process"} => w \in {"recv", "process"})
  BY DEF Serving
<1>9. QED BY <1>1, <1>4, <1>5, <1>6, <1>7, <1>8, GotoInv

(* TcpRunEnds preserves the invariant. *)
LEMMA TcpRunEndsInv ==
  ASSUME ServerInv, NEW t \in Role, TcpRunEnds(t)
  PROVE  ServerInv'
<1>1. /\ sock' \in [Role -> Role] /\ sock' = sock /\ rotation' \in [Role -> Role]
      /\ queue' \in [Role -> 0 .. Backlog]
  BY DEF TcpRunEnds, ServerInv, TypeOK
<1>2. QED BY <1>1, GotoInv DEF TcpRunEnds, Serving

(* Datagram preserves the invariant. *)
LEMMA DatagramInv ==
  ASSUME ServerInv, NEW r \in Role, Datagram(r)
  PROVE  ServerInv'
<1>1. UNCHANGED <<config, mainVars, stopVars, runVars>>
  BY DEF Datagram
<1>2. Threads' = Threads /\ \A t \in Role : Owns(t) => Owns(t)'
  BY <1>1, ConfigFrame DEF mainVars, stopVars
<1>3. queue' \in [Role -> 0 .. Backlog]
  BY StunServerAssumption DEF Datagram, ServerInv, TypeOK
<1>4. TypeOK'
  BY <1>1, <1>3 DEF ServerInv, TypeOK, mainVars, stopVars, runVars
<1>5. ThreadInv' /\ KindInv' /\ StartInv' /\ StopInv'
  BY <1>1, <1>2 DEF ServerInv, TypeOK, ThreadInv, KindInv, StartInv, StopInv, mainVars, stopVars,
       runVars
<1>6. QED BY <1>4, <1>5 DEF ServerInv

(* A stuttering step preserves the invariant. *)
LEMMA StutterInv == ServerInv /\ UNCHANGED vars => ServerInv'
<1> SUFFICES ASSUME ServerInv, UNCHANGED vars PROVE ServerInv'
  OBVIOUS
<1>1. UNCHANGED <<config, mainVars, stopVars, runVars, queue>>
  BY DEF vars
<1>2. Threads' = Threads /\ \A t \in Role : Owns(t) => Owns(t)'
  BY <1>1, ConfigFrame DEF mainVars, stopVars
<1>3. TypeOK'
  BY <1>1 DEF ServerInv, TypeOK, mainVars, stopVars, runVars
<1>4. ThreadInv' /\ KindInv' /\ StartInv' /\ StopInv'
  BY <1>1, <1>2 DEF ServerInv, TypeOK, ThreadInv, KindInv, StartInv, StopInv, mainVars, stopVars,
       runVars
<1>5. QED BY <1>3, <1>4 DEF ServerInv

(* Every step of main, of a thread or of the kernel keeps the invariant. *)
LEMMA NextInv == ServerInv /\ [Next]_vars => ServerInv'
<1> SUFFICES ASSUME ServerInv, [Next]_vars PROVE ServerInv'
  OBVIOUS
<1>1. CASE Main
  BY <1>1, AddSocketInv, CreateThreadsInv, StartThreadInv, PassesInv, SignalPassInv, WaitPassInv,
     CloseInv, DeleteThreadInv, TcpInitInv, TcpStartInv, TcpSignalInv, TcpJoinInv DEF Main
<1>2. CASE AppExitSignal
  BY <1>2, PassesInv
<1>3. ASSUME NEW t \in Role, Thread(t) PROVE ServerInv'
  BY <1>3, LoopInv, SelectInv, ServeInv DEF Thread
<1>4. ASSUME NEW t \in Role, TcpRunEnds(t) PROVE ServerInv'
  BY <1>4, TcpRunEndsInv
<1>5. ASSUME NEW r \in Role, Datagram(r) PROVE ServerInv'
  BY <1>5, DatagramInv
<1>6. CASE Gone \/ UNCHANGED vars
  BY <1>6, StutterInv DEF Gone
<1>7. QED BY <1>1, <1>2, <1>3, <1>4, <1>5, <1>6 DEF Next

(***************************************************************************)
(* main and its threads keep the inductive invariant, whatever fails to    *)
(* come up and whenever the signal arrives.                                *)
(***************************************************************************)
THEOREM InvariantHolds == Spec => []ServerInv
<1>1. Init => ServerInv
  BY InitInv
<1>2. ServerInv /\ [Next]_vars => ServerInv'
  BY NextInv
<1>3. QED BY <1>1, <1>2, PTL DEF Spec

(***************************************************************************)
(* Type correctness of the server process: in particular a queue never     *)
(* exceeds its bound, and the socket WaitForSocketData picks is one of the *)
(* thread's own (stunsocketthread.cpp:221-262).                            *)
(***************************************************************************)
THEOREM TypeCorrect == Spec => []TypeOK
<1>1. ServerInv => TypeOK
  BY DEF ServerInv
<1>2. QED BY <1>1, InvariantHolds, PTL

(***************************************************************************)
(* A thread that has not returned from Run still has its object and its    *)
(* sockets: Stop joins every thread before Close or a destructor takes     *)
(* anything away, after a failed Start too (server.cpp:179-260,            *)
(* tcpserver.cpp:918-960).                                                 *)
(***************************************************************************)
THEOREM SocketsOutliveThreads == Spec => []ThreadsOwnOpenSockets
<1>1. ServerInv => ThreadsOwnOpenSockets
  <2> SUFFICES ASSUME ServerInv, NEW t \in Role, at[t] \notin {"none", "exit"}
               PROVE  /\ t \in threads
                      /\ Range(RecvSockets(t)) \subseteq open
                      /\ at[t] # "tcp" => socks[t] = RecvSockets(t) /\ config.roles \subseteq open
    BY DEF ThreadsOwnOpenSockets
  <2>1. t \in threads /\ Owns(t)
    BY DEF ServerInv, ThreadInv
  <2>2. at[t] # "tcp" => at[t] \in Serving
    BY DEF ServerInv, TypeOK, Serving
  <2>3. at[t] # "tcp" => ~config.fTCP
    BY <2>2 DEF ServerInv, ThreadInv
  <2>4. QED BY <2>1, <2>3 DEF Owns
<1>2. QED BY <1>1, InvariantHolds, PTL

-----------------------------------------------------------------------------
(* Changing the port, the address or both leads from a role to a role. *)
LEMMA SwapsAreRoles ==
  ASSUME NEW r \in Role
  PROVE  SocketRoleSwapPort(r) \in Role /\ SocketRoleSwapIP(r) \in Role
<1>1. r \in {0, 1, 2, 3}
  BY DEF Role
<1>2. QED BY <1>1 DEF SocketRoleSwapPort, SocketRoleSwapIP, Role

(* The address the server gives for a socket it has: one the socket may be
   known by, or zero when it is bound to every interface. *)
LEMMA AddressNames ==
  ASSUME NEW r \in Role, config.anyInterface \in BOOLEAN
  PROVE  /\ HasAddress(TSA, r) <=> r \in config.roles
         /\ TSA[r].valid = (r \in config.roles)
         /\ r \in config.roles =>
              \/ Names(TSA[r].addr, r) /\ ~IsIPAddressZero(TSA[r].addr)
              \/ IsIPAddressZero(TSA[r].addr) /\ config.anyInterface
<1>1. TSA[r].valid = (r \in config.roles) /\ (HasAddress(TSA, r) <=> r \in config.roles)
  BY DEF HasAddress, TSA
<1>2. ASSUME r \in config.roles
      PROVE  \/ Names(TSA[r].addr, r) /\ ~IsIPAddressZero(TSA[r].addr)
             \/ IsIPAddressZero(TSA[r].addr) /\ config.anyInterface
  <2>1. CASE Side(r) \in config.advertised
    <3>1. TSA[r].addr = [ListenAddr(r) EXCEPT !.ip = Advertised(Side(r))]
      BY <1>2, <2>1 DEF TSA
    <3>2. TSA[r].addr.ip = Advertised(Side(r)) /\ TSA[r].addr.port = Port(r)
      BY <3>1 DEF ListenAddr
    <3>3. Advertised(Side(r)) # "zero"
      BY DEF Advertised
    <3>4. QED BY <3>2, <3>3 DEF Names, IsIPAddressZero
  <2>2. CASE Side(r) \notin config.advertised
    <3>1. TSA[r].addr = ListenAddr(r)
      BY <1>2, <2>2 DEF TSA
    <3>2. QED BY <3>1 DEF ListenAddr, Names, IsIPAddressZero, Side
  <2>3. QED BY <2>1, <2>2
<1>3. QED BY <1>1, <1>2

(* What is said of an answer to a request that arrived at a socket the server
   has, with S the sockets that exist. *)
AnswerIsTrue(r, a, S) ==
  LET opposite == SocketRoleSwapIP(SocketRoleSwapPort(r)) IN
  /\ a.role \in S /\ TSA[a.role].valid
  /\ a.kind = "success" =>
       /\ a.origin # NoAddr => Names(a.origin, a.role)
       /\ a.other # NoAddr => opposite \in S /\ Names(a.other, opposite)

(* What the handler answers is true of the sockets, for every request. *)
LEMMA AnswerTrue ==
  ASSUME config \in Configs, NEW r \in config.roles, NEW in \in Request(r),
         Answer(in).kind # "none"
  PROVE  AnswerIsTrue(r, Answer(in), config.roles)
<1>1. /\ r \in Role /\ config.roles \subseteq Role /\ config.anyInterface \in BOOLEAN
      /\ config.anyInterface => config.roles = {RolePP}
  BY ConfigFacts
<1>2. /\ in.role = r /\ in.changeIP \in BOOLEAN /\ in.changePort \in BOOLEAN
      /\ in.local.ip = (IF config.anyInterface THEN "nic" ELSE Side(r)) /\ in.local.port = Port(r)
  BY DEF Request
<1> DEFINE out == socketOutput(in)
           opposite == SocketRoleSwapIP(SocketRoleSwapPort(r))
           a == Answer(in)
<1>3. out \in Role /\ opposite \in Role /\ (~IsChangeRequest(in) => out = r)
  <2>1. \A x \in Role : SocketRoleSwapPort(x) \in Role /\ SocketRoleSwapIP(x) \in Role
    BY SwapsAreRoles
  <2>2. QED BY <1>1, <1>2, <2>1 DEF socketOutput, IsChangeRequest
<1>4. CASE ErrorCode(in, TSA, NoAuth) # 0
  <2>1. a = BuildErrorResponse(in, ErrorCode(in, TSA, NoAuth), NoAuth)
    BY <1>4 DEF Answer, ProcessRequest, NoResponse
  <2>2. a.kind = "error" /\ a.role = r
    BY <1>2, <2>1 DEF BuildErrorResponse
  <2>3. TSA[r].valid
    BY <1>1, AddressNames
  <2>4. QED BY <2>2, <2>3 DEF AnswerIsTrue
<1>5. CASE ErrorCode(in, TSA, NoAuth) = 0
  <2>1. a = ProcessBindingRequest(in, TSA, NoAuth)
    BY <1>5 DEF Answer, ProcessRequest, NoResponse
  <2>2. a.role = out /\ a.origin = addrOrigin(in, TSA) /\ a.other = addrOther(in, TSA)
    BY <2>1 DEF ProcessBindingRequest
  <2>3. out \in config.roles
    <3>1. ~BindingRequestIsBad(in, TSA)
      BY <1>5 DEF ErrorCode
    <3>2. IsChangeRequest(in) => HasAddress(TSA, out)
      BY <3>1 DEF BindingRequestIsBad
    <3>3. QED BY <1>1, <1>3, <3>2, AddressNames
  <2>4. TSA[out].valid
    BY <1>1, <1>3, <2>3, AddressNames
  <2>5. addrOrigin(in, TSA) # NoAddr => Names(addrOrigin(in, TSA), out)
    <3>1. CASE ~IsIPAddressZero(TSA[out].addr)
      <4>1. addrOrigin(in, TSA) = TSA[out].addr
        BY <3>1 DEF addrOrigin
      <4>2. QED BY <1>1, <1>3, <2>3, <3>1, <4>1, AddressNames
    <3>2. CASE IsIPAddressZero(TSA[out].addr)
      <4>1. config.anyInterface /\ out = r
        BY <1>1, <1>3, <2>3, <3>2, AddressNames
      <4>2. in.local.ip = "nic" /\ in.local.port = Port(out)
        BY <1>2, <4>1
      <4>3. addrOrigin(in, TSA) = in.local
        BY <1>2, <3>2, <4>1, <4>2 DEF addrOrigin, IsIPAddressZero
      <4>4. QED BY <4>2, <4>3 DEF Names
    <3>3. QED BY <3>1, <3>2
  <2>6. addrOther(in, TSA) # NoAddr =>
          opposite \in config.roles /\ Names(addrOther(in, TSA), opposite)
    <3>1. SUFFICES ASSUME addrOther(in, TSA) # NoAddr
                   PROVE  opposite \in config.roles /\ Names(addrOther(in, TSA), opposite)
      OBVIOUS
    <3>2. /\ addrOther(in, TSA) = TSA[opposite].addr
          /\ HasAddress(TSA, opposite) /\ ~IsIPAddressZero(TSA[opposite].addr)
      BY <1>2, <3>1 DEF addrOther, IsIPAddressZeroOrInvalid
    <3>3. QED BY <1>1, <1>3, <3>2, AddressNames
  <2> HIDE DEF out, a
  <2>7. QED BY <2>2, <2>3, <2>4, <2>5, <2>6 DEF AnswerIsTrue, a
<1>6. QED BY <1>4, <1>5

(***************************************************************************)
(* Whatever configuration the server was made with and whatever request a  *)
(* UDP thread processes, the answer leaves from a socket that exists and   *)
(* names it, and the other address it offers is that of an open socket     *)
(* (messagehandler.cpp:202-363, stunsocketthread.cpp:371-374).             *)
(***************************************************************************)
THEOREM AnswersTrue == Spec => []AnswersAreTrue
<1>1. ServerInv => AnswersAreTrue
  <2> SUFFICES ASSUME ServerInv, NEW t \in Role, at[t] = "process",
                      NEW in \in Request(sock[t]), Answer(in).kind # "none"
               PROVE  AnswerIsTrue(sock[t], Answer(in), open)
    BY DEF AnswersAreTrue, AnswerIsTrue
  <2>1. config \in Configs /\ at[t] \in Serving /\ sock[t] \in config.roles
    BY DEF ServerInv, TypeOK, ThreadInv, Serving
  <2>2. config.roles \subseteq open
    BY <2>1, ServingFacts
  <2>3. AnswerIsTrue(sock[t], Answer(in), config.roles)
    BY <2>1, AnswerTrue
  <2>4. QED BY <2>2, <2>3 DEF AnswerIsTrue
<1>2. QED BY <1>1, InvariantHolds, PTL
=============================================================================
