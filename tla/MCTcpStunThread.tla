-------------------------- MODULE MCTcpStunThread --------------------------
(***************************************************************************)
(* Instances of TcpStunThread for TLC.                                     *)
(***************************************************************************)
EXTENDS TcpStunThread, TLC

CONSTANTS l1, l2,         \* listening sockets
          f1, f2, f3, f4  \* descriptors

SocketsAndFds == Permutations({l1, l2}) \cup Permutations({f1, f2, f3, f4})
=============================================================================
