---------------------------- MODULE MCPollServer ----------------------------
(***************************************************************************)
(* An instance of PollServer for TLC: a poller with no room to spare.      *)
(***************************************************************************)
EXTENDS PollServer

CONSTANTS l1, l2,     \* listening sockets
          f1, f2      \* descriptors

TwoListen == <<l1, l2>>
=============================================================================
