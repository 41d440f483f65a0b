--------------------------- MODULE MCStunServer ---------------------------
(***************************************************************************)
(* The basic and the full mode of main over UDP, with and without          *)
(* advertised addresses, and both over TCP; and the multi-threaded mode of *)
(* the server classes, over UDP with two sockets and over TCP with four.   *)
(***************************************************************************)
EXTENDS StunServer

Cfg(roles, multi, tcp, any, adv) ==
  [roles |-> roles, fMultiThreadedMode |-> multi, fTCP |-> tcp,
   anyInterface |-> any, advertised |-> adv]

ConfigsMC ==
  {Cfg({0}, FALSE, FALSE, TRUE, {}), Cfg({0}, FALSE, FALSE, TRUE, {"P"}),
   Cfg(Role, FALSE, FALSE, FALSE, {}), Cfg(Role, FALSE, FALSE, FALSE, {"P", "A"}),
   Cfg({0, 3}, TRUE, FALSE, FALSE, {"A"}),
   Cfg({0}, FALSE, TRUE, TRUE, {}), Cfg(Role, FALSE, TRUE, FALSE, {}),
   Cfg(Role, TRUE, TRUE, FALSE, {})}
=============================================================================
