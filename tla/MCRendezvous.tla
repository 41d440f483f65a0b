---------------------------- MODULE MCRendezvous ----------------------------
(***************************************************************************)
(* An instance of Rendezvous for TLC.                                      *)
(***************************************************************************)
EXTENDS Rendezvous

CONSTANTS a, b  \* peers
=============================================================================
