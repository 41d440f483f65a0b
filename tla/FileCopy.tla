------------------------------ MODULE FileCopy ------------------------------
(***************************************************************************)
(* What the file sharing of client/clientmain.cpp promises the peer that   *)
(* downloads: once the remote peer has announced a file, the local copy    *)
(* only ever grows by the next block of that file, whatever the network    *)
(* does with the datagrams that carry the blocks.  P2PTransfer implements  *)
(* this specification.                                                     *)
(***************************************************************************)
EXTENDS Integers, Sequences

CONSTANTS Peer,   \* the peers that may download a file
          Data    \* the contents a block can have

VARIABLES source, \* source[p]: the blocks announced to p, <<>> before that
          copy    \* copy[p]: the blocks p has handed to its local file

vars == <<source, copy>>

Init == /\ source = [p \in Peer |-> <<>>]
        /\ copy = [p \in Peer |-> <<>>]

(***************************************************************************)
(* A non-empty file is announced to p, once and for all.                   *)
(***************************************************************************)
Announce(p) ==
  /\ source[p] = <<>>
  /\ source'[p] \in Seq(Data) \ {<<>>}
  /\ source' = [source EXCEPT ![p] = source'[p]]
  /\ UNCHANGED copy

(***************************************************************************)
(* p stores the next block of the announced file.                          *)
(***************************************************************************)
CopyBlock(p) ==
  /\ Len(copy[p]) < Len(source[p])
  /\ copy' = [copy EXCEPT ![p] = Append(@, source[p][Len(@) + 1])]
  /\ UNCHANGED source

Next == \E p \in Peer : Announce(p) \/ CopyBlock(p)

Spec == Init /\ [][Next]_vars
=============================================================================
