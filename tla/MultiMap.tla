----------------------------- MODULE MultiMap -----------------------------
(***************************************************************************)
(* What the fixed-capacity tables of common/fasthash.h promise their       *)
(* users (connection tables, the attribute index of a STUN message, the    *)
(* descriptor index of CPoll): a bounded map in which inserting a key      *)
(* again shadows the earlier value and removing it uncovers it.            *)
(***************************************************************************)
EXTENDS Naturals, Sequences, FiniteSets

CONSTANTS Key, Value, Capacity

VARIABLE stack  \* stack[k]: the values of k, the newest first

(* The number of entries of s, over all keys. *)
Entries(s) == Cardinality(UNION {{k} \X DOMAIN s[k] : k \in DOMAIN s})

Init == stack = [k \in Key |-> <<>>]

Insert(k, v) ==
  /\ Entries(stack) < Capacity
  /\ stack' = [stack EXCEPT ![k] = <<v>> \o @]

Remove(k) ==
  /\ stack[k] # <<>>
  /\ stack' = [stack EXCEPT ![k] = Tail(@)]

Reset == stack' = [k \in Key |-> <<>>]

Next == \/ \E k \in Key, v \in Value : Insert(k, v)
        \/ \E k \in Key : Remove(k)
        \/ Reset

Spec == Init /\ [][Next]_stack
=============================================================================
