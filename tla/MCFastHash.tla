---------------------------- MODULE MCFastHash ----------------------------
(***************************************************************************)
(* A table of three entries in two buckets: three keys, two of which share *)
(* a bucket, so that chains, duplicates, removals from the middle of a     *)
(* chain and of the index, and a wrapped ring all occur.                   *)
(***************************************************************************)
EXTENDS FastHash

HashMC == [k \in Key |-> k]
=============================================================================
