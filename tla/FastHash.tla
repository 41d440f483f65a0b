----------------------------- MODULE FastHash -----------------------------
(***************************************************************************)
(* FastHashBase (common/fasthash.h): a hash table of fixed capacity built  *)
(* of arrays.  Every entry has a node; the nodes in use hang from the      *)
(* bucket of their key, the others from the free list, all through the     *)
(* same pNext field.  A circular array of node numbers answers             *)
(* LookupByIndex; it is repaired for free when the first or the last entry *)
(* goes, and declared invalid, to be rebuilt by the next LookupByIndex,    *)
(* when one goes from the middle.                                          *)
(*                                                                         *)
(* The key and the value of a node that is free are forgotten: the code    *)
(* leaves them in place, and a Find that met one would show here as a      *)
(* node without a key.  indexlist keeps what was written outside the part  *)
(* in use.                                                                 *)
(***************************************************************************)
EXTENDS Naturals, Sequences, FiniteSets, Functions

Seqs == INSTANCE SequencesExt

CONSTANTS Key, Value,
          FSize,    \* _fsize, the capacity
          TSize,    \* _tsize, the width of the table
          Hash      \* FastHash_Hash of every key

ASSUME TableAssumption ==
  /\ FSize \in Nat \ {0}
  /\ TSize \in Nat \ {0}
  /\ Hash \in [Key -> Nat]

VARIABLES
  nodes,       \* _nodes: the key and the value of every node in use
  pNext,       \* _itemnodes[].pNext
  freelist,    \* _freelist
  lookuptable, \* _lookuptable: the first node of every bucket
  indexlist,   \* _indexlist
  fIndexValid, \* _fIndexValid
  indexStart,  \* _indexStart
  size         \* _size

vars == <<nodes, pNext, freelist, lookuptable, indexlist, fIndexValid, indexStart, size>>

Null == FSize  \* the pointer that points nowhere, and an unwritten index
Node == 0 .. FSize - 1
Pointer == Node \cup {Null}
Bucket == 0 .. TSize - 1

HashIndex(k) == Hash[k] % TSize

(* Where entry i of the index is kept in the circular array. *)
Slot(i) == (indexStart + i) % FSize

(* The nodes met from pointer p through the fields next, in order; longer
   than FSize on a cycle. *)
Chain(next, p) ==
  LET follow == [q \in Pointer |-> IF q = Null THEN Null ELSE next[q]]
      probe[n \in 0 .. FSize] == IF n = 0 THEN p ELSE follow[probe[n - 1]]
      met == {n \in 0 .. FSize : probe[n] # Null}
  IN  [i \in 1 .. Cardinality(met) |-> probe[i - 1]]

(* Mutant: the search goes on to the last node with the key. *)
FindOldest(k) ==
  Seqs!SelectLastInSeq(Chain(pNext, lookuptable[HashIndex(k)]), LAMBDA n : nodes[n][1] = k)

(* The place of the first node with key k in its chain, 0 if there is none. *)
Find(k) ==
  Seqs!SelectInSeq(Chain(pNext, lookuptable[HashIndex(k)]), LAMBDA n : nodes[n][1] = k)

-----------------------------------------------------------------------------
Init ==
  /\ nodes = [n \in Node |-> <<>>]
  /\ pNext = [n \in Node |-> n + 1]
  /\ freelist = 0
  /\ lookuptable = [b \in Bucket |-> Null]
  /\ indexlist = [n \in Node |-> Null]
  /\ fIndexValid = TRUE
  /\ indexStart = 0
  /\ size = 0

Reset ==
  /\ lookuptable' = [b \in Bucket |-> Null]
  /\ pNext' = [n \in Node |-> n + 1]
  /\ freelist' = 0
  /\ size' = 0
  /\ fIndexValid' = TRUE
  /\ indexStart' = 0
  /\ nodes' = [n \in Node |-> <<>>]
  /\ UNCHANGED indexlist

(* Mutant: the new entry goes to the end of the array, not of the ring. *)
UpdateIndexWithAddUnrotated(n) ==
  indexlist' = IF fIndexValid /\ size < FSize
               THEN [indexlist EXCEPT ![size] = n] ELSE indexlist

(* Called before size is incremented. *)
UpdateIndexWithAdd(n) ==
  indexlist' = IF fIndexValid /\ size < FSize
               THEN [indexlist EXCEPT ![Slot(size)] = n]
               ELSE indexlist

Insert(k, v) ==
  /\ freelist # Null
  /\ LET n == freelist IN
       /\ freelist' = pNext[n]
       /\ nodes' = [nodes EXCEPT ![n] = <<k, v>>]
       /\ pNext' = [pNext EXCEPT ![n] = lookuptable[HashIndex(k)]]
       /\ lookuptable' = [lookuptable EXCEPT ![HashIndex(k)] = n]
       /\ UpdateIndexWithAdd(n)
       /\ size' = size + 1
  /\ UNCHANGED <<fIndexValid, indexStart>>

(* Called before size is decremented. *)
UpdateIndexWithRemove(n) ==
  IF size = 1 THEN
    fIndexValid' = TRUE /\ indexStart' = 0
  ELSE IF ~fIndexValid THEN
    UNCHANGED <<fIndexValid, indexStart>>
  ELSE IF n = indexlist[Slot(0)] THEN
    indexStart' = Slot(1) /\ UNCHANGED fIndexValid
  ELSE
    fIndexValid' = (n = indexlist[Slot(size - 1)]) /\ UNCHANGED indexStart

(* Mutant: a node behind another one stays linked. *)
UnlinkFirst(chain, i) == pNext

(* The node before the i-th of a chain is made to point behind it. *)
Unlink(chain, i) ==
  IF i = 1 THEN pNext ELSE [pNext EXCEPT ![chain[i - 1]] = pNext[chain[i]]]

Remove(k) ==
  LET chain == Chain(pNext, lookuptable[HashIndex(k)])
      i == Find(k)
      n == chain[i]
  IN  /\ i # 0
      /\ lookuptable' = IF i = 1 THEN [lookuptable EXCEPT ![HashIndex(k)] = pNext[n]]
                                 ELSE lookuptable
      /\ pNext' = [Unlink(chain, i) EXCEPT ![n] = freelist]
      /\ freelist' = n
      /\ UpdateIndexWithRemove(n)
      /\ size' = size - 1
      /\ nodes' = [nodes EXCEPT ![n] = <<>>]
      /\ UNCHANGED indexlist

(* The nodes of all buckets, bucket by bucket. *)
InTableOrder == Seqs!FlattenSeq([t \in 1 .. TSize |-> Chain(pNext, lookuptable[t - 1])])

(* LookupByIndex on an invalid index rebuilds it; on a valid one it changes
   nothing. *)
ReIndex ==
  /\ size # 0
  /\ ~fIndexValid
  /\ LET order == InTableOrder IN
       indexlist' = [n \in Node |-> IF n < Len(order) THEN order[n + 1] ELSE indexlist[n]]
  /\ fIndexValid' = TRUE
  /\ indexStart' = 0
  /\ UNCHANGED <<nodes, pNext, freelist, lookuptable, size>>

Next ==
  \/ Reset
  \/ \E k \in Key, v \in Value : Insert(k, v)
  \/ \E k \in Key : Remove(k)
  \/ ReIndex

Spec == Init /\ [][Next]_vars

-----------------------------------------------------------------------------
TypeOK ==
  /\ nodes \in [Node -> {<<>>} \cup (Key \X Value)]
  /\ pNext \in [Node -> Pointer]
  /\ freelist \in Pointer
  /\ lookuptable \in [Bucket -> Pointer]
  /\ indexlist \in [Node -> Pointer]
  /\ fIndexValid \in BOOLEAN
  /\ indexStart \in Node
  /\ size \in 0 .. FSize

(***************************************************************************)
(* The heap keeps its shape through any sequence of Insert, Remove and     *)
(* Reset (fasthash.h:239, :284, :316): following pNext from the buckets    *)
(* and from the free list meets every node exactly once, every entry hangs *)
(* from the bucket of its key, and _size counts them.                      *)
(***************************************************************************)
NodesPartitioned ==
  LET used == InTableOrder
      all == used \o Chain(pNext, freelist)
  IN  /\ IsInjective(all)
      /\ Range(all) = Node
      /\ Len(used) = size
      /\ \A b \in Bucket : \A n \in Range(Chain(pNext, lookuptable[b])) :
           HashIndex(nodes[n][1]) = b

(***************************************************************************)
(* A valid index answers LookupByIndex (fasthash.h:368) with every entry   *)
(* exactly once for the indices 0 .. size - 1, whatever mixture of         *)
(* insertions, removals at the ends and in the middle, and rebuilds left   *)
(* the ring in this position: the loops over the connection tables and     *)
(* over the attributes of a message skip nothing and repeat nothing.       *)
(***************************************************************************)
IndexExact ==
  fIndexValid =>
    LET entry == [i \in 0 .. size - 1 |-> indexlist[Slot(i)]] IN
      /\ {entry[i] : i \in 0 .. size - 1} = Range(InTableOrder)
      /\ Cardinality({entry[i] : i \in 0 .. size - 1}) = size

(* The nodes in use that carry key k. *)
Holding(k) == {n \in Node : nodes[n] # <<>> /\ nodes[n][1] = k}

(* The elements of s that are in T, in their order. *)
Among(s, T) ==
  LET kept[i \in 0 .. Len(s)] ==
        IF i = 0 THEN <<>>
        ELSE IF s[i] \in T THEN Append(kept[i - 1], s[i]) ELSE kept[i - 1]
  IN  kept[Len(s)]

(***************************************************************************)
(* The table is the bounded map of MultiMap: the values of a key are those *)
(* of the nodes of its chain that carry it, in chain order, so Lookup      *)
(* (fasthash.h:351) returns the newest one.                                *)
(***************************************************************************)
Stack ==
  [k \in Key |->
     LET own == Among(Chain(pNext, lookuptable[HashIndex(k)]), Holding(k))
     IN  [i \in DOMAIN own |-> nodes[own[i]][2]]]

Map == INSTANCE MultiMap WITH stack <- Stack, Capacity <- FSize

ImplementsMultiMap == Map!Spec
=============================================================================
