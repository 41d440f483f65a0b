--------------------------- MODULE FastHashProofs ---------------------------
(***************************************************************************)
(* Proofs about FastHash, for every capacity, width of the table, set of   *)
(* keys and hash function: the nodes stay partitioned among the buckets    *)
(* and the free list, a valid index lists every entry exactly once, and    *)
(* the table implements the bounded map of MultiMap.                       *)
(*                                                                         *)
(* The state names each chain by its first node only, so the invariant     *)
(* says that there are sequences of nodes, one for every bucket and one    *)
(* for the free list, that pNext spells out (Heap).  Insert and Remove     *)
(* move a node from one of them to another (HeapMoved); that Chain, which  *)
(* follows the pointers, finds these very sequences is HeapChain.          *)
(***************************************************************************)
EXTENDS FastHash, FiniteSetTheorems, SequenceTheorems, BoundedInduction

-----------------------------------------------------------------------------
(* Chains of a heap: one for every bucket, and the free list last. *)

Chains == 0 .. TSize

(* The i-th element of a sequence of nodes, Null behind its end. *)
At(s, i) == IF i \in 1 .. Len(s) THEN s[i] ELSE Null

(* The sequence s without its i-th element, and with n before its first. *)
Drop(s, i) == [j \in 1 .. Len(s) - 1 |-> IF j < i THEN s[j] ELSE s[j + 1]]
Push(n, s) == [j \in 1 .. Len(s) + 1 |-> IF j = 1 THEN n ELSE s[j - 1]]

(* What they do to length and elements. *)
IsDrop(t, s, i) ==
  /\ Len(t) = Len(s) - 1
  /\ \A j \in 1 .. Len(s) - 1 : t[j] = IF j < i THEN s[j] ELSE s[j + 1]

IsPush(t, n, s) ==
  /\ Len(t) = Len(s) + 1
  /\ t[1] = n
  /\ \A j \in 1 .. Len(s) : t[j + 1] = s[j]
  /\ \A j \in 2 .. Len(s) + 1 : t[j] = s[j - 1]

(* The pointers of next, from p on, spell out s. *)
Linked(next, p, s) ==
  /\ p = At(s, 1)
  /\ \A i \in 1 .. Len(s) : next[s[i]] = At(s, i + 1)

(* No node is met twice, and every node is met. *)
Apart(c) ==
  \A g, h \in Chains : \A i \in 1 .. Len(c[g]), j \in 1 .. Len(c[h]) :
    c[g][i] = c[h][j] => g = h /\ i = j

Meets(c, n) == \E h \in Chains : \E i \in 1 .. Len(c[h]) : c[h][i] = n

Covers(c) == \A n \in Node : Meets(c, n)

Heap(next, first, c) ==
  /\ c \in [Chains -> Seq(Node)]
  /\ \A h \in Chains : Linked(next, first[h], c[h])
  /\ Apart(c)
  /\ Covers(c)

(* In d, the i-th node of chain a has moved to the front of chain b. *)
IsMoved(d, c, a, i, b) ==
  /\ d \in [Chains -> Seq(Node)]
  /\ IsDrop(d[a], c[a], i)
  /\ IsPush(d[b], c[a][i], c[b])
  /\ \A h \in Chains : h # a /\ h # b => d[h] = c[h]

(* The nodes and the pointers are numbers, and Null is not a node. *)
LEMMA PointerFacts ==
  /\ FSize \in Nat /\ FSize # 0 /\ TSize \in Nat /\ TSize # 0 /\ Hash \in [Key -> Nat]
  /\ Null = FSize /\ Null \notin Node /\ Node \subseteq Nat
  /\ Node \subseteq Pointer /\ Null \in Pointer
  /\ Bucket \subseteq Chains /\ TSize \in Chains /\ TSize \notin Bucket
  /\ \A h \in Chains : h # TSize => h \in Bucket
BY TableAssumption DEF Null, Node, Pointer, Bucket, Chains

(* Dropping an element yields a sequence, shorter by one. *)
LEMMA DropFacts ==
  ASSUME NEW S, NEW s \in Seq(S), NEW i \in 1 .. Len(s)
  PROVE  Drop(s, i) \in Seq(S) /\ IsDrop(Drop(s, i), s, i)
<1>1. Len(s) \in Nat /\ Len(s) - 1 \in Nat
  OBVIOUS
<1>2. \A j \in 1 .. Len(s) - 1 : (IF j < i THEN s[j] ELSE s[j + 1]) \in S
  <2>1. \A j \in 1 .. Len(s) - 1 : j \in 1 .. Len(s) /\ j + 1 \in 1 .. Len(s)
    BY <1>1
  <2>2. \A j \in 1 .. Len(s) : s[j] \in S
    OBVIOUS
  <2>3. QED BY <2>1, <2>2
<1>3. QED BY <1>1, <1>2 DEF Drop, IsDrop

(* Putting an element in front yields a sequence, longer by one. *)
LEMMA PushFacts ==
  ASSUME NEW S, NEW s \in Seq(S), NEW n \in S
  PROVE  Push(n, s) \in Seq(S) /\ IsPush(Push(n, s), n, s)
<1>1. Len(s) \in Nat /\ Len(s) + 1 \in Nat
  OBVIOUS
<1>2. \A j \in 1 .. Len(s) + 1 : (IF j = 1 THEN n ELSE s[j - 1]) \in S
  <2>1. \A j \in 1 .. Len(s) + 1 : j # 1 => j - 1 \in 1 .. Len(s)
    BY <1>1
  <2>2. \A j \in 1 .. Len(s) : s[j] \in S
    OBVIOUS
  <2>3. QED BY <2>1, <2>2
<1>3. Push(n, s) \in Seq(S) /\ Len(Push(n, s)) = Len(s) + 1
  BY <1>1, <1>2 DEF Push
<1>4. \A j \in 1 .. Len(s) + 1 : Push(n, s)[j] = IF j = 1 THEN n ELSE s[j - 1]
  BY DEF Push
<1>5. /\ 1 \in 1 .. Len(s) + 1
      /\ \A j \in 1 .. Len(s) : j + 1 \in 1 .. Len(s) + 1 /\ j + 1 # 1 /\ (j + 1) - 1 = j
      /\ \A j \in 2 .. Len(s) + 1 : j \in 1 .. Len(s) + 1 /\ j # 1
  BY <1>1
<1>6. QED BY <1>3, <1>4, <1>5 DEF IsPush


(* A sequence that repeats nothing is as long as its range is large. *)
LEMMA InjectiveLength ==
  ASSUME NEW S, NEW s \in Seq(S), IsInjective(s)
  PROVE  IsFiniteSet(Range(s)) /\ Cardinality(Range(s)) = Len(s)
<1> DEFINE D == 1 .. Len(s)
<1>1. Len(s) \in Nat /\ DOMAIN s = D /\ s \in [D -> S]
  OBVIOUS
<1>2. IsFiniteSet(D) /\ Cardinality(D) = Len(s)
  BY <1>1, FS_Interval
<1> HIDE DEF D
<1>3. s \in Bijection(D, Range(s))
  BY <1>1 DEF Bijection, Injection, Surjection, IsInjective, Range
<1>4. ExistsBijection(D, Range(s))
  BY <1>3 DEF ExistsBijection
<1>5. QED BY <1>2, <1>4, FS_Bijection

(* There are FSize nodes. *)
LEMMA NodeCount == IsFiniteSet(Node) /\ Cardinality(Node) = FSize
<1>1. FSize \in Nat \ {0} /\ 0 \in Int /\ FSize - 1 \in Int
  BY TableAssumption
<1>2. IsFiniteSet(0 .. FSize - 1) /\ Cardinality(0 .. FSize - 1) = FSize
  BY <1>1, FS_Interval
<1>3. QED BY <1>2 DEF Node

(* A sequence of different nodes is no longer than the capacity. *)
LEMMA ChainLength ==
  ASSUME NEW s \in Seq(Node), IsInjective(s)
  PROVE  Len(s) \in Nat /\ Len(s) <= FSize
<1>1. Range(s) \in SUBSET Node
  BY DEF Range
<1>2. IsFiniteSet(Range(s)) /\ Cardinality(Range(s)) = Len(s)
  BY InjectiveLength
<1>3. Cardinality(Range(s)) <= Cardinality(Node)
  BY <1>1, NodeCount, FS_Subset
<1>4. QED BY <1>2, <1>3, NodeCount

(* Find's loop (fasthash.h:104) and ReIndex's (:140) meet exactly the      *)
(* sequence of different nodes that the pointers spell out.                *)
LEMMA LinkedChain ==
  ASSUME NEW next \in [Node -> Pointer], NEW s \in Seq(Node), NEW p,
         Linked(next, p, s), IsInjective(s)
  PROVE  Chain(next, p) = s
<1> DEFINE follow == [q \in Pointer |-> IF q = Null THEN Null ELSE next[q]]
           Def(g) == g = [n \in 0 .. FSize |-> IF n = 0 THEN p ELSE follow[g[n - 1]]]
           w == [n \in 0 .. FSize |-> At(s, n + 1)]
           f == CHOOSE g : Def(g)
<1>1. /\ Len(s) \in Nat /\ Len(s) <= FSize /\ FSize \in Nat
      /\ \A i \in 1 .. Len(s) : s[i] \in Node
      /\ Null \notin Node /\ Node \subseteq Pointer /\ Null \in Pointer
  BY ChainLength, PointerFacts
<1>2. \A i \in Nat \ {0} : At(s, i) \in Pointer /\ follow[At(s, i)] = At(s, i + 1)
  <2>1. TAKE i \in Nat \ {0}
  <2>2. CASE i \in 1 .. Len(s)
    <3>1. At(s, i) = s[i] /\ s[i] \in Node /\ s[i] # Null /\ s[i] \in Pointer
      BY <1>1, <2>2 DEF At
    <3>2. next[s[i]] = At(s, i + 1)
      BY <2>2 DEF Linked
    <3>3. QED BY <3>1, <3>2
  <2>3. CASE i \notin 1 .. Len(s)
    <3>1. i + 1 \notin 1 .. Len(s)
      BY <1>1, <2>3
    <3>2. QED BY <1>1, <2>3, <3>1 DEF At
  <2>4. QED BY <2>2, <2>3
<1> HIDE DEF follow
<1>3. Def(w)
  <2>1. \A n \in 0 .. FSize : At(s, n + 1) = IF n = 0 THEN p ELSE follow[w[n - 1]]
    <3>1. TAKE n \in 0 .. FSize
    <3>2. n = 0 => At(s, n + 1) = p
      BY DEF Linked
    <3>3. ASSUME n # 0 PROVE follow[w[n - 1]] = At(s, n + 1)
      <4>1. n - 1 \in 0 .. FSize /\ (n - 1) + 1 = n /\ n \in Nat \ {0}
        BY <1>1, <3>3
      <4>2. w[n - 1] = At(s, n)
        BY <4>1
      <4>3. QED BY <1>2, <4>1, <4>2
    <3>4. QED BY <3>2, <3>3
  <2>2. QED BY <2>1
<1>4. Def(f)
  <2> HIDE DEF Def, w
  <2>1. QED BY <1>3
<1>5. \A n \in 0 .. FSize : f[n] = IF n = 0 THEN p ELSE follow[f[n - 1]]
  <2> HIDE DEF f
  <2>1. QED BY <1>4
<1> HIDE DEF f
<1>6. \A n \in 0 .. FSize : f[n] = At(s, n + 1)
  <2> DEFINE P == {n \in 0 .. FSize : f[n] = At(s, n + 1)}
  <2>1. 0 \in P
    BY <1>1, <1>5 DEF Linked
  <2>2. ASSUME NEW n \in 0 .. FSize - 1, n \in P
        PROVE  n + 1 \in P
    <3>1. n + 1 \in 0 .. FSize /\ n + 1 # 0 /\ (n + 1) - 1 = n /\ n + 1 \in Nat \ {0}
      BY <1>1
    <3>2. f[n + 1] = follow[f[n]]
      BY <1>5, <3>1
    <3>3. QED BY <1>2, <2>2, <3>1, <3>2
  <2> HIDE DEF P
  <2>3. \A n \in 0 .. FSize : n \in P
    BY <1>1, <2>1, <2>2, UpTo
  <2>4. QED BY <2>3 DEF P
<1>7. {n \in 0 .. FSize : f[n] # Null} = 0 .. Len(s) - 1
  <2>1. \A n \in 0 .. FSize : f[n] # Null <=> n + 1 \in 1 .. Len(s)
    BY <1>1, <1>6 DEF At
  <2>2. QED BY <1>1, <2>1
<1>8. Cardinality(0 .. Len(s) - 1) = Len(s)
  <2>1. 0 \in Int /\ Len(s) - 1 \in Int
    BY <1>1
  <2>2. Cardinality(0 .. Len(s) - 1) = IF 0 > Len(s) - 1 THEN 0 ELSE (Len(s) - 1) - 0 + 1
    BY <2>1, FS_Interval
  <2>3. QED BY <1>1, <2>2
<1>9. Chain(next, p) = [i \in 1 .. Cardinality({n \in 0 .. FSize : f[n] # Null}) |-> f[i - 1]]
  BY DEF Chain, f, follow
<1>10. Chain(next, p) = [i \in 1 .. Len(s) |-> f[i - 1]]
  BY <1>7, <1>8, <1>9
<1>11. \A i \in 1 .. Len(s) : f[i - 1] = s[i]
  BY <1>1, <1>6 DEF At
<1>12. QED BY <1>10, <1>11

(* The chains of a heap repeat nothing, and Chain finds them. *)
LEMMA HeapChain ==
  ASSUME NEW next \in [Node -> Pointer], NEW first, NEW c, Heap(next, first, c), NEW h \in Chains
  PROVE  c[h] \in Seq(Node) /\ IsInjective(c[h]) /\ Chain(next, first[h]) = c[h]
<1>1. c[h] \in Seq(Node) /\ Linked(next, first[h], c[h]) /\ Apart(c)
  BY DEF Heap
<1>2. IsInjective(c[h])
  BY <1>1 DEF Apart, IsInjective
<1>3. QED BY <1>1, <1>2, LinkedChain

(* A node can be moved between any two chains. *)
LEMMA MoveExists ==
  ASSUME NEW c \in [Chains -> Seq(Node)], NEW a \in Chains, NEW b \in Chains, a # b,
         NEW i \in 1 .. Len(c[a])
  PROVE  \E d : IsMoved(d, c, a, i, b)
<1> DEFINE d == [h \in Chains |-> IF h = a THEN Drop(c[a], i)
                                 ELSE IF h = b THEN Push(c[a][i], c[b]) ELSE c[h]]
<1>1. c[a][i] \in Node /\ c[a] \in Seq(Node) /\ c[b] \in Seq(Node)
  OBVIOUS
<1>2. Drop(c[a], i) \in Seq(Node) /\ IsDrop(Drop(c[a], i), c[a], i)
  BY <1>1, DropFacts
<1>3. Push(c[a][i], c[b]) \in Seq(Node) /\ IsPush(Push(c[a][i], c[b]), c[a][i], c[b])
  BY <1>1, PushFacts
<1>4. /\ d \in [Chains -> Seq(Node)]
      /\ d[a] = Drop(c[a], i) /\ d[b] = Push(c[a][i], c[b])
      /\ \A h \in Chains : h # a /\ h # b => d[h] = c[h]
  BY <1>2, <1>3
<1> HIDE DEF d
<1>5. IsMoved(d, c, a, i, b)
  BY <1>2, <1>3, <1>4 DEF IsMoved
<1>6. QED BY <1>5

(* Where the j-th element of chain h was before a move. *)
Origin(d, c, a, i, b, h, j) ==
  \/ h = b /\ j = 1 /\ d[h][j] = c[a][i]
  \/ h = b /\ j # 1 /\ j - 1 \in 1 .. Len(c[b]) /\ d[h][j] = c[b][j - 1]
  \/ h = a /\ j < i /\ j \in 1 .. Len(c[a]) /\ d[h][j] = c[a][j]
  \/ h = a /\ ~(j < i) /\ j + 1 \in 1 .. Len(c[a]) /\ d[h][j] = c[a][j + 1]
  \/ h # a /\ h # b /\ j \in 1 .. Len(c[h]) /\ d[h][j] = c[h][j]

(* It was there. *)
LEMMA MovedOrigin ==
  ASSUME NEW c \in [Chains -> Seq(Node)], NEW a \in Chains, NEW b \in Chains, a # b,
         NEW i \in 1 .. Len(c[a]), NEW d, IsMoved(d, c, a, i, b),
         NEW h \in Chains, NEW j \in 1 .. Len(d[h])
  PROVE  Origin(d, c, a, i, b, h, j)
<1>1. Len(c[a]) \in Nat /\ Len(c[b]) \in Nat
  OBVIOUS
<1>2. CASE h = a
  <2>1. j \in 1 .. Len(c[a]) - 1
    BY <1>2 DEF IsMoved, IsDrop
  <2>2. j \in 1 .. Len(c[a]) /\ j + 1 \in 1 .. Len(c[a])
    BY <1>1, <2>1
  <2>3. d[h][j] = IF j < i THEN c[a][j] ELSE c[a][j + 1]
    BY <1>2, <2>1 DEF IsMoved, IsDrop
  <2>4. QED BY <1>2, <2>2, <2>3 DEF Origin
<1>3. CASE h = b
  <2>1. j \in 1 .. Len(c[b]) + 1 /\ d[h][1] = c[a][i]
    BY <1>3 DEF IsMoved, IsPush
  <2>2. j # 1 => j - 1 \in 1 .. Len(c[b]) /\ j \in 2 .. Len(c[b]) + 1
    BY <1>1, <2>1
  <2>3. j # 1 => d[h][j] = c[b][j - 1]
    BY <1>3, <2>2 DEF IsMoved, IsPush
  <2>4. QED BY <1>3, <2>1, <2>2, <2>3 DEF Origin
<1>4. CASE h # a /\ h # b
  <2>1. d[h] = c[h]
    BY <1>4 DEF IsMoved
  <2>2. QED BY <1>4, <2>1 DEF Origin
<1>5. QED BY <1>2, <1>3, <1>4

(* Where an element of a chain is after a move. *)
LEMMA MovedPlace ==
  ASSUME NEW c \in [Chains -> Seq(Node)], NEW a \in Chains, NEW b \in Chains, a # b,
         NEW i \in 1 .. Len(c[a]), NEW d, IsMoved(d, c, a, i, b),
         NEW h \in Chains, NEW j \in 1 .. Len(c[h])
  PROVE  Meets(d, c[h][j])
<1>1. Len(c[a]) \in Nat /\ Len(c[b]) \in Nat
  OBVIOUS
<1>2. /\ Len(d[a]) = Len(c[a]) - 1
      /\ \A k \in 1 .. Len(c[a]) - 1 : d[a][k] = IF k < i THEN c[a][k] ELSE c[a][k + 1]
  BY DEF IsMoved, IsDrop
<1>3. /\ Len(d[b]) = Len(c[b]) + 1 /\ d[b][1] = c[a][i]
      /\ \A k \in 1 .. Len(c[b]) : d[b][k + 1] = c[b][k]
  BY DEF IsMoved, IsPush
<1>4. CASE h = a /\ j < i
  <2>1. j \in 1 .. Len(d[a]) /\ d[a][j] = c[a][j]
    BY <1>1, <1>2, <1>4
  <2>2. QED BY <1>4, <2>1 DEF Meets
<1>5. CASE h = a /\ j = i
  <2>1. 1 \in 1 .. Len(d[b])
    BY <1>1, <1>3
  <2>2. QED BY <1>3, <1>5, <2>1 DEF Meets
<1>6. CASE h = a /\ j > i
  <2>1. j - 1 \in 1 .. Len(c[a]) - 1 /\ ~(j - 1 < i) /\ (j - 1) + 1 = j
    BY <1>1, <1>6
  <2>2. j - 1 \in 1 .. Len(d[a]) /\ d[a][j - 1] = c[a][j]
    BY <1>2, <2>1
  <2>3. QED BY <1>6, <2>2 DEF Meets
<1>7. CASE h = b
  <2>1. j + 1 \in 1 .. Len(d[b]) /\ d[b][j + 1] = c[b][j]
    BY <1>1, <1>3, <1>7
  <2>2. QED BY <1>7, <2>1 DEF Meets
<1>8. CASE h # a /\ h # b
  <2>1. d[h] = c[h]
    BY <1>8 DEF IsMoved
  <2>2. QED BY <2>1 DEF Meets
<1>9. h = a => j < i \/ j = i \/ j > i
  BY <1>1
<1>10. QED BY <1>4, <1>5, <1>6, <1>7, <1>8, <1>9


(* A move repeats no node and loses none. *)
LEMMA MovedApart ==
  ASSUME NEW c \in [Chains -> Seq(Node)], NEW a \in Chains, NEW b \in Chains, a # b,
         NEW i \in 1 .. Len(c[a]), NEW d, IsMoved(d, c, a, i, b), Apart(c), Covers(c)
  PROVE  Apart(d) /\ Covers(d)
<1> DEFINE chain(h, j) == IF h = b /\ j = 1 THEN a ELSE h
           place(h, j) == IF h = b THEN IF j = 1 THEN i ELSE j - 1
                          ELSE IF h = a /\ ~(j < i) THEN j + 1 ELSE j
<1>1. ASSUME NEW h \in Chains, NEW j \in 1 .. Len(d[h])
      PROVE  /\ chain(h, j) \in Chains /\ place(h, j) \in 1 .. Len(c[chain(h, j)])
             /\ d[h][j] = c[chain(h, j)][place(h, j)]
  <2>1. Origin(d, c, a, i, b, h, j)
    BY MovedOrigin
  <2>2. QED BY <2>1 DEF Origin
<1>2. ASSUME NEW g \in Chains, NEW h \in Chains, NEW x \in 1 .. Len(d[g]), NEW y \in 1 .. Len(d[h]),
             chain(g, x) = chain(h, y), place(g, x) = place(h, y)
      PROVE  g = h /\ x = y
  <2>1. x \in Nat /\ y \in Nat /\ i \in Nat
    <3>1. d[g] \in Seq(Node) /\ d[h] \in Seq(Node)
      BY DEF IsMoved
    <3>2. QED BY <3>1
  <2>2. QED BY <1>2, <2>1
<1> HIDE DEF chain, place
<1>3. Apart(d)
  <2>1. SUFFICES ASSUME NEW g \in Chains, NEW h \in Chains,
                        NEW x \in 1 .. Len(d[g]), NEW y \in 1 .. Len(d[h]),
                        d[g][x] = d[h][y]
                 PROVE  g = h /\ x = y
    BY DEF Apart
  <2>2. chain(g, x) = chain(h, y) /\ place(g, x) = place(h, y)
    <3>1. /\ chain(g, x) \in Chains /\ place(g, x) \in 1 .. Len(c[chain(g, x)])
          /\ d[g][x] = c[chain(g, x)][place(g, x)]
      BY <1>1
    <3>2. /\ chain(h, y) \in Chains /\ place(h, y) \in 1 .. Len(c[chain(h, y)])
          /\ d[h][y] = c[chain(h, y)][place(h, y)]
      BY <1>1
    <3> DEFINE u == chain(g, x)
               v == chain(h, y)
               k == place(g, x)
               l == place(h, y)
    <3>3. u \in Chains /\ v \in Chains /\ k \in 1 .. Len(c[u]) /\ l \in 1 .. Len(c[v])
      BY <3>1, <3>2
    <3>4. c[u][k] = c[v][l]
      BY <2>1, <3>1, <3>2
    <3> HIDE DEF u, v, k, l
    <3>5. u = v /\ k = l
      BY <3>3, <3>4 DEF Apart
    <3>6. QED BY <3>5 DEF u, v, k, l
  <2>3. QED BY <1>2, <2>2
<1>4. Covers(d)
  <2>1. SUFFICES ASSUME NEW n \in Node PROVE Meets(d, n)
    BY DEF Covers
  <2>2. PICK h \in Chains : \E j \in 1 .. Len(c[h]) : c[h][j] = n
    BY DEF Covers, Meets
  <2>3. PICK j \in 1 .. Len(c[h]) : c[h][j] = n
    BY <2>2
  <2>4. Meets(d, c[h][j])
    BY MovedPlace
  <2>5. QED BY <2>3, <2>4
<1>5. QED BY <1>3, <1>4

(* What the places of the two chains hold after a move. *)
MovedPlaces(d, c, a, i, b) ==
  /\ \A j \in Nat \ {0} : At(d[a], j) = IF j < i THEN At(c[a], j) ELSE At(c[a], j + 1)
  /\ At(d[b], 1) = c[a][i]
  /\ \A j \in Nat \ {0} : At(d[b], j + 1) = At(c[b], j)

(* This is what they hold. *)
LEMMA MovedAt ==
  ASSUME NEW c \in [Chains -> Seq(Node)], NEW a \in Chains, NEW b \in Chains, a # b,
         NEW i \in 1 .. Len(c[a]), NEW d, IsMoved(d, c, a, i, b)
  PROVE  MovedPlaces(d, c, a, i, b)
<1>1. Len(c[a]) \in Nat /\ Len(c[b]) \in Nat /\ i \in Nat
  OBVIOUS
<1>2. Len(d[a]) = Len(c[a]) - 1 /\ Len(d[b]) = Len(c[b]) + 1
  BY DEF IsMoved, IsDrop, IsPush
<1>3. ASSUME NEW j \in Nat \ {0}
      PROVE  At(d[a], j) = IF j < i THEN At(c[a], j) ELSE At(c[a], j + 1)
  <2>1. /\ j < i => j \in 1 .. Len(c[a]) /\ j \in 1 .. Len(d[a])
        /\ ~(j < i) => (j \in 1 .. Len(d[a]) <=> j + 1 \in 1 .. Len(c[a]))
    BY <1>1, <1>2
  <2>2. j \in 1 .. Len(d[a]) => d[a][j] = IF j < i THEN c[a][j] ELSE c[a][j + 1]
    BY <1>2 DEF IsMoved, IsDrop
  <2>3. QED BY <2>1, <2>2 DEF At
<1>4. At(d[b], 1) = c[a][i]
  <2>1. 1 \in 1 .. Len(d[b]) /\ d[b][1] = c[a][i]
    BY <1>1, <1>2 DEF IsMoved, IsPush
  <2>2. QED BY <2>1 DEF At
<1>5. ASSUME NEW j \in Nat \ {0}
      PROVE  At(d[b], j + 1) = At(c[b], j)
  <2>1. j + 1 \in 1 .. Len(d[b]) <=> j \in 1 .. Len(c[b])
    BY <1>1, <1>2
  <2>2. j \in 1 .. Len(c[b]) => d[b][j + 1] = c[b][j]
    BY DEF IsMoved, IsPush
  <2>3. QED BY <2>1, <2>2 DEF At
<1>6. QED BY <1>3, <1>4, <1>5 DEF MovedPlaces

(* The pointers Insert and Remove write when a node leaves the i-th place  *)
(* of chain a for the front of chain b (fasthash.h:299-309, :329-344).     *)
Relinked(next2, next, first2, first, c, a, i, b) ==
  /\ \A m \in Node : next2[m] = IF m = c[a][i] THEN first[b]
                                ELSE IF i # 1 /\ m = c[a][i - 1] THEN next[c[a][i]]
                                ELSE next[m]
  /\ \A h \in Chains : first2[h] = IF h = b THEN c[a][i]
                                   ELSE IF h = a /\ i = 1 THEN next[c[a][i]]
                                   ELSE first[h]

(* These pointers spell out the chains after the move. *)
LEMMA HeapMoved ==
  ASSUME NEW next, NEW first, NEW c, Heap(next, first, c),
         NEW a \in Chains, NEW b \in Chains, a # b, NEW i \in 1 .. Len(c[a]),
         NEW d, IsMoved(d, c, a, i, b),
         NEW next2, NEW first2, Relinked(next2, next, first2, first, c, a, i, b)
  PROVE  Heap(next2, first2, d)
<1>1. /\ c \in [Chains -> Seq(Node)] /\ Apart(c) /\ Covers(c)
      /\ \A h \in Chains : first[h] = At(c[h], 1)
      /\ \A h \in Chains : \A j \in 1 .. Len(c[h]) : next[c[h][j]] = At(c[h], j + 1)
  BY DEF Heap, Linked
<1>2. Apart(d) /\ Covers(d)
  BY <1>1, MovedApart
<1>3. /\ \A j \in Nat \ {0} : At(d[a], j) = IF j < i THEN At(c[a], j) ELSE At(c[a], j + 1)
      /\ At(d[b], 1) = c[a][i]
      /\ \A j \in Nat \ {0} : At(d[b], j + 1) = At(c[b], j)
  <2>1. MovedPlaces(d, c, a, i, b)
    BY <1>1, MovedAt
  <2>2. QED BY <2>1 DEF MovedPlaces
<1>4. /\ Len(c[a]) \in Nat /\ Len(c[b]) \in Nat /\ i \in Nat /\ c[a][i] \in Node
      /\ \A h \in Chains : \A j \in 1 .. Len(c[h]) : c[h][j] \in Node /\ j \in Nat \ {0}
  BY <1>1
<1>5. /\ Len(d[a]) = Len(c[a]) - 1 /\ Len(d[b]) = Len(c[b]) + 1
      /\ i # 1 => i - 1 \in 1 .. Len(c[a]) /\ i - 1 # i
  BY <1>4 DEF IsMoved, IsDrop, IsPush
<1>6. ASSUME NEW h \in Chains, NEW j \in 1 .. Len(c[h]), h = a => j # i /\ j # i - 1
      PROVE  next2[c[h][j]] = At(c[h], j + 1)
  <2>1. c[h][j] # c[a][i]
    BY <1>1, <1>6 DEF Apart
  <2>2. i # 1 => c[h][j] # c[a][i - 1]
    BY <1>1, <1>5, <1>6 DEF Apart
  <2>3. next2[c[h][j]] = next[c[h][j]]
    BY <1>4, <2>1, <2>2 DEF Relinked
  <2>4. QED BY <1>1, <2>3
<1>7. ASSUME NEW h \in Chains
      PROVE  Linked(next2, first2[h], d[h])
  <2>1. CASE h = b
    <3>1. first2[b] = At(d[b], 1)
      BY <1>3 DEF Relinked
    <3>2. ASSUME NEW j \in 1 .. Len(d[b])
          PROVE  next2[d[b][j]] = At(d[b], j + 1)
      <4>1. CASE j = 1
        <5>1. next2[d[b][1]] = first[b] /\ first[b] = At(c[b], 1)
          BY <1>1, <1>4 DEF Relinked, IsMoved, IsPush
        <5>2. 1 \in Nat \ {0} /\ At(d[b], 1 + 1) = At(c[b], 1)
          BY <1>3
        <5>3. QED BY <4>1, <5>1, <5>2
      <4>2. CASE j # 1
        <5>1. j - 1 \in 1 .. Len(c[b]) /\ (j - 1) + 1 = j /\ j \in Nat \ {0} /\ j \in 2 .. Len(c[b]) + 1
          BY <1>4, <1>5, <4>2
        <5>2. d[b][j] = c[b][j - 1]
          BY <5>1 DEF IsMoved, IsPush
        <5>3. next2[c[b][j - 1]] = At(c[b], j)
          BY <1>6, <5>1
        <5>4. At(d[b], j + 1) = At(c[b], j)
          BY <1>3, <5>1
        <5>5. QED BY <5>2, <5>3, <5>4
      <4>3. QED BY <4>1, <4>2
    <3>3. QED BY <2>1, <3>1, <3>2 DEF Linked
  <2>2. CASE h = a
    <3>1. first2[a] = At(d[a], 1)
      <4>1. 1 \in Nat \ {0} /\ 1 + 1 = 2
        OBVIOUS
      <4>2. CASE i = 1
        <5>1. first2[a] = next[c[a][i]] /\ next[c[a][i]] = At(c[a], i + 1)
          BY <1>1, <4>2 DEF Relinked
        <5>2. At(d[a], 1) = At(c[a], 2)
          BY <1>3, <4>1, <4>2
        <5>3. QED BY <4>2, <5>1, <5>2
      <4>3. CASE i # 1
        <5>1. first2[a] = first[a] /\ 1 < i
          BY <1>4, <4>3 DEF Relinked
        <5>2. QED BY <1>1, <1>3, <4>1, <5>1
      <4>4. QED BY <4>2, <4>3
    <3>2. ASSUME NEW j \in 1 .. Len(d[a])
          PROVE  next2[d[a][j]] = At(d[a], j + 1)
      <4>1. /\ j \in Nat \ {0} /\ j + 1 \in Nat \ {0} /\ j \in 1 .. Len(c[a])
            /\ j + 1 \in 1 .. Len(c[a]) /\ j \in 1 .. Len(c[a]) - 1
        BY <1>4, <1>5
      <4>2. d[a][j] = IF j < i THEN c[a][j] ELSE c[a][j + 1]
        BY <4>1 DEF IsMoved, IsDrop
      <4>3. At(d[a], j + 1) = IF j + 1 < i THEN At(c[a], j + 1) ELSE At(c[a], (j + 1) + 1)
        BY <1>3, <4>1
      <4>4. CASE j + 1 < i
        <5>1. j < i /\ j # i /\ j # i - 1
          BY <1>4, <4>1, <4>4
        <5>2. next2[c[a][j]] = At(c[a], j + 1)
          BY <1>6, <4>1, <5>1
        <5>3. QED BY <4>2, <4>3, <4>4, <5>1, <5>2
      <4>5. CASE j + 1 = i
        <5>1. j < i /\ j = i - 1 /\ i # 1 /\ ~(j + 1 < i)
          BY <1>4, <4>1, <4>5
        <5>2. c[a][j] # c[a][i]
          BY <1>1, <1>4, <4>1, <5>1 DEF Apart
        <5>3. next2[c[a][j]] = next[c[a][i]]
          BY <1>4, <4>1, <5>1, <5>2 DEF Relinked
        <5>4. next[c[a][i]] = At(c[a], i + 1)
          BY <1>1
        <5>5. QED BY <4>2, <4>3, <4>5, <5>1, <5>3, <5>4
      <4>6. CASE ~(j < i)
        <5>1. j + 1 # i /\ j + 1 # i - 1 /\ ~(j + 1 < i)
          BY <1>4, <4>1, <4>6
        <5>2. next2[c[a][j + 1]] = At(c[a], (j + 1) + 1)
          BY <1>6, <4>1, <5>1
        <5>3. QED BY <4>2, <4>3, <4>6, <5>1, <5>2
      <4>7. QED BY <1>4, <4>1, <4>4, <4>5, <4>6
    <3>3. QED BY <2>2, <3>1, <3>2 DEF Linked
  <2>3. CASE h # a /\ h # b
    <3>1. d[h] = c[h] /\ first2[h] = first[h]
      BY <2>3 DEF IsMoved, Relinked
    <3>2. \A j \in 1 .. Len(c[h]) : next2[c[h][j]] = At(c[h], j + 1)
      BY <1>6, <2>3
    <3>3. QED BY <1>1, <3>1, <3>2 DEF Linked
  <2>4. QED BY <2>1, <2>2, <2>3
<1>8. QED BY <1>2, <1>7 DEF Heap, IsMoved

-----------------------------------------------------------------------------
(* The order in which ReIndex meets the nodes. *)

(* Sequences without repetition and without a common element, one after    *)
(* the other, repeat nothing.                                              *)
LEMMA ConcatRange ==
  ASSUME NEW S, NEW s \in Seq(S), NEW t \in Seq(S)
  PROVE  /\ s \o t \in Seq(S)
         /\ Range(s \o t) = Range(s) \cup Range(t)
         /\ IsInjective(s) /\ IsInjective(t) /\ Range(s) \cap Range(t) = {} => IsInjective(s \o t)
<1>1. /\ s \o t \in Seq(S) /\ Len(s) \in Nat /\ Len(t) \in Nat /\ Len(s \o t) = Len(s) + Len(t)
      /\ DOMAIN s = 1 .. Len(s) /\ DOMAIN t = 1 .. Len(t)
      /\ DOMAIN (s \o t) = 1 .. Len(s) + Len(t)
  OBVIOUS
<1>2. \A i \in 1 .. Len(s) + Len(t) :
        (s \o t)[i] = IF i <= Len(s) THEN s[i] ELSE t[i - Len(s)]
  OBVIOUS
<1>3. \A i \in 1 .. Len(s) + Len(t) :
        /\ i <= Len(s) => i \in 1 .. Len(s)
        /\ ~(i <= Len(s)) => i - Len(s) \in 1 .. Len(t)
  BY <1>1
<1> DEFINE u == s \o t
<1>4. /\ DOMAIN u = 1 .. Len(s) + Len(t)
      /\ \A i \in DOMAIN u : \/ i \in DOMAIN s /\ u[i] = s[i]
                             \/ i - Len(s) \in DOMAIN t /\ u[i] = t[i - Len(s)]
  BY <1>1, <1>2, <1>3
<1>5. /\ \A i \in DOMAIN s : i \in DOMAIN u /\ u[i] = s[i]
      /\ \A i \in DOMAIN t : i + Len(s) \in DOMAIN u /\ u[i + Len(s)] = t[i]
  <2>1. \A i \in 1 .. Len(s) : i \in 1 .. Len(s) + Len(t) /\ i <= Len(s)
    BY <1>1
  <2>2. \A i \in 1 .. Len(t) : /\ i + Len(s) \in 1 .. Len(s) + Len(t)
                               /\ ~(i + Len(s) <= Len(s)) /\ (i + Len(s)) - Len(s) = i
    BY <1>1
  <2>3. QED BY <1>1, <1>2, <2>1, <2>2
<1> HIDE DEF u
<1>6. Range(u) = Range(s) \cup Range(t)
  <2>1. Range(u) \subseteq Range(s) \cup Range(t)
    BY <1>4 DEF Range
  <2>2. Range(s) \subseteq Range(u) /\ Range(t) \subseteq Range(u)
    BY <1>5 DEF Range
  <2>3. QED BY <2>1, <2>2
<1>7. ASSUME IsInjective(s), IsInjective(t), Range(s) \cap Range(t) = {}
      PROVE  IsInjective(u)
  <2>1. SUFFICES ASSUME NEW i \in DOMAIN u, NEW j \in DOMAIN u, u[i] = u[j] PROVE i = j
    BY DEF IsInjective
  <2>2. \A x \in DOMAIN s, y \in DOMAIN t : s[x] # t[y]
    BY <1>7 DEF Range
  <2>3. CASE i \in DOMAIN s /\ u[i] = s[i] /\ j \in DOMAIN s /\ u[j] = s[j]
    BY <1>7, <2>1, <2>3 DEF IsInjective
  <2>4. CASE /\ i - Len(s) \in DOMAIN t /\ u[i] = t[i - Len(s)]
             /\ j - Len(s) \in DOMAIN t /\ u[j] = t[j - Len(s)]
    <3>1. i - Len(s) = j - Len(s)
      BY <1>7, <2>1, <2>4 DEF IsInjective
    <3>2. i \in Nat /\ j \in Nat
      BY <1>1, <1>4
    <3>3. QED BY <1>1, <3>1, <3>2
  <2>5. QED BY <1>4, <2>1, <2>2, <2>3, <2>4
<1>8. QED BY <1>1, <1>6, <1>7 DEF u

(* FlattenSeq puts the sequences one after the other. *)
LEMMA FlattenSteps ==
  ASSUME NEW S, NEW q \in Seq(Seq(S)), Len(q) # 0
  PROVE  \E f \in [0 .. Len(q) -> Seq(S)] :
           /\ f[0] = <<>>
           /\ \A n \in 1 .. Len(q) : f[n] = f[n - 1] \o q[n]
           /\ Seqs!FlattenSeq(q) = f[Len(q)]
<1> DEFINE N == Len(q)
           V == Seq(S)
           step == [x \in (1 .. N) \X V |-> x[2] \o q[x[1]]]
           Def(g) == g = [i \in 1 .. N |-> IF i = 1 THEN q[i] ELSE g[i - 1] \o q[i]]
<1>1. N \in Nat /\ N # 0 /\ N \in 1 .. N /\ \A n \in 1 .. N : q[n] \in V
  OBVIOUS
<1>2. \A n \in 1 .. N, v \in V : v \o q[n] \in V /\ <<>> \o q[n] = q[n]
  BY <1>1
<1>3. step \in Steps(N, V)
  BY <1>2 DEF Steps
<1>4. \A n \in 1 .. N, v \in V : step[<<n, v>>] = v \o q[n]
  OBVIOUS
<1>5. <<>> \in V
  OBVIOUS
<1>6. PICK f : Follows(f, N, V, <<>>, step)
  <2> HIDE DEF step, N, V
  <2>1. QED BY <1>1, <1>3, <1>5, StepFunction, Zenon
<1>7. f \in [0 .. N -> V] /\ f[0] = <<>> /\ \A n \in 1 .. N : f[n] = f[n - 1] \o q[n]
  <2>1. \A n \in 1 .. N : n - 1 \in 0 .. N
    BY <1>1
  <2> HIDE DEF step, N, V
  <2>2. QED BY <1>4, <1>6, <2>1 DEF Follows
<1> DEFINE w == [i \in 1 .. N |-> f[i]]
<1>8. Def(w)
  <2>1. ASSUME NEW i \in 1 .. N PROVE f[i] = IF i = 1 THEN q[i] ELSE w[i - 1] \o q[i]
    <3>1. CASE i = 1
      <4>1. f[1] = f[0] \o q[1] /\ 1 \in 1 .. N
        <5> HIDE DEF N, V
        <5>1. 1 \in 1 .. N /\ 1 - 1 = 0
          BY <1>1
        <5>2. QED BY <1>7, <5>1
      <4> HIDE DEF N, V
      <4>2. QED BY <1>2, <1>5, <1>7, <3>1, <4>1
    <3>2. CASE i # 1
      <4>1. i - 1 \in 1 .. N
        BY <1>1, <3>2
      <4>2. w[i - 1] = f[i - 1]
        BY <4>1
      <4>3. QED BY <1>7, <3>2, <4>2
    <3>3. QED BY <3>1, <3>2
  <2>2. QED BY <2>1
<1> DEFINE r == CHOOSE g : Def(g)
<1>9. Def(r)
  <2> HIDE DEF Def, w
  <2>1. QED BY <1>8
<1>10. \A i \in 1 .. N : r[i] = IF i = 1 THEN q[i] ELSE r[i - 1] \o q[i]
  <2> HIDE DEF r
  <2>1. QED BY <1>9
<1>11. Seqs!FlattenSeq(q) = r[N]
  BY DEF Seqs!FlattenSeq
<1> HIDE DEF r
<1>12. \A n \in 0 .. N : n # 0 => r[n] = f[n]
  <2> DEFINE P == {n \in 0 .. N : n # 0 => r[n] = f[n]}
  <2>1. 0 \in P
    BY <1>1
  <2>2. ASSUME NEW n \in 0 .. N - 1, n \in P
        PROVE  n + 1 \in P
    <3>1. n + 1 \in 1 .. N /\ n + 1 \in 0 .. N /\ (n + 1) - 1 = n /\ (n + 1 = 1 <=> n = 0)
      BY <1>1
    <3>2. r[n + 1] = IF n = 0 THEN q[n + 1] ELSE r[n] \o q[n + 1]
      BY <1>10, <3>1
    <3>3. f[n + 1] = f[n] \o q[n + 1]
      BY <1>7, <3>1
    <3>4. CASE n = 0
      <4>1. f[0] \o q[n + 1] = q[n + 1]
        BY <1>2, <1>5, <1>7, <3>1
      <4>2. QED BY <3>1, <3>2, <3>3, <3>4, <4>1
    <3>5. CASE n # 0
      BY <2>2, <3>1, <3>2, <3>3, <3>5
    <3>6. QED BY <3>4, <3>5
  <2> HIDE DEF P, N
  <2>3. \A n \in 0 .. N : n \in P
    BY <1>1, <2>1, <2>2, UpTo
  <2>4. QED BY <2>3 DEF P
<1>13. Seqs!FlattenSeq(q) = f[N]
  <2>1. N \in 0 .. N
    BY <1>1
  <2>2. QED BY <1>1, <1>11, <1>12, <2>1
<1>14. QED BY <1>7, <1>13

(* The nodes of the first t chains of c. *)
InFirst(c, t) == {n \in Node : \E h \in 0 .. t - 1 : n \in Range(c[h])}

(* Different chains have different nodes. *)
LEMMA ApartChains ==
  ASSUME NEW c \in [Chains -> Seq(Node)], Apart(c), NEW h \in Chains
  PROVE  /\ c[h] \in Seq(Node) /\ IsInjective(c[h]) /\ Range(c[h]) \subseteq Node
         /\ \A g \in Chains : g # h => Range(c[g]) \cap Range(c[h]) = {}
<1>1. \A g \in Chains : c[g] \in Seq(Node) /\ DOMAIN c[g] = 1 .. Len(c[g])
  OBVIOUS
<1>2. IsInjective(c[h])
  BY <1>1 DEF Apart, IsInjective
<1>3. Range(c[h]) \subseteq Node
  BY <1>1 DEF Range
<1>4. ASSUME NEW g \in Chains, g # h, NEW n \in Range(c[g]), n \in Range(c[h])
      PROVE  FALSE
  <2>1. PICK i \in 1 .. Len(c[g]) : c[g][i] = n
    BY <1>1 DEF Range
  <2>2. PICK j \in 1 .. Len(c[h]) : c[h][j] = n
    BY <1>1, <1>4 DEF Range
  <2>3. QED BY <1>4, <2>1, <2>2 DEF Apart
<1>5. QED BY <1>1, <1>2, <1>3, <1>4

(* ReIndex (fasthash.h:137) meets the nodes of all buckets, each once. *)
LEMMA TableOrder ==
  ASSUME NEW c \in [Chains -> Seq(Node)], Apart(c)
  PROVE  LET o == Seqs!FlattenSeq([t \in 1 .. TSize |-> c[t - 1]])
         IN  o \in Seq(Node) /\ IsInjective(o) /\ Range(o) = InFirst(c, TSize)
<1> DEFINE q == [t \in 1 .. TSize |-> c[t - 1]]
<1>1. TSize \in Nat /\ TSize # 0 /\ \A t \in 1 .. TSize : t - 1 \in Chains
  BY TableAssumption DEF Chains
<1>2. q \in Seq(Seq(Node)) /\ Len(q) = TSize /\ \A t \in 1 .. TSize : q[t] = c[t - 1]
  BY <1>1
<1> HIDE DEF q
<1>3. PICK f \in [0 .. TSize -> Seq(Node)] :
        /\ f[0] = <<>>
        /\ \A n \in 1 .. TSize : f[n] = f[n - 1] \o q[n]
        /\ Seqs!FlattenSeq(q) = f[TSize]
  <2>1. Len(q) # 0
    BY <1>1, <1>2
  <2>2. \E f \in [0 .. Len(q) -> Seq(Node)] :
           /\ f[0] = <<>>
           /\ \A n \in 1 .. Len(q) : f[n] = f[n - 1] \o q[n]
           /\ Seqs!FlattenSeq(q) = f[Len(q)]
    BY <1>2, <2>1, FlattenSteps, Zenon
  <2>3. QED BY <1>2, <2>2
<1> DEFINE P == {t \in 0 .. TSize : IsInjective(f[t]) /\ Range(f[t]) = InFirst(c, t)}
<1>4. 0 \in P
  <2>1. IsInjective(<<>>) /\ Range(<<>>) = {}
    BY DEF IsInjective, Range
  <2>2. InFirst(c, 0) = {}
    <3>1. 0 .. 0 - 1 = {}
      OBVIOUS
    <3>2. QED BY <3>1 DEF InFirst
  <2>3. 0 \in 0 .. TSize
    BY <1>1
  <2>4. QED BY <1>3, <2>1, <2>2, <2>3
<1>5. ASSUME NEW t \in 0 .. TSize - 1, t \in P
      PROVE  t + 1 \in P
  <2>1. /\ t \in Chains /\ t + 1 \in 1 .. TSize /\ t + 1 \in 0 .. TSize /\ (t + 1) - 1 = t
        /\ t \in 0 .. TSize /\ t \in Nat /\ t \notin 0 .. t - 1
    BY <1>1 DEF Chains
  <2>2. f[t + 1] = f[t] \o c[t] /\ f[t] \in Seq(Node)
    BY <1>2, <1>3, <2>1
  <2>3. /\ c[t] \in Seq(Node) /\ IsInjective(c[t]) /\ Range(c[t]) \subseteq Node
        /\ \A g \in Chains : g # t => Range(c[g]) \cap Range(c[t]) = {}
    BY <2>1, ApartChains
  <2>4. IsInjective(f[t]) /\ Range(f[t]) = InFirst(c, t)
    BY <1>5
  <2>5. Range(f[t]) \cap Range(c[t]) = {}
    <3>1. \A h \in 0 .. t - 1 : h \in Chains /\ h # t
      BY <1>1, <2>1 DEF Chains
    <3>2. QED BY <2>3, <2>4, <3>1 DEF InFirst
  <2>6. /\ Range(f[t] \o c[t]) = Range(f[t]) \cup Range(c[t])
        /\ IsInjective(f[t] \o c[t])
    BY <2>2, <2>3, <2>4, <2>5, ConcatRange
  <2>7. InFirst(c, t + 1) = InFirst(c, t) \cup Range(c[t])
    <3>1. (t + 1) - 1 = t /\ \A h : h \in 0 .. t <=> h \in 0 .. t - 1 \/ h = t
      BY <2>1
    <3>2. QED BY <2>3, <3>1 DEF InFirst
  <2>8. QED BY <2>1, <2>2, <2>4, <2>6, <2>7
<1> HIDE DEF P
<1>6. TSize \in P
  <2>1. \A t \in 0 .. TSize : t \in P
    BY <1>1, <1>4, <1>5, UpTo
  <2>2. TSize \in 0 .. TSize
    BY <1>1
  <2>3. QED BY <2>1, <2>2
<1>7. f[TSize] \in Seq(Node) /\ IsInjective(f[TSize]) /\ Range(f[TSize]) = InFirst(c, TSize)
  <2>1. TSize \in 0 .. TSize
    BY <1>1
  <2>2. QED BY <1>3, <1>6, <2>1 DEF P
<1>8. QED BY <1>3, <1>7 DEF q

-----------------------------------------------------------------------------
(* The ring of the index. *)

(* The n entries of list from start on are different members of U. *)
Ring(list, start, n, U) ==
  /\ \A i \in 0 .. n - 1 : list[(start + i) % FSize] \in U
  /\ \A i, j \in 0 .. n - 1 : list[(start + i) % FSize] = list[(start + j) % FSize] => i = j

(* The circular array wraps once at most. *)
LEMMA Wrapped ==
  ASSUME NEW start \in Node, NEW i \in 0 .. FSize
  PROVE  /\ (start + i) % FSize = IF start + i < FSize THEN start + i ELSE start + i - FSize
         /\ ((start + i) % FSize) \in Node
<1>1. /\ FSize \in Nat \ {0} /\ start \in 0 .. FSize - 1 /\ start + i \in Nat
      /\ start + i < FSize + FSize
  BY TableAssumption DEF Node
<1>2. CASE start + i < FSize
  <2>1. (start + i) % FSize = start + i
    BY <1>1, <1>2
  <2>2. QED BY <1>1, <1>2, <2>1 DEF Node
<1>3. CASE ~(start + i < FSize)
  <2>1. (start + i) % FSize = start + i - FSize
    <3>1. start + i >= FSize
      BY <1>1, <1>3
    <3>2. QED BY <1>1, <3>1
  <2>2. QED BY <1>1, <1>3, <2>1 DEF Node
<1>4. QED BY <1>2, <1>3

(* Different entries of a ring that fits are in different slots. *)
LEMMA SlotsDiffer ==
  ASSUME NEW start \in Node, NEW i \in 0 .. FSize - 1, NEW j \in 0 .. FSize - 1,
         (start + i) % FSize = (start + j) % FSize
  PROVE  i = j
<1>1. FSize \in Nat \ {0} /\ start \in Nat /\ start < FSize /\ i \in 0 .. FSize /\ j \in 0 .. FSize
  BY TableAssumption DEF Node
<1>2. (start + i) % FSize = IF start + i < FSize THEN start + i ELSE start + i - FSize
  BY <1>1, Wrapped
<1>3. (start + j) % FSize = IF start + j < FSize THEN start + j ELSE start + j - FSize
  BY <1>1, Wrapped
<1>4. QED BY <1>1, <1>2, <1>3

(* Entry i after the first is entry i + 1 of the ring that began with it. *)
LEMMA NextSlot ==
  ASSUME NEW start \in Node, NEW i \in 0 .. FSize - 1
  PROVE  (((start + 1) % FSize) + i) % FSize = (start + (i + 1)) % FSize
<1>1. /\ FSize \in Nat \ {0} /\ start \in Nat /\ start < FSize /\ i \in 0 .. FSize
      /\ i + 1 \in 0 .. FSize /\ 1 \in 0 .. FSize
  BY TableAssumption DEF Node
<1> DEFINE u == (start + 1) % FSize
<1>2. u \in Node /\ u = IF start + 1 < FSize THEN start + 1 ELSE start + 1 - FSize
  BY <1>1, Wrapped
<1> HIDE DEF u
<1>3. (u + i) % FSize = IF u + i < FSize THEN u + i ELSE u + i - FSize
  BY <1>1, <1>2, Wrapped
<1>4. (start + (i + 1)) % FSize = IF start + (i + 1) < FSize THEN start + (i + 1)
                                  ELSE start + (i + 1) - FSize
  BY <1>1, Wrapped
<1>5. (u + i) % FSize = (start + (i + 1)) % FSize
  BY <1>1, <1>2, <1>3, <1>4 DEF Node
<1>6. QED BY <1>5 DEF u

(* UpdateIndexWithAdd (fasthash.h:152) adds an entry behind the last. *)
LEMMA RingAdd ==
  ASSUME NEW list \in [Node -> Pointer], NEW start \in Node, NEW n \in 0 .. FSize - 1,
         NEW U, Ring(list, start, n, U), NEW m \in Node, m \notin U
  PROVE  Ring([list EXCEPT ![(start + n) % FSize] = m], start, n + 1, U \cup {m})
<1> DEFINE slot(i) == (start + i) % FSize
           new == [list EXCEPT ![slot(n)] = m]
<1>1. FSize \in Nat \ {0} /\ n \in Nat /\ n + 1 - 1 = n
  BY TableAssumption
<1>2. /\ \A i \in 0 .. n : slot(i) \in Node /\ (i # n => i \in 0 .. n - 1)
      /\ \A i, j \in 0 .. n : slot(i) = slot(j) => i = j
  <2>1. \A i \in 0 .. n : i \in 0 .. FSize /\ i \in 0 .. FSize - 1 /\ (i # n => i \in 0 .. n - 1)
    BY <1>1
  <2>2. QED BY <2>1, Wrapped, SlotsDiffer
<1>3. /\ \A i \in 0 .. n - 1 : list[slot(i)] \in U
      /\ \A i, j \in 0 .. n - 1 : list[slot(i)] = list[slot(j)] => i = j
  BY DEF Ring
<1> HIDE DEF slot
<1>4. \A i \in 0 .. n : new[slot(i)] = IF i = n THEN m ELSE list[slot(i)]
  <2>1. n \in 0 .. n
    BY <1>1
  <2>2. QED BY <1>2, <2>1
<1> HIDE DEF new
<1>5. /\ \A i \in 0 .. n : new[slot(i)] \in U \cup {m}
      /\ \A i, j \in 0 .. n : new[slot(i)] = new[slot(j)] => i = j
  BY <1>2, <1>3, <1>4
<1>6. Ring(new, start, n + 1, U \cup {m})
  BY <1>1, <1>5 DEF Ring, slot
<1>7. QED BY <1>6 DEF new, slot

(* UpdateIndexWithRemove (fasthash.h:192) lets the first entry go. *)
LEMMA RingRemoveFirst ==
  ASSUME NEW list \in [Node -> Pointer], NEW start \in Node, NEW n \in 2 .. FSize,
         NEW U, Ring(list, start, n, U), NEW m, m = list[(start + 0) % FSize]
  PROVE  Ring(list, (start + 1) % FSize, n - 1, U \ {m})
<1> DEFINE u == (start + 1) % FSize
<1>1. /\ FSize \in Nat \ {0} /\ n \in Nat /\ 0 \in 0 .. n - 1
      /\ \A i \in 0 .. (n - 1) - 1 : /\ i \in 0 .. FSize - 1 /\ i + 1 \in 0 .. n - 1
                                     /\ i + 1 # 0 /\ i \in Nat
  BY TableAssumption
<1>2. \A i \in 0 .. (n - 1) - 1 : list[(u + i) % FSize] = list[(start + (i + 1)) % FSize]
  BY <1>1, NextSlot
<1> HIDE DEF u
<1>3. ASSUME NEW i \in 0 .. (n - 1) - 1
      PROVE  list[(u + i) % FSize] \in U \ {m}
  <2>1. list[(start + (i + 1)) % FSize] \in U
    BY <1>1 DEF Ring
  <2>2. list[(start + (i + 1)) % FSize] # list[(start + 0) % FSize]
    BY <1>1 DEF Ring
  <2>3. QED BY <1>2, <2>1, <2>2
<1>4. ASSUME NEW i \in 0 .. (n - 1) - 1, NEW j \in 0 .. (n - 1) - 1,
             list[(u + i) % FSize] = list[(u + j) % FSize]
      PROVE  i = j
  <2>1. i + 1 = j + 1
    BY <1>1, <1>2, <1>4 DEF Ring
  <2>2. QED BY <1>1, <2>1
<1>5. Ring(list, u, n - 1, U \ {m})
  BY <1>3, <1>4 DEF Ring
<1>6. QED BY <1>5 DEF u

(* The same (fasthash.h:197) for the last one. *)
LEMMA RingRemoveLast ==
  ASSUME NEW list \in [Node -> Pointer], NEW start \in Node, NEW n \in 2 .. FSize,
         NEW U, Ring(list, start, n, U), NEW m, m = list[(start + (n - 1)) % FSize]
  PROVE  Ring(list, start, n - 1, U \ {m})
<1>1. /\ n \in Nat /\ n - 1 \in 0 .. n - 1
      /\ \A i \in 0 .. (n - 1) - 1 : i \in 0 .. n - 1 /\ i # n - 1
  BY TableAssumption
<1>2. \A i \in 0 .. (n - 1) - 1 : list[(start + i) % FSize] \in U \ {m}
  BY <1>1 DEF Ring
<1>3. \A i, j \in 0 .. (n - 1) - 1 :
        list[(start + i) % FSize] = list[(start + j) % FSize] => i = j
  BY <1>1 DEF Ring
<1>4. QED BY <1>2, <1>3 DEF Ring

(* ReIndex (fasthash.h:142) writes a ring that begins at 0. *)
LEMMA RingRebuilt ==
  ASSUME NEW o \in Seq(Node), IsInjective(o), NEW list,
         \A n \in Node : n < Len(o) => list[n] = o[n + 1]
  PROVE  Ring(list, 0, Len(o), Range(o))
<1>1. Len(o) \in Nat /\ Len(o) <= FSize /\ FSize \in Nat \ {0} /\ DOMAIN o = 1 .. Len(o)
  BY ChainLength, TableAssumption
<1>2. ASSUME NEW i \in 0 .. Len(o) - 1
      PROVE  list[(0 + i) % FSize] = o[i + 1] /\ i + 1 \in DOMAIN o /\ i \in Nat
  <2>1. i \in Node /\ i < Len(o) /\ i \in Nat /\ i < FSize /\ i + 1 \in DOMAIN o
    BY <1>1 DEF Node
  <2>2. (0 + i) % FSize = i
    BY <1>1, <2>1
  <2>3. QED BY <2>1, <2>2
<1>3. \A i \in 0 .. Len(o) - 1 : list[(0 + i) % FSize] \in Range(o)
  BY <1>2 DEF Range
<1>4. ASSUME NEW i \in 0 .. Len(o) - 1, NEW j \in 0 .. Len(o) - 1,
             list[(0 + i) % FSize] = list[(0 + j) % FSize]
      PROVE  i = j
  <2>1. i + 1 = j + 1
    BY <1>2, <1>4 DEF IsInjective
  <2>2. QED BY <1>2, <2>1
<1>5. QED BY <1>3, <1>4 DEF Ring

(* The entries of the ring. *)
Listed(list, start, n) == {list[(start + i) % FSize] : i \in 0 .. n - 1}

(* A ring with as many entries as U has members lists them all. *)
LEMMA RingOnto ==
  ASSUME NEW list, NEW start, NEW n \in Nat, NEW U, IsFiniteSet(U), Cardinality(U) = n,
         Ring(list, start, n, U)
  PROVE  Listed(list, start, n) = U
<1> DEFINE f == [i \in 0 .. n - 1 |-> list[(start + i) % FSize]]
<1>1. f \in Injection(0 .. n - 1, U)
  BY DEF Ring, Injection, IsInjective
<1>2. Cardinality(0 .. n - 1) = n
  <2>1. 0 \in Int /\ n - 1 \in Int
    OBVIOUS
  <2>2. Cardinality(0 .. n - 1) = IF 0 > n - 1 THEN 0 ELSE (n - 1) - 0 + 1
    BY <2>1, FS_Interval
  <2>3. QED BY <2>2
<1>3. f \in Surjection(0 .. n - 1, U)
  <2> HIDE DEF f
  <2>1. QED BY <1>1, <1>2, FS_Injection
<1>4. \A u \in U : \E i \in 0 .. n - 1 : f[i] = u
  <2> HIDE DEF f
  <2>1. QED BY <1>3 DEF Surjection
<1>5. \A u \in U : \E i \in 0 .. n - 1 : list[(start + i) % FSize] = u
  BY <1>4
<1>6. \A i \in 0 .. n - 1 : list[(start + i) % FSize] \in U
  BY DEF Ring
<1>7. QED BY <1>5, <1>6 DEF Listed

-----------------------------------------------------------------------------
(* The inductive invariant. *)

(* The first node of every bucket, and of the free list. *)
FirstOf(table, free) == [h \in Chains |-> IF h = TSize THEN free ELSE table[h]]

(* The nodes of the buckets hold entries of these buckets, the others none. *)
Fits(ns, n, h) ==
  IF h = TSize THEN ns[n] = <<>> ELSE ns[n] # <<>> /\ HashIndex(ns[n][1]) = h

Filled(ns, c) == \A h \in Chains : \A i \in 1 .. Len(c[h]) : Fits(ns, c[h][i], h)

(* The nodes in use. *)
Used(ns) == {n \in Node : ns[n] # <<>>}

Shaped(c) == Heap(pNext, FirstOf(lookuptable, freelist), c) /\ Filled(nodes, c)

Counted == IsFiniteSet(Used(nodes)) /\ Cardinality(Used(nodes)) = size

Indexed == fIndexValid => Ring(indexlist, indexStart, size, Used(nodes))

(***************************************************************************)
(* The invariant: there are sequences that the pointers spell out and      *)
(* that partition the nodes into entries, in the buckets of their keys,    *)
(* and free nodes; _size counts the entries; and a valid index is a ring   *)
(* of different entries, _size of them.                                    *)
(***************************************************************************)
Inv == TypeOK /\ (\E c : Shaped(c)) /\ Counted /\ Indexed

(* Reset's loop (fasthash.h:246) chains all nodes in the free list. *)
LEMMA HeapReset ==
  ASSUME NEW next, next = [n \in Node |-> n + 1],
         NEW table, table = [b \in Bucket |-> Null]
  PROVE  \E c : Heap(next, FirstOf(table, 0), c) /\ Filled([n \in Node |-> <<>>], c)
<1> DEFINE all == [i \in 1 .. FSize |-> i - 1]
           c == [h \in Chains |-> IF h = TSize THEN all ELSE <<>>]
           ns == [n \in Node |-> <<>>]
<1>1. FSize \in Nat \ {0} /\ TSize \in Nat \ {0} /\ TSize \in Chains
  BY TableAssumption DEF Chains
<1>2. /\ all \in Seq(Node) /\ Len(all) = FSize
      /\ \A i \in 1 .. FSize : all[i] = i - 1 /\ all[i] \in Node
  BY <1>1 DEF Node
<1> HIDE DEF all
<1>3. /\ c \in [Chains -> Seq(Node)]
      /\ c[TSize] = all
      /\ \A h \in Chains : h # TSize => c[h] = <<>>
  BY <1>1, <1>2
<1> HIDE DEF c
<1>4. \A h \in Chains : h # TSize => Len(c[h]) = 0 /\ 1 .. Len(c[h]) = {}
  BY <1>3
<1>5. ASSUME NEW h \in Chains PROVE Linked(next, FirstOf(table, 0)[h], c[h])
  <2>1. CASE h = TSize
    <3>1. FirstOf(table, 0)[h] = 0 /\ At(all, 1) = 0
      BY <1>1, <1>2, <2>1 DEF FirstOf, At
    <3>2. ASSUME NEW i \in 1 .. Len(all) PROVE next[all[i]] = At(all, i + 1)
      <4>1. next[all[i]] = i
        BY <1>1, <1>2
      <4>2. i + 1 \in 1 .. FSize => (i + 1) - 1 = i
        BY <1>1, <1>2
      <4>3. i + 1 \notin 1 .. FSize => i = FSize
        BY <1>1, <1>2
      <4>4. QED BY <1>2, <4>1, <4>2, <4>3 DEF At, Null
    <3>3. QED BY <1>3, <2>1, <3>1, <3>2 DEF Linked
  <2>2. CASE h # TSize
    <3>1. FirstOf(table, 0)[h] = Null
      BY <2>2, PointerFacts DEF FirstOf
    <3>2. QED BY <1>4, <2>2, <3>1 DEF Linked, At
  <2>3. QED BY <2>1, <2>2
<1>6. Apart(c)
  <2>1. \A i, j \in 1 .. FSize : i - 1 = j - 1 => i = j
    BY <1>1
  <2>2. QED BY <1>2, <1>3, <1>4, <2>1 DEF Apart
<1>7. Covers(c)
  <2>1. ASSUME NEW n \in Node PROVE Meets(c, n)
    <3>1. n + 1 \in 1 .. Len(c[TSize]) /\ (n + 1) - 1 = n
      BY <1>1, <1>2, <1>3 DEF Node
    <3>2. c[TSize][n + 1] = n
      BY <1>2, <1>3, <3>1
    <3>3. QED BY <1>1, <3>1, <3>2 DEF Meets
  <2>2. QED BY <2>1 DEF Covers
<1>8. Filled(ns, c)
  <2>1. \A h \in Chains : \A i \in 1 .. Len(c[h]) : h = TSize /\ c[h][i] \in Node
    BY <1>2, <1>3, <1>4
  <2>2. QED BY <2>1 DEF Filled, Fits
<1>9. QED BY <1>3, <1>5, <1>6, <1>7, <1>8 DEF Heap

(* No entry, no index. *)
LEMMA EmptyFacts ==
  ASSUME NEW list, NEW start
  PROVE  /\ IsFiniteSet(Used([n \in Node |-> <<>>])) /\ Cardinality(Used([n \in Node |-> <<>>])) = 0
         /\ Ring(list, start, 0, Used([n \in Node |-> <<>>]))
<1>1. Used([n \in Node |-> <<>>]) = {}
  BY DEF Used
<1>2. 0 .. 0 - 1 = {}
  OBVIOUS
<1>3. QED BY <1>1, <1>2, FS_EmptySet DEF Ring

(* The invariant holds at the start. *)
LEMMA InitInv == Init => Inv
<1> SUFFICES ASSUME Init PROVE Inv
  OBVIOUS
<1>1. TypeOK
  BY PointerFacts DEF Init, TypeOK, Node, Pointer, Null
<1>2. \E c : Shaped(c)
  BY HeapReset DEF Init, Shaped
<1>3. Counted /\ Indexed
  BY EmptyFacts DEF Init, Counted, Indexed
<1>4. QED BY <1>1, <1>2, <1>3 DEF Inv

(* Reset keeps it. *)
LEMMA ResetInv == ASSUME Inv, Reset PROVE Inv'
<1>1. TypeOK'
  BY PointerFacts DEF Inv, Reset, TypeOK, Node, Pointer, Null
<1>2. (\E c : Shaped(c))'
  BY HeapReset DEF Reset, Shaped
<1>3. Counted' /\ Indexed'
  BY EmptyFacts DEF Reset, Counted, Indexed
<1>4. QED BY <1>1, <1>2, <1>3 DEF Inv

(* Every key has a bucket. *)
LEMMA HashBucket ==
  ASSUME NEW k \in Key
  PROVE  HashIndex(k) \in Bucket /\ HashIndex(k) \in Chains /\ HashIndex(k) # TSize
<1>1. Hash[k] \in Nat /\ TSize \in Nat \ {0}
  BY TableAssumption
<1>2. (Hash[k] % TSize) \in 0 .. TSize - 1
  BY <1>1
<1>3. QED BY <1>2, PointerFacts DEF HashIndex, Bucket

(* Chain finds the sequences of the invariant. *)
LEMMA ShapedChains ==
  ASSUME TypeOK, NEW c, Shaped(c)
  PROVE  /\ c \in [Chains -> Seq(Node)] /\ Apart(c) /\ Covers(c) /\ Filled(nodes, c)
         /\ \A b \in Bucket : Chain(pNext, lookuptable[b]) = c[b] /\ b \in Chains /\ b # TSize
         /\ Chain(pNext, freelist) = c[TSize]
<1> DEFINE first == FirstOf(lookuptable, freelist)
<1>1. /\ c \in [Chains -> Seq(Node)] /\ Apart(c) /\ Covers(c) /\ Filled(nodes, c)
      /\ Heap(pNext, first, c) /\ pNext \in [Node -> Pointer]
  BY DEF Shaped, Heap, TypeOK
<1>2. first[TSize] = freelist /\ \A b \in Bucket : first[b] = lookuptable[b] /\ b \in Chains /\ b # TSize
  BY PointerFacts DEF FirstOf
<1> HIDE DEF first
<1>3. \A h \in Chains : Chain(pNext, first[h]) = c[h]
  BY <1>1, HeapChain
<1>4. TSize \in Chains
  BY PointerFacts
<1>5. QED BY <1>1, <1>2, <1>3, <1>4

(* The nodes in use are those of the buckets. *)
LEMMA UsedNodes ==
  ASSUME NEW ns, NEW c \in [Chains -> Seq(Node)], Covers(c), Filled(ns, c)
  PROVE  Used(ns) = InFirst(c, TSize)
<1>1. Bucket = 0 .. TSize - 1
  BY DEF Bucket
<1>2. \A b \in Bucket : b \in Chains /\ b # TSize /\ DOMAIN c[b] = 1 .. Len(c[b])
  BY PointerFacts
<1>3. ASSUME NEW n \in Used(ns) PROVE n \in InFirst(c, TSize)
  <2>1. n \in Node /\ ns[n] # <<>>
    BY DEF Used
  <2>2. PICK h \in Chains : \E i \in 1 .. Len(c[h]) : c[h][i] = n
    BY <2>1 DEF Covers, Meets
  <2>3. h # TSize
    BY <2>1, <2>2 DEF Filled, Fits
  <2>4. h \in Bucket
    BY <2>3, PointerFacts
  <2>5. n \in Range(c[h])
    BY <1>2, <2>2, <2>4 DEF Range
  <2>6. QED BY <1>1, <2>1, <2>4, <2>5 DEF InFirst
<1>4. ASSUME NEW n \in InFirst(c, TSize) PROVE n \in Used(ns)
  <2>1. PICK h \in Bucket : n \in Range(c[h])
    BY <1>1 DEF InFirst
  <2>2. PICK i \in 1 .. Len(c[h]) : c[h][i] = n
    BY <1>2, <2>1 DEF Range
  <2>3. ns[c[h][i]] # <<>>
    BY <1>2 DEF Filled, Fits
  <2>4. QED BY <2>2, <2>3 DEF Used, InFirst
<1>5. QED BY <1>3, <1>4

(* ReIndex meets every node in use exactly once. *)
LEMMA OrderOfUsed ==
  ASSUME TypeOK, NEW c, Shaped(c)
  PROVE  InTableOrder \in Seq(Node) /\ IsInjective(InTableOrder) /\ Range(InTableOrder) = Used(nodes)
<1>1. /\ c \in [Chains -> Seq(Node)] /\ Apart(c) /\ Covers(c) /\ Filled(nodes, c)
      /\ \A b \in Bucket : Chain(pNext, lookuptable[b]) = c[b]
  BY ShapedChains
<1>2. \A t \in 1 .. TSize : t - 1 \in Bucket
  BY PointerFacts DEF Bucket
<1>3. [t \in 1 .. TSize |-> Chain(pNext, lookuptable[t - 1])] = [t \in 1 .. TSize |-> c[t - 1]]
  BY <1>1, <1>2
<1>4. InTableOrder = Seqs!FlattenSeq([t \in 1 .. TSize |-> c[t - 1]])
  BY <1>3 DEF InTableOrder
<1>5. /\ InTableOrder \in Seq(Node) /\ IsInjective(InTableOrder)
      /\ Range(InTableOrder) = InFirst(c, TSize)
  BY <1>1, <1>4, TableOrder
<1>6. QED BY <1>1, <1>5, UsedNodes

(* The rebuilt order has _size entries. *)
LEMMA OrderLength == ASSUME Inv PROVE Len(InTableOrder) = size
<1>1. PICK c : Shaped(c)
  BY DEF Inv
<1>2. InTableOrder \in Seq(Node) /\ IsInjective(InTableOrder) /\ Range(InTableOrder) = Used(nodes)
  BY <1>1, OrderOfUsed DEF Inv
<1>3. Cardinality(Range(InTableOrder)) = Len(InTableOrder)
  BY <1>2, InjectiveLength
<1>4. QED BY <1>2, <1>3 DEF Inv, Counted

(* The rebuild of the index keeps the invariant. *)
LEMMA ReIndexInv == ASSUME Inv, ReIndex PROVE Inv'
<1> DEFINE o == InTableOrder
<1>1. PICK c : Shaped(c)
  BY DEF Inv
<1>2. o \in Seq(Node) /\ IsInjective(o) /\ Range(o) = Used(nodes) /\ Len(o) = size
  BY <1>1, OrderOfUsed, OrderLength DEF Inv
<1>3. /\ indexlist' = [n \in Node |-> IF n < Len(o) THEN o[n + 1] ELSE indexlist[n]]
      /\ indexStart' = 0 /\ fIndexValid' = TRUE
      /\ UNCHANGED <<nodes, pNext, freelist, lookuptable, size>>
  BY DEF ReIndex
<1> HIDE DEF o
<1>4. TypeOK'
  <2>1. \A n \in Node : (IF n < Len(o) THEN o[n + 1] ELSE indexlist[n]) \in Pointer
    <3>1. ASSUME NEW n \in Node, n < Len(o) PROVE o[n + 1] \in Pointer
      <4>1. n \in Nat /\ Len(o) \in Nat
        BY <1>2, PointerFacts
      <4>2. n + 1 \in 1 .. Len(o)
        BY <3>1, <4>1
      <4>3. o[n + 1] \in Node
        BY <1>2, <4>2, ElementOfSeq
      <4>4. QED BY <4>3, PointerFacts
    <3>2. QED BY <3>1 DEF Inv, TypeOK
  <2>2. indexlist' \in [Node -> Pointer]
    BY <1>3, <2>1
  <2>3. indexStart' \in Node
    BY <1>3, PointerFacts DEF Node
  <2>4. QED BY <1>3, <2>2, <2>3 DEF Inv, TypeOK
<1>5. Shaped(c)' /\ Counted'
  BY <1>1, <1>3 DEF Inv, Shaped, Counted
<1>6. Indexed'
  <2>1. \A n \in Node : n < Len(o) => indexlist'[n] = o[n + 1]
    BY <1>3
  <2>2. Ring(indexlist', 0, Len(o), Range(o))
    BY <1>2, <2>1, RingRebuilt
  <2>3. QED BY <1>2, <1>3, <2>2 DEF Indexed
<1>7. QED BY <1>4, <1>5, <1>6 DEF Inv

(* A node taken from the free list into bucket b, or back. *)
LEMMA FilledMoved ==
  ASSUME NEW c \in [Chains -> Seq(Node)], NEW a \in Chains, NEW b \in Chains, a # b,
         NEW i \in 1 .. Len(c[a]), NEW d, IsMoved(d, c, a, i, b), Apart(c),
         NEW ns, Filled(ns, c), NEW ns2,
         \A m \in Node : m # c[a][i] => ns2[m] = ns[m], Fits(ns2, c[a][i], b)
  PROVE  Filled(ns2, d)
<1>2. ASSUME NEW h \in Chains, NEW j \in 1 .. Len(c[h]), h = a => j # i
      PROVE  Fits(ns2, c[h][j], h)
  <2>1. c[h][j] # c[a][i] /\ c[h][j] \in Node
    BY <1>2 DEF Apart
  <2>2. ns2[c[h][j]] = ns[c[h][j]]
    BY <2>1
  <2>3. Fits(ns, c[h][j], h)
    BY DEF Filled, Fits
  <2>4. QED BY <2>2, <2>3 DEF Fits
<1>3. ASSUME NEW h \in Chains, NEW j \in 1 .. Len(d[h])
      PROVE  Fits(ns2, d[h][j], h)
  <2>1. CASE h = b /\ j = 1 /\ d[h][j] = c[a][i]
    BY <2>1
  <2>2. CASE h = b /\ j # 1 /\ j - 1 \in 1 .. Len(c[b]) /\ d[h][j] = c[b][j - 1]
    BY <1>2, <2>2
  <2>3. CASE h = a /\ j < i /\ j \in 1 .. Len(c[a]) /\ d[h][j] = c[a][j]
    <3>1. j # i
      BY <2>3
    <3>2. QED BY <1>2, <2>3, <3>1
  <2>4. CASE h = a /\ ~(j < i) /\ j + 1 \in 1 .. Len(c[a]) /\ d[h][j] = c[a][j + 1]
    <3>1. j + 1 # i
      <4>1. d[h] \in Seq(Node)
        BY DEF IsMoved
      <4>2. j \in Nat /\ i \in Nat
        BY <4>1
      <4>3. QED BY <2>4, <4>2
    <3>2. QED BY <1>2, <2>4, <3>1
  <2>5. CASE h # a /\ h # b /\ j \in 1 .. Len(c[h]) /\ d[h][j] = c[h][j]
    BY <1>2, <2>5
  <2>6. Origin(d, c, a, i, b, h, j)
    BY MovedOrigin
  <2>7. QED BY <2>1, <2>2, <2>3, <2>4, <2>5, <2>6 DEF Origin
<1>4. QED BY <1>3 DEF Filled

(* A node of the free list holds no entry, and there is room for one more. *)
LEMMA FreeNode ==
  ASSUME Inv, NEW n \in Node, nodes[n] = <<>>
  PROVE  n \notin Used(nodes) /\ size \in 0 .. FSize - 1
<1>1. n \notin Used(nodes) /\ Used(nodes) \in SUBSET Node /\ IsFiniteSet(Used(nodes))
  BY DEF Used, Inv, Counted
<1>2. Used(nodes) \cup {n} \in SUBSET Node
  BY <1>1
<1>3. Cardinality(Used(nodes) \cup {n}) = size + 1
  BY <1>1, FS_AddElement DEF Inv, Counted
<1>4. Cardinality(Used(nodes) \cup {n}) <= FSize
  BY <1>2, NodeCount, FS_Subset
<1>5. size \in Nat /\ FSize \in Nat
  BY PointerFacts DEF Inv, TypeOK
<1>6. QED BY <1>1, <1>3, <1>4, <1>5

(* The node Insert takes is the first of the free list. *)
LEMMA InsertNode ==
  ASSUME Inv, NEW c, Shaped(c), freelist # Null
  PROVE  /\ 1 \in 1 .. Len(c[TSize]) /\ c[TSize][1] = freelist /\ freelist \in Node
         /\ nodes[freelist] = <<>>
<1>1. /\ c \in [Chains -> Seq(Node)] /\ Filled(nodes, c) /\ TSize \in Chains
      /\ FirstOf(lookuptable, freelist)[TSize] = freelist
  BY ShapedChains, PointerFacts DEF Inv, FirstOf
<1>2. freelist = At(c[TSize], 1)
  BY <1>1 DEF Shaped, Heap, Linked
<1>3. 1 \in 1 .. Len(c[TSize]) /\ c[TSize][1] = freelist
  BY <1>2 DEF At
<1>4. freelist \in Node
  BY <1>1, <1>3
<1>5. QED BY <1>1, <1>3, <1>4 DEF Filled, Fits

(* Insert moves the first free node to the front of the key's bucket. *)
LEMMA InsertShape ==
  ASSUME Inv, NEW k \in Key, NEW v \in Value, Insert(k, v), NEW c, Shaped(c),
         NEW d, IsMoved(d, c, TSize, 1, HashIndex(k))
  PROVE  Shaped(d)'
<1> DEFINE b == HashIndex(k)
           n == freelist
<1>1. /\ freelist # Null /\ freelist' = pNext[n] /\ nodes' = [nodes EXCEPT ![n] = <<k, v>>]
      /\ pNext' = [pNext EXCEPT ![n] = lookuptable[b]]
      /\ lookuptable' = [lookuptable EXCEPT ![b] = n]
  BY DEF Insert
<1>2. /\ c \in [Chains -> Seq(Node)] /\ Apart(c) /\ Filled(nodes, c)
      /\ Heap(pNext, FirstOf(lookuptable, freelist), c)
  BY ShapedChains DEF Inv, Shaped
<1>3. 1 \in 1 .. Len(c[TSize]) /\ c[TSize][1] = n /\ n \in Node /\ nodes[n] = <<>>
  BY <1>1, InsertNode
<1>4. b \in Bucket /\ b \in Chains /\ b # TSize /\ TSize \in Chains
  BY HashBucket, PointerFacts
<1>5. pNext \in [Node -> Pointer] /\ lookuptable \in [Bucket -> Pointer] /\ DOMAIN nodes = Node
  BY DEF Inv, TypeOK
<1> HIDE DEF b, n
<1>6. Relinked(pNext', pNext, FirstOf(lookuptable', freelist'), FirstOf(lookuptable, freelist),
               c, TSize, 1, b)
  <2>1. \A m \in Node : pNext'[m] = IF m = c[TSize][1] THEN FirstOf(lookuptable, freelist)[b]
                                    ELSE pNext[m]
    BY <1>1, <1>3, <1>4, <1>5 DEF FirstOf
  <2>2. ASSUME NEW h \in Chains
        PROVE  FirstOf(lookuptable', freelist')[h] =
                 IF h = b THEN c[TSize][1]
                 ELSE IF h = TSize THEN pNext[c[TSize][1]] ELSE FirstOf(lookuptable, freelist)[h]
    <3>1. h # TSize => h \in Bucket
      BY PointerFacts
    <3>2. QED BY <1>1, <1>3, <1>4, <1>5, <3>1 DEF FirstOf
  <2>3. QED BY <2>1, <2>2 DEF Relinked
<1>7. Heap(pNext', FirstOf(lookuptable', freelist'), d)
  BY <1>2, <1>3, <1>4, <1>6, HeapMoved DEF b
<1>8. /\ \A m \in Node : m # c[TSize][1] => nodes'[m] = nodes[m]
      /\ Fits(nodes', c[TSize][1], b)
  BY <1>1, <1>3, <1>4, <1>5 DEF b, Fits
<1>9. Filled(nodes', d)
  BY <1>2, <1>3, <1>4, <1>8, FilledMoved DEF b
<1>10. QED BY <1>7, <1>9 DEF Shaped

(* Insert keeps the invariant. *)
LEMMA InsertInv ==
  ASSUME Inv, NEW k \in Key, NEW v \in Value, Insert(k, v)
  PROVE  Inv'
<1> DEFINE n == freelist
<1>1. PICK c : Shaped(c)
  BY DEF Inv
<1>2. /\ freelist # Null /\ freelist' = pNext[n] /\ nodes' = [nodes EXCEPT ![n] = <<k, v>>]
      /\ pNext' = [pNext EXCEPT ![n] = lookuptable[HashIndex(k)]]
      /\ lookuptable' = [lookuptable EXCEPT ![HashIndex(k)] = n]
      /\ UpdateIndexWithAdd(n) /\ size' = size + 1 /\ UNCHANGED <<fIndexValid, indexStart>>
  BY DEF Insert
<1>3. 1 \in 1 .. Len(c[TSize]) /\ n \in Node /\ nodes[n] = <<>>
  BY <1>1, <1>2, InsertNode
<1>4. n \notin Used(nodes) /\ size \in 0 .. FSize - 1
  BY <1>3, FreeNode
<1>5. HashIndex(k) \in Bucket /\ HashIndex(k) \in Chains /\ HashIndex(k) # TSize /\ TSize \in Chains
  BY HashBucket, PointerFacts
<1>6. TypeOK
  BY DEF Inv
<1> HIDE DEF n
<1>7. (\E c1 : Shaped(c1))'
  <2>1. c \in [Chains -> Seq(Node)]
    BY <1>1, <1>6, ShapedChains
  <2>2. PICK d : IsMoved(d, c, TSize, 1, HashIndex(k))
    BY <1>3, <1>5, <2>1, MoveExists
  <2>3. Shaped(d)'
    BY <1>1, <2>2, InsertShape
  <2>4. QED BY <2>3
<1>8. indexlist' \in [Node -> Pointer]
  BY <1>2, <1>3, <1>6, PointerFacts DEF TypeOK, UpdateIndexWithAdd
<1>9. TypeOK'
  <2>1. nodes' \in [Node -> {<<>>} \cup (Key \X Value)]
    BY <1>2, <1>3, <1>6 DEF TypeOK
  <2>2. pNext' \in [Node -> Pointer] /\ lookuptable' \in [Bucket -> Pointer] /\ freelist' \in Pointer
    BY <1>2, <1>3, <1>5, <1>6, PointerFacts DEF TypeOK
  <2>3. size' \in 0 .. FSize
    BY <1>2, <1>4, PointerFacts
  <2>4. QED BY <1>2, <1>6, <1>8, <2>1, <2>2, <2>3 DEF TypeOK
<1>10. Used(nodes') = Used(nodes) \cup {n}
  BY <1>2, <1>3, <1>6 DEF Used, TypeOK
<1>11. Counted'
  <2>1. IsFiniteSet(Used(nodes)) /\ Cardinality(Used(nodes)) = size
    BY DEF Inv, Counted
  <2>2. /\ IsFiniteSet(Used(nodes) \cup {n})
        /\ Cardinality(Used(nodes) \cup {n}) = size + 1
    BY <1>4, <2>1, FS_AddElement
  <2>3. QED BY <1>2, <1>10, <2>2 DEF Counted
<1>12. Indexed'
  <2>1. SUFFICES ASSUME fIndexValid' PROVE Ring(indexlist', indexStart', size', Used(nodes'))
    BY DEF Indexed
  <2>2. fIndexValid /\ Ring(indexlist, indexStart, size, Used(nodes))
    BY <1>2, <2>1 DEF Inv, Indexed
  <2>3. size < FSize
    BY <1>4, PointerFacts
  <2>4. indexlist' = [indexlist EXCEPT ![(indexStart + size) % FSize] = n]
    BY <1>2, <2>2, <2>3 DEF UpdateIndexWithAdd, Slot
  <2>5. indexlist \in [Node -> Pointer] /\ indexStart \in Node
    BY <1>6 DEF TypeOK
  <2>6. Ring([indexlist EXCEPT ![(indexStart + size) % FSize] = n], indexStart, size + 1,
             Used(nodes) \cup {n})
    BY <1>3, <1>4, <2>2, <2>5, RingAdd
  <2>7. QED BY <1>2, <1>10, <2>4, <2>6
<1>13. QED BY <1>7, <1>9, <1>11, <1>12 DEF Inv

(* Find (fasthash.h:99) stops at the first node of the chain with the key. *)
LEMMA FindFirst ==
  ASSUME TypeOK, NEW c, Shaped(c), NEW k \in Key, Find(k) # 0
  PROVE  /\ Find(k) \in 1 .. Len(c[HashIndex(k)])
         /\ nodes[c[HashIndex(k)][Find(k)]][1] = k
         /\ \A j \in 1 .. Len(c[HashIndex(k)]) :
              j < Find(k) => nodes[c[HashIndex(k)][j]][1] # k
<1> DEFINE s == c[HashIndex(k)]
           I == {i \in 1 .. Len(s) : nodes[s[i]][1] = k}
<1>1. Chain(pNext, lookuptable[HashIndex(k)]) = s /\ s \in Seq(Node)
  BY ShapedChains, HashBucket
<1>2. Find(k) = IF I # {} THEN CHOOSE x \in I : \A y \in I : x <= y ELSE 0
  BY <1>1 DEF Find, Seqs!SelectInSeq, Seqs!Min
<1>3. I # {} /\ I \in SUBSET Nat
  BY <1>1, <1>2
<1> HIDE DEF I
<1>4. Find(k) \in I /\ \A y \in I : Find(k) <= y
  <2>1. \E x \in I : \A y \in I : x <= y
    BY <1>3, LeastElement
  <2>2. QED BY <1>2, <1>3, <2>1
<1>5. ASSUME NEW j \in 1 .. Len(s), j < Find(k) PROVE j \notin I
  <2>1. Find(k) \in Nat
    BY <1>3, <1>4
  <2>2. ~(Find(k) <= j)
    BY <1>5, <2>1
  <2>3. QED BY <1>4, <2>2
<1>6. QED BY <1>4, <1>5 DEF I

(* Remove moves the first node with the key back to the free list. *)
LEMMA RemoveShape ==
  ASSUME Inv, NEW k \in Key, Remove(k), NEW c, Shaped(c),
         NEW d, IsMoved(d, c, HashIndex(k), Find(k), TSize)
  PROVE  Shaped(d)'
<1> DEFINE b == HashIndex(k)
           i == Find(k)
           n == c[b][i]
<1>1. /\ c \in [Chains -> Seq(Node)] /\ Apart(c) /\ Filled(nodes, c)
      /\ Heap(pNext, FirstOf(lookuptable, freelist), c)
      /\ Chain(pNext, lookuptable[b]) = c[b]
  BY ShapedChains, HashBucket DEF Inv, Shaped
<1>2. /\ i # 0
      /\ lookuptable' = IF i = 1 THEN [lookuptable EXCEPT ![b] = pNext[n]] ELSE lookuptable
      /\ pNext' = [Unlink(c[b], i) EXCEPT ![n] = freelist]
      /\ freelist' = n /\ nodes' = [nodes EXCEPT ![n] = <<>>]
  BY <1>1 DEF Remove
<1>3. i \in 1 .. Len(c[b])
  BY <1>2, FindFirst DEF Inv
<1>4. b \in Bucket /\ b \in Chains /\ b # TSize /\ TSize \in Chains
  BY HashBucket, PointerFacts
<1>5. pNext \in [Node -> Pointer] /\ lookuptable \in [Bucket -> Pointer] /\ DOMAIN nodes = Node
  BY DEF Inv, TypeOK
<1> HIDE DEF b, i
<1>6. n \in Node /\ (i # 1 => c[b][i - 1] \in Node /\ c[b][i - 1] # n)
  <2>1. i # 1 => i - 1 \in 1 .. Len(c[b]) /\ i - 1 # i
    BY <1>1, <1>3, <1>4
  <2>2. QED BY <1>1, <1>3, <1>4, <2>1 DEF Apart
<1>7. Relinked(pNext', pNext, FirstOf(lookuptable', freelist'), FirstOf(lookuptable, freelist),
               c, b, i, TSize)
  <2>1. \A m \in Node : pNext'[m] = IF m = c[b][i] THEN FirstOf(lookuptable, freelist)[TSize]
                                    ELSE IF i # 1 /\ m = c[b][i - 1] THEN pNext[c[b][i]]
                                    ELSE pNext[m]
    <3>1. FirstOf(lookuptable, freelist)[TSize] = freelist
      BY <1>4 DEF FirstOf
    <3>2. CASE i = 1
      <4>1. pNext' = [pNext EXCEPT ![n] = freelist]
        BY <1>2, <3>2 DEF Unlink
      <4>2. QED BY <1>5, <1>6, <3>1, <3>2, <4>1
    <3>3. CASE i # 1
      <4>1. pNext' = [[pNext EXCEPT ![c[b][i - 1]] = pNext[c[b][i]]] EXCEPT ![n] = freelist]
        BY <1>2, <3>3 DEF Unlink
      <4>2. QED BY <1>5, <1>6, <3>1, <3>3, <4>1
    <3>4. QED BY <3>2, <3>3
  <2>2. ASSUME NEW h \in Chains
        PROVE  FirstOf(lookuptable', freelist')[h] =
                 IF h = TSize THEN c[b][i]
                 ELSE IF h = b /\ i = 1 THEN pNext[c[b][i]] ELSE FirstOf(lookuptable, freelist)[h]
    <3>1. h # TSize => h \in Bucket
      BY PointerFacts
    <3>2. QED BY <1>2, <1>4, <1>5, <3>1 DEF FirstOf
  <2>3. QED BY <2>1, <2>2 DEF Relinked
<1>8. Heap(pNext', FirstOf(lookuptable', freelist'), d)
  BY <1>1, <1>3, <1>4, <1>7, HeapMoved DEF b, i
<1>9. /\ \A m \in Node : m # c[b][i] => nodes'[m] = nodes[m]
      /\ Fits(nodes', c[b][i], TSize)
  BY <1>2, <1>5, <1>6 DEF Fits
<1>10. Filled(nodes', d)
  <2>1. IsMoved(d, c, b, i, TSize)
    BY DEF b, i
  <2> HIDE DEF n
  <2>2. QED BY <1>1, <1>3, <1>4, <1>9, <2>1, FilledMoved
<1>11. QED BY <1>8, <1>10 DEF Shaped

(* Remove keeps the invariant. *)
LEMMA RemoveInv ==
  ASSUME Inv, NEW k \in Key, Remove(k)
  PROVE  Inv'
<1>1. PICK c : Shaped(c)
  BY DEF Inv
<1> DEFINE b == HashIndex(k)
           i == Find(k)
           n == c[b][i]
<1>2. /\ c \in [Chains -> Seq(Node)] /\ Filled(nodes, c)
      /\ Chain(pNext, lookuptable[b]) = c[b]
  BY <1>1, ShapedChains, HashBucket DEF Inv
<1>3. /\ i # 0
      /\ lookuptable' = IF i = 1 THEN [lookuptable EXCEPT ![b] = pNext[n]] ELSE lookuptable
      /\ pNext' = [Unlink(c[b], i) EXCEPT ![n] = freelist]
      /\ freelist' = n /\ nodes' = [nodes EXCEPT ![n] = <<>>]
      /\ UpdateIndexWithRemove(n) /\ size' = size - 1 /\ UNCHANGED indexlist
  BY <1>2 DEF Remove
<1>4. i \in 1 .. Len(c[b])
  BY <1>1, <1>3, FindFirst DEF Inv
<1>5. b \in Bucket /\ b \in Chains /\ b # TSize /\ TSize \in Chains
  BY HashBucket, PointerFacts
<1>6. TypeOK
  BY DEF Inv
<1>7. (\E c1 : Shaped(c1))'
  <2>1. PICK d : IsMoved(d, c, b, i, TSize)
    BY <1>2, <1>4, <1>5, MoveExists
  <2>2. Shaped(d)'
    BY <1>1, <2>1, RemoveShape
  <2>3. QED BY <2>2
<1> HIDE DEF b, i
<1>8. n \in Node /\ n \in Used(nodes)
  <2>1. n \in Node
    BY <1>2, <1>4, <1>5
  <2>2. nodes[n] # <<>>
    BY <1>2, <1>4, <1>5 DEF Filled, Fits
  <2>3. QED BY <2>1, <2>2 DEF Used
<1>9. i # 1 => c[b][i - 1] \in Node
  <2>1. i # 1 => i - 1 \in 1 .. Len(c[b])
    BY <1>2, <1>4, <1>5
  <2>2. QED BY <1>2, <1>5, <2>1
<1> HIDE DEF n
<1>10. Used(nodes') = Used(nodes) \ {n}
  BY <1>3, <1>6, <1>8 DEF Used, TypeOK
<1>11. IsFiniteSet(Used(nodes)) /\ Cardinality(Used(nodes)) = size
  BY DEF Inv, Counted
<1>12. size \in 1 .. FSize
  <2>1. size # 0
    BY <1>8, <1>11, FS_EmptySet
  <2>2. QED BY <1>6, <2>1, PointerFacts DEF TypeOK
<1>13. Counted'
  <2>1. /\ IsFiniteSet(Used(nodes) \ {n})
        /\ Cardinality(Used(nodes) \ {n}) = size - 1
    BY <1>8, <1>11, FS_RemoveElement
  <2>2. QED BY <1>3, <1>10, <2>1 DEF Counted
<1>14. fIndexValid' \in BOOLEAN /\ indexStart' \in Node
  <2>1. ((indexStart + 1) % FSize) \in Node /\ 0 \in Node
    <3>1. 1 \in 0 .. FSize /\ 0 \in Node /\ indexStart \in Node
      BY <1>6, PointerFacts DEF Node, TypeOK
    <3>2. QED BY <3>1, Wrapped
  <2>2. QED BY <1>3, <1>6, <2>1 DEF UpdateIndexWithRemove, Slot, TypeOK
<1>15. TypeOK'
  <2>1. nodes' \in [Node -> {<<>>} \cup (Key \X Value)]
    BY <1>3, <1>8, <1>6 DEF TypeOK
  <2>2. pNext' \in [Node -> Pointer]
    <3>1. Unlink(c[b], i) \in [Node -> Pointer]
      BY <1>6, <1>8, <1>9 DEF Unlink, TypeOK, n
    <3>2. QED BY <1>3, <1>6, <1>8, <3>1 DEF TypeOK
  <2>3. lookuptable' \in [Bucket -> Pointer] /\ freelist' \in Pointer
    BY <1>3, <1>5, <1>6, <1>8, PointerFacts DEF TypeOK
  <2>4. size' \in 0 .. FSize
    BY <1>3, <1>12, PointerFacts
  <2>5. QED BY <1>3, <1>6, <1>14, <2>1, <2>2, <2>3, <2>4 DEF TypeOK
<1>16. Indexed'
  <2>1. SUFFICES ASSUME fIndexValid' PROVE Ring(indexlist, indexStart', size - 1, Used(nodes) \ {n})
    BY <1>3, <1>10 DEF Indexed
  <2>2. CASE size = 1
    <3>1. 0 .. (size - 1) - 1 = {}
      BY <2>2
    <3>2. QED BY <3>1 DEF Ring
  <2>3. CASE size # 1
    <3>1. fIndexValid
      BY <1>3, <2>1, <2>3 DEF UpdateIndexWithRemove
    <3>2. Ring(indexlist, indexStart, size, Used(nodes))
      BY <3>1 DEF Inv, Indexed
    <3>3. size \in 2 .. FSize /\ indexlist \in [Node -> Pointer] /\ indexStart \in Node
      BY <1>6, <1>12, <2>3, PointerFacts DEF TypeOK
    <3>4. CASE n = indexlist[(indexStart + 0) % FSize]
      <4>1. indexStart' = (indexStart + 1) % FSize
        BY <1>3, <2>3, <3>1, <3>4 DEF UpdateIndexWithRemove, Slot
      <4>2. QED BY <3>2, <3>3, <3>4, <4>1, RingRemoveFirst
    <3>5. CASE n # indexlist[(indexStart + 0) % FSize]
      <4>1. indexStart' = indexStart /\ n = indexlist[(indexStart + (size - 1)) % FSize]
        BY <1>3, <2>1, <2>3, <3>1, <3>5 DEF UpdateIndexWithRemove, Slot
      <4>2. QED BY <3>2, <3>3, <4>1, RingRemoveLast
    <3>6. QED BY <3>4, <3>5
  <2>4. QED BY <2>2, <2>3
<1>17. QED BY <1>7, <1>13, <1>15, <1>16 DEF Inv

(* Steps that change nothing keep it. *)
LEMMA StutterInv == ASSUME Inv, UNCHANGED vars PROVE Inv'
BY DEF Inv, vars, TypeOK, Shaped, Counted, Indexed

(***************************************************************************)
(* The invariant holds after any sequence of Insert, Remove, Reset and     *)
(* LookupByIndex calls, for every capacity and width of the table.         *)
(***************************************************************************)
THEOREM InvariantHolds == Spec => []Inv
<1>1. Inv /\ [Next]_vars => Inv'
  BY ResetInv, InsertInv, RemoveInv, ReIndexInv, StutterInv DEF Next
<1>2. QED BY <1>1, InitInv, PTL DEF Spec

(* Type correctness: the pointers, the ring's start and the size stay in   *)
(* their ranges; in particular size never passes the capacity.             *)
THEOREM TypeCorrect == Spec => []TypeOK
<1>1. Inv => TypeOK
  BY DEF Inv
<1>2. QED BY <1>1, InvariantHolds, PTL

(***************************************************************************)
(* NodesPartitioned for every instance: following pNext from the buckets   *)
(* and from the free list meets every node exactly once, every entry hangs *)
(* from the bucket of its key, and _size counts them (fasthash.h:239,      *)
(* :284, :316).                                                            *)
(***************************************************************************)
THEOREM NodesArePartitioned == Spec => []NodesPartitioned
<1>1. ASSUME Inv PROVE NodesPartitioned
  <2> DEFINE used == InTableOrder
             free == Chain(pNext, freelist)
             all == used \o free
  <2>1. PICK c : Shaped(c)
    BY <1>1 DEF Inv
  <2>2. /\ c \in [Chains -> Seq(Node)] /\ Apart(c) /\ Covers(c) /\ Filled(nodes, c)
        /\ \A b \in Bucket : Chain(pNext, lookuptable[b]) = c[b] /\ b \in Chains /\ b # TSize
        /\ free = c[TSize] /\ TSize \in Chains
    BY <1>1, <2>1, ShapedChains, PointerFacts DEF Inv
  <2>3. used \in Seq(Node) /\ IsInjective(used) /\ Range(used) = Used(nodes) /\ Len(used) = size
    BY <1>1, <2>1, OrderOfUsed, OrderLength DEF Inv
  <2>4. free \in Seq(Node) /\ IsInjective(free) /\ Range(free) \subseteq Node
    BY <2>2, ApartChains
  <2>5. ASSUME NEW n \in Node PROVE n \in Range(free) <=> nodes[n] = <<>>
    <3>1. DOMAIN c[TSize] = 1 .. Len(c[TSize])
      BY <2>2
    <3>2. ASSUME n \in Range(free) PROVE nodes[n] = <<>>
      BY <2>2, <3>1, <3>2 DEF Filled, Fits, Range
    <3>3. ASSUME nodes[n] = <<>> PROVE n \in Range(free)
      <4>1. PICK h \in Chains : \E i \in 1 .. Len(c[h]) : c[h][i] = n
        BY <2>2 DEF Covers, Meets
      <4>2. h = TSize
        BY <2>2, <3>3, <4>1 DEF Filled, Fits
      <4>3. QED BY <2>2, <3>1, <4>1, <4>2 DEF Range
    <3>4. QED BY <3>2, <3>3
  <2> HIDE DEF used, free
  <2>6. Range(used) \cap Range(free) = {} /\ Range(used) \cup Range(free) = Node
    BY <2>3, <2>4, <2>5 DEF Used
  <2>7. IsInjective(all) /\ Range(all) = Node
    <3>1. Range(used \o free) = Range(used) \cup Range(free)
      BY <2>3, <2>4, ConcatRange
    <3>2. IsInjective(used \o free)
      BY <2>3, <2>4, <2>6, ConcatRange
    <3>3. QED BY <2>6, <3>1, <3>2
  <2>8. ASSUME NEW b \in Bucket, NEW n \in Range(Chain(pNext, lookuptable[b]))
        PROVE  HashIndex(nodes[n][1]) = b
    <3>1. PICK i \in 1 .. Len(c[b]) : c[b][i] = n
      BY <2>2 DEF Range
    <3>2. QED BY <2>2, <3>1 DEF Filled, Fits
  <2>9. QED BY <2>3, <2>7, <2>8 DEF NodesPartitioned, used, free
<1>2. QED BY <1>1, InvariantHolds, PTL

(***************************************************************************)
(* IndexExact for every instance: while the index is valid, LookupByIndex  *)
(* (fasthash.h:368) answers the indices 0 .. size - 1 with every entry     *)
(* exactly once.                                                           *)
(***************************************************************************)
THEOREM IndexIsExact == Spec => []IndexExact
<1>1. ASSUME Inv PROVE IndexExact
  <2>1. SUFFICES ASSUME fIndexValid
                 PROVE  LET entry == [i \in 0 .. size - 1 |-> indexlist[Slot(i)]] IN
                          /\ {entry[i] : i \in 0 .. size - 1} = Range(InTableOrder)
                          /\ Cardinality({entry[i] : i \in 0 .. size - 1}) = size
    BY DEF IndexExact
  <2> DEFINE entry == [i \in 0 .. size - 1 |-> indexlist[Slot(i)]]
             listed == Listed(indexlist, indexStart, size)
  <2>2. Ring(indexlist, indexStart, size, Used(nodes)) /\ size \in Nat
    BY <1>1, <2>1 DEF Inv, Indexed, TypeOK
  <2>3. IsFiniteSet(Used(nodes)) /\ Cardinality(Used(nodes)) = size
    BY <1>1 DEF Inv, Counted
  <2>4. listed = Used(nodes)
    BY <2>2, <2>3, RingOnto
  <2>5. \A i \in 0 .. size - 1 : entry[i] = indexlist[(indexStart + i) % FSize]
    BY DEF Slot
  <2> HIDE DEF entry
  <2>6. {entry[i] : i \in 0 .. size - 1} = listed
    BY <2>5 DEF Listed
  <2>7. PICK c : Shaped(c)
    BY <1>1 DEF Inv
  <2>8. Range(InTableOrder) = Used(nodes)
    BY <1>1, <2>7, OrderOfUsed DEF Inv
  <2> HIDE DEF listed
  <2>9. /\ {entry[i] : i \in 0 .. size - 1} = Range(InTableOrder)
        /\ Cardinality({entry[i] : i \in 0 .. size - 1}) = size
    BY <2>3, <2>4, <2>6, <2>8
  <2>10. QED BY <2>9 DEF entry
<1>2. QED BY <1>1, InvariantHolds, PTL

-----------------------------------------------------------------------------
(* The nodes of a chain that carry a key. *)

(* g takes the elements of s that are in T, one place after the other. *)
Collects(g, S, s, T) ==
  /\ g \in [0 .. Len(s) -> Seq(S)] /\ g[0] = <<>>
  /\ \A i \in 1 .. Len(s) : g[i] = IF s[i] \in T THEN Append(g[i - 1], s[i]) ELSE g[i - 1]

(* Two functions that do are the same up to the end. *)
LEMMA CollectsOnce ==
  ASSUME NEW S, NEW s \in Seq(S), NEW T, NEW g, Collects(g, S, s, T), NEW r, r[0] = <<>>,
         \A i \in 1 .. Len(s) : r[i] = IF s[i] \in T THEN Append(r[i - 1], s[i]) ELSE r[i - 1]
  PROVE  r[Len(s)] = g[Len(s)]
<1> DEFINE N == Len(s)
           P == {n \in 0 .. N : r[n] = g[n]}
<1>1. N \in Nat
  OBVIOUS
<1>2. 0 \in P
  BY <1>1 DEF Collects
<1>3. ASSUME NEW n \in 0 .. N - 1, n \in P
      PROVE  n + 1 \in P
  <2>1. n + 1 \in 1 .. N /\ n + 1 \in 0 .. N /\ (n + 1) - 1 = n
    BY <1>1
  <2>2. /\ g[n + 1] = IF s[n + 1] \in T THEN Append(g[n], s[n + 1]) ELSE g[n]
        /\ r[n + 1] = IF s[n + 1] \in T THEN Append(r[n], s[n + 1]) ELSE r[n]
    BY <2>1 DEF Collects
  <2>3. QED BY <1>3, <2>1, <2>2
<1> HIDE DEF P
<1>4. \A n \in 0 .. N : n \in P
  <2> HIDE DEF N
  <2>1. QED BY <1>1, <1>2, <1>3, UpTo
<1>5. N \in P
  BY <1>1, <1>4
<1>6. QED BY <1>5 DEF P

(* Among is what such a function reaches. *)
LEMMA AmongCollects ==
  ASSUME NEW S, NEW s \in Seq(S), NEW T
  PROVE  \E g : Collects(g, S, s, T) /\ Among(s, T) = g[Len(s)]
<1> DEFINE N == Len(s)
           V == Seq(S)
           step == [x \in (1 .. N) \X V |->
                      IF s[x[1]] \in T THEN Append(x[2], s[x[1]]) ELSE x[2]]
           Def(g) == g = [i \in 0 .. N |-> IF i = 0 THEN <<>>
                            ELSE IF s[i] \in T THEN Append(g[i - 1], s[i]) ELSE g[i - 1]]
<1>1. N \in Nat /\ N \in 0 .. N /\ 0 \in 0 .. N /\ \A n \in 1 .. N : s[n] \in S
  OBVIOUS
<1>2. \A n \in 1 .. N, v \in V : (IF s[n] \in T THEN Append(v, s[n]) ELSE v) \in V
  BY <1>1
<1>3. step \in Steps(N, V)
  BY <1>2 DEF Steps
<1>4. \A n \in 1 .. N, v \in V : step[<<n, v>>] = IF s[n] \in T THEN Append(v, s[n]) ELSE v
  OBVIOUS
<1>5. <<>> \in V
  OBVIOUS
<1>6. PICK f : Follows(f, N, V, <<>>, step)
  <2> HIDE DEF step, N, V
  <2>1. QED BY <1>1, <1>3, <1>5, StepFunction, Zenon
<1>7. /\ f \in [0 .. N -> V] /\ f[0] = <<>>
      /\ \A n \in 1 .. N : f[n] = IF s[n] \in T THEN Append(f[n - 1], s[n]) ELSE f[n - 1]
  <2>1. \A n \in 1 .. N : n - 1 \in 0 .. N
    BY <1>1
  <2> HIDE DEF step, N, V
  <2>2. QED BY <1>4, <1>6, <2>1 DEF Follows
<1>8. Collects(f, S, s, T)
  BY <1>7 DEF Collects
<1>9. Def(f)
  <2>1. \A n \in 0 .. N : n # 0 => n \in 1 .. N
    BY <1>1
  <2> HIDE DEF N, V
  <2>2. \A i \in 0 .. N : f[i] = IF i = 0 THEN <<>>
                                ELSE IF s[i] \in T THEN Append(f[i - 1], s[i]) ELSE f[i - 1]
    BY <1>7, <2>1
  <2>3. QED BY <1>7, <2>2
<1> DEFINE r == CHOOSE g : Def(g)
<1>10. Def(r)
  <2> HIDE DEF Def
  <2>1. QED BY <1>9
<1>11. \A i \in 0 .. N : r[i] = IF i = 0 THEN <<>>
                               ELSE IF s[i] \in T THEN Append(r[i - 1], s[i]) ELSE r[i - 1]
  <2> HIDE DEF r
  <2>1. QED BY <1>10
<1>12. Among(s, T) = r[N]
  BY DEF Among
<1> HIDE DEF r
<1>13. r[0] = <<>> /\ \A i \in 1 .. N : r[i] = IF s[i] \in T THEN Append(r[i - 1], s[i]) ELSE r[i - 1]
  <2>1. \A n \in 1 .. N : n \in 0 .. N /\ n # 0
    BY <1>1
  <2> HIDE DEF N
  <2>2. QED BY <1>1, <1>11, <2>1
<1>14. r[Len(s)] = f[Len(s)]
  BY <1>8, <1>13, CollectsOnce
<1>15. QED BY <1>8, <1>12, <1>14

(* What a function collects is Among. *)
LEMMA CollectsAmong ==
  ASSUME NEW S, NEW s \in Seq(S), NEW T, NEW g, Collects(g, S, s, T)
  PROVE  Among(s, T) = g[Len(s)]
<1>1. PICK r : Collects(r, S, s, T) /\ Among(s, T) = r[Len(s)]
  BY AmongCollects
<1>2. r[0] = <<>> /\ \A i \in 1 .. Len(s) : r[i] = IF s[i] \in T THEN Append(r[i - 1], s[i]) ELSE r[i - 1]
  BY <1>1 DEF Collects
<1>3. r[Len(s)] = g[Len(s)]
  BY <1>2, CollectsOnce
<1>4. QED BY <1>1, <1>3

(* Among keeps members of T, and repeats nothing that s does not repeat. *)
LEMMA AmongRange ==
  ASSUME NEW S, NEW s \in Seq(S), IsInjective(s), NEW T
  PROVE  Among(s, T) \in Seq(S) /\ Range(Among(s, T)) \subseteq T /\ IsInjective(Among(s, T))
<1> DEFINE N == Len(s)
           Before(n) == {s[j] : j \in 1 .. n}
<1>1. PICK g : Collects(g, S, s, T) /\ Among(s, T) = g[N]
  BY AmongCollects
<1>2. N \in Nat /\ N \in 0 .. N /\ DOMAIN s = 1 .. N /\ g \in [0 .. N -> Seq(S)]
  BY <1>1 DEF Collects
<1> DEFINE P == {n \in 0 .. N : Range(g[n]) \subseteq T \cap Before(n) /\ IsInjective(g[n])}
<1>3. 0 \in P
  <2>1. g[0] = <<>> /\ Range(<<>>) = {} /\ IsInjective(<<>>)
    BY <1>1 DEF Collects, Range, IsInjective
  <2>2. QED BY <1>2, <2>1
<1>4. ASSUME NEW n \in 0 .. N - 1, n \in P
      PROVE  n + 1 \in P
  <2>1. /\ n + 1 \in 1 .. N /\ n + 1 \in 0 .. N /\ n \in 0 .. N /\ (n + 1) - 1 = n
        /\ \A j \in 1 .. n : j \in 1 .. N /\ j # n + 1
        /\ \A j \in 1 .. n : j \in 1 .. n + 1
        /\ n + 1 \in 1 .. n + 1
    BY <1>2
  <2>2. g[n + 1] = IF s[n + 1] \in T THEN Append(g[n], s[n + 1]) ELSE g[n]
    BY <1>1, <2>1 DEF Collects
  <2>3. Range(g[n]) \subseteq T \cap Before(n) /\ IsInjective(g[n]) /\ g[n] \in Seq(S)
    BY <1>2, <1>4, <2>1
  <2>4. Before(n) \subseteq Before(n + 1) /\ s[n + 1] \in Before(n + 1)
    BY <2>1
  <2>5. s[n + 1] \notin Before(n)
    BY <1>2, <2>1 DEF IsInjective
  <2> HIDE DEF Before
  <2>6. CASE s[n + 1] \in T
    <3> DEFINE e == <<s[n + 1]>>
    <3>1. e \in Seq(S) /\ Append(g[n], s[n + 1]) = g[n] \o e
      <4>1. s[n + 1] \in S
        BY <2>1
      <4>2. QED BY <2>3, <4>1, AppendIsConcat
    <3>2. Range(e) = {s[n + 1]} /\ IsInjective(e)
      BY DEF Range, IsInjective
    <3> HIDE DEF e
    <3>3. Range(g[n]) \cap Range(e) = {}
      BY <2>3, <2>5, <3>2
    <3>4. Range(g[n] \o e) = Range(g[n]) \cup Range(e)
      BY <2>3, <3>1, ConcatRange
    <3>5. IsInjective(g[n] \o e)
      BY <2>3, <3>1, <3>2, <3>3, ConcatRange
    <3>6. g[n + 1] = g[n] \o e
      BY <2>2, <2>6, <3>1
    <3>7. Range(g[n + 1]) \subseteq T \cap Before(n + 1) /\ IsInjective(g[n + 1])
      BY <2>3, <2>4, <2>6, <3>2, <3>4, <3>5, <3>6
    <3>8. QED BY <2>1, <3>7
  <2>7. CASE s[n + 1] \notin T
    BY <2>1, <2>2, <2>3, <2>4, <2>7
  <2>8. QED BY <2>6, <2>7
<1> HIDE DEF P, Before
<1>5. \A n \in 0 .. N : n \in P
  <2> HIDE DEF N
  <2>1. QED BY <1>2, <1>3, <1>4, UpTo
<1>6. N \in P
  BY <1>2, <1>5
<1>7. Range(g[N]) \subseteq T /\ IsInjective(g[N]) /\ g[N] \in Seq(S)
  BY <1>2, <1>6 DEF P
<1>8. QED BY <1>1, <1>7

(* What is among s depends on the elements of s only. *)
LEMMA AmongSame ==
  ASSUME NEW S, NEW s \in Seq(S), NEW T, NEW T2, \A i \in 1 .. Len(s) : s[i] \in T <=> s[i] \in T2
  PROVE  Among(s, T2) = Among(s, T)
<1>1. PICK g : Collects(g, S, s, T) /\ Among(s, T) = g[Len(s)]
  BY AmongCollects
<1>2. Collects(g, S, s, T2)
  BY <1>1 DEF Collects
<1>3. QED BY <1>1, <1>2, CollectsAmong

(* An element appended behind another one put in front. *)
LEMMA ConsAppend ==
  ASSUME NEW S, NEW n \in S, NEW x \in Seq(S), NEW e \in S
  PROVE  /\ <<n>> \o Append(x, e) = Append(<<n>> \o x, e)
         /\ <<n>> \o x \in Seq(S)
         /\ <<n>> \o <<>> = Append(<<>>, n)
<1>1. <<n>> \in Seq(S) /\ <<e>> \in Seq(S) /\ <<>> \in Seq(S) /\ <<n>> \o x \in Seq(S)
  OBVIOUS
<1>2. Append(x, e) = x \o <<e>> /\ Append(<<n>> \o x, e) = (<<n>> \o x) \o <<e>>
  BY <1>1, AppendIsConcat
<1>3. (<<n>> \o x) \o <<e>> = <<n>> \o (x \o <<e>>)
  BY <1>1, ConcatAssociative
<1>4. <<n>> \o <<>> = Append(<<>>, n)
  OBVIOUS
<1>5. QED BY <1>1, <1>2, <1>3, <1>4

Fronted(n, T, x) == IF n \in T THEN <<n>> \o x ELSE x

(* A node put in front of a chain comes first if it carries the key, and   *)
(* changes nothing if it does not.                                         *)
LEMMA AmongPush ==
  ASSUME NEW S, NEW s \in Seq(S), NEW n \in S, NEW t \in Seq(S), IsPush(t, n, s),
         NEW T, NEW T2, \A i \in 1 .. Len(s) : s[i] \in T <=> s[i] \in T2
  PROVE  Among(t, T2) = Fronted(n, T2, Among(s, T))
<1> DEFINE N == Len(s)
           Front(x) == IF n \in T2 THEN <<n>> \o x ELSE x
<1>0. N \in Nat
  OBVIOUS
<1>1. PICK g : Collects(g, S, s, T) /\ Among(s, T) = g[N]
  BY AmongCollects
<1>2. /\ N \in Nat /\ Len(t) = N + 1 /\ t[1] = n /\ \A j \in 2 .. N + 1 : t[j] = s[j - 1]
      /\ g \in [0 .. N -> Seq(S)] /\ g[0] = <<>>
      /\ \A j \in 1 .. N : g[j] = IF s[j] \in T THEN Append(g[j - 1], s[j]) ELSE g[j - 1]
      /\ \A j \in 1 .. N : s[j] \in S
  BY <1>1 DEF Collects, IsPush
<1> DEFINE f == [j \in 0 .. N + 1 |-> IF j = 0 THEN <<>> ELSE Front(g[j - 1])]
<1>3. \A x \in Seq(S) : Front(x) \in Seq(S)
  OBVIOUS
<1>4. \A x \in Seq(S), e \in S : Front(Append(x, e)) = Append(Front(x), e)
  BY ConsAppend
<1>5. Front(<<>>) = IF n \in T2 THEN Append(<<>>, n) ELSE <<>>
  BY ConsAppend
<1>6. \A j \in 0 .. N + 1 : j # 0 => j - 1 \in 0 .. N
  <2> HIDE DEF N
  <2>1. QED BY <1>0
<1> HIDE DEF Front, N
<1>7. f \in [0 .. N + 1 -> Seq(S)]
  BY <1>2, <1>3, <1>6
<1>8. f[0] = <<>> /\ \A j \in 1 .. N + 1 : f[j] = Front(g[j - 1])
  <2>1. 0 \in 0 .. N + 1 /\ \A j \in 1 .. N + 1 : j \in 0 .. N + 1 /\ j # 0
    BY <1>0
  <2>2. QED BY <2>1
<1> HIDE DEF f
<1>9. ASSUME NEW j \in 1 .. N + 1
      PROVE  f[j] = IF t[j] \in T2 THEN Append(f[j - 1], t[j]) ELSE f[j - 1]
  <2>1. CASE j = 1
    <3>1. f[j] = Front(<<>>) /\ f[j - 1] = <<>> /\ t[j] = n
      <4>1. 1 \in 1 .. N + 1 /\ 1 - 1 = 0
        BY <1>0
      <4>2. f[1] = Front(g[0]) /\ g[0] = <<>> /\ t[1] = n /\ f[0] = <<>>
        BY <1>2, <1>8, <4>1
      <4>3. QED BY <2>1, <4>1, <4>2
    <3>2. QED BY <1>5, <3>1
  <2>2. CASE j # 1
    <3>1. j \in 2 .. N + 1 /\ j - 1 \in 1 .. N /\ j - 1 \in 1 .. N + 1 /\ (j - 1) - 1 \in 0 .. N
      BY <1>0, <2>2
    <3> DEFINE m == j - 1
    <3>2. m \in 1 .. N /\ m - 1 \in 0 .. N /\ t[j] = s[m] /\ f[j] = Front(g[m]) /\ f[m] = Front(g[m - 1])
      BY <1>2, <1>8, <3>1
    <3> HIDE DEF m
    <3>3. /\ g[m] = IF s[m] \in T THEN Append(g[m - 1], s[m]) ELSE g[m - 1]
          /\ g[m - 1] \in Seq(S) /\ s[m] \in S /\ (s[m] \in T <=> s[m] \in T2)
      BY <1>2, <3>2 DEF N
    <3>4. Front(Append(g[m - 1], s[m])) = Append(Front(g[m - 1]), s[m])
      BY <1>4, <3>3
    <3>5. f[j] = IF t[j] \in T2 THEN Append(f[m], t[j]) ELSE f[m]
      BY <3>2, <3>3, <3>4
    <3>6. QED BY <3>5 DEF m
  <2>3. QED BY <2>1, <2>2
<1>10. Collects(f, S, t, T2)
  BY <1>2, <1>7, <1>8, <1>9 DEF Collects
<1>11. Among(t, T2) = f[N + 1]
  <2>1. Among(t, T2) = f[Len(t)]
    BY <1>10, CollectsAmong
  <2>2. QED BY <1>2, <2>1
<1>12. f[N + 1] = Front(g[N])
  <2>1. N + 1 \in 1 .. N + 1 /\ (N + 1) - 1 = N
    BY <1>0
  <2>2. QED BY <1>8, <2>1
<1>13. QED BY <1>1, <1>11, <1>12 DEF Front, Fronted

(* A node that does not carry the key leaves a chain. *)
LEMMA AmongDropOther ==
  ASSUME NEW S, NEW s \in Seq(S), NEW i \in 1 .. Len(s), NEW t \in Seq(S), IsDrop(t, s, i),
         NEW T, s[i] \notin T,
         NEW T2, \A j \in 1 .. Len(s) : j # i => (s[j] \in T <=> s[j] \in T2)
  PROVE  Among(t, T2) = Among(s, T)
<1> DEFINE N == Len(s)
<1>0. N \in Nat /\ i \in 1 .. N
  OBVIOUS
<1>1. PICK g : Collects(g, S, s, T) /\ Among(s, T) = g[N]
  BY AmongCollects
<1>2. /\ N \in Nat /\ Len(t) = N - 1 /\ i \in 1 .. N
      /\ \A j \in 1 .. N - 1 : t[j] = IF j < i THEN s[j] ELSE s[j + 1]
      /\ g \in [0 .. N -> Seq(S)] /\ g[0] = <<>>
      /\ \A j \in 1 .. N : g[j] = IF s[j] \in T THEN Append(g[j - 1], s[j]) ELSE g[j - 1]
      /\ \A j \in 1 .. N : j # i => (s[j] \in T <=> s[j] \in T2)
  BY <1>1 DEF Collects, IsDrop
<1> DEFINE f == [j \in 0 .. N - 1 |-> IF j < i THEN g[j] ELSE g[j + 1]]
<1> HIDE DEF N
<1>3. g[i] = g[i - 1]
  BY <1>2
<1>4. f \in [0 .. N - 1 -> Seq(S)]
  <2>1. \A j \in 0 .. N - 1 : j \in 0 .. N /\ j + 1 \in 0 .. N
    BY <1>0
  <2>2. QED BY <1>2, <2>1
<1>5. \A j \in 0 .. N - 1 : f[j] = IF j < i THEN g[j] ELSE g[j + 1]
  OBVIOUS
<1>6. f[0] = <<>>
  <2>1. 0 \in 0 .. N - 1 /\ 0 < i
    BY <1>0
  <2>2. QED BY <1>2, <1>5, <2>1
<1> HIDE DEF f
<1>7. ASSUME NEW j \in 1 .. N - 1
      PROVE  f[j] = IF t[j] \in T2 THEN Append(f[j - 1], t[j]) ELSE f[j - 1]
  <2>1. j \in 0 .. N - 1 /\ j - 1 \in 0 .. N - 1 /\ j \in 1 .. N /\ j + 1 \in 1 .. N /\ (j + 1) - 1 = j /\ (j - 1) + 1 = j
    BY <1>0
  <2>2. CASE j < i
    <3>1. f[j] = g[j] /\ f[j - 1] = g[j - 1] /\ t[j] = s[j] /\ j # i
      <4>1. j - 1 < i /\ j # i
        BY <1>0, <2>1, <2>2
      <4>2. QED BY <1>2, <1>5, <2>1, <2>2, <4>1
    <3>2. g[j] = IF s[j] \in T THEN Append(g[j - 1], s[j]) ELSE g[j - 1]
      BY <1>2, <2>1
    <3>3. s[j] \in T <=> s[j] \in T2
      BY <1>2, <2>1, <3>1
    <3>4. QED BY <3>1, <3>2, <3>3
  <2>3. CASE ~(j < i)
    <3>1. f[j] = g[j + 1] /\ t[j] = s[j + 1] /\ j + 1 # i
      <4>1. j + 1 # i
        BY <1>0, <2>1, <2>3
      <4>2. QED BY <1>2, <1>5, <2>1, <2>3, <4>1
    <3>2. f[j - 1] = g[j]
      <4>1. CASE j = i
        <5>1. j - 1 < i
          BY <1>0, <2>1, <4>1
        <5>2. QED BY <1>3, <1>5, <2>1, <4>1, <5>1
      <4>2. CASE j # i
        <5>1. ~(j - 1 < i)
          BY <1>0, <2>1, <2>3, <4>2
        <5>2. QED BY <1>5, <2>1, <5>1
      <4>3. QED BY <4>1, <4>2
    <3>3. g[j + 1] = IF s[j + 1] \in T THEN Append(g[j], s[j + 1]) ELSE g[j]
      BY <1>2, <2>1
    <3>4. s[j + 1] \in T <=> s[j + 1] \in T2
      BY <1>2, <2>1, <3>1
    <3>5. QED BY <3>1, <3>2, <3>3, <3>4
  <2>4. QED BY <2>2, <2>3
<1>8. Collects(f, S, t, T2)
  BY <1>2, <1>4, <1>6, <1>7 DEF Collects
<1>9. Among(t, T2) = f[N - 1]
  <2>1. Among(t, T2) = f[Len(t)]
    BY <1>8, CollectsAmong
  <2>2. QED BY <1>2, <2>1
<1>10. f[N - 1] = g[N]
  <2>1. N - 1 \in 0 .. N - 1 /\ (N - 1) + 1 = N /\ (N - 1 < i => N = i)
    BY <1>0
  <2>2. QED BY <1>3, <1>5, <2>1
<1>11. QED BY <1>1, <1>9, <1>10

IsTail(t, s) == s # <<>> /\ t = Tail(s)

(* The first node that carries the key leaves a chain. *)
LEMMA AmongDropFirst ==
  ASSUME NEW S, NEW s \in Seq(S), NEW i \in 1 .. Len(s), NEW t \in Seq(S), IsDrop(t, s, i),
         NEW T, s[i] \in T, \A j \in 1 .. Len(s) : j < i => s[j] \notin T,
         NEW T2, \A j \in 1 .. Len(s) : j # i => (s[j] \in T <=> s[j] \in T2)
  PROVE  IsTail(Among(t, T2), Among(s, T))
<1> DEFINE N == Len(s)
<1>0. N \in Nat /\ i \in 1 .. N
  OBVIOUS
<1>1. PICK g : Collects(g, S, s, T) /\ Among(s, T) = g[N]
  BY AmongCollects
<1>2. /\ N \in Nat /\ Len(t) = N - 1 /\ i \in 1 .. N
      /\ \A j \in 1 .. N - 1 : t[j] = IF j < i THEN s[j] ELSE s[j + 1]
      /\ g \in [0 .. N -> Seq(S)] /\ g[0] = <<>>
      /\ \A j \in 1 .. N : g[j] = IF s[j] \in T THEN Append(g[j - 1], s[j]) ELSE g[j - 1]
      /\ \A j \in 1 .. N : j # i => (s[j] \in T <=> s[j] \in T2)
      /\ \A j \in 1 .. N : j < i => s[j] \notin T
      /\ \A j \in 1 .. N : s[j] \in S
  BY <1>1 DEF Collects, IsDrop
<1> HIDE DEF N
<1>3. \A j \in 0 .. N : (j < i => g[j] = <<>>) /\ (~(j < i) => g[j] # <<>>)
  <2> DEFINE P == {j \in 0 .. N : (j < i => g[j] = <<>>) /\ (~(j < i) => g[j] # <<>>)}
  <2>1. 0 \in P
    <3>1. 0 \in 0 .. N /\ 0 < i
      BY <1>0
    <3>2. QED BY <1>2, <3>1
  <2>2. ASSUME NEW n \in 0 .. N - 1, n \in P
        PROVE  n + 1 \in P
    <3>1. n + 1 \in 1 .. N /\ n + 1 \in 0 .. N /\ n \in 0 .. N /\ (n + 1) - 1 = n
      BY <1>0
    <3>2. g[n + 1] = IF s[n + 1] \in T THEN Append(g[n], s[n + 1]) ELSE g[n]
      BY <1>2, <3>1
    <3>3. g[n] \in Seq(S) /\ s[n + 1] \in S
      BY <1>2, <3>1
    <3>4. Append(g[n], s[n + 1]) # <<>>
      <4>1. Len(Append(g[n], s[n + 1])) = Len(g[n]) + 1 /\ Len(g[n]) \in Nat /\ Len(<<>>) = 0
        BY <3>3
      <4>2. Len(Append(g[n], s[n + 1])) # Len(<<>>)
        BY <4>1
      <4>3. QED BY <4>2
    <3>5. CASE n + 1 < i
      <4>1. n < i
        BY <1>0, <3>1, <3>5
      <4>2. QED BY <1>2, <2>2, <3>1, <3>2, <3>5, <4>1
    <3>6. CASE n + 1 = i
      <4>1. ~(n + 1 < i)
        BY <1>0, <3>6
      <4>2. g[n + 1] # <<>>
        BY <3>2, <3>4, <3>6
      <4>3. QED BY <3>1, <4>1, <4>2
    <3>7. CASE n + 1 > i
      <4>1. ~(n < i) /\ ~(n + 1 < i)
        BY <1>0, <3>1, <3>7
      <4>2. QED BY <2>2, <3>1, <3>2, <3>4, <4>1
    <3>8. n + 1 < i \/ n + 1 = i \/ n + 1 > i
      BY <1>0, <3>1
    <3>9. QED BY <3>5, <3>6, <3>7, <3>8
  <2> HIDE DEF P
  <2>3. \A j \in 0 .. N : j \in P
    BY <1>0, <2>1, <2>2, UpTo
  <2>4. QED BY <2>3 DEF P
<1> DEFINE f == [j \in 0 .. N - 1 |-> IF j < i THEN <<>> ELSE Tail(g[j + 1])]
<1>4. \A j \in 0 .. N : g[j] \in Seq(S) /\ (g[j] # <<>> => Tail(g[j]) \in Seq(S))
  BY <1>2, HeadTailProperties
<1>5. f \in [0 .. N - 1 -> Seq(S)]
  <2>1. \A j \in 0 .. N - 1 : j + 1 \in 0 .. N /\ (~(j < i) => ~(j + 1 < i))
    BY <1>0
  <2>2. <<>> \in Seq(S)
    OBVIOUS
  <2>3. QED BY <1>3, <1>4, <2>1, <2>2
<1>6. \A j \in 0 .. N - 1 : f[j] = IF j < i THEN <<>> ELSE Tail(g[j + 1])
  OBVIOUS
<1>7. f[0] = <<>>
  <2>1. 0 \in 0 .. N - 1 /\ 0 < i
    BY <1>0
  <2>2. QED BY <1>6, <2>1
<1> HIDE DEF f
<1>8. Tail(g[i]) = <<>>
  <2>1. g[i - 1] = <<>> /\ g[i] = Append(g[i - 1], s[i])
    <3>1. i - 1 \in 0 .. N /\ i - 1 < i
      BY <1>0
    <3>2. QED BY <1>2, <1>3, <3>1
  <2>2. <<>> \in Seq(S) /\ Tail(Append(<<>>, s[i])) = <<>>
    BY HeadTailAppend
  <2>3. QED BY <2>1, <2>2
<1>9. ASSUME NEW j \in 1 .. N - 1
      PROVE  f[j] = IF t[j] \in T2 THEN Append(f[j - 1], t[j]) ELSE f[j - 1]
  <2>1. j \in 0 .. N - 1 /\ j - 1 \in 0 .. N - 1 /\ j \in 1 .. N /\ j \in 0 .. N /\ j + 1 \in 1 .. N
        /\ (j + 1) - 1 = j /\ (j - 1) + 1 = j
    BY <1>0
  <2>2. CASE j < i
    <3>1. j - 1 < i /\ j # i
      BY <1>0, <2>1, <2>2
    <3>2. f[j] = <<>> /\ f[j - 1] = <<>> /\ t[j] = s[j]
      BY <1>2, <1>6, <2>1, <2>2, <3>1
    <3>3. s[j] \notin T2
      BY <1>2, <2>1, <2>2, <3>1
    <3>4. QED BY <3>2, <3>3
  <2>3. CASE ~(j < i)
    <3>1. j + 1 # i
      BY <1>0, <2>1, <2>3
    <3>2. f[j] = Tail(g[j + 1]) /\ t[j] = s[j + 1] /\ (s[j + 1] \in T <=> s[j + 1] \in T2)
      BY <1>2, <1>6, <2>1, <2>3, <3>1
    <3>3. f[j - 1] = Tail(g[j])
      <4>1. CASE j = i
        <5>1. j - 1 < i
          BY <1>0, <2>1, <4>1
        <5>2. QED BY <1>6, <1>8, <2>1, <4>1, <5>1
      <4>2. CASE j # i
        <5>1. ~(j - 1 < i)
          BY <1>0, <2>1, <2>3, <4>2
        <5>2. QED BY <1>6, <2>1, <5>1
      <4>3. QED BY <4>1, <4>2
    <3>4. g[j + 1] = IF s[j + 1] \in T THEN Append(g[j], s[j + 1]) ELSE g[j]
      BY <1>2, <2>1
    <3>5. g[j] \in Seq(S) /\ g[j] # <<>>
      BY <1>2, <1>3, <2>1, <2>3
    <3>6. Tail(Append(g[j], s[j + 1])) = Append(Tail(g[j]), s[j + 1])
      BY <3>5, HeadTailAppend
    <3>7. QED BY <3>2, <3>3, <3>4, <3>6
  <2>4. QED BY <2>2, <2>3
<1>10. Collects(f, S, t, T2)
  BY <1>2, <1>5, <1>7, <1>9 DEF Collects
<1>11. Among(t, T2) = f[N - 1]
  <2>1. Among(t, T2) = f[Len(t)]
    BY <1>10, CollectsAmong
  <2>2. QED BY <1>2, <2>1
<1>12. f[N - 1] = Tail(g[N]) /\ g[N] # <<>>
  <2>1. N - 1 \in 0 .. N - 1 /\ (N - 1) + 1 = N /\ (N - 1 < i => N = i) /\ ~(N < i) /\ N \in 0 .. N
    BY <1>0
  <2>2. QED BY <1>3, <1>6, <1>8, <2>1
<1>13. QED BY <1>1, <1>11, <1>12 DEF IsTail

-----------------------------------------------------------------------------
(* The map that the table implements. *)

Entry == {<<>>} \cup (Key \X Value)

HoldingOf(ns, k) == {n \in Node : ns[n] # <<>> /\ ns[n][1] = k}

(* The nodes of key k, and what nodes hold: Stack in terms of the chains. *)
OwnOf(ns, c, k) == Among(c[HashIndex(k)], HoldingOf(ns, k))

Values(ns, own) == [x \in DOMAIN own |-> ns[own[x]][2]]

StackOf(ns, c) == [k \in Key |-> Values(ns, OwnOf(ns, c, k))]

(* The nodes of a key are different and carry it. *)
LEMMA OwnFacts ==
  ASSUME NEW ns, NEW c \in [Chains -> Seq(Node)], Apart(c), NEW k \in Key
  PROVE  /\ OwnOf(ns, c, k) \in Seq(Node) /\ IsInjective(OwnOf(ns, c, k))
         /\ Range(OwnOf(ns, c, k)) \subseteq HoldingOf(ns, k)
<1>1. HashIndex(k) \in Chains
  BY HashBucket
<1>2. c[HashIndex(k)] \in Seq(Node) /\ IsInjective(c[HashIndex(k)])
  BY <1>1, ApartChains
<1>3. QED BY <1>2, AmongRange DEF OwnOf

(* The values of a sequence of nodes in use. *)
LEMMA ValuesType ==
  ASSUME NEW ns \in [Node -> Entry], NEW own \in Seq(Node), Range(own) \subseteq Used(ns)
  PROVE  Values(ns, own) \in Seq(Value) /\ Len(Values(ns, own)) = Len(own)
<1>1. Len(own) \in Nat /\ DOMAIN own = 1 .. Len(own)
  OBVIOUS
<1>2. ASSUME NEW x \in 1 .. Len(own) PROVE ns[own[x]][2] \in Value
  <2>1. own[x] \in Node /\ ns[own[x]] # <<>>
    BY <1>1 DEF Range, Used
  <2>2. ns[own[x]] \in Key \X Value
    BY <2>1 DEF Entry
  <2>3. QED BY <2>2
<1>3. QED BY <1>1, <1>2 DEF Values

(* The elements of a concatenation. *)
IsConcat(u, s, t) ==
  /\ Len(u) = Len(s) + Len(t)
  /\ \A x \in 1 .. Len(s) + Len(t) : u[x] = IF x <= Len(s) THEN s[x] ELSE t[x - Len(s)]

(* These they are. *)
LEMMA ConcatElements ==
  ASSUME NEW S, NEW s \in Seq(S), NEW t \in Seq(S)
  PROVE  s \o t \in Seq(S) /\ IsConcat(s \o t, s, t)
<1>1. s \o t \in Seq(S) /\ Len(s \o t) = Len(s) + Len(t)
  OBVIOUS
<1>2. \A x \in 1 .. Len(s) + Len(t) : (s \o t)[x] = IF x <= Len(s) THEN s[x] ELSE t[x - Len(s)]
  OBVIOUS
<1>3. QED BY <1>1, <1>2 DEF IsConcat

(* Concatenation with one element puts it in front. *)
LEMMA SingletonConcat ==
  ASSUME NEW S, NEW e \in Seq(S), Len(e) = 1, NEW v \in Seq(S)
  PROVE  e \o v = Push(e[1], v)
<1> DEFINE L == Len(v)
           w == e \o v
<1>1. L \in Nat /\ w \in Seq(S) /\ IsConcat(w, e, v)
  BY ConcatElements
<1> HIDE DEF w, L
<1>2. /\ Len(w) = Len(e) + Len(v)
      /\ \A x \in 1 .. Len(e) + Len(v) : w[x] = IF x <= Len(e) THEN e[x] ELSE v[x - Len(e)]
  BY <1>1 DEF IsConcat
<1>3. Len(w) = L + 1
  BY <1>1, <1>2 DEF L
<1>4. \A x \in 1 .. L + 1 : w[x] = IF x = 1 THEN e[1] ELSE v[x - 1]
  <2>1. 1 + L = L + 1 /\ \A x \in 1 .. L + 1 : x <= 1 <=> x = 1
    BY <1>1
  <2>2. \A x \in 1 .. 1 + L : w[x] = IF x <= 1 THEN e[x] ELSE v[x - 1]
    BY <1>2 DEF L
  <2>3. QED BY <1>1, <2>1, <2>2
<1>5. w \in [1 .. L + 1 -> S]
  BY <1>1, <1>3
<1>6. w = [x \in 1 .. L + 1 |-> IF x = 1 THEN e[1] ELSE v[x - 1]]
  BY <1>4, <1>5
<1>7. QED BY <1>6 DEF Push, L, w

(* The same for the sequence of an element. *)
LEMMA ConsIsPush ==
  ASSUME NEW S, NEW a \in S, NEW v \in Seq(S)
  PROVE  <<a>> \o v = Push(a, v)
<1>1. <<a>> \in Seq(S) /\ Len(<<a>>) = 1 /\ <<a>>[1] = a
  OBVIOUS
<1>2. <<a>> \o v = Push(<<a>>[1], v)
  BY <1>1, SingletonConcat
<1>3. QED BY <1>1, <1>2

(* The tail drops the first element. *)
LEMMA TailIsDrop ==
  ASSUME NEW S, NEW v \in Seq(S), v # <<>>
  PROVE  Tail(v) = Drop(v, 1)
<1> DEFINE w == Tail(v)
           L == Len(v) - 1
<1>1. w \in Seq(S) /\ Len(w) = L /\ \A x \in 1 .. L : w[x] = v[x + 1]
  BY HeadTailProperties
<1>2. \A x \in 1 .. L : ~(x < 1)
  OBVIOUS
<1> HIDE DEF w
<1>3. w \in [1 .. L -> S]
  BY <1>1
<1>4. w = [x \in 1 .. L |-> IF x < 1 THEN v[x] ELSE v[x + 1]]
  BY <1>1, <1>2, <1>3
<1>5. QED BY <1>4 DEF Drop, w

(* The value of a node put in front comes first. *)
LEMMA ValuesCons ==
  ASSUME NEW ns \in [Node -> Entry], NEW own \in Seq(Node), Range(own) \subseteq Used(ns),
         NEW n \in Used(ns)
  PROVE  Values(ns, <<n>> \o own) = <<ns[n][2]>> \o Values(ns, own)
<1> DEFINE v == Values(ns, own)
           a == ns[n][2]
           L == Len(own)
<1>1. n \in Node /\ L \in Nat /\ DOMAIN own = 1 .. L
  BY DEF Used
<1>2. a \in Value
  <2>1. ns[n] \in Key \X Value
    BY DEF Used, Entry
  <2>2. QED BY <2>1
<1>3. v \in Seq(Value) /\ Len(v) = L
  BY ValuesType
<1>4. \A x \in 1 .. L : v[x] = ns[own[x]][2]
  BY <1>1 DEF Values
<1>5. <<n>> \o own = Push(n, own)
  BY <1>1, ConsIsPush
<1> HIDE DEF v, a, L
<1>6. <<a>> \o v = Push(a, v)
  BY <1>2, <1>3, ConsIsPush
<1>7. /\ DOMAIN Push(n, own) = 1 .. L + 1
      /\ \A x \in 1 .. L + 1 : Push(n, own)[x] = IF x = 1 THEN n ELSE own[x - 1]
  BY DEF Push, L
<1>8. Push(a, v) = [x \in 1 .. L + 1 |-> IF x = 1 THEN a ELSE v[x - 1]]
  BY <1>3 DEF Push
<1>9. \A x \in 1 .. L + 1 : ns[Push(n, own)[x]][2] = IF x = 1 THEN a ELSE v[x - 1]
  <2>1. \A x \in 1 .. L + 1 : x # 1 => x - 1 \in 1 .. L
    BY <1>1
  <2>2. QED BY <1>4, <1>7, <2>1 DEF a
<1>10. Values(ns, Push(n, own)) = Push(a, v)
  BY <1>7, <1>8, <1>9 DEF Values
<1>11. QED BY <1>5, <1>6, <1>10 DEF a, v

(* The values of the other nodes when the first goes. *)
LEMMA ValuesTail ==
  ASSUME NEW ns \in [Node -> Entry], NEW own \in Seq(Node), Range(own) \subseteq Used(ns), own # <<>>
  PROVE  Values(ns, own) # <<>> /\ Values(ns, Tail(own)) = Tail(Values(ns, own))
<1> DEFINE v == Values(ns, own)
           L == Len(own)
<1>1. L \in Nat /\ L # 0 /\ DOMAIN own = 1 .. L
  OBVIOUS
<1>2. v \in Seq(Value) /\ Len(v) = L
  BY ValuesType
<1>3. \A x \in 1 .. L : v[x] = ns[own[x]][2]
  BY <1>1 DEF Values
<1>4. Tail(own) = Drop(own, 1)
  BY TailIsDrop
<1> HIDE DEF v, L
<1>5. v # <<>>
  BY <1>1, <1>2
<1>6. Tail(v) = Drop(v, 1)
  BY <1>2, <1>5, TailIsDrop
<1>7. \A x \in 1 .. L - 1 : x + 1 \in 1 .. L /\ ~(x < 1)
  BY <1>1
<1>8. Drop(v, 1) = [x \in 1 .. L - 1 |-> v[x + 1]]
  BY <1>2, <1>7 DEF Drop
<1>9. Drop(own, 1) = [x \in 1 .. L - 1 |-> own[x + 1]]
  BY <1>7 DEF Drop, L
<1>10. Values(ns, Drop(own, 1)) = [x \in 1 .. L - 1 |-> ns[own[x + 1]][2]]
  BY <1>9 DEF Values
<1>11. Values(ns, Drop(own, 1)) = Drop(v, 1)
  BY <1>3, <1>7, <1>8, <1>10
<1>12. QED BY <1>4, <1>5, <1>6, <1>11 DEF v

(* Values depend on the nodes of the sequence only. *)
LEMMA ValuesSame ==
  ASSUME NEW own, NEW ns, NEW ns2, \A n \in Range(own) : ns2[n] = ns[n]
  PROVE  Values(ns2, own) = Values(ns, own)
BY DEF Values, Range

(* What the pointers spell out, key by key. *)
LEMMA StackOfHeap ==
  ASSUME NEW next \in [Node -> Pointer], NEW table, NEW free, NEW c,
         Heap(next, FirstOf(table, free), c), NEW ns
  PROVE  StackOf(ns, c) =
           [k \in Key |-> Values(ns, Among(Chain(next, table[HashIndex(k)]), HoldingOf(ns, k)))]
<1> DEFINE first == FirstOf(table, free)
<1>1. ASSUME NEW k \in Key PROVE Chain(next, table[HashIndex(k)]) = c[HashIndex(k)]
  <2>1. HashIndex(k) \in Chains /\ HashIndex(k) # TSize
    BY HashBucket
  <2>2. first[HashIndex(k)] = table[HashIndex(k)]
    BY <2>1 DEF FirstOf
  <2> HIDE DEF first
  <2>3. Chain(next, first[HashIndex(k)]) = c[HashIndex(k)]
    BY <2>1, HeapChain DEF first
  <2>4. QED BY <2>2, <2>3
<1>2. QED BY <1>1 DEF StackOf, OwnOf

(* So the stacks are those of the chains, before a step and after it. *)
LEMMA StackIs ==
  ASSUME TypeOK, NEW c, Shaped(c)
  PROVE  Stack = StackOf(nodes, c)
<1>1. pNext \in [Node -> Pointer] /\ Heap(pNext, FirstOf(lookuptable, freelist), c)
  BY DEF TypeOK, Shaped
<1>2. Stack = [k \in Key |-> Values(nodes, Among(Chain(pNext, lookuptable[HashIndex(k)]),
                                                HoldingOf(nodes, k)))]
  BY DEF Stack, Values, Holding, HoldingOf
<1>3. QED BY <1>1, <1>2, StackOfHeap

(* The same after a step. *)
LEMMA NextStackIs ==
  ASSUME TypeOK', NEW c, Shaped(c)'
  PROVE  Stack' = StackOf(nodes', c)
<1>1. pNext' \in [Node -> Pointer] /\ Heap(pNext', FirstOf(lookuptable', freelist'), c)
  BY DEF TypeOK, Shaped
<1>2. Stack' = [k \in Key |-> Values(nodes', Among(Chain(pNext', lookuptable'[HashIndex(k)]),
                                                  HoldingOf(nodes', k)))]
  BY DEF Stack, Values, Holding, HoldingOf
<1>3. QED BY <1>1, <1>2, StackOfHeap

(* Without an entry all stacks are empty. *)
LEMMA EmptyStack ==
  ASSUME NEW c \in [Chains -> Seq(Node)], Apart(c)
  PROVE  StackOf([n \in Node |-> <<>>], c) = [k \in Key |-> <<>>]
<1> DEFINE ns == [n \in Node |-> <<>>]
<1>1. \A n \in Node : ns[n] = <<>>
  OBVIOUS
<1> HIDE DEF ns
<1>2. ASSUME NEW k \in Key PROVE Values(ns, OwnOf(ns, c, k)) = <<>>
  <2> DEFINE own == OwnOf(ns, c, k)
  <2>1. HoldingOf(ns, k) = {}
    BY <1>1 DEF HoldingOf
  <2>2. own \in Seq(Node) /\ Range(own) \subseteq HoldingOf(ns, k)
    BY OwnFacts
  <2> HIDE DEF own
  <2>3. DOMAIN own = {}
    BY <2>1, <2>2 DEF Range
  <2>4. Values(ns, own) = [x \in {} |-> ns[own[x]][2]]
    BY <2>3 DEF Values
  <2>5. <<>> = [x \in {} |-> ns[own[x]][2]]
    OBVIOUS
  <2>6. QED BY <2>4, <2>5 DEF own
<1>3. StackOf(ns, c) = [k \in Key |-> <<>>]
  BY <1>2 DEF StackOf
<1>4. QED BY <1>3 DEF ns

(* Node n holds x now, and the others what they did. *)
Holds(ns2, ns, n, x) == ns2 = [ns EXCEPT ![n] = x]

(* The map with v in front of the values of k, and without the newest.     *)
Pushed(t, s, k, v) == t = [s EXCEPT ![k] = <<v>> \o @]
Popped(t, s, k) == s[k] # <<>> /\ t = [s EXCEPT ![k] = Tail(@)]

(* The stacks after node n, of no key, has been given one and been put in  *)
(* front of its bucket.                                                    *)
LEMMA PushStack ==
  ASSUME NEW c \in [Chains -> Seq(Node)], Apart(c), NEW ns \in [Node -> Entry],
         1 \in 1 .. Len(c[TSize]), NEW n \in Node, n = c[TSize][1], ns[n] = <<>>,
         NEW k \in Key, NEW v \in Value, NEW d, IsMoved(d, c, TSize, 1, HashIndex(k)),
         NEW ns2, Holds(ns2, ns, n, <<k, v>>)
  PROVE  Pushed(StackOf(ns2, d), StackOf(ns, c), k, v)
<1> DEFINE b == HashIndex(k)
<1>1. /\ ns2 \in [Node -> Entry] /\ ns2[n] = <<k, v>> /\ ns2[n][2] = v /\ n \in Used(ns2)
      /\ \A m \in Node : m # n => ns2[m] = ns[m]
  BY DEF Holds, Entry, Used
<1>2. ASSUME NEW l \in Key
      PROVE  /\ \A m \in Node : m # n => (m \in HoldingOf(ns, l) <=> m \in HoldingOf(ns2, l))
             /\ n \in HoldingOf(ns2, l) <=> l = k
             /\ HoldingOf(ns, l) \subseteq Used(ns) /\ n \notin HoldingOf(ns, l)
  <2>1. <<k, v>> # <<>> /\ <<k, v>>[1] = k
    OBVIOUS
  <2>2. QED BY <1>1, <2>1 DEF HoldingOf, Used
<1>3. b \in Chains /\ b # TSize /\ TSize \in Chains
  BY HashBucket, PointerFacts
<1>4. /\ d \in [Chains -> Seq(Node)] /\ IsPush(d[b], n, c[b])
      /\ \A h \in Chains : h # TSize /\ h # b => d[h] = c[h]
  BY DEF IsMoved
<1>5. \A h \in Chains : h # TSize => \A j \in 1 .. Len(c[h]) : c[h][j] \in Node /\ c[h][j] # n
  BY <1>3 DEF Apart
<1> HIDE DEF b
<1>6. ASSUME NEW l \in Key
      PROVE  OwnOf(ns2, d, l) = IF l = k THEN <<n>> \o OwnOf(ns, c, l) ELSE OwnOf(ns, c, l)
  <2> DEFINE h == HashIndex(l)
  <2>1. h \in Chains /\ h # TSize /\ c[h] \in Seq(Node) /\ d[h] \in Seq(Node)
    BY <1>4, HashBucket
  <2>2. \A j \in 1 .. Len(c[h]) : c[h][j] \in HoldingOf(ns, l) <=> c[h][j] \in HoldingOf(ns2, l)
    BY <1>2, <1>5, <2>1
  <2> HIDE DEF h
  <2>3. CASE h = b
    <3> DEFINE s == c[h]
               t == d[h]
               T == HoldingOf(ns, l)
               T2 == HoldingOf(ns2, l)
    <3>1. /\ s \in Seq(Node) /\ t \in Seq(Node) /\ IsPush(t, n, s)
          /\ \A j \in 1 .. Len(s) : s[j] \in T <=> s[j] \in T2
      BY <1>4, <2>1, <2>2, <2>3
    <3> HIDE DEF s, t, T, T2
    <3>2. Among(t, T2) = Fronted(n, T2, Among(s, T))
      BY <3>1, AmongPush
    <3>3. QED BY <1>2, <3>2 DEF Fronted, OwnOf, h, s, t, T, T2
  <2>4. CASE h # b
    <3>1. d[h] = c[h] /\ l # k
      BY <1>4, <2>1, <2>4 DEF h, b
    <3>2. Among(c[h], HoldingOf(ns2, l)) = Among(c[h], HoldingOf(ns, l))
      BY <2>1, <2>2, AmongSame
    <3>3. QED BY <3>1, <3>2 DEF OwnOf, h
  <2>5. QED BY <2>3, <2>4
<1>7. ASSUME NEW l \in Key
      PROVE  Values(ns2, OwnOf(ns2, d, l)) = IF l = k THEN <<v>> \o Values(ns, OwnOf(ns, c, l))
                                             ELSE Values(ns, OwnOf(ns, c, l))
  <2> DEFINE own == OwnOf(ns, c, l)
  <2>1. own \in Seq(Node) /\ Range(own) \subseteq HoldingOf(ns, l)
    BY OwnFacts
  <2> HIDE DEF own
  <2>2. \A m \in Range(own) : m \in Node /\ m # n /\ ns2[m] = ns[m]
    BY <1>1, <1>2, <2>1 DEF HoldingOf
  <2>3. Values(ns2, own) = Values(ns, own)
    BY <2>2, ValuesSame
  <2>4. Range(own) \subseteq Used(ns2)
    BY <1>2, <2>1, <2>2 DEF Used
  <2>5. Values(ns2, <<n>> \o own) = <<ns2[n][2]>> \o Values(ns2, own)
    BY <1>1, <2>1, <2>4, ValuesCons
  <2>6. OwnOf(ns2, d, l) = IF l = k THEN <<n>> \o own ELSE own
    BY <1>6 DEF own
  <2>7. Values(ns2, OwnOf(ns2, d, l)) = IF l = k THEN <<v>> \o Values(ns, own) ELSE Values(ns, own)
    BY <1>1, <2>3, <2>5, <2>6
  <2>8. QED BY <2>7 DEF own
<1>8. QED BY <1>7 DEF StackOf, Pushed

(* The stacks after the first node of a key has left its bucket. *)
LEMMA PopStack ==
  ASSUME NEW c \in [Chains -> Seq(Node)], Apart(c), NEW ns \in [Node -> Entry],
         NEW k \in Key, NEW i \in 1 .. Len(c[HashIndex(k)]), Filled(ns, c),
         NEW n \in Node, n = c[HashIndex(k)][i], ns[n][1] = k,
         \A j \in 1 .. Len(c[HashIndex(k)]) : j < i => ns[c[HashIndex(k)][j]][1] # k,
         NEW d, IsMoved(d, c, HashIndex(k), i, TSize), Apart(d),
         NEW ns2, Holds(ns2, ns, n, <<>>)
  PROVE  Popped(StackOf(ns2, d), StackOf(ns, c), k)
<1> DEFINE b == HashIndex(k)
<1>1. ns2[n] = <<>> /\ \A m \in Node : m # n => ns2[m] = ns[m]
  BY DEF Holds
<1>2. ASSUME NEW l \in Key
      PROVE  /\ \A m \in Node : m # n => (m \in HoldingOf(ns, l) <=> m \in HoldingOf(ns2, l))
             /\ n \notin HoldingOf(ns2, l)
             /\ HoldingOf(ns, l) \subseteq Used(ns)
  BY <1>1 DEF HoldingOf, Used
<1>3. b \in Chains /\ b # TSize /\ TSize \in Chains
  BY HashBucket, PointerFacts
<1>4. /\ d \in [Chains -> Seq(Node)] /\ IsDrop(d[b], c[b], i)
      /\ \A h \in Chains : h # TSize /\ h # b => d[h] = c[h]
  BY DEF IsMoved
<1>5. /\ \A h \in Chains : h # b => \A j \in 1 .. Len(c[h]) : c[h][j] \in Node /\ c[h][j] # n
      /\ \A j \in 1 .. Len(c[b]) : c[b][j] \in Node /\ (j # i => c[b][j] # n)
  BY <1>3 DEF Apart
<1>6. ns[n] # <<>> /\ n \in HoldingOf(ns, k) /\ \A l \in Key : l # k => n \notin HoldingOf(ns, l)
  BY <1>3 DEF Filled, Fits, HoldingOf
<1>7. \A j \in 1 .. Len(c[b]) : j < i => c[b][j] \notin HoldingOf(ns, k)
  BY DEF HoldingOf
<1>8. n = c[b][i] /\ i \in 1 .. Len(c[b]) /\ c[b] \in Seq(Node) /\ d[b] \in Seq(Node)
  BY <1>3, <1>4
<1> HIDE DEF b
<1>9. \A j \in 1 .. Len(c[b]) : j # i => \A l \in Key :
         c[b][j] \in HoldingOf(ns, l) <=> c[b][j] \in HoldingOf(ns2, l)
  BY <1>2, <1>5
<1>10. OwnOf(ns, c, k) # <<>> /\ OwnOf(ns2, d, k) = Tail(OwnOf(ns, c, k))
  <2> DEFINE s == c[b]
             t == d[b]
             T == HoldingOf(ns, k)
             T2 == HoldingOf(ns2, k)
  <2>1. /\ s \in Seq(Node) /\ t \in Seq(Node) /\ i \in 1 .. Len(s) /\ IsDrop(t, s, i) /\ s[i] \in T
        /\ \A j \in 1 .. Len(s) : j < i => s[j] \notin T
        /\ \A j \in 1 .. Len(s) : j # i => (s[j] \in T <=> s[j] \in T2)
    BY <1>4, <1>6, <1>7, <1>8, <1>9
  <2> HIDE DEF s, t, T, T2
  <2>2. IsTail(Among(t, T2), Among(s, T))
    BY <2>1, AmongDropFirst
  <2>3. QED BY <2>2 DEF IsTail, OwnOf, b, s, t, T, T2
<1>11. ASSUME NEW l \in Key, l # k
       PROVE  OwnOf(ns2, d, l) = OwnOf(ns, c, l)
  <2> DEFINE h == HashIndex(l)
  <2>1. h \in Chains /\ h # TSize /\ c[h] \in Seq(Node)
    BY HashBucket
  <2> HIDE DEF h
  <2>2. CASE h = b
    <3> DEFINE s == c[h]
               t == d[h]
               T == HoldingOf(ns, l)
               T2 == HoldingOf(ns2, l)
    <3>1. /\ s \in Seq(Node) /\ t \in Seq(Node) /\ i \in 1 .. Len(s) /\ IsDrop(t, s, i) /\ s[i] \notin T
          /\ \A j \in 1 .. Len(s) : j # i => (s[j] \in T <=> s[j] \in T2)
      BY <1>4, <1>6, <1>8, <1>9, <1>11, <2>2
    <3> HIDE DEF s, t, T, T2
    <3>2. Among(t, T2) = Among(s, T)
      BY <3>1, AmongDropOther
    <3>3. QED BY <3>2 DEF OwnOf, h, s, t, T, T2
  <2>3. CASE h # b
    <3>1. d[h] = c[h]
      BY <1>4, <2>1, <2>3
    <3>2. \A j \in 1 .. Len(c[h]) : c[h][j] \in HoldingOf(ns, l) <=> c[h][j] \in HoldingOf(ns2, l)
      BY <1>2, <1>5, <2>1, <2>3
    <3>3. Among(c[h], HoldingOf(ns2, l)) = Among(c[h], HoldingOf(ns, l))
      BY <2>1, <3>2, AmongSame
    <3>4. QED BY <3>1, <3>3 DEF OwnOf, h
  <2>4. QED BY <2>2, <2>3
<1>12. Values(ns2, OwnOf(ns2, d, k)) = Tail(Values(ns, OwnOf(ns, c, k))) /\ Values(ns, OwnOf(ns, c, k)) # <<>>
  <2> DEFINE own == OwnOf(ns, c, k)
             own2 == OwnOf(ns2, d, k)
  <2>1. own \in Seq(Node) /\ Range(own) \subseteq HoldingOf(ns, k)
    BY OwnFacts
  <2>2. own2 = Tail(own) /\ own # <<>>
    BY <1>10
  <2> HIDE DEF own, own2
  <2>3. Range(own) \subseteq Used(ns)
    BY <1>2, <2>1
  <2>4. Values(ns, own) # <<>> /\ Values(ns, Tail(own)) = Tail(Values(ns, own))
    BY <2>1, <2>2, <2>3, ValuesTail
  <2>5. Range(own2) \subseteq HoldingOf(ns2, k)
    BY <1>4, OwnFacts DEF own2
  <2>6. \A m \in Range(own2) : ns2[m] = ns[m]
    BY <1>1, <1>2, <2>5 DEF HoldingOf
  <2>7. Values(ns2, own2) = Values(ns, own2)
    BY <2>6, ValuesSame
  <2>8. QED BY <2>2, <2>4, <2>7 DEF own, own2
<1>13. ASSUME NEW l \in Key, l # k
       PROVE  Values(ns2, OwnOf(ns2, d, l)) = Values(ns, OwnOf(ns, c, l))
  <2> DEFINE own == OwnOf(ns, c, l)
  <2>1. Range(own) \subseteq HoldingOf(ns, l)
    BY OwnFacts
  <2> HIDE DEF own
  <2>2. \A m \in Range(own) : ns2[m] = ns[m]
    BY <1>1, <1>6, <1>13, <2>1 DEF HoldingOf
  <2>3. Values(ns2, own) = Values(ns, own)
    BY <2>2, ValuesSame
  <2>4. QED BY <1>11, <1>13, <2>3 DEF own
<1>14. StackOf(ns2, d) = [StackOf(ns, c) EXCEPT ![k] = Tail(@)]
  BY <1>12, <1>13 DEF StackOf
<1>15. StackOf(ns, c)[k] # <<>>
  BY <1>12 DEF StackOf
<1>16. QED BY <1>14, <1>15 DEF Popped

(* No more entries than nodes in use: every entry has a node of its own. *)
LEMMA EntriesBound ==
  ASSUME NEW c \in [Chains -> Seq(Node)], Apart(c), NEW ns \in [Node -> Entry], IsFiniteSet(Used(ns))
  PROVE  Map!Entries(StackOf(ns, c)) \in Nat /\ Map!Entries(StackOf(ns, c)) <= Cardinality(Used(ns))
<1> DEFINE own == [k \in Key |-> OwnOf(ns, c, k)]
           E == {e \in Key \X Nat : e[2] \in DOMAIN own[e[1]]}
           f == [e \in E |-> own[e[1]][e[2]]]
           s == StackOf(ns, c)
<1>1. ASSUME NEW k \in Key
      PROVE  /\ own[k] \in Seq(Node) /\ IsInjective(own[k]) /\ Range(own[k]) \subseteq HoldingOf(ns, k)
             /\ DOMAIN own[k] \subseteq Nat
  <2>1. own[k] = OwnOf(ns, c, k)
    OBVIOUS
  <2> HIDE DEF own
  <2>2. own[k] \in Seq(Node) /\ IsInjective(own[k]) /\ Range(own[k]) \subseteq HoldingOf(ns, k)
    BY <2>1, OwnFacts
  <2>3. QED BY <2>2
<1>2. DOMAIN s = Key /\ \A k \in Key : DOMAIN s[k] = DOMAIN own[k]
  BY DEF StackOf, Values
<1> HIDE DEF own, s
<1>3. UNION {{k} \X DOMAIN s[k] : k \in DOMAIN s} = E
  <2>1. UNION {{k} \X DOMAIN s[k] : k \in DOMAIN s} = UNION {{k} \X DOMAIN own[k] : k \in Key}
    BY <1>2
  <2>2. ASSUME NEW e \in UNION {{k} \X DOMAIN own[k] : k \in Key} PROVE e \in E
    <3>1. PICK k \in Key : e \in {k} \X DOMAIN own[k]
      OBVIOUS
    <3>2. QED BY <1>1, <3>1
  <2>3. ASSUME NEW e \in E PROVE e \in UNION {{k} \X DOMAIN own[k] : k \in Key}
    <3>1. e[1] \in Key /\ e \in {e[1]} \X DOMAIN own[e[1]]
      OBVIOUS
    <3>2. QED BY <3>1
  <2>4. QED BY <2>1, <2>2, <2>3
<1>4. \A e \in E : e[1] \in Key /\ e[2] \in DOMAIN own[e[1]] /\ e = <<e[1], e[2]>>
  OBVIOUS
<1>5. \A e \in E : f[e] = own[e[1]][e[2]] /\ f[e] \in HoldingOf(ns, e[1])
  BY <1>1, <1>4 DEF Range
<1>6. f \in [E -> Used(ns)]
  BY <1>5 DEF HoldingOf, Used
<1> HIDE DEF f, E
<1>7. ASSUME NEW e \in E, NEW g \in E, f[e] = f[g] PROVE e = g
  <2>1. e[1] = g[1]
    BY <1>5, <1>7 DEF HoldingOf
  <2>2. e[2] = g[2]
    BY <1>1, <1>4, <1>5, <1>7, <2>1 DEF IsInjective
  <2>3. QED BY <1>4, <2>1, <2>2
<1>8. f \in Injection(E, Used(ns))
  BY <1>6, <1>7 DEF Injection, IsInjective
<1>9. IsFiniteSet(E) /\ Cardinality(E) <= Cardinality(Used(ns))
  BY <1>8, FS_Injection
<1>10. Cardinality(E) \in Nat
  BY <1>9, FS_CardinalityType
<1>11. Map!Cardinality(E) = Cardinality(E)
  BY DEF Map!Cardinality, Cardinality, Map!IsFiniteSet, IsFiniteSet
<1>12. Map!Entries(s) = Cardinality(E)
  BY <1>3, <1>11 DEF Map!Entries
<1>13. QED BY <1>9, <1>10, <1>12 DEF s

(* The stacks before and after the steps of the table. *)
LEMMA InitStack == Init => Stack = [k \in Key |-> <<>>]
<1> SUFFICES ASSUME Init PROVE Stack = [k \in Key |-> <<>>]
  OBVIOUS
<1>1. Inv
  BY InitInv
<1>2. PICK c : Shaped(c)
  BY <1>1 DEF Inv
<1>3. c \in [Chains -> Seq(Node)] /\ Apart(c) /\ nodes = [n \in Node |-> <<>>] /\ Stack = StackOf(nodes, c)
  BY <1>1, <1>2, ShapedChains, StackIs DEF Inv, Init
<1>4. QED BY <1>3, EmptyStack

(* Reset empties all stacks. *)
LEMMA ResetStack == ASSUME Inv, Reset PROVE Stack' = [k \in Key |-> <<>>]
<1>1. Inv'
  BY ResetInv
<1>2. PICK c : Shaped(c)'
  BY <1>1 DEF Inv
<1>3. c \in [Chains -> Seq(Node)] /\ Apart(c)
  BY <1>2 DEF Shaped, Heap
<1>4. Stack' = StackOf(nodes', c) /\ nodes' = [n \in Node |-> <<>>]
  BY <1>1, <1>2, NextStackIs DEF Inv, Reset
<1>5. QED BY <1>3, <1>4, EmptyStack

(* Insert finds room for one more entry and puts the value in front. *)
LEMMA InsertStack ==
  ASSUME Inv, NEW k \in Key, NEW v \in Value, Insert(k, v)
  PROVE  Map!Entries(Stack) < FSize /\ Stack' = [Stack EXCEPT ![k] = <<v>> \o @]
<1> DEFINE n == freelist
<1>1. PICK c : Shaped(c)
  BY DEF Inv
<1>2. freelist # Null /\ nodes' = [nodes EXCEPT ![n] = <<k, v>>]
  BY DEF Insert
<1>3. 1 \in 1 .. Len(c[TSize]) /\ c[TSize][1] = n /\ n \in Node /\ nodes[n] = <<>>
  BY <1>1, <1>2, InsertNode
<1>4. c \in [Chains -> Seq(Node)] /\ Apart(c) /\ nodes \in [Node -> Entry]
  BY <1>1, ShapedChains DEF Inv, TypeOK, Entry
<1>5. HashIndex(k) \in Chains /\ HashIndex(k) # TSize /\ TSize \in Chains
  BY HashBucket, PointerFacts
<1> HIDE DEF n
<1>6. PICK d : IsMoved(d, c, TSize, 1, HashIndex(k))
  BY <1>3, <1>4, <1>5, MoveExists
<1>7. Shaped(d)' /\ TypeOK'
  BY <1>1, <1>6, InsertShape, InsertInv DEF Inv
<1>8. Stack = StackOf(nodes, c) /\ Stack' = StackOf(nodes', d)
  BY <1>1, <1>7, StackIs, NextStackIs DEF Inv
<1>9. Pushed(StackOf(nodes', d), StackOf(nodes, c), k, v)
  <2>1. Holds(nodes', nodes, n, <<k, v>>)
    BY <1>2 DEF Holds
  <2>2. QED BY <1>3, <1>4, <1>6, <2>1, PushStack
<1>10. Map!Entries(StackOf(nodes, c)) \in Nat /\ Map!Entries(StackOf(nodes, c)) <= size
  BY <1>4, EntriesBound DEF Inv, Counted
<1>11. size \in 0 .. FSize - 1 /\ FSize \in Nat
  BY <1>3, FreeNode, PointerFacts
<1>12. Map!Entries(Stack) < FSize
  BY <1>8, <1>10, <1>11
<1>13. QED BY <1>8, <1>9, <1>12 DEF Pushed

(* Remove finds a value and uncovers the one below. *)
LEMMA RemoveStack ==
  ASSUME Inv, NEW k \in Key, Remove(k)
  PROVE  Stack[k] # <<>> /\ Stack' = [Stack EXCEPT ![k] = Tail(@)]
<1>1. PICK c : Shaped(c)
  BY DEF Inv
<1> DEFINE b == HashIndex(k)
           i == Find(k)
           n == c[b][i]
<1>2. /\ c \in [Chains -> Seq(Node)] /\ Apart(c) /\ Filled(nodes, c) /\ nodes \in [Node -> Entry]
      /\ Chain(pNext, lookuptable[b]) = c[b]
  BY <1>1, ShapedChains, HashBucket DEF Inv, TypeOK, Entry
<1>3. i # 0 /\ nodes' = [nodes EXCEPT ![n] = <<>>]
  BY <1>2 DEF Remove
<1>4. i \in 1 .. Len(c[b]) /\ nodes[n][1] = k /\ \A j \in 1 .. Len(c[b]) : j < i => nodes[c[b][j]][1] # k
  BY <1>1, <1>3, FindFirst DEF Inv
<1>5. b \in Chains /\ b # TSize /\ TSize \in Chains
  BY HashBucket, PointerFacts
<1> HIDE DEF i
<1>6. PICK d : IsMoved(d, c, b, i, TSize)
  BY <1>2, <1>4, <1>5, MoveExists
<1>7. Shaped(d)' /\ TypeOK'
  BY <1>1, <1>6, RemoveShape, RemoveInv DEF Inv, i
<1>8. Stack = StackOf(nodes, c) /\ Stack' = StackOf(nodes', d)
  BY <1>1, <1>7, StackIs, NextStackIs DEF Inv
<1>9. n \in Node /\ Apart(d)
  BY <1>2, <1>4, <1>5, <1>7 DEF Shaped, Heap
<1>10. Popped(StackOf(nodes', d), StackOf(nodes, c), k)
  <2>1. n = c[HashIndex(k)][i] /\ IsMoved(d, c, HashIndex(k), i, TSize) /\ Holds(nodes', nodes, n, <<>>)
    BY <1>3, <1>6 DEF Holds
  <2> HIDE DEF n
  <2>2. QED BY <1>2, <1>4, <1>9, <2>1, PopStack
<1>11. QED BY <1>8, <1>10 DEF Popped

(* The index is not part of the stacks. *)
LEMMA SameStack ==
  ASSUME UNCHANGED <<nodes, pNext, lookuptable>>
  PROVE  Stack' = Stack
BY DEF Stack, Holding

(***************************************************************************)
(* The table implements MultiMap for every capacity, width and hash        *)
(* function: an Insert that finds a free node finds room in the map and    *)
(* puts its value in front of those of its key; Remove takes the newest    *)
(* value of the key and no other, however the key's nodes lie among those  *)
(* of other keys in the bucket; Reset empties the map; and LookupByIndex   *)
(* (fasthash.h:239, :284, :316, :368) does not touch it.                   *)
(***************************************************************************)
THEOREM TableImplementsMultiMap == Spec => ImplementsMultiMap
<1>1. Init => Map!Init
  BY InitStack DEF Map!Init
<1>2. ASSUME Inv, [Next]_vars PROVE [Map!Next]_Stack
  <2>1. ASSUME Reset PROVE Map!Next
    BY <1>2, <2>1, ResetStack DEF Map!Next, Map!Reset
  <2>2. ASSUME NEW k \in Key, NEW v \in Value, Insert(k, v) PROVE Map!Next
    <3>1. Map!Insert(k, v)
      BY <1>2, <2>2, InsertStack DEF Map!Insert
    <3>2. QED BY <3>1 DEF Map!Next
  <2>3. ASSUME NEW k \in Key, Remove(k) PROVE Map!Next
    <3>1. Map!Remove(k)
      BY <1>2, <2>3, RemoveStack DEF Map!Remove
    <3>2. QED BY <3>1 DEF Map!Next
  <2>4. ASSUME ReIndex PROVE Stack' = Stack
    BY <2>4, SameStack DEF ReIndex
  <2>5. ASSUME UNCHANGED vars PROVE Stack' = Stack
    BY <2>5, SameStack DEF vars
  <2>6. QED BY <1>2, <2>1, <2>2, <2>3, <2>4, <2>5 DEF Next
<1>3. QED BY <1>1, <1>2, InvariantHolds, PTL DEF Spec, ImplementsMultiMap, Map!Spec
=============================================================================
