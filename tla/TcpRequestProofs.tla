-------------------------- MODULE TcpRequestProofs --------------------------
(***************************************************************************)
(* TLAPS proofs about TcpRequest: what the reader computes and what the    *)
(* server authorises, for any format, any messages, any cut of the stream  *)
(* and any number of exchanges.                                            *)
(***************************************************************************)
EXTENDS TcpRequest, BoundedInduction

Attribute == [type : AttributeType, len : Nat]

(* What the reader may be given. *)
OnWire(m) == m.header \in BOOLEAN /\ m.length \in Nat /\ m.attrs \in Seq(Attribute)

-----------------------------------------------------------------------------
(* An attribute takes at least the bytes of its header. *)
LEMMA AttributeBytesFacts ==
  ASSUME NEW a \in Attribute
  PROVE  AttributeBytes(a) \in Nat /\ AttributeBytes(a) > 0
<1>1. /\ AttrHeaderSize \in Nat \ {0} /\ Align \in Nat \ {0} /\ a.len \in Nat
  BY FormatAssumption DEF Attribute
<1>2. (a.len % Align) \in 0 .. Align - 1
  BY <1>1
<1>3. (IF a.len % Align = 0 THEN 0 ELSE Align - (a.len % Align)) \in Nat
  BY <1>1, <1>2
<1>4. QED BY <1>1, <1>3 DEF AttributeBytes

(* The prefix sums that BytesUpTo defines. *)
LEMMA BytesUpToFacts ==
  ASSUME NEW attrs \in Seq(Attribute)
  PROVE  LET S == BytesUpTo(attrs) IN
         /\ S \in [0 .. Len(attrs) -> Nat] /\ S[0] = 0
         /\ \A n \in 1 .. Len(attrs) : S[n] = S[n - 1] + AttributeBytes(attrs[n])
<1> DEFINE N == Len(attrs)
           Def(f) == f = [n \in 0 .. N |-> IF n = 0 THEN 0 ELSE f[n - 1] + AttributeBytes(attrs[n])]
           step == [p \in (1 .. N) \X Nat |-> p[2] + AttributeBytes(attrs[p[1]])]
<1>1. N \in Nat /\ \A n \in 1 .. N : attrs[n] \in Attribute
  OBVIOUS
<1>2. \A n \in 1 .. N : AttributeBytes(attrs[n]) \in Nat
  BY <1>1, AttributeBytesFacts
<1>3. step \in Steps(N, Nat)
  BY <1>2 DEF Steps
<1>4. PICK f : Follows(f, N, Nat, 0, step)
  <2>1. 0 \in Nat /\ N \in Nat
    BY <1>1
  <2> HIDE DEF step, N
  <2>2. QED BY <1>3, <2>1, StepFunction, Zenon
<1>5. \A n \in 1 .. N : f[n] = f[n - 1] + AttributeBytes(attrs[n])
  <2>1. \A n \in 1 .. N : n - 1 \in 0 .. N
    BY <1>1
  <2>2. \A n \in 1 .. N, v \in Nat : step[<<n, v>>] = v + AttributeBytes(attrs[n])
    OBVIOUS
  <2> HIDE DEF step, N
  <2>3. QED BY <1>4, <2>1, <2>2 DEF Follows
<1>6. Def(f)
  <2>1. \A n \in 0 .. N : n # 0 => n \in 1 .. N
    BY <1>1
  <2>2. \A n \in 0 .. N : f[n] = IF n = 0 THEN 0 ELSE f[n - 1] + AttributeBytes(attrs[n])
    BY <1>4, <1>5, <2>1 DEF Follows
  <2>3. QED BY <1>4, <2>2 DEF Follows
<1>7. BytesUpTo(attrs) = CHOOSE g : Def(g)
  BY DEF BytesUpTo
<1>8. Def(BytesUpTo(attrs))
  <2> HIDE DEF Def
  <2>1. QED BY <1>6, <1>7
<1> DEFINE S == BytesUpTo(attrs)
<1>9. /\ DOMAIN S = 0 .. N /\ S = [n \in 0 .. N |-> S[n]] /\ S[0] = 0
      /\ \A n \in 1 .. N : S[n] = S[n - 1] + AttributeBytes(attrs[n])
  <2>1. S = [n \in 0 .. N |-> IF n = 0 THEN 0 ELSE S[n - 1] + AttributeBytes(attrs[n])]
    BY <1>8
  <2>2. 0 \in 0 .. N /\ \A n \in 1 .. N : n \in 0 .. N /\ n # 0
    BY <1>1
  <2> HIDE DEF S, N
  <2>3. QED BY <2>1, <2>2
<1>10. \A n \in 0 .. N : S[n] \in Nat
  <2> DEFINE P == {n \in 0 .. N : S[n] \in Nat}
  <2>1. 0 \in P
    BY <1>1, <1>9
  <2>2. ASSUME NEW n \in 0 .. N - 1, n \in P
        PROVE  n + 1 \in P
    <3>1. n + 1 \in 1 .. N /\ n + 1 \in 0 .. N /\ (n + 1) - 1 = n
      BY <1>1
    <3>2. S[n + 1] = S[n] + AttributeBytes(attrs[n + 1])
      BY <1>9, <3>1
    <3>3. QED BY <1>2, <2>2, <3>1, <3>2
  <2> HIDE DEF P, N
  <2>3. \A n \in 0 .. N : n \in P
    BY <1>1, <2>1, <2>2, UpTo
  <2>4. QED BY <2>3 DEF P
<1>11. QED BY <1>9, <1>10

(* Where the loop of ReadBody is. *)
Progress == [consumed : Nat, ok : BOOLEAN]

(* An iteration keeps the type of the progress. *)
LEMMA ReadAttributeType ==
  ASSUME NEW m, OnWire(m), NEW n \in 1 .. Len(m.attrs), NEW b \in Progress
  PROVE  ReadAttribute(m, n, b) \in Progress
<1>1. AttributeBytes(m.attrs[n]) \in Nat
  BY AttributeBytesFacts DEF OnWire
<1>2. b.consumed \in Nat /\ b.consumed + AttributeBytes(m.attrs[n]) \in Nat
  BY <1>1 DEF Progress
<1>3. /\ [consumed |-> b.consumed + AttributeBytes(m.attrs[n]), ok |-> TRUE] \in Progress
      /\ [consumed |-> b.consumed, ok |-> FALSE] \in Progress
  BY <1>2 DEF Progress
<1>4. QED BY <1>3 DEF ReadAttribute

(* The iterations that ReadAttributes defines. *)
LEMMA ReadAttributesFacts ==
  ASSUME NEW m, OnWire(m)
  PROVE  LET B == ReadAttributes(m) IN
         /\ \A n \in 0 .. Len(m.attrs) : B[n] \in Progress
         /\ B[0] = [consumed |-> HeaderSize, ok |-> TRUE]
         /\ \A n \in 1 .. Len(m.attrs) : B[n] = ReadAttribute(m, n, B[n - 1])
<1> DEFINE N == Len(m.attrs)
           first == [consumed |-> HeaderSize, ok |-> TRUE]
           Def(f) == f = [n \in 0 .. N |-> IF n = 0 THEN [consumed |-> HeaderSize, ok |-> TRUE]
                                           ELSE ReadAttribute(m, n, f[n - 1])]
           step == [p \in (1 .. N) \X Progress |-> ReadAttribute(m, p[1], p[2])]
<1>1. N \in Nat /\ first \in Progress
  BY FormatAssumption DEF OnWire, Progress
<1>2. \A n \in 1 .. N, b \in Progress : ReadAttribute(m, n, b) \in Progress
  BY ReadAttributeType
<1>3. step \in Steps(N, Progress)
  BY <1>2 DEF Steps
<1>4. PICK f : Follows(f, N, Progress, first, step)
  <2> HIDE DEF step, N, first
  <2>1. QED BY <1>1, <1>3, StepFunction, Zenon
<1>5. \A n \in 1 .. N : f[n] = ReadAttribute(m, n, f[n - 1])
  <2>1. \A n \in 1 .. N : n - 1 \in 0 .. N
    BY <1>1
  <2>2. \A n \in 1 .. N, v \in Progress : step[<<n, v>>] = ReadAttribute(m, n, v)
    OBVIOUS
  <2> HIDE DEF step, N
  <2>3. QED BY <1>4, <2>1, <2>2 DEF Follows
<1>6. Def(f)
  <2>1. \A n \in 0 .. N : n # 0 => n \in 1 .. N
    BY <1>1
  <2>2. \A n \in 0 .. N : f[n] = IF n = 0 THEN first ELSE ReadAttribute(m, n, f[n - 1])
    <3> HIDE DEF N, first
    <3>1. QED BY <1>4, <1>5, <2>1 DEF Follows
  <2>3. QED BY <1>4, <2>2 DEF Follows
<1>7. ReadAttributes(m) = CHOOSE g : Def(g)
  BY DEF ReadAttributes
<1>8. Def(ReadAttributes(m))
  <2> HIDE DEF Def
  <2>1. QED BY <1>6, <1>7
<1> DEFINE B == ReadAttributes(m)
<1>9. B[0] = first /\ \A n \in 1 .. N : B[n] = ReadAttribute(m, n, B[n - 1])
  <2>1. B = [n \in 0 .. N |-> IF n = 0 THEN first ELSE ReadAttribute(m, n, B[n - 1])]
    BY <1>8
  <2>2. 0 \in 0 .. N /\ \A n \in 1 .. N : n \in 0 .. N /\ n # 0
    BY <1>1
  <2> HIDE DEF B, N, first
  <2>3. QED BY <2>1, <2>2
<1>10. \A n \in 0 .. N : B[n] \in Progress
  <2> DEFINE P == {n \in 0 .. N : B[n] \in Progress}
  <2>1. 0 \in P
    BY <1>1, <1>9
  <2>2. ASSUME NEW n \in 0 .. N - 1, n \in P
        PROVE  n + 1 \in P
    <3>1. n + 1 \in 1 .. N /\ n + 1 \in 0 .. N /\ (n + 1) - 1 = n
      BY <1>1
    <3>2. B[n + 1] = ReadAttribute(m, n + 1, B[n])
      BY <1>9, <3>1
    <3>3. QED BY <1>2, <2>2, <3>1, <3>2
  <2> HIDE DEF P, N
  <2>3. \A n \in 0 .. N : n \in P
    BY <1>1, <2>1, <2>2, UpTo
  <2>4. QED BY <2>3 DEF P
<1>11. QED BY <1>9, <1>10

(* The prefix sums grow strictly. *)
LEMMA BytesGrow ==
  ASSUME NEW attrs \in Seq(Attribute), NEW i \in 0 .. Len(attrs)
  PROVE  \A j \in 0 .. Len(attrs) : i < j => BytesUpTo(attrs)[i] < BytesUpTo(attrs)[j]
<1> DEFINE N == Len(attrs)
           S == BytesUpTo(attrs)
           P == {j \in 0 .. N : i < j => S[i] < S[j]}
<1>1. /\ N \in Nat /\ \A n \in 0 .. N : S[n] \in Nat
      /\ \A n \in 1 .. N : S[n] = S[n - 1] + AttributeBytes(attrs[n])
  BY BytesUpToFacts
<1>2. \A n \in 1 .. N : AttributeBytes(attrs[n]) \in Nat /\ AttributeBytes(attrs[n]) > 0
  BY AttributeBytesFacts
<1> HIDE DEF S
<1>3. 0 \in P
  BY <1>1
<1>4. ASSUME NEW n \in 0 .. N - 1, n \in P
      PROVE  n + 1 \in P
  <2>1. n + 1 \in 1 .. N /\ n + 1 \in 0 .. N /\ (n + 1) - 1 = n /\ n \in 0 .. N
    BY <1>1
  <2>2. S[n + 1] = S[n] + AttributeBytes(attrs[n + 1])
    BY <1>1, <2>1
  <2>3. /\ S[n] \in Nat /\ S[i] \in Nat /\ AttributeBytes(attrs[n + 1]) \in Nat
        /\ AttributeBytes(attrs[n + 1]) > 0
    BY <1>1, <1>2, <2>1
  <2>4. i < n + 1 => i < n \/ i = n
    OBVIOUS
  <2>5. i < n + 1 => S[i] < S[n + 1]
    BY <1>4, <2>2, <2>3, <2>4
  <2>6. QED BY <2>1, <2>5
<1> HIDE DEF P, N
<1>5. \A n \in 0 .. N : n \in P
  BY <1>1, <1>3, <1>4, UpTo
<1>6. QED BY <1>5 DEF P, N, S

(***************************************************************************)
(* The loop of ReadBody accepts a body exactly when some number of whole   *)
(* attributes, each within its limit, fill it.                             *)
(***************************************************************************)
LEMMA ReadBodyExact ==
  ASSUME NEW m, OnWire(m)
  PROVE  ReadBody(m) <=> WellFormed(m)
<1> DEFINE N == Len(m.attrs)
           S == BytesUpTo(m.attrs)
           B == ReadAttributes(m)
           total == HeaderSize + m.length
           Small(j) == \A i \in 1 .. j : m.attrs[i].len <= MaxAttributeSize
<1>1. /\ N \in Nat /\ m.length \in Nat /\ HeaderSize \in Nat /\ total \in Nat
      /\ MaxAttributeSize \in Nat /\ MaxNumAttributes \in Nat
      /\ \A n \in 1 .. N : m.attrs[n].len \in Nat
  <2>1. m.length \in Nat /\ m.attrs \in Seq(Attribute)
    BY DEF OnWire
  <2>2. N \in Nat /\ \A n \in 1 .. N : m.attrs[n] \in Attribute
    BY <2>1
  <2>3. \A a \in Attribute : a.len \in Nat
    BY DEF Attribute
  <2>4. HeaderSize \in Nat /\ MaxAttributeSize \in Nat /\ MaxNumAttributes \in Nat
    BY FormatAssumption
  <2> HIDE DEF N
  <2>5. QED BY <2>1, <2>2, <2>3, <2>4
<1>2. /\ \A n \in 0 .. N : S[n] \in Nat
      /\ S[0] = 0 /\ \A n \in 1 .. N : S[n] = S[n - 1] + AttributeBytes(m.attrs[n])
  BY BytesUpToFacts DEF OnWire
<1>3. \A i, j \in 0 .. N : i < j => S[i] < S[j]
  BY BytesGrow DEF OnWire
<1>4. /\ \A n \in 0 .. N : B[n].consumed \in Nat /\ B[n].ok \in BOOLEAN
      /\ B[0].consumed = HeaderSize /\ B[0].ok = TRUE
      /\ \A n \in 1 .. N : B[n] = ReadAttribute(m, n, B[n - 1])
  <2>1. /\ \A n \in 0 .. N : B[n] \in Progress
        /\ B[0] = [consumed |-> HeaderSize, ok |-> TRUE]
        /\ \A n \in 1 .. N : B[n] = ReadAttribute(m, n, B[n - 1])
    BY ReadAttributesFacts
  <2>2. \A n \in 0 .. N : B[n].consumed \in Nat /\ B[n].ok \in BOOLEAN
    BY <2>1 DEF Progress
  <2>3. B[0].consumed = HeaderSize /\ B[0].ok = TRUE
    BY <2>1
  <2>4. QED BY <2>1, <2>2, <2>3
<1>5. ASSUME NEW n \in 0 .. N - 1
      PROVE  /\ n + 1 \in 1 .. N /\ n + 1 \in 0 .. N /\ n \in 0 .. N
             /\ S[n + 1] = S[n] + AttributeBytes(m.attrs[n + 1])
             /\ B[n + 1] = ReadAttribute(m, n + 1, B[n])
  <2>1. n + 1 \in 1 .. N /\ n + 1 \in 0 .. N /\ n \in 0 .. N /\ (n + 1) - 1 = n
    BY <1>1
  <2>2. QED BY <1>2, <1>4, <2>1
<1>6. \A n \in 1 .. N : AttributeBytes(m.attrs[n]) \in Nat
  BY AttributeBytesFacts DEF OnWire
(* One iteration, by what it finds. *)
<1>7. ASSUME NEW n \in 0 .. N - 1
      PROVE  /\ ~B[n].ok \/ B[n].consumed >= total => B[n + 1] = B[n]
             /\ B[n].ok /\ B[n].consumed < total =>
                  IF /\ m.attrs[n + 1].len <= MaxAttributeSize /\ n + 1 <= MaxNumAttributes
                     /\ B[n].consumed + AttributeBytes(m.attrs[n + 1]) <= total
                  THEN /\ B[n + 1].consumed = B[n].consumed + AttributeBytes(m.attrs[n + 1])
                       /\ B[n + 1].ok
                  ELSE B[n + 1].consumed = B[n].consumed /\ ~B[n + 1].ok
  <2>1. B[n + 1] = ReadAttribute(m, n + 1, B[n]) /\ B[n].consumed \in Nat
    BY <1>4, <1>5
  <2>2. CASE ~B[n].ok \/ B[n].consumed >= total
    <3>1. B[n + 1] = B[n]
      BY <2>1, <2>2 DEF ReadAttribute
    <3>2. ~(B[n].ok /\ B[n].consumed < total)
      BY <1>1, <2>1, <2>2
    <3>3. QED BY <3>1, <3>2
  <2>3. CASE B[n].ok /\ ~(B[n].consumed >= total)
    <3>1. CASE /\ m.attrs[n + 1].len <= MaxAttributeSize /\ n + 1 <= MaxNumAttributes
               /\ B[n].consumed + AttributeBytes(m.attrs[n + 1]) <= total
      <4>1. B[n + 1] = [consumed |-> B[n].consumed + AttributeBytes(m.attrs[n + 1]), ok |-> TRUE]
        BY <2>1, <2>3, <3>1 DEF ReadAttribute
      <4>2. B[n + 1].consumed = B[n].consumed + AttributeBytes(m.attrs[n + 1]) /\ B[n + 1].ok
        BY <4>1
      <4>3. QED BY <2>3, <3>1, <4>2
    <3>2. CASE ~ /\ m.attrs[n + 1].len <= MaxAttributeSize /\ n + 1 <= MaxNumAttributes
                 /\ B[n].consumed + AttributeBytes(m.attrs[n + 1]) <= total
      <4>1. B[n + 1] = [consumed |-> B[n].consumed, ok |-> FALSE]
        BY <2>1, <2>3, <3>2 DEF ReadAttribute
      <4>2. B[n + 1].consumed = B[n].consumed /\ ~B[n + 1].ok
        BY <4>1
      <4>3. QED BY <2>3, <3>2, <4>2
    <3>3. QED BY <3>1, <3>2
  <2>4. QED BY <2>2, <2>3
<1> HIDE DEF N, S, B, total
<1>8. ASSUME ReadBody(m) PROVE WellFormed(m)
  <2> DEFINE At(n, j) == /\ j <= MaxNumAttributes /\ j <= n /\ B[n].consumed = HeaderSize + S[j]
                         /\ Small(j)
                         /\ B[n].ok /\ B[n].consumed < total => j = n
             P == {n \in 0 .. N : \E j \in 0 .. N : At(n, j)}
  <2>1. 0 \in P
    <3>1. At(0, 0)
      BY <1>1, <1>2, <1>4
    <3>2. 0 \in 0 .. N
      BY <1>1
    <3>3. QED BY <3>1, <3>2
  <2>2. ASSUME NEW n \in 0 .. N - 1, n \in P
        PROVE  n + 1 \in P
    <3>1. PICK j \in 0 .. N : At(n, j)
      BY <2>2
    <3>2. n + 1 \in 1 .. N /\ n + 1 \in 0 .. N /\ n \in 0 .. N /\ n \in Nat
      BY <1>1, <1>5
    <3>3. CASE ~B[n].ok \/ B[n].consumed >= total
      <4>1. B[n + 1] = B[n]
        BY <1>7, <3>3
      <4>2. ~(B[n].ok /\ B[n].consumed < total) /\ j <= n + 1
        BY <1>1, <1>4, <3>1, <3>2, <3>3
      <4>3. At(n + 1, j)
        BY <3>1, <4>1, <4>2
      <4>4. QED BY <3>2, <4>3
    <3>4. CASE B[n].ok /\ B[n].consumed < total
      <4>1. j = n /\ B[n].consumed = HeaderSize + S[n]
        BY <3>1, <3>4
      <4>2. CASE /\ m.attrs[n + 1].len <= MaxAttributeSize /\ n + 1 <= MaxNumAttributes
                 /\ B[n].consumed + AttributeBytes(m.attrs[n + 1]) <= total
        <5>1. B[n + 1].consumed = B[n].consumed + AttributeBytes(m.attrs[n + 1])
          BY <1>7, <3>4, <4>2
        <5>2. B[n + 1].consumed = HeaderSize + S[n + 1]
          <6>1. S[n + 1] = S[n] + AttributeBytes(m.attrs[n + 1]) /\ S[n] \in Nat
                /\ AttributeBytes(m.attrs[n + 1]) \in Nat
            BY <1>2, <1>5, <1>6, <3>2
          <6>2. QED BY <1>1, <4>1, <5>1, <6>1
        <5>3. Small(n + 1)
          <6>1. \A i \in 1 .. n + 1 : i \in 1 .. n \/ i = n + 1
            BY <3>2
          <6>2. QED BY <3>1, <4>1, <4>2, <6>1
        <5>4. At(n + 1, n + 1)
          BY <3>2, <4>2, <5>2, <5>3
        <5>5. QED BY <3>2, <5>4
      <4>3. CASE ~ /\ m.attrs[n + 1].len <= MaxAttributeSize /\ n + 1 <= MaxNumAttributes
                   /\ B[n].consumed + AttributeBytes(m.attrs[n + 1]) <= total
        <5>1. B[n + 1].consumed = B[n].consumed /\ ~B[n + 1].ok
          BY <1>7, <3>4, <4>3
        <5>2. At(n + 1, n)
          BY <3>1, <3>2, <4>1, <5>1
        <5>3. QED BY <3>2, <5>2
      <4>4. QED BY <4>2, <4>3
    <3>5. QED BY <1>1, <1>4, <3>2, <3>3, <3>4
  <2>3. N \in P
    <3>1. N \in 0 .. N
      BY <1>1
    <3> HIDE DEF P
    <3>2. QED BY <1>1, <2>1, <2>2, <3>1, UpTo
  <2>4. PICK j \in 0 .. N : At(N, j)
    BY <2>3
  <2>5. B[N].consumed = total
    BY <1>8 DEF ReadBody, B, N, total
  <2>6. S[j] = m.length
    BY <1>1, <1>2, <2>4, <2>5 DEF total
  <2>7. j <= MaxNumAttributes /\ \A i \in 1 .. j : m.attrs[i].len <= MaxAttributeSize
    BY <2>4
  <2>8. QED BY <2>6, <2>7 DEF WellFormed, S, N
<1>9. ASSUME WellFormed(m) PROVE ReadBody(m)
  <2>1. PICK k \in 0 .. N : /\ k <= MaxNumAttributes /\ S[k] = m.length /\ Small(k)
    BY <1>9 DEF WellFormed, S, N
  <2> DEFINE P == {n \in 0 .. N : /\ n <= k => B[n].ok /\ B[n].consumed = HeaderSize + S[n]
                                  /\ k <= n => B[n].consumed = total}
  <2>2. total = HeaderSize + S[k]
    BY <2>1 DEF total
  <2>3. 0 \in P
    <3>1. 0 \in 0 .. N /\ (k <= 0 => k = 0)
      BY <1>1
    <3>2. HeaderSize + 0 = HeaderSize
      BY <1>1
    <3>3. QED BY <1>2, <1>4, <2>2, <3>1, <3>2
  <2>4. ASSUME NEW n \in 0 .. N - 1, n \in P
        PROVE  n + 1 \in P
    <3>1. n + 1 \in 1 .. N /\ n + 1 \in 0 .. N /\ n \in 0 .. N /\ n \in Nat /\ k \in Nat
      BY <1>1, <1>5
    <3>2. CASE k <= n
      <4>1. B[n].consumed = total
        BY <2>4, <3>2
      <4>2. B[n + 1] = B[n]
        BY <1>1, <1>7, <4>1
      <4>3. ~(n + 1 <= k)
        BY <3>1, <3>2
      <4>4. QED BY <3>1, <4>1, <4>2, <4>3
    <3>3. CASE n < k
      <4>1. n + 1 <= k /\ n <= k /\ n + 1 \in 1 .. k /\ (k <= n + 1 => k = n + 1)
        BY <3>1, <3>3
      <4>2. B[n].ok /\ B[n].consumed = HeaderSize + S[n]
        BY <2>4, <4>1
      <4>3. S[n] < S[k] /\ (n + 1 < k => S[n + 1] < S[k])
        BY <1>3, <3>1, <3>3
      <4>4. /\ S[n] \in Nat /\ S[n + 1] \in Nat /\ S[k] \in Nat
            /\ S[n + 1] = S[n] + AttributeBytes(m.attrs[n + 1])
            /\ AttributeBytes(m.attrs[n + 1]) \in Nat
        BY <1>2, <1>5, <1>6, <3>1
      <4>5. n + 1 < k \/ n + 1 = k
        BY <3>1, <4>1
      <4>6. S[n + 1] <= S[k]
        BY <4>3, <4>4, <4>5
      <4>7. /\ B[n].consumed < total
            /\ B[n].consumed + AttributeBytes(m.attrs[n + 1]) = HeaderSize + S[n + 1]
            /\ B[n].consumed + AttributeBytes(m.attrs[n + 1]) <= total
        BY <1>1, <2>2, <4>2, <4>3, <4>4, <4>6
      <4>8. m.attrs[n + 1].len <= MaxAttributeSize /\ n + 1 <= MaxNumAttributes
        BY <1>1, <2>1, <3>1, <4>1
      <4>9. B[n + 1].consumed = HeaderSize + S[n + 1] /\ B[n + 1].ok
        BY <1>7, <4>2, <4>7, <4>8
      <4>10. QED BY <2>2, <3>1, <4>1, <4>9
    <3>4. QED BY <3>1, <3>2, <3>3
  <2>5. N \in P
    <3>1. N \in 0 .. N
      BY <1>1
    <3> HIDE DEF P
    <3>2. QED BY <1>1, <2>3, <2>4, <3>1, UpTo
  <2>6. k <= N
    BY <1>1
  <2>7. B[N].consumed = total
    BY <2>5, <2>6
  <2>8. QED BY <2>7 DEF ReadBody, B, N, total
<1>10. QED BY <1>8, <1>9

-----------------------------------------------------------------------------
(* The arms of Verdict, one implication each. *)
LEMMA VerdictArms ==
  ASSUME NEW m, OnWire(m), NEW n \in Nat
  PROVE  /\ n < HeaderSize => Verdict(m, n) = "HeaderNotRead"
         /\ n >= HeaderSize /\ ~ReadHeader(m) => Verdict(m, n) = "ParseError"
         /\ n >= HeaderSize /\ ReadHeader(m) /\ n < HeaderSize + m.length =>
              Verdict(m, n) = "HeaderValidated"
         /\ n >= HeaderSize + m.length /\ ReadHeader(m) =>
              Verdict(m, n) = IF n = HeaderSize + m.length /\ WellFormed(m)
                              THEN "BodyValidated" ELSE "ParseError"
<1>1. HeaderSize \in Nat /\ m.length \in Nat
  BY FormatAssumption DEF OnWire
<1>2. CASE n < HeaderSize
  BY <1>1, <1>2 DEF Verdict
<1>3. CASE n >= HeaderSize /\ ~ReadHeader(m)
  BY <1>1, <1>3 DEF Verdict
<1>4. CASE n >= HeaderSize /\ ReadHeader(m) /\ n < HeaderSize + m.length
  BY <1>1, <1>4 DEF Verdict
<1>5. CASE n >= HeaderSize + m.length /\ ReadHeader(m)
  <2>1. ~(n < HeaderSize) /\ ~(n < HeaderSize + m.length)
    BY <1>1, <1>5
  <2>2. QED BY <1>5, <2>1 DEF Verdict
<1>6. QED BY <1>1, <1>2, <1>3, <1>4, <1>5

(* A message without attributes in its body is well formed. *)
LEMMA EmptyWellFormed ==
  ASSUME NEW m, OnWire(m), m.length = 0
  PROVE  WellFormed(m)
<1>1. Len(m.attrs) \in Nat /\ MaxNumAttributes \in Nat
  BY FormatAssumption DEF OnWire
<1>2. BytesUpTo(m.attrs)[0] = 0
  BY BytesUpToFacts DEF OnWire
<1>3. 0 \in 0 .. Len(m.attrs) /\ 0 <= MaxNumAttributes /\ 1 .. 0 = {}
  BY <1>1
<1>4. QED BY <1>2, <1>3 DEF WellFormed

(* What the reader asks for while it wants more. *)
LEMMA NeededFits ==
  ASSUME NEW m, OnWire(m), NEW r, r.size \in Nat, r.state = Verdict(m, r.size)
  PROVE  /\ HowManyBytesNeeded(r, m) \in 0 .. MaxMessageSize
         /\ r.state \in {"HeaderNotRead", "HeaderValidated"} => HowManyBytesNeeded(r, m) # 0
         /\ r.state \in {"HeaderNotRead", "HeaderValidated", "BodyValidated", "ParseError"}
         /\ r.state = "HeaderNotRead" => r.size < HeaderSize
         /\ r.state = "HeaderValidated" =>
              /\ ReadHeader(m)
              /\ r.size >= HeaderSize /\ r.size < HeaderSize + m.length
<1>1. /\ HeaderSize \in Nat /\ MaxMessageSize \in Nat /\ HeaderSize <= MaxMessageSize
      /\ m.length \in Nat
  BY FormatAssumption DEF OnWire
<1>2. CASE r.size < HeaderSize
  <2>1. r.state = "HeaderNotRead"
    BY <1>2, VerdictArms
  <2>2. HowManyBytesNeeded(r, m) = HeaderSize - r.size
    BY <2>1 DEF HowManyBytesNeeded
  <2>3. QED BY <1>1, <1>2, <2>1, <2>2
<1>3. CASE r.size >= HeaderSize /\ ReadHeader(m) /\ r.size < HeaderSize + m.length
  <2>1. r.state = "HeaderValidated"
    BY <1>3, VerdictArms
  <2>2. HowManyBytesNeeded(r, m) = m.length + HeaderSize - r.size
    BY <2>1 DEF HowManyBytesNeeded
  <2>3. m.length <= MaxMessageSize
    BY <1>3 DEF ReadHeader
  <2>4. QED BY <1>1, <1>3, <2>1, <2>2, <2>3
<1>4. CASE r.size >= HeaderSize /\ ~(ReadHeader(m) /\ r.size < HeaderSize + m.length)
  <2>1. r.state \in {"BodyValidated", "ParseError"}
    <3>1. CASE ~ReadHeader(m)
      BY <1>4, <3>1, VerdictArms
    <3>2. CASE ReadHeader(m)
      <4>1. r.size >= HeaderSize + m.length
        BY <1>1, <1>4, <3>2
      <4>2. QED BY <3>2, <4>1, VerdictArms
    <3>3. QED BY <3>1, <3>2
  <2>2. HowManyBytesNeeded(r, m) = 0
    BY <2>1 DEF HowManyBytesNeeded
  <2>3. QED BY <1>1, <2>1, <2>2
<1>5. QED BY <1>1, <1>2, <1>3, <1>4

(***************************************************************************)
(* AddBytes, given no more than it asked for, leaves the reader with the   *)
(* verdict on all the bytes so far.                                        *)
(***************************************************************************)
LEMMA AddBytesExact ==
  ASSUME NEW m, OnWire(m), NEW r, r.size \in Nat, r.state = Verdict(m, r.size),
         NEW n \in 1 .. HowManyBytesNeeded(r, m)
  PROVE  AddBytes(r, m, n) = [state |-> Verdict(m, r.size + n), size |-> r.size + n]
<1> DEFINE size == r.size + n
           total == HeaderSize + m.length
<1>1. /\ HeaderSize \in Nat /\ m.length \in Nat /\ HowManyBytesNeeded(r, m) \in Nat
  BY FormatAssumption, NeededFits DEF OnWire
<1>2. n \in Nat /\ n > 0 /\ n <= HowManyBytesNeeded(r, m) /\ size \in Nat
  BY <1>1
<1>3. r.state \in {"HeaderNotRead", "HeaderValidated"}
  BY <1>1, <1>2 DEF HowManyBytesNeeded
<1>4. CASE r.state = "HeaderNotRead"
  <2>1. HowManyBytesNeeded(r, m) = HeaderSize - r.size
    BY <1>4 DEF HowManyBytesNeeded
  <2>2. size <= HeaderSize
    BY <1>1, <1>2, <2>1
  <2>3. CASE size < HeaderSize
    <3>1. Verdict(m, size) = "HeaderNotRead"
      BY <1>2, <2>3, VerdictArms
    <3>2. ~(size >= HeaderSize)
      BY <1>1, <1>2, <2>3
    <3>3. AddBytes(r, m, n) = [state |-> "HeaderNotRead", size |-> size]
      BY <1>2, <1>4, <3>2 DEF AddBytes
    <3>4. QED BY <3>1, <3>3
  <2>4. CASE size = HeaderSize
    <3>1. size >= HeaderSize /\ n # 0
      BY <1>1, <1>2, <2>4
    <3>2. CASE ~ReadHeader(m)
      <4>1. Verdict(m, size) = "ParseError"
        BY <1>2, <3>1, <3>2, VerdictArms
      <4>2. AddBytes(r, m, n) = [state |-> "ParseError", size |-> size]
        BY <1>4, <3>1, <3>2 DEF AddBytes
      <4>3. QED BY <4>1, <4>2
    <3>3. CASE ReadHeader(m) /\ m.length = 0
      <4>1. size = total /\ size >= total /\ ~(size > total)
        BY <1>1, <1>2, <2>4, <3>3
      <4>2. Verdict(m, size) = "BodyValidated"
        BY <1>2, <3>3, <4>1, VerdictArms, EmptyWellFormed
      <4>3. AddBytes(r, m, n) = [state |-> "BodyValidated", size |-> size]
        BY <1>4, <3>1, <3>3, <4>1 DEF AddBytes
      <4>4. QED BY <4>2, <4>3
    <3>4. CASE ReadHeader(m) /\ m.length # 0
      <4>1. size < total /\ ~(size >= total)
        BY <1>1, <1>2, <2>4, <3>4
      <4>2. Verdict(m, size) = "HeaderValidated"
        BY <1>2, <3>1, <3>4, <4>1, VerdictArms
      <4>3. AddBytes(r, m, n) = [state |-> "HeaderValidated", size |-> size]
        BY <1>4, <3>1, <3>4, <4>1 DEF AddBytes
      <4>4. QED BY <4>2, <4>3
    <3>5. QED BY <3>2, <3>3, <3>4
  <2>5. QED BY <1>1, <1>2, <2>2, <2>3, <2>4
<1>5. CASE r.state = "HeaderValidated"
  <2>1. HowManyBytesNeeded(r, m) = m.length + HeaderSize - r.size
    BY <1>5 DEF HowManyBytesNeeded
  <2>2. ReadHeader(m) /\ r.size >= HeaderSize
    BY <1>5, NeededFits
  <2>3. size <= total /\ size >= HeaderSize /\ n # 0 /\ ~(size > total)
    BY <1>1, <1>2, <2>1, <2>2
  <2>4. CASE size < total
    <3>1. Verdict(m, size) = "HeaderValidated"
      BY <1>2, <2>2, <2>3, <2>4, VerdictArms
    <3>2. ~(size >= total)
      BY <1>1, <1>2, <2>4
    <3>3. AddBytes(r, m, n) = [state |-> "HeaderValidated", size |-> size]
      BY <1>5, <2>3, <3>2 DEF AddBytes
    <3>4. QED BY <3>1, <3>3
  <2>5. CASE size = total
    <3>1. size >= total
      BY <1>1, <1>2, <2>5
    <3>2. Verdict(m, size) = IF WellFormed(m) THEN "BodyValidated" ELSE "ParseError"
      BY <1>2, <2>2, <2>5, <3>1, VerdictArms
    <3>3. AddBytes(r, m, n) = [state |-> IF ReadBody(m) THEN "BodyValidated" ELSE "ParseError",
                               size |-> size]
      BY <1>5, <2>3, <2>5, <3>1 DEF AddBytes
    <3>4. QED BY <3>2, <3>3, ReadBodyExact
  <2>6. QED BY <1>1, <1>2, <2>3, <2>4, <2>5
<1>6. QED BY <1>3, <1>4, <1>5

-----------------------------------------------------------------------------
(***************************************************************************)
(* Whom the server answers.  An answer of a provider that lets a request   *)
(* go on names the password of the user of the request, and the handler    *)
(* asks for an integrity attribute made with it.                           *)
(***************************************************************************)
LEMMA Authorised ==
  ASSUME NEW m, NEW p \in {"short", "long"}, NEW t,
         ProcessRequest(StunMessageIn(m), Addresses,
                        DoAuthCheck(p, StunMessageIn(m), t)).kind = "success"
  PROVE  /\ m.type = "Binding"
         /\ IntegrityIsLast(m, HmacSize)
         /\ m.user.text \in DOMAIN Password
         /\ m.key.password = Password[m.user.text]
<1> DEFINE in == StunMessageIn(m)
           auth == DoAuthCheck(p, in, t)
           code == ErrorCode(in, Addresses, auth)
<1>1. in.type = m.type
  BY DEF StunMessageIn
<1>2. /\ in.user = IF HasString(m, "USERNAME", MaxStringSize) THEN m.user ELSE EmptyString
      /\ in.integrity = IF ~Has(m, "INTEGRITY") THEN NoIntegrity
                        ELSE IF IntegrityIsLast(m, HmacSize) THEN m.key
                        ELSE Key("invalid", EmptyString, EmptyString, "")
  BY DEF StunMessageIn
<1> HIDE DEF in
<1>3. code = 0
  <2>1. NoResponse.kind # "success"
    BY DEF NoResponse
  <2>2. BuildErrorResponse(in, code, auth).kind # "success"
    BY DEF BuildErrorResponse
  <2> HIDE DEF code, auth
  <2>3. ProcessRequest(in, Addresses, auth).kind = "success"
    BY DEF in, auth
  <2>4. ProcessRequest(in, Addresses, auth) =
          IF in.class # "Request" THEN NoResponse
          ELSE IF code # 0 THEN BuildErrorResponse(in, code, auth)
          ELSE ProcessBindingRequest(in, Addresses, auth)
    BY DEF ProcessRequest, code
  <2>5. QED BY <2>1, <2>2, <2>3, <2>4
<1>4. in.type = "Binding" /\ ValidateAuth(in, auth) = 0
  <2> HIDE DEF auth
  <2>1. QED BY <1>3 DEF ErrorCode
<1>5. /\ auth.responseType = "AllowConditional"
      /\ auth.mech \in {"ShortTerm", "LongTerm"}
      /\ in.user.text \in DOMAIN Password /\ auth.password = Password[in.user.text]
  <2>1. CASE p = "short"
    <3> DEFINE pw == LookupPassword(FALSE, in.user, EmptyString)
               type == IF in.integrity = NoIntegrity THEN "Reject"
                       ELSE IF pw # "" THEN "AllowConditional" ELSE "Unauthorized"
    <3>1. auth = ShortTermAuth(in)
      BY <2>1 DEF DoAuthCheck
    <3>2. auth.responseType = type /\ auth.mech = "ShortTerm" /\ auth.password = pw
      <4> HIDE DEF auth
      <4>1. QED BY <3>1 DEF ShortTermAuth, AuthResponse
    <3> HIDE DEF auth, pw
    <3>3. auth.responseType \notin {"Reject", "Unauthorized"}
      BY <1>4 DEF ValidateAuth
    <3>4. auth.responseType = "AllowConditional" /\ pw # ""
      BY <3>2, <3>3
    <3>5. in.user.text \in DOMAIN Password /\ pw = Password[in.user.text]
      BY <3>4 DEF pw, LookupPassword
    <3>6. QED BY <3>2, <3>4, <3>5
  <2>2. CASE p = "long"
    <3> DEFINE pw == LookupPassword(TRUE, in.user, in.nonce)
               type == IF in.integrity = NoIntegrity \/ in.nonce = EmptyString
                            \/ in.user = EmptyString \/ pw = "" THEN "Unauthorized"
                       ELSE IF ~ValidateNonce(in.nonce, t) THEN "StaleNonce"
                       ELSE "AllowConditional"
    <3>1. auth = LongTermAuth(in, t)
      BY <2>2 DEF DoAuthCheck
    <3>2. auth.responseType = type /\ auth.mech = "LongTerm" /\ auth.password = pw
      <4> HIDE DEF auth
      <4>1. QED BY <3>1 DEF LongTermAuth, AuthResponse
    <3> HIDE DEF auth, pw
    <3>3. auth.responseType \notin {"StaleNonce", "Unauthorized"}
      BY <1>4 DEF ValidateAuth
    <3>4. auth.responseType = "AllowConditional" /\ pw # ""
      BY <3>2, <3>3
    <3>5. in.user.text \in DOMAIN Password /\ pw = Password[in.user.text]
      BY <3>4 DEF pw, LookupPassword
    <3>6. QED BY <3>2, <3>4, <3>5
  <2>3. QED BY <2>1, <2>2
<1> HIDE DEF auth
<1>6. in.integrity = RequiredKey(in, auth)
  <2> DEFINE key == RequiredKey(in, auth)
  <2>1. ValidateAuth(in, auth) = CASE auth.responseType = "StaleNonce" -> 438
                                   [] auth.responseType = "Unauthorized" -> 401
                                   [] auth.responseType = "Reject" -> 400
                                   [] auth.responseType = "AllowConditional"
                                        /\ in.integrity # key -> 401
                                   [] OTHER -> 0
    BY DEF ValidateAuth
  <2> HIDE DEF key
  <2>2. in.integrity = key
    BY <1>4, <1>5, <2>1
  <2>3. QED BY <2>2 DEF key
<1>7. /\ in.integrity.password = auth.password
      /\ in.integrity.mech \in {"ShortTerm", "LongTerm"}
  <2> DEFINE short == ShortTermKey(auth.password)
             long == LongTermKey(in.user, in.realm, auth.password)
  <2>1. short.password = auth.password /\ short.mech = "ShortTerm"
    BY DEF ShortTermKey, Key
  <2>2. long.password = auth.password /\ long.mech = "LongTerm"
    BY DEF LongTermKey, Key
  <2>3. in.integrity \in {short, long}
    <3> HIDE DEF short, long
    <3>1. QED BY <1>6 DEF RequiredKey, short, long
  <2> HIDE DEF short, long
  <2>4. QED BY <2>1, <2>2, <2>3
<1>8. IntegrityIsLast(m, HmacSize) /\ in.integrity = m.key
  <2>1. NoIntegrity.mech = "none" /\ Key("invalid", EmptyString, EmptyString, "").mech = "invalid"
    BY DEF NoIntegrity, Key
  <2>2. QED BY <1>2, <1>7, <2>1
<1>9. in.user = m.user
  <2>1. EmptyString.text = ""
    BY DEF EmptyString, Plain
  <2>2. in.user # EmptyString
    BY <1>5, <2>1, AuthAssumption
  <2>3. QED BY <1>2, <2>2
<1>10. QED BY <1>1, <1>4, <1>5, <1>7, <1>8, <1>9

-----------------------------------------------------------------------------
(***************************************************************************)
(* The inductive invariant.  ReaderExact does not hold of a step by        *)
(* itself: AddBytes is exact only for a message the wire can carry and for *)
(* a piece no longer than was asked for, and RecvFitsBuffer needs that a   *)
(* connection stops receiving when its reader has come to a verdict.       *)
(***************************************************************************)
WireInv ==
  /\ provider \in Providers
  /\ OnWire(msg)
  /\ reader.size \in Nat /\ creader.size \in Nat

ReceivingInv == state = "Receiving" => reader.state \in {"HeaderNotRead", "HeaderValidated"}

ExchangeInv == WireInv /\ ReaderExact /\ ReceivingInv /\ AuthorisedOnly

(* The requests are messages the wire can carry. *)
LEMMA RequestOnWire ==
  ASSUME NEW m \in Messages, NEW nonce
  PROVE  OnWire(m) /\ OnWire([m EXCEPT !.nonce = nonce])
<1>1. /\ m.header \in BOOLEAN /\ m.length \in Nat /\ m.attrs \in Seq(Attribute)
      /\ m = [header |-> m.header, length |-> m.length, attrs |-> m.attrs, class |-> m.class,
              type |-> m.type, user |-> m.user, realm |-> m.realm, nonce |-> m.nonce,
              key |-> m.key, change |-> m.change]
  BY MessageAssumption DEF Attribute
<1>2. LET c == [m EXCEPT !.nonce = nonce]
      IN  c.header = m.header /\ c.length = m.length /\ c.attrs = m.attrs
  BY <1>1
<1>3. QED BY <1>1, <1>2 DEF OnWire

(* So is the response. *)
LEMMA ResponseOnWire == OnWire(ResponseMessage)
<1> DEFINE a == [type |-> "MAPPED", len |-> ResponseLength - AttrHeaderSize]
<1>1. ResponseLength \in Nat /\ ResponseLength - AttrHeaderSize \in Nat
  BY FormatAssumption, ExchangeAssumption
<1>2. a \in Attribute
  <2>1. "MAPPED" \in AttributeType
    BY DEF AttributeType
  <2>2. \A l \in Nat, t \in AttributeType : [type |-> t, len |-> l] \in Attribute
    BY DEF Attribute
  <2>3. QED BY <1>1, <2>1, <2>2
<1>3. /\ ResponseMessage.header = TRUE /\ ResponseMessage.length = ResponseLength
      /\ ResponseMessage.attrs = <<a>>
  BY DEF ResponseMessage
<1> HIDE DEF a
<1>4. <<a>> \in Seq(Attribute)
  BY <1>2
<1>5. QED BY <1>1, <1>3, <1>4 DEF OnWire

(* A fresh reader has read nothing of anything. *)
LEMMA FreshExact ==
  ASSUME NEW m, OnWire(m)
  PROVE  /\ FreshReader.size \in Nat /\ FreshReader.state = "HeaderNotRead"
         /\ FreshReader.state = Verdict(m, FreshReader.size)
<1>1. FreshReader.size = 0 /\ FreshReader.state = "HeaderNotRead"
  BY DEF FreshReader
<1>2. 0 < HeaderSize
  BY FormatAssumption
<1>3. QED BY <1>1, <1>2, VerdictArms

(* A piece of the message, no longer than asked for, keeps the reader exact. *)
LEMMA PieceExact ==
  ASSUME NEW m, OnWire(m), NEW r, r.size \in Nat, r.state = Verdict(m, r.size),
         NEW n \in 1 .. HowManyBytesNeeded(r, m)
  PROVE  LET q == AddBytes(r, m, n) IN
         /\ q.size \in Nat /\ q.state = Verdict(m, q.size)
         /\ q.state = "BodyValidated" => WellFormed(m)
         /\ q.state \in {"HeaderNotRead", "HeaderValidated", "BodyValidated", "ParseError"}
<1> DEFINE q == AddBytes(r, m, n)
<1>1. n \in Nat
  BY NeededFits
<1>2. q = [state |-> Verdict(m, r.size + n), size |-> r.size + n]
  BY AddBytesExact
<1>3. q.size = r.size + n /\ q.state = Verdict(m, r.size + n)
  BY <1>2
<1> HIDE DEF q
<1>4. q.size \in Nat /\ q.state = Verdict(m, q.size)
  BY <1>1, <1>3
<1>5. q.state \in {"HeaderNotRead", "HeaderValidated", "BodyValidated", "ParseError"}
  BY <1>4, NeededFits
<1>6. q.state = "BodyValidated" => WellFormed(m)
  BY <1>4 DEF Verdict
<1>7. QED BY <1>4, <1>5, <1>6 DEF q

(* The invariant holds initially. *)
LEMMA InitInv == Init => ExchangeInv
<1> SUFFICES ASSUME Init PROVE ExchangeInv
  OBVIOUS
<1>1. NoMessage \in Messages
  BY ExchangeAssumption DEF NoMessage
<1>2. OnWire(msg)
  BY <1>1, RequestOnWire DEF Init
<1>3. resp.kind # "success"
  BY DEF Init, NoResponse
<1>4. QED
  BY <1>2, <1>3, FreshExact, ResponseOnWire
  DEF Init, ExchangeInv, WireInv, ReaderExact, ReceivingInv, AuthorisedOnly

(* A step that leaves the messages and the readers alone. *)
LEMMA Untouched ==
  ASSUME ExchangeInv, UNCHANGED <<provider, msg, creader, reader, resp>>,
         state' = "Receiving" => state = "Receiving"
  PROVE  ExchangeInv'
<1>1. WireInv' /\ ReceivingInv'
  BY DEF ExchangeInv, WireInv, ReceivingInv
<1>2. ReaderExact'
  BY DEF ExchangeInv, ReaderExact
<1>3. AuthorisedOnly'
  BY DEF ExchangeInv, AuthorisedOnly
<1>4. QED BY <1>1, <1>2, <1>3 DEF ExchangeInv

(* A step that begins an exchange, or forgets one. *)
LEMMA BeginInv ==
  ASSUME ExchangeInv, OnWire(msg'), provider' = provider, creader' = FreshReader,
         reader' = FreshReader, resp' = NoResponse
  PROVE  ExchangeInv'
<1>1. resp'.kind # "success"
  BY DEF NoResponse
<1>2. WireInv' /\ ReceivingInv'
  BY FreshExact DEF ExchangeInv, WireInv, ReceivingInv
<1>3. ReaderExact'
  BY FreshExact, ResponseOnWire DEF ReaderExact
<1>4. QED BY <1>1, <1>2, <1>3 DEF ExchangeInv, AuthorisedOnly

(* ClientRecv preserves the invariant. *)
LEMMA ClientRecvInv == ASSUME ExchangeInv, ClientRecv PROVE ExchangeInv'
<1> USE DEF ExchangeInv
<1>1. CASE creader' = creader
  <2>1. UNCHANGED <<provider, msg, creader, reader, resp, state>>
    BY <1>1 DEF ClientRecv, serverVars
  <2>2. QED BY <2>1, Untouched
<1>2. CASE \E n \in 1 .. HowManyBytesNeeded(creader, ResponseMessage) :
             creader' = AddBytes(creader, ResponseMessage, n)
  <2>1. PICK n \in 1 .. HowManyBytesNeeded(creader, ResponseMessage) :
               creader' = AddBytes(creader, ResponseMessage, n)
    BY <1>2
  <2>2. creader'.size \in Nat /\ creader'.state = Verdict(ResponseMessage, creader'.size)
    BY <2>1, PieceExact, ResponseOnWire DEF WireInv, ReaderExact
  <2>3. UNCHANGED <<provider, msg, reader, resp, state>>
    BY DEF ClientRecv, serverVars
  <2>4. QED BY <2>2, <2>3 DEF WireInv, ReaderExact, ReceivingInv, AuthorisedOnly
<1>3. QED BY <1>1, <1>2 DEF ClientRecv

(* Receive preserves the invariant. *)
LEMMA ReceiveInv == ASSUME ExchangeInv, Receive PROVE ExchangeInv'
<1> USE DEF ExchangeInv
<1> DEFINE answer == ProcessRequest(StunMessageIn(msg), Addresses,
                                    DoAuthCheck(provider, StunMessageIn(msg), now))
<1>1. UNCHANGED <<provider, msg, creader>>
  BY DEF Receive, clientVars
<1>2. CASE reader' = reader /\ resp' = resp /\ state' = "closed"
  BY <1>1, <1>2, Untouched
<1>3. CASE \E n \in 1 .. HowManyBytesNeeded(reader, msg) :
             LET r == AddBytes(reader, msg, n) IN
             /\ reader' = r
             /\ IF r.state = "BodyValidated" /\ answer.kind # "none"
                THEN state' = "Transmitting" /\ resp' = answer
                ELSE /\ UNCHANGED resp
                     /\ IF r.state \in {"ParseError", "BodyValidated"}
                        THEN CloseConnection ELSE UNCHANGED state
  <2> HIDE DEF answer
  <2>1. PICK n \in 1 .. HowManyBytesNeeded(reader, msg) :
               /\ reader' = AddBytes(reader, msg, n)
               /\ IF reader'.state = "BodyValidated" /\ answer.kind # "none"
                  THEN state' = "Transmitting" /\ resp' = answer
                  ELSE /\ UNCHANGED resp
                       /\ IF reader'.state \in {"ParseError", "BodyValidated"}
                          THEN CloseConnection ELSE UNCHANGED state
    BY <1>3
  <2>2. /\ reader'.size \in Nat /\ reader'.state = Verdict(msg, reader'.size)
        /\ reader'.state = "BodyValidated" => WellFormed(msg)
        /\ reader'.state \in {"HeaderNotRead", "HeaderValidated", "BodyValidated", "ParseError"}
    BY <2>1, PieceExact DEF WireInv, ReaderExact
  <2>3. WireInv' /\ ReaderExact'
    BY <1>1, <2>2 DEF WireInv, ReaderExact
  <2>4. ReceivingInv'
    BY <2>1, <2>2 DEF ReceivingInv, CloseConnection
  <2>5. AuthorisedOnly'
    <3>1. CASE resp' = resp
      BY <1>1, <3>1 DEF AuthorisedOnly
    <3>2. CASE resp' = answer /\ reader'.state = "BodyValidated"
      <4> SUFFICES ASSUME resp'.kind = "success", provider' # "none"
                   PROVE  AuthorisedOnly'
        BY DEF AuthorisedOnly
      <4>1. provider \in {"short", "long"}
        BY <1>1, ExchangeAssumption DEF WireInv
      <4>2. answer.kind = "success"
        BY <3>2
      <4>3. /\ msg.type = "Binding" /\ IntegrityIsLast(msg, HmacSize)
            /\ msg.user.text \in DOMAIN Password /\ msg.key.password = Password[msg.user.text]
        BY <4>1, <4>2, Authorised DEF answer
      <4>4. QED BY <1>1, <2>2, <3>2, <4>3 DEF AuthorisedOnly
    <3>3. QED BY <2>1, <3>1, <3>2
  <2>6. QED BY <2>3, <2>4, <2>5
<1>4. QED BY <1>2, <1>3 DEF Receive, CloseConnection

(* Every step preserves the invariant. *)
LEMMA NextInv == ASSUME ExchangeInv, [Next]_vars PROVE ExchangeInv'
<1>1. CASE \E m \in Messages : \E n \in Nonce(m) : Connect(m, n)
  <2>1. PICK m \in Messages : \E n \in Nonce(m) : Connect(m, n)
    BY <1>1
  <2>2. PICK n \in Nonce(m) : Connect(m, n)
    BY <2>1
  <2>3. OnWire(msg')
    BY <2>2, RequestOnWire DEF Connect
  <2>4. QED BY <2>2, <2>3, BeginInv DEF Connect
<1>2. CASE ClientSend
  BY <1>2, Untouched DEF ClientSend, serverVars
<1>3. CASE ClientRecv
  BY <1>3, ClientRecvInv
<1>4. CASE ClientDone
  BY <1>4, Untouched DEF ClientDone, serverVars
<1>5. CASE ClientAborts
  BY <1>5, Untouched DEF ClientAborts, serverVars
<1>6. CASE Forget
  <2>1. NoMessage \in Messages
    BY ExchangeAssumption DEF NoMessage
  <2>2. OnWire(msg')
    BY <1>6, <2>1, RequestOnWire DEF Forget
  <2>3. QED BY <1>6, <2>2, BeginInv DEF Forget
<1>7. CASE Tick
  BY <1>7, Untouched DEF Tick, clientVars, serverVars
<1>8. CASE Receive
  BY <1>8, ReceiveInv
<1>9. CASE Write
  <2>1. state' # "Receiving"
    BY <1>9 DEF Write, CloseConnection
  <2>2. QED BY <1>9, <2>1, Untouched DEF Write, clientVars
<1>10. CASE ConsumeRemoteClose
  BY <1>10, Untouched DEF ConsumeRemoteClose, CloseConnection, clientVars
<1>11. CASE SweepDeadConnections
  BY <1>11, Untouched DEF SweepDeadConnections, CloseConnection, clientVars
<1>12. CASE Stop
  BY <1>12, Untouched DEF Stop, CloseConnection, clientVars
<1>13. CASE UNCHANGED vars
  BY <1>13, Untouched DEF vars, clientVars, serverVars
<1>14. QED
  BY <1>1, <1>2, <1>3, <1>4, <1>5, <1>6, <1>7, <1>8, <1>9, <1>10, <1>11, <1>12, <1>13
  DEF Next, Client, Server, Finished

-----------------------------------------------------------------------------
(* Every reachable state satisfies the inductive invariant. *)
THEOREM InvariantHolds == Spec => []ExchangeInv
<1>1. Init => ExchangeInv
  BY InitInv
<1>2. ExchangeInv /\ [Next]_vars => ExchangeInv'
  BY NextInv
<1>3. QED BY <1>1, <1>2, PTL DEF Spec

(***************************************************************************)
(* The state of a reader is the verdict on the bytes it has been given,    *)
(* however they were cut: BodyValidated exactly when whole attributes      *)
(* within their limits fill the body (stunreader.cpp:609, :705), for every *)
(* message, every limit and any number of attributes.                      *)
(***************************************************************************)
THEOREM ReadersAreExact == Spec => []ReaderExact
<1>1. ExchangeInv => ReaderExact
  BY DEF ExchangeInv
<1>2. QED BY <1>1, InvariantHolds, PTL

(***************************************************************************)
(* A receiving connection asks recv for at least one byte and for no more  *)
(* than its buffer holds (tcpserver.cpp:545-551).                          *)
(***************************************************************************)
THEOREM RecvAlwaysFits == Spec => []RecvFitsBuffer
<1>1. ExchangeInv => RecvFitsBuffer
  <2> SUFFICES ASSUME ExchangeInv PROVE RecvFitsBuffer
    OBVIOUS
  <2>1. /\ HowManyBytesNeeded(reader, msg) \in 0 .. MaxMessageSize
        /\ state = "Receiving" => HowManyBytesNeeded(reader, msg) # 0
    BY NeededFits DEF ExchangeInv, WireInv, ReaderExact, ReceivingInv
  <2>2. HowManyBytesNeeded(creader, ResponseMessage) \in 0 .. MaxMessageSize
    BY NeededFits, ResponseOnWire DEF ExchangeInv, WireInv, ReaderExact
  <2>3. MaxMessageSize \in Nat
    BY FormatAssumption
  <2>4. QED BY <2>1, <2>2, <2>3 DEF RecvFitsBuffer
<1>2. QED BY <1>1, InvariantHolds, PTL

(***************************************************************************)
(* With a provider, a success response answers only a well-formed binding  *)
(* request signed with the password of the user it names                   *)
(* (messagehandler.cpp:366), for any table of passwords without an empty   *)
(* name.                                                                   *)
(***************************************************************************)
THEOREM OnlyAuthorisedSucceed == Spec => []AuthorisedOnly
<1>1. ExchangeInv => AuthorisedOnly
  BY DEF ExchangeInv
<1>2. QED BY <1>1, InvariantHolds, PTL
=============================================================================
