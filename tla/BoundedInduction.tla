-------------------------- MODULE BoundedInduction --------------------------
(***************************************************************************)
(* Induction up to a bound over a set of numbers, and the existence of the *)
(* functions that a step function and a first value define on 0 .. N: what *)
(* the proofs about the loops of the message reader and about the chains   *)
(* of the hash table rest on.  The library's theorems of this kind are     *)
(* parameterised by operators; here properties are sets and steps are      *)
(* functions.                                                              *)
(***************************************************************************)
EXTENDS Integers, WellFoundedInduction, TLAPS

(* A set of numbers that is not empty has a least element. *)
LEMMA LeastElement ==
  ASSUME NEW T \in SUBSET Nat, T # {}
  PROVE  \E x \in T : \A y \in T : x <= y
<1> DEFINE R == OpToRel(<, Nat)
<1>1. IsWellFoundedOn(R, Nat)
  BY NatLessThanWellFounded
<1>2. \A x, y \in Nat : y < x => <<y, x>> \in R
  BY DEF OpToRel
<1> HIDE DEF R
<1>3. PICK x \in T : \A y \in T : ~(<<y, x>> \in R)
  BY <1>1, WFMin
<1>4. ASSUME NEW y \in T PROVE x <= y
  <2>1. ~(y < x)
    BY <1>2, <1>3
  <2>2. QED BY <2>1
<1>5. QED BY <1>4

(* What holds of 0 and, below N, of the successor holds up to N. *)
LEMMA UpTo ==
  ASSUME NEW N \in Nat, NEW P, 0 \in P, \A n \in 0 .. N - 1 : n \in P => n + 1 \in P
  PROVE  \A n \in 0 .. N : n \in P
<1> DEFINE T == {n \in 0 .. N : n \notin P}
<1>1. SUFFICES ASSUME T # {} PROVE FALSE
  OBVIOUS
<1>2. PICK x \in T : \A y \in T : x <= y
  <2>1. T \in SUBSET Nat
    OBVIOUS
  <2> HIDE DEF T
  <2>2. QED BY <1>1, <2>1, LeastElement
<1>3. x \in 0 .. N /\ x # 0
  BY <1>2
<1>4. x - 1 \in 0 .. N - 1 /\ x - 1 \in 0 .. N /\ ~(x <= x - 1) /\ (x - 1) + 1 = x
  BY <1>3
<1>5. x - 1 \in P
  BY <1>2, <1>4
<1>6. QED BY <1>2, <1>4, <1>5

(* Steps from a value in V to the next, and what N of them define. *)
Steps(N, V) == [(1 .. N) \X V -> V]

Follows(f, N, V, b, step) ==
  /\ f \in [0 .. N -> V] /\ f[0] = b
  /\ \A n \in 1 .. N : f[n] = step[<<n, f[n - 1]>>]

(* A first value and a step define a function. *)
LEMMA StepFunction ==
  ASSUME NEW N \in Nat, NEW V, NEW b \in V, NEW step \in Steps(N, V)
  PROVE  \E f : Follows(f, N, V, b, step)
<1> USE DEF Steps
<1> DEFINE P == {m \in 0 .. N : \E f \in [0 .. m -> V] :
                   /\ f[0] = b
                   /\ \A n \in 1 .. m : f[n] = step[<<n, f[n - 1]>>]}
<1>1. 0 \in P
  <2> DEFINE h == [n \in 0 .. 0 |-> b]
  <2>1. h \in [0 .. 0 -> V] /\ h[0] = b
    OBVIOUS
  <2>2. \A n \in 1 .. 0 : FALSE
    OBVIOUS
  <2>3. \A n \in 1 .. 0 : h[n] = step[<<n, h[n - 1]>>]
    BY <2>2
  <2>4. 0 \in 0 .. N
    OBVIOUS
  <2> HIDE DEF h
  <2>5. QED BY <2>1, <2>3, <2>4
<1>2. ASSUME NEW m \in 0 .. N - 1, m \in P
      PROVE  m + 1 \in P
  <2>1. PICK f \in [0 .. m -> V] :
          /\ f[0] = b
          /\ \A n \in 1 .. m : f[n] = step[<<n, f[n - 1]>>]
    BY <1>2
  <2> DEFINE g == [n \in 0 .. m + 1 |-> IF n = m + 1 THEN step[<<m + 1, f[m]>>] ELSE f[n]]
  <2>2. m \in 0 .. m /\ m + 1 \in 1 .. N /\ m + 1 \in 0 .. N /\ 0 # m + 1 /\ m \in Nat
    OBVIOUS
  <2>3. step[<<m + 1, f[m]>>] \in V
    BY <2>1, <2>2
  <2>4. g \in [0 .. m + 1 -> V]
    <3>1. ASSUME NEW n \in 0 .. m + 1 PROVE (IF n = m + 1 THEN step[<<m + 1, f[m]>>] ELSE f[n]) \in V
      <4>1. n # m + 1 => n \in 0 .. m
        OBVIOUS
      <4>2. QED BY <2>1, <2>3, <4>1
    <3>2. QED BY <3>1
  <2>5. g[0] = b /\ g[m] = f[m]
    BY <2>1, <2>2
  <2>6. ASSUME NEW n \in 1 .. m + 1
        PROVE  g[n] = step[<<n, g[n - 1]>>]
    <3>1. CASE n = m + 1
      <4>1. g[n] = step[<<m + 1, f[m]>>] /\ n - 1 = m
        BY <3>1
      <4>2. QED BY <2>5, <3>1, <4>1
    <3>2. CASE n # m + 1
      <4>1. n \in 1 .. m /\ n \in 0 .. m + 1 /\ n - 1 \in 0 .. m + 1 /\ n - 1 # m + 1
        BY <3>2
      <4>2. g[n] = f[n] /\ g[n - 1] = f[n - 1]
        BY <4>1
      <4>3. QED BY <2>1, <4>1, <4>2
    <3>3. QED BY <3>1, <3>2
  <2> HIDE DEF g
  <2>7. QED BY <2>2, <2>4, <2>5, <2>6
<1> HIDE DEF P
<1>3. N \in P
  <2>1. N \in 0 .. N
    OBVIOUS
  <2>2. QED BY <1>1, <1>2, <2>1, UpTo
<1>4. QED BY <1>3 DEF P, Follows
=============================================================================
