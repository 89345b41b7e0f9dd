----------------------------- MODULE Induction -----------------------------
(***************************************************************************)
(* Induction over the natural numbers, and the existence of functions       *)
(* defined by recursion, stated with sets and functions: the proofs about   *)
(* the loop of the scheduler, the decimal numbers that are read and printed *)
(* and the order of drawing rest on them.                                   *)
(***************************************************************************)
EXTENDS Integers, WellFoundedInduction, TLAPS

\* A nonempty set of naturals has a least element.
LEMMA LeastNat ==
    ASSUME NEW S \in SUBSET Nat, S # {}
    PROVE  \E m \in S : \A x \in S : m <= x
<1>1. PICK m \in S : \A y \in S : ~(<<y, m>> \in OpToRel(<, Nat))
  BY NatLessThanWellFounded, WFMin
<1>2. \A x \in S : m <= x
  <2> SUFFICES ASSUME NEW x \in S, x < m
               PROVE  FALSE
    OBVIOUS
  <2>1. <<x, m>> \in Nat \X Nat /\ <<x, m>>[1] < <<x, m>>[2]
    OBVIOUS
  <2>2. <<x, m>> \in OpToRel(<, Nat)
    BY <2>1, Zenon DEF OpToRel
  <2> QED BY <1>1, <2>2, Zenon
<1> QED BY <1>2

\* Induction: a set with 0 that is closed under the successor holds every natural.
LEMMA InductiveSet ==
    ASSUME NEW S, 0 \in S, \A k \in Nat : k \in S => k + 1 \in S
    PROVE  \A k \in Nat : k \in S
<1> SUFFICES ASSUME Nat \ S # {}
             PROVE  FALSE
  OBVIOUS
<1>1. PICK m \in Nat \ S : \A x \in Nat \ S : m <= x
  BY LeastNat
<1>2. m # 0 /\ m - 1 \in Nat /\ m - 1 \notin Nat \ S
  BY <1>1
<1>3. (m - 1) + 1 \in S
  BY <1>2
<1> QED
  BY <1>1, <1>3

\* The same as far as n.
LEMMA InductiveSegment ==
    ASSUME NEW S, NEW n \in Nat, 0 \in S, \A k \in 0 .. n - 1 : k \in S => k + 1 \in S
    PROVE  \A k \in 0 .. n : k \in S
<1> DEFINE T == {k \in Nat : k <= n => k \in S}
<1>1. 0 \in T
  OBVIOUS
<1>2. \A k \in Nat : k \in T => k + 1 \in T
  OBVIOUS
<1> HIDE DEF T
<1>3. \A k \in Nat : k \in T
  BY <1>1, <1>2, InductiveSet
<1> QED
  BY <1>3 DEF T

\* f follows the recursion that starts at b and goes on with g, as far as n.
Recurs(f, b, g, n) ==
    f[0] = b /\ \A k \in 0 .. n - 1 : f[k + 1] = g[k][f[k]]

\* Two functions that follow the same recursion are the same.
LEMMA RecursionUnique ==
    ASSUME NEW b, NEW g, NEW n \in Nat, NEW f, NEW h, Recurs(f, b, g, n), Recurs(h, b, g, n)
    PROVE  \A k \in 0 .. n : f[k] = h[k]
<1> DEFINE S == {k \in Nat : f[k] = h[k]}
<1>1. 0 \in S
  BY DEF Recurs
<1>2. \A k \in 0 .. n - 1 : k \in S => k + 1 \in S
  BY DEF Recurs
<1> HIDE DEF S
<1>3. \A k \in 0 .. n : k \in S
  BY <1>1, <1>2, InductiveSegment
<1> QED
  BY <1>3 DEF S

\* There is one as far as every n ...
LEMMA RecursionSegment ==
    ASSUME NEW V, NEW b \in V, NEW g \in [Nat -> [V -> V]]
    PROVE  \A n \in Nat : \E f \in [0 .. n -> V] : Recurs(f, b, g, n)
<1> DEFINE S == {n \in Nat : \E f \in [0 .. n -> V] : Recurs(f, b, g, n)}
<1>1. 0 \in S
  <2>1. [k \in 0 .. 0 |-> b] \in [0 .. 0 -> V] /\ Recurs([k \in 0 .. 0 |-> b], b, g, 0)
    BY DEF Recurs
  <2> QED
    BY <2>1
<1>2. ASSUME NEW n \in Nat, n \in S
      PROVE  n + 1 \in S
  <2>1. PICK f \in [0 .. n -> V] : Recurs(f, b, g, n)
    BY <1>2
  <2> DEFINE h == [k \in 0 .. n + 1 |-> IF k <= n THEN f[k] ELSE g[n][f[n]]]
  <2>2. f[n] \in V /\ g[n] \in [V -> V]
    BY <2>1
  <2>3. g[n][f[n]] \in V
    BY <2>2
  <2>4. h \in [0 .. n + 1 -> V]
    BY <2>1, <2>3
  <2>5. h[0] = b
    BY <2>1 DEF Recurs
  <2>6. ASSUME NEW k \in 0 .. (n + 1) - 1
        PROVE  h[k + 1] = g[k][h[k]]
    <3>1. CASE k = n
      BY <3>1
    <3>2. CASE k # n
      <4>1. k \in 0 .. n - 1 /\ k + 1 <= n /\ k <= n
        BY <3>2
      <4>2. f[k + 1] = g[k][f[k]]
        BY <2>1, <4>1 DEF Recurs
      <4> QED
        BY <4>1, <4>2
    <3> QED
      BY <3>1, <3>2
  <2>7. Recurs(h, b, g, n + 1)
    <3> HIDE DEF h
    <3> QED
      BY <2>5, <2>6 DEF Recurs
  <2> HIDE DEF h
  <2> QED
    BY <2>4, <2>7
<1> HIDE DEF S
<1>3. \A n \in Nat : n \in S
  BY <1>1, <1>2, InductiveSet
<1> QED
  BY <1>3 DEF S

\* ... and so there is one for all.
LEMMA RecursionExists ==
    ASSUME NEW V, NEW b \in V, NEW g \in [Nat -> [V -> V]]
    PROVE  \E f \in [Nat -> V] : \A n \in Nat : Recurs(f, b, g, n)
<1> DEFINE Part(n) == CHOOSE f : f \in [0 .. n -> V] /\ Recurs(f, b, g, n)
           F == [n \in Nat |-> Part(n)[n]]
<1>1. \A n \in Nat : Part(n) \in [0 .. n -> V] /\ Recurs(Part(n), b, g, n)
  BY RecursionSegment
<1> HIDE DEF Part
<1>2. F \in [Nat -> V]
  BY <1>1
<1>3. F[0] = b
  BY <1>1 DEF Recurs
<1>4. ASSUME NEW k \in Nat
      PROVE  F[k + 1] = g[k][F[k]]
  <2>1. Recurs(Part(k), b, g, k) /\ Recurs(Part(k + 1), b, g, k + 1)
    BY <1>1
  <2>2. Recurs(Part(k + 1), b, g, k)
    BY <2>1 DEF Recurs
  <2>3. Part(k + 1)[k] = Part(k)[k]
    BY <2>1, <2>2, RecursionUnique
  <2>4. Part(k + 1)[k + 1] = g[k][Part(k + 1)[k]]
    BY <2>1 DEF Recurs
  <2> QED
    BY <2>3, <2>4
<1> HIDE DEF F
<1>5. \A n \in Nat : Recurs(F, b, g, n)
  BY <1>3, <1>4 DEF Recurs
<1> QED
  BY <1>2, <1>5
\* f is defined on 0 .. n by recursion: it is b at 0, and g makes each value from the one
\* before.
Unrolls(f, b, g, n) == f = [k \in 0 .. n |-> IF k = 0 THEN b ELSE g[k][f[k - 1]]]

\* Such a function exists, which is what a recursive definition rests on.
LEMMA RecursiveFunction ==
    ASSUME NEW V, NEW b \in V, NEW n \in Nat, NEW g \in [1 .. n -> [V -> V]]
    PROVE  \E f \in [0 .. n -> V] : Unrolls(f, b, g, n)
<1> DEFINE h == [k \in Nat |-> IF k \in 0 .. n - 1 THEN g[k + 1] ELSE [v \in V |-> b]]
<1>1. h \in [Nat -> [V -> V]]
  OBVIOUS
<1>2. \A k \in 0 .. n - 1 : h[k] = g[k + 1]
  OBVIOUS
<1> HIDE DEF h
<1>3. PICK f \in [0 .. n -> V] : Recurs(f, b, h, n)
  BY <1>1, RecursionSegment
<1>4. f[0] = b /\ \A k \in 0 .. n - 1 : f[k + 1] = g[k + 1][f[k]]
  BY <1>2, <1>3 DEF Recurs
<1>5. ASSUME NEW k \in 0 .. n
      PROVE  f[k] = IF k = 0 THEN b ELSE g[k][f[k - 1]]
  <2>1. CASE k = 0
    BY <1>4, <2>1
  <2>2. CASE k # 0
    <3>1. k - 1 \in 0 .. n - 1 /\ (k - 1) + 1 = k
      BY <2>2
    <3> QED
      BY <1>4, <2>2, <3>1
  <2> QED
    BY <2>1, <2>2
<1>6. Unrolls(f, b, g, n)
  BY <1>5 DEF Unrolls
<1> QED
  BY <1>6
=============================================================================
