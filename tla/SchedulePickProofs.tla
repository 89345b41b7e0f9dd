-------------------------- MODULE SchedulePickProofs --------------------------
(* Facts about the circular order and the choice of SchedulePick.           *)
EXTENDS SchedulePick, Induction

\* Remainders of the numbers that circular indices of a table of n slots reach.
LEMMA ModSmall ==
    ASSUME NEW n \in Nat \ {0}, NEW a \in 0 .. n - 1
    PROVE  a % n = a
  BY Z3

LEMMA ModOver ==
    ASSUME NEW n \in Nat \ {0}, NEW a \in n .. 2 * n - 1
    PROVE  a % n = a - n
  BY Z3

LEMMA ModUnder ==
    ASSUME NEW n \in Nat \ {0}, NEW a \in -n .. -1
    PROVE  a % n = a + n
  BY Z3

\* Dist without a remainder.
LEMMA DistValue ==
    ASSUME NEW n \in Nat \ {0}, NEW c \in -1 .. n - 1, NEW k \in 0 .. n - 1
    PROVE  Dist(c, k, n) = IF k > c THEN k - c - 1 ELSE k - c - 1 + n
<1>1. CASE k > c
  <2>1. k - c - 1 \in 0 .. n - 1
    BY <1>1
  <2> QED BY <1>1, <2>1, ModSmall DEF Dist
<1>2. CASE ~(k > c)
  <2>1. k - c - 1 \in -n .. -1
    BY <1>2
  <2> QED BY <1>2, <2>1, ModUnder DEF Dist
<1> QED BY <1>1, <1>2

LEMMA DistRange ==
    ASSUME NEW n \in Nat \ {0}, NEW c \in -1 .. n - 1, NEW k \in 0 .. n - 1
    PROVE  Dist(c, k, n) \in 0 .. n - 1
  BY DistValue

\* Two slots are never at the same distance.
LEMMA DistInjective ==
    ASSUME NEW n \in Nat \ {0}, NEW c \in -1 .. n - 1,
           NEW j \in 0 .. n - 1, NEW k \in 0 .. n - 1, j # k
    PROVE  Dist(c, j, n) < Dist(c, k, n) \/ Dist(c, k, n) < Dist(c, j, n)
<1>1. Dist(c, j, n) = IF j > c THEN j - c - 1 ELSE j - c - 1 + n
  BY DistValue
<1>2. Dist(c, k, n) = IF k > c THEN k - c - 1 ELSE k - c - 1 + n
  BY DistValue
<1> QED BY <1>1, <1>2

\* The slot the loop looks at in iteration i of a scan behind c.
LEMMA ScanIndex ==
    ASSUME NEW n \in Nat \ {0}, NEW c \in -1 .. n - 1, NEW k \in 0 .. n - 1
    PROVE  LET x == (((c + 1) % n) + k) % n
           IN  x \in 0 .. n - 1 /\ Dist(c, x, n) = k
<1> DEFINE s == (c + 1) % n
           x == (s + k) % n
<1>1. s = IF c + 1 = n THEN 0 ELSE c + 1
  <2>1. CASE c + 1 = n
    BY <2>1, ModOver
  <2>2. CASE c + 1 # n
    BY <2>2, ModSmall
  <2> QED BY <2>1, <2>2
<1>2. x = IF s + k < n THEN s + k ELSE s + k - n
  <2>1. s \in 0 .. n - 1
    BY <1>1
  <2> HIDE DEF s
  <2>2. CASE s + k < n
    BY <2>1, <2>2, ModSmall
  <2>3. CASE ~(s + k < n)
    <3>1. s + k \in n .. 2 * n - 1
      BY <2>1, <2>3
    <3>2. (s + k) % n = s + k - n
      BY <2>1, <3>1, ModOver
    <3> QED BY <2>1, <2>3, <3>2
  <2> QED BY <2>2, <2>3
<1> HIDE DEF s, x
<1>3. x \in 0 .. n - 1
  BY <1>1, <1>2
<1>4. Dist(c, x, n) = IF x > c THEN x - c - 1 ELSE x - c - 1 + n
  BY <1>3, DistValue
<1>5. Dist(c, x, n) = k
  BY <1>1, <1>2, <1>3, <1>4
<1> QED BY <1>3, <1>5 DEF s, x

\* Walking on from m instead of c: what lies between m and k as seen from c is
\* closer to m than k is.
LEMMA DistThrough ==
    ASSUME NEW n \in Nat \ {0}, NEW c \in -1 .. n - 1,
           NEW m \in 0 .. n - 1, NEW j \in 0 .. n - 1, NEW k \in 0 .. n - 1,
           Dist(c, m, n) < Dist(c, j, n), Dist(c, j, n) < Dist(c, k, n)
    PROVE  Dist(m, j, n) < Dist(m, k, n)
<1>1. Dist(c, m, n) = IF m > c THEN m - c - 1 ELSE m - c - 1 + n
  BY DistValue
<1>2. Dist(c, j, n) = IF j > c THEN j - c - 1 ELSE j - c - 1 + n
  BY DistValue
<1>3. Dist(c, k, n) = IF k > c THEN k - c - 1 ELSE k - c - 1 + n
  BY DistValue
<1>4. Dist(m, j, n) = IF j > m THEN j - m - 1 ELSE j - m - 1 + n
  BY DistValue
<1>5. Dist(m, k, n) = IF k > m THEN k - m - 1 ELSE k - m - 1 + n
  BY DistValue
<1> QED BY <1>1, <1>2, <1>3, <1>4, <1>5

\* Seen from a slot that lies before k, k is closer than it was.
LEMMA DistShrinks ==
    ASSUME NEW n \in Nat \ {0}, NEW c \in -1 .. n - 1,
           NEW m \in 0 .. n - 1, NEW k \in 0 .. n - 1,
           Dist(c, m, n) < Dist(c, k, n)
    PROVE  Dist(m, k, n) < Dist(c, k, n)
<1>1. Dist(c, m, n) = IF m > c THEN m - c - 1 ELSE m - c - 1 + n
  BY DistValue
<1>2. Dist(c, k, n) = IF k > c THEN k - c - 1 ELSE k - c - 1 + n
  BY DistValue
<1>3. Dist(m, k, n) = IF k > m THEN k - m - 1 ELSE k - m - 1 + n
  BY DistValue
<1> QED BY <1>1, <1>2, <1>3

-----------------------------------------------------------------------------
\* Among the candidates there is one of the best priority.
LEMMA BestExists ==
    ASSUME NEW n \in Nat \ {0}, NEW st, NEW pr, NEW lo \in Int,
           \A k \in 0 .. n - 1 : pr[k] \in Int /\ pr[k] >= lo,
           Candidates(n, st, pr) # {}
    PROVE  Best(n, st, pr) # {}
<1> DEFINE C == Candidates(n, st, pr)
           S == {pr[k] - lo : k \in C}
<1>1. C \subseteq 0 .. n - 1 /\ C # {}
  BY DEF Candidates
<1> HIDE DEF C
<1>2. S \in SUBSET Nat /\ S # {}
  <2>1. \A k \in C : pr[k] - lo \in Nat
    BY <1>1
  <2> QED BY <1>1, <2>1
<1>3. PICK m \in S : \A x \in S : m <= x
  BY <1>2, LeastNat
<1>4. PICK k \in C : m = pr[k] - lo
  BY <1>3
<1>5. \A j \in C : pr[k] <= pr[j]
  <2> TAKE j \in C
  <2>1. m <= pr[j] - lo
    BY <1>3
  <2> QED BY <1>1, <1>4, <2>1
<1>6. k \in Best(n, st, pr)
  BY <1>4, <1>5 DEF C, Best
<1> QED BY <1>6

\* PickTask names the first of the best candidates behind c.
LEMMA PickIsFirst ==
    ASSUME NEW n \in Nat \ {0}, NEW c \in -1 .. n - 1,
           NEW st, NEW pr, NEW lo \in Int,
           \A k \in 0 .. n - 1 : pr[k] \in Int /\ pr[k] >= lo,
           Candidates(n, st, pr) # {}
    PROVE  /\ PickTask(n, c, st, pr) \in Best(n, st, pr)
           /\ \A j \in Best(n, st, pr) :
                 Dist(c, PickTask(n, c, st, pr), n) <= Dist(c, j, n)
<1> DEFINE B == Best(n, st, pr)
           S == {Dist(c, k, n) : k \in B}
<1>1. B # {}
  BY BestExists
<1>2. B \subseteq 0 .. n - 1
  BY DEF Best, Candidates
<1> HIDE DEF B
<1>3. S \in SUBSET Nat /\ S # {}
  <2>1. ASSUME NEW k \in B
        PROVE  Dist(c, k, n) \in Nat
    <3>1. k \in 0 .. n - 1
      BY <1>2
    <3>2. Dist(c, k, n) \in 0 .. n - 1
      BY <3>1, DistRange
    <3> QED BY <3>2
  <2> QED BY <1>1, <2>1
<1>4. PICK m \in S : \A x \in S : m <= x
  BY <1>3, LeastNat
<1>5. \E k \in B : \A j \in B : Dist(c, k, n) <= Dist(c, j, n)
  BY <1>4
<1> QED BY <1>5 DEF B, PickTask

\* Whoever is first among the best candidates is the one PickTask names.
LEMMA PickUnique ==
    ASSUME NEW n \in Nat \ {0}, NEW c \in -1 .. n - 1, NEW st, NEW pr,
           NEW k \in Best(n, st, pr),
           \A j \in Best(n, st, pr) : Dist(c, k, n) <= Dist(c, j, n)
    PROVE  PickTask(n, c, st, pr) = k
<1> DEFINE B == Best(n, st, pr)
           p == PickTask(n, c, st, pr)
<1>1. B \subseteq 0 .. n - 1 /\ Candidates(n, st, pr) # {}
  BY DEF Best, Candidates
<1>2. p \in B /\ \A j \in B : Dist(c, p, n) <= Dist(c, j, n)
  BY <1>1 DEF PickTask
<1> HIDE DEF B, p
<1>3. Dist(c, p, n) <= Dist(c, k, n) /\ Dist(c, k, n) <= Dist(c, p, n)
  BY <1>2 DEF B
<1>4. Dist(c, p, n) \in Int /\ Dist(c, k, n) \in Int
  BY <1>1, <1>2, DistRange DEF B
<1>5. p = k
  BY <1>1, <1>2, <1>3, <1>4, DistInjective DEF B
<1> QED BY <1>5 DEF p
===============================================================================
