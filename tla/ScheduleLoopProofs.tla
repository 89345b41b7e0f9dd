-------------------------- MODULE ScheduleLoopProofs --------------------------
(***************************************************************************)
(* The selection loop of Schedule computes PickTask, for every table size   *)
(* and all priorities.                                                      *)
(***************************************************************************)
EXTENDS ScheduleLoop, SchedulePickProofs, FiniteSetTheorems

\* Before the first iteration nothing has been scanned or found.
LEMMA InitLoopInv == Init => LoopInv
<1> SUFFICES ASSUME Init PROVE LoopInv
  OBVIOUS
<1> USE MaxTasksAssumption, LevelsAssumption
<1>1. TypeOK
  BY DEF Init, TypeOK, PriorityLimit
<1>2. n \in Nat \ {0} /\ nextTaskIndex \in -1 .. n - 1 /\ i = 0
  BY DEF Init
<1>3. Scanned
  <2> SUFFICES ASSUME NEW j \in 0 .. n - 1
               PROVE  ~(Dist(nextTaskIndex, j, n) < i)
    BY DEF Scanned, Candidates
  <2> QED BY <1>2, DistRange
<1>4. FoundFirst /\ NothingFound /\ AllScanned
  BY DEF Init, FoundFirst, NothingFound, AllScanned, PriorityLimit
<1> QED BY <1>1, <1>3, <1>4 DEF LoopInv

\* A step of the loop keeps what the loop has established.
LEMMA NextLoopInv == LoopInv /\ [Next]_vars => LoopInv'
<1> SUFFICES ASSUME LoopInv, [Next]_vars PROVE LoopInv'
  OBVIOUS
<1> USE MaxTasksAssumption, LevelsAssumption
<1> DEFINE C == Candidates(n, st, pr)
<1>1. /\ n \in Nat \ {0} /\ cur \in -1 .. n - 1
      /\ pr \in [0 .. n - 1 -> Int]
      /\ i \in 0 .. n
      /\ nextTaskIndex \in -1 .. n - 1
      /\ startIndex = (nextTaskIndex + 1) % n
      /\ highestPriority \in Int
  <2>1. pr \in [0 .. n - 1 -> Levels] /\ n \in 1 .. MaxTasks
    BY DEF LoopInv, TypeOK
  <2>2. pr \in [0 .. n - 1 -> Int]
    BY <2>1
  <2> QED BY <2>1, <2>2 DEF LoopInv, TypeOK, PriorityLimit
<1>2. C \subseteq 0 .. n - 1
  BY DEF Candidates
<1>3. CASE Better
  <2>1. idx \in 0 .. n - 1 /\ Dist(nextTaskIndex, idx, n) = i
    <3>1. i \in 0 .. n - 1
      BY <1>1, <1>3 DEF Better
    <3> QED BY <1>1, <3>1, ScanIndex DEF idx
  <2>2. /\ UNCHANGED <<n, cur, st, pr, pc>>
        /\ pc = "loop"
        /\ st[idx] \notin Unrunnable
        /\ pr[idx] < highestPriority
        /\ highestPriority' = pr[idx]
        /\ nextTaskIndex' = idx
        /\ i' = 0
        /\ startIndex' = (idx + 1) % n
    BY <1>3 DEF Better, IsBetter, Take, input
  <2> HIDE DEF idx
  <2>3. highestPriority <= PriorityLimit
    BY <1>1 DEF LoopInv, NothingFound, PriorityLimit
  <2>4. pr[idx] < PriorityLimit /\ pr[idx] \in Levels /\ pr[idx] \in Int
    <3>1. pr \in [0 .. n - 1 -> Levels]
      BY DEF LoopInv, TypeOK
    <3> QED BY <1>1, <2>1, <2>2, <2>3, <3>1 DEF PriorityLimit
  <2>5. idx \in C
    BY <2>1, <2>2, <2>4 DEF Candidates
  <2>6. TypeOK'
    BY <1>1, <2>1, <2>2, <2>4 DEF LoopInv, TypeOK
  <2>7. Scanned'
    <3> SUFFICES ASSUME NEW j \in 0 .. n - 1
                 PROVE  ~(Dist(idx, j, n) < 0)
      BY <2>2 DEF Scanned, Candidates
    <3>1. idx \in -1 .. n - 1
      BY <2>1
    <3>2. Dist(idx, j, n) \in 0 .. n - 1
      BY <1>1, <3>1, DistRange
    <3> QED BY <3>2
  <2>8. ASSUME NEW j \in C, Dist(cur, j, n) < Dist(cur, idx, n)
        PROVE  pr[j] > pr[idx]
    <3>1. j \in 0 .. n - 1 /\ pr[j] \in Int /\ pr[j] < PriorityLimit
      BY <1>1, <1>2 DEF Candidates
    <3>2. pr[j] >= highestPriority \/ Dist(nextTaskIndex, j, n) >= i
      <4>1. Dist(nextTaskIndex, j, n) \in Int
        BY <1>1, <3>1, DistRange
      <4>2. Dist(nextTaskIndex, j, n) < i => pr[j] >= highestPriority
        BY DEF LoopInv, Scanned
      <4> QED BY <1>1, <4>1, <4>2
    <3>3. CASE highestPriority < PriorityLimit
      <4>1. /\ nextTaskIndex \in 0 .. n - 1
            /\ highestPriority = pr[nextTaskIndex]
            /\ Dist(cur, j, n) < Dist(cur, nextTaskIndex, n) => pr[j] > highestPriority
        BY <3>3, <1>2 DEF LoopInv, FoundFirst
      <4>2. CASE Dist(cur, j, n) < Dist(cur, nextTaskIndex, n)
        BY <4>1, <4>2, <3>1, <2>2, <2>4, <1>1
      <4>3. CASE j = nextTaskIndex
        BY <4>1, <4>3, <3>1, <2>2, <2>4, <1>1
      <4>4. CASE Dist(cur, nextTaskIndex, n) < Dist(cur, j, n)
        <5>1. Dist(nextTaskIndex, j, n) < Dist(nextTaskIndex, idx, n)
          BY <1>1, <2>1, <2>8, <3>1, <4>1, <4>4, DistThrough
        <5>2. Dist(nextTaskIndex, j, n) \in Int
          BY <1>1, <3>1, DistRange
        <5>3. pr[j] >= highestPriority
          BY <1>1, <2>1, <3>2, <5>1, <5>2
        <5> QED BY <5>3, <3>1, <2>2, <2>4, <1>1
      <4> QED BY <1>1, <3>1, <4>1, <4>2, <4>3, <4>4, DistInjective
    <3>4. CASE ~(highestPriority < PriorityLimit)
      <4>1. nextTaskIndex = cur /\ highestPriority = PriorityLimit
        BY <3>4, <1>1 DEF LoopInv, NothingFound, PriorityLimit
      <4>2. Dist(nextTaskIndex, j, n) < i
        BY <2>1, <2>8, <4>1
      <4>3. Dist(nextTaskIndex, j, n) \in Int
        BY <1>1, <3>1, DistRange
      <4>4. pr[j] >= PriorityLimit
        BY <1>1, <3>2, <4>1, <4>2, <4>3
      <4> QED BY <3>1, <4>4 DEF PriorityLimit
    <3> QED BY <3>3, <3>4
  <2>9. FoundFirst'
    BY <2>2, <2>5, <2>8 DEF FoundFirst
  <2>10. NothingFound' /\ AllScanned'
    BY <2>2, <2>4 DEF NothingFound, AllScanned, PriorityLimit
  <2> QED BY <2>6, <2>7, <2>9, <2>10 DEF LoopInv
<1>4. CASE Pass
  <2>1. idx \in 0 .. n - 1 /\ Dist(nextTaskIndex, idx, n) = i
    <3>1. i \in 0 .. n - 1
      BY <1>1, <1>4 DEF Pass
    <3> QED BY <1>1, <3>1, ScanIndex DEF idx
  <2>2. /\ UNCHANGED <<n, cur, st, pr, pc, startIndex, highestPriority, nextTaskIndex>>
        /\ pc = "loop"
        /\ i < n
        /\ st[idx] \in Unrunnable \/ ~(pr[idx] < highestPriority)
        /\ i' = i + 1
    BY <1>4 DEF Pass, IsBetter, input
  <2> HIDE DEF idx
  <2>3. TypeOK'
    BY <1>1, <2>2 DEF LoopInv, TypeOK
  <2>4. ASSUME NEW j \in C, Dist(nextTaskIndex, j, n) < i + 1
        PROVE  pr[j] >= highestPriority
    <3>1. j \in 0 .. n - 1 /\ pr[j] \in Int /\ st[j] \notin Unrunnable
      BY <1>1, <1>2 DEF Candidates
    <3>2. CASE j = idx
      BY <1>1, <2>2, <3>1, <3>2
    <3>3. CASE j # idx
      <4>1. Dist(nextTaskIndex, j, n) < i
        <5>1. Dist(nextTaskIndex, j, n) \in Int
          BY <1>1, <3>1, DistRange
        <5>2. \/ Dist(nextTaskIndex, j, n) < Dist(nextTaskIndex, idx, n)
              \/ Dist(nextTaskIndex, idx, n) < Dist(nextTaskIndex, j, n)
          BY <1>1, <2>1, <3>1, <3>3, DistInjective
        <5> QED BY <1>1, <2>1, <2>4, <5>1, <5>2
      <4> QED BY <4>1 DEF LoopInv, Scanned
    <3> QED BY <3>2, <3>3
  <2>5. Scanned'
    BY <2>2, <2>4 DEF Scanned
  <2>6. FoundFirst' /\ NothingFound' /\ AllScanned'
    BY <2>2 DEF LoopInv, FoundFirst, NothingFound, AllScanned
  <2> QED BY <2>3, <2>5, <2>6 DEF LoopInv
<1>5. CASE Leave
  <2>1. UNCHANGED <<n, cur, st, pr, i, startIndex, highestPriority, nextTaskIndex>>
    BY <1>5 DEF Leave, input
  <2>2. TypeOK' /\ AllScanned'
    BY <1>5, <2>1 DEF Leave, LoopInv, TypeOK, AllScanned
  <2>3. Scanned' /\ FoundFirst' /\ NothingFound'
    BY <2>1 DEF LoopInv, Scanned, FoundFirst, NothingFound
  <2> QED BY <2>2, <2>3 DEF LoopInv
<1>6. CASE UNCHANGED vars
  BY <1>6 DEF vars, LoopInv, TypeOK, Scanned, FoundFirst, NothingFound, AllScanned
<1> QED BY <1>3, <1>4, <1>5, <1>6 DEF Next

\* When the whole table has been scanned, the task found is the one PickTask names.
LEMMA LoopInvPicks == LoopInv => LoopPicks
<1> SUFFICES ASSUME LoopInv, pc = "done"
             PROVE  nextTaskIndex = PickTask(n, cur, st, pr)
  BY DEF LoopPicks
<1> USE MaxTasksAssumption, LevelsAssumption
<1> DEFINE C == Candidates(n, st, pr)
<1>1. /\ n \in Nat \ {0} /\ cur \in -1 .. n - 1
      /\ pr \in [0 .. n - 1 -> Int]
      /\ nextTaskIndex \in -1 .. n - 1
      /\ highestPriority \in Int
      /\ i = n
  <2>1. pr \in [0 .. n - 1 -> Levels] /\ n \in 1 .. MaxTasks
    BY DEF LoopInv, TypeOK
  <2>2. pr \in [0 .. n - 1 -> Int]
    BY <2>1
  <2> QED BY <2>1, <2>2 DEF LoopInv, TypeOK, AllScanned, PriorityLimit
<1>2. C \subseteq 0 .. n - 1 /\ \A j \in C : pr[j] \in Int /\ pr[j] < PriorityLimit
  BY <1>1 DEF Candidates
<1>3. ASSUME NEW j \in C
      PROVE  pr[j] >= highestPriority
  <2>1. Dist(nextTaskIndex, j, n) \in 0 .. n - 1
    BY <1>1, <1>2, DistRange
  <2>2. Dist(nextTaskIndex, j, n) < i
    BY <1>1, <2>1
  <2> QED BY <2>2 DEF LoopInv, Scanned
<1>4. CASE highestPriority < PriorityLimit
  <2>1. nextTaskIndex \in C /\ highestPriority = pr[nextTaskIndex]
    BY <1>4 DEF LoopInv, FoundFirst
  <2>2. nextTaskIndex \in Best(n, st, pr)
    BY <1>1, <1>2, <1>3, <2>1 DEF Best
  <2>3. ASSUME NEW j \in Best(n, st, pr)
        PROVE  Dist(cur, nextTaskIndex, n) <= Dist(cur, j, n)
    <3>1. j \in C /\ pr[j] <= pr[nextTaskIndex]
      BY <2>1 DEF Best
    <3>2. Dist(cur, j, n) < Dist(cur, nextTaskIndex, n) => pr[j] > highestPriority
      BY <1>4, <3>1 DEF LoopInv, FoundFirst
    <3>3. Dist(cur, j, n) \in Int /\ Dist(cur, nextTaskIndex, n) \in Int
      <4>1. j \in 0 .. n - 1 /\ nextTaskIndex \in 0 .. n - 1
        BY <1>2, <2>1, <3>1
      <4>2. Dist(cur, j, n) \in 0 .. n - 1
        BY <1>1, <4>1, DistRange
      <4>3. Dist(cur, nextTaskIndex, n) \in 0 .. n - 1
        BY <1>1, <4>1, DistRange
      <4> QED BY <4>2, <4>3
    <3>4. ~(pr[j] > highestPriority)
      BY <1>1, <1>2, <2>1, <3>1
    <3> QED BY <3>2, <3>3, <3>4
  <2> QED BY <1>1, <2>2, <2>3, PickUnique
<1>5. CASE ~(highestPriority < PriorityLimit)
  <2>1. nextTaskIndex = cur /\ highestPriority = PriorityLimit
    BY <1>1, <1>5 DEF LoopInv, NothingFound, PriorityLimit
  <2>2. C = {}
    BY <1>1, <1>2, <1>3, <2>1 DEF PriorityLimit
  <2> QED BY <2>1, <2>2 DEF PickTask
<1> QED BY <1>4, <1>5

\* The strengthened invariant holds in every state of the loop.
THEOREM LoopInvariant == Spec => []LoopInv
  BY InitLoopInv, NextLoopInv, PTL DEF Spec

\* The loop of Schedule, whenever it ends, has chosen the task that PickTask
\* names: round robin among the runnable tasks of the best priority.
THEOREM LoopCorrect == Spec => []LoopPicks
  BY LoopInvariant, LoopInvPicks, PTL

\* A set of slots has a size.
LEMMA SlotSets ==
    ASSUME NEW m \in Nat, NEW S \in SUBSET (0 .. m - 1)
    PROVE  IsFiniteSet(S) /\ Cardinality(S) \in Nat
<1>1. IsFiniteSet(0 .. m - 1)
  BY FS_Interval
<1> QED BY <1>1, FS_Subset, FS_CardinalityType

\* A better task that is taken, and whatever is no better than it, is taken no more.
LEMMA FewerTasks ==
    ASSUME LoopInv, LoopInv', Better
    PROVE  Cardinality(BetterTasks') < Cardinality(BetterTasks)
<1>1. n \in Nat \ {0} /\ i \in 0 .. n - 1 /\ nextTaskIndex \in -1 .. n - 1
      /\ startIndex = (nextTaskIndex + 1) % n
  BY MaxTasksAssumption DEF Better, LoopInv, TypeOK
<1>2. idx \in 0 .. n - 1
  BY <1>1, ScanIndex DEF idx
<1>3. /\ UNCHANGED <<n, st, pr>> /\ highestPriority' = pr[idx]
      /\ st[idx] \notin Unrunnable /\ pr[idx] < highestPriority
  BY DEF Better, IsBetter, Take, input
<1>4. /\ pr \in [0 .. n - 1 -> Int] /\ highestPriority \in Int
      /\ highestPriority <= PriorityLimit
  <2>1. pr \in [0 .. n - 1 -> Levels]
    BY DEF LoopInv, TypeOK
  <2>2. pr \in [0 .. n - 1 -> Int]
    BY <2>1, LevelsAssumption
  <2>3. highestPriority \in Int
    BY LevelsAssumption DEF LoopInv, TypeOK, PriorityLimit
  <2> QED BY <2>2, <2>3 DEF LoopInv, NothingFound, PriorityLimit
<1>5. idx \in BetterTasks
  <2>1. pr[idx] < PriorityLimit
    BY <1>2, <1>3, <1>4 DEF PriorityLimit
  <2> QED BY <1>2, <1>3, <2>1 DEF BetterTasks, Candidates
<1>6. idx \notin BetterTasks'
  BY <1>2, <1>3, <1>4 DEF BetterTasks
<1>7. BetterTasks' \subseteq BetterTasks
  <2> SUFFICES ASSUME NEW j \in BetterTasks' PROVE j \in BetterTasks
    OBVIOUS
  <2>1. j \in Candidates(n, st, pr) /\ pr[j] < pr[idx]
    BY <1>3 DEF BetterTasks
  <2>2. j \in 0 .. n - 1
    BY <2>1 DEF Candidates
  <2> QED BY <1>2, <1>3, <1>4, <2>1, <2>2 DEF BetterTasks
<1>8. IsFiniteSet(BetterTasks)
  <2>1. BetterTasks \subseteq 0 .. n - 1
    BY DEF BetterTasks, Candidates
  <2> QED BY <1>1, <2>1, SlotSets
<1>9. BetterTasks' # BetterTasks
  BY <1>5, <1>6
<1> HIDE DEF idx
<1> QED BY <1>7, <1>8, <1>9, FS_Subset, FS_CardinalityType

\* The product in StepsLeft, with one task fewer.
LEMMA ScanSaved ==
    ASSUME NEW a \in Nat, NEW b \in Nat, NEW m \in Nat, a < b
    PROVE  a * (m + 1) + m + 1 <= b * (m + 1) /\ a * (m + 1) \in Nat /\ b * (m + 1) \in Nat
<1>1. PICK d \in Nat : b = a + 1 + d
  <2>1. b - a - 1 \in Nat /\ b = a + 1 + (b - a - 1)
    OBVIOUS
  <2> QED BY <2>1
<1>2. b * (m + 1) = a * (m + 1) + (m + 1) + d * (m + 1)
  BY <1>1, Z3
<1>3. a * (m + 1) \in Nat /\ d * (m + 1) \in Nat
  BY Z3
<1> QED BY <1>2, <1>3

\* The loop of Schedule comes nearer to its end with every step: it cannot go on for ever,
\* however many better tasks restart it.
THEOREM LoopStepsDown == Spec => LoopAdvances
<1> DEFINE Down == StepsLeft' \in Nat /\ StepsLeft' < StepsLeft
<1>1. LoopInv /\ LoopInv' /\ [Next]_vars => [Down]_vars
  <2> SUFFICES ASSUME LoopInv, LoopInv', Next PROVE Down
    OBVIOUS
  <2> DEFINE c == Cardinality(BetterTasks)
             was == c * (n + 1)
             is == c' * (n + 1)
  <2>1. /\ n \in Nat /\ i \in 0 .. n /\ n' = n /\ i' \in 0 .. n
        /\ pc \in {"loop", "done"} /\ pc' \in {"loop", "done"}
    <3>1. n' = n
      BY DEF Next, Better, Pass, Leave, input
    <3> QED BY <3>1, MaxTasksAssumption DEF LoopInv, TypeOK
  <2>2. c \in Nat /\ c' \in Nat
    <3>1. BetterTasks \subseteq 0 .. n - 1 /\ BetterTasks' \subseteq 0 .. n - 1
      BY <2>1 DEF BetterTasks, Candidates
    <3> QED BY <2>1, <3>1, SlotSets
  <2>3. /\ StepsLeft = was + (n - i) + IF pc = "loop" THEN 1 ELSE 0
        /\ StepsLeft' = is + (n - i') + IF pc' = "loop" THEN 1 ELSE 0
    BY <2>1 DEF StepsLeft
  <2> HIDE DEF c
  <2>6. was \in Nat /\ is \in Nat
    <3>1. \A a, b \in Nat : a * (b + 1) \in Nat
      BY Z3
    <3> QED BY <2>1, <2>2, <3>1
  <2>4. CASE Better
    <3>1. pc = "loop" /\ pc' = "loop" /\ i' = 0 /\ i < n
      BY <2>4 DEF Better, Take
    <3>2. c' < c
      BY <2>4, FewerTasks DEF c
    <3>3. is + n + 1 <= was
      BY <2>1, <2>2, <3>2, ScanSaved
    <3> HIDE DEF was, is
    <3> QED BY <2>1, <2>3, <2>6, <3>1, <3>3
  <2>5. CASE Pass \/ Leave
    <3>1. UNCHANGED <<n, st, pr, highestPriority>>
      BY <2>5 DEF Pass, Leave, input
    <3>2. is = was
      BY <3>1 DEF c, BetterTasks
    <3> HIDE DEF was, is
    <3>3. CASE Pass
      <4>1. pc = "loop" /\ pc' = "loop" /\ i' = i + 1
        BY <3>3 DEF Pass
      <4> QED BY <2>1, <2>3, <2>6, <3>2, <4>1
    <3>4. CASE Leave
      <4>1. pc = "loop" /\ pc' = "done" /\ i' = i
        BY <3>4 DEF Leave
      <4> QED BY <2>1, <2>3, <2>6, <3>2, <4>1
    <3> QED BY <2>5, <3>3, <3>4
  <2> QED BY <2>4, <2>5 DEF Next
<1>2. LoopAdvances <=> [][Down]_vars
  BY DEF LoopAdvances
<1> QED BY <1>1, <1>2, LoopInvariant, PTL DEF Spec
=============================================================================
