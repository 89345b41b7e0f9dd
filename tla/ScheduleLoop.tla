----------------------------- MODULE ScheduleLoop -----------------------------
(***************************************************************************)
(* The selection loop of TaskManager::Schedule, one iteration per step.     *)
(* Finding a better task restarts the loop (i = -1, then i++) behind that   *)
(* task, so that the index, the start of the scan and the bound on the      *)
(* priority move together.  What it reads (n, cur, st, pr: numTasks,        *)
(* currentTask, and the states and priorities of the table) does not change *)
(* while it runs, because the handler runs with interrupts disabled.        *)
(***************************************************************************)
EXTENDS Integers, FiniteSets, SchedulePick

CONSTANTS
    MaxTasks,       \* bound on numTasks
    Levels          \* the priorities tasks may have

ASSUME MaxTasksAssumption == MaxTasks \in Nat \ {0}
ASSUME LevelsAssumption == Levels \subseteq Int

VARIABLES
    n, cur, st, pr,                                 \* read only
    i, startIndex, highestPriority, nextTaskIndex,  \* locals of Schedule
    pc                                              \* "loop" or "done"

input == <<n, cur, st, pr>>
vars == <<n, cur, st, pr, i, startIndex, highestPriority, nextTaskIndex, pc>>

\* currentTask is -1 only at the first interrupt, when AddTask has run once.
Init ==
    /\ n \in 1 .. MaxTasks
    /\ cur \in -1 .. n - 1
    /\ cur = -1 => n = 1
    /\ st \in [0 .. n - 1 -> TaskStates]
    /\ pr \in [0 .. n - 1 -> Levels]
    /\ i = 0
    /\ startIndex = (cur + 1) % n
    /\ highestPriority = PriorityLimit
    /\ nextTaskIndex = cur
    /\ pc = "loop"

idx == (startIndex + i) % n

\* Mutant: an equal priority is taken too.
IsBetterOrEqual ==
    st[idx] \notin Unrunnable /\ pr[idx] <= highestPriority

IsBetter == st[idx] \notin Unrunnable /\ pr[idx] < highestPriority

\* Mutant: the scan goes on behind the task found without starting again.
TakeNoRestart ==
    /\ highestPriority' = pr[idx]
    /\ nextTaskIndex' = idx
    /\ i' = i + 1
    /\ startIndex' = (idx + 1) % n

Take ==
    /\ highestPriority' = pr[idx]
    /\ nextTaskIndex' = idx
    /\ i' = 0
    /\ startIndex' = (idx + 1) % n

Better ==
    /\ pc = "loop"
    /\ i < n
    /\ IsBetter
    /\ Take
    /\ UNCHANGED <<input, pc>>

Pass ==
    /\ pc = "loop"
    /\ i < n
    /\ ~IsBetter
    /\ i' = i + 1
    /\ UNCHANGED <<input, startIndex, highestPriority, nextTaskIndex, pc>>

Leave ==
    /\ pc = "loop"
    /\ i >= n
    /\ pc' = "done"
    /\ UNCHANGED <<input, i, startIndex, highestPriority, nextTaskIndex>>

Next == Better \/ Pass \/ Leave

Spec == Init /\ [][Next]_vars

\* The handler is one uninterrupted run of the processor.
FairSpec == Spec /\ WF_vars(Next)

-----------------------------------------------------------------------------
\* The locals stay in range; idx is always a slot of the table.
TypeOK ==
    /\ n \in 1 .. MaxTasks
    /\ cur \in -1 .. n - 1
    /\ st \in [0 .. n - 1 -> TaskStates]
    /\ pr \in [0 .. n - 1 -> Levels]
    /\ i \in 0 .. n
    /\ startIndex = (nextTaskIndex + 1) % n
    /\ highestPriority \in Levels \cup {PriorityLimit}
    /\ nextTaskIndex \in -1 .. n - 1
    /\ pc \in {"loop", "done"}

\* What the loop has established so far: the i tasks behind nextTaskIndex are no
\* better than it, and those between the current task and it are worse.
Scanned ==
    \A j \in Candidates(n, st, pr) :
        Dist(nextTaskIndex, j, n) < i => pr[j] >= highestPriority

FoundFirst ==
    highestPriority < PriorityLimit =>
        /\ nextTaskIndex \in Candidates(n, st, pr)
        /\ highestPriority = pr[nextTaskIndex]
        /\ \A j \in Candidates(n, st, pr) :
              Dist(cur, j, n) < Dist(cur, nextTaskIndex, n) => pr[j] > highestPriority

NothingFound ==
    highestPriority >= PriorityLimit =>
        highestPriority = PriorityLimit /\ nextTaskIndex = cur

AllScanned == pc = "done" => i = n

LoopInv == TypeOK /\ Scanned /\ FoundFirst /\ NothingFound /\ AllScanned

\* The loop of Schedule ends with the task PickTask names: the runnable task of
\* the best priority that comes first behind the current one.
LoopPicks == pc = "done" => nextTaskIndex = PickTask(n, cur, st, pr)

\* The tasks the loop would still take instead of the one it has.
BetterTasks == {j \in Candidates(n, st, pr) : pr[j] < highestPriority}

\* At most so many steps are left: a whole scan for every task that could be taken, the
\* rest of this one, and the exit.
StepsLeft == Cardinality(BetterTasks) * (n + 1) + (n - i) + IF pc = "loop" THEN 1 ELSE 0

\* Although a better task restarts the loop, every step brings its end nearer.
LoopAdvances == [][StepsLeft' \in Nat /\ StepsLeft' < StepsLeft]_vars

\* Restarting the loop at every better task does not keep it from ending.
LoopEnds == <>(pc = "done")
=============================================================================
