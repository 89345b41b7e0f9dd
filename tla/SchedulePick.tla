---------------------------- MODULE SchedulePick ----------------------------
(***************************************************************************)
(* What the selection loop of TaskManager::Schedule chooses, as constant    *)
(* operators: n is numTasks, cur is currentTask, st and pr give the state   *)
(* and the priority of every slot of the process table.  ScheduleLoop runs  *)
(* the loop of the code one iteration at a time and shows that it computes  *)
(* PickTask; TaskManager uses PickTask as one step of its handlers.         *)
(***************************************************************************)
EXTENDS Integers

TaskStates == {"Ready", "Running", "Blocked", "Terminated"}

\* Mutant: the test for Terminated is forgotten.
UnrunnableBlocked == {"Blocked"}

Unrunnable == {"Blocked", "Terminated"}

\* The initial value of highestPriority: a task at or above it is never taken.
PriorityLimit == 255

\* The slots whose test inside the loop can succeed.
Candidates(n, st, pr) ==
    {i \in 0 .. n - 1 : st[i] \notin Unrunnable /\ pr[i] < PriorityLimit}

\* The candidates with the numerically lowest priority.
Best(n, st, pr) ==
    {i \in Candidates(n, st, pr) : \A j \in Candidates(n, st, pr) : pr[i] <= pr[j]}

\* How many slots the circular scan that starts behind cur passes before i.
Dist(cur, i, n) == (i - cur - 1) % n

\* Mutant: the scan always starts at slot 0.
PickFirst(n, cur, st, pr) ==
    IF Candidates(n, st, pr) = {}
    THEN cur
    ELSE CHOOSE i \in Best(n, st, pr) : \A j \in Best(n, st, pr) : i <= j

(***************************************************************************)
(* The next task: among the best candidates the first one behind the        *)
(* current task, and the current task itself, whatever its state, when      *)
(* there is no candidate (nextTaskIndex is initialised to currentTask).     *)
(***************************************************************************)
PickTask(n, cur, st, pr) ==
    IF Candidates(n, st, pr) = {}
    THEN cur
    ELSE CHOOSE i \in Best(n, st, pr) :
            \A j \in Best(n, st, pr) : Dist(cur, i, n) <= Dist(cur, j, n)
=============================================================================
