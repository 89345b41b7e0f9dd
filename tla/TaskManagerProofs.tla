-------------------------- MODULE TaskManagerProofs --------------------------
(***************************************************************************)
(* TaskManager for every size of the process table, every program and every *)
(* priority: type correctness, the process tree, the value fork returns and *)
(* the progress of round robin.  Then, for disciplined programs, exit and    *)
(* waitpid: a process that exits stays terminated, waitpid returns only     *)
(* after the child has exited, and no waiting process is forgotten.         *)
(***************************************************************************)
EXTENDS TaskManager, SchedulePickProofs

\* All the proofs need of the range of int.
LEMMA IntBounds ==
    INT_MAX \in Int /\ INT_MIN \in Int /\ INT_MIN <= -1 /\ 1 <= INT_MAX
  BY Z3 DEF INT_MAX, INT_MIN

LEMMA SmallInts == -1 \in Int32 /\ 0 \in Int32 /\ 1 \in Int32
  BY IntBounds DEF Int32

-----------------------------------------------------------------------------
(* What the helpers return.                                                 *)

\* Pids are slot numbers, so the search finds p itself or nothing.
LEMMA FindValue ==
    ASSUME TypeOK, ProcessTree, NEW p \in Slots \cup {NoPid}
    PROVE  findTaskByPID(p) = IF p \in Tasks THEN p ELSE -1
<1> USE TableAssumption
<1> DEFINE hits == {i \in Tasks : pid[i] = p}
<1>1. hits = IF p \in Tasks THEN {p} ELSE {}
  BY DEF ProcessTree, Tasks
<1>2. CASE p \in Tasks
  <2>1. hits = {p}
    BY <1>1, <1>2
  <2>2. p <= p
    BY <1>2 DEF Tasks, TypeOK
  <2> HIDE DEF hits
  <2>3. (CHOOSE i \in hits : \A j \in hits : i <= j) = p
    BY <2>1, <2>2
  <2> QED BY <1>2, <2>1, <2>3 DEF findTaskByPID, hits
<1>3. CASE p \notin Tasks
  BY <1>1, <1>3 DEF findTaskByPID
<1> QED BY <1>2, <1>3

LEMMA WakeWaiterType ==
    ASSUME TypeOK, ProcessTree, NEW st \in [Slots -> TaskStates]
    PROVE  WakeWaiter(st) \in [Slots -> TaskStates]
  BY DEF WakeWaiter, TaskStates

LEMMA AgedType ==
    ASSUME TypeOK, NEW st
    PROVE  Aged(st) \in [Slots -> Int32]
  BY SmallInts DEF Aged, TypeOK

LEMMA TasksAreSlots ==
    ASSUME TypeOK
    PROVE  Tasks \subseteq Slots
  BY TableAssumption DEF TypeOK, Tasks, Slots

\* With a candidate in the table, the scheduler takes the first of the best.
LEMMA PickBest ==
    ASSUME TypeOK, numTasks > 0, NEW st, NEW pr \in [Slots -> Int32],
           Candidates(numTasks, st, pr) # {}
    PROVE  LET p == PickTask(numTasks, currentTask, st, pr)
           IN  /\ p \in Best(numTasks, st, pr)
               /\ \A j \in Best(numTasks, st, pr) :
                     Dist(currentTask, p, numTasks) <= Dist(currentTask, j, numTasks)
<1> USE TableAssumption
<1>1. numTasks \in Nat \ {0} /\ currentTask \in -1 .. numTasks - 1
  BY DEF TypeOK
<1>2. \A k \in 0 .. numTasks - 1 : pr[k] \in Int /\ pr[k] >= INT_MIN
  <2>1. \A k \in 0 .. numTasks - 1 : pr[k] \in Int32
    BY DEF TypeOK, Slots
  <2> QED BY <2>1, IntBounds DEF Int32
<1>3. INT_MIN \in Int
  BY IntBounds
<1> QED BY <1>1, <1>2, <1>3, PickIsFirst

\* The choice is a task, or the current one when nothing can be chosen.
LEMMA PickRange ==
    ASSUME TypeOK, numTasks > 0, NEW st, NEW pr \in [Slots -> Int32]
    PROVE  PickTask(numTasks, currentTask, st, pr) \in -1 .. numTasks - 1
<1>1. CASE Candidates(numTasks, st, pr) = {}
  BY <1>1 DEF PickTask, TypeOK
<1>2. CASE Candidates(numTasks, st, pr) # {}
  <2>1. PickTask(numTasks, currentTask, st, pr) \in Best(numTasks, st, pr)
    BY <1>2, PickBest
  <2>2. Best(numTasks, st, pr) \subseteq 0 .. numTasks - 1
    BY DEF Best, Candidates
  <2> QED BY <2>1, <2>2, TableAssumption DEF TypeOK
<1> QED BY <1>1, <1>2

-----------------------------------------------------------------------------
(* Type correctness and the process tree.                                   *)

Typed == TypeOK /\ ProcessTree

\* Schedule leaves a well-typed table.
LEMMA ScheduleType ==
    ASSUME Typed, NEW st \in [Slots -> TaskStates], NEW where \in Frames,
           NEW arg \in Slots \cup {NoPid}, Schedule(st, where, arg)
    PROVE  /\ state' \in [Slots -> TaskStates]
           /\ priority' \in [Slots -> Int32]
           /\ currentTask' \in -1 .. numTasks - 1
           /\ frame' \in [Slots -> Frames]
           /\ target' \in [Slots -> Slots \cup {NoPid}]
           /\ interrupt_count' \in 0 .. MaxCount
<1> DEFINE woken == WakeWaiter(st)
           next  == PickTask(numTasks, currentTask, woken, Aged(woken))
<1>1. woken \in [Slots -> TaskStates] /\ Aged(woken) \in [Slots -> Int32]
  BY WakeWaiterType, AgedType DEF Typed
<1>2. next \in -1 .. numTasks - 1
  BY <1>1, PickRange DEF Typed, Schedule
<1>3. state' = [woken EXCEPT ![next] = "Running"] /\ priority' = Aged(woken)
      /\ currentTask' = next /\ SwitchContext(where, arg, next)
  BY DEF Schedule
<1> HIDE DEF woken, next
<1>4. state' \in [Slots -> TaskStates] /\ priority' \in [Slots -> Int32]
  BY <1>1, <1>3 DEF TaskStates
<1>5. frame' \in [Slots -> Frames] /\ target' \in [Slots -> Slots \cup {NoPid}]
  BY <1>3 DEF SwitchContext, Typed, TypeOK, Frames
<1>6. interrupt_count' \in 0 .. MaxCount
  BY CountAssumption DEF Schedule, Typed, TypeOK
<1> QED BY <1>2, <1>3, <1>4, <1>5, <1>6

LEMMA InitTyped == Init => Typed
<1> SUFFICES ASSUME Init PROVE Typed
  OBVIOUS
<1> USE TableAssumption, CountAssumption, ArgumentAssumption
<1>1. eax_value \in [Slots -> Int32] /\ priority \in [Slots -> Int32]
  BY SmallInts DEF Init
<1>2. TypeOK
  <2>1. /\ pid \in [Slots -> Slots \cup {NoPid}]
        /\ ppid \in [Slots -> Slots \cup {NoPid}]
        /\ waitingProcess \in [Slots -> Slots \cup {NoPid}]
        /\ target \in [Slots -> Slots \cup {NoPid}]
    BY DEF Init
  <2>2. state \in [Slots -> TaskStates] /\ frame \in [Slots -> Frames]
    BY DEF Init, TaskStates, Frames
  <2>3. /\ numTasks \in 0 .. MAX_TASKS /\ currentTask \in -1 .. numTasks - 1
        /\ next_pid \in 0 .. MAX_TASKS /\ interrupt_count \in 0 .. MaxCount
    BY DEF Init
  <2>4. /\ aging_pid \in Slots \cup {NoPid} /\ active \in BOOLEAN
        /\ exited \subseteq Tasks
    BY DEF Init, NoPid
  <2> QED BY <1>1, <2>1, <2>2, <2>3, <2>4 DEF TypeOK
<1>3. ProcessTree
  BY DEF Init, ProcessTree, Tasks, NoPid
<1> QED BY <1>2, <1>3 DEF Typed

\* The new slot keeps the table a tree.
LEMMA NewTaskTyped ==
    ASSUME Typed, ~TableFull, NEW parent \in -1 .. numTasks - 1, NewTask(parent)
    PROVE  /\ ProcessTree'
           /\ pid' \in [Slots -> Slots \cup {NoPid}]
           /\ ppid' \in [Slots -> Slots \cup {NoPid}]
           /\ state' \in [Slots -> TaskStates]
           /\ numTasks' \in 0 .. MAX_TASKS
           /\ next_pid' \in 0 .. MAX_TASKS
           /\ numTasks' = numTasks + 1
<1> USE TableAssumption
<1>1. next_pid = numTasks /\ numTasks \in Slots
  BY DEF Typed, TypeOK, ProcessTree, TableFull, Slots
<1>2. parent \in Slots \cup {NoPid}
  BY <1>1 DEF Slots, NoPid
<1>3. /\ pid' \in [Slots -> Slots \cup {NoPid}]
      /\ ppid' \in [Slots -> Slots \cup {NoPid}]
      /\ state' \in [Slots -> TaskStates]
  BY <1>1, <1>2 DEF NewTask, Typed, TypeOK, TaskStates
<1>4. /\ numTasks' = numTasks + 1 /\ next_pid' = numTasks + 1
      /\ numTasks' \in 0 .. MAX_TASKS
  BY <1>1 DEF NewTask, Slots
<1>5. \A i \in Tasks' : pid'[i] = i /\ ppid'[i] \in -1 .. i - 1
  <2> SUFFICES ASSUME NEW i \in 0 .. numTasks
               PROVE  pid'[i] = i /\ ppid'[i] \in -1 .. i - 1
    BY <1>1, <1>4 DEF Tasks, Slots
  <2>1. CASE i = numTasks
    BY <1>1, <2>1 DEF NewTask, Typed, TypeOK
  <2>2. CASE i # numTasks
    <3>1. i \in Tasks /\ i \in Slots
      BY <1>1, <2>2 DEF Tasks, Slots
    <3> QED BY <2>2, <3>1 DEF NewTask, Typed, TypeOK, ProcessTree
  <2> QED BY <2>1, <2>2
<1>6. \A i \in Slots \ Tasks' : pid'[i] = NoPid /\ ppid'[i] = NoPid
  <2> SUFFICES ASSUME NEW i \in Slots, i \notin Tasks'
               PROVE  pid'[i] = NoPid /\ ppid'[i] = NoPid
    BY DEF Slots
  <2>1. i # numTasks /\ i \notin Tasks
    BY <1>1, <1>4 DEF Tasks, Slots
  <2> QED BY <2>1 DEF NewTask, Typed, TypeOK, ProcessTree
<1> QED BY <1>3, <1>4, <1>5, <1>6 DEF ProcessTree, Slots

\* Every action keeps the table well-typed and a tree.
LEMMA NextTyped == Typed /\ [Next]_vars => Typed'
<1> SUFFICES ASSUME Typed, [Next]_vars PROVE Typed'
  OBVIOUS
<1> USE TableAssumption, CountAssumption, ArgumentAssumption, IntBounds
<1>1. CASE AddTask
  <2>1. -1 \in -1 .. numTasks - 1 /\ NewTask(NoPid) /\ ~TableFull
    BY <1>1 DEF AddTask, Typed, TypeOK
  <2>2. NoPid \in -1 .. numTasks - 1
    BY <2>1 DEF NoPid
  <2> QED
    BY <1>1, <2>1, <2>2, NewTaskTyped DEF AddTask, Typed, TypeOK, Tasks, Slots
<1>2. CASE Activate
  BY <1>2 DEF Activate, Typed, TypeOK, ProcessTree, Tasks, Slots
<1>3. CASE Tick
  <2>1. Schedule(state, "user", NoPid) /\ state \in [Slots -> TaskStates]
    BY <1>3 DEF Tick, Typed, TypeOK
  <2> QED
    BY <1>3, <2>1, ScheduleType
    DEF Tick, Typed, TypeOK, ProcessTree, Tasks, Slots, Frames, identity
<1>4. CASE ForkFull
  BY <1>4, SmallInts DEF ForkFull, Typed, TypeOK, ProcessTree, Tasks, Slots, identity
<1>5. CASE ForkChild
  <2>1. ~TableFull /\ NewTask(pid[currentTask]) /\ currentTask \in Tasks
    BY <1>5 DEF ForkChild, InUser, Typed, TypeOK, Tasks
  <2>2. pid[currentTask] \in -1 .. numTasks - 1
    BY <2>1 DEF Typed, ProcessTree, Tasks, TypeOK
  <2>3. eax_value' \in [Slots -> Int32]
    <3>1. next_pid \in Int32
      BY <1>5 DEF ForkChild, Typed, TypeOK, ProcessTree, Int32
    <3> QED BY <1>5, <3>1, SmallInts DEF ForkChild, ForkValues, Typed, TypeOK
  <2>4. priority' \in [Slots -> Int32]
    BY <1>5, SmallInts DEF ForkChild, Typed, TypeOK
  <2> QED
    <3>1. /\ ProcessTree'
          /\ pid' \in [Slots -> Slots \cup {NoPid}]
          /\ ppid' \in [Slots -> Slots \cup {NoPid}]
          /\ state' \in [Slots -> TaskStates]
          /\ numTasks' \in 0 .. MAX_TASKS
          /\ next_pid' \in 0 .. MAX_TASKS
          /\ numTasks' = numTasks + 1
      BY <2>1, <2>2, NewTaskTyped
    <3>2. /\ UNCHANGED <<waitingProcess, currentTask, interrupt_count, aging_pid,
                          active, frame, target, exited>>
      BY <1>5 DEF ForkChild
    <3>3. currentTask' \in -1 .. numTasks' - 1 /\ exited' \subseteq Tasks'
      BY <3>1, <3>2 DEF Typed, TypeOK, Tasks
    <3> QED BY <2>3, <2>4, <3>1, <3>2, <3>3 DEF Typed, TypeOK, Slots
<1>6. ASSUME NEW p \in Slots, waitpid(p) PROVE Typed'
  <2> DEFINE st == [state EXCEPT ![currentTask] = "Blocked"]
  <2>1. Schedule(st, "waitpid", p) /\ st \in [Slots -> TaskStates]
    BY <1>6 DEF waitpid, Typed, TypeOK, TaskStates
  <2>2. currentTask \in Slots
    BY <1>6 DEF waitpid, InUser, Typed, TypeOK, Slots
  <2>3. waitingProcess' \in [Slots -> Slots \cup {NoPid}]
    BY <1>6, <2>2 DEF waitpid, Typed, TypeOK
  <2> QED
    BY <1>6, <2>1, <2>3, ScheduleType
    DEF waitpid, Typed, TypeOK, ProcessTree, Tasks, Slots, Frames, identity
<1>7. CASE exit
  <2> DEFINE st == ExitWakes([state EXCEPT ![currentTask] = "Terminated"])
  <2>1. Schedule(st, "exit", NoPid) /\ st \in [Slots -> TaskStates]
    BY <1>7 DEF exit, ExitWakes, Typed, TypeOK, TaskStates
  <2>2. exited' \subseteq Tasks
    BY <1>7 DEF exit, InUser, Typed, TypeOK, Tasks
  <2> QED
    BY <1>7, <2>1, <2>2, ScheduleType
    DEF exit, Typed, TypeOK, ProcessTree, Tasks, Slots, Frames, identity
<1>8. CASE execve
  BY <1>8 DEF execve, Typed, TypeOK, ProcessTree, Tasks, Slots, TaskStates, identity
<1>9. ASSUME NEW v \in Priorities, setCurrenttaskPriority(v) PROVE Typed'
  BY <1>9 DEF setCurrenttaskPriority, Typed, TypeOK, ProcessTree, Tasks, Slots, identity
<1>10. ASSUME NEW p \in AgingPids, setAgingPid(p) PROVE Typed'
  BY <1>10 DEF setAgingPid, Typed, TypeOK, ProcessTree, Tasks, Slots, identity
<1>11. ASSUME NEW s \in States, setCurrenttaskState(s) PROVE Typed'
  BY <1>11
  DEF setCurrenttaskState, Typed, TypeOK, ProcessTree, Tasks, Slots, TaskStates, identity
<1>12. CASE UNCHANGED vars
  BY <1>12 DEF vars, Typed, TypeOK, ProcessTree, Tasks, Slots
<1> QED
  BY <1>1, <1>2, <1>3, <1>4, <1>5, <1>6, <1>7, <1>8, <1>9, <1>10, <1>11, <1>12
  DEF Next, Fork

\* The invariant that every other proof starts from.
THEOREM AlwaysTyped == Spec => []Typed
  BY InitTyped, NextTyped, PTL DEF Spec

\* Every field of the table and of the manager keeps its type under every
\* sequence of system calls and timer interrupts.
THEOREM TypeCorrect == Spec => []TypeOK
  BY AlwaysTyped, PTL DEF Typed

\* Pids are slot numbers, without gaps, and parents precede their children.
THEOREM TreeCorrect == Spec => []ProcessTree
  BY AlwaysTyped, PTL DEF Typed

-----------------------------------------------------------------------------
(* Round robin among equals.                                                *)

\* A Schedule that switches tasks moves every runnable equal closer to its turn.
LEMMA ScheduleRoundRobin ==
    ASSUME Typed, NEW st \in [Slots -> TaskStates], NEW where, NEW arg,
           Schedule(st, where, arg)
    PROVE  RoundRobin
<1> DEFINE woken == WakeWaiter(st)
           pr    == Aged(woken)
           next  == PickTask(numTasks, currentTask, woken, pr)
           C     == Candidates(numTasks, woken, pr)
<1>1. woken \in [Slots -> TaskStates] /\ pr \in [Slots -> Int32]
  BY WakeWaiterType, AgedType DEF Typed
<1>2. /\ numTasks > 0 /\ currentTask' = next /\ priority' = pr
      /\ state' = [woken EXCEPT ![next] = "Running"]
  BY DEF Schedule
<1>3. Tasks = 0 .. numTasks - 1 /\ Tasks \subseteq Slots
  BY TasksAreSlots DEF Tasks, Typed
<1>4. ASSUME currentTask' # currentTask,
             NEW i \in Tasks, i # next, state'[i] \notin Unrunnable
      PROVE  /\ pr[next] <= pr[i]
             /\ pr[i] = pr[next] =>
                   Dist(next, i, numTasks) < Dist(currentTask, i, numTasks)
  <2>1. C # {}
    BY <1>2, <1>4 DEF PickTask
  <2>2. next \in Best(numTasks, woken, pr)
    BY <1>1, <1>2, <2>1, PickBest DEF Typed
  <2>3. \A j \in Best(numTasks, woken, pr) :
            Dist(currentTask, next, numTasks) <= Dist(currentTask, j, numTasks)
    BY <1>1, <1>2, <2>1, PickBest DEF Typed
  <2>4. woken[i] \notin Unrunnable
    BY <1>1, <1>2, <1>3, <1>4
  <2> HIDE DEF woken, pr, next
  <2>5. next \in Tasks /\ pr[next] < PriorityLimit /\ \A j \in C : pr[next] <= pr[j]
    BY <1>3, <2>2 DEF Best, Candidates
  <2>6. pr[i] \in Int /\ pr[next] \in Int
    BY <1>1, <1>3, <2>5, IntBounds DEF Int32
  <2>7. pr[next] <= pr[i]
    <3>1. CASE pr[i] < PriorityLimit
      BY <1>3, <2>4, <2>5, <3>1 DEF Candidates
    <3>2. CASE ~(pr[i] < PriorityLimit)
      BY <2>5, <2>6, <3>2 DEF PriorityLimit
    <3> QED BY <3>1, <3>2
  <2>8. ASSUME pr[i] = pr[next]
        PROVE  Dist(next, i, numTasks) < Dist(currentTask, i, numTasks)
    <3>1. i \in Best(numTasks, woken, pr)
      BY <1>3, <2>4, <2>5, <2>8 DEF Best, Candidates
    <3>2. Dist(currentTask, next, numTasks) <= Dist(currentTask, i, numTasks)
      BY <2>3, <3>1
    <3>3. /\ numTasks \in Nat \ {0} /\ currentTask \in -1 .. numTasks - 1
          /\ next \in 0 .. numTasks - 1 /\ i \in 0 .. numTasks - 1
      BY <1>2, <1>3, <2>5, TableAssumption DEF Typed, TypeOK
    <3>4. Dist(currentTask, next, numTasks) \in 0 .. numTasks - 1
      BY <3>3, DistRange
    <3>5. Dist(currentTask, i, numTasks) \in 0 .. numTasks - 1
      BY <3>3, DistRange
    <3>6. \/ Dist(currentTask, next, numTasks) < Dist(currentTask, i, numTasks)
          \/ Dist(currentTask, i, numTasks) < Dist(currentTask, next, numTasks)
      BY <1>4, <3>3, DistInjective
    <3>7. Dist(currentTask, next, numTasks) < Dist(currentTask, i, numTasks)
      BY <3>2, <3>4, <3>5, <3>6
    <3> QED BY <3>3, <3>7, DistShrinks
  <2> QED BY <2>7, <2>8
<1> QED BY <1>2, <1>4 DEF RoundRobin

LEMMA NextRoundRobin == Typed /\ [Next]_vars => [RoundRobin]_vars
<1> SUFFICES ASSUME Typed, [Next]_vars PROVE RoundRobin
  OBVIOUS
<1>1. CASE Tick
  <2>1. Schedule(state, "user", NoPid) /\ state \in [Slots -> TaskStates]
    BY <1>1 DEF Tick, Typed, TypeOK
  <2> QED BY <2>1, ScheduleRoundRobin
<1>2. ASSUME NEW p \in Slots, waitpid(p) PROVE RoundRobin
  <2> DEFINE st == [state EXCEPT ![currentTask] = "Blocked"]
  <2>1. Schedule(st, "waitpid", p) /\ st \in [Slots -> TaskStates]
    BY <1>2 DEF waitpid, Typed, TypeOK, TaskStates
  <2> QED BY <2>1, ScheduleRoundRobin
<1>3. CASE exit
  <2> DEFINE st == ExitWakes([state EXCEPT ![currentTask] = "Terminated"])
  <2>1. Schedule(st, "exit", NoPid) /\ st \in [Slots -> TaskStates]
    BY <1>3 DEF exit, ExitWakes, Typed, TypeOK, TaskStates
  <2> QED BY <2>1, ScheduleRoundRobin
<1>4. CASE currentTask' = currentTask
  BY <1>4 DEF RoundRobin
<1> QED
  BY <1>1, <1>2, <1>3, <1>4
  DEF Next, vars, AddTask, Activate, Fork, ForkFull, ForkChild, execve,
      setCurrenttaskPriority, setAgingPid, setCurrenttaskState

\* A switch takes a runnable task of the best priority, and every other one of
\* that priority comes strictly closer to its turn.
THEOREM RoundRobinCorrect == Spec => RoundRobinProgress
<1>1. Typed /\ [Next]_vars => [RoundRobin]_vars
  BY NextRoundRobin
<1> QED BY <1>1, AlwaysTyped, PTL DEF Spec, RoundRobinProgress

-----------------------------------------------------------------------------
(* The value fork returns.                                                  *)

\* Before AddTask slot 0 holds what the memory held.
FreshEax == numTasks = 0 => eax_value[0] \in Uninit

ForkInv == ForkReturn /\ FreshEax

LEMMA InitForkInv == Init => ForkInv
<1> SUFFICES ASSUME Init PROVE ForkInv
  OBVIOUS
<1>1. 0 \in Slots
  BY TableAssumption DEF Slots
<1>2. eax_value[0] \in Uninit
  BY <1>1 DEF Init
<1>3. Tasks = {}
  BY DEF Init, Tasks
<1> QED BY <1>2, <1>3 DEF ForkInv, ForkReturn, FreshEax

LEMMA NextForkInv == Typed /\ Typed' /\ ForkInv /\ [Next]_vars => ForkInv'
<1> SUFFICES ASSUME Typed, Typed', ForkInv, [Next]_vars PROVE ForkInv'
  OBVIOUS
<1> USE TableAssumption
<1>1. CASE UNCHANGED <<pid, ppid, numTasks, eax_value>>
  BY <1>1 DEF ForkInv, ForkReturn, FreshEax, Tasks, Children
<1>2. CASE AddTask
  <2>1. numTasks = 0 /\ numTasks' = 1 /\ eax_value' = eax_value /\ ppid'[0] = -1
    <3>1. 0 \in Slots /\ ppid \in [Slots -> Slots \cup {NoPid}]
      BY DEF Slots, Typed, TypeOK
    <3> QED BY <1>2, <3>1 DEF AddTask, NewTask, NoPid
  <2>2. Tasks' = {0} /\ pid'[0] = 0
    BY <2>1 DEF Tasks, Typed, ProcessTree
  <2>3. Children(0)' = {}
    BY <2>1, <2>2 DEF Children
  <2>4. eax_value'[0] \in Uninit
    BY <2>1 DEF ForkInv, FreshEax
  <2> QED BY <2>1, <2>2, <2>3, <2>4 DEF ForkInv, ForkReturn, FreshEax
<1>3. CASE ForkFull
  <2>1. /\ UNCHANGED <<pid, ppid, numTasks>> /\ numTasks = MAX_TASKS
        /\ eax_value' = [eax_value EXCEPT ![currentTask] = -1]
        /\ eax_value \in [Slots -> Int32] /\ Tasks \subseteq Slots
    BY <1>3, TasksAreSlots DEF ForkFull, TableFull, identity, Typed, TypeOK
  <2>2. ASSUME NEW i \in Tasks
        PROVE  \/ eax_value'[i] = -1
               \/ eax_value'[i] = eax_value[i]
    BY <2>1
  <2>3. Tasks' = Tasks /\ \A i : Children(i)' = Children(i)
    BY <2>1 DEF Tasks, Children
  <2>4. ForkReturn'
    BY <2>1, <2>2, <2>3 DEF ForkInv, ForkReturn
  <2>5. FreshEax'
    BY <2>1 DEF FreshEax
  <2> QED BY <2>4, <2>5 DEF ForkInv
<1>4. CASE ForkChild
  <2> DEFINE c == numTasks
             K(i) == {j \in Tasks' : ppid'[j] = pid'[i]}
  <2>1. /\ c \in Slots /\ currentTask \in Tasks /\ Tasks \subseteq Slots
        /\ next_pid = c /\ numTasks' = c + 1 /\ numTasks # MAX_TASKS
        /\ pid[currentTask] = currentTask /\ currentTask # c
    <3>1. c \in Slots /\ numTasks # MAX_TASKS
      BY <1>4 DEF ForkChild, TableFull, Typed, TypeOK, Slots
    <3>2. currentTask \in Tasks /\ currentTask # c
      BY <1>4 DEF ForkChild, InUser, Typed, TypeOK, Tasks
    <3>3. next_pid = c /\ pid[currentTask] = currentTask
      BY <3>2 DEF Typed, ProcessTree
    <3> QED BY <1>4, <3>1, <3>2, <3>3, TasksAreSlots DEF ForkChild, NewTask, Typed
  <2>2. /\ pid' = [pid EXCEPT ![c] = c]
        /\ ppid' = [ppid EXCEPT ![c] = currentTask]
        /\ eax_value' = [eax_value EXCEPT ![c] = 0, ![currentTask] = c]
    BY <1>4, <2>1 DEF ForkChild, NewTask, ForkValues
  <2>3. /\ pid \in [Slots -> Slots \cup {NoPid}] /\ ppid \in [Slots -> Slots \cup {NoPid}]
        /\ eax_value \in [Slots -> Int32] /\ numTasks \in Nat
    BY DEF Typed, TypeOK
  <2>4. Tasks' = Tasks \cup {c} /\ c \notin Tasks
    BY <2>1, <2>3 DEF Tasks
  <2>5. \A i \in Tasks' : pid'[i] = i
    BY DEF Typed, ProcessTree
  <2>6. \A i \in Tasks : pid[i] = i /\ ppid[i] # c /\ ppid'[i] = ppid[i]
    <3> SUFFICES ASSUME NEW i \in Tasks
                 PROVE  pid[i] = i /\ ppid[i] # c /\ ppid'[i] = ppid[i]
      OBVIOUS
    <3>1. pid[i] = i /\ ppid[i] \in -1 .. i - 1
      BY DEF Typed, ProcessTree
    <3>2. i < c /\ i \in Nat
      BY <2>3 DEF Tasks
    <3>3. ppid'[i] = ppid[i]
      BY <2>1, <2>2, <2>3, <2>4
    <3> QED BY <2>3, <3>1, <3>2, <3>3
  <2>7. ppid'[c] = currentTask
    BY <2>1, <2>2, <2>3
  <2> HIDE DEF c
  <2>8. ASSUME NEW i \in Tasks, i # currentTask
        PROVE  K(i) = Children(i)
    BY <2>4, <2>5, <2>6, <2>7, <2>8 DEF Children
  <2>9. K(c) = {}
    BY <2>1, <2>4, <2>5, <2>6, <2>7
  <2>10. c \in K(currentTask) /\ \A d \in K(currentTask) : d <= c
    <3>1. c \in K(currentTask)
      BY <2>1, <2>4, <2>5, <2>7
    <3>2. \A d \in Tasks' : d <= c
      BY <2>1, <2>3 DEF Tasks, c
    <3> QED BY <3>1, <3>2
  <2> HIDE DEF K
  <2>11. ASSUME NEW i \in Tasks'
         PROVE  \/ \E k \in K(i) :
                      eax_value'[i] = pid'[k] /\ \A d \in K(i) : d <= k
                \/ K(i) = {} /\ eax_value'[i] \in (IF i = 0 THEN Uninit ELSE {0})
    <3>1. CASE i = c
      <4>1. eax_value'[c] = 0 /\ c # 0
        <5>1. c # 0
          BY <2>1 DEF Tasks, c
        <5> QED BY <2>1, <2>2, <2>3, <5>1
      <4> QED BY <2>9, <3>1, <4>1
    <3>2. CASE i = currentTask
      <4>1. eax_value'[currentTask] = c /\ pid'[c] = c
        BY <2>1, <2>2, <2>3
      <4> QED BY <2>10, <3>2, <4>1
    <3>3. CASE i # c /\ i # currentTask
      <4>1. i \in Tasks /\ eax_value'[i] = eax_value[i]
        BY <2>1, <2>2, <2>3, <2>4, <3>3
      <4>2. \A k \in Children(i) : pid'[k] = pid[k]
        BY <2>4, <2>5, <2>6 DEF Children
      <4>3. K(i) = Children(i)
        BY <2>8, <3>3, <4>1
      <4>4. \/ \E k \in Children(i) :
                   eax_value[i] = pid[k] /\ \A d \in Children(i) : d <= k
            \/ Children(i) = {} /\ eax_value[i] \in (IF i = 0 THEN Uninit ELSE {0})
        BY <2>1, <4>1 DEF ForkInv, ForkReturn
      <4> QED BY <4>1, <4>2, <4>3, <4>4
    <3> QED BY <3>1, <3>2, <3>3
  <2>12. FreshEax'
    BY <2>1, <2>3 DEF FreshEax, c
  <2> QED BY <2>11, <2>12 DEF ForkInv, ForkReturn, Children, K
<1> QED
  BY <1>1, <1>2, <1>3, <1>4
  DEF Next, vars, Activate, Tick, Fork, waitpid, exit, execve,
      setCurrenttaskPriority, setAgingPid, setCurrenttaskState, identity

\* SYS_DOUBLE_RETURN gives a process the pid of its youngest child, 0 if it has
\* none, and -1 only when the table is full.
THEOREM ForkReturnCorrect == Spec => []ForkReturn
<1>1. Spec => []ForkInv
  BY InitForkInv, NextForkInv, AlwaysTyped, PTL DEF Spec
<1> QED BY <1>1, PTL DEF ForkInv

-----------------------------------------------------------------------------
(* exit and waitpid of disciplined programs.                                *)


\* What connects waiting processes and those they wait for, for given states S,
\* frames F, arguments T and registrations R.  The step of a handler establishes
\* it for the table that Schedule is about to search.
Waiting(S, F, T, R) ==
    /\ \A i \in Tasks :
          S[i] = "Blocked" =>
              /\ F[i] = "waitpid" /\ T[i] \in Tasks /\ ppid[T[i]] = i
              /\ S[T[i]] # "Terminated" /\ R[T[i]] = i
    /\ \A p \in Tasks :
          S[p] # "Terminated" /\ R[p] # NoPid =>
              /\ R[p] \in Tasks /\ S[R[p]] = "Blocked"
              /\ F[R[p]] = "waitpid" /\ T[R[p]] = p
    /\ \A i \in Tasks :
          F[i] = "waitpid" /\ S[i] # "Blocked" =>
              T[i] \in Tasks /\ S[T[i]] = "Terminated"

LEMMA WaitingNow ==
    Waiting(state, frame, target, waitingProcess)
        <=> WaiterRegistered /\ RegistrationCurrent /\ AnswerReady
  BY DEF Waiting, WaiterRegistered, RegistrationCurrent, AnswerReady, Live

\* As long as the first process lives and everybody blocked waits for a live
\* child, the youngest live process is not blocked: there is a candidate.
LEMMA SomeCandidate ==
    ASSUME Typed, numTasks > 0, NEW S \in [Slots -> TaskStates],
           NEW T, NEW pr \in [Slots -> Int32],
           S[0] # "Terminated",
           \A i \in Tasks : S[i] = "Blocked" =>
               T[i] \in Tasks /\ ppid[T[i]] = i /\ S[T[i]] # "Terminated",
           \A i \in Tasks : pr[i] < PriorityLimit
    PROVE  Candidates(numTasks, S, pr) # {}
<1> DEFINE L == {k \in Tasks : S[k] # "Terminated"}
           A == {numTasks - 1 - i : i \in L}
<1>1. numTasks \in Nat /\ Tasks = 0 .. numTasks - 1 /\ 0 \in Tasks
  BY DEF Typed, TypeOK, Tasks
<1>2. A \in SUBSET Nat /\ A # {}
  <2>1. 0 \in L /\ \A i \in L : numTasks - 1 - i \in Nat
    BY <1>1
  <2> HIDE DEF L
  <2> QED BY <2>1
<1>3. PICK m \in A : \A x \in A : m <= x
  BY <1>2, LeastNat
<1>4. PICK k \in Tasks : S[k] # "Terminated" /\ m = numTasks - 1 - k
  BY <1>3
<1>5. S[k] # "Blocked"
  <2> SUFFICES ASSUME S[k] = "Blocked" PROVE FALSE
    OBVIOUS
  <2>1. T[k] \in Tasks /\ ppid[T[k]] = k /\ S[T[k]] # "Terminated"
    OBVIOUS
  <2>2. k < T[k]
    <3>1. ppid[T[k]] \in -1 .. T[k] - 1
      BY <2>1 DEF Typed, ProcessTree
    <3> QED BY <1>1, <2>1, <3>1
  <2>3. m <= numTasks - 1 - T[k]
    BY <1>3, <2>1
  <2> QED BY <1>1, <1>4, <2>1, <2>2, <2>3
<1>6. k \in Candidates(numTasks, S, pr)
  BY <1>1, <1>4, <1>5 DEF Candidates, Unrunnable, Tasks
<1> QED BY <1>6

\* A Schedule that finds the table in good order switches to a runnable task and
\* leaves it in good order; a waitpid it resumes has its answer.
LEMMA ScheduleInOrder ==
    ASSUME Typed, NEW st \in [Slots -> TaskStates], NEW where \in Frames,
           NEW arg \in Slots \cup {NoPid}, Schedule(st, where, arg),
           NEW S, S = WakeWaiter(st),
           NEW F, F = [i \in Slots |-> IF i = currentTask THEN where ELSE frame[i]],
           NEW T, T = [i \in Slots |-> IF i = currentTask THEN arg ELSE target[i]],
           NEW R, R = waitingProcess',
           Waiting(S, F, T, R),
           S[0] # "Terminated",
           \A i \in Slots : priority[i] < PriorityLimit,
           UNCHANGED identity
    PROVE  /\ Waiting(state, frame, target, waitingProcess)'
           /\ currentTask' \in Tasks
           /\ CurrentRunnable'
           /\ S[currentTask'] \notin Unrunnable
           /\ \A i \in Tasks : state'[i] = "Terminated" <=> S[i] = "Terminated"
           /\ \A i \in Slots \ Tasks : frame'[i] = F[i]
           /\ \A i \in Slots : priority'[i] < PriorityLimit
           /\ \A i \in Tasks : F[i] = "waitpid" /\ frame'[i] = "user" =>
                                   state'[T[i]] = "Terminated"
<1> DEFINE N == PickTask(numTasks, currentTask, S, Aged(S))
<1>1. S \in [Slots -> TaskStates] /\ Aged(S) \in [Slots -> Int32]
  BY WakeWaiterType, AgedType DEF Typed
<1>2. \A i \in Slots : Aged(S)[i] < PriorityLimit
  BY DEF Aged, PriorityLimit, Typed, TypeOK
<1>3. /\ numTasks > 0 /\ currentTask' = N /\ priority' = Aged(S)
      /\ state' = [S EXCEPT ![N] = "Running"] /\ SwitchContext(where, arg, N)
  BY DEF Schedule
<1>4. Tasks \subseteq Slots /\ Tasks = 0 .. numTasks - 1 /\ Tasks' = Tasks /\ ppid' = ppid
  BY TasksAreSlots DEF Typed, Tasks, identity
<1>5. Candidates(numTasks, S, Aged(S)) # {}
  <2>1. \A i \in Tasks : S[i] = "Blocked" =>
            T[i] \in Tasks /\ ppid[T[i]] = i /\ S[T[i]] # "Terminated"
    BY DEF Waiting
  <2>2. \A i \in Tasks : Aged(S)[i] < PriorityLimit
    BY <1>2, <1>4
  <2> DEFINE pr == Aged(S)
  <2>3. pr \in [Slots -> Int32] /\ \A i \in Tasks : pr[i] < PriorityLimit
    BY <1>1, <2>2
  <2> HIDE DEF pr
  <2>4. Candidates(numTasks, S, pr) # {}
    BY ONLY Typed, S[0] # "Terminated", <1>1, <1>3, <2>1, <2>3, SomeCandidate
  <2> QED BY <2>4 DEF pr
<1>6. N \in Tasks /\ S[N] \notin Unrunnable
  <2>1. N \in Best(numTasks, S, Aged(S))
    BY <1>1, <1>3, <1>5, PickBest DEF Typed
  <2> QED BY <1>4, <2>1 DEF Best, Candidates
<1> HIDE DEF N
<1>7. /\ \A i \in Slots : state'[i] = IF i = N THEN "Running" ELSE S[i]
      /\ \A i \in Slots : frame'[i] = IF i = N THEN "user" ELSE F[i]
      /\ \A i \in Slots : target'[i] = IF i = N THEN NoPid ELSE T[i]
  BY <1>1, <1>3 DEF SwitchContext
<1>8. S[N] # "Blocked" /\ S[N] # "Terminated"
  BY <1>6 DEF Unrunnable
<1>9. \A i \in Tasks : state'[i] = "Terminated" <=> S[i] = "Terminated"
  BY <1>4, <1>7, <1>8
<1>10. \A i \in Tasks : state'[i] = "Blocked" <=> S[i] = "Blocked"
  BY <1>4, <1>7, <1>8
<1>11. Waiting(state, frame, target, waitingProcess)'
  <2>1. ASSUME NEW i \in Tasks, state'[i] = "Blocked"
        PROVE  /\ frame'[i] = "waitpid" /\ target'[i] \in Tasks /\ ppid[target'[i]] = i
               /\ state'[target'[i]] # "Terminated" /\ R[target'[i]] = i
    <3>1. S[i] = "Blocked" /\ i # N /\ i \in Slots
      BY <1>4, <1>8, <1>10, <2>1
    <3>2. frame'[i] = F[i] /\ target'[i] = T[i]
      BY <1>7, <3>1
    <3> QED BY <1>9, <3>1, <3>2 DEF Waiting
  <2>2. ASSUME NEW p \in Tasks, state'[p] # "Terminated", R[p] # NoPid
        PROVE  /\ R[p] \in Tasks /\ state'[R[p]] = "Blocked"
               /\ frame'[R[p]] = "waitpid" /\ target'[R[p]] = p
    <3>1. /\ R[p] \in Tasks /\ S[R[p]] = "Blocked"
          /\ F[R[p]] = "waitpid" /\ T[R[p]] = p
      BY <1>9, <2>2 DEF Waiting
    <3>2. R[p] # N /\ R[p] \in Slots
      BY <1>4, <1>8, <3>1
    <3> QED BY <1>7, <3>1, <3>2
  <2>3. ASSUME NEW i \in Tasks, frame'[i] = "waitpid", state'[i] # "Blocked"
        PROVE  target'[i] \in Tasks /\ state'[target'[i]] = "Terminated"
    <3>1. i # N /\ i \in Slots
      BY <1>4, <1>7, <2>3
    <3>2. F[i] = "waitpid" /\ target'[i] = T[i] /\ S[i] # "Blocked"
      BY <1>7, <1>10, <2>3, <3>1
    <3> QED BY <1>9, <3>2 DEF Waiting
  <2> QED BY <1>4, <2>1, <2>2, <2>3 DEF Waiting
<1>12. CurrentRunnable'
  BY <1>3, <1>4, <1>6, <1>7 DEF CurrentRunnable, Unrunnable
<1>13. \A i \in Slots \ Tasks : frame'[i] = F[i]
  BY <1>6, <1>7
<1>14. ASSUME NEW i \in Tasks, F[i] = "waitpid", frame'[i] = "user"
       PROVE  state'[T[i]] = "Terminated"
  <2>1. i = N
    BY <1>4, <1>7, <1>14
  <2>2. T[i] \in Tasks /\ S[T[i]] = "Terminated"
    BY <1>8, <1>14, <2>1 DEF Waiting
  <2> QED BY <1>9, <2>2
<1> QED BY <1>2, <1>3, <1>6, <1>9, <1>11, <1>12, <1>13, <1>14

-----------------------------------------------------------------------------
(* The three handlers that run Schedule.  Each lemma gives the table that   *)
(* Schedule searches and shows that it is in good order.                    *)

\* The timer interrupt: nothing has changed yet.
LEMMA TickOrder ==
    ASSUME Typed, DisciplinedInv, Tick
    PROVE  LET F == [i \in Slots |-> IF i = currentTask THEN "user" ELSE frame[i]]
               T == [i \in Slots |-> IF i = currentTask THEN NoPid ELSE target[i]]
           IN  /\ WakeWaiter(state) = state
               /\ Waiting(state, F, T, waitingProcess')
               /\ state[0] # "Terminated"
<1> DEFINE F == [i \in Slots |-> IF i = currentTask THEN "user" ELSE frame[i]]
           T == [i \in Slots |-> IF i = currentTask THEN NoPid ELSE target[i]]
<1>1. Tasks \subseteq Slots /\ 0 \in Tasks
  BY TasksAreSlots DEF Typed, Tick, Schedule, Tasks, TypeOK
<1>2. currentTask >= 0 => state[currentTask] # "Terminated" /\ state[currentTask] # "Blocked"
  BY DEF DisciplinedInv, CurrentRunnable, Unrunnable
<1>3. WakeWaiter(state) = state
  BY <1>2 DEF WakeWaiter
<1>4. state[0] # "Terminated"
  BY <1>1 DEF DisciplinedInv, Bookkeeping, Live
<1>5. Waiting(state, frame, target, waitingProcess) /\ waitingProcess' = waitingProcess
  BY WaitingNow DEF DisciplinedInv, Tick
<1>6. \A i \in Tasks : i = currentTask => frame[i] = "user" /\ state[i] # "Blocked"
  BY <1>2 DEF DisciplinedInv, CurrentRunnable, Tasks, Typed, TypeOK
<1>7. \A i \in Tasks : F[i] = frame[i]
  BY <1>1, <1>6
<1>8. \A i \in Tasks : frame[i] = "waitpid" => T[i] = target[i]
  BY <1>1, <1>6
<1> HIDE DEF F, T
<1>9. Waiting(state, F, T, waitingProcess)
  BY <1>5, <1>7, <1>8 DEF Waiting
<1> QED BY <1>3, <1>4, <1>5, <1>9 DEF F, T

\* waitpid: the caller is blocked and registered at its child.
LEMMA WaitpidOrder ==
    ASSUME Typed, DisciplinedInv, NEW p \in Tasks, ppid[p] = currentTask, waitpid(p)
    PROVE  LET st == [state EXCEPT ![currentTask] = "Blocked"]
               F == [i \in Slots |-> IF i = currentTask THEN "waitpid" ELSE frame[i]]
               T == [i \in Slots |-> IF i = currentTask THEN p ELSE target[i]]
           IN  /\ WakeWaiter(st) = st
               /\ Waiting(st, F, T, waitingProcess')
               /\ st[0] # "Terminated"
               /\ \A i \in Tasks : st[i] = "Terminated" <=> state[i] = "Terminated"
<1> DEFINE c  == currentTask
           st == [state EXCEPT ![c] = "Blocked"]
           F  == [i \in Slots |-> IF i = c THEN "waitpid" ELSE frame[i]]
           T  == [i \in Slots |-> IF i = c THEN p ELSE target[i]]
           R  == waitingProcess'
<1>1. c \in Tasks /\ Tasks \subseteq Slots /\ 0 \in Tasks
  BY TasksAreSlots DEF Typed, waitpid, InUser, Tasks, TypeOK
<1>2. state[c] # "Terminated" /\ state[c] # "Blocked"
  BY <1>1 DEF DisciplinedInv, CurrentRunnable, Unrunnable, waitpid, InUser
<1>3. pid[c] = c /\ p \in Tasks /\ ppid[p] = c
  BY <1>1 DEF Typed, ProcessTree
<1>4. p # c
  <2>1. ppid[p] \in -1 .. p - 1 /\ p \in Int
    BY <1>3 DEF Typed, ProcessTree, Tasks, TypeOK
  <2> QED BY <1>3, <2>1
<1>5. findTaskByPID(p) = p
  BY <1>1, <1>3, FindValue DEF Typed
<1>6. state[p] # "Terminated" /\ R = [waitingProcess EXCEPT ![p] = c]
  BY <1>3, <1>5 DEF waitpid, WaitpidReturns
<1>7. Waiting(state, frame, target, waitingProcess)
  BY WaitingNow DEF DisciplinedInv
<1>8. state \in [Slots -> TaskStates] /\ waitingProcess \in [Slots -> Slots \cup {NoPid}]
  BY DEF Typed, TypeOK
<1>9. /\ \A i \in Slots : st[i] = IF i = c THEN "Blocked" ELSE state[i]
      /\ \A i \in Slots : F[i] = IF i = c THEN "waitpid" ELSE frame[i]
      /\ \A i \in Slots : T[i] = IF i = c THEN p ELSE target[i]
      /\ \A i \in Slots : R[i] = IF i = p THEN c ELSE waitingProcess[i]
  BY <1>6, <1>8
<1>10. WakeWaiter(st) = st
  BY <1>1, <1>9 DEF WakeWaiter
<1>11. state[0] # "Terminated"
  BY <1>1 DEF DisciplinedInv, Bookkeeping, Live
<1> HIDE DEF st, F, T, R, c
<1>12. \A i \in Tasks : st[i] = "Terminated" <=> state[i] = "Terminated"
  BY <1>1, <1>2, <1>9
<1>13. Waiting(st, F, T, R)
  <2>1. ASSUME NEW i \in Tasks, st[i] = "Blocked"
        PROVE  /\ F[i] = "waitpid" /\ T[i] \in Tasks /\ ppid[T[i]] = i
               /\ st[T[i]] # "Terminated" /\ R[T[i]] = i
    <3>1. CASE i = c
      BY <1>1, <1>3, <1>6, <1>9, <1>12, <3>1
    <3>2. CASE i # c
      <4>1. state[i] = "Blocked" /\ F[i] = frame[i] /\ T[i] = target[i]
        BY <1>1, <1>9, <2>1, <3>2
      <4>2. /\ frame[i] = "waitpid" /\ target[i] \in Tasks /\ ppid[target[i]] = i
            /\ state[target[i]] # "Terminated" /\ waitingProcess[target[i]] = i
        BY <1>7, <4>1 DEF Waiting
      <4>3. target[i] # p
        BY <1>3, <3>2, <4>2
      <4> QED BY <1>1, <1>9, <1>12, <4>1, <4>2, <4>3
    <3> QED BY <3>1, <3>2
  <2>2. ASSUME NEW q \in Tasks, st[q] # "Terminated", R[q] # NoPid
        PROVE  /\ R[q] \in Tasks /\ st[R[q]] = "Blocked"
               /\ F[R[q]] = "waitpid" /\ T[R[q]] = q
    <3>1. CASE q = p
      BY <1>1, <1>9, <3>1
    <3>2. CASE q # p
      <4>1. R[q] = waitingProcess[q] /\ state[q] # "Terminated"
        BY <1>1, <1>9, <1>12, <2>2, <3>2
      <4>2. /\ R[q] \in Tasks /\ state[R[q]] = "Blocked"
            /\ frame[R[q]] = "waitpid" /\ target[R[q]] = q
        BY <1>7, <2>2, <4>1 DEF Waiting
      <4>3. R[q] # c
        BY <1>2, <4>2
      <4> QED BY <1>1, <1>9, <4>2, <4>3
    <3> QED BY <3>1, <3>2
  <2>3. ASSUME NEW i \in Tasks, F[i] = "waitpid", st[i] # "Blocked"
        PROVE  T[i] \in Tasks /\ st[T[i]] = "Terminated"
    <3>1. i # c /\ frame[i] = "waitpid" /\ state[i] # "Blocked" /\ T[i] = target[i]
      BY <1>1, <1>9, <2>3
    <3>2. target[i] \in Tasks /\ state[target[i]] = "Terminated"
      BY <1>7, <3>1 DEF Waiting
    <3> QED BY <1>12, <3>1, <3>2
  <2> QED BY <2>1, <2>2, <2>3 DEF Waiting
<1>14. st[0] # "Terminated"
  BY <1>1, <1>11, <1>12
<1> QED BY <1>10, <1>12, <1>13, <1>14 DEF st, F, T, R, c

\* exit: the caller is terminated; its own loop wakes nobody, and Schedule wakes
\* the one process that is registered, which waits for the caller.
LEMMA ExitOrder ==
    ASSUME Typed, DisciplinedInv, currentTask # 0, exit
    PROVE  LET st == ExitWakes([state EXCEPT ![currentTask] = "Terminated"])
               F == [i \in Slots |-> IF i = currentTask THEN "exit" ELSE frame[i]]
               T == [i \in Slots |-> IF i = currentTask THEN NoPid ELSE target[i]]
           IN  /\ Waiting(WakeWaiter(st), F, T, waitingProcess')
               /\ WakeWaiter(st)[0] # "Terminated"
               /\ \A i \in Tasks : WakeWaiter(st)[i] = "Terminated" <=>
                                       i = currentTask \/ state[i] = "Terminated"
               /\ currentTask # 0
<1> DEFINE c  == currentTask
           s0 == [state EXCEPT ![c] = "Terminated"]
           st == ExitWakes(s0)
           S  == WakeWaiter(st)
           F  == [i \in Slots |-> IF i = c THEN "exit" ELSE frame[i]]
           T  == [i \in Slots |-> IF i = c THEN NoPid ELSE target[i]]
           w  == waitingProcess[c]
<1>1. c \in Tasks /\ Tasks \subseteq Slots /\ 0 \in Tasks
  BY TasksAreSlots DEF Typed, exit, InUser, Tasks, TypeOK
<1>2. state[c] # "Terminated" /\ state[c] # "Blocked"
  BY <1>1 DEF DisciplinedInv, CurrentRunnable, Unrunnable, exit, InUser
<1>3. pid[c] = c /\ c # 0
  BY <1>1 DEF Typed, ProcessTree
<1>4. Waiting(state, frame, target, waitingProcess) /\ waitingProcess' = waitingProcess
  BY WaitingNow DEF DisciplinedInv, exit
<1>5. state \in [Slots -> TaskStates] /\ waitingProcess \in [Slots -> Slots \cup {NoPid}]
  BY DEF Typed, TypeOK
<1>6. \A i \in Slots : s0[i] = IF i = c THEN "Terminated" ELSE state[i]
  BY <1>5
<1>7. st = s0
  <2>1. s0 \in [Slots -> TaskStates]
    BY <1>5 DEF TaskStates
  <2> HIDE DEF s0
  <2>2. ASSUME NEW i \in Tasks, waitingProcess[i] = pid[c], s0[i] = "Blocked"
        PROVE  FALSE
    <3>1. state[i] = "Blocked" /\ waitingProcess[i] = c /\ c # NoPid
      BY <1>1, <1>3, <1>6, <2>2 DEF Tasks, NoPid
    <3>2. state[c] = "Blocked"
      BY <1>4, <3>1 DEF Waiting
    <3> QED BY <1>2, <3>2
  <2> QED BY <2>1, <2>2 DEF ExitWakes
<1>8. c >= 0
  BY DEF exit, InUser
<1>9. w # NoPid => /\ w \in Tasks /\ state[w] = "Blocked"
                   /\ frame[w] = "waitpid" /\ target[w] = c
  BY <1>1, <1>2, <1>4 DEF Waiting
<1>10. \A i \in Slots : S[i] = IF i = c THEN "Terminated"
                               ELSE IF i = w THEN "Ready" ELSE state[i]
  <2>1. s0 \in [Slots -> TaskStates] /\ s0[c] = "Terminated"
    BY <1>1, <1>5, <1>6 DEF TaskStates
  <2>2. CASE w = NoPid
    <3>1. S = s0
      BY <1>7, <2>2 DEF WakeWaiter
    <3>2. \A i \in Slots : i # w
      BY <2>2, TableAssumption DEF Slots, NoPid
    <3> QED BY <1>6, <3>1, <3>2
  <2>3. CASE w # NoPid
    <3>1. findTaskByPID(w) = w /\ w # -1 /\ w # c
      <4>1. w \in Slots \cup {NoPid} /\ w \in Tasks
        BY <1>1, <1>9, <2>3
      <4>2. findTaskByPID(w) = w
        BY <4>1, FindValue DEF Typed
      <4> QED BY <1>2, <1>9, <2>3, <4>2 DEF NoPid
    <3>2. S = [s0 EXCEPT ![w] = "Ready"]
      BY <1>7, <1>8, <2>1, <2>3, <3>1 DEF WakeWaiter
    <3> QED BY <1>6, <2>1, <3>1, <3>2
  <2> QED BY <2>2, <2>3
<1>11. /\ \A i \in Slots : F[i] = IF i = c THEN "exit" ELSE frame[i]
       /\ \A i \in Slots : T[i] = IF i = c THEN NoPid ELSE target[i]
  OBVIOUS
<1> HIDE DEF S, F, T, st, s0
<1>12. \A i \in Tasks : w = i => /\ state[i] = "Blocked" /\ frame[i] = "waitpid"
                                 /\ target[i] = c /\ w # NoPid
  BY <1>9 DEF Tasks, NoPid
<1>13. \A i \in Tasks : S[i] = "Terminated" <=> i = c \/ state[i] = "Terminated"
  BY <1>1, <1>10, <1>12
<1>14. Waiting(S, F, T, waitingProcess)
  <2>1. ASSUME NEW i \in Tasks, S[i] = "Blocked"
        PROVE  /\ F[i] = "waitpid" /\ T[i] \in Tasks /\ ppid[T[i]] = i
               /\ S[T[i]] # "Terminated" /\ waitingProcess[T[i]] = i
    <3>1. i # c /\ i # w /\ state[i] = "Blocked" /\ F[i] = frame[i] /\ T[i] = target[i]
      BY <1>1, <1>10, <1>11, <2>1
    <3>2. /\ frame[i] = "waitpid" /\ target[i] \in Tasks /\ ppid[target[i]] = i
          /\ state[target[i]] # "Terminated" /\ waitingProcess[target[i]] = i
      BY <1>4, <3>1 DEF Waiting
    <3>3. target[i] # c
      BY <3>1, <3>2
    <3> QED BY <1>13, <3>1, <3>2, <3>3
  <2>2. ASSUME NEW q \in Tasks, S[q] # "Terminated", waitingProcess[q] # NoPid
        PROVE  /\ waitingProcess[q] \in Tasks /\ S[waitingProcess[q]] = "Blocked"
               /\ F[waitingProcess[q]] = "waitpid" /\ T[waitingProcess[q]] = q
    <3> DEFINE v == waitingProcess[q]
    <3>1. q # c /\ state[q] # "Terminated"
      BY <1>13, <2>2
    <3>2. v \in Tasks /\ state[v] = "Blocked" /\ frame[v] = "waitpid" /\ target[v] = q
      BY <1>4, <2>2, <3>1 DEF Waiting
    <3>3. v # c /\ v # w
      BY <1>2, <1>12, <3>1, <3>2
    <3> QED BY <1>1, <1>10, <1>11, <3>2, <3>3
  <2>3. ASSUME NEW i \in Tasks, F[i] = "waitpid", S[i] # "Blocked"
        PROVE  T[i] \in Tasks /\ S[T[i]] = "Terminated"
    <3>1. i # c /\ frame[i] = "waitpid" /\ T[i] = target[i]
      BY <1>1, <1>11, <2>3
    <3>2. CASE i = w
      BY <1>1, <1>12, <1>13, <3>1, <3>2
    <3>3. CASE i # w
      <4>1. state[i] # "Blocked"
        BY <1>1, <1>10, <2>3, <3>1, <3>3
      <4>2. target[i] \in Tasks /\ state[target[i]] = "Terminated"
        BY <1>4, <3>1, <4>1 DEF Waiting
      <4> QED BY <1>13, <3>1, <4>2
    <3> QED BY <3>2, <3>3
  <2> QED BY <2>1, <2>2, <2>3 DEF Waiting
<1>15. S[0] # "Terminated"
  <2>1. state[0] # "Terminated"
    BY <1>1 DEF DisciplinedInv, Bookkeeping, Live
  <2> QED BY <1>1, <1>3, <1>13, <2>1
<1> QED BY <1>3, <1>4, <1>13, <1>14, <1>15 DEF S, F, T, st, s0

-----------------------------------------------------------------------------
(* The invariant of disciplined programs.                                   *)

LEMMA InitDisciplined == Init => DisciplinedInv
<1> SUFFICES ASSUME Init PROVE DisciplinedInv
  OBVIOUS
<1>1. Tasks = {} /\ exited = {} /\ currentTask = -1
  BY DEF Init, Tasks
<1>2. Bookkeeping
  BY <1>1 DEF Init, Bookkeeping, PriorityLimit
<1> QED
  BY <1>1, <1>2
  DEF DisciplinedInv, WaiterRegistered, RegistrationCurrent, TerminatedForever,
      AnswerReady, CurrentRunnable

\* What a step that runs Schedule leaves, put together from ScheduleInOrder.
LEMMA ScheduleKeeps ==
    ASSUME Typed, Typed', DisciplinedInv, active, UNCHANGED <<identity, active>>,
           NEW st \in [Slots -> TaskStates], NEW where \in Frames,
           NEW arg \in Slots \cup {NoPid}, Schedule(st, where, arg),
           NEW S, S = WakeWaiter(st),
           NEW F, F = [i \in Slots |-> IF i = currentTask THEN where ELSE frame[i]],
           NEW T, T = [i \in Slots |-> IF i = currentTask THEN arg ELSE target[i]],
           Waiting(S, F, T, waitingProcess'),
           S[0] # "Terminated",
           \A i \in Tasks : S[i] = "Terminated" <=> i \in exited',
           \A i \in Slots \ Tasks : waitingProcess'[i] = NoPid
    PROVE  /\ DisciplinedInv'
           /\ S[currentTask'] \notin Unrunnable
           /\ \A i \in Tasks : F[i] = "waitpid" /\ frame'[i] = "user" =>
                                   state'[T[i]] = "Terminated"
<1> USE TableAssumption
<1>1. \A i \in Slots : priority[i] < PriorityLimit
  BY DEF DisciplinedInv, Bookkeeping
<1>2. /\ Waiting(state, frame, target, waitingProcess)'
      /\ currentTask' \in Tasks
      /\ CurrentRunnable'
      /\ S[currentTask'] \notin Unrunnable
      /\ \A i \in Tasks : state'[i] = "Terminated" <=> S[i] = "Terminated"
      /\ \A i \in Slots \ Tasks : frame'[i] = F[i]
      /\ \A i \in Slots : priority'[i] < PriorityLimit
      /\ \A i \in Tasks : F[i] = "waitpid" /\ frame'[i] = "user" =>
                              state'[T[i]] = "Terminated"
  BY <1>1, ScheduleInOrder
<1>3. Tasks' = Tasks /\ Slots' = Slots /\ exited' \subseteq Tasks
  BY DEF Tasks, Slots, identity, Typed, TypeOK
<1>4. (WaiterRegistered /\ RegistrationCurrent /\ AnswerReady)'
  BY <1>2, WaitingNow DEF Waiting, WaiterRegistered, RegistrationCurrent, AnswerReady, Live
<1>5. TerminatedForever'
  BY <1>2, <1>3 DEF TerminatedForever
<1>6. Bookkeeping'
  <2>1. 0 \notin exited'
    <3>1. 0 \in Tasks
      BY DEF Schedule, Tasks, Typed, TypeOK
    <3> QED BY <3>1
  <2>2. \A i \in Slots \ Tasks : frame'[i] = "user"
    <3> SUFFICES ASSUME NEW i \in Slots, i \notin Tasks PROVE frame'[i] = "user"
      OBVIOUS
    <3>1. i # currentTask
      BY DEF Tasks, Slots, Typed, TypeOK
    <3> QED BY <1>2, <3>1 DEF DisciplinedInv, Bookkeeping
  <2> QED BY <1>2, <1>3, <2>1, <2>2 DEF Bookkeeping, Live
<1> QED BY <1>2, <1>4, <1>5, <1>6 DEF DisciplinedInv

\* The table's terminated processes are the exited ones.
LEMMA TerminatedAreExited ==
    ASSUME Typed, DisciplinedInv
    PROVE  \A i \in Tasks : state[i] = "Terminated" <=> i \in exited
  BY DEF DisciplinedInv, Bookkeeping, TerminatedForever, Live

LEMMA TickKeeps ==
    ASSUME Typed, Typed', DisciplinedInv, Tick
    PROVE  /\ DisciplinedInv'
           /\ \A i \in Tasks : frame[i] = "waitpid" /\ frame'[i] = "user" =>
                                   state'[target[i]] = "Terminated"
<1> DEFINE F == [i \in Slots |-> IF i = currentTask THEN "user" ELSE frame[i]]
           T == [i \in Slots |-> IF i = currentTask THEN NoPid ELSE target[i]]
<1>1. /\ active /\ UNCHANGED <<identity, active>> /\ exited' = exited
      /\ Schedule(state, "user", NoPid) /\ state \in [Slots -> TaskStates]
      /\ waitingProcess' = waitingProcess
  BY DEF Tick, Typed, TypeOK
<1>2. /\ WakeWaiter(state) = state /\ Waiting(state, F, T, waitingProcess')
      /\ state[0] # "Terminated"
  BY TickOrder
<1>3. \A i \in Tasks : state[i] = "Terminated" <=> i \in exited'
  BY <1>1, TerminatedAreExited
<1>4. \A i \in Slots \ Tasks : waitingProcess'[i] = NoPid
  BY <1>1 DEF DisciplinedInv, Bookkeeping
<1>5. "user" \in Frames
  BY DEF Frames
<1>6. /\ DisciplinedInv'
      /\ \A i \in Tasks : F[i] = "waitpid" /\ frame'[i] = "user" =>
                              state'[T[i]] = "Terminated"
  BY <1>1, <1>2, <1>3, <1>4, <1>5, ScheduleKeeps
<1>7. ASSUME NEW i \in Tasks, frame[i] = "waitpid"
      PROVE  F[i] = "waitpid" /\ T[i] = target[i]
  <2>1. i # currentTask
    BY <1>7 DEF DisciplinedInv, CurrentRunnable, Tasks, Typed, TypeOK
  <2>2. i \in Slots
    BY TasksAreSlots DEF Typed
  <2> QED BY <1>7, <2>1, <2>2
<1> HIDE DEF F, T
<1> QED BY <1>6, <1>7

LEMMA WaitpidKeeps ==
    ASSUME Typed, Typed', DisciplinedInv, NEW p \in Tasks, ppid[p] = currentTask, waitpid(p)
    PROVE  /\ DisciplinedInv'
           /\ currentTask' # currentTask
           /\ \A i \in Tasks : frame[i] = "waitpid" /\ frame'[i] = "user" =>
                                   state'[target[i]] = "Terminated"
<1> DEFINE st == [state EXCEPT ![currentTask] = "Blocked"]
           F == [i \in Slots |-> IF i = currentTask THEN "waitpid" ELSE frame[i]]
           T == [i \in Slots |-> IF i = currentTask THEN p ELSE target[i]]
<1>1. /\ active /\ UNCHANGED <<identity, active>> /\ exited' = exited
      /\ Schedule(st, "waitpid", p) /\ st \in [Slots -> TaskStates]
      /\ currentTask \in Tasks
  <2>1. st \in [Slots -> TaskStates]
    BY DEF Typed, TypeOK, TaskStates
  <2>2. currentTask \in Tasks
    BY DEF waitpid, InUser, Typed, TypeOK, Tasks
  <2> QED BY <2>1, <2>2 DEF waitpid, InUser
<1>2. /\ WakeWaiter(st) = st /\ Waiting(st, F, T, waitingProcess')
      /\ st[0] # "Terminated"
      /\ \A i \in Tasks : st[i] = "Terminated" <=> state[i] = "Terminated"
  BY WaitpidOrder
<1>3. \A i \in Tasks : st[i] = "Terminated" <=> i \in exited'
  BY <1>1, <1>2, TerminatedAreExited
<1>4. \A i \in Slots \ Tasks : waitingProcess'[i] = NoPid
  <2>1. findTaskByPID(p) \in Tasks
    BY TasksAreSlots, FindValue DEF waitpid, WaitpidReturns, Typed
  <2>2. waitingProcess \in [Slots -> Slots \cup {NoPid}]
    BY DEF Typed, TypeOK
  <2>3. waitingProcess' = [waitingProcess EXCEPT ![findTaskByPID(p)] = pid[currentTask]]
    BY DEF waitpid
  <2> QED BY <2>1, <2>2, <2>3 DEF DisciplinedInv, Bookkeeping
<1>5. "waitpid" \in Frames /\ p \in Slots \cup {NoPid}
  BY TasksAreSlots DEF Frames, Typed
<1>6. st[currentTask] = "Blocked"
  BY <1>1, TasksAreSlots DEF Typed, TypeOK
<1> HIDE DEF st
<1>7. /\ DisciplinedInv' /\ st[currentTask'] \notin Unrunnable
      /\ \A i \in Tasks : F[i] = "waitpid" /\ frame'[i] = "user" =>
                              state'[T[i]] = "Terminated"
  BY <1>1, <1>2, <1>3, <1>4, <1>5, ScheduleKeeps
<1>8. currentTask' # currentTask
  BY <1>6, <1>7 DEF Unrunnable
<1>9. ASSUME NEW i \in Tasks, frame[i] = "waitpid"
      PROVE  F[i] = "waitpid" /\ T[i] = target[i]
  <2>1. i # currentTask
    BY <1>9 DEF DisciplinedInv, CurrentRunnable, Tasks, Typed, TypeOK
  <2>2. i \in Slots
    BY TasksAreSlots DEF Typed
  <2> QED BY <1>9, <2>1, <2>2
<1> HIDE DEF F, T
<1> QED BY <1>7, <1>8, <1>9

LEMMA ExitKeeps ==
    ASSUME Typed, Typed', DisciplinedInv, currentTask # 0, exit
    PROVE  /\ DisciplinedInv'
           /\ \A i \in Tasks : frame[i] = "waitpid" /\ frame'[i] = "user" =>
                                   state'[target[i]] = "Terminated"
<1> DEFINE st == ExitWakes([state EXCEPT ![currentTask] = "Terminated"])
           S == WakeWaiter(st)
           F == [i \in Slots |-> IF i = currentTask THEN "exit" ELSE frame[i]]
           T == [i \in Slots |-> IF i = currentTask THEN NoPid ELSE target[i]]
<1>1. /\ active /\ UNCHANGED <<identity, active>> /\ exited' = exited \cup {currentTask}
      /\ Schedule(st, "exit", NoPid) /\ st \in [Slots -> TaskStates]
      /\ waitingProcess' = waitingProcess
  BY DEF exit, InUser, ExitWakes, Typed, TypeOK, TaskStates
<1>2. /\ Waiting(S, F, T, waitingProcess')
      /\ S[0] # "Terminated"
      /\ \A i \in Tasks : S[i] = "Terminated" <=> i = currentTask \/ state[i] = "Terminated"
  BY ExitOrder
<1>3. \A i \in Tasks : S[i] = "Terminated" <=> i \in exited'
  BY <1>1, <1>2, TerminatedAreExited
<1>4. \A i \in Slots \ Tasks : waitingProcess'[i] = NoPid
  BY <1>1 DEF DisciplinedInv, Bookkeeping
<1>5. "exit" \in Frames
  BY DEF Frames
<1> HIDE DEF st
<1>6. /\ DisciplinedInv'
      /\ \A i \in Tasks : F[i] = "waitpid" /\ frame'[i] = "user" =>
                              state'[T[i]] = "Terminated"
  BY <1>1, <1>2, <1>3, <1>4, <1>5, ScheduleKeeps
<1>7. ASSUME NEW i \in Tasks, frame[i] = "waitpid"
      PROVE  F[i] = "waitpid" /\ T[i] = target[i]
  <2>1. i # currentTask
    BY <1>7 DEF DisciplinedInv, CurrentRunnable, Tasks, Typed, TypeOK
  <2>2. i \in Slots
    BY TasksAreSlots DEF Typed
  <2> QED BY <1>7, <2>1, <2>2
<1> HIDE DEF F, T
<1> QED BY <1>6, <1>7

\* What a process with discipline does: the first one does not exit, each waits for its
\* own children, priorities stay below the limit and nobody blocks itself.
DisciplinedStep ==
    \/ AddTask \/ Activate \/ Tick \/ Fork \/ execve
    \/ \E p \in Tasks : ppid[p] = currentTask /\ waitpid(p)
    \/ currentTask # 0 /\ exit
    \/ \E v \in Int32 : v < PriorityLimit /\ setCurrenttaskPriority(v)
    \/ \E p \in Slots : setAgingPid(p)
    \/ setCurrenttaskState(0)

\* Disciplined, which is about the constants, leaves the processes no other steps.
LEMMA NextDisciplined == Disciplined /\ Typed /\ Next => DisciplinedStep
<1> SUFFICES ASSUME Disciplined, Typed, Next PROVE DisciplinedStep
  OBVIOUS
<1>1. InUser => currentTask \in Tasks /\ pid[currentTask] = currentTask
  BY DEF InUser, Typed, TypeOK, ProcessTree, Tasks
<1>2. ASSUME NEW p \in Slots, waitpid(p) PROVE p \in Tasks /\ ppid[p] = currentTask
  BY <1>1, <1>2 DEF waitpid, MayWaitFor, Disciplined, Typed, ProcessTree
<1>3. exit => currentTask # 0
  BY <1>1 DEF exit, Disciplined
<1>4. ASSUME NEW v \in Priorities PROVE v \in Int32 /\ v < PriorityLimit
  BY ArgumentAssumption DEF Disciplined
<1>5. AgingPids \subseteq Slots
  BY ArgumentAssumption DEF Slots
<1>6. \A s \in States : s = 0
  BY DEF Disciplined
<1> QED BY <1>2, <1>3, <1>4, <1>5, <1>6 DEF Next, DisciplinedStep

\* Every such step keeps the invariant; those that do not run Schedule touch the
\* current task, which nobody blocked is, or the free slot of the table.
LEMMA StepDisciplined ==
    Typed /\ Typed' /\ DisciplinedInv /\ [DisciplinedStep]_vars => DisciplinedInv'
<1> SUFFICES ASSUME Typed, Typed', DisciplinedInv, [DisciplinedStep]_vars
             PROVE  DisciplinedInv'
  OBVIOUS
<1> USE TableAssumption
<1> DEFINE kept == <<waitingProcess, frame, target, exited, currentTask>>
<1>1. CASE AddTask
  <2>1. /\ numTasks = 0 /\ numTasks' = 1 /\ ~active /\ UNCHANGED <<kept, active, priority>>
        /\ state' = [state EXCEPT ![0] = "Ready"]
    BY <1>1 DEF AddTask, NewTask
  <2>2. Tasks = {} /\ Tasks' = {0} /\ 0 \in Slots /\ Slots' = Slots
    BY <2>1 DEF Tasks, Slots
  <2>3. /\ state'[0] = "Ready" /\ waitingProcess'[0] = NoPid /\ frame'[0] = "user"
        /\ exited' = {} /\ currentTask' = -1
    BY <2>1, <2>2 DEF DisciplinedInv, Bookkeeping, Typed, TypeOK
  <2>4. Bookkeeping'
    BY <2>1, <2>2, <2>3 DEF DisciplinedInv, Bookkeeping, Live
  <2>5. (WaiterRegistered /\ RegistrationCurrent /\ AnswerReady)'
    BY <2>2, <2>3 DEF WaiterRegistered, RegistrationCurrent, AnswerReady, Live
  <2> QED
    BY <2>3, <2>4, <2>5 DEF DisciplinedInv, TerminatedForever, CurrentRunnable
<1>2. CASE ForkChild
  <2> DEFINE c == numTasks
  <2>1. /\ c \in Slots /\ c \notin Tasks /\ Tasks' = Tasks \cup {c} /\ Slots' = Slots
        /\ UNCHANGED <<kept, active>> /\ active
        /\ state' = [state EXCEPT ![c] = "Ready"]
        /\ priority' = [priority EXCEPT ![c] = -1]
        /\ ppid' = [ppid EXCEPT ![c] = pid[currentTask]]
    <3>1. c \in Slots /\ c \notin Tasks /\ Slots' = Slots
      BY <1>2 DEF ForkChild, TableFull, Typed, TypeOK, Slots, Tasks
    <3>2. Tasks' = Tasks \cup {c}
      BY <1>2 DEF ForkChild, NewTask, Tasks, Typed, TypeOK
    <3> QED BY <1>2, <3>1, <3>2 DEF ForkChild, NewTask, InUser
  <2>2. /\ state \in [Slots -> TaskStates] /\ priority \in [Slots -> Int32]
        /\ ppid \in [Slots -> Slots \cup {NoPid}] /\ Tasks \subseteq Slots
        /\ exited \subseteq Tasks /\ (currentTask >= 0 => currentTask \in Tasks)
    BY TasksAreSlots DEF Typed, TypeOK, Tasks
  <2>3. /\ \A i \in Slots : state'[i] = IF i = c THEN "Ready" ELSE state[i]
        /\ \A i \in Slots : ppid'[i] = IF i = c THEN pid[currentTask] ELSE ppid[i]
        /\ \A i \in Slots : priority'[i] = IF i = c THEN -1 ELSE priority[i]
    BY <2>1, <2>2
  <2>4. waitingProcess[c] = NoPid /\ frame[c] = "user"
    BY <2>1 DEF DisciplinedInv, Bookkeeping
  <2> HIDE DEF c
  <2>5. WaiterRegistered'
    <3> SUFFICES ASSUME NEW i \in Tasks', state'[i] = "Blocked"
                 PROVE  /\ frame[i] = "waitpid"
                        /\ target[i] \in Tasks' /\ ppid'[target[i]] = i
                        /\ state'[target[i]] # "Terminated"
                        /\ waitingProcess[target[i]] = i
      BY <2>1 DEF WaiterRegistered, Live
    <3>1. i \in Tasks /\ state[i] = "Blocked"
      BY <2>1, <2>2, <2>3
    <3>2. /\ frame[i] = "waitpid" /\ target[i] \in Tasks /\ ppid[target[i]] = i
          /\ state[target[i]] # "Terminated" /\ waitingProcess[target[i]] = i
      BY <3>1 DEF DisciplinedInv, WaiterRegistered, Live
    <3> QED BY <2>1, <2>2, <2>3, <3>2
  <2>6. RegistrationCurrent'
    <3> SUFFICES ASSUME NEW p \in Tasks', state'[p] # "Terminated",
                        waitingProcess[p] # NoPid
                 PROVE  /\ waitingProcess[p] \in Tasks'
                        /\ state'[waitingProcess[p]] = "Blocked"
                        /\ frame[waitingProcess[p]] = "waitpid"
                        /\ target[waitingProcess[p]] = p
      BY <2>1 DEF RegistrationCurrent, Live
    <3>1. p \in Tasks /\ state[p] # "Terminated"
      BY <2>1, <2>2, <2>3, <2>4
    <3>2. /\ waitingProcess[p] \in Tasks
          /\ state[waitingProcess[p]] = "Blocked"
          /\ frame[waitingProcess[p]] = "waitpid"
          /\ target[waitingProcess[p]] = p
      BY <3>1 DEF DisciplinedInv, RegistrationCurrent, Live
    <3> QED BY <2>1, <2>2, <2>3, <3>2
  <2>7. AnswerReady'
    <3> SUFFICES ASSUME NEW i \in Tasks', frame[i] = "waitpid", state'[i] # "Blocked"
                 PROVE  target[i] \in Tasks' /\ state'[target[i]] = "Terminated"
      BY <2>1 DEF AnswerReady, Live
    <3>1. i \in Tasks /\ state[i] # "Blocked"
      BY <2>1, <2>2, <2>3, <2>4
    <3>2. target[i] \in Tasks /\ state[target[i]] = "Terminated"
      BY <3>1 DEF DisciplinedInv, AnswerReady, Live
    <3> QED BY <2>1, <2>2, <2>3, <3>2
  <2>8. TerminatedForever'
    BY <2>1, <2>2, <2>3 DEF DisciplinedInv, TerminatedForever
  <2>9. CurrentRunnable'
    BY <2>1, <2>2, <2>3 DEF DisciplinedInv, CurrentRunnable
  <2>10. Bookkeeping'
    <3>1. \A i \in Tasks' : state'[i] = "Terminated" => i \in exited
      BY <2>1, <2>2, <2>3 DEF DisciplinedInv, Bookkeeping, Live
    <3>2. \A i \in Slots : priority'[i] < PriorityLimit
      BY <2>3 DEF DisciplinedInv, Bookkeeping, PriorityLimit
    <3>3. \A i \in Slots \ Tasks' : waitingProcess[i] = NoPid /\ frame[i] = "user"
      BY <2>1 DEF DisciplinedInv, Bookkeeping
    <3> QED BY <2>1, <3>1, <3>2, <3>3 DEF DisciplinedInv, Bookkeeping, Live
  <2> QED BY <2>5, <2>6, <2>7, <2>8, <2>9, <2>10 DEF DisciplinedInv
<1>3. ASSUME UNCHANGED <<identity, kept, active, state>>,
             \A i \in Slots : priority'[i] < PriorityLimit
      PROVE  DisciplinedInv'
  <2>1. Tasks' = Tasks /\ Slots' = Slots
    BY <1>3 DEF Tasks, Slots, identity
  <2> QED
    BY <1>3, <2>1
    DEF DisciplinedInv, WaiterRegistered, RegistrationCurrent, TerminatedForever,
        AnswerReady, CurrentRunnable, Bookkeeping, Live, identity
<1>4. ASSUME UNCHANGED <<identity, kept, active, priority>>, InUser,
             state' = [state EXCEPT ![currentTask] = "Ready"]
      PROVE  DisciplinedInv'
  <2>1. Tasks' = Tasks /\ Slots' = Slots /\ currentTask \in Tasks /\ Tasks \subseteq Slots
    BY <1>4, TasksAreSlots DEF Tasks, Slots, identity, InUser, Typed, TypeOK
  <2>2. state[currentTask] # "Blocked" /\ state[currentTask] # "Terminated"
    BY <1>4 DEF InUser, DisciplinedInv, CurrentRunnable, Unrunnable
  <2>3. /\ \A i \in Tasks : state'[i] = "Blocked" <=> state[i] = "Blocked"
        /\ \A i \in Tasks : state'[i] = "Terminated" <=> state[i] = "Terminated"
        /\ state'[currentTask] = "Ready"
    BY <1>4, <2>1, <2>2 DEF Typed, TypeOK
  <2>4. (WaiterRegistered /\ RegistrationCurrent /\ AnswerReady)'
    BY <1>4, <2>1, <2>3
    DEF DisciplinedInv, WaiterRegistered, RegistrationCurrent, AnswerReady, Live, identity
  <2>5. TerminatedForever'
    BY <1>4, <2>3 DEF DisciplinedInv, TerminatedForever, Typed, TypeOK
  <2>6. CurrentRunnable' /\ Bookkeeping'
    BY <1>4, <2>1, <2>3
    DEF DisciplinedInv, CurrentRunnable, Bookkeeping, Live, Unrunnable
  <2> QED BY <2>4, <2>5, <2>6 DEF DisciplinedInv
<1>5. CASE Tick
  BY <1>5, TickKeeps
<1>6. ASSUME NEW p \in Tasks, ppid[p] = currentTask, waitpid(p) PROVE DisciplinedInv'
  BY <1>6, WaitpidKeeps
<1>7. CASE currentTask # 0 /\ exit
  BY <1>7, ExitKeeps
<1>8. CASE Activate
  <2>1. UNCHANGED <<identity, kept, state, priority>> /\ active'
    BY <1>8 DEF Activate, identity
  <2>2. Tasks' = Tasks /\ Slots' = Slots
    BY <2>1 DEF Tasks, Slots, identity
  <2> QED
    BY <2>1, <2>2
    DEF DisciplinedInv, WaiterRegistered, RegistrationCurrent, TerminatedForever,
        AnswerReady, CurrentRunnable, Bookkeeping, Live, identity
<1>9. CASE ForkFull
  BY <1>3, <1>9 DEF ForkFull, DisciplinedInv, Bookkeeping
<1>10. CASE execve
  BY <1>4, <1>10 DEF execve
<1>11. ASSUME NEW v \in Int32, v < PriorityLimit, setCurrenttaskPriority(v) PROVE DisciplinedInv'
  <2>1. \A i \in Slots : priority'[i] < PriorityLimit
    BY <1>11
    DEF setCurrenttaskPriority, DisciplinedInv, Bookkeeping, Typed, TypeOK
  <2> QED BY <1>3, <1>11, <2>1 DEF setCurrenttaskPriority
<1>12. ASSUME NEW p \in Slots, setAgingPid(p) PROVE DisciplinedInv'
  BY <1>3, <1>12 DEF setAgingPid, DisciplinedInv, Bookkeeping
<1>13. CASE setCurrenttaskState(0)
  BY <1>4, <1>13 DEF setCurrenttaskState
<1>14. CASE UNCHANGED vars
  BY <1>3, <1>14 DEF vars, identity, DisciplinedInv, Bookkeeping
<1> QED
  BY <1>1, <1>2, <1>5, <1>6, <1>7, <1>8, <1>9, <1>10, <1>11, <1>12, <1>13, <1>14
  DEF DisciplinedStep, Fork

\* The invariant of programs in which the first process never exits, processes
\* wait for their own children and nobody blocks itself through set_state.
THEOREM DisciplinedInvariant ==
    ASSUME Disciplined
    PROVE  Spec => []DisciplinedInv
<1>1. Init => DisciplinedInv
  BY InitDisciplined
<1>2. Typed /\ Typed' /\ DisciplinedInv /\ [Next]_vars => DisciplinedInv'
  BY NextDisciplined, StepDisciplined
<1> QED BY <1>1, <1>2, AlwaysTyped, PTL DEF Spec

\* sysexit is final: a process that has exited is never run again.
THEOREM ExitIsFinal ==
    ASSUME Disciplined
    PROVE  Spec => []TerminatedForever
  BY DisciplinedInvariant, PTL DEF DisciplinedInv

\* No wake-up is lost: whoever is blocked waits for a live child that will wake it.
THEOREM NoLostWakeup ==
    ASSUME Disciplined
    PROVE  Spec => []WaiterRegistered
  BY DisciplinedInvariant, PTL DEF DisciplinedInv

\* What WaitpidSound says of a step.
Sound ==
    \A i \in Tasks, p \in Tasks :
      \/ frame[i] = "waitpid" /\ target[i] = p /\ frame'[i] = "user"
      \/ currentTask = i /\ currentTask' = i /\ waitpid(p)
      => state'[p] = "Terminated"

\* Whoever leaves its waitpid has its answer.
LEMMA StepAnswers ==
    ASSUME Typed, Typed', DisciplinedInv, [DisciplinedStep]_vars
    PROVE  \A i \in Tasks : frame[i] = "waitpid" /\ frame'[i] = "user" =>
                               state'[target[i]] = "Terminated"
<1>1. CASE Tick
  BY <1>1, TickKeeps
<1>2. CASE \E p \in Tasks : ppid[p] = currentTask /\ waitpid(p)
  BY <1>2, WaitpidKeeps
<1>3. CASE currentTask # 0 /\ exit
  BY <1>3, ExitKeeps
<1>4. CASE frame' = frame
  BY <1>4
<1> QED
  BY <1>1, <1>2, <1>3, <1>4
  DEF DisciplinedStep, AddTask, Activate, Fork, ForkFull, ForkChild, execve,
      setCurrenttaskPriority, setAgingPid, setCurrenttaskState, vars

LEMMA StepSound ==
    ASSUME Typed, Typed', DisciplinedInv, DisciplinedStep,
           \A p \in Tasks : waitpid(p) => ppid[p] = currentTask
    PROVE  Sound
<1>1. \A p \in Tasks : waitpid(p) => currentTask' # currentTask
  BY WaitpidKeeps
<1>2. \A i \in Tasks : frame[i] = "waitpid" /\ frame'[i] = "user" =>
                           state'[target[i]] = "Terminated"
  BY StepAnswers
<1> QED BY <1>1, <1>2 DEF Sound

\* waitpid returns to its program only when the child has exited.
THEOREM WaitpidCorrect ==
    ASSUME Disciplined
    PROVE  Spec => WaitpidSound
<1>1. Typed /\ Typed' /\ DisciplinedInv /\ [Next]_vars => [Sound]_vars
  <2> SUFFICES ASSUME Typed, Typed', DisciplinedInv, Next PROVE Sound
    OBVIOUS
  <2>1. \A p \in Tasks : waitpid(p) => ppid[p] = currentTask
    BY DEF waitpid, MayWaitFor, Disciplined, Typed, TypeOK, ProcessTree, InUser, Tasks
  <2> QED BY <2>1, NextDisciplined, StepSound
<1>2. WaitpidSound <=> [][Sound]_vars
  BY DEF WaitpidSound, Sound
<1> QED BY <1>1, <1>2, AlwaysTyped, DisciplinedInvariant, PTL DEF Spec
==============================================================================
