----------------------------- MODULE TaskManager -----------------------------
(***************************************************************************)
(* The process table of the kernel: TaskManager and Task of                 *)
(* source/src/multitasking.cpp, entered from the system calls of            *)
(* source/src/syscalls.cpp and from the timer interrupt.                    *)
(*                                                                          *)
(* Every gate of the IDT is an interrupt gate, so a handler runs with       *)
(* interrupts disabled and is one step here.  waitpid and exit execute      *)
(* int $0x20 inside their handler: the step includes the Schedule that this *)
(* runs, and what is left of the handler is the frame that Schedule saved.  *)
(* That frame is resumed with interrupts still disabled and returns to the  *)
(* caller, which happens in the step that picks the task again.             *)
(*                                                                          *)
(* The programs are the environment: the current task may make any system   *)
(* call at any time, within the discipline the constants describe.          *)
(***************************************************************************)
EXTENDS Integers, SchedulePick

CONSTANTS
    MAX_TASKS,      \* slots of the process table (256 in the code)
    AgingCount,     \* the interrupt_count at which aging strikes (20)
    MaxCount,       \* interrupt_count saturates here; only AgingCount is tested
    Priorities,     \* the arguments of set_priority
    AgingPids,      \* the arguments of set_aging
    States,         \* the arguments of set_state that do something
    Immortal,       \* the pids whose program never calls sysexit
    OwnChildOnly,   \* whether programs call waitpid for their children only
    Uninit          \* what the never initialised eax_value may hold

NoPid == -1

\* The int of the target, in which priority and eax_value live.
INT_MAX == 2147483647
INT_MIN == -INT_MAX - 1
Int32 == INT_MIN .. INT_MAX

ASSUME TableAssumption == MAX_TASKS \in Nat \ {0} /\ MAX_TASKS <= INT_MAX
ASSUME CountAssumption ==
    AgingCount \in Nat /\ MaxCount \in Nat /\ AgingCount < MaxCount
ASSUME ArgumentAssumption ==
    /\ Priorities \subseteq Int32
    /\ States \subseteq {0, 2}
    /\ AgingPids \subseteq 0 .. MAX_TASKS - 1
    /\ Immortal \subseteq Nat
    /\ OwnChildOnly \in BOOLEAN
    /\ Uninit \subseteq Int32

VARIABLES
    pid, ppid, priority, state, waitingProcess, eax_value,  \* per slot
    numTasks, currentTask, next_pid, interrupt_count, aging_pid,
    active,     \* InterruptManager::Activate has run: the timer ticks
    frame,      \* where the saved context of a task stands: in its program or
                \* in the kernel code behind the int $0x20 of waitpid or exit
    target,     \* the argument pid of the waitpid call that frame is in
    exited      \* history: the processes that have called sysexit

identity == <<pid, ppid, numTasks, next_pid>>
vars == <<pid, ppid, priority, state, waitingProcess, eax_value, numTasks,
          currentTask, next_pid, interrupt_count, aging_pid, active, frame,
          target, exited>>

Slots == 0 .. MAX_TASKS - 1
Tasks == 0 .. numTasks - 1
Frames == {"user", "waitpid", "exit"}

\* Every slot holds what Task::Task() and the member initialisers leave there.
\* eax_value is left as the memory was; only slot 0 keeps that value for long
\* enough to be read, so one value for all slots loses nothing.
Init ==
    /\ pid = [i \in Slots |-> NoPid]
    /\ ppid = [i \in Slots |-> NoPid]
    /\ priority = [i \in Slots |-> -1]
    /\ state = [i \in Slots |-> "Ready"]
    /\ waitingProcess = [i \in Slots |-> NoPid]
    /\ \E v \in Uninit : eax_value = [i \in Slots |-> v]
    /\ numTasks = 0
    /\ currentTask = -1
    /\ next_pid = 0
    /\ interrupt_count = 0
    /\ aging_pid = -1
    /\ active = FALSE
    /\ frame = [i \in Slots |-> "user"]
    /\ target = [i \in Slots |-> NoPid]
    /\ exited = {}

\* The first slot that holds pid p, or -1.
findTaskByPID(p) ==
    LET hits == {i \in Tasks : pid[i] = p}
    IN  IF hits = {} THEN -1 ELSE CHOOSE i \in hits : \A j \in hits : i <= j

-----------------------------------------------------------------------------
(***************************************************************************)
(* Schedule, entered by the current task with its context standing at       *)
(* "where", inside a call of waitpid for arg if that is "waitpid", and with *)
(* the table's states already changed to st.                                *)
(***************************************************************************)

\* Mutant: the waiter is never woken.
WakeNobody(st) == st

\* Mutant: the waiter is woken without a look at the current task's state.
WakeAlways(st) ==
    LET w == findTaskByPID(waitingProcess[currentTask])
    IN  IF currentTask >= 0 /\ waitingProcess[currentTask] # NoPid /\ w # -1
        THEN [st EXCEPT ![w] = "Ready"]
        ELSE st

\* The waitpid mechanism: the process registered at a terminated current task
\* becomes Ready, whatever its state is.  At the first interrupt currentTask is
\* still -1 and the code reads tasks[-1]; the only process is Ready then, so
\* whatever is found there changes nothing.
WakeWaiter(st) ==
    LET w == findTaskByPID(waitingProcess[currentTask])
    IN  IF /\ currentTask >= 0
           /\ st[currentTask] = "Terminated"
           /\ waitingProcess[currentTask] # NoPid
           /\ w # -1
        THEN [st EXCEPT ![w] = "Ready"]
        ELSE st

\* Aging: once, at interrupt AgingCount, the registered process gets priority 1.
Aged(st) ==
    LET a == findTaskByPID(aging_pid)
    IN  IF interrupt_count = AgingCount /\ a # -1 /\ st[a] # "Terminated"
        THEN [priority EXCEPT ![a] = 1]
        ELSE priority

\* The context of the interrupted task is stored and that of next is loaded; a
\* context that stands in the kernel runs on to the return to its program.
SwitchContext(where, arg, next) ==
    /\ frame' = [i \in Slots |->
                   IF i = next THEN "user"
                   ELSE IF i = currentTask THEN where ELSE frame[i]]
    /\ target' = [i \in Slots |->
                   IF i = next THEN NoPid
                   ELSE IF i = currentTask THEN arg ELSE target[i]]

Schedule(st, where, arg) ==
    LET woken == WakeWaiter(st)
        next  == PickTask(numTasks, currentTask, woken, Aged(woken))
    IN  /\ numTasks > 0
        /\ priority' = Aged(woken)
        /\ state' = [woken EXCEPT ![next] = "Running"]
        /\ currentTask' = next
        /\ SwitchContext(where, arg, next)
        /\ interrupt_count' =
              IF interrupt_count < MaxCount THEN interrupt_count + 1 ELSE MaxCount

-----------------------------------------------------------------------------
(* kernelMain: one AddTask, and after the drivers are set up, Activate.     *)

\* Mutant: next_pid is not advanced.
NewTaskSamePid(parent) ==
    /\ pid' = [pid EXCEPT ![numTasks] = next_pid]
    /\ ppid' = [ppid EXCEPT ![numTasks] = parent]
    /\ state' = [state EXCEPT ![numTasks] = "Ready"]
    /\ numTasks' = numTasks + 1
    /\ next_pid' = next_pid

\* What AddTask and fork have in common: the next slot gets the next pid.
NewTask(parent) ==
    /\ pid' = [pid EXCEPT ![numTasks] = next_pid]
    /\ ppid' = [ppid EXCEPT ![numTasks] = parent]
    /\ state' = [state EXCEPT ![numTasks] = "Ready"]
    /\ numTasks' = numTasks + 1
    /\ next_pid' = next_pid + 1

\* Mutant: the bound is off by one.
TableFullLate == numTasks > MAX_TASKS

TableFull == numTasks >= MAX_TASKS

AddTask ==
    /\ ~active
    /\ numTasks = 0
    /\ ~TableFull
    /\ NewTask(NoPid)
    /\ UNCHANGED <<priority, waitingProcess, eax_value, currentTask,
                   interrupt_count, aging_pid, active, frame, target, exited>>

Activate ==
    /\ ~active
    /\ numTasks > 0
    /\ active' = TRUE
    /\ UNCHANGED <<pid, ppid, priority, state, waitingProcess, eax_value,
                   numTasks, currentTask, next_pid, interrupt_count, aging_pid,
                   frame, target, exited>>

\* The timer interrupt 0x20.
Tick ==
    /\ active
    /\ Schedule(state, "user", NoPid)
    /\ UNCHANGED <<identity, waitingProcess, eax_value, aging_pid, active, exited>>

-----------------------------------------------------------------------------
(* The system calls of the current task.                                    *)

InUser == active /\ currentTask >= 0

ForkFull ==
    /\ InUser
    /\ TableFull
    /\ eax_value' = [eax_value EXCEPT ![currentTask] = -1]
    /\ UNCHANGED <<identity, priority, state, waitingProcess, currentTask,
                   interrupt_count, aging_pid, active, frame, target, exited>>

\* Mutant: the child keeps what the slot held.
ForkValuesParentOnly == [eax_value EXCEPT ![currentTask] = next_pid]

\* The double return: 0 for the child, the child's pid for the parent.
ForkValues == [eax_value EXCEPT ![numTasks] = 0, ![currentTask] = next_pid]

\* createProcess gives the child the default priority -1; its waitingProcess is
\* the untouched one of the slot.
ForkChild ==
    /\ InUser
    /\ ~TableFull
    /\ NewTask(pid[currentTask])
    /\ priority' = [priority EXCEPT ![numTasks] = -1]
    /\ eax_value' = ForkValues
    /\ UNCHANGED <<waitingProcess, currentTask, interrupt_count, aging_pid,
                   active, frame, target, exited>>

Fork == ForkFull \/ ForkChild

MayWaitFor(p) ==
    OwnChildOnly => \E i \in Tasks : pid[i] = p /\ ppid[i] = pid[currentTask]

\* An unknown or a terminated process: waitpid returns without a trace.
WaitpidReturns(p) ==
    \/ findTaskByPID(p) = -1
    \/ state[findTaskByPID(p)] = "Terminated"

waitpid(p) ==
    /\ InUser
    /\ MayWaitFor(p)
    /\ ~WaitpidReturns(p)
    /\ waitingProcess' =
          [waitingProcess EXCEPT ![findTaskByPID(p)] = pid[currentTask]]
    /\ Schedule([state EXCEPT ![currentTask] = "Blocked"], "waitpid", p)
    /\ UNCHANGED <<identity, eax_value, aging_pid, active, exited>>

\* The loop of exit that the code comments "wake up parent".
ExitWakes(st) ==
    [i \in Slots |-> IF /\ i \in Tasks
                        /\ waitingProcess[i] = pid[currentTask]
                        /\ st[i] = "Blocked"
                     THEN "Ready" ELSE st[i]]

exit ==
    /\ InUser
    /\ pid[currentTask] \notin Immortal
    /\ exited' = exited \cup {currentTask}
    /\ Schedule(ExitWakes([state EXCEPT ![currentTask] = "Terminated"]), "exit", NoPid)
    /\ UNCHANGED <<identity, waitingProcess, eax_value, aging_pid, active>>

\* createProcess on the own slot: a fresh context with the same pid, ppid and
\* priority, in state Ready although the task goes on running.
execve ==
    /\ InUser
    /\ state' = [state EXCEPT ![currentTask] = "Ready"]
    /\ UNCHANGED <<identity, priority, waitingProcess, eax_value, currentTask,
                   interrupt_count, aging_pid, active, frame, target, exited>>

setCurrenttaskPriority(v) ==
    /\ InUser
    /\ priority' = [priority EXCEPT ![currentTask] = v]
    /\ UNCHANGED <<identity, state, waitingProcess, eax_value, currentTask,
                   interrupt_count, aging_pid, active, frame, target, exited>>

setAgingPid(p) ==
    /\ InUser
    /\ aging_pid' = p
    /\ UNCHANGED <<identity, priority, state, waitingProcess, eax_value,
                   currentTask, interrupt_count, active, frame, target, exited>>

\* SYS_SET_STATE: 0 is Ready, 2 is Blocked, anything else is ignored.  The task
\* goes on running until the next interrupt.
setCurrenttaskState(s) ==
    /\ InUser
    /\ state' = [state EXCEPT ![currentTask] = IF s = 0 THEN "Ready" ELSE "Blocked"]
    /\ UNCHANGED <<identity, priority, waitingProcess, eax_value, currentTask,
                   interrupt_count, aging_pid, active, frame, target, exited>>

Next ==
    \/ AddTask
    \/ Activate
    \/ Tick
    \/ Fork
    \/ \E p \in Slots : waitpid(p)
    \/ exit
    \/ execve
    \/ \E v \in Priorities : setCurrenttaskPriority(v)
    \/ \E p \in AgingPids : setAgingPid(p)
    \/ \E s \in States : setCurrenttaskState(s)

Spec == Init /\ [][Next]_vars

-----------------------------------------------------------------------------
(* Properties of every program.                                             *)

\* Every variable stays in the range its C++ type and the table give it.
TypeOK ==
    /\ pid \in [Slots -> Slots \cup {NoPid}]
    /\ ppid \in [Slots -> Slots \cup {NoPid}]
    /\ priority \in [Slots -> Int32]
    /\ state \in [Slots -> TaskStates]
    /\ waitingProcess \in [Slots -> Slots \cup {NoPid}]
    /\ eax_value \in [Slots -> Int32]
    /\ numTasks \in 0 .. MAX_TASKS
    /\ currentTask \in -1 .. numTasks - 1
    /\ next_pid \in 0 .. MAX_TASKS
    /\ interrupt_count \in 0 .. MaxCount
    /\ aging_pid \in Slots \cup {NoPid}
    /\ active \in BOOLEAN
    /\ frame \in [Slots -> Frames]
    /\ target \in [Slots -> Slots \cup {NoPid}]
    /\ exited \subseteq Tasks

\* The process table is a tree: pids are the slot numbers, handed out without
\* gaps from next_pid, and a parent was created before its child.  This is why
\* findTaskByPID's first match is the only one (AddTask, fork).
ProcessTree ==
    /\ next_pid = numTasks
    /\ \A i \in Tasks : pid[i] = i /\ ppid[i] \in -1 .. i - 1
    /\ \A i \in Slots \ Tasks : pid[i] = NoPid /\ ppid[i] = NoPid

Children(i) == {j \in Tasks : ppid[j] = pid[i]}

\* What fork leaves for SYS_DOUBLE_RETURN: -1 only when the table is full,
\* otherwise the pid of the youngest child, and for a process without children
\* 0 (or, for the first process, the value the memory held).  It stays so across
\* every switch between the two system calls.
ForkReturn ==
    \A i \in Tasks :
        \/ eax_value[i] = -1 /\ numTasks = MAX_TASKS
        \/ \E c \in Children(i) :
              eax_value[i] = pid[c] /\ \A d \in Children(i) : d <= c
        \/ Children(i) = {} /\ eax_value[i] \in (IF i = 0 THEN Uninit ELSE {0})

\* A switch chooses a runnable task of the best priority, and every other
\* runnable task of that priority moves closer to its turn: it waits for at most
\* numTasks - 1 switches of Schedule while the priorities stay as they are.
RoundRobin ==
    currentTask' # currentTask =>
        \A i \in Tasks \ {currentTask'} :
            state'[i] \notin Unrunnable =>
                /\ priority'[currentTask'] <= priority'[i]
                /\ priority'[i] = priority'[currentTask'] =>
                      Dist(currentTask', i, numTasks) < Dist(currentTask, i, numTasks)
RoundRobinProgress == [][RoundRobin]_vars

-----------------------------------------------------------------------------
(***************************************************************************)
(* Properties of disciplined programs: the first process never exits, a     *)
(* process waits for its own children only, set_state is only used to set   *)
(* Ready and priorities are below the scheduler's limit.                    *)
(***************************************************************************)
Disciplined ==
    /\ 0 \in Immortal
    /\ OwnChildOnly
    /\ States \subseteq {0}
    /\ \A v \in Priorities : v < PriorityLimit

Live(i) == state[i] # "Terminated"

\* sysexit is final: the Schedule inside exit finds another task and never
\* falls back to the caller, and no later Schedule or wake-up makes a process
\* that has exited runnable again.
TerminatedForever == \A i \in exited : state[i] = "Terminated"

\* waitpid returns to its program, at once or when the saved frame is resumed,
\* only if the process waited for has exited.
WaitpidSound ==
    [][\A i \in Tasks, p \in Tasks :
          \/ frame[i] = "waitpid" /\ target[i] = p /\ frame'[i] = "user"
          \/ currentTask = i /\ currentTask' = i /\ waitpid(p)
          => state'[p] = "Terminated"]_vars

\* No wake-up is lost: whoever is Blocked waits for a live child that has it
\* registered in waitingProcess.
WaiterRegistered ==
    \A i \in Tasks :
        state[i] = "Blocked" =>
            /\ frame[i] = "waitpid"
            /\ target[i] \in Tasks /\ ppid[target[i]] = i
            /\ Live(target[i])
            /\ waitingProcess[target[i]] = i

\* A registration at a live process is current: the registered process is still
\* blocked in waitpid for it.  This makes the unconditional setState(Ready) of
\* Schedule harmless and the wake-up loop of exit dead code.
RegistrationCurrent ==
    \A p \in Tasks :
        Live(p) /\ waitingProcess[p] # NoPid =>
            LET w == waitingProcess[p] IN
            w \in Tasks /\ state[w] = "Blocked" /\ frame[w] = "waitpid" /\ target[w] = p

\* A process that left Blocked while its frame is still in waitpid has its
\* answer: the process it waits for has exited.
AnswerReady ==
    \A i \in Tasks :
        frame[i] = "waitpid" /\ state[i] # "Blocked" =>
            target[i] \in Tasks /\ ~Live(target[i])

\* The processor never runs a blocked or terminated task.
CurrentRunnable ==
    currentTask >= 0 => state[currentTask] \notin Unrunnable /\ frame[currentTask] = "user"

Bookkeeping ==
    /\ ~active => currentTask = -1
    /\ 0 \notin exited
    /\ \A i \in Tasks : ~Live(i) => i \in exited
    /\ \A i \in Slots : priority[i] < PriorityLimit
    /\ \A i \in Slots \ Tasks : waitingProcess[i] = NoPid /\ frame[i] = "user"

\* The invariant that carries the proofs for disciplined programs: waiting is a
\* chain towards younger live processes, every link of it is registered at the
\* process waited for, and whoever left the chain has its answer.
DisciplinedInv ==
    /\ WaiterRegistered
    /\ RegistrationCurrent
    /\ TerminatedForever
    /\ AnswerReady
    /\ CurrentRunnable
    /\ Bookkeeping

\* What the comment "wake up parent" of exit promises to every process in
\* waitpid: none stays blocked on a process that has exited.
WaitersWoken ==
    \A i \in Tasks : state[i] = "Blocked" /\ frame[i] = "waitpid" => Live(target[i])

-----------------------------------------------------------------------------
(* Liveness.  kernelMain gets to its end, and the timer keeps interrupting  *)
(* the programs.                                                            *)

FairSpec == Spec /\ WF_vars(AddTask) /\ WF_vars(Activate) /\ WF_vars(Tick)

Runnable(i) == i \in Tasks /\ state[i] \notin Unrunnable
Outranked(i) == \E j \in Tasks : Runnable(j) /\ priority[j] < priority[i]

\* Round robin does not starve: a task that stays runnable while no runnable task
\* has a better priority runs again and again.
NoStarvation ==
    \A i \in Slots :
        []<>(currentTask = i \/ ~Runnable(i) \/ Outranked(i))

\* After the process waited for has exited, waitpid returns, unless processes of
\* better priority keep the processor for ever.
WaitpidReturnsEventually ==
    \A i \in Slots :
        []<>(~(frame[i] = "waitpid" /\ ~Live(target[i])) \/ Outranked(i))

\* What the README promises of set_aging: the registered process does not starve.
AgingPreventsStarvation ==
    \A i \in Slots :
        []<>(currentTask = i \/ aging_pid # i \/ i \notin Tasks \/ state[i] \in Unrunnable)
=============================================================================
