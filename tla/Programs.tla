------------------------------ MODULE Programs ------------------------------
(***************************************************************************)
(* The programs of source/src/kernel.cpp on top of TaskManager.  A program  *)
(* is a sequence of instructions at the grain at which the timer can        *)
(* interrupt it: system calls, and the accesses to local variables, which   *)
(* the unoptimised build keeps in the stack frame of the program.           *)
(*                                                                          *)
(* fork copies the registers of the parent, ebp with them, so the child     *)
(* goes on with the parent's stack frame as its own: base tells whose stack *)
(* holds the locals of a process.  execve starts with a frame on the        *)
(* process's own stack.  Printing and computing have no state here.         *)
(***************************************************************************)
EXTENDS TaskManager, Sequences

CONSTANTS
    Rounds,     \* the bound of the loops that fork (3 or 10 in the code)
    WarmUp,     \* the interrupt count part_b_third_strategy waits for (50)
    Started,    \* the programs kernelMain may be made to start
    Preempt     \* whether the timer may strike while pid is being used

ASSUME ProgramAssumption ==
    /\ Rounds \in Nat \ {0} /\ WarmUp \in 0 .. MaxCount - 1 /\ Preempt \in BOOLEAN

VARIABLES
    code, pc,   \* the program each process runs and the next instruction of it
    eax,        \* the register in which values move to and from the locals
    base,       \* the process whose stack holds the locals (ebp)
    local       \* the locals of the program in the frame of each process

registers == <<code, pc, eax, base, local>>
allVars == <<vars, registers>>

Locals == {"pid", "pid2", "i", "i2", "initializedProcesses"}

-----------------------------------------------------------------------------
(* Instructions, and the shapes the programs are made of.                   *)

Op(name) == <<[op |-> name]>>
On(name, x) == <<[op |-> name, var |-> x]>>
With(name, v) == <<[op |-> name, arg |-> v]>>

\* while(1);
Spin == Op("spin")

\* Where the code of a function ends: there is nothing to return to.
Return == Op("return")

\* x = sysfork_return();
Assign(x) == Op("get") \o On("store", x)

\* sysfork(); int x = sysfork_return();
ForkTo(x) == Op("fork") \o Assign(x)

\* if(x == 0){child}else{parent}
IfChild(x, child, parent) ==
    <<[op |-> "ifchild", var |-> x, skip |-> Len(child) + 1]>> \o child
        \o <<[op |-> "jump", skip |-> Len(parent)]>> \o parent

\* waitpid(x);
WaitFor(x) == On("load", x) \o Op("wait")

\* for(int x = 0; x < Rounds; x++){body}
For(x, body) ==
    On("zero", x) \o body \o On("inc", x)
        \o <<[op |-> "less", var |-> x, back |-> Len(body) + 1]>>

\* sysexecve(f); while(1);
Become(f) == With("exec", f) \o Spin

-----------------------------------------------------------------------------
(* The programs.                                                            *)

\* collatztask, longrunningtask, binar_search_task and linear_search_task print
\* and compute ten times and exit.
worker == Op("exit") \o Return

\* collatztask_with_input and hello_from_execve never end.
forever == Spin

forktask_3 == ForkTo("pid") \o IfChild("pid", <<>>, <<>>) \o Spin

forktask_4 ==
    Op("fork") \o Op("fork") \o ForkTo("pid")
        \o IfChild("pid", Op("exit"), Op("exit")) \o Spin

waitpidtask_1 == ForkTo("pid") \o IfChild("pid", Op("exit"), WaitFor("pid")) \o Spin

waitpidtask_2 ==
    Op("fork") \o Op("fork") \o ForkTo("pid")
        \o IfChild("pid", Op("exit"), WaitFor("pid")) \o Spin

execvetask_1 ==
    ForkTo("pid") \o IfChild("pid", With("exec", "forever"), <<>>) \o Spin

partA_strategy ==
    For("i", ForkTo("pid") \o IfChild("pid", Become("worker"), <<>>))
        \o For("i2", ForkTo("pid2") \o IfChild("pid2", Become("worker"), <<>>))
        \o Spin

partA_strategy_waitpid ==
    For("i", ForkTo("pid")
                 \o IfChild("pid", With("exec", "worker") \o Op("exit"), WaitFor("pid")))
        \o For("i2", ForkTo("pid2")
                 \o IfChild("pid2", With("exec", "worker") \o Op("exit"), WaitFor("pid2")))
        \o Spin

part_b_first_strategy ==
    For("i", ForkTo("pid") \o IfChild("pid", Become("worker"), <<>>)) \o Spin

part_b_second_strategy == partA_strategy

\* A child that sets its priority before it becomes a worker.
Load(priority_) ==
    ForkTo("pid")
        \o IfChild("pid", With("priority", priority_) \o Become("worker"), <<>>)

part_b_third_strategy ==
    With("priority", 5) \o Load(5) \o Op("warmup") \o Load(5) \o Load(5) \o Load(5)
        \o With("priority", 10) \o Spin

\* A child that waits until all four are there before it becomes a worker.
LoadTogether(before, priority_) ==
    ForkTo("pid")
        \o IfChild("pid",
                   before \o With("priority", priority_)
                       \o <<[op |-> "until", var |-> "initializedProcesses", arg |-> 4]>>
                       \o Become("worker"),
                   On("inc", "initializedProcesses"))

part_b_dynamic_strategy ==
    On("zero", "initializedProcesses") \o With("priority", 5)
        \o LoadTogether(Op("aging"), 5) \o LoadTogether(<<>>, 4)
        \o LoadTogether(<<>>, 2) \o LoadTogether(<<>>, 3) \o Spin

partb == With("priority", 10) \o Load(5) \o Load(1) \o Load(3) \o Spin

part_c_first_strategy ==
    For("i", ForkTo("pid") \o IfChild("pid", With("exec", "forever"), <<>>)) \o Spin

Code ==
    [worker |-> worker, forever |-> forever,
     forktask_3 |-> forktask_3, forktask_4 |-> forktask_4,
     waitpidtask_1 |-> waitpidtask_1, waitpidtask_2 |-> waitpidtask_2,
     execvetask_1 |-> execvetask_1,
     partA_strategy |-> partA_strategy,
     partA_strategy_waitpid |-> partA_strategy_waitpid,
     part_b_first_strategy |-> part_b_first_strategy,
     part_b_second_strategy |-> part_b_second_strategy,
     part_b_third_strategy |-> part_b_third_strategy,
     part_b_dynamic_strategy |-> part_b_dynamic_strategy,
     partb |-> partb,
     part_c_first_strategy |-> part_c_first_strategy]

ASSUME StartedAssumption == Started \subseteq DOMAIN Code \ {"worker", "forever"}

\* The arguments of set_priority in the programs.
ProgramPriorities == {1, 2, 3, 4, 5, 10}

\* The environment of TaskManager lets the programs make all their system calls.
ASSUME EnvironmentAssumption ==
    /\ ProgramPriorities \subseteq Priorities /\ Slots \subseteq AgingPids
    /\ Immortal = {} /\ OwnChildOnly = FALSE

-----------------------------------------------------------------------------
(* The machine.                                                             *)

ProgramInit ==
    /\ Init
    /\ \E p \in Started : code = [i \in Slots |-> p]
    /\ pc = [i \in Slots |-> 1]
    /\ eax = [i \in Slots |-> 0]
    /\ base = [i \in Slots |-> i]
    /\ local = [i \in Slots |-> [x \in Locals |-> 0]]

Instr(i) == Code[code[i]][pc[i]]

At(name) == InUser /\ Instr(currentTask).op = name

Goto(k) == pc' = [pc EXCEPT ![currentTask] = k]
Forth == Goto(pc[currentTask] + 1)

\* The local variable of the current instruction, in the frame of the process.
Variable == local[base[currentTask]][Instr(currentTask).var]
SetVariable(v) ==
    local' = [local EXCEPT ![base[currentTask]][Instr(currentTask).var] = v]

sysfork ==
    /\ At("fork")
    /\ Fork
    /\ IF TableFull
       THEN Forth /\ UNCHANGED <<code, base>>
       ELSE /\ pc' = [pc EXCEPT ![currentTask] = @ + 1, ![numTasks] = pc[currentTask] + 1]
            /\ code' = [code EXCEPT ![numTasks] = code[currentTask]]
            /\ base' = [base EXCEPT ![numTasks] = base[currentTask]]
    /\ UNCHANGED <<eax, local>>

sysfork_return ==
    /\ At("get")
    /\ eax' = [eax EXCEPT ![currentTask] = eax_value[currentTask]]
    /\ Forth
    /\ UNCHANGED <<vars, code, base, local>>

\* A system call that only the task manager sees.
SystemCall == Forth /\ UNCHANGED <<code, eax, base, local>>

waitpid_call ==
    /\ At("wait")
    /\ IF WaitpidReturns(eax[currentTask])
       THEN UNCHANGED vars ELSE waitpid(eax[currentTask])
    /\ SystemCall

sysexit == At("exit") /\ exit /\ SystemCall

set_priority ==
    At("priority") /\ setCurrenttaskPriority(Instr(currentTask).arg) /\ SystemCall

set_aging == At("aging") /\ setAgingPid(pid[currentTask]) /\ SystemCall

sysexecve ==
    /\ At("exec")
    /\ execve
    /\ code' = [code EXCEPT ![currentTask] = Instr(currentTask).arg]
    /\ Goto(1)
    /\ base' = [base EXCEPT ![currentTask] = currentTask]
    /\ UNCHANGED <<eax, local>>

\* while(true): leave when interrupt_count is above the limit.
WaitWarmUp ==
    At("warmup") /\ interrupt_count > WarmUp /\ SystemCall /\ UNCHANGED vars

\* Accesses to locals.
Store == At("store") /\ SetVariable(eax[currentTask])
Zero == At("zero") /\ SetVariable(0)
Inc == At("inc") /\ SetVariable(Variable + 1)
Write ==
    /\ Store \/ Zero \/ Inc
    /\ Forth
    /\ UNCHANGED <<vars, code, eax, base>>

LoadLocal ==
    /\ At("load")
    /\ eax' = [eax EXCEPT ![currentTask] = Variable]
    /\ Forth
    /\ UNCHANGED <<vars, code, base, local>>

\* Mutant: a failed fork is taken for the child.
ChildBranchNegative == Variable <= 0

ChildBranch == Variable = 0

Branch ==
    /\ \/ /\ At("ifchild")
          /\ Goto(pc[currentTask] + 1 + IF ChildBranch THEN 0 ELSE Instr(currentTask).skip)
       \/ At("jump") /\ Goto(pc[currentTask] + 1 + Instr(currentTask).skip)
       \/ /\ At("less")
          /\ Goto(IF Variable < Rounds
                  THEN pc[currentTask] - Instr(currentTask).back ELSE pc[currentTask] + 1)
       \/ At("until") /\ Variable >= Instr(currentTask).arg /\ Forth
    /\ UNCHANGED <<vars, code, eax, base, local>>

\* The instructions between sysfork_return and the last use of its result.
UsesPid == At("store") \/ At("ifchild") \/ At("load")

Timer ==
    /\ Preempt \/ ~UsesPid
    /\ Tick
    /\ UNCHANGED registers

Boot == (AddTask \/ Activate) /\ UNCHANGED registers

Step ==
    \/ sysfork \/ sysfork_return \/ waitpid_call \/ sysexit \/ sysexecve
    \/ set_priority \/ set_aging \/ WaitWarmUp
    \/ Write \/ LoadLocal \/ Branch

ProgramNext == Boot \/ Timer \/ Step

ProgramSpec == ProgramInit /\ [][ProgramNext]_allVars

\* A time slice is longer than an instruction, so a process that is chosen again
\* and again goes on.
FairProgramSpec ==
    /\ ProgramSpec
    /\ WF_allVars(Boot)
    /\ WF_allVars(Timer)
    /\ \A i \in Slots : SF_allVars(currentTask = i /\ Step)

-----------------------------------------------------------------------------
\* After fork the child takes the child's branch and the parent the parent's, as
\* the comments "child" and "parent" in the programs say, although both keep the
\* result in the same word of memory.
BranchRight ==
    [][\A i \in Tasks :
          Instr(i).op = "ifchild" /\ pc'[i] # pc[i] =>
              (pc'[i] = pc[i] + 1 <=> eax_value[i] = 0)]_allVars

\* The programs keep the discipline that the theorems about waitpid assume: the
\* first process does not exit (except in forktask_4), and a process waits for
\* its own children only.
DisciplineKept ==
    /\ 0 \in exited => code[0] = "forktask_4"
    /\ \A i \in Tasks : frame[i] = "waitpid" => ppid[target[i]] = pid[i]

\* A program goes on behind its waitpid, at once or when the call that blocked comes
\* back, only when the child it forked has exited, or when fork was refused.
ChildHasExited ==
    [][\A i \in Tasks :
          /\ frame[i] = "waitpid" /\ frame'[i] = "user" => state'[target[i]] = "Terminated"
          /\ Instr(i).op = "wait" /\ pc'[i] # pc[i] /\ frame'[i] = "user" =>
                eax[i] = -1 \/ state'[eax[i]] = "Terminated"]_allVars

\* No process runs on behind the end of its function: the sysexit of a worker
\* never comes back, for the Schedule inside it always finds another process,
\* the first one at the latest, which a waitpid may have blocked.
NeverReturns == \A i \in Tasks : Instr(i).op = "return" => state[i] = "Terminated"

\* Every program comes to rest: its processes have exited or are at their endless
\* loops, and no one waits forever for another.  part_b_dynamic_strategy is left
\* out: there a child with a better priority polls initializedProcesses while
\* the process that would count it up gets no time.
ComesToRest ==
    <>[](\/ code[0] = "part_b_dynamic_strategy"
         \/ \A i \in Tasks :
                i \in exited \/ (Instr(i).op = "spin" /\ frame[i] = "user"))
==============================================================================
