# Verification of the kernel

TLA+ models, model-checking runs and machine-checked proofs for the teaching
kernel in `src/`: a 32 bit operating system with processes, system calls, a
priority round robin scheduler, a heap and a set of drivers. Everything is
translated from the C++ source; `PROJECT.json` gives the source lines of every
definition.

## Inventory

| Part | State | Operations | What makes it correct |
|---|---|---|---|
| Task manager (`multitasking.cpp/.h`) | process table of 256 slots (`pid`, `ppid`, `priority`, `state`, `waitingProcess`, `eax_value`, saved context), `numTasks`, `currentTask`, `next_pid`, `interrupt_count`, `aging_pid` | `AddTask`, `fork`, `waitpid`, `exit`, `execve`, the setters, `Schedule` | the table is a process tree; a switch picks the right task; no wake-up is lost or early; exit is final; nobody starves |
| System call handler (`syscalls.cpp`) | none of its own | one case per call | every case reaches the task manager with the caller as current task |
| Interrupt manager (`interrupts.cpp`, `interruptstubs.s`) | IDT, handler table, active manager | constructor, `Activate`, `Deactivate`, `DoHandleInterrupt` | handlers run with interrupts disabled; each hardware interrupt is acknowledged |
| Heap (`memorymanagement.cpp/.h`) | doubly linked list of chunk headers | constructor, `malloc`, `free`, `operator new/delete` | blocks never overlap; the list stays consistent; freeing restores the memory; `malloc` ends |
| User programs (`kernel.cpp`) | locals on the task's stack | system call wrappers, 13 test programs | parent and child take their own branch after `fork` |
| scanf (`kernel.cpp`) and keyboard driver | one global integer handler | `Reset`, `OnKeyDown`, polling | each reader gets what was typed for it |
| Console (`printf`) | static cursor, video memory | print, scroll by clearing | the cursor stays on the screen |
| Mouse driver, `MouseToConsole` | three byte packet buffer, buttons, position | `HandleInterrupt`, `OnMouseMove`, `OnMouseUp` | packets stay aligned; button events alternate; the position stays on the screen |
| Driver manager | array of drivers | `AddDriver`, `ActivateAll` | every driver added is in its place, as far as there are places: `AddDriver` does not look |
| ATA disk | device registers | `Identify`, `Read28`, `Write28`, `Flush` | the sector addressed is the one asked for; polling ends |
| Network card (`amd_am79c973.cpp`) | two rings of eight descriptors | `Send`, `Receive`, `HandleInterrupt` | frames pass in order in both directions; descriptors go back to the device |
| PCI | none | enumeration, base address registers | only descriptors that were read are used |
| GDT | three descriptors | encode, `Base`, `Limit` | decoding undoes encoding up to the granularity |
| GUI | widget tree, focus, dragging | mouse and key events | focus and dragging follow the events |
| VGA, ports, loader, types | none | port writes | - |

How the parts interact. `kernelMain` sets up the heap, adds one task, registers
the system call, keyboard and mouse handlers with the interrupt manager and
activates interrupts; it never runs again after the first timer interrupt. From
then on everything happens in an interrupt: the timer (0x20) calls `Schedule`,
`int $0x80` calls the system call handler on behalf of the current task, the
keyboard and the mouse call their drivers. All gates are interrupt gates, so a
handler is not interrupted; but `waitpid` and `exit` execute `int $0x20`
themselves, so a task can be switched away in the middle of a system call and
resumed there much later.

What is hard here: that nested reschedule; wake-ups that depend on one
`waitingProcess` field which is never cleared; a selection loop that restarts
itself; the two-step return value of `fork`; a table whose slots are never
reused; the stack frame that parent and child share after `fork`; list surgery in
the heap; one keyboard handler for three readers; a console cursor without a lock;
and devices that go on working while their handler runs. `PROJECT.json` lists each hazard at its line with the properties aimed at it.

## Modules

| Module | Models |
|---|---|
| `SchedulePick` | what the selection loop of `Schedule` chooses, as constant operators |
| `ScheduleLoop` | the selection loop itself, one iteration per step |
| `TaskManager` | the process table, the system calls and the timer |
| `Programs` | the programs of `kernel.cpp` on top of `TaskManager` |
| `BlockHeap` | abstract specification of an allocator |
| `MemoryManager` | the heap; refines `BlockHeap` |
| `Scanf` | keyboard driver, the global integer handler, `scanf` and its callers |
| `Interrupts` | registration, gates, dispatch, acknowledgement, and the two controllers |
| `Network` | the descriptor rings of the network driver and the card |
| `Console` | the cursor of `printf` under interleaving |
| `Mouse` | mouse driver and `MouseToConsole` |
| `Desktop` | widgets, windows and desktop: mouse, focus, dragging, drawing order |
| `Disk` | the ATA driver and a drive |
| `Pci` | the search for PCI functions, base address registers, the driver manager |
| `Gdt` | encoding and decoding of a segment descriptor |
| `Searches`, `IntToString` | the searches of the workers, and how numbers are printed |
| `MCTaskManager`, `MCScheduleLoop`, `MCPrograms` | constants for TLC |
| `MCServed`, `MCDevices` | the remaining components side by side, for TLC |
| `Induction` | induction over the natural numbers and recursion, as lemmas about sets and functions |
| `SchedulePickProofs`, `ScheduleLoopProofs`, `TaskManagerProofs` | theorems about the scheduler and the process table |
| `ProgramsProofs` | theorems about `Programs`, on top of `TaskManagerProofs` |
| `MemoryManagerProofs` | theorems about the heap |
| `HardwareProofs` | theorems about `Gdt`, `Interrupts`, `Network`, `Disk` and `Pci` |
| `ScreenProofs` | theorems about `Searches`, `Console`, `Mouse`, `Desktop`, `IntToString` and `Scanf` |

`ScheduleLoop` and `TaskManager` share `SchedulePick`: the first shows that the
loop computes `PickTask`, the second uses `PickTask` inside its handlers.

**TaskManager.** One variable per field of `Task`, as a function on the slots, and
one per field of the manager. A handler is one action. `Schedule(st, where, arg)`
is the whole function: wake the waiter of a terminated current task, age, choose,
switch, count. `frame` says where the saved context of each task stands: in its
program, or in the kernel behind the `int $0x20` of `waitpid` or `exit`. A context
that stands in the kernel is resumed with interrupts disabled and has nothing left
to do but return, so resuming it and returning to the program is one step.
`target` keeps the argument of the `waitpid` a frame is in, and `exited` remembers
who has called `sysexit`: both only observe. The programs are the environment: the
current task may make any system call at any time. Four constants restrict them:
`OwnChildOnly`, `Immortal` (pids that never exit), `States` and `Priorities` (the
arguments of `set_state` and `set_priority`). `eax_value` of the first task is read
before it is ever written; `Uninit` is what it may hold. The first tick reads
`tasks[-1]`; nothing it could find there changes the outcome.

**Programs.** Extends `TaskManager`. A program is a sequence of instructions, cut
where the timer can strike to any effect: the system calls, and each read or write
of a local variable. `fork` copies the saved registers of the parent, `ebp` among
them, so the locals of a forked child are those in the parent's frame until it calls
`execve`: `base` says in whose stack a process has its locals, `local` holds them,
`eax` is the register a value passes through. The build is unoptimised, so every
access to `pid` goes to memory. `Preempt` says whether the timer may strike between
the `sysfork_return` that delivers `pid` and its last use. Output and computation
have no state here, so a worker is its `sysexit`, and a loop that prints for ever is
`Spin`; a poll (`warmup`, `until`) is a step that waits for its condition.

**ScheduleLoop.** `i`, `startIndex`, `highestPriority` and `nextTaskIndex` are the
locals of `Schedule`; `Better` is the branch that resets `i` (to -1, then `i++`),
`Pass` the other one, `Leave` the end of the loop. `StepsLeft` is a measure of what the
loop still has to do: a better task restarts the scan, but there are only as many better
tasks as there are tasks.

**MemoryManager.** `heap` maps the address of each chunk header to its fields.
The walk of `malloc` is one step per chunk (`MallocSkip`), ending in `MallocTake`
(split and mark) or `MallocRefuse`; `free` is one step with both merges. `held`
remembers the blocks given out. Callers free each block once: `free` checks
nothing, so there is no promise for other uses. `operator new` and `delete` only
forward. No arithmetic leaves 32 bits as long as the heap itself lies in memory.

**Scanf.** `value`, `completed` and `negative` are the fields of the one global
handler. A key is an interrupt and therefore one step (`KeyboardInterrupt`, with the
driver's table of scan codes); a reader can be interrupted anywhere, so the three
stores of `Reset`, leaving the poll, `GetValue` and the work on the number are steps
of their own. `Wrap` is int arithmetic that ends at `MaxInt`. `line` remembers the characters
accepted since `value` was reset, and `torn` that a '-' or an Enter fell between two
stores of `Reset`, where it may be wiped out: `ScannedNumber` excepts that. From 0
and from negative numbers `printCollatz` never comes back, so `printCollatz` is
guarded by a positive number; that positive numbers come to an end is assumed.

**Interrupts.** `handlers` and `activeManager` are the manager's, `interrupt` is what
the stub passes on. `DoHandleInterrupt` dispatches and acknowledges; `Reschedule` is
the `int $0x20` from inside a system call, which acknowledges although no request is
in service. The controllers (`requested`, `inService`, `LetThrough`) are external: two
cascaded 8259 with fixed ranks. `cpu` says what the processor is executing.

**Network.** `recv` and `send` are the rings with their OWN bits. The card (external)
takes its steps (`ArriveFrame`, `MissFrame`, `Transmit`) while the handler is between
reading the status, a round of `Receive` and the acknowledgement, or while `Send` is
between choosing a descriptor, copying and handing it over. The buffers are declared
with their dimensions swapped, so those of one ring lie on top of each other and a
frame is intact only until the next one is written: one variable (`recvMemory`,
`sendMemory`) is the memory of a ring. Frames are counted modulo twice the ring, which
tells them apart while at most a ring of them is on the way. `Send` does not test OWN and
may be called at any time; once it has taken a descriptor the card is not done with
(`overtaken`), it goes on as before but its frames are not counted any longer. `late`
counts the frames that arrive between the last look of `Receive` and the acknowledgement
that clears their interrupt. The card can store as many as it has descriptors, and if it
stores a whole ring, the driver owns all of them and the card has only MISS to report, for
which `HandleInterrupt` does not call `Receive`: `FramesServed` says that every descriptor
is given back but for this case, and that in this case none ever is.

**Console.** `x` and `y` are the static cursor. A process goes through `printf` one
access to the cursor at a time, in the order of the unoptimised build of the makefile;
`register` is what it has loaded. `printfInterrupt` is a character printed by an
interrupt handler, in one step. `index` is the cell stored to last. The characters
and colours are not kept, since no property is about them.

**Mouse.** `wire` holds the bytes of a packet on their way, one interrupt each; the
mouse is external and sends no packet before the last one was taken. `MouseInterrupt`
is the whole handler: the byte, and at the third the movement, the inversion of the
two cells, and the button events. The position is an `int8_t`: a sum beyond 127 wraps
and the pointer jumps to the other edge, which `MouseInStep` excepts explicitly.

**Desktop.** `place` holds the windows added and their rectangles, `Dragging` and
`focussedChild` are the fields of the widgets. A click goes to the first child at the
point; drawing goes through the children backwards (`Drawn`), and what is drawn later
covers what was there (`Seen`), which is why the two agree. `OnMouseMove` of the desktop
divides the offsets by 4, keeps the pointer on the desktop, and tells the window at the
old and at the new position. A window behind another one can miss the release of the
button and go on being dragged; `FrontWindowDrag` is about the first window, which
cannot be covered.

**Disk.** The registers, the drive (external: busy for any time, then ready or in
error) and the operation under way. `Read28` and `Write28` write the third byte of the
sector number to the low register, over the first one, and never set the high one:
`Group` is the set of sectors that are one to the driver, and `SectorsReadBack` says
what remains true. Callers identify the drive first and flush after a write, because
`Write28` does not wait.

**Pci.** `machine` is any population of the slots. `SelectDriver` is one round of the
three loops; `PortBases` gives every value `portBase` may have, since base address
registers behind the last one and `portBase` itself come back unassigned (`Garbage`).
The card's driver may be refused by `malloc`. `AddDriver` does not look at the size of
the array; `FreePlaces` is what the search finds free in it. The driver after the last place
is stored over `numDrivers`, which lies behind the array: `overrun` remembers that, the
drivers in the array stay, and where later pointers go is not followed. `ActivateAll`
activates in order, and after an overrun goes on with what lies `Behind` the array.
`EveryCardItsDriver` says that the array is overrun exactly when more cards are found than
it has places, and that the first ones have filled it then.

**Gdt**, **Searches**, **IntToString.** The constructor of a descriptor against `Base`
and `Limit`, at 32 bits; the two loops of the workers, a round per step; and
`int_to_string`, a digit per step. The smallest int is its own negation and prints
negative digits, which `IntegerPrinted` excepts.

**MCServed, MCDevices.** The components above share no variable with each other: the
interrupts that connect them are steps of their models already. Each module is
therefore a sum: a behaviour is a behaviour of the component that `part` or `device`
names, with the others at rest. `MCServed` holds the components with a liveness
property, `MCDevices` those where safety is the question.

## Runs

| Run | Bounds | Shows |
|---|---|---|
| `any_program` | 3 slots, aging at count 1 | for programs that do anything: types and table limit, the process tree, the double return of `fork`, round robin among the best priority |
| `disciplined` | 3 slots, 2 priority levels | for programs that wait for their own children and keep the first process alive: no lost or early wake-up, `waitpid` returns only after the exit, exit is final; with a timer that keeps ticking, no process starves that is not outranked, and `waitpid` returns after the exit |
| `schedule_loop` | up to 3 tasks, 4 priorities (-1, 1, 254, 255), all states | the loop picks `PickTask`, comes nearer to its end with every step, and ends |
| `heap` | 13 bytes, header 2, requests 0, 1, 3, 9 | tiling, merging, first fit, refinement of `BlockHeap`, `malloc` returns |
| `programs` | 13 programs, 4 slots, loops of 2 rounds, warm-up at count 2 | if the timer does not strike while `pid` is used: each side of `fork` takes its branch; the discipline of the `waitpid` theorems is kept (except by `forktask_4`, whose first process exits); a program goes on behind its `waitpid` only when its child has exited; no worker runs past its `sysexit`; every program comes to rest |
| `served` | 1 reader, 8 scan codes, 4 keys a line, int of 5 bits; requests 0, 1, 8, 12; rings of 2 | the number typed is the number read, and Enter ends the call; every request is acknowledged once and at the right controller, and none is shut out; frames are received in order, and sent in order until `Send` overtakes the card, at a whole ring under way; every descriptor is given back although an interrupt can be lost, unless a whole ring of frames comes before the acknowledgement |
| `devices` | 2 printers on 2 by 2 cells with bytes of 0 to 4; mouse offsets 0, 127, -56; 2 windows on 4 by 2 points; 16 sectors; 4 PCI functions, 2 places for drivers; arrays of up to 4; ints of 6 bits | the cursor comes back to the screen, and stores leave it by no more than a row unless two processes print at once; the mouse stays in step; clicks hit what is seen, keys follow clicks, the front window follows the pointer; sectors read back; each card gets its driver as far as there are places; descriptors, searches and printed numbers are right |
| `last_exit` (violation) | 3 slots, the first process may exit | the last process that exits runs on |
| `two_waiters` (violation) | 3 slots, anyone waits for anyone | the first of two waiters is never woken |
| `aging` (violation) | 2 slots, aging at count 2 | a process registered with `set_aging` starves |
| `preempted` (violation) | `partA_strategy_waitpid`, 4 slots | the timer strikes between the parent's store of `pid` and its test, and the parent takes the child's branch |
| `scanf_shared` (violation) | 2 readers, lines of 2 keys | the `Reset` of one reader discards what was typed for the other |

Why the bounds are enough. Every interaction of the task manager involves at most
a waiter, the process waited for and a third party that runs meanwhile; three slots
also hold a chain of waiters (a process waiting for a child that waits for its own
child), and the theorems cover every size. A table of 3 or 4 slots also reaches its
limit, so `fork` is refused.
Aging compares a counter with one value, so the counter saturates right behind it
(`MaxCount`). With four slots the longer programs also meet a full table, where
`fork` delivers -1 and the caller goes on as a parent. Priority 255 is the first that the loop never takes. The heap has
room for six headers: enough for a freed chunk with a free, an allocated or no
neighbour on either side, and for requests that fit exactly, that leave too little
for a header, and that never fit. Two digits of five bits overflow; the scan codes hold
one of each kind (zero, other digits, minus, Enter, a letter, no character, a release).
The requests are the timer, one more at the master, and two at the slave with the first
of it. A ring of two wraps around and fills up; one frame or a whole ring come late, one
or two are under way, and a third call of `Send` overtakes the card. The byte
of the cursor has room for the values behind a screen of two by two; two processes and
any number of interrupts move it. The mouse offsets cross both edges and overflow. The
windows can be dragged over each other and over the edges. The sectors differ in each
digit, odd and even counts are written. The PCI slots hold two devices of two functions
each, so there can be four cards for two places. The limits of `Gdt` lie on both sides of 65536 and of a page; TLC's integers end
at 2147483647, the theorem covers all 32 bits. The theorems below drop the bounds where
they state the same property.

Fairness. `AddTask` and `Activate` are weakly fair because `kernelMain` runs to its
end; `Tick` is weakly fair because the timer keeps interrupting and no program can
disable interrupts for ever; the steps of `malloc` and of the selection loop are
ordinary code that goes on. In `Programs` the steps of each process are
strongly fair: a time slice is longer than an instruction, so a process that is
chosen again and again gets on. In `TaskManager` no system call is assumed to happen.
Starvation freedom is stated for processes that are not outranked: the scheduler is
meant to prefer the better priority. A reader of `Scanf` is weakly fair because the
timer gives it its turn; nobody has to type. In `Interrupts` handlers and system calls
come to an end (weak), and the processor, back in a program with interrupts enabled
again and again, takes the most urgent request (strong, since it is not in a program all
the time). In `Network` the handler runs to its end, and frames keep arriving: an
acknowledgement can wipe out the interrupt of a frame that came late, and such a frame
waits for the next one. Nothing is assumed about how many come late.

The discipline of the run `disciplined` is that of the programs of `kernel.cpp`
that use `waitpid`: they wait for the pid `fork` returned, the main process ends in
an endless loop, `set_state` is only called with 0 (by `scanf`), and priorities are
small. `forktask_4`, the program the kernel starts as delivered, breaks it: its first
process exits too, which is the run `last_exit`.

## Divergences found

* **`last_exit`.** `Schedule` falls back to the current task when nobody is
  runnable, and sets it `Running`; the README says that `sysexit()` terminates the
  current process.
* **`two_waiters`.** A second `waitpid` for the same process overwrites the first
  registration, and the loop in `exit` commented "wake up parent" compares the wrong
  field, so the first waiter stays blocked.
* **`aging`.** Aging acts at interrupt count 20 only, and assigns a priority worse
  than the default; the README says it prevents starvation.

* **`preempted`.** Parent and child keep the result of `sysfork_return` in one word of
  the parent's stack. The child's store of 0 can fall between the parent's store and
  its comparison; the parent then runs the branch commented "child".

* **`scanf_shared`.** The three processes of `part_c_first_strategy` read through one
  handler. A `Reset` between the keys of another reader leaves that reader with a number
  that nobody typed for it.

Not a divergence from a document, but worth knowing: two processes inside `printf` at
once, with interrupts that print, can carry the cursor farther below the screen than
the row `StoresNearScreen` allows for (it comes back when they have left); the smallest
int prints wrongly; a ring of frames that arrives between the last look of `Receive`
(`amd_am79c973.cpp:162`) and the acknowledgement (129) stops the receiver for good, since
`Receive` is called only for a received frame (124); `Send` takes the next descriptor
whether the card is done with it or not, and with more than one frame under way the
overlapping buffers mix them; more cards than the driver array has places overwrite the
number of drivers;
`Read28` and `Write28` confuse the sectors of a group; and in `part_b_dynamic_strategy` a
child with a better priority than the first process polls a counter that only the
first process advances, so an early timer interrupt stops the program for good.
`ComesToRest` leaves this program out.

## Proofs

All theorems hold for every value of the constants that satisfies the assumptions
named in the modules; TLC evaluates each of them in a run. Most only give a constant its
type. Those that say more: `HeapAssumption` (the heap lies in memory), `CardAssumption`
(a network card is not a bridge), `DiskAssumption` (callers stay on the drive and pass at
most a sector), `IntToStringAssumption` (the buffer of `print_integer` has room for the
largest int), `EnvironmentAssumption` (the constants of `TaskManager` allow the programs
all their calls). Hypotheses beyond the assumptions stand in the theorems: `Disciplined`,
`~Preempt`, `OneReader` (a single process calls `scanf`) and
`WidgetsInside` (the widgets of a window lie inside it). Each is there because the theorem
is false without it: with more than one reader `scanf_shared` is the counterexample, and
a widget that sticks out of its window is drawn where a click does not reach it.

* `Induction`: nonempty sets of naturals have a least element, hence induction over sets
  of naturals and over segments, and the existence and uniqueness of functions defined by
  recursion. The library states these with operator parameters; here they are about sets
  and functions, so that they can be cited. With them what a recursive function
  computes is proved for every argument: digits, numbers, the order of drawing.

* `SchedulePickProofs`: lemmas about the circular distance and about `PickTask`: it
  is a best candidate, the first one behind the current task, and the only such one.
* `ScheduleLoopProofs`: `LoopInvariant`, and from it `LoopCorrect`. The invariant
  says that the `i` tasks behind the best one found so far are no better, and that
  those between the current task and it are worse; both are needed because the loop
  starts again behind every better task and never looks at the first stretch twice.
  `LoopStepsDown` is the half of `LoopEnds` that needs no fairness: `StepsLeft`, the number
  of better tasks times a whole scan plus the rest of this scan, goes down with every step
  (`FewerTasks`: the task taken, and whatever is no better, is never taken again).
* `TaskManagerProofs`: `TypeCorrect`, `TreeCorrect`, `ForkReturnCorrect` and
  `RoundRobinCorrect`, for every program. Types and tree are proved together: the
  range of `pid` rests on `next_pid = numTasks`. `RoundRobinCorrect` is an action
  property that rests on `PickIsFirst` and on arithmetic of the circular distance.
  Assuming `Disciplined`, also `DisciplinedInvariant`, and from it `NoLostWakeup`,
  `ExitIsFinal` and `WaitpidCorrect`. `WaiterRegistered` alone is not inductive: one must also know that a registration at a live process is current
  (otherwise a stale one wakes a process too early), that whoever left `Blocked`
  inside `waitpid` has its answer, and that the current task is runnable. That the
  fallback of `Schedule` is never taken follows because waiting goes from older to
  younger live processes, so that the youngest live one is runnable.
* `MemoryManagerProofs`: `HeapInvariant`, `FirstFitCorrect`, `HeapRestoredCorrect`
  and the refinement `HeapRefinesBlocks`. Splitting and merging are described by
  relations on the fields of the list (`Cut`, `Merged`), each shown to preserve the
  tiling; that `free` leaves no free neighbours follows the one pair of free
  neighbours through its two merges. `WalkCorrect`, from the tiling: the walk of `malloc`
  goes up by at least a header per step and stays in the heap, which is why it ends.
* `ProgramsProofs`, about the programs of `kernel.cpp`, for every number of rounds and
  every table size. `ProgramsImplement`: wherever the timer strikes, a step of a program
  is a step of `TaskManager`, so `TypeCorrect`, `TreeCorrect`, `ForkReturnCorrect` and
  `RoundRobinCorrect` hold while they run. Assuming `~Preempt`: `BranchCorrect`,
  `DisciplineCorrect`, `ReturnCorrect`, `ChildWaitCorrect` and `ProgramsWakeUp`, from
  `ProgramInvariant`.

  The first half is about code. `Piece` says of a sequence of instructions which one
  stands before one that depends on it (`Follows`: a test comes right behind the store,
  a `wait` behind the load, the end of the function behind `sysexit`) and where jumps
  lead (`Leads`); it is preserved by concatenation (`PieceConcat`) and by the shapes the
  programs are made of (`ForkPiece`, `ForPiece`), so that it holds of all fifteen programs
  (`CodeShape`). `Loyal` says that `sysexit` and `sysexecve` stand only in the code of a
  child. The second half is the invariant `ProgramInv`. `Here` ties a process that stands
  at a dependent instruction to the instruction before: the answer of `fork` is in `eax`,
  then in the shared local, then in `eax` again, and only the current process is between
  these (this is where `~Preempt` is needed: without it, `preempted` is the
  counterexample). Since `fork` never answers 0 to the first process, that one never
  enters a child's code (`FirstStays`), so it never exits, except in `forktask_4`; and
  whoever calls `waitpid` does so with -1 or with its own child. That is the discipline of
  `TaskManagerProofs`: there the steps are described by `DisciplinedStep`, which both
  `Disciplined` and `ProgramInv` imply, so its invariant holds for the programs too. In
  `forktask_4` nobody ever calls `waitpid` (`NobodyWaits`), so `ChildWaitCorrect` needs no
  exception for it: what `waitpid` returns from at once is an exited child or a fork that
  was refused, and whoever blocks is resumed with its answer.

* `HardwareProofs`:
  * `AcknowledgementCorrect`, for every set of devices. `AllAcknowledged` says nothing
    while a handler runs, so it is not inductive: `ServiceInv` adds that then exactly the
    request being handled, and input 2 for one of the slave, are in service (none for a
    system call without a handler). The end of interrupt that `DoHandleInterrupt` sends
    then empties both controllers.
  * `DescriptorCorrect`, for every base and limit of 32 bits. Lemmas put a number
    together from its bytes and bound what squeezing a limit drops.
  * `ReceivedInOrderCorrect` and `SentInOrderCorrect`, for every size of the rings and any
    number of frames on the way. Both rest on one relation between a ring, the two frame
    counters and the positions of card and driver (`Holds`): a descriptor belongs to the
    one who has to empty it exactly if one of the two frames that fall on it lies between
    the counters (`Between`, on the circle of frame numbers), and it then holds that
    frame. Putting a frame in and taking the oldest one out keep it (`PutIn`, `TakeOut`).
    `ReceiveRing` and `SendRing` apply it to the two rings; in `SendRing` the frame that
    `Send` is still copying is not in the ring yet (`HandedOver`). The relation also says
    that the next descriptor is taken only when the whole ring is (`WholeRing`), hence that
    `Send` overtakes the card only then; afterwards nothing is claimed.
  * `SectorsCorrect`, for every base of the digits, every size of a sector and every
    count. `DriveHolds` is the relation between the drive and what was written; it
    survives a write because two sectors address the same place only if they are of the
    same group (`SectorOf`, by arithmetic of digits), and because the high register is 0
    once the drive was identified. Odd and even counts both move a whole sector.
  * `DriversCorrect`, for every population of any number of buses, devices and
    functions, and every size of the driver array. A card that is `LeftOut` comes behind
    those that filled the array, and `Overrun` says that there is one. `SearchedSoFar` states the result for the slots already passed; the three
    loops visit in order every slot that can be visited (no slot lies between one and its
    `NextSlot`), and the ports follow from what six registers leave (`PortsKnown`).
* `ScreenProofs`:
  * `SearchesCorrect`, for every array and key. `SearchesFind` is the loop invariant and
    the result in one; its strengthening bounds the loop variables, so that the middle
    lies in the array.
  * `CursorCorrect`, for every screen and every set of processes. Whoever carries the
    cursor beyond the screen is still on the way to a test of it (`CursorWatched`), and
    the interleaving cannot take that away. `StoresCorrect` has one assertion for each
    access of `printf` (`Bounds`) while a single process is inside.
  * `MouseCorrect`, for all packets: `PacketUnderWay` says which bytes are on the wire
    and which in the buffer.
  * `KeysCorrect` and `DragCorrect`, for every desktop, any windows and movements.
    `FrontHeld` says that the dragged front window contains the pointer: window and
    pointer are moved by the same distance, at the edges of the desktop too.
  * `ClicksCorrect`, for every desktop whose windows hold their widgets. By induction over
    the children drawn, what is on top at a point is the first child there
    (`FirstOnTop`), and so for the windows; dragging changes no size (`SizesKept`).
  * `PrintedCorrect`, for every range of `int` and every buffer that has room for the
    largest one. The digits found so far and what is left of the number make up the
    magnitude (`PrintInv`); powers of ten bound the number of digits.
  * `ScannedCorrect`, for every line and every set of keys. `ReaderFinds` says for each
    place in `scanf` what the fields of the handler have to do with the line, as the
    functions `Magnitudes` and `Negative` read it; a key changes both sides alike
    (`MagnitudeAppend`, `NegativeAppend`), also when the number wraps.

Only model-checked: the liveness properties `NoStarvation`, `WaitpidReturnsEventually`,
`LoopEnds`, `MallocReturns`, `ComesToRest`, `EnterEndsScanf`, `RequestsTaken` and
`FramesServed`, since the prover does not handle fairness (for the two loops with
interrupts disabled, `LoopStepsDown` and `WalkCorrect` prove that they cannot go on for
ever); and the five violations. Every invariant and every action property of a passing run
is proved. Proved and no longer part of a run are the strengthenings `LoopInv` and
`DisciplinedInv`, whose consequences the runs check, and `WalkGoesUp`.

## Not modelled, and what could be added

Left out for good, with the reason:

* the VGA driver: tables of register values and pixels, no state of its own;
* the loader, port I/O and `types.h`: one instruction per function, or only types;
* the characters and colours on the screen and `printfHex`: formatting;
* `Deactivate`, the destructors and exceptions: `kernelMain` never returns, and the
  programs raise none;
* `long_running_program` and `sleep`, which only take time, and `testScanfFunction`,
  which nobody calls;
* the size of the heap that `kernelMain` takes from the boot information.

What could be added: a bound on the time a runnable process waits, from
`RoundRobinProgress` and the number of its equals; a recovery of `part_b_dynamic_strategy`
from its early interrupt, should the program be changed; and the attributes of the screen,
which the mouse pointer and `printf` both rewrite, should the cells be protected.
