----------------------------- MODULE Interrupts ------------------------------
(***************************************************************************)
(* InterruptManager and the two interrupt controllers it programs: gates,   *)
(* dispatch to the registered handlers, end of interrupt.  A handler runs   *)
(* with interrupts off, so its work is one step.                            *)
(*                                                                          *)
(* The controllers are external: requests 8 to 15 belong to the slave, which *)
(* is wired to input 2 of the master; a request is let through when no       *)
(* request of the same or a higher rank is in service at its controller;     *)
(* the command 0x20 ends the one of the highest rank.                        *)
(***************************************************************************)
EXTENDS Integers

CONSTANTS
    hardwareInterruptOffset,    \* 0x20
    IRQs,                       \* the requests that devices make
    Registered                  \* the numbers at which kernelMain installs handlers

IRQ_BASE == 32

ASSUME InterruptAssumption ==
    /\ IRQs \subseteq 0 .. 15 \ {2}
    /\ hardwareInterruptOffset = IRQ_BASE
    /\ Registered \subseteq 0 .. 255

VARIABLES
    handlers,       \* the numbers with a handler
    activeManager,  \* whether ActiveInterruptManager is set
    requested,      \* requests the controllers have latched
    inService,      \* requests let through and not ended, input 2 included
    cpu,            \* "boot", "user", "syscall" or "handler"
    interrupt       \* the number the stub put into interruptnumber

interruptVars == <<handlers, activeManager, requested, inService, cpu, interrupt>>

Slave == 8 .. 15

\* Where a request arrives at the master.
Input(irq) == IF irq \in Slave THEN 2 ELSE irq

\* The constructor clears handlers and unmasks every request (data port 0x00).
InterruptInit ==
    /\ handlers = {} /\ activeManager = FALSE
    /\ requested = {} /\ inService = {}
    /\ cpu = "boot" /\ interrupt = 0

\* The gates of the constructor: where the processor goes for a number.
Gate(n) ==
    CASE n \in 0 .. 19 -> "HandleException"
      [] n \in hardwareInterruptOffset .. hardwareInterruptOffset + 15 -> "HandleInterruptRequest"
      [] n = 128 -> "HandleInterruptRequest"
      [] OTHER -> "InterruptIgnore"

\* The number a stub passes on: the gate 0x80 reaches its handler as 0xA0.
StubNumber(n) ==
    IF n = 128 THEN 128 + IRQ_BASE ELSE n - hardwareInterruptOffset + IRQ_BASE

-----------------------------------------------------------------------------
InterruptHandler(n) ==
    /\ cpu = "boot"
    /\ handlers' = handlers \cup {n}
    /\ UNCHANGED <<activeManager, requested, inService, cpu, interrupt>>

\* The last call of kernelMain.
ActivateInterrupts ==
    /\ cpu = "boot" /\ handlers = Registered
    /\ activeManager' = TRUE
    /\ cpu' = "user"
    /\ UNCHANGED <<handlers, requested, inService, interrupt>>

Raise(irq) ==
    /\ irq \notin requested
    /\ requested' = requested \cup {irq}
    /\ UNCHANGED <<handlers, activeManager, inService, cpu, interrupt>>

\* The order of the inputs of the master and, behind one of them, of the slave.
MoreUrgent(j, irq) == Input(j) < Input(irq) \/ (Input(j) = Input(irq) /\ j < irq)

LetThrough(irq) ==
    /\ irq \in requested
    /\ \A j \in requested : ~MoreUrgent(j, irq)
    /\ \A j \in inService :
          IF j \in Slave THEN irq \in Slave => irq < j ELSE Input(irq) < j

\* The processor takes the request, through the gate to the stub.
TakeRequest(irq) ==
    /\ cpu = "user" /\ LetThrough(irq)
    /\ requested' = requested \ {irq}
    /\ inService' = inService \cup {irq, Input(irq)}
    /\ Gate(hardwareInterruptOffset + irq) = "HandleInterruptRequest"
    /\ interrupt' = StubNumber(hardwareInterruptOffset + irq)
    /\ cpu' = "handler"
    /\ UNCHANGED <<handlers, activeManager>>

\* All but the smallest one.
EndOf(s) == {irq \in s : \E j \in s : j < irq}

\* Mutant: the slave is told only about the numbers behind its first one.
AcknowledgeNotFirst(n) ==
    IF hardwareInterruptOffset <= n /\ n < hardwareInterruptOffset + 16
    THEN inService' =
            (IF hardwareInterruptOffset + 8 < n
             THEN EndOf(inService \cap Slave) ELSE inService \cap Slave)
                \cup EndOf(inService \ Slave)
    ELSE UNCHANGED inService

\* "hardware interrupts must be acknowledged"
Acknowledge(n) ==
    IF hardwareInterruptOffset <= n /\ n < hardwareInterruptOffset + 16
    THEN inService' =
            (IF hardwareInterruptOffset + 8 <= n
             THEN EndOf(inService \cap Slave) ELSE inService \cap Slave)
                \cup EndOf(inService \ Slave)
    ELSE UNCHANGED inService

\* Where the context that Schedule returns goes on: in a program, or in a system
\* call that was rescheduled from inside its handler.
Resume(n) ==
    cpu' \in IF n = hardwareInterruptOffset THEN {"user", "syscall"} ELSE {"user"}

DoHandleInterrupt ==
    /\ cpu = "handler" /\ activeManager
    /\ Acknowledge(interrupt)
    /\ Resume(interrupt)
    /\ UNCHANGED <<handlers, activeManager, requested, interrupt>>

\* int $0x80: the handler of the system calls may only be called when registered.
SystemCallEntry ==
    /\ cpu = "user" /\ Gate(128) = "HandleInterruptRequest"
    /\ interrupt' = StubNumber(128)
    /\ cpu' = IF StubNumber(128) \in handlers THEN "syscall" ELSE "handler"
    /\ UNCHANGED <<handlers, activeManager, requested, inService>>

\* waitpid and exit call int $0x20 from inside the system call: the dispatch of
\* the timer, its acknowledgement included, without a request in service.
Reschedule ==
    /\ cpu = "syscall"
    /\ interrupt' = hardwareInterruptOffset
    /\ Acknowledge(hardwareInterruptOffset)
    /\ Resume(hardwareInterruptOffset)
    /\ UNCHANGED <<handlers, activeManager, requested>>

SystemCallExit ==
    /\ cpu = "syscall"
    /\ Acknowledge(StubNumber(128))
    /\ cpu' = "user"
    /\ UNCHANGED <<handlers, activeManager, requested, interrupt>>

InterruptNext ==
    \/ \E n \in Registered \ handlers : InterruptHandler(n)
    \/ ActivateInterrupts
    \/ \E irq \in IRQs : Raise(irq) \/ TakeRequest(irq)
    \/ DoHandleInterrupt
    \/ SystemCallEntry \/ Reschedule \/ SystemCallExit

\* Handlers and system calls come to an end, and the processor, back in a program
\* with interrupts on again and again, takes the most urgent request.
InterruptFairness ==
    /\ WF_interruptVars(\E n \in Registered \ handlers : InterruptHandler(n))
    /\ WF_interruptVars(ActivateInterrupts)
    /\ SF_interruptVars(\E irq \in IRQs : TakeRequest(irq))
    /\ WF_interruptVars(DoHandleInterrupt)
    /\ WF_interruptVars(SystemCallExit)

InterruptSpec == InterruptInit /\ [][InterruptNext]_interruptVars /\ InterruptFairness

-----------------------------------------------------------------------------
\* Whenever a program runs, or a system call that may reschedule, no request is in
\* service at either controller: each was ended exactly once, at the right one.
AllAcknowledged == cpu # "handler" => inService = {}

\* No device is shut out: a request that stays latched is taken, unless more
\* urgent ones are latched again and again.
RequestsTaken ==
    \A irq \in IRQs :
        []<>(irq \notin requested \/ \E j \in requested : MoreUrgent(j, irq))
==============================================================================
