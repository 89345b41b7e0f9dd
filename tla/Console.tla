------------------------------- MODULE Console -------------------------------
(***************************************************************************)
(* printf of kernel.cpp: one cursor in static variables, moved by every     *)
(* process that prints, without a lock.  The timer may interrupt a process  *)
(* between any two instructions, so a process goes through printf in steps  *)
(* of one access to the cursor, in the order of the unoptimised build that  *)
(* the makefile asks for.  Interrupt handlers (the echo of a key, a mouse    *)
(* button, the messages of the scheduler) print in one step.                *)
(*                                                                          *)
(* Characters are not kept; what matters is where they are stored.          *)
(***************************************************************************)
EXTENDS Integers

CONSTANTS
    Printers,       \* the processes that print
    Columns, Rows,  \* 80 and 25
    Bytes           \* the values of a uint8_t, 256

ASSUME ConsoleAssumption ==
    Bytes \in Nat /\ Columns \in 1 .. Bytes - 1 /\ Rows \in 1 .. Bytes - 1

VARIABLES
    x, y,       \* the cursor, two uint8_t
    step,       \* the next access of each process in printf, or "idle"
    register,   \* the value each process has loaded
    index,      \* the cell of VideoMemory stored to last
    company     \* history: who else printed since nobody was inside printf

consoleVars == <<x, y, step, register, index, company>>

ConsoleInit ==
    /\ x = 0 /\ y = 0
    /\ step = [p \in Printers |-> "idle"]
    /\ register = [p \in Printers |-> 0]
    /\ index = 0
    /\ company = "none"

Byte(n) == n % Bytes

Inside == {p \in Printers : step[p] # "idle"}

-----------------------------------------------------------------------------
(* Printing one character, along the edges of the control flow.              *)

Along(p, from, to) == step[p] = from /\ step' = [step EXCEPT ![p] = to]

\* A character other than the newline: its cell is addressed by 80*y+x.
Begin(p) == Along(p, "idle", "row") /\ UNCHANGED <<x, y, register, index>>

LoadY(p) ==
    /\ \/ Along(p, "row", "cell") \/ Along(p, "clear row", "clear cell")
       \/ Along(p, "newline", "newline y") \/ Along(p, "wrap", "wrap y")
       \/ Along(p, "clear next", "clear next y")
    /\ register' = [register EXCEPT ![p] = y]
    /\ UNCHANGED <<x, y, index>>

StoreCell(p) ==
    /\ \/ Along(p, "cell", "advance") \/ Along(p, "clear cell", "clear advance")
    /\ index' = Columns * register[p] + x
    /\ UNCHANGED <<x, y, register>>

LoadX(p) ==
    /\ \/ Along(p, "advance", "advance x") \/ Along(p, "clear advance", "clear advance x")
    /\ register' = [register EXCEPT ![p] = x]
    /\ UNCHANGED <<x, y, index>>

StoreX(p) ==
    /\ \/ Along(p, "advance x", "test x") \/ Along(p, "clear advance x", "clear test x")
    /\ x' = Byte(register[p] + 1)
    /\ UNCHANGED <<y, register, index>>

StoreY(p) ==
    /\ \/ Along(p, "newline y", "test x") \/ Along(p, "wrap y", "test y")
       \/ Along(p, "clear next y", "clear test y")
    /\ y' = Byte(register[p] + 1)
    /\ UNCHANGED <<x, register, index>>

\* x = 0 at a newline, behind the last column, for every line of the loop that
\* clears the screen, and after it.
ZeroX(p) ==
    /\ \/ Along(p, "idle", "newline") \/ Along(p, "wrap x", "wrap")
       \/ Along(p, "clear line", "clear test x") \/ Along(p, "home x", "home y")
    /\ x' = 0
    /\ UNCHANGED <<y, register, index>>

ZeroY(p) ==
    /\ \/ Along(p, "clear", "clear test y") \/ Along(p, "home y", "idle")
    /\ y' = 0
    /\ UNCHANGED <<x, register, index>>

\* Mutant: the line is left when x reaches exactly its end.
BehindLineExactly == x = Columns

BehindLine == x >= Columns

\* Mutant: one row too many before the screen is cleared.
BelowScreenLate == y > Rows

BelowScreen == y >= Rows

Test(p) ==
    /\ \/ BehindLine /\ Along(p, "test x", "wrap x")
       \/ ~BehindLine /\ Along(p, "test x", "test y")
       \/ BelowScreen /\ Along(p, "test y", "clear")
       \/ ~BelowScreen /\ Along(p, "test y", "idle")
       \/ x < Columns /\ Along(p, "clear test x", "clear row")
       \/ x >= Columns /\ Along(p, "clear test x", "clear next")
       \/ y < Rows /\ Along(p, "clear test y", "clear line")
       \/ y >= Rows /\ Along(p, "clear test y", "home x")
    /\ UNCHANGED <<x, y, register, index>>

printf(p) ==
    /\ \/ Begin(p) \/ LoadY(p) \/ StoreCell(p) \/ LoadX(p) \/ StoreX(p)
       \/ StoreY(p) \/ ZeroX(p) \/ ZeroY(p) \/ Test(p)
    /\ company' = CASE Inside' = {} -> "none"
                    [] Inside' \ {p} # {} -> "processes"
                    [] OTHER -> company

\* A character printed by an interrupt handler, from wherever the cursor stands.
printfInterrupt(newline) ==
    LET x1 == IF newline THEN 0 ELSE Byte(x + 1)
        y1 == IF newline THEN Byte(y + 1) ELSE y
        x2 == IF x1 >= Columns THEN 0 ELSE x1
        y2 == IF x1 >= Columns THEN Byte(y1 + 1) ELSE y1
    IN  /\ x' = IF y2 >= Rows THEN 0 ELSE x2
        /\ y' = IF y2 >= Rows THEN 0 ELSE y2
        /\ index' = IF newline THEN index ELSE Columns * y + x
        /\ company' = IF Inside # {} /\ company = "none" THEN "interrupts" ELSE company
        /\ UNCHANGED <<step, register>>

ConsoleNext ==
    \/ \E p \in Printers : printf(p)
    \/ \E newline \in BOOLEAN : printfInterrupt(newline)

ConsoleSpec == ConsoleInit /\ [][ConsoleNext]_consoleVars

-----------------------------------------------------------------------------
\* However the processes were interleaved, once nobody is inside printf the cursor
\* is back on the screen: whoever moved it last has tested it afterwards.
CursorOnScreen ==
    (\A p \in Printers : step[p] = "idle") => x < Columns /\ y < Rows

\* A process that prints alone stores on the screen only.  Interrupts that print
\* while it is inside printf find the cursor at most one place behind the last
\* column and one row below the last one; nothing is stored farther away.
StoresNearScreen ==
    [][index' # index =>
          CASE company' = "none" -> index' < Columns * Rows
            [] company' = "interrupts" -> index' <= Columns * (Rows + 1)
            [] OTHER -> TRUE]_consoleVars
==============================================================================
