------------------------------ MODULE MCDevices ------------------------------
(***************************************************************************)
(* The drivers and services whose safety is checked, side by side: each      *)
(* behaviour is a behaviour of one of them, the one that device names.  They *)
(* share no variable, so nothing is lost by looking at them one at a time.   *)
(***************************************************************************)
EXTENDS Console, Mouse, Desktop, Disk, Pci, Gdt, Searches,
        IntToString

VARIABLE device

vars == <<device, consoleVars, mouseVars, desktopVars, diskVars, pciVars, gdtVars,
          searchVars, printVars>>

Components == {"console", "mouse", "desktop", "disk", "pci", "gdt", "search", "print"}

Rect(a, b, c, d) == [x |-> a, y |-> b, w |-> c, h |-> d]

\* Two windows side by side that can be dragged over each other; the widgets of
\* the first overlap.
MCWindows == <<Rect(0, 0, 2, 2), Rect(2, 0, 3, 1)>>
MCChildren == <<<<Rect(0, 0, 1, 1), Rect(0, 0, 2, 1)>>, <<Rect(1, 0, 2, 1)>>>>
MCMoves == {-4, 0, 3, 8}

Bar(io, address) == [io |-> io, address |-> address]

MCGarbage == {Bar(io, address) : io \in BOOLEAN, address \in {0, 99}}

Card(id, several, headertype, interruptLine, bars) ==
    [vendor |-> 4130, id |-> id, several |-> several, headertype |-> headertype,
     interrupt |-> interruptLine, bars |-> bars]

\* The network card as one function of several and alone, with one register and
\* with two; a bridge, which has two registers; a slot that reads as zero.
MCKinds ==
    LET none == Bar(FALSE, 0) IN
    {Card(8192, TRUE, 0, 9, <<Bar(TRUE, 80), none, none, none, none, none>>),
     Card(8192, FALSE, 0, 10, <<Bar(TRUE, 60), none, Bar(TRUE, 70), none, none, none>>),
     Card(1, FALSE, 1, 11, <<Bar(TRUE, 50), none>>),
     [Card(8192, TRUE, 0, 0, <<none, none, none, none, none, none>>) EXCEPT !.vendor = 0]}

MCNumbers == -32 .. 31

\* What the other components start with does not matter.
Init ==
    /\ device \in Components
    /\ ConsoleInit /\ MouseInit /\ DesktopInit /\ GdtInit
    /\ DiskInit /\ (device # "disk" => high = 0)
    /\ PciInit /\ (device # "pci" => \A s \in Slots : machine[s] = Absent)
    /\ SearchInit /\ (device # "search" => n = 0 /\ key = 0)
    /\ PrintInit /\ (device # "print" => asked = 0)

\* Only the device named takes steps.
Idles(name, v) == device # name /\ UNCHANGED v

Next ==
    /\ UNCHANGED device
    /\ \/ device = "console" /\ ConsoleNext
       \/ Idles("console", consoleVars)
    /\ \/ device = "mouse" /\ MouseNext
       \/ Idles("mouse", mouseVars)
    /\ \/ device = "desktop" /\ DesktopNext
       \/ Idles("desktop", desktopVars)
    /\ \/ device = "disk" /\ DiskNext
       \/ Idles("disk", diskVars)
    /\ \/ device = "pci" /\ PciNext
       \/ Idles("pci", pciVars)
    /\ \/ device = "gdt" /\ GdtNext
       \/ Idles("gdt", gdtVars)
    /\ \/ device = "search" /\ SearchNext
       \/ Idles("search", searchVars)
    /\ \/ device = "print" /\ PrintNext
       \/ Idles("print", printVars)

Spec == Init /\ [][Next]_vars
==============================================================================
