-------------------------------- MODULE Disk ---------------------------------
(***************************************************************************)
(* The ATA driver: Identify, Read28, Write28 and Flush, and the drive        *)
(* (external) behind its registers.  A caller identifies the drive first and  *)
(* flushes after every write, for Write28 does not wait for the drive.        *)
(*                                                                          *)
(* A sector number is four digits to the base Radix (256 in the code, 16 for  *)
(* the last).  Read28 and Write28 put digit 2 into the low register, over     *)
(* digit 0, and leave the high register alone.                                *)
(***************************************************************************)
EXTENDS Integers

CONSTANTS
    Radix,
    Sectors,    \* the sectors the callers use
    Data,       \* the bytes they write; a write fills count bytes with one of them
    Counts,     \* the counts they pass
    Words       \* the words of a sector, 256

Capacity == Radix * Radix * Radix * Radix

ASSUME DiskAssumption ==
    /\ Radix \in Nat \ {0, 1} /\ Words \in Nat \ {0}
    /\ Sectors \subseteq 0 .. Capacity - 1
    /\ Counts \subseteq 0 .. 2 * Words /\ Data \subseteq Nat \ {0}

VARIABLES
    low, mid, high, head,   \* the address registers
    target,     \* the sector of the command under way
    status,     \* "ready", "busy" or "error"
    storing,    \* what the busy drive does: the content it stores, or Nothing
    disk,       \* the content of each sector of the drive: a byte and a count
    expected,   \* the words the drive still expects to be moved
    call,       \* the driver's operation under way
    answer,     \* the content of the sector that Read28 read last
    written     \* history: the last content written to each group of sectors

diskVars == <<low, mid, high, head, target, status, storing, disk, expected, call, answer, written>>

Nothing == <<0, 0>>

\* The sectors that differ in digit 0 only are one sector to the driver.
Group(n) == n \div Radix

Digit(n, k) ==
    CASE k = 0 -> n % Radix
      [] k = 1 -> Group(n) % Radix
      [] k = 2 -> Group(Group(n)) % Radix
      [] k = 3 -> Group(Group(Group(n))) % Radix

\* The sector that the registers address.
Addressed == ((head * Radix + high) * Radix + mid) * Radix + low

Idle == [op |-> "none", sector |-> 0, data |-> Nothing]

DiskInit ==
    /\ low = 0 /\ mid = 0 /\ high \in 0 .. Radix - 1 /\ head = 0 /\ target = 0
    /\ status = "ready" /\ storing = Nothing
    /\ disk = [s \in 0 .. Capacity - 1 |-> Nothing]
    /\ expected = 0
    /\ call = [Idle EXCEPT !.op = "start"]
    /\ answer = Nothing
    /\ written = [g \in {Group(n) : n \in Sectors} |-> Nothing]

-----------------------------------------------------------------------------
\* The words moved for count bytes: two bytes at a time, then the rest of the
\* sector from the next even byte on.
Steps(from, to) == IF to > from THEN (to - from + 1) \div 2 ELSE 0

Moved(count) == Steps(0, count) + Steps(count + (count % 2), 2 * Words)

\* The drive leaves its busy state, with an error or without.
Complete ==
    /\ status = "busy"
    /\ \/ /\ status' = "ready"
          /\ disk' = IF storing = Nothing THEN disk ELSE [disk EXCEPT ![target] = storing]
          /\ written' = IF storing = Nothing THEN written
                        ELSE [written EXCEPT ![Group(call.sector)] = storing]
       \/ status' = "error" /\ UNCHANGED <<disk, written>>
    /\ storing' = Nothing
    /\ UNCHANGED <<low, mid, high, head, target, expected, call, answer>>

\* A drive is there: the early returns for status 0xFF and 0 are not taken.
Identify ==
    /\ call.op \in {"start", "none"}
    /\ low' = 0 /\ mid' = 0 /\ high' = 0 /\ head' = 0 /\ target' = Addressed'
    /\ status' = "busy" /\ expected' = Words
    /\ call' = [Idle EXCEPT !.op = "identify"]
    /\ UNCHANGED <<storing, disk, answer, written>>

\* The device port carries digit 3.
SetRegisters(n) ==
    /\ head' = Digit(n, 3) /\ mid' = Digit(n, 1) /\ low' = Digit(n, 2)
    /\ UNCHANGED high

Read28(n, count) ==
    /\ call.op = "none"
    /\ SetRegisters(n) /\ target' = Addressed'
    /\ status' = "busy" /\ expected' = Words
    /\ call' = [op |-> "read", sector |-> n, data |-> <<0, count>>]
    /\ UNCHANGED <<storing, disk, answer, written>>

\* Mutant: Write28 alone sets the high register.
WriteRegistersHigh(n) ==
    /\ head' = Digit(n, 3) /\ mid' = Digit(n, 1) /\ low' = Digit(n, 0)
    /\ high' = Digit(n, 2)

WriteRegisters(n) == SetRegisters(n)

\* The words are moved at once, and the drive stores them.
Write28(n, byte, count) ==
    /\ call.op = "none"
    /\ WriteRegisters(n) /\ target' = Addressed'
    /\ status' = "busy" /\ storing' = <<byte, count>>
    /\ expected' = Words - Moved(count)
    /\ call' = [op |-> "written", sector |-> n, data |-> <<byte, count>>]
    /\ UNCHANGED <<disk, answer, written>>

\* Flush selects the drive, which clears the digit in the device port.
Flush ==
    /\ call.op = "written"
    /\ call' = [call EXCEPT !.op = "flush"]
    /\ head' = 0
    /\ UNCHANGED <<low, mid, high, target, status, storing, disk, expected, answer, written>>

\* The polling loops end when the drive is not busy; an error ends the call.
Polled ==
    /\ call.op \in {"identify", "read", "flush"} /\ status # "busy"
    /\ call' = Idle
    /\ status' = "ready"
    /\ IF status = "error" \/ call.op = "flush"
       THEN /\ expected' = IF call.op = "flush" THEN expected ELSE 0
            /\ UNCHANGED answer
       ELSE /\ expected' = expected - (IF call.op = "read" THEN Moved(call.data[2]) ELSE Words)
            /\ answer' = IF call.op = "read" THEN disk[target] ELSE answer
    /\ UNCHANGED <<low, mid, high, head, target, storing, disk, written>>

DiskNext ==
    \/ Complete \/ Identify \/ Flush \/ Polled
    \/ \E n \in Sectors, count \in Counts :
          Read28(n, count) \/ \E byte \in Data : Write28(n, byte, count)

DiskSpec == DiskInit /\ [][DiskNext]_diskVars

-----------------------------------------------------------------------------
\* A sector reads back as what was last written to it (or, since the driver loses the
\* lowest digit of the number, to a sector of its group), whatever was read, written
\* or failed in between; and every call moves exactly one sector of words, for every
\* count, so that the drive expects none at the next command.
SectorsReadBack ==
    [][call.op \in {"identify", "read", "flush"} /\ call'.op = "none" =>
          /\ expected' = 0
          /\ call.op = "read" /\ status # "error" => answer' = written[Group(call.sector)]]_diskVars
==============================================================================
