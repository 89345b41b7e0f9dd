--------------------------------- MODULE Gdt ---------------------------------
(***************************************************************************)
(* Segment descriptors: the constructor spreads a base address and a limit    *)
(* over eight bytes, Base and Limit put them together again.  A limit above   *)
(* 65536 loses its twelve low bits.                                           *)
(***************************************************************************)
EXTENDS Integers

CONSTANTS
    Bases, Limits,  \* the arguments of the constructor
    Types

\* What a uint32_t holds.
UInt32(n) == n \in Nat /\ n \div 65536 < 65536

ASSUME GdtAssumption ==
    (\A n \in Bases \cup Limits : UInt32(n)) /\ Types \subseteq 0 .. 255

VARIABLES
    descriptor, \* the bytes of the descriptor: a function on 0 .. 7
    wanted      \* history: the arguments it was made from

gdtVars == <<descriptor, wanted>>

\* Mutant: the twelve bits are dropped without the compensation.
SqueezedLimitPlain(limit) == IF limit <= 65536 THEN limit ELSE limit \div 4096

\* "we have to compensate this by decreasing a higher bit"
SqueezedLimit(limit) ==
    IF limit <= 65536 THEN limit
    ELSE IF limit % 4096 # 4095 THEN (limit \div 4096) - 1 ELSE limit \div 4096

SegmentDescriptor(base, limit, type) ==
    LET l == SqueezedLimit(limit) IN
    [k \in 0 .. 7 |->
        CASE k = 0 -> l % 256
          [] k = 1 -> (l \div 256) % 256
          [] k = 2 -> base % 256
          [] k = 3 -> (base \div 256) % 256
          [] k = 4 -> (base \div 65536) % 256
          [] k = 5 -> type
          [] k = 6 -> (IF limit <= 65536 THEN 64 ELSE 192) + ((l \div 65536) % 16)
          [] k = 7 -> (base \div 16777216) % 256]

Base(t) == ((t[7] * 256 + t[4]) * 256 + t[3]) * 256 + t[2]

\* The flags of byte 6 are 0x40 or 0xC0.
Limit(t) ==
    LET l == ((t[6] % 16) * 256 + t[1]) * 256 + t[0]
    IN  IF t[6] >= 192 THEN l * 4096 + 4095 ELSE l

MakeDescriptor(base, limit, type) ==
    /\ descriptor' = SegmentDescriptor(base, limit, type)
    /\ wanted' = [base |-> base, limit |-> limit, type |-> type]

GdtInit ==
    /\ descriptor = SegmentDescriptor(0, 0, 0)
    /\ wanted = [base |-> 0, limit |-> 0, type |-> 0]

GdtNext == \E base \in Bases, limit \in Limits, type \in Types : MakeDescriptor(base, limit, type)

GdtSpec == GdtInit /\ [][GdtNext]_gdtVars

-----------------------------------------------------------------------------
\* What the comment of the constructor promises: the segment is never longer than it
\* was asked to be, "up to 4095 wasted bytes" shorter, and its base and type are kept.
DescriptorFits ==
    /\ Base(descriptor) = wanted.base /\ descriptor[5] = wanted.type
    /\ Limit(descriptor) <= wanted.limit
    /\ wanted.limit - Limit(descriptor) <= 4095
==============================================================================
