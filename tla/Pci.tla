--------------------------------- MODULE Pci ---------------------------------
(***************************************************************************)
(* The search for PCI devices and the driver manager.  SelectDrivers visits   *)
(* every function of every device, asks GetDriver for a driver and adds it;   *)
(* ActivateAll then activates the drivers in the order in which they were     *)
(* added.  The configuration space is external.                               *)
(***************************************************************************)
EXTENDS Integers, Sequences

CONSTANTS
    Buses, Devices, Functions,  \* how many of each: 8, 32 and 8
    Kinds,      \* the functions a machine may have, Absent aside
    FreePlaces, \* the places of the driver array that the search finds free: 265, less
                \* those of the keyboard and the mouse
    Garbage     \* what a variable holds that was never assigned

IsAm79c973(f) == f.vendor = 4130 /\ f.id = 8192

\* A base address register: whether it is an input/output register, and its address.
Registers == [io : BOOLEAN, address : Nat]

ASSUME PciAssumption ==
    /\ Buses \in Nat \ {0} /\ Devices \in Nat \ {0} /\ Functions \in Nat \ {0}
    /\ FreePlaces \in Nat
    /\ \A f \in Kinds :
          /\ f.headertype \in {0, 1} /\ Len(f.bars) = 6 - 4 * f.headertype
          /\ f.bars \in Seq(Registers) /\ f.interrupt \in Nat
    /\ Garbage \subseteq Registers

\* The card of the driver is not a bridge.
ASSUME CardAssumption == \A f \in Kinds : IsAm79c973(f) => f.headertype = 0

\* A function that is not there reads as all ones, the bit for several functions
\* included.
Absent == [vendor |-> 65535, id |-> 65535, several |-> TRUE, headertype |-> 127,
           bars |-> <<>>, interrupt |-> 255]

Slots == (0 .. Buses - 1) \X (0 .. Devices - 1) \X (0 .. Functions - 1)

VARIABLES
    machine,    \* the function in every slot
    slot,       \* where SelectDrivers is, or <<>> at its end
    drivers,    \* the drivers in the array: the slot, the port and the interrupt of each
    overrun,    \* numDrivers, which lies behind the array, holds a pointer and not Len(drivers)
    active,     \* the drivers activated
    refused     \* history: the slots whose driver malloc had no room for

pciVars == <<machine, slot, drivers, overrun, active, refused>>

PciInit ==
    /\ machine \in [Slots -> Kinds \cup {Absent}]
    /\ slot = <<0, 0, 0>>
    /\ drivers = <<>> /\ overrun = FALSE /\ active = <<>> /\ refused = {}

DeviceHasFunctions(s) == machine[<<s[1], s[2], 0>>].several

\* Mutant: every device is taken to have one function.
NumFunctionsOne(s) == 1

NumFunctions(s) == IF DeviceHasFunctions(s) THEN Functions ELSE 1

\* The next round of the three loops.
NextSlot(s) ==
    CASE s[3] + 1 < NumFunctions(s) -> <<s[1], s[2], s[3] + 1>>
      [] s[3] + 1 >= NumFunctions(s) /\ s[2] + 1 < Devices -> <<s[1], s[2] + 1, 0>>
      [] s[3] + 1 >= NumFunctions(s) /\ s[2] + 1 >= Devices /\ s[1] + 1 < Buses ->
            <<s[1] + 1, 0, 0>>
      [] OTHER -> <<>>

\* GetBaseAddressRegister: a register behind the last one of the header type comes
\* back unassigned; a memory register has no address, but its type is known.
BaseAddressRegisters(f, number) ==
    IF number > 6 - 4 * f.headertype THEN Garbage
    ELSE {f.bars[number]}

\* The ports dev.portBase may hold after the loop over the registers: the last
\* input/output register with an address wins.
AfterRegister(f, ports, number) ==
    UNION {IF bar.io /\ bar.address # 0 THEN {bar.address} ELSE ports :
              bar \in BaseAddressRegisters(f, number)}

PortBases(f) ==
    LET After(ports, number) == AfterRegister(f, ports, number)
        two == After(After({bar.address : bar \in Garbage}, 1), 2)
        four == After(After(two, 3), 4)
    IN  After(After(four, 5), 6)

\* What the constructor of amd_am79c973 takes from the device descriptor.
NewDriver(s, port) == [slot |-> s, port |-> port, interrupt |-> machine[s].interrupt]

\* AddDriver does not look at the size of the array.  The driver after the last place is
\* stored over numDrivers, and every later one far away from the array.
AddDriver(driver) ==
    \/ /\ Len(drivers) < FreePlaces
       /\ drivers' = Append(drivers, driver)
       /\ UNCHANGED overrun
    \/ /\ Len(drivers) = FreePlaces
       /\ overrun' = TRUE
       /\ UNCHANGED drivers

\* One function; GetDriver has room for the driver or not.
SelectDriver(room) ==
    LET f == machine[slot]
        card == f.vendor \notin {0, 65535} /\ IsAm79c973(f)
    IN
    /\ slot # <<>>
    /\ \/ ~card /\ UNCHANGED <<drivers, overrun, refused>>
       \/ /\ card /\ room
          /\ \E port \in PortBases(f) : AddDriver(NewDriver(slot, port))
          /\ UNCHANGED refused
       \/ card /\ ~room /\ refused' = refused \cup {slot} /\ UNCHANGED <<drivers, overrun>>
    /\ slot' = NextSlot(slot)
    /\ UNCHANGED <<machine, active>>

\* What lies behind the array, where the loop of ActivateAll goes on when numDrivers is
\* a pointer: numDrivers itself is then taken for a driver, and nothing is known of what
\* the program does from there on.
Behind == [slot |-> <<>>, port |-> 0, interrupt |-> 0]

Activated == IF overrun THEN Append(drivers, Behind) ELSE drivers

ActivateAll ==
    /\ slot = <<>> /\ active # Activated
    /\ active' = Activated
    /\ UNCHANGED <<machine, slot, drivers, overrun, refused>>

SearchOver == slot = <<>> /\ active = Activated /\ UNCHANGED pciVars

PciNext == (\E room \in BOOLEAN : SelectDriver(room)) \/ ActivateAll \/ SearchOver

PciSpec == PciInit /\ [][PciNext]_pciVars

-----------------------------------------------------------------------------
Earlier(s, t) == \E k \in 1 .. 3 : s[k] < t[k] /\ \A j \in 1 .. k - 1 : s[j] = t[j]

\* The network cards that can be found: function 0, or another one of a device whose
\* function 0 says that there are several or is not there.
Found == {s \in Slots : IsAm79c973(machine[s]) /\ (s[3] = 0 \/ DeviceHasFunctions(s))}

\* After the search every card that was found has one driver, unless memory ran out or
\* the array did.  The array is overrun exactly when a card is left without a place in
\* it, and then the first cards have filled it.  The drivers stand in the order of the
\* slots, and each has the interrupt of its card and, where the card has one, the
\* address of an input/output register of it.
EveryCardItsDriver ==
    LET cards == Found \ refused
        served == {drivers[k].slot : k \in DOMAIN drivers}
    IN  slot = <<>> =>
        /\ served \subseteq cards /\ Len(drivers) <= FreePlaces
        /\ overrun <=> served # cards
        /\ overrun => Len(drivers) = FreePlaces
        /\ \A s \in served, t \in cards \ served : Earlier(s, t)
        /\ \A j, k \in DOMAIN drivers : j < k => Earlier(drivers[j].slot, drivers[k].slot)
        /\ \A k \in DOMAIN drivers :
              LET f == machine[drivers[k].slot]
                  ports == {f.bars[n].address : n \in {m \in DOMAIN f.bars :
                               f.bars[m].io /\ f.bars[m].address # 0}}
              IN  /\ drivers[k].interrupt = f.interrupt
                  /\ ports # {} => drivers[k].port \in ports
==============================================================================
