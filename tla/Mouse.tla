-------------------------------- MODULE Mouse --------------------------------
(***************************************************************************)
(* The mouse driver and MouseToConsole, the handler kernelMain gives it.    *)
(* The mouse (external) sends packets of three bytes, each with an          *)
(* interrupt of its own; the driver counts the bytes to find the packets.   *)
(***************************************************************************)
EXTENDS Integers, Sequences

CONSTANTS
    Offsets,    \* the second and third byte of a packet
    Flags       \* the first: the buttons held down, as a set of 1 .. 3

Width == 80
Height == 25

ASSUME MouseAssumption == Offsets \subseteq 0 .. 255 /\ Flags \subseteq SUBSET (1 .. 3)

VARIABLES
    offset, buffer, buttons,    \* the driver
    pointer, inverted,          \* MouseToConsole, and the cells it has inverted
    wire,       \* the bytes of a packet on their way
    held,       \* history: the buttons of the last packet
    told,       \* history: the buttons the handler was told are down
    ideal       \* history: where the pointer belongs, until a sum overflows

mouseVars == <<offset, buffer, buttons, pointer, inverted, wire, held, told, ideal>>

Center == [x |-> 40, y |-> 12]

\* The constructor of MouseToConsole and MouseDriver::Activate, whose last read
\* takes the acknowledgement of the mouse from the port.
MouseInit ==
    /\ offset = 0 /\ buffer = <<{}, 0, 0>> /\ buttons = {}
    /\ pointer = Center /\ inverted = {Center}
    /\ wire = <<>> /\ held = {} /\ told = {}
    /\ ideal = Center

Int8(n) == ((n + 128) % 256) - 128

Clamp(n, limit) == IF n >= limit THEN limit - 1 ELSE IF n < 0 THEN 0 ELSE n

\* The mouse moves or a button changes.
SendPacket(flags, dx, dy) ==
    /\ wire = <<>>
    /\ wire' = <<flags, dx, dy>>
    /\ held' = flags
    /\ UNCHANGED <<offset, buffer, buttons, pointer, inverted, told, ideal>>

\* Inverting a cell a second time restores it.
Invert(s, cell) == IF cell \in s THEN s \ {cell} ELSE s \cup {cell}

\* The handler moves by int8_t arithmetic and limits the result to the screen.
OnMouseMove(dx, dy) ==
    LET to == [x |-> Clamp(Int8(pointer.x + dx), Width),
               y |-> Clamp(Int8(pointer.y + dy), Height)]
    IN  /\ pointer' = to
        /\ inverted' = Invert(Invert(inverted, pointer), to)
        /\ ideal' = IF pointer.x + dx > 127 \/ pointer.y + dy > 127 THEN to
                    ELSE [x |-> Clamp(ideal.x + dx, Width), y |-> Clamp(ideal.y + dy, Height)]

\* OnMouseDown and OnMouseUp for every button whose bit differs from buttons.
ButtonEvents(flags) ==
    LET changed == (flags \ buttons) \cup (buttons \ flags)
    IN  (told \ (changed \cap buttons)) \cup (changed \ buttons)

\* Mutant: the buttons are kept when the mouse has moved.
NewButtonsAtRest(b) == IF b[2] # 0 \/ b[3] # 0 THEN buttons ELSE b[1]

NewButtons(b) == b[1]

\* An interrupt without a byte of the mouse at the port returns at once.
MouseInterrupt ==
    /\ wire # <<>>
    /\ wire' = Tail(wire)
    /\ LET b == [buffer EXCEPT ![offset + 1] = Head(wire)]
       IN  /\ buffer' = b
           /\ offset' = (offset + 1) % 3
           /\ IF (offset + 1) % 3 = 0
              THEN /\ IF b[2] # 0 \/ b[3] # 0
                      THEN OnMouseMove(Int8(b[2]), -Int8(b[3]))
                      ELSE UNCHANGED <<pointer, inverted, ideal>>
                   /\ told' = ButtonEvents(b[1])
                   /\ buttons' = NewButtons(b)
              ELSE UNCHANGED <<buttons, pointer, inverted, told, ideal>>
    /\ UNCHANGED held

MouseNext ==
    \/ \E flags \in Flags, dx, dy \in Offsets : SendPacket(flags, dx, dy)
    \/ MouseInterrupt

MouseSpec == MouseInit /\ [][MouseNext]_mouseVars

-----------------------------------------------------------------------------
\* When every byte has been taken, the driver stands at the start of a packet and
\* the handler has been told of exactly the buttons that are down; the pointer is
\* where the movements take it (unless an offset carried the int8_t beyond 127,
\* when it jumps to the other edge) and its cell is the only inverted one.
MouseInStep ==
    wire = <<>> =>
        /\ offset = 0 /\ told = held
        /\ pointer = ideal /\ inverted = {pointer}
==============================================================================
