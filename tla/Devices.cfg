\* A small screen, a small desktop, a disk of 16 sectors, four PCI functions and places
\* for two drivers.
CONSTANTS
    Printers = {p1, p2}
    Columns = 2
    Rows = 2
    Bytes = 5
    Offsets = {0, 127, 200}
    Flags = {{}, {1}, {1, 3}}
    DesktopW = 4
    DesktopH = 2
    Windows <- MCWindows
    Children <- MCChildren
    Moves <- MCMoves
    Buttons = {1, 2}
    Radix = 2
    Sectors = {0, 1, 4, 10}
    Data = {1}
    Counts = {1, 4}
    Words = 2
    Buses = 1
    Devices = 2
    Functions = 2
    FreePlaces = 2
    Kinds <- MCKinds
    Garbage <- MCGarbage
    Bases = {0, 255, 256, 65536, 16777215, 2147483647}
    Limits = {0, 1, 255, 65535, 65536, 65537, 69631, 69632, 69633, 1048575, 1048576,
              67108864, 2147483646, 2147483647}
    Types = {154, 146}
    Lengths = {0, 1, 2, 3, 4}
    Elements = {1, 3, 5}
    Wanted = {0, 1, 3, 4, 5, 6}
    LargestInt = 31
    Numbers <- MCNumbers
    BufferSize = 4
SPECIFICATION Spec
INVARIANTS
    CursorOnScreen MouseInStep ClickHitsWhatIsSeen KeysFollowClicks
    FrontWindowDrag EveryCardItsDriver DescriptorFits SearchesFind
    IntegerPrinted
PROPERTIES
    StoresNearScreen SectorsReadBack
