\* One reader with the keys 0 1 6 - Enter a, one without a character and one release;
\* the timer, the keyboard and two devices at the slave; rings of two descriptors.
CONSTANTS
    Readers = {r1}
    Keys = {1, 2, 7, 11, 28, 30, 53, 130}
    MaxInt = 15
    MaxKeys = 4
    hardwareInterruptOffset = 32
    IRQs = {0, 1, 8, 12}
    Registered = {33, 44, 160}
    Ring = 2
SPECIFICATION Spec
INVARIANTS AllAcknowledged
PROPERTIES
    ScannedNumber EnterEndsScanf RequestsTaken ReceivedInOrder FramesServed SentInOrder
