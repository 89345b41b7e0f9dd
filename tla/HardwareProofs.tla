--------------------------- MODULE HardwareProofs ---------------------------
(***************************************************************************)
(* The segment descriptors, the interrupt manager and the drivers of the   *)
(* network card, the disk and the PCI bus, for every base and limit, every *)
(* set of devices, every size of the rings and every machine.              *)
(***************************************************************************)
EXTENDS Gdt, Interrupts, Network, Disk, Pci, TLAPS

-----------------------------------------------------------------------------
(* Segment descriptors, for every base and every limit of 32 bits.          *)

\* A number of 32 bits is put together again from its four bytes.
LEMMA FourBytes ==
    ASSUME NEW n, UInt32(n)
    PROVE  ((((n \div 16777216) % 256) * 256 + ((n \div 65536) % 256)) * 256
               + ((n \div 256) % 256)) * 256 + (n % 256) = n
  <1>1. n \in Nat /\ n \div 65536 < 65536
    BY DEF UInt32
  <1>2. (n \div 16777216) % 256 = n \div 16777216
    BY <1>1
  <1>3. (n \div 16777216) * 256 + ((n \div 65536) % 256) = n \div 65536
    BY <1>1
  <1>4. (n \div 65536) * 256 + ((n \div 256) % 256) = n \div 256
    BY <1>1
  <1>5. (n \div 256) * 256 + (n % 256) = n
    BY <1>1
  <1> QED
    BY <1>2, <1>3, <1>4, <1>5

\* The limit as it is stored has 20 bits, and one that was squeezed stands for a
\* length just below the one asked for.
LEMMA Squeezed ==
    ASSUME NEW n, UInt32(n)
    PROVE  /\ SqueezedLimit(n) \in Nat /\ SqueezedLimit(n) < 1048576
           /\ n <= 65536 => SqueezedLimit(n) = n
           /\ n > 65536 => /\ SqueezedLimit(n) * 4096 + 4095 <= n
                          /\ n - (SqueezedLimit(n) * 4096 + 4095) <= 4095
  <1>1. n \in Nat /\ n \div 65536 < 65536
    BY DEF UInt32
  <1>2. CASE n <= 65536
    BY <1>1, <1>2 DEF SqueezedLimit
  <1>3. CASE n > 65536
    <2>1. n = (n \div 4096) * 4096 + (n % 4096) /\ n % 4096 \in 0 .. 4095
      BY <1>1
    <2>2. n \div 4096 \in Nat /\ n \div 4096 >= 16 /\ n \div 4096 < 1048576
      BY <1>1, <1>3
    <2>3. SqueezedLimit(n) = IF n % 4096 # 4095 THEN (n \div 4096) - 1 ELSE n \div 4096
      BY <1>1, <1>3 DEF SqueezedLimit
    <2> QED
      BY <1>1, <1>3, <2>1, <2>2, <2>3
  <1> QED
    BY <1>1, <1>2, <1>3

\* A number of 20 bits is put together again from two bytes and four bits.
LEMMA TwentyBits ==
    ASSUME NEW l \in Nat, l < 1048576
    PROVE  ((((l \div 65536) % 16) * 256 + ((l \div 256) % 256)) * 256) + (l % 256) = l
  <1>1. (l \div 65536) % 16 = l \div 65536
    OBVIOUS
  <1>2. (l \div 65536) * 256 + ((l \div 256) % 256) = l \div 256
    OBVIOUS
  <1>3. (l \div 256) * 256 + (l % 256) = l
    OBVIOUS
  <1> QED
    BY <1>1, <1>2, <1>3

\* Base, Limit and the type byte of a descriptor give back what its constructor was
\* given, the limit rounded down.
LEMMA Decoded ==
    ASSUME NEW base, UInt32(base), NEW limit, UInt32(limit), NEW type
    PROVE  LET d == SegmentDescriptor(base, limit, type)
           IN  /\ Base(d) = base /\ d[5] = type
               /\ Limit(d) <= limit /\ limit - Limit(d) <= 4095
  <1> DEFINE d == SegmentDescriptor(base, limit, type)
             l == SqueezedLimit(limit)
             flags == IF limit <= 65536 THEN 64 ELSE 192
  <1>1. /\ d[0] = l % 256
        /\ d[1] = (l \div 256) % 256
        /\ d[2] = base % 256
        /\ d[3] = (base \div 256) % 256
        /\ d[4] = (base \div 65536) % 256
        /\ d[5] = type
        /\ d[6] = flags + ((l \div 65536) % 16)
        /\ d[7] = (base \div 16777216) % 256
    BY DEF SegmentDescriptor
  <1>2. Base(d) = base
    BY <1>1, FourBytes DEF Base
  <1>3. limit \in Nat
    BY DEF UInt32
  <1>4. l \in Nat /\ l < 1048576
    BY Squeezed
  <1> HIDE DEF d, l
  <1>5. d[6] % 16 = (l \div 65536) % 16 /\ (d[6] >= 192 <=> limit > 65536)
    BY <1>1, <1>3, <1>4
  <1>6. ((d[6] % 16) * 256 + d[1]) * 256 + d[0] = l
    BY <1>1, <1>4, <1>5, TwentyBits
  <1>7. Limit(d) = IF limit > 65536 THEN l * 4096 + 4095 ELSE l
    BY <1>5, <1>6 DEF Limit
  <1>8. /\ limit <= 65536 => l = limit
        /\ limit > 65536 => l * 4096 + 4095 <= limit /\ limit - (l * 4096 + 4095) <= 4095
    BY Squeezed DEF l
  <1>9. Limit(d) <= limit /\ limit - Limit(d) <= 4095
    BY <1>3, <1>4, <1>7, <1>8
  <1> QED
    BY <1>1, <1>2, <1>9 DEF d

\* Every descriptor the constructor of SegmentDescriptor makes keeps its base and its
\* type, and its segment is at most 4095 bytes shorter than asked for and never longer.
THEOREM DescriptorCorrect == GdtSpec => []DescriptorFits
  <1>1. GdtInit => DescriptorFits
    <2>1. UInt32(0)
      BY DEF UInt32
    <2> QED
      BY <2>1, Decoded DEF GdtInit, DescriptorFits
  <1>2. DescriptorFits /\ [GdtNext]_gdtVars => DescriptorFits'
    <2> SUFFICES ASSUME DescriptorFits, [GdtNext]_gdtVars
                 PROVE  DescriptorFits'
      OBVIOUS
    <2>1. ASSUME NEW base \in Bases, NEW limit \in Limits, NEW type \in Types,
                 MakeDescriptor(base, limit, type)
          PROVE  DescriptorFits'
      <3>1. UInt32(base) /\ UInt32(limit)
        BY GdtAssumption
      <3>2. /\ descriptor' = SegmentDescriptor(base, limit, type)
            /\ wanted'.base = base /\ wanted'.limit = limit /\ wanted'.type = type
        BY <2>1 DEF MakeDescriptor
      <3> QED
        BY <3>1, <3>2, Decoded DEF DescriptorFits
    <2>2. CASE UNCHANGED gdtVars
      BY <2>2 DEF gdtVars, DescriptorFits
    <2> QED
      BY <2>1, <2>2 DEF GdtNext
  <1> QED
    BY <1>1, <1>2, PTL DEF GdtSpec

-----------------------------------------------------------------------------
(* Every request is ended at the right controller.                          *)

\* What is in service while the handler of request irq runs.
Serving(irq) == inService = {irq, Input(irq)} /\ interrupt = hardwareInterruptOffset + irq

\* AllAcknowledged is not inductive: the acknowledgement ends the right requests only
\* because interrupt is the number of the one in service.
ServiceInv ==
    /\ AllAcknowledged
    /\ cpu = "handler" =>
          (\E irq \in IRQs : Serving(irq)) \/ (inService = {} /\ interrupt = 160)

LEMMA OffsetIs32 == hardwareInterruptOffset = 32 /\ IRQ_BASE = 32
  BY InterruptAssumption DEF IRQ_BASE

\* The command 0x20 to master and slave ends the one request in service.
LEMMA EndsAll ==
    ASSUME NEW irq \in IRQs, Serving(irq), Acknowledge(interrupt)
    PROVE  inService' = {}
  <1>1. irq \in 0 .. 15 /\ irq # 2
    BY InterruptAssumption
  <1>2. hardwareInterruptOffset = 32 /\ interrupt = 32 + irq
    BY OffsetIs32 DEF Serving
  <1>3. CASE irq \in Slave
    <2>1. inService = {irq, 2}
      BY <1>3 DEF Serving, Input
    <2>2. inService \cap Slave = {irq} /\ inService \ Slave = {2}
      <3>1. 2 \notin Slave
        BY DEF Slave
      <3> QED
        BY <1>3, <2>1, <3>1
    <2>3. EndOf({irq}) = {} /\ EndOf({2}) = {}
      BY <1>1 DEF EndOf
    <2>4. inService' = EndOf(inService \cap Slave) \cup EndOf(inService \ Slave)
      BY <1>1, <1>2, <1>3 DEF Acknowledge, Slave
    <2> QED
      BY <2>2, <2>3, <2>4
  <1>4. CASE irq \notin Slave
    <2>1. inService = {irq}
      BY <1>4 DEF Serving, Input
    <2>2. inService \cap Slave = {} /\ inService \ Slave = {irq}
      BY <1>4, <2>1
    <2>3. EndOf({irq}) = {}
      BY <1>1 DEF EndOf
    <2>4. inService' = (inService \cap Slave) \cup EndOf(inService \ Slave)
      BY <1>1, <1>2, <1>4 DEF Acknowledge, Slave
    <2> QED
      BY <2>2, <2>3, <2>4
  <1> QED
    BY <1>3, <1>4

\* With nothing in service there is nothing to end.
LEMMA EndsNothing ==
    ASSUME NEW k, inService = {}, Acknowledge(k)
    PROVE  inService' = {}
  <1>1. EndOf({}) = {}
    BY DEF EndOf
  <1>2. inService \cap Slave = {} /\ inService \ Slave = {}
    OBVIOUS
  <1> QED
    BY <1>1, <1>2 DEF Acknowledge

LEMMA ServiceStep ==
    ASSUME ServiceInv, [InterruptNext]_interruptVars
    PROVE  ServiceInv'
  <1> USE DEF ServiceInv, AllAcknowledged
  <1>1. ASSUME NEW k \in Registered \ handlers, InterruptHandler(k) PROVE ServiceInv'
    BY <1>1 DEF InterruptHandler, Serving
  <1>2. CASE ActivateInterrupts
    BY <1>2 DEF ActivateInterrupts
  <1>3. ASSUME NEW irq \in IRQs, Raise(irq) PROVE ServiceInv'
    BY <1>3 DEF Raise, Serving
  <1>4. ASSUME NEW irq \in IRQs, TakeRequest(irq) PROVE ServiceInv'
    <2>1. irq \in Nat /\ irq < 16
      BY InterruptAssumption
    <2>2. StubNumber(hardwareInterruptOffset + irq) = hardwareInterruptOffset + irq
      BY <2>1, OffsetIs32 DEF StubNumber
    <2>3. cpu' = "handler" /\ interrupt' = hardwareInterruptOffset + irq
      BY <1>4, <2>2 DEF TakeRequest
    <2>4. inService' = {irq, Input(irq)}
      BY <1>4 DEF TakeRequest
    <2> QED
      BY <2>3, <2>4 DEF Serving
  <1>5. CASE DoHandleInterrupt
    <2>1. cpu = "handler" /\ Acknowledge(interrupt) /\ cpu' \in {"user", "syscall"}
      BY <1>5 DEF DoHandleInterrupt, Resume
    <2>2. inService' = {}
      BY <2>1, EndsAll, EndsNothing
    <2> QED
      BY <2>1, <2>2
  <1>6. CASE SystemCallEntry
    <2>1. StubNumber(128) = 160
      BY OffsetIs32 DEF StubNumber
    <2> QED
      BY <1>6, <2>1 DEF SystemCallEntry
  <1>7. CASE Reschedule
    <2>1. cpu = "syscall" /\ Acknowledge(hardwareInterruptOffset) /\ cpu' \in {"user", "syscall"}
      BY <1>7 DEF Reschedule, Resume
    <2>2. inService' = {}
      BY <2>1, EndsNothing
    <2> QED
      BY <2>1, <2>2
  <1>8. CASE SystemCallExit
    <2>1. cpu = "syscall" /\ Acknowledge(StubNumber(128)) /\ cpu' = "user"
      BY <1>8 DEF SystemCallExit
    <2>2. inService' = {}
      BY <2>1, EndsNothing
    <2> QED
      BY <2>1, <2>2
  <1>9. CASE UNCHANGED interruptVars
    BY <1>9 DEF interruptVars, Serving
  <1> QED
    BY <1>1, <1>2, <1>3, <1>4, <1>5, <1>6, <1>7, <1>8, <1>9 DEF InterruptNext

\* Whatever devices there are and whenever they ask: outside of DoHandleInterrupt no
\* request is in service, neither at the master nor at the slave.
THEOREM AcknowledgementCorrect == InterruptSpec => []AllAcknowledged
  <1>1. InterruptInit => ServiceInv
    BY DEF InterruptInit, ServiceInv, AllAcknowledged
  <1>2. ServiceInv /\ [InterruptNext]_interruptVars => ServiceInv'
    BY ServiceStep
  <1>3. ServiceInv => AllAcknowledged
    BY DEF ServiceInv
  <1> QED
    BY <1>1, <1>2, <1>3, PTL DEF InterruptSpec

-----------------------------------------------------------------------------
(* The rings of the network driver.                                          *)

\* The descriptor that frame f belongs into.
Place(f) == IF f < Ring THEN f ELSE f - Ring

\* The frames from a up to b, which is not one of them, on the circle of frame
\* numbers.
Between(a, b, f) == IF a <= b THEN a <= f /\ f < b ELSE a <= f \/ f < b

\* There are at most as many of them as descriptors.
Fits(a, b) == IF a <= b THEN b - a <= Ring ELSE a - b >= Ring

\* A ring in which the owner has exactly the descriptors of the frames from a up to b,
\* each with its own frame in it.
Holds(ring, owner, a, b) ==
    \A d \in Descriptors :
        IF ring[d].own = owner
        THEN ring[d].frame \in {d, d + Ring} /\ Between(a, b, ring[d].frame)
        ELSE ~Between(a, b, d) /\ ~Between(a, b, d + Ring)

\* What lies in the receive ring: the driver owns exactly the descriptors of the frames
\* that have arrived and were not given back.
ReceiveRing ==
    /\ arrived \in Frames /\ received \in Frames
    /\ Fits(received, arrived)
    /\ deviceRecv = Place(arrived) /\ currentRecvBuffer = Place(received)
    /\ DOMAIN recv = Descriptors
    /\ Holds(recv, "driver", received, arrived)

\* The memory of the ring holds the frame that came last, and Receive gives back only
\* what the driver owns.
ReceiveInv ==
    /\ ReceiveRing
    /\ recvMemory \in Frames
    /\ received # arrived => After(recvMemory) = arrived
    /\ handlerAt = "give back" => recv[currentRecvBuffer].own = "driver"

\* Remainders on the two circles, of descriptors and of frames.
LEMMA RemainderBelow ==
    ASSUME NEW m \in Nat \ {0}, NEW a \in 0 .. m - 1
    PROVE  a % m = a
  BY Z3

LEMMA RemainderAtEnd ==
    ASSUME NEW m \in Nat \ {0}
    PROVE  m % m = 0
  BY Z3

LEMMA RemainderNegative ==
    ASSUME NEW m \in Nat \ {0}, NEW a \in -m .. -1
    PROVE  a % m = a + m
  BY Z3

LEMMA RingIsPositive ==
    Ring \in Nat \ {0} /\ Ring \in Nat /\ Ring > 0 /\ 2 * Ring \in Nat \ {0}
  BY NetworkAssumption

LEMMA ZeroIsFrame == 0 \in Frames
  BY RingIsPositive DEF Frames

LEMMA AfterValue ==
    ASSUME NEW f \in Frames
    PROVE  After(f) = IF f = 2 * Ring - 1 THEN 0 ELSE f + 1
  <1> DEFINE m == 2 * Ring
  <1>1. m \in Nat \ {0} /\ f \in 0 .. m - 1
    BY RingIsPositive DEF Frames
  <1>2. CASE f = m - 1
    BY <1>1, <1>2, RemainderAtEnd DEF After
  <1>3. CASE f # m - 1
    <2>1. f + 1 \in 0 .. m - 1
      BY <1>1, <1>3
    <2>2. (f + 1) % m = f + 1
      BY <1>1, <2>1, RemainderBelow
    <2> QED
      BY <1>3, <2>2 DEF After
  <1> QED
    BY <1>2, <1>3

LEMMA AfterInjective ==
    ASSUME NEW f \in Frames, NEW g \in Frames, After(f) = After(g)
    PROVE  f = g
  <1>1. After(f) = IF f = 2 * Ring - 1 THEN 0 ELSE f + 1
    BY AfterValue
  <1>2. After(g) = IF g = 2 * Ring - 1 THEN 0 ELSE g + 1
    BY AfterValue
  <1>3. f \in Nat /\ g \in Nat
    BY RingIsPositive DEF Frames
  <1>4. \A x, y \in Nat, m \in Nat :
           (IF x = m - 1 THEN 0 ELSE x + 1) = (IF y = m - 1 THEN 0 ELSE y + 1) => x = y
    OBVIOUS
  <1>5. 2 * Ring \in Nat
    BY RingIsPositive
  <1> QED
    BY <1>1, <1>2, <1>3, <1>4, <1>5

LEMMA StepValue ==
    ASSUME NEW d \in Descriptors
    PROVE  (d + 1) % Ring = IF d = Ring - 1 THEN 0 ELSE d + 1
  <1>1. d \in 0 .. Ring - 1
    BY DEF Descriptors
  <1>2. CASE d = Ring - 1
    BY <1>1, <1>2, RemainderAtEnd, RingIsPositive
  <1>3. CASE d # Ring - 1
    <2>1. d + 1 \in 0 .. Ring - 1
      BY <1>1, <1>3, RingIsPositive
    <2> QED
      BY <1>3, <2>1, RemainderBelow, RingIsPositive
  <1> QED
    BY <1>2, <1>3

\* A step to the next frame is a step to the next descriptor.
LEMMA PlaceAfter ==
    ASSUME NEW f \in Frames
    PROVE  /\ After(f) \in Frames /\ Place(f) \in Descriptors
           /\ Place(After(f)) = (Place(f) + 1) % Ring
  <1>1. Place(f) \in Descriptors
    BY RingIsPositive DEF Frames, Descriptors, Place
  <1>2. (Place(f) + 1) % Ring = IF Place(f) = Ring - 1 THEN 0 ELSE Place(f) + 1
    BY <1>1, StepValue
  <1>3. After(f) = IF f = 2 * Ring - 1 THEN 0 ELSE f + 1
    BY AfterValue
  <1> QED
    BY <1>1, <1>2, <1>3, RingIsPositive DEF Frames, Descriptors, Place

\* One more frame at the end, one less at the beginning.
LEMMA BetweenGrows ==
    ASSUME NEW a \in Frames, NEW b \in Frames, NEW f \in Frames, Fits(a, b),
           a = b \/ Place(a) # Place(b)
    PROVE  /\ Fits(a, After(b))
           /\ a # After(b)
           /\ Between(a, After(b), f) <=> Between(a, b, f) \/ f = b
  BY AfterValue, RingIsPositive DEF Frames, Fits, Between, Place

LEMMA BetweenShrinks ==
    ASSUME NEW a \in Frames, NEW b \in Frames, NEW f \in Frames, Fits(a, b), a # b
    PROVE  /\ Fits(After(a), b)
           /\ Between(After(a), b, f) <=> Between(a, b, f) /\ f # a
  BY AfterValue, RingIsPositive DEF Frames, Fits, Between

LEMMA BetweenFirst ==
    ASSUME NEW a \in Frames, NEW b \in Frames
    PROVE  Between(a, b, a) <=> a # b
  BY DEF Frames, Between

\* No two frames in a ring share a descriptor.
LEMMA OneEach ==
    ASSUME NEW a \in Frames, NEW b \in Frames, NEW f \in Frames, NEW g \in Frames,
           Fits(a, b), Between(a, b, f), Between(a, b, g), Place(f) = Place(g)
    PROVE  f = g
  BY RingIsPositive DEF Frames, Fits, Between, Place

LEMMA FramesOf ==
    ASSUME NEW d \in Descriptors
    PROVE  /\ d \in Frames /\ d + Ring \in Frames
           /\ \A f \in Frames : Place(f) = d <=> f \in {d, d + Ring}
  BY RingIsPositive DEF Descriptors, Frames, Place

\* Nothing is in a ring whose descriptors all have the other owner.
LEMMA EmptyRing ==
    ASSUME NEW ring, NEW owner, \A d \in Descriptors : ring[d].own # owner
    PROVE  Fits(0, 0) /\ Holds(ring, owner, 0, 0)
  <1>1. \A f \in Frames : ~Between(0, 0, f)
    BY DEF Between, Frames
  <1>2. Fits(0, 0)
    BY RingIsPositive DEF Fits
  <1> QED
    BY <1>1, <1>2, FramesOf DEF Holds

\* One more frame at the end of the ring, which the owner did not have yet.
LEMMA PutIn ==
    ASSUME NEW ring, NEW owner, NEW next, NEW a \in Frames, NEW b \in Frames,
           DOMAIN ring = Descriptors, Fits(a, b), Holds(ring, owner, a, b),
           ring[Place(b)].own # owner,
           next = [ring EXCEPT ![Place(b)] = [own |-> owner, frame |-> b]]
    PROVE  /\ DOMAIN next = Descriptors
           /\ a = b \/ Place(a) # Place(b)
           /\ Fits(a, After(b)) /\ a # After(b)
           /\ Holds(next, owner, a, After(b))
  <1> DEFINE e == Place(b)
  <1>1. e \in Descriptors
    BY PlaceAfter
  <1>2. a = b \/ Place(a) # e
    <2> SUFFICES ASSUME a # b, Place(a) = e PROVE FALSE
      OBVIOUS
    <2>1. Between(a, b, a)
      BY BetweenFirst
    <2>2. a \in {e, e + Ring}
      BY <1>1, FramesOf
    <2> QED
      BY <1>1, <2>1, <2>2 DEF Holds
  <1>3. /\ Fits(a, After(b)) /\ a # After(b)
        /\ \A f \in Frames : Between(a, After(b), f) <=> Between(a, b, f) \/ f = b
    BY <1>2, BetweenGrows
  <1>4. next[e] = [own |-> owner, frame |-> b]
    BY <1>1
  <1>5. b \in {e, e + Ring}
    BY <1>1, FramesOf
  <1>6. ASSUME NEW d \in Descriptors, next[d].own = owner
        PROVE  next[d].frame \in {d, d + Ring} /\ Between(a, After(b), next[d].frame)
    <2>1. CASE d = e
      <3>1. next[d].frame = b
        BY <1>4, <2>1
      <3> QED
        BY <1>3, <1>5, <2>1, <3>1
    <2>2. CASE d # e
      <3>1. next[d] = ring[d]
        BY <2>2
      <3>2. ring[d].frame \in {d, d + Ring} /\ Between(a, b, ring[d].frame)
        BY <1>6, <3>1 DEF Holds
      <3> QED
        BY <1>3, <3>1, <3>2, FramesOf
    <2> QED
      BY <2>1, <2>2
  <1>7. ASSUME NEW d \in Descriptors, next[d].own # owner
        PROVE  ~Between(a, After(b), d) /\ ~Between(a, After(b), d + Ring)
    <2>1. d # e
      BY <1>4, <1>7
    <2>2. ring[d].own # owner
      BY <1>7, <2>1
    <2>3. d # b /\ d + Ring # b
      BY <2>1, FramesOf
    <2> QED
      BY <1>3, <2>2, <2>3, FramesOf DEF Holds
  <1>8. Holds(next, owner, a, After(b))
    BY <1>6, <1>7 DEF Holds
  <1> QED
    BY <1>2, <1>3, <1>8

\* What stands first in the ring.
LEMMA HeadOfRing ==
    ASSUME NEW ring, NEW owner, NEW a \in Frames, NEW b \in Frames,
           Fits(a, b), Holds(ring, owner, a, b), ring[Place(a)].own = owner
    PROVE  ring[Place(a)].frame = a /\ a # b
  <1> DEFINE d == Place(a)
             f == ring[d].frame
  <1>1. d \in Descriptors
    BY PlaceAfter
  <1>2. f \in Frames /\ f \in {d, d + Ring} /\ Between(a, b, f)
    BY <1>1, FramesOf DEF Holds
  <1>3. a # b
    BY <1>2 DEF Between, Frames
  <1>4. Between(a, b, a)
    BY <1>3, BetweenFirst
  <1>5. Place(f) = d
    BY <1>1, <1>2, FramesOf
  <1>6. f = a
    BY <1>2, <1>4, <1>5, OneEach
  <1> QED
    BY <1>3, <1>6

\* One frame less at the head of the ring.
LEMMA TakeOut ==
    ASSUME NEW ring, NEW owner, NEW next, NEW other, NEW a \in Frames, NEW b \in Frames,
           DOMAIN ring = Descriptors, Fits(a, b), Holds(ring, owner, a, b),
           ring[Place(a)].own = owner, other.own # owner,
           next = [ring EXCEPT ![Place(a)] = other]
    PROVE  /\ DOMAIN next = Descriptors
           /\ ring[Place(a)].frame = a /\ a # b
           /\ Fits(After(a), b)
           /\ Holds(next, owner, After(a), b)
  <1> DEFINE e == Place(a)
  <1>1. e \in Descriptors
    BY PlaceAfter
  <1>2. ring[e].frame = a /\ a # b
    BY HeadOfRing
  <1>3. /\ Fits(After(a), b)
        /\ \A f \in Frames : Between(After(a), b, f) <=> Between(a, b, f) /\ f # a
    BY <1>2, BetweenShrinks
  <1>4. next[e] = other
    BY <1>1
  <1>5. ASSUME NEW d \in Descriptors, next[d].own = owner
        PROVE  next[d].frame \in {d, d + Ring} /\ Between(After(a), b, next[d].frame)
    <2>1. d # e /\ next[d] = ring[d]
      BY <1>4, <1>5
    <2>2. ring[d].frame \in {d, d + Ring} /\ Between(a, b, ring[d].frame)
      BY <1>5, <2>1 DEF Holds
    <2>3. ring[d].frame \in Frames /\ ring[d].frame # a
      BY <2>1, <2>2, FramesOf
    <2> QED
      BY <1>3, <2>1, <2>2, <2>3
  <1>6. ASSUME NEW d \in Descriptors, next[d].own # owner
        PROVE  ~Between(After(a), b, d) /\ ~Between(After(a), b, d + Ring)
    <2>1. CASE d = e
      <3> SUFFICES ASSUME NEW f \in {d, d + Ring}, Between(After(a), b, f)
                   PROVE  FALSE
        OBVIOUS
      <3>1. f \in Frames
        <4>1. d \in Frames /\ d + Ring \in Frames
          BY FramesOf
        <4> QED
          BY <4>1
      <3>2. Place(f) = e
        BY <2>1, <3>1, FramesOf
      <3>3. Between(a, b, f) /\ f # a
        BY <1>3, <3>1
      <3>4. Between(a, b, a)
        BY <1>2, BetweenFirst
      <3> QED
        BY <3>1, <3>2, <3>3, <3>4, OneEach
    <2>2. CASE d # e
      <3>1. ring[d].own # owner
        BY <1>6, <2>2
      <3> QED
        BY <1>3, <3>1, FramesOf DEF Holds
    <2> QED
      BY <2>1, <2>2
  <1>7. Holds(next, owner, After(a), b)
    BY <1>5, <1>6 DEF Holds
  <1> QED
    BY <1>2, <1>3, <1>7

LEMMA ReceiveInit == NetworkInit => ReceiveInv
  <1> SUFFICES ASSUME NetworkInit PROVE ReceiveInv
    OBVIOUS
  <1>1. 0 \in Frames /\ Place(0) = 0
    BY RingIsPositive, ZeroIsFrame DEF Place
  <1>2. DOMAIN recv = Descriptors /\ \A d \in Descriptors : recv[d].own # "driver"
    BY DEF NetworkInit
  <1>3. Fits(0, 0) /\ Holds(recv, "driver", 0, 0)
    BY <1>2, EmptyRing
  <1> QED
    BY <1>1, <1>2, <1>3 DEF NetworkInit, ReceiveInv, ReceiveRing

LEMMA HeadReceived ==
    ASSUME ReceiveRing, recv[currentRecvBuffer].own = "driver"
    PROVE  recv[currentRecvBuffer].frame = received /\ received # arrived
  <1>1. /\ arrived \in Frames /\ received \in Frames /\ currentRecvBuffer = Place(received)
        /\ Fits(received, arrived) /\ Holds(recv, "driver", received, arrived)
    BY DEF ReceiveRing
  <1>2. recv[Place(received)].own = "driver"
    BY <1>1
  <1> QED
    BY <1>1, <1>2, HeadOfRing

LEMMA ArriveKeeps ==
    ASSUME ReceiveInv, ArriveFrame
    PROVE  ReceiveInv'
  <1> DEFINE e == deviceRecv
  <1>1. /\ arrived \in Frames /\ received \in Frames /\ e = Place(arrived)
        /\ Fits(received, arrived) /\ DOMAIN recv = Descriptors
        /\ Holds(recv, "driver", received, arrived)
        /\ currentRecvBuffer = Place(received)
    BY DEF ReceiveInv, ReceiveRing
  <1>2. /\ recv[e].own = "device" /\ arrived' = After(arrived) /\ received' = received
        /\ recvMemory' = arrived /\ deviceRecv' = (e + 1) % Ring
        /\ currentRecvBuffer' = currentRecvBuffer /\ handlerAt' = handlerAt
    BY DEF ArriveFrame
  <1>3. /\ DOMAIN recv' = Descriptors /\ Fits(received, After(arrived))
        /\ Holds(recv', "driver", received, After(arrived))
    <2>1. recv' = [recv EXCEPT ![Place(arrived)] = [own |-> "driver", frame |-> arrived]]
      BY <1>1 DEF ArriveFrame
    <2>2. recv[Place(arrived)].own # "driver"
      BY <1>1, <1>2
    <2> QED
      BY <1>1, <2>1, <2>2, PutIn
  <1>4. After(arrived) \in Frames /\ Place(After(arrived)) = (e + 1) % Ring
    BY <1>1, PlaceAfter
  <1>5. currentRecvBuffer \in Descriptors
    BY <1>1, PlaceAfter
  <1>6. handlerAt' = "give back" => recv'[currentRecvBuffer].own = "driver"
    BY <1>1, <1>2, <1>5 DEF ArriveFrame, ReceiveInv
  <1>7. Holds(recv, "driver", received, arrived)' /\ Fits(received, arrived)'
    BY <1>2, <1>3 DEF Holds, Between, Fits
  <1> QED
    BY <1>1, <1>2, <1>3, <1>4, <1>6, <1>7 DEF ReceiveInv, ReceiveRing, Place, After

LEMMA GiveBackKeeps ==
    ASSUME ReceiveInv, GiveBack
    PROVE  ReceiveInv'
  <1> DEFINE e == currentRecvBuffer
  <1>1. /\ arrived \in Frames /\ received \in Frames /\ e = Place(received)
        /\ Fits(received, arrived) /\ DOMAIN recv = Descriptors
        /\ Holds(recv, "driver", received, arrived)
        /\ deviceRecv = Place(arrived) /\ recvMemory \in Frames
        /\ received # arrived => After(recvMemory) = arrived
        /\ recv[Place(received)].own = "driver"
    BY DEF ReceiveInv, ReceiveRing, GiveBack
  <1>2. /\ received' = After(received) /\ arrived' = arrived
        /\ recvMemory' = recvMemory /\ deviceRecv' = deviceRecv
        /\ currentRecvBuffer' = (e + 1) % Ring /\ handlerAt' = "receive"
    BY DEF GiveBack, AfterFrame, NextDescriptor
  <1>3. /\ DOMAIN recv' = Descriptors /\ received # arrived
        /\ Fits(After(received), arrived)
        /\ Holds(recv', "driver", After(received), arrived)
    <2>1. PICK free : free.own # "driver" /\ recv' = [recv EXCEPT ![Place(received)] = free]
      <3> DEFINE f == [own |-> "device", frame |-> 0]
      <3>1. f.own # "driver" /\ recv' = [recv EXCEPT ![Place(received)] = f]
        BY <1>1 DEF GiveBack
      <3> QED
        BY <3>1
    <2>2. recv[Place(received)].own = "driver"
      BY <1>1
    <2>3. /\ DOMAIN recv = Descriptors /\ arrived \in Frames /\ received \in Frames
          /\ Fits(received, arrived) /\ Holds(recv, "driver", received, arrived)
      BY <1>1
    <2>4. received # arrived
      BY <2>2, <2>3, HeadOfRing
    <2>5. Holds(recv', "driver", After(received), arrived)
      BY <2>1, <2>2, <2>3, TakeOut
    <2>6. DOMAIN recv' = Descriptors /\ Fits(After(received), arrived)
      BY <2>1, <2>3, <2>4, BetweenShrinks
    <2> QED
      BY <2>4, <2>5, <2>6
  <1>4. After(received) \in Frames /\ Place(After(received)) = (e + 1) % Ring
    BY <1>1, PlaceAfter
  <1>5. Holds(recv, "driver", received, arrived)' /\ Fits(received, arrived)'
    BY <1>2, <1>3 DEF Holds, Between, Fits
  <1> QED
    BY <1>1, <1>2, <1>3, <1>4, <1>5 DEF ReceiveInv, ReceiveRing, Place, After

LEMMA ReceiveStep == ReceiveInv /\ [NetworkNext]_networkVars => ReceiveInv'
  <1> SUFFICES ASSUME ReceiveInv, [NetworkNext]_networkVars PROVE ReceiveInv'
    OBVIOUS
  <1>1. CASE ArriveFrame
    BY <1>1, ArriveKeeps
  <1>2. CASE GiveBack
    BY <1>2, GiveBackKeeps
  <1>3. CASE ReceiveFrame
    BY <1>3 DEF ReceiveFrame, ReceiveInv, ReceiveRing
  <1>4. CASE ReadStatus \/ ReceiveEnds \/ AcknowledgeStatus
    BY <1>4 DEF ReadStatus, ReceiveEnds, AcknowledgeStatus, ReceiveInv, ReceiveRing
  <1>5. CASE UNCHANGED receiveVars
    BY <1>5 DEF receiveVars, ReceiveInv, ReceiveRing
  <1>6. MissFrame \/ TakeDescriptor \/ CopyFrame \/ HandOver \/ Transmit
            \/ UNCHANGED networkVars => UNCHANGED receiveVars
    BY DEF MissFrame, TakeDescriptor, CopyFrame, HandOver, Transmit, networkVars
  <1> QED
    BY <1>1, <1>2, <1>3, <1>4, <1>5, <1>6 DEF NetworkNext

\* For every size of the ring, however many frames come while the handler runs.
THEOREM ReceivedInOrderCorrect == NetworkSpec => ReceivedInOrder
  <1>1. ReceiveInv /\ [NetworkNext]_networkVars =>
            [handlerAt = "receive" /\ handlerAt' = "give back" =>
                /\ recv[currentRecvBuffer].frame = received
                /\ After(received) = arrived => recvMemory = received]_networkVars
    <2> SUFFICES ASSUME ReceiveInv, NetworkNext, handlerAt = "receive", handlerAt' = "give back"
                 PROVE  /\ recv[currentRecvBuffer].frame = received
                        /\ After(received) = arrived => recvMemory = received
      OBVIOUS
    <2>1. recv[currentRecvBuffer].own = "driver"
      BY DEF NetworkNext, ArriveFrame, MissFrame, ReadStatus, ReceiveFrame, GiveBack,
             ReceiveEnds, AcknowledgeStatus, TakeDescriptor, CopyFrame, HandOver, Transmit,
             receiveVars, AfterFrame
    <2>2. recv[currentRecvBuffer].frame = received /\ received # arrived
      BY <2>1, HeadReceived DEF ReceiveInv
    <2>3. received \in Frames /\ recvMemory \in Frames /\ After(recvMemory) = arrived
      BY <2>2 DEF ReceiveInv, ReceiveRing
    <2>4. After(received) = After(recvMemory) => recvMemory = received
      BY <2>3, AfterInjective
    <2> QED
      BY <2>2, <2>3, <2>4
  <1> QED
    BY <1>1, ReceiveInit, ReceiveStep, PTL DEF NetworkSpec, ReceivedInOrder

-----------------------------------------------------------------------------
\* The frames that Send has handed over: all that it was given but the one it is at.
HandedOver == IF senderAt = "idle" THEN given ELSE Previous(given)

\* What lies in the send ring: the device owns exactly the descriptors of the frames that
\* were handed over and not sent.  The memory of the ring holds the frame copied last.
SendRing ==
    /\ given \in Frames /\ sent \in Frames
    /\ Fits(sent, given)
    /\ deviceSend = Place(sent) /\ currentSendBuffer = Place(given)
    /\ senderAt # "idle" =>
          sent # given /\ sendDescriptor = Place(Previous(given))
    /\ senderAt # "copy" /\ sent # given => sendMemory = Previous(given)
    /\ DOMAIN send = Descriptors
    /\ Holds(send, "device", sent, HandedOver)

SendInv == overtaken \in BOOLEAN /\ (overtaken \/ SendRing)

LEMMA AfterMoves ==
    ASSUME NEW f \in Frames
    PROVE  After(f) # f /\ Previous(After(f)) = f
  <1> DEFINE m == 2 * Ring
  <1>1. m \in Nat \ {0} /\ m > 1 /\ f \in 0 .. m - 1
    BY RingIsPositive DEF Frames
  <1>2. After(f) = IF f = m - 1 THEN 0 ELSE f + 1
    BY AfterValue
  <1> HIDE DEF m
  <1>3. CASE f = m - 1
    <2>1. -1 \in -m .. -1
      BY <1>1
    <2>2. (-1) % m = -1 + m
      BY <1>1, <2>1, RemainderNegative
    <2> QED
      BY <1>1, <1>2, <1>3, <2>2 DEF m, Previous
  <1>4. CASE f # m - 1
    <2>1. f % m = f
      BY <1>1, RemainderBelow
    <2> QED
      BY <1>1, <1>2, <1>4, <2>1 DEF m, Previous
  <1> QED
    BY <1>3, <1>4

LEMMA PreviousValue ==
    ASSUME NEW f \in Frames
    PROVE  Previous(f) \in Frames /\ After(Previous(f)) = f
  <1> DEFINE g == IF f = 0 THEN 2 * Ring - 1 ELSE f - 1
  <1>1. g \in Frames /\ After(g) = f
    BY AfterValue, RingIsPositive DEF Frames
  <1>2. Previous(f) = g
    BY <1>1, AfterMoves
  <1> QED
    BY <1>1, <1>2

\* The frame that Send is at belongs behind those that it handed over before.
LEMMA BetweenBehind ==
    ASSUME NEW a \in Frames, NEW b \in Frames, Fits(a, After(b)), a # After(b)
    PROVE  Fits(a, b) /\ (a = b \/ Place(a) # Place(b))
  BY AfterValue, RingIsPositive DEF Frames, Fits, Place

\* A frame whose descriptor is taken already is a whole ring away.
LEMMA WholeRing ==
    ASSUME NEW a \in Frames, NEW b \in Frames, NEW f \in Frames,
           Fits(a, b), Between(a, b, f), Place(f) = Place(b)
    PROVE  (b - a) % (2 * Ring) = Ring
  <1>1. b - a = Ring \/ b - a = -Ring
    BY RingIsPositive DEF Frames, Fits, Between, Place
  <1> DEFINE m == 2 * Ring
  <1>2. m \in Nat \ {0} /\ Ring \in 0 .. m - 1 /\ -Ring \in -m .. -1 /\ -Ring + m = Ring
    BY RingIsPositive
  <1>3. Ring % m = Ring /\ (-Ring) % m = Ring
    BY <1>2, RemainderBelow, RemainderNegative
  <1> QED
    BY <1>1, <1>3

LEMMA SendInit == NetworkInit => SendInv
  <1> SUFFICES ASSUME NetworkInit PROVE SendInv
    OBVIOUS
  <1>1. 0 \in Frames /\ Place(0) = 0
    BY RingIsPositive, ZeroIsFrame DEF Place
  <1>2. DOMAIN send = Descriptors /\ \A d \in Descriptors : send[d].own # "device"
    BY DEF NetworkInit
  <1>3. Fits(0, 0) /\ Holds(send, "device", 0, 0)
    BY <1>2, EmptyRing
  <1> QED
    BY <1>1, <1>2, <1>3 DEF NetworkInit, SendInv, SendRing, HandedOver

\* What the ring is when Send takes a descriptor: its own, or that of the oldest frame.
LEMMA TakeKeeps ==
    ASSUME SendRing, TakeDescriptor, ~overtaken, overtaken \in BOOLEAN
    PROVE  /\ ~overtaken' => SendRing'
           /\ overtaken' => UnderWay = Ring
  <1> DEFINE e == currentSendBuffer
  <1>1. /\ given \in Frames /\ sent \in Frames /\ Fits(sent, given)
        /\ deviceSend = Place(sent) /\ e = Place(given) /\ DOMAIN send = Descriptors
        /\ senderAt = "idle" /\ Holds(send, "device", sent, given)
    BY DEF SendRing, TakeDescriptor, HandedOver
  <1>2. /\ sendDescriptor' = e /\ currentSendBuffer' = (e + 1) % Ring
        /\ send' = [send EXCEPT ![e].own = send[e].own]
        /\ overtaken' <=> send[e].own = "device"
        /\ given' = IF overtaken' THEN given ELSE After(given)
        /\ senderAt' = "copy" /\ sent' = sent /\ deviceSend' = deviceSend
    BY DEF TakeDescriptor, OwnerWhenTaken
  <1>3. e \in Descriptors
    BY <1>1, PlaceAfter
  <1>4. ASSUME overtaken' PROVE UnderWay = Ring
    <2> DEFINE f == send[e].frame
    <2>1. f \in {e, e + Ring} /\ Between(sent, given, f)
      BY <1>1, <1>2, <1>3, <1>4 DEF Holds
    <2>2. f \in Frames /\ Place(f) = Place(given)
      BY <1>1, <1>3, <2>1, FramesOf
    <2> QED
      BY <1>1, <2>1, <2>2, WholeRing DEF UnderWay
  <1>5. ASSUME ~overtaken' PROVE SendRing'
    <2>1. send[e].own # "device" /\ given' = After(given)
      BY <1>2, <1>5
    <2>2. Fits(sent, After(given)) /\ sent # After(given)
      BY <1>1, <2>1, PutIn
    <2>3. /\ After(given) \in Frames /\ Place(After(given)) = (e + 1) % Ring
          /\ Previous(After(given)) = given
      BY <1>1, PlaceAfter, AfterMoves
    <2>4. /\ DOMAIN send' = Descriptors
          /\ \A d \in Descriptors : send'[d].own = send[d].own /\ send'[d].frame = send[d].frame
      BY <1>1, <1>2
    <2>5. HandedOver' = given
      BY <1>2, <2>1, <2>3 DEF HandedOver, Previous
    <2>6. Holds(send', "device", sent, given)
      BY <1>1, <2>4 DEF Holds
    <2>7. Holds(send, "device", sent, HandedOver)'
      BY <1>2, <2>5, <2>6 DEF Holds, Between
    <2> QED
      BY <1>1, <1>2, <2>1, <2>2, <2>3, <2>4, <2>7 DEF SendRing, Fits, Place, Previous
  <1> QED
    BY <1>4, <1>5

LEMMA HandOverKeeps ==
    ASSUME SendRing, HandOver
    PROVE  SendRing'
  <1> DEFINE last == Previous(given)
  <1>1. /\ given \in Frames /\ sent \in Frames /\ Fits(sent, given) /\ sent # given
        /\ sendDescriptor = Place(last) /\ DOMAIN send = Descriptors
        /\ Holds(send, "device", sent, last) /\ sendMemory = last
        /\ deviceSend = Place(sent) /\ currentSendBuffer = Place(given)
    BY DEF SendRing, HandOver, HandedOver
  <1>2. /\ send' = [send EXCEPT ![sendDescriptor] = [own |-> "device", frame |-> last]]
        /\ senderAt' = "idle" /\ UNCHANGED <<given, sent, sendMemory, deviceSend, currentSendBuffer>>
    BY DEF HandOver
  <1>3. last \in Frames /\ After(last) = given
    BY <1>1, PreviousValue
  <1>4. Fits(sent, last) /\ (sent = last \/ Place(sent) # Place(last))
    BY <1>1, <1>3, BetweenBehind
  <1>5. Place(last) \in Descriptors
    BY <1>3, PlaceAfter
  <1>6. send[Place(last)].own # "device"
    <2> SUFFICES ASSUME send[Place(last)].own = "device" PROVE FALSE
      OBVIOUS
    <2> DEFINE f == send[Place(last)].frame
    <2>1. f \in {Place(last), Place(last) + Ring} /\ Between(sent, last, f)
      BY <1>1, <1>5 DEF Holds
    <2>2. f \in Frames /\ Place(f) = Place(last)
      BY <1>5, <2>1, FramesOf
    <2>3. Between(sent, After(last), f) /\ Between(sent, After(last), last) /\ f # last
      BY <1>3, <1>4, <1>1, <2>1, <2>2, BetweenGrows DEF Between, Frames
    <2> QED
      BY <1>1, <1>3, <2>2, <2>3, OneEach
  <1>7. /\ DOMAIN send' = Descriptors
        /\ Holds(send', "device", sent, After(last))
    <2>1. send' = [send EXCEPT ![Place(last)] = [own |-> "device", frame |-> last]]
      BY <1>1, <1>2
    <2> HIDE DEF last
    <2> QED
      BY <1>1, <1>3, <1>4, <1>6, <2>1, PutIn
  <1>8. HandedOver' = given
    BY <1>2 DEF HandedOver
  <1>9. Holds(send, "device", sent, HandedOver)'
    BY <1>2, <1>3, <1>7, <1>8 DEF Holds, Between
  <1> QED
    BY <1>1, <1>2, <1>7, <1>9 DEF SendRing, Fits, Place, Previous

\* What the device finds in the descriptor that it sends.
LEMMA SendsHead ==
    ASSUME SendRing, Transmit
    PROVE  /\ sent # HandedOver /\ sent # given
           /\ send[deviceSend].frame = sent
           /\ After(sent) = given => sendMemory = sent
           /\ Fits(sent, HandedOver) /\ HandedOver \in Frames
           /\ senderAt # "idle" => After(sent) # given
  <1>1. /\ given \in Frames /\ sent \in Frames /\ Fits(sent, given)
        /\ deviceSend = Place(sent) /\ Holds(send, "device", sent, HandedOver)
        /\ senderAt # "idle" => sent # given
        /\ senderAt # "copy" /\ sent # given => sendMemory = Previous(given)
    BY DEF SendRing
  <1>2. Previous(given) \in Frames /\ After(Previous(given)) = given
    BY <1>1, PreviousValue
  <1>3. Fits(sent, HandedOver) /\ HandedOver \in Frames
    <2>1. CASE senderAt = "idle"
      BY <1>1, <2>1 DEF HandedOver
    <2>2. CASE senderAt # "idle"
      BY <1>1, <1>2, <2>2, BetweenBehind DEF HandedOver
    <2> QED
      BY <2>1, <2>2
  <1>4. send[Place(sent)].own = "device"
    BY <1>1 DEF Transmit
  <1>5. send[deviceSend].frame = sent /\ sent # HandedOver
    BY <1>1, <1>3, <1>4, HeadOfRing
  <1>6. senderAt # "idle" => After(sent) # given
    BY <1>1, <1>2, <1>5, AfterInjective DEF HandedOver
  <1>7. sent # given
    BY <1>1, <1>5 DEF HandedOver
  <1>8. After(sent) = given => sendMemory = sent
    BY <1>1, <1>6, <1>7, AfterMoves
  <1> QED
    BY <1>3, <1>5, <1>6, <1>7, <1>8

LEMMA TransmitKeeps ==
    ASSUME SendRing, Transmit, ~overtaken
    PROVE  SendRing'
  <1> DEFINE other == [send[deviceSend] EXCEPT !.own = "driver"]
  <1>1. /\ given \in Frames /\ sent \in Frames /\ deviceSend = Place(sent)
        /\ currentSendBuffer = Place(given) /\ DOMAIN send = Descriptors
        /\ Holds(send, "device", sent, HandedOver)
        /\ senderAt # "idle" => sendDescriptor = Place(Previous(given))
        /\ senderAt # "copy" /\ sent # given => sendMemory = Previous(given)
        /\ Fits(sent, given)
    BY DEF SendRing
  <1>2. /\ sent # HandedOver /\ sent # given /\ Fits(sent, HandedOver) /\ HandedOver \in Frames
        /\ senderAt # "idle" => After(sent) # given
    BY SendsHead
  <1>3. /\ send[Place(sent)].own = "device" /\ send' = [send EXCEPT ![Place(sent)] = other]
        /\ deviceSend' = (deviceSend + 1) % Ring /\ sent' = After(sent)
        /\ UNCHANGED <<given, senderAt, sendDescriptor, sendMemory, currentSendBuffer>>
    BY <1>1 DEF Transmit
  <1>4. Place(sent) \in Descriptors /\ After(sent) \in Frames
        /\ Place(After(sent)) = (deviceSend + 1) % Ring
    BY <1>1, PlaceAfter
  <1>5. other.own # "device"
    <2>1. send[deviceSend].own = "device" /\ deviceSend \in Descriptors
      BY <1>1, <1>3, <1>4
    <2> QED
      BY <2>1
  <1>6. DOMAIN send' = Descriptors /\ Holds(send', "device", After(sent), HandedOver)
    <2> HIDE DEF other
    <2> QED
      BY <1>1, <1>2, <1>3, <1>5, TakeOut
  <1>7. Fits(After(sent), given)
    BY <1>1, <1>2, BetweenShrinks
  <1>8. HandedOver' = HandedOver
    BY <1>3 DEF HandedOver, Previous
  <1>9. Holds(send, "device", sent, HandedOver)'
    BY <1>3, <1>6, <1>8 DEF Holds, Between
  <1> QED
    BY <1>1, <1>2, <1>3, <1>4, <1>6, <1>7, <1>9 DEF SendRing, Fits, Place, Previous, After

LEMMA SendStep == SendInv /\ [NetworkNext]_networkVars => SendInv'
  <1> SUFFICES ASSUME SendInv, [NetworkNext]_networkVars PROVE SendInv'
    OBVIOUS
  <1>1. overtaken \in BOOLEAN /\ (overtaken \/ SendRing)
    BY DEF SendInv
  <1>2. CASE TakeDescriptor
    <2>1. overtaken' \in BOOLEAN /\ (overtaken => overtaken')
      BY <1>1, <1>2 DEF TakeDescriptor
    <2>2. overtaken \/ overtaken' \/ SendRing'
      BY <1>1, <1>2, TakeKeeps
    <2> QED
      BY <2>1, <2>2 DEF SendInv
  <1>3. CASE CopyFrame
    <2>1. overtaken' = overtaken
      BY <1>3 DEF CopyFrame
    <2>2. SendRing => SendRing'
      <3> SUFFICES ASSUME SendRing PROVE SendRing'
        OBVIOUS
      <3>1. HandedOver' = HandedOver
        BY <1>3 DEF CopyFrame, HandedOver, Previous
      <3>2. Holds(send, "device", sent, HandedOver)'
        BY <1>3, <3>1 DEF SendRing, CopyFrame, Holds, Between
      <3> QED
        BY <1>3, <3>2 DEF SendRing, CopyFrame, Fits, Place, Previous
    <2> QED
      BY <1>1, <2>1, <2>2 DEF SendInv
  <1>4. CASE HandOver
    BY <1>1, <1>4, HandOverKeeps DEF HandOver, SendInv
  <1>5. CASE Transmit
    BY <1>1, <1>5, TransmitKeeps DEF Transmit, SendInv
  <1>6. CASE UNCHANGED sendVars
    BY <1>6 DEF sendVars, SendInv, SendRing, HandedOver, Holds, Between, Fits, Place, Previous
  <1>7. ArriveFrame \/ MissFrame \/ ReadStatus \/ ReceiveFrame \/ GiveBack \/ ReceiveEnds
            \/ AcknowledgeStatus \/ UNCHANGED networkVars => UNCHANGED sendVars
    BY DEF ArriveFrame, MissFrame, ReadStatus, ReceiveFrame, GiveBack, ReceiveEnds,
           AcknowledgeStatus, networkVars
  <1> QED
    BY <1>2, <1>3, <1>4, <1>5, <1>6, <1>7 DEF NetworkNext

\* For every size of the ring and any number of calls: the frames leave in order until
\* Send overtakes the device, which takes a whole ring under way.
THEOREM SentInOrderCorrect == NetworkSpec => SentInOrder
  <1>1. SendInv /\ [NetworkNext]_networkVars =>
            [/\ sent' # sent =>
                  /\ send[deviceSend].frame = sent
                  /\ After(sent) = given => sendMemory = sent
             /\ overtaken' # overtaken => UnderWay = Ring]_networkVars
    <2> SUFFICES ASSUME SendInv, NetworkNext
                 PROVE  /\ sent' # sent =>
                             /\ send[deviceSend].frame = sent
                             /\ After(sent) = given => sendMemory = sent
                        /\ overtaken' # overtaken => UnderWay = Ring
      OBVIOUS
    <2>1. ASSUME sent' # sent
          PROVE  /\ send[deviceSend].frame = sent
                 /\ After(sent) = given => sendMemory = sent
      <3>1. Transmit /\ ~overtaken
        BY <2>1 DEF NetworkNext, ArriveFrame, MissFrame, ReadStatus, ReceiveFrame, GiveBack,
               ReceiveEnds, AcknowledgeStatus, TakeDescriptor, CopyFrame, HandOver, Transmit,
               sendVars
      <3> QED
        BY <3>1, SendsHead DEF SendInv
    <2>2. ASSUME overtaken' # overtaken PROVE UnderWay = Ring
      <3>1. TakeDescriptor
        BY <2>2 DEF NetworkNext, ArriveFrame, MissFrame, ReadStatus, ReceiveFrame, GiveBack,
               ReceiveEnds, AcknowledgeStatus, CopyFrame, HandOver, Transmit, sendVars
      <3>2. overtaken \in BOOLEAN /\ overtaken' \in BOOLEAN /\ (overtaken => overtaken')
        BY <3>1 DEF TakeDescriptor, SendInv
      <3>3. ~overtaken /\ overtaken' /\ SendRing
        BY <2>2, <3>2 DEF SendInv
      <3> QED
        BY <3>1, <3>2, <3>3, TakeKeeps
    <2> QED
      BY <2>1, <2>2
  <1> QED
    BY <1>1, SendInit, SendStep, PTL DEF NetworkSpec, SentInOrder

-----------------------------------------------------------------------------
(* The disk: numbers to a base.                                              *)

Digits == 0 .. Radix - 1

LEMMA RadixIs == Radix \in Nat /\ Radix > 1
BY DiskAssumption

LEMMA ProductNat == \A a, b \in Nat : a * b \in Nat
BY Z3

\* a * Radix + d has the last digit d and the digits of a before it.
LEMMA Push ==
    ASSUME NEW a \in Nat, NEW d \in Digits, NEW b \in Nat, NEW e \in Digits
    PROVE  /\ a * Radix + d \in Nat
           /\ a < b => a * Radix + d < b * Radix
           /\ a * Radix + d = b * Radix + e => a = b /\ d = e
<1> DEFINE R == Radix
<1>1. R \in Nat /\ R > 1 /\ d \in 0 .. R - 1 /\ e \in 0 .. R - 1
  BY RadixIs DEF Digits
<1> HIDE DEF R
<1>2. a * R \in Nat /\ b * R \in Nat
  BY <1>1, ProductNat
<1>3. ASSUME NEW x \in Nat, NEW y \in Nat, x < y PROVE x * R + R <= y * R
  BY <1>1, <1>3, Z3
<1>4. a < b => a * R + R <= b * R
  BY <1>3
<1>5. b < a => b * R + R <= a * R
  BY <1>3
<1> QED
  BY <1>1, <1>2, <1>4, <1>5 DEF R

\* Dividing by Radix takes the last digit off.
LEMMA Pop ==
    ASSUME NEW n \in Nat
    PROVE  Group(n) \in Nat /\ n % Radix \in Digits /\ n = Group(n) * Radix + (n % Radix)
<1> DEFINE R == Radix
<1>1. R \in Nat /\ R > 1
  BY RadixIs
<1> HIDE DEF R
<1>2. n % R \in 0 .. R - 1
  BY <1>1, Z3
<1>3. n \div R \in Nat
  BY <1>1, Z3
<1>4. n = R * (n \div R) + (n % R)
  BY <1>1, Z3
<1>5. \A u, v \in Nat : u * v = v * u
  BY Z3
<1>6. R * (n \div R) = (n \div R) * R
  BY <1>1, <1>3, <1>5
<1> QED
  BY <1>2, <1>3, <1>4, <1>6 DEF R, Group, Digits

LEMMA Shorter ==
    ASSUME NEW n \in Nat, NEW b \in Nat, n < b * Radix
    PROVE  Group(n) < b
<1> DEFINE q == Group(n)
           d == n % Radix
           qR == q * Radix
           bR == b * Radix
<1>1. q \in Nat /\ d \in Digits /\ n = qR + d
  BY Pop
<1>2. 0 \in Digits
  BY RadixIs DEF Digits
<1> HIDE DEF q, d
<1>3. b < q => bR + 0 < qR
  BY <1>1, <1>2, Push
<1>4. b = q => bR = qR
  OBVIOUS
<1>5. bR \in Nat /\ qR \in Nat
  BY <1>1, RadixIs, ProductNat
<1>6. d \in Nat
  BY <1>1, RadixIs DEF Digits
<1>7. n < bR
  OBVIOUS
<1> HIDE DEF bR, qR
<1>8. q < b
  BY <1>1, <1>3, <1>4, <1>5, <1>6, <1>7
<1> QED
  BY <1>8 DEF q

\* The sector the drive is given for a number, once the high register is zero.
SectorOf(n) == ((Digit(n, 3) * Radix + 0) * Radix + Digit(n, 1)) * Radix + Digit(n, 2)

LEMMA DigitsAre ==
    ASSUME NEW n \in 0 .. Capacity - 1
    PROVE  /\ Digit(n, 1) \in Digits /\ Digit(n, 2) \in Digits /\ Digit(n, 3) \in Digits
           /\ Group(n) \in Nat
           /\ Group(n) = (Digit(n, 3) * Radix + Digit(n, 2)) * Radix + Digit(n, 1)
<1> DEFINE a == Group(n)
           b == Group(a)
           c == Group(b)
           R2 == Radix * Radix
           R3 == R2 * Radix
<1>1. Digit(n, 1) = a % Radix /\ Digit(n, 2) = b % Radix /\ Digit(n, 3) = c % Radix
  BY DEF Digit
<1>2. R2 \in Nat /\ R3 \in Nat /\ Capacity = R3 * Radix /\ Capacity \in Nat
  <2>1. R2 \in Nat
    BY RadixIs, ProductNat
  <2>2. R3 \in Nat
    BY <2>1, RadixIs, ProductNat
  <2>3. R3 * Radix \in Nat
    BY <2>2, RadixIs, ProductNat
  <2> QED
    BY <2>1, <2>2, <2>3 DEF Capacity
<1> HIDE DEF R3
<1>3. a \in Nat /\ a < R3
  BY <1>2, Pop, Shorter
<1> HIDE DEF a
<1>4. b \in Nat /\ b < R2 /\ a % Radix \in Digits /\ a = b * Radix + (a % Radix)
  BY <1>2, <1>3, Pop, Shorter DEF R3
<1> HIDE DEF b, R2
<1>5. c \in Nat /\ c < Radix /\ b % Radix \in Digits /\ b = c * Radix + (b % Radix)
  BY <1>2, <1>4, Pop, Shorter, RadixIs DEF R2
<1> HIDE DEF c
<1>6. c % Radix = c /\ c \in Digits
  BY <1>5, RadixIs, Z3 DEF Digits
<1> QED
  BY <1>1, <1>3, <1>4, <1>5, <1>6 DEF a
\* The drive is given a sector of its own for every group.
LEMMA GroupsApart ==
    ASSUME NEW n \in 0 .. Capacity - 1, NEW m \in 0 .. Capacity - 1
    PROVE  SectorOf(n) = SectorOf(m) <=> Group(n) = Group(m)
<1> DEFINE n1 == Digit(n, 1)   m1 == Digit(m, 1)
           n2 == Digit(n, 2)   m2 == Digit(m, 2)
           n3 == Digit(n, 3)   m3 == Digit(m, 3)
<1>1. /\ n1 \in Digits /\ n2 \in Digits /\ n3 \in Digits
      /\ m1 \in Digits /\ m2 \in Digits /\ m3 \in Digits
      /\ Group(n) = (n3 * Radix + n2) * Radix + n1
      /\ Group(m) = (m3 * Radix + m2) * Radix + m1
  BY DigitsAre
<1>2. /\ SectorOf(n) = ((n3 * Radix + 0) * Radix + n1) * Radix + n2
      /\ SectorOf(m) = ((m3 * Radix + 0) * Radix + m1) * Radix + m2
  BY DEF SectorOf
<1> HIDE DEF n1, n2, n3, m1, m2, m3
<1>3. n3 \in Nat /\ m3 \in Nat /\ 0 \in Digits
  BY <1>1, RadixIs DEF Digits
<1>4. /\ n3 * Radix + 0 \in Nat /\ m3 * Radix + 0 \in Nat
      /\ n3 * Radix + n2 \in Nat /\ m3 * Radix + m2 \in Nat
  BY <1>1, <1>3, Push
<1>5. /\ (n3 * Radix + 0) * Radix + n1 \in Nat /\ (m3 * Radix + 0) * Radix + m1 \in Nat
  BY <1>1, <1>4, Push
<1>6. ASSUME SectorOf(n) = SectorOf(m) PROVE Group(n) = Group(m)
  <2>1. (n3 * Radix + 0) * Radix + n1 = (m3 * Radix + 0) * Radix + m1 /\ n2 = m2
    BY <1>1, <1>2, <1>5, <1>6, Push
  <2>2. n3 * Radix + 0 = m3 * Radix + 0 /\ n1 = m1
    BY <1>1, <1>4, <2>1, Push
  <2>3. n3 = m3
    BY <1>3, <2>2, Push
  <2> QED
    BY <1>1, <2>1, <2>2, <2>3
<1>7. ASSUME Group(n) = Group(m) PROVE SectorOf(n) = SectorOf(m)
  <2>1. n3 * Radix + n2 = m3 * Radix + m2 /\ n1 = m1
    BY <1>1, <1>4, <1>7, Push
  <2>2. n3 = m3 /\ n2 = m2
    BY <1>1, <1>3, <2>1, Push
  <2> QED
    BY <1>2, <2>1, <2>2
<1> QED
  BY <1>6, <1>7

LEMMA SectorOnDisk ==
    ASSUME NEW n \in 0 .. Capacity - 1
    PROVE  SectorOf(n) \in 0 .. Capacity - 1
<1> DEFINE d1 == Digit(n, 1)
           d2 == Digit(n, 2)
           d3 == Digit(n, 3)
           x == d3 * Radix + 0
           y == x * Radix + d1
           R2 == Radix * Radix
           R3 == R2 * Radix
<1>1. d1 \in Digits /\ d2 \in Digits /\ d3 \in Digits /\ 0 \in Digits
  BY DigitsAre, RadixIs DEF Digits
<1>2. d3 \in Nat /\ d3 < Radix
  BY <1>1, RadixIs DEF Digits
<1>3. SectorOf(n) = y * Radix + d2 /\ Capacity = R3 * Radix
  BY DEF SectorOf, Capacity
<1> HIDE DEF d1, d2, d3
<1>4. x \in Nat /\ x < R2 /\ R2 \in Nat
  BY <1>1, <1>2, RadixIs, Push, ProductNat
<1> HIDE DEF x, R2
<1>5. y \in Nat /\ y < R3 /\ R3 \in Nat
  BY <1>1, <1>4, RadixIs, Push, ProductNat
<1> HIDE DEF y, R3
<1>6. y * Radix + d2 \in Nat /\ y * Radix + d2 < R3 * Radix /\ R3 * Radix \in Nat
  BY <1>1, <1>5, RadixIs, Push, ProductNat
<1> QED
  BY <1>3, <1>6

\* Every count moves the words of one sector.
LEMMA OneSector == \A count \in Counts : Moved(count) = Words
<1> SUFFICES ASSUME NEW count \in Counts PROVE Moved(count) = Words
  OBVIOUS
<1>1. count \in Nat /\ count <= 2 * Words /\ Words \in Nat /\ Words > 0
  BY DiskAssumption
<1> QED
  BY <1>1, Z3 DEF Moved, Steps

-----------------------------------------------------------------------------
(* The disk: what every call leaves behind.                                  *)

DiskTypeOK ==
    /\ disk = [s \in 0 .. Capacity - 1 |-> disk[s]]
    /\ written = [g \in {Group(n) : n \in Sectors} |-> written[g]]
    /\ status \in {"ready", "busy", "error"}
    /\ call = [op |-> call.op, sector |-> call.sector, data |-> call.data]

\* The drive has for every sector what was written to its group.
DriveHolds == \A n \in Sectors : disk[SectorOf(n)] = written[Group(n)]

\* What a call has set up until it ends.
CallUnderWay ==
    /\ status # "busy" => storing = Nothing
    /\ call.op # "start" => high = 0
    /\ \/ call.op \in {"start", "none"} /\ status # "busy" /\ expected = 0
       \/ call.op = "identify" /\ storing = Nothing /\ expected = Words
       \/ /\ call.op = "read" /\ storing = Nothing /\ expected = Words
          /\ call.sector \in Sectors /\ target = SectorOf(call.sector)
          /\ call.data[2] \in Counts
       \/ /\ call.op \in {"written", "flush"} /\ expected = 0
          /\ call.sector \in Sectors /\ target = SectorOf(call.sector)

DiskInv == DiskTypeOK /\ DriveHolds /\ CallUnderWay

LEMMA SectorFacts ==
    \A n \in Sectors : /\ n \in 0 .. Capacity - 1
                       /\ SectorOf(n) \in 0 .. Capacity - 1
                       /\ Group(n) \in {Group(m) : m \in Sectors}
BY SectorOnDisk, DiskAssumption

LEMMA DiskStart == DiskInit => DiskInv
<1> SUFFICES ASSUME DiskInit PROVE DiskInv
  OBVIOUS
<1>1. DiskTypeOK
  BY DEF DiskInit, DiskTypeOK, Idle
<1>2. DriveHolds
  BY SectorFacts DEF DiskInit, DriveHolds
<1>3. CallUnderWay
  BY DEF DiskInit, CallUnderWay, Idle
<1> QED
  BY <1>1, <1>2, <1>3 DEF DiskInv

LEMMA CompleteKeeps ==
    ASSUME DiskInv, Complete
    PROVE  DiskInv'
<1> USE DEF DiskInv, DiskTypeOK
<1>1. /\ status = "busy" /\ status' \in {"ready", "error"} /\ storing' = Nothing
      /\ UNCHANGED <<low, mid, high, head, target, expected, call, answer>>
  BY DEF Complete
<1>2. CallUnderWay'
  BY <1>1 DEF CallUnderWay
<1>3. CASE UNCHANGED <<disk, written>>
  BY <1>1, <1>2, <1>3 DEF DriveHolds
<1>4. CASE /\ storing # Nothing
           /\ disk' = [disk EXCEPT ![target] = storing]
           /\ written' = [written EXCEPT ![Group(call.sector)] = storing]
  <2>1. call.sector \in Sectors /\ target = SectorOf(call.sector)
    BY <1>1, <1>4 DEF CallUnderWay
  <2>2. ASSUME NEW n \in Sectors PROVE disk'[SectorOf(n)] = written'[Group(n)]
    <3>1. SectorOf(n) = target <=> Group(n) = Group(call.sector)
      BY <2>1, SectorFacts, GroupsApart
    <3>2. /\ target \in 0 .. Capacity - 1 /\ SectorOf(n) \in 0 .. Capacity - 1
          /\ Group(n) \in {Group(m) : m \in Sectors}
          /\ Group(call.sector) \in {Group(m) : m \in Sectors}
      BY <2>1, SectorFacts
    <3>3. disk[SectorOf(n)] = written[Group(n)]
      BY DEF DriveHolds
    <3> QED
      BY <1>4, <3>1, <3>2, <3>3
  <2>3. DriveHolds'
    BY <2>2 DEF DriveHolds
  <2>4. DiskTypeOK'
    BY <1>1, <1>4
  <2> QED
    BY <1>2, <2>3, <2>4
<1> QED
  BY <1>3, <1>4 DEF Complete

\* A call that begins a command leaves the content of the drive alone.
LEMMA CommandKeeps ==
    ASSUME DiskInv, UNCHANGED <<disk, written>>, status' \in {"ready", "busy", "error"},
           call' = [op |-> call'.op, sector |-> call'.sector, data |-> call'.data],
           CallUnderWay'
    PROVE  DiskInv'
BY DEF DiskInv, DiskTypeOK, DriveHolds

LEMMA IdentifyKeeps ==
    ASSUME DiskInv, Identify
    PROVE  DiskInv'
<1>1. CallUnderWay'
  BY DEF DiskInv, DiskTypeOK, CallUnderWay, Identify, Idle
<1> QED
  BY <1>1, CommandKeeps DEF Identify, Idle

LEMMA ReadKeeps ==
    ASSUME DiskInv, NEW n \in Sectors, NEW count \in Counts, Read28(n, count)
    PROVE  DiskInv'
<1>1. call.op = "none"
  BY DEF Read28
<1>2. high = 0 /\ storing = Nothing
  BY <1>1 DEF DiskInv, CallUnderWay
<1>3. /\ call' = [op |-> "read", sector |-> n, data |-> <<0, count>>]
      /\ status' = "busy" /\ expected' = Words /\ high' = high
      /\ target' = SectorOf(n)
      /\ UNCHANGED <<storing, disk, written>>
  BY <1>2 DEF Read28, SetRegisters, Addressed, SectorOf
<1>4. CallUnderWay'
  BY <1>2, <1>3 DEF CallUnderWay
<1> QED
  BY <1>3, <1>4, CommandKeeps

LEMMA WriteKeeps ==
    ASSUME DiskInv, NEW n \in Sectors, NEW count \in Counts, NEW byte \in Data,
           Write28(n, byte, count)
    PROVE  DiskInv'
<1>1. call.op = "none"
  BY DEF Write28
<1>2. high = 0
  BY <1>1 DEF DiskInv, CallUnderWay
<1>3. /\ call' = [op |-> "written", sector |-> n, data |-> <<byte, count>>]
      /\ status' = "busy" /\ expected' = Words - Moved(count) /\ high' = high
      /\ target' = SectorOf(n)
      /\ UNCHANGED <<disk, written>>
  BY <1>2 DEF Write28, WriteRegisters, SetRegisters, Addressed, SectorOf
<1>4. expected' = 0
  BY <1>3, OneSector, DiskAssumption
<1>5. CallUnderWay'
  BY <1>2, <1>3, <1>4 DEF CallUnderWay
<1> QED
  BY <1>3, <1>5, CommandKeeps

LEMMA FlushKeeps ==
    ASSUME DiskInv, Flush
    PROVE  DiskInv'
<1>1. call' = [op |-> "flush", sector |-> call.sector, data |-> call.data]
  BY DEF DiskInv, DiskTypeOK, Flush
<1>2. /\ call.op = "written"
      /\ UNCHANGED <<high, target, status, storing, disk, expected, written>>
  BY DEF Flush
<1>3. CallUnderWay'
  BY <1>1, <1>2 DEF DiskInv, CallUnderWay
<1> QED
  BY <1>1, <1>2, <1>3, CommandKeeps DEF DiskInv, DiskTypeOK

\* The end of a call: one sector of words has been moved.
LEMMA PolledMoves ==
    ASSUME DiskInv, Polled
    PROVE  expected' = 0
<1>1. Words \in Nat
  BY DiskAssumption
<1>2. CASE call.op = "flush"
  BY <1>2 DEF DiskInv, CallUnderWay, Polled
<1>3. CASE call.op = "identify"
  BY <1>1, <1>3 DEF DiskInv, CallUnderWay, Polled
<1>4. CASE call.op = "read"
  <2>1. expected = Words /\ Moved(call.data[2]) = Words
    BY <1>4, OneSector DEF DiskInv, CallUnderWay
  <2> QED
    BY <1>1, <1>4, <2>1 DEF Polled
<1> QED
  BY <1>2, <1>3, <1>4 DEF Polled

LEMMA PolledKeeps ==
    ASSUME DiskInv, Polled
    PROVE  DiskInv'
<1>1. expected' = 0
  BY PolledMoves
<1>2. /\ call' = [op |-> "none", sector |-> 0, data |-> Nothing]
      /\ status # "busy" /\ status' = "ready" /\ call.op # "start"
      /\ UNCHANGED <<high, storing, disk, written>>
  BY DEF Polled, Idle
<1>3. CallUnderWay'
  BY <1>1, <1>2 DEF DiskInv, CallUnderWay
<1> QED
  BY <1>2, <1>3, CommandKeeps

LEMMA DiskStep == DiskInv /\ [DiskNext]_diskVars => DiskInv'
<1> SUFFICES ASSUME DiskInv, [DiskNext]_diskVars PROVE DiskInv'
  OBVIOUS
<1>1. CASE UNCHANGED diskVars
  BY <1>1 DEF diskVars, DiskInv, DiskTypeOK, DriveHolds, CallUnderWay
<1>2. CASE Complete \/ Identify \/ Flush \/ Polled
  BY <1>2, CompleteKeeps, IdentifyKeeps, FlushKeeps, PolledKeeps
<1>3. ASSUME NEW n \in Sectors, NEW count \in Counts,
             Read28(n, count) \/ \E byte \in Data : Write28(n, byte, count)
      PROVE  DiskInv'
  BY <1>3, ReadKeeps, WriteKeeps
<1> QED
  BY <1>1, <1>2, <1>3 DEF DiskNext

\* Only the polling loops end a call.
LEMMA CallEnds ==
    ASSUME DiskInv, [DiskNext]_diskVars,
           call.op \in {"identify", "read", "flush"}, call'.op = "none"
    PROVE  Polled
<1>1. ~Complete
  BY DEF Complete
<1>2. ~Identify /\ ~Flush
  BY DEF Identify, Flush
<1>3. ~\E n \in Sectors, count \in Counts :
          Read28(n, count) \/ \E byte \in Data : Write28(n, byte, count)
  BY DEF Read28, Write28
<1>4. ~UNCHANGED diskVars
  BY DEF diskVars
<1> QED
  BY <1>1, <1>2, <1>3, <1>4 DEF DiskNext

\* A sector reads back as what was last written to its group, and every call moves
\* one sector of words: for every radix, every sector number and every count.
THEOREM SectorsCorrect == DiskSpec => SectorsReadBack
<1> DEFINE Ends == call.op \in {"identify", "read", "flush"} /\ call'.op = "none" =>
          /\ expected' = 0
          /\ call.op = "read" /\ status # "error" => answer' = written[Group(call.sector)]
<1>1. DiskInv /\ [DiskNext]_diskVars => [Ends]_diskVars
  <2> SUFFICES ASSUME DiskInv, [DiskNext]_diskVars,
                      call.op \in {"identify", "read", "flush"}, call'.op = "none"
               PROVE  /\ expected' = 0
                      /\ call.op = "read" /\ status # "error"
                            => answer' = written[Group(call.sector)]
    OBVIOUS
  <2>1. Polled
    BY CallEnds
  <2>2. expected' = 0
    BY <2>1, PolledMoves
  <2>3. ASSUME call.op = "read", status # "error"
        PROVE  answer' = written[Group(call.sector)]
    <3>1. answer' = disk[target]
      BY <2>1, <2>3 DEF Polled
    <3>2. call.sector \in Sectors /\ target = SectorOf(call.sector)
      BY <2>3 DEF DiskInv, CallUnderWay
    <3> QED
      BY <3>1, <3>2 DEF DiskInv, DriveHolds
  <2> QED
    BY <2>2, <2>3
<1>2. DiskSpec => []DiskInv
  BY DiskStart, DiskStep, PTL DEF DiskSpec
<1> QED
  BY <1>1, <1>2, PTL DEF DiskSpec, SectorsReadBack

-----------------------------------------------------------------------------
(* The search for cards.                                                     *)

\* The functions that the three loops visit.
Visited(m, s) == s[3] = 0 \/ m[<<s[1], s[2], 0>>].several

\* The slots that lie behind the search when it is at a slot, or at its end.
Before(s, at) == at = <<>> \/ Earlier(s, at)

\* The input/output registers of a function, and their addresses.
PortNumbers(f) == {m \in DOMAIN f.bars : f.bars[m].io /\ f.bars[m].address # 0}
Ports(f) == {f.bars[m].address : m \in PortNumbers(f)}

\* A driver of one of the cards of a machine, with what it needs to know of it.
DriverFits(d, m, cards) ==
    /\ d.slot \in cards
    /\ d.interrupt = m[d.slot].interrupt
    /\ Ports(m[d.slot]) # {} => d.port \in Ports(m[d.slot])

LEMMA VisitedIs == \A s : Visited(machine, s) <=> (s[3] = 0 \/ DeviceHasFunctions(s))
BY Zenon DEF Visited, DeviceHasFunctions

LEMMA EarlierIs ==
    ASSUME NEW s \in Slots, NEW t \in Slots
    PROVE  Earlier(s, t) <=> \/ s[1] < t[1]
                             \/ s[1] = t[1] /\ s[2] < t[2]
                             \/ s[1] = t[1] /\ s[2] = t[2] /\ s[3] < t[3]
<1>1. \A k \in 1 .. 3 : k = 1 \/ k = 2 \/ k = 3
  OBVIOUS
<1>2. 1 \in 1 .. 3 /\ 2 \in 1 .. 3 /\ 3 \in 1 .. 3
  OBVIOUS
<1>3. 1 .. 0 = {} /\ 1 .. 1 = {1} /\ 1 .. 2 = {1, 2}
  OBVIOUS
<1>4. 1 - 1 = 0 /\ 2 - 1 = 1 /\ 3 - 1 = 2
  OBVIOUS
<1>5. ASSUME NEW k \in 1 .. 3, s[k] < t[k], \A j \in 1 .. k - 1 : s[j] = t[j]
      PROVE  \/ s[1] < t[1]
             \/ s[1] = t[1] /\ s[2] < t[2]
             \/ s[1] = t[1] /\ s[2] = t[2] /\ s[3] < t[3]
  BY <1>1, <1>3, <1>4, <1>5
<1>6. ASSUME s[1] < t[1] PROVE Earlier(s, t)
  BY <1>2, <1>3, <1>4, <1>6 DEF Earlier
<1>7. ASSUME s[1] = t[1] /\ s[2] < t[2] PROVE Earlier(s, t)
  BY <1>2, <1>3, <1>4, <1>7 DEF Earlier
<1>8. ASSUME s[1] = t[1] /\ s[2] = t[2] /\ s[3] < t[3] PROVE Earlier(s, t)
  BY <1>2, <1>3, <1>4, <1>8 DEF Earlier
<1> QED
  BY <1>5, <1>6, <1>7, <1>8 DEF Earlier

LEMMA SlotIs ==
    ASSUME NEW s \in Slots
    PROVE  /\ s = <<s[1], s[2], s[3]>> /\ s # <<>>
           /\ s[1] \in 0 .. Buses - 1 /\ s[2] \in 0 .. Devices - 1 /\ s[3] \in 0 .. Functions - 1
BY DEF Slots

LEMMA SlotMade ==
    ASSUME NEW b \in 0 .. Buses - 1, NEW d \in 0 .. Devices - 1, NEW n \in 0 .. Functions - 1
    PROVE  <<b, d, n>> \in Slots
BY DEF Slots

\* The next round of the loops goes to the next function that is visited: what lies
\* before it is the functions that lay before this one, and this one.
LEMMA NextSlotIs ==
    ASSUME NEW s \in Slots, Visited(machine, s), NEW t \in Slots, Visited(machine, t),
           NEW n, n = NextSlot(s)
    PROVE  /\ n = <<>> \/ (n \in Slots /\ Visited(machine, n))
           /\ (n = <<>> \/ Earlier(t, n)) <=> (Earlier(t, s) \/ t = s)
<1> DEFINE many == NumFunctions(s)
<1>1. Buses \in Nat \ {0} /\ Devices \in Nat \ {0} /\ Functions \in Nat \ {0}
  BY PciAssumption
<1>2. /\ s = <<s[1], s[2], s[3]>> /\ t = <<t[1], t[2], t[3]>>
      /\ s[1] \in 0 .. Buses - 1 /\ s[2] \in 0 .. Devices - 1 /\ s[3] \in 0 .. Functions - 1
      /\ t[1] \in 0 .. Buses - 1 /\ t[2] \in 0 .. Devices - 1 /\ t[3] \in 0 .. Functions - 1
  BY SlotIs
<1>3. /\ many \in 1 .. Functions /\ s[3] < many
      /\ many = 1 \/ (many = Functions /\ DeviceHasFunctions(s))
  <2>1. CASE DeviceHasFunctions(s)
    BY <1>1, <1>2, <2>1 DEF NumFunctions
  <2>2. CASE ~DeviceHasFunctions(s)
    BY <1>1, <1>2, <2>2, VisitedIs DEF NumFunctions
  <2> QED
    BY <2>1, <2>2
<1>4. t[1] = s[1] /\ t[2] = s[2] => t[3] < many
  <2> SUFFICES ASSUME t[1] = s[1], t[2] = s[2] PROVE t[3] < many
    OBVIOUS
  <2>1. DeviceHasFunctions(t) = DeviceHasFunctions(s)
    BY DEF DeviceHasFunctions
  <2>2. CASE DeviceHasFunctions(s)
    BY <1>1, <1>2, <2>2 DEF NumFunctions
  <2>3. CASE ~DeviceHasFunctions(s)
    BY <1>1, <1>2, <2>1, <2>3, VisitedIs DEF NumFunctions
  <2> QED
    BY <2>2, <2>3
<1>5. t = s <=> t[1] = s[1] /\ t[2] = s[2] /\ t[3] = s[3]
  BY <1>2
<1>6. Earlier(t, s) <=> \/ t[1] < s[1]
                        \/ t[1] = s[1] /\ t[2] < s[2]
                        \/ t[1] = s[1] /\ t[2] = s[2] /\ t[3] < s[3]
  BY EarlierIs
<1>i. /\ s[1] \in Nat /\ s[2] \in Nat /\ s[3] \in Nat /\ many \in Nat
      /\ t[1] \in Nat /\ t[2] \in Nat /\ t[3] \in Nat
      /\ t[1] < Buses /\ t[2] < Devices
  BY <1>1, <1>2, <1>3
<1>n. n = CASE s[3] + 1 < many -> <<s[1], s[2], s[3] + 1>>
           [] s[3] + 1 >= many /\ s[2] + 1 < Devices -> <<s[1], s[2] + 1, 0>>
           [] s[3] + 1 >= many /\ s[2] + 1 >= Devices /\ s[1] + 1 < Buses ->
                 <<s[1] + 1, 0, 0>>
           [] OTHER -> <<>>
  BY DEF NextSlot
<1> HIDE DEF many
<1>7. CASE s[3] + 1 < many
  <2>1. n = <<s[1], s[2], s[3] + 1>>
    BY <1>n, <1>1, <1>2, <1>3, <1>7
  <2>2. s[3] + 1 \in 0 .. Functions - 1
    BY <1>1, <1>2, <1>3, <1>7
  <2>3. n \in Slots
    BY <1>2, <2>1, <2>2, SlotMade
  <2>4. Visited(machine, n)
    BY <1>2, <1>3, <1>7, <2>1 DEF Visited, DeviceHasFunctions
  <2>5. Earlier(t, n) <=> \/ t[1] < s[1]
                          \/ t[1] = s[1] /\ t[2] < s[2]
                          \/ t[1] = s[1] /\ t[2] = s[2] /\ t[3] < s[3] + 1
    BY <2>1, <2>3, EarlierIs
  <2>6. n # <<>>
    BY <2>3, SlotIs
  <2>7. Earlier(t, n) <=> (Earlier(t, s) \/ t = s)
    BY <1>5, <1>6, <1>i, <2>5
  <2> QED
    BY <2>3, <2>4, <2>6, <2>7
<1>8. CASE s[3] + 1 >= many /\ s[2] + 1 < Devices
  <2>1. n = <<s[1], s[2] + 1, 0>>
    BY <1>1, <1>2, <1>3, <1>8, <1>n
  <2>2. s[2] + 1 \in 0 .. Devices - 1 /\ 0 \in 0 .. Functions - 1
    BY <1>1, <1>2, <1>8
  <2>3. n \in Slots
    BY <1>2, <2>1, <2>2, SlotMade
  <2>4. Visited(machine, n)
    BY <2>1 DEF Visited
  <2>5. Earlier(t, n) <=> \/ t[1] < s[1]
                          \/ t[1] = s[1] /\ t[2] < s[2] + 1
                          \/ t[1] = s[1] /\ t[2] = s[2] + 1 /\ t[3] < 0
    BY <2>1, <2>3, EarlierIs
  <2>6. n # <<>>
    BY <2>3, SlotIs
  <2>7. Earlier(t, n) <=> (Earlier(t, s) \/ t = s)
    BY <1>4, <1>5, <1>6, <1>8, <1>i, <2>5
  <2> QED
    BY <2>3, <2>4, <2>6, <2>7
<1>9. CASE s[3] + 1 >= many /\ s[2] + 1 >= Devices /\ s[1] + 1 < Buses
  <2>1. n = <<s[1] + 1, 0, 0>>
    BY <1>1, <1>2, <1>3, <1>9, <1>n
  <2>2. s[1] + 1 \in 0 .. Buses - 1 /\ 0 \in 0 .. Functions - 1 /\ 0 \in 0 .. Devices - 1
    BY <1>1, <1>2, <1>9
  <2>3. n \in Slots
    BY <2>1, <2>2, SlotMade
  <2>4. Visited(machine, n)
    BY <2>1 DEF Visited
  <2>5. Earlier(t, n) <=> \/ t[1] < s[1] + 1
                          \/ t[1] = s[1] + 1 /\ t[2] < 0
                          \/ t[1] = s[1] + 1 /\ t[2] = 0 /\ t[3] < 0
    BY <2>1, <2>3, EarlierIs
  <2>6. n # <<>>
    BY <2>3, SlotIs
  <2>7. Earlier(t, n) <=> (Earlier(t, s) \/ t = s)
    BY <1>1, <1>4, <1>5, <1>6, <1>9, <1>i, <2>5
  <2> QED
    BY <2>3, <2>4, <2>6, <2>7
<1>10. CASE s[3] + 1 >= many /\ s[2] + 1 >= Devices /\ s[1] + 1 >= Buses
  <2>1. n = <<>>
    BY <1>1, <1>2, <1>3, <1>10, <1>n
  <2>2. Earlier(t, s) \/ t = s
    BY <1>1, <1>4, <1>5, <1>6, <1>10, <1>i
  <2> QED
    BY <2>1, <2>2
<1>11. /\ s[3] + 1 < many \/ s[3] + 1 >= many
       /\ s[2] + 1 < Devices \/ s[2] + 1 >= Devices
       /\ s[1] + 1 < Buses \/ s[1] + 1 >= Buses
  BY <1>1, <1>i
<1> QED
  BY <1>7, <1>8, <1>9, <1>10, <1>11
-----------------------------------------------------------------------------
(* The port of a driver.                                                     *)

\* Later the registers up to k, ports holds nothing but addresses of the card, if one
\* of these registers has one.
PortsKnown(f, ports, k) ==
    /\ ports \subseteq Nat
    /\ (\E m \in 1 .. k : m \in PortNumbers(f)) => ports \subseteq Ports(f)

LEMMA RegisterKeeps ==
    ASSUME NEW f, f.headertype = 0, Len(f.bars) = 6, f.bars \in Seq(Registers),
           NEW k \in 0 .. 5, NEW ports, PortsKnown(f, ports, k)
    PROVE  PortsKnown(f, AfterRegister(f, ports, k + 1), k + 1)
<1> DEFINE bar == f.bars[k + 1]
           after == AfterRegister(f, ports, k + 1)
<1>1. k + 1 \in 1 .. 6 /\ k + 1 \in DOMAIN f.bars
  OBVIOUS
<1>2. bar \in Registers
  BY <1>1
<1>3. bar.address \in Nat
  BY <1>2 DEF Registers
<1>4. BaseAddressRegisters(f, k + 1) = {bar}
  <2>1. ~(k + 1 > 6 - 4 * 0)
    OBVIOUS
  <2> QED
    BY <2>1 DEF BaseAddressRegisters
<1>5. after = IF bar.io /\ bar.address # 0 THEN {bar.address} ELSE ports
  BY <1>4 DEF AfterRegister
<1>6. CASE bar.io /\ bar.address # 0
  <2>1. k + 1 \in PortNumbers(f)
    BY <1>1, <1>6 DEF PortNumbers
  <2>2. bar.address \in Ports(f)
    BY <2>1 DEF Ports
  <2> QED
    BY <1>3, <1>5, <1>6, <2>2 DEF PortsKnown
<1>7. CASE ~(bar.io /\ bar.address # 0)
  <2>1. k + 1 \notin PortNumbers(f)
    BY <1>7 DEF PortNumbers
  <2>2. \A m \in 1 .. k + 1 : m \in 1 .. k \/ m = k + 1
    OBVIOUS
  <2>3. after = ports
    BY <1>5, <1>7
  <2> HIDE DEF after
  <2>4. PortsKnown(f, after, k + 1)
    BY <2>1, <2>2, <2>3 DEF PortsKnown
  <2> QED
    BY <2>4 DEF after
<1> QED
  BY <1>6, <1>7

LEMMA PortBasesKnown ==
    ASSUME NEW f \in Kinds, IsAm79c973(f)
    PROVE  /\ PortBases(f) \subseteq Nat
           /\ Ports(f) # {} => PortBases(f) \subseteq Ports(f)
<1> DEFINE Later(ports, number) == AfterRegister(f, ports, number)
           a == {bar.address : bar \in Garbage}
           b == Later(a, 1)
           c == Later(b, 2)
           d == Later(c, 3)
           e == Later(d, 4)
           g == Later(e, 5)
           h == Later(g, 6)
<1>1. f.headertype = 0 /\ Len(f.bars) = 6 /\ f.bars \in Seq(Registers)
  <2>1. f.headertype = 0
    BY CardAssumption
  <2>2. Len(f.bars) = 6 - 4 * f.headertype /\ f.bars \in Seq(Registers)
    BY PciAssumption, Zenon
  <2> QED
    BY <2>1, <2>2
<1>2. PortBases(f) = h
  BY DEF PortBases
<1>3. PortsKnown(f, a, 0)
  <2>1. a \subseteq Nat
    BY PciAssumption DEF Registers
  <2>2. 1 .. 0 = {}
    OBVIOUS
  <2> HIDE DEF a
  <2> QED
    BY <2>1, <2>2 DEF PortsKnown
<1>4. /\ \A k \in 0 .. 5 : \A p : PortsKnown(f, p, k) => PortsKnown(f, AfterRegister(f, p, k + 1), k + 1)
      /\ 0 \in 0 .. 5 /\ 1 \in 0 .. 5 /\ 2 \in 0 .. 5 /\ 3 \in 0 .. 5 /\ 4 \in 0 .. 5 /\ 5 \in 0 .. 5
      /\ 0 + 1 = 1 /\ 1 + 1 = 2 /\ 2 + 1 = 3 /\ 3 + 1 = 4 /\ 4 + 1 = 5 /\ 5 + 1 = 6
  BY <1>1, RegisterKeeps
<1> HIDE DEF a
<1>5. PortsKnown(f, b, 1)
  BY <1>3, <1>4
<1> HIDE DEF b
<1>6. PortsKnown(f, c, 2)
  BY <1>4, <1>5
<1> HIDE DEF c
<1>7. PortsKnown(f, d, 3)
  BY <1>4, <1>6
<1> HIDE DEF d
<1>8. PortsKnown(f, e, 4)
  BY <1>4, <1>7
<1> HIDE DEF e
<1>9. PortsKnown(f, g, 5)
  BY <1>4, <1>8
<1> HIDE DEF g
<1>10. PortsKnown(f, h, 6)
  BY <1>4, <1>9
<1> HIDE DEF h
<1>11. PortNumbers(f) \subseteq 1 .. 6
  BY <1>1 DEF PortNumbers
<1>12. Ports(f) # {} => \E m \in 1 .. 6 : m \in PortNumbers(f)
  BY <1>11 DEF Ports
<1> QED
  BY <1>2, <1>10, <1>12 DEF PortsKnown
-----------------------------------------------------------------------------
(* What the search has done so far.                                          *)

Drivers == [slot : Slots, port : Nat, interrupt : Nat]

PciTypeOK ==
    /\ machine \in [Slots -> Kinds \cup {Absent}]
    /\ slot = <<>> \/ (slot \in Slots /\ Visited(machine, slot))
    /\ drivers \in Seq(Drivers) /\ overrun \in BOOLEAN
    /\ refused \subseteq Found

\* A card behind all those that have a driver.
LeftOut(s) == \A k \in DOMAIN drivers : Earlier(drivers[k].slot, s)

\* The array has no place left, and a card that was visited found none.
Overrun ==
    /\ Len(drivers) = FreePlaces
    /\ \E s \in Found \ refused : Before(s, slot) /\ LeftOut(s)

\* Exactly the cards before the slot have been dealt with, in their order.
SearchedSoFar ==
    /\ Len(drivers) <= FreePlaces /\ (overrun => Overrun)
    /\ \A s \in refused : Before(s, slot)
    /\ \A k \in DOMAIN drivers : DriverFits(drivers[k], machine, Found \ refused) /\ Before(drivers[k].slot, slot)
    /\ \A s \in Found \ refused :
          Before(s, slot) =>
              (\E k \in DOMAIN drivers : drivers[k].slot = s) \/ (overrun /\ LeftOut(s))
    /\ \A j, k \in DOMAIN drivers : j < k => Earlier(drivers[j].slot, drivers[k].slot)

PciInv == PciTypeOK /\ SearchedSoFar

LEMMA PciStart == PciInit => PciInv
<1> SUFFICES ASSUME PciInit PROVE PciInv
  OBVIOUS
<1>1. slot \in Slots /\ Visited(machine, slot) /\ slot[1] = 0 /\ slot[2] = 0 /\ slot[3] = 0
  BY PciAssumption DEF PciInit, Slots, Visited
<1>2. slot # <<>>
  BY <1>1, SlotIs
<1>3. \A s \in Slots : ~Before(s, slot)
  <2> SUFFICES ASSUME NEW s \in Slots PROVE ~Earlier(s, slot)
    BY <1>2 DEF Before
  <2> QED
    BY <1>1, SlotIs, EarlierIs
<1>4. Found \subseteq Slots
  BY DEF Found
<1>5. /\ drivers = <<>> /\ overrun = FALSE /\ refused = {}
      /\ machine \in [Slots -> Kinds \cup {Absent}]
  BY DEF PciInit
<1>6. Len(drivers) <= FreePlaces
  BY <1>5, PciAssumption
<1> QED
  <2>1. PciTypeOK
    <3>1. drivers \in Seq(Drivers) /\ refused \subseteq Found
      BY <1>5
    <3>2. overrun \in BOOLEAN
      BY Zenon DEF PciInit
    <3>3. machine \in [Slots -> Kinds \cup {Absent}]
      BY <1>5
    <3> QED
      BY <1>1, <3>1, <3>2, <3>3 DEF PciTypeOK
  <2>2. SearchedSoFar
    BY <1>3, <1>4, <1>5, <1>6 DEF SearchedSoFar
  <2> QED
    BY <2>1, <2>2 DEF PciInv

\* A step over a slot: what is before the new one is what was before, and the slot.
LEMMA StepOver ==
    ASSUME PciTypeOK, slot # <<>>, slot' = NextSlot(slot), UNCHANGED machine
    PROVE  /\ slot \in Slots /\ Visited(machine, slot)
           /\ slot' = <<>> \/ (slot' \in Slots /\ Visited(machine', slot'))
           /\ Found' = Found /\ Found \subseteq Slots
           /\ \A s \in Found : Before(s, slot') <=> Before(s, slot) \/ s = slot
           /\ ~Before(slot, slot)
<1>1. slot \in Slots /\ Visited(machine, slot)
  BY DEF PciTypeOK
<1>3. slot' = <<>> \/ (slot' \in Slots /\ Visited(machine, slot'))
  BY <1>1, NextSlotIs
<1>4. slot' = <<>> \/ (slot' \in Slots /\ Visited(machine', slot'))
  BY <1>3 DEF Visited, DeviceHasFunctions
<1>5. Found' = Found /\ \A s \in Found : s \in Slots /\ Visited(machine, s)
  BY DEF Found, Visited, DeviceHasFunctions
<1>6. \A s \in Found : Before(s, slot') <=> Before(s, slot) \/ s = slot
  <2> SUFFICES ASSUME NEW s \in Found
               PROVE  (slot' = <<>> \/ Earlier(s, slot')) <=> (Earlier(s, slot) \/ s = slot)
    BY DEF Before, Earlier
  <2>1. s \in Slots /\ Visited(machine, s)
    BY <1>5
  <2> QED
    BY <1>1, <2>1, NextSlotIs
<1>7. ~Before(slot, slot)
  <2>1. ~Earlier(slot, slot)
    BY <1>1, SlotIs, EarlierIs
  <2> QED
    BY <2>1 DEF Before
<1> QED
  BY <1>1, <1>4, <1>5, <1>6, <1>7

LEMMA SelectKeeps ==
    ASSUME PciInv, NEW room \in BOOLEAN, SelectDriver(room)
    PROVE  PciInv'
<1> DEFINE f == machine[slot]
<1>1. slot # <<>> /\ slot' = NextSlot(slot) /\ UNCHANGED machine
  BY DEF SelectDriver
<1>2. /\ slot \in Slots /\ Visited(machine, slot)
      /\ slot' = <<>> \/ (slot' \in Slots /\ Visited(machine', slot'))
      /\ Found' = Found /\ Found \subseteq Slots
      /\ \A s \in Found : Before(s, slot') <=> Before(s, slot) \/ s = slot
      /\ ~Before(slot, slot)
  BY <1>1, StepOver DEF PciInv
<1>3. slot \in Found <=> IsAm79c973(f)
  BY <1>2, VisitedIs DEF Found
<1>4. /\ machine \in [Slots -> Kinds \cup {Absent}] /\ drivers \in Seq(Drivers)
      /\ refused \subseteq Found /\ overrun \in BOOLEAN
  BY DEF PciInv, PciTypeOK
<1>5. /\ \A s \in refused : s \in Found /\ Before(s, slot)
      /\ \A k \in DOMAIN drivers : DriverFits(drivers[k], machine, Found \ refused) /\ Before(drivers[k].slot, slot)
                                   /\ drivers[k].slot \in Found \ refused
      /\ \A s \in Found \ refused :
            Before(s, slot) =>
                (\E k \in DOMAIN drivers : drivers[k].slot = s) \/ (overrun /\ LeftOut(s))
      /\ Len(drivers) <= FreePlaces
      /\ overrun => /\ Len(drivers) = FreePlaces
                    /\ \E s \in Found \ refused : Before(s, slot) /\ LeftOut(s)
      /\ \A j, k \in DOMAIN drivers : j < k => Earlier(drivers[j].slot, drivers[k].slot)
  BY <1>4 DEF PciInv, SearchedSoFar, DriverFits, Overrun
<1>6. CASE ~(f.vendor \notin {0, 65535} /\ IsAm79c973(f))
  <2>1. slot \notin Found
    BY <1>3, <1>6 DEF IsAm79c973
  <2>2. UNCHANGED <<drivers, overrun, refused>>
    BY <1>6 DEF SelectDriver
  <2>3. PciTypeOK'
    BY <1>1, <1>2, <1>4, <2>2 DEF PciTypeOK
  <2>5. SearchedSoFar'
    <3>1. \A s \in refused' : Before(s, slot')
      BY <1>2, <1>5, <2>2
    <3>2. \A k \in DOMAIN drivers' : DriverFits(drivers'[k], machine', (Found \ refused)') /\ Before(drivers'[k].slot, slot')
      <4> SUFFICES ASSUME NEW k \in DOMAIN drivers
                   PROVE  DriverFits(drivers[k], machine', (Found \ refused)') /\ Before(drivers[k].slot, slot')
        BY <2>2
      <4>1. Before(drivers[k].slot, slot') /\ DriverFits(drivers[k], machine, Found \ refused)
        BY <1>2, <1>5, <2>2
      <4> QED
        BY <1>1, <1>2, <2>2, <4>1 DEF DriverFits
    <3>3. \A s \in Found' \ refused' :
             Before(s, slot') =>
                 (\E k \in DOMAIN drivers' : drivers'[k].slot = s) \/ (overrun' /\ LeftOut(s)')
      BY <1>2, <1>5, <2>1, <2>2 DEF LeftOut, Earlier
    <3>4. \A j, k \in DOMAIN drivers' : j < k => Earlier(drivers'[j].slot, drivers'[k].slot)
      BY <1>5, <2>2
    <3>5. Len(drivers)' <= FreePlaces /\ (overrun' => Overrun')
      BY <1>2, <1>5, <2>2, <2>1 DEF Overrun, LeftOut, Earlier
    <3> QED
      BY <3>1, <3>2, <3>3, <3>4, <3>5 DEF SearchedSoFar
  <2> QED
    BY <2>3, <2>5 DEF PciInv
<1>7. CASE f.vendor \notin {0, 65535} /\ IsAm79c973(f) /\ room /\ Len(drivers) < FreePlaces
  <2>1. slot \in Found /\ IsAm79c973(f) /\ f \in Kinds
    <3>1. f # Absent
      BY <1>7 DEF IsAm79c973, Absent
    <3> QED
      BY <1>2, <1>3, <1>4, <1>7, <3>1
  <2>2. PICK port \in PortBases(f) : drivers' = Append(drivers, NewDriver(slot, port))
    BY <1>7, PciAssumption DEF SelectDriver, AddDriver
  <2>3. refused' = refused /\ slot \notin refused
    BY <1>2, <1>5, <1>7 DEF SelectDriver
  <2> DEFINE d == [slot |-> slot, port |-> port, interrupt |-> f.interrupt]
             last == Len(drivers) + 1
  <2>4. port \in Nat /\ (Ports(f) # {} => port \in Ports(f))
    BY <2>1, PortBasesKnown
  <2>5. d \in Drivers /\ d.slot = slot
    <3>1. f.interrupt \in Nat
      BY <2>1, PciAssumption
    <3> QED
      BY <1>2, <2>4, <3>1 DEF Drivers
  <2>6. DriverFits(d, machine', (Found \ refused)')
    <3>1. d.slot = slot /\ d.port = port /\ d.interrupt = f.interrupt
      OBVIOUS
    <3> HIDE DEF d
    <3> QED
      BY <1>1, <1>2, <2>1, <2>3, <2>4, <3>1 DEF DriverFits
  <2> HIDE DEF d
  <2>7. /\ drivers' \in Seq(Drivers) /\ DOMAIN drivers' = DOMAIN drivers \cup {last}
        /\ drivers'[last] = d /\ \A k \in DOMAIN drivers : drivers'[k] = drivers[k] /\ k < last
        /\ last \in Nat /\ DOMAIN drivers \subseteq Nat
    <3>1. drivers' = Append(drivers, d)
      BY <2>2 DEF d, NewDriver
    <3> QED
      BY <1>4, <2>5, <3>1
  <2> HIDE DEF last
  <2>8. ~overrun /\ overrun' = overrun /\ Len(drivers) + 1 <= FreePlaces /\ Len(drivers') = Len(drivers) + 1
    <3>1. Len(drivers) # FreePlaces /\ Len(drivers) \in Nat
      BY <1>4, <1>7, PciAssumption
    <3>2. ~overrun
      BY <1>5, <3>1
    <3>3. overrun' = overrun
      BY <1>7, <3>1 DEF SelectDriver, AddDriver
    <3>4. Len(drivers') = Len(drivers) + 1
      BY <1>4, <2>2
    <3>5. Len(drivers) + 1 <= FreePlaces
      BY <1>7, <3>1, PciAssumption
    <3> QED
      BY <3>2, <3>3, <3>4, <3>5
  <2>9. PciTypeOK'
    <3>1. overrun' \in BOOLEAN
      BY <1>4, <2>8
    <3> QED
      BY <1>1, <1>2, <1>4, <2>3, <2>7, <3>1 DEF PciTypeOK
  <2>10. SearchedSoFar'
    <3>1. \A s \in refused' : Before(s, slot')
      BY <1>2, <1>5, <2>3
    <3>2. \A k \in DOMAIN drivers' : DriverFits(drivers'[k], machine', (Found \ refused)') /\ Before(drivers'[k].slot, slot')
      <4>1. ASSUME NEW k \in DOMAIN drivers
            PROVE  DriverFits(drivers'[k], machine', (Found \ refused)') /\ Before(drivers'[k].slot, slot')
        <5>1. DriverFits(drivers[k], machine, Found \ refused) /\ Before(drivers[k].slot, slot) /\ drivers[k].slot \in Found
          BY <1>5
        <5>2. Before(drivers[k].slot, slot')
          BY <1>2, <5>1
        <5>3. drivers'[k] = drivers[k]
          BY <2>7
        <5> QED
          BY <1>1, <1>2, <2>3, <5>1, <5>2, <5>3 DEF DriverFits
      <4>2. Before(d.slot, slot')
        BY <1>2, <2>1, <2>5
      <4> QED
        BY <2>6, <2>7, <4>1, <4>2
    <3>3. \A s \in Found' \ refused' :
             Before(s, slot') =>
                 (\E k \in DOMAIN drivers' : drivers'[k].slot = s) \/ (overrun' /\ LeftOut(s)')
      <4>1. \A s \in Found \ refused : Before(s, slot) => \E k \in DOMAIN drivers : drivers[k].slot = s
        BY <1>5, <2>8
      <4> QED
        BY <1>2, <2>3, <2>5, <2>7, <4>1
    <3>4. \A j, k \in DOMAIN drivers' : j < k => Earlier(drivers'[j].slot, drivers'[k].slot)
      <4>1. ASSUME NEW j \in DOMAIN drivers PROVE Earlier(drivers[j].slot, slot)
        BY <1>1, <1>5 DEF Before
      <4> SUFFICES ASSUME NEW j \in DOMAIN drivers', NEW k \in DOMAIN drivers', j < k
                   PROVE  Earlier(drivers'[j].slot, drivers'[k].slot)
        OBVIOUS
      <4>2. j \in DOMAIN drivers
        BY <2>7
      <4>3. CASE k \in DOMAIN drivers
        BY <1>5, <2>7, <4>2, <4>3
      <4>4. CASE k = last
        BY <2>5, <2>7, <4>1, <4>2, <4>4
      <4> QED
        BY <2>7, <4>3, <4>4
    <3>5. Len(drivers)' <= FreePlaces /\ (overrun' => Overrun')
      BY <1>5, <2>7, <2>8
    <3> QED
      BY <3>1, <3>2, <3>3, <3>4, <3>5 DEF SearchedSoFar
  <2> QED
    BY <2>9, <2>10 DEF PciInv
<1>8. CASE f.vendor \notin {0, 65535} /\ IsAm79c973(f) /\ room /\ Len(drivers) = FreePlaces
  <2>1. slot \in Found /\ slot \notin refused
    BY <1>2, <1>3, <1>5, <1>8
  <2>2. refused' = refused /\ drivers' = drivers /\ overrun' = TRUE
    BY <1>8, PciAssumption DEF SelectDriver, AddDriver
  <2>3. LeftOut(slot)
    BY <1>1, <1>5 DEF LeftOut, Before
  <2>4. PciTypeOK'
    BY <1>1, <1>2, <1>4, <2>2 DEF PciTypeOK
  <2>5. SearchedSoFar'
    <3>1. \A s \in refused' : Before(s, slot')
      BY <1>2, <1>5, <2>2
    <3>2. \A k \in DOMAIN drivers' : DriverFits(drivers'[k], machine', (Found \ refused)') /\ Before(drivers'[k].slot, slot')
      <4> SUFFICES ASSUME NEW k \in DOMAIN drivers
                   PROVE  DriverFits(drivers[k], machine', (Found \ refused)') /\ Before(drivers[k].slot, slot')
        BY <2>2
      <4>1. Before(drivers[k].slot, slot') /\ DriverFits(drivers[k], machine, Found \ refused)
        BY <1>2, <1>5, <2>2
      <4> QED
        BY <1>1, <1>2, <2>2, <4>1 DEF DriverFits
    <3>3. \A s \in Found' \ refused' :
             Before(s, slot') =>
                 (\E k \in DOMAIN drivers' : drivers'[k].slot = s) \/ (overrun' /\ LeftOut(s)')
      BY <1>2, <1>5, <2>2, <2>3 DEF LeftOut, Earlier
    <3>4. \A j, k \in DOMAIN drivers' : j < k => Earlier(drivers'[j].slot, drivers'[k].slot)
      BY <1>5, <2>2
    <3>5. Len(drivers)' <= FreePlaces /\ (overrun' => Overrun')
      BY <1>2, <1>5, <1>8, <2>1, <2>2, <2>3 DEF Overrun, LeftOut, Earlier
    <3> QED
      BY <3>1, <3>2, <3>3, <3>4, <3>5 DEF SearchedSoFar
  <2> QED
    BY <2>4, <2>5 DEF PciInv
<1>9. CASE f.vendor \notin {0, 65535} /\ IsAm79c973(f) /\ ~room
  <2>1. slot \in Found
    BY <1>3, <1>9
  <2>2. refused' = refused \cup {slot} /\ drivers' = drivers /\ overrun' = overrun
    BY <1>9 DEF SelectDriver
  <2>3. PciTypeOK'
    BY <1>1, <1>2, <1>4, <2>1, <2>2 DEF PciTypeOK
  <2>4. SearchedSoFar'
    <3>1. \A s \in refused' : Before(s, slot')
      BY <1>2, <1>5, <2>1, <2>2
    <3>2. \A k \in DOMAIN drivers' : DriverFits(drivers'[k], machine', (Found \ refused)') /\ Before(drivers'[k].slot, slot')
      <4> SUFFICES ASSUME NEW k \in DOMAIN drivers
                   PROVE  DriverFits(drivers[k], machine', (Found \ refused)') /\ Before(drivers[k].slot, slot')
        BY <2>2
      <4>1. DriverFits(drivers[k], machine, Found \ refused) /\ Before(drivers[k].slot, slot) /\ drivers[k].slot \in Found
        BY <1>5
      <4>2. Before(drivers[k].slot, slot') /\ drivers[k].slot # slot
        BY <1>2, <4>1
      <4> QED
        BY <1>1, <1>2, <2>2, <4>1, <4>2 DEF DriverFits
    <3>3. \A s \in Found' \ refused' :
             Before(s, slot') =>
                 (\E k \in DOMAIN drivers' : drivers'[k].slot = s) \/ (overrun' /\ LeftOut(s)')
      BY <1>2, <1>5, <2>2 DEF LeftOut, Earlier
    <3>4. \A j, k \in DOMAIN drivers' : j < k => Earlier(drivers'[j].slot, drivers'[k].slot)
      BY <1>5, <2>2
    <3>5. Len(drivers)' <= FreePlaces /\ (overrun' => Overrun')
      BY <1>2, <1>5, <2>2, <2>1 DEF Overrun, LeftOut, Earlier
    <3> QED
      BY <3>1, <3>2, <3>3, <3>4, <3>5 DEF SearchedSoFar
  <2> QED
    BY <2>3, <2>4 DEF PciInv
<1> QED
  <2>1. Len(drivers) < FreePlaces \/ Len(drivers) = FreePlaces
    BY <1>4, <1>5, PciAssumption
  <2> QED
    BY <1>6, <1>7, <1>8, <1>9, <2>1

LEMMA PciStep == PciInv /\ [PciNext]_pciVars => PciInv'
<1> SUFFICES ASSUME PciInv, [PciNext]_pciVars PROVE PciInv'
  OBVIOUS
<1>1. CASE UNCHANGED <<machine, slot, drivers, overrun, refused>>
  <2>1. Found' = Found
    BY <1>1 DEF Found, DeviceHasFunctions
  <2>2. PciTypeOK'
    BY <1>1, <2>1 DEF PciInv, PciTypeOK
  <2>3. SearchedSoFar'
    BY <1>1, <2>1 DEF PciInv, SearchedSoFar, Overrun, LeftOut
  <2> QED
    BY <2>2, <2>3 DEF PciInv
<1>2. ASSUME NEW room \in BOOLEAN, SelectDriver(room)
      PROVE  PciInv'
  BY <1>2, SelectKeeps
<1> QED
  BY <1>1, <1>2 DEF PciNext, ActivateAll, SearchOver, pciVars

\* After the search every card that can be found has its driver, in the order of the
\* slots, with its own interrupt and port, unless there are more cards than places in the
\* array, which is overrun then and only then: for every machine, any number of buses,
\* devices and functions, and every size of the array.
THEOREM DriversCorrect == PciSpec => []EveryCardItsDriver
<1>1. PciInv => EveryCardItsDriver
  <2> SUFFICES ASSUME PciInv, slot = <<>> PROVE EveryCardItsDriver
    BY DEF EveryCardItsDriver
  <2>1. \A s : Before(s, slot)
    BY DEF Before
  <2>2. \A k \in DOMAIN drivers : DriverFits(drivers[k], machine, Found \ refused)
    BY DEF PciInv, SearchedSoFar
  <2> DEFINE cards == Found \ refused
             served == {drivers[k].slot : k \in DOMAIN drivers}
  <2>3. served \subseteq cards /\ Len(drivers) <= FreePlaces
    BY <2>2 DEF PciInv, SearchedSoFar, DriverFits
  <2>4. \A s \in cards : s \in served \/ (overrun /\ LeftOut(s))
    BY <2>1 DEF PciInv, SearchedSoFar
  <2>5. overrun => Len(drivers) = FreePlaces /\ served # cards
    <3> SUFFICES ASSUME overrun PROVE Len(drivers) = FreePlaces /\ served # cards
      OBVIOUS
    <3>1. PICK s \in cards : LeftOut(s)
      BY DEF PciInv, SearchedSoFar, Overrun
    <3>2. s \in Slots /\ ~Earlier(s, s)
      BY SlotIs, EarlierIs DEF Found
    <3>3. s \notin served
      BY <3>1, <3>2 DEF LeftOut
    <3> QED
      BY <3>1, <3>3 DEF PciInv, SearchedSoFar, Overrun
  <2>6. overrun <=> served # cards
    BY <2>3, <2>4, <2>5 DEF PciInv, PciTypeOK
  <2>7. \A s \in served, t \in cards \ served : Earlier(s, t)
    BY <2>4 DEF LeftOut
  <2>8. \A j, k \in DOMAIN drivers : j < k => Earlier(drivers[j].slot, drivers[k].slot)
    BY DEF PciInv, SearchedSoFar
  <2> QED
    BY <2>2, <2>3, <2>5, <2>6, <2>7, <2>8 DEF EveryCardItsDriver, DriverFits, Ports, PortNumbers
<1> QED
  BY <1>1, PciStart, PciStep, PTL DEF PciSpec
=============================================================================
