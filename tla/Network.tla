------------------------------- MODULE Network -------------------------------
(***************************************************************************)
(* The driver of the am79c973: two rings of descriptors that driver and     *)
(* device (external) hand to each other by the OWN bit.  The device works   *)
(* while the handler runs, so reading the status, each round of Receive and *)
(* the acknowledgement are steps of their own.                              *)
(*                                                                          *)
(* sendBuffers and recvBuffers are declared with their dimensions swapped:   *)
(* the buffers of a ring begin 8 bytes apart and lie on top of each other.   *)
(* A frame is intact until the next one is written to the same ring, so one  *)
(* variable stands for the memory of a ring.                                 *)
(***************************************************************************)
EXTENDS Integers

CONSTANT Ring   \* the descriptors of a ring, 8

ASSUME NetworkAssumption == Ring \in Nat \ {0}

Descriptors == 0 .. Ring - 1

\* Frames are numbered in the order in which they arrive or are given to Send.
Frames == 0 .. 2 * Ring - 1
After(frame) == (frame + 1) % (2 * Ring)
Previous(frame) == (frame - 1) % (2 * Ring)

VARIABLES
    recv, currentRecvBuffer,    \* the descriptors and the driver's place in the ring
    send, currentSendBuffer, sendDescriptor,
    recvMemory, sendMemory,     \* the frame last written to the buffers
    csr0, temp,                 \* the status bits of the device and the handler's copy
    handlerAt, senderAt,        \* the next step of HandleInterrupt and of Send
    deviceRecv, deviceSend,     \* the device's place in each ring
    arrived, received,          \* history: the next frame to arrive, to be given back
    late,                       \* history: frames since Receive looked last whose
                                \* interrupt the acknowledgement clears
    given, sent,                \* history: the next frame for Send, to be sent
    overtaken                   \* history: Send took a descriptor of the device

receiveVars == <<recv, currentRecvBuffer, recvMemory, temp, handlerAt, deviceRecv,
                 arrived, received, late>>
sendVars == <<send, currentSendBuffer, sendDescriptor, sendMemory, senderAt,
              deviceSend, given, sent, overtaken>>
networkVars == <<receiveVars, sendVars, csr0>>

\* The constructor, which gives the receive ring to the device, and Activate.
NetworkInit ==
    /\ recv = [d \in Descriptors |-> [own |-> "device", frame |-> 0]]
    /\ send = [d \in Descriptors |-> [own |-> "driver", frame |-> 0]]
    /\ currentRecvBuffer = 0 /\ currentSendBuffer = 0 /\ sendDescriptor = 0
    /\ deviceRecv = 0 /\ deviceSend = 0
    /\ recvMemory = 0 /\ sendMemory = 0
    /\ csr0 = {"IDON"} /\ temp = {}
    /\ handlerAt = "idle" /\ senderAt = "idle"
    /\ arrived = 0 /\ received = 0 /\ late = 0
    /\ given = 0 /\ sent = 0 /\ overtaken = FALSE

-----------------------------------------------------------------------------
(* Receiving.                                                               *)

\* The device stores a frame in its next descriptor, or misses it when the driver
\* still owns that one.
ArriveFrame ==
    /\ recv[deviceRecv].own = "device"
    /\ recv' = [recv EXCEPT ![deviceRecv] = [own |-> "driver", frame |-> arrived]]
    /\ recvMemory' = arrived
    /\ deviceRecv' = (deviceRecv + 1) % Ring
    /\ arrived' = After(arrived)
    /\ csr0' = csr0 \cup {"RINT"}
    /\ late' = IF handlerAt = "acknowledge" /\ "RINT" \in temp THEN late + 1 ELSE late
    /\ UNCHANGED <<currentRecvBuffer, temp, handlerAt, received, sendVars>>

MissFrame ==
    /\ recv[deviceRecv].own = "driver"
    /\ csr0' = csr0 \cup {"MISS"}
    /\ UNCHANGED <<receiveVars, sendVars>>

\* HandleInterrupt reads the status and calls Receive for a received frame.
ReadStatus ==
    /\ handlerAt = "idle" /\ csr0 # {}
    /\ temp' = csr0
    /\ handlerAt' = IF "RINT" \in csr0 THEN "receive" ELSE "acknowledge"
    /\ UNCHANGED <<recv, currentRecvBuffer, recvMemory, deviceRecv, arrived, received,
                   late, sendVars, csr0>>

\* One round of Receive: the frame is printed, unless it has an error, and then
\* given back to the device.
ReceiveFrame ==
    /\ handlerAt = "receive" /\ recv[currentRecvBuffer].own = "driver"
    /\ handlerAt' = "give back"
    /\ UNCHANGED <<recv, currentRecvBuffer, recvMemory, temp, deviceRecv, arrived,
                   received, late, sendVars, csr0>>

\* Mutant: the ring of the driver is one descriptor short.
NextDescriptorShort(d) == (d + 1) % (Ring - 1)

NextDescriptor(d) == (d + 1) % Ring

\* Mutant: one frame for each interrupt.
AfterFrameStop == "acknowledge"

AfterFrame == "receive"

GiveBack ==
    /\ handlerAt = "give back"
    /\ recv' = [recv EXCEPT ![currentRecvBuffer] = [own |-> "device", frame |-> 0]]
    /\ currentRecvBuffer' = NextDescriptor(currentRecvBuffer)
    /\ received' = After(received)
    /\ handlerAt' = AfterFrame
    /\ UNCHANGED <<recvMemory, temp, deviceRecv, arrived, late, sendVars, csr0>>

ReceiveEnds ==
    /\ handlerAt = "receive" /\ recv[currentRecvBuffer].own = "device"
    /\ handlerAt' = "acknowledge"
    /\ late' = 0
    /\ UNCHANGED <<recv, currentRecvBuffer, recvMemory, temp, deviceRecv, arrived,
                   received, sendVars, csr0>>

\* Writing temp clears the bits that were set when it was read: the frames that have
\* arrived since Receive looked lose their interrupt.
AcknowledgeStatus ==
    /\ handlerAt = "acknowledge"
    /\ csr0' = csr0 \ temp
    /\ temp' = {}
    /\ handlerAt' = "idle"
    /\ UNCHANGED <<recv, currentRecvBuffer, recvMemory, deviceRecv, arrived, received, late,
                   sendVars>>

-----------------------------------------------------------------------------
(* Sending.  Send takes the next descriptor whoever owns it.  Once it has taken *)
(* one that the device had not sent yet, the history is not kept any longer.    *)

\* The frames that were given to Send and not sent.
UnderWay == (given - sent) % (2 * Ring)

\* Mutant: the descriptor is handed over before the frame is copied.
OwnerWhenTakenDevice(d) == "device"

OwnerWhenTaken(d) == send[d].own

TakeDescriptor ==
    /\ senderAt = "idle"
    /\ sendDescriptor' = currentSendBuffer
    /\ currentSendBuffer' = (currentSendBuffer + 1) % Ring
    /\ send' = [send EXCEPT ![currentSendBuffer].own = OwnerWhenTaken(currentSendBuffer)]
    /\ overtaken' = (overtaken \/ send[currentSendBuffer].own = "device")
    /\ given' = IF overtaken' THEN given ELSE After(given)
    /\ senderAt' = "copy"
    /\ UNCHANGED <<sendMemory, deviceSend, sent, receiveVars, csr0>>

CopyFrame ==
    /\ senderAt = "copy"
    /\ sendMemory' = Previous(given)
    /\ senderAt' = "flags"
    /\ UNCHANGED <<send, currentSendBuffer, sendDescriptor, deviceSend, given, sent, overtaken,
                   receiveVars, csr0>>

\* The flags with the length of the frame and the OWN bit are stored last.
HandOver ==
    /\ senderAt = "flags"
    /\ send' = [send EXCEPT ![sendDescriptor] = [own |-> "device", frame |-> Previous(given)]]
    /\ senderAt' = "idle"
    /\ UNCHANGED <<currentSendBuffer, sendDescriptor, sendMemory, deviceSend, given, sent,
                   overtaken, receiveVars, csr0>>

Transmit ==
    /\ send[deviceSend].own = "device"
    /\ send' = [send EXCEPT ![deviceSend].own = "driver"]
    /\ deviceSend' = (deviceSend + 1) % Ring
    /\ sent' = IF overtaken THEN sent ELSE After(sent)
    /\ csr0' = csr0 \cup {"TINT"}
    /\ UNCHANGED <<currentSendBuffer, sendDescriptor, sendMemory, senderAt, given, overtaken,
                   receiveVars>>

NetworkNext ==
    \/ ArriveFrame \/ MissFrame
    \/ ReadStatus \/ ReceiveFrame \/ GiveBack \/ ReceiveEnds \/ AcknowledgeStatus
    \/ TakeDescriptor \/ CopyFrame \/ HandOver \/ Transmit

\* The handler runs to its end, and frames keep arriving.
NetworkFairness ==
    /\ WF_networkVars(ReadStatus \/ ReceiveFrame \/ GiveBack \/ ReceiveEnds \/ AcknowledgeStatus)
    /\ WF_networkVars(ArriveFrame)

NetworkSpec == NetworkInit /\ [][NetworkNext]_networkVars /\ NetworkFairness

-----------------------------------------------------------------------------
\* Receive takes the frames in the order in which they arrived, none twice and none
\* left out, however many come while it runs; the one frame that is there alone is
\* still intact in the overlapping buffers when it is printed.
ReceivedInOrder ==
    [][handlerAt = "receive" /\ handlerAt' = "give back" =>
          /\ recv[currentRecvBuffer].frame = received
          /\ After(received) = arrived => recvMemory = received]_networkVars

\* A frame whose interrupt was lost to the acknowledgement is not lost itself: while
\* frames keep arriving the driver gives every descriptor back, unless a whole ring of
\* them comes between the last look of Receive and the acknowledgement.  Then nothing
\* calls Receive again, and the ring stays with the driver for good.
FramesServed ==
    /\ \A d \in Descriptors :
          recv[d].own = "driver" ~> (recv[d].own = "device" \/ late = Ring)
    /\ [](late = Ring => [](\A d \in Descriptors : recv[d].own = "driver"))

\* The device sends the frames in the order of the calls of Send, each once, and one that
\* is alone under way complete, until Send overtakes the device; and it does so only
\* when the whole ring is under way.
SentInOrder ==
    [][/\ sent' # sent =>
             /\ send[deviceSend].frame = sent
             /\ After(sent) = given => sendMemory = sent
       /\ overtaken' # overtaken => UnderWay = Ring]_networkVars
==============================================================================
