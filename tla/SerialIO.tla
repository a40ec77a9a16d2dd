------------------------------ MODULE SerialIO ------------------------------
(***************************************************************************)
(* Serial_DMAasync (Serial_IO/src/serial_io.cpp) with the validation and   *)
(* pattern callbacks wired to it: bytes arrive in DMA chunks in the UART   *)
(* interrupt, the URGENT validation handler cuts packets out of them,      *)
(* sends each back and queues it, the MEDIUM pattern thread pops it.       *)
(*                                                                         *)
(* The line carries packets 1, 2, ... of PacketBytes bytes each; a byte is *)
(* its position on the line.  process_queue is the FIFO that SpscQueue     *)
(* implements.  The parser is what PacketiserLink shows: bytes that come   *)
(* in a row complete a frame with the last one, and the frame after a gap  *)
(* may be lost with it.  It cannot tell the bytes of one packet from those *)
(* of another: of a frame spliced from several, the decoder may think what *)
(* it likes.                                                               *)
(*                                                                         *)
(* A queued PacketBuffer and a transmission do not own their bytes: both   *)
(* point to packet_buffer in the frame of validation_handler, which the    *)
(* next packet overwrites and which is dead once the handler returns.      *)
(***************************************************************************)
EXTENDS Naturals, Sequences, SequencesExt

CONSTANTS
    PacketBytes,       \* bytes of a frame
    ReplyBytes,        \* bytes of the frame sent back
    MaxPackets,        \* bound: packets the host sends
    DmaBufferSize,     \* of each DMA buffer, and of validation_queue
    NumPacketBuffers,  \* capacity of process_queue, one slot is never used
    Scenarios,         \* hosts and lines the device may be connected to
    StackReuse         \* a dead frame of the handler may be overwritten

ASSUME SerialAssumption ==
    /\ PacketBytes \in Nat \ {0} /\ MaxPackets \in Nat
    /\ ReplyBytes \in 1 .. PacketBytes
    /\ DmaBufferSize \in Nat \ {0} /\ NumPacketBuffers \in Nat \ {0}
    /\ Scenarios \subseteq [awaits : Nat, lineErrors : BOOLEAN, early : BOOLEAN]
    /\ StackReuse \in BOOLEAN

Packet == 1 .. MaxPackets
NoPacket == 0
Garbage == MaxPackets + 1      \* bytes that are no packet's frame
NoBuffer == 2

VARIABLES
    scenario,        \* the one it is connected to
    \* start_process and the receiving side of the driver
    reception,       \* "off", "on", "stopped"
    starting,        \* start_process has yet to return from uart_rx_enable
    current_buffer,  \* index in buffer_pair of the buffer to give next
    rxBuffer,        \* the buffer the driver fills
    rxNext,          \* the one it will fill after it
    rxFill,          \* bytes in rxBuffer
    nDoubled,        \* history: how often it was given the one it fills
    nReceived,       \* bytes the line has carried
    validation_queue,
    lost,            \* packets with a byte in a chunk that did not fit
    \* validation_handler
    pc,              \* "idle", "loop", "transmit", "queue"
    batch,           \* buffer, from index i on
    row,             \* the packetiser: bytes of the frame it is in
    completed,       \* the packet whose last byte completed a frame last
    spliced,         \* history: the packets in that frame, if several
    packet_buffer,   \* the packet whose frame is in that stack memory
    \* the transmitting side of the driver
    txPacket,        \* what is being sent, or NoPacket
    txIntact,        \* packet_buffer has not changed since uart_tx
    nReplies,        \* transmissions the host has seen end
    refused,         \* packets uart_tx refused
    \* pattern_process_func
    process_queue,
    popped,          \* the last packet popped
    reading          \* add_packet is to read it

driverVars == <<reception, starting, current_buffer, rxBuffer, rxNext, rxFill,
                nDoubled>>
rxVars == <<driverVars, nReceived, lost>>
handlerVars == <<pc, batch, row, completed, spliced, packet_buffer>>
txVars == <<txPacket, txIntact, nReplies, refused>>
patternVars == <<process_queue, popped, reading>>
pipelineVars == <<rxVars, validation_queue, handlerVars, txVars, patternVars>>
vars == <<scenario, pipelineVars>>

\* The host awaits a reply of so many bytes before it sends the next packet, as
\* the logic test does, or none.
HostWaits == scenario.awaits # 0

\* A read that ends before there are as many ends the test.
Content == ReplyBytes >= scenario.awaits

\* Frames may fail the decoder, reception may stop, a transmission may abort.
LineErrors == scenario.lineErrors

PacketOf(byte) == ((byte - 1) \div PacketBytes) + 1
IndexOf(byte) == ((byte - 1) % PacketBytes) + 1

Init ==
    /\ scenario \in Scenarios
    /\ reception = "off" /\ starting = FALSE /\ current_buffer = 0
    /\ rxBuffer = NoBuffer /\ rxNext = NoBuffer /\ rxFill = 0 /\ nDoubled = 0
    /\ nReceived = 0 /\ validation_queue = <<>> /\ lost = {}
    /\ pc = "idle" /\ batch = <<>> /\ row = <<>> /\ completed = NoPacket
    /\ spliced = {} /\ packet_buffer = Garbage
    /\ txPacket = NoPacket /\ txIntact = TRUE /\ nReplies = 0 /\ refused = {}
    /\ process_queue = <<>> /\ popped = NoPacket /\ reading = FALSE

-----------------------------------------------------------------------------
(* start_process *)

\* uart_rx_enable, from where on the driver receives.
StartReception ==
    /\ reception = "off"
    /\ reception' = "on" /\ starting' = TRUE
    /\ rxBuffer' = current_buffer
    /\ UNCHANGED <<current_buffer, rxNext, rxFill, nDoubled, nReceived, lost,
                   validation_queue, handlerVars, txVars, patternVars>>

\* current_buffer is switched for the next request, and the handler scheduled.
FinishStart ==
    /\ starting
    /\ starting' = FALSE
    /\ current_buffer' = 1 - current_buffer
    /\ UNCHANGED <<reception, rxBuffer, rxNext, rxFill, nDoubled, nReceived,
                   lost, validation_queue, handlerVars, txVars, patternVars>>

-----------------------------------------------------------------------------
(* uart_callback *)

\* The driver may call it, before start_process has gone on if it is early.
Receiving == reception = "on" /\ (starting => scenario.early)

\* Mutant: current_buffer is not switched after the answer.
BufferRequestSame ==
    /\ Receiving /\ rxNext = NoBuffer
    /\ rxNext' = current_buffer
    /\ nDoubled' = IF rxBuffer = current_buffer THEN nDoubled + 1 ELSE nDoubled
    /\ UNCHANGED <<reception, starting, current_buffer, rxBuffer, rxFill,
                   nReceived, lost, validation_queue, handlerVars, txVars,
                   patternVars>>

\* UART_RX_BUF_REQUEST
BufferRequest ==
    /\ Receiving /\ rxNext = NoBuffer
    /\ rxNext' = current_buffer
    /\ nDoubled' = IF rxBuffer = current_buffer THEN nDoubled + 1 ELSE nDoubled
    /\ current_buffer' = 1 - current_buffer
    /\ UNCHANGED <<reception, starting, rxBuffer, rxFill, nReceived, lost,
                   validation_queue, handlerVars, txVars, patternVars>>

\* The replies that a host that waits was content with.
Answered == IF Content THEN nReplies ELSE 0

\* What the host may have put on the line by now.
Offered ==
    IF HostWaits /\ Answered + 1 < MaxPackets
      THEN PacketBytes * (Answered + 1)
      ELSE PacketBytes * MaxPackets

Chunk(n) == [i \in 1 .. n |-> nReceived + i]

\* push: a chunk goes into validation_queue whole or not at all.
Accepts(n) == Len(validation_queue) + n <= DmaBufferSize

\* UART_RX_RDY, on a pause of the line or a full buffer; the driver goes on
\* in the second buffer once the first is full.
RxReady ==
    /\ Receiving
    /\ \E n \in 1 .. DmaBufferSize - rxFill :
          /\ nReceived + n <= Offered
          /\ rxFill + n = DmaBufferSize => rxNext # NoBuffer
          /\ nReceived' = nReceived + n
          /\ IF Accepts(n)
               THEN /\ validation_queue' = validation_queue \o Chunk(n)
                    /\ UNCHANGED lost
               ELSE /\ lost' = lost \cup {PacketOf(b) : b \in ToSet(Chunk(n))}
                    /\ UNCHANGED validation_queue
          /\ IF rxFill + n = DmaBufferSize
               THEN rxFill' = 0 /\ rxBuffer' = rxNext /\ rxNext' = NoBuffer
               ELSE rxFill' = rxFill + n /\ UNCHANGED <<rxBuffer, rxNext>>
    /\ UNCHANGED <<reception, starting, current_buffer, nDoubled, handlerVars,
                   txVars, patternVars>>

\* UART_RX_STOPPED and UART_RX_DISABLED: logged, and nothing enables
\* reception again.
RxStopped ==
    /\ LineErrors
    /\ Receiving
    /\ reception' = "stopped"
    /\ rxBuffer' = NoBuffer /\ rxNext' = NoBuffer /\ rxFill' = 0
    /\ UNCHANGED <<starting, current_buffer, nDoubled, nReceived, lost,
                   validation_queue, handlerVars, txVars, patternVars>>

\* UART_TX_DONE and UART_TX_ABORTED: logged.  The host gets ReplyBytes, whatever
\* it awaits: construct_packet cuts the check bytes off before the footer.
TxDone ==
    /\ txPacket # NoPacket
    /\ txPacket' = NoPacket /\ txIntact' = TRUE
    /\ nReplies' = nReplies + 1
    /\ UNCHANGED <<rxVars, validation_queue, handlerVars, refused,
                   patternVars>>

TxAborted ==
    /\ LineErrors
    /\ txPacket # NoPacket
    /\ txPacket' = NoPacket /\ txIntact' = TRUE
    /\ UNCHANGED <<rxVars, validation_queue, handlerVars, nReplies, refused,
                   patternVars>>

-----------------------------------------------------------------------------
(* validation_handler, once every period on the URGENT queue.  A run on an  *)
(* empty queue has no effect and is not a step.                             *)

\* Mutant: the handler looks at the bytes without taking them out.
HandlerStartPeeks ==
    /\ pc = "idle" /\ ~starting /\ validation_queue # <<>>
    /\ batch' = validation_queue
    /\ pc' = "loop"
    /\ UNCHANGED <<rxVars, validation_queue, row, completed, spliced,
                   packet_buffer, txVars, patternVars>>

HandlerStart ==
    /\ pc = "idle" /\ ~starting /\ validation_queue # <<>>
    /\ batch' = validation_queue
    /\ validation_queue' = <<>>
    /\ pc' = "loop"
    /\ UNCHANGED <<rxVars, row, completed, spliced, packet_buffer, txVars,
                   patternVars>>

\* Whether add_byte takes the byte for the next one of the frame.
NextInRow(byte) == IndexOf(byte) = Len(row) + 1

\* Mutant: the frame is taken to be one byte longer than it is.
LastInRowLate(byte) == NextInRow(byte) /\ IndexOf(byte) = PacketBytes + 1

LastInRow(byte) == NextInRow(byte) /\ IndexOf(byte) = PacketBytes

\* Whether the frame that ends with the byte carries one packet.
OnePacket(byte) == \A b \in ToSet(row) : PacketOf(b) = PacketOf(byte)

\* What is in packet_buffer from now on: a transmission under way reads it.
SetPacketBuffer(content) ==
    /\ packet_buffer' = content
    /\ txIntact' = (txPacket = NoPacket)

\* Mutant: a byte that is not the next one leaves the parser where it is.
HandleByteKeepsRow ==
    /\ pc = "loop" /\ batch # <<>>
    /\ LET byte == Head(batch) IN
          /\ ~LastInRow(byte)
          /\ row' = IF NextInRow(byte) THEN Append(row, byte) ELSE row
    /\ batch' = Tail(batch)
    /\ UNCHANGED <<rxVars, validation_queue, pc, completed, spliced,
                   packet_buffer, txVars, patternVars>>

\* add_byte on a byte that completes no packet.  The first byte of a packet
\* that finds the parser inside another may or may not be taken as a start.
HandleByte ==
    /\ pc = "loop" /\ batch # <<>>
    /\ LET byte == Head(batch) IN
          /\ ~LastInRow(byte)
          /\ row' \in IF NextInRow(byte) THEN {Append(row, byte)}
                      ELSE IF IndexOf(byte) = 1 THEN {<<>>, <<byte>>}
                      ELSE {<<>>}
    /\ batch' = Tail(batch)
    /\ UNCHANGED <<rxVars, validation_queue, pc, completed, spliced,
                   packet_buffer, txVars, patternVars>>

\* add_byte on the last byte of a frame that passes the decoder, then
\* construct_packet into packet_buffer.
CompletePacket ==
    /\ pc = "loop" /\ batch # <<>>
    /\ LastInRow(Head(batch))
    /\ batch' = Tail(batch)
    /\ row' = <<>>
    /\ completed' = PacketOf(Head(batch))
    /\ spliced' = IF OnePacket(Head(batch)) THEN {}
                  ELSE {PacketOf(b) : b \in ToSet(row)} \cup {completed'}
    /\ SetPacketBuffer(completed')
    /\ pc' = "transmit"
    /\ UNCHANGED <<rxVars, validation_queue, txPacket, nReplies, refused,
                   patternVars>>

\* The decoder refuses what the line has changed, and may refuse a splice.
RejectPacket ==
    /\ pc = "loop" /\ batch # <<>>
    /\ LastInRow(Head(batch))
    /\ LineErrors \/ ~OnePacket(Head(batch))
    /\ batch' = Tail(batch)
    /\ row' = <<>>
    /\ UNCHANGED <<rxVars, validation_queue, pc, completed, spliced,
                   packet_buffer, txVars, patternVars>>

\* transmit(packet_buffer): uart_tx refuses while a transmission is under way.
Transmit ==
    /\ pc = "transmit"
    /\ IF txPacket = NoPacket
         THEN txPacket' = completed /\ UNCHANGED refused
         ELSE refused' = refused \cup {completed} /\ UNCHANGED txPacket
    /\ pc' = "queue"
    /\ UNCHANGED <<rxVars, validation_queue, batch, row, completed, spliced,
                   packet_buffer, txIntact, nReplies, patternVars>>

\* Mutant: the queue's last slot is used too.
QueuePacketFillsAll ==
    /\ pc = "queue"
    /\ process_queue' = IF Len(process_queue) < NumPacketBuffers
                          THEN Append(process_queue, completed)
                          ELSE process_queue
    /\ pc' = "loop"
    /\ UNCHANGED <<rxVars, validation_queue, batch, row, completed, spliced,
                   packet_buffer, txVars, popped, reading>>

\* Mutant: the packet is put where the next pop takes it.
QueuePacketInFront ==
    /\ pc = "queue"
    /\ process_queue' = IF Len(process_queue) + 1 < NumPacketBuffers
                          THEN <<completed>> \o process_queue
                          ELSE process_queue
    /\ pc' = "loop"
    /\ UNCHANGED <<rxVars, validation_queue, batch, row, completed, spliced,
                   packet_buffer, txVars, popped, reading>>

\* process_queue.push(std::move(packet_buffer)): dropped when full.
QueuePacket ==
    /\ pc = "queue"
    /\ process_queue' = IF Len(process_queue) + 1 < NumPacketBuffers
                          THEN Append(process_queue, completed)
                          ELSE process_queue
    /\ pc' = "loop"
    /\ UNCHANGED <<rxVars, validation_queue, batch, row, completed, spliced,
                   packet_buffer, txVars, popped, reading>>

HandlerReturn ==
    /\ pc = "loop" /\ batch = <<>>
    /\ pc' = "idle"
    /\ UNCHANGED <<rxVars, validation_queue, batch, row, completed, spliced,
                   packet_buffer, txVars, patternVars>>

Handler ==
    \/ HandlerStart \/ HandleByte \/ CompletePacket \/ RejectPacket
    \/ Transmit \/ QueuePacket \/ HandlerReturn

\* The memory of a handler that has returned is written by later calls.
FrameOverwritten ==
    /\ StackReuse
    /\ pc = "idle" /\ packet_buffer # Garbage
    /\ SetPacketBuffer(Garbage)
    /\ UNCHANGED <<rxVars, validation_queue, pc, batch, row, completed,
                   spliced, txPacket, nReplies, refused, patternVars>>

-----------------------------------------------------------------------------
(* pattern_process_func, preempted by the cooperative handler.              *)

\* Mutant: a single queued packet is taken for none.
PatternPopTwo ==
    /\ pc = "idle" /\ ~reading /\ Len(process_queue) > 1
    /\ popped' = Head(process_queue)
    /\ process_queue' = Tail(process_queue)
    /\ reading' = TRUE
    /\ UNCHANGED <<rxVars, validation_queue, handlerVars, txVars>>

PatternPop ==
    /\ pc = "idle" /\ ~reading /\ process_queue # <<>>
    /\ popped' = Head(process_queue)
    /\ process_queue' = Tail(process_queue)
    /\ reading' = TRUE
    /\ UNCHANGED <<rxVars, validation_queue, handlerVars, txVars>>

\* add_packet reads the bytes the popped PacketBuffer points to.
PatternRead ==
    /\ pc = "idle" /\ reading
    /\ reading' = FALSE
    /\ UNCHANGED <<rxVars, validation_queue, handlerVars, txVars,
                   process_queue, popped>>

Step ==
    \/ StartReception \/ FinishStart
    \/ BufferRequest \/ RxReady \/ RxStopped \/ TxDone \/ TxAborted
    \/ Handler \/ FrameOverwritten
    \/ PatternPop \/ PatternRead

Next == Step /\ UNCHANGED scenario

\* The UART delivers what the host offers and ends what it sends; the URGENT
\* thread is never kept from running; its runs end well within their period,
\* so the MEDIUM thread gets the processor again and again.
Fairness ==
    /\ WF_pipelineVars(StartReception) /\ WF_pipelineVars(FinishStart)
    /\ WF_pipelineVars(BufferRequest) /\ WF_pipelineVars(RxReady)
    /\ WF_pipelineVars(TxDone)
    /\ WF_pipelineVars(Handler)
    /\ SF_pipelineVars(PatternPop) /\ SF_pipelineVars(PatternRead)

Spec == Init /\ [][Next]_vars

FairSpec == Spec /\ Fairness

-----------------------------------------------------------------------------
(* Properties *)

TypeOK ==
    /\ scenario \in Scenarios
    /\ reception \in {"off", "on", "stopped"} /\ starting \in BOOLEAN
    /\ current_buffer \in {0, 1}
    /\ rxBuffer \in {0, 1, NoBuffer} /\ rxNext \in {0, 1, NoBuffer}
    /\ rxFill \in 0 .. DmaBufferSize - 1 /\ nDoubled \in Nat
    /\ nReceived \in 0 .. PacketBytes * MaxPackets
    /\ validation_queue \in Seq(1 .. nReceived)
    /\ Len(validation_queue) <= DmaBufferSize
    /\ lost \subseteq Packet
    /\ pc \in {"idle", "loop", "transmit", "queue"}
    /\ batch \in Seq(1 .. nReceived)
    /\ row \in Seq(1 .. nReceived) /\ Len(row) < PacketBytes
    /\ completed \in Packet \cup {NoPacket}
    /\ spliced \subseteq Packet
    /\ packet_buffer \in Packet \cup {Garbage}
    /\ txPacket \in Packet \cup {NoPacket}
    /\ txIntact \in BOOLEAN
    /\ nReplies \in 0 .. MaxPackets
    /\ refused \subseteq Packet
    /\ process_queue \in Seq(Packet)
    /\ Len(process_queue) < NumPacketBuffers
    /\ popped \in Packet \cup {NoPacket}
    /\ reading \in BOOLEAN

\* However starts, requests and chunks fall, the driver is given for its next
\* buffer the very one it fills only around an early start: by a first request
\* that comes before start_process has switched current_buffer, and once more
\* after it has.  From then on buffer_pair alternates.
BuffersAlternate == nDoubled <= IF scenario.early THEN 2 ELSE 0

\* A chunk dropped in front of a full validation_queue costs or spoils only
\* packets with a byte in such a chunk: whatever is put together from several,
\* and may pass the decoder, is made of those, and one of those is completed
\* only so.
SplicedFromLost ==
    spliced \subseteq lost /\ (completed \in lost => completed \in spliced)

\* Packets leave the pipeline in the order they came in, each at most once,
\* whatever was lost, refused or dropped on the way; and what the pattern
\* thread finds where the packet it popped should be is never an older one:
\* the frame was overwritten, if at all, by a newer.
InOrder ==
    /\ [][popped' # popped => popped' > popped]_vars
    /\ [](reading => packet_buffer >= popped)

\* Whatever gets into a queue is taken on: the bytes of validation_queue by
\* the handler, every packet of process_queue by the pattern thread.
QueuesAreServed ==
    /\ validation_queue # <<>> ~> validation_queue = <<>>
    /\ \A p \in Packet :
          p \in ToSet(process_queue) ~> (popped = p /\ reading)

\* A host that waits for each reply is never refused one, whatever becomes of
\* its frames and of the replies: the line is idle when its next packet
\* completes, and no chunk is lost.
WaitingHostNotRefused == HostWaits => refused = {} /\ lost = {}

\* On a line without errors, such a host gets a reply for every packet if the
\* frame sent back has the bytes it awaits.  If it has fewer, as for the logic
\* test, which awaits as many as it has sent, it never gets a second.
WaitingHostIsAnswered ==
    /\ HostWaits /\ ~LineErrors /\ Content => <>(nReplies = MaxPackets)
    /\ HostWaits /\ ~Content => [](nReplies <= 1)

\* "Error correction requires the device to consume and retransmit incoming
\* data", and its pipeline leads to the processing modules: the driver that
\* sends from packet_buffer, and the pattern thread that was handed it, find
\* the packet they were given there.
GivenPacketStays == txIntact /\ (reading => packet_buffer = popped)
=============================================================================
