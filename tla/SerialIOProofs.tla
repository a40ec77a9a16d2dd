--------------------------- MODULE SerialIOProofs ---------------------------
(***************************************************************************)
(* The safety of SerialIO for every frame length, number of packets, size  *)
(* of the DMA buffers and of process_queue, and every host and line.       *)
(*                                                                         *)
(* The invariants build on each other: DriverInv (the two DMA buffers) is  *)
(* on its own; StreamInv (where the bytes between the line and the parser  *)
(* are) is what PacketsInOrder, GapsNoticed with BytesMissed (which of     *)
(* them were lost) and LineWithin (how far a waiting host has got) rest on.*)
(***************************************************************************)
EXTENDS SerialIO, SequenceTheorems, TLAPS

-----------------------------------------------------------------------------
(* Bytes and packets.  Each lemma holds for every frame length.             *)

\* A byte of the line is determined by its packet and its place in it.

LEMMA ByteSplit ==
    ASSUME NEW b \in Nat \ {0}
    PROVE  /\ PacketOf(b) \in Nat \ {0}
           /\ IndexOf(b) \in 1 .. PacketBytes
           /\ b = PacketBytes * (PacketOf(b) - 1) + IndexOf(b)
  BY SerialAssumption DEF PacketOf, IndexOf

\* A product grows with its factor.
LEMMA TimesMonotonic ==
    ASSUME NEW m \in Nat, NEW n \in Nat, NEW k \in Nat, m <= n
    PROVE  k * m <= k * n
  OBVIOUS

\* The bytes of a packet lie after those of the packet before it.
LEMMA PacketBounds ==
    ASSUME NEW b \in Nat \ {0}
    PROVE  /\ PacketBytes * (PacketOf(b) - 1) < b
           /\ b <= PacketBytes * PacketOf(b)
<1> DEFINE q == PacketOf(b)
           i == IndexOf(b)
<1>1. q \in Nat \ {0} /\ i \in 1 .. PacketBytes /\ b = PacketBytes * (q - 1) + i
  BY ByteSplit
<1>2. PacketBytes * q = PacketBytes * (q - 1) + PacketBytes
  BY <1>1, SerialAssumption
<1> HIDE DEF q, i
<1>3. PacketBytes * (q - 1) \in Nat
  BY <1>1, SerialAssumption
<1>4. PacketBytes * (q - 1) < b /\ b <= PacketBytes * q
  BY <1>1, <1>2, <1>3, SerialAssumption
<1> QED BY <1>4 DEF q

\* A byte after the end of packet p belongs to a later packet.
LEMMA PacketAfter ==
    ASSUME NEW b \in Nat \ {0}, NEW p \in Nat, b > PacketBytes * p
    PROVE  PacketOf(b) > p
<1>1. PacketOf(b) \in Nat BY ByteSplit
<1>2. PacketOf(b) <= p => PacketBytes * PacketOf(b) <= PacketBytes * p
  BY <1>1, TimesMonotonic, SerialAssumption
<1>3. PacketBytes * PacketOf(b) \in Nat /\ PacketBytes * p \in Nat
  BY <1>1, SerialAssumption
<1> QED BY <1>1, <1>2, <1>3, PacketBounds

\* A byte up to the end of packet p belongs to p or an earlier packet.
LEMMA PacketAtMost ==
    ASSUME NEW b \in Nat \ {0}, NEW p \in Nat, b <= PacketBytes * p
    PROVE  PacketOf(b) <= p
<1>1. PacketOf(b) \in Nat /\ PacketOf(b) - 1 \in Nat BY ByteSplit
<1>2. p <= PacketOf(b) - 1 => PacketBytes * p <= PacketBytes * (PacketOf(b) - 1)
  BY <1>1, TimesMonotonic, SerialAssumption
<1>3. PacketBytes * (PacketOf(b) - 1) \in Nat /\ PacketBytes * p \in Nat
  BY <1>1, SerialAssumption
<1> QED BY <1>1, <1>2, <1>3, PacketBounds

\* No two bytes have the same place in the same packet.
LEMMA SameByte ==
    ASSUME NEW a \in Nat \ {0}, NEW b \in Nat \ {0},
           PacketOf(a) = PacketOf(b), IndexOf(a) = IndexOf(b)
    PROVE  a = b
  BY ByteSplit

\* The byte at place i of packet p.
LEMMA ByteAt ==
    ASSUME NEW p \in Nat \ {0}, NEW i \in 1 .. PacketBytes
    PROVE  /\ PacketBytes * (p - 1) + i \in Nat \ {0}
           /\ PacketOf(PacketBytes * (p - 1) + i) = p
           /\ IndexOf(PacketBytes * (p - 1) + i) = i
<1> DEFINE b == PacketBytes * (p - 1) + i
<1>1. p - 1 \in Nat /\ PacketBytes * (p - 1) \in Nat /\ i \in Nat \ {0}
  BY SerialAssumption
<1>2. b \in Nat \ {0} /\ b > PacketBytes * (p - 1)
  BY <1>1
<1>3. PacketBytes * p = PacketBytes * (p - 1) + PacketBytes
  BY SerialAssumption
<1>4. b <= PacketBytes * p
  BY <1>1, <1>3, SerialAssumption
<1>5. b - PacketBytes * (p - 1) = i
  BY <1>1
<1> HIDE DEF b
<1>6. PacketOf(b) \in Nat /\ PacketOf(b) > p - 1 /\ PacketOf(b) <= p
  BY <1>1, <1>2, <1>4, ByteSplit, PacketAfter, PacketAtMost
<1>7. PacketOf(b) = p
  BY <1>1, <1>6
<1>8. IndexOf(b) = b - PacketBytes * (p - 1) /\ IndexOf(b) \in Nat
  BY <1>1, <1>2, <1>7, ByteSplit
<1> QED BY <1>2, <1>5, <1>7, <1>8 DEF b

\* The last byte of a packet is where it ends.
LEMMA LastByteOf ==
    ASSUME NEW b \in Nat \ {0}, IndexOf(b) = PacketBytes
    PROVE  b = PacketBytes * PacketOf(b)
  BY ByteSplit, SerialAssumption

-----------------------------------------------------------------------------
(* buffer_pair *)

\* The buffer the driver was given last.
LastGiven == IF rxNext = NoBuffer THEN rxBuffer ELSE rxNext

\* current_buffer is the DMA buffer the driver was not given last, but for two
\* times: before start_process has switched it for the first, and, if the driver
\* had asked by then, from that switch to the next request.
DriverInv ==
    /\ reception \in {"off", "on", "stopped"} /\ current_buffer \in {0, 1}
    /\ nDoubled \in 0 .. 2 /\ (nDoubled > 0 => scenario.early)
    /\ reception = "off" => ~starting /\ rxNext = NoBuffer /\ nDoubled = 0
    /\ reception = "on" =>
         /\ rxBuffer \in {0, 1} /\ rxNext \in {0, 1, NoBuffer}
         /\ starting => IF nDoubled = 0
                          THEN rxBuffer = current_buffer /\ rxNext = NoBuffer
                          ELSE nDoubled = 1 /\ LastGiven = 1 - current_buffer
         /\ ~starting => LastGiven = IF nDoubled = 1 THEN current_buffer
                                                ELSE 1 - current_buffer

\* However the requests, the chunks and the stops come, before start_process has
\* switched current_buffer or after, UART_RX_BUF_REQUEST hands the driver the
\* buffer it is filling at most twice, and never when it asks after the switch.
THEOREM DmaBuffersAlternate == Spec => []BuffersAlternate
<1>1. Init => DriverInv
  BY DEF Init, DriverInv
<1>2. DriverInv /\ [Next]_vars => DriverInv'
  <2> SUFFICES ASSUME DriverInv, [Next]_vars PROVE DriverInv' OBVIOUS
  <2> USE DEF DriverInv, NoBuffer, LastGiven
  <2>0. scenario' = scenario BY DEF Next, vars
  <2>1. CASE StartReception BY <2>0, <2>1 DEF StartReception
  <2>2. CASE FinishStart BY <2>0, <2>2 DEF FinishStart
  <2>3. CASE BufferRequest
    <3>1. /\ reception = "on" /\ (starting => scenario.early) /\ rxNext = NoBuffer
          /\ UNCHANGED <<reception, starting, rxBuffer>>
          /\ rxNext' = current_buffer /\ current_buffer' = 1 - current_buffer
          /\ nDoubled' = IF rxBuffer = current_buffer THEN nDoubled + 1 ELSE nDoubled
      BY <2>3 DEF BufferRequest, Receiving
    <3> QED BY <2>0, <3>1
  <2>4. CASE RxReady
    <3>1. /\ reception = "on"
          /\ UNCHANGED <<reception, starting, current_buffer, nDoubled>>
          /\ \/ rxNext # NoBuffer /\ rxBuffer' = rxNext /\ rxNext' = NoBuffer
             \/ UNCHANGED <<rxBuffer, rxNext>>
      BY <2>4 DEF RxReady, Receiving
    <3> QED BY <2>0, <3>1
  <2>5. CASE RxStopped BY <2>0, <2>5 DEF RxStopped
  <2>6. CASE UNCHANGED driverVars BY <2>0, <2>6 DEF driverVars
  <2> QED
    BY <2>1, <2>2, <2>3, <2>4, <2>5, <2>6
    DEF Next, Step, vars, pipelineVars, rxVars, TxDone, TxAborted, Handler,
        HandlerStart, HandleByte, CompletePacket, RejectPacket, Transmit,
        QueuePacket, HandlerReturn, FrameOverwritten, PatternPop, PatternRead
<1>3. DriverInv => BuffersAlternate
  BY DEF DriverInv, BuffersAlternate
<1> QED BY <1>1, <1>2, <1>3, PTL DEF Spec

-----------------------------------------------------------------------------
(* The bytes between the line and the parser, and the replies.              *)

\* Where packet p ends on the line.
UpTo(p) == PacketBytes * p

\* The bytes the handler has yet to look at, in batch and then in
\* validation_queue, are in the order of the line and belong to packets after
\* the last one completed; there is room on the line for those that follow.
BytesInOrder ==
    /\ \A i, j \in 1 .. Len(batch) : i < j => batch[i] < batch[j]
    /\ \A i \in 1 .. Len(batch), j \in 1 .. Len(validation_queue) :
          batch[i] < validation_queue[j]
    /\ \A i, j \in 1 .. Len(validation_queue) :
          i < j => validation_queue[i] < validation_queue[j]
    /\ \A i \in 1 .. Len(batch) : batch[i] > UpTo(completed)
    /\ \A i \in 1 .. Len(validation_queue) :
          /\ validation_queue[i] > UpTo(completed)
          /\ validation_queue[i] + Len(validation_queue) - i <= nReceived
    /\ UpTo(completed) <= nReceived

\* Each reply that has ended, is under way or is about to start is for a packet
\* of its own.
RepliesCounted ==
    /\ nReplies + (IF txPacket = NoPacket THEN 0 ELSE 1)
                + (IF pc = "transmit" THEN 1 ELSE 0) <= completed
    /\ pc \in {"transmit", "queue"} => completed # NoPacket

\* The inductive invariant the properties of packets rest on.
StreamInv == TypeOK /\ BytesInOrder /\ RepliesCounted

\* Packets end at a natural position.
LEMMA UpToNat == ASSUME NEW p \in Nat PROVE UpTo(p) \in Nat
  BY SerialAssumption DEF UpTo

\* A later packet ends later.
LEMMA UpToMonotonic ==
    ASSUME NEW p \in Nat, NEW q \in Nat, p <= q
    PROVE  UpTo(p) <= UpTo(q)
  BY TimesMonotonic, SerialAssumption DEF UpTo

\* The host has been content with no more replies than there were.
LEMMA AnsweredWithin ==
    ASSUME nReplies \in Nat
    PROVE  Answered \in Nat /\ Answered <= nReplies
  BY DEF Answered

\* The host never offers more than its packets.
LEMMA OfferedWithin ==
    ASSUME nReplies \in 0 .. MaxPackets
    PROVE  Offered \in 0 .. UpTo(MaxPackets)
<1>1. CASE HostWaits /\ Answered + 1 < MaxPackets
  <2>1. Offered = UpTo(Answered + 1) BY <1>1 DEF Offered, UpTo
  <2>2. Answered + 1 \in Nat /\ Answered + 1 <= MaxPackets
    BY <1>1, AnsweredWithin, SerialAssumption
  <2> QED BY <2>1, <2>2, UpToNat, UpToMonotonic, SerialAssumption
<1>2. CASE ~(HostWaits /\ Answered + 1 < MaxPackets)
  <2>1. Offered = UpTo(MaxPackets) BY <1>2 DEF Offered, UpTo
  <2> QED BY <2>1, UpToNat, SerialAssumption
<1> QED BY <1>1, <1>2

\* StreamInv holds before start_process.
LEMMA StreamInvInit == Init => StreamInv
<1> SUFFICES ASSUME Init PROVE StreamInv OBVIOUS
<1> USE SerialAssumption DEF Init, NoBuffer, NoPacket
<1>0. UpTo(0) = 0 /\ UpTo(MaxPackets) \in Nat
  BY UpToNat DEF UpTo
<1>1. TypeOK
  <2>1. txIntact \in BOOLEAN /\ reading \in BOOLEAN /\ starting \in BOOLEAN
    BY Zenon
  <2> QED BY <1>0, <2>1 DEF TypeOK, Packet, Garbage, UpTo
<1>2. BytesInOrder BY <1>0 DEF BytesInOrder
<1>3. RepliesCounted BY DEF RepliesCounted
<1> QED BY <1>1, <1>2, <1>3 DEF StreamInv

\* A step that leaves the bytes on their way and the last packet alone.
LEMMA BytesUntouched ==
    ASSUME BytesInOrder,
           UNCHANGED <<batch, validation_queue, completed, nReceived>>
    PROVE  BytesInOrder'
  BY DEF BytesInOrder, UpTo

\* What StreamInv says of the numbers the proofs compare.
LEMMA StreamNumbers ==
    ASSUME StreamInv
    PROVE  /\ nReceived \in Nat /\ nReceived <= UpTo(MaxPackets)
           /\ completed \in Nat /\ completed <= MaxPackets
           /\ UpTo(completed) \in Nat
           /\ Len(validation_queue) \in Nat
           /\ \A i \in 1 .. Len(validation_queue) :
                 validation_queue[i] \in 1 .. nReceived
           /\ Len(batch) \in Nat
           /\ \A i \in 1 .. Len(batch) : batch[i] \in 1 .. nReceived
<1>1. /\ nReceived \in Nat /\ nReceived <= UpTo(MaxPackets)
      /\ completed \in Nat /\ completed <= MaxPackets
  BY SerialAssumption, UpToNat
  DEF StreamInv, TypeOK, UpTo, Packet, NoPacket
<1>2. UpTo(completed) \in Nat BY <1>1, UpToNat
<1>3. validation_queue \in Seq(1 .. nReceived) /\ batch \in Seq(1 .. nReceived)
  BY DEF StreamInv, TypeOK
<1> QED BY <1>1, <1>2, <1>3, LenProperties, ElementOfSeq

\* UART_RX_RDY appends the next bytes of the line, or loses them whole.
LEMMA RxReadyInOrder ==
    ASSUME StreamInv, RxReady, UNCHANGED scenario
    PROVE  StreamInv'
<1>1. PICK n \in 1 .. DmaBufferSize - rxFill :
        /\ nReceived + n <= Offered
        /\ nReceived' = nReceived + n
        /\ IF Accepts(n)
             THEN /\ validation_queue' = validation_queue \o Chunk(n)
                  /\ UNCHANGED lost
             ELSE /\ lost' = lost \cup {PacketOf(b) : b \in ToSet(Chunk(n))}
                  /\ UNCHANGED validation_queue
        /\ IF rxFill + n = DmaBufferSize
             THEN rxFill' = 0 /\ rxBuffer' = rxNext /\ rxNext' = NoBuffer
             ELSE rxFill' = rxFill + n /\ UNCHANGED <<rxBuffer, rxNext>>
  BY DEF RxReady
<1>2. /\ UNCHANGED <<scenario, reception, starting, current_buffer, nDoubled>>
      /\ UNCHANGED <<pc, batch, row, completed, spliced, packet_buffer>>
      /\ UNCHANGED <<txPacket, txIntact, nReplies, refused>>
      /\ UNCHANGED <<process_queue, popped, reading>>
  BY DEF RxReady, handlerVars, txVars, patternVars
<1>3. n \in Nat \ {0} /\ nReceived \in Nat /\ nReceived' \in 0 .. UpTo(MaxPackets)
  <2>1. nReceived \in Nat /\ n \in Nat \ {0}
    BY <1>1, UpToNat, SerialAssumption DEF StreamInv, TypeOK, UpTo
  <2>2. Offered \in 0 .. UpTo(MaxPackets)
    BY OfferedWithin DEF StreamInv, TypeOK
  <2> QED BY <1>1, <2>1, <2>2, UpToNat, SerialAssumption
<1>4. rxFill' \in 0 .. DmaBufferSize - 1 /\ rxBuffer' \in {0, 1, NoBuffer}
      /\ rxNext' \in {0, 1, NoBuffer}
  BY <1>1, SerialAssumption DEF StreamInv, TypeOK
<1>5. /\ validation_queue \in Seq(1 .. nReceived)
      /\ validation_queue \in Seq(1 .. nReceived')
      /\ batch \in Seq(1 .. nReceived')
      /\ row \in Seq(1 .. nReceived')
  <2>1. 1 .. nReceived \subseteq 1 .. nReceived' BY <1>1, <1>3
  <2>2. \A s \in Seq(1 .. nReceived) : s \in Seq(1 .. nReceived')
    BY <2>1, SeqMonotonic
  <2>3. /\ validation_queue \in Seq(1 .. nReceived)
        /\ batch \in Seq(1 .. nReceived)
        /\ row \in Seq(1 .. nReceived)
    BY DEF StreamInv, TypeOK
  <2> QED BY <2>2, <2>3
<1>6. RepliesCounted' BY <1>2 DEF StreamInv, RepliesCounted
<1>7. UpTo(completed) \in Nat /\ UpTo(completed)' = UpTo(completed)
  BY <1>2, StreamNumbers DEF UpTo
<1>8. CASE Accepts(n)
  <2>1. validation_queue' = validation_queue \o Chunk(n) /\ UNCHANGED lost
    BY <1>1, <1>8
  <2>2. /\ Chunk(n) \in Seq(1 .. nReceived') /\ Len(Chunk(n)) = n
        /\ \A i \in 1 .. n : Chunk(n)[i] = nReceived + i
    BY <1>1, <1>3 DEF Chunk
  <2> DEFINE had == Len(validation_queue)
  <2>3. /\ validation_queue' \in Seq(1 .. nReceived')
        /\ had \in Nat /\ Len(validation_queue') = had + n
        /\ \A i \in 1 .. had + n : validation_queue'[i] =
              IF i <= had THEN validation_queue[i] ELSE nReceived + i - had
    <3>1. /\ validation_queue' \in Seq(1 .. nReceived')
          /\ had \in Nat /\ Len(validation_queue') = had + n
          /\ \A i \in 1 .. had + n : validation_queue'[i] =
                IF i <= had THEN validation_queue[i] ELSE Chunk(n)[i - had]
      <4> DEFINE S == 1 .. nReceived'
                 s == validation_queue
                 t == Chunk(n)
      <4>1. s \in Seq(S) /\ t \in Seq(S) /\ Len(t) = n
        BY <1>5, <2>2
      <4>2. had \in Nat BY <1>5
      <4> HIDE DEF S, s, t
      <4>3. /\ s \o t \in Seq(S) /\ Len(s \o t) = Len(s) + Len(t)
            /\ \A i \in 1 .. Len(s) + Len(t) :
                  (s \o t)[i] = IF i <= Len(s) THEN s[i] ELSE t[i - Len(s)]
        BY <4>1, ConcatProperties
      <4> QED BY <2>1, <4>1, <4>2, <4>3 DEF S, s, t
    <3> HIDE DEF had
    <3>2. \A i \in 1 .. had + n : i > had => i - had \in 1 .. n
      BY <3>1, <1>3
    <3> QED BY <1>3, <2>2, <3>1, <3>2
  <2>4. had + n <= DmaBufferSize BY <1>8 DEF Accepts
  <2>5. TypeOK'
    BY SMTT(30), <1>2, <1>3, <1>4, <1>5, <2>1, <2>3, <2>4 DEF StreamInv, TypeOK, UpTo
  <2>6. /\ \A i \in 1 .. had : /\ validation_queue[i] \in 1 .. nReceived
                               /\ validation_queue[i] > UpTo(completed)
                               /\ validation_queue[i] + had - i <= nReceived
        /\ \A i, j \in 1 .. had :
              i < j => validation_queue[i] < validation_queue[j]
        /\ \A i \in 1 .. Len(batch), j \in 1 .. had :
              batch[i] < validation_queue[j]
        /\ UpTo(completed) <= nReceived
    BY StreamNumbers DEF StreamInv, BytesInOrder
  <2>7. \A i \in 1 .. Len(batch) : batch[i] \in 1 .. nReceived
    BY StreamNumbers
  <2> HIDE DEF had
  <2> DEFINE q == validation_queue'
  <2>8. \A i \in 1 .. had + n :
          \/ /\ i \in 1 .. had /\ q[i] = validation_queue[i]
             /\ q[i] \in Nat /\ UpTo(completed) < q[i]
             /\ q[i] <= nReceived /\ q[i] + had - i <= nReceived
          \/ i > had /\ q[i] = nReceived + i - had
    BY <2>3, <2>6
  <2>9. /\ nReceived' = nReceived + n /\ had \in Nat
        /\ UpTo(completed) \in Nat /\ UpTo(completed) <= nReceived
    BY <1>1, <1>7, <2>3, <2>6
  <2> HIDE DEF q
  <2>10. \A i \in 1 .. had + n :
          /\ q[i] > UpTo(completed)
          /\ q[i] + (had + n) - i <= nReceived'
    BY <1>3, <2>8, <2>9
  <2>11. ASSUME NEW i \in 1 .. had + n, NEW j \in 1 .. had + n, i < j
         PROVE  q[i] < q[j]
    <3>1. CASE j \in 1 .. had
      <4>1. i \in 1 .. had BY <1>3, <2>9, <2>11, <3>1
      <4> QED BY <2>6, <2>8, <2>9, <2>11, <3>1, <4>1
    <3>2. CASE j \notin 1 .. had
      <4>1. q[j] = nReceived + j - had /\ j > had BY <2>8, <3>2
      <4> QED BY <1>3, <2>8, <2>9, <2>11, <4>1
    <3> QED BY <3>1, <3>2
  <2>12. ASSUME NEW i \in 1 .. Len(batch), NEW j \in 1 .. had + n
         PROVE  batch[i] < q[j]
    <3>1. CASE j \in 1 .. had BY <2>6, <2>8, <2>9, <3>1
    <3>2. CASE j \notin 1 .. had
      <4>1. q[j] = nReceived + j - had /\ j > had BY <2>8, <3>2
      <4> QED BY <1>3, <2>7, <2>9, <4>1
    <3> QED BY <3>1, <3>2
  <2>13. BytesInOrder'
    BY <1>1, <1>2, <1>3, <1>7, <2>3, <2>6, <2>9, <2>10, <2>11, <2>12
    DEF q, StreamInv, BytesInOrder
  <2> QED BY <1>6, <2>5, <2>13 DEF StreamInv
<1>9. CASE ~Accepts(n)
  <2>1. /\ lost' = lost \cup {PacketOf(b) : b \in ToSet(Chunk(n))}
        /\ UNCHANGED validation_queue
    BY <1>1, <1>9
  <2>2. lost' \subseteq Packet
    <3>1. ASSUME NEW b \in ToSet(Chunk(n)) PROVE PacketOf(b) \in Packet
      <4>1. PICK i \in 1 .. n : b = nReceived + i
        BY <1>3 DEF ToSet, Chunk
      <4>2. b \in Nat \ {0} /\ b <= UpTo(MaxPackets)
        BY <1>1, <1>3, <4>1, UpToNat, SerialAssumption
      <4> QED BY <4>2, PacketAtMost, ByteSplit, SerialAssumption DEF UpTo, Packet
    <3> QED BY <2>1, <3>1 DEF StreamInv, TypeOK
  <2>3. TypeOK'
    BY <1>2, <1>3, <1>4, <1>5, <2>1, <2>2 DEF StreamInv, TypeOK, UpTo
  <2>4. BytesInOrder'
    <3>1. \A i \in 1 .. Len(validation_queue) :
            /\ validation_queue[i] \in Nat
            /\ validation_queue[i] + Len(validation_queue) - i <= nReceived'
      BY <1>1, <1>3, StreamNumbers DEF StreamInv, BytesInOrder
    <3> QED BY <1>1, <1>2, <1>3, <1>7, <2>1, <3>1 DEF StreamInv, BytesInOrder
  <2> QED BY <1>6, <2>3, <2>4 DEF StreamInv
<1> QED BY <1>8, <1>9

\* The handler goes on to the next byte of its batch.
LEMMA NextOfBatch ==
    ASSUME StreamInv, batch # <<>>, batch' = Tail(batch)
    PROVE  /\ Head(batch) = batch[1] /\ Head(batch) \in 1 .. nReceived
           /\ Head(batch) > UpTo(completed)
           /\ batch' \in Seq(1 .. nReceived)
           /\ Len(batch) \in Nat \ {0} /\ Len(batch') = Len(batch) - 1
           /\ \A i \in 1 .. Len(batch') :
                 /\ i + 1 \in 1 .. Len(batch) /\ batch'[i] = batch[i + 1]
                 /\ batch'[i] > Head(batch)
<1>1. batch \in Seq(1 .. nReceived) BY DEF StreamInv, TypeOK
<1>2. /\ Head(batch) = batch[1] /\ Head(batch) \in 1 .. nReceived
      /\ batch' \in Seq(1 .. nReceived)
      /\ Len(batch) \in Nat \ {0} /\ Len(batch') = Len(batch) - 1
      /\ \A i \in 1 .. Len(batch') : batch'[i] = batch[i + 1]
  <2>1. /\ Head(batch) \in 1 .. nReceived
        /\ batch' \in Seq(1 .. nReceived)
        /\ Len(batch') = Len(batch) - 1
        /\ \A i \in 1 .. Len(batch') : batch'[i] = batch[i + 1]
    BY <1>1, HeadTailProperties
  <2>2. Head(batch) = batch[1] /\ Len(batch) \in Nat \ {0}
    BY <1>1
  <2> QED BY <2>1, <2>2
<1>3. \A i \in 1 .. Len(batch') : i + 1 \in 1 .. Len(batch) /\ 1 < i + 1
  BY <1>2
<1>4. 1 \in 1 .. Len(batch) BY <1>2
<1> QED BY <1>2, <1>3, <1>4, StreamNumbers DEF StreamInv, BytesInOrder

\* ... which completes no packet.
LEMMA NextOfBatchInOrder ==
    ASSUME StreamInv, batch # <<>>, batch' = Tail(batch),
           UNCHANGED <<validation_queue, completed, nReceived>>
    PROVE  BytesInOrder'
<1>1. UpTo(completed)' = UpTo(completed) BY DEF UpTo
<1> QED BY <1>1, NextOfBatch DEF StreamInv, BytesInOrder

\* add_byte on a byte that completes no packet keeps StreamInv.
LEMMA HandleByteInOrder ==
    ASSUME StreamInv, HandleByte, UNCHANGED scenario
    PROVE  StreamInv'
<1>1. batch # <<>> /\ batch' = Tail(batch) BY DEF HandleByte
<1>2. row' \in Seq(1 .. nReceived) /\ Len(row') < PacketBytes
  <2>1. /\ Head(batch) \in 1 .. nReceived /\ Head(batch) \in Nat \ {0}
        /\ <<>> \in Seq(1 .. nReceived)
    BY <1>1, NextOfBatch
  <2>2. row \in Seq(1 .. nReceived) /\ Len(row) \in Nat /\ Len(row) < PacketBytes
    BY DEF StreamInv, TypeOK
  <2>3. CASE NextInRow(Head(batch))
    <3>1. IndexOf(Head(batch)) \in 1 .. PacketBytes
      BY <2>1, ByteSplit
    <3>2. Len(row) + 1 < PacketBytes /\ row' = Append(row, Head(batch))
      BY <2>2, <2>3, <3>1, SerialAssumption DEF HandleByte, LastInRow, NextInRow
    <3> QED BY <2>1, <2>2, <3>2, AppendProperties
  <2>4. CASE ~NextInRow(Head(batch))
    <3>1. \/ row' = <<>>
          \/ IndexOf(Head(batch)) = 1 /\ row' = <<Head(batch)>>
      BY <2>4 DEF HandleByte
    <3>2. IndexOf(Head(batch)) = 1 => PacketBytes > 1
      BY <2>2, <2>4, SerialAssumption DEF NextInRow
    <3>3. <<Head(batch)>> \in Seq(1 .. nReceived) /\ Len(<<Head(batch)>>) = 1
      BY <2>1
    <3>4. Len(<<>>) = 0 /\ PacketBytes > 0 BY SerialAssumption
    <3> QED BY <2>1, <3>1, <3>2, <3>3, <3>4
  <2> QED BY <2>3, <2>4
<1>3. TypeOK'
  BY <1>1, <1>2, NextOfBatch
  DEF HandleByte, StreamInv, TypeOK, rxVars, driverVars, txVars, patternVars
<1>4. BytesInOrder'
  BY <1>1, NextOfBatchInOrder DEF HandleByte, rxVars, driverVars
<1>5. RepliesCounted'
  BY DEF HandleByte, StreamInv, RepliesCounted, txVars
<1> QED BY <1>3, <1>4, <1>5 DEF StreamInv

\* A completed packet is later than the last one: its last byte is.
LEMMA CompletePacketInOrder ==
    ASSUME StreamInv, CompletePacket, UNCHANGED scenario
    PROVE  StreamInv' /\ completed' > completed
<1> DEFINE byte == Head(batch)
<1>1. /\ batch # <<>> /\ batch' = Tail(batch)
      /\ IndexOf(byte) = PacketBytes /\ completed' = PacketOf(byte)
      /\ UNCHANGED <<validation_queue, nReceived>>
  BY DEF CompletePacket, LastInRow, rxVars, driverVars
<1>2. byte \in Nat \ {0} /\ byte > UpTo(completed) /\ byte <= UpTo(MaxPackets)
  <2>1. byte \in 1 .. nReceived /\ byte > UpTo(completed)
    BY <1>1, NextOfBatch
  <2> HIDE DEF byte
  <2>2. UpTo(MaxPackets) \in Nat BY UpToNat, SerialAssumption
  <2> QED BY <2>1, <2>2, StreamNumbers
<1> HIDE DEF byte
<1>3. completed' \in Packet /\ completed' > completed /\ UpTo(completed') = byte
  <2>1. completed \in Nat /\ completed' \in Nat \ {0}
    BY <1>1, <1>2, ByteSplit, StreamNumbers
  <2>2. completed' > completed /\ completed' <= MaxPackets
    BY <1>1, <1>2, <2>1, PacketAfter, PacketAtMost, SerialAssumption DEF UpTo
  <2>3. UpTo(completed') = byte
    BY <1>1, <1>2, LastByteOf DEF UpTo
  <2> QED BY <2>1, <2>2, <2>3, SerialAssumption DEF Packet
<1>4. UpTo(completed)' = byte BY <1>3 DEF UpTo
<1>5. BytesInOrder'
  <2>1. \A j \in 1 .. Len(validation_queue) : byte < validation_queue[j]
    BY <1>1, NextOfBatch DEF StreamInv, BytesInOrder, byte
  <2>2. /\ \A i, j \in 1 .. Len(batch') : i < j => batch'[i] < batch'[j]
        /\ \A i \in 1 .. Len(batch'), j \in 1 .. Len(validation_queue) :
              batch'[i] < validation_queue[j]
        /\ \A i \in 1 .. Len(batch') : batch'[i] > byte
        /\ byte <= nReceived
    BY <1>1, NextOfBatch DEF StreamInv, BytesInOrder, byte
  <2> QED BY <1>1, <1>2, <1>4, <2>1, <2>2, StreamNumbers DEF StreamInv, BytesInOrder
<1>6. RepliesCounted'
  <2>1. /\ pc = "loop" /\ UNCHANGED <<txPacket, nReplies>>
        /\ pc' \in {"transmit", "queue"} => completed' # NoPacket
    BY <1>3 DEF CompletePacket, txVars, NoPacket, Packet
  <2>2. nReplies + (IF txPacket = NoPacket THEN 0 ELSE 1) <= completed
    <3>1. /\ nReplies \in Nat
          /\ nReplies + (IF txPacket = NoPacket THEN 0 ELSE 1) + 0 <= completed
      BY <2>1 DEF StreamInv, RepliesCounted, TypeOK
    <3> QED BY <3>1
  <2>3. /\ nReplies \in Nat /\ completed \in Nat
        /\ completed' \in Nat /\ completed' > completed
    BY <1>3, StreamNumbers DEF Packet, StreamInv, TypeOK
  <2> QED BY <2>1, <2>2, <2>3 DEF RepliesCounted
<1>7. txIntact' \in BOOLEAN BY Zenon DEF CompletePacket, SetPacketBuffer
<1>8. spliced' \subseteq Packet
  <2>1. ASSUME NEW b \in ToSet(row) PROVE PacketOf(b) \in Packet
    <3>1. row \in Seq(1 .. nReceived) BY DEF StreamInv, TypeOK
    <3>2. \A i \in 1 .. Len(row) : row[i] \in 1 .. nReceived
      BY <3>1, ElementOfSeq
    <3>3. b \in 1 .. nReceived BY <2>1, <3>1, <3>2 DEF ToSet
    <3>4. b \in Nat \ {0} /\ b <= PacketBytes * MaxPackets
      BY <3>3, StreamNumbers, UpToNat, SerialAssumption DEF UpTo
    <3>5. PacketOf(b) \in Nat \ {0} /\ PacketOf(b) <= MaxPackets
      BY <3>4, ByteSplit, PacketAtMost, SerialAssumption
    <3> QED BY <3>5, SerialAssumption DEF Packet
  <2> QED BY <1>3, <2>1 DEF CompletePacket
<1>9. TypeOK'
  <2>1. /\ row' = <<>> /\ packet_buffer' = completed' /\ pc' = "transmit"
        /\ UNCHANGED <<reception, starting, current_buffer, rxBuffer, rxNext,
                       rxFill, nDoubled, nReceived, lost, validation_queue,
                       txPacket, nReplies, refused, process_queue, popped,
                       reading>>
    BY DEF CompletePacket, SetPacketBuffer, rxVars, driverVars, patternVars
  <2>2. batch' \in Seq(1 .. nReceived) BY <1>1, NextOfBatch
  <2>3. row' \in Seq(1 .. nReceived) /\ Len(row') < PacketBytes
    BY <2>1, SerialAssumption
  <2>4. TypeOK BY DEF StreamInv
  <2> QED BY <1>3, <1>7, <1>8, <2>1, <2>2, <2>3, <2>4 DEF TypeOK
<1> QED BY <1>3, <1>5, <1>6, <1>9 DEF StreamInv

\* A refused frame keeps StreamInv.
LEMMA RejectPacketInOrder ==
    ASSUME StreamInv, RejectPacket, UNCHANGED scenario
    PROVE  StreamInv'
<1>1. /\ batch # <<>> /\ batch' = Tail(batch)
      /\ UNCHANGED <<validation_queue, nReceived, completed>>
  BY DEF RejectPacket, rxVars, driverVars
<1>2. TypeOK'
  BY <1>1, NextOfBatch, SerialAssumption
  DEF RejectPacket, StreamInv, TypeOK, rxVars, driverVars, txVars, patternVars
<1>3. BytesInOrder' BY <1>1, NextOfBatchInOrder
<1>4. RepliesCounted' BY DEF RejectPacket, StreamInv, RepliesCounted, txVars
<1> QED BY <1>2, <1>3, <1>4 DEF StreamInv

\* Every step of the driver, the handler and the pattern thread keeps StreamInv.
LEMMA StreamInvStep == StreamInv /\ [Next]_vars => StreamInv'
<1> SUFFICES ASSUME StreamInv, [Next]_vars PROVE StreamInv' OBVIOUS
<1>0. TypeOK /\ BytesInOrder /\ RepliesCounted /\ UNCHANGED scenario
  BY DEF StreamInv, Next, vars
<1> USE DEF TypeOK, RepliesCounted
<1>1. ASSUME UNCHANGED <<validation_queue, handlerVars, txVars, patternVars,
                         nReceived, lost>>,
             reception' \in {"off", "on", "stopped"}, starting' \in BOOLEAN,
             current_buffer' \in {0, 1}, rxFill' = rxFill \/ rxFill' = 0,
             nDoubled' \in Nat,
             {rxBuffer', rxNext'} \subseteq {0, 1, NoBuffer}
      PROVE  StreamInv'
  <2>1. UNCHANGED <<validation_queue, nReceived, lost, pc, batch, row, completed,
                    spliced, packet_buffer, txPacket, txIntact, nReplies, refused,
                    process_queue, popped, reading>>
    BY <1>1 DEF handlerVars, txVars, patternVars
  <2>2. TypeOK' BY <1>0, <1>1, <2>1, SerialAssumption
  <2>3. BytesInOrder' /\ RepliesCounted' BY <1>0, <2>1, BytesUntouched
  <2> QED BY <2>2, <2>3 DEF StreamInv
<1>2. CASE StartReception BY <1>0, <1>1, <1>2 DEF StartReception
<1>3. CASE FinishStart
  <2>1. starting' = FALSE /\ current_buffer' = 1 - current_buffer
    BY <1>3, Zenon DEF FinishStart
  <2>2. UNCHANGED <<validation_queue, handlerVars, txVars, patternVars, nReceived,
                    lost, reception, rxBuffer, rxNext, rxFill, nDoubled>>
    BY <1>3 DEF FinishStart
  <2>3. /\ reception' \in {"off", "on", "stopped"} /\ nDoubled' \in Nat
        /\ {rxBuffer', rxNext'} \subseteq {0, 1, NoBuffer}
    BY <1>0, <2>2
  <2>4. current_buffer \in {0, 1} BY <1>0
  <2>5. current_buffer' \in {0, 1} BY <2>1, <2>4
  <2>6. starting' \in BOOLEAN BY <2>1, Zenon
  <2> QED BY <1>1, <2>2, <2>3, <2>5, <2>6
<1>4. CASE BufferRequest BY <1>0, <1>1, <1>4 DEF BufferRequest
<1>5. CASE RxReady BY <1>0, <1>5, RxReadyInOrder
<1>6. CASE RxStopped BY <1>0, <1>1, <1>6 DEF RxStopped
<1>7. CASE TxDone \/ TxAborted
  <2>1. UNCHANGED <<rxVars, validation_queue, handlerVars, patternVars>>
    BY <1>7 DEF TxDone, TxAborted
  <2>2. BytesInOrder' BY <1>0, <2>1, BytesUntouched DEF rxVars, driverVars, handlerVars
  <2>3. TypeOK' /\ RepliesCounted'
    <3>1. /\ txPacket # NoPacket /\ txPacket' = NoPacket /\ txIntact' = TRUE
          /\ nReplies' = nReplies + 1 \/ nReplies' = nReplies
          /\ UNCHANGED refused
      BY <1>7 DEF TxDone, TxAborted
    <3>2. completed \in Nat /\ completed <= MaxPackets
      BY <1>0, StreamNumbers
    <3>3. UNCHANGED <<pc, completed>> BY <2>1 DEF handlerVars
    <3>4. nReplies \in Nat BY <1>0
    <3>5. nReplies + 1 <= completed BY <1>0, <3>1, <3>2, <3>4
    <3>6. RepliesCounted'
      BY <1>0, <3>1, <3>2, <3>3, <3>4
    <3>7. nReplies' \in 0 .. MaxPackets
      BY <3>1, <3>2, <3>4, <3>5, SerialAssumption
    <3> QED BY <1>0, <2>1, <3>1, <3>6, <3>7 DEF rxVars, driverVars, handlerVars, patternVars
  <2> QED BY <2>2, <2>3 DEF StreamInv
<1>8. CASE HandlerStart
  <2>1. TypeOK' /\ RepliesCounted'
    BY <1>0, <1>8, SerialAssumption DEF HandlerStart, rxVars, driverVars, txVars, patternVars
  <2>2. BytesInOrder'
    <3>1. UpTo(completed)' = UpTo(completed) BY <1>8 DEF HandlerStart, UpTo
    <3>2. /\ batch' = validation_queue /\ Len(validation_queue') = 0
          /\ UNCHANGED nReceived
      BY <1>8 DEF HandlerStart, rxVars, driverVars
    <3> QED BY <1>0, <3>1, <3>2 DEF BytesInOrder
  <2> QED BY <2>1, <2>2 DEF StreamInv
<1>9. CASE HandleByte BY <1>0, <1>9, HandleByteInOrder
<1>10. CASE CompletePacket BY <1>0, <1>10, CompletePacketInOrder
<1>11. CASE RejectPacket BY <1>0, <1>11, RejectPacketInOrder
<1>12. CASE Transmit
  <2>1. completed \in Packet BY <1>0, <1>12 DEF Transmit
  <2>2. TypeOK' BY <1>0, <1>12, <2>1 DEF Transmit, rxVars, driverVars, patternVars
  <2>3. BytesInOrder' BY <1>0, <1>12, BytesUntouched DEF Transmit, rxVars, driverVars
  <2>4. RepliesCounted'
    BY <1>0, <1>12, <2>1, SerialAssumption DEF Transmit, Packet, NoPacket
  <2> QED BY <2>2, <2>3, <2>4 DEF StreamInv
<1>13. CASE QueuePacket
  <2>1. completed \in Packet BY <1>0, <1>13 DEF QueuePacket
  <2>2. process_queue' \in Seq(Packet) /\ Len(process_queue') < NumPacketBuffers
    <3>1. /\ process_queue \in Seq(Packet) /\ Len(process_queue) < NumPacketBuffers
          /\ \/ UNCHANGED process_queue
             \/ /\ process_queue' = Append(process_queue, completed)
                /\ Len(process_queue) + 1 < NumPacketBuffers
      BY <1>0, <1>13 DEF QueuePacket
    <3> QED BY <2>1, <3>1, AppendProperties
  <2>3. TypeOK' BY <1>0, <1>13, <2>2 DEF QueuePacket, rxVars, driverVars, txVars
  <2>4. BytesInOrder' BY <1>0, <1>13, BytesUntouched DEF QueuePacket, rxVars, driverVars
  <2>5. RepliesCounted'
    BY <1>0, <1>13, SerialAssumption DEF QueuePacket, txVars, Packet, NoPacket
  <2> QED BY <2>3, <2>4, <2>5 DEF StreamInv
<1>14. CASE HandlerReturn
  <2>1. TypeOK' /\ RepliesCounted'
    BY <1>0, <1>14 DEF HandlerReturn, rxVars, driverVars, txVars, patternVars
  <2>2. BytesInOrder' BY <1>0, <1>14, BytesUntouched DEF HandlerReturn, rxVars, driverVars
  <2> QED BY <2>1, <2>2 DEF StreamInv
<1>15. CASE FrameOverwritten
  <2>1. txIntact' \in BOOLEAN
    BY <1>15, Zenon DEF FrameOverwritten, SetPacketBuffer
  <2>2. TypeOK' /\ RepliesCounted'
    BY <1>0, <1>15, <2>1 DEF FrameOverwritten, SetPacketBuffer, rxVars, driverVars, patternVars
  <2>3. BytesInOrder' BY <1>0, <1>15, BytesUntouched DEF FrameOverwritten, rxVars, driverVars
  <2> QED BY <2>2, <2>3 DEF StreamInv
<1>16. CASE PatternPop \/ PatternRead
  <2>1. reading' \in BOOLEAN BY <1>16, Zenon DEF PatternPop, PatternRead
  <2>2. /\ popped' \in Packet \cup {NoPacket} /\ process_queue' \in Seq(Packet)
        /\ Len(process_queue') < NumPacketBuffers
    <3>1. CASE PatternPop
      <4>1. /\ process_queue \in Seq(Packet) /\ process_queue # <<>>
            /\ Len(process_queue) < NumPacketBuffers
            /\ popped' = Head(process_queue) /\ process_queue' = Tail(process_queue)
        BY <1>0, <3>1 DEF PatternPop
      <4> QED BY <4>1, HeadTailProperties, SerialAssumption
    <3>2. CASE PatternRead BY <1>0, <3>2 DEF PatternRead
    <3> QED BY <1>16, <3>1, <3>2
  <2>3. UNCHANGED <<rxVars, validation_queue, handlerVars, txVars>>
    BY <1>16 DEF PatternPop, PatternRead
  <2>4. TypeOK' BY <1>0, <2>1, <2>2, <2>3 DEF rxVars, driverVars, handlerVars, txVars
  <2>5. BytesInOrder' /\ RepliesCounted'
    BY <1>0, <2>3, BytesUntouched DEF rxVars, driverVars, handlerVars, txVars
  <2> QED BY <2>4, <2>5 DEF StreamInv
<1>17. CASE UNCHANGED vars
  <2>1. BytesInOrder' BY <1>0, <1>17, BytesUntouched DEF vars, pipelineVars, rxVars, driverVars, handlerVars
  <2> QED BY <1>0, <1>17, <2>1
    DEF StreamInv, vars, pipelineVars, rxVars, driverVars, handlerVars, txVars, patternVars
<1> QED
  BY <1>2, <1>3, <1>4, <1>5, <1>6, <1>7, <1>8, <1>9, <1>10, <1>11, <1>12, <1>13,
     <1>14, <1>15, <1>16, <1>17
  DEF Next, Step, Handler

\* StreamInv holds in every state of the pipeline.
LEMMA StreamInvariant == Spec => []StreamInv
  BY StreamInvInit, StreamInvStep, PTL DEF Spec

\* The types hold, and with them the capacities of validation_queue and of
\* process_queue: neither is ever filled beyond its storage.  And the bytes in
\* validation_queue and in the handler's batch, each in one place only, are in the
\* order of the line and later than the last packet completed.
THEOREM SerialTypeCorrect == Spec => [](TypeOK /\ BytesInOrder)
<1>1. StreamInv => TypeOK /\ BytesInOrder BY DEF StreamInv
<1> QED BY <1>1, StreamInvariant, PTL

-----------------------------------------------------------------------------
(* process_queue and packet_buffer *)

\* The packets queued are in order, after the last one popped and before the
\* one being queued; the frame of the handler holds the last completed or
\* bytes of a later call.
PacketsInOrder ==
    /\ \A i, j \in 1 .. Len(process_queue) :
          i < j => process_queue[i] < process_queue[j]
    /\ \A i \in 1 .. Len(process_queue) :
          /\ popped < process_queue[i]
          /\ process_queue[i] <= completed
          /\ pc \in {"transmit", "queue"} => process_queue[i] < completed
    /\ popped <= completed
    /\ pc \in {"transmit", "queue"} => popped < completed
    /\ packet_buffer \in {completed, Garbage}

\* The inductive invariant behind InOrder.
OrderInv == StreamInv /\ PacketsInOrder

\* What StreamInv says of the packets the proofs compare.
LEMMA OrderNumbers ==
    ASSUME StreamInv
    PROVE  /\ completed \in Nat /\ completed <= MaxPackets
           /\ popped \in Nat /\ popped <= MaxPackets
           /\ Len(process_queue) \in Nat
           /\ \A i \in 1 .. Len(process_queue) : process_queue[i] \in Nat
<1>1. /\ completed \in Nat /\ completed <= MaxPackets
      /\ popped \in Nat /\ popped <= MaxPackets
  BY SerialAssumption DEF StreamInv, TypeOK, Packet, NoPacket
<1>2. process_queue \in Seq(Nat)
  <2>1. Packet \subseteq Nat BY DEF Packet
  <2> QED BY <2>1, SeqMonotonic DEF StreamInv, TypeOK
<1> QED BY <1>1, <1>2, LenProperties, ElementOfSeq

\* A step that neither completes, queues nor pops keeps the order.
LEMMA PacketsUntouched ==
    ASSUME PacketsInOrder, UNCHANGED <<process_queue, popped, completed>>,
           packet_buffer' \in {packet_buffer, Garbage},
           pc' \in {"transmit", "queue"} => pc \in {"transmit", "queue"}
    PROVE  PacketsInOrder'
  BY DEF PacketsInOrder, Garbage

\* OrderInv holds before start_process.
LEMMA OrderInvInit == Init => OrderInv
<1> SUFFICES ASSUME Init PROVE PacketsInOrder
  BY StreamInvInit DEF OrderInv
<1> QED BY DEF Init, PacketsInOrder, NoPacket

\* Every step keeps OrderInv, and a pop goes forward.
LEMMA OrderInvStep ==
    ASSUME OrderInv, [Next]_vars
    PROVE  OrderInv' /\ (popped' # popped => popped' > popped)
<1> USE DEF OrderInv
<1>0. StreamInv' /\ StreamInv /\ PacketsInOrder BY StreamInvStep
<1> SUFFICES PacketsInOrder' /\ (popped' # popped => popped' > popped)
  BY <1>0
<1>1. ASSUME UNCHANGED <<process_queue, popped, completed>>,
             packet_buffer' \in {packet_buffer, Garbage},
             pc' \in {"transmit", "queue"} => pc \in {"transmit", "queue"}
      PROVE  PacketsInOrder' /\ popped' = popped
  BY <1>0, <1>1, PacketsUntouched
<1>2. CASE CompletePacket
  <2>1. completed' > completed
    BY <1>0, <1>2, CompletePacketInOrder DEF Next, vars
  <2>2. UNCHANGED <<process_queue, popped>> /\ packet_buffer' = completed'
    BY <1>2 DEF CompletePacket, SetPacketBuffer, patternVars
  <2>3. completed' \in Nat
    <3>1. (completed \in Packet \cup {NoPacket})' BY <1>0 DEF StreamInv, TypeOK
    <3> QED BY <3>1 DEF Packet, NoPacket
  <2> QED BY <1>0, <2>1, <2>2, <2>3, OrderNumbers DEF PacketsInOrder
<1>3. CASE QueuePacket
  <2>1. /\ pc = "queue" /\ pc' = "loop"
        /\ UNCHANGED <<popped, completed, packet_buffer>>
        /\ \/ UNCHANGED process_queue
           \/ process_queue' = Append(process_queue, completed)
    BY <1>3 DEF QueuePacket
  <2>2. CASE UNCHANGED process_queue
    BY <1>0, <2>1, <2>2, PacketsUntouched
  <2>3. CASE process_queue' = Append(process_queue, completed)
    <3> DEFINE had == Len(process_queue)
    <3>1. /\ had \in Nat /\ Len(process_queue') = had + 1
          /\ \A i \in 1 .. had : process_queue'[i] = process_queue[i]
          /\ process_queue'[had + 1] = completed
      <4>1. process_queue \in Seq(Nat) /\ completed \in Nat
        <5>1. Packet \subseteq Nat BY DEF Packet
        <5> QED BY <1>0, <5>1, SeqMonotonic, OrderNumbers DEF StreamInv, TypeOK
      <4> QED BY <2>3, <4>1, AppendProperties
    <3>2. /\ \A i, j \in 1 .. had : i < j => process_queue[i] < process_queue[j]
          /\ \A i \in 1 .. had : /\ popped < process_queue[i]
                                 /\ process_queue[i] < completed
          /\ popped < completed /\ packet_buffer \in {completed, Garbage}
      BY <1>0, <2>1 DEF PacketsInOrder
    <3> HIDE DEF had
    <3>3. \A i \in 1 .. had + 1 : i \in 1 .. had \/ i = had + 1
      BY <3>1
    <3>4. ASSUME NEW i \in 1 .. had + 1, NEW j \in 1 .. had + 1, i < j
          PROVE  process_queue'[i] < process_queue'[j]
      <4>1. i \in 1 .. had BY <3>1, <3>4
      <4> QED BY <3>1, <3>2, <3>3, <4>1, <3>4
    <3>5. ASSUME NEW i \in 1 .. had + 1
          PROVE  popped < process_queue'[i] /\ process_queue'[i] <= completed
      BY <1>0, <3>1, <3>2, <3>3, OrderNumbers DEF had
    <3>6. popped <= completed BY <1>0, <3>2, OrderNumbers
    <3> QED BY <2>1, <3>1, <3>2, <3>4, <3>5, <3>6 DEF PacketsInOrder
  <2> QED BY <2>1, <2>2, <2>3
<1>4. CASE PatternPop
  <2>1. /\ pc = "idle" /\ process_queue # <<>> /\ popped' = Head(process_queue)
        /\ process_queue' = Tail(process_queue)
        /\ UNCHANGED <<pc, completed, packet_buffer>>
    BY <1>4 DEF PatternPop, handlerVars
  <2>2. /\ Len(process_queue) \in Nat \ {0} /\ popped' = process_queue[1]
        /\ Len(process_queue') = Len(process_queue) - 1
        /\ \A i \in 1 .. Len(process_queue') :
              process_queue'[i] = process_queue[i + 1]
    <3>1. process_queue \in Seq(Packet) /\ process_queue # <<>>
      BY <1>0, <2>1 DEF StreamInv, TypeOK
    <3>2. popped' = process_queue[1] BY <2>1, <3>1
    <3> QED BY <2>1, <3>1, <3>2, HeadTailProperties, LenProperties, EmptySeq
  <2>3. \A i \in 1 .. Len(process_queue') : i + 1 \in 1 .. Len(process_queue)
    BY <2>2
  <2>4. 1 \in 1 .. Len(process_queue) BY <2>2
  <2>5. popped' > popped /\ popped' <= completed
    BY <1>0, <2>2, <2>4, OrderNumbers DEF PacketsInOrder
  <2>6. \A i, j \in 1 .. Len(process_queue') :
          i < j => process_queue'[i] < process_queue'[j]
    BY <1>0, <2>2, <2>3 DEF PacketsInOrder
  <2>7. \A i \in 1 .. Len(process_queue') :
          popped' < process_queue'[i] /\ process_queue'[i] <= completed
    BY <1>0, <2>2, <2>3, <2>4 DEF PacketsInOrder
  <2> QED BY <1>0, <2>1, <2>5, <2>6, <2>7 DEF PacketsInOrder, Garbage
<1>5. CASE FrameOverwritten
  BY <1>1, <1>5 DEF FrameOverwritten, SetPacketBuffer, patternVars
<1>6. CASE Transmit BY <1>1, <1>6 DEF Transmit, patternVars
<1>7. CASE HandlerStart \/ HandleByte \/ RejectPacket \/ HandlerReturn \/ PatternRead
  <2>1. /\ UNCHANGED <<process_queue, popped, completed, packet_buffer>>
        /\ pc' \in {"transmit", "queue"} => pc \in {"transmit", "queue"}
    BY <1>7 DEF HandlerStart, HandleByte, RejectPacket, HandlerReturn, PatternRead,
       patternVars, handlerVars
  <2> QED BY <1>1, <2>1
<1>8. CASE UNCHANGED <<handlerVars, patternVars>>
  BY <1>1, <1>8 DEF handlerVars, patternVars
<1>9. CASE UNCHANGED vars BY <1>8, <1>9 DEF vars, pipelineVars
<1>10. CASE Next
  BY <1>2, <1>3, <1>4, <1>5, <1>6, <1>7, <1>8, <1>10
  DEF Next, Step, Handler, StartReception, FinishStart, BufferRequest, RxReady,
      RxStopped, TxDone, TxAborted
<1> QED BY <1>9, <1>10

\* process_queue hands the pattern thread packets in the order they came in,
\* each at most once, and the bytes it then finds in packet_buffer are never
\* those of an older packet.
THEOREM PacketsLeaveInOrder == Spec => InOrder
<1> DEFINE Forward == popped' # popped => popped' > popped
           NotOlder == reading => packet_buffer >= popped
<1>1. OrderInv /\ [Next]_vars => OrderInv' BY OrderInvStep
<1>2. OrderInv /\ [Next]_vars => [Forward]_vars BY OrderInvStep
<1>3. OrderInv => NotOlder
  BY OrderNumbers, SerialAssumption DEF OrderInv, PacketsInOrder, Garbage
<1>4. Spec => [][Forward]_vars
  BY OrderInvInit, <1>1, <1>2, PTL DEF Spec
<1>5. Spec => []NotOlder
  BY OrderInvInit, <1>1, <1>3, PTL DEF Spec
<1> QED BY <1>4, <1>5 DEF InOrder

-----------------------------------------------------------------------------
(* Chunks lost in front of a full validation_queue *)

\* Byte b is on its way no more.
Gone(b) ==
    /\ \A i \in 1 .. Len(row) : row[i] # b
    /\ \A i \in 1 .. Len(batch) : batch[i] # b
    /\ \A i \in 1 .. Len(validation_queue) : validation_queue[i] # b

\* The parser holds the first bytes of frames at their places, and every packet
\* that lost a chunk misses a byte for good.
GapsNoticed ==
    /\ \A i \in 1 .. Len(row) : IndexOf(row[i]) = i
    /\ \A p \in lost : \E b \in 1 .. nReceived : PacketOf(b) = p /\ Gone(b)
    /\ SplicedFromLost

\* Bytes go through the parser in the order of the line, and whatever is missing
\* behind a byte that is still on its way was lost.
BytesMissed ==
    /\ \A i, j \in 1 .. Len(row) : i < j => row[i] < row[j]
    /\ \A i \in 1 .. Len(row), j \in 1 .. Len(batch) : row[i] < batch[j]
    /\ \A i \in 1 .. Len(row), j \in 1 .. Len(validation_queue) :
          row[i] < validation_queue[j]
    /\ pc = "idle" => batch = <<>>
    /\ \A b, c \in 1 .. nReceived :
          b < c /\ ~Gone(b) /\ Gone(c) => PacketOf(c) \in lost

\* The inductive invariant behind SplicedFromLost.
SpliceInv == StreamInv /\ GapsNoticed /\ BytesMissed

\* SpliceInv holds before start_process.
LEMMA SpliceInvInit == Init => SpliceInv
<1> SUFFICES ASSUME Init PROVE GapsNoticed /\ BytesMissed
  BY StreamInvInit DEF SpliceInv
<1> QED BY DEF Init, GapsNoticed, SplicedFromLost, BytesMissed, NoPacket

\* A step that takes no byte from the line and leaves those in the parser in
\* their places.
LEMMA NothingMoreLost ==
    ASSUME GapsNoticed, UNCHANGED <<lost, nReceived>>, SplicedFromLost',
           \A i \in 1 .. Len(row') : IndexOf(row'[i]) = i,
           \A b \in 1 .. nReceived : Gone(b) => Gone(b)'
    PROVE  GapsNoticed'
<1>1. \A b : PacketOf(b)' = PacketOf(b) BY DEF PacketOf
<1>2. \A i \in 1 .. Len(row') : IndexOf(row[i])' = i BY DEF IndexOf
<1>3. \A p \in lost' : \E b \in 1 .. nReceived' : PacketOf(b)' = p /\ Gone(b)'
  BY <1>1 DEF GapsNoticed
<1> QED BY <1>2, <1>3 DEF GapsNoticed

\* A lost chunk leaves gaps in packets after the last one completed.
LEMMA RxReadyNotices ==
    ASSUME SpliceInv, RxReady
    PROVE  GapsNoticed'
<1>0. StreamInv /\ GapsNoticed BY DEF SpliceInv
<1>1. PICK n \in 1 .. DmaBufferSize - rxFill :
        /\ nReceived' = nReceived + n
        /\ IF Accepts(n)
             THEN /\ validation_queue' = validation_queue \o Chunk(n)
                  /\ UNCHANGED lost
             ELSE /\ lost' = lost \cup {PacketOf(b) : b \in ToSet(Chunk(n))}
                  /\ UNCHANGED validation_queue
  BY DEF RxReady
<1>2. UNCHANGED <<batch, row, completed, spliced>> BY DEF RxReady, handlerVars
<1>3. n \in Nat \ {0} /\ nReceived \in Nat
  BY <1>0, <1>1, StreamNumbers, SerialAssumption DEF StreamInv, TypeOK
<1>4. \A i \in 1 .. Len(row') : IndexOf(row[i])' = i
  BY <1>0, <1>2 DEF GapsNoticed, IndexOf
<1>5. \A b : PacketOf(b)' = PacketOf(b) BY DEF PacketOf
<1>6. 1 .. nReceived \subseteq 1 .. nReceived' BY <1>1, <1>3
<1>7. CASE Accepts(n)
  <2>1. /\ Len(validation_queue) \in Nat
        /\ Len(validation_queue') = Len(validation_queue) + n
        /\ \A i \in 1 .. Len(validation_queue) :
              validation_queue'[i] = validation_queue[i]
        /\ \A i \in Len(validation_queue) + 1 .. Len(validation_queue) + n :
              validation_queue'[i] = nReceived + (i - Len(validation_queue))
    <3>1. validation_queue \in Seq(1 .. nReceived)
      BY <1>0 DEF StreamInv, TypeOK
    <3>2. validation_queue' = validation_queue \o [i \in 1 .. n |-> nReceived + i]
      BY <1>1, <1>7 DEF Chunk
    <3> QED BY <1>3, <3>1, <3>2
  <2>2. ASSUME NEW b \in 1 .. nReceived, Gone(b) PROVE Gone(b)'
    <3>1. \A i \in 1 .. Len(validation_queue') : validation_queue'[i] # b
      BY <1>3, <2>1, <2>2 DEF Gone
    <3> QED BY <1>2, <2>2, <3>1 DEF Gone
  <2>3. \A p \in lost' : \E b \in 1 .. nReceived' : PacketOf(b)' = p /\ Gone(b)'
    BY <1>0, <1>1, <1>5, <1>6, <1>7, <2>2 DEF GapsNoticed
  <2> QED
    BY <1>0, <1>1, <1>2, <1>4, <1>7, <2>3 DEF GapsNoticed, SplicedFromLost
<1>8. CASE ~Accepts(n)
  <2>1. /\ UNCHANGED validation_queue
        /\ lost' = lost \cup {PacketOf(b) : b \in ToSet(Chunk(n))}
    BY <1>1, <1>8
  <2>2. \A b \in 1 .. nReceived : Gone(b) => Gone(b)'
    BY <1>2, <2>1 DEF Gone
  <2>3. ASSUME NEW c \in ToSet(Chunk(n))
        PROVE  c \in 1 .. nReceived' /\ c > nReceived
    BY <1>1, <1>3 DEF ToSet, Chunk
  <2>4. ASSUME NEW c \in ToSet(Chunk(n))
        PROVE  Gone(c)'
    <3>1. /\ \A i \in 1 .. Len(row) : row[i] \in 1 .. nReceived
          /\ \A i \in 1 .. Len(batch) : batch[i] \in 1 .. nReceived
          /\ \A i \in 1 .. Len(validation_queue) :
                validation_queue[i] \in 1 .. nReceived
      BY <1>0, StreamNumbers, ElementOfSeq DEF StreamInv, TypeOK
    <3>2. c \notin 1 .. nReceived BY <1>3, <2>3
    <3> QED BY <1>2, <2>1, <3>1, <3>2 DEF Gone
  <2>5. ASSUME NEW c \in ToSet(Chunk(n))
        PROVE  PacketOf(c) > completed
    <3>1. UpTo(completed) <= nReceived /\ UpTo(completed) \in Nat /\ completed \in Nat
      BY <1>0, StreamNumbers DEF StreamInv, BytesInOrder
    <3>2. c \in Nat \ {0} /\ c > UpTo(completed)
      BY <1>1, <1>3, <2>3, <3>1
    <3> QED BY <3>1, <3>2, PacketAfter DEF UpTo
  <2>6. \A p \in lost' : \E b \in 1 .. nReceived' : PacketOf(b)' = p /\ Gone(b)'
    <3> TAKE p \in lost'
    <3>1. CASE p \in lost
      BY <1>0, <1>5, <1>6, <2>2, <3>1 DEF GapsNoticed
    <3>2. CASE p \notin lost
      BY <1>5, <2>1, <2>3, <2>4, <3>2
    <3> QED BY <3>1, <3>2
  <2>7. SplicedFromLost'
    <3>1. completed \in Nat BY <1>0, StreamNumbers
    <3>2. SplicedFromLost BY <1>0 DEF GapsNoticed
    <3>3. ASSUME NEW c \in ToSet(Chunk(n)) PROVE PacketOf(c) # completed
      <4>1. c \in Nat \ {0} BY <1>1, <1>3, <2>3
      <4>2. PacketOf(c) \in Nat BY <4>1, ByteSplit
      <4> QED BY <2>5, <3>1, <4>2
    <3> QED BY <1>2, <2>1, <3>2, <3>3 DEF SplicedFromLost
  <2> QED BY <1>4, <2>6, <2>7 DEF GapsNoticed
<1> QED BY <1>7, <1>8

\* The handler goes on to the next byte, which it leaves out of row.
LEMMA ByteTakenNotices ==
    ASSUME SpliceInv, batch # <<>>, batch' = Tail(batch),
           UNCHANGED <<validation_queue, lost, nReceived>>,
           \A i \in 1 .. Len(row') :
              /\ IndexOf(row'[i]) = i
              /\ row'[i] = Head(batch) \/ (i \in 1 .. Len(row) /\ row'[i] = row[i]),
           SplicedFromLost'
    PROVE  GapsNoticed'
<1>0. StreamInv /\ GapsNoticed BY DEF SpliceInv
<1>1. ASSUME NEW b \in 1 .. nReceived, Gone(b) PROVE Gone(b)'
  <2>1. Head(batch) # b /\ \A i \in 1 .. Len(batch') : batch'[i] # b
    BY <1>0, <1>1, NextOfBatch DEF Gone
  <2>2. \A i \in 1 .. Len(row') : row'[i] # b
    BY <1>1, <2>1 DEF Gone
  <2> QED BY <1>1, <2>1, <2>2 DEF Gone
<1> QED BY <1>0, <1>1, NothingMoreLost

\* A byte goes to its place in row.
LEMMA HandleByteNotices ==
    ASSUME SpliceInv, HandleByte
    PROVE  GapsNoticed'
<1> DEFINE byte == Head(batch)
<1>0. StreamInv /\ GapsNoticed BY DEF SpliceInv
<1>1. /\ batch # <<>> /\ batch' = Tail(batch)
      /\ UNCHANGED <<validation_queue, lost, nReceived, completed, spliced>>
      /\ row' \in IF NextInRow(byte) THEN {Append(row, byte)}
                  ELSE IF IndexOf(byte) = 1 THEN {<<>>, <<byte>>}
                  ELSE {<<>>}
  BY DEF HandleByte, rxVars
<1>2. byte \in 1 .. nReceived BY <1>0, <1>1, NextOfBatch
<1> HIDE DEF byte
<1>3. \A i \in 1 .. Len(row') :
         /\ IndexOf(row'[i]) = i
         /\ row'[i] = byte \/ (i \in 1 .. Len(row) /\ row'[i] = row[i])
  <2>1. CASE NextInRow(byte)
    <3>1. row \in Seq(1 .. nReceived) BY <1>0 DEF StreamInv, TypeOK
    <3>2. /\ Len(row) \in Nat /\ Len(row') = Len(row) + 1
          /\ \A i \in 1 .. Len(row) : row'[i] = row[i]
          /\ row'[Len(row) + 1] = byte
      BY <1>1, <1>2, <2>1, <3>1, AppendProperties
    <3>3. IndexOf(byte) = Len(row) + 1 BY <2>1 DEF NextInRow
    <3>4. \A i \in 1 .. Len(row') : i \in 1 .. Len(row) \/ i = Len(row) + 1
      BY <3>2
    <3> QED BY <1>0, <3>2, <3>3, <3>4 DEF GapsNoticed
  <2>2. CASE row' = <<>> BY <2>2
  <2>3. CASE row' = <<byte>> /\ IndexOf(byte) = 1 BY <2>3
  <2> QED BY <1>1, <2>1, <2>2, <2>3
<1>4. SplicedFromLost' BY <1>0, <1>1 DEF GapsNoticed, SplicedFromLost
<1> QED BY <1>1, <1>3, <1>4, ByteTakenNotices DEF byte

\* A byte before the next one that the parser does not hold is gone.
LEMMA BeforeBatch ==
    ASSUME StreamInv, batch # <<>>, NEW c \in Nat, c < Head(batch),
           \A i \in 1 .. Len(row) : row[i] # c
    PROVE  Gone(c)
<1>1. Head(batch) = batch[1] /\ 1 \in 1 .. Len(batch) /\ Head(batch) \in Nat
  <2>1. batch \in Seq(1 .. nReceived) BY DEF StreamInv, TypeOK
  <2>2. Head(batch) = batch[1] /\ Len(batch) \in Nat \ {0} BY <2>1
  <2>3. 1 \in 1 .. Len(batch) BY <2>2
  <2>4. batch[1] \in Nat BY <2>3, StreamNumbers
  <2> QED BY <2>2, <2>3, <2>4
<1>2. ASSUME NEW i \in 1 .. Len(batch) PROVE batch[i] # c
  <2>1. i = 1 \/ batch[1] < batch[i]
    BY <1>1, <1>2, StreamNumbers DEF StreamInv, BytesInOrder
  <2> QED BY <1>1, <2>1, <1>2, StreamNumbers
<1>3. ASSUME NEW i \in 1 .. Len(validation_queue) PROVE validation_queue[i] # c
  <2>1. batch[1] < validation_queue[i]
    BY <1>1, <1>3 DEF StreamInv, BytesInOrder
  <2> QED BY <1>1, <2>1, <1>3, StreamNumbers
<1> QED BY <1>2, <1>3 DEF Gone

\* The frame that the next byte ends.
Frame(i) == IF i <= Len(row) THEN row[i] ELSE Head(batch)

\* Its bytes are in their places, one after the other on the line.
LEMMA FrameBytes ==
    ASSUME SpliceInv, batch # <<>>, NextInRow(Head(batch))
    PROVE  /\ Len(row) + 1 \in 1 .. PacketBytes
           /\ \A i \in 1 .. Len(row) + 1 :
                 /\ Frame(i) \in 1 .. nReceived /\ Frame(i) \in Nat \ {0}
                 /\ IndexOf(Frame(i)) = i
                 /\ ~Gone(Frame(i)) /\ Frame(i) <= Head(batch)
           /\ \A i, j \in 1 .. Len(row) + 1 : i < j => Frame(i) < Frame(j)
<1>0. StreamInv /\ GapsNoticed /\ BytesMissed BY DEF SpliceInv
<1>1. /\ row \in Seq(1 .. nReceived) /\ batch \in Seq(1 .. nReceived)
      /\ nReceived \in Nat /\ Len(row) \in Nat /\ Len(row) < PacketBytes
  BY <1>0, StreamNumbers DEF StreamInv, TypeOK
<1>2. \A i \in 1 .. Len(row) : row[i] \in 1 .. nReceived
  BY <1>1, ElementOfSeq
<1>3. Head(batch) = batch[1] /\ 1 \in 1 .. Len(batch) /\ batch[1] \in 1 .. nReceived
  <2>1. Head(batch) = batch[1] /\ Len(batch) \in Nat \ {0} BY <1>1
  <2>2. 1 \in 1 .. Len(batch) BY <2>1
  <2> QED BY <1>0, <2>1, <2>2, StreamNumbers
<1>4. IndexOf(batch[1]) = Len(row) + 1
  BY <1>3 DEF NextInRow
<1>5. Len(row) + 1 \in 1 .. PacketBytes
  BY <1>1, SerialAssumption
<1>6. ASSUME NEW i \in 1 .. Len(row) + 1
      PROVE  \/ i \in 1 .. Len(row) /\ Frame(i) = row[i]
             \/ i = Len(row) + 1 /\ Frame(i) = batch[1]
  BY <1>1, <1>3, <1>6 DEF Frame
<1>7. \A i \in 1 .. Len(row) : row[i] < batch[1]
  BY <1>0, <1>3 DEF BytesMissed
<1>8. ASSUME NEW i \in 1 .. Len(row) + 1
      PROVE  /\ Frame(i) \in 1 .. nReceived /\ Frame(i) \in Nat \ {0}
             /\ IndexOf(Frame(i)) = i
             /\ ~Gone(Frame(i)) /\ Frame(i) <= Head(batch)
  <2>1. CASE i \in 1 .. Len(row) /\ Frame(i) = row[i]
    <3>1. IndexOf(row[i]) = i BY <1>0, <2>1 DEF GapsNoticed
    <3>2. row[i] \in 1 .. nReceived BY <1>2, <2>1
    <3>3. row[i] \in Nat \ {0} /\ row[i] <= batch[1]
      BY <1>1, <1>3, <1>7, <2>1, <3>2
    <3>4. ~Gone(row[i]) BY <2>1 DEF Gone
    <3> QED BY <1>3, <2>1, <3>1, <3>2, <3>3, <3>4
  <2>2. CASE i = Len(row) + 1 /\ Frame(i) = batch[1]
    <3>1. batch[1] \in Nat \ {0} BY <1>1, <1>3
    <3>2. ~Gone(batch[1]) BY <1>3 DEF Gone
    <3> QED BY <1>3, <1>4, <2>2, <3>1, <3>2
  <2> QED BY <1>6, <2>1, <2>2
<1>9. ASSUME NEW i \in 1 .. Len(row) + 1, NEW j \in 1 .. Len(row) + 1, i < j
      PROVE  Frame(i) < Frame(j)
  <2>1. i \in 1 .. Len(row) /\ Frame(i) = row[i]
    BY <1>1, <1>6, <1>9
  <2>2. CASE j \in 1 .. Len(row) /\ Frame(j) = row[j]
    BY <1>0, <1>9, <2>1, <2>2 DEF BytesMissed
  <2>3. CASE j = Len(row) + 1 /\ Frame(j) = batch[1]
    BY <1>7, <2>1, <2>3
  <2> QED BY <1>6, <2>2, <2>3
<1> QED BY <1>5, <1>8, <1>9

\* Two of its bytes from different packets: each packet misses the byte that it
\* has at the other's place.
LEMMA MixedPair ==
    ASSUME SpliceInv, batch # <<>>, NextInRow(Head(batch)),
           NEW i \in 1 .. Len(row) + 1, NEW j \in 1 .. Len(row) + 1, i < j,
           PacketOf(Frame(i)) # PacketOf(Frame(j))
    PROVE  PacketOf(Frame(i)) \in lost /\ PacketOf(Frame(j)) \in lost
<1> DEFINE a == Frame(i)
           b == Frame(j)
           p == PacketOf(a)
           q == PacketOf(b)
<1>0. StreamInv /\ GapsNoticed /\ BytesMissed BY DEF SpliceInv
<1>1. /\ a \in 1 .. nReceived /\ a \in Nat \ {0} /\ IndexOf(a) = i /\ ~Gone(a)
      /\ b \in 1 .. nReceived /\ b \in Nat \ {0} /\ IndexOf(b) = j
      /\ a < b /\ b <= Head(batch)
  BY FrameBytes
<1>2. /\ i \in 1 .. PacketBytes /\ j \in 1 .. PacketBytes /\ i < j
      /\ Len(row) \in Nat /\ nReceived \in Nat /\ Head(batch) \in Nat
  <2>1. Len(row) + 1 \in 1 .. PacketBytes BY FrameBytes
  <2>2. Len(row) \in Nat BY <1>0 DEF StreamInv, TypeOK
  <2>3. batch \in Seq(1 .. nReceived) /\ nReceived \in Nat
    BY <1>0, StreamNumbers DEF StreamInv, TypeOK
  <2>4. Head(batch) \in 1 .. nReceived BY <2>3
  <2> HIDE DEF a, b, p, q
  <2>5. /\ i \in Nat \ {0} /\ i <= Len(row) + 1 /\ j \in Nat \ {0} /\ j <= Len(row) + 1
        /\ Len(row) + 1 <= PacketBytes
    BY <2>1, <2>2, SerialAssumption
  <2>6. i \in 1 .. PacketBytes /\ j \in 1 .. PacketBytes
    BY <2>2, <2>5, SerialAssumption
  <2> QED BY <2>2, <2>3, <2>4, <2>6
<1>3. ASSUME NEW k \in 1 .. Len(row) PROVE IndexOf(row[k]) = k /\ Frame(k) = row[k]
  BY <1>0, <1>2, <1>3 DEF GapsNoticed, Frame
<1>4. p \in Nat \ {0} /\ q \in Nat \ {0} /\ p # q
      /\ a = PacketBytes * (p - 1) + i /\ b = PacketBytes * (q - 1) + j
  BY <1>1, ByteSplit
<1>5. p \in Nat /\ p - 1 \in Nat /\ q \in Nat /\ q - 1 \in Nat
  BY <1>4
<1> DEFINE c == PacketBytes * (p - 1) + j
           d == PacketBytes * (q - 1) + i
<1>6. /\ c \in Nat \ {0} /\ PacketOf(c) = p /\ IndexOf(c) = j
      /\ d \in Nat \ {0} /\ PacketOf(d) = q /\ IndexOf(d) = i
  <2> HIDE DEF a, b, p, q
  <2> QED BY <1>2, <1>4, ByteAt
<1>7. c # b /\ d # a
  BY <1>4, <1>6
<1> HIDE DEF p, q
<1>8. p < q
  <2>1. q < p => PacketBytes * q <= PacketBytes * (p - 1)
    BY <1>5, TimesMonotonic, SerialAssumption
  <2>2. b <= PacketBytes * q /\ PacketBytes * (p - 1) < a
    BY <1>1, PacketBounds DEF p, q
  <2>3. PacketBytes * q \in Nat /\ PacketBytes * (p - 1) \in Nat
    BY <1>5, SerialAssumption
  <2> HIDE DEF a, b
  <2> QED BY <1>1, <1>4, <1>5, <2>1, <2>2, <2>3
<1>9. a < c /\ c < b /\ a < d /\ d < b
  <2>1. PacketBytes * p <= PacketBytes * (q - 1)
    BY <1>5, <1>8, TimesMonotonic, SerialAssumption
  <2>2. PacketBytes * p = PacketBytes * (p - 1) + PacketBytes
    BY <1>5, SerialAssumption
  <2>3. PacketBytes * (q - 1) \in Nat /\ PacketBytes * (p - 1) \in Nat
    BY <1>5, SerialAssumption
  <2> DEFINE x == PacketBytes * (p - 1)
             y == PacketBytes * (q - 1)
  <2>4. a = x + i /\ b = y + j /\ c = x + j /\ d = y + i
        /\ x + PacketBytes <= y /\ x \in Nat /\ y \in Nat
    BY <1>4, <2>1, <2>2, <2>3
  <2> HIDE DEF a, b, c, d, x, y
  <2> QED BY <1>2, <2>4, SerialAssumption
<1> HIDE DEF c, d
<1>10. \A k \in 1 .. Len(row) : row[k] # c /\ row[k] # d
  BY <1>3, <1>6, <1>7
<1> HIDE DEF a, b
<1>11. /\ c < Head(batch) /\ c \in 1 .. nReceived
       /\ d < Head(batch) /\ d \in 1 .. nReceived
  BY <1>1, <1>2, <1>6, <1>9
<1>12. Gone(c) /\ Gone(d)
  BY <1>0, <1>6, <1>10, <1>11, BeforeBatch
<1>13. PacketOf(c) \in lost /\ PacketOf(d) \in lost
  BY <1>0, <1>1, <1>9, <1>11, <1>12 DEF BytesMissed
<1> QED BY <1>6, <1>13 DEF a, b, p, q

\* A frame of several packets is made of packets that each lost a chunk.
LEMMA MixedFrame ==
    ASSUME SpliceInv, batch # <<>>, NextInRow(Head(batch)),
           ~OnePacket(Head(batch))
    PROVE  {PacketOf(b) : b \in ToSet(row)} \cup {PacketOf(Head(batch))}
              \subseteq lost
<1> DEFINE n == Len(row) + 1
<1>0. Len(row) \in Nat BY DEF SpliceInv, StreamInv, TypeOK
<1>1. Frame(n) = Head(batch) /\ n \in 1 .. n /\ \A i \in 1 .. Len(row) :
         Frame(i) = row[i] /\ i \in 1 .. n
  BY <1>0 DEF Frame
<1>2. PICK m \in 1 .. Len(row) : PacketOf(row[m]) # PacketOf(Head(batch))
  BY <1>0 DEF OnePacket, ToSet
<1>3. m \in 1 .. n /\ PacketOf(Frame(m)) # PacketOf(Frame(n))
  BY <1>1, <1>2
<1>4. ASSUME NEW i \in 1 .. n, NEW j \in 1 .. n,
             PacketOf(Frame(i)) # PacketOf(Frame(j))
      PROVE  PacketOf(Frame(i)) \in lost
  <2>1. i < j \/ j < i BY <1>0, <1>4
  <2>2. CASE i < j BY <1>4, <2>2, MixedPair
  <2>3. CASE j < i BY <1>4, <2>3, MixedPair
  <2> QED BY <2>1, <2>2, <2>3
<1> HIDE DEF n
<1>5. ASSUME NEW i \in 1 .. n PROVE PacketOf(Frame(i)) \in lost
  <2>1. PacketOf(Frame(i)) # PacketOf(Frame(n)) \/ PacketOf(Frame(i)) # PacketOf(Frame(m))
    BY <1>3
  <2> QED BY <1>1, <1>3, <1>4, <2>1
<1>6. \A b \in ToSet(row) : PacketOf(b) \in lost
  <2> TAKE b \in ToSet(row)
  <2>1. PICK i \in 1 .. Len(row) : b = row[i] BY DEF ToSet, SpliceInv, StreamInv, TypeOK
  <2> QED BY <1>1, <1>5, <2>1
<1> QED BY <1>1, <1>5, <1>6

\* A frame with all its bytes from one packet is a packet with all its bytes, and
\* any other is made of packets that lost a chunk.
LEMMA CompletePacketNotices ==
    ASSUME SpliceInv, CompletePacket
    PROVE  GapsNoticed'
<1> DEFINE byte == Head(batch)
<1>0. StreamInv /\ GapsNoticed BY DEF SpliceInv
<1>1. /\ batch # <<>> /\ batch' = Tail(batch) /\ row' = <<>>
      /\ UNCHANGED <<validation_queue, lost, nReceived>>
      /\ IndexOf(byte) = Len(row) + 1 /\ IndexOf(byte) = PacketBytes
      /\ completed' = PacketOf(byte)
      /\ spliced' = IF OnePacket(byte) THEN {}
                    ELSE {PacketOf(b) : b \in ToSet(row)} \cup {PacketOf(byte)}
  BY DEF CompletePacket, LastInRow, NextInRow, rxVars
<1>2. byte \in Nat \ {0} /\ byte = batch[1] /\ 1 \in 1 .. Len(batch)
  BY <1>0, <1>1, NextOfBatch, StreamNumbers
<1>3. row \in Seq(1 .. nReceived) /\ Len(row) \in Nat
  BY <1>0 DEF StreamInv, TypeOK
<1>4. ASSUME OnePacket(byte), PacketOf(byte) \in lost PROVE FALSE
  <2>0. \A c \in ToSet(row) : PacketOf(c) = PacketOf(byte)
    BY <1>4 DEF OnePacket
  <2>1. PICK b \in 1 .. nReceived : PacketOf(b) = PacketOf(byte) /\ Gone(b)
    BY <1>0, <1>4 DEF GapsNoticed
  <2>2. b \in Nat \ {0} BY <1>0, StreamNumbers
  <2>3. IndexOf(b) \in 1 .. PacketBytes BY <2>2, ByteSplit
  <2>4. CASE IndexOf(b) = PacketBytes
    <3>1. b = byte BY <1>1, <1>2, <2>1, <2>2, <2>4, SameByte
    <3> QED BY <1>2, <2>1, <3>1 DEF Gone
  <2>5. CASE IndexOf(b) # PacketBytes
    <3> DEFINE k == IndexOf(b)
    <3>1. k \in 1 .. Len(row)
      BY <1>1, <1>3, <2>3, <2>5, SerialAssumption
    <3>2. row[k] \in ToSet(row) /\ row[k] \in Nat \ {0}
      BY <1>0, <1>3, <3>1, StreamNumbers, ElementOfSeq DEF ToSet
    <3>3. PacketOf(row[k]) = PacketOf(b) /\ IndexOf(row[k]) = IndexOf(b)
      BY <1>0, <2>0, <2>1, <3>1, <3>2 DEF GapsNoticed
    <3>4. row[k] = b BY <2>2, <3>2, <3>3, SameByte
    <3> QED BY <2>1, <3>1, <3>4 DEF Gone
  <2> QED BY <2>4, <2>5
<1>5. \A i \in 1 .. Len(row') : FALSE BY <1>1
<1>6. SplicedFromLost'
  <2>1. CASE OnePacket(byte) BY <1>1, <1>4, <2>1 DEF SplicedFromLost
  <2>2. CASE ~OnePacket(byte)
    <3>1. {PacketOf(b) : b \in ToSet(row)} \cup {PacketOf(byte)} \subseteq lost
      BY <1>1, <2>2, MixedFrame DEF NextInRow
    <3> QED BY <1>1, <2>2, <3>1 DEF SplicedFromLost
  <2> QED BY <2>1, <2>2
<1> QED BY <1>1, <1>5, <1>6, ByteTakenNotices

\* The parser takes the next byte, or starts again with it, or without.
LEMMA ByteTakenMisses ==
    ASSUME SpliceInv, batch # <<>>, batch' = Tail(batch), pc' # "idle",
           UNCHANGED <<validation_queue, lost, nReceived>>,
           row' \in {Append(row, Head(batch)), <<Head(batch)>>, <<>>}
    PROVE  BytesMissed'
<1> DEFINE byte == Head(batch)
<1>0. StreamInv /\ BytesMissed BY DEF SpliceInv
<1>1. /\ row \in Seq(1 .. nReceived) /\ Len(row) \in Nat /\ nReceived \in Nat
      /\ \A i \in 1 .. Len(row) : row[i] \in 1 .. nReceived
  <2>1. row \in Seq(1 .. nReceived) BY <1>0 DEF StreamInv, TypeOK
  <2> QED BY <1>0, <2>1, StreamNumbers, ElementOfSeq
<1>2. /\ byte = batch[1] /\ byte \in 1 .. nReceived
      /\ Len(batch) \in Nat \ {0} /\ Len(batch') = Len(batch) - 1
      /\ \A i \in 1 .. Len(batch') :
            /\ i + 1 \in 1 .. Len(batch) /\ batch'[i] = batch[i + 1]
            /\ batch'[i] > byte
  BY <1>0, NextOfBatch
<1>3. 1 \in 1 .. Len(batch) BY <1>2
<1>4. \A i \in 1 .. Len(validation_queue) :
         byte < validation_queue[i] /\ validation_queue[i] \in 1 .. nReceived
  BY <1>0, <1>2, <1>3, StreamNumbers DEF StreamInv, BytesInOrder
<1>5. \A i \in 1 .. Len(row) : row[i] < byte
  BY <1>0, <1>2, <1>3 DEF BytesMissed
<1> HIDE DEF byte
<1>6. \A i \in 1 .. Len(batch) : batch[i] = byte \/ (i > 1 /\ batch[i] = batch'[i - 1]
                                                   /\ i - 1 \in 1 .. Len(batch'))
  BY <1>2
<1>7. \/ /\ Len(row') = Len(row) + 1 /\ row'[Len(row) + 1] = byte
         /\ \A i \in 1 .. Len(row) : row'[i] = row[i]
      \/ Len(row') = 1 /\ row'[1] = byte
      \/ Len(row') = 0
  <2>1. CASE row' = Append(row, byte) BY <1>1, <1>2, <2>1, AppendProperties
  <2>2. CASE row' = <<byte>> BY <2>2
  <2>3. CASE row' = <<>> BY <2>3
  <2> QED BY <2>1, <2>2, <2>3 DEF byte
<1>8. \A i \in 1 .. Len(row') :
         \/ i \in 1 .. Len(row) /\ row'[i] = row[i]
         \/ row'[i] = byte /\ i = Len(row')
  <2>1. CASE /\ Len(row') = Len(row) + 1 /\ row'[Len(row) + 1] = byte
             /\ \A i \in 1 .. Len(row) : row'[i] = row[i]
    <3>1. \A i \in 1 .. Len(row') : i \in 1 .. Len(row) \/ i = Len(row) + 1
      BY <1>1, <2>1
    <3> QED BY <2>1, <3>1
  <2>2. CASE Len(row') = 1 /\ row'[1] = byte
    <3>1. \A i \in 1 .. Len(row') : i = 1 BY <2>2
    <3> QED BY <2>2, <3>1
  <2>3. CASE Len(row') = 0
    <3>1. \A i \in 1 .. Len(row') : FALSE BY <2>3
    <3> QED BY <3>1
  <2> QED BY <1>7, <2>1, <2>2, <2>3
<1>9. /\ \A i, j \in 1 .. Len(row') : i < j => row'[i] < row'[j]
      /\ \A i \in 1 .. Len(row'), j \in 1 .. Len(batch') : row'[i] < batch'[j]
      /\ \A i \in 1 .. Len(row'), j \in 1 .. Len(validation_queue) :
            row'[i] < validation_queue[j]
  <2>1. ASSUME NEW i \in 1 .. Len(row'), NEW j \in 1 .. Len(row'), i < j
        PROVE  row'[i] < row'[j]
    <3>1. i \in 1 .. Len(row) /\ row'[i] = row[i] BY <1>1, <1>7, <1>8, <2>1
    <3>2. CASE j \in 1 .. Len(row) /\ row'[j] = row[j]
      BY <1>0, <2>1, <3>1, <3>2 DEF BytesMissed
    <3>3. CASE row'[j] = byte BY <1>5, <3>1, <3>3
    <3> QED BY <1>8, <3>2, <3>3
  <2>2. ASSUME NEW i \in 1 .. Len(row'), NEW j \in 1 .. Len(batch')
        PROVE  row'[i] < batch'[j]
    <3>1. CASE row'[i] = byte BY <1>2, <3>1
    <3>2. CASE i \in 1 .. Len(row) /\ row'[i] = row[i]
      BY <1>0, <1>2, <3>2 DEF BytesMissed
    <3> QED BY <1>8, <3>1, <3>2
  <2>3. ASSUME NEW i \in 1 .. Len(row'), NEW j \in 1 .. Len(validation_queue)
        PROVE  row'[i] < validation_queue[j]
    <3>1. CASE row'[i] = byte BY <1>4, <3>1
    <3>2. CASE i \in 1 .. Len(row) /\ row'[i] = row[i]
      BY <1>0, <3>2 DEF BytesMissed
    <3> QED BY <1>8, <3>1, <3>2
  <2> QED BY <2>1, <2>2, <2>3
<1>10. ASSUME NEW b \in 1 .. nReceived, NEW c \in 1 .. nReceived, b < c,
              ~Gone(b)', Gone(c)'
       PROVE  PacketOf(c) \in lost
  <2>1. \/ \E i \in 1 .. Len(row') : row'[i] = b
        \/ \E i \in 1 .. Len(batch') : batch'[i] = b
        \/ \E i \in 1 .. Len(validation_queue) : validation_queue[i] = b
    BY <1>10 DEF Gone
  <2>2. ~Gone(b)
    <3>1. CASE \E i \in 1 .. Len(row') : row'[i] = b
      BY <1>2, <1>3, <1>8, <3>1 DEF Gone
    <3>2. CASE \E i \in 1 .. Len(batch') : batch'[i] = b
      BY <1>2, <3>2 DEF Gone
    <3>3. CASE \E i \in 1 .. Len(validation_queue) : validation_queue[i] = b
      BY <3>3 DEF Gone
    <3> QED BY <2>1, <3>1, <3>2, <3>3
  <2>3. Gone(c)
    <3>1. SUFFICES ASSUME ~Gone(c) PROVE FALSE OBVIOUS
    <3>2. /\ \A i \in 1 .. Len(row') : row'[i] # c
          /\ \A i \in 1 .. Len(batch') : batch'[i] # c
          /\ \A i \in 1 .. Len(validation_queue) : validation_queue[i] # c
      BY <1>10 DEF Gone
    <3>3. \/ \E i \in 1 .. Len(row) : row[i] = c
          \/ c = byte
      BY <1>6, <3>1, <3>2 DEF Gone
    <3>4. c <= byte
      BY <1>1, <1>2, <1>5, <3>3
    <3>5. CASE \E i \in 1 .. Len(row') : row'[i] = b
      <4>1. Len(row') # 0 BY <3>5
      <4>2. CASE /\ Len(row') = Len(row) + 1 /\ row'[Len(row) + 1] = byte
                 /\ \A i \in 1 .. Len(row) : row'[i] = row[i]
        <5>1. Len(row) + 1 \in 1 .. Len(row')
              /\ \A i \in 1 .. Len(row) : i \in 1 .. Len(row')
          BY <1>1, <4>2
        <5> QED BY <3>2, <3>3, <4>2, <5>1
      <4>3. CASE Len(row') = 1 /\ row'[1] = byte
        <5>1. b = byte BY <3>5, <4>3
        <5> QED BY <1>1, <1>2, <1>10, <3>4, <5>1
      <4> QED BY <1>7, <4>1, <4>2, <4>3
    <3>6. CASE \E i \in 1 .. Len(batch') : batch'[i] = b
      BY <1>1, <1>2, <1>10, <3>4, <3>6
    <3>7. CASE \E i \in 1 .. Len(validation_queue) : validation_queue[i] = b
      BY <1>1, <1>2, <1>4, <1>10, <3>4, <3>7
    <3> QED BY <2>1, <3>5, <3>6, <3>7
  <2> QED BY <1>0, <1>10, <2>2, <2>3 DEF BytesMissed
<1>11. \A c : PacketOf(c)' = PacketOf(c) BY DEF PacketOf
<1> QED BY <1>9, <1>10, <1>11 DEF BytesMissed

\* A chunk that was not lost is on its way.
LEMMA RxReadyMisses ==
    ASSUME SpliceInv, RxReady
    PROVE  BytesMissed'
<1>0. StreamInv /\ BytesMissed BY DEF SpliceInv
<1>1. PICK n \in 1 .. DmaBufferSize - rxFill :
        /\ nReceived' = nReceived + n
        /\ IF Accepts(n)
             THEN /\ validation_queue' = validation_queue \o Chunk(n)
                  /\ UNCHANGED lost
             ELSE /\ lost' = lost \cup {PacketOf(b) : b \in ToSet(Chunk(n))}
                  /\ UNCHANGED validation_queue
  BY DEF RxReady
<1>2. UNCHANGED <<pc, batch, row>> BY DEF RxReady, handlerVars
<1>3. n \in Nat \ {0} /\ nReceived \in Nat
  BY <1>0, <1>1, StreamNumbers, SerialAssumption DEF StreamInv, TypeOK
<1>4. /\ \A i \in 1 .. Len(row) : row[i] \in 1 .. nReceived
      /\ \A i \in 1 .. Len(batch) : batch[i] \in 1 .. nReceived
      /\ \A i \in 1 .. Len(validation_queue) :
            validation_queue[i] \in 1 .. nReceived
  BY <1>0, StreamNumbers, ElementOfSeq DEF StreamInv, TypeOK
<1>5. \A c : PacketOf(c)' = PacketOf(c) BY DEF PacketOf
<1>6. \A c \in 1 .. nReceived' : c \in 1 .. nReceived \/ c \in nReceived + 1 .. nReceived + n
  BY <1>1, <1>3
<1>7. CASE Accepts(n)
  <2>1. /\ Len(validation_queue) \in Nat
        /\ Len(validation_queue') = Len(validation_queue) + n
        /\ \A i \in 1 .. Len(validation_queue) :
              validation_queue'[i] = validation_queue[i]
        /\ \A i \in Len(validation_queue) + 1 .. Len(validation_queue) + n :
              validation_queue'[i] = nReceived + (i - Len(validation_queue))
    <3>1. validation_queue \in Seq(1 .. nReceived)
      BY <1>0 DEF StreamInv, TypeOK
    <3>2. validation_queue' = validation_queue \o [i \in 1 .. n |-> nReceived + i]
      BY <1>1, <1>7 DEF Chunk
    <3> QED BY <1>3, <3>1, <3>2
  <2> DEFINE had == Len(validation_queue)
  <2>2. \A i \in 1 .. Len(validation_queue') :
           \/ i \in 1 .. had /\ validation_queue'[i] = validation_queue[i]
           \/ validation_queue'[i] \in Nat /\ validation_queue'[i] > nReceived
    BY <1>3, <2>1
  <2>3. \A c \in nReceived + 1 .. nReceived + n : ~Gone(c)'
    <3> TAKE c \in nReceived + 1 .. nReceived + n
    <3> DEFINE i == had + (c - nReceived)
    <3>1. i \in had + 1 .. had + n /\ i \in 1 .. Len(validation_queue')
          /\ i - had = c - nReceived /\ nReceived + (c - nReceived) = c
      BY <1>3, <2>1
    <3> HIDE DEF i
    <3>2. validation_queue'[i] = c BY <2>1, <3>1
    <3> QED BY <3>1, <3>2 DEF Gone
  <2>4. \A i \in 1 .. had : i \in 1 .. Len(validation_queue')
    BY <1>3, <2>1
  <2>5. \A c \in 1 .. nReceived : Gone(c)' = Gone(c)
    <3> TAKE c \in 1 .. nReceived
    <3>1. (\E i \in 1 .. Len(validation_queue') : validation_queue'[i] = c)
             <=> (\E i \in 1 .. had : validation_queue[i] = c)
      BY <1>3, <2>1, <2>2, <2>4
    <3> QED BY <1>2, <3>1 DEF Gone
  <2>6. ASSUME NEW b \in 1 .. nReceived', NEW c \in 1 .. nReceived', b < c,
               ~Gone(b)', Gone(c)'
        PROVE  PacketOf(c) \in lost
    <3>1. c \in 1 .. nReceived BY <1>6, <2>3, <2>6
    <3>2. b \in 1 .. nReceived BY <1>3, <2>6, <3>1
    <3> QED BY <1>0, <2>5, <2>6, <3>1, <3>2 DEF BytesMissed
  <2>7. \A i \in 1 .. Len(row), j \in 1 .. Len(validation_queue') :
           row[i] < validation_queue'[j]
    <3> TAKE i \in 1 .. Len(row), j \in 1 .. Len(validation_queue')
    <3>1. CASE j \in 1 .. had /\ validation_queue'[j] = validation_queue[j]
      BY <1>0, <3>1 DEF BytesMissed
    <3>2. CASE validation_queue'[j] \in Nat /\ validation_queue'[j] > nReceived
      BY <1>3, <1>4, <3>2
    <3> QED BY <2>2, <3>1, <3>2
  <2> QED BY <1>0, <1>1, <1>2, <1>5, <1>7, <2>6, <2>7 DEF BytesMissed
<1>8. CASE ~Accepts(n)
  <2>1. /\ UNCHANGED validation_queue
        /\ lost' = lost \cup {PacketOf(b) : b \in ToSet(Chunk(n))}
    BY <1>1, <1>8
  <2>2. \A c : Gone(c)' = Gone(c) BY <1>2, <2>1 DEF Gone
  <2>3. \A c \in nReceived + 1 .. nReceived + n : PacketOf(c) \in lost'
    <3> TAKE c \in nReceived + 1 .. nReceived + n
    <3>1. c - nReceived \in 1 .. n /\ nReceived + (c - nReceived) = c
      BY <1>3
    <3>2. c \in ToSet(Chunk(n)) BY <1>3, <3>1 DEF ToSet, Chunk
    <3> QED BY <2>1, <3>2
  <2>4. ASSUME NEW b \in 1 .. nReceived', NEW c \in 1 .. nReceived', b < c,
               ~Gone(b), Gone(c)
        PROVE  PacketOf(c) \in lost'
    <3>1. CASE c \in nReceived + 1 .. nReceived + n BY <2>3, <3>1
    <3>2. CASE c \in 1 .. nReceived
      <4>1. b \in 1 .. nReceived BY <1>3, <2>4, <3>2
      <4> QED BY <1>0, <2>1, <2>4, <3>2, <4>1 DEF BytesMissed
    <3> QED BY <1>6, <3>1, <3>2
  <2> QED BY <1>0, <1>2, <1>5, <2>1, <2>2, <2>4 DEF BytesMissed
<1> QED BY <1>7, <1>8

\* Every step keeps SpliceInv.
LEMMA SpliceInvStep == SpliceInv /\ [Next]_vars => SpliceInv'
<1> SUFFICES ASSUME SpliceInv, [Next]_vars PROVE GapsNoticed' /\ BytesMissed'
  BY StreamInvStep DEF SpliceInv
<1>0. StreamInv /\ GapsNoticed /\ BytesMissed /\ StreamInv'
  BY StreamInvStep DEF SpliceInv
<1>1. CASE RxReady BY <1>1, RxReadyNotices, RxReadyMisses
<1>2. CASE HandleByte
  <2>1. /\ batch # <<>> /\ batch' = Tail(batch) /\ pc = "loop" /\ pc' = pc
        /\ UNCHANGED <<validation_queue, lost, nReceived>>
        /\ row' \in {Append(row, Head(batch)), <<Head(batch)>>, <<>>}
    BY <1>2 DEF HandleByte, rxVars
  <2> QED BY <1>2, <2>1, HandleByteNotices, ByteTakenMisses
<1>3. CASE CompletePacket
  <2>1. /\ batch # <<>> /\ batch' = Tail(batch) /\ row' = <<>> /\ pc' = "transmit"
        /\ UNCHANGED <<validation_queue, lost, nReceived>>
    BY <1>3 DEF CompletePacket, rxVars
  <2> QED BY <1>3, <2>1, CompletePacketNotices, ByteTakenMisses
<1>4. CASE RejectPacket
  <2>1. /\ batch # <<>> /\ batch' = Tail(batch) /\ row' = <<>>
        /\ UNCHANGED <<validation_queue, lost, nReceived, completed, spliced>>
        /\ pc = "loop" /\ pc' = pc
    BY <1>4 DEF RejectPacket, rxVars
  <2>2. \A i \in 1 .. Len(row') : FALSE BY <2>1
  <2>3. SplicedFromLost' BY <1>0, <2>1 DEF GapsNoticed, SplicedFromLost
  <2> QED BY <2>1, <2>2, <2>3, ByteTakenNotices, ByteTakenMisses
<1>5. CASE HandlerStart
  <2>1. /\ batch' = validation_queue /\ validation_queue' = <<>>
        /\ UNCHANGED <<row, lost, nReceived, completed, spliced>>
        /\ pc = "idle" /\ pc' = "loop"
    BY <1>5 DEF HandlerStart, rxVars
  <2>2. batch = <<>> BY <1>0, <2>1 DEF BytesMissed
  <2>3. \A b : Gone(b)' = Gone(b) BY <2>1, <2>2 DEF Gone
  <2>4. SplicedFromLost' BY <1>0, <2>1 DEF GapsNoticed, SplicedFromLost
  <2>5. GapsNoticed' BY <1>0, <2>1, <2>3, <2>4, NothingMoreLost DEF GapsNoticed
  <2>6. \A c : PacketOf(c)' = PacketOf(c) BY DEF PacketOf
  <2>7. BytesMissed' BY <1>0, <2>1, <2>3, <2>6 DEF BytesMissed
  <2> QED BY <2>5, <2>7
<1>6. ASSUME UNCHANGED <<validation_queue, batch, row, lost, nReceived, completed,
                         spliced>>,
             pc' = "idle" => pc = "idle" \/ batch = <<>>
      PROVE  GapsNoticed' /\ BytesMissed'
  <2>1. \A b : Gone(b)' = Gone(b) BY <1>6 DEF Gone
  <2>2. SplicedFromLost' BY <1>0, <1>6 DEF GapsNoticed, SplicedFromLost
  <2>3. GapsNoticed' BY <1>0, <1>6, <2>1, <2>2, NothingMoreLost DEF GapsNoticed
  <2>4. \A c : PacketOf(c)' = PacketOf(c) BY DEF PacketOf
  <2>5. BytesMissed' BY <1>0, <1>6, <2>1, <2>4 DEF BytesMissed
  <2> QED BY <2>3, <2>5
<1>7. CASE \/ StartReception \/ FinishStart \/ BufferRequest \/ RxStopped
           \/ TxDone \/ TxAborted
  <2>1. UNCHANGED <<validation_queue, handlerVars, lost, nReceived>>
    BY <1>7 DEF StartReception, FinishStart, BufferRequest, RxStopped, TxDone,
       TxAborted, rxVars
  <2> QED BY <1>6, <2>1 DEF handlerVars
<1>8. CASE Transmit \/ QueuePacket \/ HandlerReturn \/ FrameOverwritten
  <2>1. /\ UNCHANGED <<rxVars, validation_queue, batch, row, completed, spliced>>
        /\ pc' = "idle" => pc = "idle" \/ batch = <<>>
    BY <1>8 DEF Transmit, QueuePacket, HandlerReturn, FrameOverwritten
  <2> QED BY <1>6, <2>1 DEF rxVars
<1>9. CASE PatternPop \/ PatternRead \/ UNCHANGED vars
  <2>1. UNCHANGED <<rxVars, validation_queue, handlerVars>>
    BY <1>9 DEF PatternPop, PatternRead, vars, pipelineVars
  <2> QED BY <1>6, <2>1 DEF rxVars, handlerVars
<1> QED
  BY <1>1, <1>2, <1>3, <1>4, <1>5, <1>7, <1>8, <1>9 DEF Next, Step, Handler

\* Whatever the decoder thinks of spliced frames: validation_handler puts only
\* such packets together that each lost bytes in a chunk UART_RX_RDY dropped, and
\* completes one that did only in this way; no other packet is touched.
THEOREM SplicesAreOfLost == Spec => []SplicedFromLost
<1>1. SpliceInv => SplicedFromLost
  BY DEF SpliceInv, GapsNoticed
<1> QED BY SpliceInvInit, SpliceInvStep, <1>1, PTL DEF Spec

-----------------------------------------------------------------------------
(* A host that waits for each reply *)

\* The line carries at most the packet after the last reply the host was content
\* with; so no reply was refused, and no chunk was lost if a frame fits into
\* validation_queue.
LineWithin ==
    HostWaits => /\ nReceived <= UpTo(Answered + 1)
                 /\ refused = {}
                 /\ PacketBytes <= DmaBufferSize => lost = {}

\* The inductive invariant behind WaitingHostNotRefused.
WaitInv == StreamInv /\ LineWithin

\* The next packet ends PacketBytes later.
LEMMA UpToNext ==
    ASSUME NEW p \in Nat
    PROVE  UpTo(p + 1) = UpTo(p) + PacketBytes
  BY SerialAssumption DEF UpTo

\* The replies the host was content with are among those it got.
LEMMA AnsweredUpTo ==
    ASSUME nReplies \in Nat
    PROVE  /\ UpTo(Answered + 1) \in Nat /\ UpTo(nReplies + 1) \in Nat
           /\ UpTo(Answered + 1) <= UpTo(nReplies + 1)
<1>1. /\ Answered + 1 \in Nat /\ nReplies + 1 \in Nat
      /\ Answered + 1 <= nReplies + 1
  BY AnsweredWithin
<1> QED BY <1>1, UpToNat, UpToMonotonic

\* WaitInv holds before start_process.
LEMMA WaitInvInit == Init => WaitInv
<1> SUFFICES ASSUME Init PROVE LineWithin
  BY StreamInvInit DEF WaitInv
<1>1. nReceived = 0 /\ nReplies = 0 /\ refused = {} /\ lost = {}
  BY DEF Init
<1>2. UpTo(Answered + 1) \in Nat BY <1>1, AnsweredUpTo
<1> QED BY <1>1, <1>2 DEF LineWithin

\* A waiting host offers no more than the packet after the last such reply.
LEMMA OfferedToWaiting ==
    ASSUME nReplies \in Nat, HostWaits
    PROVE  Offered <= UpTo(Answered + 1)
<1>0. Answered + 1 \in Nat BY AnsweredWithin
<1>1. UpTo(Answered + 1) \in Nat BY <1>0, UpToNat
<1>2. CASE Answered + 1 < MaxPackets
  <2>1. Offered = UpTo(Answered + 1) BY <1>2 DEF Offered, UpTo
  <2> QED BY <1>1, <2>1
<1>3. CASE ~(Answered + 1 < MaxPackets)
  <2>1. Offered = UpTo(MaxPackets) BY <1>3 DEF Offered, UpTo
  <2>2. MaxPackets <= Answered + 1 BY <1>0, <1>3, SerialAssumption
  <2> QED BY <1>0, <2>1, <2>2, UpToMonotonic, SerialAssumption
<1> QED BY <1>2, <1>3

\* The bytes of validation_queue belong to packets after the last completed, all
\* of which have been answered when the host waits.
LEMMA ChunkFits ==
    ASSUME WaitInv, HostWaits, PacketBytes <= DmaBufferSize,
           NEW n \in Nat, nReceived + n <= Offered
    PROVE  Accepts(n)
<1> DEFINE waiting == Len(validation_queue)
<1>0. StreamInv /\ nReplies \in Nat /\ completed \in Nat /\ nReceived \in Nat
  BY StreamNumbers DEF WaitInv, StreamInv, TypeOK
<1>1. waiting \in Nat BY <1>0, StreamNumbers
<1>2. UpTo(completed) + waiting <= nReceived
  <2>1. CASE waiting = 0 
    BY <1>0, <2>1, StreamNumbers DEF StreamInv, BytesInOrder
  <2>2. CASE waiting # 0
    <3>1. /\ validation_queue[1] > UpTo(completed)
          /\ validation_queue[1] + waiting - 1 <= nReceived
          /\ validation_queue[1] \in Nat /\ UpTo(completed) \in Nat
      <4>1. 1 \in 1 .. waiting BY <1>1, <2>2
      <4>2. validation_queue[1] \in 1 .. nReceived /\ UpTo(completed) \in Nat
        BY <1>0, <4>1, StreamNumbers
      <4>3. validation_queue[1] > UpTo(completed)
        BY <1>0, <4>1 DEF StreamInv, BytesInOrder
      <4>4. validation_queue[1] + waiting - 1 <= nReceived
        BY <1>0, <4>1 DEF StreamInv, BytesInOrder
      <4> QED BY <1>0, <4>2, <4>3, <4>4
    <3> HIDE DEF waiting
    <3> QED BY <1>0, <1>1, <3>1
  <2> QED BY <2>1, <2>2
<1> HIDE DEF waiting
<1>3. nReplies <= completed
  BY <1>0 DEF StreamInv, RepliesCounted
<1>4. UpTo(nReplies) <= UpTo(completed) /\ UpTo(nReplies) \in Nat
      /\ UpTo(completed) \in Nat
  BY <1>0, <1>3, UpToMonotonic, UpToNat
<1>5. Offered \in Nat
  <2>1. nReplies \in 0 .. MaxPackets BY <1>0 DEF StreamInv, TypeOK
  <2> QED BY <2>1, OfferedWithin
<1>6. Offered <= UpTo(nReplies) + PacketBytes
  BY <1>0, <1>5, OfferedToWaiting, AnsweredUpTo, UpToNext
<1>7. waiting + n <= PacketBytes
  BY <1>0, <1>1, <1>2, <1>4, <1>5, <1>6, SerialAssumption
<1>8. waiting + n <= DmaBufferSize
  BY <1>1, <1>7, SerialAssumption
<1> QED BY <1>8 DEF waiting, Accepts

\* uart_tx finds the line idle: two replies at once would take two packets.
LEMMA LineIdle ==
    ASSUME WaitInv, HostWaits, pc = "transmit"
    PROVE  txPacket = NoPacket
<1>0. /\ StreamInv /\ nReplies \in Nat /\ completed \in Nat /\ nReceived \in Nat
      /\ UpTo(completed) <= nReceived /\ nReceived <= UpTo(Answered + 1)
  BY StreamNumbers
  DEF WaitInv, StreamInv, TypeOK, LineWithin, BytesInOrder
<1>1. SUFFICES ASSUME txPacket # NoPacket PROVE FALSE OBVIOUS
<1>2. nReplies + 2 <= completed BY <1>0, <1>1 DEF StreamInv, RepliesCounted
<1>3. UpTo(nReplies + 2) <= UpTo(completed)
  BY <1>0, <1>2, UpToMonotonic
<1>4. UpTo(nReplies + 2) = UpTo(nReplies + 1) + PacketBytes
  BY <1>0, UpToNext
<1>5. /\ UpTo(nReplies + 1) \in Nat /\ UpTo(completed) \in Nat
      /\ UpTo(Answered + 1) \in Nat /\ UpTo(Answered + 1) <= UpTo(nReplies + 1)
  BY <1>0, UpToNat, AnsweredUpTo
<1> QED BY <1>0, <1>3, <1>4, <1>5, SerialAssumption

\* Every step keeps WaitInv.
LEMMA WaitInvStep == WaitInv /\ [Next]_vars => WaitInv'
<1> SUFFICES ASSUME WaitInv, [Next]_vars PROVE LineWithin'
  BY StreamInvStep DEF WaitInv
<1>0. /\ StreamInv /\ LineWithin /\ UNCHANGED scenario
      /\ nReplies \in Nat /\ nReceived \in Nat
  BY StreamNumbers DEF WaitInv, StreamInv, TypeOK, Next, vars
<1> SUFFICES ASSUME HostWaits
             PROVE  /\ nReceived' <= UpTo(Answered + 1)'
                    /\ refused' = {}
                    /\ PacketBytes <= DmaBufferSize => lost' = {}
  BY <1>0 DEF LineWithin, HostWaits
<1>1. /\ nReceived <= UpTo(Answered + 1) /\ refused = {}
      /\ PacketBytes <= DmaBufferSize => lost = {}
  BY <1>0 DEF LineWithin
<1>2. \A k \in Nat : UpTo(k)' = UpTo(k) BY DEF UpTo
<1>3. CASE RxReady
  <2>1. /\ UNCHANGED <<nReplies, refused>>
        /\ \E n \in Nat :
              /\ nReceived + n <= Offered /\ nReceived' = nReceived + n
              /\ Accepts(n) => UNCHANGED lost
    <3>1. UNCHANGED <<nReplies, refused>> BY <1>3 DEF RxReady, txVars
    <3>2. \A n \in 1 .. DmaBufferSize - rxFill : n \in Nat
      BY <1>0, SerialAssumption DEF StreamInv, TypeOK
    <3> QED BY <1>3, <3>1, <3>2 DEF RxReady
  <2>2. PacketBytes <= DmaBufferSize => lost' = {}
    BY <1>1, <2>1, ChunkFits
  <2>3. nReceived' <= UpTo(Answered + 1)'
    <3>1. nReceived' <= Offered BY <2>1
    <3>2. Offered <= UpTo(Answered + 1) BY <1>0, OfferedToWaiting
    <3>3. Offered \in Nat /\ UpTo(Answered + 1) \in Nat /\ nReceived' \in Nat
      <4>1. nReplies \in 0 .. MaxPackets BY <1>0 DEF StreamInv, TypeOK
      <4> QED BY <1>0, <2>1, <4>1, OfferedWithin, AnsweredUpTo
    <3>4. UpTo(Answered + 1)' = UpTo(Answered + 1)
      BY <1>0, <2>1 DEF UpTo, Answered, Content
    <3> QED BY <3>1, <3>2, <3>3, <3>4
  <2> QED BY <1>1, <2>1, <2>2, <2>3
<1>4. CASE TxDone
  <2>1. nReplies' = nReplies + 1 /\ UNCHANGED <<nReceived, lost, refused>>
    BY <1>4 DEF TxDone, rxVars
  <2>2. /\ Answered' \in {Answered, Answered + 1} /\ Answered \in Nat
        /\ UpTo(Answered + 1)' = UpTo(Answered' + 1)
    BY <1>0, <2>1 DEF UpTo, Answered, Content
  <2>3. UpTo(Answered + 1) <= UpTo(Answered' + 1)
    BY <2>2, UpToMonotonic
  <2>4. UpTo(Answered + 1) \in Nat /\ UpTo(Answered' + 1) \in Nat
    BY <2>2, UpToNat
  <2> QED BY <1>0, <1>1, <2>1, <2>2, <2>3, <2>4
<1>5. CASE Transmit
  <2>1. UNCHANGED <<nReceived, lost, nReplies, refused>>
    BY <1>5, LineIdle DEF Transmit, rxVars
  <2>2. UpTo(Answered + 1)' = UpTo(Answered + 1)
    BY <1>0, <2>1 DEF UpTo, Answered, Content
  <2> QED BY <1>1, <2>1, <2>2
<1>6. ASSUME UNCHANGED <<nReceived, lost, nReplies, refused>>
      PROVE  /\ nReceived' <= UpTo(Answered + 1)' /\ refused' = {}
             /\ PacketBytes <= DmaBufferSize => lost' = {}
  BY <1>0, <1>1, <1>6 DEF UpTo, Answered, Content
<1>7. CASE \/ StartReception \/ FinishStart \/ BufferRequest \/ RxStopped
           \/ TxAborted
  BY <1>6, <1>7
  DEF StartReception, FinishStart, BufferRequest, RxStopped, TxAborted, rxVars, txVars
<1>8. CASE \/ HandlerStart \/ HandleByte \/ CompletePacket \/ RejectPacket
           \/ QueuePacket \/ HandlerReturn \/ FrameOverwritten
  BY <1>6, <1>8
  DEF HandlerStart, HandleByte, CompletePacket, RejectPacket, QueuePacket,
      HandlerReturn, FrameOverwritten, rxVars, txVars
<1>9. CASE PatternPop \/ PatternRead \/ UNCHANGED vars
  BY <1>6, <1>9 DEF PatternPop, PatternRead, rxVars, txVars, vars, pipelineVars
<1> QED
  BY <1>3, <1>4, <1>5, <1>7, <1>8, <1>9 DEF Next, Step, Handler

\* uart_tx refuses no reply to a host that waits for each, however long the
\* frames are and whatever the line does to them.
THEOREM RepliesNeverRefused == Spec => [](HostWaits => refused = {})
<1>1. WaitInv => (HostWaits => refused = {})
  BY DEF WaitInv, LineWithin
<1> QED BY WaitInvInit, WaitInvStep, <1>1, PTL DEF Spec

\* And if a frame fits into validation_queue, no chunk of such a host is lost.
THEOREM WaitingHostNeverRefused ==
    ASSUME PacketBytes <= DmaBufferSize
    PROVE  Spec => []WaitingHostNotRefused
<1>1. WaitInv => WaitingHostNotRefused
  BY DEF WaitInv, LineWithin, WaitingHostNotRefused
<1> QED BY WaitInvInit, WaitInvStep, <1>1, PTL DEF Spec

\* A host that awaits more bytes than the frame sent back has, as the logic test
\* does, never gets a second reply: it has sent nothing to reply to.
THEOREM ShortReplyIsLast ==
    Spec => [](HostWaits /\ ~Content => nReplies <= 1)
<1>1. WaitInv => (HostWaits /\ ~Content => nReplies <= 1)
  <2> SUFFICES ASSUME WaitInv, HostWaits, ~Content PROVE nReplies <= 1
    OBVIOUS
  <2>1. /\ StreamInv /\ nReplies \in Nat /\ completed \in Nat /\ nReceived \in Nat
        /\ UpTo(completed) <= nReceived /\ nReceived <= UpTo(Answered + 1)
        /\ nReplies <= completed
    BY StreamNumbers
    DEF WaitInv, StreamInv, TypeOK, LineWithin, BytesInOrder, RepliesCounted
  <2>2. UpTo(Answered + 1) = PacketBytes
    BY SerialAssumption DEF Answered, UpTo
  <2>3. completed > 1 => UpTo(2) <= UpTo(completed)
    BY <2>1, UpToMonotonic
  <2>4. UpTo(2) = PacketBytes + PacketBytes /\ UpTo(completed) \in Nat
    BY <2>1, UpToNat, SerialAssumption DEF UpTo
  <2> QED BY <2>1, <2>2, <2>3, <2>4, SerialAssumption
<1> QED BY WaitInvInit, WaitInvStep, <1>1, PTL DEF Spec
=============================================================================
