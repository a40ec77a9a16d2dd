----------------------------- MODULE Packetiser -----------------------------
(***************************************************************************)
(* SimplePacketiser_Block (Validator/src/simple_packetiser.tpp): the byte  *)
(* by byte parser that cuts frames out of the serial stream, hands their   *)
(* payload to the Reed-Solomon decoder and gives the decoded message back. *)
(*                                                                         *)
(*    header^HeaderSize  length  payload  footer^FooterSize                *)
(*                                                                         *)
(* where a header, footer or escape byte inside length or payload is       *)
(* followed by an escape byte.                                             *)
(***************************************************************************)
EXTENDS Naturals, Sequences

CONSTANTS
    ByteBits,                      \* 8 in the code
    HeaderByte, FooterByte, EscapeByte,
    HeaderSize, LengthSize, FooterSize,
    LittleEndian,                  \* endianness == LITTLE
    MaxPacketSize,                 \* GlobalConfig::max_packet_size
    ChunkSize, EccSize             \* RS::chunk_size, RS::max_symbols

Byte == 0 .. 2 ^ ByteBits - 1
Special == {HeaderByte, FooterByte, EscapeByte}

ASSUME ByteAssumption ==
    /\ ByteBits \in Nat
    /\ Special \subseteq Byte
ASSUME SizeAssumption ==
    /\ HeaderSize \in Nat \ {0}
    /\ LengthSize \in Nat \ {0}
    /\ FooterSize \in Nat \ {0}
    /\ MaxPacketSize \in Nat
    /\ ChunkSize \in Nat \ {0}
    /\ EccSize \in Nat \ {0}
ASSUME EndianAssumption == LittleEndian \in BOOLEAN

VARIABLES
    curr_state,
    count,            \* bytes_since_last_state_change
    escape_expected,
    expected_length,
    buffer,
    decoded,          \* what this call of add_byte gave decode_func, or <<>>
    message           \* what this call left in message_tx, or <<>>

parser == <<curr_state, count, escape_expected, expected_length, buffer>>
packetiserVars == <<parser, decoded, message>>

-----------------------------------------------------------------------------
(* SSFRSDecode: the payload is cut in chunks of ChunkSize, each with        *)
(* EccSize check bytes; a last chunk with none is refused.                  *)

NumChunks(n) == (n + ChunkSize + EccSize - 1) \div (ChunkSize + EccSize)

HasChunks(n) == n > 0 /\ n % (ChunkSize + EccSize) \notin 1 .. EccSize

DecodedLength(n) == n - EccSize * NumChunks(n)

-----------------------------------------------------------------------------
PacketiserInit ==
    /\ curr_state = "HEADER" /\ count = 0
    /\ escape_expected = FALSE
    /\ expected_length = 0
    /\ buffer = <<>>
    /\ decoded = <<>> /\ message = <<>>

ResetParser ==
    /\ curr_state' = "HEADER" /\ count' = 0
    /\ escape_expected' = FALSE
    /\ expected_length' = 0
    /\ buffer' = <<>>

SetState(s) == curr_state' = s /\ count' = 0

NoMessage == decoded' = <<>> /\ message' = <<>>

\* Mutant: footer bytes are escaped too.
EscapeNeededInFooter(b) == curr_state # "HEADER" /\ b \in Special

EscapeNeeded(b) == curr_state \in {"LENGTH", "PAYLOAD"} /\ b \in Special

\* expected_length after append_length_byte(b).
AppendLengthByte(b) ==
    expected_length
        + b * 2 ^ (ByteBits * (IF LittleEndian THEN count
                                          ELSE LengthSize - count - 1))

EscapeByteSeen(b) ==
    /\ escape_expected
    /\ b = EscapeByte
    /\ escape_expected' = FALSE
    /\ NoMessage
    /\ UNCHANGED <<curr_state, count, expected_length, buffer>>

EscapeByteMissing(b) ==
    /\ escape_expected
    /\ b # EscapeByte
    /\ ResetParser
    /\ NoMessage

HeaderByteSeen(b) ==
    /\ ~escape_expected /\ curr_state = "HEADER"
    /\ b = HeaderByte
    /\ IF count + 1 = HeaderSize THEN SetState("LENGTH")
                                 ELSE count' = count + 1 /\ UNCHANGED curr_state
    /\ escape_expected' = EscapeNeeded(b)
    /\ NoMessage
    /\ UNCHANGED <<expected_length, buffer>>

LengthByteSeen(b) ==
    /\ ~escape_expected /\ curr_state = "LENGTH"
    /\ count + 1 < LengthSize
    /\ expected_length' = AppendLengthByte(b)
    /\ escape_expected' = EscapeNeeded(b)
    /\ count' = count + 1
    /\ NoMessage
    /\ UNCHANGED <<curr_state, buffer>>

\* Mutant: the announced length is not compared with the capacity.
LengthCompleteUnchecked(b) ==
    /\ ~escape_expected /\ curr_state = "LENGTH"
    /\ count + 1 = LengthSize
    /\ expected_length' = AppendLengthByte(b)
    /\ escape_expected' = EscapeNeeded(b)
    /\ SetState("PAYLOAD")
    /\ NoMessage
    /\ UNCHANGED buffer

LengthComplete(b) ==
    /\ ~escape_expected /\ curr_state = "LENGTH"
    /\ count + 1 = LengthSize
    /\ AppendLengthByte(b) <= MaxPacketSize
    /\ expected_length' = AppendLengthByte(b)
    /\ escape_expected' = EscapeNeeded(b)
    /\ SetState("PAYLOAD")
    /\ NoMessage
    /\ UNCHANGED buffer

LengthTooLarge(b) ==
    /\ ~escape_expected /\ curr_state = "LENGTH"
    /\ count + 1 = LengthSize
    /\ AppendLengthByte(b) > MaxPacketSize
    /\ ResetParser
    /\ NoMessage

\* One byte past the end of buffer the C++ program has no defined behaviour:
\* the model stops there.
PayloadByteSeen(b) ==
    /\ ~escape_expected /\ curr_state = "PAYLOAD"
    /\ Len(buffer) <= MaxPacketSize
    /\ buffer' = Append(buffer, b)
    /\ escape_expected' = EscapeNeeded(b)
    /\ IF count + 1 = expected_length
         THEN SetState("FOOTER")
         ELSE count' = count + 1 /\ UNCHANGED curr_state
    /\ NoMessage
    /\ UNCHANGED expected_length

FooterByteSeen(b) ==
    /\ ~escape_expected /\ curr_state = "FOOTER"
    /\ b = FooterByte
    /\ count + 1 < FooterSize
    /\ count' = count + 1
    /\ escape_expected' = EscapeNeeded(b)
    /\ NoMessage
    /\ UNCHANGED <<curr_state, expected_length, buffer>>

\* Mutant: reset() only after a valid frame.
FooterCompleteKeepsInvalid(b, valid) ==
    /\ ~escape_expected /\ curr_state = "FOOTER"
    /\ b = FooterByte
    /\ count + 1 = FooterSize
    /\ valid => HasChunks(Len(buffer))
    /\ decoded' = buffer
    /\ message' = IF valid THEN SubSeq(buffer, 1, DecodedLength(Len(buffer)))
                           ELSE <<>>
    /\ IF valid THEN ResetParser ELSE UNCHANGED parser

\* valid is what decode_func answers: correctable and with a matching CRC.
FooterComplete(b, valid) ==
    /\ ~escape_expected /\ curr_state = "FOOTER"
    /\ b = FooterByte
    /\ count + 1 = FooterSize
    /\ valid => HasChunks(Len(buffer))
    /\ decoded' = buffer
    /\ message' = IF valid THEN SubSeq(buffer, 1, DecodedLength(Len(buffer)))
                           ELSE <<>>
    /\ ResetParser

\* Mutant: a byte that is not the expected one is skipped.
UnexpectedByteSkipped(b) ==
    /\ ~escape_expected
    /\ \/ curr_state = "HEADER" /\ b # HeaderByte
       \/ curr_state = "FOOTER" /\ b # FooterByte
    /\ NoMessage
    /\ UNCHANGED parser

UnexpectedByte(b) ==
    /\ ~escape_expected
    /\ \/ curr_state = "HEADER" /\ b # HeaderByte
       \/ curr_state = "FOOTER" /\ b # FooterByte
    /\ ResetParser
    /\ NoMessage

AddByte(b) ==
    \/ EscapeByteSeen(b) \/ EscapeByteMissing(b)
    \/ HeaderByteSeen(b)
    \/ LengthByteSeen(b) \/ LengthComplete(b) \/ LengthTooLarge(b)
    \/ PayloadByteSeen(b)
    \/ FooterByteSeen(b)
    \/ \E valid \in BOOLEAN : FooterComplete(b, valid)
    \/ UnexpectedByte(b)

\* The packetiser on an arbitrary stream of bytes.
PacketiserNext == \E b \in Byte : AddByte(b)
PacketiserSpec == PacketiserInit /\ [][PacketiserNext]_packetiserVars

-----------------------------------------------------------------------------
(* construct_packet(payload): the frame the device sends back.  It writes   *)
(* no escape bytes, and the check bytes encode_func appends are cut off     *)
(* again by the set_len that follows it.                                    *)

LengthBytes(n) ==
    [i \in 1 .. LengthSize |->
        (n \div 2 ^ (ByteBits * (IF LittleEndian THEN i - 1 ELSE LengthSize - i)))
            % 2 ^ ByteBits]

Repeat(b, n) == [i \in 1 .. n |-> b]

ConstructPacket(payload) ==
    Repeat(HeaderByte, HeaderSize) \o LengthBytes(Len(payload)) \o payload
        \o Repeat(FooterByte, FooterSize)

-----------------------------------------------------------------------------
(* Properties *)

PacketiserTypeOK ==
    /\ curr_state \in {"HEADER", "LENGTH", "PAYLOAD", "FOOTER"}
    /\ count \in Nat
    /\ escape_expected \in BOOLEAN
    /\ expected_length \in Nat
    /\ buffer \in Seq(Byte)
    /\ decoded \in Seq(Byte)
    /\ message \in Seq(Byte)

AtStart == curr_state = "HEADER" /\ count = 0 /\ ~escape_expected

\* A frame that announces a length announces one that fits, and buffer holds
\* exactly the payload bytes counted so far and never more than announced.
PayloadWithinLength ==
    /\ curr_state \in {"PAYLOAD", "FOOTER"} => expected_length <= MaxPacketSize
    /\ curr_state \in {"HEADER", "LENGTH"} => buffer = <<>>
    /\ curr_state = "LENGTH" => count < LengthSize
    /\ curr_state = "PAYLOAD" =>
         /\ Len(buffer) = count
         /\ expected_length > 0 => count < expected_length
    /\ curr_state = "FOOTER" =>
         /\ Len(buffer) = expected_length
         /\ count < FooterSize

PacketiserInv == PacketiserTypeOK /\ PayloadWithinLength

\* "Expected length exceeded buffer capacity. Discarding packet": no packet
\* the parser keeps makes it write past the capacity of buffer.
BufferWithinCapacity == Len(buffer) <= MaxPacketSize
=============================================================================
