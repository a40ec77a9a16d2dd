--------------------------- MODULE PacketiserLink ---------------------------
(***************************************************************************)
(* The packetiser on a serial line.  The host sends frames, well formed or *)
(* the way TesterDevice/lib/tester_funcs.cpp builds them; in between, the  *)
(* line carries noise, among it frames cut short by a chunk dropped from   *)
(* the validation queue.                                                   *)
(***************************************************************************)
EXTENDS Packetiser, SequencesExt

CONSTANTS
    Framings  \* how the host frames its payloads: "escaped", "tester"

ASSUME FramingAssumption == Framings \subseteq {"escaped", "tester"}

VARIABLES
    wire,      \* what is still to come of the frame being sent
    sent,      \* the payload of that frame
    escaped,   \* the frame has the escape bytes the parser expects
    inSync,    \* the packetiser was at the start of a frame when it began
    follows,   \* the last bytes on the line were a whole frame
    seen       \* bytes since the packetiser was last at the start of a frame

linkVars == <<packetiserVars, wire, sent, escaped, inSync, follows, seen>>

-----------------------------------------------------------------------------
Payloads == BoundedSeq(Byte, MaxPacketSize) \ {<<>>}

Escaped(s) ==
    FlattenSeq([i \in DOMAIN s |->
        IF s[i] \in Special THEN <<s[i], EscapeByte>> ELSE <<s[i]>>])

\* The frame format the parser reads.
FrameOf(payload) ==
    Repeat(HeaderByte, HeaderSize)
        \o Escaped(LengthBytes(Len(payload)) \o payload)
        \o Repeat(FooterByte, FooterSize)

\* create_packet_simple of the tester: the same layout as construct_packet.
TesterFrameOf(payload) == ConstructPacket(payload)

Encode(framing, payload) ==
    IF framing = "escaped" THEN FrameOf(payload) ELSE TesterFrameOf(payload)

LinkInit ==
    /\ PacketiserInit
    /\ wire = <<>> /\ sent = <<>> /\ escaped = FALSE
    /\ inSync = TRUE /\ follows = FALSE
    /\ seen = <<>>

Receive(b) ==
    /\ AddByte(b)
    /\ seen' = IF AtStart' THEN <<>> ELSE Append(seen, b)

Noise ==
    /\ wire = <<>>
    /\ \E b \in Byte : Receive(b)
    /\ follows' = FALSE
    /\ sent' = <<>>
    /\ escaped' = FALSE
    /\ UNCHANGED <<wire, inSync>>

StartFrame ==
    /\ wire = <<>>
    /\ \E payload \in Payloads, framing \in Framings :
          /\ sent' = payload
          /\ wire' = Encode(framing, payload)
          /\ escaped' = (wire' = FrameOf(payload))
    /\ inSync' = AtStart
    /\ NoMessage
    /\ UNCHANGED <<parser, follows, seen>>

SendByte ==
    /\ wire # <<>>
    /\ Receive(Head(wire))
    /\ wire' = Tail(wire)
    /\ follows' = IF escaped THEN follows \/ wire' = <<>> ELSE FALSE
    /\ UNCHANGED <<sent, escaped, inSync>>

LinkNext == Noise \/ StartFrame \/ SendByte

LinkSpec == LinkInit /\ [][LinkNext]_linkVars

-----------------------------------------------------------------------------
(* Properties *)

LastByteSent == wire # <<>> /\ wire' = <<>>

\* Soundness: whatever the noise before it, a payload that reaches the
\* decoder was framed on the line: the bytes since the parser last started
\* are exactly its frame.
DecodesOnlyFrames ==
    [][decoded' # <<>> => Append(seen, FooterByte) = FrameOf(decoded')]_linkVars

\* Completeness: a frame that begins while the parser is at the start of a
\* frame reaches the decoder with its last byte, payload intact, if it is
\* escaped the way the parser expects, and only then: one the tester builds
\* is lost when its length or its payload holds a special byte.
InSyncDecodedIffEscaped ==
    [][LastByteSent /\ inSync => (decoded' = sent <=> escaped)]_linkVars

\* Resynchronization: no noise can leave the parser in a state that survives
\* a whole well-formed frame: the frame after it begins in sync.
WholeFrameResynchronizes ==
    wire = <<>> /\ follows => AtStart
=============================================================================
