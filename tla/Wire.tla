-------------------------------- MODULE Wire --------------------------------
(***************************************************************************)
(* The messages of core/src/protocol.cpp as bytes: how the sender encodes  *)
(* and frames a message, what the link makes of the frame, and how the     *)
(* receiver parses the header and decodes the payload field by field, as   *)
(* the callback of core/tests/test_chunking_e2e.cpp does.                  *)
(***************************************************************************)
EXTENDS Integers, Sequences

CONSTANTS
    Base,        \* number of values of a byte (256)
    Width32,     \* bytes of a uint32_t on the wire (4)
    Width64,     \* bytes of a uint64_t on the wire (8)
    Messages,    \* the messages to send: records of a type and its fields
    LinkFaults   \* what the link may do to a frame, besides delivering it

kProtocolVersion == 1
kHeaderSize == 1 + 1 + Width32

VARIABLES
    sent,      \* the message that was sent
    link,      \* its frame as the link has it
    harm,      \* what happened to the frame on the link
    stage,     \* the receiver: waiting, decoding, decoded or thrown
    header,    \* the MessageHeader
    payload,   \* the bytes after the header
    offset,    \* read position of the decoder
    got        \* the fields decoded so far

vars == <<sent, link, harm, stage, header, payload, offset, got>>

Bytes == 0 .. Base - 1
-----------------------------------------------------------------------------
(* Numbers and blocks of bytes.                                            *)

\* What a shift to the left by n bytes multiplies by.
Power[n \in Nat] == IF n = 0 THEN 1 ELSE Base * Power[n - 1]

\* Mutant of PutUint: the bytes are not masked.
PutUintUnmasked(width, v) == [i \in 1 .. width |-> v \div Power[i - 1]]

\* PutU32, PutU64: little-endian, what does not fit is cut off.
PutUint(width, v) == [i \in 1 .. width |-> (v \div Power[i - 1]) % Base]

\* Mutant of GetUint: only the lowest byte is read.
GetUintLowest(width, buf, at) == buf[at + 1]

\* GetU32, GetU64: the number in the width bytes after position at.
GetUint(width, buf, at) ==
    LET low[i \in 0 .. width] ==
            IF i = 0 THEN 0 ELSE low[i - 1] + buf[at + i] * Power[i - 1]
    IN  low[width]

\* PutBytes, PutString: the length as a uint32_t, then the bytes.
PutBytes(data) == PutUint(Width32, Len(data)) \o data
-----------------------------------------------------------------------------
(* The payloads, with the types of their fields.                           *)

U32   == 0 .. Power[Width32] - 1
U64   == 0 .. Power[Width64] - 1
Block == Seq(Bytes)

HelloPayload     == Block \X Block
FileOfferPayload == Block \X U64 \X Block \X U32
ChunkPayload     == U32 \X Block \X Block \X Block

Payload(type) == CASE type = "hello" -> HelloPayload
                   [] type = "offer" -> FileOfferPayload
                   [] type = "chunk" -> ChunkPayload

ASSUME WireAssumption ==
    /\ Base \in Nat /\ Base > 7
    /\ Width32 \in Nat \ {0} /\ Width64 \in Nat \ {0}
    /\ \A m \in Messages :
          m.type \in {"hello", "offer", "chunk"} /\ m.fields \in Payload(m.type)
    /\ LinkFaults \subseteq {"cut", "append", "flip"}

\* device_name, x25519_public_key
EncodeHello(p) == PutBytes(p[1]) \o PutBytes(p[2])

\* file_name, file_size, sha256, total_chunks
EncodeFileOffer(p) ==
    PutBytes(p[1]) \o PutUint(Width64, p[2]) \o PutBytes(p[3]) \o PutUint(Width32, p[4])

\* chunk_index, nonce, ciphertext, tag
EncodeChunk(p) == PutUint(Width32, p[1]) \o PutBytes(p[2]) \o PutBytes(p[3]) \o PutBytes(p[4])

Encode(m) == CASE m.type = "hello" -> EncodeHello(m.fields)
               [] m.type = "offer" -> EncodeFileOffer(m.fields)
               [] m.type = "chunk" -> EncodeChunk(m.fields)

\* What the decoders read, in their order.
DecodeHello     == <<"bytes", "bytes">>
DecodeFileOffer == <<"bytes", "u64", "bytes", "u32">>
DecodeChunk     == <<"u32", "bytes", "bytes", "bytes">>

Decoder(type) == CASE type = "hello" -> DecodeHello
                   [] type = "offer" -> DecodeFileOffer
                   [] type = "chunk" -> DecodeChunk

MessageType(type) == CASE type = "hello" -> 1 [] type = "offer" -> 3 [] type = "chunk" -> 6

\* Mutant of FrameMessage: the length counts the header too.
FrameMessageAll(type, bytes) ==
    <<kProtocolVersion, MessageType(type)>> \o PutUint(Width32, kHeaderSize + Len(bytes)) \o bytes

FrameMessage(type, bytes) ==
    <<kProtocolVersion, MessageType(type)>> \o PutUint(Width32, Len(bytes)) \o bytes

\* Every payload is short enough for its length to go into the header: the
\* casts of protocol.cpp:33, 38 and 65 to uint32_t keep the size.
Representable == \A m \in Messages : Len(Encode(m)) < Power[Width32]
-----------------------------------------------------------------------------
NoHeader == [type |-> 0, payload_len |-> 0]

Init ==
    /\ sent \in Messages
    /\ link = FrameMessage(sent.type, Encode(sent))
    /\ harm = "none"
    /\ stage = "waiting" /\ header = NoHeader /\ payload = <<>> /\ offset = 0 /\ got = <<>>

receiverVars == <<stage, header, payload, offset, got>>

OnLink(what) ==
    /\ what \in LinkFaults
    /\ harm = "none" /\ stage = "waiting"
    /\ harm' = what
    /\ UNCHANGED <<sent, receiverVars>>

\* The connection breaks off inside the frame.
CutFrame == OnLink("cut") /\ \E n \in 0 .. Len(link) - 1 : link' = SubSeq(link, 1, n)

\* The next frame comes in one block with this one.
AppendFrame ==
    OnLink("append") /\ \E m \in Messages : link' = link \o FrameMessage(m.type, Encode(m))

\* One byte of the frame changes.
FlipByte ==
    /\ OnLink("flip")
    /\ \E i \in DOMAIN link : \E b \in Bytes \ {link[i]} : link' = [link EXCEPT ![i] = b]
-----------------------------------------------------------------------------
Throw ==
    /\ stage' = "thrown"
    /\ UNCHANGED <<sent, link, harm, header, payload, offset, got>>

GoodHeader == Len(link) >= kHeaderSize /\ link[1] = kProtocolVersion

\* ParseHeader throws.
BadHeader == stage = "waiting" /\ ~GoodHeader /\ Throw

\* ParseHeader, and the caller's cut behind the header.  Whether payload_len
\* bytes have come is not checked.
ParseHeader ==
    /\ stage = "waiting"
    /\ GoodHeader
    /\ header' = [type |-> link[2], payload_len |-> GetUint(Width32, link, 2)]
    /\ payload' = SubSeq(link, kHeaderSize + 1, Len(link))
    /\ stage' = "decoding"
    /\ UNCHANGED <<sent, link, harm, offset, got>>

\* The caller gives up a message of another type than the one it waits for.
WrongType ==
    /\ stage = "decoding"
    /\ header.type # MessageType(sent.type)
    /\ Throw

Decoding ==
    /\ stage = "decoding"
    /\ header.type = MessageType(sent.type)
    /\ Len(got) < Len(Decoder(sent.type))

NextField == Decoder(sent.type)[Len(got) + 1]

Fits(n) == offset + n <= Len(payload)

\* A length prefix is read only if it is there as a whole.
BlockSize == IF Fits(Width32) THEN Width32 + GetUint(Width32, payload, offset) ELSE Width32

FieldSize == CASE NextField = "u32"   -> Width32
               [] NextField = "u64"   -> Width64
               [] NextField = "bytes" -> BlockSize

ReadNumber ==
    /\ Decoding /\ NextField \in {"u32", "u64"}
    /\ Fits(FieldSize)
    /\ got' = Append(got, GetUint(FieldSize, payload, offset))
    /\ offset' = offset + FieldSize
    /\ UNCHANGED <<sent, link, harm, stage, header, payload>>

\* Mutant of ReadBytes: the length prefix is skipped twice.
ReadBytesSkipTwice ==
    /\ Decoding /\ NextField = "bytes"
    /\ Fits(FieldSize)
    /\ got' = Append(got, SubSeq(payload, offset + Width32 + 1, offset + FieldSize))
    /\ offset' = offset + Width32 + FieldSize
    /\ UNCHANGED <<sent, link, harm, stage, header, payload>>

ReadBytes ==
    /\ Decoding /\ NextField = "bytes"
    /\ Fits(FieldSize)
    /\ got' = Append(got, SubSeq(payload, offset + Width32 + 1, offset + FieldSize))
    /\ offset' = offset + FieldSize
    /\ UNCHANGED <<sent, link, harm, stage, header, payload>>

\* "truncated ...": what the next field needs is not there.
Truncated ==
    /\ Decoding
    /\ ~Fits(FieldSize)
    /\ Throw

\* Mutant of Return: the decoder is content when the bytes run out.
ReturnAtEnd ==
    /\ stage = "decoding"
    /\ \/ Len(got) = Len(Decoder(sent.type))
       \/ offset = Len(payload)
    /\ stage' = "decoded"
    /\ UNCHANGED <<sent, link, harm, header, payload, offset, got>>

\* The decoder returns; bytes behind the last field are ignored.
Return ==
    /\ stage = "decoding" /\ Len(got) = Len(Decoder(sent.type))
    /\ stage' = "decoded"
    /\ UNCHANGED <<sent, link, harm, header, payload, offset, got>>

Next ==
    \/ CutFrame \/ AppendFrame \/ FlipByte
    \/ BadHeader \/ ParseHeader \/ WrongType
    \/ ReadNumber \/ ReadBytes \/ Truncated \/ Return

Spec == Init /\ [][Next]_vars
-----------------------------------------------------------------------------
\* Types of the receiver's variables.
TypeOK ==
    /\ sent \in Messages
    /\ stage \in {"waiting", "decoding", "decoded", "thrown"}
    /\ harm \in {"none"} \cup LinkFaults
    /\ link \in Seq(Bytes) /\ payload \in Seq(Bytes)
    /\ header \in [type : Bytes, payload_len : Nat]
    /\ offset \in Nat
    /\ Len(got) <= Len(Decoder(sent.type))

\* What the decoders return is what the encoders were given, in the same order
\* and width, also if the next frame comes in the same block.
RoundTrip == stage = "decoded" /\ harm \in {"none", "append"} => got = sent.fields

\* A frame of which any number of bytes is missing is never taken for a
\* message (protocol.hpp:74-76).
CutIsNoticed == harm = "cut" => stage # "decoded"

\* Whatever lengths the frame claims, no field is read beyond its end
\* (protocol.cpp:44, 47, 110, 114, 132).
InBounds == offset <= Len(payload)

\* The header tells how many bytes of payload belong to the message, also if
\* fewer have come yet or more have (protocol.hpp:89-90).
HeaderTellsRest ==
    header # NoHeader /\ harm # "flip" => header.payload_len = Len(Encode(sent))


\* What is true of it: one changed byte that leaves all lengths as they were
\* changes one field.
DamageIsLocal ==
    /\ stage = "decoded" /\ harm = "flip"
    /\ \A i \in DOMAIN got : Decoder(sent.type)[i] = "bytes" => Len(got[i]) = Len(sent.fields[i])
    => \A i, j \in DOMAIN got : got[i] # sent.fields[i] /\ got[j] # sent.fields[j] => i = j
=============================================================================
