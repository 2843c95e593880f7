------------------------------ MODULE IpcCodec ------------------------------
(***************************************************************************)
(* The wire formats of tick-ipc: request frames with their CRC-32,         *)
(* response frames, error codes and the token file. Numbers wider than a   *)
(* byte are sequences of bytes, least significant first, so that the casts *)
(* between widths are what they are in the code.                           *)
(***************************************************************************)
EXTENDS Integers, Sequences, SequencesExt, FiniteSetsExt

CONSTANTS Tokens,       \* session tokens
          Payloads,     \* request payloads
          Flips,        \* byte differences that a transmission error makes
          Texts,        \* status texts, as bytes
          Numbers       \* sequences of eight bytes: fields of errors and responses

Byte == 0..255
TOKEN_LEN == 32

ASSUME IpcCodecAssumption ==
    /\ Tokens \subseteq [1..TOKEN_LEN -> Byte]
    /\ Payloads \subseteq Seq(Byte)
    /\ Flips \subseteq 1..255
    /\ Numbers \subseteq [1..8 -> Byte]

MAGIC_BYTES == <<84, 84, 73, 80>>          \* "TTIP"
PROTOCOL_VERSION == <<1, 0>>
MAX_PAYLOAD_LEN == 256

\* A cast between unsigned widths: cut off, or filled up with zeros.
Cast(bytes, width) == [i \in 1..width |-> IF i <= Len(bytes) THEN bytes[i] ELSE 0]
LittleEndian(n, width) == Cast(<<n % 256, n \div 256>>, width)     \* n below 2^16
Value16(bytes) == bytes[1] + 256 * bytes[2]

-----------------------------------------------------------------------------
(* CRC-32, its register a set of bit positions. *)

Weight == <<1, 2, 4, 8, 16, 32, 64, 128>>
BitsOf(byte) == {i \in 0..7 : (byte \div Weight[i + 1]) % 2 = 1}
ByteOf(bits) ==
    LET w(i) == IF i \in bits THEN Weight[i + 1] ELSE 0
    IN w(0) + w(1) + w(2) + w(3) + w(4) + w(5) + w(6) + w(7)
Polynomial == {31, 30, 29, 27, 26, 24, 23, 21, 20, 19, 15, 9, 8, 5}   \* 0xEDB88320

CrcShift(crc) ==
    LET shifted == {i - 1 : i \in crc \ {0}}
    IN IF 0 \in crc THEN SymDiff(shifted, Polynomial) ELSE shifted

\* The inner loop, eight shifts: the upper 24 bits move down, the low byte is divided.
EightShifts(crc) ==
    CrcShift(CrcShift(CrcShift(CrcShift(CrcShift(CrcShift(CrcShift(CrcShift(crc))))))))
CrcTable == [low \in SUBSET (0..7) |-> EightShifts(low)]
CrcByte(crc, byte) ==
    SymDiff({i - 8 : i \in {j \in crc : j >= 8}},
            CrcTable[SymDiff({j \in crc : j < 8}, BitsOf(byte))])

\* The register after each byte, from all ones.
CrcSteps(data) ==
    LET crc[i \in 0..Len(data)] == IF i = 0 THEN 0..31 ELSE CrcByte(crc[i - 1], data[i])
    IN crc

\* The register as four bytes.
Register(crc) ==
    [k \in 1..4 |-> ByteOf({i - 8 * (k - 1) : i \in crc \cap (8 * k - 8)..(8 * k - 1)})]

CrcOf(data) == Register((0..31) \ CrcSteps(data)[Len(data)])
CrcIgnoresHigh(data) ==                       \* faulty: only seven bits of a byte count
    CrcOf([i \in DOMAIN data |-> data[i] % 128])
crc32(data) == CrcOf(data)

-----------------------------------------------------------------------------
(* Errors. *)

\* Every variant with its code, the width of its primary field, and whether it has a
\* second field; a field is missing where the width is 0.
Variant(name, code, width, second) ==
    [name |-> name, code |-> code, width |-> width, second |-> second]
IpcErrors ==
    {Variant("InvalidMagic", 1, 0, FALSE), Variant("UnsupportedVersion", 2, 2, FALSE),
     Variant("PayloadTooLarge", 3, 8, FALSE), Variant("PayloadTruncated", 4, 0, FALSE),
     Variant("InvalidCommandVerb", 5, 4, FALSE), Variant("IntervalOutOfBounds", 6, 8, FALSE),
     Variant("CrcMismatch", 7, 4, TRUE), Variant("UnauthorizedToken", 8, 0, FALSE),
     Variant("RateLimitExceeded", 9, 4, FALSE), Variant("MalformedToken", 10, 0, FALSE),
     Variant("MalformedResponse", 11, 0, FALSE), Variant("TransportIo", 12, 4, FALSE),
     Variant("Unsupported", 13, 0, FALSE), Variant("ScheduleOutOfBounds", 14, 4, FALSE),
     Variant("TrailingBytes", 15, 8, TRUE), Variant("ScheduleIdMismatch", 16, 4, FALSE)}
VariantOf(name) == CHOOSE v \in IpcErrors : v.name = name

IpcError(name, primary, second) ==
    LET v == VariantOf(name)
    IN [error |-> name, primary |-> Cast(primary, v.width),
        second |-> IF v.second THEN Cast(second, v.width) ELSE <<>>]
PlainError(name) == IpcError(name, <<>>, <<>>)

code(e) == LittleEndian(VariantOf(e.error).code, 4)
wire_param(e) == Cast(e.primary, 4)

\* The variant with the code, its second field zero; no variant for another code.
from_code_param(c, param) ==
    LET vs == {v \in IpcErrors : LittleEndian(v.code, 4) = c}
    IN IF vs = {} THEN PlainError("MalformedResponse")
       ELSE [response |-> "Error",
             of |-> IpcError((CHOOSE v \in vs : TRUE).name, param, <<>>)]

-----------------------------------------------------------------------------
(* Request frames. *)

Verbs == 1..5
new(token, verb, payload) ==
    IF Len(payload) > MAX_PAYLOAD_LEN
    THEN IpcError("PayloadTooLarge", LittleEndian(Len(payload), 8), <<>>)
    ELSE [token |-> token, verb |-> verb, payload |-> payload]

serialize(f) ==
    LET body == MAGIC_BYTES \o PROTOCOL_VERSION \o LittleEndian(Len(f.payload), 2)
                \o f.token \o LittleEndian(f.verb, 4) \o f.payload
    IN body \o crc32(body)

MIN_FRAME_SIZE == 4 + 2 + 2 + TOKEN_LEN + 4 + 4

\* The checks in their order; the verb is looked at only after the CRC.
deserialize(data) ==
    IF Len(data) < MIN_FRAME_SIZE THEN PlainError("PayloadTruncated")
    ELSE IF SubSeq(data, 1, 4) # MAGIC_BYTES THEN PlainError("InvalidMagic")
    ELSE IF SubSeq(data, 5, 6) # PROTOCOL_VERSION
         THEN IpcError("UnsupportedVersion", SubSeq(data, 5, 6), <<>>)
    ELSE LET payload_len == Value16(SubSeq(data, 7, 8))
             total == MIN_FRAME_SIZE + payload_len
             crc == crc32(SubSeq(data, 1, total - 4))
             verb == SubSeq(data, 41, 44)
         IN IF payload_len > MAX_PAYLOAD_LEN
            THEN IpcError("PayloadTooLarge", LittleEndian(payload_len, 8), <<>>)
            ELSE IF Len(data) < total THEN PlainError("PayloadTruncated")
            ELSE IF Len(data) > total
                 THEN IpcError("TrailingBytes", LittleEndian(total, 8),
                               LittleEndian(Len(data), 8))
            ELSE IF SubSeq(data, total - 3, total) # crc
                 THEN IpcError("CrcMismatch", SubSeq(data, total - 3, total), crc)
            ELSE IF \A v \in Verbs : verb # LittleEndian(v, 4)
                 THEN IpcError("InvalidCommandVerb", verb, <<>>)
            ELSE [token |-> SubSeq(data, 9, 40), verb |-> verb[1],
                  payload |-> SubSeq(data, 45, 44 + payload_len)]

-----------------------------------------------------------------------------
(* Responses. *)

encode_response(r) ==
    CASE r.response = "Status"    -> <<1>> \o r.of
      [] r.response = "Acquired"  -> <<2>> \o r.of
      [] r.response = "Released"  -> <<3>>
      [] r.response = "Scheduled" -> <<4>> \o r.of
      [] r.response = "Cancelled" -> <<5>>
      [] r.response = "Error"     -> <<6>> \o code(r.of) \o wire_param(r.of)

\* Text of characters of one and two bytes.
Utf8(bytes) ==
    \A i \in DOMAIN bytes :
        \/ bytes[i] < 128
        \/ bytes[i] \in 194..223 /\ i < Len(bytes) /\ bytes[i + 1] \in 128..191
        \/ bytes[i] \in 128..191 /\ i > 1 /\ bytes[i - 1] \in 194..223

ASSUME TextAssumption == \A text \in Texts : text \in Seq(Byte) /\ Utf8(text)

\* The payload that a tag allows.
PayloadFits(tag, payload) ==
    \/ tag = 1 /\ Utf8(payload)
    \/ tag \in {2, 6} /\ Len(payload) = 8
    \/ tag \in {3, 5} /\ payload = <<>>
    \/ tag = 4 /\ Len(payload) = 4

Tags == <<"Status", "Acquired", "Released", "Scheduled", "Cancelled">>
decode_response(bytes) ==
    IF bytes = <<>> \/ ~PayloadFits(Head(bytes), Tail(bytes))
    THEN PlainError("MalformedResponse")
    ELSE IF Head(bytes) = 6 THEN from_code_param(SubSeq(bytes, 2, 5), SubSeq(bytes, 6, 9))
    ELSE [response |-> Tags[Head(bytes)], of |-> Tail(bytes)]

-----------------------------------------------------------------------------
(* The token file: 64 lowercase hexadecimal digits. *)

Digits == [n \in 0..15 |-> IF n < 10 THEN 48 + n ELSE 87 + n]
Nibbles == {Digits[n] : n \in 0..15}
hex_nibble(c) == CHOOSE n \in 0..15 : Digits[n] = c

to_hex(token) ==
    [i \in 1..(2 * Len(token)) |->
        LET byte == token[(i + 1) \div 2]
        IN Digits[IF i % 2 = 1 THEN byte \div 16 ELSE byte % 16]]

from_hex(text) ==
    IF Len(text) # 2 * TOKEN_LEN \/ \E i \in DOMAIN text : text[i] \notin Nibbles
    THEN PlainError("MalformedToken")
    ELSE [token |-> [i \in 1..TOKEN_LEN |->
                        16 * hex_nibble(text[2 * i - 1]) + hex_nibble(text[2 * i])]]

\* Line ends are trimmed from the end of the file.
LineEnds == {10, 13}
read_token_file(text) ==
    LET kept == {i \in DOMAIN text : text[i] \notin LineEnds}
    IN from_hex(IF kept = {} THEN <<>> ELSE SubSeq(text, 1, Max(kept)))

-----------------------------------------------------------------------------
(* One case per behaviour: what is put on the wire, and what arrives. *)

VARIABLES case

Altered(bytes) ==
    {SubSeq(bytes, 1, n) : n \in 0..(Len(bytes) - 1)}
    \cup {Append(bytes, b) : b \in {0, 10, 49}}
    \cup {bytes \o bytes}
    \cup {[bytes EXCEPT ![i] = (@ + d) % 256] : i \in DOMAIN bytes, d \in Flips}

Frames == {new(t, v, p) : t \in Tokens, v \in Verbs, p \in Payloads}
Errors == {IpcError(v.name, m, n) : v \in IpcErrors, m \in Numbers, n \in Numbers}
Responses == {[response |-> "Status", of |-> t] : t \in Texts}
             \cup {[response |-> "Acquired", of |-> n] : n \in Numbers}
             \cup {[response |-> "Scheduled", of |-> Cast(n, 4)] : n \in Numbers}
             \cup {[response |-> r, of |-> <<>>] : r \in {"Released", "Cancelled"}}
             \cup {[response |-> "Error", of |-> e] : e \in Errors}

NoCase == [kind |-> "none"]
CodecInit == case = NoCase

send_frame ==
    \E f \in {g \in Frames : "payload" \in DOMAIN g} :
        LET w == serialize(f)
        IN \E wire \in {w} \cup Altered(w) :
              case' = [kind |-> "frame", sent |-> f, intact |-> wire = w,
                       got |-> deserialize(wire)]
send_response ==
    \E r \in Responses : \E wire \in {encode_response(r)} \cup Altered(encode_response(r)) :
        case' = [kind |-> "response", sent |-> r, wire |-> wire,
                 intact |-> wire = encode_response(r), got |-> decode_response(wire)]
publish_token ==
    \E t \in Tokens : \E text \in {to_hex(t)} \cup Altered(to_hex(t)) :
        case' = [kind |-> "token", sent |-> t, text |-> text, got |-> read_token_file(text)]

CodecNext == case = NoCase /\ (send_frame \/ send_response \/ publish_token)
CodecSpec == CodecInit /\ [][CodecNext]_case

-----------------------------------------------------------------------------
Rejected(result) == "error" \in DOMAIN result

(* A frame is read back as it was sent, and one that was cut, lengthened,  *)
(* doubled or changed in one byte is never taken for a frame, the same or  *)
(* another.                                                                *)
FrameIntegrity ==
    case.kind = "frame" => IF case.intact THEN case.got = case.sent ELSE Rejected(case.got)

(* A response is read back as it was sent, an error with the variant it    *)
(* had, its first number cut to 32 bits and without its second. Bytes that *)
(* are taken for a response say all there is to say in them: encoding what *)
(* was read gives the same bytes again.                                    *)
ResponseRoundTrip ==
    case.kind = "response" =>
        /\ case.intact => IF case.sent.response # "Error" THEN case.got = case.sent
                          ELSE case.got = [response |-> "Error",
                                           of |-> IpcError(case.sent.of.error,
                                                           Cast(case.sent.of.primary, 4), <<>>)]
        /\ ~Rejected(case.got) /\ case.got.response # "Error"
              => encode_response(case.got) = case.wire

(* The token file gives back the token it was written with and no other    *)
(* than the text says; a text with a digit missing is no token.            *)
TokenRoundTrip ==
    case.kind = "token" =>
        /\ case.text = to_hex(case.sent) => case.got.token = case.sent
        /\ ~Rejected(case.got) => /\ Len(case.got.token) = TOKEN_LEN
                                  /\ SubSeq(case.text, 1, 2 * TOKEN_LEN) = to_hex(case.got.token)

(* Whatever arrives at the other end, cut, lengthened or altered: what is  *)
(* taken for a frame, a response or a token is what was sent, or says what *)
(* its bytes say.                                                          *)
CodecInv == FrameIntegrity /\ ResponseRoundTrip /\ TokenRoundTrip
=============================================================================
