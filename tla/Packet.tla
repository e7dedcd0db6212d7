------------------------------- MODULE Packet -------------------------------
(***************************************************************************)
(* The packet format, byte by byte, as encode(), decode() and              *)
(* decode_in_place() of the Rust crate build and take it apart: index, data*)
(* and the CRC-8 of the data, stuffed by COBS, then the delimiter. COBS is *)
(* external and modelled for runs of less than 254 bytes without a zero.   *)
(* One packet is encoded, crosses a line that may damage it, and is decoded*)
(***************************************************************************)
EXTENDS Integers, SequencesExt

CONSTANTS
    Indices,        \* packet indices
    Payloads,       \* payloads, non-empty
    CrcByte(_, _),  \* the checksum after one more byte
    MaxDamage       \* bound on the bytes damaged

Byte == 0 .. 255

\* A step of the checksum loses nothing: each checksum is reached from one
\* checksum before the byte, and by one byte.
ASSUME PacketAssumption ==
    /\ Indices \subseteq Byte
    /\ \A d \in Payloads : d \in Seq(Byte) /\ Len(d) >= 1 /\ Len(d) <= 250
    /\ \A x \in Byte : /\ {CrcByte(c, x) : c \in Byte} = Byte
                       /\ {CrcByte(x, b) : b \in Byte} = Byte
    /\ MaxDamage \in Nat

VARIABLES
    message,    \* the message that is sent
    line,       \* its packet, as the line holds it
    damaged,    \* how often the line has damaged it
    phase,      \* "encode", "line", "done"
    received    \* what decode() and decode_in_place() return

vars == <<message, line, damaged, phase, received>>

None == [index |-> -1, data |-> <<>>]

-----------------------------------------------------------------------------
crc8_smbus(data) ==
    LET crc[k \in 0 .. Len(data)] ==
          IF k = 0 THEN 0 ELSE CrcByte(crc[k - 1], data[k])
    IN crc[Len(data)]

-----------------------------------------------------------------------------
(* COBS. *)

\* A code stands in front of the bytes and in the place of each zero.
IsCode(bytes, k) == k = 1 \/ bytes[k - 1] = 0

\* The places of the zeros, and the end.
Stops(bytes) == {j \in 1 .. Len(bytes) : bytes[j] = 0} \cup {Len(bytes) + 1}

\* A code is the way to the next one, or to the end.
CobsEncode(bytes) ==
    [k \in 1 .. Len(bytes) + 1 |->
       IF IsCode(bytes, k) THEN Min({j \in Stops(bytes) : j >= k}) + 1 - k
       ELSE bytes[k - 1]]

Failed == <<-1>>

\* The codes lead from one to the next, and the last of them to the end; one that
\* leads beyond is an error.
CobsDecode(bytes) ==
    LET n == Len(bytes)
        reached[i \in 1 .. n + 1] ==
          i = 1 \/ \E j \in 1 .. i - 1 : j + bytes[j] = i /\ reached[j]
    IN IF reached[n + 1]
       THEN [k \in 1 .. n - 1 |-> IF reached[k + 1] THEN 0 ELSE bytes[k + 1]]
       ELSE Failed

-----------------------------------------------------------------------------
\* Mutant of encode: the checksum is added after the stuffing.
ChecksumUnstuffed(index, data) ==
    CobsEncode(<<index>> \o data) \o <<crc8_smbus(data), 0>>

Unstuffed(index, data) == <<index>> \o data \o <<crc8_smbus(data)>>

encode(index, data) == CobsEncode(Unstuffed(index, data)) \o <<0>>

\* The chunk up to the first delimiter, as decode() and the subscribers see it.
Chunk(bytes) ==
    LET zeros == {k \in DOMAIN bytes : bytes[k] = 0}
    IN IF zeros = {} THEN bytes ELSE SubSeq(bytes, 1, Min(zeros) - 1)

\* Mutant of TooShort: index, one byte and checksum count as too short.
ShortByOne(unstuffed) == Len(unstuffed) <= 3

TooShort(unstuffed) == Len(unstuffed) < 3

\* Mutant of decode: the checksum is not compared.
decodeUnchecked(input) ==
    LET unstuffed == CobsDecode(Chunk(input))
    IN IF unstuffed = Failed \/ TooShort(unstuffed) THEN None
       ELSE [index |-> unstuffed[1], data |-> SubSeq(unstuffed, 2, Len(unstuffed) - 1)]

decode(input) ==
    LET unstuffed == CobsDecode(Chunk(input))
        n == Len(unstuffed)
        data == SubSeq(unstuffed, 2, n - 1)
    IN IF \/ unstuffed = Failed
          \/ TooShort(unstuffed)
          \/ unstuffed[n] # crc8_smbus(data)
       THEN None
       ELSE [index |-> unstuffed[1], data |-> data]

\* The bytes decode_in_place() reports as used, the delimiter included.
Used(input) == Len(Chunk(input)) + 1

-----------------------------------------------------------------------------
Init ==
    /\ message \in [index : Indices, data : Payloads]
    /\ line = <<>> /\ damaged = 0 /\ phase = "encode" /\ received = None

Send ==
    /\ phase = "encode"
    /\ line' = encode(message.index, message.data)
    /\ phase' = "line"
    /\ UNCHANGED <<message, damaged, received>>

\* The line hands over another byte.
Damage(k, byte) ==
    /\ phase = "line" /\ damaged < MaxDamage
    /\ line' = [line EXCEPT ![k] = byte]
    /\ damaged' = damaged + 1
    /\ UNCHANGED <<message, phase, received>>

\* The subscribers decode only what a delimiter ends.
Receive ==
    /\ phase = "line" /\ Contains(line, 0)
    /\ received' = decode(line)
    /\ phase' = "done"
    /\ UNCHANGED <<message, line, damaged>>

Next ==
    \/ Send
    \/ \E k \in DOMAIN line : \E byte \in Byte \ {line[k]} : Damage(k, byte)
    \/ Receive

Spec == Init /\ [][Next]_vars

-----------------------------------------------------------------------------
(* Properties. *)

\* What was encoded is decoded again, over a line that does no damage, and all
\* of it is consumed.
RoundTrip ==
    phase = "done" /\ damaged = 0 =>
      received = message /\ Used(line) = Len(line)

\* A packet holds the delimiter at its end and nowhere else, so that the
\* receivers can cut at it.
DelimiterEndsPacket ==
    phase = "line" /\ damaged = 0 =>
      \A k \in DOMAIN line : line[k] = 0 <=> k = Len(line)

\* The codes as they were sent, and no delimiter but the last.
FrameSpared ==
    LET sent == Unstuffed(message.index, message.data)
    IN \A k \in 1 .. Len(sent) + 1 :
         line[k] # 0 /\ (IsCode(sent, k) => line[k] = CobsEncode(sent)[k])

\* One wrong byte of the payload or of the checksum never passes the check, unless
\* it makes a delimiter. A wrong code may pass with another payload: it moves
\* zeros, which changes several bytes at once. The index is not covered by the
\* checksum, and only the index may be wrong in what is received.
OneWrongByteIsCaught ==
    phase = "done" /\ damaged = 1 /\ FrameSpared =>
      received = None \/ (received.data = message.data /\ received.index # message.index)

=============================================================================
