------------------------------ MODULE Framing ------------------------------
(***************************************************************************)
(* What every subscriber of the repository knows of a byte stream: packets *)
(* end with the delimiter 0x00, and the bytes between two delimiters decode*)
(* to a message (COBS, at least three bytes, CRC-8 agrees) or do not.      *)
(* Which byte strings decode, and to what, is a parameter.                 *)
(***************************************************************************)
EXTENDS Naturals, Sequences

CONSTANTS
    Byte,       \* the bytes
    Delim,      \* COBS_DELIMITER, 0x00
    Frames,     \* the byte strings that decode
    decoded,    \* the message each of them decodes to
    Index,      \* packet indices
    Data,       \* payloads
    Callback,   \* the callbacks that may be registered
    Accepts     \* Accepts[cb]: the payloads that unpack to what cb takes

Message == [index : Index, data : Data]

ASSUME FramingAssumption ==
    /\ Delim \in Byte
    /\ Frames \subseteq Seq(Byte \ {Delim})
    /\ <<>> \notin Frames
    /\ decoded \in [Frames -> Message]
    /\ Accepts \in [Callback -> SUBSET Data]

\* The position of the first delimiter of a string that has one.
HasDelim(s) == \E i \in 1 .. Len(s) : s[i] = Delim

FirstDelim(s) ==
    CHOOSE i \in 1 .. Len(s) :
      s[i] = Delim /\ \A j \in 1 .. i - 1 : s[j] # Delim

\* The first chunk, without its delimiter, and what follows the delimiter.
FirstChunk(s) == SubSeq(s, 1, FirstDelim(s) - 1)

AfterChunk(s) == SubSeq(s, FirstDelim(s) + 1, Len(s))

Decodes(chunk) == chunk \in Frames

\* A call that was made: the callback and the message it got.
Call == [to : Callback, msg : Message]

\* The calls made, with the one m causes: none if its index has no callback or
\* its payload does not unpack to what the callback takes.
Dispatch(calls, callbacks, m) ==
    IF m.index \in DOMAIN callbacks /\ m.data \in Accepts[callbacks[m.index]]
    THEN Append(calls, [to |-> callbacks[m.index], msg |-> m])
    ELSE calls

\* The calls made after each of the packets of s, and after all of them.
CallsAfter(callbacks, s) ==
    LET calls[k \in 0 .. Len(s)] ==
          IF k = 0 THEN <<>>
          ELSE Dispatch(calls[k - 1], callbacks, decoded[s[k]])
    IN calls

CallsFor(callbacks, s) == CallsAfter(callbacks, s)[Len(s)]

\* Registering and removing a callback.
WithCallback(callbacks, i, cb) ==
    [x \in DOMAIN callbacks \cup {i} |-> IF x = i THEN cb ELSE callbacks[x]]

WithoutCallback(callbacks, i) == [x \in DOMAIN callbacks \ {i} |-> callbacks[x]]

=============================================================================
