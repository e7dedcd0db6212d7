---------------------------- MODULE GoSubscriber ----------------------------
(***************************************************************************)
(* packetizer.Subscriber of the Go packages, the msgpacketizer.Subscriber  *)
(* around it, and Decode with the checksum object CRC8_HASH, a global of   *)
(* the package that Decode and Encode share. One goroutine feeds and       *)
(* subscribes.                                                             *)
(***************************************************************************)
EXTENDS Framing

CONSTANTS
    Crc, Zero,  \* values of the checksum, and the one Reset() sets
    crcUpdate,  \* crcUpdate[c, d]: the checksum after Update(d)
    Chunks,     \* the byte strings that unstuff to index, data and checksum
    parsed,     \* the three parts of each of them
    Inputs,     \* what one call of Feed() may be given
    MaxFeeds    \* bound on the calls of Feed()

ASSUME GoAssumption ==
    /\ Zero \in Crc
    /\ crcUpdate \in [Crc \X Data -> Crc]
    /\ Chunks \subseteq Seq(Byte \ {Delim})
    /\ <<>> \notin Chunks
    /\ parsed \in [Chunks -> [index : Index, data : Data, crc : Crc]]
    /\ Frames = {c \in Chunks : parsed[c].crc = crcUpdate[Zero, parsed[c].data]}
    /\ \A c \in Frames :
         decoded[c] = [index |-> parsed[c].index, data |-> parsed[c].data]
    /\ Inputs \subseteq Seq(Byte)

VARIABLES
    buffer,     \* s.Buffer
    pc,         \* where Feed() is
    chunk,      \* the chunk Decode() works on
    acc,        \* what Update() has read from CRC8_HASH
    msgs,       \* s.Msgs
    called,     \* how many of them were dispatched
    callbacks,  \* s.Callbacks
    out,        \* history: the callbacks run
    feeds,      \* calls of Feed() made
    hash        \* CRC8_HASH

vars == <<buffer, pc, chunk, acc, msgs, called, callbacks, out, feeds, hash>>

Checksum(d) == crcUpdate[Zero, d]

Init ==
    /\ buffer = <<>> /\ pc = "idle" /\ chunk = <<>> /\ acc = Zero
    /\ msgs = <<>> /\ called = 0 /\ callbacks = <<>>
    /\ out = <<>> /\ feeds = 0 /\ hash = Zero

\* Empty input returns at once.
Feed(input) ==
    /\ pc = "idle"
    /\ input # <<>>
    /\ buffer' = buffer \o input
    /\ pc' = "scan" /\ feeds' = feeds + 1
    /\ UNCHANGED <<chunk, acc, msgs, called, callbacks, out, hash>>

\* Mutant of TakeChunk: the delimiter stays.
TakeKeepsDelimiter ==
    /\ pc = "scan" /\ HasDelim(buffer)
    /\ chunk' = FirstChunk(buffer)
    /\ buffer' = <<Delim>> \o AfterChunk(buffer)
    /\ pc' = IF chunk' \in Chunks THEN "reset" ELSE "scan"
    /\ UNCHANGED <<acc, msgs, called, callbacks, out, feeds, hash>>

\* The next chunk leaves the buffer before it is decoded. One that is too short
\* is logged and dropped.
TakeChunk ==
    /\ pc = "scan" /\ HasDelim(buffer)
    /\ chunk' = FirstChunk(buffer)
    /\ buffer' = AfterChunk(buffer)
    /\ pc' = IF chunk' \in Chunks THEN "reset" ELSE "scan"
    /\ UNCHANGED <<acc, msgs, called, callbacks, out, feeds, hash>>

\* Mutant of Reset: the checksum goes on from the last one.
ResetForgotten ==
    /\ pc = "reset"
    /\ pc' = "load"
    /\ UNCHANGED <<buffer, chunk, acc, msgs, called, callbacks, out, feeds, hash>>

\* CRC8_HASH.Reset(), Update(data), which reads and writes the object, CRC8().
Reset ==
    /\ pc = "reset"
    /\ hash' = Zero /\ pc' = "load"
    /\ UNCHANGED <<buffer, chunk, acc, msgs, called, callbacks, out, feeds>>

Load ==
    /\ pc = "load"
    /\ acc' = hash /\ pc' = "store"
    /\ UNCHANGED <<buffer, chunk, msgs, called, callbacks, out, feeds, hash>>

Store ==
    /\ pc = "store"
    /\ hash' = crcUpdate[acc, parsed[chunk].data] /\ pc' = "check"
    /\ UNCHANGED <<buffer, chunk, acc, msgs, called, callbacks, out, feeds>>

\* Mutant of Check: one packet for each call of Feed().
CheckOnce ==
    LET p == parsed[chunk] IN
    /\ pc = "check"
    /\ msgs' = IF p.crc = hash
               THEN Append(msgs, [index |-> p.index, data |-> p.data]) ELSE msgs
    /\ pc' = "calls"
    /\ UNCHANGED <<buffer, chunk, acc, called, callbacks, out, feeds, hash>>

Check ==
    LET p == parsed[chunk] IN
    /\ pc = "check"
    /\ msgs' = IF p.crc = hash
               THEN Append(msgs, [index |-> p.index, data |-> p.data]) ELSE msgs
    /\ pc' = "scan"
    /\ UNCHANGED <<buffer, chunk, acc, called, callbacks, out, feeds, hash>>

\* No delimiter is left: the messages are dispatched, then cleared.
ScanEnd ==
    /\ pc = "scan" /\ ~HasDelim(buffer)
    /\ pc' = "calls"
    /\ UNCHANGED <<buffer, chunk, acc, msgs, called, callbacks, out, feeds, hash>>

\* The callback Subscribe() wraps unpacks the payload and drops what does not
\* unpack.
RunCallback ==
    /\ pc = "calls" /\ called < Len(msgs)
    /\ out' = Dispatch(out, callbacks, msgs[called + 1])
    /\ called' = called + 1
    /\ UNCHANGED <<buffer, pc, chunk, acc, msgs, callbacks, feeds, hash>>

\* Mutant of ClearMsgs: the dispatched messages stay.
ClearForgotten ==
    /\ pc = "calls" /\ called = Len(msgs)
    /\ called' = 0 /\ pc' = "idle"
    /\ UNCHANGED <<buffer, chunk, acc, msgs, callbacks, out, feeds, hash>>

ClearMsgs ==
    /\ pc = "calls" /\ called = Len(msgs)
    /\ msgs' = <<>> /\ called' = 0 /\ pc' = "idle"
    /\ UNCHANGED <<buffer, chunk, acc, callbacks, out, feeds, hash>>

Subscribe(i, cb) ==
    /\ pc = "idle"
    /\ callbacks' = WithCallback(callbacks, i, cb)
    /\ UNCHANGED <<buffer, pc, chunk, acc, msgs, called, out, feeds, hash>>

Unsubscribe(i) ==
    /\ pc = "idle"
    /\ callbacks' = WithoutCallback(callbacks, i)
    /\ UNCHANGED <<buffer, pc, chunk, acc, msgs, called, out, feeds, hash>>

FeedStep == TakeChunk \/ Reset \/ Load \/ Store \/ Check \/ ScanEnd
              \/ RunCallback \/ ClearMsgs

\* What a goroutine may do between two calls of Feed().
Calls ==
    \/ \E input \in Inputs : feeds < MaxFeeds /\ Feed(input)
    \/ \E i \in Index, cb \in Callback : Subscribe(i, cb)
    \/ \E i \in Index : Unsubscribe(i)

-----------------------------------------------------------------------------
(* Properties. *)

Decoding == pc \in {"reset", "load", "store", "check"}

TypeOK ==
    /\ buffer \in Seq(Byte)
    /\ pc \in {"idle", "scan", "reset", "load", "store", "check", "calls"}
    /\ chunk \in Seq(Byte)
    /\ Decoding => chunk \in Chunks
    /\ acc \in Crc /\ hash \in Crc
    /\ msgs \in Seq(Message)
    /\ called \in 0 .. Len(msgs)
    /\ pc # "calls" => called = 0
    /\ DOMAIN callbacks \subseteq Index
    /\ callbacks \in [DOMAIN callbacks -> Callback]
    /\ out \in Seq(Call)
    /\ feeds \in Nat

\* FrameStream as this subscriber implements it: a chunk being decoded still
\* counts as unframed.
Stream == INSTANCE FrameStream WITH
            buf <- IF Decoding THEN chunk \o <<Delim>> \o buffer ELSE buffer,
            queue <- SubSeq(msgs, called + 1, Len(msgs))

\* Feed() leaves neither a complete packet nor a message behind.
NothingLeftBehind == pc = "idle" => ~HasDelim(buffer) /\ msgs = <<>>

\* The invariant of the subscriber: its types, and that Feed() finishes its work.
SubscriberInv == TypeOK /\ NothingLeftBehind

=============================================================================
