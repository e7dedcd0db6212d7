---------------------------- MODULE PySubscriber ----------------------------
(***************************************************************************)
(* packetizer.Subscriber of the Python package and the                     *)
(* msgpacketizer.Subscriber around it, each with its own callbacks. A chunk*)
(* that is not COBS and a payload that is not msgpack raise an exception;  *)
(* feed() does not catch it, so it ends where it is and its caller decides.*)
(***************************************************************************)
EXTENDS Framing

CONSTANTS
    NotCobs,    \* the byte strings cobs.decode() raises an error for
    Unpackable, \* the payloads msgpack can unpack
    Inputs,     \* what one call of feed() may be given
    MaxFeeds    \* bound on the calls of feed()

ASSUME PyAssumption ==
    /\ NotCobs \cap Frames = {}
    /\ <<>> \notin NotCobs
    /\ Unpackable \subseteq Data
    /\ \A cb \in Callback : Accepts[cb] = Unpackable
    /\ Inputs \subseteq Seq(Byte)

VARIABLES
    buffer,     \* packetizer.Subscriber._buffer
    pc,         \* where feed() is
    msgs,       \* the messages of this call, a local variable of feed()
    wrapped,    \* packetizer.Subscriber._callbacks: the indices it has
    callbacks,  \* msgpacketizer.Subscriber._callbacks
    out,        \* history: the callbacks run
    feeds       \* calls of feed() made

vars == <<buffer, pc, msgs, wrapped, callbacks, out, feeds>>

Ready == pc \in {"idle", "raised"}

Init ==
    /\ buffer = <<>> /\ pc = "idle" /\ msgs = <<>>
    /\ wrapped = {} /\ callbacks = <<>>
    /\ out = <<>> /\ feeds = 0

\* A caller that catches the exception of one call may make the next.
Feed(input) ==
    /\ Ready
    /\ buffer' = buffer \o input
    /\ pc' = "scan" /\ feeds' = feeds + 1
    /\ UNCHANGED <<msgs, wrapped, callbacks, out>>

\* Mutants of DecodeChunk: one chunk for each call; the newest message first.
DecodeOnce ==
    /\ pc = "scan" /\ HasDelim(buffer)
    /\ FirstChunk(buffer) \notin NotCobs
    /\ buffer' = AfterChunk(buffer)
    /\ msgs' = IF Decodes(FirstChunk(buffer))
               THEN Append(msgs, decoded[FirstChunk(buffer)]) ELSE msgs
    /\ pc' = "calls"
    /\ UNCHANGED <<wrapped, callbacks, out, feeds>>

DecodeNewestFirst ==
    /\ pc = "scan" /\ HasDelim(buffer)
    /\ FirstChunk(buffer) \notin NotCobs
    /\ buffer' = AfterChunk(buffer)
    /\ msgs' = IF Decodes(FirstChunk(buffer))
               THEN <<decoded[FirstChunk(buffer)]>> \o msgs ELSE msgs
    /\ UNCHANGED <<pc, wrapped, callbacks, out, feeds>>

\* The first chunk is split off and decoded; short chunks and checksum errors
\* give None and are dropped.
DecodeChunk ==
    /\ pc = "scan" /\ HasDelim(buffer)
    /\ FirstChunk(buffer) \notin NotCobs
    /\ buffer' = AfterChunk(buffer)
    /\ msgs' = IF Decodes(FirstChunk(buffer))
               THEN Append(msgs, decoded[FirstChunk(buffer)]) ELSE msgs
    /\ UNCHANGED <<pc, wrapped, callbacks, out, feeds>>

\* cobs.decode() raises after the chunk has left the buffer. The exception
\* leaves feed(): its local messages are gone, the buffer stays as it is.
DecodeRaises ==
    /\ pc = "scan" /\ HasDelim(buffer)
    /\ FirstChunk(buffer) \in NotCobs
    /\ buffer' = AfterChunk(buffer)
    /\ pc' = "raised" /\ msgs' = <<>>
    /\ UNCHANGED <<wrapped, callbacks, out, feeds>>

ScanEnd ==
    /\ pc = "scan" /\ ~HasDelim(buffer)
    /\ pc' = "calls"
    /\ UNCHANGED <<buffer, msgs, wrapped, callbacks, out, feeds>>

\* The packetizer calls _callback() for an index it has; _callback() unpacks the
\* payload and looks the index up again in its own callbacks.
RunCallback ==
    LET m == Head(msgs) IN
    /\ pc = "calls" /\ msgs # <<>>
    /\ m.index \in wrapped => m.data \in Unpackable
    /\ out' = IF m.index \in wrapped THEN Dispatch(out, callbacks, m) ELSE out
    /\ msgs' = Tail(msgs)
    /\ UNCHANGED <<buffer, pc, wrapped, callbacks, feeds>>

\* msgpack.unpackb() raises: the messages behind this one are gone too.
UnpackRaises ==
    /\ pc = "calls" /\ msgs # <<>>
    /\ Head(msgs).index \in wrapped /\ Head(msgs).data \notin Unpackable
    /\ pc' = "raised" /\ msgs' = <<>>
    /\ UNCHANGED <<buffer, wrapped, callbacks, out, feeds>>

Return ==
    /\ pc = "calls" /\ msgs = <<>>
    /\ pc' = "idle"
    /\ UNCHANGED <<buffer, msgs, wrapped, callbacks, out, feeds>>

Subscribe(i, cb) ==
    /\ Ready
    /\ callbacks' = WithCallback(callbacks, i, cb)
    /\ wrapped' = wrapped \cup {i}
    /\ UNCHANGED <<buffer, pc, msgs, out, feeds>>

\* del raises KeyError for an index that is absent, before anything changes.
Unsubscribe(i) ==
    /\ Ready /\ i \in DOMAIN callbacks
    /\ callbacks' = WithoutCallback(callbacks, i)
    /\ wrapped' = wrapped \ {i}
    /\ UNCHANGED <<buffer, pc, msgs, out, feeds>>

FeedStep == DecodeChunk \/ DecodeRaises \/ ScanEnd \/ RunCallback
              \/ UnpackRaises \/ Return

\* What a thread may do between two calls of feed().
Calls ==
    \/ \E input \in Inputs : feeds < MaxFeeds /\ Feed(input)
    \/ \E i \in Index, cb \in Callback : Subscribe(i, cb)
    \/ \E i \in Index : Unsubscribe(i)

-----------------------------------------------------------------------------
(* Properties. *)

TypeOK ==
    /\ buffer \in Seq(Byte)
    /\ pc \in {"idle", "scan", "calls", "raised"}
    /\ msgs \in Seq(Message)
    /\ pc \in {"idle", "raised"} => msgs = <<>>
    /\ wrapped = DOMAIN callbacks
    /\ DOMAIN callbacks \subseteq Index
    /\ callbacks \in [DOMAIN callbacks -> Callback]
    /\ out \in Seq(Call)
    /\ feeds \in Nat

\* Until something raises, the subscriber frames and dispatches what its inputs
\* carry, each message once and in order, however they are split; after an
\* exception, it does so again with the bytes the exception left.
Stream == INSTANCE FrameStream WITH buf <- buffer, queue <- msgs

RefinesUntilRaised ==
    /\ Stream!Init
    /\ [][pc' # "raised" => Stream!Next]_(Stream!stream_vars)

\* A call that returns leaves no complete packet behind, also when an earlier
\* one was cut short by an exception: its packets are late, not lost.
NothingLeftBehind == pc = "idle" => ~HasDelim(buffer)

\* The invariant of the subscriber: its types, and that feed() finishes its work.
SubscriberInv == TypeOK /\ NothingLeftBehind

=============================================================================
