-------------------------- MODULE RustSubscriber --------------------------
(***************************************************************************)
(* packetizer::Subscriber<N> of the Rust crates and the msgpacketizer      *)
(* Subscriber on top of it: a buffer of N bytes that feed() fills, scans,  *)
(* decodes in place and compacts. A panic ends the thread that feeds.      *)
(***************************************************************************)
EXTENDS Framing

CONSTANTS
    N,          \* size of the buffer
    Inputs,     \* what one call of feed() may be given
    MaxFeeds    \* bound on the calls of feed()

ASSUME RustAssumption ==
    /\ N \in Nat
    /\ Inputs \subseteq Seq(Byte)

VARIABLES
    data,       \* self.buffer[..self.len]
    pos,        \* pos_begin
    pc,         \* where feed() is
    msg,        \* the message decode_in_place returned
    callbacks,  \* self.callbacks
    out,        \* history: the callbacks run
    feeds,      \* calls of feed() made
    refused     \* history: has feed() ever refused its input?

vars == <<data, pos, pc, msg, callbacks, out, feeds, refused>>

None == [index |-> "none"]

rest == SubSeq(data, pos + 1, Len(data))

Init ==
    /\ data = <<>> /\ pos = 0 /\ pc = "idle" /\ msg = None
    /\ callbacks = <<>>
    /\ out = <<>> /\ feeds = 0 /\ refused = FALSE

\* Mutant of Feed: the room left is counted one byte too large.
FeedOverfull(input) ==
    /\ pc = "idle"
    /\ Len(data) + Len(input) <= N + 1
    /\ data' = data \o input
    /\ pos' = 0 /\ pc' = "scan" /\ feeds' = feeds + 1
    /\ UNCHANGED <<msg, callbacks, out, refused>>

\* feed() copies the input behind what is left of the last one.
Feed(input) ==
    /\ pc = "idle"
    /\ Len(data) + Len(input) <= N
    /\ data' = data \o input
    /\ pos' = 0 /\ pc' = "scan" /\ feeds' = feeds + 1
    /\ UNCHANGED <<msg, callbacks, out, refused>>

\* Input that does not fit is logged and dropped as a whole.
FeedRefused(input) ==
    /\ pc = "idle"
    /\ Len(data) + Len(input) > N
    /\ feeds' = feeds + 1 /\ refused' = TRUE
    /\ UNCHANGED <<data, pos, pc, msg, callbacks, out>>

\* No delimiter from pos on, or one right at pos: the loop ends.
ScanEnd ==
    /\ pc = "scan"
    /\ HasDelim(rest) => FirstDelim(rest) = 1
    /\ pc' = "compact"
    /\ UNCHANGED <<data, pos, msg, callbacks, out, feeds, refused>>

\* decode_in_place(chunk).unwrap(); consumed covers the delimiter.
Decode ==
    /\ pc = "scan" /\ HasDelim(rest) /\ FirstDelim(rest) > 1
    /\ Decodes(FirstChunk(rest))
    /\ msg' = decoded[FirstChunk(rest)]
    /\ pos' = pos + FirstDelim(rest)
    /\ pc' = "call"
    /\ UNCHANGED <<data, callbacks, out, feeds, refused>>

\* Mutant of DecodePanics: an empty chunk is decoded like any other.
DecodePanicsOnEmpty ==
    /\ pc = "scan" /\ HasDelim(rest)
    /\ ~Decodes(FirstChunk(rest))
    /\ pc' = "panic_decode"
    /\ UNCHANGED <<data, pos, msg, callbacks, out, feeds, refused>>

DecodePanics ==
    /\ pc = "scan" /\ HasDelim(rest) /\ FirstDelim(rest) > 1
    /\ ~Decodes(FirstChunk(rest))
    /\ pc' = "panic_decode"
    /\ UNCHANGED <<data, pos, msg, callbacks, out, feeds, refused>>

\* Mutant of RunCallback: one message for each call of feed().
RunCallbackOnce ==
    /\ pc = "call"
    /\ out' = Dispatch(out, callbacks, msg)
    /\ msg' = None /\ pc' = "compact"
    /\ UNCHANGED <<data, pos, callbacks, feeds, refused>>

\* The callback of the index, if any, unpacks the payload and is dropped with
\* an error if its type does not fit.
RunCallback ==
    /\ pc = "call"
    /\ out' = Dispatch(out, callbacks, msg)
    /\ msg' = None /\ pc' = "scan"
    /\ UNCHANGED <<data, pos, callbacks, feeds, refused>>

\* Mutants of Compact: what was consumed stays in the buffer; what was not
\* consumed is lost.
CompactForgets ==
    /\ pc = "compact"
    /\ pos = 0 \/ Len(data) - pos <= pos
    /\ pos' = 0 /\ pc' = "idle"
    /\ UNCHANGED <<data, msg, callbacks, out, feeds, refused>>

CompactLoses ==
    /\ pc = "compact"
    /\ pos = 0 \/ Len(data) - pos <= pos
    /\ data' = IF pos = 0 THEN data ELSE <<>>
    /\ pos' = 0 /\ pc' = "idle"
    /\ UNCHANGED <<msg, callbacks, out, feeds, refused>>

\* What is left moves to the front: the copy goes into the consumed part,
\* which must be long enough.
Compact ==
    /\ pc = "compact"
    /\ pos = 0 \/ Len(data) - pos <= pos
    /\ data' = rest /\ pos' = 0 /\ pc' = "idle"
    /\ UNCHANGED <<msg, callbacks, out, feeds, refused>>

CompactPanics ==
    /\ pc = "compact" /\ pos > 0 /\ Len(data) - pos > pos
    /\ pc' = "panic_compact"
    /\ UNCHANGED <<data, pos, msg, callbacks, out, feeds, refused>>

\* subscribe() and unsubscribe() need the exclusive borrow feed() holds.
Subscribe(i, cb) ==
    /\ pc = "idle"
    /\ callbacks' = WithCallback(callbacks, i, cb)
    /\ UNCHANGED <<data, pos, pc, msg, out, feeds, refused>>

Unsubscribe(i) ==
    /\ pc = "idle"
    /\ callbacks' = WithoutCallback(callbacks, i)
    /\ UNCHANGED <<data, pos, pc, msg, out, feeds, refused>>

FeedStep == ScanEnd \/ Decode \/ DecodePanics \/ RunCallback \/ Compact
              \/ CompactPanics

Next ==
    \/ \E input \in Inputs :
         feeds < MaxFeeds /\ (Feed(input) \/ FeedRefused(input))
    \/ FeedStep
    \/ \E i \in Index, cb \in Callback : Subscribe(i, cb)
    \/ \E i \in Index : Unsubscribe(i)

Spec == Init /\ [][Next]_vars

-----------------------------------------------------------------------------
(* Properties. *)

Panicked == pc \in {"panic_decode", "panic_compact"}

\* The buffer never outgrows its N bytes, the scan never leaves it, and the
\* message in hand is one that was decoded.
TypeOK ==
    /\ data \in Seq(Byte) /\ Len(data) <= N
    /\ pos \in 0 .. Len(data)
    /\ pc \in {"idle", "scan", "call", "compact", "panic_decode", "panic_compact"}
    /\ pc = "idle" => pos = 0
    /\ IF pc = "call" THEN msg \in Message ELSE msg = None
    /\ DOMAIN callbacks \subseteq Index
    /\ callbacks \in [DOMAIN callbacks -> Callback]
    /\ out \in Seq(Call)
    /\ feeds \in Nat /\ refused \in BOOLEAN

\* Until it stops, the subscriber frames and dispatches what its accepted
\* inputs carry, each message once and in order, however they are split.
Stream == INSTANCE FrameStream WITH
            buf <- rest,
            queue <- IF pc = "call" THEN <<msg>> ELSE <<>>

RefinesFrameStream == Stream!Spec

\* A delimiter stands at the front of the buffer.
Wedged ==
    /\ pc \in {"idle", "scan", "compact"} /\ pos = 0
    /\ data # <<>> /\ data[1] = Delim

\* feed() leaves a complete packet behind only if the buffer is wedged.
DrainedAtReturn == pc = "idle" /\ HasDelim(data) => Wedged

\* A wedged buffer stays wedged: no later input reaches a callback, whatever it
\* carries, until it no longer fits and is refused.
WedgedForGood == [][Wedged => Wedged' /\ out' = out]_vars

=============================================================================
