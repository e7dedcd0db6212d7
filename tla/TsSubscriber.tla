---------------------------- MODULE TsSubscriber ----------------------------
(***************************************************************************)
(* packetizer.Subscriber of the TypeScript package and the                 *)
(* msgpacketizer.Subscriber around it, fed by the "data" event of a serial *)
(* port or a socket. The messages are a member of the subscriber, and a    *)
(* callback, or the unpacking before it, may throw through feed().         *)
(***************************************************************************)
EXTENDS Framing

CONSTANTS
    Throws,     \* Throws[cb]: the payloads that do not unpack, or for which
                \* the callback throws
    Inputs,     \* what one call of feed() may be given
    MaxFeeds    \* bound on the calls of feed()

ASSUME TsAssumption ==
    /\ Throws \in [Callback -> SUBSET Data]
    /\ \A cb \in Callback : Accepts[cb] = Data \ Throws[cb]
    /\ Inputs \subseteq Seq(Byte)

VARIABLES
    buffer,     \* this.buffer
    pc,         \* where feed() is
    msgs,       \* this.msgs
    called,     \* how many of them this call has gone through
    callbacks,  \* this.callbacks, of both classes
    out,        \* history: the callbacks run
    feeds,      \* calls of feed() made
    threw       \* history: has feed() ever thrown?

vars == <<buffer, pc, msgs, called, callbacks, out, feeds, threw>>

Init ==
    /\ buffer = <<>> /\ pc = "idle" /\ msgs = <<>> /\ called = 0
    /\ callbacks = <<>>
    /\ out = <<>> /\ feeds = 0 /\ threw = FALSE

Feed(input) ==
    /\ pc = "idle"
    /\ buffer' = buffer \o input
    /\ pc' = "scan" /\ feeds' = feeds + 1
    /\ UNCHANGED <<msgs, called, callbacks, out, threw>>

\* Mutants of DecodeChunk: one chunk for each call; the newest message first.
DecodeOnce ==
    /\ pc = "scan" /\ HasDelim(buffer)
    /\ msgs' = IF Decodes(FirstChunk(buffer))
               THEN Append(msgs, decoded[FirstChunk(buffer)]) ELSE msgs
    /\ buffer' = AfterChunk(buffer)
    /\ pc' = "calls"
    /\ UNCHANGED <<called, callbacks, out, feeds, threw>>

DecodeNewestFirst ==
    /\ pc = "scan" /\ HasDelim(buffer)
    /\ msgs' = IF Decodes(FirstChunk(buffer))
               THEN <<decoded[FirstChunk(buffer)]>> \o msgs ELSE msgs
    /\ buffer' = AfterChunk(buffer)
    /\ UNCHANGED <<pc, called, callbacks, out, feeds, threw>>

\* A chunk that is too short or fails the checksum gives undefined.
DecodeChunk ==
    /\ pc = "scan" /\ HasDelim(buffer)
    /\ msgs' = IF Decodes(FirstChunk(buffer))
               THEN Append(msgs, decoded[FirstChunk(buffer)]) ELSE msgs
    /\ buffer' = AfterChunk(buffer)
    /\ UNCHANGED <<pc, called, callbacks, out, feeds, threw>>

ScanEnd ==
    /\ pc = "scan" /\ ~HasDelim(buffer)
    /\ pc' = "calls"
    /\ UNCHANGED <<buffer, msgs, called, callbacks, out, feeds, threw>>

Thrown(m) ==
    m.index \in DOMAIN callbacks /\ m.data \in Throws[callbacks[m.index]]

RunCallback ==
    /\ pc = "calls" /\ called < Len(msgs)
    /\ ~Thrown(msgs[called + 1])
    /\ out' = Dispatch(out, callbacks, msgs[called + 1])
    /\ called' = called + 1
    /\ UNCHANGED <<buffer, pc, msgs, callbacks, feeds, threw>>

\* Mutant of CallbackThrows: the messages are cleared before the calls.
CallbackThrowsCleared ==
    /\ pc = "calls" /\ called < Len(msgs)
    /\ Thrown(msgs[called + 1])
    /\ msgs' = <<>> /\ called' = 0 /\ threw' = TRUE
    /\ pc' \in {"idle", "crashed"}
    /\ UNCHANGED <<buffer, callbacks, out, feeds>>

\* The error leaves feed() before msgs is cleared. The caller may catch it; the
\* applications do not, and then it ends the process.
CallbackThrows ==
    /\ pc = "calls" /\ called < Len(msgs)
    /\ Thrown(msgs[called + 1])
    /\ called' = 0 /\ threw' = TRUE
    /\ pc' \in {"idle", "crashed"}
    /\ UNCHANGED <<buffer, msgs, callbacks, out, feeds>>

ClearMsgs ==
    /\ pc = "calls" /\ called = Len(msgs)
    /\ msgs' = <<>> /\ called' = 0 /\ pc' = "idle"
    /\ UNCHANGED <<buffer, callbacks, out, feeds, threw>>

Subscribe(i, cb) ==
    /\ pc = "idle"
    /\ callbacks' = WithCallback(callbacks, i, cb)
    /\ UNCHANGED <<buffer, pc, msgs, called, out, feeds, threw>>

Unsubscribe(i) ==
    /\ pc = "idle"
    /\ callbacks' = WithoutCallback(callbacks, i)
    /\ UNCHANGED <<buffer, pc, msgs, called, out, feeds, threw>>

FeedStep == DecodeChunk \/ ScanEnd \/ RunCallback \/ CallbackThrows \/ ClearMsgs

\* What another caller may do.
Calls ==
    \/ feeds < MaxFeeds /\ \E input \in Inputs : Feed(input)
    \/ \E i \in Index, cb \in Callback : Subscribe(i, cb)
    \/ \E i \in Index : Unsubscribe(i)

Next == Calls \/ FeedStep

Spec == Init /\ [][Next]_vars

-----------------------------------------------------------------------------
(* Properties. *)

TypeOK ==
    /\ buffer \in Seq(Byte)
    /\ pc \in {"idle", "scan", "calls", "crashed"}
    /\ msgs \in Seq(Message)
    /\ called \in 0 .. Len(msgs)
    /\ pc # "calls" => called = 0
    /\ DOMAIN callbacks \subseteq Index
    /\ callbacks \in [DOMAIN callbacks -> Callback]
    /\ out \in Seq(Call)
    /\ feeds \in Nat /\ threw \in BOOLEAN

\* Until something throws, the subscriber frames and dispatches what its inputs
\* carry, each message once and in order, however they are split.
Stream == INSTANCE FrameStream WITH
            buf <- buffer, queue <- SubSeq(msgs, called + 1, Len(msgs))

RefinesUntilThrown ==
    /\ Stream!Init
    /\ [][~threw' => Stream!Next]_(Stream!stream_vars)

\* Messages outlive a call of feed() only through an error; the bytes never do.
NothingLeftBehind ==
    pc = "idle" => ~HasDelim(buffer) /\ (~threw => msgs = <<>>)

\* The invariant of the subscriber: its types, and that feed() finishes its work.
SubscriberInv == TypeOK /\ NothingLeftBehind

\* A message that throws holds back those behind it: while the callbacks stay
\* as they are, later calls run the same callbacks up to it and no other.
FirstThrown == CHOOSE k \in DOMAIN msgs :
                 Thrown(msgs[k]) /\ \A j \in 1 .. k - 1 : ~Thrown(msgs[j])

PoisonHoldsBack ==
    [][(\E m \in DOMAIN msgs : Thrown(msgs[m])) /\ callbacks' = callbacks =>
         /\ called' < FirstThrown
         /\ Len(msgs) <= Len(msgs') /\ SubSeq(msgs', 1, Len(msgs)) = msgs]_vars

=============================================================================
