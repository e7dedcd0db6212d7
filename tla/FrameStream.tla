---------------------------- MODULE FrameStream ----------------------------
(***************************************************************************)
(* What a subscriber promises, whatever its language: the bytes that have  *)
(* arrived are cut at the delimiters, each chunk that decodes becomes one  *)
(* message, in order, however the bytes were split over the calls of       *)
(* feed(), and a message reaches the callback its index has at the time.   *)
(***************************************************************************)
EXTENDS Framing

VARIABLES
    buf,        \* bytes that have arrived and are not yet framed
    queue,      \* messages decoded and not yet dispatched
    callbacks,  \* the registered callbacks, by index
    out         \* the calls made: callback and message, oldest first

stream_vars == <<buf, queue, callbacks, out>>

StreamTypeOK ==
    /\ buf \in Seq(Byte)
    /\ queue \in Seq(Message)
    /\ DOMAIN callbacks \subseteq Index
    /\ callbacks \in [DOMAIN callbacks -> Callback]
    /\ out \in Seq(Call)

Init ==
    /\ buf = <<>> /\ queue = <<>> /\ out = <<>>
    /\ callbacks = <<>>

\* Some bytes arrive behind those that are there.
Arrive ==
    /\ buf' \in Seq(Byte) /\ Len(buf) <= Len(buf')
    /\ SubSeq(buf', 1, Len(buf)) = buf
    /\ UNCHANGED <<queue, callbacks, out>>

\* A chunk that does not decode is dropped.
Frame ==
    /\ HasDelim(buf)
    /\ buf' = AfterChunk(buf)
    /\ queue' = IF Decodes(FirstChunk(buf))
                THEN Append(queue, decoded[FirstChunk(buf)]) ELSE queue
    /\ UNCHANGED <<callbacks, out>>

\* The oldest message goes to the callback its index has now, if any.
Deliver ==
    /\ queue # <<>>
    /\ queue' = Tail(queue)
    /\ out' = Dispatch(out, callbacks, Head(queue))
    /\ UNCHANGED <<buf, callbacks>>

SetCallback(i, cb) ==
    /\ callbacks' = WithCallback(callbacks, i, cb)
    /\ UNCHANGED <<buf, queue, out>>

RemoveCallback(i) ==
    /\ callbacks' = WithoutCallback(callbacks, i)
    /\ UNCHANGED <<buf, queue, out>>

Next ==
    \/ Arrive
    \/ Frame
    \/ Deliver
    \/ \E i \in Index, cb \in Callback : SetCallback(i, cb)
    \/ \E i \in Index : RemoveCallback(i)

Spec == Init /\ [][Next]_stream_vars

=============================================================================
