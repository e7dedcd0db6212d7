------------------------------ MODULE RustApps ------------------------------
(***************************************************************************)
(* The programs around the Rust subscriber. The serial application reads   *)
(* what the port holds, at most one read buffer, feeds it and writes a     *)
(* batch of packets. In the Bevy application a plugin turns what the port  *)
(* holds into events and the system read_serial reads them; a panic in a   *)
(* system ends the application. Both get whole packets over a line that    *)
(* loses nothing. Any other caller feeds and subscribes as it likes.       *)
(***************************************************************************)
EXTENDS RustSubscriber

CONSTANTS
    ReadMax,    \* size of the read buffer
    PeerFrames, \* the packets the peer may send
    MaxSend,    \* bound on the packets the peer sends
    NotUtf8     \* the bytes that no UTF-8 string holds by themselves

ASSUME RustAppsAssumption ==
    /\ ReadMax \in Nat \ {0} /\ MaxSend \in Nat
    /\ PeerFrames \subseteq Frames
    /\ NotUtf8 \subseteq Byte \ {Delim}

VARIABLES
    program,    \* "serial", "bevy" or "caller"
    at,         \* where its main loop is
    port,       \* bytes received and not yet read
    events,     \* SerialReadEvents not yet read
    sent        \* history: the packets the peer has sent

line_vars == <<port, events, sent>>
apps_vars == <<vars, program, at, line_vars>>

AppsInit ==
    /\ Init
    /\ program \in {"serial", "bevy", "caller"}
    /\ at = IF program = "caller" THEN "caller" ELSE "setup"
    /\ port = <<>> /\ events = <<>> /\ sent = <<>>

CallerStep ==
    /\ at = "caller" /\ Next
    /\ UNCHANGED <<program, at, line_vars>>

PeerSends(f) ==
    /\ at # "caller" /\ Len(sent) < MaxSend
    /\ port' = port \o f \o <<Delim>>
    /\ sent' = Append(sent, f)
    /\ UNCHANGED <<vars, program, at, events>>

\* main() registers one callback per index before it enters its loop.
Setup(i, cb) ==
    /\ at = "setup" /\ i \notin DOMAIN callbacks
    /\ Subscribe(i, cb)
    /\ UNCHANGED <<program, at, line_vars>>

Start ==
    /\ at = "setup" /\ DOMAIN callbacks = Index
    /\ at' = IF program = "serial" THEN "read" ELSE "frame"
    /\ UNCHANGED <<vars, program, line_vars>>

FeedRuns ==
    /\ at \in {"feed", "frame"} /\ FeedStep
    /\ UNCHANGED <<program, at, line_vars>>

-----------------------------------------------------------------------------
(* The loop of the serial application. *)

\* port.read() returns some of the bytes that wait, and feed() gets them.
Read(n) ==
    LET input == SubSeq(port, 1, n) IN
    /\ at = "read" /\ n <= Len(port) /\ n <= ReadMax
    /\ Feed(input) \/ FeedRefused(input)
    /\ port' = SubSeq(port, n + 1, Len(port)) /\ at' = "feed"
    /\ UNCHANGED <<program, events, sent>>

\* port.read(...).unwrap() on an error of the line.
ReadUnwrapPanics ==
    /\ at = "read" /\ port # <<>>
    /\ at' = "panicked"
    /\ UNCHANGED <<vars, program, line_vars>>

NothingToRead ==
    /\ at = "read" /\ port = <<>>
    /\ at' = "write"
    /\ UNCHANGED <<vars, program, line_vars>>

FeedReturns ==
    /\ at = "feed" /\ pc = "idle"
    /\ at' = "write"
    /\ UNCHANGED <<vars, program, line_vars>>

\* The packets go out in one write, then the loop sleeps; write_all() is
\* unwrapped, so an error of the line panics.
Write ==
    /\ at = "write"
    /\ at' \in {"read", "panicked"}
    /\ UNCHANGED <<vars, program, line_vars>>

Loop == (\E n \in 1 .. ReadMax : Read(n)) \/ ReadUnwrapPanics \/ NothingToRead
          \/ FeedReturns \/ Write

-----------------------------------------------------------------------------
(* The systems of the Bevy application. *)

\* The plugin: one event for what it has received.
Received(n) ==
    /\ program = "bevy" /\ n <= Len(port) /\ n <= ReadMax
    /\ events' = Append(events, SubSeq(port, 1, n))
    /\ port' = SubSeq(port, n + 1, Len(port))
    /\ UNCHANGED <<vars, program, at, sent>>

IsUtf8(bytes) == \A k \in DOMAIN bytes : bytes[k] \notin NotUtf8

\* Mutant of ReadSerial: one event of a frame is read, the others are dropped.
ReadSerialFirst ==
    /\ at = "frame" /\ events # <<>>
    /\ IsUtf8(Head(events))
    /\ Feed(Head(events)) \/ FeedRefused(Head(events))
    /\ events' = <<>>
    /\ UNCHANGED <<program, at, port, sent>>

ReadSerial ==
    /\ at = "frame" /\ events # <<>>
    /\ IsUtf8(Head(events))
    /\ Feed(Head(events)) \/ FeedRefused(Head(events))
    /\ events' = Tail(events)
    /\ UNCHANGED <<program, at, port, sent>>

\* String::from_utf8(...).unwrap() on bytes that are no string.
ReadPanics ==
    /\ at = "frame" /\ pc = "idle" /\ events # <<>>
    /\ ~IsUtf8(Head(events))
    /\ at' = "panicked"
    /\ UNCHANGED <<vars, program, line_vars>>

Frame == ReadSerial \/ ReadPanics

-----------------------------------------------------------------------------
Running ==
    \/ \E i \in Index, cb \in Callback : Setup(i, cb)
    \/ Start
    \/ FeedRuns
    \/ Loop
    \/ Frame

AppsNext ==
    \/ CallerStep
    \/ \E f \in PeerFrames : PeerSends(f)
    \/ Running
    \/ \E n \in 1 .. ReadMax : Received(n)

AppsSpec == AppsInit /\ [][AppsNext]_apps_vars

\* The main loop and the schedule go round for as long as nothing panics, and
\* the plugin hands over what has arrived.
AppsFairSpec ==
    /\ AppsSpec
    /\ WF_apps_vars(Running)
    /\ WF_apps_vars(\E n \in 1 .. ReadMax : Received(n))

-----------------------------------------------------------------------------
(* Properties. *)

IsPrefixOf(s, t) == Len(s) <= Len(t) /\ s = SubSeq(t, 1, Len(s))

\* Callbacks see what the peer sent and nothing else, in order and once each,
\* however the port splits the bytes, also in a program that panics midway. Input
\* that feed() refuses leaves a gap at any place of the line, and then a chunk may
\* decode that is no packet.
DeliversWhatWasSent ==
    program # "caller" /\ ~refused => IsPrefixOf(out, CallsFor(callbacks, sent))

\* Packets of one length never make feed() panic, whatever the reads: what is
\* left of the last one is shorter than any packet before it.
OneLength == \A j, k \in DOMAIN sent : Len(sent[j]) = Len(sent[k])

OneLengthNeverPanics ==
    program # "caller" /\ ~refused /\ OneLength => ~Panicked

\* Every packet the peer sends is dispatched in the end, unless the program
\* panics: a read or write that fails, an event that is no UTF-8, or feed() itself;
\* or unless feed() refuses input.
AllDelivered ==
    <>[](\/ program = "caller" \/ at = "panicked" \/ Panicked \/ refused
         \/ out = CallsFor(callbacks, sent))

\* packetizer/src/subscribe.rs: "copy the remaining data to the beginning of
\* the buffer". The packets are whole and undamaged.
RemainderKept == at # "caller" /\ ~refused => pc # "panic_compact"

=============================================================================
