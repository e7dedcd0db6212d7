------------------------------- MODULE PyApp -------------------------------
(***************************************************************************)
(* The Python serial and network applications: a reader thread feeds the   *)
(* subscriber until stop_event is set, the main thread writes packets until*)
(* it is interrupted, then sets the event and closes the line. The serial  *)
(* one joins the reader first; the reader of the network one is a daemon.  *)
(* Another caller feeds and subscribes as it likes in its only thread.     *)
(***************************************************************************)
EXTENDS PySubscriber

CONSTANTS
    PeerFrames, \* the packets the peer sends
    Opening,    \* what may wait on a noisy line when it is opened
    MaxSend     \* bound on the packets the peer sends

ASSUME PyAppAssumption ==
    /\ PeerFrames \subseteq Frames
    /\ Opening \subseteq Seq(Byte) /\ <<>> \in Opening
    /\ MaxSend \in Nat

VARIABLES
    program,    \* "serial", "network" or "caller"
    line,       \* "clean", or "noisy": opened amid a packet, it may carry what
                \* is no msgpack and raise errors
    port,       \* bytes received and not yet read
    sent,       \* history: the packets the peer has sent
    opened,     \* is the line open?
    stop,       \* stop_event
    rpc,        \* the reader thread
    mpc         \* the main thread

config == <<program, line>>
app_vars == <<vars, config, port, sent, opened, stop, rpc, mpc>>

AppInit ==
    /\ Init
    /\ program \in {"serial", "network", "caller"}
    /\ line \in {"clean", "noisy"}
    /\ port \in IF line = "clean" \/ program = "caller" THEN {<<>>} ELSE Opening
    /\ sent = <<>>
    /\ opened = TRUE /\ stop = FALSE /\ rpc = "none"
    /\ mpc = IF program = "caller" THEN "caller" ELSE "setup"

CallerStep ==
    /\ mpc = "caller" /\ (Calls \/ FeedStep)
    /\ UNCHANGED <<config, port, sent, opened, stop, rpc, mpc>>

\* The next packet of the peer that gets there. Over UDP one that does not is never
\* sent here, and one that gets there twice is sent twice.
PeerSends(f) ==
    /\ mpc # "caller" /\ opened /\ Len(sent) < MaxSend
    /\ line = "clean" => decoded[f].data \in Unpackable
    /\ port' = port \o f \o <<Delim>>
    /\ sent' = Append(sent, f)
    /\ UNCHANGED <<vars, config, opened, stop, rpc, mpc>>

\* main() subscribes every index before it starts the reader.
Setup(i, cb) ==
    /\ mpc = "setup" /\ i \notin DOMAIN callbacks
    /\ Subscribe(i, cb)
    /\ UNCHANGED <<config, port, sent, opened, stop, rpc, mpc>>

Start ==
    /\ mpc = "setup" /\ DOMAIN callbacks = Index
    /\ mpc' = "write" /\ rpc' = "test"
    /\ UNCHANGED <<vars, config, port, sent, opened, stop>>

-----------------------------------------------------------------------------
(* The reader thread. *)

TestStop ==
    /\ rpc = "test"
    /\ rpc' = IF stop THEN "ended" ELSE "read"
    /\ UNCHANGED <<vars, config, port, sent, opened, stop, mpc>>

\* in_waiting bytes are read and fed; more may have arrived since.
Read(n) ==
    /\ rpc = "read" /\ opened
    /\ n <= Len(port)
    /\ Feed(SubSeq(port, 1, n))
    /\ port' = SubSeq(port, n + 1, Len(port))
    /\ rpc' = "feed"
    /\ UNCHANGED <<config, sent, opened, stop, mpc>>

\* The serial reader polls; recvfrom() of the network one blocks instead.
NothingWaits ==
    /\ program = "serial" /\ rpc = "read" /\ opened /\ port = <<>>
    /\ rpc' = "test"
    /\ UNCHANGED <<vars, config, port, sent, opened, stop, mpc>>

\* An error of the line, or a line that is closed, ends the thread.
ReadRaises ==
    /\ rpc = "read" /\ (line = "noisy" \/ ~opened)
    /\ rpc' = "ended"
    /\ UNCHANGED <<vars, config, port, sent, opened, stop, mpc>>

FeedRuns ==
    /\ rpc = "feed" /\ FeedStep
    /\ UNCHANGED <<config, port, sent, opened, stop, rpc, mpc>>

\* feed() returns, or its exception is printed and the thread ends.
FeedEnds ==
    /\ rpc = "feed" /\ Ready
    /\ rpc' = IF pc = "raised" THEN "ended" ELSE "test"
    /\ UNCHANGED <<vars, config, port, sent, opened, stop, mpc>>

ReaderGoesOn == TestStop \/ (\E n \in 1 .. Len(port) : Read(n))
                  \/ NothingWaits \/ FeedRuns \/ FeedEnds

Reader == ReaderGoesOn \/ ReadRaises

-----------------------------------------------------------------------------
(* The main thread. *)

\* KeyboardInterrupt, or an error of encode() or write().
Interrupt ==
    /\ mpc = "write"
    /\ mpc' = "finally"
    /\ UNCHANGED <<vars, config, port, sent, opened, stop, rpc>>

\* Mutant of SetStop: the network reader is joined too.
SetStopAndJoin ==
    /\ mpc = "finally"
    /\ stop' = TRUE /\ mpc' = "join"
    /\ UNCHANGED <<vars, config, port, sent, opened, rpc>>

SetStop ==
    /\ mpc = "finally"
    /\ stop' = TRUE /\ mpc' = IF program = "serial" THEN "join" ELSE "close"
    /\ UNCHANGED <<vars, config, port, sent, opened, rpc>>

\* Mutant of Join: it does not wait.
JoinTimesOut ==
    /\ mpc = "join"
    /\ mpc' = "close"
    /\ UNCHANGED <<vars, config, port, sent, opened, stop, rpc>>

Join ==
    /\ mpc = "join" /\ rpc = "ended"
    /\ mpc' = "close"
    /\ UNCHANGED <<vars, config, port, sent, opened, stop, rpc>>

Close ==
    /\ mpc = "close"
    /\ opened' = FALSE /\ mpc' = "ended"
    /\ UNCHANGED <<vars, config, port, sent, stop, rpc>>

Main == SetStop \/ Join \/ Close

AppNext ==
    \/ CallerStep
    \/ \E f \in PeerFrames : PeerSends(f)
    \/ \E i \in Index, cb \in Callback : Setup(i, cb)
    \/ Start \/ Reader \/ Interrupt \/ Main

AppSpec == AppInit /\ [][AppNext]_app_vars

\* Both threads keep running; nothing forces an interrupt or an error.
AppFairSpec ==
    /\ AppSpec /\ WF_app_vars(ReaderGoesOn) /\ WF_app_vars(Main)
    /\ WF_app_vars(Start \/ \E i \in Index, cb \in Callback : Setup(i, cb))

-----------------------------------------------------------------------------
(* Properties. *)

\* The serial reader never uses a port that main() has closed: it has ended
\* by then.
NoReadAfterClose == ~opened /\ program = "serial" => rpc = "ended"

\* Once interrupted, the program comes to its end, whatever the reader is
\* doing, whether or not it is still alive, and although the reader of the
\* network application may block in recvfrom() for ever.
Stops == mpc = "finally" ~> mpc = "ended"

\* Unless the reader is stopped, everything the peer has sent is delivered in the end,
\* on a noisy line behind what it was opened with. A clean line never ends the reader;
\* a noisy one may, and then main() goes on without it.
Delivered ==
    LET all == CallsFor(callbacks, sent)
    IN IF line = "clean" THEN out = all
       ELSE \E k \in 0 .. Len(out) : SubSeq(out, k + 1, Len(out)) = all

DeliversUntilStopped ==
    <>[](\/ program = "caller" \/ stop
         \/ line = "noisy" /\ rpc = "ended"
         \/ Delivered)

=============================================================================
