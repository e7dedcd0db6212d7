------------------------------- MODULE TsApps -------------------------------
(***************************************************************************)
(* The TypeScript serial, TCP and UDP applications: one thread, in which   *)
(* the event loop runs the handlers of the port or socket, one of which    *)
(* feeds the subscriber, and an asynchronous loop that writes and sleeps.  *)
(* Nothing else runs until a handler returns or the writer sleeps. Another *)
(* caller feeds and subscribes as it likes.                                *)
(***************************************************************************)
EXTENDS TsSubscriber

CONSTANTS
    PeerFrames, \* the packets the peer sends
    MaxSend     \* bound on them

ASSUME TsAppsAssumption == PeerFrames \subseteq Frames /\ MaxSend \in Nat

VARIABLES
    program,    \* "serial", "tcp", "udp" or "caller"
    line,       \* received and not yet read: bytes, or with UDP datagrams
    sent,       \* history: the packets the peer has sent
    socket,     \* the port or socket: "opening", "open" or "closed"
    turn        \* what runs: "load" the module, "loop" the event loop, "data" a
                \* handler, "write" the writer; or the process has "ended"

app_vars == <<vars, program, line, sent, socket, turn>>

AppInit ==
    /\ Init
    /\ program \in {"serial", "tcp", "udp", "caller"}
    /\ line = <<>> /\ sent = <<>>
    /\ socket = "opening"
    /\ turn = IF program = "caller" THEN "caller" ELSE "load"

CallerStep ==
    /\ turn = "caller" /\ (Calls \/ FeedStep)
    /\ UNCHANGED <<program, line, sent, socket, turn>>

Load(i, cb) ==
    /\ turn = "load" /\ i \notin DOMAIN callbacks
    /\ Subscribe(i, cb)
    /\ UNCHANGED <<program, line, sent, socket, turn>>

\* The writer is called once the module has subscribed and opens the line, before
\* any event.
Loaded ==
    /\ turn = "load" /\ DOMAIN callbacks = Index
    /\ turn' = "write"
    /\ UNCHANGED <<vars, program, line, sent, socket>>

-----------------------------------------------------------------------------
(* The line. *)

PeerSends(f) ==
    /\ socket = "open" /\ Len(sent) < MaxSend
    /\ line' = IF program = "udp" THEN Append(line, f \o <<Delim>>)
               ELSE line \o f \o <<Delim>>
    /\ sent' = Append(sent, f)
    /\ UNCHANGED <<vars, program, socket, turn>>

Without(k) == SubSeq(line, 1, k - 1) \o SubSeq(line, k + 1, Len(line))

DatagramLost(k) ==
    /\ program = "udp" /\ line' = Without(k)
    /\ UNCHANGED <<vars, program, sent, socket, turn>>

-----------------------------------------------------------------------------
(* Events. *)

\* "open", "connect", "listening".
Opens ==
    /\ turn = "loop" /\ socket = "opening"
    /\ socket' = "open"
    /\ UNCHANGED <<vars, program, line, sent, turn>>

\* "error", also when opening fails: the sockets are destroyed or closed, the serial
\* handler only logs, and the port may be open still. The peer may end a TCP
\* connection ("close"), and a serial port may go away. Nothing opens them again.
Closes ==
    /\ turn = "loop" /\ socket # "closed"
    /\ socket' = "closed"
    /\ UNCHANGED <<vars, program, line, sent, turn>>

\* "data": some of the bytes. "message": a datagram, in any order, maybe not for the
\* last time.
Data_ ==
    /\ turn = "loop" /\ socket = "open"
    /\ \E k \in 1 .. Len(line) :
         IF program = "udp"
         THEN /\ Feed(line[k])
              /\ line' = Without(k) \/ (feeds < MaxFeeds /\ line' = line)
         ELSE /\ Feed(SubSeq(line, 1, k))
              /\ line' = SubSeq(line, k + 1, Len(line))
    /\ turn' = "data"
    /\ UNCHANGED <<program, sent, socket>>

\* An error that leaves feed() leaves the handler too and ends the process.
FeedRuns ==
    /\ turn = "data" /\ FeedStep
    /\ threw' => pc' = "crashed"
    /\ turn' = CASE pc' = "crashed" -> "ended" [] pc' = "idle" -> "loop"
                 [] OTHER -> "data"
    /\ UNCHANGED <<program, line, sent, socket>>

-----------------------------------------------------------------------------
(* The writer. *)

TimerFires ==
    /\ turn = "loop"
    /\ turn' = "write"
    /\ UNCHANGED <<vars, program, line, sent, socket>>

\* isOpen of the serial port; !connecting && writable of the TCP client.
Writable == socket = "open"

\* The packets are written and the writer sleeps. The UDP program tests nothing: until
\* its socket is closed, send() takes them.
WriteSends ==
    /\ turn = "write"
    /\ IF program = "udp" THEN socket # "closed" ELSE Writable
    /\ turn' = "loop"
    /\ UNCHANGED <<vars, program, line, sent, socket>>

\* A warning is logged, and the writer sleeps.
WriteSkips ==
    /\ turn = "write"
    /\ program # "udp" /\ ~Writable
    /\ turn' = "loop"
    /\ UNCHANGED <<vars, program, line, sent, socket>>

\* send() throws on a closed datagram socket. The error is caught behind the sleep, so
\* that the writer goes round at once, and throws again.
WriteThrows ==
    /\ turn = "write"
    /\ program = "udp" /\ socket = "closed"
    /\ UNCHANGED app_vars

Write == WriteSends \/ WriteSkips \/ WriteThrows

Process ==
    (\E i \in Index, cb \in Callback : Load(i, cb)) \/ Loaded \/ FeedRuns \/ Write

AppNext ==
    \/ CallerStep
    \/ Process
    \/ \E f \in PeerFrames : PeerSends(f)
    \/ \E k \in 1 .. Len(line) : DatagramLost(k)
    \/ Opens \/ Closes \/ Data_ \/ TimerFires

AppSpec == AppInit /\ [][AppNext]_app_vars

\* What runs goes on, and the event loop comes to what has arrived however often the
\* timer fires. Nothing forces the line to open, to close or to carry anything.
AppFairSpec == AppSpec /\ WF_app_vars(Process) /\ SF_app_vars(Data_)

-----------------------------------------------------------------------------
(* Properties. *)

\* The invariant of the subscriber, the types, and that feed() runs within a handler.
AppInv ==
    /\ SubscriberInv
    /\ socket \in {"opening", "open", "closed"}
    /\ turn \in {"caller", "load", "loop", "data", "write", "ended"}
    /\ turn \in {"load", "loop", "write"} => pc = "idle"
    /\ turn = "ended" <=> turn # "caller" /\ pc = "crashed"
    /\ sent \in Seq(PeerFrames)

\* A byte stream arrives in order and without a gap, however it is cut. Of UDP every
\* call is of a packet that was sent, and no datagram that is lost, repeated or late
\* disturbs another.
OnlyWhatWasSent ==
    /\ program \in {"serial", "tcp"} =>
         LET all == CallsFor(callbacks, sent)
         IN Len(out) <= Len(all) /\ out = SubSeq(all, 1, Len(out))
    /\ program = "udp" =>
         /\ \A k \in DOMAIN out : \E j \in DOMAIN sent : out[k].msg = decoded[sent[j]]
         /\ pc = "idle" => buffer = <<>>

\* While the line is open and nothing throws, what arrived on a byte stream is delivered
\* in the end, and every datagram that is not lost is read to its end, however often
\* the writer runs.
DeliversWhileOpen ==
    <>[](\/ program = "caller" \/ turn = "ended" \/ socket # "open"
         \/ IF program = "udp" THEN line = <<>> /\ pc = "idle"
            ELSE out = CallsFor(callbacks, sent))

=============================================================================
