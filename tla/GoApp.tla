------------------------------- MODULE GoApp -------------------------------
(***************************************************************************)
(* The Go serial and network applications: one goroutine reads the line and*)
(* feeds the subscriber, the main goroutine encodes and writes packets.    *)
(* They share CRC8_HASH and nothing orders them. Another caller feeds and  *)
(* subscribes as it likes in its only goroutine.                           *)
(***************************************************************************)
EXTENDS GoSubscriber

CONSTANTS
    ReadMax,    \* size of the read buffer
    PeerFrames, \* the packets the peer sends
    MaxSend,    \* bound on the packets the peer sends
    Messages,   \* the messages main() encodes
    MaxWrites   \* bound on the packets main() writes

ASSUME GoAppAssumption ==
    /\ ReadMax \in Nat \ {0} /\ MaxSend \in Nat /\ MaxWrites \in Nat
    /\ PeerFrames \subseteq Frames
    /\ Messages \subseteq Message

VARIABLES
    program,    \* "serial", "network" or "caller"
    lost,       \* whether the line has failed for good
    port,       \* bytes received and not yet read
    sent,       \* history: the packets the peer has sent
    wpc,        \* where the main goroutine is, or "caller"
    job,        \* the message it encodes
    wacc,       \* what its Update() has read from CRC8_HASH
    written,    \* history: the packets it has written
    alone       \* history: the goroutines whose checksum nobody touched since
                \* their Reset()

line_vars == <<program, lost>>
writer_vars == <<wpc, job, wacc, written>>
app_vars == <<vars, line_vars, port, sent, writer_vars, alone>>

Goroutines == {"reader", "writer"}

None == [index |-> "none"]

AppInit ==
    /\ Init
    /\ program \in {"serial", "network", "caller"} /\ lost = FALSE
    /\ port = <<>> /\ sent = <<>>
    /\ wpc = IF program = "caller" THEN "caller" ELSE "setup"
    /\ job = None /\ wacc = Zero
    /\ written = <<>> /\ alone = {}

\* The next packet of the peer that gets there. Over UDP one that does not is never
\* sent here, and one that gets there twice is sent twice.
PeerSends(f) ==
    /\ wpc # "caller" /\ ~lost /\ Len(sent) < MaxSend
    /\ port' = port \o f \o <<Delim>>
    /\ sent' = Append(sent, f)
    /\ UNCHANGED <<vars, line_vars, writer_vars, alone>>

-----------------------------------------------------------------------------
(* Before the goroutine of the reader starts, main() subscribes each index. *)

Setup(i, cb) ==
    /\ wpc = "setup" /\ i \notin DOMAIN callbacks
    /\ Subscribe(i, cb)
    /\ UNCHANGED <<line_vars, port, sent, writer_vars, alone>>

Start ==
    /\ wpc = "setup" /\ DOMAIN callbacks = Index
    /\ wpc' = "encode"
    /\ UNCHANGED <<vars, line_vars, port, sent, job, wacc, written, alone>>

Running == wpc \notin {"caller", "setup", "exited"}

CallerStep ==
    /\ wpc = "caller" /\ Calls
    /\ UNCHANGED <<line_vars, port, sent, writer_vars, alone>>

-----------------------------------------------------------------------------
(* The reader. *)

Read(n) ==
    /\ Running /\ ~lost
    /\ n <= Len(port) /\ n <= ReadMax
    /\ Feed(SubSeq(port, 1, n))
    /\ port' = SubSeq(port, n + 1, Len(port))
    /\ UNCHANGED <<line_vars, sent, writer_vars, alone>>

\* The line fails and stays so: a board that is unplugged, a connection that ends.
\* While Feed() runs, the reader does not notice.
LineFails ==
    /\ Running /\ ~lost /\ pc = "idle"
    /\ lost' = TRUE
    /\ UNCHANGED <<vars, program, port, sent, writer_vars, alone>>

\* Read() returns an error, on a line that failed or once. The network program calls
\* log.Fatal, which ends the process with both goroutines; the serial program logs
\* the error and goes round.
ReadError ==
    /\ Running /\ pc = "idle"
    /\ wpc' = IF program = "network" THEN "exited" ELSE wpc
    /\ UNCHANGED <<vars, line_vars, port, sent, job, wacc, written, alone>>

ReaderStep ==
    /\ Running \/ wpc = "caller"
    /\ FeedStep
    /\ alone' = IF pc = "reset" THEN {"reader"}
                ELSE IF hash' # hash THEN alone \cap {"reader"}
                ELSE alone
    /\ UNCHANGED <<line_vars, port, sent, writer_vars>>

-----------------------------------------------------------------------------
(* The writer: Encode() for one message after the other. *)

WriterReset(m) ==
    /\ wpc = "encode" /\ Len(written) < MaxWrites
    /\ job' = m /\ hash' = Zero /\ wpc' = "load"
    /\ alone' = {"writer"}
    /\ UNCHANGED <<buffer, pc, chunk, acc, msgs, called, callbacks, out, feeds,
                   line_vars, port, sent, wacc, written>>

WriterLoad ==
    /\ wpc = "load"
    /\ wacc' = hash /\ wpc' = "store"
    /\ UNCHANGED <<vars, line_vars, port, sent, job, written, alone>>

WriterStore ==
    /\ wpc = "store"
    /\ hash' = crcUpdate[wacc, job.data] /\ wpc' = "write"
    /\ alone' = alone \cap {"writer"}
    /\ UNCHANGED <<buffer, pc, chunk, acc, msgs, called, callbacks, out, feeds,
                   line_vars, port, sent, job, wacc, written>>

\* CRC8() goes into the packet, and the packet to the line.
WriterWrite ==
    /\ wpc = "write"
    /\ written' = Append(written, [index |-> job.index, data |-> job.data,
                                   crc |-> hash])
    /\ job' = None
    /\ wpc' = "encode"
    /\ UNCHANGED <<vars, line_vars, port, sent, wacc, alone>>

WriteError ==
    /\ wpc = "write"
    /\ wpc' = "exited"
    /\ UNCHANGED <<vars, line_vars, port, sent, job, wacc, written, alone>>

Reader == (\E n \in 1 .. ReadMax : Read(n)) \/ (lost /\ ReadError) \/ ReaderStep

Writer == (\E m \in Messages : WriterReset(m)) \/ WriterLoad \/ WriterStore
            \/ WriterWrite

AppNext ==
    \/ \E f \in PeerFrames : PeerSends(f)
    \/ CallerStep
    \/ (\E i \in Index, cb \in Callback : Setup(i, cb)) \/ Start
    \/ Reader \/ Writer
    \/ LineFails \/ ReadError \/ WriteError

AppSpec == AppInit /\ [][AppNext]_app_vars

\* The Go scheduler lets both goroutines run, and main() comes to start them.
AppFairSpec ==
    /\ AppSpec /\ WF_app_vars(Reader) /\ WF_app_vars(Writer)
    /\ WF_app_vars(Start \/ \E i \in Index, cb \in Callback : Setup(i, cb))

-----------------------------------------------------------------------------
(* Properties. *)

\* s is t with some elements left out: at[k] is where t has the k-th of s.
IsSubsequence(s, t) ==
    \E at \in [1 .. Len(s) -> 1 .. Len(t)] :
      /\ \A j, k \in 1 .. Len(s) : j < k => at[j] < at[k]
      /\ \A k \in 1 .. Len(s) : s[k] = t[at[k]]

\* Whatever the goroutines do to each other's checksum, callbacks see only
\* what the peer has sent, once each and in order: the race can lose a message,
\* never invent, repeat or reorder one.
RaceOnlyDrops == wpc # "caller" => IsSubsequence(out, CallsFor(callbacks, sent))

\* A goroutine that nobody disturbed between its Reset() and its CRC8() gets
\* the checksum of its own data.
UndisturbedChecksum ==
    /\ pc = "check" /\ "reader" \in alone =>
         hash = Checksum(parsed[chunk].data)
    /\ wpc = "write" /\ "writer" \in alone => hash = Checksum(job.data)

\* The subscriber frames and dispatches what its input carries, each message
\* once and in order, however it is split: the only step that is none of
\* FrameStream is a Check() of a chunk whose checksum the writer disturbed.
RefinesUnlessDisturbed ==
    /\ Stream!Init
    /\ [][(pc = "check" /\ "reader" \notin alone) \/ Stream!Next]_(Stream!stream_vars)

\* Reading goes on: every byte that got to the program is framed and every call of
\* Feed() returns in the end, unless the process has exited. The serial program alone
\* neither reads on nor exits, once its line has failed for good.
EverythingRead ==
    <>[](\/ wpc = "exited"
         \/ pc = "idle" /\ (port = <<>> \/ (program = "serial" /\ lost)))

\* README: "1 byte crc8 (for received data check)": a good packet passes it.
GoodPacketAccepted ==
    [][pc = "check" /\ chunk \in Frames => msgs' # msgs]_app_vars

=============================================================================
