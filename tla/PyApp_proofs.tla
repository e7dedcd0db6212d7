---------------------------- MODULE PyApp_proofs -----------------------------
(***************************************************************************)
(* Proofs about the Python subscriber inside its applications, for any     *)
(* packets, callbacks and bounds: what feed() leaves behind, that it       *)
(* implements FrameStream until an exception leaves it, and that the serial*)
(* reader never outlives its port.                                         *)
(***************************************************************************)
EXTENDS PyApp, Framing_proofs

-----------------------------------------------------------------------------
(* Every step of an application is one of the subscriber, or none. *)

PortTypeOK == port \in Seq(Byte)

SubscriberStep ==
    \/ \E input \in Seq(Byte) : Feed(input)
    \/ FeedStep
    \/ \E i \in Index, cb \in Callback : Subscribe(i, cb)
    \/ \E i \in Index : Unsubscribe(i)

LEMMA AppStep ==
    ASSUME PortTypeOK, [AppNext]_app_vars
    PROVE  PortTypeOK' /\ (SubscriberStep \/ UNCHANGED vars)
  <1>1. CASE CallerStep
    BY <1>1, PyAssumption DEF CallerStep, Calls, SubscriberStep, PortTypeOK
  <1>2. ASSUME NEW f \in PeerFrames, PeerSends(f)
        PROVE  PortTypeOK' /\ UNCHANGED vars
    <2>1. f \in Seq(Byte) /\ <<Delim>> \in Seq(Byte)
      BY PyAppAssumption, FramingAssumption
    <2>2. port \o f \o <<Delim>> \in Seq(Byte)
      BY <2>1 DEF PortTypeOK
    <2> QED
      BY <1>2, <2>2 DEF PeerSends, PortTypeOK
  <1>3. ASSUME NEW i \in Index, NEW cb \in Callback, Setup(i, cb)
        PROVE  PortTypeOK' /\ SubscriberStep
    BY <1>3 DEF Setup, SubscriberStep, PortTypeOK
  <1>4. ASSUME NEW n \in 1 .. Len(port), Read(n)
        PROVE  PortTypeOK' /\ SubscriberStep
    <2>1. \A i \in 1 .. Len(port) : port[i] \in Byte
      BY ElementOfSeq DEF PortTypeOK
    <2>2. /\ SubSeq(port, 1, n) \in Seq(Byte)
          /\ SubSeq(port, n + 1, Len(port)) \in Seq(Byte)
      BY <2>1, SubSeqProperties DEF PortTypeOK
    <2> QED
      BY <1>4, <2>2 DEF Read, SubscriberStep, PortTypeOK
  <1>5. CASE FeedRuns
    BY <1>5 DEF FeedRuns, SubscriberStep, PortTypeOK
  <1>6. CASE Start \/ TestStop \/ NothingWaits \/ FeedEnds \/ ReadRaises \/ Interrupt
    BY <1>6 DEF Start, TestStop, NothingWaits, FeedEnds, ReadRaises, Interrupt,
       PortTypeOK
  <1>7. CASE Main \/ UNCHANGED app_vars
    BY <1>7 DEF Main, SetStop, Join, Close, app_vars, PortTypeOK
  <1> QED
    BY <1>1, <1>2, <1>3, <1>4, <1>5, <1>6, <1>7 DEF AppNext, Reader, ReaderGoesOn

-----------------------------------------------------------------------------
(* The inductive invariant. *)

\* The callbacks run once nothing is left to cut.
CallsInv == pc = "calls" => ~HasDelim(buffer)

IInv == SubscriberInv /\ CallsInv

LEMMA EmptyHasNoDelim == ~HasDelim(<<>>)
  BY DEF HasDelim

LEMMA IInvInit == Init => IInv
  <1> SUFFICES ASSUME Init PROVE IInv
    OBVIOUS
  <1>1. TypeOK
    BY DEF Init, TypeOK
  <1>2. NothingLeftBehind /\ CallsInv
    BY EmptyHasNoDelim DEF Init, NothingLeftBehind, CallsInv
  <1> QED
    BY <1>1, <1>2 DEF IInv, SubscriberInv

LEMMA IInvNext ==
    ASSUME IInv, SubscriberStep \/ UNCHANGED vars
    PROVE  IInv'
  <1>a. TypeOK /\ NothingLeftBehind /\ CallsInv
    BY DEF IInv, SubscriberInv
  <1> SUFFICES TypeOK' /\ NothingLeftBehind' /\ CallsInv'
    BY DEF IInv, SubscriberInv
  <1>1. ASSUME NEW input \in Seq(Byte), Feed(input)
        PROVE  TypeOK' /\ NothingLeftBehind' /\ CallsInv'
    BY <1>a, <1>1 DEF Feed, TypeOK, NothingLeftBehind, CallsInv
  <1>2. CASE DecodeChunk \/ DecodeRaises
    <2>1. AfterChunk(buffer) \in Seq(Byte)
      BY <1>a, <1>2, AfterChunkType DEF DecodeChunk, DecodeRaises, TypeOK
    <2>2. Decodes(FirstChunk(buffer)) => decoded[FirstChunk(buffer)] \in Message
      BY FramingAssumption DEF Decodes
    <2>3. CASE DecodeChunk
      <3>1. msgs' \in Seq(Message)
        BY <1>a, <2>2, <2>3 DEF DecodeChunk, TypeOK
      <3> QED
        BY <1>a, <2>1, <2>3, <3>1
           DEF DecodeChunk, TypeOK, NothingLeftBehind, CallsInv
    <2>4. CASE DecodeRaises
      BY <1>a, <2>1, <2>4 DEF DecodeRaises, TypeOK, NothingLeftBehind, CallsInv
    <2> QED
      BY <1>2, <2>3, <2>4
  <1>3. CASE ScanEnd \/ UnpackRaises \/ Return
    <2>1. /\ UNCHANGED <<buffer, wrapped, callbacks, out, feeds>>
          /\ pc' \in {"calls", "raised", "idle"}
          /\ msgs' = msgs \/ msgs' = <<>>
          /\ pc' \in {"raised", "idle"} => msgs' = <<>>
          /\ pc' = "calls" => ~HasDelim(buffer)
          /\ pc' = "idle" => pc = "calls"
      BY <1>3 DEF ScanEnd, UnpackRaises, Return
    <2>2. msgs' \in Seq(Message)
      <3>1. msgs \in Seq(Message) /\ <<>> \in Seq(Message)
        BY <1>a DEF TypeOK
      <3> QED
        BY <2>1, <3>1
    <2>3. TypeOK'
      BY <1>a, <2>1, <2>2 DEF TypeOK
    <2>4. NothingLeftBehind' /\ CallsInv'
      BY <1>a, <2>1 DEF NothingLeftBehind, CallsInv, HasDelim
    <2> QED
      BY <2>3, <2>4
  <1>4. CASE RunCallback
    <2>1. msgs # <<>> /\ msgs \in Seq(Message) /\ pc = "calls" /\ pc' = pc
      BY <1>a, <1>4 DEF RunCallback, TypeOK
    <2>2. Head(msgs) \in Message /\ Tail(msgs) \in Seq(Message)
      BY <2>1
    <2>3. out' \in Seq(Call)
      BY <1>a, <1>4, <2>2, DispatchType DEF RunCallback, TypeOK
    <2> QED
      BY <1>a, <1>4, <2>1, <2>2, <2>3
         DEF RunCallback, TypeOK, NothingLeftBehind, CallsInv
  <1>5. ASSUME NEW i \in Index, NEW cb \in Callback, Subscribe(i, cb)
        PROVE  TypeOK' /\ NothingLeftBehind' /\ CallsInv'
    <2>1. wrapped' = DOMAIN callbacks'
      BY <1>a, <1>5 DEF Subscribe, TypeOK, WithCallback
    <2> QED
      BY <1>a, <1>5, <2>1, CallbacksType
         DEF Subscribe, TypeOK, NothingLeftBehind, CallsInv
  <1>6. ASSUME NEW i \in Index, Unsubscribe(i)
        PROVE  TypeOK' /\ NothingLeftBehind' /\ CallsInv'
    BY <1>a, <1>6 DEF Unsubscribe, TypeOK, NothingLeftBehind, CallsInv, WithoutCallback
  <1>7. CASE UNCHANGED vars
    BY <1>a, <1>7 DEF vars, TypeOK, NothingLeftBehind, CallsInv
  <1> QED
    BY <1>1, <1>2, <1>3, <1>4, <1>5, <1>6, <1>7 DEF SubscriberStep, FeedStep

LEMMA AppIInv == AppSpec => [](IInv /\ PortTypeOK)
  <1>1. AppInit => IInv /\ PortTypeOK
    BY IInvInit, PyAppAssumption DEF AppInit, PortTypeOK
  <1>2. IInv /\ PortTypeOK /\ [AppNext]_app_vars => IInv' /\ PortTypeOK'
    BY AppStep, IInvNext
  <1> QED
    BY <1>1, <1>2, PTL DEF AppSpec

\* In every state of an application the subscriber has its types, and a call of
\* feed() that returns has left no complete packet behind, also after a call that an
\* exception cut short.
THEOREM PyNothingLeftBehind == AppSpec => []SubscriberInv
  <1>1. IInv => SubscriberInv
    BY DEF IInv
  <1> QED
    BY <1>1, AppIInv, PTL

-----------------------------------------------------------------------------
(* FrameStream. *)

LEMMA StreamFraming ==
    ASSUME NEW s
    PROVE  /\ Stream!HasDelim(s) = HasDelim(s)
           /\ Stream!FirstDelim(s) = FirstDelim(s)
           /\ Stream!FirstChunk(s) = FirstChunk(s)
           /\ Stream!AfterChunk(s) = AfterChunk(s)
           /\ Stream!Decodes(s) = Decodes(s)
  <1>1. Stream!FirstDelim(s) = FirstDelim(s)
    BY DEF Stream!FirstDelim, FirstDelim
  <1>2. Stream!HasDelim(s) = HasDelim(s)
    BY DEF Stream!HasDelim, HasDelim
  <1>3. Stream!FirstChunk(s) = FirstChunk(s) /\ Stream!AfterChunk(s) = AfterChunk(s)
    BY <1>1 DEF Stream!FirstChunk, FirstChunk, Stream!AfterChunk, AfterChunk
  <1>4. Stream!Decodes(s) = Decodes(s)
    BY DEF Stream!Decodes, Decodes
  <1> QED
    BY <1>1, <1>2, <1>3, <1>4

LEMMA StreamCalls ==
    ASSUME NEW calls, NEW cbs, NEW m, NEW i, NEW cb
    PROVE  /\ Stream!Dispatch(calls, cbs, m) = Dispatch(calls, cbs, m)
           /\ Stream!WithCallback(cbs, i, cb) = WithCallback(cbs, i, cb)
           /\ Stream!WithoutCallback(cbs, i) = WithoutCallback(cbs, i)
  BY DEF Stream!Dispatch, Dispatch, Stream!WithCallback, WithCallback,
         Stream!WithoutCallback, WithoutCallback

LEMMA StreamInit == Init => Stream!Init
  BY DEF Init, Stream!Init

LEMMA StreamNext ==
    ASSUME IInv, SubscriberStep \/ UNCHANGED vars
    PROVE  [pc' # "raised" => Stream!Next]_(Stream!stream_vars)
  <1>a. TypeOK
    BY DEF IInv, SubscriberInv
  <1>1. ASSUME NEW input \in Seq(Byte), Feed(input) PROVE Stream!Next
    <2>1. /\ buffer' \in Seq(Byte) /\ Len(buffer) <= Len(buffer')
          /\ SubSeq(buffer', 1, Len(buffer)) = buffer
      BY <1>a, <1>1, PrefixOfConcat DEF Feed, TypeOK
    <2>2. Stream!Arrive
      BY <1>1, <2>1 DEF Feed, Stream!Arrive
    <2> QED
      BY <2>2 DEF Stream!Next
  <1>2. CASE DecodeChunk
    <2>1. Stream!Frame
      BY <1>2, StreamFraming DEF DecodeChunk, Stream!Frame
    <2> QED
      BY <2>1 DEF Stream!Next
  <1>3. CASE ScanEnd \/ Return \/ UNCHANGED vars
    BY <1>3 DEF ScanEnd, Return, vars, Stream!stream_vars
  <1>4. CASE DecodeRaises \/ UnpackRaises
    BY <1>4 DEF DecodeRaises, UnpackRaises
  <1>5. CASE RunCallback
    <2>1. out' = Dispatch(out, callbacks, Head(msgs))
      BY <1>a, <1>5 DEF RunCallback, TypeOK, Dispatch
    <2>2. Stream!Deliver
      BY <1>5, <2>1, StreamCalls DEF RunCallback, Stream!Deliver
    <2> QED
      BY <2>2 DEF Stream!Next
  <1>6. ASSUME NEW i \in Index, NEW cb \in Callback, Subscribe(i, cb)
        PROVE  Stream!Next
    <2>1. Stream!SetCallback(i, cb)
      BY <1>6, StreamCalls DEF Subscribe, Stream!SetCallback
    <2> QED
      BY <2>1 DEF Stream!Next
  <1>7. ASSUME NEW i \in Index, Unsubscribe(i) PROVE Stream!Next
    <2>1. Stream!RemoveCallback(i)
      BY <1>7, StreamCalls DEF Unsubscribe, Stream!RemoveCallback
    <2> QED
      BY <2>1 DEF Stream!Next
  <1> QED
    BY <1>1, <1>2, <1>3, <1>4, <1>5, <1>6, <1>7 DEF SubscriberStep, FeedStep

\* Until an exception leaves feed(), what a port, a socket or another caller feeds
\* reaches the callbacks as FrameStream promises, and again after it, from the bytes
\* the exception left: every message at most once and in order.
THEOREM PyImplementsFrameStream == AppSpec => RefinesUntilRaised
  <1>1. IInv /\ PortTypeOK /\ [AppNext]_app_vars
        => [pc' # "raised" => Stream!Next]_(Stream!stream_vars)
    BY AppStep, StreamNext
  <1>2. AppInit => Stream!Init
    BY StreamInit DEF AppInit
  <1> QED
    BY <1>1, <1>2, AppIInv, PTL DEF AppSpec, RefinesUntilRaised

-----------------------------------------------------------------------------
(* The port and its reader. *)

\* main() closes a line last, and the serial one after the reader has ended.
ClosedLast ==
    /\ ~opened => mpc = "ended"
    /\ program = "serial" /\ mpc \in {"close", "ended"} => rpc = "ended"

LEMMA ClosedLastNext == ClosedLast /\ [AppNext]_app_vars => ClosedLast'
  <1> SUFFICES ASSUME ClosedLast, [AppNext]_app_vars PROVE ClosedLast'
    OBVIOUS
  <1>1. CASE Reader
    BY <1>1 DEF Reader, ReaderGoesOn, TestStop, Read, NothingWaits, FeedRuns, FeedEnds,
       ReadRaises, ClosedLast, config
  <1>2. CASE Main \/ Interrupt \/ Start
    BY <1>2 DEF Main, SetStop, Join, Close, Interrupt, Start, ClosedLast, config
  <1>3. CASE \/ CallerStep
             \/ \E f \in PeerFrames : PeerSends(f)
             \/ \E i \in Index, cb \in Callback : Setup(i, cb)
             \/ UNCHANGED app_vars
    BY <1>3 DEF CallerStep, PeerSends, Setup, app_vars, ClosedLast, config
  <1> QED
    BY <1>1, <1>2, <1>3 DEF AppNext

\* The serial reader has ended when main() closes the port, whenever the interrupt
\* comes and whatever the reader is doing then.
THEOREM PyClosesAfterReader == AppSpec => []NoReadAfterClose
  <1>1. AppInit => ClosedLast
    BY DEF AppInit, ClosedLast
  <1>2. ClosedLast => NoReadAfterClose
    BY DEF ClosedLast, NoReadAfterClose
  <1> QED
    BY <1>1, <1>2, ClosedLastNext, PTL DEF AppSpec

=============================================================================
