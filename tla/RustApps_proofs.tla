--------------------------- MODULE RustApps_proofs ---------------------------
(***************************************************************************)
(* Proofs about the Rust subscriber inside its programs, for every buffer  *)
(* and read size, every set of packets and every input: its types, what    *)
(* feed() leaves behind, that a wedged buffer stays wedged, that it        *)
(* implements FrameStream, that the programs call back what was sent, and  *)
(* that packets of one length never make feed() panic.                     *)
(***************************************************************************)
EXTENDS RustApps, Framing_proofs

-----------------------------------------------------------------------------
(* Every step of a program is one of the subscriber, or none. *)

SubscriberStep ==
    \/ \E input \in Seq(Byte) : Feed(input) \/ FeedRefused(input)
    \/ FeedStep
    \/ \E i \in Index, cb \in Callback : Subscribe(i, cb)
    \/ \E i \in Index : Unsubscribe(i)

\* The program, where its loop can be, and the line.
AppsTypeOK ==
    /\ program \in {"serial", "bevy", "caller"}
    /\ at \in CASE program = "serial" -> {"setup", "read", "feed", "write", "panicked"}
               [] program = "bevy" -> {"setup", "frame", "panicked"}
               [] OTHER -> {"caller"}
    /\ port \in Seq(Byte) /\ events \in Seq(Seq(Byte)) /\ sent \in Seq(Frames)
    /\ program = "serial" => events = <<>>

LEMMA AppsStep ==
    ASSUME AppsTypeOK, [AppsNext]_apps_vars
    PROVE  AppsTypeOK' /\ (SubscriberStep \/ UNCHANGED vars)
  <1>a. /\ program \in {"serial", "bevy", "caller"}
        /\ port \in Seq(Byte) /\ events \in Seq(Seq(Byte)) /\ sent \in Seq(Frames)
    BY DEF AppsTypeOK
  <1>1. CASE CallerStep
    BY <1>1, RustAssumption DEF CallerStep, Next, SubscriberStep, AppsTypeOK, line_vars
  <1>2. ASSUME NEW f \in PeerFrames, PeerSends(f)
        PROVE  AppsTypeOK' /\ UNCHANGED vars
    <2>1. f \in Frames /\ f \in Seq(Byte) /\ <<Delim>> \in Seq(Byte)
      BY RustAppsAssumption, FrameBytes
    <2>2. port \o f \o <<Delim>> \in Seq(Byte) /\ Append(sent, f) \in Seq(Frames)
      BY <1>a, <2>1, ConcatProperties, AppendProperties
    <2> QED
      BY <1>2, <2>2 DEF PeerSends, AppsTypeOK
  <1>3. ASSUME NEW i \in Index, NEW cb \in Callback, Setup(i, cb)
        PROVE  AppsTypeOK' /\ SubscriberStep
    BY <1>3 DEF Setup, SubscriberStep, AppsTypeOK, line_vars
  <1>4. CASE Start
    BY <1>4 DEF Start, AppsTypeOK, line_vars
  <1>5. CASE FeedRuns
    BY <1>5 DEF FeedRuns, SubscriberStep, AppsTypeOK, line_vars
  <1>6. ASSUME NEW n \in 1 .. ReadMax, Read(n)
        PROVE  AppsTypeOK' /\ SubscriberStep
    <2>1. n \in 0 .. Len(port)
      BY <1>a, <1>6, RustAppsAssumption DEF Read
    <2>2. /\ SubSeq(port, 1, n) \in Seq(Byte)
          /\ SubSeq(port, n + 1, Len(port)) \in Seq(Byte)
      BY <1>a, <2>1, CutInTwo
    <2> QED
      BY <1>6, <2>2 DEF Read, SubscriberStep, AppsTypeOK
  <1>7. CASE ReadUnwrapPanics \/ NothingToRead \/ FeedReturns \/ Write
    BY <1>7 DEF ReadUnwrapPanics, NothingToRead, FeedReturns, Write, AppsTypeOK, line_vars
  <1>8. CASE ReadSerial
    <2>1. Head(events) \in Seq(Byte) /\ Tail(events) \in Seq(Seq(Byte))
      BY <1>a, <1>8, HeadTailProperties DEF ReadSerial
    <2> QED
      BY <1>8, <2>1 DEF ReadSerial, SubscriberStep, AppsTypeOK
  <1>9. CASE ReadPanics
    BY <1>9 DEF ReadPanics, AppsTypeOK, line_vars
  <1>10. ASSUME NEW n \in 1 .. ReadMax, Received(n)
         PROVE  AppsTypeOK' /\ UNCHANGED vars
    <2>1. n \in 0 .. Len(port)
      BY <1>a, <1>10, RustAppsAssumption DEF Received
    <2>2. /\ SubSeq(port, 1, n) \in Seq(Byte)
          /\ SubSeq(port, n + 1, Len(port)) \in Seq(Byte)
      BY <1>a, <2>1, CutInTwo
    <2>3. Append(events, SubSeq(port, 1, n)) \in Seq(Seq(Byte))
      BY <1>a, <2>2, AppendProperties
    <2> QED
      BY <1>10, <2>2, <2>3 DEF Received, AppsTypeOK
  <1>11. CASE UNCHANGED apps_vars
    BY <1>11 DEF apps_vars, line_vars, AppsTypeOK
  <1> QED
    BY <1>1, <1>2, <1>3, <1>4, <1>5, <1>6, <1>7, <1>8, <1>9, <1>10, <1>11
       DEF AppsNext, Running, Loop, Frame

-----------------------------------------------------------------------------
(* Type correctness. *)

\* What is left to scan is a string of bytes.
LEMMA RestType ==
    ASSUME TypeOK
    PROVE  rest \in Seq(Byte) /\ Len(rest) = Len(data) - pos
  BY SuffixProperties DEF TypeOK, rest

LEMMA TypeInit == Init => TypeOK
  <1> SUFFICES ASSUME Init PROVE TypeOK
    OBVIOUS
  <1>1. refused \in BOOLEAN /\ pc = "idle" /\ msg = None
    BY DEF Init
  <1>2. /\ callbacks \in [DOMAIN callbacks -> Callback]
        /\ DOMAIN callbacks \subseteq Index
    BY DEF Init
  <1>3. /\ data \in Seq(Byte) /\ Len(data) <= N /\ pos \in 0 .. Len(data)
        /\ pos = 0 /\ out \in Seq(Call) /\ feeds \in Nat
    BY RustAssumption DEF Init
  <1> QED
    BY <1>1, <1>2, <1>3 DEF TypeOK

LEMMA TypeNext ==
    ASSUME TypeOK, SubscriberStep \/ UNCHANGED vars
    PROVE  TypeOK'
  <1>0. N \in Nat /\ Inputs \subseteq Seq(Byte) /\ None \notin Message
    BY RustAssumption DEF None, Message
  <1>1. ASSUME NEW input \in Seq(Byte), Feed(input) PROVE TypeOK'
    <2>1. data \o input \in Seq(Byte)
          /\ Len(data \o input) = Len(data) + Len(input)
      BY <1>0 DEF TypeOK
    <2> QED
      BY <1>1, <2>1 DEF Feed, TypeOK
  <1>2. ASSUME NEW input \in Seq(Byte), FeedRefused(input) PROVE TypeOK'
    BY <1>2 DEF FeedRefused, TypeOK
  <1>3. CASE ScanEnd
    BY <1>3 DEF ScanEnd, TypeOK
  <1>4. CASE Decode
    <2>1. FirstDelim(rest) \in 1 .. Len(rest)
      BY <1>4, RestType, FirstDelimProperties DEF Decode
    <2>2. decoded[FirstChunk(rest)] \in Message
      BY <1>4, FramingAssumption DEF Decode, Decodes
    <2> QED
      BY <1>4, <2>1, <2>2, RestType DEF Decode, TypeOK
  <1>5. CASE DecodePanics
    BY <1>5 DEF DecodePanics, TypeOK
  <1>6. CASE RunCallback
    BY <1>6, DispatchType DEF RunCallback, TypeOK
  <1>7. CASE Compact
    <2>1. rest \in Seq(Byte) /\ Len(rest) = Len(data) - pos
      BY RestType
    <2>2. Len(data) \in Nat /\ Len(data) <= N /\ pos \in 0 .. Len(data)
      BY DEF TypeOK
    <2>3. Len(rest) <= N /\ 0 \in 0 .. Len(rest)
      BY <1>0, <2>1, <2>2
    <2>4. data' = rest /\ pos' = 0 /\ pc' = "idle"
      BY <1>7 DEF Compact
    <2> QED
      BY <1>7, <2>1, <2>3, <2>4 DEF Compact, TypeOK
  <1>8. CASE CompactPanics
    BY <1>8 DEF CompactPanics, TypeOK
  <1>9. ASSUME NEW i \in Index, NEW cb \in Callback, Subscribe(i, cb)
        PROVE  TypeOK'
    BY <1>9, CallbacksType DEF Subscribe, TypeOK
  <1>10. ASSUME NEW i \in Index, Unsubscribe(i) PROVE TypeOK'
    BY <1>10 DEF Unsubscribe, TypeOK, WithoutCallback
  <1>11. CASE UNCHANGED vars
    BY <1>11 DEF vars, TypeOK
  <1> QED
    BY <1>1, <1>2, <1>3, <1>4, <1>5, <1>6, <1>7, <1>8, <1>9, <1>10, <1>11
       DEF SubscriberStep, FeedStep

LEMMA AppsTypes == AppsSpec => []AppsTypeOK
  <1>1. AppsInit => AppsTypeOK
    <2> SUFFICES ASSUME AppsInit PROVE AppsTypeOK
      OBVIOUS
    <2>1. port \in Seq(Byte) /\ events \in Seq(Seq(Byte)) /\ sent \in Seq(Frames)
      BY DEF AppsInit
    <2> QED
      BY <2>1 DEF AppsInit, AppsTypeOK
  <1>2. AppsTypeOK /\ [AppsNext]_apps_vars => AppsTypeOK'
    BY AppsStep
  <1> QED
    BY <1>1, <1>2, PTL DEF AppsSpec

\* In a program and under any caller, for any buffer size and any input, the
\* buffer holds at most N bytes and the scan stays inside it.
THEOREM RustTypeCorrect == AppsSpec => []TypeOK
  <1>1. AppsInit => TypeOK
    BY TypeInit DEF AppsInit
  <1>2. TypeOK /\ AppsTypeOK /\ [AppsNext]_apps_vars => TypeOK'
    BY AppsStep, TypeNext
  <1> QED
    BY <1>1, <1>2, AppsTypes, PTL DEF AppsSpec

-----------------------------------------------------------------------------
(* What feed() leaves behind. *)

\* The loop ends with no delimiter ahead or with one right ahead.
ScanDone == pc = "compact" /\ HasDelim(rest) => FirstDelim(rest) = 1

DrainInv == ScanDone /\ (pc = "idle" /\ HasDelim(data) => FirstDelim(data) = 1)

LEMMA DrainNext ==
    ASSUME TypeOK, DrainInv, SubscriberStep \/ UNCHANGED vars
    PROVE  DrainInv'
  <1>1. CASE Compact
    BY <1>1 DEF Compact, DrainInv, ScanDone
  <1>2. CASE ScanEnd
    BY <1>2 DEF ScanEnd, DrainInv, ScanDone, rest
  <1>3. CASE Decode \/ DecodePanics \/ RunCallback \/ CompactPanics
    BY <1>3 DEF Decode, DecodePanics, RunCallback, CompactPanics, DrainInv,
       ScanDone
  <1>4. CASE \E input \in Seq(Byte) : Feed(input) \/ FeedRefused(input)
    BY <1>4 DEF Feed, FeedRefused, DrainInv, ScanDone
  <1>5. CASE \/ \E i \in Index, cb \in Callback : Subscribe(i, cb)
             \/ \E i \in Index : Unsubscribe(i)
    BY <1>5 DEF Subscribe, Unsubscribe, DrainInv, ScanDone
  <1>6. CASE UNCHANGED vars
    BY <1>6 DEF vars, DrainInv, ScanDone, rest
  <1> QED
    BY <1>1, <1>2, <1>3, <1>4, <1>5, <1>6 DEF SubscriberStep, FeedStep

\* When feed() returns, no complete packet is left in the buffer, unless a
\* delimiter stands at its front.
THEOREM RustDrained == AppsSpec => []DrainedAtReturn
  <1>1. AppsInit => DrainInv
    BY DEF AppsInit, Init, DrainInv, ScanDone, HasDelim
  <1>2. TypeOK /\ DrainInv => DrainedAtReturn
    <2> SUFFICES ASSUME TypeOK, DrainInv, pc = "idle", HasDelim(data)
                 PROVE  Wedged
      BY DEF DrainedAtReturn
    <2>1. /\ FirstDelim(data) \in 1 .. Len(data)
          /\ data[FirstDelim(data)] = Delim /\ FirstDelim(data) = 1
      BY FirstDelimProperties DEF DrainInv, TypeOK
    <2> QED
      BY <2>1 DEF Wedged, TypeOK
  <1>3. TypeOK /\ AppsTypeOK /\ DrainInv /\ [AppsNext]_apps_vars => DrainInv'
    BY AppsStep, DrainNext
  <1> QED
    BY <1>1, <1>2, <1>3, AppsTypes, RustTypeCorrect, PTL DEF AppsSpec

-----------------------------------------------------------------------------
(* A wedged buffer stays wedged. *)

\* A delimiter at the front of the buffer is the first one of the rest.
LEMMA WedgedRest ==
    ASSUME TypeOK, Wedged
    PROVE  rest = data /\ HasDelim(rest) /\ FirstDelim(rest) = 1
  <1>1. rest = data
    BY SubSeqFull DEF Wedged, TypeOK, rest
  <1>2. Len(data) >= 1 /\ data[1] = Delim /\ data \in Seq(Byte)
    BY EmptySeq DEF Wedged, TypeOK
  <1>3. HasDelim(data)
    BY <1>2 DEF HasDelim
  <1>4. /\ FirstDelim(data) \in 1 .. Len(data)
        /\ \A j \in 1 .. FirstDelim(data) - 1 : data[j] # Delim
    BY <1>2, <1>3, FirstDelimProperties
  <1>5. FirstDelim(data) = 1
    BY <1>2, <1>4
  <1> QED
    BY <1>1, <1>3, <1>5

\* The comment in the source says the delimiter is skipped; the code leaves it
\* where it is, and from then on nothing is ever delivered.
THEOREM RustWedged == AppsSpec => WedgedForGood
  <1>1. ASSUME TypeOK, SubscriberStep \/ UNCHANGED vars, Wedged
        PROVE  Wedged' /\ out' = out
    <2>0. rest = data /\ HasDelim(rest) /\ FirstDelim(rest) = 1
      BY <1>1, WedgedRest
    <2>1. ASSUME NEW input \in Seq(Byte), Feed(input) PROVE Wedged' /\ out' = out
      <3>1. data \in Seq(Byte) /\ input \in Seq(Byte) /\ Len(data) >= 1
        BY <1>1, EmptySeq, RustAssumption DEF Wedged, TypeOK
      <3>2. Len(data \o input) >= 1 /\ (data \o input)[1] = data[1]
        BY <3>1
      <3>3. data \o input # <<>>
        BY <3>1, <3>2
      <3> QED
        BY <1>1, <2>1, <3>2, <3>3 DEF Feed, Wedged
    <2>2. CASE ScanEnd \/ Compact \/ UNCHANGED vars
      BY <1>1, <2>0, <2>2 DEF ScanEnd, Compact, Wedged, vars
    <2>3. CASE Decode \/ DecodePanics \/ RunCallback \/ CompactPanics
      BY <1>1, <2>0, <2>3
         DEF Decode, DecodePanics, RunCallback, CompactPanics, Wedged
    <2>4. CASE \/ \E input \in Seq(Byte) : FeedRefused(input)
               \/ \E i \in Index, cb \in Callback : Subscribe(i, cb)
               \/ \E i \in Index : Unsubscribe(i)
      BY <1>1, <2>4 DEF FeedRefused, Subscribe, Unsubscribe, Wedged
    <2> QED
      BY <1>1, <2>1, <2>2, <2>3, <2>4 DEF SubscriberStep, FeedStep
  <1>2. TypeOK /\ AppsTypeOK /\ [AppsNext]_apps_vars
        => [Wedged => Wedged' /\ out' = out]_vars
    BY <1>1, AppsStep
  <1> QED
    BY <1>2, AppsTypes, RustTypeCorrect, PTL DEF AppsSpec, WedgedForGood

-----------------------------------------------------------------------------
(* RustSubscriber implements FrameStream. *)

\* The queue of FrameStream: the message in hand, between the decoding and the
\* call.
Hand == IF pc = "call" THEN <<msg>> ELSE <<>>

\* A step that leaves what is to scan, the message in hand, the callbacks and
\* the calls alone is a stutter.
LEMMA StreamStutter ==
    ASSUME UNCHANGED <<rest, Hand, callbacks, out>>
    PROVE  UNCHANGED Stream!stream_vars
  BY DEF Stream!stream_vars, Hand

\* The operators the two modules share are the same through the instance.
LEMMA StreamFraming ==
    ASSUME NEW s
    PROVE  /\ Stream!HasDelim(s) = HasDelim(s)
           /\ Stream!FirstDelim(s) = FirstDelim(s)
           /\ Stream!FirstChunk(s) = FirstChunk(s)
           /\ Stream!AfterChunk(s) = AfterChunk(s)
           /\ Stream!Decodes(s) = Decodes(s)
  <1>1. Stream!FirstDelim(s) = FirstDelim(s)
    BY DEF Stream!FirstDelim, FirstDelim
  <1>2. Stream!HasDelim(s) = HasDelim(s)
    BY DEF Stream!HasDelim, HasDelim
  <1>3. Stream!FirstChunk(s) = FirstChunk(s) /\ Stream!AfterChunk(s) = AfterChunk(s)
    BY <1>1 DEF Stream!FirstChunk, FirstChunk, Stream!AfterChunk, AfterChunk
  <1>4. Stream!Decodes(s) = Decodes(s)
    BY DEF Stream!Decodes, Decodes
  <1> QED
    BY <1>1, <1>2, <1>3, <1>4

LEMMA StreamCalls ==
    ASSUME NEW calls, NEW cbs, NEW m, NEW i, NEW cb
    PROVE  /\ Stream!Dispatch(calls, cbs, m) = Dispatch(calls, cbs, m)
           /\ Stream!WithCallback(cbs, i, cb) = WithCallback(cbs, i, cb)
           /\ Stream!WithoutCallback(cbs, i) = WithoutCallback(cbs, i)
  BY DEF Stream!Dispatch, Dispatch, Stream!WithCallback, WithCallback,
         Stream!WithoutCallback, WithoutCallback

LEMMA StreamInit == Init => Stream!Init
  BY DEF Init, Stream!Init, rest

LEMMA StreamNext ==
    ASSUME TypeOK, TypeOK', SubscriberStep \/ UNCHANGED vars
    PROVE  [Stream!Next]_(Stream!stream_vars)
  <1>0. rest \in Seq(Byte) /\ rest' \in Seq(Byte)
    <2>1. rest \in Seq(Byte)
      BY RestType
    <2>2. data' \in Seq(Byte) /\ pos' \in 0 .. Len(data')
      BY DEF TypeOK
    <2>3. SubSeq(data', pos' + 1, Len(data')) \in Seq(Byte)
      BY <2>2, SuffixProperties
    <2> QED
      BY <2>1, <2>3 DEF rest
  <1>1. ASSUME NEW input \in Seq(Byte), Feed(input) PROVE Stream!Next
    <2>1. /\ pos = 0 /\ pos' = 0 /\ data' = data \o input
          /\ data \in Seq(Byte) /\ input \in Seq(Byte)
      BY <1>1, RustAssumption DEF Feed, TypeOK
    <2>2. rest = data /\ rest' = data \o input
      <3>1. data \o input \in Seq(Byte)
        BY <2>1
      <3> QED
        BY <2>1, <3>1, SubSeqFull DEF rest
    <2>3. /\ Len(data) <= Len(data \o input)
          /\ SubSeq(data \o input, 1, Len(data)) = data
      <3> DEFINE t == data \o input
      <3>1. /\ t \in Seq(Byte) /\ Len(t) = Len(data) + Len(input)
            /\ Len(data) \in Nat /\ Len(input) \in Nat
            /\ \A i \in 1 .. Len(data) : t[i] = data[i] /\ t[i] \in Byte
        BY <2>1
      <3> HIDE DEF t
      <3>2. /\ SubSeq(t, 1, Len(data)) \in Seq(Byte)
            /\ Len(SubSeq(t, 1, Len(data))) = Len(data)
            /\ \A i \in 1 .. Len(data) : SubSeq(t, 1, Len(data))[i] = t[i]
        BY <3>1, SubSeqProperties
      <3>3. SubSeq(t, 1, Len(data)) = data
        BY <2>1, <3>1, <3>2, SeqEqual
      <3> QED
        BY <3>1, <3>3 DEF t
    <2>4. Stream!Arrive
      BY <1>1, <1>0, <2>2, <2>3 DEF Feed, Stream!Arrive
    <2> QED
      BY <2>4 DEF Stream!Next
  <1>2. ASSUME NEW input \in Seq(Byte), FeedRefused(input)
        PROVE  UNCHANGED Stream!stream_vars
    BY <1>2, StreamStutter DEF FeedRefused, Hand, rest
  <1>3. CASE ScanEnd \/ DecodePanics \/ CompactPanics
    BY <1>3, StreamStutter DEF ScanEnd, DecodePanics, CompactPanics, Hand, rest
  <1>4. CASE Decode
    <2> DEFINE d == FirstDelim(rest)
    <2>1. /\ data \in Seq(Byte) /\ pos \in 0 .. Len(data)
          /\ HasDelim(SubSeq(data, pos + 1, Len(data)))
      BY <1>4 DEF Decode, TypeOK, rest
    <2>2. AfterChunk(rest) = SubSeq(data, pos + d + 1, Len(data))
      BY <2>1, AfterChunkOfSuffix DEF rest
    <2>3. rest' = AfterChunk(rest)
      BY <1>4, <2>2 DEF Decode, rest
    <2>4. /\ Stream!HasDelim(rest)
          /\ Stream!Decodes(Stream!FirstChunk(rest))
          /\ Stream!FirstChunk(rest) = FirstChunk(rest)
          /\ Stream!AfterChunk(rest) = AfterChunk(rest)
      BY <1>4, StreamFraming DEF Decode
    <2>5. /\ pc = "scan" /\ pc' = "call"
          /\ msg' = decoded[FirstChunk(rest)]
          /\ UNCHANGED <<callbacks, out>>
      BY <1>4 DEF Decode
    <2>6. Append(<<>>, msg') = <<msg'>>
      OBVIOUS
    <2>7. Stream!Frame
      BY <2>3, <2>4, <2>5, <2>6 DEF Stream!Frame
    <2> QED
      BY <2>7 DEF Stream!Next
  <1>5. CASE RunCallback
    <2>1. /\ pc = "call" /\ pc' = "scan"
          /\ out' = Stream!Dispatch(out, callbacks, msg)
          /\ UNCHANGED <<rest, callbacks>>
      BY <1>5, StreamCalls DEF RunCallback, rest
    <2>2. <<msg>> # <<>> /\ Tail(<<msg>>) = <<>> /\ Head(<<msg>>) = msg
      OBVIOUS
    <2>3. Stream!Deliver
      BY <2>1, <2>2 DEF Stream!Deliver
    <2> QED
      BY <2>3 DEF Stream!Next
  <1>6. CASE Compact
    <2>1. rest' = rest
      <3>1. data' = rest /\ pos' = 0
        BY <1>6 DEF Compact
      <3>2. SubSeq(data', 0 + 1, Len(data')) = data'
        BY <1>0, <3>1, SubSeqFull
      <3>3. rest' = SubSeq(data', pos' + 1, Len(data'))
        BY DEF rest
      <3> QED
        BY <3>1, <3>2, <3>3
    <2> QED
      BY <1>6, <2>1, StreamStutter DEF Compact, Hand
  <1>7. ASSUME NEW i \in Index, NEW cb \in Callback, Subscribe(i, cb)
        PROVE  Stream!Next
    <2>1. Stream!SetCallback(i, cb)
      BY <1>7, StreamCalls DEF Subscribe, rest, Stream!SetCallback
    <2> QED
      BY <2>1 DEF Stream!Next
  <1>8. ASSUME NEW i \in Index, Unsubscribe(i) PROVE Stream!Next
    <2>1. Stream!RemoveCallback(i)
      BY <1>8, StreamCalls DEF Unsubscribe, rest, Stream!RemoveCallback
    <2> QED
      BY <2>1 DEF Stream!Next
  <1>9. CASE UNCHANGED vars
    BY <1>9, StreamStutter DEF vars, Hand, rest
  <1> QED
    BY <1>1, <1>2, <1>3, <1>4, <1>5, <1>6, <1>7, <1>8, <1>9 DEF SubscriberStep, FeedStep

\* Until it panics, and with whatever buffer size, the Rust subscriber delivers
\* what FrameStream promises: every message of the accepted bytes at most once,
\* in order, however the bytes are split over the calls of feed().
THEOREM RustImplementsFrameStream == AppsSpec => RefinesFrameStream
  <1>1. /\ TypeOK /\ TypeOK' /\ AppsTypeOK /\ [AppsNext]_apps_vars
        => [Stream!Next]_(Stream!stream_vars)
    BY AppsStep, StreamNext
  <1>2. AppsInit => Stream!Init
    BY StreamInit DEF AppsInit
  <1> QED
    BY <1>1, <1>2, AppsTypes, RustTypeCorrect, PTL
       DEF AppsSpec, RefinesFrameStream, Stream!Spec

-----------------------------------------------------------------------------
(* The line: what has become events, then what waits in the port. *)

\* tail[k] is what comes after the first k events.
OnLine(evs, p, bytes) ==
    \E tail \in [0 .. Len(evs) -> Seq(Byte)] :
      /\ tail[0] = bytes /\ tail[Len(evs)] = p
      /\ \A k \in 1 .. Len(evs) : tail[k - 1] = evs[k] \o tail[k]

LEMMA OnLineNoEvents ==
    ASSUME NEW p \in Seq(Byte)
    PROVE  \A bytes : OnLine(<<>>, p, bytes) <=> bytes = p
  <1>1. Len(<<>>) = 0 /\ 1 .. 0 = {}
    OBVIOUS
  <1>2. ASSUME NEW bytes, OnLine(<<>>, p, bytes) PROVE bytes = p
    BY <1>1, <1>2 DEF OnLine
  <1>3. OnLine(<<>>, p, p)
    <2> DEFINE tail == [k \in 0 .. 0 |-> p]
    <2>1. tail \in [0 .. 0 -> Seq(Byte)] /\ tail[0] = p
      OBVIOUS
    <2> HIDE DEF tail
    <2> QED
      BY <1>1, <2>1 DEF OnLine
  <1> QED
    BY <1>2, <1>3

\* An event takes bytes from the front of the port ...
LEMMA OnLineReceived ==
    ASSUME NEW evs \in Seq(Seq(Byte)), NEW p \in Seq(Byte), NEW bytes,
           OnLine(evs, p, bytes), NEW n \in 0 .. Len(p)
    PROVE  OnLine(Append(evs, SubSeq(p, 1, n)), SubSeq(p, n + 1, Len(p)), bytes)
  <1> DEFINE x == SubSeq(p, 1, n)
             y == SubSeq(p, n + 1, Len(p))
             evs2 == Append(evs, x)
  <1>1. x \in Seq(Byte) /\ y \in Seq(Byte)
    BY CutInTwo
  <1>2. x \o y = p
    BY CutInTwo
  <1> HIDE DEF x, y
  <1>3. /\ Len(evs) \in Nat /\ Len(evs2) = Len(evs) + 1 /\ evs2[Len(evs) + 1] = x
        /\ \A k \in 1 .. Len(evs) : evs2[k] = evs[k]
    BY <1>1, AppendProperties
  <1> HIDE DEF evs2
  <1>4. PICK tail \in [0 .. Len(evs) -> Seq(Byte)] :
          /\ tail[0] = bytes /\ tail[Len(evs)] = p
          /\ \A k \in 1 .. Len(evs) : tail[k - 1] = evs[k] \o tail[k]
    BY DEF OnLine
  <1> DEFINE tail2 == [k \in 0 .. Len(evs2) |-> IF k = Len(evs2) THEN y ELSE tail[k]]
  <1>5. /\ \A k \in 0 .. Len(evs) : tail2[k] = tail[k]
        /\ tail2[Len(evs) + 1] = y
    <2>1. \A k \in 0 .. Len(evs) : k \in 0 .. Len(evs2) /\ k # Len(evs2)
      BY <1>3
    <2>2. Len(evs2) \in 0 .. Len(evs2)
      BY <1>3
    <2> QED
      BY <1>3, <2>1, <2>2
  <1>6. tail2 \in [0 .. Len(evs2) -> Seq(Byte)]
    <2>1. \A k \in 0 .. Len(evs2) : k # Len(evs2) => k \in 0 .. Len(evs)
      BY <1>3
    <2> QED
      BY <1>1, <1>4, <2>1
  <1> HIDE DEF tail2
  <1>7. tail2[0] = bytes /\ tail2[Len(evs2)] = y
    BY <1>3, <1>4, <1>5
  <1>8. ASSUME NEW k \in 1 .. Len(evs2) PROVE tail2[k - 1] = evs2[k] \o tail2[k]
    <2>1. CASE k \in 1 .. Len(evs)
      <3>1. k - 1 \in 0 .. Len(evs) /\ k \in 0 .. Len(evs)
        BY <1>3, <2>1
      <3> QED
        BY <1>3, <1>4, <1>5, <2>1, <3>1
    <2>2. CASE k = Len(evs) + 1
      <3>1. k - 1 = Len(evs) /\ Len(evs) \in 0 .. Len(evs)
        BY <1>3, <2>2
      <3>2. tail2[k - 1] = p
        BY <1>4, <1>5, <3>1
      <3> QED
        BY <1>2, <1>3, <1>5, <2>2, <3>2
    <2> QED
      BY <1>3, <2>1, <2>2
  <1>9. OnLine(evs2, y, bytes)
    BY <1>6, <1>7, <1>8 DEF OnLine
  <1> QED
    BY <1>9 DEF evs2, x, y

\* ... the peer adds to its end, ...
LEMMA OnLineSent ==
    ASSUME NEW evs \in Seq(Seq(Byte)), NEW p \in Seq(Byte), NEW bytes,
           OnLine(evs, p, bytes), NEW x \in Seq(Byte)
    PROVE  bytes \in Seq(Byte) /\ OnLine(evs, p \o x, bytes \o x)
  <1>1. PICK tail \in [0 .. Len(evs) -> Seq(Byte)] :
          /\ tail[0] = bytes /\ tail[Len(evs)] = p
          /\ \A k \in 1 .. Len(evs) : tail[k - 1] = evs[k] \o tail[k]
    BY DEF OnLine
  <1>2. /\ Len(evs) \in Nat /\ 0 \in 0 .. Len(evs) /\ Len(evs) \in 0 .. Len(evs)
        /\ \A k \in 1 .. Len(evs) : k - 1 \in 0 .. Len(evs) /\ k \in 0 .. Len(evs)
    BY LenProperties
  <1> DEFINE tail2 == [k \in 0 .. Len(evs) |-> tail[k] \o x]
  <1>3. /\ tail2 \in [0 .. Len(evs) -> Seq(Byte)]
        /\ \A k \in 0 .. Len(evs) : tail2[k] = tail[k] \o x
    BY <1>1, ConcatProperties
  <1> HIDE DEF tail2
  <1>4. tail2[0] = bytes \o x /\ tail2[Len(evs)] = p \o x
    BY <1>1, <1>2, <1>3
  <1>5. ASSUME NEW k \in 1 .. Len(evs) PROVE tail2[k - 1] = evs[k] \o tail2[k]
    <2> DEFINE e == evs[k]
               v == tail[k]
    <2>a. e \in Seq(Byte)
      BY ElementOfSeq
    <2>b. v \in Seq(Byte)
      BY <1>1, <1>2
    <2>2. tail2[k - 1] = (e \o v) \o x /\ tail2[k] = v \o x
      BY <1>1, <1>2, <1>3
    <2> HIDE DEF e, v
    <2>3. (e \o v) \o x = e \o (v \o x)
      BY <2>a, <2>b, ByteStrings
    <2>4. tail2[k - 1] = e \o tail2[k]
      BY <2>2, <2>3
    <2> QED
      BY <2>4 DEF e
  <1>6. OnLine(evs, p \o x, bytes \o x)
    BY <1>3, <1>4, <1>5 DEF OnLine
  <1> QED
    BY <1>1, <1>2, <1>6

\* ... and read_serial takes the first event.
LEMMA OnLineRead ==
    ASSUME NEW evs \in Seq(Seq(Byte)), evs # <<>>, NEW p \in Seq(Byte), NEW bytes,
           OnLine(evs, p, bytes)
    PROVE  \E left \in Seq(Byte) : /\ bytes = Head(evs) \o left
                                   /\ OnLine(Tail(evs), p, left)
  <1> DEFINE r == Tail(evs)
  <1>1. PICK tail \in [0 .. Len(evs) -> Seq(Byte)] :
          /\ tail[0] = bytes /\ tail[Len(evs)] = p
          /\ \A k \in 1 .. Len(evs) : tail[k - 1] = evs[k] \o tail[k]
    BY DEF OnLine
  <1>2. /\ Len(evs) \in Nat \ {0} /\ Head(evs) = evs[1] /\ Len(r) = Len(evs) - 1
        /\ \A k \in 1 .. Len(r) : r[k] = evs[k + 1]
    BY HeadTailProperties, EmptySeq
  <1> HIDE DEF r
  <1>3. 1 \in 1 .. Len(evs) /\ 1 \in 0 .. Len(evs) /\ 1 - 1 = 0
    BY <1>2
  <1>4. tail[1] \in Seq(Byte) /\ bytes = Head(evs) \o tail[1]
    BY <1>1, <1>2, <1>3
  <1> DEFINE tail2 == [k \in 0 .. Len(r) |-> tail[k + 1]]
  <1>5. \A k \in 0 .. Len(r) : k + 1 \in 0 .. Len(evs)
    BY <1>2
  <1>6. /\ tail2 \in [0 .. Len(r) -> Seq(Byte)]
        /\ \A k \in 0 .. Len(r) : tail2[k] = tail[k + 1]
    BY <1>1, <1>5
  <1> HIDE DEF tail2
  <1>7. tail2[0] = tail[1] /\ tail2[Len(r)] = p
    <2>1. 0 \in 0 .. Len(r) /\ Len(r) \in 0 .. Len(r) /\ Len(r) + 1 = Len(evs) /\ 0 + 1 = 1
      BY <1>2
    <2> QED
      BY <1>1, <1>6, <2>1
  <1>8. ASSUME NEW k \in 1 .. Len(r) PROVE tail2[k - 1] = r[k] \o tail2[k]
    <2>1. /\ k - 1 \in 0 .. Len(r) /\ k \in 0 .. Len(r) /\ k + 1 \in 1 .. Len(evs)
          /\ (k - 1) + 1 = k /\ (k + 1) - 1 = k
      BY <1>2
    <2>2. tail[(k + 1) - 1] = evs[k + 1] \o tail[k + 1]
      BY <1>1, <2>1
    <2> QED
      BY <1>2, <1>6, <2>1, <2>2
  <1>9. OnLine(r, p, tail[1])
    BY <1>6, <1>7, <1>8 DEF OnLine
  <1> QED
    BY <1>4, <1>9 DEF r

-----------------------------------------------------------------------------
(* What the peer has sent. *)

\* j packets are framed, the last of them perhaps still in hand; what is left of the
\* buffer and what is on the line carry the others; and what the last one took of the
\* buffer still lies in front of the scan.
Progress(j) ==
    /\ IF pc = "call" THEN /\ j # 0 /\ msg = decoded[sent[j]]
                          /\ out = CallsAfter(callbacks, sent)[j - 1]
                     ELSE out = CallsAfter(callbacks, sent)[j]
    /\ \E bytes \in Seq(Byte) : /\ OnLine(events, port, bytes)
                               /\ Carries(rest \o bytes, sent, j)
    /\ pos = 0 \/ (j # 0 /\ pos >= Len(sent[j]) + 1)
    /\ at = "setup" => j = 0

\* Whole packets never make the decoding panic; while they are of one length, nor does
\* the copying.
ProgramInv ==
    program # "caller" =>
      /\ at = "setup" => out = <<>>
      /\ ~refused =>
           /\ \E j \in 0 .. Len(sent) : Progress(j)
           /\ pc # "panic_decode"
           /\ OneLength => pc # "panic_compact"

LEMMA ProgramInvInit == AppsInit => ProgramInv
  <1> SUFFICES ASSUME AppsInit PROVE ProgramInv
    OBVIOUS
  <1>1. /\ sent = <<>> /\ out = <<>> /\ data = <<>> /\ pos = 0 /\ pc = "idle"
        /\ events = <<>> /\ port = <<>>
    BY DEF AppsInit, Init
  <1>2. <<>> \o <<>> = <<>> /\ Len(<<>>) = 0 /\ SubSeq(<<>>, 0 + 1, 0) = <<>>
    OBVIOUS
  <1>3. rest = <<>>
    BY <1>1, <1>2 DEF rest
  <1>4. out = CallsAfter(callbacks, sent)[0]
    BY <1>1, <1>2, CallsAfterEquation
  <1>5. <<>> \in Seq(Byte) /\ OnLine(events, port, <<>>)
    BY <1>1, EmptySeq, OnLineNoEvents
  <1>6. Progress(0)
    BY <1>1, <1>2, <1>3, <1>4, <1>5, CarriesNothing DEF Progress
  <1>7. 0 \in 0 .. Len(sent)
    BY <1>1, <1>2
  <1> QED
    BY <1>1, <1>6, <1>7 DEF ProgramInv

\* Accepted input moves from the line into the buffer.
LEMMA ProgressFed ==
    ASSUME TypeOK, NEW j, Progress(j), NEW input \in Seq(Byte), NEW left \in Seq(Byte),
           Feed(input), OnLine(events', port', left),
           \A bytes \in Seq(Byte) : OnLine(events, port, bytes)
             => Carries((rest \o input) \o left, sent, j),
           sent' = sent, at' # "setup"
    PROVE  Progress(j)'
  <1>1. /\ pc = "idle" /\ pc' = "scan" /\ pos = 0 /\ pos' = 0 /\ data' = data \o input
        /\ UNCHANGED <<callbacks, out>> /\ data \in Seq(Byte)
    BY DEF Feed, TypeOK
  <1>2. rest = data
    BY <1>1, SubSeqFull DEF rest
  <1>3. rest' = rest \o input
    <2>1. data \o input \in Seq(Byte)
      BY <1>1
    <2>2. SubSeq(data \o input, 0 + 1, Len(data \o input)) = data \o input
      BY <2>1, SubSeqFull
    <2> QED
      BY <1>1, <1>2, <2>2 DEF rest
  <1>4. Carries(rest' \o left, sent', j)
    BY <1>3 DEF Progress
  <1>5. out' = CallsAfter(callbacks', sent')[j]
    BY <1>1 DEF Progress
  <1> QED
    BY <1>1, <1>4, <1>5 DEF Progress

\* What feed() does with what it has taken.
LEMMA ProgramFeedStep ==
    ASSUME TypeOK, TypeOK', ScanDone, AppsTypeOK, ProgramInv, FeedStep,
           at # "setup", program # "caller",
           UNCHANGED <<program, at, events, port, sent>>
    PROVE  ProgramInv'
  <1> SUFFICES ASSUME ~refused' PROVE ProgramInv'
    BY DEF ProgramInv
  <1>a. ~refused
    BY DEF FeedStep, ScanEnd, Decode, DecodePanics, RunCallback, Compact, CompactPanics
  <1>r. ASSUME NEW j \in 0 .. Len(sent), Progress(j)',
               pc' # "panic_decode", OneLength => pc' # "panic_compact"
        PROVE  ProgramInv'
    BY <1>r DEF ProgramInv, OneLength
  <1>b. /\ sent \in Seq(Frames) /\ Len(sent) \in Nat /\ data \in Seq(Byte)
        /\ pos \in 0 .. Len(data) /\ rest \in Seq(Byte) /\ Len(rest) = Len(data) - pos
        /\ UNCHANGED <<events, port, sent>>
    BY RestType DEF AppsTypeOK, TypeOK
  <1>c. PICK j \in 0 .. Len(sent) : Progress(j)
    BY <1>a DEF ProgramInv
  <1>d. PICK bytes \in Seq(Byte) : /\ OnLine(events, port, bytes)
                                  /\ Carries(rest \o bytes, sent, j)
    BY <1>c DEF Progress
  <1>e. /\ IF pc = "call" THEN /\ j # 0 /\ msg = decoded[sent[j]]
                              /\ out = CallsAfter(callbacks, sent)[j - 1]
                         ELSE out = CallsAfter(callbacks, sent)[j]
        /\ pos = 0 \/ (j # 0 /\ pos >= Len(sent[j]) + 1)
    BY <1>c DEF Progress
  <1>f. ASSUME HasDelim(rest)
        PROVE  /\ j + 1 \in 1 .. Len(sent) /\ sent[j + 1] \in Frames
               /\ FirstChunk(rest) = sent[j + 1]
               /\ FirstDelim(rest) = Len(sent[j + 1]) + 1
               /\ Len(sent[j + 1]) \in Nat \ {0}
               /\ Carries(AfterChunk(rest) \o bytes, sent, j + 1)
    BY <1>b, <1>d, <1>f, CarriesChunk, FrameBytes
  <1>1. CASE ScanEnd
    <2>1. Progress(j)'
      <3>1. pc = "scan" /\ pc' = "compact" /\ UNCHANGED <<data, pos, callbacks, out>>
        BY <1>1 DEF ScanEnd
      <3> QED
        BY <1>b, <1>d, <1>e, <3>1 DEF Progress, rest
    <2> QED
      BY <1>1, <1>r, <2>1 DEF ScanEnd
  <1>2. CASE Decode
    <2>1. /\ HasDelim(rest) /\ pc = "scan" /\ pc' = "call"
          /\ msg' = decoded[FirstChunk(rest)] /\ pos' = pos + FirstDelim(rest)
          /\ UNCHANGED <<data, callbacks, out>>
      BY <1>2 DEF Decode
    <2>2. rest' = AfterChunk(rest)
      <3>1. AfterChunk(rest) = SubSeq(data, pos + FirstDelim(rest) + 1, Len(data))
        BY <1>b, <2>1, AfterChunkOfSuffix DEF rest
      <3> QED
        BY <2>1, <3>1 DEF rest
    <2>3. pos' # 0 /\ pos' >= Len(sent[j + 1]) + 1
      BY <1>b, <1>f, <2>1
    <2>4. (j + 1) - 1 = j /\ j + 1 # 0 /\ j + 1 \in 0 .. Len(sent)
      BY <1>b, <1>f, <2>1
    <2>5. Progress(j + 1)'
      BY <1>b, <1>d, <1>e, <1>f, <2>1, <2>2, <2>3, <2>4 DEF Progress
    <2> QED
      BY <1>r, <2>1, <2>4, <2>5
  <1>3. CASE DecodePanics
    BY <1>3, <1>f DEF DecodePanics, Decodes
  <1>4. CASE RunCallback
    <2>1. /\ pc = "call" /\ pc' = "scan" /\ out' = Dispatch(out, callbacks, msg)
          /\ UNCHANGED <<data, pos, callbacks>>
      BY <1>4 DEF RunCallback
    <2>2. j \in 1 .. Len(sent)
      BY <1>b, <1>e, <2>1
    <2>3. out' = CallsAfter(callbacks, sent)[j]
      BY <1>b, <1>e, <2>1, <2>2, CallsAfterEquation
    <2>4. Progress(j)'
      BY <1>b, <1>d, <1>e, <2>1, <2>3 DEF Progress, rest
    <2> QED
      BY <1>r, <2>1, <2>4
  <1>5. CASE Compact
    <2>1. /\ pc = "compact" /\ pc' = "idle" /\ data' = rest /\ pos' = 0
          /\ UNCHANGED <<callbacks, out>>
      BY <1>5 DEF Compact
    <2>2. rest' = rest
      <3>1. SubSeq(data', 0 + 1, Len(data')) = data'
        BY <1>b, <2>1, SubSeqFull
      <3>2. rest' = SubSeq(data', pos' + 1, Len(data'))
        BY DEF rest
      <3> QED
        BY <2>1, <3>1, <3>2
    <2>3. Progress(j)'
      BY <1>b, <1>d, <1>e, <2>1, <2>2 DEF Progress
    <2> QED
      BY <1>r, <2>1, <2>3
  <1>6. CASE CompactPanics
    <2>1. /\ pc = "compact" /\ pc' = "panic_compact" /\ pos > 0 /\ Len(rest) > pos
          /\ UNCHANGED <<data, pos, callbacks, out>>
      BY <1>b, <1>6 DEF CompactPanics
    <2>2. Progress(j)'
      BY <1>b, <1>d, <1>e, <2>1 DEF Progress, rest
    <2>3. ASSUME OneLength PROVE FALSE
      <3>1. ~HasDelim(rest)
        BY <1>f, <2>1 DEF ScanDone
      <3>2. rest # <<>>
        BY <1>b, <2>1
      <3>3. j + 1 \in 1 .. Len(sent) /\ Len(rest) <= Len(sent[j + 1])
        BY <1>b, <1>d, <3>1, <3>2, CarriesPart
      <3>4. j \in 1 .. Len(sent) /\ pos >= Len(sent[j]) + 1
        BY <1>b, <1>e, <2>1
      <3>5. Len(sent[j]) = Len(sent[j + 1]) /\ Len(sent[j]) \in Nat
        <4>1. DOMAIN sent = 1 .. Len(sent) /\ sent[j] \in Frames
          BY <1>b, <3>4, ElementOfSeq
        <4> QED
          BY <2>3, <3>3, <3>4, <4>1, FrameBytes DEF OneLength
      <3> QED
        BY <1>b, <2>1, <3>3, <3>4, <3>5
    <2> QED
      BY <1>r, <2>1, <2>2, <2>3
  <1> QED
    BY <1>1, <1>2, <1>3, <1>4, <1>5, <1>6 DEF FeedStep

LEMMA ProgramInvNext ==
    ASSUME TypeOK, TypeOK', ScanDone, AppsTypeOK, ProgramInv, [AppsNext]_apps_vars
    PROVE  ProgramInv'
  <1>a. /\ program' = program /\ (program = "caller" <=> at = "caller")
        /\ program \in {"serial", "bevy", "caller"}
    BY DEF AppsTypeOK, AppsNext, CallerStep, PeerSends, Running, Setup, Start, FeedRuns,
       Loop, Read, ReadUnwrapPanics, NothingToRead, FeedReturns, Write, Frame, ReadSerial,
       ReadPanics, Received, apps_vars
  <1> SUFFICES ASSUME program # "caller" PROVE ProgramInv'
    BY <1>a DEF ProgramInv
  <1>b. /\ port \in Seq(Byte) /\ events \in Seq(Seq(Byte)) /\ sent \in Seq(Frames)
        /\ Len(sent) \in Nat /\ rest \in Seq(Byte) /\ data \in Seq(Byte)
    BY RestType DEF AppsTypeOK, TypeOK
  <1>c. at = "setup" => out = <<>>
    BY DEF ProgramInv
  <1>d. ASSUME ~refused
        PROVE  /\ \E j \in 0 .. Len(sent) : Progress(j)
               /\ pc # "panic_decode" /\ (OneLength => pc # "panic_compact")
    BY <1>d DEF ProgramInv
  \* The subscriber stands still, and so does what it is about to get.
  <1>q. ASSUME UNCHANGED <<vars, events, port, sent>>, at' = "setup" => at = "setup"
        PROVE  ProgramInv'
    <2>1. \A j : Progress(j) => Progress(j)'
      BY <1>q DEF vars, Progress, rest
    <2>2. UNCHANGED <<out, pc, refused, sent>>
      BY <1>q DEF vars
    <2>3. OneLength' <=> OneLength
      BY <2>2 DEF OneLength
    <2> QED
      BY <1>c, <1>d, <1>q, <2>1, <2>2, <2>3 DEF ProgramInv
  \* The subscriber has taken some input, or refused it.
  <1>m. ASSUME NEW input \in Seq(Byte), Feed(input) \/ FeedRefused(input),
               at' # "setup", sent' = sent,
               \A j \in 0 .. Len(sent) : \A bytes \in Seq(Byte) :
                 OnLine(events, port, bytes) /\ Carries(rest \o bytes, sent, j)
                   => \E left \in Seq(Byte) :
                        /\ OnLine(events', port', left)
                        /\ Carries((rest \o input) \o left, sent, j)
        PROVE  ProgramInv'
    <2>1. CASE FeedRefused(input)
      BY <1>m, <2>1 DEF FeedRefused, ProgramInv
    <2>2. CASE Feed(input)
      <3>1. pc' = "scan" /\ refused' = refused
        BY <2>2 DEF Feed
      <3>2. ASSUME ~refused PROVE \E j \in 0 .. Len(sent') : Progress(j)'
        <4>1. PICK j \in 0 .. Len(sent) : Progress(j)
          BY <1>d, <3>2
        <4>2. PICK bytes \in Seq(Byte) : /\ OnLine(events, port, bytes)
                                        /\ Carries(rest \o bytes, sent, j)
          BY <4>1 DEF Progress
        <4>3. PICK left \in Seq(Byte) : /\ OnLine(events', port', left)
                                       /\ Carries((rest \o input) \o left, sent, j)
          BY <1>m, <4>2
        <4>4. Progress(j)'
          BY <1>m, <2>2, <4>1, <4>3, ProgressFed
        <4> QED
          BY <1>m, <4>4
      <3> QED
        BY <1>m, <3>1, <3>2 DEF ProgramInv
    <2> QED
      BY <1>m, <2>1, <2>2
  <1>1. CASE CallerStep
    BY <1>1, <1>a DEF CallerStep
  <1>2. ASSUME NEW f \in PeerFrames, PeerSends(f) PROVE ProgramInv'
    <2>1. /\ port' = port \o f \o <<Delim>> /\ sent' = Append(sent, f)
          /\ UNCHANGED <<data, pos, pc, msg, callbacks, out, refused, at, events>>
      BY <1>2 DEF PeerSends, vars
    <2> DEFINE packet == f \o <<Delim>>
    <2>2. f \in Frames /\ f \in Seq(Byte) /\ <<Delim>> \in Seq(Byte)
      BY RustAppsAssumption, FrameBytes
    <2>3. packet \in Seq(Byte) /\ port' = port \o packet
      BY <1>b, <2>1, <2>2, ConcatProperties, ByteStrings
    <2>4. /\ Len(sent') = Len(sent) + 1
          /\ \A k \in 1 .. Len(sent) : sent'[k] = sent[k]
      BY <1>b, <2>1, <2>2, AppendProperties
    <2>5. OneLength' => OneLength
      <3>1. DOMAIN sent = 1 .. Len(sent) /\ DOMAIN sent' = 1 .. Len(sent) + 1
        BY <1>b, <2>1, <2>2, <2>4
      <3>2. \A k \in DOMAIN sent : k \in DOMAIN sent' /\ sent'[k] = sent[k]
        BY <1>b, <2>4, <3>1
      <3> QED
        BY <3>2 DEF OneLength
    <2>6. ASSUME ~refused PROVE \E j \in 0 .. Len(sent') : Progress(j)'
      <3>1. PICK j \in 0 .. Len(sent) : Progress(j)
        BY <1>d, <2>6
      <3>2. PICK bytes \in Seq(Byte) : /\ OnLine(events, port, bytes)
                                      /\ Carries(rest \o bytes, sent, j)
        BY <3>1 DEF Progress
      <3>a. j \in Nat /\ j <= Len(sent) /\ (j # 0 => j \in 1 .. Len(sent) /\ j - 1 \in 0 .. Len(sent))
        BY <1>b, <3>1
      <3> HIDE DEF packet
      <3>3. OnLine(events', port', bytes \o packet)
        BY <1>b, <2>1, <2>3, <3>2, OnLineSent
      <3>4. bytes \o packet \in Seq(Byte)
        BY <2>3, ConcatProperties
      <3>5. Carries(rest' \o (bytes \o packet), sent', j)
        <4>1. Carries(rest \o (bytes \o f \o <<Delim>>), Append(sent, f), j)
          BY <1>b, <2>2, <3>2, CarriesSent
        <4>2. bytes \o f \o <<Delim>> = bytes \o packet
          BY <2>2, ByteStrings DEF packet
        <4>3. rest' = rest
          BY <2>1 DEF rest
        <4> QED
          BY <2>1, <4>1, <4>2, <4>3
      <3>6. \A k \in 0 .. Len(sent) : CallsAfter(callbacks', sent')[k] = CallsAfter(callbacks, sent)[k]
        BY <1>b, <2>1, <2>2, CallsAfterAppend
      <3>7. /\ IF pc' = "call" THEN /\ j # 0 /\ msg' = decoded[sent'[j]]
                                   /\ out' = CallsAfter(callbacks', sent')[j - 1]
                              ELSE out' = CallsAfter(callbacks', sent')[j]
            /\ pos' = 0 \/ (j # 0 /\ pos' >= Len(sent'[j]) + 1)
            /\ at' = "setup" => j = 0
        BY <2>1, <2>4, <3>1, <3>a, <3>6 DEF Progress
      <3>8. Progress(j)'
        BY <3>3, <3>4, <3>5, <3>7 DEF Progress
      <3>9. j \in 0 .. Len(sent')
        BY <1>b, <2>4, <3>a
      <3> QED
        BY <3>8, <3>9
    <2> QED
      BY <1>c, <1>d, <2>1, <2>5, <2>6 DEF ProgramInv
  <1>3. ASSUME NEW x \in Index, NEW cb \in Callback, Setup(x, cb) PROVE ProgramInv'
    <2>1. /\ at = "setup" /\ pc = "idle"
          /\ UNCHANGED <<data, pos, pc, msg, out, refused, at, port, events, sent>>
      BY <1>3 DEF Setup, Subscribe, line_vars
    <2>2. out = <<>>
      BY <1>c, <2>1
    <2>3. ASSUME ~refused PROVE \E j \in 0 .. Len(sent') : Progress(j)'
      <3>1. PICK j \in 0 .. Len(sent) : Progress(j)
        BY <1>d, <2>3
      <3>2. j = 0 /\ pos = 0
        BY <2>1, <3>1 DEF Progress
      <3>3. out' = CallsAfter(callbacks', sent')[j]
        <4>1. \A cbs : CallsAfter(cbs, sent)[0] = <<>>
          BY <1>b, CallsAfterEquation
        <4> QED
          BY <2>1, <2>2, <3>2, <4>1
      <3>4. \E bytes \in Seq(Byte) : /\ OnLine(events', port', bytes)
                                     /\ Carries(rest' \o bytes, sent', j)
        BY <2>1, <3>1 DEF Progress, rest
      <3>5. Progress(j)'
        BY <2>1, <3>2, <3>3, <3>4 DEF Progress
      <3> QED
        BY <2>1, <3>5
    <2> QED
      BY <1>c, <1>d, <2>1, <2>3 DEF ProgramInv, OneLength
  <1>4. CASE Start
    BY <1>4, <1>q DEF Start, line_vars
  <1>5. CASE FeedRuns
    <2>1. FeedStep /\ at # "setup" /\ UNCHANGED <<program, at, events, port, sent>>
      BY <1>5 DEF FeedRuns, line_vars
    <2> QED
      BY <2>1, ProgramFeedStep
  <1>6. ASSUME NEW n \in 1 .. ReadMax, Read(n) PROVE ProgramInv'
    <2> DEFINE input == SubSeq(port, 1, n)
               left == SubSeq(port, n + 1, Len(port))
    <2>1. /\ at = "read" /\ at' = "feed" /\ UNCHANGED <<events, sent>>
          /\ Feed(input) \/ FeedRefused(input)
          /\ port' = left /\ n \in 0 .. Len(port)
      BY <1>b, <1>6, RustAppsAssumption DEF Read
    <2>2. events = <<>>
      BY <1>a, <2>1 DEF AppsTypeOK
    <2>3. input \in Seq(Byte) /\ left \in Seq(Byte)
      BY <1>b, <2>1, CutInTwo
    <2>4. ASSUME NEW j \in 0 .. Len(sent), NEW bytes \in Seq(Byte),
                 OnLine(events, port, bytes), Carries(rest \o bytes, sent, j)
          PROVE  /\ OnLine(events', port', left)
                 /\ Carries((rest \o input) \o left, sent, j)
      <3>1. bytes = port
        BY <1>b, <2>2, <2>4, OnLineNoEvents
      <3>2. OnLine(events', port', left)
        <4> HIDE DEF left
        <4> QED
          BY <2>1, <2>2, <2>3, OnLineNoEvents
      <3> QED
        BY <1>b, <2>1, <2>4, <3>1, <3>2, CarriesRead
    <2> HIDE DEF input, left
    <2> QED
      BY <1>m, <2>1, <2>3, <2>4
  <1>7. CASE ReadUnwrapPanics \/ NothingToRead \/ FeedReturns \/ Write
    BY <1>7, <1>q DEF ReadUnwrapPanics, NothingToRead, FeedReturns, Write, line_vars
  <1>8. CASE ReadSerial
    <2> DEFINE input == Head(events)
    <2>1. /\ at = "frame" /\ at' = "frame" /\ events # <<>> /\ UNCHANGED <<port, sent>>
          /\ Feed(input) \/ FeedRefused(input)
          /\ events' = Tail(events)
      BY <1>8 DEF ReadSerial
    <2>2. input \in Seq(Byte)
      BY <1>b, <2>1, HeadTailProperties
    <2>3. ASSUME NEW j \in 0 .. Len(sent), NEW bytes \in Seq(Byte),
                 OnLine(events, port, bytes), Carries(rest \o bytes, sent, j)
          PROVE  \E left \in Seq(Byte) : /\ OnLine(events', port', left)
                                         /\ Carries((rest \o input) \o left, sent, j)
      <3>1. PICK left \in Seq(Byte) : bytes = input \o left /\ OnLine(Tail(events), port, left)
        BY <1>b, <2>1, <2>3, OnLineRead
      <3> HIDE DEF input
      <3>2. (rest \o input) \o left = rest \o bytes
        <4>1. rest \in Seq(Byte)
          BY <1>b
        <4>2. (rest \o input) \o left = rest \o (input \o left)
          BY <2>2, <4>1, ByteStrings
        <4> QED
          BY <3>1, <4>2
      <3>3. OnLine(events', port', left)
        BY <2>1, <3>1
      <3>4. Carries((rest \o input) \o left, sent, j)
        BY <2>3, <3>2
      <3> QED
        BY <3>3, <3>4
    <2> HIDE DEF input
    <2> QED
      BY <1>m, <2>1, <2>2, <2>3
  <1>9. CASE ReadPanics
    BY <1>9, <1>q DEF ReadPanics, line_vars
  <1>10. ASSUME NEW n \in 1 .. ReadMax, Received(n) PROVE ProgramInv'
    <2>1. /\ events' = Append(events, SubSeq(port, 1, n)) /\ n \in 0 .. Len(port)
          /\ port' = SubSeq(port, n + 1, Len(port)) /\ UNCHANGED <<vars, at, sent>>
      BY <1>b, <1>10, RustAppsAssumption DEF Received
    <2>2. \A bytes : OnLine(events, port, bytes) => OnLine(events', port', bytes)
      BY <1>b, <2>1, OnLineReceived
    <2>3. \A j : Progress(j) => Progress(j)'
      BY <2>1, <2>2 DEF vars, Progress, rest
    <2> QED
      BY <1>c, <1>d, <2>1, <2>3 DEF vars, ProgramInv, OneLength
  <1>11. CASE UNCHANGED apps_vars
    BY <1>11, <1>q DEF apps_vars, line_vars
  <1> QED
    BY <1>1, <1>2, <1>3, <1>4, <1>5, <1>6, <1>7, <1>8, <1>9, <1>10, <1>11
       DEF AppsNext, Running, Loop, Frame

LEMMA AppsProgram == AppsSpec => []ProgramInv
  <1>1. TypeOK /\ AppsTypeOK /\ DrainInv /\ [AppsNext]_apps_vars => DrainInv'
    BY AppsStep, DrainNext
  <1>2. AppsInit => DrainInv
    BY DEF AppsInit, Init, DrainInv, ScanDone, HasDelim
  <1>3. /\ TypeOK /\ TypeOK' /\ DrainInv /\ AppsTypeOK /\ ProgramInv
        /\ [AppsNext]_apps_vars
        => ProgramInv'
    BY ProgramInvNext DEF DrainInv
  <1> QED
    BY <1>1, <1>2, <1>3, ProgramInvInit, AppsTypes, RustTypeCorrect, PTL DEF AppsSpec

\* The serial and the Bevy application call back what the peer has sent and nothing
\* else, in order and once each, however the port and the events split the bytes and
\* wherever the program panics, as long as feed() refuses no input.
THEOREM RustDeliversWhatWasSent == AppsSpec => []DeliversWhatWasSent
  <1>1. TypeOK /\ AppsTypeOK /\ ProgramInv => DeliversWhatWasSent
    <2> SUFFICES ASSUME TypeOK, AppsTypeOK, ProgramInv, program # "caller", ~refused
                 PROVE  IsPrefix(out, CallsFor(callbacks, sent))
      BY DEF DeliversWhatWasSent, IsPrefixOf, IsPrefix
    <2>1. PICK j \in 0 .. Len(sent) : Progress(j)
      BY DEF ProgramInv
    <2>2. sent \in Seq(Frames) /\ Len(sent) \in Nat
      BY DEF AppsTypeOK
    <2>3. PICK i \in 0 .. Len(sent) : out = CallsAfter(callbacks, sent)[i]
      <3>1. j # 0 => j - 1 \in 0 .. Len(sent)
        BY <2>2
      <3> QED
        BY <2>1, <3>1 DEF Progress
    <2>4. Len(sent) \in i .. Len(sent)
      BY <2>2
    <2>5. DOMAIN callbacks \subseteq Index /\ callbacks \in [DOMAIN callbacks -> Callback]
      BY DEF TypeOK
    <2> QED
      BY <2>2, <2>3, <2>4, <2>5, CallsAfterPrefix DEF CallsFor
  <1> QED
    BY <1>1, AppsProgram, AppsTypes, RustTypeCorrect, PTL

\* Packets of one length never make feed() panic, neither in decoding nor in moving
\* what is left to the front, whatever the reads.
THEOREM RustOneLength == AppsSpec => []OneLengthNeverPanics
  <1>1. ProgramInv => OneLengthNeverPanics
    BY DEF ProgramInv, OneLengthNeverPanics, Panicked
  <1> QED
    BY <1>1, AppsProgram, PTL

=============================================================================
