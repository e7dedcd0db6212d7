---------------------------- MODULE TsApps_proofs ----------------------------
(***************************************************************************)
(* Proofs about the TypeScript subscriber inside its applications, for any *)
(* packets, callbacks and bounds: what feed() leaves behind, that it       *)
(* implements FrameStream until an error leaves it, that the message       *)
(* behind the error holds back all others, and that the programs call back *)
(* only what was sent.                                                     *)
(***************************************************************************)
EXTENDS TsApps, Framing_proofs

-----------------------------------------------------------------------------
(* Every step of an application is one of the subscriber, or none. *)

LineTypeOK ==
    IF program = "udp" THEN line \in Seq(Seq(Byte)) ELSE line \in Seq(Byte)

SubscriberStep ==
    \/ \E input \in Seq(Byte) : Feed(input)
    \/ FeedStep
    \/ \E i \in Index, cb \in Callback : Subscribe(i, cb)
    \/ \E i \in Index : Unsubscribe(i)

\* A packet on the line is a string of bytes.
LEMMA PacketType ==
    ASSUME NEW f \in PeerFrames
    PROVE  f \o <<Delim>> \in Seq(Byte)
  <1>1. f \in Seq(Byte \ {Delim}) /\ Delim \in Byte
    BY TsAppsAssumption, FramingAssumption
  <1>2. f \in Seq(Byte) /\ <<Delim>> \in Seq(Byte)
    BY <1>1
  <1> QED
    BY <1>2

\* So is every part of it.
LEMMA PartType ==
    ASSUME NEW S, NEW s \in Seq(S), NEW k \in 1 .. Len(s)
    PROVE  /\ s[k] \in S /\ SubSeq(s, 1, k) \in Seq(S)
           /\ SubSeq(s, k + 1, Len(s)) \in Seq(S)
           /\ SubSeq(s, 1, k - 1) \o SubSeq(s, k + 1, Len(s)) \in Seq(S)
  <1>1. \A i \in 1 .. Len(s) : s[i] \in S
    BY ElementOfSeq
  <1>2. /\ SubSeq(s, 1, k) \in Seq(S) /\ SubSeq(s, k + 1, Len(s)) \in Seq(S)
        /\ SubSeq(s, 1, k - 1) \in Seq(S)
    BY <1>1, SubSeqProperties
  <1> QED
    BY <1>1, <1>2

LEMMA AppStep ==
    ASSUME LineTypeOK, [AppNext]_app_vars
    PROVE  LineTypeOK' /\ (SubscriberStep \/ UNCHANGED vars)
  <1>1. CASE CallerStep
    BY <1>1, TsAssumption DEF CallerStep, Calls, SubscriberStep, LineTypeOK
  <1>2. CASE Process
    BY <1>2 DEF Process, Load, Loaded, FeedRuns, Write, WriteSends, WriteSkips,
       WriteThrows, app_vars, vars, SubscriberStep, LineTypeOK
  <1>3. ASSUME NEW f \in PeerFrames, PeerSends(f)
        PROVE  LineTypeOK' /\ UNCHANGED vars
    <2>1. f \o <<Delim>> \in Seq(Byte)
      BY PacketType
    <2>2. program' = program /\ UNCHANGED vars
          /\ line' = IF program = "udp" THEN Append(line, f \o <<Delim>>)
                     ELSE line \o f \o <<Delim>>
      BY <1>3 DEF PeerSends
    <2>3. CASE program = "udp"
      BY <2>1, <2>2, <2>3 DEF LineTypeOK
    <2>4. CASE program # "udp"
      <3>1. f \in Seq(Byte) /\ <<Delim>> \in Seq(Byte) /\ line \in Seq(Byte)
        BY <2>4, TsAppsAssumption, FramingAssumption DEF LineTypeOK
      <3>2. line \o f \o <<Delim>> \in Seq(Byte)
        BY <3>1
      <3> QED
        BY <2>2, <2>4, <3>2 DEF LineTypeOK
    <2> QED
      BY <2>2, <2>3, <2>4
  <1>4. ASSUME NEW k \in 1 .. Len(line), DatagramLost(k)
        PROVE  LineTypeOK' /\ UNCHANGED vars
    BY <1>4, PartType DEF DatagramLost, Without, LineTypeOK
  <1>5. CASE Data_
    <2>1. PICK k \in 1 .. Len(line) :
            IF program = "udp"
            THEN Feed(line[k]) /\ (line' = Without(k) \/ line' = line)
            ELSE /\ Feed(SubSeq(line, 1, k))
                 /\ line' = SubSeq(line, k + 1, Len(line))
      BY <1>5 DEF Data_
    <2>2. program' = program
      BY <1>5 DEF Data_
    <2>3. CASE program = "udp"
      <3>1. line[k] \in Seq(Byte) /\ Without(k) \in Seq(Seq(Byte))
        BY <2>3, PartType DEF LineTypeOK, Without
      <3> QED
        BY <2>1, <2>2, <2>3, <3>1 DEF LineTypeOK, SubscriberStep
    <2>4. CASE program # "udp"
      <3>1. /\ SubSeq(line, 1, k) \in Seq(Byte)
            /\ SubSeq(line, k + 1, Len(line)) \in Seq(Byte)
        BY <2>4, PartType DEF LineTypeOK
      <3> QED
        BY <2>1, <2>2, <2>4, <3>1 DEF LineTypeOK, SubscriberStep
    <2> QED
      BY <2>3, <2>4
  <1>6. CASE Opens \/ Closes \/ TimerFires \/ UNCHANGED app_vars
    BY <1>6 DEF Opens, Closes, TimerFires, app_vars, LineTypeOK
  <1> QED
    BY <1>1, <1>2, <1>3, <1>4, <1>5, <1>6 DEF AppNext

-----------------------------------------------------------------------------
(* The inductive invariant. *)

\* The callbacks run once nothing is left to cut, and none of those behind threw.
CallsInv ==
    pc = "calls" => /\ ~HasDelim(buffer)
                    /\ \A j \in 1 .. called : ~Thrown(msgs[j])

IInv == SubscriberInv /\ CallsInv

LEMMA EmptyHasNoDelim == ~HasDelim(<<>>)
  BY DEF HasDelim

LEMMA IInvInit == Init => IInv
  <1> SUFFICES ASSUME Init PROVE IInv
    OBVIOUS
  <1>1. TypeOK
    <2>1. threw \in BOOLEAN
      BY DEF Init
    <2>2. /\ callbacks \in [DOMAIN callbacks -> Callback]
          /\ DOMAIN callbacks \subseteq Index
      BY DEF Init
    <2>3. /\ buffer \in Seq(Byte) /\ pc = "idle" /\ msgs \in Seq(Message)
          /\ out \in Seq(Call) /\ called = 0 /\ called \in 0 .. Len(msgs)
          /\ feeds \in Nat
      BY DEF Init
    <2> QED
      BY <2>1, <2>2, <2>3 DEF TypeOK
  <1>2. NothingLeftBehind
    BY EmptyHasNoDelim DEF Init, NothingLeftBehind
  <1>3. CallsInv
    BY DEF Init, CallsInv
  <1> QED
    BY <1>1, <1>2, <1>3 DEF IInv, SubscriberInv

LEMMA IInvNext ==
    ASSUME IInv, SubscriberStep \/ UNCHANGED vars
    PROVE  IInv'
  <1>a. TypeOK /\ NothingLeftBehind /\ CallsInv
    BY DEF IInv, SubscriberInv
  <1> SUFFICES TypeOK' /\ NothingLeftBehind' /\ CallsInv'
    BY DEF IInv, SubscriberInv
  <1>1. ASSUME NEW input \in Seq(Byte), Feed(input)
        PROVE  TypeOK' /\ NothingLeftBehind' /\ CallsInv'
    BY <1>a, <1>1 DEF Feed, TypeOK, NothingLeftBehind, CallsInv
  <1>2. CASE DecodeChunk
    <2>1. AfterChunk(buffer) \in Seq(Byte)
      BY <1>a, <1>2, AfterChunkType DEF DecodeChunk, TypeOK
    <2>2. Decodes(FirstChunk(buffer)) => decoded[FirstChunk(buffer)] \in Message
      BY FramingAssumption DEF Decodes
    <2>3. msgs' \in Seq(Message) /\ called = 0
      BY <1>a, <1>2, <2>2 DEF DecodeChunk, TypeOK
    <2> QED
      BY <1>a, <1>2, <2>1, <2>3 DEF DecodeChunk, TypeOK, NothingLeftBehind, CallsInv
  <1>3. CASE ScanEnd
    BY <1>a, <1>3 DEF ScanEnd, TypeOK, NothingLeftBehind, CallsInv
  <1>4. CASE RunCallback
    <2>1. msgs[called + 1] \in Message /\ called + 1 \in 0 .. Len(msgs)
      BY <1>a, <1>4 DEF RunCallback, TypeOK
    <2>2. out' \in Seq(Call)
      BY <1>a, <1>4, <2>1, DispatchType DEF RunCallback, TypeOK
    <2>3. TypeOK' /\ NothingLeftBehind'
      BY <1>a, <1>4, <2>1, <2>2 DEF RunCallback, TypeOK, NothingLeftBehind
    <2>4. CallsInv'
      BY <1>a, <1>4, <2>1 DEF RunCallback, CallsInv, Thrown, TypeOK
    <2> QED
      BY <2>3, <2>4
  <1>5. CASE CallbackThrows
    BY <1>a, <1>5 DEF CallbackThrows, TypeOK, NothingLeftBehind, CallsInv
  <1>6. CASE ClearMsgs
    BY <1>a, <1>6 DEF ClearMsgs, TypeOK, NothingLeftBehind, CallsInv
  <1>7. ASSUME NEW i \in Index, NEW cb \in Callback, Subscribe(i, cb)
        PROVE  TypeOK' /\ NothingLeftBehind' /\ CallsInv'
    BY <1>a, <1>7, CallbacksType DEF Subscribe, TypeOK, NothingLeftBehind, CallsInv
  <1>8. ASSUME NEW i \in Index, Unsubscribe(i)
        PROVE  TypeOK' /\ NothingLeftBehind' /\ CallsInv'
    BY <1>a, <1>8 DEF Unsubscribe, TypeOK, NothingLeftBehind, CallsInv, WithoutCallback
  <1>9. CASE UNCHANGED vars
    BY <1>a, <1>9 DEF vars, TypeOK, NothingLeftBehind, CallsInv, Thrown
  <1> QED
    BY <1>1, <1>2, <1>3, <1>4, <1>5, <1>6, <1>7, <1>8, <1>9
       DEF SubscriberStep, FeedStep

LEMMA AppIInv == AppSpec => [](IInv /\ LineTypeOK)
  <1>1. AppInit => IInv /\ LineTypeOK
    BY IInvInit DEF AppInit, LineTypeOK
  <1>2. IInv /\ LineTypeOK /\ [AppNext]_app_vars => IInv' /\ LineTypeOK'
    BY AppStep, IInvNext
  <1> QED
    BY <1>1, <1>2, PTL DEF AppSpec

\* The part of AppInv about the applications: which handler runs where feed() stands.
AppPart ==
    /\ socket \in {"opening", "open", "closed"}
    /\ turn \in {"caller", "load", "loop", "data", "write", "ended"}
    /\ turn \in {"load", "loop", "write"} => pc = "idle"
    /\ turn = "ended" <=> turn # "caller" /\ pc = "crashed"
    /\ sent \in Seq(PeerFrames)

LEMMA AppPartNext ==
    ASSUME AppPart, TypeOK, TypeOK', [AppNext]_app_vars
    PROVE  AppPart'
  <1>1. CASE CallerStep
    BY <1>1 DEF CallerStep, AppPart
  <1>2. ASSUME NEW i \in Index, NEW cb \in Callback, Load(i, cb) PROVE AppPart'
    BY <1>2 DEF Load, Subscribe, AppPart
  <1>3. CASE Loaded
    BY <1>3 DEF Loaded, vars, AppPart
  <1>4. CASE FeedRuns
    <2>1. turn = "data" /\ UNCHANGED <<sent, socket>>
          /\ turn' = CASE pc' = "crashed" -> "ended" [] pc' = "idle" -> "loop"
                       [] OTHER -> "data"
      BY <1>4 DEF FeedRuns
    <2> QED
      BY <2>1 DEF AppPart
  <1>5. CASE Write \/ TimerFires \/ Opens \/ Closes \/ UNCHANGED app_vars
    BY <1>5 DEF Write, WriteSends, WriteSkips, WriteThrows, TimerFires, Opens,
       Closes, app_vars, vars, AppPart
  <1>6. ASSUME NEW f \in PeerFrames, PeerSends(f) PROVE AppPart'
    BY <1>6 DEF PeerSends, vars, AppPart
  <1>7. ASSUME NEW k \in 1 .. Len(line), DatagramLost(k) PROVE AppPart'
    BY <1>7 DEF DatagramLost, vars, AppPart
  <1>8. CASE Data_
    <2>1. pc' = "scan" /\ turn' = "data" /\ UNCHANGED <<sent, socket>>
      BY <1>8 DEF Data_, Feed
    <2> QED
      BY <2>1 DEF AppPart
  <1> QED
    BY <1>1, <1>2, <1>3, <1>4, <1>5, <1>6, <1>7, <1>8 DEF AppNext, Process

\* In every state of an application a call of feed() that is over has left no
\* complete packet behind, nor a message unless an error has left it; no handler runs
\* while feed() is under way, and the process has ended exactly when an error has
\* left feed().
THEOREM TsNothingLeftBehind == AppSpec => []AppInv
  <1>1. AppInit => AppPart
    BY DEF AppInit, Init, AppPart
  <1>2. IInv /\ LineTypeOK /\ IInv' /\ AppPart /\ [AppNext]_app_vars => AppPart'
    BY AppPartNext DEF IInv, SubscriberInv
  <1>3. IInv /\ AppPart => AppInv
    BY DEF IInv, AppPart, AppInv
  <1> QED
    BY <1>1, <1>2, <1>3, AppIInv, PTL DEF AppSpec

-----------------------------------------------------------------------------
(* FrameStream. *)

LEMMA StreamFraming ==
    ASSUME NEW s
    PROVE  /\ Stream!HasDelim(s) = HasDelim(s)
           /\ Stream!FirstDelim(s) = FirstDelim(s)
           /\ Stream!FirstChunk(s) = FirstChunk(s)
           /\ Stream!AfterChunk(s) = AfterChunk(s)
           /\ Stream!Decodes(s) = Decodes(s)
  <1>1. Stream!FirstDelim(s) = FirstDelim(s)
    BY DEF Stream!FirstDelim, FirstDelim
  <1>2. Stream!HasDelim(s) = HasDelim(s)
    BY DEF Stream!HasDelim, HasDelim
  <1>3. Stream!FirstChunk(s) = FirstChunk(s) /\ Stream!AfterChunk(s) = AfterChunk(s)
    BY <1>1 DEF Stream!FirstChunk, FirstChunk, Stream!AfterChunk, AfterChunk
  <1>4. Stream!Decodes(s) = Decodes(s)
    BY DEF Stream!Decodes, Decodes
  <1> QED
    BY <1>1, <1>2, <1>3, <1>4

LEMMA StreamCalls ==
    ASSUME NEW calls, NEW cbs, NEW m, NEW i, NEW cb
    PROVE  /\ Stream!Dispatch(calls, cbs, m) = Dispatch(calls, cbs, m)
           /\ Stream!WithCallback(cbs, i, cb) = WithCallback(cbs, i, cb)
           /\ Stream!WithoutCallback(cbs, i) = WithoutCallback(cbs, i)
  BY DEF Stream!Dispatch, Dispatch, Stream!WithCallback, WithCallback,
         Stream!WithoutCallback, WithoutCallback

\* The queue of FrameStream: the messages this call has still to go through.
Left == SubSeq(msgs, called + 1, Len(msgs))

LEMMA StreamStutter ==
    ASSUME UNCHANGED <<buffer, Left, callbacks, out>>
    PROVE  UNCHANGED Stream!stream_vars
  BY DEF Stream!stream_vars, Left

LEMMA NothingLeft == SubSeq(<<>>, 0 + 1, Len(<<>>)) = <<>>
  OBVIOUS

LEMMA StreamInit == Init => Stream!Init
  BY NothingLeft DEF Init, Stream!Init

LEMMA StreamNext ==
    ASSUME IInv, IInv', SubscriberStep \/ UNCHANGED vars
    PROVE  [~threw' => Stream!Next]_(Stream!stream_vars)
  <1>a. TypeOK /\ TypeOK'
    BY DEF IInv, SubscriberInv
  <1>1. ASSUME NEW input \in Seq(Byte), Feed(input) PROVE Stream!Next
    <2>1. /\ buffer' \in Seq(Byte) /\ Len(buffer) <= Len(buffer')
          /\ SubSeq(buffer', 1, Len(buffer)) = buffer
      BY <1>a, <1>1, PrefixOfConcat DEF Feed, TypeOK
    <2>2. Stream!Arrive
      BY <1>1, <2>1 DEF Feed, Stream!Arrive
    <2> QED
      BY <2>2 DEF Stream!Next
  <1>2. CASE DecodeChunk
    <2>1. called = 0 /\ called' = 0 /\ msgs \in Seq(Message) /\ msgs' \in Seq(Message)
      BY <1>a, <1>2 DEF DecodeChunk, TypeOK
    <2>2. Left = msgs /\ Left' = msgs'
      <3>1. SubSeq(msgs, 1, Len(msgs)) = msgs /\ SubSeq(msgs', 1, Len(msgs')) = msgs'
        BY <2>1, SubSeqFull
      <3> QED
        BY <2>1, <3>1 DEF Left
    <2>3. /\ HasDelim(buffer) /\ buffer' = AfterChunk(buffer)
          /\ Left' = IF Decodes(FirstChunk(buffer))
                     THEN Append(Left, decoded[FirstChunk(buffer)]) ELSE Left
          /\ UNCHANGED <<callbacks, out>>
      BY <1>2, <2>2 DEF DecodeChunk
    <2>4. Stream!Frame
      BY <2>3, StreamFraming DEF Stream!Frame, Left
    <2> QED
      BY <2>4 DEF Stream!Next
  <1>3. CASE ScanEnd
    BY <1>3, StreamStutter DEF ScanEnd, Left
  <1>4. CASE RunCallback
    <2>1. called \in 0 .. Len(msgs) /\ called < Len(msgs) /\ msgs \in Seq(Message)
      BY <1>a, <1>4 DEF RunCallback, TypeOK
    <2>2. /\ Left # <<>> /\ Head(Left) = msgs[called + 1]
          /\ Tail(Left) = SubSeq(msgs, called + 1 + 1, Len(msgs))
      BY <2>1, QueueStep DEF Left
    <2>3. Left' = Tail(Left)
      BY <1>4, <2>2 DEF RunCallback, Left
    <2>4. /\ out' = Stream!Dispatch(out, callbacks, Head(Left))
          /\ UNCHANGED <<buffer, callbacks>>
      BY <1>4, <2>2, StreamCalls DEF RunCallback
    <2>5. Stream!Deliver
      BY <2>2, <2>3, <2>4 DEF Stream!Deliver, Left
    <2> QED
      BY <2>5 DEF Stream!Next
  <1>5. CASE CallbackThrows
    BY <1>5 DEF CallbackThrows
  <1>6. CASE ClearMsgs
    <2>1. called = Len(msgs) /\ msgs \in Seq(Message)
      BY <1>a, <1>6 DEF ClearMsgs, TypeOK
    <2>2. Left = <<>>
      BY <2>1 DEF Left
    <2>3. msgs' = <<>> /\ called' = 0 /\ UNCHANGED <<buffer, callbacks, out>>
      BY <1>6 DEF ClearMsgs
    <2>4. Left' = <<>>
      BY <2>3, NothingLeft DEF Left
    <2> QED
      BY <2>2, <2>3, <2>4, StreamStutter
  <1>7. ASSUME NEW i \in Index, NEW cb \in Callback, Subscribe(i, cb)
        PROVE  Stream!Next
    <2>1. Stream!SetCallback(i, cb)
      BY <1>7, StreamCalls DEF Subscribe, Stream!SetCallback
    <2> QED
      BY <2>1 DEF Stream!Next
  <1>8. ASSUME NEW i \in Index, Unsubscribe(i) PROVE Stream!Next
    <2>1. Stream!RemoveCallback(i)
      BY <1>8, StreamCalls DEF Unsubscribe, Stream!RemoveCallback
    <2> QED
      BY <2>1 DEF Stream!Next
  <1>9. CASE UNCHANGED vars
    BY <1>9, StreamStutter DEF vars, Left
  <1> QED
    BY <1>1, <1>2, <1>3, <1>4, <1>5, <1>6, <1>7, <1>8, <1>9
       DEF SubscriberStep, FeedStep

\* Until an error leaves feed(), what a port, a connection, a datagram or another
\* caller feeds reaches the callbacks as FrameStream promises: every message once
\* and in order, however the bytes are split.
THEOREM TsImplementsFrameStream == AppSpec => RefinesUntilThrown
  <1>1. /\ IInv /\ LineTypeOK /\ IInv' /\ LineTypeOK' /\ [AppNext]_app_vars
        => [~threw' => Stream!Next]_(Stream!stream_vars)
    BY AppStep, StreamNext
  <1>2. AppInit => Stream!Init
    BY StreamInit DEF AppInit
  <1> QED
    BY <1>1, <1>2, AppIInv, PTL DEF AppSpec, RefinesUntilThrown

-----------------------------------------------------------------------------
(* What a message that throws holds back. *)

\* Where some message throws there is a first one that does.
LEMMA FirstThrownProperties ==
    ASSUME TypeOK, \E m \in DOMAIN msgs : Thrown(msgs[m])
    PROVE  /\ FirstThrown \in DOMAIN msgs /\ Thrown(msgs[FirstThrown])
           /\ \A j \in 1 .. FirstThrown - 1 : ~Thrown(msgs[j])
  <1> DEFINE T == {m \in DOMAIN msgs : Thrown(msgs[m])}
  <1>0. DOMAIN msgs = 1 .. Len(msgs) /\ Len(msgs) \in Nat
    BY DEF TypeOK
  <1>1. T # {} /\ T \subseteq Nat
    BY <1>0
  <1>2. PICK x \in T : \A y \in T : <<y, x>> \notin OpToRel(<, Nat)
    BY <1>1, WFMin, NatLessThanWellFounded
  <1>3. \A y \in T : ~(y < x)
    BY <1>1, <1>2 DEF OpToRel
  <1>4. /\ x \in DOMAIN msgs /\ Thrown(msgs[x])
        /\ \A j \in 1 .. x - 1 : ~Thrown(msgs[j])
    BY <1>0, <1>3
  <1> QED
    BY <1>4 DEF FirstThrown

LEMMA PoisonStep ==
    ASSUME IInv, SubscriberStep \/ UNCHANGED vars, callbacks' = callbacks,
           \E m \in DOMAIN msgs : Thrown(msgs[m])
    PROVE  /\ called' < FirstThrown
           /\ Len(msgs) <= Len(msgs') /\ SubSeq(msgs', 1, Len(msgs)) = msgs
  <1>a. /\ TypeOK /\ CallsInv /\ msgs \in Seq(Message) /\ Len(msgs) \in Nat
        /\ called \in 0 .. Len(msgs) /\ (pc # "calls" => called = 0)
    BY DEF IInv, SubscriberInv, TypeOK
  <1>b. /\ FirstThrown \in 1 .. Len(msgs) /\ Thrown(msgs[FirstThrown])
        /\ \A j \in 1 .. FirstThrown - 1 : ~Thrown(msgs[j])
    BY <1>a, FirstThrownProperties
  <1>c. called < FirstThrown
    BY <1>a, <1>b DEF CallsInv
  <1>d. SubSeq(msgs, 1, Len(msgs)) = msgs
    BY <1>a, SubSeqFull
  <1>e. CASE msgs' = msgs /\ called' \in {0, called}
    BY <1>a, <1>b, <1>c, <1>d, <1>e
  <1>1. CASE DecodeChunk
    <2>1. called' = 0
      BY <1>1, <1>a DEF DecodeChunk
    <2>2. CASE msgs' = msgs
      BY <1>e, <2>1, <2>2
    <2>3. CASE Decodes(FirstChunk(buffer))
      <3> DEFINE m == decoded[FirstChunk(buffer)]
      <3>1. m \in Message /\ msgs' = Append(msgs, m)
        BY <1>1, <2>3, FramingAssumption DEF DecodeChunk, Decodes
      <3> HIDE DEF m
      <3>2. <<m>> \in Seq(Message) /\ msgs' = msgs \o <<m>>
        BY <1>a, <3>1
      <3>3. Len(msgs) <= Len(msgs') /\ SubSeq(msgs', 1, Len(msgs)) = msgs
        BY <1>a, <3>2, PrefixOfConcat
      <3> QED
        BY <1>b, <2>1, <3>3
    <2> QED
      BY <1>1, <2>2, <2>3 DEF DecodeChunk
  <1>2. CASE RunCallback
    <2>1. msgs' = msgs /\ called' = called + 1 /\ ~Thrown(msgs[called + 1])
      BY <1>2 DEF RunCallback
    <2>2. called' < FirstThrown
      BY <1>a, <1>b, <1>c, <2>1
    <2> QED
      BY <1>a, <1>d, <2>1, <2>2
  <1>3. CASE ClearMsgs
    BY <1>a, <1>b, <1>c, <1>3 DEF ClearMsgs
  <1>4. CASE ~(DecodeChunk \/ RunCallback \/ ClearMsgs)
    <2>1. msgs' = msgs /\ called' \in {0, called}
      BY <1>4 DEF SubscriberStep, FeedStep, Feed, ScanEnd, CallbackThrows, Subscribe,
         Unsubscribe, vars
    <2> QED
      BY <1>e, <2>1
  <1> QED
    BY <1>1, <1>2, <1>3, <1>4

\* A message that throws stays in front: while the callbacks stay as they are no
\* later call of feed() gets past it, and no message before or behind it is lost.
THEOREM TsPoison == AppSpec => PoisonHoldsBack
  <1>1. IInv /\ LineTypeOK /\ [AppNext]_app_vars =>
          [(\E m \in DOMAIN msgs : Thrown(msgs[m])) /\ callbacks' = callbacks =>
             /\ called' < FirstThrown
             /\ Len(msgs) <= Len(msgs') /\ SubSeq(msgs', 1, Len(msgs)) = msgs]_vars
    BY AppStep, PoisonStep
  <1> QED
    BY <1>1, AppIInv, PTL DEF AppSpec, PoisonHoldsBack

-----------------------------------------------------------------------------
(* What the peer has sent. *)

\* The program, the handlers and the line before they are at work.
PartsInv ==
    /\ program \in {"serial", "tcp", "udp", "caller"}
    /\ program = "caller" <=> turn = "caller"
    /\ turn = "load" => socket = "opening"
    /\ socket = "opening" => sent = <<>>
    /\ sent \in Seq(Frames)

LEMMA PartsNext ==
    ASSUME PartsInv, [AppNext]_app_vars
    PROVE  PartsInv'
  <1>1. CASE CallerStep
    BY <1>1 DEF CallerStep, PartsInv
  <1>2. CASE Process
    BY <1>2 DEF Process, Load, Loaded, FeedRuns, Write, WriteSends, WriteSkips,
       WriteThrows, app_vars, PartsInv
  <1>3. ASSUME NEW f \in PeerFrames, PeerSends(f) PROVE PartsInv'
    <2>1. f \in Frames
      BY TsAppsAssumption
    <2>2. sent' \in Seq(Frames) /\ socket = "open"
      BY <1>3, <2>1, AppendProperties DEF PeerSends, PartsInv
    <2> QED
      BY <1>3, <2>2 DEF PeerSends, PartsInv
  <1>4. ASSUME NEW k \in 1 .. Len(line), DatagramLost(k) PROVE PartsInv'
    BY <1>4 DEF DatagramLost, PartsInv
  <1>5. CASE Opens \/ Closes \/ Data_ \/ TimerFires \/ UNCHANGED app_vars
    BY <1>5 DEF Opens, Closes, Data_, TimerFires, app_vars, PartsInv
  <1> QED
    BY <1>1, <1>2, <1>3, <1>4, <1>5 DEF AppNext

\* The calls are those of the first i packets; j are framed, and the messages of
\* those between wait; the bytes buffered and on the line carry the others.
Progress(i, j) ==
    /\ out = CallsAfter(callbacks, sent)[i]
    /\ turn # "ended" =>
         /\ Carries(buffer \o line, sent, j)
         /\ Len(msgs) = called + (j - i)
         /\ \A k \in 1 .. j - i : msgs[called + k] = decoded[sent[i + k]]

StreamInv ==
    program \in {"serial", "tcp"} =>
      \E i \in 0 .. Len(sent) : \E j \in i .. Len(sent) : Progress(i, j)

LEMMA StreamInvInit == AppInit => StreamInv
  <1> SUFFICES ASSUME AppInit PROVE StreamInv
    OBVIOUS
  <1>1. /\ sent = <<>> /\ out = <<>> /\ buffer = <<>> /\ line = <<>>
        /\ msgs = <<>> /\ called = 0
    BY DEF AppInit, Init
  <1>2. <<>> \o <<>> = <<>> /\ Len(<<>>) = 0 /\ \A k \in 1 .. 0 - 0 : FALSE
    OBVIOUS
  <1>3. CallsAfter(callbacks, <<>>)[0] = <<>>
    BY <1>2, CallsAfterEquation
  <1>4. Progress(0, 0)
    BY <1>1, <1>2, <1>3, CarriesNothing DEF Progress
  <1>5. 0 \in 0 .. Len(sent) /\ 0 \in 0 .. Len(sent)
    BY <1>1, <1>2
  <1> QED
    BY <1>4, <1>5 DEF StreamInv

LEMMA StreamInvNext ==
    ASSUME IInv, LineTypeOK, AppPart, PartsInv, StreamInv, [AppNext]_app_vars
    PROVE  StreamInv'
  <1> SUFFICES ASSUME program' \in {"serial", "tcp"} PROVE StreamInv'
    BY DEF StreamInv
  <1>a. /\ TypeOK /\ program' = program /\ program \in {"serial", "tcp"}
        /\ turn # "caller" /\ line \in Seq(Byte)
    <2>1. program' = program
      BY DEF AppNext, Process, CallerStep, Load, Loaded, FeedRuns, Write, WriteSends,
         WriteSkips, WriteThrows, PeerSends,
         DatagramLost, Opens, Closes, Data_, TimerFires, app_vars
    <2> QED
      BY <2>1 DEF IInv, SubscriberInv, PartsInv, LineTypeOK
  <1>b. /\ sent \in Seq(Frames) /\ Len(sent) \in Nat /\ buffer \in Seq(Byte)
        /\ msgs \in Seq(Message) /\ called \in Nat /\ (pc # "calls" => called = 0)
    BY <1>a DEF PartsInv, TypeOK
  <1>c1. PICK i \in 0 .. Len(sent) : \E j \in i .. Len(sent) : Progress(i, j)
    BY <1>a DEF StreamInv
  <1>c. PICK j \in i .. Len(sent) : Progress(i, j)
    BY <1>c1
  <1>d. /\ i \in Nat /\ j \in Nat /\ i <= j /\ j <= Len(sent)
        /\ out = CallsAfter(callbacks, sent)[i]
    BY <1>b, <1>c DEF Progress
  <1>q. ASSUME UNCHANGED <<buffer, msgs, called, callbacks, out, line, sent>>,
               turn' # "ended" => turn # "ended"
        PROVE  StreamInv'
    <2>1. Progress(i, j)'
      BY <1>c, <1>q DEF Progress
    <2> QED
      BY <1>q, <2>1 DEF StreamInv
  <1>1. CASE CallerStep
    BY <1>a, <1>1 DEF CallerStep
  <1>2. ASSUME NEW x \in Index, NEW cb \in Callback, Load(x, cb) PROVE StreamInv'
    <2>1. /\ sent = <<>> /\ sent' = sent
          /\ UNCHANGED <<buffer, msgs, called, out, line, turn>> /\ turn # "ended"
      BY <1>2 DEF Load, Subscribe, PartsInv
    <2>2. i = 0 /\ j = 0 /\ Len(sent) = 0
      BY <1>d, <2>1
    <2>3. \A cbs : CallsAfter(cbs, sent)[0] = <<>>
      BY <2>2, CallsAfterEquation
    <2>4. out' = CallsAfter(callbacks', sent')[0]
      BY <1>d, <2>1, <2>2, <2>3
    <2>5. Progress(i, j)'
      BY <1>c, <2>1, <2>2, <2>4 DEF Progress
    <2> QED
      BY <2>1, <2>5 DEF StreamInv
  <1>3. CASE Loaded \/ Write \/ TimerFires \/ Opens \/ Closes \/ UNCHANGED app_vars
    BY <1>3, <1>q DEF Loaded, Write, WriteSends, WriteSkips, WriteThrows,
       TimerFires, Opens, Closes, app_vars, vars
  <1>4. ASSUME NEW k \in 1 .. Len(line), DatagramLost(k) PROVE StreamInv'
    BY <1>4, <1>a DEF DatagramLost
  <1>5. ASSUME NEW f \in PeerFrames, PeerSends(f) PROVE StreamInv'
    <2>1. /\ line' = line \o f \o <<Delim>> /\ sent' = Append(sent, f)
          /\ UNCHANGED <<buffer, msgs, called, callbacks, out, turn>>
      BY <1>5, <1>a DEF PeerSends, vars
    <2>2. f \in Frames /\ f \in Seq(Byte) /\ <<Delim>> \in Seq(Byte)
      BY TsAppsAssumption, FrameBytes
    <2>3. /\ Len(sent') = Len(sent) + 1
          /\ \A k \in 1 .. Len(sent) : sent'[k] = sent[k]
      BY <1>b, <2>1, <2>2, AppendProperties
    <2>4. out' = CallsAfter(callbacks', sent')[i]
      BY <1>b, <1>d, <2>1, <2>2, CallsAfterAppend
    <2>5. ASSUME turn' # "ended"
          PROVE  /\ Carries(buffer' \o line', sent', j)
                 /\ Len(msgs') = called' + (j - i)
                 /\ \A k \in 1 .. j - i : msgs'[called' + k] = decoded[sent'[i + k]]
      <3>1. /\ Carries(buffer \o line, sent, j) /\ Len(msgs) = called + (j - i)
            /\ \A k \in 1 .. j - i : msgs[called + k] = decoded[sent[i + k]]
        BY <1>c, <2>1, <2>5 DEF Progress
      <3>2. Carries(buffer \o (line \o f \o <<Delim>>), Append(sent, f), j)
        <4>1. j \in 0 .. Len(sent)
          BY <1>b, <1>d
        <4>2. buffer \in Seq(Byte) /\ line \in Seq(Byte) /\ sent \in Seq(Frames)
          BY <1>a, <1>b
        <4> QED
          BY <2>2, <3>1, <4>1, <4>2, CarriesSent
      <3>4. \A k \in 1 .. j - i : sent'[i + k] = sent[i + k]
        BY <1>d, <2>3
      <3> QED
        BY <2>1, <3>1, <3>2, <3>4
    <2>6. Progress(i, j)'
      BY <2>4, <2>5 DEF Progress
    <2> QED
      <3>1. i \in 0 .. Len(sent') /\ j \in i .. Len(sent')
        BY <1>b, <1>d, <2>3
      <3> QED
        BY <2>6, <3>1 DEF StreamInv
  <1>6. CASE Data_
    <2>1. PICK k \in 1 .. Len(line) :
            /\ Feed(SubSeq(line, 1, k)) /\ line' = SubSeq(line, k + 1, Len(line))
      BY <1>6, <1>a DEF Data_
    <2>2. /\ buffer' = buffer \o SubSeq(line, 1, k) /\ sent' = sent
          /\ UNCHANGED <<msgs, called, callbacks, out>> /\ turn # "ended"
      BY <1>6, <2>1 DEF Data_, Feed
    <2>3. Carries(buffer \o line, sent, j)
      BY <1>c, <2>2 DEF Progress
    <2>4. Carries(buffer' \o line', sent, j)
      <3>1. k \in 0 .. Len(line)
        OBVIOUS
      <3> QED
        BY <1>a, <1>b, <2>1, <2>2, <2>3, <3>1, CarriesRead
    <2>5. Progress(i, j)'
      BY <1>c, <2>2, <2>4 DEF Progress
    <2> QED
      BY <2>2, <2>5 DEF StreamInv
  <1>7. CASE FeedRuns
    <2>1. /\ turn = "data" /\ UNCHANGED <<line, sent>> /\ FeedStep
          /\ (threw' => pc' = "crashed") /\ (pc' = "crashed" => turn' = "ended")
      BY <1>7 DEF FeedRuns
    <2>2. /\ Carries(buffer \o line, sent, j) /\ Len(msgs) = called + (j - i)
          /\ \A k \in 1 .. j - i : msgs[called + k] = decoded[sent[i + k]]
      BY <1>c, <2>1 DEF Progress
    <2>3. CASE DecodeChunk
      <3>1. HasDelim(buffer) /\ called = 0
        BY <1>b, <2>3 DEF DecodeChunk
      <3>2. /\ j + 1 \in 1 .. Len(sent) /\ sent[j + 1] \in Frames
            /\ FirstChunk(buffer) = sent[j + 1]
            /\ Carries(AfterChunk(buffer) \o line, sent, j + 1)
        BY <1>a, <1>b, <1>d, <2>2, <3>1, CarriesChunk
      <3>3. /\ msgs' = Append(msgs, decoded[sent[j + 1]])
            /\ buffer' = AfterChunk(buffer) /\ UNCHANGED <<called, callbacks, out>>
        BY <2>3, <3>2 DEF DecodeChunk, Decodes
      <3>4. decoded[sent[j + 1]] \in Message
        BY <3>2, FramingAssumption
      <3>5. /\ Len(msgs') = Len(msgs) + 1 /\ msgs'[Len(msgs) + 1] = decoded[sent[j + 1]]
            /\ \A k \in 1 .. Len(msgs) : msgs'[k] = msgs[k]
        BY <1>b, <3>3, <3>4, AppendProperties
      <3>6. ASSUME NEW k \in 1 .. (j + 1) - i
            PROVE  msgs'[called' + k] = decoded[sent[i + k]]
        <4>1. CASE k = (j + 1) - i
          <5>1. called' + k = Len(msgs) + 1 /\ i + k = j + 1
            BY <1>b, <1>d, <2>2, <3>1, <3>3, <4>1
          <5> QED
            BY <3>5, <5>1
        <4>2. CASE k # (j + 1) - i
          <5>1. k \in 1 .. j - i /\ called' + k = k /\ called + k = k
                /\ k \in 1 .. Len(msgs)
            BY <1>b, <1>d, <2>2, <3>1, <3>3, <4>2
          <5> QED
            BY <2>2, <3>5, <5>1
        <4> QED
          BY <4>1, <4>2
      <3>7. Len(msgs') = called' + ((j + 1) - i)
        BY <1>b, <1>d, <2>2, <3>1, <3>3, <3>5
      <3>8. Progress(i, j + 1)'
        BY <1>d, <2>1, <3>2, <3>3, <3>6, <3>7 DEF Progress
      <3>9. j + 1 \in i .. Len(sent')
        BY <1>b, <1>d, <2>1, <3>2
      <3> QED
        BY <2>1, <3>8, <3>9 DEF StreamInv
    <2>4. CASE ScanEnd
      BY <2>1, <2>4, <1>q DEF ScanEnd
    <2>5. CASE RunCallback
      <3>1. /\ called < Len(msgs) /\ called' = called + 1
            /\ out' = Dispatch(out, callbacks, msgs[called + 1])
            /\ UNCHANGED <<buffer, msgs, callbacks>>
        BY <2>5 DEF RunCallback
      <3>2. i < j /\ i + 1 \in 1 .. Len(sent) /\ 1 \in 1 .. j - i
        BY <1>b, <1>d, <2>2, <3>1
      <3>3. msgs[called + 1] = decoded[sent[i + 1]]
        BY <2>2, <3>2
      <3>4. out' = CallsAfter(callbacks, sent)[i + 1]
        <4>1. CallsAfter(callbacks, sent)[i + 1]
                = Dispatch(CallsAfter(callbacks, sent)[(i + 1) - 1], callbacks,
                           decoded[sent[i + 1]])
          BY <1>b, <3>2, CallsAfterEquation
        <4>2. (i + 1) - 1 = i
          BY <1>d
        <4> QED
          BY <1>d, <3>1, <3>3, <4>1, <4>2
      <3>5. ASSUME NEW k \in 1 .. j - (i + 1)
            PROVE  msgs'[called' + k] = decoded[sent[(i + 1) + k]]
        <4>1. /\ k + 1 \in 1 .. j - i /\ called' + k = called + (k + 1)
              /\ (i + 1) + k = i + (k + 1)
          BY <1>b, <1>d, <3>1
        <4>2. msgs[called + (k + 1)] = decoded[sent[i + (k + 1)]]
          BY <2>2, <4>1
        <4> QED
          BY <3>1, <4>1, <4>2
      <3>6. Len(msgs') = called' + (j - (i + 1))
        BY <1>b, <1>d, <2>2, <3>1
      <3>7. Progress(i + 1, j)'
        BY <2>1, <2>2, <3>1, <3>4, <3>5, <3>6 DEF Progress
      <3>8. i + 1 \in 0 .. Len(sent') /\ j \in i + 1 .. Len(sent')
        BY <1>b, <1>d, <2>1, <3>2
      <3> QED
        BY <3>7, <3>8 DEF StreamInv
    <2>6. CASE CallbackThrows
      <3>1. turn' = "ended" /\ UNCHANGED <<callbacks, out>>
        BY <2>1, <2>6 DEF CallbackThrows
      <3>2. Progress(i, j)'
        BY <1>d, <2>1, <3>1 DEF Progress
      <3> QED
        BY <2>1, <3>2 DEF StreamInv
    <2>7. CASE ClearMsgs
      <3>1. /\ called = Len(msgs) /\ msgs' = <<>> /\ called' = 0
            /\ UNCHANGED <<buffer, callbacks, out>>
        BY <2>7 DEF ClearMsgs
      <3>2. i = j
        BY <1>b, <1>d, <2>2, <3>1
      <3>3. Len(msgs') = called' + (j - i) /\ \A k \in 1 .. j - i : FALSE
        BY <1>d, <3>1, <3>2
      <3>4. Progress(i, j)'
        BY <1>d, <2>1, <2>2, <3>1, <3>3 DEF Progress
      <3> QED
        BY <2>1, <3>4 DEF StreamInv
    <2> QED
      BY <2>1, <2>3, <2>4, <2>5, <2>6, <2>7 DEF FeedStep
  <1> QED
    BY <1>1, <1>2, <1>3, <1>4, <1>5, <1>6, <1>7 DEF AppNext, Process

-----------------------------------------------------------------------------
(* Datagrams. *)

SentPackets(s) == {s[n] \o <<Delim>> : n \in 1 .. Len(s)}

SentMessages(s) == {decoded[s[n]] : n \in 1 .. Len(s)}

\* With UDP what is on the line, what waits and what was called is of packets that
\* were sent, and between two datagrams nothing is buffered.
DatagramInv ==
    program = "udp" =>
      /\ line \in Seq(SentPackets(sent))
      /\ buffer \in {<<>>} \cup (IF pc = "scan" THEN SentPackets(sent) ELSE {})
      /\ msgs \in Seq(SentMessages(sent))
      /\ \A k \in 1 .. Len(out) : out[k].msg \in SentMessages(sent)

LEMMA DatagramInvInit == AppInit => DatagramInv
  BY EmptySeq DEF AppInit, Init, DatagramInv

\* What was sent stays sent.
LEMMA SentStays ==
    ASSUME NEW s \in Seq(Frames), NEW f \in Frames
    PROVE  /\ SentPackets(s) \subseteq SentPackets(Append(s, f))
           /\ SentMessages(s) \subseteq SentMessages(Append(s, f))
           /\ f \o <<Delim>> \in SentPackets(Append(s, f))
  <1> DEFINE t == Append(s, f)
  <1>1. /\ Len(s) \in Nat /\ Len(t) = Len(s) + 1 /\ t[Len(s) + 1] = f
        /\ \A k \in 1 .. Len(s) : t[k] = s[k]
    BY AppendProperties
  <1> HIDE DEF t
  <1>2. \A k \in 1 .. Len(s) : k \in 1 .. Len(t)
    BY <1>1
  <1>3. SentPackets(s) \subseteq SentPackets(t)
    BY <1>1, <1>2 DEF SentPackets
  <1>4. SentMessages(s) \subseteq SentMessages(t)
    BY <1>1, <1>2 DEF SentMessages
  <1>5. Len(s) + 1 \in 1 .. Len(t)
    BY <1>1
  <1>6. f \o <<Delim>> \in SentPackets(t)
    BY <1>1, <1>5 DEF SentPackets
  <1> QED
    BY <1>3, <1>4, <1>6 DEF t

\* The first chunk of a datagram is its packet, and nothing is left behind it.
LEMMA DatagramChunk ==
    ASSUME NEW f \in Frames
    PROVE  /\ HasDelim(f \o <<Delim>>) /\ FirstChunk(f \o <<Delim>>) = f
           /\ AfterChunk(f \o <<Delim>>) = <<>>
  <1>1. /\ f \in Seq(Byte) /\ <<Delim>> \in Seq(Byte)
        /\ \A i \in 1 .. Len(f) : f[i] # Delim
    BY FrameBytes
  <1>2. f \o <<Delim>> \in Seq(Byte) /\ <<>> \in Seq(Byte)
    BY <1>1, ConcatProperties, EmptySeq
  <1>3. f \o <<Delim>> \o <<>> = f \o <<Delim>>
    BY <1>2, ConcatEmptySeq
  <1> QED
    BY <1>1, <1>2, <1>3, JoinedIsCut

LEMMA DatagramInvNext ==
    ASSUME IInv, PartsInv, DatagramInv, [AppNext]_app_vars
    PROVE  DatagramInv'
  <1> SUFFICES ASSUME program' = "udp" PROVE DatagramInv'
    BY DEF DatagramInv
  <1>a. TypeOK /\ program' = program /\ program = "udp" /\ turn # "caller"
    <2>1. program' = program
      BY DEF AppNext, Process, CallerStep, Load, Loaded, FeedRuns, Write, WriteSends,
         WriteSkips, WriteThrows, PeerSends,
         DatagramLost, Opens, Closes, Data_, TimerFires, app_vars
    <2> QED
      BY <2>1 DEF IInv, SubscriberInv, PartsInv
  <1> DEFINE packets == SentPackets(sent)
             messages == SentMessages(sent)
  <1>b. sent \in Seq(Frames) /\ called \in 0 .. Len(msgs) /\ out \in Seq(Call)
    BY <1>a DEF PartsInv, TypeOK
  <1>c. /\ line \in Seq(packets) /\ msgs \in Seq(messages)
        /\ buffer \in {<<>>} \cup (IF pc = "scan" THEN packets ELSE {})
        /\ \A k \in 1 .. Len(out) : out[k].msg \in messages
    BY <1>a DEF DatagramInv
  <1>r. ASSUME sent' = sent,
               line' \in Seq(packets), msgs' \in Seq(messages),
               buffer' \in {<<>>} \cup (IF pc' = "scan" THEN packets ELSE {}),
               \A k \in 1 .. Len(out') : out'[k].msg \in messages
        PROVE  DatagramInv'
    BY <1>r DEF DatagramInv, SentPackets, SentMessages
  <1> HIDE DEF packets, messages
  <1>q. ASSUME UNCHANGED <<buffer, pc, msgs, out, line, sent>> PROVE DatagramInv'
    BY <1>c, <1>q, <1>r
  <1>1. CASE CallerStep
    BY <1>a, <1>1 DEF CallerStep
  <1>2. ASSUME NEW x \in Index, NEW cb \in Callback, Load(x, cb) PROVE DatagramInv'
    BY <1>2, <1>q DEF Load, Subscribe
  <1>3. CASE Loaded \/ Write \/ TimerFires \/ Opens \/ Closes \/ UNCHANGED app_vars
    BY <1>3, <1>q DEF Loaded, Write, WriteSends, WriteSkips, WriteThrows,
       TimerFires, Opens, Closes, app_vars, vars
  <1>4. ASSUME NEW k \in 1 .. Len(line), DatagramLost(k) PROVE DatagramInv'
    <2>1. line' = Without(k) /\ UNCHANGED <<buffer, pc, msgs, out, sent>>
      BY <1>4 DEF DatagramLost, vars
    <2>2. Without(k) \in Seq(packets)
      BY <1>c, PartType DEF Without
    <2> QED
      BY <1>c, <1>r, <2>1, <2>2
  <1>5. ASSUME NEW f \in PeerFrames, PeerSends(f) PROVE DatagramInv'
    <2>1. /\ line' = Append(line, f \o <<Delim>>) /\ sent' = Append(sent, f)
          /\ UNCHANGED <<buffer, pc, msgs, out>>
      BY <1>5, <1>a DEF PeerSends, vars
    <2> DEFINE packets2 == SentPackets(sent')
               messages2 == SentMessages(sent')
    <2>2. /\ packets \subseteq packets2 /\ messages \subseteq messages2
          /\ f \o <<Delim>> \in packets2
      BY <1>b, <2>1, TsAppsAssumption, SentStays DEF packets, messages
    <2>3. DatagramInv' <=> (program' = "udp" =>
            /\ line' \in Seq(packets2)
            /\ buffer' \in {<<>>} \cup (IF pc' = "scan" THEN packets2 ELSE {})
            /\ msgs' \in Seq(messages2)
            /\ \A k \in 1 .. Len(out') : out'[k].msg \in messages2)
      BY DEF DatagramInv, SentPackets, SentMessages
    <2> HIDE DEF packets2, messages2
    <2>4. line \in Seq(packets2) /\ msgs \in Seq(messages2)
      BY <1>c, <2>2
    <2>5. line' \in Seq(packets2)
      BY <2>1, <2>2, <2>4
    <2> QED
      BY <1>c, <2>1, <2>2, <2>3, <2>4, <2>5
  <1>6. CASE Data_
    <2>1. PICK k \in 1 .. Len(line) :
            Feed(line[k]) /\ (line' = Without(k) \/ line' = line)
      BY <1>6, <1>a DEF Data_
    <2>2. line[k] \in packets /\ Without(k) \in Seq(packets)
      BY <1>c, PartType DEF Without
    <2>3. /\ buffer' = buffer \o line[k] /\ pc' = "scan" /\ pc = "idle"
          /\ sent' = sent /\ UNCHANGED <<msgs, out>>
      BY <1>6, <2>1 DEF Data_, Feed
    <2>4. buffer' = line[k]
      <3>1. buffer = <<>>
        BY <1>c, <2>3
      <3>2. line[k] \in Seq(Byte)
        <4>1. PICK n \in 1 .. Len(sent) : line[k] = sent[n] \o <<Delim>>
          BY <2>2 DEF packets, SentPackets
        <4>2. sent[n] \in Frames
          BY <1>b, ElementOfSeq
        <4> QED
          BY <4>1, <4>2, FrameBytes, ConcatProperties
      <3>3. <<>> \o line[k] = line[k]
        BY <3>2, ConcatEmptySeq
      <3> QED
        BY <2>3, <3>1, <3>3
    <2> QED
      BY <1>c, <1>r, <2>1, <2>2, <2>3, <2>4
  <1>7. CASE FeedRuns
    <2>1. FeedStep /\ UNCHANGED <<line, sent>>
      BY <1>7 DEF FeedRuns
    <2>2. ASSUME pc = "scan", buffer # <<>>
          PROVE  \E n \in 1 .. Len(sent) : /\ buffer = sent[n] \o <<Delim>>
                                           /\ sent[n] \in Frames
      <3>1. PICK n \in 1 .. Len(sent) : buffer = sent[n] \o <<Delim>>
        BY <1>c, <2>2 DEF packets, SentPackets
      <3> QED
        BY <1>b, <3>1, ElementOfSeq
    <2>3. CASE DecodeChunk
      <3>1. pc = "scan" /\ HasDelim(buffer) /\ buffer # <<>>
        BY <2>3, EmptyHasNoDelim DEF DecodeChunk
      <3>2. PICK n \in 1 .. Len(sent) : buffer = sent[n] \o <<Delim>> /\ sent[n] \in Frames
        BY <2>2, <3>1
      <3>3. FirstChunk(buffer) = sent[n] /\ AfterChunk(buffer) = <<>>
        BY <3>2, DatagramChunk
      <3>4. /\ msgs' = Append(msgs, decoded[sent[n]]) /\ buffer' = <<>>
            /\ UNCHANGED out
        BY <2>3, <3>2, <3>3 DEF DecodeChunk, Decodes
      <3>5. decoded[sent[n]] \in messages
        BY DEF messages, SentMessages
      <3>6. msgs' \in Seq(messages)
        BY <1>c, <3>4, <3>5
      <3> QED
        BY <1>c, <1>r, <2>1, <3>4, <3>6
    <2>4. CASE ScanEnd
      <3>1. pc = "scan" /\ ~HasDelim(buffer) /\ UNCHANGED <<buffer, msgs, out>>
        BY <2>4 DEF ScanEnd
      <3>2. buffer = <<>>
        BY <2>2, <3>1, DatagramChunk
      <3> QED
        BY <1>c, <1>r, <2>1, <3>1, <3>2
    <2>5. CASE RunCallback
      <3>1. /\ pc = "calls" /\ called < Len(msgs)
            /\ out' = Dispatch(out, callbacks, msgs[called + 1])
            /\ UNCHANGED <<buffer, pc, msgs>>
        BY <2>5 DEF RunCallback
      <3>2. msgs[called + 1] \in messages
        <4>1. called + 1 \in 1 .. Len(msgs)
          BY <1>b, <3>1
        <4> QED
          BY <1>c, <4>1, ElementOfSeq
      <3>3. \A k \in 1 .. Len(out') : out'[k].msg \in messages
        <4> DEFINE m == msgs[called + 1]
                   c == [to |-> callbacks[m.index], msg |-> m]
        <4>1. out' = Append(out, c) \/ out' = out
          BY <3>1 DEF Dispatch
        <4>2. c.msg = m
          OBVIOUS
        <4> HIDE DEF c
        <4>3. CASE out' = Append(out, c)
          <5>1. /\ Len(out) \in Nat /\ Len(Append(out, c)) = Len(out) + 1
                /\ Append(out, c)[Len(out) + 1] = c
                /\ \A k \in 1 .. Len(out) : Append(out, c)[k] = out[k]
            <6>1. out \in Seq(Call \cup {c}) /\ c \in Call \cup {c}
              BY <1>b
            <6> QED
              BY <6>1, AppendProperties
          <5>2. \A k \in 1 .. Len(out) + 1 : k \in 1 .. Len(out) \/ k = Len(out) + 1
            BY <5>1
          <5> QED
            BY <1>c, <3>2, <4>2, <4>3, <5>1, <5>2
        <4> QED
          BY <1>c, <4>1, <4>3
      <3> QED
        BY <1>c, <1>r, <2>1, <3>1, <3>3
    <2>6. CASE CallbackThrows
      <3>1. pc = "calls" /\ UNCHANGED <<buffer, msgs, out>>
        BY <2>6 DEF CallbackThrows
      <3> QED
        BY <1>c, <1>r, <2>1, <3>1
    <2>7. CASE ClearMsgs
      <3>1. pc = "calls" /\ msgs' = <<>> /\ UNCHANGED <<buffer, out>>
        BY <2>7 DEF ClearMsgs
      <3>2. <<>> \in Seq(messages)
        BY EmptySeq
      <3> QED
        BY <1>c, <1>r, <2>1, <3>1, <3>2
    <2> QED
      BY <2>1, <2>3, <2>4, <2>5, <2>6, <2>7 DEF FeedStep
  <1> QED
    BY <1>1, <1>2, <1>3, <1>4, <1>5, <1>6, <1>7 DEF AppNext, Process

\* Whatever the peer sends and however it is cut, a serial port or a connection makes
\* the calls of what was sent, in order and without a gap; of datagrams that are lost,
\* repeated or reordered every call is of one that was sent, and none leaves anything
\* behind for the next.
THEOREM TsDeliversOnlySent == AppSpec => []OnlyWhatWasSent
  <1>1. AppInit => PartsInv /\ StreamInv /\ DatagramInv
    BY StreamInvInit, DatagramInvInit, EmptySeq DEF AppInit, Init, PartsInv
  <1>2. /\ IInv /\ LineTypeOK /\ AppInv /\ PartsInv /\ StreamInv /\ DatagramInv
        /\ [AppNext]_app_vars
        => PartsInv' /\ StreamInv' /\ DatagramInv'
    BY PartsNext, StreamInvNext, DatagramInvNext DEF AppInv, AppPart
  <1>3. IInv /\ PartsInv /\ StreamInv /\ DatagramInv => OnlyWhatWasSent
    <2> SUFFICES ASSUME IInv, PartsInv, StreamInv, DatagramInv PROVE OnlyWhatWasSent
      OBVIOUS
    <2>a. TypeOK /\ sent \in Seq(Frames) /\ Len(sent) \in Nat
      BY DEF IInv, SubscriberInv, PartsInv
    <2>1. ASSUME program \in {"serial", "tcp"}
          PROVE  IsPrefix(out, CallsFor(callbacks, sent))
      <3>1. PICK i \in 0 .. Len(sent) : \E j \in i .. Len(sent) : Progress(i, j)
        BY <2>1 DEF StreamInv
      <3>2. out = CallsAfter(callbacks, sent)[i]
        BY <3>1 DEF Progress
      <3>3. Len(sent) \in i .. Len(sent)
        BY <2>a
      <3>4. /\ DOMAIN callbacks \subseteq Index
            /\ callbacks \in [DOMAIN callbacks -> Callback]
        BY <2>a DEF TypeOK
      <3> QED
        BY <2>a, <3>2, <3>3, <3>4, CallsAfterPrefix DEF CallsFor
    <2>2. ASSUME program = "udp"
          PROVE  /\ \A k \in DOMAIN out : \E j \in DOMAIN sent : out[k].msg = decoded[sent[j]]
                 /\ pc = "idle" => buffer = <<>>
      <3>1. /\ pc = "idle" => buffer = <<>>
            /\ \A k \in 1 .. Len(out) : out[k].msg \in SentMessages(sent)
        BY <2>2 DEF DatagramInv
      <3>2. DOMAIN out = 1 .. Len(out) /\ DOMAIN sent = 1 .. Len(sent)
        BY <2>a DEF TypeOK
      <3> QED
        BY <3>1, <3>2 DEF SentMessages
    <2> QED
      BY <2>1, <2>2 DEF OnlyWhatWasSent, IsPrefix
  <1> QED
    BY <1>1, <1>2, <1>3, AppIInv, TsNothingLeftBehind, PTL DEF AppSpec

=============================================================================
