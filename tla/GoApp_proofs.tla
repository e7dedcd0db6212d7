---------------------------- MODULE GoApp_proofs -----------------------------
(***************************************************************************)
(* Proofs about the Go subscriber inside its applications, for any packets,*)
(* checksum function, callbacks and bounds: what Feed() leaves behind, that*)
(* a goroutine nobody disturbs gets the checksum of its data, that the     *)
(* subscriber implements FrameStream in every other step than the check of *)
(* a packet whose checksum the writer has disturbed, and that the race     *)
(* only drops messages.                                                    *)
(***************************************************************************)
EXTENDS GoApp, Framing_proofs

-----------------------------------------------------------------------------
(* Every step of an application is one of the subscriber, touches nothing of *)
(* it but the hash, or none of it.                                         *)

ReadVars == <<buffer, pc, chunk, acc, msgs, called, callbacks, out, feeds>>

SubscriberStep ==
    \/ \E input \in Seq(Byte) : Feed(input)
    \/ FeedStep
    \/ \E i \in Index, cb \in Callback : Subscribe(i, cb)
    \/ \E i \in Index : Unsubscribe(i)

HashStep == hash' \in Crc /\ UNCHANGED ReadVars

\* The line and the writer.
AppTypeOK ==
    /\ port \in Seq(Byte)
    /\ wpc \in {"caller", "setup", "encode", "load", "store", "write", "exited"}
    /\ wacc \in Crc
    /\ wpc \in {"load", "store", "write"} => job \in Messages

LEMMA AppStep ==
    ASSUME TypeOK, AppTypeOK, [AppNext]_app_vars
    PROVE  AppTypeOK' /\ (SubscriberStep \/ HashStep)
  <1>a. hash \in Crc /\ acc \in Crc
    BY DEF TypeOK
  <1>1. CASE CallerStep
    BY <1>1, GoAssumption
       DEF CallerStep, Calls, SubscriberStep, AppTypeOK, writer_vars
  <1>2. ASSUME NEW f \in PeerFrames, PeerSends(f)
        PROVE  AppTypeOK' /\ HashStep
    <2>1. f \in Seq(Byte) /\ <<Delim>> \in Seq(Byte)
      BY GoAppAssumption, FramingAssumption
    <2>2. port \o f \o <<Delim>> \in Seq(Byte)
      BY <2>1 DEF AppTypeOK
    <2> QED
      BY <1>a, <1>2, <2>2
         DEF PeerSends, AppTypeOK, HashStep, ReadVars, vars, writer_vars
  <1>3. ASSUME NEW i \in Index, NEW cb \in Callback, Setup(i, cb)
        PROVE  AppTypeOK' /\ SubscriberStep
    BY <1>3 DEF Setup, SubscriberStep, AppTypeOK, writer_vars
  <1>4. ASSUME NEW n \in 1 .. ReadMax, Read(n)
        PROVE  AppTypeOK' /\ SubscriberStep
    <2>1. n \in 1 .. Len(port) /\ \A i \in 1 .. Len(port) : port[i] \in Byte
      BY <1>4, GoAppAssumption, ElementOfSeq DEF Read, AppTypeOK
    <2>2. /\ SubSeq(port, 1, n) \in Seq(Byte)
          /\ SubSeq(port, n + 1, Len(port)) \in Seq(Byte)
      BY <2>1, SubSeqProperties DEF AppTypeOK
    <2> QED
      BY <1>4, <2>2 DEF Read, SubscriberStep, AppTypeOK, writer_vars
  <1>5. CASE ReaderStep
    BY <1>5 DEF ReaderStep, SubscriberStep, AppTypeOK, writer_vars
  <1>6. ASSUME NEW m \in Messages, WriterReset(m)
        PROVE  AppTypeOK' /\ HashStep
    BY <1>6, GoAssumption DEF WriterReset, HashStep, ReadVars, AppTypeOK
  <1>7. CASE WriterStore
    <2>1. job.data \in Data
      BY <1>7, GoAppAssumption DEF WriterStore, AppTypeOK, Message
    <2>2. crcUpdate[wacc, job.data] \in Crc
      BY <2>1, GoAssumption DEF AppTypeOK
    <2> QED
      BY <1>7, <2>2 DEF WriterStore, HashStep, ReadVars, AppTypeOK
  <1>8. CASE WriterLoad \/ WriterWrite \/ WriteError \/ LineFails \/ ReadError \/ Start
    BY <1>a, <1>8 DEF WriterLoad, WriterWrite, WriteError, LineFails, ReadError,
       Start, vars, writer_vars, HashStep, ReadVars, AppTypeOK
  <1>9. CASE UNCHANGED app_vars
    BY <1>a, <1>9 DEF app_vars, vars, writer_vars, HashStep, ReadVars, AppTypeOK
  <1> QED
    BY <1>1, <1>2, <1>3, <1>4, <1>5, <1>6, <1>7, <1>8, <1>9
       DEF AppNext, Reader, Writer

-----------------------------------------------------------------------------
(* The invariant of the subscriber. *)

\* The callbacks run once nothing is left to cut.
CallsInv == pc = "calls" => ~HasDelim(buffer)

IInv == SubscriberInv /\ CallsInv

LEMMA EmptyHasNoDelim == ~HasDelim(<<>>)
  BY DEF HasDelim

LEMMA IInvInit == Init => IInv
  <1> SUFFICES ASSUME Init PROVE IInv
    OBVIOUS
  <1>1. TypeOK
    <2>1. /\ callbacks \in [DOMAIN callbacks -> Callback]
          /\ DOMAIN callbacks \subseteq Index
      BY DEF Init
    <2>2. /\ buffer \in Seq(Byte) /\ chunk \in Seq(Byte) /\ pc = "idle"
          /\ msgs \in Seq(Message) /\ out \in Seq(Call)
          /\ called = 0 /\ called \in 0 .. Len(msgs) /\ feeds \in Nat
      BY DEF Init
    <2>3. acc \in Crc /\ hash \in Crc
      BY GoAssumption DEF Init
    <2> QED
      BY <2>1, <2>2, <2>3 DEF TypeOK, Decoding
  <1>2. NothingLeftBehind /\ CallsInv
    BY EmptyHasNoDelim DEF Init, NothingLeftBehind, CallsInv
  <1> QED
    BY <1>1, <1>2 DEF IInv, SubscriberInv

\* The packet in the hands of Decode().
LEMMA ParsedType ==
    ASSUME TypeOK, Decoding
    PROVE  /\ chunk \in Chunks /\ parsed[chunk].crc \in Crc
           /\ parsed[chunk].data \in Data
           /\ [index |-> parsed[chunk].index, data |-> parsed[chunk].data] \in Message
  <1>1. chunk \in Chunks
    BY DEF TypeOK
  <1>2. parsed[chunk] \in [index : Index, data : Data, crc : Crc]
    BY <1>1, GoAssumption
  <1> QED
    BY <1>1, <1>2 DEF Message

LEMMA IInvNext ==
    ASSUME IInv, SubscriberStep \/ HashStep
    PROVE  IInv'
  <1>a. TypeOK /\ NothingLeftBehind /\ CallsInv
    BY DEF IInv, SubscriberInv
  <1> SUFFICES TypeOK' /\ NothingLeftBehind' /\ CallsInv'
    BY DEF IInv, SubscriberInv
  <1>1. ASSUME NEW input \in Seq(Byte), Feed(input)
        PROVE  TypeOK' /\ NothingLeftBehind' /\ CallsInv'
    BY <1>a, <1>1 DEF Feed, TypeOK, NothingLeftBehind, CallsInv, Decoding
  <1>2. CASE TakeChunk
    <2>1. AfterChunk(buffer) \in Seq(Byte) /\ FirstChunk(buffer) \in Seq(Byte)
      BY <1>a, <1>2, AfterChunkType, CutIsJoined DEF TakeChunk, TypeOK
    <2> QED
      BY <1>a, <1>2, <2>1
         DEF TakeChunk, TypeOK, NothingLeftBehind, CallsInv, Decoding
  <1>3. CASE Reset \/ Load \/ Store
    <2>1. hash' \in Crc /\ acc' \in Crc
      <3>1. pc = "store" => crcUpdate[acc, parsed[chunk].data] \in Crc
        BY <1>a, ParsedType, GoAssumption DEF Decoding, TypeOK
      <3> QED
        BY <1>a, <1>3, <3>1, GoAssumption DEF Reset, Load, Store, TypeOK
    <2>2. /\ Decoding /\ Decoding' /\ pc' \in {"load", "store", "check"}
          /\ UNCHANGED <<buffer, chunk, msgs, called, callbacks, out, feeds>>
      BY <1>3 DEF Reset, Load, Store, Decoding
    <2> QED
      BY <1>a, <2>1, <2>2 DEF TypeOK, NothingLeftBehind, CallsInv, Decoding
  <1>4. CASE Check
    <2>1. Decoding /\ msgs \in Seq(Message)
      BY <1>a, <1>4 DEF Check, Decoding, TypeOK
    <2>2. msgs' \in Seq(Message)
      BY <1>a, <1>4, <2>1, ParsedType DEF Check
    <2>3. called = 0 /\ called' = 0
      BY <1>a, <1>4 DEF Check, TypeOK
    <2> QED
      BY <1>a, <1>4, <2>2, <2>3
         DEF Check, TypeOK, NothingLeftBehind, CallsInv, Decoding
  <1>5. CASE ScanEnd
    BY <1>a, <1>5 DEF ScanEnd, TypeOK, NothingLeftBehind, CallsInv, Decoding
  <1>6. CASE RunCallback
    <2>1. msgs[called + 1] \in Message /\ called + 1 \in 0 .. Len(msgs)
      BY <1>a, <1>6 DEF RunCallback, TypeOK
    <2>2. out' \in Seq(Call)
      BY <1>a, <1>6, <2>1, DispatchType DEF RunCallback, TypeOK
    <2> QED
      BY <1>a, <1>6, <2>1, <2>2
         DEF RunCallback, TypeOK, NothingLeftBehind, CallsInv, Decoding
  <1>7. CASE ClearMsgs
    BY <1>a, <1>7 DEF ClearMsgs, TypeOK, NothingLeftBehind, CallsInv, Decoding
  <1>8. ASSUME NEW i \in Index, NEW cb \in Callback, Subscribe(i, cb)
        PROVE  TypeOK' /\ NothingLeftBehind' /\ CallsInv'
    BY <1>a, <1>8, CallbacksType
       DEF Subscribe, TypeOK, NothingLeftBehind, CallsInv, Decoding
  <1>9. ASSUME NEW i \in Index, Unsubscribe(i)
        PROVE  TypeOK' /\ NothingLeftBehind' /\ CallsInv'
    BY <1>a, <1>9
       DEF Unsubscribe, TypeOK, NothingLeftBehind, CallsInv, Decoding, WithoutCallback
  <1>10. CASE HashStep
    BY <1>a, <1>10
       DEF HashStep, ReadVars, TypeOK, NothingLeftBehind, CallsInv, Decoding
  <1> QED
    BY <1>1, <1>2, <1>3, <1>4, <1>5, <1>6, <1>7, <1>8, <1>9, <1>10
       DEF SubscriberStep, FeedStep

LEMMA AppIInv == AppSpec => [](IInv /\ AppTypeOK)
  <1>1. AppInit => IInv /\ AppTypeOK
    <2> SUFFICES ASSUME AppInit PROVE IInv /\ AppTypeOK
      OBVIOUS
    <2>1. port = <<>> /\ wacc = Zero /\ wpc \in {"setup", "caller"}
      BY DEF AppInit
    <2>2. port \in Seq(Byte)
      BY <2>1
    <2>3. wacc \in Crc
      BY <2>1, GoAssumption
    <2> QED
      BY <2>1, <2>2, <2>3, IInvInit DEF AppInit, AppTypeOK
  <1>2. IInv /\ AppTypeOK /\ [AppNext]_app_vars => IInv' /\ AppTypeOK'
    BY AppStep, IInvNext DEF IInv, SubscriberInv
  <1> QED
    BY <1>1, <1>2, PTL DEF AppSpec

\* In every state of an application the subscriber has its types, and a call of
\* Feed() that returns has left neither a complete packet nor a message behind,
\* whatever the writer does to the checksum meanwhile.
THEOREM GoNothingLeftBehind == AppSpec => []SubscriberInv
  <1>1. IInv => SubscriberInv
    BY DEF IInv
  <1> QED
    BY <1>1, AppIInv, PTL

-----------------------------------------------------------------------------
(* The checksum. *)

\* What a goroutine that is alone has in the hash, step by step.
ReaderAlone ==
    "reader" \in alone =>
      /\ pc = "load" => hash = Zero
      /\ pc = "store" => acc = Zero
      /\ pc = "check" => hash = Checksum(parsed[chunk].data)

WriterAlone ==
    "writer" \in alone =>
      /\ wpc = "load" => hash = Zero
      /\ wpc = "store" => wacc = Zero
      /\ wpc = "write" => hash = Checksum(job.data)

AloneInv == ReaderAlone /\ WriterAlone

LEMMA AloneNext ==
    ASSUME AloneInv, [AppNext]_app_vars
    PROVE  AloneInv'
  <1>a. ReaderAlone /\ WriterAlone
    BY DEF AloneInv
  <1> SUFFICES ReaderAlone' /\ WriterAlone'
    BY DEF AloneInv
  <1>1. CASE CallerStep
    <2>1. /\ pc' \in {"idle", "scan"} /\ wpc = "caller"
          /\ UNCHANGED <<hash, writer_vars, alone>>
      BY <1>1 DEF CallerStep, Calls, Feed, Subscribe, Unsubscribe
    <2> QED
      BY <2>1 DEF ReaderAlone, WriterAlone, writer_vars
  <1>2. ASSUME NEW i \in Index, NEW cb \in Callback, Setup(i, cb)
        PROVE  ReaderAlone' /\ WriterAlone'
    BY <1>a, <1>2 DEF Setup, Subscribe, writer_vars, ReaderAlone, WriterAlone
  <1>3. ASSUME NEW n \in 1 .. ReadMax, Read(n)
        PROVE  ReaderAlone' /\ WriterAlone'
    BY <1>a, <1>3 DEF Read, Feed, writer_vars, ReaderAlone, WriterAlone
  <1>4. CASE ReaderStep
    <2>1. UNCHANGED writer_vars
      BY <1>4 DEF ReaderStep
    <2>2. CASE Reset
      <3>1. pc = "reset" /\ pc' = "load" /\ hash' = Zero /\ alone' = {"reader"}
        BY <1>4, <2>2 DEF ReaderStep, Reset
      <3> QED
        BY <3>1 DEF ReaderAlone, WriterAlone
    <2>3. CASE Load
      <3>1. /\ pc = "load" /\ pc' = "store" /\ acc' = hash
            /\ UNCHANGED <<hash, alone>>
        BY <1>4, <2>3 DEF ReaderStep, Load
      <3> QED
        BY <1>a, <2>1, <3>1 DEF ReaderAlone, WriterAlone, writer_vars
    <2>4. CASE Store
      <3>1. /\ pc = "store" /\ pc' = "check" /\ chunk' = chunk
            /\ hash' = crcUpdate[acc, parsed[chunk].data]
            /\ alone' = IF hash' # hash THEN alone \cap {"reader"} ELSE alone
        BY <1>4, <2>4 DEF ReaderStep, Store
      <3>2. ReaderAlone'
        BY <1>a, <3>1 DEF ReaderAlone, Checksum
      <3>3. WriterAlone'
        BY <1>a, <2>1, <3>1 DEF WriterAlone, writer_vars
      <3> QED
        BY <3>2, <3>3
    <2>5. CASE TakeChunk \/ Check \/ ScanEnd \/ RunCallback \/ ClearMsgs
      <3>1. /\ pc \in {"scan", "check", "calls"}
            /\ pc' \in {"scan", "reset", "calls", "idle"}
            /\ UNCHANGED hash
        BY <2>5 DEF TakeChunk, Check, ScanEnd, RunCallback, ClearMsgs
      <3>2. alone' = alone
        BY <1>4, <3>1 DEF ReaderStep
      <3> QED
        BY <1>a, <2>1, <3>1, <3>2 DEF ReaderAlone, WriterAlone, writer_vars
    <2> QED
      BY <1>4, <2>2, <2>3, <2>4, <2>5 DEF ReaderStep, FeedStep
  <1>5. ASSUME NEW m \in Messages, WriterReset(m)
        PROVE  ReaderAlone' /\ WriterAlone'
    BY <1>5 DEF WriterReset, ReaderAlone, WriterAlone
  <1>6. CASE WriterLoad
    BY <1>a, <1>6 DEF WriterLoad, vars, ReaderAlone, WriterAlone
  <1>7. CASE WriterStore
    BY <1>a, <1>7 DEF WriterStore, ReaderAlone, WriterAlone, Checksum
  <1>8. CASE WriterWrite \/ WriteError \/ LineFails \/ ReadError \/ Start
    BY <1>a, <1>8 DEF WriterWrite, WriteError, LineFails, ReadError, Start, vars,
       writer_vars, ReaderAlone, WriterAlone
  <1>9. ASSUME NEW f \in PeerFrames, PeerSends(f)
        PROVE  ReaderAlone' /\ WriterAlone'
    BY <1>a, <1>9 DEF PeerSends, vars, writer_vars, ReaderAlone, WriterAlone
  <1>10. CASE UNCHANGED app_vars
    BY <1>a, <1>10 DEF app_vars, vars, writer_vars, ReaderAlone, WriterAlone
  <1> QED
    BY <1>1, <1>2, <1>3, <1>4, <1>5, <1>6, <1>7, <1>8, <1>9, <1>10
       DEF AppNext, Reader, Writer

LEMMA AppAlone == AppSpec => []AloneInv
  <1>1. AppInit => AloneInv
    BY DEF AppInit, AloneInv, ReaderAlone, WriterAlone
  <1> QED
    BY <1>1, AloneNext, PTL DEF AppSpec

\* A goroutine whose checksum nobody has touched since its Reset() has the checksum
\* of its own data when it uses it, however the two are scheduled.
THEOREM GoUndisturbed == AppSpec => []UndisturbedChecksum
  <1>1. AloneInv => UndisturbedChecksum
    BY DEF AloneInv, ReaderAlone, WriterAlone, UndisturbedChecksum
  <1> QED
    BY <1>1, AppAlone, PTL

-----------------------------------------------------------------------------
(* FrameStream. *)

LEMMA StreamFraming ==
    ASSUME NEW s
    PROVE  /\ Stream!HasDelim(s) = HasDelim(s)
           /\ Stream!FirstDelim(s) = FirstDelim(s)
           /\ Stream!FirstChunk(s) = FirstChunk(s)
           /\ Stream!AfterChunk(s) = AfterChunk(s)
           /\ Stream!Decodes(s) = Decodes(s)
  <1>1. Stream!FirstDelim(s) = FirstDelim(s)
    BY DEF Stream!FirstDelim, FirstDelim
  <1>2. Stream!HasDelim(s) = HasDelim(s)
    BY DEF Stream!HasDelim, HasDelim
  <1>3. Stream!FirstChunk(s) = FirstChunk(s) /\ Stream!AfterChunk(s) = AfterChunk(s)
    BY <1>1 DEF Stream!FirstChunk, FirstChunk, Stream!AfterChunk, AfterChunk
  <1>4. Stream!Decodes(s) = Decodes(s)
    BY DEF Stream!Decodes, Decodes
  <1> QED
    BY <1>1, <1>2, <1>3, <1>4

LEMMA StreamCalls ==
    ASSUME NEW calls, NEW cbs, NEW m, NEW i, NEW cb
    PROVE  /\ Stream!Dispatch(calls, cbs, m) = Dispatch(calls, cbs, m)
           /\ Stream!WithCallback(cbs, i, cb) = WithCallback(cbs, i, cb)
           /\ Stream!WithoutCallback(cbs, i) = WithoutCallback(cbs, i)
  BY DEF Stream!Dispatch, Dispatch, Stream!WithCallback, WithCallback,
         Stream!WithoutCallback, WithoutCallback

\* The bytes and the queue of FrameStream.
Unframed == IF Decoding THEN chunk \o <<Delim>> \o buffer ELSE buffer

Left == SubSeq(msgs, called + 1, Len(msgs))

LEMMA StreamStutter ==
    ASSUME UNCHANGED <<Unframed, Left, callbacks, out>>
    PROVE  UNCHANGED Stream!stream_vars
  BY DEF Stream!stream_vars, Left, Unframed

LEMMA NothingLeft == SubSeq(<<>>, 0 + 1, Len(<<>>)) = <<>>
  OBVIOUS

LEMMA StreamInit == Init => Stream!Init
  BY NothingLeft DEF Init, Stream!Init, Decoding

\* The chunk Decode() works on is what FrameStream cuts off, and it decodes when
\* its checksum is right.
LEMMA ChunkIsFirst ==
    ASSUME TypeOK, Decoding
    PROVE  /\ HasDelim(Unframed) /\ FirstChunk(Unframed) = chunk
           /\ AfterChunk(Unframed) = buffer
           /\ Decodes(chunk) <=> parsed[chunk].crc = Checksum(parsed[chunk].data)
           /\ Decodes(chunk) =>
                decoded[chunk] = [index |-> parsed[chunk].index,
                                  data |-> parsed[chunk].data]
  <1>1. chunk \in Chunks /\ chunk \in Seq(Byte) /\ buffer \in Seq(Byte)
    BY DEF TypeOK
  <1>2. \A i \in 1 .. Len(chunk) : chunk[i] # Delim
    <2>1. chunk \in Seq(Byte \ {Delim})
      BY <1>1, GoAssumption
    <2> QED
      BY <2>1, ElementOfSeq
  <1>3. Unframed = chunk \o <<Delim>> \o buffer
    BY DEF Unframed
  <1>4. /\ HasDelim(Unframed) /\ FirstChunk(Unframed) = chunk
        /\ AfterChunk(Unframed) = buffer
    BY <1>1, <1>2, <1>3, JoinedIsCut
  <1>5. Decodes(chunk) <=> parsed[chunk].crc = Checksum(parsed[chunk].data)
    BY <1>1, GoAssumption DEF Decodes, Checksum
  <1>6. Decodes(chunk) => decoded[chunk] = [index |-> parsed[chunk].index,
                                            data |-> parsed[chunk].data]
    BY GoAssumption DEF Decodes
  <1> QED
    BY <1>4, <1>5, <1>6

\* While no callback has run the queue is all of the messages.
LEMMA LeftIsAll == ASSUME TypeOK, called = 0 PROVE Left = msgs
  <1>1. msgs \in Seq(Message) /\ called + 1 = 1
    BY DEF TypeOK
  <1> QED
    BY <1>1, SubSeqFull DEF Left

LEMMA StreamNext ==
    ASSUME IInv, IInv', ReaderAlone, SubscriberStep \/ HashStep
    PROVE  [(pc = "check" /\ "reader" \notin alone)
              \/ Stream!Next]_(Stream!stream_vars)
  <1>a. TypeOK /\ TypeOK'
    BY DEF IInv, SubscriberInv
  <1>1. ASSUME NEW input \in Seq(Byte), Feed(input) PROVE Stream!Next
    <2>1. /\ buffer' \in Seq(Byte) /\ Len(buffer) <= Len(buffer')
          /\ SubSeq(buffer', 1, Len(buffer)) = buffer
      BY <1>a, <1>1, PrefixOfConcat DEF Feed, TypeOK
    <2>2. ~Decoding /\ ~Decoding' /\ UNCHANGED <<msgs, called, callbacks, out>>
      BY <1>1 DEF Feed, Decoding
    <2>3. Stream!Arrive
      BY <2>1, <2>2 DEF Stream!Arrive
    <2> QED
      BY <2>3 DEF Stream!Next
  <1>2. CASE TakeChunk
    <2>1. /\ HasDelim(buffer) /\ ~Decoding /\ pc = "scan"
          /\ chunk' = FirstChunk(buffer) /\ buffer' = AfterChunk(buffer)
          /\ UNCHANGED <<msgs, called, callbacks, out>>
      BY <1>2 DEF TakeChunk, Decoding
    <2>2. CASE chunk' \in Chunks
      <3>1. Decoding'
        BY <1>2, <2>2 DEF TakeChunk, Decoding
      <3>2. Unframed' = buffer
        BY <1>a, <2>1, <3>1, CutIsJoined DEF Unframed, TypeOK
      <3>3. Unframed' = Unframed
        BY <2>1, <3>2 DEF Unframed
      <3> QED
        BY <2>1, <3>3, StreamStutter DEF Left
    <2>3. CASE chunk' \notin Chunks
      <3>1. ~Decoding'
        BY <1>2, <2>3 DEF TakeChunk, Decoding
      <3>2. ~Decodes(FirstChunk(buffer))
        BY <2>1, <2>3, GoAssumption DEF Decodes
      <3>3. Stream!Frame
        BY <2>1, <3>1, <3>2, StreamFraming DEF Stream!Frame
      <3> QED
        BY <3>3 DEF Stream!Next
    <2> QED
      BY <2>2, <2>3
  <1>3. CASE Reset \/ Load \/ Store
    <2>1. /\ Decoding /\ Decoding'
          /\ UNCHANGED <<buffer, chunk, msgs, called, callbacks, out>>
      BY <1>3 DEF Reset, Load, Store, Decoding
    <2> QED
      BY <2>1, StreamStutter DEF Unframed, Left
  <1>4. ASSUME Check, "reader" \in alone PROVE Stream!Next
    <2>1. /\ Decoding /\ ~Decoding' /\ called = 0 /\ called' = 0
          /\ UNCHANGED <<buffer, callbacks, out>>
      BY <1>a, <1>4 DEF Check, Decoding, TypeOK
    <2>2. hash = Checksum(parsed[chunk].data)
      BY <1>4 DEF Check, ReaderAlone
    <2>3. msgs' = IF Decodes(chunk) THEN Append(msgs, decoded[chunk]) ELSE msgs
      BY <1>a, <1>4, <2>1, <2>2, ChunkIsFirst DEF Check
    <2>4. Left = msgs /\ Left' = msgs'
      <3>1. Left' = msgs'
        <4>1. msgs' \in Seq(Message) /\ called' + 1 = 1
          BY <1>a, <2>1 DEF TypeOK
        <4> QED
          BY <4>1, SubSeqFull DEF Left
      <3> QED
        BY <1>a, <2>1, <3>1, LeftIsAll
    <2>5. Unframed' = buffer
      BY <2>1 DEF Unframed
    <2>6. /\ Stream!HasDelim(Unframed) /\ Unframed' = Stream!AfterChunk(Unframed)
          /\ Left' = IF Stream!Decodes(Stream!FirstChunk(Unframed))
                     THEN Append(Left, decoded[Stream!FirstChunk(Unframed)])
                     ELSE Left
      BY <1>a, <2>1, <2>3, <2>4, <2>5, ChunkIsFirst, StreamFraming
    <2>7. Stream!Frame
      BY <2>1, <2>6 DEF Stream!Frame, Unframed, Left
    <2> QED
      BY <2>7 DEF Stream!Next
  <1>5. CASE Check /\ "reader" \notin alone
    BY <1>5 DEF Check
  <1>6. CASE ScanEnd
    BY <1>6, StreamStutter DEF ScanEnd, Unframed, Left, Decoding
  <1>7. CASE RunCallback
    <2>1. /\ called \in 0 .. Len(msgs) /\ called < Len(msgs) /\ msgs \in Seq(Message)
          /\ ~Decoding /\ ~Decoding' /\ UNCHANGED <<buffer, callbacks>>
      BY <1>a, <1>7 DEF RunCallback, TypeOK, Decoding
    <2>2. /\ Left # <<>> /\ Head(Left) = msgs[called + 1]
          /\ Tail(Left) = SubSeq(msgs, called + 1 + 1, Len(msgs))
      BY <2>1, QueueStep DEF Left
    <2>3. Left' = Tail(Left)
      BY <1>7, <2>2 DEF RunCallback, Left
    <2>4. out' = Stream!Dispatch(out, callbacks, Head(Left))
      BY <1>7, <2>2, StreamCalls DEF RunCallback
    <2>5. Stream!Deliver
      BY <2>1, <2>2, <2>3, <2>4 DEF Stream!Deliver, Left
    <2> QED
      BY <2>5 DEF Stream!Next
  <1>8. CASE ClearMsgs
    <2>1. called = Len(msgs) /\ msgs \in Seq(Message)
      BY <1>a, <1>8 DEF ClearMsgs, TypeOK
    <2>2. Left = <<>>
      BY <2>1 DEF Left
    <2>3. /\ msgs' = <<>> /\ called' = 0 /\ UNCHANGED <<buffer, callbacks, out>>
          /\ ~Decoding /\ ~Decoding'
      BY <1>8 DEF ClearMsgs, Decoding
    <2>4. Left' = <<>>
      BY <2>3, NothingLeft DEF Left
    <2>5. Unframed' = Unframed
      BY <2>3 DEF Unframed
    <2> QED
      BY <2>2, <2>3, <2>4, <2>5, StreamStutter
  <1>9. ASSUME NEW i \in Index, NEW cb \in Callback, Subscribe(i, cb)
        PROVE  Stream!Next
    <2>1. ~Decoding /\ ~Decoding'
      BY <1>9 DEF Subscribe, Decoding
    <2>2. Stream!SetCallback(i, cb)
      BY <1>9, <2>1, StreamCalls DEF Subscribe, Stream!SetCallback
    <2> QED
      BY <2>2 DEF Stream!Next
  <1>10. ASSUME NEW i \in Index, Unsubscribe(i) PROVE Stream!Next
    <2>1. ~Decoding /\ ~Decoding'
      BY <1>10 DEF Unsubscribe, Decoding
    <2>2. Stream!RemoveCallback(i)
      BY <1>10, <2>1, StreamCalls DEF Unsubscribe, Stream!RemoveCallback
    <2> QED
      BY <2>2 DEF Stream!Next
  <1>11. CASE HashStep
    BY <1>11, StreamStutter DEF HashStep, ReadVars, Unframed, Left, Decoding
  <1> QED
    BY <1>1, <1>2, <1>3, <1>4, <1>5, <1>6, <1>7, <1>8, <1>9, <1>10, <1>11
       DEF SubscriberStep, FeedStep

\* The Go subscriber in its programs and under any caller implements FrameStream,
\* every message once and in order, in every step but one: the check of a packet
\* whose checksum the writer has touched.
THEOREM GoImplementsFrameStream == AppSpec => RefinesUnlessDisturbed
  <1>1. /\ IInv /\ AppTypeOK /\ AloneInv /\ IInv' /\ [AppNext]_app_vars
        => [(pc = "check" /\ "reader" \notin alone)
              \/ Stream!Next]_(Stream!stream_vars)
    BY AppStep, StreamNext DEF IInv, SubscriberInv, AloneInv
  <1>2. AppInit => Stream!Init
    BY StreamInit DEF AppInit
  <1> QED
    BY <1>1, <1>2, AppIInv, AppAlone, PTL DEF AppSpec, RefinesUnlessDisturbed

-----------------------------------------------------------------------------
(* Calls and messages that are left out. *)

\* Nothing is a part of everything, and a part of what begins a sequence is a part of
\* the sequence.
LEMMA NothingIsSubsequence == \A t : IsSubsequence(<<>>, t)
  <1> SUFFICES ASSUME NEW t PROVE IsSubsequence(<<>>, t)
    OBVIOUS
  <1> DEFINE at == [k \in 1 .. 0 |-> k]
  <1>1. 1 .. Len(<<>>) = {} /\ 1 .. 0 = {}
    OBVIOUS
  <1>2. at \in [1 .. Len(<<>>) -> 1 .. Len(t)]
    BY <1>1
  <1> HIDE DEF at
  <1> QED
    BY <1>1, <1>2 DEF IsSubsequence

LEMMA SubsequenceOfPrefix ==
    ASSUME NEW S, NEW s \in Seq(S), NEW t \in Seq(S), NEW u \in Seq(S),
           IsSubsequence(s, t), IsPrefix(t, u)
    PROVE  IsSubsequence(s, u)
  <1>1. PICK at \in [1 .. Len(s) -> 1 .. Len(t)] :
          /\ \A j, k \in 1 .. Len(s) : j < k => at[j] < at[k]
          /\ \A k \in 1 .. Len(s) : s[k] = t[at[k]]
    BY DEF IsSubsequence
  <1>2. Len(t) \in Nat /\ Len(u) \in Nat /\ Len(t) <= Len(u)
    BY DEF IsPrefix
  <1>3. \A k \in 1 .. Len(t) : t[k] = u[k] /\ k \in 1 .. Len(u)
    <2>1. t = SubSeq(u, 1, Len(t))
      BY DEF IsPrefix
    <2>2. \A k \in 1 .. Len(t) : SubSeq(u, 1, Len(t))[k] = u[k]
      BY <1>2
    <2> QED
      BY <1>2, <2>1, <2>2
  <1>4. at \in [1 .. Len(s) -> 1 .. Len(u)]
    BY <1>3
  <1>5. \A k \in 1 .. Len(s) : s[k] = u[at[k]]
    BY <1>1, <1>3
  <1> QED
    BY <1>1, <1>4, <1>5 DEF IsSubsequence

\* A part stays a part when both are dispatched the same message.
LEMMA DispatchSubsequence ==
    ASSUME NEW cbs, DOMAIN cbs \subseteq Index, cbs \in [DOMAIN cbs -> Callback],
           NEW m \in Message, NEW s \in Seq(Call), NEW t \in Seq(Call),
           IsSubsequence(s, t)
    PROVE  IsSubsequence(Dispatch(s, cbs, m), Dispatch(t, cbs, m))
  <1> DEFINE c == [to |-> cbs[m.index], msg |-> m]
             taken == m.index \in DOMAIN cbs /\ m.data \in Accepts[cbs[m.index]]
             s2 == Append(s, c)
             t2 == Append(t, c)
  <1>1. CASE ~taken
    BY <1>1 DEF Dispatch
  <1>2. CASE taken
    <2>1. Dispatch(s, cbs, m) = s2 /\ Dispatch(t, cbs, m) = t2
      BY <1>2 DEF Dispatch
    <2>2. c \in Call
      BY <1>2 DEF Call
    <2> HIDE DEF c
    <2>3. /\ Len(s) \in Nat /\ Len(s2) = Len(s) + 1 /\ s2[Len(s) + 1] = c
          /\ \A k \in 1 .. Len(s) : s2[k] = s[k]
          /\ Len(t) \in Nat /\ Len(t2) = Len(t) + 1 /\ t2[Len(t) + 1] = c
          /\ \A k \in 1 .. Len(t) : t2[k] = t[k]
      BY <2>2, AppendProperties
    <2> HIDE DEF s2, t2
    <2>4. PICK at \in [1 .. Len(s) -> 1 .. Len(t)] :
            /\ \A j, k \in 1 .. Len(s) : j < k => at[j] < at[k]
            /\ \A k \in 1 .. Len(s) : s[k] = t[at[k]]
      BY DEF IsSubsequence
    <2> DEFINE at2 == [k \in 1 .. Len(s2) |-> IF k = Len(s2) THEN Len(t2) ELSE at[k]]
    <2>5. /\ \A k \in 1 .. Len(s) : at2[k] = at[k] /\ at[k] \in 1 .. Len(t)
          /\ at2[Len(s) + 1] = Len(t) + 1
          /\ \A k \in 1 .. Len(s2) : k \in 1 .. Len(s) \/ k = Len(s) + 1
      BY <2>3
    <2>6. at2 \in [1 .. Len(s2) -> 1 .. Len(t2)]
      BY <2>3, <2>4
    <2> HIDE DEF at2
    <2>7. \A j, k \in 1 .. Len(s2) : j < k => at2[j] < at2[k]
      <3> SUFFICES ASSUME NEW j \in 1 .. Len(s2), NEW k \in 1 .. Len(s2), j < k
                   PROVE  at2[j] < at2[k]
        OBVIOUS
      <3>1. j \in 1 .. Len(s)
        BY <2>3
      <3>2. CASE k \in 1 .. Len(s)
        BY <2>4, <2>5, <3>1, <3>2
      <3>3. CASE k = Len(s) + 1
        <4>1. at2[j] \in 1 .. Len(t) /\ at2[k] = Len(t) + 1
          BY <2>5, <3>1, <3>3
        <4> QED
          BY <2>3, <4>1
      <3> QED
        BY <2>5, <3>2, <3>3
    <2>8. \A k \in 1 .. Len(s2) : s2[k] = t2[at2[k]]
      <3> SUFFICES ASSUME NEW k \in 1 .. Len(s2) PROVE s2[k] = t2[at2[k]]
        OBVIOUS
      <3>1. CASE k \in 1 .. Len(s)
        BY <2>3, <2>4, <2>5, <3>1
      <3>2. CASE k = Len(s) + 1
        BY <2>3, <2>5, <3>2
      <3> QED
        BY <2>5, <3>1, <3>2
    <2> QED
      BY <2>1, <2>6, <2>7, <2>8 DEF IsSubsequence
  <1> QED
    BY <1>1, <1>2

\* The messages of q are, in this order, of packets of s behind the i-th and not
\* behind the j-th.
Waiting(q, s, i, j) ==
    \E at \in [1 .. Len(q) -> i + 1 .. j] :
      /\ \A k, n \in 1 .. Len(q) : k < n => at[k] < at[n]
      /\ \A k \in 1 .. Len(q) : q[k] = decoded[s[at[k]]]

LEMMA NothingWaits == \A s, i, j : Waiting(<<>>, s, i, j)
  <1> SUFFICES ASSUME NEW s, NEW i, NEW j PROVE Waiting(<<>>, s, i, j)
    OBVIOUS
  <1> DEFINE at == [k \in 1 .. 0 |-> k]
  <1>1. 1 .. Len(<<>>) = {} /\ 1 .. 0 = {}
    OBVIOUS
  <1>2. at \in [1 .. Len(<<>>) -> i + 1 .. j]
    BY <1>1
  <1> HIDE DEF at
  <1> QED
    BY <1>1, <1>2 DEF Waiting

\* The packet after the j-th is dropped, or its message waits behind the others.
LEMMA WaitingMore ==
    ASSUME NEW q \in Seq(Message), NEW s \in Seq(Frames), NEW i \in Nat, NEW j \in Nat,
           i <= j, j + 1 \in 1 .. Len(s), Waiting(q, s, i, j)
    PROVE  /\ Waiting(q, s, i, j + 1)
           /\ Waiting(Append(q, decoded[s[j + 1]]), s, i, j + 1)
  <1> DEFINE m == decoded[s[j + 1]]
             r == Append(q, m)
  <1>1. PICK at \in [1 .. Len(q) -> i + 1 .. j] :
          /\ \A k, n \in 1 .. Len(q) : k < n => at[k] < at[n]
          /\ \A k \in 1 .. Len(q) : q[k] = decoded[s[at[k]]]
    BY DEF Waiting
  <1>2. \A k \in i + 1 .. j : k \in i + 1 .. j + 1
    OBVIOUS
  <1>3. at \in [1 .. Len(q) -> i + 1 .. j + 1]
    BY <1>2
  <1>4. Waiting(q, s, i, j + 1)
    BY <1>1, <1>3 DEF Waiting
  <1>5. m \in Message
    <2>1. s[j + 1] \in Frames
      BY ElementOfSeq
    <2> QED
      BY <2>1, FramingAssumption
  <1> HIDE DEF m
  <1>6. /\ Len(q) \in Nat /\ Len(r) = Len(q) + 1 /\ r[Len(q) + 1] = m
        /\ \A k \in 1 .. Len(q) : r[k] = q[k]
    BY <1>5, AppendProperties
  <1> HIDE DEF r
  <1> DEFINE at2 == [k \in 1 .. Len(r) |-> IF k = Len(r) THEN j + 1 ELSE at[k]]
  <1>7. /\ \A k \in 1 .. Len(q) : at2[k] = at[k] /\ at[k] \in i + 1 .. j
        /\ at2[Len(q) + 1] = j + 1
        /\ \A k \in 1 .. Len(r) : k \in 1 .. Len(q) \/ k = Len(q) + 1
    <2>1. /\ \A k \in 1 .. Len(q) : k \in 1 .. Len(r) /\ k # Len(r)
          /\ Len(q) + 1 \in 1 .. Len(r)
          /\ \A k \in 1 .. Len(r) : k \in 1 .. Len(q) \/ k = Len(q) + 1
      BY <1>6
    <2>2. \A k \in 1 .. Len(q) : at[k] \in i + 1 .. j
      BY <1>1
    <2>3. \A k \in 1 .. Len(q) : at2[k] = at[k]
      BY <2>1
    <2>4. at2[Len(q) + 1] = j + 1
      BY <1>6, <2>1
    <2> QED
      BY <2>1, <2>2, <2>3, <2>4
  <1>8. at2 \in [1 .. Len(r) -> i + 1 .. j + 1]
    <2>1. j + 1 \in i + 1 .. j + 1
      OBVIOUS
    <2> QED
      BY <1>2, <1>6, <1>7, <2>1
  <1> HIDE DEF at2
  <1>9. \A k, n \in 1 .. Len(r) : k < n => at2[k] < at2[n]
    <2> SUFFICES ASSUME NEW k \in 1 .. Len(r), NEW n \in 1 .. Len(r), k < n
                 PROVE  at2[k] < at2[n]
      OBVIOUS
    <2>1. k \in 1 .. Len(q)
      BY <1>6
    <2>2. CASE n \in 1 .. Len(q)
      BY <1>1, <1>7, <2>1, <2>2
    <2>3. CASE n = Len(q) + 1
      <3>1. at2[k] \in i + 1 .. j /\ at2[n] = j + 1
        BY <1>7, <2>1, <2>3
      <3> QED
        BY <3>1
    <2> QED
      BY <1>7, <2>2, <2>3
  <1>10. \A k \in 1 .. Len(r) : r[k] = decoded[s[at2[k]]]
    BY <1>1, <1>6, <1>7 DEF m
  <1>11. Waiting(r, s, i, j + 1)
    BY <1>8, <1>9, <1>10 DEF Waiting
  <1> QED
    BY <1>4, <1>11 DEF r, m

\* The first message that waits is of a packet behind the i-th, the others of later
\* ones.
LEMMA WaitingFirst ==
    ASSUME NEW q \in Seq(Message), q # <<>>, NEW s, NEW i \in Nat, NEW j \in Nat,
           Waiting(q, s, i, j)
    PROVE  \E n \in i + 1 .. j : /\ Head(q) = decoded[s[n]]
                                 /\ Waiting(Tail(q), s, n, j)
  <1> DEFINE r == Tail(q)
  <1>1. PICK at \in [1 .. Len(q) -> i + 1 .. j] :
          /\ \A k, n \in 1 .. Len(q) : k < n => at[k] < at[n]
          /\ \A k \in 1 .. Len(q) : q[k] = decoded[s[at[k]]]
    BY DEF Waiting
  <1>2. /\ Len(q) \in Nat \ {0} /\ Head(q) = q[1] /\ Len(r) = Len(q) - 1
        /\ \A k \in 1 .. Len(r) : r[k] = q[k + 1]
    BY HeadTailProperties, EmptySeq
  <1> HIDE DEF r
  <1>3. 1 \in 1 .. Len(q)
    BY <1>2
  <1>4. at[1] \in i + 1 .. j /\ Head(q) = decoded[s[at[1]]]
    BY <1>1, <1>2, <1>3
  <1>5. \A k \in 1 .. Len(r) : /\ k + 1 \in 1 .. Len(q) /\ 1 < k + 1
                               /\ at[k + 1] \in i + 1 .. j
    BY <1>2
  <1>6. \A k \in 1 .. Len(r) : at[k + 1] \in at[1] + 1 .. j
    <2> SUFFICES ASSUME NEW k \in 1 .. Len(r) PROVE at[k + 1] \in at[1] + 1 .. j
      OBVIOUS
    <2>1. at[1] < at[k + 1]
      BY <1>1, <1>3, <1>5
    <2> QED
      BY <1>4, <1>5, <2>1
  <1> DEFINE at2 == [k \in 1 .. Len(r) |-> at[k + 1]]
  <1>7. at2 \in [1 .. Len(r) -> at[1] + 1 .. j]
    BY <1>6
  <1>8. \A k, n \in 1 .. Len(r) : k < n => at2[k] < at2[n]
    <2> SUFFICES ASSUME NEW k \in 1 .. Len(r), NEW n \in 1 .. Len(r), k < n
                 PROVE  at[k + 1] < at[n + 1]
      OBVIOUS
    <2>1. k + 1 < n + 1 /\ k + 1 \in 1 .. Len(q) /\ n + 1 \in 1 .. Len(q)
      BY <1>5
    <2> QED
      BY <1>1, <2>1
  <1>9. \A k \in 1 .. Len(r) : r[k] = decoded[s[at2[k]]]
    BY <1>1, <1>2, <1>5
  <1> HIDE DEF at2
  <1>10. Waiting(r, s, at[1], j)
    BY <1>7, <1>8, <1>9 DEF Waiting
  <1> QED
    BY <1>4, <1>10 DEF r

\* What waits is not disturbed by what the peer sends later.
LEMMA WaitingSent ==
    ASSUME NEW q \in Seq(Message), NEW s \in Seq(Frames), NEW f \in Frames,
           NEW i \in Nat, NEW j \in Nat, j <= Len(s), Waiting(q, s, i, j)
    PROVE  Waiting(q, Append(s, f), i, j)
  <1> DEFINE t == Append(s, f)
  <1>1. PICK at \in [1 .. Len(q) -> i + 1 .. j] :
          /\ \A k, n \in 1 .. Len(q) : k < n => at[k] < at[n]
          /\ \A k \in 1 .. Len(q) : q[k] = decoded[s[at[k]]]
    BY DEF Waiting
  <1>2. Len(s) \in Nat /\ \A k \in 1 .. Len(s) : t[k] = s[k]
    BY AppendProperties
  <1> HIDE DEF t
  <1>3. \A k \in 1 .. Len(q) : at[k] \in 1 .. Len(s)
    BY <1>2
  <1>4. \A k \in 1 .. Len(q) : q[k] = decoded[t[at[k]]]
    BY <1>1, <1>2, <1>3
  <1>5. Waiting(q, t, i, j)
    BY <1>1, <1>4 DEF Waiting
  <1> QED
    BY <1>5 DEF t

-----------------------------------------------------------------------------
(* What the race can do to the calls. *)

\* The calls are some of those of the first i packets; j are framed, and of the
\* messages of those between some wait; the bytes that are not framed, the chunk in
\* the hands of Decode() among them, and those on the line carry the others.
Progress(i, j) ==
    /\ IsSubsequence(out, CallsAfter(callbacks, sent)[i])
    /\ Waiting(Left, sent, i, j)
    /\ Carries(Unframed \o port, sent, j)

RaceInv ==
    /\ sent \in Seq(Frames)
    /\ wpc = "setup" => out = <<>>
    /\ wpc # "caller" => \E i \in 0 .. Len(sent) : \E j \in i .. Len(sent) : Progress(i, j)

LEMMA RaceInvInit == AppInit => RaceInv
  <1> SUFFICES ASSUME AppInit PROVE RaceInv
    OBVIOUS
  <1>1. /\ sent = <<>> /\ out = <<>> /\ buffer = <<>> /\ port = <<>>
        /\ msgs = <<>> /\ called = 0 /\ pc = "idle"
    BY DEF AppInit, Init
  <1>2. <<>> \o <<>> = <<>> /\ Len(<<>>) = 0 /\ <<>> \in Seq(Frames)
    BY EmptySeq
  <1>3. Left = <<>> /\ Unframed = <<>>
    BY <1>1, NothingLeft DEF Left, Unframed, Decoding
  <1>4. Progress(0, 0)
    BY <1>1, <1>2, <1>3, CarriesNothing, NothingWaits, NothingIsSubsequence DEF Progress
  <1>5. 0 \in 0 .. Len(sent)
    BY <1>1, <1>2
  <1> QED
    BY <1>1, <1>2, <1>4, <1>5 DEF RaceInv

LEMMA RaceInvNext ==
    ASSUME IInv, IInv', AppTypeOK, RaceInv, [AppNext]_app_vars
    PROVE  RaceInv'
  <1>a. /\ TypeOK /\ TypeOK' /\ sent \in Seq(Frames) /\ Len(sent) \in Nat
        /\ port \in Seq(Byte) /\ buffer \in Seq(Byte) /\ msgs \in Seq(Message)
        /\ callbacks \in [DOMAIN callbacks -> Callback] /\ out \in Seq(Call)
        /\ DOMAIN callbacks \subseteq Index
    BY DEF IInv, SubscriberInv, RaceInv, AppTypeOK, TypeOK
  <1>b. wpc' = "caller" <=> wpc = "caller"
    <2>1. CASE \/ CallerStep \/ ReaderStep \/ UNCHANGED app_vars
               \/ \E f \in PeerFrames : PeerSends(f)
               \/ \E i \in Index, cb \in Callback : Setup(i, cb)
               \/ \E n \in 1 .. ReadMax : Read(n)
      BY <2>1 DEF CallerStep, ReaderStep, PeerSends, Setup, Read, writer_vars, app_vars
    <2>2. CASE Start \/ LineFails \/ ReadError \/ Writer \/ WriteError
      BY <2>2 DEF Start, LineFails, ReadError, Running, Writer, WriterReset,
         WriterLoad, WriterStore, WriterWrite, WriteError, writer_vars
    <2> QED
      BY <2>1, <2>2 DEF AppNext, Reader
  <1>c. CASE wpc = "caller"
    <2>1. sent' = sent
      BY <1>c DEF AppNext, Reader, Writer, CallerStep, PeerSends, Setup, Start, Read,
         LineFails, ReadError, ReaderStep, WriterReset, WriterLoad, WriterStore,
         WriterWrite, WriteError, Running, app_vars
    <2> QED
      BY <1>a, <1>b, <1>c, <2>1 DEF RaceInv
  <1>d. ASSUME wpc # "caller" PROVE RaceInv'
    <2>1. PICK i \in 0 .. Len(sent) : \E j \in i .. Len(sent) : Progress(i, j)
      BY <1>d DEF RaceInv
    <2>2. PICK j \in i .. Len(sent) : Progress(i, j)
      BY <2>1
    <2>a. /\ i \in Nat /\ j \in Nat /\ i <= j /\ j <= Len(sent)
          /\ i \in 0 .. Len(sent) /\ j \in 0 .. Len(sent)
      BY <1>a, <2>1, <2>2
    <2>b. /\ IsSubsequence(out, CallsAfter(callbacks, sent)[i])
          /\ Waiting(Left, sent, i, j)
          /\ Carries(Unframed \o port, sent, j)
      BY <2>2 DEF Progress
    <2>c. Unframed \in Seq(Byte) /\ Left \in Seq(Message)
      <3>1. Unframed \in Seq(Byte)
        <4>1. chunk \in Seq(Byte) /\ <<Delim>> \in Seq(Byte)
          BY <1>a, FramingAssumption DEF TypeOK
        <4>2. chunk \o <<Delim>> \o buffer \in Seq(Byte)
          BY <1>a, <4>1, ConcatProperties
        <4> QED
          BY <1>a, <4>2 DEF Unframed
      <3>2. Left \in Seq(Message)
        <4>1. \A k \in called + 1 .. Len(msgs) : msgs[k] \in Message
          BY <1>a DEF TypeOK
        <4>2. called + 1 \in Nat /\ Len(msgs) \in Nat
          BY <1>a DEF TypeOK
        <4> QED
          BY <4>1, <4>2, SubSeqProperties DEF Left
      <3> QED
        BY <3>1, <3>2
    \* The step leaves alone what the invariant is about, or the witnesses move.
    <2>q. ASSUME UNCHANGED <<Unframed, Left, callbacks, out, port, sent>>,
                 wpc' = "setup" => wpc = "setup"
          PROVE  RaceInv'
      <3>1. Progress(i, j)'
        BY <2>2, <2>q DEF Progress, Left, Unframed, Decoding
      <3> QED
        BY <1>a, <2>q, <3>1 DEF RaceInv
    <2>m. ASSUME NEW x \in 0 .. Len(sent), NEW y \in x .. Len(sent), Progress(x, y)',
                 sent' = sent, wpc' # "setup"
          PROVE  RaceInv'
      BY <1>a, <2>m DEF RaceInv
    <2>3. CASE CallerStep
      BY <1>d, <2>3 DEF CallerStep
    <2>4. ASSUME NEW f \in PeerFrames, PeerSends(f) PROVE RaceInv'
      <3>1. /\ port' = port \o f \o <<Delim>> /\ sent' = Append(sent, f)
            /\ UNCHANGED <<buffer, pc, chunk, msgs, called, callbacks, out, wpc>>
        BY <2>4 DEF PeerSends, vars, writer_vars
      <3>2. f \in Frames
        BY GoAppAssumption
      <3>3. Left' = Left /\ Unframed' = Unframed
        BY <3>1 DEF Left, Unframed, Decoding
      <3>4. sent' \in Seq(Frames) /\ Len(sent') = Len(sent) + 1
        BY <1>a, <3>1, <3>2, AppendProperties
      <3>5. CallsAfter(callbacks', sent')[i] = CallsAfter(callbacks, sent)[i]
        BY <1>a, <2>a, <3>1, <3>2, CallsAfterAppend
      <3>6. Waiting(Left, Append(sent, f), i, j)
        BY <1>a, <2>a, <2>b, <2>c, <3>2, WaitingSent
      <3>7. Carries(Unframed \o (port \o f \o <<Delim>>), Append(sent, f), j)
        BY <1>a, <2>a, <2>b, <2>c, <3>2, CarriesSent
      <3>8. Progress(i, j)'
        BY <2>b, <3>1, <3>3, <3>5, <3>6, <3>7 DEF Progress
      <3>9. i \in 0 .. Len(sent') /\ j \in i .. Len(sent')
        BY <1>a, <2>a, <3>4
      <3> QED
        BY <3>1, <3>4, <3>8, <3>9 DEF RaceInv
    <2>5. ASSUME NEW x \in Index, NEW cb \in Callback, Setup(x, cb) PROVE RaceInv'
      <3>1. /\ wpc = "setup" /\ wpc' = "setup"
            /\ UNCHANGED <<buffer, pc, chunk, msgs, called, out, port, sent>>
        BY <2>5 DEF Setup, Subscribe, writer_vars
      <3>2. out' = <<>>
        BY <3>1 DEF RaceInv
      <3>3. Left' = Left /\ Unframed' = Unframed
        BY <3>1 DEF Left, Unframed, Decoding
      <3>4. Progress(i, j)'
        BY <2>b, <3>1, <3>2, <3>3, NothingIsSubsequence DEF Progress
      <3> QED
        BY <1>a, <3>1, <3>2, <3>4 DEF RaceInv
    <2>6. ASSUME NEW n \in 1 .. ReadMax, Read(n) PROVE RaceInv'
      <3>1. /\ buffer' = buffer \o SubSeq(port, 1, n) /\ sent' = sent
            /\ port' = SubSeq(port, n + 1, Len(port)) /\ n <= Len(port)
            /\ pc = "idle" /\ pc' = "scan" /\ wpc' # "setup"
            /\ UNCHANGED <<msgs, called, callbacks, out>>
        BY <2>6 DEF Read, Feed, writer_vars, Running
      <3>2. Unframed = buffer /\ Unframed' = buffer' /\ Left' = Left
        BY <3>1 DEF Unframed, Decoding, Left
      <3>3. n \in 0 .. Len(port)
        BY <1>a, <3>1, GoAppAssumption
      <3>4. Carries(Unframed' \o port', sent, j)
        BY <1>a, <2>b, <3>1, <3>2, <3>3, CarriesRead
      <3>5. Progress(i, j)'
        BY <2>b, <3>1, <3>2, <3>4 DEF Progress
      <3> QED
        BY <2>m, <3>1, <3>5
    <2>7. CASE ReaderStep
      <3>a. FeedStep /\ UNCHANGED <<port, sent, wpc>> /\ wpc' # "setup"
        BY <1>d, <2>7 DEF ReaderStep, writer_vars, Running
      <3>1. CASE TakeChunk
        <4>1. /\ HasDelim(buffer) /\ ~Decoding /\ chunk' = FirstChunk(buffer)
              /\ buffer' = AfterChunk(buffer)
              /\ UNCHANGED <<msgs, called, callbacks, out>>
          BY <3>1 DEF TakeChunk, Decoding
        <4>2. Unframed = buffer
          BY <4>1 DEF Unframed
        <4>3. chunk' \in Frames
          BY <1>a, <2>a, <2>b, <4>1, <4>2, CarriesChunk
        <4>4. Decoding'
          BY <3>1, <4>3, GoAssumption DEF TakeChunk, Decoding
        <4>5. Unframed' = Unframed
          BY <1>a, <4>1, <4>2, <4>4, CutIsJoined DEF Unframed
        <4> QED
          BY <2>q, <3>a, <4>1, <4>5 DEF Left
      <3>2. CASE Reset \/ Load \/ Store \/ ScanEnd
        <4>1. /\ (Decoding <=> Decoding')
              /\ UNCHANGED <<buffer, chunk, msgs, called, callbacks, out>>
          BY <3>2 DEF Reset, Load, Store, ScanEnd, Decoding
        <4> QED
          BY <2>q, <3>a, <4>1 DEF Left, Unframed
      <3>3. CASE Check
        <4>1. /\ Decoding /\ ~Decoding' /\ called = 0 /\ called' = 0
              /\ UNCHANGED <<buffer, callbacks, out>>
          BY <1>a, <3>3 DEF Check, Decoding, TypeOK
        <4>2. /\ j + 1 \in 1 .. Len(sent) /\ chunk = sent[j + 1]
              /\ chunk \in Frames /\ Carries(buffer \o port, sent, j + 1)
          <5>1. /\ HasDelim(Unframed) /\ FirstChunk(Unframed) = chunk
                /\ AfterChunk(Unframed) = buffer
            BY <1>a, <4>1, ChunkIsFirst
          <5> QED
            BY <1>a, <2>a, <2>b, <2>c, <5>1, CarriesChunk
        <4>3. msgs' = msgs \/ msgs' = Append(msgs, decoded[sent[j + 1]])
          BY <1>a, <3>3, <4>1, <4>2, ChunkIsFirst DEF Check, Decodes
        <4>4. Left = msgs /\ Left' = msgs'
          <5>1. msgs' \in Seq(Message) /\ called' + 1 = 1
            BY <1>a, <4>1 DEF TypeOK
          <5>2. Left' = msgs'
            BY <5>1, SubSeqFull DEF Left
          <5> QED
            BY <1>a, <4>1, <5>2, LeftIsAll
        <4>5. Waiting(Left', sent, i, j + 1)
          BY <1>a, <2>a, <2>b, <4>2, <4>3, <4>4, WaitingMore
        <4>6. Unframed' = buffer
          BY <4>1 DEF Unframed
        <4>7. Progress(i, j + 1)'
          BY <2>b, <3>a, <4>1, <4>2, <4>5, <4>6 DEF Progress
        <4>8. j + 1 \in i .. Len(sent)
          BY <1>a, <2>a, <4>2
        <4> QED
          BY <2>m, <3>a, <4>7, <4>8
      <3>4. CASE RunCallback
        <4>1. /\ called \in 0 .. Len(msgs) /\ called < Len(msgs)
              /\ ~Decoding /\ ~Decoding' /\ UNCHANGED <<buffer, callbacks>>
          BY <1>a, <3>4 DEF RunCallback, TypeOK, Decoding
        <4>2. /\ Left # <<>> /\ Head(Left) = msgs[called + 1]
              /\ Tail(Left) = SubSeq(msgs, called + 1 + 1, Len(msgs))
          BY <1>a, <4>1, QueueStep DEF Left
        <4>3. Left' = Tail(Left)
          BY <3>4, <4>2 DEF RunCallback, Left
        <4>4. PICK n \in i + 1 .. j : /\ Head(Left) = decoded[sent[n]]
                                     /\ Waiting(Tail(Left), sent, n, j)
          BY <2>a, <2>b, <2>c, <4>2, WaitingFirst
        <4>5. /\ n \in 1 .. Len(sent) /\ n - 1 \in i .. Len(sent) /\ j \in n .. Len(sent)
              /\ n \in 0 .. Len(sent) /\ n - 1 \in 0 .. Len(sent)
          BY <1>a, <2>a
        <4> DEFINE before == CallsAfter(callbacks, sent)[n - 1]
        <4>6. IsSubsequence(out, before)
          <5>1. IsPrefix(CallsAfter(callbacks, sent)[i], before)
            BY <1>a, <2>a, <4>5, CallsAfterPrefix
          <5>2. before \in Seq(Call) /\ CallsAfter(callbacks, sent)[i] \in Seq(Call)
            BY <1>a, <2>a, <4>5, CallsAfterType
          <5> QED
            BY <1>a, <2>b, <5>1, <5>2, SubsequenceOfPrefix
        <4>7. before \in Seq(Call) /\ decoded[sent[n]] \in Message
          <5>1. sent[n] \in Frames
            BY <1>a, <4>5, ElementOfSeq
          <5> QED
            BY <1>a, <4>5, <5>1, CallsAfterType, FramingAssumption
        <4>8. CallsAfter(callbacks, sent)[n] = Dispatch(before, callbacks, decoded[sent[n]])
          BY <1>a, <4>5, CallsAfterEquation
        <4>9. out' = Dispatch(out, callbacks, decoded[sent[n]])
          BY <3>4, <4>2, <4>4 DEF RunCallback
        <4>10. IsSubsequence(out', CallsAfter(callbacks, sent)[n])
          <5> HIDE DEF before
          <5> QED
            BY <1>a, <4>6, <4>7, <4>8, <4>9, DispatchSubsequence
        <4>11. Unframed' = Unframed
          BY <4>1 DEF Unframed
        <4>12. Carries(Unframed \o port, sent, j) /\ Waiting(Left', sent, n, j)
          BY <2>b, <4>3, <4>4
        <4>13. Progress(n, j)'
          BY <3>a, <4>1, <4>10, <4>11, <4>12 DEF Progress
        <4> QED
          BY <2>m, <3>a, <4>5, <4>13
      <3>5. CASE ClearMsgs
        <4>1. called = Len(msgs) /\ msgs' = <<>> /\ called' = 0 /\ ~Decoding /\ ~Decoding'
              /\ UNCHANGED <<buffer, callbacks, out>>
          BY <3>5 DEF ClearMsgs, Decoding
        <4>2. Left' = <<>> /\ Unframed' = Unframed
          BY <4>1, NothingLeft DEF Left, Unframed
        <4>3. Progress(i, j)'
          BY <2>b, <3>a, <4>1, <4>2, NothingWaits DEF Progress
        <4> QED
          BY <2>m, <3>a, <4>3
      <3> QED
        BY <3>a, <3>1, <3>2, <3>3, <3>4, <3>5 DEF FeedStep
    <2>8. ASSUME NEW m \in Messages, WriterReset(m) PROVE RaceInv'
      BY <2>8, <2>q DEF WriterReset, Unframed, Left, Decoding
    <2>9. CASE \/ WriterLoad \/ WriterStore \/ WriterWrite \/ WriteError
               \/ LineFails \/ ReadError \/ Start
      BY <2>9, <2>q DEF WriterLoad, WriterStore, WriterWrite, WriteError, LineFails,
         ReadError, Start, vars, writer_vars, Unframed, Left, Decoding
    <2>10. CASE UNCHANGED app_vars
      BY <2>10, <2>q DEF app_vars, vars, writer_vars, Unframed, Left, Decoding
    <2> QED
      BY <2>3, <2>4, <2>5, <2>6, <2>7, <2>8, <2>9, <2>10 DEF AppNext, Reader, Writer
  <1> QED
    BY <1>c, <1>d

\* Whatever main() does to the checksum while the reader checks a packet: callbacks get
\* what the peer has sent, some messages left out, none invented, repeated or moved.
THEOREM GoRaceOnlyDrops == AppSpec => []RaceOnlyDrops
  <1>1. IInv /\ AppTypeOK /\ IInv' /\ RaceInv /\ [AppNext]_app_vars => RaceInv'
    BY RaceInvNext
  <1>2. IInv /\ RaceInv => RaceOnlyDrops
    <2> SUFFICES ASSUME IInv, RaceInv, wpc # "caller"
                 PROVE  IsSubsequence(out, CallsFor(callbacks, sent))
      BY DEF RaceOnlyDrops
    <2>a. /\ sent \in Seq(Frames) /\ Len(sent) \in Nat /\ out \in Seq(Call)
          /\ callbacks \in [DOMAIN callbacks -> Callback]
          /\ DOMAIN callbacks \subseteq Index
      BY DEF IInv, SubscriberInv, RaceInv, TypeOK
    <2>1. PICK i \in 0 .. Len(sent) : \E j \in i .. Len(sent) : Progress(i, j)
      BY DEF RaceInv
    <2>2. IsSubsequence(out, CallsAfter(callbacks, sent)[i])
      BY <2>1 DEF Progress
    <2>3. Len(sent) \in i .. Len(sent) /\ Len(sent) \in 0 .. Len(sent)
      BY <2>a
    <2>4. IsPrefix(CallsAfter(callbacks, sent)[i], CallsFor(callbacks, sent))
      BY <2>a, <2>3, CallsAfterPrefix DEF CallsFor
    <2>5. /\ CallsAfter(callbacks, sent)[i] \in Seq(Call)
          /\ CallsFor(callbacks, sent) \in Seq(Call)
      BY <2>a, <2>3, CallsAfterType DEF CallsFor
    <2> QED
      BY <2>a, <2>2, <2>4, <2>5, SubsequenceOfPrefix
  <1> QED
    BY <1>1, <1>2, RaceInvInit, AppIInv, PTL DEF AppSpec

=============================================================================
