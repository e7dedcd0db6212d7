--------------------------- MODULE Sketches_proofs ---------------------------
(***************************************************************************)
(* Proofs about CppSubscriber and about the sketches that extend it.       *)
(* CppSubscriber, for any streams, payloads, subscriptions and heap: its   *)
(* types, and that every call gets the values of its own packet.           *)
(* The sketches, for any sketch of their two kinds, any streams, payloads, *)
(* documents and packets: an update() posts what one packet left in the    *)
(* variables, an answer of the ArduinoJson sketches is merged from the     *)
(* newest document that had each key, the sketches with a lambda take the  *)
(* steps of Echo, and each half of a sketch takes only the steps of its    *)
(* own module.                                                             *)
(***************************************************************************)
EXTENDS Sketches, FiniteSetTheorems, WellFoundedInduction, TLAPS

-----------------------------------------------------------------------------
(* CppSubscriber: calls and unpackers. *)

Call == [kind : {"bind", "tuple", "json", "always"}, to : BoundVars \cup Callbacks,
         packet : Packet, value : Values]

\* What the callbacks rely on: one runs for a packet, and calls are made of one.
CallsOK == calls \in Seq(Call) /\ (todo # {} => cur # NoPacket)

\* A packet waits in the line of its own stream.
LineOK == \A s \in Streams : \A k \in DOMAIN line[s] : line[s][k].stream = s

LEMMA NoPacketIsNone == NoPacket \notin Packet
  <1>1. \A p \in Packet : DOMAIN p = {"stream", "index", "payload"}
    BY DEF Packet
  <1>2. DOMAIN NoPacket = {"stream"}
    BY DEF NoPacket
  <1> QED
    BY <1>1, <1>2

\* The heap is larger than what the map and the sketch hold.
LEMMA FreeUnpacker ==
    ASSUME TypeOK, NEW s \in Streams, s \notin DOMAIN decoders
    PROVE  \E u \in Unpackers : u \notin Used \cup {held}
  <1> DEFINE D == DOMAIN decoders
  <1>1. IsFiniteSet(Streams) /\ Cardinality(Streams) \in Nat
    BY CppSubscriberAssumption, FS_CardinalityType
  <1>2. /\ IsFiniteSet(Streams \ {s})
        /\ Cardinality(Streams \ {s}) = Cardinality(Streams) - 1
    BY <1>1, FS_RemoveElement
  <1>3. D \subseteq Streams \ {s}
    BY DEF TypeOK
  <1>4. IsFiniteSet(D) /\ Cardinality(D) <= Cardinality(Streams) - 1
    BY <1>2, <1>3, FS_Subset
  <1>5. decoders \in Surjection(D, Used)
    BY DEF TypeOK, Used, Surjection
  <1>6. IsFiniteSet(Used) /\ Cardinality(Used) <= Cardinality(D)
    BY <1>4, <1>5, FS_Surjection
  <1>7. /\ IsFiniteSet(Used \cup {held})
        /\ Cardinality(Used \cup {held}) <= Cardinality(Used) + 1
    <2>1. Cardinality(Used) \in Nat
      BY <1>6, FS_CardinalityType
    <2>2. /\ IsFiniteSet(Used \cup {held})
          /\ Cardinality(Used \cup {held}) =
               IF held \in Used THEN Cardinality(Used) ELSE Cardinality(Used) + 1
      BY <1>6, FS_AddElement
    <2> QED
      BY <2>1, <2>2
  <1>8. /\ Cardinality(D) \in Nat /\ Cardinality(Used) \in Nat
        /\ Cardinality(Used \cup {held}) \in Nat
        /\ Cardinality(Unpackers) \in Nat
        /\ Cardinality(Unpackers) > Cardinality(Streams)
    BY <1>4, <1>6, <1>7, FS_CardinalityType, CppSubscriberAssumption
  <1>9. ~(Unpackers \subseteq Used \cup {held})
    <2>1. SUFFICES ASSUME Unpackers \subseteq Used \cup {held} PROVE FALSE
      OBVIOUS
    <2>2. Cardinality(Unpackers) <= Cardinality(Used \cup {held})
      BY <1>7, <2>1, FS_Subset
    <2> QED
      BY <1>1, <1>4, <1>6, <1>7, <1>8, <2>2
  <1> QED
    BY <1>9

\* The heap has the unpacker of a stream, or one that is in nobody's use.
LEMMA UnpackerOf ==
    ASSUME TypeOK, NEW s \in Streams, NEW u \in UnpackersOf(s)
    PROVE  u \in Unpackers
  <1>1. CASE s \in DOMAIN decoders
    BY <1>1 DEF UnpackersOf, TypeOK
  <1>2. CASE s \notin DOMAIN decoders
    BY <1>2, FreeUnpacker DEF UnpackersOf
  <1> QED
    BY <1>1, <1>2

\* Remembering it keeps the map's type.
LEMMA RememberKeeps ==
    ASSUME TypeOK, NEW s \in Streams, NEW u \in UnpackersOf(s), Remember(s, u)
    PROVE  /\ DOMAIN decoders' \subseteq Streams
           /\ decoders' \in [DOMAIN decoders' -> Unpackers]
  <1>1. u \in Unpackers
    BY UnpackerOf
  <1> QED
    BY <1>1 DEF TypeOK, Remember

\* A refilled unpacker yields the payload, or what an unfit one leaves.
LEMMA RefillYields ==
    ASSUME TypeOK, NEW u \in Unpackers, NEW p \in Payloads,
           NEW t \in BoundVars \cup Callbacks, Refill(u, p)
    PROVE  /\ content' \in [Unpackers -> Seq(Payloads)]
           /\ Unpacked(u, t) = IF p \in Fits[t] THEN p ELSE "unfit"
           /\ Unpacked(u, t) \in Values
  <1>1. content'[u] = <<p>> /\ content' \in [Unpackers -> Seq(Payloads)]
    BY DEF Refill, TypeOK
  <1> QED
    BY <1>1 DEF Unpacked, Values

\* What the history says of a call that is made.
LEMMA MadeKeeps ==
    ASSUME TypeOK, CallsOK, OwnValues, cur \in Packet,
           NEW kind \in {"bind", "tuple", "json", "always"},
           NEW t \in BoundVars \cup Callbacks, NEW v \in Values,
           v = IF cur.payload \in Fits[t] THEN cur.payload ELSE "unfit",
           Made(kind, t, v)
    PROVE  calls' \in Seq(Call) /\ OwnValues'
  <1> DEFINE c == [kind |-> kind, to |-> t, packet |-> cur, value |-> v]
  <1>1. c \in Call /\ calls \in Seq(Call) /\ calls' = Append(calls, c)
    BY DEF Call, CallsOK, Made
  <1>2. /\ c.packet = cur /\ c.to = t /\ c.value = v
        /\ \A k \in DOMAIN calls' :
             calls'[k] = c \/ (k \in DOMAIN calls /\ calls'[k] = calls[k])
    BY <1>1
  <1> HIDE DEF c
  <1> QED
    BY <1>1, <1>2 DEF OwnValues

-----------------------------------------------------------------------------
(* The inductive invariant. *)

IInv == TypeOK /\ CallsOK /\ LineOK /\ OwnValues

LEMMA IInvInit == Init => IInv
  BY CppSubscriberAssumption
     DEF Init, IInv, TypeOK, CallsOK, LineOK, OwnValues, Values

\* While nothing is dispatched no callback is to run.
LEMMA IdleTodo == ASSUME IInv, Idle PROVE todo = {}
  BY DEF IInv, CallsOK, Idle

\* The packet whose callbacks run is a packet.
LEMMA Running == ASSUME IInv, todo # {} PROVE cur \in Packet
  BY DEF IInv, CallsOK, TypeOK

\* Steps of the sketch that leave the unpackers and the history alone.
LEMMA IInvSubscriptions ==
    ASSUME IInv, Idle,
           UNCHANGED <<decoders, content, held, bound, line, cur, todo, calls,
                       received>>,
           DOMAIN subs' = Streams,
           \A s \in Streams : /\ DOMAIN subs'[s] \subseteq Indices
                              /\ subs'[s] \in [DOMAIN subs'[s] -> Subscription],
           always' \in [Streams -> AlwaysSubscription \cup {Null}]
    PROVE  IInv'
  <1>1. todo' = {}
    BY IdleTodo
  <1>2. TypeOK'
    BY <1>1 DEF IInv, TypeOK
  <1>3. OwnValues' /\ CallsOK' /\ LineOK'
    BY DEF IInv, OwnValues, CallsOK, LineOK
  <1> QED
    BY <1>2, <1>3 DEF IInv

\* Steps of the sketch on the unpackers.
LEMMA IInvUnpackers ==
    ASSUME IInv, Idle,
           UNCHANGED <<subs, always, bound, line, cur, todo, calls, received>>,
           DOMAIN decoders' \subseteq Streams,
           decoders' \in [DOMAIN decoders' -> Unpackers],
           content' \in [Unpackers -> Seq(Payloads)],
           held' \in Unpackers \cup {Null}
    PROVE  IInv'
  <1>1. todo = {}
    BY IdleTodo
  <1> QED
    BY <1>1 DEF IInv, TypeOK, OwnValues, CallsOK, LineOK

\* A callback that fills the unpacker and is called with what it yields.
LEMMA IInvFilled ==
    ASSUME IInv, todo # {}, NEW u \in UnpackersOf(cur.stream),
           NEW kind \in {"bind", "tuple", "json", "always"},
           NEW t \in BoundVars \cup Callbacks,
           Remember(cur.stream, u), Refill(u, cur.payload),
           Made(kind, t, Unpacked(u, t)),
           bound' \in [BoundVars -> Values], todo' \subseteq todo,
           UNCHANGED <<subs, always, held, line, cur, received>>
    PROVE  IInv'
  <1>1. cur \in Packet /\ cur.stream \in Streams /\ cur.payload \in Payloads
    BY Running DEF Packet
  <1>2. u \in Unpackers
    BY <1>1, UnpackerOf DEF IInv
  <1>3. /\ content' \in [Unpackers -> Seq(Payloads)]
        /\ Unpacked(u, t) = IF cur.payload \in Fits[t] THEN cur.payload ELSE "unfit"
        /\ Unpacked(u, t) \in Values
    BY <1>1, <1>2, RefillYields DEF IInv
  <1>4. calls' \in Seq(Call) /\ OwnValues'
    BY <1>1, <1>3, MadeKeeps DEF IInv
  <1>5. /\ DOMAIN decoders' \subseteq Streams
        /\ decoders' \in [DOMAIN decoders' -> Unpackers]
    BY <1>1, RememberKeeps DEF IInv
  <1>6. TypeOK'
    BY <1>3, <1>5 DEF IInv, TypeOK
  <1> QED
    BY <1>4, <1>5, <1>6 DEF IInv, CallsOK, LineOK

\* One that gets a JSON document.
LEMMA IInvJson ==
    ASSUME IInv, todo # {}, NEW t \in Callbacks, MadeJson(t), todo' \subseteq todo,
           UNCHANGED <<subs, always, decoders, content, held, bound, line, cur,
                       received>>
    PROVE  IInv'
  <1>1. cur \in Packet /\ cur.payload \in Payloads
    BY Running DEF Packet
  <1>2. calls' \in Seq(Call) /\ OwnValues'
    <2>1. CASE cur.payload \in Fits[t]
      BY <1>1, <2>1, MadeKeeps DEF IInv, MadeJson, Values
    <2>2. CASE cur.payload \notin Fits[t]
      BY <2>2 DEF IInv, MadeJson, CallsOK, OwnValues
    <2> QED
      BY <2>1, <2>2
  <1>3. TypeOK'
    BY DEF IInv, TypeOK
  <1> QED
    BY <1>2, <1>3 DEF IInv, CallsOK, LineOK

LEMMA IInvNext == IInv /\ [Next]_vars => IInv'
  <1> SUFFICES ASSUME IInv, [Next]_vars PROVE IInv'
    OBVIOUS
  <1>a. TypeOK /\ CallsOK /\ LineOK /\ OwnValues
    BY DEF IInv
  <1>1. ASSUME NEW s \in Streams, NEW i \in Indices, NEW sub \in Subscription,
               Subscribe(s, i, sub)
        PROVE  IInv'
    BY <1>a, <1>1, IInvSubscriptions DEF Subscribe, TypeOK
  <1>2. ASSUME NEW s \in Streams, NEW sub \in AlwaysSubscription,
               SubscribeAlways(s, sub)
        PROVE  IInv'
    BY <1>a, <1>2, IInvSubscriptions DEF SubscribeAlways, TypeOK
  <1>3. ASSUME NEW s \in Streams, NEW i \in Indices, Unsubscribe(s, i)
        PROVE  IInv'
    BY <1>a, <1>3, IInvSubscriptions DEF Unsubscribe, TypeOK
  <1>4. ASSUME NEW s \in Streams, UnsubscribeAll(s) PROVE IInv'
    BY <1>a, <1>4, IInvSubscriptions DEF UnsubscribeAll, TypeOK
  <1>5. ASSUME NEW s \in Streams, GetUnpackerRef(s) PROVE IInv'
    <2>1. PICK u \in UnpackersOf(s) : Remember(s, u) /\ held' = u /\ Keep(u)
      BY <1>5 DEF GetUnpackerRef
    <2>2. /\ u \in Unpackers
          /\ DOMAIN decoders' \subseteq Streams
          /\ decoders' \in [DOMAIN decoders' -> Unpackers]
      BY <1>a, <2>1, UnpackerOf, RememberKeeps
    <2>3. content' \in [Unpackers -> Seq(Payloads)]
      BY <1>a, <2>1 DEF Keep, TypeOK
    <2> QED
      BY <1>5, <2>1, <2>2, <2>3, IInvUnpackers DEF GetUnpackerRef
  <1>6. ASSUME NEW s \in Streams, EraseUnpacker(s) PROVE IInv'
    <2>1. /\ decoders' = [t \in DOMAIN decoders \ {s} |-> decoders[t]]
          /\ Keep(held) /\ held' = held
      BY <1>6 DEF EraseUnpacker
    <2>2. /\ DOMAIN decoders' \subseteq Streams
          /\ decoders' \in [DOMAIN decoders' -> Unpackers]
      BY <1>a, <2>1 DEF TypeOK
    <2>3. content' \in [Unpackers -> Seq(Payloads)] /\ held \in Unpackers \cup {Null}
      BY <1>a, <2>1 DEF Keep, TypeOK
    <2> QED
      BY <1>6, <2>1, <2>2, <2>3, IInvUnpackers DEF EraseUnpacker
  <1>7. ASSUME NEW p \in Payloads, HandleManually(p) PROVE IInv'
    <2>1. content' \in [Unpackers -> Seq(Payloads)]
      BY <1>a, <1>7 DEF HandleManually, TypeOK
    <2> QED
      BY <1>a, <1>7, <2>1, IInvUnpackers DEF HandleManually, TypeOK
  <1>8. ASSUME NEW s \in Streams, NEW i \in Indices, NEW p \in Payloads,
               Receive(s, i, p)
        PROVE  IInv'
    <2> DEFINE q == [stream |-> s, index |-> i, payload |-> p]
    <2>1. q \in Packet /\ q.stream = s
      BY DEF Packet
    <2>2. line' = [line EXCEPT ![s] = Append(@, q)]
      BY <1>8 DEF Receive
    <2> HIDE DEF q
    <2>3. line' \in [Streams -> Seq(Packet)]
      BY <1>a, <2>1, <2>2 DEF TypeOK
    <2>4. LineOK'
      <3>1. line[s] \in Seq(Packet) /\ line'[s] = Append(line[s], q)
        BY <1>a, <2>2 DEF TypeOK
      <3>2. \A k \in DOMAIN line'[s] : line'[s][k].stream = s
        BY <1>a, <2>1, <3>1 DEF LineOK
      <3>3. \A t \in Streams : t # s => line'[t] = line[t]
        BY <1>a, <2>2 DEF TypeOK
      <3> QED
        BY <1>a, <3>2, <3>3 DEF LineOK
    <2>5. TypeOK'
      BY <1>a, <1>8, <2>3 DEF Receive, TypeOK
    <2> QED
      BY <1>a, <1>8, <2>4, <2>5
         DEF Receive, IInv, CallsOK, OwnValues
  <1>9. ASSUME NEW s \in Streams, Parse(s) PROVE IInv'
    <2>1. /\ line[s] \in Seq(Packet) /\ line[s] # <<>>
          /\ cur' = Head(line[s]) /\ line' = [line EXCEPT ![s] = Tail(@)]
      BY <1>a, <1>9 DEF Parse, TypeOK
    <2>2. cur' \in Packet /\ cur' # NoPacket /\ cur'.stream = s
      BY <1>a, <2>1, NoPacketIsNone DEF LineOK
    <2>3. line' \in [Streams -> Seq(Packet)]
      BY <1>a, <2>1 DEF TypeOK
    <2>4. LineOK'
      <3>1. line'[s] = Tail(line[s])
        BY <1>a, <2>1 DEF TypeOK
      <3>2. \A k \in DOMAIN line'[s] : line'[s][k].stream = s
        BY <1>a, <2>1, <3>1 DEF LineOK
      <3>3. \A t \in Streams : t # s => line'[t] = line[t]
        BY <1>a, <2>1 DEF TypeOK
      <3> QED
        BY <1>a, <3>2, <3>3 DEF LineOK
    <2>5. TypeOK' /\ CallsOK'
      BY <1>a, <1>9, <2>2, <2>3 DEF Parse, TypeOK, CallsOK
    <2> QED
      BY <1>a, <1>9, <2>4, <2>5 DEF Parse, IInv, OwnValues
  <1>b. ASSUME "index" \in todo
        PROVE  /\ cur.stream \in Streams
               /\ subs[cur.stream][cur.index] \in Subscription
    BY <1>a, <1>b, Running DEF TypeOK, Packet
  <1>c. ASSUME "always" \in todo
        PROVE  /\ cur.stream \in Streams
               /\ always[cur.stream] \in AlwaysSubscription
    BY <1>a, <1>c, Running DEF TypeOK, Packet
  <1>10. CASE RunBind
    <2> DEFINE sub == subs[cur.stream][cur.index]
    <2>1. "index" \in todo /\ sub.kind = "bind" /\ sub \in Subscription
      BY <1>10, <1>b DEF RunBind
    <2>2. sub.to \in BoundVars
      BY <2>1 DEF Subscription
    <2>3. PICK u \in UnpackersOf(cur.stream) :
            /\ Remember(cur.stream, u) /\ Refill(u, cur.payload)
            /\ bound' = [bound EXCEPT ![sub.to] = Unpacked(u, sub.to)]
            /\ Made("bind", sub.to, Unpacked(u, sub.to))
      BY <1>10 DEF RunBind
    <2>4. u \in Unpackers /\ cur.payload \in Payloads
      BY <1>a, <1>b, <2>1, <2>3, UnpackerOf, Running DEF Packet
    <2>5. Unpacked(u, sub.to) \in Values
      BY <1>a, <2>2, <2>3, <2>4, RefillYields
    <2>6. bound' \in [BoundVars -> Values]
      BY <1>a, <2>3, <2>5 DEF TypeOK
    <2>7. todo' \subseteq todo
          /\ UNCHANGED <<subs, always, held, line, cur, received>>
      BY <1>10 DEF RunBind
    <2> HIDE DEF sub
    <2> QED
      BY <2>1, <2>2, <2>3, <2>6, <2>7, IInvFilled
  <1>11. CASE RunTuple
    <2> DEFINE sub == subs[cur.stream][cur.index]
    <2>1. "index" \in todo /\ sub.kind = "tuple" /\ sub \in Subscription
      BY <1>11, <1>b DEF RunTuple
    <2>2. sub.to \in Callbacks
      BY <2>1 DEF Subscription
    <2>3. PICK u \in UnpackersOf(cur.stream) :
            /\ Remember(cur.stream, u) /\ Refill(u, cur.payload)
            /\ Made("tuple", sub.to, Unpacked(u, sub.to))
      BY <1>11 DEF RunTuple
    <2>4. bound' \in [BoundVars -> Values] /\ todo' \subseteq todo
          /\ UNCHANGED <<subs, always, held, line, cur, received>>
      BY <1>a, <1>11 DEF RunTuple, TypeOK
    <2> HIDE DEF sub
    <2> QED
      BY <2>1, <2>2, <2>3, <2>4, IInvFilled
  <1>12. CASE RunJson
    <2> DEFINE sub == subs[cur.stream][cur.index]
    <2>1. "index" \in todo /\ sub.kind = "json" /\ sub \in Subscription
      BY <1>12, <1>b DEF RunJson
    <2>2. sub.to \in Callbacks
      BY <2>1 DEF Subscription
    <2>3. MadeJson(sub.to) /\ todo' \subseteq todo
          /\ UNCHANGED <<subs, always, decoders, content, held, bound, line, cur,
                         received>>
      BY <1>12 DEF RunJson
    <2> HIDE DEF sub
    <2> QED
      BY <2>1, <2>2, <2>3, IInvJson
  <1>13. CASE RunAlways
    <2> DEFINE sub == always[cur.stream]
    <2>1. "always" \in todo /\ sub \in AlwaysSubscription
      BY <1>13, <1>c DEF RunAlways
    <2>2. sub.to \in Callbacks
      BY <2>1 DEF AlwaysSubscription
    <2>3. PICK u \in UnpackersOf(cur.stream) :
            /\ Remember(cur.stream, u) /\ Refill(u, cur.payload)
            /\ Made("always", sub.to, Unpacked(u, sub.to))
      BY <1>13 DEF RunAlways
    <2>4. bound' \in [BoundVars -> Values] /\ todo' \subseteq todo
          /\ UNCHANGED <<subs, always, held, line, cur, received>>
      BY <1>a, <1>13 DEF RunAlways, TypeOK
    <2> HIDE DEF sub
    <2> QED
      BY <2>1, <2>2, <2>3, <2>4, IInvFilled
  <1>14. CASE RunAlwaysJson
    <2> DEFINE sub == always[cur.stream]
    <2>1. "always" \in todo /\ sub \in AlwaysSubscription
      BY <1>14, <1>c DEF RunAlwaysJson
    <2>2. sub.to \in Callbacks
      BY <2>1 DEF AlwaysSubscription
    <2>3. MadeJson(sub.to) /\ todo' \subseteq todo
          /\ UNCHANGED <<subs, always, decoders, content, held, bound, line, cur,
                         received>>
      BY <1>14 DEF RunAlwaysJson
    <2> HIDE DEF sub
    <2> QED
      BY <2>1, <2>2, <2>3, IInvJson
  <1>15. CASE Dispatched
    <2>1. todo' = {} /\ cur' = NoPacket /\ calls' = <<>>
      BY <1>15 DEF Dispatched
    <2>2. TypeOK'
      BY <1>a, <1>15, <2>1 DEF Dispatched, TypeOK
    <2>3. CallsOK' /\ OwnValues'
      BY <2>1 DEF CallsOK, OwnValues
    <2> QED
      BY <1>a, <1>15, <2>2, <2>3 DEF Dispatched, IInv, LineOK
  <1>16. CASE UNCHANGED vars
    BY <1>a, <1>16 DEF vars, IInv, TypeOK, CallsOK, LineOK, OwnValues
  <1> QED
    BY <1>1, <1>2, <1>3, <1>4, <1>5, <1>6, <1>7, <1>8, <1>9, <1>10, <1>11, <1>12,
       <1>13, <1>14, <1>15, <1>16 DEF Next, Steps

LEMMA IInvHolds == Spec => []IInv
  BY IInvInit, IInvNext, PTL DEF Spec

-----------------------------------------------------------------------------
(* The properties. *)

\* The types of the subscriber hold in every state: in particular a callback runs
\* for a packet, on a subscription that is there.
THEOREM TypeCorrect == Spec => []TypeOK
  <1>1. IInv => TypeOK
    BY DEF IInv
  <1> QED
    BY <1>1, IInvHolds, PTL

\* Every call and every bound variable gets the values of its own packet, for any
\* number of streams, subscriptions and packets, whatever the sketch does with the
\* unpackers it holds.
THEOREM CallsGetOwnValues == Spec => []OwnValues
  <1>1. IInv => OwnValues
    BY DEF IInv
  <1> QED
    BY <1>1, IInvHolds, PTL

-----------------------------------------------------------------------------
(* What setup() leaves behind. *)

\* The packets of the one index, or of every index, go to one callback.
Wiring ==
    /\ sketch \in Programs
    /\ \A s \in Streams : \A i \in DOMAIN subs[s] :
         /\ s = sketch.link /\ i = sketch.recv /\ sketch.kind # "unpacker"
         /\ subs[s][i] = [kind |-> sketch.kind,
                          to |-> IF sketch.kind = "bind" THEN Var ELSE Callback]
    /\ \A s \in Streams : always[s] # Null =>
         /\ s = sketch.link /\ sketch.kind = "unpacker"
         /\ always[s] = [kind |-> "unpacker", to |-> Callback]

\* Past setup() the subscription is there; the two halves of the library take
\* turns.
Phases ==
    /\ phase \in {"wifi", "accept", "subscribe", "publish", "rate", "loop", "parse",
                  "post"}
    /\ phase \in {"publish", "rate", "post"} => sketch.kind = "bind"
    /\ phase \notin {"wifi", "accept", "subscribe"} =>
         IF sketch.kind = "unpacker" THEN always[sketch.link] # Null
         ELSE sketch.recv \in DOMAIN subs[sketch.link]
    /\ phase # "parse" => Idle
    /\ pc \in {"idle", "post", "stamp", "encode"}
    /\ phase = "post" <=> pc # "idle"

SetupInv == IInv /\ Wiring /\ Phases

LEMMA SketchTypes ==
    ASSUME Wiring
    PROVE  /\ sketch.link \in Streams
           /\ sketch.recv \in Indices /\ sketch.send \in Indices
           /\ sketch.kind \in {"tuple", "unpacker", "json", "bind"}
           /\ sketch.kind # "bind" => sketch \in Answerer
           /\ sketch.kind = "json" => sketch.api = "send"
           /\ sketch.begin \in {"wifi", "accept", "subscribe"}
  <1>1. sketch \in Answerer \cup Binder
    BY ProgramsAssumption DEF Wiring
  <1>2. sketch.kind = "json" => sketch.api = "send"
    BY ProgramsAssumption DEF Wiring
  <1>3. Serial \in Streams
    BY SketchAssumption
  <1> QED
    BY <1>1, <1>2, <1>3 DEF Answerer, Binder

\* What setup() subscribes is a subscription.
LEMMA SketchSubscription ==
    ASSUME Wiring
    PROVE  /\ sketch.kind = "bind" => [kind |-> "bind", to |-> Var] \in Subscription
           /\ sketch.kind \in {"tuple", "json"} =>
                [kind |-> sketch.kind, to |-> Callback] \in Subscription
           /\ [kind |-> "unpacker", to |-> Callback] \in AlwaysSubscription
           /\ [kind |-> "unpacker", to |-> Callback] # Null
  BY SketchAssumption DEF Subscription, AlwaysSubscription

\* The subscriber half takes steps of CppSubscriber.
LEMMA SubscriberHalf ==
    ASSUME Wiring, [SketchNext]_sketch_vars
    PROVE  [Next]_vars
  <1>0. /\ sketch.link \in Streams
        /\ sketch.recv \in Indices /\ sketch.send \in Indices
        /\ sketch.kind \in {"tuple", "unpacker", "json", "bind"}
    BY SketchTypes
  <1>1. ASSUME NEW i \in {sketch.recv, sketch.send}, NEW p \in Payloads, Arrive(i, p)
        PROVE  Next
    BY <1>0, <1>1 DEF Arrive, Next, Steps
  <1>2. CASE SetupSubscribe
    <2>1. CASE sketch.kind = "unpacker"
      BY <1>0, <1>2, <2>1, SketchSubscription DEF SetupSubscribe, Next, Steps
    <2>2. CASE sketch.kind = "bind"
      BY <1>0, <1>2, <2>2, SketchSubscription DEF SetupSubscribe, Next, Steps
    <2>3. CASE sketch.kind \in {"tuple", "json"}
      BY <1>0, <1>2, <2>3, SketchSubscription DEF SetupSubscribe, Next, Steps
    <2> QED
      BY <1>0, <2>1, <2>2, <2>3
  <1>3. CASE LoopDispatches
    BY <1>0, <1>3 DEF LoopDispatches, Next, Steps
  <1>4. CASE CallLambda \/ CallEvery \/ CallJson
    BY <1>4 DEF CallLambda, CallEvery, CallJson, Next, Steps
  <1>5. CASE \/ WifiConnects \/ ClientConnects \/ SetupPublish \/ SetupRate
             \/ LoopBegins \/ ParseEnds \/ PostGoesOn \/ PostEnds
             \/ UNCHANGED sketch_vars
    <2>1. UNCHANGED sub_vars
      BY <1>5 DEF WifiConnects, ClientConnects, SetupPublish, SetupRate, LoopBegins,
         ParseEnds, PostGoesOn, PostEnds, sketch_vars
    <2> QED
      BY <2>1 DEF sub_vars
  <1> QED
    BY <1>1, <1>2, <1>3, <1>4, <1>5 DEF SketchNext, Board

\* Until it subscribes, a sketch has no subscription; a subscription is never
\* changed.
LEMMA WiringNext ==
    ASSUME SetupInv, [SketchNext]_sketch_vars
    PROVE  Wiring'
  <1>a. /\ IInv /\ TypeOK /\ Wiring
        /\ sketch.link \in Streams /\ sketch.recv \in Indices
        /\ sketch.kind \in {"tuple", "unpacker", "json", "bind"}
    BY SketchTypes DEF SetupInv, IInv
  <1>1. ASSUME UNCHANGED <<subs, always, sketch>> PROVE Wiring'
    BY <1>a, <1>1 DEF Wiring
  <1>2. CASE SetupSubscribe
    <2>1. sketch' = sketch
      BY <1>2 DEF SetupSubscribe
    <2>2. CASE sketch.kind = "unpacker"
      <3>1. SubscribeAlways(sketch.link, [kind |-> "unpacker", to |-> Callback])
        BY <1>2, <2>2 DEF SetupSubscribe
      <3>2. /\ subs' = subs
            /\ always' = [always EXCEPT ![sketch.link] =
                            [kind |-> "unpacker", to |-> Callback]]
        BY <3>1 DEF SubscribeAlways
      <3> QED
        BY <1>a, <2>1, <2>2, <3>2 DEF Wiring, TypeOK
    <2>3. CASE sketch.kind # "unpacker"
      <3> DEFINE sub == [kind |-> sketch.kind,
                         to |-> IF sketch.kind = "bind" THEN Var ELSE Callback]
      <3>1. Subscribe(sketch.link, sketch.recv, sub)
        <4>1. CASE sketch.kind = "bind"
          BY <1>2, <4>1 DEF SetupSubscribe
        <4>2. CASE sketch.kind # "bind"
          BY <1>2, <2>3, <4>2 DEF SetupSubscribe
        <4> QED
          BY <4>1, <4>2
      <3> HIDE DEF sub
      <3>2. always' = always
        BY <3>1 DEF Subscribe
      <3>3. /\ \A s \in Streams : s # sketch.link => subs'[s] = subs[s]
            /\ \A i \in DOMAIN subs'[sketch.link] :
                 \/ i = sketch.recv /\ subs'[sketch.link][i] = sub
                 \/ /\ i \in DOMAIN subs[sketch.link]
                    /\ subs'[sketch.link][i] = subs[sketch.link][i]
        BY <3>1, <1>a DEF Subscribe, TypeOK
      <3> QED
        BY <1>a, <2>1, <2>3, <3>2, <3>3 DEF Wiring, sub
    <2> QED
      BY <2>2, <2>3
  <1>3. CASE \/ WifiConnects \/ ClientConnects \/ SetupPublish \/ SetupRate
             \/ LoopBegins \/ ParseEnds \/ PostGoesOn \/ PostEnds
             \/ UNCHANGED sketch_vars
    BY <1>1, <1>3 DEF WifiConnects, ClientConnects, SetupPublish, SetupRate, LoopBegins,
       ParseEnds, PostGoesOn, PostEnds, sketch_vars, sub_vars, vars, own_vars
  <1>4. ASSUME NEW i \in {sketch.recv, sketch.send}, NEW p \in Payloads, Arrive(i, p)
        PROVE  Wiring'
    BY <1>1, <1>4 DEF Arrive, Receive
  <1>5. CASE LoopDispatches
    BY <1>1, <1>5 DEF LoopDispatches, Parse, RunBind, Dispatched, own_vars
  <1>6. CASE CallLambda \/ CallEvery \/ CallJson
    BY <1>1, <1>6 DEF CallLambda, CallEvery, CallJson, RunTuple, RunAlways, RunJson
  <1> QED
    BY <1>2, <1>3, <1>4, <1>5, <1>6 DEF SketchNext, Board

\* A step of the publisher half between two runs of post() leaves it there.
LEMMA OneShotKeeps ==
    ASSUME NEW api, NEW args, Pub!OneShot(api, args)
    PROVE  UNCHANGED <<addrMap, elem, ref, pc, toPost, posting, part>>
  BY DEF Pub!OneShot, Pub!post_vars

LEMMA PhasesNext ==
    ASSUME SetupInv, Wiring', [SketchNext]_sketch_vars
    PROVE  Phases'
  <1>a. /\ IInv /\ TypeOK /\ Wiring /\ Phases
        /\ sketch.link \in Streams /\ sketch.recv \in Indices
        /\ sketch.kind \in {"tuple", "unpacker", "json", "bind"}
        /\ [kind |-> "unpacker", to |-> Callback] # Null
    BY SketchTypes, SketchSubscription DEF SetupInv, IInv
  <1>1. CASE SetupSubscribe
    <2>1. /\ sketch' = sketch /\ pc' = pc /\ phase = "subscribe"
          /\ phase' = IF sketch.kind = "bind" THEN "publish" ELSE "loop"
      BY <1>1 DEF SetupSubscribe, pub_vars
    <2>2. CASE sketch.kind = "unpacker"
      <3>1. SubscribeAlways(sketch.link, [kind |-> "unpacker", to |-> Callback])
        BY <1>1, <2>2 DEF SetupSubscribe
      <3>2. /\ subs' = subs /\ cur' = cur
            /\ always' = [always EXCEPT ![sketch.link] =
                            [kind |-> "unpacker", to |-> Callback]]
        BY <3>1 DEF SubscribeAlways
      <3> QED
        BY <1>a, <2>1, <2>2, <3>2 DEF Phases, TypeOK, Idle
    <2>3. CASE sketch.kind # "unpacker"
      <3>1. PICK sub : Subscribe(sketch.link, sketch.recv, sub)
        BY <1>1, <2>3 DEF SetupSubscribe
      <3>2. cur' = cur /\ sketch.recv \in DOMAIN subs'[sketch.link]
        BY <1>a, <3>1 DEF Subscribe, TypeOK
      <3> QED
        BY <1>a, <2>1, <2>3, <3>2 DEF Phases, Idle
    <2> QED
      BY <2>2, <2>3
  <1>2. CASE WifiConnects \/ ClientConnects \/ LoopBegins
    BY <1>a, <1>2 DEF WifiConnects, ClientConnects, LoopBegins, sub_vars, pub_vars, vars,
       Phases, Idle
  <1>3. CASE SetupPublish \/ SetupRate
    <2>1. /\ sketch' = sketch /\ UNCHANGED sub_vars /\ pc' = pc /\ pc = "idle"
          /\ phase \in {"publish", "rate"} /\ phase' \in {"rate", "loop"}
      BY <1>3 DEF SetupPublish, SetupRate, Pub!Publish, Pub!SetInterval, Pub!post_vars,
         Pub!Idle
    <2> QED
      BY <1>a, <2>1 DEF sub_vars, vars, Phases, Idle
  <1>4. CASE ParseEnds
    BY <1>a, <1>4 DEF ParseEnds, Drained, Pub!PostBegin, sub_vars, pub_vars, vars, Phases,
       Idle
  <1>5. CASE PostGoesOn
    <2>1. UNCHANGED <<sub_vars, own_vars>> /\ phase = "post"
      BY <1>5 DEF PostGoesOn
    <2>2. pc' \in {"stamp", "encode", "post"}
      BY <1>5 DEF PostGoesOn, Pub!PostDue, Pub!PostStamp, Pub!PostEncode, Pub!PostSend
    <2> QED
      BY <1>a, <2>1, <2>2 DEF sub_vars, own_vars, vars, Phases, Idle
  <1>6. CASE PostEnds
    BY <1>a, <1>6 DEF PostEnds, Pub!PostEnd, sub_vars, vars, Phases, Idle
  <1>7. ASSUME NEW i \in {sketch.recv, sketch.send}, NEW p \in Payloads, Arrive(i, p)
        PROVE  Phases'
    BY <1>a, <1>7 DEF Arrive, Receive, pub_vars, Phases, Idle
  <1>8. CASE LoopDispatches
    <2>1. /\ phase = "parse" /\ UNCHANGED <<subs, always>> /\ UNCHANGED pub_vars
          /\ UNCHANGED own_vars
      BY <1>8 DEF LoopDispatches, Parse, RunBind, Dispatched
    <2> QED
      BY <1>a, <2>1 DEF pub_vars, own_vars, Phases
  <1>9. CASE CallLambda \/ CallEvery \/ CallJson
    <2>1. pc' = pc
      BY <1>9, OneShotKeeps
         DEF CallLambda, CallEvery, CallJson, Answer, NoAnswer, pub_vars
    <2>2. phase = "parse" /\ UNCHANGED <<subs, always, sketch, phase>>
      BY <1>9 DEF CallLambda, CallEvery, CallJson, RunTuple, RunAlways, RunJson
    <2> QED
      BY <1>a, <2>1, <2>2 DEF Phases
  <1>10. CASE UNCHANGED sketch_vars
    BY <1>a, <1>10 DEF sketch_vars, sub_vars, pub_vars, own_vars, vars, Phases, Idle
  <1> QED
    BY <1>1, <1>2, <1>3, <1>4, <1>5, <1>6, <1>7, <1>8, <1>9, <1>10
       DEF SketchNext, Board

LEMMA SetupInvInit == SketchInit => SetupInv
  <1> SUFFICES ASSUME SketchInit PROVE SetupInv
    OBVIOUS
  <1>1. IInv
    BY IInvInit DEF SketchInit
  <1>2. Wiring
    BY DEF SketchInit, Init, Wiring
  <1>3. Phases
    BY <1>2, SketchTypes DEF SketchInit, Init, Pub!Init, Phases, Idle
  <1> QED
    BY <1>1, <1>2, <1>3 DEF SetupInv

LEMMA SetupInvNext == SetupInv /\ [SketchNext]_sketch_vars => SetupInv'
  <1> SUFFICES ASSUME SetupInv, [SketchNext]_sketch_vars PROVE SetupInv'
    OBVIOUS
  <1>1. IInv'
    BY SubscriberHalf, IInvNext DEF SetupInv
  <1> QED
    BY <1>1, WiringNext, PhasesNext DEF SetupInv

LEMMA SetupInvHolds == SketchSpec => []SetupInv
  BY SetupInvInit, SetupInvNext, PTL DEF SketchSpec

-----------------------------------------------------------------------------
(* The latest of some packets. *)

\* A set of numbers up to n has a largest one.
LEMMA LatestIsLargest ==
    ASSUME NEW n \in Nat, NEW S \in SUBSET (1 .. n), S # {}
    PROVE  Latest(S) \in S /\ \A x \in S : x <= Latest(S)
  <1> DEFINE T == {n - x : x \in S}
  <1>1. T # {} /\ T \subseteq Nat
    <2>1. \A x \in S : x \in 1 .. n /\ n - x \in Nat
      OBVIOUS
    <2> QED
      BY <2>1
  <1>2. PICK y \in T : \A z \in T : <<z, y>> \notin OpToRel(<, Nat)
    BY <1>1, WFMin, NatLessThanWellFounded
  <1>3. \A z \in T : ~(z < y)
    BY <1>1, <1>2 DEF OpToRel
  <1>4. PICK m \in S : y = n - m
    OBVIOUS
  <1>5. \A x \in S : x <= m
    <2> TAKE x \in S
    <2>1. n - x \in T /\ x \in Nat /\ m \in Nat
      OBVIOUS
    <2>2. ~(n - x < n - m)
      BY <1>3, <1>4, <2>1
    <2> QED
      BY <2>1, <2>2
  <1>6. \E x \in S : \A z \in S : z <= x
    BY <1>5
  <1> QED
    BY <1>6, Zenon DEF Latest

LEMMA LatestIs ==
    ASSUME NEW S \in SUBSET Nat, NEW m \in S, \A x \in S : x <= m
    PROVE  Latest(S) = m
  <1>1. Latest(S) \in S /\ \A x \in S : x <= Latest(S)
    BY Zenon DEF Latest
  <1>2. m \in Nat /\ Latest(S) \in Nat
    BY <1>1
  <1>3. m <= Latest(S) /\ Latest(S) <= m
    BY <1>1
  <1> QED
    BY <1>2, <1>3

\* What arrives later does not change what the first n packets gave.
LEMMA NewestStays ==
    ASSUME NEW n \in Nat, sketch' = sketch,
           \A m \in 1 .. n : arrived'[m] = arrived[m]
    PROVE  Newest(n)' = Newest(n)
  <1> DEFINE heard == {m \in 1 .. n : arrived[m].index = sketch.recv}
  <1>1. heard = {m \in 1 .. n : arrived'[m].index = sketch'.recv}
    OBVIOUS
  <1>2. heard # {} => Latest(heard) \in 1 .. n
    BY LatestIsLargest
  <1>3. Newest(n)' = IF heard = {} THEN "initial" ELSE ValueOf(arrived'[Latest(heard)], Var)
    BY <1>1 DEF Newest
  <1> HIDE DEF heard
  <1>4. Newest(n) = IF heard = {} THEN "initial" ELSE ValueOf(arrived[Latest(heard)], Var)
    BY DEF Newest, heard
  <1> QED
    BY <1>2, <1>3, <1>4

\* A packet of the index the sketch listens to is the newest; any other is not.
LEMMA NewestHears ==
    ASSUME NEW n \in Nat \ {0}, arrived[n].index = sketch.recv
    PROVE  Newest(n) = ValueOf(arrived[n], Var)
  <1> DEFINE heard == {m \in 1 .. n : arrived[m].index = sketch.recv}
  <1>1. n \in heard /\ heard \in SUBSET Nat /\ \A x \in heard : x <= n
    OBVIOUS
  <1>2. Latest(heard) = n
    BY <1>1, LatestIs
  <1> QED
    BY <1>1, <1>2 DEF Newest

LEMMA NewestPasses ==
    ASSUME NEW n \in Nat, arrived[n + 1].index # sketch.recv
    PROVE  Newest(n + 1) = Newest(n)
  <1>1. {m \in 1 .. n + 1 : arrived[m].index = sketch.recv}
          = {m \in 1 .. n : arrived[m].index = sketch.recv}
    <2>1. \A m : m \in 1 .. n + 1 <=> m \in 1 .. n \/ m = n + 1
      OBVIOUS
    <2> QED
      BY <2>1
  <1> QED
    BY <1>1 DEF Newest

-----------------------------------------------------------------------------
(* The packets that arrived, and how many of them were dispatched. *)

Lines ==
    /\ arrived \in Seq(Packet) /\ seen \in Nat
    /\ Len(line[sketch.link]) <= Len(arrived)
    /\ \A k \in DOMAIN line[sketch.link] :
         line[sketch.link][k] = arrived[Dispatches + k]
    /\ phase \in {"wifi", "accept", "subscribe", "publish", "rate"} => Dispatches = 0
    /\ ~Idle => Dispatches >= 1 /\ cur = arrived[Dispatches]
    /\ phase = "post" => Dispatches >= seen

LEMMA LinesArrive ==
    ASSUME SetupInv, Lines, NEW i \in {sketch.recv, sketch.send}, NEW p \in Payloads,
           Arrive(i, p)
    PROVE  Lines' /\ Dispatches' = Dispatches
  <1> DEFINE q == [stream |-> sketch.link, index |-> i, payload |-> p]
             l == line[sketch.link]
  <1>1. /\ sketch.link \in Streams /\ q \in Packet
        /\ line \in [Streams -> Seq(Packet)] /\ arrived \in Seq(Packet)
    BY SketchTypes DEF SetupInv, IInv, TypeOK, Packet, Lines
  <1>2. /\ arrived' = Append(arrived, q) /\ line' = [line EXCEPT ![sketch.link] = Append(@, q)]
        /\ UNCHANGED <<cur, sketch, phase, seen>>
    BY DEF Arrive, Receive
  <1> HIDE DEF q
  <1>3. line'[sketch'.link] = Append(l, q) /\ l \in Seq(Packet)
    BY <1>1, <1>2
  <1>4. Dispatches' = Dispatches /\ Dispatches \in Nat
    <2>1. /\ Len(line'[sketch'.link]) = Len(l) + 1 /\ Len(l) \in Nat
          /\ Len(arrived') = Len(arrived) + 1 /\ Len(arrived) \in Nat
      BY <1>1, <1>2, <1>3
    <2>2. Dispatches = Len(arrived) - Len(l) /\ Len(l) <= Len(arrived)
      BY DEF Dispatches, Lines
    <2>3. Dispatches' = Len(arrived') - Len(line'[sketch'.link])
      BY DEF Dispatches
    <2> QED
      BY <2>1, <2>2, <2>3
  <1>5. /\ Len(line'[sketch'.link]) <= Len(arrived')
        /\ arrived' \in Seq(Packet)
    BY <1>1, <1>2, <1>3 DEF Lines
  <1>6. Len(arrived) = Dispatches + Len(l) /\ Len(l) \in Nat /\ Len(arrived) \in Nat
    BY <1>1, <1>3 DEF Dispatches, Lines
  <1>7. ASSUME NEW k \in DOMAIN line'[sketch'.link]
        PROVE  line'[sketch'.link][k] = arrived'[Dispatches + k]
    <2>1. CASE k = Len(l) + 1
      BY <1>1, <1>2, <1>3, <1>4, <1>6, <2>1
    <2>2. CASE k # Len(l) + 1
      <3>1. k \in DOMAIN l /\ k \in 1 .. Len(l)
        BY <1>3, <1>7, <2>2
      <3>2. Dispatches + k \in 1 .. Len(arrived)
        BY <1>4, <1>6, <3>1
      <3>3. arrived'[Dispatches + k] = arrived[Dispatches + k]
        BY <1>1, <1>2, <3>2
      <3>4. line'[sketch'.link][k] = l[k]
        BY <1>3, <3>1
      <3> QED
        BY <3>1, <3>3, <3>4 DEF Lines
    <2> QED
      BY <2>1, <2>2
  <1>8. ~Idle' => Dispatches' >= 1 /\ cur' = arrived'[Dispatches']
    <2> SUFFICES ASSUME ~Idle PROVE Dispatches >= 1 /\ cur = arrived'[Dispatches]
      BY <1>2, <1>4 DEF Idle
    <2>1. Dispatches >= 1 /\ cur = arrived[Dispatches]
      BY DEF Lines
    <2> QED
      BY <1>1, <1>2, <1>4, <1>6, <2>1
  <1> QED
    BY <1>2, <1>4, <1>5, <1>7, <1>8 DEF Lines

LEMMA LinesParse ==
    ASSUME SetupInv, Lines, phase = "parse", Parse(sketch.link), UNCHANGED own_vars
    PROVE  Lines' /\ Dispatches' = Dispatches + 1
  <1> DEFINE l == line[sketch.link]
  <1>1. /\ sketch.link \in Streams
        /\ line \in [Streams -> Seq(Packet)] /\ arrived \in Seq(Packet)
    BY SketchTypes DEF SetupInv, IInv, TypeOK, Lines
  <1>2. /\ l # <<>> /\ cur' = Head(l) /\ line' = [line EXCEPT ![sketch.link] = Tail(@)]
        /\ UNCHANGED <<arrived, sketch, phase, seen>>
    BY DEF Parse, own_vars
  <1>3. line'[sketch'.link] = Tail(l) /\ l \in Seq(Packet)
    BY <1>1, <1>2
  <1>9. Len(Tail(l)) = Len(l) - 1
    <2> HIDE DEF l
    <2> QED
      BY <1>2, <1>3
  <1>4. Len(arrived) = Dispatches + Len(l) /\ Len(l) \in Nat /\ Dispatches \in Nat
    BY <1>1, <1>3 DEF Dispatches, Lines
  <1>5. Dispatches' = Dispatches + 1
    <2>1. Dispatches' = Len(arrived) - Len(Tail(l))
      BY <1>2, <1>3 DEF Dispatches
    <2>2. Dispatches = Len(arrived) - Len(l)
      BY DEF Dispatches
    <2>3. Len(arrived) \in Nat /\ Len(l) \in Nat
      BY <1>1, <1>4
    <2> HIDE DEF l
    <2>4. Dispatches' = Len(arrived) - (Len(l) - 1)
      BY <1>9, <2>1
    <2>5. Len(arrived) - (Len(l) - 1) = (Len(arrived) - Len(l)) + 1
      BY <2>3
    <2> QED
      BY <2>2, <2>4, <2>5
  <1>6. ASSUME NEW k \in DOMAIN line'[sketch'.link]
        PROVE  line'[sketch'.link][k] = arrived[Dispatches + 1 + k]
    <2>1. k \in Nat /\ k + 1 \in DOMAIN l /\ Tail(l)[k] = l[k + 1]
      <3>1. k \in DOMAIN Tail(l)
        BY <1>3, <1>6
      <3> HIDE DEF l
      <3> QED
        BY <1>2, <1>3, <3>1
    <2>2. l[k + 1] = arrived[Dispatches + (k + 1)]
      BY <2>1 DEF Lines
    <2>3. Dispatches + (k + 1) = Dispatches + 1 + k
      BY <1>4, <2>1
    <2> QED
      BY <1>3, <2>1, <2>2, <2>3
  <1>7. cur' = arrived[Dispatches + 1]
    <2>1. 1 \in DOMAIN l /\ Head(l) = l[1]
      BY <1>2, <1>3
    <2> QED
      BY <1>2, <2>1 DEF Lines
  <1>8. Len(line'[sketch'.link]) <= Len(arrived')
    BY <1>2, <1>3, <1>4
  <1> QED
    BY <1>2, <1>4, <1>5, <1>6, <1>7, <1>8 DEF Lines

\* The other steps leave the packets alone.
PacketsStay ==
    /\ UNCHANGED <<line, arrived, sketch>>
    /\ seen' \in Nat
    /\ cur' = cur \/ cur' = NoPacket
    /\ phase' \in {"accept", "subscribe", "publish", "rate"} =>
         phase \in {"wifi", "accept", "subscribe", "publish", "rate"}
    /\ phase' = "post" =>
         seen' = seen /\ (phase = "post" \/ Dispatches >= seen)
    /\ phase' # "wifi" \/ phase = "wifi"

LEMMA LinesStay ==
    ASSUME SetupInv, Lines, PacketsStay
    PROVE  Lines' /\ Dispatches' = Dispatches
  <1>1. Dispatches' = Dispatches
    BY DEF Dispatches, PacketsStay
  <1> QED
    BY <1>1 DEF Lines, PacketsStay, Idle

LEMMA StaysOrMoves ==
    ASSUME SetupInv, Lines, [SketchNext]_sketch_vars
    PROVE  \/ \E i \in {sketch.recv, sketch.send}, p \in Payloads : Arrive(i, p)
           \/ phase = "parse" /\ Parse(sketch.link) /\ UNCHANGED own_vars
           \/ PacketsStay
  <1>a. arrived \in Seq(Packet) /\ seen \in Nat
    BY DEF Lines
  <1>1. CASE SetupSubscribe
    <2>1. /\ UNCHANGED <<sketch, seen, arrived>> /\ phase = "subscribe"
          /\ phase' \in {"publish", "loop"}
      BY <1>1 DEF SetupSubscribe
    <2>2. UNCHANGED <<line, cur>>
      BY <1>1 DEF SetupSubscribe, Subscribe, SubscribeAlways
    <2> QED
      BY <1>a, <2>1, <2>2 DEF PacketsStay
  <1>2. CASE WifiConnects \/ ClientConnects \/ LoopBegins
    BY <1>a, <1>2 DEF WifiConnects, ClientConnects, LoopBegins, sub_vars, vars, PacketsStay
  <1>3. CASE SetupPublish \/ SetupRate
    BY <1>a, <1>3 DEF SetupPublish, SetupRate, sub_vars, vars, PacketsStay
  <1>4. CASE ParseEnds
    BY <1>a, <1>4 DEF ParseEnds, Drained, sub_vars, vars, PacketsStay
  <1>5. CASE PostGoesOn \/ PostEnds
    BY <1>a, <1>5 DEF PostGoesOn, PostEnds, sub_vars, own_vars, vars, PacketsStay
  <1>6. CASE LoopDispatches
    <2>1. phase = "parse" /\ UNCHANGED own_vars
      BY <1>6 DEF LoopDispatches
    <2>2. CASE RunBind \/ Dispatched
      BY <1>a, <2>1, <2>2 DEF RunBind, Dispatched, own_vars, PacketsStay
    <2> QED
      BY <1>6, <2>1, <2>2 DEF LoopDispatches
  <1>7. CASE CallLambda \/ CallEvery \/ CallJson
    <2>1. phase = "parse" /\ UNCHANGED <<sketch, phase, seen, arrived>>
      BY <1>7 DEF CallLambda, CallEvery, CallJson
    <2>2. UNCHANGED <<line, cur>>
      BY <1>7 DEF CallLambda, CallEvery, CallJson, RunTuple, RunAlways, RunJson
    <2> QED
      BY <1>a, <2>1, <2>2 DEF PacketsStay
  <1>8. CASE UNCHANGED sketch_vars
    BY <1>a, <1>8 DEF sketch_vars, sub_vars, own_vars, vars, PacketsStay
  <1> QED
    BY <1>1, <1>2, <1>3, <1>4, <1>5, <1>6, <1>7, <1>8 DEF SketchNext, Board

LEMMA LinesNext == SetupInv /\ Lines /\ [SketchNext]_sketch_vars => Lines'
  BY StaysOrMoves, LinesArrive, LinesParse, LinesStay

LEMMA LinesInit == SketchInit => Lines
  <1> SUFFICES ASSUME SketchInit PROVE Lines
    OBVIOUS
  <1>1. sketch.link \in Streams
    BY SetupInvInit, SketchTypes DEF SetupInv
  <1>2. line[sketch.link] = <<>> /\ arrived = <<>> /\ seen = 0 /\ Idle
    BY <1>1 DEF SketchInit, Init, Idle
  <1>3. Dispatches = 0
    BY <1>2 DEF Dispatches
  <1>4. SetupInv
    BY SetupInvInit
  <1> QED
    BY <1>2, <1>3 DEF Lines

LEMMA LinesHold == SketchSpec => []Lines
  BY LinesInit, LinesNext, SetupInvHolds, PTL DEF SketchSpec

-----------------------------------------------------------------------------
(* The bound variables follow the packets. *)

\* Between two callbacks the bound variables are what the last packet gave them.
BoundNewest == sketch.kind = "bind" /\ todo = {} => bound[Var] = Newest(Dispatches)

\* Which callback runs is the one of the sketch.
LEMMA Runs ==
    ASSUME SetupInv
    PROVE  /\ "index" \in todo =>
                /\ cur.index = sketch.recv /\ sketch.kind # "unpacker"
                /\ cur.stream = sketch.link
                /\ subs[cur.stream][cur.index].kind = sketch.kind
                /\ subs[cur.stream][cur.index].to =
                     IF sketch.kind = "bind" THEN Var ELSE Callback
           /\ "always" \in todo =>
                /\ sketch.kind = "unpacker" /\ cur.stream = sketch.link
                /\ always[cur.stream] = [kind |-> "unpacker", to |-> Callback]
           /\ todo # {} => cur \in Packet
  <1>a. IInv /\ TypeOK /\ Wiring
    BY DEF SetupInv, IInv
  <1>1. todo # {} => cur \in Packet /\ cur.stream \in Streams
    BY <1>a, Running DEF Packet
  <1>2. ASSUME "index" \in todo
        PROVE  /\ cur.index = sketch.recv /\ sketch.kind # "unpacker"
               /\ cur.stream = sketch.link
               /\ subs[cur.stream][cur.index].kind = sketch.kind
               /\ subs[cur.stream][cur.index].to =
                    IF sketch.kind = "bind" THEN Var ELSE Callback
    <2>1. cur.index \in DOMAIN subs[cur.stream] /\ cur.stream \in Streams
      BY <1>a, <1>1, <1>2 DEF TypeOK
    <2> QED
      BY <1>a, <2>1 DEF Wiring
  <1>3. ASSUME "always" \in todo
        PROVE  /\ sketch.kind = "unpacker" /\ cur.stream = sketch.link
               /\ always[cur.stream] = [kind |-> "unpacker", to |-> Callback]
    BY <1>a, <1>1, <1>3 DEF TypeOK, Wiring
  <1> QED
    BY <1>1, <1>2, <1>3

LEMMA DispatchesType ==
    ASSUME SetupInv, Lines
    PROVE  Dispatches \in Nat /\ Dispatches <= Len(arrived) /\ Len(arrived) \in Nat
  <1>1. sketch.link \in Streams /\ line[sketch.link] \in Seq(Packet)
    BY SketchTypes DEF SetupInv, IInv, TypeOK
  <1>2. /\ Len(line[sketch.link]) \in Nat /\ Len(arrived) \in Nat
        /\ Len(line[sketch.link]) <= Len(arrived)
    BY <1>1 DEF Lines
  <1> QED
    BY <1>2 DEF Dispatches

\* The packets dispatched so far do not change.
LEMMA DispatchedStay ==
    ASSUME SetupInv, Lines, sketch' = sketch,
           arrived' = arrived \/ \E q \in Packet : arrived' = Append(arrived, q)
    PROVE  \A n \in 0 .. Dispatches : Newest(n)' = Newest(n)
  <1> TAKE n \in 0 .. Dispatches
  <1>1. n \in Nat /\ \A m \in 1 .. n : m \in 1 .. Len(arrived)
    BY DispatchesType
  <1>2. arrived \in Seq(Packet)
    BY DEF Lines
  <1>3. \A m \in 1 .. n : arrived'[m] = arrived[m]
    BY <1>1, <1>2
  <1> QED
    BY <1>1, <1>3, NewestStays

LEMMA NewestAt ==
    ASSUME NEW n, Dispatches' = n PROVE Newest(Dispatches)' = Newest(n)'
  BY DEF Newest

LEMMA BoundNewestNext ==
    ASSUME SetupInv, Lines, BoundNewest, [SketchNext]_sketch_vars
    PROVE  BoundNewest'
  <1>a. /\ IInv /\ TypeOK /\ Wiring
        /\ Dispatches \in Nat /\ Dispatches <= Len(arrived)
        /\ sketch.link \in Streams
    BY DispatchesType, SketchTypes DEF SetupInv, IInv
  <1>1. ASSUME UNCHANGED <<line, arrived, sketch, bound, todo>> PROVE BoundNewest'
    <2>1. Newest(Dispatches)' = Newest(Dispatches)
      BY <1>1 DEF Newest, Dispatches, Latest, ValueOf
    <2> QED
      BY <1>1, <2>1 DEF BoundNewest
  <1>2. ASSUME NEW i \in {sketch.recv, sketch.send}, NEW p \in Payloads, Arrive(i, p)
        PROVE  BoundNewest'
    <2> DEFINE q == [stream |-> sketch.link, index |-> i, payload |-> p]
    <2>1. /\ UNCHANGED <<sketch, bound, todo>> /\ arrived' = Append(arrived, q)
          /\ q \in Packet
      BY <1>a, <1>2, SketchTypes DEF Arrive, Receive, Packet
    <2>2. Dispatches' = Dispatches
      BY <1>2, LinesArrive
    <2>3. Newest(Dispatches)' = Newest(Dispatches)
      BY <1>a, <2>1, <2>2, NewestAt, DispatchedStay
    <2> QED
      BY <2>1, <2>3 DEF BoundNewest
  <1>3. CASE LoopDispatches
    <2>1. phase = "parse" /\ UNCHANGED own_vars
          /\ UNCHANGED <<sketch, arrived>>
      BY <1>3 DEF LoopDispatches, own_vars
    <2>2. CASE Parse(sketch.link)
      <3> SUFFICES ASSUME sketch.kind = "bind", todo' = {}
                   PROVE  bound'[Var] = Newest(Dispatches)'
        BY <2>1 DEF BoundNewest
      <3>1. /\ Idle /\ bound' = bound /\ line[sketch.link] # <<>>
            /\ cur' = Head(line[sketch.link])
            /\ todo' = (IF cur'.index \in DOMAIN subs[sketch.link] THEN {"index"} ELSE {})
                         \cup (IF always[sketch.link] # Null THEN {"always"} ELSE {})
        BY <2>2 DEF Parse
      <3>2. todo = {}
        BY <1>a, <3>1, IdleTodo
      <3>3. Dispatches' = Dispatches + 1
        BY <2>1, <2>2, LinesParse
      <3>4. cur' = arrived[Dispatches + 1]
        <4>1. line[sketch.link] \in Seq(Packet)
          BY <1>a DEF TypeOK
        <4>2. /\ 1 \in DOMAIN line[sketch.link]
              /\ Head(line[sketch.link]) = line[sketch.link][1]
          BY <3>1, <4>1
        <4> QED
          BY <3>1, <4>2 DEF Lines
      <3>5. cur'.index # sketch.recv
        <4>1. sketch.recv \in DOMAIN subs[sketch.link]
          BY <2>1 DEF SetupInv, Phases
        <4> QED
          BY <3>1, <4>1
      <3>6. Newest(Dispatches + 1) = Newest(Dispatches)
        BY <1>a, <3>4, <3>5, NewestPasses
      <3>7. Newest(Dispatches)' = Newest(Dispatches + 1)
        <4>1. \A n : Newest(n)' = Newest(n)
          BY <2>1 DEF Newest, ValueOf, Latest
        <4> QED
          BY <3>3, <4>1, NewestAt
      <3> QED
        BY <3>1, <3>2, <3>6, <3>7 DEF BoundNewest
    <2>3. CASE RunBind
      <3> DEFINE sub == subs[cur.stream][cur.index]
      <3> SUFFICES ASSUME sketch.kind = "bind" PROVE bound'[Var] = Newest(Dispatches)'
        BY <2>1 DEF BoundNewest
      <3>1. /\ "index" \in todo /\ line' = line
            /\ \E u \in UnpackersOf(cur.stream) :
                 /\ Refill(u, cur.payload)
                 /\ bound' = [bound EXCEPT ![sub.to] = Unpacked(u, sub.to)]
        BY <2>3 DEF RunBind
      <3>2. /\ cur.index = sketch.recv /\ sub.to = Var /\ cur \in Packet
            /\ cur.stream \in Streams /\ cur.payload \in Payloads
        BY <3>1, Runs DEF Packet
      <3> HIDE DEF sub
      <3>3. PICK u \in UnpackersOf(cur.stream) :
              /\ Refill(u, cur.payload)
              /\ bound' = [bound EXCEPT ![Var] = Unpacked(u, Var)]
        BY <3>1, <3>2
      <3>4. Unpacked(u, Var) = ValueOf(cur, Var)
        BY <1>a, <3>2, <3>3, UnpackerOf, RefillYields, SketchAssumption DEF ValueOf
      <3>5. bound'[Var] = ValueOf(cur, Var)
        BY <1>a, <3>3, <3>4, SketchAssumption DEF TypeOK
      <3>6. Dispatches >= 1 /\ cur = arrived[Dispatches]
        BY <3>2, NoPacketIsNone DEF Lines, Idle
      <3>7. Newest(Dispatches) = ValueOf(cur, Var)
        BY <1>a, <3>2, <3>6, NewestHears
      <3>8. Newest(Dispatches)' = Newest(Dispatches)
        BY <2>1, <3>1 DEF Newest, Dispatches, Latest, ValueOf
      <3> QED
        BY <3>5, <3>7, <3>8
    <2>4. CASE Dispatched
      BY <1>1, <2>1, <2>4 DEF Dispatched
    <2> QED
      BY <1>3, <2>2, <2>3, <2>4 DEF LoopDispatches
  <1>4. CASE CallLambda \/ CallEvery \/ CallJson
    <2>1. sketch' = sketch
      BY <1>4 DEF CallLambda, CallEvery, CallJson
    <2>2. sketch.kind # "bind"
      BY <1>4, Runs DEF CallLambda, CallEvery, CallJson, RunTuple, RunAlways, RunJson
    <2> QED
      BY <2>1, <2>2 DEF BoundNewest
  <1>5. CASE SetupSubscribe
    <2>1. UNCHANGED <<line, bound, todo>>
      BY <1>5 DEF SetupSubscribe, Subscribe, SubscribeAlways
    <2> QED
      BY <1>1, <1>5, <2>1 DEF SetupSubscribe
  <1>6. CASE \/ WifiConnects \/ ClientConnects \/ SetupPublish \/ SetupRate
             \/ LoopBegins \/ ParseEnds \/ PostGoesOn \/ PostEnds
             \/ UNCHANGED sketch_vars
    BY <1>1, <1>6 DEF WifiConnects, ClientConnects, SetupPublish, SetupRate, LoopBegins,
       ParseEnds, PostGoesOn, PostEnds, sketch_vars, sub_vars, vars, own_vars
  <1> QED
    BY <1>2, <1>3, <1>4, <1>5, <1>6 DEF SketchNext, Board

LEMMA BoundNewestInit == SketchInit => BoundNewest
  <1> SUFFICES ASSUME SketchInit PROVE BoundNewest
    OBVIOUS
  <1>1. SetupInv /\ Lines /\ phase \in {"wifi", "accept", "subscribe"}
    BY SetupInvInit, LinesInit, SketchTypes DEF SketchInit, SetupInv
  <1>2. Dispatches = 0 /\ bound[Var] = "initial"
    BY <1>1, SketchAssumption DEF Lines, SketchInit, Init
  <1>3. {m \in 1 .. 0 : arrived[m].index = sketch.recv} = {}
    OBVIOUS
  <1> QED
    BY <1>2, <1>3 DEF BoundNewest, Newest

-----------------------------------------------------------------------------
(* post() packs the bound variables. *)

\* Every element is made of parts by reference; what is packed of one are the bound
\* variables, which nothing changes while post() runs.
PlainShape == {<<"value">>, <<"value", "value", "value">>}

Elements ==
    /\ \A d \in DOMAIN addrMap : addrMap[d] \in Elems \cap DOMAIN elem
    /\ \A e \in DOMAIN elem :
         elem[e] \in [shape : PlainShape, captured : Values, last : Nat, interval : Nat]
    /\ pc \in {"stamp", "encode"} => posting \in DOMAIN addrMap
    /\ toPost \subseteq DOMAIN addrMap

PackedNewest ==
    pc = "encode" =>
      /\ encoder \in Seq({"val"} \X Values)
      /\ part \in 0 .. Len(Pub!shape)
      /\ \A k \in DOMAIN encoder : encoder[k] = <<"val", bound[Var]>>

PostInv == Elements /\ PackedNewest

\* A part by reference packs the variable.
LEMMA PlainToken ==
    ASSUME Elements, pc = "encode", NEW k \in 1 .. Len(Pub!shape)
    PROVE  Pub!Token(addrMap[posting], k) = <<"val", bound[Var]>>
  <1>1. Pub!shape \in PlainShape /\ Pub!shape = elem[addrMap[posting]].shape
    BY DEF Elements, Pub!shape
  <1>2. \A s \in PlainShape : \A j \in 1 .. Len(s) : s[j] = "value"
    BY DEF PlainShape
  <1>3. Pub!shape[k] = "value"
    BY <1>1, <1>2
  <1> QED
    BY <1>1, <1>3 DEF Pub!Token

LEMMA PostInvStays ==
    ASSUME PostInv, UNCHANGED <<addrMap, elem, pc, toPost, posting>>, pc # "encode"
    PROVE  PostInv'
  BY DEF PostInv, Elements, PackedNewest

LEMMA PostInvNext ==
    ASSUME SetupInv, PostInv, [SketchNext]_sketch_vars
    PROVE  PostInv'
  <1>a. /\ IInv /\ TypeOK /\ Wiring /\ Phases /\ Elements /\ PackedNewest
        /\ bound[Var] \in Values
    BY SketchAssumption DEF SetupInv, IInv, TypeOK, PostInv
  <1>1. CASE SetupSubscribe \/ ParseEnds \/ LoopDispatches
             \/ CallLambda \/ CallEvery \/ CallJson
    <2>1. pc = "idle"
      BY <1>a, <1>1 DEF Phases, SetupSubscribe, ParseEnds, LoopDispatches, CallLambda,
         CallEvery, CallJson
    <2>2. CASE ParseEnds /\ sketch.kind = "bind"
      <3>1. /\ pc' = "post" /\ toPost' = DOMAIN addrMap
            /\ UNCHANGED <<addrMap, elem, posting>>
        BY <2>2 DEF ParseEnds, Pub!PostBegin
      <3> QED
        BY <1>a, <3>1 DEF PostInv, Elements, PackedNewest
    <2>3. CASE ~(ParseEnds /\ sketch.kind = "bind")
      <3>1. UNCHANGED <<addrMap, elem, pc, toPost, posting>>
        BY <1>1, <2>3, OneShotKeeps
           DEF SetupSubscribe, ParseEnds, LoopDispatches, CallLambda, CallEvery, CallJson,
               Answer, NoAnswer, pub_vars
      <3> QED
        BY <2>1, <3>1, PostInvStays
    <2> QED
      BY <2>2, <2>3
  <1>2. ASSUME UNCHANGED pub_vars, UNCHANGED bound PROVE PostInv'
    BY <1>a, <1>2 DEF pub_vars, PostInv, Elements, PackedNewest, Pub!shape
  <1>3. ASSUME NEW i \in {sketch.recv, sketch.send}, NEW p \in Payloads, Arrive(i, p)
        PROVE  PostInv'
    BY <1>2, <1>3 DEF Arrive, Receive
  <1>4. CASE WifiConnects \/ ClientConnects \/ LoopBegins \/ UNCHANGED sketch_vars
    BY <1>2, <1>4 DEF WifiConnects, ClientConnects, LoopBegins, sketch_vars, sub_vars, vars
  <1>5. CASE SetupPublish
    <2> DEFINE t == [stream |-> sketch.link, index |-> sketch.send]
               new == [shape |-> sketch.shape, captured |-> bound[Var], last |-> 0,
                       interval |-> 1]
    <2>1. /\ Pub!Publish(t, sketch.shape) /\ pc = "idle" /\ sketch.kind = "bind"
          /\ sketch \in Binder
      <3>1. phase = "publish"
        BY <1>5 DEF SetupPublish
      <3>2. sketch.kind = "bind" /\ pc = "idle"
        BY <1>a, <3>1 DEF Phases
      <3>3. sketch \in Answerer \cup Binder
        BY <1>a, ProgramsAssumption DEF Wiring
      <3> QED
        BY <1>5, <3>2, <3>3 DEF SetupPublish, Answerer
    <2>2. new \in [shape : PlainShape, captured : Values, last : Nat, interval : Nat]
      BY <1>a, <2>1 DEF Binder, PlainShape
    <2> HIDE DEF new
    <2>3. PICK e \in Pub!Fresh, d \in Pub!getDestination(t) :
            /\ addrMap' = IF d \in DOMAIN addrMap THEN addrMap
                          ELSE [x \in DOMAIN addrMap \cup {d} |->
                                  IF x = d THEN e ELSE addrMap[x]]
            /\ elem' = [x \in Pub!Held(addrMap', e) |->
                          IF x = e THEN new ELSE elem[x]]
      BY <2>1 DEF Pub!Publish, new
    <2>4. e \in Elems /\ e # Null
      BY <2>3, SketchAssumption DEF Pub!Fresh
    <2>5. UNCHANGED <<pc, toPost, posting>>
      BY <2>1 DEF Pub!Publish, Pub!post_vars
    <2>6. \A x \in DOMAIN addrMap' :
            \/ addrMap'[x] = e
            \/ x \in DOMAIN addrMap /\ addrMap'[x] = addrMap[x]
      BY <2>3
    <2>7. /\ DOMAIN elem' = Pub!Held(addrMap', e)
          /\ \A x \in DOMAIN elem' : elem'[x] = IF x = e THEN new ELSE elem[x]
      BY <2>3
    <2>8. \A x \in DOMAIN elem' : x = e \/ x \in DOMAIN elem
      BY <1>a, <2>6, <2>7 DEF Pub!Held, Elements
    <2>9. \A x \in DOMAIN addrMap' : addrMap'[x] \in Elems \cap DOMAIN elem'
      <3>1. \A x \in DOMAIN addrMap' : addrMap'[x] \in Elems
        BY <1>a, <2>4, <2>6 DEF Elements
      <3> QED
        BY <2>7, <3>1, SketchAssumption DEF Pub!Held
    <2>10. DOMAIN addrMap \subseteq DOMAIN addrMap'
      BY <2>3
    <2>11. Elements'
      BY <1>a, <2>1, <2>2, <2>5, <2>7, <2>8, <2>9, <2>10 DEF Elements
    <2> QED
      BY <2>1, <2>5, <2>11 DEF PostInv, PackedNewest
  <1>6. CASE SetupRate
    <2>1. /\ elem' = [elem EXCEPT ![ref].interval = 0] /\ pc' = pc /\ pc = "idle"
          /\ UNCHANGED <<addrMap, toPost, posting>>
      BY <1>6 DEF SetupRate, Pub!SetInterval, Pub!post_vars, Pub!Idle
    <2>2. DOMAIN elem' = DOMAIN elem
      BY <2>1
    <2>3. \A e \in DOMAIN elem :
            elem'[e] \in [shape : PlainShape, captured : Values, last : Nat,
                          interval : Nat]
      BY <1>a, <2>1 DEF Elements
    <2> QED
      BY <1>a, <2>1, <2>2, <2>3 DEF PostInv, Elements, PackedNewest
  <1>7. CASE PostGoesOn
    <2>0. bound' = bound
      BY <1>7 DEF PostGoesOn, sub_vars, vars
    <2>1. ASSUME NEW d \in toPost, Pub!PostDue(d) PROVE PostInv'
      BY <1>a, <2>1 DEF Pub!PostDue, PostInv, Elements, PackedNewest
    <2>2. CASE Pub!PostStamp
      <3>1. /\ pc = "stamp" /\ pc' = "encode" /\ encoder' = <<>> /\ part' = 0
            /\ elem' = [elem EXCEPT ![addrMap[posting]].last =
                          Pub!Stamp(addrMap[posting])]
            /\ UNCHANGED <<addrMap, toPost, posting>>
        BY <2>2 DEF Pub!PostStamp, Pub!Cleared
      <3>2. Pub!Stamp(addrMap[posting]) \in Nat
        BY DEF Pub!Stamp, Pub!Micros
      <3>3. /\ DOMAIN elem' = DOMAIN elem
            /\ \A e \in DOMAIN elem :
                 elem'[e] \in [shape : PlainShape, captured : Values, last : Nat,
                               interval : Nat]
        BY <1>a, <3>1, <3>2 DEF Elements
      <3>4. Elements'
        BY <1>a, <3>1, <3>3 DEF Elements
      <3>5. Pub!shape' \in PlainShape
        BY <3>1, <3>4 DEF Elements, Pub!shape
      <3>6. Len(Pub!shape') \in Nat
        BY <3>5 DEF PlainShape
      <3> QED
        BY <3>1, <3>4, <3>6 DEF PostInv, PackedNewest
    <2>3. CASE Pub!PostEncode
      <3>1. /\ pc = "encode" /\ part < Len(Pub!shape) /\ part' = part + 1
            /\ encoder' = Append(encoder, Pub!Token(addrMap[posting], part + 1))
            /\ UNCHANGED <<addrMap, elem, pc, toPost, posting>>
        BY <2>3 DEF Pub!PostEncode
      <3>2. Pub!shape' = Pub!shape
        BY <3>1 DEF Pub!shape
      <3>3. Len(Pub!shape) \in Nat
        BY <1>a, <3>1 DEF Elements, Pub!shape, PlainShape
      <3>4. Pub!Token(addrMap[posting], part + 1) = <<"val", bound[Var]>>
        BY <1>a, <3>1, <3>3, PlainToken DEF PackedNewest
      <3>5. encoder \in Seq({"val"} \X Values)
        BY <1>a, <3>1 DEF PackedNewest
      <3>6. <<"val", bound[Var]>> \in {"val"} \X Values
        BY <1>a
      <3>7. /\ encoder' \in Seq({"val"} \X Values)
            /\ \A k \in DOMAIN encoder' :
                 \/ encoder'[k] = <<"val", bound[Var]>>
                 \/ k \in DOMAIN encoder /\ encoder'[k] = encoder[k]
        BY <3>1, <3>4, <3>5, <3>6
      <3>8. PackedNewest'
        BY <1>a, <2>0, <3>1, <3>2, <3>3, <3>7 DEF PackedNewest
      <3>9. Elements'
        BY <1>a, <3>1 DEF Elements
      <3> QED
        BY <3>8, <3>9 DEF PostInv
    <2>4. CASE Pub!PostSend
      BY <1>a, <2>4 DEF Pub!PostSend, PostInv, Elements, PackedNewest
    <2> QED
      BY <1>7, <2>1, <2>2, <2>3, <2>4 DEF PostGoesOn
  <1>8. CASE PostEnds
    BY <1>a, <1>8 DEF PostEnds, Pub!PostEnd, PostInv, Elements, PackedNewest
  <1> QED
    BY <1>1, <1>3, <1>4, <1>5, <1>6, <1>7, <1>8 DEF SketchNext, Board

\* All parts of a packet that an update() posts are what one packet of the peer left
\* in the variables, fitting or not, and that packet is at least as new as those that
\* had arrived when the update() began: nothing that arrives or is parsed changes the
\* variables between two parts.
THEOREM SketchPostsNewest == SketchSpec => []PostsNewest
  <1>1. SketchInit => BoundNewest /\ PostInv
    <2>1. SketchInit => PostInv
      BY DEF SketchInit, Pub!Init, PostInv, Elements, PackedNewest
    <2> QED
      BY <2>1, BoundNewestInit
  <1>2. /\ SetupInv /\ Lines /\ BoundNewest /\ PostInv /\ [SketchNext]_sketch_vars
        => BoundNewest' /\ PostInv'
    BY BoundNewestNext, PostInvNext
  <1>3. SetupInv /\ Lines /\ BoundNewest /\ PostInv => PostsNewest
    <2> SUFFICES ASSUME SetupInv, Lines, BoundNewest, PostInv, Posting
                 PROVE  \E m \in seen .. Len(arrived) :
                          \A k \in DOMAIN encoder :
                            encoder[k] = <<"val", Newest(m)>>
      BY DEF PostsNewest
    <2>1. pc = "encode" /\ phase = "post"
      BY DEF Posting, SetupInv, Phases
    <2>2. sketch.kind = "bind" /\ Idle /\ Dispatches >= seen
      BY <2>1 DEF SetupInv, Phases, Lines
    <2>3. todo = {}
      BY <2>2, IdleTodo DEF SetupInv
    <2>4. Dispatches \in seen .. Len(arrived)
      BY <2>2, DispatchesType DEF Lines
    <2>5. \A k \in DOMAIN encoder : encoder[k] = <<"val", Newest(Dispatches)>>
      BY <2>1, <2>2, <2>3 DEF BoundNewest, PostInv, PackedNewest
    <2> QED
      BY <2>4, <2>5
  <1> QED
    BY <1>1, <1>2, <1>3, SetupInvHolds, LinesHold, PTL DEF SketchSpec

-----------------------------------------------------------------------------
(* What is answered. *)

\* A one-shot call with arguments sends them behind its header, whatever the encoder
\* held.
LEMMA OneShotSends ==
    ASSUME NEW api \in {"send", "send_arr", "send_map", "encode_arr"},
           NEW args, args # <<>>, api = "send_map" => Len(args) % 2 = 0,
           Pub!OneShot(api, args)
    PROVE  packet'.payload = Pub!Header(api, Len(args)) \o Pub!Packed(args)
  <1>1. ~(api \in Pub!MapApis /\ Len(args) % 2 = 1)
    BY DEF Pub!MapApis
  <1>2. encoder' = Pub!Header(api, Len(args)) \o Pub!Packed(args)
    BY <1>1 DEF Pub!OneShot
  <1>3. packet' = [from |-> api, dest |-> Null, payload |-> encoder']
    BY <1>1 DEF Pub!OneShot
  <1> QED
    BY <1>2, <1>3

\* The newest document with the key k that the first n answers are for.
NewestPart(k, n) ==
    LET having == {m \in 1 .. n : k \in Keys[answers[m].to.payload]}
    IN IF having = {} THEN "initial" ELSE answers[Latest(having)].to.payload

\* What the ArduinoJson sketches do instead of sending the same data back
\* (SendsSameDataBack): every part of an answer is of the newest document that had
\* it, this one or an earlier one.
AnswersAreMerged ==
    sketch.kind = "json" =>
      \A n \in DOMAIN answers :
        answers[n].data = << <<"val", NewestPart("ka", n)>>,
                             <<"val", NewestPart("km", n)>> >>

\* NewestPart of a history a of answers.
PartOf(a, k, n) ==
    LET having == {m \in 1 .. n : k \in Keys[a[m].to.payload]}
    IN IF having = {} THEN "initial" ELSE a[Latest(having)].to.payload

LEMMA PartOfIsNewest ==
    ASSUME NEW k, NEW n
    PROVE  /\ NewestPart(k, n) = PartOf(answers, k, n)
           /\ NewestPart(k, n)' = PartOf(answers', k, n)
  BY DEF NewestPart, PartOf

\* Later answers do not change which document is the newest of the first n.
LEMMA NewestPartStays ==
    ASSUME NEW k, NEW n \in Nat, \A m \in 1 .. n : answers'[m] = answers[m]
    PROVE  NewestPart(k, n)' = NewestPart(k, n)
  <1> DEFINE having == {m \in 1 .. n : k \in Keys[answers[m].to.payload]}
  <1>1. having = {m \in 1 .. n : k \in Keys[answers'[m].to.payload]}
    OBVIOUS
  <1>2. having # {} => Latest(having) \in 1 .. n
    BY LatestIsLargest
  <1>3. NewestPart(k, n)' = IF having = {} THEN "initial"
                            ELSE answers'[Latest(having)].to.payload
    BY <1>1 DEF NewestPart
  <1> HIDE DEF having
  <1>4. NewestPart(k, n) = IF having = {} THEN "initial"
                           ELSE answers[Latest(having)].to.payload
    BY DEF NewestPart, having
  <1> QED
    BY <1>2, <1>3, <1>4

\* The answer to a document is of the document, or else of an earlier one.
LEMMA PartOfNext ==
    ASSUME NEW a, NEW k, NEW n \in Nat
    PROVE  PartOf(a, k, n + 1) =
             IF k \in Keys[a[n + 1].to.payload] THEN a[n + 1].to.payload
             ELSE PartOf(a, k, n)
  <1> DEFINE having(j) == {m \in 1 .. j : k \in Keys[a[m].to.payload]}
  <1>1. \A m : m \in 1 .. n + 1 <=> m \in 1 .. n \/ m = n + 1
    OBVIOUS
  <1>2. CASE k \in Keys[a[n + 1].to.payload]
    <2>1. /\ n + 1 \in having(n + 1) /\ having(n + 1) \in SUBSET Nat
          /\ \A x \in having(n + 1) : x <= n + 1
      BY <1>2
    <2>2. Latest(having(n + 1)) = n + 1
      BY <2>1, LatestIs
    <2> QED
      BY <1>2, <2>1, <2>2 DEF PartOf
  <1>3. CASE k \notin Keys[a[n + 1].to.payload]
    <2>1. having(n + 1) = having(n)
      BY <1>1, <1>3
    <2> QED
      BY <1>3, <2>1 DEF PartOf
  <1> QED
    BY <1>2, <1>3

JsonInv ==
    sketch.kind = "json" =>
      /\ answers \in Seq([to : Packet, data : Seq({"val"} \X Values)])
      /\ nested \in [{"ka", "km"} -> Values]
      /\ \A k \in {"ka", "km"} : \A n \in Nat :
           n = Len(answers) => nested[k] = NewestPart(k, n)

LEMMA JsonNext ==
    ASSUME SetupInv, JsonInv, AnswersAreMerged, [SketchNext]_sketch_vars
    PROVE  JsonInv' /\ AnswersAreMerged'
  <1>1. ASSUME UNCHANGED <<sketch, nested, answers>> PROVE JsonInv' /\ AnswersAreMerged'
    <2>1. \A k, n : NewestPart(k, n)' = NewestPart(k, n)
      BY <1>1 DEF NewestPart, Latest
    <2> QED
      BY <1>1, <2>1 DEF JsonInv, AnswersAreMerged
  <1>2. CASE \/ WifiConnects \/ ClientConnects \/ SetupSubscribe \/ SetupPublish
             \/ SetupRate \/ LoopBegins \/ LoopDispatches \/ ParseEnds \/ PostGoesOn
             \/ PostEnds \/ UNCHANGED sketch_vars
    BY <1>1, <1>2 DEF WifiConnects, ClientConnects, SetupSubscribe, SetupPublish,
       SetupRate, LoopBegins, LoopDispatches, ParseEnds, PostGoesOn, PostEnds,
       sketch_vars, own_vars
  <1>3. ASSUME NEW i \in {sketch.recv, sketch.send}, NEW p \in Payloads, Arrive(i, p)
        PROVE  JsonInv' /\ AnswersAreMerged'
    BY <1>1, <1>3 DEF Arrive
  <1>4. CASE CallLambda \/ CallEvery
    <2>1. sketch' = sketch /\ sketch.kind # "json"
      BY <1>4, Runs DEF CallLambda, CallEvery, RunTuple, RunAlways
    <2> QED
      BY <2>1 DEF JsonInv, AnswersAreMerged
  <1>5. CASE CallJson
    <2>1. sketch' = sketch
      BY <1>5 DEF CallJson
    <2> SUFFICES ASSUME sketch.kind = "json" PROVE JsonInv' /\ AnswersAreMerged'
      BY <2>1 DEF JsonInv, AnswersAreMerged
    <2>2. CASE cur.payload \notin Fits[Callback]
      BY <1>1, <1>5, <2>1, <2>2 DEF CallJson, NoAnswer
    <2>3. CASE cur.payload \in Fits[Callback]
      <3> DEFINE p == cur.payload
                 args == <<nested'["ka"], nested'["km"]>>
                 new == [to |-> cur, data |-> packet'.payload]
                 Answered == [to : Packet, data : Seq({"val"} \X Values)]
      <3>1. cur \in Packet /\ p \in Payloads /\ p \in Values
        BY <1>5, Runs DEF CallJson, RunJson, Packet, Values
      <3>2. /\ nested' = Merged(p) /\ Pub!OneShot("send", args)
            /\ answers' = Append(answers, new)
        BY <1>5, <2>3, SketchTypes DEF CallJson, Answer, SetupInv
      <3>3. nested' \in [{"ka", "km"} -> Values]
        BY <3>1, <3>2 DEF Merged, JsonInv
      <3>4. packet'.payload = << <<"val", nested'["ka"]>>, <<"val", nested'["km"]>> >>
        <4>1. packet'.payload = Pub!Header("send", Len(args)) \o Pub!Packed(args)
          BY <3>2, OneShotSends
        <4>2. Pub!Header("send", Len(args)) = <<>>
          BY DEF Pub!Header
        <4>3. Pub!Packed(args) = << <<"val", nested'["ka"]>>, <<"val", nested'["km"]>> >>
          BY DEF Pub!Packed
        <4>4. Pub!Packed(args) \in Seq({"val"} \X Values)
          <5>1. nested'["ka"] \in Values /\ nested'["km"] \in Values
            BY <3>3
          <5>2. /\ <<"val", nested'["ka"]>> \in {"val"} \X Values
                /\ <<"val", nested'["km"]>> \in {"val"} \X Values
            BY <5>1
          <5>3. \A T : \A x, y \in T : <<x, y>> \in Seq(T)
            OBVIOUS
          <5>4. << <<"val", nested'["ka"]>>, <<"val", nested'["km"]>> >>
                  \in Seq({"val"} \X Values)
            BY <5>2, <5>3
          <5> QED
            BY <4>3, <5>4
        <4>5. \A t \in Seq({"val"} \X Values) : <<>> \o t = t
          OBVIOUS
        <4>6. packet'.payload = Pub!Packed(args)
          BY <4>1, <4>2, <4>4, <4>5
        <4> QED
          BY <4>3, <4>6
      <3>5. new \in Answered /\ answers \in Seq(Answered)
        BY <3>1, <3>3, <3>4 DEF JsonInv
      <3>6. /\ new.to = cur
            /\ new.data = << <<"val", nested'["ka"]>>, <<"val", nested'["km"]>> >>
        BY <3>4
      <3> HIDE DEF new, Answered
      <3>13. PICK n \in Nat : n = Len(answers)
        BY <3>5
      <3>7. /\ Len(answers') = n + 1 /\ answers' \in Seq(Answered)
            /\ answers'[n + 1] = new
            /\ \A m \in 1 .. n : answers'[m] = answers[m]
        BY <3>2, <3>5, <3>13
      <3>8. ASSUME NEW k \in {"ka", "km"}, NEW j \in 1 .. n
            PROVE  NewestPart(k, j)' = NewestPart(k, j)
        BY <3>7, <3>8, NewestPartStays
      <3>9. ASSUME NEW k \in {"ka", "km"}
            PROVE  NewestPart(k, n + 1)' = nested'[k]
        <4>1. NewestPart(k, n)' = NewestPart(k, n)
          BY <3>7, NewestPartStays
        <4>2. NewestPart(k, n + 1)' =
                IF k \in Keys[p] THEN p ELSE NewestPart(k, n)'
          <5>1. PartOf(answers', k, n + 1) =
                  IF k \in Keys[answers'[n + 1].to.payload]
                  THEN answers'[n + 1].to.payload ELSE PartOf(answers', k, n)
            BY PartOfNext
          <5>2. answers'[n + 1].to.payload = p
            BY <3>6, <3>7
          <5> QED
            BY <5>1, <5>2, PartOfIsNewest
        <4>3. nested'[k] = IF k \in Keys[p] THEN p ELSE nested[k]
          BY <3>2 DEF Merged, JsonInv
        <4>4. nested[k] = NewestPart(k, n)
          BY <3>13 DEF JsonInv
        <4> QED
          BY <4>1, <4>2, <4>3, <4>4
      <3>10. JsonInv'
        BY <2>1, <3>3, <3>7, <3>9 DEF JsonInv, Answered
      <3>11. ASSUME NEW j \in DOMAIN answers'
             PROVE  answers'[j].data = << <<"val", NewestPart("ka", j)'>>,
                                          <<"val", NewestPart("km", j)'>> >>
        <4>1. CASE j = n + 1
          BY <3>6, <3>7, <3>9, <4>1
        <4>2. CASE j # n + 1
          <5>1. j \in 1 .. n /\ j \in DOMAIN answers
            BY <3>5, <3>7, <3>11, <3>13, <4>2
          <5>2. answers[j].data = << <<"val", NewestPart("ka", j)>>,
                                     <<"val", NewestPart("km", j)>> >>
            BY <5>1 DEF AnswersAreMerged
          <5> QED
            BY <3>7, <3>8, <5>1, <5>2
        <4> QED
          BY <4>1, <4>2
      <3>12. AnswersAreMerged'
        BY <3>11 DEF AnswersAreMerged
      <3> QED
        BY <3>10, <3>12
    <2> QED
      BY <2>2, <2>3
  <1> QED
    BY <1>2, <1>3, <1>4, <1>5 DEF SketchNext, Board

LEMMA JsonHolds == SketchSpec => [](JsonInv /\ AnswersAreMerged)
  <1>1. SketchInit => JsonInv /\ AnswersAreMerged
    <2> SUFFICES ASSUME SketchInit PROVE JsonInv /\ AnswersAreMerged
      OBVIOUS
    <2>1. answers = <<>> /\ nested = [k \in {"ka", "km"} |-> "initial"]
      BY DEF SketchInit
    <2>2. \A k : NewestPart(k, 0) = "initial"
      BY DEF NewestPart
    <2> QED
      BY <2>1, <2>2 DEF JsonInv, AnswersAreMerged, Values
  <1>2. /\ SetupInv /\ JsonInv /\ AnswersAreMerged /\ [SketchNext]_sketch_vars
        => JsonInv' /\ AnswersAreMerged'
    BY JsonNext
  <1> QED
    BY <1>1, <1>2, SetupInvHolds, PTL DEF SketchSpec

\* Whatever documents arrive, with one key, with both, with none or damaged, each
\* part of an answer is of the newest document that had it, so that an answer to a
\* document without a key is not what was sent.
THEOREM SketchAnswersAreMerged == SketchSpec => []AnswersAreMerged
  BY JsonHolds, PTL

-----------------------------------------------------------------------------
(* The sketches with a lambda take the steps of Echo. *)

Answered == [to : Packet, data : Pub!Payload]

\* Only packets of the peer arrive, and what is answered is a payload.
EchoInv ==
    /\ arrived \in Seq(FromPeer)
    /\ Answering => answers \in Seq(Answered)

LEMMA DataOfAppend ==
    ASSUME NEW a \in Seq(Answered), NEW e \in Answered
    PROVE  Data(Append(a, e)) = Data(a) \o <<e.data>> /\ Data(a) \in Seq(Pub!Payload)
  <1> DEFINE D == Pub!Payload
  <1> DEFINE b == Append(a, e)
             c == Data(a) \o <<e.data>>
  <1>1. e.data \in D
    BY DEF Answered
  <1> HIDE DEF D
  <1>2. Data(a) \in Seq(D) /\ Len(Data(a)) = Len(a) /\ Len(a) \in Nat
    <2>1. /\ DOMAIN a = 1 .. Len(a) /\ Len(a) \in Nat
          /\ \A k \in DOMAIN a : a[k] \in Answered
      OBVIOUS
    <2>2. \A k \in DOMAIN a : a[k].data \in D
      BY <2>1 DEF Answered, D
    <2>3. Data(a) \in [1 .. Len(a) -> D]
      BY <2>1, <2>2 DEF Data
    <2> QED
      BY <2>1, <2>3
  <1>3. /\ DOMAIN b = 1 .. Len(a) + 1 /\ b[Len(a) + 1] = e
        /\ \A k \in 1 .. Len(a) : b[k] = a[k]
    OBVIOUS
  <1>4. DOMAIN Data(b) = 1 .. Len(a) + 1
        /\ \A k \in 1 .. Len(a) + 1 : Data(b)[k] = b[k].data
    BY <1>3 DEF Data
  <1> HIDE DEF b
  <1>5. \A k \in 1 .. Len(a) : Data(a)[k] = a[k].data
    BY DEF Data
  <1>6. /\ c \in Seq(D) /\ DOMAIN c = 1 .. Len(a) + 1
        /\ c[Len(a) + 1] = e.data
        /\ \A k \in 1 .. Len(a) : c[k] = Data(a)[k]
    <2> DEFINE d == Data(a)
    <2> HIDE DEF d
    <2>1. d \in Seq(D) /\ Len(d) = Len(a)
      BY <1>2 DEF d
    <2>2. /\ d \o <<e.data>> \in Seq(D)
          /\ DOMAIN (d \o <<e.data>>) = 1 .. Len(d) + 1
          /\ (d \o <<e.data>>)[Len(d) + 1] = e.data
          /\ \A k \in 1 .. Len(d) : (d \o <<e.data>>)[k] = d[k]
      BY <1>1, <2>1
    <2> QED
      BY <2>1, <2>2 DEF d
  <1> HIDE DEF c
  <1>7. \A k \in 1 .. Len(a) + 1 : Data(b)[k] = c[k]
    <2> TAKE k \in 1 .. Len(a) + 1
    <2>1. CASE k = Len(a) + 1
      BY <1>2, <1>3, <1>4, <1>6, <2>1
    <2>2. CASE k # Len(a) + 1
      <3>1. k \in 1 .. Len(a)
        BY <1>2, <2>2
      <3> QED
        BY <1>3, <1>4, <1>5, <1>6, <3>1
    <2> QED
      BY <2>1, <2>2
  <1>8. Data(b) = [k \in 1 .. Len(a) + 1 |-> Data(b)[k]]
    BY <1>4 DEF Data
  <1>9. c = [k \in 1 .. Len(a) + 1 |-> c[k]]
    BY <1>6
  <1>10. Data(b) = c
    BY <1>7, <1>8, <1>9
  <1> QED
    BY <1>2, <1>10 DEF b, c, D

\* Nobody else's packets are dispatched.
LEMMA InLine ==
    ASSUME SetupInv, Lines, EchoInv
    PROVE  /\ line[sketch.link] \in Seq(FromPeer)
           /\ ~Idle => cur \in FromPeer
           /\ FromPeer \subseteq Packet
  <1>1. /\ sketch.link \in Streams /\ sketch.recv \in Indices /\ sketch.send \in Indices
        /\ line[sketch.link] \in Seq(Packet)
    BY SketchTypes DEF SetupInv, IInv, TypeOK
  <1>2. FromPeer \subseteq Packet
    BY <1>1 DEF FromPeer, Packet
  <1>3. Dispatches \in Nat /\ Len(arrived) \in Nat /\ arrived \in Seq(FromPeer)
        /\ Dispatches <= Len(arrived)
    BY DispatchesType DEF EchoInv
  <1>4. Len(arrived) = Dispatches + Len(line[sketch.link])
        /\ Len(line[sketch.link]) \in Nat
    BY <1>1, <1>3 DEF Dispatches
  <1>5. ASSUME NEW k \in 1 .. Len(line[sketch.link])
        PROVE  line[sketch.link][k] \in FromPeer
    <2>1. Dispatches + k \in 1 .. Len(arrived)
      BY <1>3, <1>4
    <2>2. line[sketch.link][k] = arrived[Dispatches + k]
      BY <1>1, <1>5 DEF Lines
    <2> QED
      BY <1>3, <2>1, <2>2
  <1>6. line[sketch.link] \in Seq(FromPeer)
    <2> DEFINE l == line[sketch.link]
    <2>1. l \in [1 .. Len(l) -> FromPeer]
      BY <1>1, <1>5
    <2> QED
      BY <1>4, <2>1
  <1>7. ASSUME ~Idle PROVE cur \in FromPeer
    <2>1. Dispatches \in 1 .. Len(arrived) /\ cur = arrived[Dispatches]
      BY <1>3, <1>7 DEF Lines
    <2> QED
      BY <1>3, <2>1
  <1> QED
    BY <1>2, <1>6, <1>7

\* A callback answers with a payload: the header of the function it calls and the
\* values it was called with.
LEMMA AnswerData ==
    ASSUME Wiring, sketch \in Answerer, NEW v \in Values,
           Pub!OneShot(sketch.api, Echoed(v))
    PROVE  /\ packet'.payload = Pub!Header(sketch.api, Len(Echoed(v)))
                                  \o Pub!Packed(Echoed(v))
           /\ packet'.payload \in Pub!Payload
  <1>1. sketch.api \in {"send", "send_arr", "send_map", "encode_arr"}
    BY DEF Answerer
  <1>2. /\ Echoed(v) # <<>>
        /\ sketch.api = "send_map" => Len(Echoed(v)) % 2 = 0
        /\ Echoed(v) \in Seq(Values) /\ Len(Echoed(v)) \in 1 .. 2
    BY DEF Echoed
  <1>3. packet'.payload = Pub!Header(sketch.api, Len(Echoed(v))) \o Pub!Packed(Echoed(v))
    BY <1>1, <1>2, OneShotSends
  <1>4. Pub!Header(sketch.api, Len(Echoed(v))) \in Pub!Payload
    <2> DEFINE n == Len(Echoed(v))
    <2>1. n \in Nat /\ n \div 2 \in Nat
      BY <1>2
    <2> HIDE DEF n
    <2>2. CASE sketch.api = "send"
      BY <2>2 DEF Pub!Header, Pub!Payload
    <2>3. CASE sketch.api \in {"send_arr", "encode_arr", "send_map"}
      <3>1. <<"arr", n>> \in Pub!Tokens /\ <<"map", n \div 2>> \in Pub!Tokens
        BY <2>1 DEF Pub!Tokens
      <3>2. \/ Pub!Header(sketch.api, n) = << <<"arr", n>> >>
            \/ Pub!Header(sketch.api, n) = << <<"map", n \div 2>> >>
        BY <2>3 DEF Pub!Header
      <3>3. \A t \in Pub!Tokens : <<t>> \in Pub!Payload
        BY DEF Pub!Payload
      <3> QED
        BY <3>1, <3>2, <3>3 DEF n
    <2> QED
      BY <1>1, <2>2, <2>3 DEF n
  <1>5. Pub!Packed(Echoed(v)) \in Pub!Payload
    BY <1>2 DEF Pub!Packed, Pub!Payload, Pub!Tokens
  <1> QED
    BY <1>3, <1>4, <1>5 DEF Pub!Payload

\* A callback is called with what the packet holds.
LEMMA GotIs ==
    ASSUME SetupInv, CallLambda \/ CallEvery
    PROVE  Got = ValueOf(cur, Callback) /\ Got \in Values
  <1>a. IInv /\ TypeOK /\ Wiring /\ CallsOK
    BY DEF SetupInv, IInv
  <1>b. cur \in Packet /\ cur.stream \in Streams /\ cur.payload \in Payloads
    BY Runs DEF CallLambda, CallEvery, RunTuple, RunAlways, Packet
  <1>1. PICK u \in UnpackersOf(cur.stream), kind \in {"tuple", "always"} :
          /\ Refill(u, cur.payload)
          /\ Made(kind, Callback, Unpacked(u, Callback))
    <2>1. CASE CallLambda
      <3>1. sketch.kind # "bind"
        BY <2>1, Runs DEF CallLambda, RunTuple
      <3>2. subs[cur.stream][cur.index].to = Callback
        BY <2>1, <3>1, Runs DEF CallLambda, RunTuple
      <3> QED
        BY <2>1, <3>2 DEF CallLambda, RunTuple
    <2>2. CASE CallEvery
      <3>1. always[cur.stream].to = Callback
        BY <2>2, Runs DEF CallEvery, RunAlways
      <3> QED
        BY <2>2, <3>1 DEF CallEvery, RunAlways
    <2> QED
      BY <2>1, <2>2
  <1>2. Unpacked(u, Callback) = ValueOf(cur, Callback)
        /\ Unpacked(u, Callback) \in Values
    BY <1>a, <1>b, <1>1, UnpackerOf, RefillYields, SketchAssumption DEF ValueOf
  <1> DEFINE c == [kind |-> kind, to |-> Callback, packet |-> cur,
                   value |-> Unpacked(u, Callback)]
  <1>3. calls' = Append(calls, c) /\ calls \in Seq(Call) /\ c \in Call
    BY <1>a, <1>b, <1>1, <1>2, SketchAssumption DEF Made, CallsOK, Call
  <1>4. c.value = Unpacked(u, Callback)
    OBVIOUS
  <1> HIDE DEF c
  <1>5. calls'[Len(calls')] = c
    BY <1>3
  <1> QED
    BY <1>2, <1>4, <1>5 DEF Got

\* A callback of a sketch that answers was called with what the packet gives it, and
\* answers that packet or none.
LEMMA LambdaAnswers ==
    ASSUME SetupInv, EchoInv, Answering, CallLambda \/ CallEvery
    PROVE  /\ UNCHANGED <<sketch, arrived, line>>
           /\ todo # {} /\ todo' = {} /\ cur' = cur /\ cur \in Packet
           /\ answers' \in Seq(Answered)
           /\ Data(answers') = Data(answers) \o ReplyTo(cur)
           /\ Data(answers) \in Seq(Pub!Payload)
  <1>a. /\ IInv /\ TypeOK /\ Wiring /\ CallsOK
        /\ sketch.kind \in {"tuple", "unpacker"} /\ sketch \in Answerer
    BY SketchTypes DEF SetupInv, IInv, Answering
  <1>1. /\ UNCHANGED <<sketch, arrived, line, cur>> /\ cur \in Packet
        /\ cur.stream \in Streams /\ cur.payload \in Payloads
    BY Runs DEF CallLambda, CallEvery, RunTuple, RunAlways, Packet
  <1>2. /\ CallLambda => sketch.kind = "tuple"
        /\ CallEvery => sketch.kind = "unpacker"
        /\ todo # {} /\ todo' = {}
    <2>1. CASE CallLambda
      <3>1. "index" \in todo /\ todo' = todo \ {"index"} /\ sketch.kind = "tuple"
        BY <2>1, Runs DEF CallLambda, RunTuple
      <3>2. ~CallEvery
        BY <3>1, Runs DEF CallEvery, RunAlways
      <3>3. "always" \notin todo
        BY <3>1, Runs
      <3> QED
        BY <1>a, <3>1, <3>2, <3>3 DEF TypeOK
    <2>2. CASE CallEvery
      <3>1. "always" \in todo /\ todo' = todo \ {"always"} /\ sketch.kind = "unpacker"
        BY <2>2, Runs DEF CallEvery, RunAlways
      <3>2. ~CallLambda
        BY <3>1, Runs DEF CallLambda, RunTuple
      <3>3. "index" \notin todo
        BY <3>1, Runs
      <3> QED
        BY <1>a, <3>1, <3>2, <3>3 DEF TypeOK
    <2> QED
      BY <2>1, <2>2
  <1>3. Got = ValueOf(cur, Callback) /\ Got \in Values
    BY GotIs
  <1>4. /\ cur.index = sketch.recv \/ CallEvery
        /\ IF cur.index = sketch.recv
              /\ (sketch.kind = "tuple" /\ sketch.tests => cur.payload \in Sized)
           THEN Answer(Echoed(Got)) ELSE NoAnswer
    BY <1>2, Runs DEF CallLambda, CallEvery, RunTuple
  <1>6. Data(answers) \in Seq(Pub!Payload)
    <2>1. \A e \in Answered : Data(answers) \in Seq(Pub!Payload)
      BY DataOfAppend DEF EchoInv
    <2>2. [to |-> cur, data |-> <<>>] \in Answered
      BY <1>1 DEF Pub!Payload, Answered
    <2> QED
      BY <2>1, <2>2
  <1>7. CASE ~(/\ cur.index = sketch.recv
               /\ sketch.kind = "tuple" /\ sketch.tests => cur.payload \in Sized)
    <2>1. answers' = answers /\ ReplyTo(cur) = <<>>
      BY <1>4, <1>7 DEF NoAnswer, ReplyTo
    <2>2. \A t \in Seq(Pub!Payload) : t \o <<>> = t
      OBVIOUS
    <2>3. Data(answers) \o ReplyTo(cur) = Data(answers)
      BY <1>6, <2>1, <2>2
    <2> QED
      BY <1>1, <1>2, <1>6, <2>1, <2>3 DEF EchoInv
  <1>8. CASE /\ cur.index = sketch.recv
             /\ sketch.kind = "tuple" /\ sketch.tests => cur.payload \in Sized
    <2> DEFINE x == Echoed(Got)
               e == [to |-> cur, data |-> packet'.payload]
    <2>1. Pub!OneShot(sketch.api, x) /\ answers' = Append(answers, e)
      BY <1>4, <1>8 DEF Answer
    <2>2. /\ packet'.payload = Pub!Header(sketch.api, Len(x)) \o Pub!Packed(x)
          /\ packet'.payload \in Pub!Payload
      BY <1>a, <1>3, <2>1, AnswerData
    <2>3. e \in Answered /\ e.data = packet'.payload
      BY <1>1, <2>2 DEF Answered
    <2>4. ReplyTo(cur) = << Pub!Header(sketch.api, Len(x)) \o Pub!Packed(x) >>
      BY <1>3, <1>8 DEF ReplyTo
    <2> HIDE DEF e, x
    <2>5. answers' \in Seq(Answered)
      BY <2>1, <2>3 DEF EchoInv
    <2>6. Data(answers') = Data(answers) \o <<e.data>>
      <3>1. answers \in Seq(Answered)
        BY DEF EchoInv
      <3>2. \A a \in Seq(Answered),
               f \in Answered :
              Data(Append(a, f)) = Data(a) \o <<f.data>>
        BY DataOfAppend
      <3>3. Data(Append(answers, e)) = Data(answers) \o <<e.data>>
        BY <2>3, <3>1, <3>2
      <3> QED
        BY <2>1, <3>3
    <2> QED
      BY <1>1, <1>2, <1>6, <2>2, <2>3, <2>4, <2>5, <2>6
  <1> QED
    BY <1>7, <1>8

LEMMA EchoInvInit == SketchInit => EchoInv
  BY DEF SketchInit, EchoInv

LEMMA EchoInvNext ==
    ASSUME SetupInv, EchoInv, [SketchNext]_sketch_vars
    PROVE  EchoInv'
  <1>1. ASSUME UNCHANGED <<sketch, arrived, answers>> PROVE EchoInv'
    BY <1>1 DEF EchoInv, FromPeer, Answering
  <1>2. ASSUME NEW i \in {sketch.recv, sketch.send}, NEW p \in Payloads, Arrive(i, p)
        PROVE  EchoInv'
    <2> DEFINE q == [stream |-> sketch.link, index |-> i, payload |-> p]
    <2>1. /\ arrived' = Append(arrived, q) /\ UNCHANGED <<sketch, answers>>
          /\ q \in FromPeer /\ arrived \in Seq(FromPeer)
      BY <1>2 DEF Arrive, FromPeer, EchoInv
    <2> HIDE DEF q
    <2>2. arrived' \in Seq(FromPeer) /\ FromPeer' = FromPeer
      <3>1. \A T : \A t \in Seq(T), x \in T : Append(t, x) \in Seq(T)
        OBVIOUS
      <3>2. FromPeer' = FromPeer
        BY <2>1 DEF FromPeer
      <3> QED
        BY <2>1, <3>1, <3>2
    <2> QED
      BY <2>1, <2>2 DEF EchoInv, Answering
  <1>3. CASE CallLambda \/ CallEvery
    <2>1. Answering
      BY <1>3, Runs DEF CallLambda, CallEvery, RunTuple, RunAlways, Answering
    <2>2. UNCHANGED <<sketch, arrived>> /\ answers' \in Seq(Answered)
      BY <1>3, <2>1, LambdaAnswers
    <2> QED
      BY <2>2 DEF EchoInv, FromPeer
  <1>4. CASE CallJson
    <2>1. ~Answering /\ UNCHANGED <<sketch, arrived>>
      BY <1>4, Runs DEF CallJson, RunJson, Answering
    <2> QED
      BY <2>1 DEF EchoInv, FromPeer, Answering
  <1>5. CASE \/ WifiConnects \/ ClientConnects \/ SetupSubscribe \/ SetupPublish
             \/ SetupRate \/ LoopBegins \/ LoopDispatches \/ ParseEnds \/ PostGoesOn
             \/ PostEnds \/ UNCHANGED sketch_vars
    BY <1>1, <1>5 DEF WifiConnects, ClientConnects, SetupSubscribe, SetupPublish,
       SetupRate, LoopBegins, LoopDispatches, ParseEnds, PostGoesOn, PostEnds,
       sketch_vars, own_vars
  <1> QED
    BY <1>2, <1>3, <1>4, <1>5 DEF SketchNext, Board

LEMMA RepliesStay == ASSUME sketch' = sketch PROVE Replies' = Replies
  BY DEF Replies, FromPeer, Answering, ReplyTo, Echoed, ValueOf, Pub!Header, Pub!Packed

\* Steps that leave alone what the peer sees.
LEMMA EchoStutters ==
    ASSUME sketch' = sketch, Answering => Inbox' = Inbox /\ answers' = answers
    PROVE  UNCHANGED Echoing!echo_vars
  <1>1. Answering' = Answering
    BY DEF Answering
  <1>2. Replies' = Replies
    BY RepliesStay
  <1>3. Inbox' = Inbox
    BY <1>1 DEF Inbox
  <1>4. Sent' = Sent
    BY <1>1 DEF Sent, Data
  <1> QED
    BY <1>2, <1>3, <1>4 DEF Echoing!echo_vars

LEMMA RepliesAre ==
    ASSUME Answering
    PROVE  DOMAIN Replies = FromPeer /\ \A p \in FromPeer : Replies[p] = ReplyTo(p)
  BY DEF Replies

\* An inbox is a sequence: its head, and what is put behind it.
LEMMA Queue ==
    ASSUME NEW T, NEW s \in Seq(T), NEW x \in T, NEW y \in T
    PROVE  /\ <<>> \o s = s
           /\ s \o <<>> = s
           /\ <<x>> \o s # <<>> /\ Head(<<x>> \o s) = x /\ Tail(<<x>> \o s) = s
           /\ <<x>> \o Append(s, y) = Append(<<x>> \o s, y)
           /\ s # <<>> => <<Head(s)>> \o Tail(s) = s /\ Head(s) \in T /\ Tail(s) \in Seq(T)
  OBVIOUS

\* What is not yet answered, when a callback is to run and when none is.
LEMMA InboxIs ==
    ASSUME SetupInv, Lines, EchoInv, Answering
    PROVE  /\ line[sketch.link] \in Seq(FromPeer)
           /\ todo = {} => Inbox = line[sketch.link]
           /\ todo # {} => cur \in FromPeer /\ Inbox = <<cur>> \o line[sketch.link]
  <1>1. line[sketch.link] \in Seq(FromPeer) /\ (todo # {} => cur \in FromPeer)
    BY InLine, IdleTodo DEF SetupInv
  <1>2. \A s \in Seq(FromPeer) : <<>> \o s = s
    OBVIOUS
  <1> QED
    BY <1>1, <1>2 DEF Inbox

LEMMA SentIs ==
    ASSUME EchoInv, Answering
    PROVE  Sent \o <<>> = Sent
  <1>1. CASE Answered = {}
    <2>1. answers \in Seq({})
      BY <1>1 DEF EchoInv
    <2>2. DOMAIN answers = {}
      BY <2>1
    <2> QED
      BY <2>2 DEF Sent, Data
  <1>2. CASE Answered # {}
    <2>1. Data(answers) \in Seq(Pub!Payload)
      BY <1>2, DataOfAppend DEF EchoInv
    <2>2. \A t \in Seq(Pub!Payload) : t \o <<>> = t
      OBVIOUS
    <2> QED
      BY <2>1, <2>2 DEF Sent
  <1> QED
    BY <1>1, <1>2

LEMMA EchoArrives ==
    ASSUME SetupInv, Lines, EchoInv, Answering,
           NEW i \in {sketch.recv, sketch.send}, NEW p \in Payloads, Arrive(i, p)
    PROVE  Echoing!Arrive
  <1> DEFINE q == [stream |-> sketch.link, index |-> i, payload |-> p]
             l == line[sketch.link]
  <1>1. /\ line' = [line EXCEPT ![sketch.link] = Append(@, q)]
        /\ UNCHANGED <<sketch, todo, cur, answers>>
        /\ q \in FromPeer /\ sketch.link \in Streams
        /\ DOMAIN line = Streams
    BY SketchTypes DEF Arrive, Receive, FromPeer, SetupInv, IInv, TypeOK
  <1> HIDE DEF q
  <1>2. line'[sketch'.link] = Append(l, q) /\ l \in Seq(FromPeer)
    BY <1>1, InboxIs
  <1>3. Inbox' = Append(Inbox, q)
    <2>1. Inbox' = (IF todo = {} THEN <<>> ELSE <<cur>>) \o Append(l, q)
      BY <1>1, <1>2 DEF Inbox, Answering
    <2>2. CASE todo = {}
      <3>1. Append(l, q) \in Seq(FromPeer)
        BY <1>1, <1>2
      <3>2. <<>> \o Append(l, q) = Append(l, q)
        BY <1>1, <3>1, Queue
      <3> QED
        BY <2>1, <2>2, <3>2, InboxIs
    <2>3. CASE todo # {}
      <3>1. cur \in FromPeer /\ Inbox = <<cur>> \o l
        BY <2>3, InboxIs
      <3>2. <<cur>> \o Append(l, q) = Append(<<cur>> \o l, q)
        BY <1>1, <1>2, <3>1, Queue
      <3> QED
        BY <2>1, <2>3, <3>1, <3>2
    <2> QED
      BY <2>2, <2>3
  <1>4. Replies' = Replies /\ Sent' = Sent
    BY <1>1, RepliesStay DEF Sent, Data, Answering
  <1> QED
    BY <1>1, <1>3, <1>4, RepliesAre DEF Echoing!Arrive

\* A packet that nobody is called for leaves as soon as it is taken.
LEMMA EchoParses ==
    ASSUME SetupInv, Lines, EchoInv, Answering, phase = "parse", Parse(sketch.link),
           UNCHANGED own_vars
    PROVE  [Echoing!Next]_(Echoing!echo_vars)
  <1> DEFINE l == line[sketch.link]
  <1>a. /\ IInv /\ TypeOK /\ Wiring /\ Phases
        /\ sketch.link \in Streams
    BY SketchTypes DEF SetupInv, IInv
  <1>1. /\ Idle /\ l # <<>> /\ cur' = Head(l)
        /\ line' = [line EXCEPT ![sketch.link] = Tail(@)]
        /\ UNCHANGED <<sketch, answers, subs, always>>
    BY DEF Parse, own_vars
  <1>2. /\ todo = {} /\ line'[sketch'.link] = Tail(l)
        /\ l \in Seq(FromPeer) /\ Inbox = l
    BY <1>a, <1>1, IdleTodo, InboxIs DEF TypeOK
  <1>3. PICK p \in FromPeer : p = Head(l) /\ <<p>> \o Tail(l) = l
    BY <1>1, <1>2, Queue
  <1>4. CASE todo' # {}
    <2>1. Inbox' = <<cur'>> \o Tail(l)
      BY <1>1, <1>2, <1>4 DEF Inbox, Answering
    <2>2. Inbox' = Inbox
      BY <1>1, <1>2, <1>3, <2>1
    <2> QED
      BY <1>1, <2>2, EchoStutters
  <1>5. CASE todo' = {}
    <2>1. Inbox' = Tail(l)
      <3>1. Inbox' = <<>> \o Tail(l)
        BY <1>1, <1>2, <1>5 DEF Inbox, Answering
      <3>2. Tail(l) \in Seq(FromPeer)
        BY <1>1, <1>2
      <3> QED
        BY <1>3, <3>1, <3>2, Queue
    <2>2. p.index # sketch.recv
      <3>1. /\ p.index \notin DOMAIN subs[sketch.link]
            /\ always[sketch.link] = Null
        BY <1>1, <1>3, <1>5 DEF Parse
      <3> QED
        BY <1>a, <3>1 DEF Phases
    <2>3. Replies[p] = <<>> /\ p \in DOMAIN Replies
      BY <2>2, RepliesAre DEF ReplyTo
    <2>4. Replies' = Replies /\ Sent' = Sent
      BY <1>1, RepliesStay DEF Sent, Data, Answering
    <2>5. Sent' = Sent \o Replies[Head(Inbox)]
      BY <1>2, <1>3, <2>3, <2>4, SentIs
    <2> QED
      BY <1>1, <1>2, <2>1, <2>4, <2>5 DEF Echoing!Next, Echoing!Reply
  <1> QED
    BY <1>4, <1>5

LEMMA EchoReplies ==
    ASSUME SetupInv, Lines, EchoInv, Answering, CallLambda \/ CallEvery
    PROVE  Echoing!Reply
  <1> DEFINE l == line[sketch.link]
  <1>1. /\ UNCHANGED <<sketch, line>> /\ todo # {} /\ todo' = {}
        /\ Data(answers') = Data(answers) \o ReplyTo(cur)
    BY LambdaAnswers
  <1>2. cur \in FromPeer /\ Inbox = <<cur>> \o l /\ l \in Seq(FromPeer)
    BY <1>1, InboxIs
  <1>3. Inbox # <<>> /\ Head(Inbox) = cur /\ Tail(Inbox) = l
    BY <1>2, Queue
  <1>4. Inbox' = l
    <2>1. Inbox' = <<>> \o l
      BY <1>1 DEF Inbox, Answering
    <2> QED
      BY <1>2, <2>1, Queue
  <1>5. Sent' = Sent \o Replies[cur]
    BY <1>1, <1>2, RepliesAre DEF Sent, Answering
  <1> QED
    BY <1>1, <1>3, <1>4, <1>5, RepliesStay DEF Echoing!Reply

LEMMA EchoNext ==
    ASSUME SetupInv, Lines, EchoInv, [SketchNext]_sketch_vars
    PROVE  [Echoing!Next]_(Echoing!echo_vars)
  <1>1. sketch' = sketch
    BY DEF SketchNext, Board, Arrive, WifiConnects, ClientConnects, SetupSubscribe,
       SetupPublish, SetupRate, LoopBegins, LoopDispatches, CallLambda, CallEvery,
       CallJson, ParseEnds, PostGoesOn, PostEnds, sketch_vars, own_vars
  <1>2. CASE ~Answering
    BY <1>1, <1>2, EchoStutters
  <1>3. CASE Answering
    <2>1. ASSUME NEW i \in {sketch.recv, sketch.send}, NEW p \in Payloads, Arrive(i, p)
          PROVE  Echoing!Next
      BY <1>3, <2>1, EchoArrives DEF Echoing!Next
    <2>2. CASE CallLambda \/ CallEvery
      BY <1>3, <2>2, EchoReplies DEF Echoing!Next
    <2>3. ~CallJson
      BY <1>3, Runs DEF CallJson, RunJson, Answering
    <2>4. CASE LoopDispatches
      <3>1. phase = "parse" /\ UNCHANGED own_vars
        BY <2>4 DEF LoopDispatches
      <3>2. ~RunBind
        BY <1>3, Runs DEF RunBind, Answering
      <3>3. CASE Parse(sketch.link)
        BY <1>3, <3>1, <3>3, EchoParses
      <3>4. CASE Dispatched
        <4>1. todo = {} /\ UNCHANGED <<todo, line, answers>>
          BY <3>1, <3>4 DEF Dispatched, own_vars
        <4>2. Inbox' = Inbox
          BY <1>1, <4>1 DEF Inbox, Answering
        <4> QED
          BY <1>1, <4>1, <4>2, EchoStutters
      <3> QED
        BY <2>4, <3>2, <3>3, <3>4 DEF LoopDispatches
    <2>5. CASE \/ WifiConnects \/ ClientConnects \/ SetupSubscribe \/ SetupPublish
               \/ SetupRate \/ LoopBegins \/ ParseEnds \/ PostGoesOn \/ PostEnds
               \/ UNCHANGED sketch_vars
      <3>2. UNCHANGED <<todo, cur, line, answers>>
        <4>1. CASE SetupSubscribe
          BY <4>1 DEF SetupSubscribe, Subscribe, SubscribeAlways
        <4>2. CASE ~SetupSubscribe
          BY <2>5, <4>2 DEF WifiConnects, ClientConnects, SetupPublish, SetupRate,
             LoopBegins, ParseEnds, PostGoesOn, PostEnds, sketch_vars, own_vars,
             sub_vars, vars
        <4> QED
          BY <4>1, <4>2
      <3>3. Inbox' = Inbox
        BY <1>1, <3>2 DEF Inbox, Answering
      <3> QED
        BY <1>1, <3>2, <3>3, EchoStutters
    <2> QED
      BY <2>1, <2>2, <2>3, <2>4, <2>5 DEF SketchNext, Board
  <1> QED
    BY <1>2, <1>3

\* Whatever packets arrive, and whenever the sketch gets round to them, a sketch
\* with a lambda answers each with what the program has to say to it, once, in the
\* order of arrival, from that packet alone. That it does in the end is Echoes.
THEOREM SketchAnswersLikeEcho ==
    SketchSpec => Echoing!Init /\ [][Echoing!Next]_(Echoing!echo_vars)
  <1>1. SketchInit => Echoing!Init
    <2> SUFFICES ASSUME SketchInit PROVE Echoing!Init
      OBVIOUS
    <2>1. todo = {} /\ line[sketch.link] = <<>> /\ answers = <<>>
      BY SetupInvInit, SketchTypes DEF SketchInit, Init, SetupInv
    <2> QED
      BY <2>1 DEF Echoing!Init, Inbox, Sent, Data
  <1>2. SketchInit => EchoInv
    BY EchoInvInit
  <1>3. SetupInv /\ EchoInv /\ [SketchNext]_sketch_vars => EchoInv'
    BY EchoInvNext
  <1>4. SetupInv /\ Lines /\ EchoInv /\ [SketchNext]_sketch_vars
          => [Echoing!Next]_(Echoing!echo_vars)
    BY EchoNext
  <1> QED
    BY <1>1, <1>2, <1>3, <1>4, SetupInvHolds, LinesHold, PTL DEF SketchSpec

-----------------------------------------------------------------------------
(* A sketch uses each half of the library as that half may be used. *)

\* Arguments a sketch sends are arguments of a one-shot call.
LEMMA SketchArgs ==
    /\ \A v \in Values : Echoed(v) \in Pub!Args
    /\ \A v, w \in Values : <<v, w>> \in Pub!Args
  <1>1. \A v \in Values : <<v>> \in [1 .. 1 -> Values]
    OBVIOUS
  <1>2. \A v, w \in Values : <<v, w>> \in [1 .. 2 -> Values]
    OBVIOUS
  <1>3. 1 \in 0 .. 2 /\ 2 \in 0 .. 2
    OBVIOUS
  <1>4. \A v, w \in Values : <<v>> \in Pub!Args /\ <<v, w>> \in Pub!Args
    BY <1>1, <1>2, <1>3 DEF Pub!Args
  <1> QED
    BY <1>4 DEF Echoed

\* What is published by reference changes only while post() does not run.
LEMMA PublisherVar ==
    ASSUME SetupInv', pc = "idle", UNCHANGED pub_vars
    PROVE  [Pub!Next]_(Pub!vars)
  <1>1. bound'[Var] \in Values
    BY SketchAssumption DEF SetupInv, IInv, TypeOK
  <1>2. CASE bound'[Var] = bound[Var]
    BY <1>2 DEF pub_vars, Pub!vars, Pub!post_vars
  <1>3. CASE bound'[Var] # bound[Var]
    <2>1. Pub!SetVar(bound'[Var])
      BY <1>3 DEF Pub!SetVar, Pub!Idle, Pub!post_vars, pub_vars
    <2> QED
      BY <1>1, <2>1 DEF Pub!Next
  <1> QED
    BY <1>2, <1>3

LEMMA PublisherHalf ==
    ASSUME SetupInv, SetupInv', JsonInv, [SketchNext]_sketch_vars
    PROVE  [Pub!Next]_(Pub!vars)
  <1>a. /\ IInv /\ Wiring /\ Phases
        /\ sketch.kind # "bind" => sketch \in Answerer
        /\ sketch.kind = "bind" => sketch \in Binder
    <2>1. sketch \in Answerer \cup Binder
      BY ProgramsAssumption DEF SetupInv, Wiring
    <2> QED
      BY <2>1 DEF SetupInv, Answerer, Binder
  <1>b. ASSUME UNCHANGED <<bound, pub_vars>> PROVE UNCHANGED Pub!vars
    BY <1>b DEF pub_vars, Pub!vars, Pub!post_vars
  <1>c. ASSUME NEW v \in Values, sketch \in Answerer, Pub!OneShot(sketch.api, Echoed(v))
        PROVE  Pub!Next
    <2>1. sketch.api \in Pub!Apis
      BY <1>c DEF Answerer, Pub!Apis
    <2> QED
      BY <1>c, <2>1, SketchArgs DEF Pub!Next, Pub!Packing
  <1>1. ASSUME NEW i \in {sketch.recv, sketch.send}, NEW p \in Payloads, Arrive(i, p)
        PROVE  UNCHANGED Pub!vars
    BY <1>1, <1>b DEF Arrive, Receive
  <1>2. CASE WifiConnects \/ ClientConnects \/ LoopBegins \/ UNCHANGED sketch_vars
    BY <1>2, <1>b DEF WifiConnects, ClientConnects, LoopBegins, sketch_vars, sub_vars, vars
  <1>3. CASE SetupSubscribe
    BY <1>3, <1>b DEF SetupSubscribe, Subscribe, SubscribeAlways
  <1>4. CASE SetupPublish
    <2>1. sketch \in Binder
      BY <1>4, <1>a DEF SetupPublish, Phases
    <2>2. /\ [stream |-> sketch.link, index |-> sketch.send] \in Pub!Target
          /\ sketch.shape \in {<<"value">>, <<"value", "value", "value">>}
      BY <2>1 DEF Binder, Pub!Target
    <2> QED
      BY <1>4, <2>2 DEF SetupPublish, Pub!Next, Pub!Registration
  <1>5. CASE SetupRate
    BY <1>5 DEF SetupRate, Pub!Next, Pub!Registration
  <1>6. CASE LoopDispatches
    <2>1. phase = "parse" /\ UNCHANGED pub_vars
      BY <1>6 DEF LoopDispatches
    <2> QED
      BY <1>a, <2>1, PublisherVar DEF Phases
  <1>7. CASE CallLambda \/ CallEvery
    <2>1. /\ UNCHANGED bound /\ Got \in Values /\ sketch.kind # "bind"
          /\ Answer(Echoed(Got)) \/ NoAnswer
      BY <1>7, GotIs, Runs DEF CallLambda, CallEvery, RunTuple, RunAlways
    <2>2. CASE NoAnswer
      BY <1>b, <2>1, <2>2 DEF NoAnswer
    <2>3. CASE Answer(Echoed(Got))
      BY <1>a, <1>c, <2>1, <2>3 DEF Answer
    <2> QED
      BY <2>1, <2>2, <2>3
  <1>8. CASE CallJson
    <2>1. UNCHANGED bound /\ sketch.kind = "json" /\ cur \in Packet /\ sketch.api = "send"
      BY <1>8, <1>a, Runs, SketchTypes DEF CallJson, RunJson
    <2>2. CASE cur.payload \notin Fits[Callback]
      BY <1>8, <1>b, <2>1, <2>2 DEF CallJson, NoAnswer
    <2>3. CASE cur.payload \in Fits[Callback]
      <3>1. /\ nested' = Merged(cur.payload)
            /\ Pub!OneShot("send", <<nested'["ka"], nested'["km"]>>)
        BY <1>8, <2>1, <2>3 DEF CallJson, Answer
      <3>2. cur.payload \in Values /\ nested \in [{"ka", "km"} -> Values]
        BY <2>1 DEF Packet, Values, JsonInv
      <3>3. nested'["ka"] \in Values /\ nested'["km"] \in Values
        BY <3>1, <3>2 DEF Merged
      <3>4. "send" \in Pub!Apis
        BY DEF Pub!Apis
      <3>5. <<nested'["ka"], nested'["km"]>> \in Pub!Args
        BY <3>3, SketchArgs
      <3> QED
        BY <3>1, <3>4, <3>5 DEF Pub!Next, Pub!Packing
    <2> QED
      BY <2>2, <2>3
  <1>9. CASE ParseEnds
    <2>1. CASE sketch.kind = "bind"
      BY <1>9, <2>1 DEF ParseEnds, Pub!Next, Pub!Post
    <2>2. CASE sketch.kind # "bind"
      BY <1>9, <1>b, <2>2 DEF ParseEnds, sub_vars, vars
    <2> QED
      BY <2>1, <2>2
  <1>10. CASE PostGoesOn
    BY <1>10 DEF PostGoesOn, Pub!Next, Pub!Post
  <1>11. CASE PostEnds
    BY <1>11 DEF PostEnds, Pub!Next, Pub!Post
  <1> QED
    BY <1>1, <1>2, <1>3, <1>4, <1>5, <1>6, <1>7, <1>8, <1>9, <1>10, <1>11
       DEF SketchNext, Board

\* In every sketch the two halves of the library take steps that their own modules
\* allow: callbacks that send, and variables that are bound and published at once,
\* put neither half into a state it does not reach alone.
THEOREM SketchComposesHalves == SketchSpec => Spec /\ Pub!Spec
  <1>1. SketchInit => Init /\ Pub!Init
    BY DEF SketchInit
  <1>2. SetupInv /\ [SketchNext]_sketch_vars => [Next]_vars
    BY SubscriberHalf DEF SetupInv
  <1>3. SetupInv /\ SetupInv' /\ JsonInv /\ [SketchNext]_sketch_vars
          => [Pub!Next]_(Pub!vars)
    BY PublisherHalf
  <1> QED
    BY <1>1, <1>2, <1>3, SetupInvHolds, JsonHolds, PTL DEF SketchSpec, Spec, Pub!Spec

=============================================================================
