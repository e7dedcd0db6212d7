-------------------------- MODULE Publisher_proofs --------------------------
(***************************************************************************)
(* Proofs about Publisher for every value of the constants: its types;     *)
(* that no two destinations share an element; that the wrapped comparison  *)
(* of next() never lets an element out early unless its deadline overflows *)
(* or a wider clock has outrun it, and never holds one back unless the     *)
(* clock wraps; that a packet of post() holds its element although         *)
(* everybody uses the same encoder; and that the map is what is published. *)
(***************************************************************************)
EXTENDS Publisher, TLAPS

-----------------------------------------------------------------------------
(* Facts about the destinations and about what the sketch may name. *)

\* Every key getDestination may build is a destination.
LEMMA KeyType ==
    ASSUME NEW t \in Target, NEW d \in getDestination(t)
    PROVE  d \in Destination
  <1>1. CASE t \in [stream : SerialStreams \cup Clients, index : Indices]
    <2>1. t.stream \notin Udps
      BY <1>1, PublisherAssumption
    <2>2. PICK p \in GarbagePorts, type \in StreamTypes :
            d = [stream |-> t.stream, type |-> type, index |-> t.index,
                 ip |-> NoIp, port |-> p]
      BY <2>1 DEF getDestination, StreamKeys, StreamTypes
    <2> QED
      BY <1>1, <2>2 DEF Destination
  <1>2. CASE t \in [stream : Udps, index : Indices, ip : Ips, port : Ports]
    <2>1. d = [stream |-> t.stream, type |-> "STREAM_UDP", index |-> t.index,
               ip |-> t.ip, port |-> t.port]
      BY <1>2 DEF getDestination
    <2> QED
      BY <1>2, <2>1 DEF Destination, StreamTypes
  <1> QED
    BY <1>1, <1>2 DEF Target

\* So is the key of the free UDP lookup.
LEMMA UdpKeyType ==
    ASSUME NEW s \in Udps, NEW i \in Indices,
           NEW d \in StreamKeys(s, i, "STREAM_SERIAL")
    PROVE  d \in Destination
  BY DEF StreamKeys, Destination, StreamTypes

\* The payloads the one-shot calls serialize are payloads.
LEMMA HeaderType ==
    ASSUME NEW api \in Apis, NEW args \in Args
    PROVE  /\ Header(api, Len(args)) \in Payload
           /\ Packed(args) \in Payload
           /\ Header(api, Len(args)) \o Packed(args) \in Payload
  <1>1. PICK n \in 0 .. MaxArgs : args \in [1 .. n -> Values]
    BY DEF Args
  <1>2. n \in Nat /\ Len(args) = n /\ args \in Seq(Values)
    BY <1>1, PublisherAssumption
  <1>3. Packed(args) \in Payload
    BY <1>1, <1>2 DEF Packed, Payload, Tokens
  <1>4. n \div 2 \in Nat
    BY <1>2
  <1>5. Header(api, n) \in Payload
    BY <1>2, <1>4 DEF Header, Apis, Payload, Tokens
  <1> QED
    BY <1>2, <1>3, <1>5 DEF Payload

-----------------------------------------------------------------------------
(* Type correctness. *)

\* Dropping references keeps the heap well typed: unpublish, lookups and the
\* odd map change the map and the reference and destroy what nobody holds.
LEMMA KeepHeapType ==
    ASSUME HeapTypeOK, NEW map, NEW r \in Elems \cup {Null},
           DOMAIN map \subseteq Destination,
           map \in [DOMAIN map -> Elems \cup {Null}],
           Held(map, r) \subseteq Held(addrMap, ref),
           Keep(map, r), published' \subseteq Target,
           strayed' \subseteq {"unpublished", "udp"}
    PROVE  HeapTypeOK'
  BY DEF HeapTypeOK, Keep

\* A publish: either the map is as it was, or one key has got the new element.
LEMMA PublishHeapType ==
    ASSUME HeapTypeOK, EncoderTypeOK, PostTypeOK,
           NEW t \in Target, NEW s \in Shapes, Publish(t, s)
    PROVE  HeapTypeOK'
  <1>1. PICK e \in Elems \ Held(addrMap, ref), d \in getDestination(t) :
          LET map == IF d \in DOMAIN addrMap THEN addrMap
                     ELSE [x \in DOMAIN addrMap \cup {d} |->
                             IF x = d THEN e ELSE addrMap[x]]
              new == [shape |-> s, captured |-> var, last |-> 0,
                      interval |-> DefaultInterval]
          IN /\ addrMap' = map
             /\ ref' = e
             /\ elem' = [x \in Held(map, e) |-> IF x = e THEN new ELSE elem[x]]
             /\ ghost' = [x \in Held(map, e) |->
                            IF x = e THEN [sentAt |-> Never, since |-> now]
                            ELSE ghost[x]]
             /\ published' = published \cup {t} /\ strayed' = strayed
    BY DEF Publish, Fresh
  <1>2. d \in Destination
    BY KeyType
  <1>3. /\ DOMAIN addrMap' \subseteq Destination
        /\ addrMap' \in [DOMAIN addrMap' -> Elems \cup {Null}]
        /\ Held(addrMap', ref') \subseteq Held(addrMap, ref) \cup {e}
    BY <1>1, <1>2 DEF HeapTypeOK, Held
  <1>4. [shape |-> s, captured |-> var, last |-> 0,
         interval |-> DefaultInterval] \in Element
    BY PublisherAssumption DEF Element, EncoderTypeOK, Parts
  <1>5. elem' \in [Held(addrMap', ref') -> Element]
    BY <1>1, <1>3, <1>4 DEF HeapTypeOK
  <1>6. [sentAt |-> Never, since |-> now]
          \in [sentAt : Nat \cup {Never}, since : Nat]
    BY DEF PostTypeOK
  <1>7. ghost' \in [Held(addrMap', ref') ->
                      [sentAt : Nat \cup {Never}, since : Nat]]
    BY <1>1, <1>3, <1>6 DEF HeapTypeOK
  <1> QED
    BY <1>1, <1>3, <1>5, <1>7 DEF HeapTypeOK

\* The clock reading fits the stamp.
LEMMA StampType ==
    ASSUME now \in Nat, clockMod \in ClockMods
    PROVE  Micros \in Nat /\ Micros % StampMod \in 0 .. StampMod - 1
  <1>1. clockMod \in Nat \ {0} /\ StampMod \in Nat \ {0}
    BY PublisherAssumption
  <1>2. Micros \in Nat
    BY <1>1 DEF Micros
  <1> QED
    BY <1>1, <1>2

THEOREM TypeInit == Init => TypeOK
  <1> SUFFICES ASSUME Init PROVE TypeOK
    OBVIOUS
  <1>1. HeapTypeOK
    BY DEF Init, HeapTypeOK, Held
  <1>2. EncoderTypeOK
    BY DEF Init, EncoderTypeOK, Payload
  <1> QED
    BY <1>1, <1>2 DEF Init, PostTypeOK, TypeOK

THEOREM TypeNext == TypeOK /\ [Next]_vars => TypeOK'
  <1> SUFFICES ASSUME TypeOK, [Next]_vars PROVE TypeOK'
    OBVIOUS
  <1>a. HeapTypeOK /\ EncoderTypeOK /\ PostTypeOK /\ clockMod' = clockMod
    BY DEF TypeOK, Next, vars
  <1>b. ASSUME UNCHANGED <<now, sinceLoop, post_vars, shape>>,
               \/ addrMap' = addrMap
               \/ pc = "idle"
        PROVE  PostTypeOK'
    BY <1>a, <1>b DEF PostTypeOK, post_vars
  <1>c. ASSUME UNCHANGED <<var, encoder, packet>>
        PROVE  EncoderTypeOK'
    BY <1>a, <1>c DEF EncoderTypeOK
  <1>d. ASSUME UNCHANGED <<addrMap, ref, elem, ghost, published, strayed>>
        PROVE  HeapTypeOK' /\ shape' = (elem[addrMap[cur']]).shape
    BY <1>a, <1>d DEF HeapTypeOK, Held, shape
  <1>e. ASSUME pc = "idle", UNCHANGED <<now, sinceLoop, post_vars>>
        PROVE  PostTypeOK'
    BY <1>a, <1>e DEF PostTypeOK, post_vars
  <1>1. CASE Tick
    BY <1>1, <1>a, <1>c, <1>d DEF Tick, PostTypeOK, post_vars, shape, TypeOK
  <1>2. ASSUME NEW v \in Values, SetVar(v) PROVE TypeOK'
    BY <1>2, <1>a, <1>d, <1>e DEF SetVar, Idle, EncoderTypeOK, TypeOK
  <1>3. ASSUME NEW t \in Target, NEW s \in Shapes, Publish(t, s) PROVE TypeOK'
    BY <1>3, <1>a, <1>c, <1>e, PublishHeapType DEF Publish, Idle, TypeOK
  <1>4. CASE PublishOddMap
    <2>1. Held(addrMap, Null) \subseteq Held(addrMap, ref)
      BY DEF Held
    <2>2. HeapTypeOK'
      BY <1>4, <1>a, <2>1, KeepHeapType DEF PublishOddMap, HeapTypeOK
    <2> QED
      BY <1>4, <1>a, <1>c, <1>e, <2>2 DEF PublishOddMap, Idle, TypeOK
  <1>5. ASSUME NEW t \in Target, Unpublish(t) PROVE TypeOK'
    <2>1. PICK d \in getDestination(t) :
            Keep([x \in DOMAIN addrMap \ {d} |-> addrMap[x]], ref)
      BY <1>5 DEF Unpublish, Erased
    <2> DEFINE map == [x \in DOMAIN addrMap \ {d} |-> addrMap[x]]
    <2>2. /\ DOMAIN map \subseteq Destination
          /\ map \in [DOMAIN map -> Elems \cup {Null}]
          /\ Held(map, ref) \subseteq Held(addrMap, ref)
      BY <1>a DEF HeapTypeOK, Held
    <2>3. published' \subseteq Target /\ strayed' \subseteq {"unpublished", "udp"}
      BY <1>5, <1>a DEF Unpublish, HeapTypeOK
    <2>4. ref \in Elems \cup {Null}
      BY <1>a DEF HeapTypeOK
    <2>5. HeapTypeOK'
      BY <1>a, <2>1, <2>2, <2>3, <2>4, KeepHeapType
    <2> QED
      BY <1>5, <1>a, <1>c, <1>e, <2>5 DEF Unpublish, Idle, TypeOK
  <1>f. ASSUME NEW d \in Destination, Lookup(d), pc = "idle",
               strayed' \subseteq {"unpublished", "udp"}
        PROVE  TypeOK'
    <2> DEFINE map == [x \in DOMAIN addrMap \cup {d} |->
                         IF x = d THEN Null ELSE addrMap[x]]
    <2>1. published' \subseteq Target
      BY <1>a, <1>f DEF Lookup, HeapTypeOK
    <2>2. CASE d \in DOMAIN addrMap
      <3>1. /\ addrMap[d] \in Elems \cup {Null}
            /\ Held(addrMap, addrMap[d]) \subseteq Held(addrMap, ref)
        BY <1>a, <2>2 DEF HeapTypeOK, Held
      <3> QED
        BY <1>a, <1>f, <2>1, <2>2, <3>1, KeepHeapType DEF HeapTypeOK, Lookup,
           TypeOK, EncoderTypeOK, PostTypeOK, post_vars
    <2>3. CASE d \notin DOMAIN addrMap
      <3>1. /\ DOMAIN map \subseteq Destination
            /\ map \in [DOMAIN map -> Elems \cup {Null}]
            /\ Held(map, Null) \subseteq Held(addrMap, ref)
        BY <1>a, <1>f DEF HeapTypeOK, Held
      <3>2. Keep(map, Null)
        BY <1>f, <2>3 DEF Lookup
      <3>3. HeapTypeOK'
        BY <1>a, <1>f, <2>1, <3>1, <3>2, KeepHeapType
      <3> QED
        BY <1>f, <1>a, <1>c, <1>e, <3>3 DEF Lookup, TypeOK
    <2> QED
      BY <2>2, <2>3
  <1>6. ASSUME NEW t \in Target, GetPublishElementRef(t) PROVE TypeOK'
    BY <1>6, <1>a, <1>f, KeyType DEF GetPublishElementRef, Idle, HeapTypeOK
  <1>7. ASSUME NEW s \in Udps, NEW i \in Indices, GetPublishElementRefUdp(s, i)
        PROVE TypeOK'
    BY <1>7, <1>a, <1>f, UdpKeyType DEF GetPublishElementRefUdp, Idle, HeapTypeOK
  <1>8. ASSUME NEW us \in Intervals, SetInterval(us) PROVE TypeOK'
    <2>1. ref \in Held(addrMap, ref) /\ elem[ref] \in Element
      BY <1>8, <1>a DEF SetInterval, HeapTypeOK, Held
    <2>2. us \in 0 .. StampMod - 1
      BY PublisherAssumption
    <2>3. [elem[ref] EXCEPT !.interval = us] \in Element
      BY <2>1, <2>2 DEF Element
    <2>4. elem' \in [Held(addrMap, ref) -> Element]
      BY <1>8, <1>a, <2>1, <2>3 DEF SetInterval, HeapTypeOK
    <2>5. ghost' \in [Held(addrMap, ref) ->
                        [sentAt : Nat \cup {Never}, since : Nat]]
      BY <1>8, <1>a, <2>1 DEF SetInterval, HeapTypeOK, PostTypeOK
    <2>6. HeapTypeOK'
      BY <1>8, <1>a, <2>4, <2>5 DEF SetInterval, HeapTypeOK, Held
    <2> QED
      BY <1>8, <1>a, <1>c, <1>e, <2>6 DEF SetInterval, Idle, TypeOK
  <1>9. ASSUME NEW api \in Apis, NEW args \in Args, OneShot(api, args)
        PROVE TypeOK'
    <2>1. encoder' \in Payload
      BY <1>9, <1>a, HeaderType DEF OneShot, EncoderTypeOK
    <2>2. <<>> \in Payload
      BY DEF Payload
    <2>3. EncoderTypeOK'
      BY <1>9, <1>a, <2>1, <2>2 DEF OneShot, EncoderTypeOK
    <2> QED
      BY <1>9, <1>a, <1>d, <1>e, <2>3 DEF OneShot, Idle, TypeOK
  <1>10. CASE PostBegin
    BY <1>10, <1>a, <1>c, <1>d DEF PostBegin, PostTypeOK, TypeOK, Idle
  <1>11. ASSUME NEW d \in todo, PostSkip(d) PROVE TypeOK'
    BY <1>11, <1>a, <1>c, <1>d DEF PostSkip, PostTypeOK, TypeOK
  <1>12. ASSUME NEW d \in todo, PostNull(d) PROVE TypeOK'
    BY <1>12, <1>a, <1>c, <1>d DEF PostNull, PostTypeOK, TypeOK
  <1>13. ASSUME NEW d \in todo, PostDue(d) PROVE TypeOK'
    BY <1>13, <1>a, <1>c, <1>d DEF PostDue, PostTypeOK, HeapTypeOK, TypeOK
  <1>14. CASE PostStamp
    <2> DEFINE e == addrMap[cur]
    <2>1. cur \in DOMAIN addrMap /\ e \in Elems /\ e # Null
      BY <1>14, <1>a, PublisherAssumption DEF PostStamp, PostTypeOK
    <2>2. e \in Held(addrMap, ref) /\ elem[e] \in Element
      BY <1>a, <2>1 DEF HeapTypeOK, Held
    <2>3. Micros % StampMod \in 0 .. StampMod - 1 /\ now \in Nat
      BY <1>a, StampType DEF PostTypeOK
    <2>4. /\ elem' = [elem EXCEPT ![e].last = Micros % StampMod]
          /\ ghost' = [ghost EXCEPT ![e] = [sentAt |-> now, since |-> now]]
          /\ UNCHANGED <<addrMap, ref, published, strayed>>
      BY <1>14 DEF PostStamp, Stamp
    <2>5. Held(addrMap', ref') = Held(addrMap, ref)
      BY <2>4
    <2>6. [elem[e] EXCEPT !.last = Micros % StampMod] \in Element
      BY <2>2, <2>3 DEF Element
    <2>7. elem' \in [Held(addrMap, ref) -> Element] /\ elem'[e].shape \in Seq(Parts)
      BY <1>a, <2>2, <2>4, <2>6 DEF HeapTypeOK, Element
    <2>8. ghost' \in [Held(addrMap, ref) ->
                         [sentAt : Nat \cup {Never}, since : Nat]]
      BY <1>a, <2>2, <2>3, <2>4 DEF HeapTypeOK
    <2>9. HeapTypeOK' /\ elem'[e].shape \in Seq(Parts)
      BY <1>a, <2>4, <2>5, <2>7, <2>8 DEF HeapTypeOK
    <2>10. PostTypeOK'
      BY <1>14, <1>a, <2>1, <2>9 DEF PostStamp, PostTypeOK, shape
    <2> QED
      BY <1>14, <1>a, <2>9, <2>10 DEF PostStamp, Cleared, EncoderTypeOK, Payload, TypeOK
  <1>15. ASSUME NEW args \in Args, GetterEncode(args) PROVE TypeOK'
    <2>1. EncoderTypeOK'
      BY <1>15, <1>a, HeaderType DEF GetterEncode, EncoderTypeOK, Apis
    <2> QED
      BY <1>15, <1>a, <1>b, <1>d, <2>1
         DEF GetterEncode, TypeOK, post_vars, shape
  <1>16. CASE PostEncode
    <2>1. elem[addrMap[cur]] \in Element
      BY <1>16, <1>a, PublisherAssumption
         DEF PostEncode, PostTypeOK, HeapTypeOK, Held
    <2>2. Len(shape) \in Nat /\ part + 1 \in 0 .. Len(shape)
      BY <1>16, <1>a, <2>1 DEF PostEncode, PostTypeOK, Element, shape
    <2>3. Token(addrMap[cur], part + 1) \in Tokens
      BY <1>a, <2>1 DEF Token, Tokens, EncoderTypeOK, Element
    <2>4. EncoderTypeOK'
      BY <1>16, <1>a, <2>3 DEF PostEncode, EncoderTypeOK, Payload
    <2> QED
      BY <1>16, <1>a, <1>d, <2>2, <2>4 DEF PostEncode, PostTypeOK, TypeOK, shape
  <1>17. CASE PostSend
    <2>1. cur \in Destination
      BY <1>17, <1>a DEF PostSend, PostTypeOK, HeapTypeOK
    <2>2. EncoderTypeOK'
      BY <1>17, <1>a, <2>1 DEF PostSend, EncoderTypeOK
    <2> QED
      BY <1>17, <1>a, <1>d, <2>2 DEF PostSend, PostTypeOK, TypeOK
  <1>18. CASE PostEnd
    BY <1>18, <1>a, <1>c, <1>d DEF PostEnd, PostTypeOK, TypeOK
  <1>19. CASE UNCHANGED vars
    BY <1>19, <1>a, <1>b, <1>c, <1>d DEF vars, post_vars, TypeOK, shape
  <1>20. ASSUME NEW args \in Args, PackManually(args) PROVE TypeOK'
    <2>1. EncoderTypeOK'
      BY <1>20, <1>a, HeaderType DEF PackManually, EncoderTypeOK, Apis
    <2> QED
      BY <1>20, <1>a, <1>d, <1>e, <2>1 DEF PackManually, Idle, TypeOK
  <1> QED
    BY <1>1, <1>2, <1>3, <1>4, <1>5, <1>6, <1>7, <1>8, <1>9, <1>10, <1>11,
       <1>12, <1>13, <1>14, <1>15, <1>16, <1>17, <1>18, <1>19, <1>20
     DEF Next, Registration, Lookups, Packing, Post

\* The types of the publisher hold in every state, for any number of streams,
\* elements and ticks: in particular post() only ever stamps and encodes an
\* element that is still alive.
THEOREM TypeCorrect == Spec => []TypeOK
  BY TypeInit, TypeNext, PTL DEF Spec

-----------------------------------------------------------------------------
(* No two destinations share an element. *)

\* What UniqueOwner says of a map.
Unique(map) ==
    \A d1, d2 \in DOMAIN map :
      map[d1] # Null /\ map[d1] = map[d2] => d1 = d2

LEMMA UniqueOwnerIsUnique == UniqueOwner <=> Unique(addrMap)
  BY DEF UniqueOwner, Unique, Registered

LEMMA UniqueNext ==
    ASSUME TypeOK, Unique(addrMap), [Next]_vars
    PROVE  Unique(addrMap')
  <1>a. ASSUME UNCHANGED addrMap PROVE Unique(addrMap')
    BY <1>a
  <1>1. ASSUME NEW t \in Target, NEW s \in Shapes, Publish(t, s)
        PROVE  Unique(addrMap')
    <2>1. PICK e \in Elems \ Held(addrMap, ref), d \in getDestination(t) :
            addrMap' = IF d \in DOMAIN addrMap THEN addrMap
                       ELSE [x \in DOMAIN addrMap \cup {d} |->
                               IF x = d THEN e ELSE addrMap[x]]
      BY <1>1 DEF Publish, Fresh
    <2>2. \A x \in DOMAIN addrMap : addrMap[x] # e
      BY PublisherAssumption DEF Held
    <2> QED
      BY <2>1, <2>2 DEF Unique
  <1>2. ASSUME NEW t \in Target, Unpublish(t) PROVE Unique(addrMap')
    BY <1>2 DEF Unpublish, Erased, Keep, Unique
  <1>3. ASSUME NEW d, Lookup(d) PROVE Unique(addrMap')
    BY <1>3 DEF Lookup, Keep, Unique
  <1>4. ASSUME NEW t \in Target, GetPublishElementRef(t) PROVE Unique(addrMap')
    BY <1>3, <1>4 DEF GetPublishElementRef
  <1>5. ASSUME NEW s \in Udps, NEW i \in Indices, GetPublishElementRefUdp(s, i)
        PROVE  Unique(addrMap')
    BY <1>3, <1>5 DEF GetPublishElementRefUdp
  <1>6. CASE \/ Tick \/ PublishOddMap \/ PostBegin \/ PostStamp \/ PostEncode
             \/ PostSend \/ PostEnd \/ UNCHANGED vars
    BY <1>6, <1>a DEF Tick, PublishOddMap, Keep, PostBegin, PostStamp,
       PostEncode, PostSend, PostEnd, vars
  <1>7. CASE \/ \E v \in Values : SetVar(v)
             \/ \E us \in Intervals : SetInterval(us)
             \/ \E api \in Apis, args \in Args : OneShot(api, args)
             \/ \E d \in todo : PostSkip(d) \/ PostNull(d) \/ PostDue(d)
             \/ \E args \in Args : PackManually(args) \/ GetterEncode(args)
    BY <1>7, <1>a DEF SetVar, SetInterval, OneShot, PostSkip, PostNull, PostDue,
       PackManually, GetterEncode
  <1> QED
    BY <1>1, <1>2, <1>4, <1>5, <1>6, <1>7
       DEF Next, Registration, Lookups, Packing, Post

\* Whatever the sequence of publish, unpublish and lookup, with whatever an
\* uninitialised port reads as, an element serves one destination at most.
THEOREM UniqueOwnership == Spec => []UniqueOwner
  <1>1. Init => Unique(addrMap)
    BY DEF Init, Unique
  <1>2. TypeOK /\ Unique(addrMap) /\ [Next]_vars => Unique(addrMap)'
    BY UniqueNext DEF Unique
  <1> QED
    BY <1>1, <1>2, TypeCorrect, UniqueOwnerIsUnique, PTL DEF Spec

-----------------------------------------------------------------------------
(* The rate limit survives the wrap of the clock. *)

\* Two readings of a wrapping clock never differ by more than the time between
\* them: a wrap only makes the later one smaller.
LEMMA WrappedDifference ==
    ASSUME NEW W \in Nat \ {0}, NEW a \in Nat, NEW b \in Nat, b <= a
    PROVE  (a % W) - (b % W) <= a - b
  <1> DEFINE qa == a \div W
             qb == b \div W
  <1>1. /\ qa \in Nat /\ qb \in Nat
        /\ a = W * qa + (a % W) /\ b = W * qb + (b % W)
        /\ a % W \in 0 .. W - 1 /\ b % W \in 0 .. W - 1
    OBVIOUS
  <1>2. ASSUME qa < qb PROVE FALSE
    <2>1. qa + 1 <= qb
      BY <1>1, <1>2
    <2>2. W * (qa + 1) <= W * qb
      BY <1>1, <2>1
    <2>3. W * (qa + 1) = W * qa + W
      BY <1>1
    <2> QED
      BY <1>1, <2>2, <2>3
  <1>3. W * qb <= W * qa
    BY <1>1, <1>2
  <1>4. W * qa \in Int /\ W * qb \in Int
    BY <1>1
  <1> HIDE DEF qa, qb
  <1> QED
    BY <1>1, <1>3, <1>4

\* Of every live element: its stamp is its last packet's time, as a clock of the
\* width of the stamps shows it, unless a wider one has outrun the stamps. Of the
\* element post() is about to stamp: it is not early.
StampsAgree ==
    \A e \in Held(addrMap, ref) :
      ghost[e].sentAt # Never =>
        /\ ghost[e].sentAt <= now
        /\ ~Outrun => elem[e].last = ghost[e].sentAt % StampMod

NotEarly(e) ==
    \/ ghost[e].sentAt = Never
    \/ Overflows(e)
    \/ Outrun
    \/ now - ghost[e].sentAt >= elem[e].interval

StampInv == StampsAgree /\ (pc = "stamp" => NotEarly(addrMap[cur]))

\* Until it outruns the stamps a clock shows what one of their width does.
LEMMA ClockReading ==
    ASSUME now \in Nat, clockMod \in ClockMods, ~Outrun
    PROVE  Micros = now % StampMod
  <1>1. clockMod \in Nat /\ StampMod \in Nat \ {0} /\ clockMod >= StampMod
    BY PublisherAssumption
  <1>2. CASE clockMod = StampMod
    BY <1>2 DEF Micros
  <1>3. CASE now \in 0 .. StampMod - 1
    BY <1>1, <1>3 DEF Micros
  <1> QED
    BY <1>1, <1>2, <1>3 DEF Outrun

\* What has been outrun stays so.
LEMMA OutrunStays ==
    ASSUME now \in Nat, now' \in Nat, now <= now', clockMod' = clockMod, Outrun
    PROVE  Outrun'
  BY PublisherAssumption DEF Outrun

LEMMA StampInit == Init => StampInv
  BY DEF Init, StampInv, StampsAgree, Held

\* A step that leaves the elements, their ghosts and post() alone, or only lets
\* time pass, keeps the invariant.
LEMMA StampFrame ==
    ASSUME TypeOK, StampInv, now' \in Nat, now <= now', clockMod' = clockMod,
           Held(addrMap, ref)' \subseteq Held(addrMap, ref),
           \A e \in Held(addrMap, ref)' :
             elem'[e].last = elem[e].last /\ ghost'[e].sentAt = ghost[e].sentAt,
           pc' = "stamp" =>
             /\ pc = "stamp" /\ cur' = cur /\ addrMap' = addrMap
             /\ elem'[addrMap[cur]].interval = elem[addrMap[cur]].interval
             /\ addrMap[cur] \in Held(addrMap, ref)'
    PROVE  StampInv'
  <1>0. Outrun => Outrun'
    BY OutrunStays DEF TypeOK, PostTypeOK
  <1>1. StampsAgree'
    BY <1>0 DEF StampInv, StampsAgree, TypeOK, PostTypeOK, HeapTypeOK
  <1>2. ASSUME pc' = "stamp" PROVE NotEarly(addrMap[cur])'
    <2> DEFINE e == addrMap[cur]
    <2>1. e \in Held(addrMap, ref) /\ NotEarly(e)
      BY <1>2 DEF StampInv
    <2>2. /\ ghost[e].sentAt \in Int /\ elem[e].interval \in Int
          /\ now \in Nat
      BY <2>1 DEF TypeOK, HeapTypeOK, PostTypeOK, Element, Never
    <2> HIDE DEF e
    <2>3. /\ ghost'[e].sentAt = ghost[e].sentAt
          /\ elem'[e].last = elem[e].last
          /\ elem'[e].interval = elem[e].interval
      BY <1>2 DEF e
    <2>4. addrMap'[cur'] = e
      BY <1>2 DEF e
    <2> QED
      BY <1>0, <2>1, <2>2, <2>3, <2>4 DEF NotEarly, Overflows
  <1> QED
    BY <1>1, <1>2 DEF StampInv

\* The test that lets an element through lets it through in time.
LEMMA DueIsNotEarly ==
    ASSUME TypeOK, StampInv,
           NEW e \in Held(addrMap, ref), Due(e)
    PROVE  NotEarly(e)
  <1> SUFFICES ASSUME ghost[e].sentAt # Never, ~Overflows(e), ~Outrun
               PROVE  now - ghost[e].sentAt >= elem[e].interval
    BY DEF NotEarly
  <1> DEFINE at == ghost[e].sentAt
             due == elem[e].last + elem[e].interval
  <1>1. /\ at \in Nat /\ at <= now /\ now \in Nat
        /\ elem[e].last = at % StampMod
        /\ elem[e].interval \in Nat /\ elem[e].last \in Nat
    BY DEF TypeOK, HeapTypeOK, PostTypeOK, Element, StampInv, StampsAgree
  <1>2. StampMod \in Nat \ {0}
    BY PublisherAssumption
  <1>3. due \in 0 .. StampMod - 1
    BY <1>1, <1>2 DEF Overflows
  <1>4. due % StampMod = due
    BY <1>2, <1>3
  <1>5. now % StampMod >= due
    BY <1>4, ClockReading DEF Due, TypeOK, PostTypeOK
  <1>6. (now % StampMod) - (at % StampMod) <= now - at
    BY <1>1, <1>2, WrappedDifference
  <1> QED
    BY <1>1, <1>2, <1>3, <1>5, <1>6

LEMMA StampNext ==
    ASSUME TypeOK, TypeOK', StampInv, [Next]_vars
    PROVE  StampInv'
  <1>a. /\ now \in Nat /\ now + 1 \in Nat /\ now <= now /\ now <= now + 1
        /\ clockMod' = clockMod
    BY DEF TypeOK, PostTypeOK, Next, vars
  <1>b. pc = "stamp" => addrMap[cur] \in Held(addrMap, ref)
    BY PublisherAssumption DEF TypeOK, PostTypeOK, Held
  <1>c. ASSUME now' \in {now, now + 1},
               UNCHANGED <<addrMap, ref, elem, ghost>>,
               pc' = "stamp" => pc = "stamp" /\ cur' = cur
        PROVE  StampInv'
    BY <1>a, <1>b, <1>c, StampFrame DEF Held
  <1>d. ASSUME NEW map, NEW r, Keep(map, r), now' = now, pc' = "idle",
               Held(map, r) \subseteq Held(addrMap, ref)
        PROVE  StampInv'
    BY <1>a, <1>d, StampFrame DEF Keep, Held
  <1>1. CASE \/ Tick
             \/ PostBegin \/ PostEncode \/ PostSend \/ PostEnd
             \/ UNCHANGED vars
    BY <1>1, <1>c DEF Tick, PostBegin, PostEncode, PostSend, PostEnd, vars,
       post_vars
  <1>2. CASE \/ \E v \in Values : SetVar(v)
             \/ \E api \in Apis, args \in Args : OneShot(api, args)
             \/ \E d \in todo : PostSkip(d) \/ PostNull(d)
             \/ \E args \in Args : PackManually(args) \/ GetterEncode(args)
    BY <1>2, <1>c DEF SetVar, OneShot, PostSkip, PostNull, PackManually,
       GetterEncode, post_vars
  <1>3. ASSUME NEW t \in Target, NEW s \in Shapes, Publish(t, s)
        PROVE  StampInv'
    <2>1. PICK e \in Elems \ Held(addrMap, ref), d \in getDestination(t) :
            LET map == IF d \in DOMAIN addrMap THEN addrMap
                       ELSE [x \in DOMAIN addrMap \cup {d} |->
                               IF x = d THEN e ELSE addrMap[x]]
                new == [shape |-> s, captured |-> var, last |-> 0,
                        interval |-> DefaultInterval]
            IN /\ addrMap' = map
               /\ ref' = e
               /\ elem' = [x \in Held(map, e) |-> IF x = e THEN new ELSE elem[x]]
               /\ ghost' = [x \in Held(map, e) |->
                              IF x = e THEN [sentAt |-> Never, since |-> now]
                              ELSE ghost[x]]
      BY <1>3 DEF Publish, Fresh
    <2>2. \A x \in Held(addrMap, ref)' :
            \/ x = e /\ ghost'[x].sentAt = Never
            \/ /\ x \in Held(addrMap, ref)
               /\ elem'[x] = elem[x] /\ ghost'[x] = ghost[x]
      BY <2>1 DEF Held
    <2> QED
      BY <1>3, <1>a, <2>2 DEF StampInv, StampsAgree, Publish, post_vars, Idle, Outrun
  <1>4. CASE PublishOddMap
    BY <1>4, <1>d DEF PublishOddMap, Idle, post_vars, Held
  <1>5. ASSUME NEW t \in Target, Unpublish(t) PROVE StampInv'
    <2>1. PICK d \in getDestination(t) :
            Keep([x \in DOMAIN addrMap \ {d} |-> addrMap[x]], ref)
      BY <1>5 DEF Unpublish, Erased
    <2>2. Held([x \in DOMAIN addrMap \ {d} |-> addrMap[x]], ref)
            \subseteq Held(addrMap, ref)
      BY DEF Held
    <2> QED
      BY <1>5, <1>d, <2>1, <2>2 DEF Unpublish, Idle, post_vars
  <1>e. ASSUME NEW d, Lookup(d), pc = "idle" PROVE StampInv'
    <2>1. CASE d \in DOMAIN addrMap
      <3>1. Held(addrMap, addrMap[d]) \subseteq Held(addrMap, ref)
        BY <2>1 DEF Held
      <3> QED
        BY <1>d, <1>e, <2>1, <3>1 DEF Lookup, post_vars
    <2>2. CASE d \notin DOMAIN addrMap
      <3>1. Held([x \in DOMAIN addrMap \cup {d} |->
                    IF x = d THEN Null ELSE addrMap[x]], Null)
              \subseteq Held(addrMap, ref)
        BY <2>2 DEF Held
      <3> QED
        BY <1>d, <1>e, <2>2, <3>1 DEF Lookup, post_vars
    <2> QED
      BY <2>1, <2>2
  <1>6. ASSUME NEW t \in Target, GetPublishElementRef(t) PROVE StampInv'
    BY <1>e, <1>6 DEF GetPublishElementRef, Idle
  <1>7. ASSUME NEW s \in Udps, NEW i \in Indices, GetPublishElementRefUdp(s, i)
        PROVE  StampInv'
    BY <1>e, <1>7 DEF GetPublishElementRefUdp, Idle
  <1>8. ASSUME NEW us \in Intervals, SetInterval(us) PROVE StampInv'
    <2>1. \A x \in Held(addrMap, ref) :
            elem'[x].last = elem[x].last /\ ghost'[x].sentAt = ghost[x].sentAt
      BY <1>8 DEF SetInterval, TypeOK, HeapTypeOK, Element
    <2> QED
      BY <1>8, <1>a, <2>1, StampFrame DEF SetInterval, Idle, post_vars, Held
  <1>9. ASSUME NEW d \in todo, PostDue(d) PROVE StampInv'
    <2>1. addrMap[d] \in Held(addrMap, ref) /\ Due(addrMap[d])
      BY <1>9 DEF PostDue, TypeOK, PostTypeOK, Held
    <2>2. NotEarly(addrMap[d])
      BY <2>1, DueIsNotEarly
    <2>3. NotEarly(addrMap[cur])'
      BY <1>9, <1>a, <2>2 DEF PostDue, NotEarly, Overflows, Outrun
    <2> QED
      BY <1>9, <1>a, <2>3 DEF PostDue, StampInv, StampsAgree, Held, Outrun
  <1>10. CASE PostStamp
    <2> DEFINE e == addrMap[cur]
    <2>1. e \in Held(addrMap, ref)
      BY <1>10, <1>b DEF PostStamp
    <2>2. ~Outrun => Micros % StampMod = now % StampMod
      <3>1. ~Outrun => Micros = now % StampMod
        BY <1>a, ClockReading DEF TypeOK, PostTypeOK
      <3>2. (now % StampMod) % StampMod = now % StampMod
        BY <1>a, PublisherAssumption
      <3> QED
        BY <3>1, <3>2
    <2>3. \A x \in Held(addrMap, ref) :
            \/ /\ x = e /\ ghost'[x].sentAt = now
               /\ ~Outrun => elem'[x].last = now % StampMod
            \/ elem'[x] = elem[x] /\ ghost'[x] = ghost[x]
      BY <1>10, <2>1, <2>2 DEF PostStamp, Stamp, TypeOK, HeapTypeOK, Element
    <2>4. now' = now /\ pc' = "encode" /\ Held(addrMap, ref)' = Held(addrMap, ref)
      BY <1>10 DEF PostStamp, Held
    <2>5. StampsAgree'
      BY <1>a, <2>3, <2>4 DEF StampInv, StampsAgree, Outrun
    <2> QED
      BY <2>4, <2>5 DEF StampInv
  <1> QED
    BY <1>1, <1>2, <1>3, <1>4, <1>5, <1>6, <1>7, <1>8, <1>9, <1>10
       DEF Next, Registration, Lookups, Packing, Post

\* No element is sent again before its interval has passed in real time, unless its
\* deadline overflows or a host clock, which is wider than the stamps, has outrun
\* them.
THEOREM RateLimited == Spec => RateLimit
  <1>1. TypeOK /\ TypeOK' /\ StampInv /\ [Next]_vars => StampInv'
    BY StampNext
  <1>2. StampInv /\ [Next]_vars =>
          [pc = "stamp" /\ pc' = "encode" =>
             LET e == addrMap[cur]
             IN \/ ghost[e].sentAt = Never
                \/ Overflows(e)
                \/ Outrun
                \/ now - ghost[e].sentAt >= elem[e].interval]_vars
    BY DEF StampInv, NotEarly
  <1> QED
    BY <1>1, <1>2, StampInit, TypeCorrect, PTL DEF Spec, RateLimit

-----------------------------------------------------------------------------
(* No entry is late while the clock does not wrap. *)

\* The time an element's stamp stands for: that of its last packet, and before the
\* first one the moment from which its interval runs.
CountsFrom(e) == IF ghost[e].sentAt = Never THEN ghost[e].since ELSE ghost[e].sentAt

\* A stamp is never ahead of the clock reading it stands for.
Behind(e) ==
    /\ ghost[e].sentAt = Never => elem[e].last = 0
    /\ elem[e].last <= CountsFrom(e) % clockMod
    /\ CountsFrom(e) <= ghost[e].since /\ ghost[e].since <= now

Began == now - sinceLoop

Elapsed(e) == ghost[e].since + elem[e].interval

\* The round in progress has yet to stamp d, or will never go on.
InRound(d) == pc = "crashed" \/ d \in todo \/ (pc = "stamp" /\ cur = d)

\* Within one cycle of the clock the round that began last is at most MaxLoop ticks
\* behind the moment d was due, and if it began after that moment it stamps d.
Punctual(d) ==
    LET e == addrMap[d] IN
    Cycle(CountsFrom(e)) = Cycle(now) =>
      /\ Began <= Elapsed(e) + MaxLoop
      /\ Elapsed(e) < Began => InRound(d)

LateInv ==
    /\ sinceLoop <= MaxLoop /\ sinceLoop <= now
    /\ \A e \in Held(addrMap, ref) : Behind(e)
    /\ \A d \in Registered : Punctual(d)

\* A quotient and a remainder make up the number.
LEMMA Division ==
    ASSUME NEW W \in Nat \ {0}, NEW a \in Nat
    PROVE  a \div W \in Nat /\ a % W \in 0 .. W - 1 /\ a = W * (a \div W) + (a % W)
  OBVIOUS

LEMMA RemainderBelow ==
    ASSUME NEW W \in Nat \ {0}, NEW a \in Nat
    PROVE  a % W \in Nat /\ a % W <= a
  <1>1. a \div W \in Nat /\ a % W \in 0 .. W - 1 /\ a = W * (a \div W) + (a % W)
    BY Division
  <1>2. W * (a \div W) \in Nat
    BY <1>1
  <1> QED
    BY <1>1, <1>2

\* Within one cycle clock readings are as far apart as the times.
LEMMA OneCycle ==
    ASSUME NEW W \in Nat \ {0}, NEW a \in Nat, NEW b \in Nat, a \div W = b \div W
    PROVE  (b % W) - (a % W) = b - a
  <1> DEFINE qa == a \div W
             qb == b \div W
             m == W * qa
  <1>1. /\ a = m + (a % W) /\ b = W * qb + (b % W) /\ qa = qb
        /\ qa \in Nat /\ a % W \in Int /\ b % W \in Int
    BY Division
  <1>2. m \in Int /\ b = m + (b % W)
    BY <1>1
  <1> HIDE DEF m
  <1> QED
    BY <1>1, <1>2

\* Quotients grow with the numbers.
LEMMA LaterCycle ==
    ASSUME NEW W \in Nat \ {0}, NEW a \in Nat, NEW b \in Nat, a <= b
    PROVE  a \div W <= b \div W
  <1> DEFINE qa == a \div W
             qb == b \div W
  <1>1. /\ a = W * qa + (a % W) /\ b = W * qb + (b % W)
        /\ qa \in Nat /\ qb \in Nat /\ a % W \in 0 .. W - 1 /\ b % W \in 0 .. W - 1
    BY Division
  <1>2. ASSUME qb < qa PROVE FALSE
    <2>1. qb + 1 <= qa
      BY <1>1, <1>2
    <2>2. W * (qb + 1) <= W * qa
      BY <1>1, <2>1
    <2>3. W * (qb + 1) = W * qb + W
      BY <1>1
    <2> QED
      BY <1>1, <2>2, <2>3
  <1> HIDE DEF qa, qb
  <1>3. qa <= qb
    BY <1>1, <1>2
  <1> QED
    BY <1>3 DEF qa, qb

LEMMA LateTypes ==
    ASSUME TypeOK
    PROVE  /\ now \in Nat /\ sinceLoop \in Nat /\ MaxLoop \in Nat
           /\ clockMod \in Nat \ {0}
           /\ \A d \in Registered : addrMap[d] \in Held(addrMap, ref)
           /\ \A e \in Held(addrMap, ref) :
                /\ ghost[e].since \in Nat /\ ghost[e].sentAt \in Nat \cup {Never}
                /\ CountsFrom(e) \in Nat
                /\ elem[e].last \in Nat /\ elem[e].interval \in Nat
                /\ Elapsed(e) \in Nat
                /\ (elem[e].last + elem[e].interval) % StampMod
                     <= elem[e].last + elem[e].interval
  <1>1. /\ now \in Nat /\ sinceLoop \in Nat /\ MaxLoop \in Nat
        /\ clockMod \in Nat \ {0} /\ StampMod \in Nat \ {0}
    BY PublisherAssumption DEF TypeOK, PostTypeOK
  <1>2. \A d \in Registered : addrMap[d] \in Held(addrMap, ref)
    BY DEF Registered, Held
  <1>3. ASSUME NEW e \in Held(addrMap, ref)
        PROVE  /\ ghost[e].since \in Nat /\ ghost[e].sentAt \in Nat \cup {Never}
               /\ elem[e].last \in Nat /\ elem[e].interval \in Nat
    BY <1>1, <1>3 DEF TypeOK, HeapTypeOK, Element
  <1>4. \A n \in Nat : n % StampMod <= n
    BY <1>1, RemainderBelow
  <1> QED
    BY <1>1, <1>2, <1>3, <1>4 DEF CountsFrom, Elapsed

\* Within one cycle of the clock the wrapped test never holds an element back
\* beyond its interval.
LEMMA ElapsedIsDue ==
    ASSUME TypeOK, LateInv, NEW e \in Held(addrMap, ref),
           Cycle(CountsFrom(e)) = Cycle(now), Elapsed(e) <= now
    PROVE  Due(e)
  <1>1. /\ now \in Nat /\ clockMod \in Nat \ {0} /\ CountsFrom(e) \in Nat
        /\ ghost[e].since \in Nat /\ elem[e].last \in Nat /\ elem[e].interval \in Nat
        /\ (elem[e].last + elem[e].interval) % StampMod <= elem[e].last + elem[e].interval
    BY LateTypes
  <1>2. /\ elem[e].last <= CountsFrom(e) % clockMod
        /\ CountsFrom(e) <= ghost[e].since
    BY DEF LateInv, Behind
  <1>3. (now % clockMod) - (CountsFrom(e) % clockMod) = now - CountsFrom(e)
    BY <1>1, OneCycle DEF Cycle
  <1>4. now - CountsFrom(e) >= elem[e].interval
    BY <1>1, <1>2 DEF Elapsed
  <1>5. CountsFrom(e) % clockMod \in Int /\ now % clockMod \in Int
    BY <1>1, Division
  <1>6. now % clockMod >= elem[e].last + elem[e].interval
    BY <1>1, <1>2, <1>3, <1>4, <1>5
  <1>7. (elem[e].last + elem[e].interval) % StampMod \in Int
    <2>1. \A n \in Nat : n % StampMod \in Int
      BY PublisherAssumption
    <2>2. elem[e].last + elem[e].interval \in Nat
      BY <1>1
    <2> QED
      BY <2>1, <2>2
  <1> QED
    BY <1>1, <1>5, <1>6, <1>7 DEF Due, Micros

\* Time goes on and nothing happens to the element of d: what is not late now, or
\* is not in the present cycle, is neither in the next state.
LEMMA PunctualStays ==
    ASSUME TypeOK, TypeOK', LateInv, NEW d \in Registered, d \in Registered',
           addrMap'[d] = addrMap[d],
           elem'[addrMap[d]] = elem[addrMap[d]], ghost'[addrMap[d]] = ghost[addrMap[d]],
           clockMod' = clockMod, now <= now', Began' = Began,
           InRound(d) => InRound(d)'
    PROVE  Punctual(d)'
  <1> DEFINE e == addrMap[d]
             from == CountsFrom(e)
  <1>1. /\ e \in Held(addrMap, ref) /\ clockMod \in Nat \ {0}
        /\ now \in Nat /\ now' \in Nat /\ from \in Nat
    <2>1. now' \in Nat
      BY DEF TypeOK, PostTypeOK
    <2> QED
      BY <2>1, LateTypes
  <1>2. Behind(e) /\ Punctual(d)
    BY <1>1 DEF LateInv
  <1>3. from <= now /\ ghost[e].since \in Nat
    BY <1>1, <1>2, LateTypes DEF Behind
  <1>4. /\ CountsFrom(addrMap[d])' = from /\ Elapsed(addrMap[d])' = Elapsed(e)
    BY DEF CountsFrom, Elapsed
  <1>5. /\ from \div clockMod <= now \div clockMod
        /\ now \div clockMod <= now' \div clockMod
        /\ from \div clockMod \in Nat /\ now \div clockMod \in Nat
        /\ now' \div clockMod \in Nat
    BY <1>1, <1>3, LaterCycle, Division
  <1> HIDE DEF from
  <1> SUFFICES ASSUME from \div clockMod = now' \div clockMod
               PROVE  /\ Began <= Elapsed(e) + MaxLoop
                      /\ Elapsed(e) < Began => InRound(d)'
    BY <1>4 DEF Punctual, Cycle
  <1>7. from \div clockMod = now \div clockMod
    BY <1>5
  <1> QED
    BY <1>2, <1>7 DEF Punctual, Cycle, from

\* An interval that runs from now on is no reason to be late.
LEMMA PunctualAnew ==
    ASSUME TypeOK', NEW d \in Registered', ghost'[addrMap'[d]].since = now'
    PROVE  Punctual(d)'
  <1>1. /\ now' \in Nat /\ sinceLoop' \in Nat /\ MaxLoop \in Nat
        /\ elem'[addrMap'[d]].interval \in Nat
    <2>1. addrMap'[d] \in Held(addrMap', ref')
      BY DEF Registered, Held
    <2>2. elem'[addrMap'[d]] \in Element
      BY <2>1 DEF TypeOK, HeapTypeOK
    <2> QED
      BY <2>2, PublisherAssumption DEF TypeOK, PostTypeOK, Element
  <1>2. Began' <= now' /\ Began' \in Int
    <2>1. Began' = now' - sinceLoop'
      BY DEF Began
    <2>2. now' \in Nat /\ sinceLoop' \in Nat
      BY <1>1
    <2>3. \A m, n \in Nat : m - n <= m /\ m - n \in Int
      OBVIOUS
    <2> QED
      BY <2>1, <2>2, <2>3
  <1>3. Elapsed(addrMap[d])' >= now' /\ Elapsed(addrMap[d])' \in Nat
    BY <1>1 DEF Elapsed
  <1> QED
    BY <1>1, <1>2, <1>3 DEF Punctual

\* A step that leaves alone the elements it does not destroy.
LEMMA LateFrame ==
    ASSUME TypeOK, TypeOK', LateInv, clockMod' = clockMod, now <= now',
           Began' = Began, sinceLoop' <= MaxLoop, sinceLoop' <= now',
           Held(addrMap, ref)' \subseteq Held(addrMap, ref),
           \A e \in Held(addrMap, ref)' : elem'[e] = elem[e] /\ ghost'[e] = ghost[e],
           \A d \in Registered' :
             /\ d \in Registered /\ addrMap'[d] = addrMap[d]
             /\ InRound(d) => InRound(d)'
    PROVE  LateInv'
  <1>1. now \in Nat /\ now' \in Nat
    BY DEF TypeOK, PostTypeOK
  <1>2. ASSUME NEW e \in Held(addrMap, ref)' PROVE Behind(e)'
    <2>1. Behind(e) /\ elem'[e] = elem[e] /\ ghost'[e] = ghost[e]
      BY <1>2 DEF LateInv
    <2>2. ghost[e].since \in Nat
      BY <1>2, LateTypes
    <2> QED
      BY <1>1, <2>1, <2>2 DEF Behind, CountsFrom
  <1>3. ASSUME NEW d \in Registered' PROVE Punctual(d)'
    <2>1. addrMap'[d] \in Held(addrMap, ref)'
      BY <1>3 DEF Registered, Held
    <2> QED
      BY <1>3, <2>1, PunctualStays
  <1> QED
    BY <1>2, <1>3 DEF LateInv

\* A stamp is the reading at this moment, taken to the width of the stamps.
LEMMA StampIsBehind ==
    ASSUME TypeOK
    PROVE  Micros % StampMod <= now % clockMod
  <1>1. now \in Nat /\ clockMod \in Nat \ {0} /\ StampMod \in Nat \ {0}
    BY LateTypes, PublisherAssumption
  <1>2. now % clockMod \in Nat
    BY <1>1, RemainderBelow
  <1>3. (now % clockMod) % StampMod <= now % clockMod
    BY <1>1, <1>2, RemainderBelow
  <1> QED
    BY <1>3 DEF Micros

LEMMA LatePublish ==
    ASSUME TypeOK, TypeOK', LateInv, NEW t \in Target, NEW s \in Shapes,
           Publish(t, s), clockMod' = clockMod
    PROVE  LateInv'
  <1>1. PICK e \in Elems \ Held(addrMap, ref), d \in getDestination(t) :
          LET map == IF d \in DOMAIN addrMap THEN addrMap
                     ELSE [x \in DOMAIN addrMap \cup {d} |->
                             IF x = d THEN e ELSE addrMap[x]]
              new == [shape |-> s, captured |-> var, last |-> 0,
                      interval |-> DefaultInterval]
          IN /\ addrMap' = map
             /\ ref' = e
             /\ elem' = [x \in Held(map, e) |-> IF x = e THEN new ELSE elem[x]]
             /\ ghost' = [x \in Held(map, e) |->
                            IF x = e THEN [sentAt |-> Never, since |-> now]
                            ELSE ghost[x]]
    BY DEF Publish, Fresh
  <1>2. /\ UNCHANGED <<now, sinceLoop, post_vars>> /\ now <= now /\ pc = "idle"
        /\ now \in Nat /\ clockMod \in Nat \ {0}
    BY LateTypes DEF Publish, Idle
  <1>3. \A x \in Held(addrMap, ref)' :
          \/ x = e /\ ghost'[x] = [sentAt |-> Never, since |-> now] /\ elem'[x].last = 0
          \/ /\ x \in Held(addrMap, ref)
             /\ elem'[x] = elem[x] /\ ghost'[x] = ghost[x]
    BY <1>1 DEF Held
  <1>4. \A x \in Registered' :
          \/ addrMap'[x] = e
          \/ x \in Registered /\ addrMap'[x] = addrMap[x]
    BY <1>1 DEF Registered
  <1>5. ASSUME NEW x \in Held(addrMap, ref)' PROVE Behind(x)'
    <2>1. CASE ghost'[x] = [sentAt |-> Never, since |-> now] /\ elem'[x].last = 0
      <3>1. CountsFrom(x)' = now /\ ghost'[x].since = now
        BY <2>1 DEF CountsFrom
      <3>2. 0 <= now % clockMod
        BY <1>2, Division
      <3> QED
        BY <1>2, <2>1, <3>1, <3>2 DEF Behind
    <2>2. CASE x \in Held(addrMap, ref) /\ elem'[x] = elem[x] /\ ghost'[x] = ghost[x]
      BY <1>2, <2>2 DEF LateInv, Behind, CountsFrom
    <2> QED
      BY <1>3, <1>5, <2>1, <2>2
  <1>6. ASSUME NEW x \in Registered' PROVE Punctual(x)'
    <2>1. addrMap'[x] \in Held(addrMap, ref)'
      BY <1>6 DEF Registered, Held
    <2>2. CASE ghost'[addrMap'[x]].since = now
      BY <1>2, <1>6, <2>2, PunctualAnew
    <2>3. CASE ghost'[addrMap'[x]].since # now
      <3>1. /\ elem'[addrMap'[x]] = elem[addrMap'[x]]
            /\ ghost'[addrMap'[x]] = ghost[addrMap'[x]]
            /\ addrMap'[x] # e
        BY <1>1, <1>3, <2>1, <2>3
      <3>2. x \in Registered /\ addrMap'[x] = addrMap[x]
        BY <1>4, <1>6, <3>1
      <3>3. Began' = Began /\ (InRound(x) => InRound(x)')
        BY <1>2 DEF Began, InRound, post_vars
      <3> QED
        BY <1>2, <1>6, <3>1, <3>2, <3>3, PunctualStays
    <2> QED
      BY <2>2, <2>3
  <1> QED
    BY <1>2, <1>5, <1>6 DEF LateInv

LEMMA LateSetInterval ==
    ASSUME TypeOK, TypeOK', LateInv, NEW us \in Intervals, SetInterval(us),
           clockMod' = clockMod
    PROVE  LateInv'
  <1>1. /\ UNCHANGED <<now, sinceLoop, addrMap, ref, post_vars>> /\ ref # Null
        /\ now \in Nat /\ clockMod \in Nat \ {0}
        /\ Held(addrMap, ref)' = Held(addrMap, ref) /\ Registered' = Registered
    BY LateTypes DEF SetInterval, Held, Registered
  <1>2. \A x \in Held(addrMap, ref) :
          /\ elem'[x].last = elem[x].last /\ ghost'[x].sentAt = ghost[x].sentAt
          /\ x = ref => ghost'[x].since = now
          /\ x # ref => elem'[x] = elem[x] /\ ghost'[x] = ghost[x]
    BY DEF SetInterval, TypeOK, HeapTypeOK, Element
  <1>3. ASSUME NEW x \in Held(addrMap, ref) PROVE Behind(x)'
    <2>1. Behind(x) /\ CountsFrom(x) \in Nat /\ ghost[x].since \in Nat
      BY LateTypes DEF LateInv
    <2>2. CASE x = ref
      <3>1. CASE ghost[x].sentAt = Never
        <4>1. CountsFrom(x)' = now /\ elem'[x].last = 0
          BY <1>2, <2>1, <2>2, <3>1 DEF CountsFrom, Behind
        <4>2. 0 <= now % clockMod
          BY <1>1, Division
        <4> QED
          BY <1>1, <1>2, <2>2, <4>1, <4>2 DEF Behind
      <3>2. CASE ghost[x].sentAt # Never
        <4>1. CountsFrom(x)' = CountsFrom(x)
          BY <1>2, <3>2 DEF CountsFrom
        <4>2. CountsFrom(x) <= now
          BY <1>1, <2>1 DEF Behind
        <4> QED
          BY <1>1, <1>2, <2>1, <2>2, <3>2, <4>1, <4>2 DEF Behind
      <3> QED
        BY <3>1, <3>2
    <2>3. CASE x # ref
      BY <1>1, <1>2, <2>1, <2>3 DEF Behind, CountsFrom
    <2> QED
      BY <2>2, <2>3
  <1>4. ASSUME NEW d \in Registered' PROVE Punctual(d)'
    <2>1. d \in Registered /\ addrMap[d] \in Held(addrMap, ref)
      BY <1>1, <1>4, LateTypes
    <2>2. CASE addrMap[d] = ref
      BY <1>1, <1>2, <1>4, <2>1, <2>2, PunctualAnew
    <2>3. CASE addrMap[d] # ref
      <3>1. Began' = Began /\ (InRound(d) => InRound(d)')
        BY <1>1 DEF Began, InRound, post_vars
      <3> QED
        BY <1>1, <1>2, <1>4, <2>1, <2>3, <3>1, PunctualStays
    <2> QED
      BY <2>2, <2>3
  <1> QED
    BY <1>1, <1>3, <1>4 DEF LateInv

\* The round begins with every entry; so far none was more than a round behind.
LEMMA LateBegin ==
    ASSUME TypeOK, TypeOK', LateInv, PostBegin, clockMod' = clockMod
    PROVE  LateInv'
  <1>1. /\ UNCHANGED <<now, addrMap, ref, elem, ghost>> /\ sinceLoop' = 0
        /\ todo' = DOMAIN addrMap /\ pc = "idle" /\ todo = {}
    BY DEF PostBegin, Idle, TypeOK, PostTypeOK
  <1>2. /\ now \in Nat /\ sinceLoop \in Nat /\ sinceLoop <= MaxLoop
        /\ sinceLoop <= now /\ MaxLoop \in Nat
    BY LateTypes DEF LateInv
  <1>3. Held(addrMap, ref)' = Held(addrMap, ref) /\ Registered' = Registered
    BY <1>1 DEF Held, Registered
  <1>4. \A e \in Held(addrMap, ref) : Behind(e)'
    BY <1>1, <1>2 DEF LateInv, Behind, CountsFrom
  <1>5. ASSUME NEW d \in Registered PROVE Punctual(d)'
    <2> DEFINE e == addrMap[d]
    <2>1. Elapsed(e) \in Nat /\ Punctual(d) /\ d \in DOMAIN addrMap
      BY LateTypes DEF LateInv, Registered
    <2>2. ~InRound(d)
      BY <1>1 DEF InRound
    <2>3. /\ CountsFrom(addrMap[d])' = CountsFrom(e) /\ Elapsed(addrMap[d])' = Elapsed(e)
          /\ InRound(d)' /\ Cycle(now)' = Cycle(now)
          /\ Cycle(CountsFrom(addrMap[d]))' = Cycle(CountsFrom(e))
      BY <1>1, <2>1 DEF CountsFrom, Elapsed, InRound, Cycle
    <2>4. Began' = now /\ Began = now - sinceLoop
      <3>1. Began' = now' - sinceLoop'
        BY DEF Began
      <3> QED
        BY <1>1, <1>2, <3>1 DEF Began
    <2>5. Cycle(CountsFrom(e)) = Cycle(now) => now <= Elapsed(e) + MaxLoop
      <3>1. Cycle(CountsFrom(e)) = Cycle(now) => ~(Elapsed(e) < Began)
        BY <2>1, <2>2 DEF Punctual
      <3> QED
        BY <1>2, <2>1, <2>4, <3>1
    <2> QED
      BY <2>3, <2>4, <2>5 DEF Punctual
  <1> QED
    BY <1>1, <1>2, <1>3, <1>4, <1>5 DEF LateInv

\* An entry that is skipped was not due before the round began.
LEMMA LateSkip ==
    ASSUME TypeOK, TypeOK', LateInv, NEW d \in todo, PostSkip(d), clockMod' = clockMod
    PROVE  LateInv'
  <1>1. /\ UNCHANGED <<now, sinceLoop, addrMap, ref, elem, ghost, pc, cur>>
        /\ todo' = todo \ {d} /\ pc = "post" /\ d \in Registered /\ ~Due(addrMap[d])
    BY DEF PostSkip, Registered, TypeOK, PostTypeOK
  <1>2. /\ now \in Nat /\ sinceLoop \in Nat /\ sinceLoop <= MaxLoop /\ sinceLoop <= now
    BY LateTypes DEF LateInv
  <1>3. /\ Held(addrMap, ref)' = Held(addrMap, ref) /\ Registered' = Registered
        /\ Began' = Began
    BY <1>1 DEF Held, Registered, Began
  <1>4. \A e \in Held(addrMap, ref) : Behind(e)'
    BY <1>1, <1>2 DEF LateInv, Behind, CountsFrom
  <1>5. ASSUME NEW x \in Registered PROVE Punctual(x)'
    <2>1. CASE x # d
      <3>1. InRound(x) => InRound(x)'
        BY <1>1, <2>1 DEF InRound
      <3> QED
        BY <1>1, <1>2, <1>3, <1>5, <3>1, PunctualStays
    <2>2. CASE x = d
      <3> DEFINE e == addrMap[d]
      <3>1. e \in Held(addrMap, ref) /\ Elapsed(e) \in Nat /\ Punctual(d)
        BY <1>1, LateTypes DEF LateInv
      <3>2. Cycle(CountsFrom(e)) = Cycle(now) => ~(Elapsed(e) <= now)
        BY <1>1, <3>1, ElapsedIsDue
      <3>3. Cycle(CountsFrom(e)) = Cycle(now) => ~(Elapsed(e) < Began)
        BY <1>2, <3>1, <3>2 DEF Began
      <3>4. /\ CountsFrom(addrMap[d])' = CountsFrom(e)
            /\ Elapsed(addrMap[d])' = Elapsed(e)
            /\ Cycle(now)' = Cycle(now)
            /\ Cycle(CountsFrom(addrMap[d]))' = Cycle(CountsFrom(e))
        BY <1>1 DEF CountsFrom, Elapsed, Cycle
      <3> QED
        BY <1>3, <2>2, <3>1, <3>3, <3>4 DEF Punctual
    <2> QED
      BY <2>1, <2>2
  <1> QED
    BY <1>1, <1>2, <1>3, <1>4, <1>5 DEF LateInv

LEMMA LateStamp ==
    ASSUME TypeOK, TypeOK', LateInv, PostStamp, clockMod' = clockMod
    PROVE  LateInv'
  <1> DEFINE e == addrMap[cur]
  <1>1. /\ UNCHANGED <<now, sinceLoop, addrMap, ref, todo, cur>>
        /\ pc = "stamp" /\ pc' = "encode" /\ e \in Held(addrMap, ref)
    BY PublisherAssumption DEF PostStamp, TypeOK, PostTypeOK, Held
  <1>2. /\ now \in Nat /\ sinceLoop \in Nat /\ sinceLoop <= MaxLoop /\ sinceLoop <= now
    BY LateTypes DEF LateInv
  <1>3. /\ Held(addrMap, ref)' = Held(addrMap, ref) /\ Registered' = Registered
        /\ Began' = Began
    BY <1>1 DEF Held, Registered, Began
  <1>4. /\ elem'[e].last = Micros % StampMod
        /\ ghost'[e] = [sentAt |-> now, since |-> now]
        /\ \A x \in Held(addrMap, ref) \ {e} :
             elem'[x] = elem[x] /\ ghost'[x] = ghost[x]
    BY <1>1 DEF PostStamp, Stamp, TypeOK, HeapTypeOK, Element
  <1>5. Behind(e)'
    <2>1. CountsFrom(e)' = now /\ now # Never
      BY <1>1, <1>2, <1>4 DEF CountsFrom, Never
    <2>2. Micros % StampMod <= now % clockMod
      BY StampIsBehind
    <2> QED
      BY <1>1, <1>2, <1>4, <2>1, <2>2 DEF Behind
  <1>6. \A x \in Held(addrMap, ref) \ {e} : Behind(x)'
    BY <1>1, <1>2, <1>4 DEF LateInv, Behind, CountsFrom
  <1>7. ASSUME NEW d \in Registered PROVE Punctual(d)'
    <2>1. CASE addrMap[d] = e
      BY <1>1, <1>3, <1>4, <1>7, <2>1, PunctualAnew
    <2>2. CASE addrMap[d] # e
      <3>1. InRound(d) => InRound(d)'
        BY <1>1, <2>2 DEF InRound
      <3>2. addrMap[d] \in Held(addrMap, ref) \ {e}
        BY <1>7, <2>2, LateTypes
      <3> QED
        BY <1>1, <1>2, <1>3, <1>4, <1>7, <3>1, <3>2, PunctualStays
    <2> QED
      BY <2>1, <2>2
  <1> QED
    BY <1>1, <1>2, <1>3, <1>5, <1>6, <1>7 DEF LateInv

LEMMA LateNext ==
    ASSUME TypeOK, TypeOK', LateInv, [Next]_vars
    PROVE  LateInv'
  <1>a. /\ clockMod' = clockMod /\ now \in Nat /\ now <= now /\ now <= now + 1
        /\ sinceLoop \in Nat /\ sinceLoop <= MaxLoop /\ sinceLoop <= now
    BY LateTypes DEF Next, vars, LateInv
  <1>b. ASSUME UNCHANGED <<now, sinceLoop, addrMap, ref, elem, ghost>>,
               \A d \in Registered : InRound(d) => InRound(d)'
        PROVE  LateInv'
    <2>1. /\ Held(addrMap, ref)' = Held(addrMap, ref) /\ Registered' = Registered
          /\ Began' = Began
      BY <1>b DEF Held, Registered, Began
    <2> QED
      BY <1>a, <1>b, <2>1, LateFrame
  <1>c. ASSUME NEW map, NEW r, Keep(map, r), pc = "idle", Held(map, r) \subseteq Held(addrMap, ref),
               UNCHANGED <<now, sinceLoop, post_vars>>,
               \A d \in DOMAIN map : map[d] # Null =>
                 d \in DOMAIN addrMap /\ map[d] = addrMap[d]
        PROVE  LateInv'
    <2>1. /\ Held(addrMap, ref)' \subseteq Held(addrMap, ref) /\ Began' = Began
          /\ \A e \in Held(addrMap, ref)' : elem'[e] = elem[e] /\ ghost'[e] = ghost[e]
      BY <1>c DEF Keep, Held, Began
    <2>2. \A d \in Registered' :
            /\ d \in Registered /\ addrMap'[d] = addrMap[d]
            /\ InRound(d) => InRound(d)'
      BY <1>c DEF Keep, Registered, InRound, post_vars
    <2> QED
      BY <1>a, <1>c, <2>1, <2>2, LateFrame
  <1>1. CASE Tick
    <2>1. /\ now' = now + 1 /\ sinceLoop' = sinceLoop + 1 /\ sinceLoop < MaxLoop
          /\ UNCHANGED <<addrMap, ref, elem, ghost, post_vars>>
      BY <1>1 DEF Tick
    <2>2. /\ Held(addrMap, ref)' = Held(addrMap, ref) /\ Registered' = Registered
          /\ \A d : InRound(d)' = InRound(d)
      BY <2>1 DEF Held, Registered, InRound, post_vars
    <2>3. Began' = Began
      <3>1. Began' = now' - sinceLoop'
        BY DEF Began
      <3> QED
        BY <1>a, <2>1, <3>1 DEF Began
    <2>4. sinceLoop' <= MaxLoop /\ sinceLoop' <= now'
      BY <1>a, <2>1, LateTypes
    <2> QED
      BY <1>a, <2>1, <2>2, <2>3, <2>4, LateFrame
  <1>2. CASE \/ \E v \in Values : SetVar(v)
             \/ \E api \in Apis, args \in Args : OneShot(api, args)
             \/ \E args \in Args : PackManually(args) \/ GetterEncode(args)
             \/ PostEncode \/ UNCHANGED vars
    BY <1>2, <1>b DEF SetVar, OneShot, PackManually, GetterEncode, PostEncode, vars,
       post_vars, InRound
  <1>3. CASE \E d \in todo : PostNull(d)
    BY <1>3, <1>b DEF PostNull, InRound
  <1>4. CASE \E d \in todo : PostDue(d)
    BY <1>4, <1>b DEF PostDue, InRound
  <1>5. CASE PostSend \/ PostEnd
    BY <1>5, <1>b DEF PostSend, PostEnd, InRound
  <1>6. ASSUME NEW t \in Target, NEW s \in Shapes, Publish(t, s) PROVE LateInv'
    BY <1>a, <1>6, LatePublish
  <1>7. CASE PublishOddMap
    <2>1. Held(addrMap, Null) \subseteq Held(addrMap, ref)
      BY DEF Held
    <2> QED
      BY <1>7, <1>c, <2>1 DEF PublishOddMap, Idle
  <1>8. ASSUME NEW t \in Target, Unpublish(t) PROVE LateInv'
    <2>1. PICK d \in getDestination(t) :
            Keep([x \in DOMAIN addrMap \ {d} |-> addrMap[x]], ref)
      BY <1>8 DEF Unpublish, Erased
    <2>2. Held([x \in DOMAIN addrMap \ {d} |-> addrMap[x]], ref)
            \subseteq Held(addrMap, ref)
      BY DEF Held
    <2> QED
      BY <1>8, <1>c, <2>1, <2>2 DEF Unpublish, Idle
  <1>d. ASSUME NEW d, Lookup(d), pc = "idle" PROVE LateInv'
    <2>1. CASE d \in DOMAIN addrMap
      <3>1. Held(addrMap, addrMap[d]) \subseteq Held(addrMap, ref)
        BY <2>1 DEF Held
      <3> QED
        BY <1>c, <1>d, <2>1, <3>1 DEF Lookup
    <2>2. CASE d \notin DOMAIN addrMap
      <3> DEFINE map == [x \in DOMAIN addrMap \cup {d} |->
                           IF x = d THEN Null ELSE addrMap[x]]
      <3>1. /\ Held(map, Null) \subseteq Held(addrMap, ref)
            /\ \A x \in DOMAIN map : map[x] # Null =>
                 x \in DOMAIN addrMap /\ map[x] = addrMap[x]
        BY <2>2 DEF Held
      <3>2. Keep(map, Null) /\ UNCHANGED <<now, sinceLoop, post_vars>>
        BY <1>d, <2>2 DEF Lookup
      <3> HIDE DEF map
      <3> QED
        BY <1>c, <1>d, <3>1, <3>2
    <2> QED
      BY <2>1, <2>2
  <1>9. ASSUME NEW t \in Target, GetPublishElementRef(t) PROVE LateInv'
    BY <1>d, <1>9 DEF GetPublishElementRef, Idle
  <1>10. ASSUME NEW s \in Udps, NEW i \in Indices, GetPublishElementRefUdp(s, i)
         PROVE  LateInv'
    BY <1>d, <1>10 DEF GetPublishElementRefUdp, Idle
  <1>11. ASSUME NEW us \in Intervals, SetInterval(us) PROVE LateInv'
    BY <1>a, <1>11, LateSetInterval
  <1>12. CASE PostBegin
    BY <1>a, <1>12, LateBegin
  <1>13. ASSUME NEW d \in todo, PostSkip(d) PROVE LateInv'
    BY <1>a, <1>13, LateSkip
  <1>14. CASE PostStamp
    BY <1>a, <1>14, LateStamp
  <1> QED
    BY <1>1, <1>2, <1>3, <1>4, <1>5, <1>6, <1>7, <1>8, <1>9, <1>10, <1>11, <1>12,
       <1>13, <1>14
     DEF Next, Registration, Lookups, Packing, Post

\* Whatever the sketch publishes and however it changes the intervals, an entry is
\* sent within its interval and two rounds of the loop, unless the clock wraps in
\* between; that the deadline is wrapped to 32 bits never makes it later.
THEOREM LateAcrossAWrap == Spec => []LateOnlyAcrossAWrap
  <1>1. Init => LateInv
    <2> SUFFICES ASSUME Init PROVE LateInv
      OBVIOUS
    <2>1. Held(addrMap, ref) = {} /\ Registered = {} /\ now = 0 /\ sinceLoop = 0
      BY DEF Init, Held, Registered
    <2> QED
      BY <2>1, PublisherAssumption DEF LateInv
  <1>2. TypeOK /\ TypeOK' /\ LateInv /\ [Next]_vars => LateInv'
    BY LateNext
  <1>3. TypeOK /\ LateInv => LateOnlyAcrossAWrap
    <2> SUFFICES ASSUME TypeOK, LateInv, NEW d \in Registered,
                        Cycle(CountsFrom(addrMap[d])) = Cycle(now)
                 PROVE  ~Late(addrMap[d])
      BY DEF LateOnlyAcrossAWrap, CountsFrom
    <2> DEFINE e == addrMap[d]
    <2>1. /\ now \in Nat /\ sinceLoop \in Nat /\ sinceLoop <= MaxLoop
          /\ MaxLoop \in Nat /\ ghost[e].since \in Nat /\ elem[e].interval \in Nat
      BY LateTypes DEF LateInv
    <2>2. now - sinceLoop <= ghost[e].since + elem[e].interval + MaxLoop
      BY DEF LateInv, Punctual, Began, Elapsed
    <2> QED
      BY <2>1, <2>2 DEF Late
  <1> QED
    BY <1>1, <1>2, <1>3, TypeCorrect, PTL DEF Spec

-----------------------------------------------------------------------------
(* What the shared encoder holds when post() hands it to the transport.   *)

\* How many tokens the encoder holds beyond the parts post() has packed.
Extra == Len(encoder) - part

\* From part j on, what is packed is in the encoder, in place.
PackedFrom(j) ==
    \A k \in 1 .. part :
      k >= j => /\ k + Extra \in DOMAIN encoder
                /\ encoder[k + Extra] = Token(addrMap[cur], k)

\* Part j is the last one whose getter used the encoder, and 0 if none did.
LastDisturbance(j) ==
    /\ j = 0 => Extra = 0
    /\ j > 0 => j \in DOMAIN shape /\ shape[j] = "function"

\* While an element is packed, all that follows the last disturbance is there.
EncInv ==
    pc = "encode" =>
      \E j \in 0 .. part + 1 : LastDisturbance(j) /\ PackedFrom(j)

\* The element being packed lives.
LEMMA CurrentShape ==
    ASSUME TypeOK, pc = "encode"
    PROVE  /\ elem[addrMap[cur]] \in Element /\ shape \in Seq(Parts)
           /\ part \in 0 .. Len(shape) /\ encoder \in Seq(Tokens)
  <1>1. cur \in DOMAIN addrMap /\ addrMap[cur] \in Elems
    BY DEF TypeOK, PostTypeOK
  <1>2. addrMap[cur] \in Held(addrMap, ref)
    BY <1>1, PublisherAssumption DEF Held
  <1> QED
    BY <1>2 DEF TypeOK, HeapTypeOK, PostTypeOK, EncoderTypeOK, Element, shape,
       Payload

\* send() begins with an empty encoder.
LEMMA EncStamp == ASSUME TypeOK, PostStamp PROVE EncInv'
  <1>1. encoder' = <<>> /\ part' = 0
    BY DEF PostStamp, Cleared
  <1>2. Extra' = 0 /\ 0 \in (0 .. part + 1)'
    BY <1>1 DEF Extra
  <1>3. LastDisturbance(0)' /\ PackedFrom(0)'
    BY <1>1, <1>2 DEF LastDisturbance, PackedFrom
  <1> QED
    BY <1>2, <1>3 DEF EncInv

\* A getter that uses the encoder becomes the last disturbance.
LEMMA EncGetter ==
    ASSUME TypeOK, NEW args \in Args, GetterEncode(args)
    PROVE  EncInv'
  <1>1. /\ pc = "encode" /\ part < Len(shape) /\ shape[part + 1] = "function"
        /\ part' = part /\ shape' = shape
    BY DEF GetterEncode, post_vars, shape
  <1>2. part \in Nat /\ shape \in Seq(Parts)
    BY <1>1, CurrentShape
  <1>3. part + 1 \in (0 .. part + 1)' /\ part + 1 \in DOMAIN shape
    BY <1>1, <1>2
  <1>4. LastDisturbance(part + 1)'
    BY <1>1, <1>2, <1>3 DEF LastDisturbance
  <1>5. PackedFrom(part + 1)'
    BY <1>1, <1>2 DEF PackedFrom
  <1> QED
    BY <1>1, <1>3, <1>4, <1>5 DEF EncInv

\* A part is packed behind what is there.
LEMMA EncPart == ASSUME TypeOK, EncInv, PostEncode PROVE EncInv'
  <1>1. /\ pc = "encode" /\ part' = part + 1 /\ shape' = shape
        /\ encoder' = Append(encoder, Token(addrMap[cur], part + 1))
        /\ UNCHANGED <<addrMap, cur, elem, var>>
    BY DEF PostEncode, shape
  <1>2. /\ part \in Nat /\ Token(addrMap[cur], part + 1) \in Tokens
        /\ encoder \in Seq(Tokens)
    BY <1>1, CurrentShape
       DEF TypeOK, EncoderTypeOK, Token, Tokens, Element
  <1>3. /\ Extra' = Extra /\ Len(encoder) \in Nat /\ Extra \in Int
        /\ \A n \in DOMAIN encoder : n \in DOMAIN encoder' /\ encoder'[n] = encoder[n]
        /\ (part + 1) + Extra \in DOMAIN encoder'
        /\ encoder'[(part + 1) + Extra] = Token(addrMap[cur], part + 1)
    BY <1>1, <1>2 DEF Extra
  <1>4. \A k : Token(addrMap[cur], k)' = Token(addrMap[cur], k)
    BY <1>1 DEF Token
  <1>5. PICK j \in 0 .. part + 1 : LastDisturbance(j) /\ PackedFrom(j)
    BY <1>1 DEF EncInv
  <1>6. LastDisturbance(j)'
    BY <1>1, <1>3, <1>5 DEF LastDisturbance
  <1>7. ASSUME NEW k \in 1 .. part + 1, k >= j
        PROVE  /\ k + Extra \in DOMAIN encoder'
               /\ encoder'[k + Extra] = Token(addrMap[cur], k)
    <2>1. CASE k = part + 1
      BY <1>3, <2>1
    <2>2. CASE k \in 1 .. part
      BY <1>3, <1>5, <1>7, <2>2 DEF PackedFrom
    <2> QED
      BY <1>2, <2>1, <2>2
  <1>8. PackedFrom(j)'
    BY <1>1, <1>3, <1>4, <1>7 DEF PackedFrom
  <1>9. j \in (0 .. part + 1)'
    BY <1>1, <1>2
  <1> QED
    BY <1>6, <1>8, <1>9 DEF EncInv

\* Only time passes while an element is packed, apart from these steps.
LEMMA EncFrame ==
    ASSUME EncInv,
           \/ pc' # "encode"
           \/ UNCHANGED <<pc, addrMap, cur, elem, encoder, part, var>>
    PROVE  EncInv'
  <1>1. CASE pc' # "encode"
    BY <1>1 DEF EncInv
  <1>2. CASE UNCHANGED <<pc, addrMap, cur, elem, encoder, part, var>>
    BY <1>2 DEF EncInv, LastDisturbance, PackedFrom, Extra, shape, Token
  <1> QED
    BY <1>1, <1>2

LEMMA EncNext == TypeOK /\ EncInv /\ [Next]_vars => EncInv'
  <1> SUFFICES ASSUME TypeOK, EncInv, [Next]_vars PROVE EncInv'
    OBVIOUS
  <1>1. CASE \/ Registration(Target, Shapes, Intervals)
             \/ Lookups
             \/ \E v \in Values : SetVar(v)
    <2>1. pc' = "idle"
      BY <1>1 DEF Registration, Lookups, SetVar, Publish, PublishOddMap, Unpublish,
         GetPublishElementRef, GetPublishElementRefUdp, Lookup, SetInterval, Idle,
         post_vars
    <2> QED
      BY <2>1, EncFrame
  <1>2. CASE Tick \/ UNCHANGED vars
    BY <1>2, EncFrame DEF Tick, vars, post_vars
  <1>3. CASE Packing(Args)
    <2>1. ASSUME NEW args \in Args, GetterEncode(args) PROVE EncInv'
      BY <2>1, EncGetter
    <2>2. CASE \/ \E api \in Apis, args \in Args : OneShot(api, args)
               \/ \E args \in Args : PackManually(args)
      BY <2>2, EncFrame DEF OneShot, PackManually, Idle, post_vars
    <2> QED
      BY <1>3, <2>1, <2>2 DEF Packing
  <1>4. CASE Post
    <2>1. CASE PostStamp
      BY <2>1, EncStamp
    <2>2. CASE PostEncode
      BY <2>2, EncPart
    <2>3. CASE \/ PostBegin \/ PostSend \/ PostEnd
               \/ \E d \in todo : PostSkip(d) \/ PostNull(d) \/ PostDue(d)
      BY <2>3, EncFrame DEF PostBegin, PostSend, PostEnd, PostSkip, PostNull,
         PostDue
    <2> QED
      BY <1>4, <2>1, <2>2, <2>3 DEF Post
  <1> QED
    BY <1>1, <1>2, <1>3, <1>4 DEF Next

\* With every part packed the invariant says what a receiver gets.
LEMMA EncInvIsEncoded == TypeOK /\ EncInv => EncodedElement
  <1> SUFFICES ASSUME TypeOK, EncInv, pc = "encode", part = Len(shape)
               PROVE  /\ Getters(shape) = {} => Extra = 0
                      /\ \A k \in 1 .. Len(shape) :
                           (\A g \in Getters(shape) : g <= k) =>
                             /\ k + Extra \in DOMAIN encoder
                             /\ encoder[k + Extra] = Token(addrMap[cur], k)
    BY DEF EncodedElement, Extra
  <1>1. PICK j \in 0 .. part + 1 : LastDisturbance(j) /\ PackedFrom(j)
    BY DEF EncInv
  <1>2. part \in Nat /\ shape \in Seq(Parts)
    BY CurrentShape
  <1>3. j > 0 => j \in Getters(shape)
    BY <1>1 DEF LastDisturbance, Getters
  <1>4. Getters(shape) = {} => Extra = 0
    BY <1>1, <1>2, <1>3 DEF LastDisturbance
  <1>5. ASSUME NEW k \in 1 .. Len(shape), \A g \in Getters(shape) : g <= k
        PROVE  /\ k + Extra \in DOMAIN encoder
               /\ encoder[k + Extra] = Token(addrMap[cur], k)
    <2>1. k >= j
      BY <1>1, <1>2, <1>3, <1>5
    <2> QED
      BY <1>1, <2>1 DEF PackedFrom
  <1> QED
    BY <1>4, <1>5

\* post() hands the transport the parts of its element and nothing else, whatever
\* the encoder held before; a getter that uses the encoder spoils only what comes
\* before its own result. For elements of any number of parts.
THEOREM EncoderIsShared == Spec => []EncodedElement
  <1>1. Init => EncInv
    BY DEF Init, EncInv
  <1>2. TypeOK /\ EncInv /\ [Next]_vars => EncInv'
    BY EncNext
  <1>3. TypeOK /\ EncInv => EncodedElement
    BY EncInvIsEncoded
  <1> QED
    BY <1>1, <1>2, <1>3, TypeCorrect, PTL DEF Spec

-----------------------------------------------------------------------------
(***************************************************************************)
(* The map. On platforms on which the port that getDestination leaves      *)
(* unassigned reads the same every time, what is registered is what is     *)
(* published, and a sketch that looks up nothing else survives post().     *)
(***************************************************************************)
OneGarbage == \E g : GarbagePorts = {g}

\* The keys that only the free UDP lookup builds.
UdpAsSerial(d) == d.stream \in Udps /\ d.type = "STREAM_SERIAL"

-----------------------------------------------------------------------------
(* Keys and targets. *)

\* A key names its target, and is none of the free UDP lookup.
LEMMA KeyTarget ==
    ASSUME NEW t \in Target, NEW d \in getDestination(t)
    PROVE  TargetOf(d) = t /\ ~UdpAsSerial(d)
  <1>1. CASE t \in [stream : SerialStreams \cup Clients, index : Indices]
    <2>1. t.stream \notin Udps
      BY <1>1, PublisherAssumption
    <2>2. /\ d.type # "STREAM_UDP" /\ d.stream = t.stream /\ d.index = t.index
      BY <2>1 DEF getDestination, StreamKeys
    <2>3. t = [stream |-> t.stream, index |-> t.index]
      BY <1>1
    <2> QED
      BY <2>1, <2>2, <2>3 DEF TargetOf, UdpAsSerial
  <1>2. CASE t \in [stream : Udps, index : Indices, ip : Ips, port : Ports]
    <2>1. d = [stream |-> t.stream, type |-> "STREAM_UDP", index |-> t.index,
               ip |-> t.ip, port |-> t.port]
      BY <1>2 DEF getDestination
    <2>2. t = [stream |-> t.stream, index |-> t.index, ip |-> t.ip, port |-> t.port]
      BY <1>2
    <2> QED
      BY <2>1, <2>2 DEF TargetOf, UdpAsSerial
  <1> QED
    BY <1>1, <1>2 DEF Target

\* With one value for the unassigned port a target has one key.
LEMMA OneKey ==
    ASSUME OneGarbage, NEW t \in Target, NEW d \in getDestination(t),
           NEW e \in getDestination(t)
    PROVE  d = e
  BY DEF OneGarbage, getDestination, StreamKeys

LEMMA LookupKey ==
    ASSUME NEW s \in Udps, NEW i \in Indices,
           NEW d \in StreamKeys(s, i, "STREAM_SERIAL")
    PROVE  UdpAsSerial(d)
  BY DEF StreamKeys, UdpAsSerial

-----------------------------------------------------------------------------
(* The inductive invariant. *)

\* Null references are under keys of the free UDP lookup only, ...
NullsAreStray(map) ==
    \A d \in DOMAIN map :
      map[d] = Null => UdpAsSerial(d) /\ "udp" \in strayed

\* ... every other key is that of a published target, ...
KeysArePublished(map, targets) ==
    \A d \in DOMAIN map :
      map[d] # Null => \E t \in targets : d \in getDestination(t)

\* ... and every published target has its key in the map.
PublishedHaveKeys(map, targets) ==
    \A t \in targets :
      \E d \in getDestination(t) : d \in DOMAIN map /\ map[d] # Null

RegInv ==
    "unpublished" \notin strayed =>
      /\ NullsAreStray(addrMap)
      /\ KeysArePublished(addrMap, published)
      /\ PublishedHaveKeys(addrMap, published)

\* What is inductive: the port is a constant, and the map needs the types.
IInv == OneGarbage /\ TypeOK /\ RegInv

LEMMA RegInit == Init => RegInv
  BY DEF Init, RegInv, NullsAreStray, KeysArePublished, PublishedHaveKeys

\* Steps that leave map and targets alone; what has strayed stays.
LEMMA RegFrame ==
    ASSUME RegInv, UNCHANGED <<addrMap, published>>, strayed \subseteq strayed'
    PROVE  RegInv'
  BY DEF RegInv, NullsAreStray, KeysArePublished, PublishedHaveKeys

LEMMA RegPublish ==
    ASSUME TypeOK, RegInv, OneGarbage, NEW t \in Target, NEW s \in Shapes,
           Publish(t, s)
    PROVE  RegInv'
  <1> SUFFICES ASSUME "unpublished" \notin strayed
               PROVE  /\ NullsAreStray(addrMap)'
                      /\ KeysArePublished(addrMap, published)'
                      /\ PublishedHaveKeys(addrMap, published)'
    BY DEF Publish, RegInv
  <1>1. /\ NullsAreStray(addrMap)
        /\ KeysArePublished(addrMap, published)
        /\ PublishedHaveKeys(addrMap, published)
    BY DEF RegInv
  <1>2. PICK e \in Fresh, d \in getDestination(t) :
          /\ addrMap' = IF d \in DOMAIN addrMap THEN addrMap
                        ELSE [x \in DOMAIN addrMap \cup {d} |->
                                IF x = d THEN e ELSE addrMap[x]]
          /\ published' = published \cup {t} /\ strayed' = strayed
    BY DEF Publish
  <1>3. e # Null /\ ~UdpAsSerial(d)
    BY KeyTarget, PublisherAssumption DEF Fresh
  <1>4. CASE d \in DOMAIN addrMap
    <2>1. addrMap' = addrMap /\ addrMap[d] # Null
      BY <1>1, <1>2, <1>3, <1>4 DEF NullsAreStray
    <2> QED
      BY <1>1, <1>2, <1>4, <2>1
         DEF NullsAreStray, KeysArePublished, PublishedHaveKeys
  <1>5. CASE d \notin DOMAIN addrMap
    <2>1. /\ DOMAIN addrMap' = DOMAIN addrMap \cup {d} /\ addrMap'[d] = e
          /\ \A x \in DOMAIN addrMap : addrMap'[x] = addrMap[x]
      BY <1>2, <1>5
    <2>2. NullsAreStray(addrMap)'
      BY <1>1, <1>2, <1>3, <2>1 DEF NullsAreStray
    <2>3. KeysArePublished(addrMap, published)'
      BY <1>1, <1>2, <2>1 DEF KeysArePublished
    <2>4. PublishedHaveKeys(addrMap, published)'
      BY <1>1, <1>2, <1>3, <2>1 DEF PublishedHaveKeys
    <2> QED
      BY <2>2, <2>3, <2>4
  <1> QED
    BY <1>4, <1>5

LEMMA RegUnpublish ==
    ASSUME TypeOK, RegInv, OneGarbage, NEW t \in Target, Unpublish(t)
    PROVE  RegInv'
  <1> SUFFICES ASSUME "unpublished" \notin strayed
               PROVE  /\ NullsAreStray(addrMap)'
                      /\ KeysArePublished(addrMap, published)'
                      /\ PublishedHaveKeys(addrMap, published)'
    BY DEF Unpublish, RegInv
  <1>1. /\ NullsAreStray(addrMap)
        /\ KeysArePublished(addrMap, published)
        /\ PublishedHaveKeys(addrMap, published)
    BY DEF RegInv
  <1>2. PICK d \in getDestination(t) :
          /\ addrMap' = [x \in DOMAIN addrMap \ {d} |-> addrMap[x]]
          /\ published' = published \ {t} /\ strayed' = strayed
    BY DEF Unpublish, Keep, Erased
  <1>3. /\ DOMAIN addrMap' = DOMAIN addrMap \ {d}
        /\ \A x \in DOMAIN addrMap' : addrMap'[x] = addrMap[x]
    BY <1>2
  <1>4. published \subseteq Target
    BY DEF TypeOK, HeapTypeOK
  <1>5. NullsAreStray(addrMap)'
    BY <1>1, <1>2, <1>3 DEF NullsAreStray
  <1>6. KeysArePublished(addrMap, published)'
    BY <1>1, <1>2, <1>3, OneKey DEF KeysArePublished
  <1>7. PublishedHaveKeys(addrMap, published)'
    BY <1>1, <1>2, <1>3, <1>4, KeyTarget DEF PublishedHaveKeys
  <1> QED
    BY <1>5, <1>6, <1>7

\* A lookup of what is published changes nothing in the map.
LEMMA RegLookup ==
    ASSUME TypeOK, RegInv, OneGarbage, NEW t \in Target, GetPublishElementRef(t)
    PROVE  RegInv'
  <1>1. strayed \subseteq strayed' /\ published' = published
    BY DEF GetPublishElementRef, Lookup
  <1>2. CASE "unpublished" \in strayed'
    BY <1>2 DEF RegInv
  <1>3. CASE "unpublished" \notin strayed'
    <2>1. t \in published /\ "unpublished" \notin strayed
      BY <1>3 DEF GetPublishElementRef
    <2>2. PICK d \in getDestination(t) : Lookup(d)
      BY DEF GetPublishElementRef
    <2>3. d \in DOMAIN addrMap
      BY <2>1, OneKey DEF RegInv, PublishedHaveKeys
    <2>4. addrMap' = addrMap
      BY <2>2, <2>3 DEF Lookup, Keep
    <2> QED
      BY <1>1, <2>4, RegFrame
  <1> QED
    BY <1>2, <1>3

\* The free UDP lookup adds a null reference at most, under a key of its own.
LEMMA RegLookupUdp ==
    ASSUME TypeOK, RegInv, NEW s \in Udps, NEW i \in Indices,
           GetPublishElementRefUdp(s, i)
    PROVE  RegInv'
  <1> SUFFICES ASSUME "unpublished" \notin strayed'
               PROVE  /\ NullsAreStray(addrMap)'
                      /\ KeysArePublished(addrMap, published)'
                      /\ PublishedHaveKeys(addrMap, published)'
    BY DEF RegInv
  <1>1. /\ "unpublished" \notin strayed /\ "udp" \in strayed'
        /\ published' = published
    BY DEF GetPublishElementRefUdp, Lookup
  <1>2. PICK d \in StreamKeys(s, i, "STREAM_SERIAL") : Lookup(d)
    BY DEF GetPublishElementRefUdp
  <1>3. UdpAsSerial(d)
    BY LookupKey
  <1>4. /\ NullsAreStray(addrMap)
        /\ KeysArePublished(addrMap, published)
        /\ PublishedHaveKeys(addrMap, published)
    BY <1>1 DEF RegInv
  <1>5. CASE d \in DOMAIN addrMap
    <2>1. addrMap' = addrMap
      BY <1>2, <1>5 DEF Lookup, Keep
    <2> QED
      BY <1>1, <1>4, <2>1 DEF NullsAreStray, KeysArePublished, PublishedHaveKeys
  <1>6. CASE d \notin DOMAIN addrMap
    <2>1. /\ DOMAIN addrMap' = DOMAIN addrMap \cup {d} /\ addrMap'[d] = Null
          /\ \A x \in DOMAIN addrMap : addrMap'[x] = addrMap[x]
      BY <1>2, <1>6 DEF Lookup, Keep
    <2>2. NullsAreStray(addrMap)'
      BY <1>1, <1>3, <1>4, <2>1 DEF NullsAreStray
    <2>3. KeysArePublished(addrMap, published)'
      BY <1>1, <1>4, <2>1 DEF KeysArePublished
    <2>4. PublishedHaveKeys(addrMap, published)'
      BY <1>1, <1>4, <2>1 DEF PublishedHaveKeys
    <2> QED
      BY <2>2, <2>3, <2>4
  <1> QED
    BY <1>5, <1>6

LEMMA RegNext == OneGarbage /\ TypeOK /\ RegInv /\ [Next]_vars => RegInv'
  <1> SUFFICES ASSUME OneGarbage, TypeOK, RegInv, [Next]_vars PROVE RegInv'
    OBVIOUS
  <1>1. ASSUME NEW t \in Target, NEW s \in Shapes, Publish(t, s) PROVE RegInv'
    BY <1>1, RegPublish
  <1>2. ASSUME NEW t \in Target, Unpublish(t) PROVE RegInv'
    BY <1>2, RegUnpublish
  <1>3. ASSUME NEW t \in Target, GetPublishElementRef(t) PROVE RegInv'
    BY <1>3, RegLookup
  <1>4. ASSUME NEW s \in Udps, NEW i \in Indices, GetPublishElementRefUdp(s, i)
        PROVE RegInv'
    BY <1>4, RegLookupUdp
  <1>5. CASE PublishOddMap
    BY <1>5, RegFrame DEF PublishOddMap, Keep
  <1>6. CASE Tick \/ \E v \in Values : SetVar(v)
    BY <1>6, RegFrame DEF Tick, SetVar
  <1>7. ASSUME NEW us \in Intervals, SetInterval(us) PROVE RegInv'
    BY <1>7, RegFrame DEF SetInterval
  <1>8. CASE Packing(Args)
    BY <1>8, RegFrame DEF Packing, OneShot, PackManually, GetterEncode
  <1>9. CASE Post
    BY <1>9, RegFrame DEF Post, PostBegin, PostSkip, PostNull, PostDue, PostStamp,
       PostEncode, PostSend, PostEnd
  <1>10. CASE UNCHANGED vars
    BY <1>10, RegFrame DEF vars
  <1> QED
    BY <1>1, <1>2, <1>3, <1>4, <1>5, <1>6, <1>7, <1>8, <1>9, <1>10
       DEF Next, Registration, Lookups

-----------------------------------------------------------------------------
(* The two properties. *)

LEMMA RegInvIsExact == OneGarbage /\ TypeOK /\ RegInv => RegistryExact
  <1> SUFFICES ASSUME OneGarbage, TypeOK, RegInv, "unpublished" \notin strayed
               PROVE  /\ {TargetOf(d) : d \in Registered} = published
                      /\ \A d1, d2 \in Registered :
                           TargetOf(d1) = TargetOf(d2) => d1 = d2
    BY DEF RegistryExact
  <1>1. published \subseteq Target
    BY DEF TypeOK, HeapTypeOK
  <1>2. \A d \in Registered : TargetOf(d) \in published
                              /\ d \in getDestination(TargetOf(d))
    BY <1>1, KeyTarget DEF RegInv, KeysArePublished, Registered
  <1>3. \A t \in published : \E d \in Registered : TargetOf(d) = t
    BY <1>1, KeyTarget DEF RegInv, PublishedHaveKeys, Registered
  <1>4. \A d1, d2 \in Registered : TargetOf(d1) = TargetOf(d2) => d1 = d2
    BY <1>1, <1>2, OneKey
  <1> QED
    BY <1>2, <1>3, <1>4

\* Where the unassigned port always reads the same, the map holds exactly what was
\* published and not unpublished, for any streams, addresses and sequence of calls.
THEOREM RegistryIsExact == OneGarbage => (Spec => []RegistryExact)
  <1>1. OneGarbage /\ Init => IInv
    BY TypeInit, RegInit DEF IInv
  <1>2. IInv /\ [Next]_vars => IInv'
    BY TypeNext, RegNext DEF IInv, OneGarbage
  <1>3. IInv => RegistryExact
    BY RegInvIsExact DEF IInv
  <1> QED
    BY <1>1, <1>2, <1>3, PTL DEF Spec

\* Only PostNull stops the program, and it finds a null reference.
LEMMA CrashNext ==
    TypeOK /\ RegInv /\ NoNullDereference /\ [Next]_vars => NoNullDereference'
  <1> SUFFICES ASSUME TypeOK, RegInv, NoNullDereference, [Next]_vars,
                      pc' = "crashed"
               PROVE  strayed' # {}
    BY DEF NoNullDereference
  <1>1. CASE pc = "crashed"
    <2>1. strayed # {}
      BY <1>1 DEF NoNullDereference
    <2>2. strayed' = strayed
      BY <1>1 DEF Next, Registration, Lookups, Packing, Post, Idle, Tick, SetVar,
         Publish, PublishOddMap, Unpublish, GetPublishElementRef,
         GetPublishElementRefUdp, SetInterval, OneShot, PackManually, GetterEncode,
         PostBegin, PostSkip, PostNull, PostDue, PostStamp, PostEncode, PostSend,
         PostEnd, vars
    <2> QED
      BY <2>1, <2>2
  <1>2. CASE pc # "crashed"
    <2>1. PICK d \in todo : PostNull(d)
      BY <1>2 DEF Next, Registration, Lookups, Packing, Post, Idle, Tick, SetVar,
         Publish, PublishOddMap, Unpublish, GetPublishElementRef, Lookup,
         GetPublishElementRefUdp, SetInterval, OneShot, PackManually, GetterEncode,
         PostBegin, PostSkip, PostDue, PostStamp, PostEncode, PostSend,
         PostEnd, vars, post_vars
    <2>2. addrMap[d] = Null /\ strayed' = strayed /\ d \in DOMAIN addrMap
      BY <2>1 DEF PostNull, TypeOK, PostTypeOK
    <2> QED
      BY <2>2 DEF RegInv, NullsAreStray
  <1> QED
    BY <1>1, <1>2

\* Under the same assumption a sketch that looks up nothing but what it has published
\* never has post() follow a null reference.
THEOREM SurvivesPost == OneGarbage => (Spec => []NoNullDereference)
  <1>1. OneGarbage /\ Init => IInv /\ NoNullDereference
    BY TypeInit, RegInit DEF IInv, Init, NoNullDereference
  <1>2. IInv /\ NoNullDereference /\ [Next]_vars => IInv' /\ NoNullDereference'
    BY TypeNext, RegNext, CrashNext DEF IInv, OneGarbage
  <1> QED
    BY <1>1, <1>2, PTL DEF Spec

=============================================================================
