----------------------------- MODULE Publisher -----------------------------
(***************************************************************************)
(* The periodic publisher of the C++ library: PackerManager, its map from  *)
(* destinations to publish elements, the one encoder every caller shares,  *)
(* the microsecond clock that decides when an element is due, and the      *)
(* one-shot encode / send functions that use the same encoder.             *)
(*                                                                         *)
(* The program is single-threaded: the sketch calls the operations from    *)
(* setup() and loop(), and post() runs to its end before the next call.    *)
(* Time passes between any two steps, also inside post().                  *)
(***************************************************************************)
EXTENDS Integers, Sequences, FiniteSets

CONSTANTS
    SerialStreams,  \* stream objects that are a plain Stream (Serial, ...)
    Clients,        \* stream objects that are a TCP Client
    Udps,           \* stream objects that are a UDP socket
    Indices,        \* packet indices (uint8_t)
    Ips, Ports,     \* addresses a UDP publication may name
    NoIp,           \* the empty str_t of a destination that names no address
    GarbagePorts,   \* what an uninitialised Destination::port may read as
    Elems,          \* identities of publish elements (bounds the heap)
    Null,           \* a null shared_ptr
    Values,         \* values of the sketch's variable
    Shapes,         \* element shapes: sequences of "value", "const", "function"
    MaxArgs,        \* bound on the arguments of a one-shot encode / send
    Intervals,      \* intervals a sketch may set, in ticks
    DefaultInterval,\* interval_us {33333}
    StampMod,       \* 2^32: width of last_publish_us and interval_us
    ClockMods,      \* 2^32 on Arduino; beyond MaxTime for a 64-bit host clock
    MaxTime,        \* bound on real time
    MaxLoop         \* bound on the ticks between two post() calls

ASSUME PublisherAssumption ==
    /\ StampMod \in Nat \ {0}
    /\ ClockMods \subseteq Nat /\ \A c \in ClockMods : c >= StampMod
    /\ MaxTime \in Nat /\ MaxLoop \in Nat /\ MaxArgs \in Nat
    /\ DefaultInterval \in 0 .. StampMod - 1
    /\ Intervals \subseteq 0 .. StampMod - 1
    /\ Udps \cap (SerialStreams \cup Clients) = {}
    /\ Null \notin Elems
    /\ GarbagePorts # {}
    /\ Shapes \subseteq Seq({"value", "const", "function"})

VARIABLES
    clockMod,   \* the clock shows the time modulo this; fixed by the platform
    now,        \* real time, in ticks
    sinceLoop,  \* ticks since post() was last called
    addrMap,    \* PackerManager::addr_map
    elem,       \* the live publish elements
    ref,        \* the PublishElementRef the sketch holds
    var,        \* the sketch's variable
    encoder,    \* PackerManager::encoder, a sequence of msgpack tokens
    packet,     \* the last packet handed to the transport
    pc,         \* where post() is
    todo,       \* the entries post() has still to visit
    cur,        \* the entry post() is sending
    part,       \* how many parts of its element are packed
    published,  \* history: the targets published and not unpublished since
    strayed,    \* history: what the sketch looked up that is not registered:
                \* "unpublished" targets, a "udp" target without its address
    ghost       \* per element: real time of its last packet, and of the
                \* moment from which its current interval runs

post_vars == <<pc, todo, cur, part>>
vars == <<clockMod, now, sinceLoop, addrMap, elem, ref, var, encoder, packet,
          post_vars, published, strayed, ghost>>

-----------------------------------------------------------------------------
(* Destinations. *)

StreamTypes == {"STREAM_SERIAL", "STREAM_UDP", "STREAM_TCP"}

Destination ==
    [stream : SerialStreams \cup Clients \cup Udps, type : StreamTypes,
     index : Indices, ip : Ips \cup {NoIp}, port : Ports \cup GarbagePorts]

\* What the sketch names in a call: a stream and an index, and for UDP also
\* the address.
Target ==
    [stream : SerialStreams \cup Clients, index : Indices]
      \cup [stream : Udps, index : Indices, ip : Ips, port : Ports]

\* getDestination(stream, index): the default constructor leaves every member
\* unset, and port is the one the function does not assign.
StreamKeys(s, i, type) ==
    {[stream |-> s, type |-> type, index |-> i, ip |-> NoIp, port |-> p] :
        p \in GarbagePorts}

\* Mutant of getDestination: the address of a UDP target is left out.
DestinationNoAddress(t) ==
    StreamKeys(t.stream, t.index,
               IF t.stream \in Udps THEN "STREAM_UDP"
               ELSE IF t.stream \in Clients THEN "STREAM_TCP" ELSE "STREAM_SERIAL")

getDestination(t) ==
    IF t.stream \in Udps
    THEN {[stream |-> t.stream, type |-> "STREAM_UDP", index |-> t.index,
           ip |-> t.ip, port |-> t.port]}
    ELSE StreamKeys(t.stream, t.index,
                    IF t.stream \in Clients THEN "STREAM_TCP" ELSE "STREAM_SERIAL")

-----------------------------------------------------------------------------
(* Publish elements and the clock. *)

Parts == {"value", "const", "function"}

Element ==
    [shape : Seq(Parts), captured : Values, last : 0 .. StampMod - 1,
     interval : 0 .. StampMod - 1]

\* An element lives while addr_map or the sketch holds a reference to it.
Held(map, r) == ({map[d] : d \in DOMAIN map} \cup {r}) \ {Null}

Micros == now % clockMod

\* Mutant of Due: the interval is not added.
DueAtOnce(e) == Micros >= elem[e].last

\* element::Base::next(): the sum of two uint32_t wraps, the clock is compared
\* as it is.
Due(e) == Micros >= (elem[e].last + elem[e].interval) % StampMod

Overflows(e) == elem[e].last + elem[e].interval >= StampMod

\* Mutant of Token: what is published by reference is copied, too.
TokenCopied(e, k) == <<"val", elem[e].captured>>

\* What one part of an element packs: a reference and a getter read the
\* variable when they are encoded, a constant was copied by publish().
Token(e, k) ==
    <<"val", IF elem[e].shape[k] = "const" THEN elem[e].captured ELSE var>>

-----------------------------------------------------------------------------
Never == -1

Init ==
    /\ clockMod \in ClockMods
    /\ now = 0 /\ sinceLoop = 0
    /\ addrMap = <<>>
    /\ elem = <<>>
    /\ ref = Null
    /\ var \in Values
    /\ encoder = <<>>
    /\ packet = Null
    /\ pc = "idle" /\ todo = {} /\ cur = Null /\ part = 0
    /\ published = {} /\ strayed = {}
    /\ ghost = <<>>

Idle == pc = "idle"

\* Time passes; loop() comes round to post() within MaxLoop ticks.
Tick ==
    /\ now < MaxTime /\ sinceLoop < MaxLoop
    /\ now' = now + 1 /\ sinceLoop' = sinceLoop + 1
    /\ UNCHANGED <<addrMap, elem, ref, var, encoder, packet, post_vars,
                   published, strayed, ghost>>

\* The sketch assigns the variable it has published by reference.
SetVar(v) ==
    /\ Idle /\ v # var
    /\ var' = v
    /\ UNCHANGED <<now, sinceLoop, addrMap, elem, ref, encoder, packet,
                   post_vars, published, strayed, ghost>>

-----------------------------------------------------------------------------
(* publish, unpublish, getPublishElementRef. *)

\* Mutant of Keep: elements nobody holds stay allocated.
KeepAll(map, r) == addrMap' = map /\ ref' = r /\ UNCHANGED <<elem, ghost>>

\* The references change to map and r; elements nobody holds are destroyed.
Keep(map, r) ==
    /\ addrMap' = map
    /\ ref' = r
    /\ elem' = [e \in Held(map, r) |-> elem[e]]
    /\ ghost' = [e \in Held(map, r) |-> ghost[e]]

\* Mutant of Fresh: the element may be one that is in use.
FreshOrUsed == Elems

\* What make_element_ref allocates is in nobody's use.
Fresh == Elems \ Held(addrMap, ref)

\* publish(): make_element_ref builds a new element, publish_impl inserts it,
\* and map::insert keeps an entry that is already there. The new element is
\* returned in both cases.
Publish(t, shape) ==
    /\ Idle
    /\ \E e \in Fresh, d \in getDestination(t) :
         LET map == IF d \in DOMAIN addrMap THEN addrMap
                    ELSE [x \in DOMAIN addrMap \cup {d} |->
                            IF x = d THEN e ELSE addrMap[x]]
             new == [shape |-> shape, captured |-> var, last |-> 0,
                     interval |-> DefaultInterval]
         IN /\ addrMap' = map
            /\ ref' = e
            /\ elem' = [x \in Held(map, e) |-> IF x = e THEN new ELSE elem[x]]
            /\ ghost' = [x \in Held(map, e) |->
                           IF x = e THEN [sentAt |-> Never, since |-> now]
                           ELSE ghost[x]]
    /\ published' = published \cup {t}
    /\ UNCHANGED <<now, sinceLoop, var, encoder, packet, post_vars, strayed>>

\* publish_map() with an odd number of arguments: a warning and nullptr.
PublishOddMap ==
    /\ Idle /\ ref # Null
    /\ Keep(addrMap, Null)
    /\ UNCHANGED <<now, sinceLoop, var, encoder, packet, post_vars, published, strayed>>

\* Mutant of Erased: the reference is reset, the entry stays.
ResetNotErased(d) ==
    [x \in DOMAIN addrMap |-> IF x = d THEN Null ELSE addrMap[x]]

Erased(d) == [x \in DOMAIN addrMap \ {d} |-> addrMap[x]]

\* unpublish(): erases the entry under the key it builds, if there is one.
Unpublish(t) ==
    /\ Idle
    /\ \E d \in getDestination(t) :
         Keep(Erased(d), ref)
    /\ published' = published \ {t}
    /\ UNCHANGED <<now, sinceLoop, var, encoder, packet, post_vars, strayed>>

\* addr_map[dest]: a key that is absent is inserted with a null reference.
Lookup(d) ==
    /\ IF d \in DOMAIN addrMap
       THEN Keep(addrMap, addrMap[d])
       ELSE Keep([x \in DOMAIN addrMap \cup {d} |->
                    IF x = d THEN Null ELSE addrMap[x]], Null)
    /\ UNCHANGED <<now, sinceLoop, var, encoder, packet, post_vars, published>>

\* getPublishElementRef(stream, index) and, for UDP, the member function that
\* takes the address.
GetPublishElementRef(t) ==
    /\ Idle
    /\ \E d \in getDestination(t) : Lookup(d)
    /\ strayed' = strayed \cup (IF t \in published THEN {} ELSE {"unpublished"})

\* The free function getPublishElementRef(UDP, index) passes no address: the
\* call resolves to the overload for plain streams.
GetPublishElementRefUdp(s, i) ==
    /\ Idle
    /\ \E d \in StreamKeys(s, i, "STREAM_SERIAL") : Lookup(d)
    /\ strayed' = strayed \cup
         {IF \E t \in published : t.stream = s /\ t.index = i
          THEN "udp" ELSE "unpublished"}

\* ref->setFrameRate() and the setInterval functions.
SetInterval(us) ==
    /\ Idle /\ ref # Null
    /\ us # elem[ref].interval
    /\ elem' = [elem EXCEPT ![ref].interval = us]
    /\ ghost' = [ghost EXCEPT ![ref].since = now]
    /\ UNCHANGED <<now, sinceLoop, addrMap, ref, var, encoder, packet,
                   post_vars, published, strayed>>

-----------------------------------------------------------------------------
(* One-shot encode and send: everything goes through the shared encoder. *)

Apis == {"encode", "encode_arr", "encode_map", "send", "send_arr", "send_map"}

MapApis == {"encode_map", "send_map"}

Args == UNION {[1 .. n -> Values] : n \in 0 .. MaxArgs}

\* The header each function packs before the arguments. encode_map packs an
\* array header.
Header(api, n) ==
    CASE api \in {"encode", "send"} -> <<>>
      [] api \in {"encode_arr", "send_arr"} -> << <<"arr", n>> >>
      [] api = "encode_map" -> << <<"arr", n \div 2>> >>
      [] api = "send_map" -> << <<"map", n \div 2>> >>

Packed(args) == [k \in DOMAIN args |-> <<"val", args[k]>>]

\* packer.clear(); packer.serialize(...); Packetizer::encode or send. For an
\* odd map, encode_map encodes an empty payload and send_map sends nothing.
\* Without arguments encode and send are the overloads that do not clear: the
\* payload is what the encoder happens to hold.
OneShot(api, args) ==
    LET oddMap == api \in MapApis /\ Len(args) % 2 = 1
        bare == api \in {"encode", "send"} /\ args = <<>>
    IN
    /\ Idle
    /\ encoder' = IF oddMap \/ bare THEN encoder
                  ELSE Header(api, Len(args)) \o Packed(args)
    /\ packet' = IF oddMap
                 THEN IF api = "send_map" THEN packet
                      ELSE [from |-> api, dest |-> Null, payload |-> <<>>]
                 ELSE [from |-> api, dest |-> Null, payload |-> encoder']
    /\ UNCHANGED <<now, sinceLoop, addrMap, elem, ref, var, post_vars,
                   published, strayed, ghost>>

\* getPacker() hands the encoder out, and the sketch packs into it what a later
\* encode or send without arguments is to carry: clear(), serialize().
PackManually(args) ==
    /\ Idle
    /\ encoder' = Packed(args)
    /\ UNCHANGED <<now, sinceLoop, addrMap, elem, ref, var, packet, post_vars,
                   published, strayed, ghost>>

-----------------------------------------------------------------------------
(* post(). *)

\* loop() calls update(), and update() calls post().
PostBegin ==
    /\ Idle
    /\ pc' = "post" /\ todo' = DOMAIN addrMap
    /\ sinceLoop' = 0
    /\ UNCHANGED <<now, addrMap, elem, ref, var, encoder, packet, cur, part,
                   published, strayed, ghost>>

PostSkip(d) ==
    /\ pc = "post" /\ d \in todo
    /\ addrMap[d] # Null
    /\ ~Due(addrMap[d])
    /\ todo' = todo \ {d}
    /\ UNCHANGED <<now, sinceLoop, addrMap, elem, ref, var, encoder, packet,
                   pc, cur, part, published, strayed, ghost>>

\* mp.second->next() on a null reference: the program does not survive it.
PostNull(d) ==
    /\ pc = "post" /\ d \in todo
    /\ addrMap[d] = Null
    /\ pc' = "crashed"
    /\ UNCHANGED <<now, sinceLoop, addrMap, elem, ref, var, encoder, packet,
                   todo, cur, part, published, strayed, ghost>>

PostDue(d) ==
    /\ pc = "post" /\ d \in todo
    /\ addrMap[d] # Null
    /\ Due(addrMap[d])
    /\ pc' = "stamp" /\ cur' = d /\ todo' = todo \ {d}
    /\ UNCHANGED <<now, sinceLoop, addrMap, elem, ref, var, encoder, packet,
                   part, published, strayed, ghost>>

\* Mutant of Stamp: the next deadline is stored where the stamp belongs.
StampDeadline(e) == (Micros + elem[e].interval) % StampMod

Stamp(e) == Micros % StampMod

\* Mutant of Cleared: what the encoder held stays.
NotCleared == encoder

\* encoder.clear() in send().
Cleared == <<>>

\* last_publish_us = micros(), a second reading of the clock; then send()
\* clears the encoder.
PostStamp ==
    LET e == addrMap[cur] IN
    /\ pc = "stamp"
    /\ elem' = [elem EXCEPT ![e].last = Stamp(e)]
    /\ ghost' = [ghost EXCEPT ![e] = [sentAt |-> now, since |-> now]]
    /\ encoder' = Cleared /\ part' = 0
    /\ pc' = "encode"
    /\ UNCHANGED <<now, sinceLoop, addrMap, ref, var, packet, todo, cur,
                   published, strayed>>

shape == elem[addrMap[cur]].shape

\* A getter runs before its result is packed. It may use the library itself,
\* and then it finds, clears and fills the same encoder.
GetterEncode(args) ==
    /\ pc = "encode" /\ part < Len(shape) /\ shape[part + 1] = "function"
    /\ args # <<>>
    /\ encoder' = Packed(args)
    /\ packet' = [from |-> "encode", dest |-> Null, payload |-> encoder']
    /\ UNCHANGED <<now, sinceLoop, addrMap, elem, ref, var, post_vars,
                   published, strayed, ghost>>

\* Mutant of PostEncode: every part clears the encoder.
PostEncodeClears ==
    /\ pc = "encode" /\ part < Len(shape)
    /\ encoder' = <<Token(addrMap[cur], part + 1)>>
    /\ part' = part + 1
    /\ UNCHANGED <<now, sinceLoop, addrMap, elem, ref, var, packet, pc, todo,
                   cur, published, strayed, ghost>>

\* encodeTo(): one part after the other.
PostEncode ==
    /\ pc = "encode" /\ part < Len(shape)
    /\ encoder' = Append(encoder, Token(addrMap[cur], part + 1))
    /\ part' = part + 1
    /\ UNCHANGED <<now, sinceLoop, addrMap, elem, ref, var, packet, pc, todo,
                   cur, published, strayed, ghost>>

\* Packetizer::send(), by the type of the destination.
PostSend ==
    /\ pc = "encode" /\ part = Len(shape)
    /\ packet' = [from |-> "post", dest |-> cur, payload |-> encoder]
    /\ pc' = "post" /\ cur' = Null /\ part' = 0
    /\ UNCHANGED <<now, sinceLoop, addrMap, elem, ref, var, encoder, todo,
                   published, strayed, ghost>>

PostEnd ==
    /\ pc = "post" /\ todo = {}
    /\ pc' = "idle"
    /\ UNCHANGED <<now, sinceLoop, addrMap, elem, ref, var, encoder, packet,
                   todo, cur, part, published, strayed, ghost>>

-----------------------------------------------------------------------------
Registration(targets, shapes, intervals) ==
    \/ \E t \in targets, s \in shapes : Publish(t, s)
    \/ PublishOddMap
    \/ \E t \in targets : Unpublish(t)
    \/ \E us \in intervals : SetInterval(us)

Lookups ==
    \/ \E t \in Target : GetPublishElementRef(t)
    \/ \E s \in Udps, i \in Indices : GetPublishElementRefUdp(s, i)

Packing(some) ==
    \/ \E api \in Apis, args \in some : OneShot(api, args)
    \/ \E args \in some : PackManually(args) \/ GetterEncode(args)

Post ==
    \/ PostBegin
    \/ \E d \in todo : PostSkip(d) \/ PostNull(d) \/ PostDue(d)
    \/ PostStamp
    \/ PostEncode
    \/ PostSend
    \/ PostEnd

Next ==
    /\ UNCHANGED clockMod
    /\ \/ Tick
       \/ \E v \in Values : SetVar(v)
       \/ Registration(Target, Shapes, Intervals)
       \/ Lookups
       \/ Packing(Args)
       \/ Post

Spec == Init /\ [][Next]_vars

-----------------------------------------------------------------------------
(* Properties. *)

Tokens == {"val", "arr", "map"} \X (Values \cup Nat)

Payload == Seq(Tokens)

\* Every variable has its type; exactly the elements somebody holds exist.
HeapTypeOK ==
    /\ DOMAIN addrMap \subseteq Destination
    /\ addrMap \in [DOMAIN addrMap -> Elems \cup {Null}]
    /\ ref \in Elems \cup {Null}
    /\ elem \in [Held(addrMap, ref) -> Element]
    /\ ghost \in [Held(addrMap, ref) -> [sentAt : Nat \cup {Never}, since : Nat]]
    /\ published \subseteq Target
    /\ strayed \subseteq {"unpublished", "udp"}

EncoderTypeOK ==
    /\ var \in Values
    /\ encoder \in Payload
    /\ packet \in {Null} \cup [from : Apis \cup {"post"},
                               dest : Destination \cup {Null}, payload : Payload]

PostTypeOK ==
    /\ clockMod \in ClockMods /\ now \in Nat /\ sinceLoop \in Nat
    /\ pc \in {"idle", "post", "stamp", "encode", "crashed"}
    /\ todo \subseteq DOMAIN addrMap
    /\ pc \in {"stamp", "encode"} =>
         cur \in DOMAIN addrMap /\ addrMap[cur] \in Elems
    /\ pc = "encode" => part \in 0 .. Len(shape)
    /\ part \in Nat
    /\ pc = "idle" => todo = {}

TypeOK == HeapTypeOK /\ EncoderTypeOK /\ PostTypeOK

Registered == {d \in DOMAIN addrMap : addrMap[d] # Null}

TargetOf(d) ==
    IF d.type = "STREAM_UDP"
    THEN [stream |-> d.stream, index |-> d.index, ip |-> d.ip, port |-> d.port]
    ELSE [stream |-> d.stream, index |-> d.index]

\* No two destinations share an element, so that the interval and the stamp of
\* one never move those of another, whatever publish, unpublish and lookup do.
UniqueOwner ==
    \A d1, d2 \in Registered : addrMap[d1] = addrMap[d2] => d1 = d2

\* When every part is packed, the shared encoder holds the element and nothing
\* else, whatever one-shot calls used the encoder before. A getter that uses
\* the encoder itself can spoil only what precedes its own result.
Getters(s) == {k \in DOMAIN s : s[k] = "function"}

EncodedElement ==
    pc = "encode" /\ part = Len(shape) =>
      LET extra == Len(encoder) - Len(shape)
      IN /\ Getters(shape) = {} => extra = 0
         /\ \A k \in 1 .. Len(shape) :
              (\A g \in Getters(shape) : g <= k) =>
                /\ k + extra \in DOMAIN encoder
                /\ encoder[k + extra] = Token(addrMap[cur], k)

\* A host clock is wider than the stamps, and after 2^32 microseconds it is ahead
\* of every deadline.
Outrun == clockMod # StampMod /\ now >= StampMod

\* An element is not sent again before its interval has passed in real time,
\* although the due test compares wrapped numbers, unless its deadline overflowed
\* the 32 bits or a wider clock has outrun them.
RateLimit ==
    [][pc = "stamp" /\ pc' = "encode" =>
         LET e == addrMap[cur]
         IN \/ ghost[e].sentAt = Never
            \/ Overflows(e)
            \/ Outrun
            \/ now - ghost[e].sentAt >= elem[e].interval]_vars

\* The time an entry may stay unsent once its interval has begun: one interval
\* and two rounds of the loop.
Late(e) == now - ghost[e].since > elem[e].interval + 2 * MaxLoop

\* While the clock does not wrap no entry is late: what can hold an entry back
\* is a wrap between its last stamp and now, or, before its first packet,
\* between its publication and now.
Cycle(t) == t \div clockMod

LateOnlyAcrossAWrap ==
    \A d \in Registered :
      Late(addrMap[d]) =>
        LET g == ghost[addrMap[d]]
        IN Cycle(IF g.sentAt = Never THEN g.since ELSE g.sentAt) # Cycle(now)

\* post() follows a null reference only where the sketch looked up what is not
\* registered: however it publishes, unpublishes and looks up what it published.
NoNullDereference == pc = "crashed" => strayed # {}

\* README: "get registerd publish element class". A sketch that looks up only what
\* it has published survives its post().
LookupIsSafe == pc = "crashed" => "unpublished" \in strayed

\* What is registered is what was published and not unpublished, under one key
\* each, unless a lookup has put a null reference in the way.
RegistryExact ==
    "unpublished" \notin strayed =>
      /\ {TargetOf(d) : d \in Registered} = published
      /\ \A d1, d2 \in Registered : TargetOf(d1) = TargetOf(d2) => d1 = d2

\* README: "unpublish". Nothing is sent for a target that was unpublished.
UnpublishedIsSilent ==
    pc \in {"stamp", "encode"} => TargetOf(cur) \in published

=============================================================================
