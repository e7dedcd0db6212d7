--------------------------- MODULE CppSubscriber ---------------------------
(***************************************************************************)
(* The subscriber half of the C++ library: what subscribe() registers with *)
(* Packetizer, and UnpackerManager with one unpacker for each stream and   *)
(* one for manual operation, shared by all subscriptions of the stream and *)
(* handed to the sketch on request. Packetizer itself is external: it cuts *)
(* and checks packets and calls what is registered.                        *)
(***************************************************************************)
EXTENDS Naturals, Sequences, FiniteSets

CONSTANTS
    Streams,    \* stream objects, and Manual
    Manual,     \* the one input of subscribe_manual() and feed()
    Indices,    \* packet indices
    Payloads,   \* msgpack payloads
    BoundVars,  \* variables of the sketch bound to a subscription
    Callbacks,  \* callbacks of the sketch
    Unpackers,  \* identities of unpackers (bounds the heap)
    Null,       \* no reference
    Fits,       \* Fits[t]: the payloads that deserialize to the types of t
    MaxPackets, \* bound on the packets received
    MaxFed      \* bound on what the sketch feeds an unpacker itself

ASSUME CppSubscriberAssumption ==
    /\ Manual \in Streams
    /\ BoundVars \cap Callbacks = {}
    /\ Fits \in [BoundVars \cup Callbacks -> SUBSET Payloads]
    /\ Null \notin Unpackers
    /\ IsFiniteSet(Streams) /\ IsFiniteSet(Unpackers)
    /\ Cardinality(Unpackers) > Cardinality(Streams)
    /\ MaxPackets \in Nat /\ MaxFed \in Nat

VARIABLES
    subs,       \* Packetizer: the subscriptions of each stream, by index
    always,     \* Packetizer: the callback of each stream for every index
    decoders,   \* UnpackerManager::decoders and ::decoder
    content,    \* what was fed to each unpacker since it was cleared
    held,       \* the UnpackerRef the sketch holds
    bound,      \* the bound variables
    line,       \* packets received and not yet dispatched, by stream: parse(false)
                \* leaves them in Packetizer
    cur,        \* the packet being dispatched
    todo,       \* which of its callbacks are still to run
    calls,      \* history: what was called or bound for that packet
    received    \* packets received

vars == <<subs, always, decoders, content, held, bound, line, cur, todo, calls,
          received>>

NoPacket == [stream |-> "none"]

Packet == [stream : Streams, index : Indices, payload : Payloads]

\* What a subscription does with a payload: it fills bound variables, calls back
\* with a tuple, with a JSON document, or with the unpacker itself.
Subscription ==
    [kind : {"bind"}, to : BoundVars] \cup [kind : {"tuple", "json"}, to : Callbacks]

\* What the callback of a stream for every index gets: the unpacker, or a JSON
\* document.
AlwaysSubscription == [kind : {"unpacker", "json"}, to : Callbacks]

\* The values of a variable: none yet, those of a payload, or what a payload of
\* other types left behind.
Values == {"initial", "unfit"} \cup Payloads

Idle == cur = NoPacket

Init ==
    /\ subs = [s \in Streams |-> <<>>]
    /\ always = [s \in Streams |-> Null]
    /\ decoders = <<>> /\ content = [u \in Unpackers |-> <<>>] /\ held = Null
    /\ bound = [v \in BoundVars |-> "initial"]
    /\ line = [s \in Streams |-> <<>>]
    /\ cur = NoPacket /\ todo = {} /\ calls = <<>> /\ received = 0

-----------------------------------------------------------------------------
(* The sketch. *)

Subscribe(s, i, sub) ==
    /\ Idle
    /\ subs' = [subs EXCEPT ![s] = [j \in DOMAIN @ \cup {i} |->
                                      IF j = i THEN sub ELSE @[j]]]
    /\ UNCHANGED <<always, decoders, content, held, bound, line, cur, todo, calls,
                   received>>

SubscribeAlways(s, sub) ==
    /\ Idle
    /\ always' = [always EXCEPT ![s] = sub]
    /\ UNCHANGED <<subs, decoders, content, held, bound, line, cur, todo, calls,
                   received>>

Unsubscribe(s, i) ==
    /\ Idle
    /\ subs' = [subs EXCEPT ![s] = [j \in DOMAIN @ \ {i} |-> @[j]]]
    /\ UNCHANGED <<always, decoders, content, held, bound, line, cur, todo, calls,
                   received>>

UnsubscribeAll(s) ==
    /\ Idle /\ s # Manual
    /\ subs' = [subs EXCEPT ![s] = <<>>]
    /\ always' = [always EXCEPT ![s] = Null]
    /\ UNCHANGED <<decoders, content, held, bound, line, cur, todo, calls, received>>

Used == {decoders[s] : s \in DOMAIN decoders}

\* UnpackerManager::getUnpackerRef(): the unpacker of the stream, made on the
\* first request. One the sketch still holds is not freed.
UnpackersOf(s) == IF s \in DOMAIN decoders THEN {decoders[s]}
                  ELSE {CHOOSE u \in Unpackers : u \notin Used \cup {held}}

Remember(s, u) ==
    decoders' = [t \in DOMAIN decoders \cup {s} |->
                   IF t = s THEN u ELSE decoders[t]]

\* An unpacker that neither the map nor the sketch refers to is freed.
Keep(ref) ==
    content' = [u \in Unpackers |->
                  IF u = ref \/ \E t \in DOMAIN decoders' : decoders'[t] = u
                  THEN content[u] ELSE <<>>]

GetUnpackerRef(s) ==
    /\ Idle
    /\ \E u \in UnpackersOf(s) :
         Remember(s, u) /\ held' = u /\ Keep(u)
    /\ UNCHANGED <<subs, always, bound, line, cur, todo, calls, received>>

\* getUnpackerMap() hands the map out, and the sketch erases an entry.
EraseUnpacker(s) ==
    /\ Idle /\ s # Manual /\ s \in DOMAIN decoders
    /\ decoders' = [t \in DOMAIN decoders \ {s} |-> decoders[t]]
    /\ Keep(held)
    /\ UNCHANGED <<subs, always, held, bound, line, cur, todo, calls,
                   received>>

\* The sketch handles the unpacker it holds by itself.
HandleManually(p) ==
    /\ Idle /\ held # Null
    /\ Len(content[held]) < MaxFed
    /\ content' = [content EXCEPT ![held] = Append(@, p)]
    /\ UNCHANGED <<subs, always, decoders, held, bound, line, cur, todo, calls,
                   received>>

-----------------------------------------------------------------------------
(* parse(), feed() and the callbacks. *)

Receive(s, i, p) ==
    /\ received < MaxPackets
    /\ line' = [line EXCEPT ![s] = Append(@, [stream |-> s, index |-> i,
                                              payload |-> p])]
    /\ received' = received + 1
    /\ UNCHANGED <<subs, always, decoders, content, held, bound, cur, todo, calls>>

\* Mutant of Parse: both callbacks are called without looking them up.
ParseUnchecked(s) ==
    /\ Idle /\ line[s] # <<>>
    /\ cur' = Head(line[s])
    /\ line' = [line EXCEPT ![s] = Tail(@)]
    /\ todo' = {"index", "always"}
    /\ UNCHANGED <<subs, always, decoders, content, held, bound, calls, received>>

\* Packetizer takes the next packet and looks its callbacks up.
Parse(s) ==
    /\ Idle /\ line[s] # <<>>
    /\ cur' = Head(line[s])
    /\ line' = [line EXCEPT ![s] = Tail(@)]
    /\ todo' = (IF cur'.index \in DOMAIN subs[s] THEN {"index"} ELSE {})
                 \cup (IF always[s] # Null THEN {"always"} ELSE {})
    /\ UNCHANGED <<subs, always, decoders, content, held, bound, calls, received>>

\* Mutant of Refill: the unpacker is not cleared.
RefillUncleared(u, p) == content' = [content EXCEPT ![u] = Append(@, p)]

\* unpacker->clear(); unpacker->feed(data, size).
Refill(u, p) == content' = [content EXCEPT ![u] = <<p>>]

\* What deserialize() and to_tuple() read: the first payload fed.
Unpacked(u, t) == LET p == Head(content'[u])
                  IN IF p \in Fits[t] THEN p ELSE "unfit"

Made(kind, cb, value) ==
    calls' = Append(calls, [kind |-> kind, to |-> cb, packet |-> cur,
                        value |-> value])

\* A JSON document is built without an unpacker; on an error there is no call.
MadeJson(cb) ==
    IF cur.payload \in Fits[cb] THEN Made("json", cb, cur.payload) ELSE calls' = calls

RunBind ==
    LET sub == subs[cur.stream][cur.index] IN
    /\ "index" \in todo /\ sub.kind = "bind"
    /\ \E u \in UnpackersOf(cur.stream) :
         /\ Remember(cur.stream, u)
         /\ Refill(u, cur.payload)
         /\ bound' = [bound EXCEPT ![sub.to] = Unpacked(u, sub.to)]
         /\ Made("bind", sub.to, Unpacked(u, sub.to))
    /\ todo' = todo \ {"index"}
    /\ UNCHANGED <<subs, always, held, line, cur, received>>

\* The callback runs with whatever the tuple holds, also when the payload did
\* not fit its types.
RunTuple ==
    LET sub == subs[cur.stream][cur.index] IN
    /\ "index" \in todo /\ sub.kind = "tuple"
    /\ \E u \in UnpackersOf(cur.stream) :
         /\ Remember(cur.stream, u)
         /\ Refill(u, cur.payload)
         /\ Made("tuple", sub.to, Unpacked(u, sub.to))
    /\ todo' = todo \ {"index"}
    /\ UNCHANGED <<subs, always, held, bound, line, cur, received>>

RunJson ==
    LET sub == subs[cur.stream][cur.index] IN
    /\ "index" \in todo /\ sub.kind = "json"
    /\ MadeJson(sub.to)
    /\ todo' = todo \ {"index"}
    /\ UNCHANGED <<subs, always, decoders, content, held, bound, line, cur,
                   received>>

RunAlways ==
    LET sub == always[cur.stream] IN
    /\ "always" \in todo /\ sub.kind = "unpacker"
    /\ \E u \in UnpackersOf(cur.stream) :
         /\ Remember(cur.stream, u)
         /\ Refill(u, cur.payload)
         /\ Made("always", sub.to, Unpacked(u, sub.to))
    /\ todo' = todo \ {"always"}
    /\ UNCHANGED <<subs, always, held, bound, line, cur, received>>

RunAlwaysJson ==
    LET sub == always[cur.stream] IN
    /\ "always" \in todo /\ sub.kind = "json"
    /\ MadeJson(sub.to)
    /\ todo' = todo \ {"always"}
    /\ UNCHANGED <<subs, always, decoders, content, held, bound, line, cur,
                   received>>

Dispatched ==
    /\ ~Idle /\ todo = {}
    /\ cur' = NoPacket /\ calls' = <<>>
    /\ UNCHANGED <<subs, always, decoders, content, held, bound, line, todo,
                   received>>

\* What a sketch may do with the streams S, the indices I and the payloads P.
Steps(S, I, P) ==
    \/ \E s \in S, i \in I, sub \in Subscription : Subscribe(s, i, sub)
    \/ \E s \in S, sub \in AlwaysSubscription : SubscribeAlways(s, sub)
    \/ \E s \in S, i \in I : Unsubscribe(s, i)
    \/ \E s \in S : UnsubscribeAll(s) \/ GetUnpackerRef(s) \/ EraseUnpacker(s)
    \/ \E p \in P : HandleManually(p)
    \/ \E s \in S, i \in I, p \in P : Receive(s, i, p)
    \/ \E s \in S : Parse(s)
    \/ RunBind \/ RunTuple \/ RunJson \/ RunAlways \/ RunAlwaysJson
    \/ Dispatched

Next == Steps(Streams, Indices, Payloads)

Spec == Init /\ [][Next]_vars

-----------------------------------------------------------------------------
(* Properties. *)

TypeOK ==
    /\ DOMAIN subs = Streams
    /\ \A s \in Streams : /\ DOMAIN subs[s] \subseteq Indices
                          /\ subs[s] \in [DOMAIN subs[s] -> Subscription]
    /\ always \in [Streams -> AlwaysSubscription \cup {Null}]
    /\ DOMAIN decoders \subseteq Streams
    /\ decoders \in [DOMAIN decoders -> Unpackers]
    /\ content \in [Unpackers -> Seq(Payloads)]
    /\ held \in Unpackers \cup {Null}
    /\ bound \in [BoundVars -> Values]
    /\ line \in [Streams -> Seq(Packet)]
    /\ cur \in Packet \cup {NoPacket}
    /\ todo \subseteq {"index", "always"}
    /\ "index" \in todo => cur.index \in DOMAIN subs[cur.stream]
    /\ "always" \in todo => always[cur.stream] # Null
    /\ received \in Nat

\* A call or a bound variable gets the values of its own packet, whatever the
\* sketch or another subscription left in the unpacker they share.
OwnValues ==
    \A k \in DOMAIN calls :
      LET c == calls[k]
      IN c.value = IF c.packet.payload \in Fits[c.to] THEN c.packet.payload
                   ELSE "unfit"

=============================================================================
