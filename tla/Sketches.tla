------------------------------ MODULE Sketches ------------------------------
(***************************************************************************)
(* The sketches under examples/arduino: both halves of the C++ library in  *)
(* one program. CppSubscriber is the subscriber half, Pub the publisher    *)
(* half; what is bound to a subscription is what is published, and the     *)
(* callbacks that parse() runs send through the encoder that post() uses.  *)
(* A peer sends packets; since any sequence of them may arrive, packets    *)
(* that a UDP socket loses, repeats or reorders are covered.               *)
(* Time stands still here: an element whose interval is 0 is always due.   *)
(***************************************************************************)
EXTENDS CppSubscriber

CONSTANTS
    Serial, Udp, Client,    \* the streams of the sketches, beside Manual
    Var,        \* the variables a sketch binds, taken as one
    Callback,   \* the callback of a sketch
    Sized,      \* payloads whose header announces the number of values expected
    Keys,       \* Keys[p]: those of "ka" and "km" that the document p has
    Host, Port, \* where a UDP answer goes
    NoIp, Elems,
    Programs    \* the sketches that may run

ASSUME SketchAssumption ==
    /\ {Serial, Udp, Client, Manual} = Streams
    /\ Var \in BoundVars /\ Callback \in Callbacks
    /\ Null \notin Elems \cup AlwaysSubscription
    /\ Sized \subseteq Payloads
    /\ Keys \in [Payloads -> SUBSET {"ka", "km"}]

VARIABLES
    sketch,     \* the program
    phase,      \* where setup() or loop() is
    seen,       \* packets that had arrived when loop() last began
    arrived,    \* history: the packets that arrived
    nested,     \* the global struct of the ArduinoJson sketches, by key
    answers,    \* history: the answers sent and the packets they are for
    addrMap, elem, ref, encoder, packet, pc, toPost, posting, part, published,
    strayed, ghost  \* the publisher, see there

Pub == INSTANCE Publisher WITH
         SerialStreams <- {Serial}, Clients <- {Client}, Udps <- {Udp},
         Ips <- {Host}, Ports <- {Port}, GarbagePorts <- {0},
         Shapes <- {<<"value">>, <<"value", "value", "value">>}, MaxArgs <- 2,
         Intervals <- {0}, DefaultInterval <- 1, StampMod <- 2, ClockMods <- {2},
         MaxTime <- 0, MaxLoop <- 0, clockMod <- 2, now <- 0, sinceLoop <- 0,
         var <- bound[Var], todo <- toPost, cur <- posting

sub_vars == vars
pub_vars == <<addrMap, elem, ref, encoder, packet, pc, toPost, posting, part,
              published, strayed, ghost>>
own_vars == <<sketch, phase, seen, arrived, nested, answers>>
sketch_vars == <<sub_vars, pub_vars, own_vars>>

-----------------------------------------------------------------------------
(* The programs: what each waits for, subscribes, and answers or publishes. *)

\* A lambda that is called with typed values and sends them back. Most test first
\* that the packet announces the right number of values.
Lambda(begin, link, recv, send, tests, api) ==
    [kind |-> "tuple", begin |-> begin, link |-> link, recv |-> recv,
     send |-> send, tests |-> tests, api |-> api]

simple_lambda == Lambda("subscribe", Serial, 1, 2, TRUE, "send_arr")

arr_lambda == Lambda("subscribe", Serial, 17, 18, TRUE, "send_arr")

map_lambda == Lambda("subscribe", Serial, 33, 34, TRUE, "send_map")

custom_lambda == Lambda("subscribe", Serial, 49, 50, FALSE, "send")

simple_manual_data_feed == Lambda("subscribe", Manual, 1, 2, TRUE, "encode_arr")

\* WiFi comes first, then with TCP a client; the Ethernet sketches only have the
\* client to wait for.
wifi_simple_lambda(link) == Lambda("wifi", link, 1, 2, TRUE, "send_arr")

ethernet_simple_lambda(link) ==
    Lambda(IF link = Client THEN "accept" ELSE "subscribe", link, 1, 2, TRUE,
           "send_arr")

simple_lambda_every_packet ==
    [Lambda("subscribe", Serial, 1, 2, FALSE, "send") EXCEPT !.kind = "unpacker"]

custom_lambda_arduinojson ==
    [Lambda("subscribe", Serial, 49, 50, FALSE, "send") EXCEPT !.kind = "json"]

wifi_custom_lambda_arduinojson(link) ==
    [Lambda("wifi", link, 49, 50, FALSE, "send") EXCEPT !.kind = "json"]

ethernet_custom_lambda_arduinojson(link) ==
    [Lambda(IF link = Client THEN "accept" ELSE "subscribe", link, 49, 50, FALSE,
            "send") EXCEPT !.kind = "json"]

\* Variables that are bound to a subscription and published.
Bind(recv, send, shape) ==
    [kind |-> "bind", begin |-> "subscribe", link |-> Serial, recv |-> recv,
     send |-> send, shape |-> shape]

simple_bind_to_variables == Bind(1, 2, <<"value", "value", "value">>)

arr_bind_to_variables == Bind(17, 18, <<"value">>)

map_bind_to_variables == Bind(33, 34, <<"value">>)

custom_bind_to_variables == Bind(49, 50, <<"value">>)

\* All of them answer from a callback, or publish variables that they bind.
Answerer ==
    [kind : {"tuple", "unpacker", "json"}, begin : {"wifi", "accept", "subscribe"},
     link : Streams, recv : Indices, send : Indices, tests : BOOLEAN,
     api : {"send", "send_arr", "send_map", "encode_arr"}]

Binder ==
    [kind : {"bind"}, begin : {"subscribe"}, link : {Serial},
     recv : Indices, send : Indices,
     shape : {<<"value">>, <<"value", "value", "value">>}]

ASSUME ProgramsAssumption ==
    /\ Programs \subseteq Answerer \cup Binder
    /\ \A p \in Programs : p.kind = "json" => p.api = "send"

-----------------------------------------------------------------------------
SketchInit ==
    /\ Init /\ Pub!Init
    /\ sketch \in Programs
    /\ phase = sketch.begin
    /\ seen = 0 /\ arrived = <<>> /\ answers = <<>>
    /\ nested = [k \in {"ka", "km"} |-> "initial"]

\* The peer's packets: of the index the sketch listens to and of another.
Arrive(i, p) ==
    /\ phase \notin {"wifi", "accept"}
    /\ Receive(sketch.link, i, p)
    /\ arrived' = Append(arrived, [stream |-> sketch.link, index |-> i, payload |-> p])
    /\ UNCHANGED <<pub_vars, sketch, phase, seen, nested, answers>>

(* setup(). *)

\* WiFi.status() becomes WL_CONNECTED; nothing bounds the wait.
WifiConnects ==
    /\ phase = "wifi"
    /\ phase' = IF sketch.link = Client THEN "accept" ELSE "subscribe"
    /\ UNCHANGED <<sub_vars, pub_vars, sketch, seen, arrived, nested, answers>>

\* while (!client) client = server.available(): a peer connects.
ClientConnects ==
    /\ phase = "accept"
    /\ phase' = "subscribe"
    /\ UNCHANGED <<sub_vars, pub_vars, sketch, seen, arrived, nested, answers>>

SetupSubscribe ==
    /\ phase = "subscribe"
    /\ CASE sketch.kind = "unpacker" ->
              SubscribeAlways(sketch.link, [kind |-> "unpacker", to |-> Callback])
         [] sketch.kind = "bind" ->
              Subscribe(sketch.link, sketch.recv, [kind |-> "bind", to |-> Var])
         [] OTHER ->
              Subscribe(sketch.link, sketch.recv,
                        [kind |-> sketch.kind, to |-> Callback])
    /\ phase' = IF sketch.kind = "bind" THEN "publish" ELSE "loop"
    /\ UNCHANGED <<pub_vars, sketch, seen, arrived, nested, answers>>

SetupPublish ==
    /\ phase = "publish"
    /\ UNCHANGED sub_vars
    /\ Pub!Publish([stream |-> sketch.link, index |-> sketch.send], sketch.shape)
    /\ phase' = "rate"
    /\ UNCHANGED <<sketch, seen, arrived, nested, answers>>

\* ->setFrameRate(10).
SetupRate ==
    /\ phase = "rate"
    /\ UNCHANGED sub_vars
    /\ Pub!SetInterval(0)
    /\ phase' = "loop"
    /\ UNCHANGED <<sketch, seen, arrived, nested, answers>>

(* loop(). *)

LoopBegins ==
    /\ phase = "loop"
    /\ phase' = "parse" /\ seen' = Len(arrived)
    /\ UNCHANGED <<sub_vars, pub_vars, sketch, arrived, nested, answers>>

Dispatches == Len(arrived) - Len(line[sketch.link])

\* parse() also takes what arrives meanwhile; feed() has been given a buffer.
LoopDispatches ==
    /\ phase = "parse"
    /\ \/ Parse(sketch.link) /\ (sketch.link = Manual => Dispatches < seen)
       \/ RunBind
       \/ Dispatched
    /\ UNCHANGED <<pub_vars, own_vars>>

\* A send out of a callback.
Answer(args) ==
    /\ Pub!OneShot(sketch.api, args)
    /\ answers' = Append(answers, [to |-> cur, data |-> packet'.payload])

NoAnswer == UNCHANGED <<pub_vars, answers>>

\* What the callback was called with. A map has a key for each value.
Echoed(x) == IF sketch.api = "send_map" THEN <<x, x>> ELSE <<x>>

Got == calls'[Len(calls')].value

CallLambda ==
    /\ phase = "parse"
    /\ RunTuple
    /\ IF sketch.tests => cur.payload \in Sized THEN Answer(Echoed(Got)) ELSE NoAnswer
    /\ UNCHANGED <<sketch, phase, seen, arrived, nested>>

\* Mutant of CallEvery: packets of every index are answered.
CallEveryIndex ==
    /\ phase = "parse"
    /\ RunAlways
    /\ Answer(Echoed(Got))
    /\ UNCHANGED <<sketch, phase, seen, arrived, nested>>

\* The callback for every index returns at once for one it does not listen to.
CallEvery ==
    /\ phase = "parse"
    /\ RunAlways
    /\ IF cur.index = sketch.recv THEN Answer(Echoed(Got)) ELSE NoAnswer
    /\ UNCHANGED <<sketch, phase, seen, arrived, nested>>

\* The struct with the keys that the document has replaced.
Merged(p) == [k \in DOMAIN nested |-> IF k \in Keys[p] THEN p ELSE nested[k]]

\* The callback copies the keys the document has into the global struct and sends
\* the struct.
CallJson ==
    /\ phase = "parse"
    /\ RunJson
    /\ IF cur.payload \in Fits[Callback]
       THEN /\ nested' = Merged(cur.payload)
            /\ Answer(<<nested'["ka"], nested'["km"]>>)
       ELSE NoAnswer /\ nested' = nested
    /\ UNCHANGED <<sketch, phase, seen, arrived>>

\* Mutant of Drained: parse() returns after any packet.
DrainedByOne == Idle

\* parse() has taken at least what had arrived when it was called.
Drained == Idle /\ Dispatches >= seen

\* Sketches that publish call update(), which goes on with post().
ParseEnds ==
    /\ phase = "parse" /\ Drained
    /\ UNCHANGED sub_vars
    /\ IF sketch.kind = "bind"
       THEN Pub!PostBegin /\ phase' = "post"
       ELSE UNCHANGED pub_vars /\ phase' = "loop"
    /\ UNCHANGED <<sketch, seen, arrived, nested, answers>>

PostGoesOn ==
    /\ phase = "post"
    /\ UNCHANGED sub_vars
    /\ \/ \E d \in toPost : Pub!PostDue(d)
       \/ Pub!PostStamp
       \/ Pub!PostEncode
       \/ Pub!PostSend
    /\ UNCHANGED own_vars

PostEnds ==
    /\ phase = "post"
    /\ UNCHANGED sub_vars
    /\ Pub!PostEnd
    /\ phase' = "loop"
    /\ UNCHANGED <<sketch, seen, arrived, nested, answers>>

Board ==
    \/ SetupSubscribe \/ SetupPublish \/ SetupRate
    \/ LoopBegins \/ LoopDispatches \/ CallLambda \/ CallEvery \/ CallJson
    \/ ParseEnds \/ PostGoesOn \/ PostEnds

SketchNext ==
    \/ \E i \in {sketch.recv, sketch.send}, p \in Payloads : Arrive(i, p)
    \/ WifiConnects \/ ClientConnects
    \/ Board

\* The board runs; nobody has to connect, and the peer need not send.
SketchSpec == SketchInit /\ [][SketchNext]_sketch_vars /\ WF_sketch_vars(Board)

-----------------------------------------------------------------------------
(* Properties. *)

Posting == pc = "encode" /\ part = Len(Pub!shape)

Latest(S) == CHOOSE m \in S : \A x \in S : x <= m

ValueOf(p, to) == IF p.payload \in Fits[to] THEN p.payload ELSE "unfit"

\* What the last of the first n packets gave the bound variables.
Newest(n) ==
    LET heard == {m \in 1 .. n : arrived[m].index = sketch.recv}
    IN IF heard = {} THEN "initial" ELSE ValueOf(arrived[Latest(heard)], Var)

\* loop() of the sketches that bind: "this updates variables with received data and
\* send updated data back to app". All parts of a packet that an update() posts are
\* what one and the same packet of the peer left in the variables, and none that had
\* arrived when the update() began is newer. What a packet leaves that does not fit
\* the variables is one token, so the property does not say what is in it.
PostsNewest ==
    Posting =>
      \E m \in seen .. Len(arrived) :
        \A k \in DOMAIN encoder : encoder[k] = <<"val", Newest(m)>>

\* Once the peer falls silent, the variables that a sketch binds are in the end
\* what it posts.
Shown == packet # Null /\ \A k \in DOMAIN packet.payload :
                            packet.payload[k] = <<"val", Newest(Len(arrived))>>

EndsUpShown == sketch.kind = "bind" => <>[]Shown

\* "send same data back to app": the sketches with a lambda are what Echo asks for,
\* over either network and on a serial line. An answer to a packet that announces
\* the right number of values but holds others is whatever was unpacked.
Answering == sketch.kind \in {"tuple", "unpacker"}

ReplyTo(p) ==
    LET x == Echoed(ValueOf(p, Callback))
    IN IF p.index = sketch.recv
          /\ (sketch.kind = "tuple" /\ sketch.tests => p.payload \in Sized)
       THEN << Pub!Header(sketch.api, Len(x)) \o Pub!Packed(x) >> ELSE <<>>

FromPeer == [stream : {sketch.link}, index : {sketch.recv, sketch.send},
             payload : Payloads]

Replies == [p \in {q \in FromPeer : Answering} |-> ReplyTo(p)]

\* Each packet leaves with its callback, or at once when nothing is called.
Inbox == IF Answering THEN (IF todo = {} THEN <<>> ELSE <<cur>>) \o line[sketch.link]
         ELSE <<>>

Data(a) == [k \in DOMAIN a |-> a[k].data]

Sent == IF Answering THEN Data(answers) ELSE <<>>

Echoing == INSTANCE Echo WITH reply <- Replies, inbox <- Inbox, answers <- Sent

Echoes == Echoing!Spec

\* "send same data back to app" of the ArduinoJson sketches: an answer has no part
\* that came with another document.
SendsSameDataBack ==
    sketch.kind = "json" =>
      \A n \in DOMAIN answers : \A k \in DOMAIN answers[n].data :
        answers[n].data[k] \in {<<"val", answers[n].to.payload>>, <<"val", "initial">>}

=============================================================================
