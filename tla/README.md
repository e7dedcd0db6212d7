# A TLA+ development of MsgPacketizer

MsgPacketizer sends msgpack values as packets over a byte line. The repository
holds the C++ library (`src/MsgPacketizer.h`, `src/MsgPacketizer/*.h`), Arduino
sketches that use it (`src/examples/arduino/`) and, under `src/examples/apps/`, ports
of the packet layer and of the subscriber to Rust, Go, Python and TypeScript with
programs that use them. This directory holds models of all of these, TLC runs of the
models, and TLAPS proofs.

`PROJECT.json` lists components, runs, mutants, the source lines behind every
definition, findings, hazards and theorems. This file explains them. Paths of the
ports are shortened: *rust*, *go*, *python*, *ts* stand for the directories
`src/examples/apps/{rust/msgpacketizer-rs, go/msgpacketizer-go,
python/msgpacketizer-py, nodejs/msgpacketizer-ts}`.

## 1. Inventory

### The system

| Component | State it keeps | Operations | Module |
|---|---|---|---|
| C++ publisher: `PackerManager`, publish elements, destinations, encode/send (`MsgPacketizer/Publisher.h`) | `addr_map` from destinations to elements, the stamp and interval of each element, one shared encoder | `publish*`, `unpublish`, `getPublishElementRef`, `setFrameRate`/`setInterval*`, `encode*`, `send*`, `post` | `Publisher` |
| C++ subscriber: subscriptions, `UnpackerManager` (`MsgPacketizer/Subscriber.h`) | one unpacker per stream and one for manual use; the callbacks are kept by Packetizer | `subscribe*`, `unsubscribe`, `getUnpackerRef`, `parse`, `feed` | `CppSubscriber` |
| C++ configuration (`MsgPacketizer.h`) | none | clock and stream types, capacities | constants of `Publisher` |
| Arduino sketches (15, `examples/arduino`) | bound variables, the global struct of the ArduinoJson sketches, where `setup()` and `loop()` are | `setup()`, `loop()`, callbacks; `update()` = `parse()` + `post()` | `Sketches`, `Echo` |
| Packet format | none | `encode`, `decode`, `decode_in_place` | `Packet` |
| Rust `packetizer` / `msgpacketizer` | a buffer of N bytes, callbacks | `feed`, `subscribe`, `unsubscribe` | `RustSubscriber` |
| Rust serial and Bevy programs | port, event queue | main loop; `read_serial` and `write_serial` systems | `RustApps` (not `write_serial`) |
| Go `packetizer-go` / `msgpacketizer-go` | buffer, messages, callbacks, the package's `CRC8_HASH` | `Feed`, `Subscribe`, `Unsubscribe`, `Encode`, `Decode` | `GoSubscriber` |
| Go serial and network programs | line, two goroutines | reader, `main` | `GoApp` |
| Python `packetizer` / `msgpacketizer` | buffer, callbacks of both layers | `feed`, `subscribe`, `unsubscribe` | `PySubscriber` |
| Python serial and network programs | line, `stop_event`, two threads | reader thread, `main` | `PyApp` |
| TypeScript `packetizer` / `msgpacketizer` | buffer, messages, callbacks | `feed`, `subscribe`, `unsubscribe` | `TsSubscriber` |
| TypeScript serial, TCP, UDP programs | port or socket, what has arrived, which handler runs | event handlers, the asynchronous writer | `TsApps` |
| Rust network program | a stub | | not modelled |
| Packetizer, MsgPack, ArduinoJson, arx; COBS, CRC and msgpack libraries | external | | as far as the code uses them |

### How they interact

* A sketch calls the C++ library from `setup()` and `loop()`; `update()` parses all
  inputs and then posts all publications. Nothing runs concurrently, but every
  publication and every one-shot call shares one encoder, all subscriptions of a
  stream share one unpacker, and published getters and callbacks are code of the
  sketch that runs in the middle of `post()` or `parse()` and may call the library
  again.
* Elements are `shared_ptr`s: the map holds one reference and the sketch may hold
  another, through which it changes the interval of what `post()` sends.
* The programs in the other languages read a line and call `feed()`, which calls
  the registered callbacks. In Rust and TypeScript one thread does everything; in
  Go a goroutine reads while `main` writes; in Python a thread reads while `main`
  writes and later stops it. In TypeScript event handlers and an asynchronous writer
  take turns on one thread.
* The packet format is what all languages agree on.

### What is hard

* *Time*: `post()` adds two `uint32_t`, compares with a clock that wraps, and reads
  the clock twice for each packet.
* *Uninitialised state*: a destination that is not UDP leaves `port` unassigned, and
  `operator<` compares it.
* *Protocol sequences*: looking up what was never published inserts a null
  reference; publishing twice keeps the first element and returns the second.
* *Sharing*: the encoder and the unpackers, which callbacks use from within `parse()`
  and getters from within `post()`; in Go the checksum object, which two goroutines
  use without a lock.
* *Ordering*: packets arrive between any two steps of `loop()`, also while `update()`
  parses and while it posts what it has parsed.
* *Delivery*: datagrams are lost, repeated and reordered.
* *Splitting*: a packet may arrive over several reads or several in one. The Rust
  subscriber does this in a buffer of fixed size, in place.
* *Partial failure*: a damaged packet, a payload that does not unpack, a callback
  that throws, each in the middle of `feed()`, with messages before and after it.
* *Shutdown*: a reader that blocks, has died or is still reading when `main` closes
  the line.

`PROJECT.json` lists these under `hazards`, at their lines.

### What makes each component correct

* Publisher: no element serves two destinations; what is registered is what was
  published and not unpublished; `post()` survives; an element is not sent before
  its interval is over and not late but for a wrap; a packet holds its element and
  nothing that another user left in the encoder.
* C++ subscriber: a callback or a bound variable gets the values of its own packet,
  whatever else uses the unpacker.
* Sketches: every packet is answered once, in order, from itself alone and in the end;
  an `update()` posts what one packet left in the variables, and nothing older than
  what had arrived when it began.
* Packet format: what was encoded is decoded; the delimiter ends a packet and occurs
  nowhere else; one wrong byte of the payload or of the checksum never passes.
* Subscribers: every message once, in order, to the callback its index has, however
  the bytes were split. This is one abstract specification, `FrameStream`.
* Programs: what the peer sends arrives, in order and in the end; a race or a fault
  loses messages at most; the program stops when it is told to.

## 2. Modules

```
Framing            bytes, delimiter, chunks, callbacks, dispatch
 |- FrameStream    abstract: what a subscriber promises
 |- RustSubscriber --- RustApps ------ MCRustApps
 |- GoSubscriber   --- GoApp --------- MCGoApp
 |- PySubscriber   --- PyApp --------- MCPyApp
 |- TsSubscriber   --- TsApps -------- MCTsApps
Publisher ------------------------------- MCPublisher
CppSubscriber
 |- Sketches (Pub == INSTANCE Publisher,
              Echoing == INSTANCE Echo) - MCSketches
Echo               abstract: what a sketch that answers promises
Packet, Crc8 ---------------------------- MCPacket

Publisher_proofs   Sketches_proofs (and CppSubscriber)   Packet_proofs
Framing_proofs - RustApps_proofs, GoApp_proofs, PyApp_proofs, TsApps_proofs
```

The four subscriber modules use `FrameStream` by `INSTANCE ... WITH`. Each program
module EXTENDS its subscriber and adds the line, the peer and the threads around it.
Each also has a *caller* mode, in which anybody feeds any input and subscribes and
unsubscribes between two calls of `feed()`. It is there because the programs
themselves are tame: they subscribe once and never feed an empty packet. The MC
modules give values to constants; `MCPublisher` also narrows the next-state relation,
and `MCSketches` adds a sketch that uses the subscriber freely (see Bounds).

### Publisher

| Code | Model |
|---|---|
| `PackerManager::addr_map` | `addrMap`, a function from destinations to elements or `Null` |
| `element::Base`, the elements | `elem`: shape (parts by reference, constant or getter), captured constant, `last`, `interval` |
| the `PublishElementRef` of the sketch | `ref` (one at a time) |
| `PackerManager::encoder` | `encoder`, a sequence of msgpack objects |
| `micros()` | `now % clockMod`, one of `ClockMods`: 2^32 on Arduino, wider on a host; stamps are stored `% StampMod` |
| `getDestination` | the set of destinations it may build: the unassigned `port` may read as any member of `GarbagePorts` |

`Publish`, `PublishOddMap`, `Unpublish`, `GetPublishElementRef` (and its UDP free
function, which resolves to the overload for plain streams), `SetInterval` and
`OneShot` are the calls of the sketch and happen only between two runs of `post()`.
`post()` itself is a sequence of steps (`PostBegin`, `PostSkip` / `PostNull` /
`PostDue`, `PostStamp`, `PostEncode`, `GetterEncode`, `PostSend`, `PostEnd`), because
time passes within it and a getter may run the library within it. `Tick` is the
clock. An element that neither the map nor the sketch holds is destroyed (`Keep`).
`published`, `strayed` and `ghost` are history: what is published, whether the sketch
has looked up what was not, and the real time of each element's packets.

The order of the map is not modelled: `post()` visits the entries in any order. The
binary overloads `encode(index, data, size)` and `send(...)` behave as `OneShot` with one
argument.

### CppSubscriber

`subs` and `always` are what the library registers with Packetizer, `decoders` is
`UnpackerManager`'s map with `Manual` for its extra unpacker, `content` what each
unpacker was fed since it was cleared. `line` is what has arrived on each stream and
is not dispatched: in the transport, or with `parse(false)` in Packetizer's queue,
which is the same to everything here. `Parse` takes a packet and looks its callbacks
up, and `RunBind`, `RunTuple`, `RunJson`, `RunAlways`, `RunAlwaysJson` are the
closures the library registers; `Dispatched` is the return. Which of the two callbacks
of a packet runs first is left open. `HandleManually` is the sketch feeding the
unpacker it got from `getUnpackerRef()`, `EraseUnpacker` its removal of an entry of
`getUnpackerMap()`. An unpacker that nothing refers to is destroyed (`Keep`).

### Sketches, Echo

The sketches are records of what they wait for, subscribe, and answer or publish: 15
sketches are 19 programs, as the WiFi and Ethernet sketches run over TCP or UDP.
`Sketches` extends `CppSubscriber`, which is their receiving half, and instantiates
`Publisher` as the other: the published variable *is* the bound one
(`var <- bound[Var]`), and a callback sends through the encoder that `post()` uses.
Time stands still, and an element with an interval of 0 is always due; what time does
to `post()` is the business of `Publisher`.

`phase` is where the program is: `setup()` waits for the WiFi and for a client, then
subscribes, publishes and sets the rate; `loop()` is `LoopBegins`, the dispatches of
`parse()`, `ParseEnds`, and for the sketches that publish the steps of `post()`.
`CallLambda`, `CallEvery` and `CallJson` are a step of the subscriber together with
the answer that the callback sends. `Arrive` may happen between any two of them.
A line that loses, repeats or reorders packets has some other sequence of packets
arrive, and the model has all of them.

`Echo` says what a sketch with a lambda promises: each packet that arrived is
answered, in order, once, from that packet alone, and in the end. `Echoes` is that
such a sketch implements it, liveness included.

### Framing, FrameStream

`Framing` knows which byte strings decode (`Frames`) and to what (`decoded`); both
are parameters, so that nothing here depends on COBS or CRC. `FrameStream` has
`Arrive`, `Frame`, `Deliver`, `SetCallback` and `RemoveCallback`: bytes arrive, the
first chunk is cut off and becomes a message or is dropped, the oldest message goes
to the callback its index has at that time.

### RustSubscriber, RustApps

`data` is `self.buffer[..self.len]`, `pos` is `pos_begin`. `Feed` / `FeedRefused`,
then `ScanEnd`, `Decode` or `DecodePanics`, `RunCallback`, and `Compact` or
`CompactPanics` are the body of `feed()`. The buffer between `pos` and the end is
`buf` of `FrameStream`. `refused` is history: whether `feed()` has ever refused its
input, which the programs do not notice.

`RustApps` has the loop of the serial program (`Read` or `NothingToRead`,
`FeedReturns`, `Write`, and the two `unwrap`s), and for Bevy the plugin, which turns
bytes into events (`Received`), and `ReadSerial`.

### GoSubscriber, GoApp

`Decode()` is four steps, `Reset`, `Load`, `Store`, `Check`: `Update()` reads the
hash, computes, and writes it back. `GoApp` runs them against the same steps of
`Encode()` in the main goroutine. `alone` is history: who has used the hash
undisturbed since his `Reset()`.

`program` tells the serial program from the network program. `ReadError` is an error
of `Read()`: the network program calls `log.Fatal` and ends, the serial program logs it
and goes round. `LineFails` is a line that is gone for good, from which `Read()`
returns nothing but errors (`lost`). A write error ends either process. Over UDP, the
network program's default, `PeerSends` is a packet that gets there: one that is lost is
never sent in the model, one that is repeated is sent twice, and since a datagram of the
peer is a whole packet, the rest is as on a byte stream. The same holds of `PyApp`.

### PySubscriber, PyApp

`feed()` keeps its messages in a local variable, so an exception loses them
(`DecodeRaises`, `UnpackRaises`); the buffer stays. The packetizer and the
msgpacketizer layer have their own callbacks (`wrapped`, `callbacks`). `PyApp` has the
reader thread (`TestStop`, `Read`, `NothingWaits`, `FeedRuns`, `FeedEnds`,
`ReadRaises`) and the main thread (`Interrupt`, `SetStop`, `Join`, `Close`). `program`
tells the serial program, which polls and joins, from the network program, whose
daemon thread blocks in `recvfrom()` and is not joined.

### TsSubscriber, TsApps

`msgs` is a member and is cleared behind the loop over the callbacks, so an error in
the loop (`CallbackThrows`) leaves it for the next call.

`TsApps` is the event loop around it. `turn` says what runs: the module being loaded,
a handler (`data`), the writer up to its sleep (`write`), or the loop itself, which
may take any event that is ready: `Opens`, `Closes` (error, end), `Data_`,
`TimerFires`. Serial and TCP hand over bytes, cut anywhere; UDP hands over datagrams,
in any order, lost or more than once. An error that leaves `feed()` leaves the handler
and ends the process. The writer of the UDP program catches the error that `send()`
raises on a closed socket around its sleep, so that it goes round without a pause:
`WriteThrows`, which stays where it is. The writers of the other two test `isOpen` or
`writable` (`Writable`) and send (`WriteSends`) or log a warning (`WriteSkips`).

### Packet

`encode`, `decode`, `decode_in_place`, `crc8_smbus` and COBS byte by byte, and a line
that hands over up to `MaxDamage` wrong bytes. COBS is stated by positions: a code
stands first and in the place of each zero (`IsCode`) and says how far the next is, and
decoding follows the codes (`reached`). The step of the checksum, `CrcByte`, is a
constant, of which `PacketAssumption` asks only that it is onto in each argument;
`Crc8` has the step for the polynomial of the source, and TLC checks the assumption
for it.

## 3. Runs

| Run | Shows |
|---|---|
| `publisher` | Any sequence of calls with `post()` in between, any time passing within it, clocks of 32 bits and of 64, getters that use the encoder: `TypeOK`, `UniqueOwner`, `RegistryExact` (the map is exactly what was published and not unpublished, unless an unpublished target was looked up), `NoNullDereference` (only a stray lookup makes `post()` crash), `RateLimit` (never early, unless the deadline overflowed or a wide clock has outrun it), `LateOnlyAcrossAWrap` (never late, unless the clock wrapped since the last packet), `EncodedElement` (a packet is its element). |
| `sketches` | All programs, any packets at any time, and a free sketch on one stream that subscribes and unsubscribes between packets, uses the unpacker it holds and erases others: `TypeOK` and `OwnValues` (a callback gets the values of its own packet), `Echoes` (the lambda sketches implement `Echo`), `PostsNewest` (all that an `update()` posts is what one packet left, and none that had arrived when it began is newer), `EndsUpShown` (once the peer falls silent, what the variables hold is posted in the end). Deadlock is checked. |
| `rust_programs` | The serial program, the Bevy program and any caller: `TypeOK`, `RefinesFrameStream`, `DrainedAtReturn`, `WedgedForGood`, `DeliversWhatWasSent`, `OneLengthNeverPanics`, and `AllDelivered` under fairness. |
| `go_programs` | The Go programs and any caller, read errors once or for good: `SubscriberInv`, `RefinesUnlessDisturbed`, `RaceOnlyDrops`, `UndisturbedChecksum`, and under fairness `EverythingRead`: what has been read is framed and every call of `Feed()` returns, unless the process has exited, and what was sent is read, unless a serial line is lost. |
| `py_programs` | The Python programs on a clean and on a noisy line, and any caller: `SubscriberInv`, `RefinesUntilRaised`, `NoReadAfterClose`, and `Stops` and `DeliversUntilStopped` under fairness. |
| `ts_programs` | The TypeScript programs and any caller, callbacks that throw: `AppInv`, `RefinesUntilThrown`, `PoisonHoldsBack`, `OnlyWhatWasSent` (in order and without a gap from a byte stream, and no datagram disturbs another), and `DeliversWhileOpen` under fairness, over a byte stream as over UDP. |
| `packet_format` | `RoundTrip`, `DelimiterEndsPacket`, `OneWrongByteIsCaught` (one wrong byte passes only with the payload that was sent, unless it hits a COBS code or makes a delimiter). |
| `pub_unpublish` | Violation of `UnpublishedIsSilent`, see Findings. |
| `pub_udp_lookup` | Violation of `LookupIsSafe`, see Findings. |
| `rust_remainder` | Violation of `RemainderKept`, see Findings. |
| `go_race` | Violation of `GoodPacketAccepted`, see Findings. |
| `json_answers` | Violation of `SendsSameDataBack`, see Findings. |

`SubscriberInv` and `AppInv` are the types together with what `feed()` leaves behind
when it returns: no complete packet, no message that was not dispatched.

`CHECK_DEADLOCK FALSE` stands where the system may stop: the bounded runs end when
the peer has sent all it may send, a clock stands at its bound, a panicked or crashed
program does nothing.

### Bounds

* *Publisher*. The three concerns of the module, what is registered, when it is sent
  and what is sent, meet in `post()`, but their product is too large. Each behaviour
  of `MCPublisher` has a `focus` and lets the sketch do what matters to it; the
  operations are the same.
  *Registry*: a TCP client and a UDP socket, three elements, so that one is free for
  `publish` and one can be held by the sketch only; a violation of `UniqueOwner` or
  `RegistryExact` needs two targets or two elements. The unassigned port reads the
  same each time here, and differently in `pub_unpublish`.
  *Clock*: one serial publication at a time, intervals of 2, 3 and 5, stamps of 6
  ticks, a clock of 6 ticks and one that never wraps, 14 ticks of time: every element
  meets stamps and deadlines on both sides of two wraps, with intervals that overflow
  (5) and that need not (2). `MaxLoop` = 1: `loop()` comes to `post()` after a tick at
  most, and a tick may fall within `post()`.
  *Encoder*: no time; two values tell which packet a token is from, and two arguments
  make odd and even maps.
  `ElementSymmetry` exchanges elements, which are told apart by identity only; no
  property of the run is a liveness property.
* *CppSubscriber*. The free sketch of `MCSketches`: two packets (`MaxFreePackets`) on one
  stream and the manual input, two payloads, one that fits the types and one that does
  not, one packet by hand (`MaxFed`), and at least two unpackers more than are in use: a
  wrong value needs one earlier use of the unpacker. The manual input has no callback for
  every index here. The proofs have none of these bounds.
* *Sketches*. Three packets, of the index the program listens to or the one it sends
  on. Three payloads: one fits, one announces another number of values and has one of
  the two keys, one does not fit. A stale or a mixed answer needs two packets, and the
  third lets one arrive while the loop is busy with the second. Indices as in the
  sketches (0x11 is 17, 0x21 is 33, 0x31 is 49).
* *Subscribers*. Three bytes: the delimiter and two others. Of the strings over the
  other two, two or three decode and the rest stand for damage. A caller feeds any
  string of up to three bytes, three times (Rust, TypeScript) or twice (Go, Python):
  packets come split, joined, empty, damaged and behind stray delimiters.
* *Rust programs*. Packets of one and three bytes, three of them, a buffer of 8 and
  reads of up to 8: in the code both are 1024 (`serialport.rs`:79 and 120), so that a read
  behind an incomplete packet may be refused. The program then goes on without it, and
  `DeliversWhatWasSent`, `OneLengthNeverPanics` and `AllDelivered` speak of the
  behaviours in which this has not happened. The reads split the line at every place.
  The Bevy run takes the second byte for one that is not UTF-8.
* *Go programs*. Two packets from the peer and two written by `main`: each check of
  the reader meets each step of an `Encode()`. The checksum has three values; `Zero`
  and those of the two payloads differ, and a packet with a wrong checksum exists.
* *Python programs*. Three packets, one of whose payloads is not msgpack; a noisy
  line may open with the end of a packet that is no COBS.
* *TypeScript programs*. Three packets of two kinds, of which one may throw, so that
  one may stand before and one behind it; datagrams come again while calls of `feed()`
  are left of `MaxFeeds`. A datagram is a whole packet.
* *Packet*. Payloads of up to three bytes out of 0, 1, 147 and 255, and `<<3, 0, 0, 1, 2>>`,
  indices 0 and 1, every wrong byte at every place: zeros at each place, checksums that
  are zero, codes that the line moves. The longer payload is one in which a wrong code
  passes the check (see Findings); among the shorter ones there is none.

### Fairness

Safety properties assume none.

* `sketches`: the board goes on (`WF(Board)`). Nothing makes the WiFi or a client
  connect, or the peer send: `setup()` may wait for ever, and `Echo` then has nothing
  to answer.
* `rust_programs`: the main loop or schedule goes round while nothing panics
  (`WF(Running)`), and the plugin hands over what has arrived (`WF(Received)`); both
  are `loop`s without a blocking step but `sleep`.
* `go_programs`: the Go scheduler runs both goroutines, and `main` comes to start the
  reader.
* `py_programs`: both threads run on, except that `NothingWaits` belongs to the serial
  reader only.
* `ts_programs`: a handler and the writer run to their end (`WF(Process)`). What has
  arrived is taken in the end however often the timer fires (`SF(Data_)`): the step is
  disabled while the writer runs, and Node polls for input between two timers.

Nothing forces an error, an interrupt, a line to open or the peer to send.

## 4. Findings

| Run | The code | What the repository says |
|---|---|---|
| `pub_unpublish` | `getDestination(stream, index)` (`Publisher.h:399`) does not assign `port`, which `operator<` compares. `unpublish()` may build another key than `publish()` did; the entry stays and `post()` goes on sending it. | `README.md:421`: "// unpublish" |
| `pub_udp_lookup` | `getPublishElementRef(UDP, index)` (`Publisher.h:628`) takes no address and resolves to the overload for plain streams (`Publisher.h:315`). It never finds what was published over UDP, inserts a null reference and returns it; the next `post()` dereferences it. | `README.md:424`: "// get registerd publish element class"; `README.md:436` lists the function |
| `rust_remainder` | `consumed[..rest.len()]` (`subscribe.rs:67`) panics when more is left than was consumed: a short packet followed by the larger part of a long one. The line is clean. | `subscribe.rs:64`: "Remove consumed data and copy the remaining data to the beginning of the buffer" |
| `json_answers` | The callbacks of the ArduinoJson sketches copy only the keys a document has (`custom_lambda_arduinojson.ino:41` and `:47`, serial) into one global struct and send the struct (`:58`). The answer to a document without a key carries what an earlier document had under it. | `custom_lambda_arduinojson.ino:53`: "// send same data back to app" (as do WiFi `:109` and Ethernet `:101`) |
| `go_race` | `Decode()` and `Encode()` use the package's `CRC8_HASH` from two goroutines. A good packet fails the check. | `README.md:32`: "1 byte crc8 (for received data check)"; `cmd/serial/main.go:80` wonders "sometimes packet drop occurs..?" |

Behaviour that the models show and that no text of the repository contradicts, and
which is therefore no finding:

* Looking up a target that was not published inserts a null reference, and the next
  `post()` dereferences it (`NoNullDereference` names the cause).
* When `last + interval` overflows 32 bits, or the clock wraps between two packets, an
  element may come early once or be held back for up to a turn of the clock (71
  minutes). `RateLimit` and `LateOnlyAcrossAWrap` name exactly these cases.
* On a host the clock has 64 bits and is compared with a 32-bit deadline. After 71
  minutes every element is always due (`Outrun` in `RateLimit`).
* `publish()` over an existing entry returns an element that is not in the map.
* `encode_map` packs an array header with half the count of its arguments.
* `encode(index)` and `send(stream, index)` send what the encoder holds.
* `loop()` of the TCP sketches never accepts another client.
* A read that the Rust buffer refuses is lost without notice: the incomplete packet in
  the buffer then meets bytes from behind the gap, and what they make together may
  decode to a message that was never sent.
* A delimiter at the front wedges the Rust buffer for good (`WedgedForGood`), a
  damaged packet panics, and so do both `unwrap`s of the serial program and, in Bevy,
  an event that is not UTF-8: a packet is not text.
* A wrong COBS code may pass with another payload of the same length, since moving a
  zero changes several bytes at once: with index 1 and payload `<<3, 0, 0, 1, 2>>`, the
  first code read as 2 gives `<<0, 1, 4, 0, 0>>` with the right checksum.
  `OneWrongByteIsCaught` leaves wrong codes out by name. The index is outside the
  checksum, so that a packet may also go to the callback of another index.
* In Python an exception in `feed()` ends the reader thread, and `main` goes on.
* In TypeScript a message whose callback throws is dispatched again by each later
  `feed()`, and those behind it are not. In the programs the error ends the process.
* Once an error has closed the socket of the UDP program, its writer goes round without
  a pause and nothing else runs (`WriteThrows`). `DeliversWhileOpen` asks for delivery
  only while the socket is open.
* Once its line is lost, the Go serial program neither exits nor reads: it logs errors
  for ever (`LineFails`, `ReadError`). `EverythingRead` leaves this case out by name, and
  only for what was still on the line.

## 5. Proofs

TLAPS proves the following for all values of the constants that satisfy the named
assumptions of the modules (`PublisherAssumption`, `CppSubscriberAssumption`,
`FramingAssumption`, `RustAssumption`, `GoAssumption`, `SketchAssumption`,
`ProgramsAssumption`, `PacketAssumption`, ...). The theorems about `CppSubscriber` are
the first part of `Sketches_proofs`, whose module extends it.

| Theorem | States | Argument |
|---|---|---|
| `TypeCorrect` (Publisher) | `Spec => []TypeOK` | Inductive as it stands. Its heap part says that exactly the held elements exist; with `todo \subseteq DOMAIN addrMap` it gives that `post()` never stamps or encodes a dead element. |
| `UniqueOwnership` | `Spec => []UniqueOwner` | Inductive relative to `TypeOK`. Only `Publish` adds a reference, and `Fresh` is disjoint from what the map holds. It does not need the ports to agree. |
| `RateLimited` | `Spec => RateLimit` | For clocks of any width. Invariant `StampInv`: until a wider clock has outrun it, the stamp of each live element is the wrapped time of its last packet, and the element about to be stamped is not early. It is needed because the due test and the stamp are two readings of the clock. `WrappedDifference` is the arithmetic: `(a % W) - (b % W) <= a - b` for `b <= a`. |
| `RegistryIsExact` | `OneGarbage => (Spec => []RegistryExact)` | Invariant `RegInv`, which holds until an unpublished target is looked up: null references are only under keys of the free UDP lookup, every other key is that of a published target, and every published target has its key. `OneGarbage` says that the unassigned port always reads the same; without it `pub_unpublish` is a counterexample. |
| `SurvivesPost` | `OneGarbage => (Spec => []NoNullDereference)` | From the same invariant. |
| `EncoderIsShared` | `Spec => []EncodedElement` | Invariant `EncInv`: there is a last disturbance `j`, 0 or a getter, and from part `j` on what is packed lies in place in the encoder (`PackedFrom(j)`). A getter that uses the encoder moves `j` to itself; every other part keeps it. |
| `LateAcrossAWrap` | `Spec => []LateOnlyAcrossAWrap` | Invariant `LateInv`, the other half of `StampInv`: in the cycle of its stamp the time of an element is what the stamp and the deadline say (`Division`, `OneCycle`), so an element that is due and was not visited in this round has waited at most a round and a tick for each `post()`. It needs the history of the round: which entries are still to be visited (`InRound`), when the round began (`Began`), and that the loop comes to `post()` within `MaxLoop` (`Punctual`). |
| `TypeCorrect` (C++ subscriber) | `Spec => []TypeOK` | Inductive. |
| `CallsGetOwnValues` | `Spec => []OwnValues` | Invariant `IInv`: besides the types, that what the history of calls holds are calls, and the line packets. Each closure clears and fills the unpacker in the step in which it reads it, so that nothing need be known of its content before. |
| `SketchComposesHalves` | `SketchSpec => Spec /\ Pub!Spec` | Every step of a sketch is one of `CppSubscriber` or leaves it alone (`SubscriberHalf`), and one of `Publisher` or leaves that alone (`PublisherHalf`), with the bound variable as the published one. What is proved of the halves so holds in the sketches, and the next three theorems use it. |
| `SketchPostsNewest` | `SketchSpec => []PostsNewest` | Invariant `SetupInv` (what `setup()` has wired, and where `loop()` is), `Lines` (the line is the end of what has arrived), `BoundNewest` (the variable holds what the newest dispatched packet of its index left in it, one token where that did not fit) and `PostInv` (what `post()` has packed so far is that). |
| `SketchAnswersAreMerged` | `SketchSpec => []AnswersAreMerged` | How far the finding `json_answers` goes: an answer is merged from documents, each part of it from the newest one that had its key, and never from one that came later or is no document. Invariant `JsonInv`: each part of the struct is of the newest document that had its key; `NewestPartStays` and `PartOfIsNewest` say what one more document does. |
| `SketchAnswersLikeEcho` | `SketchSpec => Echoing!Init /\ [][Echoing!Next]_(Echoing!echo_vars)` | Step simulation: `Arrive` is `Arrive` of `Echo`, taking a packet out of the line is a stutter (the inbox is the packet in hand and the line), and the callback's answer is `Reply`, by `CallsGetOwnValues` and what a one-shot call sends (`OneShotSends`). This is `Echoes` but for its fairness. |
| `RustTypeCorrect` | `AppsSpec => []TypeOK` (Rust) | Inductive: the buffer never exceeds N and `pos` never leaves it. Every step of a program is one of the subscriber or leaves it alone. |
| `RustDrained` | `AppsSpec => []DrainedAtReturn` | Invariant `DrainInv`: when the scan is over, either no delimiter lies behind `pos` or one lies right at it; after compaction that is the front of the buffer. |
| `RustWedged` | `AppsSpec => WedgedForGood` | A wedged buffer has its first delimiter at 1, so the scan ends at once and the compaction with `pos` = 0 changes nothing; appending keeps the front. |
| `RustImplementsFrameStream` | `AppsSpec => RefinesFrameStream` | Step simulation: `Feed` is `Arrive`, `Decode` is `Frame`, `RunCallback` is `Deliver`, the rest stutters; `Framing_proofs` has the lemmas on first delimiters and suffixes. |
| `RustDeliversWhatWasSent` | `AppsSpec => []DeliversWhatWasSent` | Until a read is refused, what is in the buffer, in the program's hands and on the line is the end of what was sent, cut at a frame (`CallsAfter` and its lemmas in `Framing_proofs` say what each frame adds to the calls). |
| `RustOneLength` | `AppsSpec => []OneLengthNeverPanics` | While all frames have one length, what remains in the buffer is the beginning of a frame and so shorter than what was consumed. |
| `GoNothingLeftBehind` | `AppSpec => []SubscriberInv` | Every step of a program is a step of the subscriber on some string of bytes, or touches nothing of it but the hash (`AppStep`); the invariant does not depend on what the hash is. |
| `GoUndisturbed` | `AppSpec => []UndisturbedChecksum` | Invariant `AloneInv`: a goroutine that is alone has the initial value in the hash after `Reset()`, then in its copy after the load, then the checksum of its data in the hash after the store. Any store of the other ends being alone, unless it writes what was there. |
| `GoRaceOnlyDrops` | `AppSpec => []RaceOnlyDrops` | What is on the line, in the reader's hands and in the buffer is the end of what was sent, cut at a frame; `Check` passes on the first message of it or drops it, and a subsequence of what precedes it stays one. |
| `GoImplementsFrameStream` | `AppSpec => RefinesUnlessDisturbed` | The buffer of `FrameStream` is the chunk being decoded, the delimiter and the rest: taking the chunk out is a stutter (`CutIsJoined`), and `Check` is `Frame` (`JoinedIsCut`), since by `AloneInv` the checksum is right. |
| `PyNothingLeftBehind`, `PyImplementsFrameStream` | `AppSpec => []SubscriberInv`, `AppSpec => RefinesUntilRaised` | Every step of a program is a step of the subscriber or leaves it alone (`AppStep`); the subscriber's invariant then carries over, and each of its steps that does not raise is one of `FrameStream`. |
| `PyClosesAfterReader` | `AppSpec => []NoReadAfterClose` | The main thread is past `join()` only when the reader has ended, and a reader that has ended stays so. |
| `TsNothingLeftBehind`, `TsImplementsFrameStream` | `AppSpec => []AppInv`, `AppSpec => RefinesUntilThrown` | As for Python; the line is a string of bytes or of datagrams. `AppPart` ties the event loop to where `feed()` stands: no handler and no writer runs within it, and the process has ended exactly when an error has left it. |
| `TsDeliversOnlySent` | `AppSpec => []OnlyWhatWasSent` | As for Rust over a byte stream; over UDP each datagram is a whole number of frames, and every chunk cut off is one that was sent. |
| `TsPoison` | `AppSpec => PoisonHoldsBack` | While the callbacks run, none of those before `called` throws (`CallsInv`), so the loop never gets past the first that does. |
| `PacketDelimiter` | `Spec => []DelimiterEndsPacket` | A code is between 1 and the length of what is stuffed, plus one, and every other byte is not zero (`EncodeProperties`). Payloads have at most 250 bytes, so that a code fits a byte. |
| `PacketRoundTrip` | `Spec => []RoundTrip` | The codes lead from one to the next and pass by every other byte (`ReachedAreCodes`), so decoding finds exactly the zeros that were stuffed (`DecodeBetweenCodes`). |
| `PacketOneWrongByte` | `Spec => []OneWrongByteIsCaught` | Invariant `PacketInv`: after one damage the line differs from the packet at one place. Where the frame is spared that is one byte of the index, the data or the checksum (`DecodeOfSpared`). An onto step on a finite set is one-to-one (by cardinality), so that one other byte of data makes another checksum, and it stays another to the end (`OneWrongByteChangesCrc`). |

The proofs by induction (what a function of all that was sent is, which packet is the
newest, what a checksum is and which bytes COBS reaches) take a least counterexample:
`WFMin`, for sets of numbers.

Model-checked only:

* all liveness, as the prover handles neither fairness nor `ENABLED`: `Echoes` (its
  safety part is proved), `EndsUpShown`, `AllDelivered`, `EverythingRead`, `Stops`,
  `DeliversUntilStopped`, `DeliversWhileOpen`;
* that CRC-8 satisfies `PacketAssumption`: `Crc8` uses `Bitwise`, which no proof may,
  and TLC evaluates the assumption in `packet_format`, for all 65536 cases.

## 6. Not modelled

* The insides of Packetizer, MsgPack, ArduinoJson, arx and the COBS, CRC and msgpack
  libraries, which are not in the repository. On targets without a standard library
  arx's map holds two destinations (`MsgPacketizer.h:36`); what it does with a third
  is arx's. COBS runs of 254 bytes or more are left out of `Packet`.
* `subscribe_map` with an odd number of arguments, which only warns.
* The Rust network program, a stub, and the Bevy `write_serial`, which shares no state
  with `read_serial`.
* What the programs of the other languages write: nothing they read depends on it. The
  exception is Go, where the two share the checksum, and there it is modelled.
* What the Go program does on a line that damages packets while its goroutines race:
  then a disturbed checksum could also accept a damaged packet. `RaceOnlyDrops` is for
  an undamaged line.
* Values of the sketches by type and range: a payload fits the types or it does not.
* Calls of `feed()`, `subscribe` or `unsubscribe` from within a callback of the ports; in
  TypeScript the language would allow them, the programs make none.
* UDP datagrams that are not whole packets. The peers send one packet in each.
* Unit tests, type stubs, build files.

## 7. Plan

Done, in this order: Publisher with its proofs; Framing, FrameStream, RustSubscriber
with its proofs; the Rust, Go and Python programs; TypeScript subscriber; C++
subscriber; packet format; the sketches, which compose publisher and subscriber; the
TypeScript programs; clocks of two widths and lookups over UDP in the publisher;
proofs about the registry, the encoder, the C++ subscriber, and the Go, Python and
TypeScript programs; proofs about what the programs deliver, about lateness, about
the sketches, and about the packet format.

Left, extending the model:

1. Two nodes over a line: `Publisher` at one end and `FrameStream` at the other, the
   variable the subscriber binds following the published one, with time.
2. The Go programs on a damaging line.
