# A verification development of docker-mediasoup

The repository runs a [mediasoup](https://mediasoup.org/) SFU in containers, with
everything that talks to it: a signalling server, a browser demo, an RTMP media
server and a GStreamer broadcaster. This directory holds TLA+ modules of the
parts whose behaviour depends on the order of events, the TLC runs that check
them on small instances, and theorems about them that TLAPS checks for every
instance. `PROJECT.json` lists components, runs, mutants, the source lines of
every definition, hazards, findings and theorems.

## 1. The system

| Component | Sources | State it keeps | Operations | Modelled in |
|---|---|---|---|---|
| Signalling server | `mediasoup/mediasoup/src` (Node 20) | one `Mediasoup` session with Maps of transports, (data) producers and (data) consumers; a Map of transports per `MediasoupClient`; the sessions of `createSession` | request handlers, `onClose`, close observers, worker death | `SessionServer`, `MediaObjects` |
| Request queue of the browser | `demo/src/libs/{async-queue,mediasoup-websocket,websocket-client}.ts` | task queue, `requestMap`, 15 s timers, websocket | `sendMessage`, `onMessage`, timeout | `RequestQueue`, `RequestReply` |
| Browser objects | `demo/src/libs/mediasoup-{demo,producer,consumer,dataproducer,dataconsumer}.ts` | four slots, `rtpCapabilities`, the chosen producer ids and stream; transports in page and server | `requestCreate*`, `destroy*` and what follows their awaits | `DemoClient` |
| Set-up of producers in the media server | `media-server/.../mediasoup`, `utils/WebsocketClient`, `MediaServer` | `mCreatingProducers`, `mProducerMap`, `MediaProducer.state`, senders | `createMediaProducer`, connection events, answers | `ProducerSetup` |
| GStreamer broadcaster | `gst-demo/broadcaster/src` | `state`, the `Producer` settings, subprocess and `runningFlag`, reconnect timer | websocket events, answers, `exec`, `kill`, close of the subprocess | `Broadcaster` |
| RTMP ingest | `media-server/.../rtmp`, `utils/{BaseThread,SafeMap}` | maps of connecting and streaming clients, a thread per connection | accept, `onStreamKey`, `onClosed` | `RtmpServer`, `StreamKeys` |
| Media from RTMP to RTP | `RTMPClient.cc` (the packets), `media-server/.../rtp`, `utils/AAC2OpusConv`, `codec` | the video packet at hand, RTP timestamp, decoder, encoder and the buffer between them | split into NAL units, fragment, decode, encode, send | `MediaPath` |
| Pages, settings, start-up, logging, debug dump | `*.vue`, `Settings`, `main`, `mediasoup-log` … | none that matters | – | not modelled |

How they interact: the browser, the media server and the broadcaster are
websocket clients of the signalling server. The browser sends requests with a
fresh uuid one at a time; the media server sends requests with a fixed uuid per
type; the broadcaster sends requests without any. The signalling server handles
the messages of all its clients concurrently in one thread, and awaits a
mediasoup worker process over a channel that is served in order. In the media
server the main loop answers the websocket while one thread per RTMP connection
sends media to what the main loop has set up.

What is hard here, and what the properties are for:

* **State read before an `await` and used after it.** The handlers of the server
  and the `requestCreate*`/`destroy*` functions of the browser do this all over.
  The websocket, the transport or the session may be gone when they go on, and
  another call may have taken the slot.
* **Closes in the worker cascade**, and Node hears of part of them by a notice
  that races the answers to other requests.
* **Answers that do not say what they answer** (media server, broadcaster): the
  client's own state must always determine it.
* **Timeouts with late answers**, a queue behind them, connections that are
  never there or close for good.
* **Reconnects and late close events** of what the last connection started.
* **Two maps, each locked per call**, between which the threads of the RTMP
  connections interleave, and descriptors that are used again while an entry
  under the old one is still there.

`PROJECT.json` lists each of these hazards at its line, with the properties
that would catch it or the reason why none does.

## 2. The modules

Actions are named after the functions they model; the comments of each module
say what stands for what. In all of them a function runs in one step up to its
`await` (JavaScript is single-threaded, the GLib main loop is too), and what
comes after the `await` is a step of its own.

**`SessionServer`.** Objects are named after the request that creates them (the
library draws a uuid for each). A request is `unsent`, then received
(`createWebRtcTransport`, `createProducer`, …: the checks of the handler, up to
its `await`), then answered (`TransportCreated`, `ProducerCreated`, …,
`RequestFailed`: the rest of the handler). `open` is what exists in the worker,
`listed` what is in the session's Maps, `mine` each client's Map. Since the
channel is served in order, whether the worker grants a request is decided by the
closes sent before it (`waiting` or `refused`); the answer comes at any later
time. `CloseTransports` and `CloseSession` are the synchronous cascades with
their observers; a consumer whose producer is gone is removed by a later
`SourceClosed`. `WorkerDied`, a failing start and the rejections nobody handles
are included; the latter end the process, as in Node 20. They are those of `pause`
and `resume`, and that of `onMessage` itself (`NullMessage`): it reads the id of a
message outside its `try` blocks, which throws when the message is the JSON text
`null`, and `websocket-client.ts:63` catches only what is thrown synchronously.

**`MediaObjects`** is what the session promises of the objects in the worker: a
transport needs nothing, a source a transport, a sink a transport and a source;
an object lives from its creation if all that it needs lives at that time, or
never; it ends when a transport it needs, directly or through its source, is
closed, and for no other reason; and nothing lives twice. It knows nothing of
sessions, clients, Maps and requests. The refinement maps `made` to the requests
that have been answered with an object (`Made`), `needs` to the ids they were
let through with (`Needs`), `alive` to `open`. That a created object may be dead
from birth is the promise's way to say what the code does: the worker can close a
transport between its grant of a request and the answer.

**`RequestReply` and `RequestQueue`.** `RequestReply` is what `sendMessage`
promises its callers: requests settle one at a time, in order, each once, and
each in the end. `RequestQueue` is the code: `AsyncQueue`, the map, the timers,
the websocket, and a server that answers late, with an error, or never. The
refinement maps `pending` to the running task followed by the queue.

**`DemoClient`.** Four slots and the calls that fill and empty them, on top of
what `RequestReply` promises: the oldest request is resolved or rejected first.
An object, its transport and its requests bear the number of the call that asks
for them. What a call keeps in a field and reads after its await (the producer ids,
`remoteVideo`, `this.stream`) is in `chosen`. An object that cannot load its device
or make its transport (`LoadFails`) stays in its slot, *broken*, until it is
destroyed. The websocket's close is the server's `onClose`: it takes the client's
transports, but for the one whose creation may still be under way, which is the
orphan of `SessionOrphan`. `hasty` is the only variable without a counterpart in the code: the
slots in which a call was made while another was under way, which the page would
have to find out for itself: the promise of `requestCreateProducer` is fulfilled
before the object has loaded. The properties are about the other slots; what happens in hasty ones is the finding of `DemoTwice`.

**`ProducerSetup`.** `MediaServer.process`, the queue of streams, each
stream's `MediaProducer.state`, and the log of requests with how the server
answered them (`sent`), from which the properties read what an answer really was
for. The code only knows the head of its queue.
`dest` is the address of the transport in `MediaProducer.video` and `.audio`, which
every answer sets; for a codec that `MediaProducer.cc` does not know there is then
no sender, and nothing is sent to it.

**`RtmpServer`.** The accept thread of `RTMPServer` and the thread of each
`RTMPClient`, as steps between which the others may run: every call of a `SafeMap`
is one (it locks the map, and nothing locks both). `connecting` and `streams` are
the two maps, `mSocketfd` what a client will close, `sb` the number librtmp reads
from, `owner` what connection a number is open to. The maps hold shared pointers,
so that a client that is taken out of its map and dropped is destroyed while its
thread goes on; `Release` does what the destructor does then: it sets the stop
flag and closes the descriptor, which `accept` may have given to another
connection since. `onStreamKey` takes the client out of the first map, tests the
key, tells mediasoup to resume, and adds to the second map, without ever
looking whether `add` has added (`TakeConnecting`, `CheckKey`, `ResumeKey`,
`AddStream`); `onClosed` has its three effects in three steps. `told` keeps which of
`MediasoupClient::resume` and `pause` was last called for a key. Two history
variables name the cases in which the properties do not hold of this code:
`raced`, the keys that two threads were about to take at once, and `mixed`, the
connections that shared a number that was in use. What a thread reads of its
destroyed client is what the destructor has left, as in the build of the
repository, which does not optimise; that the memory is not used again before the
thread ends is an assumption.

**`StreamKeys`** is the life of one key as `MediaServer` and the publishers see it:
free, taken, resumed, held, paused, free again, with one holder at a time, and
`resume` and `pause` called exactly where they belong. `KeyPhase` and `KeyHolder`
read both from the threads that are about to take the key or hold it. Two ends
are part of the promise because the code has them: a holder that turns to another
key leaves the first in the map for good (`Lose`), and a key that two threads
were about to take at once is under no order any more (`Share`).

**`MediaPath`.** The thread of one RTMP connection, with sizes in place of bytes
and of samples. `HandleVideo` takes a video packet, and the units in it go one by
one through `sendVideoData`, which looks the producer up anew for each
(`SenderFound`): meanwhile the main loop may put the producer in its map, open
its sender, or clear the map. A unit is one RTP packet or goes through the loop
of `sendFragmentationUnitsPacket`, one send per step, since any send may fail
and end the loop. Audio is decoded to frames of 1024 samples and encoded in
frames of 960 (`Encode`, one turn of the loop per step). An audio configuration
changes `mChannels` at any time, while the decoder and the encoder that are there
are kept with the channels they were opened for; `change` is a history variable
that says in which direction the number went. `mVideoSender` is
written by one thread and read by another without a lock: the read is taken to
give null or the open sender, which is what a word-sized load gives.

**`Broadcaster`.** The reconnecting websocket, the audio and then the video
set-up, and the subprocesses with a separate close event. `ReplyType` says how
the server calls its answers; `MCBroadcaster` binds it to what the broadcaster
expects and to what the repository's server does.

No module composes two components with each other yet: `DemoClient` rests on
`RequestReply`, which `RequestQueue` implements; the others face their partner
through the messages it may send.

Definitions whose comment begins with `Mutant` are faulty variants of the action
below them. They are used by no specification: `PROJECT.json` pairs each with
the property that must fail when it replaces the original.

## 3. The runs

| Run | Question | Bounds | Distinct states |
|---|---|---|---|
| `SessionMedia` | do the Maps of the session and of its clients stay consistent with the worker and with each other, and does the session implement `MediaObjects`? | 2 clients, 4 requests among transports, producers, consumers; up to symmetry | 304,899 |
| `SessionData` | does the inductive invariant hold over the other request types, and does a consumer without a producer go away? | 1 client, 4 requests, sent in order | 279,439 |
| `SessionOrphan` | *violation*: a transport outlives its websocket | 1 client, 2 requests | – |
| `RequestQueue` | does the queue implement `RequestReply`, with liveness? | 4 requests | 12,001 |
| `DemoClient` | does a patient page keep its objects apart, and leak none? | 2 calls over 4 slots, 4 outstanding requests | 232,184 |
| `DemoTwice` | *violation*: two producers in one slot | 1 slot, 2 calls | – |
| `ProducerSetup` | does every answer reach the stream it is for, and does the set-up end? | every list of up to 3 streams over 2 keys | 17,973 |
| `RtmpServer` | is a key published by one connection, which is served, is nothing left of it, and is the life of a key that of `StreamKeys`? | 3 connections, 2 descriptors, 3 keys, one of them unknown; up to symmetry | 181,798 |
| `MediaPath` | can what is sent of a video packet be put together again, and does the audio keep up? | `MAXLEN` 4, packets of up to 3 units of 0 to 6, 9 and 10 bytes; 1 to 3 audio channels | 2,424,861 |
| `Broadcast` | does the subprocess send to the producers of this connection? | 3 connections | 572 |
| `BroadcastServer` | *violation*: nothing is broadcast with the repository's server | 2 connections | – |
| `BroadcastTwice` | *violation*: two subprocesses at once | 3 connections | – |

Why the bounds are enough to see what matters:

* `SessionMedia`: four requests make the longest chain of dependent objects,
  transport – producer – transport of the other client – consumer, with every
  close and every worker answer in between; the second client is there to own what
  the first one consumes, destroys, or names by mistake. Longer histories only
  add more objects of the same kinds. Ids are never reused, so symmetry is sound;
  no liveness is checked under symmetry.
* `SessionData` takes the types that `SessionMedia` leaves out, so that between
  them every handler runs. One client does here: what two do to each other is in
  `SessionMedia`. `InOrder` is a constraint on names only: requests are
  interchangeable, and it takes them in the order sent; it stands in for symmetry,
  which a liveness property rules out.
* `RequestQueue`: two requests show a late answer beside a running request,
  three a queue behind it, four a queue in which an order can be wrong.
* `DemoClient`: two calls for one slot are the shortest history in which an
  answer can meet another object; with two calls in two sink slots the ids they
  consume can be confused. `MaxPending` bounds the requests that wait; four are
  the two creations and a destroy of each. With three calls and two slots
  (1.2 million states) the invariant holds too, and the proof is for any number.
* `ProducerSetup`: three streams over two keys are the fewest with a duplicate
  key and a different one; all 585 lists are initial states.
* `RtmpServer`: two connections race for a key or share a number, the third is the
  one that takes the key, or the number, after the first and beside the second. With
  two descriptors a number is used again while another is open; three connections
  with as many descriptors would never have to. Two known keys are what it takes
for a holder to turn to another one. The third number, 0, is
  there because `disconnect` leaves it in `mSocketfd`. Four connections (2.8 million
  states) show the same.
* `MediaPath`: the fragmentation divides by `MAXLEN`, so what matters is where a
  size lies relative to its multiples. With `MAXLEN` 4 the sizes are on both sides
  of each boundary: sent whole (0, 1, 2), in one fragment (3, 4, 5), in two of which
  the last is short (6) or full (9), in three (10). Two units show a failed or
  dropped one beside another, three the parameter sets before a slice. The
  encoder's frame is 3 samples and the decoder's 4, so that now and then one decoded
  frame makes two encoded ones; `MaxPcm` lets the buffer hold two frames, which
  an encoder that is missing can leave. The channels are 1 and 2, which the encoder
  takes, and 3, for which it cannot be opened: the number grows and shrinks, with
  and without an encoder.
* `Broadcast`: three connections give a subprocess that is killed, one that is
  let go of, and one started after both.

### Properties, and what they are for

`SessionServer`: `Tracked` (what exists can be found), `Owned` and `OnlyOwn`
(`onClose` looks in one Map only), `ImplementsMediaObjects` (no endpoint without
its transport and source, at any time or by any close), `DeadIsExplained` (the only entries without an object are
about to be removed, or were created on a transport that had closed),
`DeadSessionIsEmpty` (late answers do not refill a failed session),
`OrphansAreBornSo`, `CloseSparesOthers`, `CrashHasCause` (the server process ends in
four ways only: the default session does not start, a client sends `null`, the
session closes under a pause or resume, or one of these is of a producer that does
not exist behind its entry) – the last three about steps – and `SinksFollowSources`
(liveness).

`RequestQueue`: `TimerGuardsCurrent` (a running request has a timer, so that the
queue is never stuck), `StaleEntriesTimedOut` (an entry of the map that nothing
waits for is one that timed out), `ResolvesOnOwnAnswer`, and the refinement `ImplementsRequestReply`, whose
fairness says that every call settles.

`DemoClient`: `OwnAnswers`, `NoLeak`, `OneOpenObject`, `DestroysItsOwn` (what a destroy
takes out of the slot is what it had destroyed in the server, and nothing of it is
open or still to be opened), all about slots whose calls were not overlapped.

Some of these leave out a case in which the code does not have the property: calls
that overlap, keys that are raced for, numbers that are shared, fewer channels.
They show that nothing else breaks it. In `PROJECT.json` the hazard of such a case has
a note that says so, and lists no property if none would see it.

`ProducerSetup`: `AnswerIsForHead`, `SendersReachTheirProducer`, `SetUpInOrder`,
`KeyIsOfFirst`, and `EndsSetUp` (liveness).

`RtmpServer`: `OnePublisher` (two connections publish one key only if their threads
were between the test and the insertion at once), `PublisherIsServed` (the pause of
the connection that had a key before never comes after the resume of the one
that has it now, and the map refers to that one), `NothingStays` (no key stays taken
and no socket open after the thread that would have to give it up), and the
refinement `ImplementsStreamKeys`. `PublisherIsServed` and `NothingStays` except the connections in `mixed`, `OnePublisher` and `PublisherIsServed` the keys in `raced`: there the
code does lose track.

`MediaPath`: `Reassembles` (no gap, nothing beyond the unit, an end when every
send succeeded), `PictureSharesTimestamp` (one timestamp per picture, and the mark
on its last packet only), `AudioKeepsUp` (less than a frame stays behind, and the encoder reads no more
than what the buffer holds; said of connections whose number of channels never
went down, for an encoder opened for more channels than the buffer is filled with
reads beyond what is there). The
first does not hold of *short* units, of `MAXLEN` − 1 to `MAXLEN` + 1 bytes:
they are too long for one packet and too short for two fragments, so that they
get a start without an end and a payload of `MAXLEN` bytes, up to two of which are
behind the unit. `IsShort` and `IsInside` say so. The second is about pictures of
one slice, which is what the encoders in use send: each of several slices would
get a mark and a timestamp of its own.

`Broadcaster`: `AnswerIsForState`, `StreamIsExpected`, `LetGoByStaleClose`, and
`BroadcastStarts` (liveness).

Where a run lists `IInv`, it is the inductive invariant of the proofs, with the
type invariant in it. `RequestQueue` has one too, which is proved and not listed:
the refinement checks what it is for.

Every property has a mutant of the model that violates it.

### Fairness

* `SessionServer`: weak fairness of the worker's answers and of the notices. The
  library rejects all outstanding requests when the worker dies, and Node runs
  callbacks that are due. Nothing is assumed of clients.
* `RequestQueue`: weak fairness of timers, nothing else: neither the server nor
  the network owes anything.
* `ProducerSetup`: `process` runs to its end, a connection attempt succeeds or
  fails, and the server answers. The last is needed, for the client has no
  timeout; an error is an answer.
* `Broadcaster`: a connection attempt ends, the retry timer fires, the server
  deals with what it gets (one way of which is an answer of a type the
  broadcaster does not know), and a killed subprocess ends.

### Findings

* `SessionOrphan`: `createWebRtcTransport` and `createPlainTransport` store the
  transport after their await whether or not the websocket has closed, so it
  outlives `onClose`, whose comment says that it deletes the settings.
* `BroadcastServer`: the broadcaster speaks an older protocol than the
  signalling server of the repository and never streams (`README.md:177`).
* `BroadcastTwice`: the late close event of a killed subprocess resets the
  reference to the next one, which then survives `kill`, and `exec` starts one
  more beside it although it means to refuse.
* `DemoTwice`: the test for `this.producer` is before the await and the
  assignment after it; two calls make two objects, and the first is lost.

## 4. The proofs

The proof modules extend the component they are about. All constants are
arbitrary, up to the named assumptions of the component. Every property of the
passing runs is proved, but for the liveness named at the end. Beyond them there
are three kinds of theorems:

* *Refinements*: `QueueIsOrderly` (`RequestReply`, safety), `ObjectsKeepThePromise`
  (`MediaObjects`), `KeysAreTakenInTurn` (`StreamKeys`).
* *The safety half of liveness*. A liveness property rests on fairness, which is
  out of the prover's reach, and on two facts that are not: there is always a step
  to take, and such steps bring the end closer. `SetUpIsNeverStuck` and
  `SetUpLeadsOn` for `EndsSetUp`, `OldestHasTimer` and `TimeoutSettlesOldest` for the
  settling of every call, `StarvedSinksAreTold` and `StarvedSinksWait` for
  `SinksFollowSources`, `SetUpGoesOn` and `AnswersLeadOn` for `BroadcastStarts`.
* *The cause of a finding*. TLC shows that something goes wrong; these say when it
  does not, so that the race the finding describes is the only way to it.
  `OrphansNeedARace`: if no websocket closes while the worker owes it a transport,
  there are no orphans. `TwoNeedAStaleClose`: if every close event is of the
  subprocess in hand, no two run at once. `TwoObjectsNeedHaste`: if the page has
  waited in every slot, no slot has two open objects. `OtherServersGetNothing`: a
  server that does not answer with `sendPlainTransport` never gets a stream. The
  hypotheses of the first three restrict behaviours; that of the last is a
  constant, and what the repository's server does satisfies it.

* `SessionServer_proofs`. `IInv` is inductive. The safety properties alone are
  not: that an answer finds its transport or not needs `CallsAreSound` (the ids a
  request was let through with belong to transports and sources that were
  created) and `ListedIsCreated`; that a consumer without a source is not
  forgotten needs `LateSinksAreNotified` and `NoticesAreForDeadSinks`; that a
  rejected `pause` has a zombie behind it needs `RefusedCommands`. The argument
  has one lemma per group of actions, and `CloseTransportsInv`,
  `CloseSessionInv` for the two cascades. `OrphansOnlyAtBirth`, `ClosesAreOwn`
  and `CrashesHaveCause` are action properties that follow from the invariant
  in the state before the step. For the refinement, `Grounded` says that what an
  object was created on is one of the `Grounds` of `MediaObjects`; that an object
  never lives twice is that only a request that is out creates (`ObjectSteps`), and
  the two cascades are its `Close`, with the set of transports that they close.
  Assumption: `None` is no client and no request.
* `RequestQueue_proofs`. `IInv`, the type invariant with `TimerGuardsCurrent`,
  `NoIdleQueue`, `StaleEntriesTimedOut` and `PendingIsPending`, is inductive;
  `StepRefines` shows that every step is a step of `RequestReply` or a stutter,
  hence `QueueIsOrderly`. That a settled call never settles again needs
  `PendingIsPending`: the running task is always the oldest pending call. So does
  `AnswersAreOwn`: the entry an answer finds is of the request that bears its uuid.
* `ProducerSetup_proofs`. `IInv` is inductive: `QueueShape` says that the queue
  is in the order of the settings and only its head has begun, which is what
  makes an answer without a name mean the head; `Phases` that no request is made
  before the main loop. For `StreamsAreSetUpInOrder`, `SetUpInOrder` is itself
  preserved under `IInv`, one lemma per action: what is made is of streams
  no later than any that is queued. `Started` adds that the main loop is not entered
  without an attempt to connect, and `Rank` are five numbers that fall in
  lexicographic order with every step.
* `RtmpServer_proofs`. `IInv` is inductive. `KeyShape` is about keys alone and holds
  whatever happened to descriptors: who takes or holds a key that is not in
  `raced` is alone, which `CheckKey` preserves since a key that is taken is in the
  map. It gives `PublishersDiffer` and the first half of `PublishersAreServed`.
  `NumberShape` and `OwnShape` are about the connections that are not in `mixed`: each
  is alone in using its number, so that what its thread finds under the number is
  its own client. `References` says that a client exists exactly as long as something
  refers to it, which makes the second half of `NothingIsLeft`. One lemma per
  action, with `DisconnectFacts` and its like for what the destructor does. For the
  refinement every action is shown to move each key by one step of `StreamKeys` or
  not at all; only a connection that turns to another key moves two.
* `MediaPath_proofs`. `IInv` is inductive. `UnitsAreInOrder` says that what was sent
  is of units the thread is done with, but for the fragments of the one at hand;
  `AtFragment` ties the counter of the loop to the last packet sent; with
  `IncrementsOnce` a timestamp changes only with the last packet of a picture. The
  arithmetic is in `NumAndMore` and `FragmentLemma`: the fragments of a unit begin
  one after its header, each where the one before it ended, and the last ends
  where the unit does. Assumption: `MAXLEN` is greater than 2, as `RTPSender.h`
  has it. `ChannelsAgree` ties the channels of the encoder and of the decoder to the
  configurations there were, and carries `AudioDoesKeepUp`. Nothing is assumed of the
  sizes of units and frames, nor of the channels but that they are positive (§ 5).
* `Broadcaster_proofs`. `IInv` is inductive; `SetUpShape` links `state` and the
  audio producer of this connection, `RefersToLast` says that GStreamer refers to
  the last subprocess or none. `LetGoOnlyByStaleClose` follows from it. `Progress`
  adds that an open connection has a request out until it has started its
  subprocess, and none while GStreamer has one in hand, whence `ExecNeverRefuses`: the test of `exec` for a
  running subprocess, meant to keep two from running, never decides anything.
  `Ordered` says that subprocesses are in the order of their connections, one each, whence `OneSubprocessEach`.
  Assumption: the server does not answer either request with the type of the
  other.
* `DemoClient_proofs`. `IInv` is inductive, for any number of calls and of
  outstanding requests. The argument is that in a slot in which the page waited only
  one thing is under way: a call (`CallsAreAlone`), or the destruction of what the
  slot held (`DestroysAreAlone`). `RequestsHaveCalls` and `ObjectsHaveCalls` tie
  requests and objects to the calls whose number they bear, and `ConsumersStay`
  needs the order of the queue: a request to consume that is before a destroy is
  answered before it.

Only model-checked: liveness (`SinksFollowSources`, `EndsSetUp`,
`BroadcastStarts`, and that every call settles in `ImplementsRequestReply`),
which is out of the prover's reach.

## 5. What is not modelled

* Read-only handlers of the server (session list, capabilities, producer lists):
  they keep no state. Functions of it that nothing calls: `deleteProducer`,
  `deleteConsumer`, the pausing of consumers and of data endpoints, `shutdown`,
  `startKeepAlive` and the sends to other clients.
* The content of RTP and SDP parameters, codecs, DTLS and ICE.
* An audio configuration of 0 channels, which in AAC means that the number is found
  elsewhere in the stream. `AudioSpecificConfig.cc:22` does not look for it; where an
  earlier configuration has opened the encoder, the loop around `encode` would then
  take nothing from the buffer in a turn and need not end.
* `pauseProducer` and `resumeProducer` of the demo, which name the consumed
  producer, and `pause` and `resume` of the media server, which name a
  transport: the wrong argument stands in the line, whatever the interleaving.
* `RTMPServer::shutdown`: only static destruction would call it, and the main loop
  never ends. The RTMP commands that change no state of the server (`connect`,
  `createStream`, `publish`) and the sessions of librtmp, which are external.
* The codecs and the parsing of their bits, jrtplib.
* Pages (buttons, text fields and lists), settings, start-up, logging and the debug
  dump.
* `WebsocketClient.close` of the clients, and `createMediaSession` and
  `destroyMediaSession` of the media server's, which nothing calls.
* No property is stated of some hazards, for the reason in their notes. Two examples:
  the session that `createSession` makes is never looked up again, so that the model
  keeps it but nothing relates it to another state; and when `gst-launch` ends by
  itself the broadcaster only logs it (that it is then not started again in this
  connection is `OneSubprocessEach`).

## 6. Plan

Done: every component with an order of events worth checking has a module, every
module with an inductive invariant has its proofs, and three of the seven components
implement an abstract specification. What remains:

1. An abstract specification of a slot of the page, implemented by `DemoClient`: what
   `StreamKeys` is for keys.
2. The composition of `RtmpServer`, `ProducerSetup` and `MediaPath` over
   `mProducerMap`: media reaches the producer of its own key, from one thread at
   a time. `MediaPath` has the interleaving of one thread with the main loop; new
   would be two threads that publish one key (`raced`) and share a sender.
3. `DemoClient` with `RequestQueue` in place of the promise. The refinement makes it
   redundant for safety; it would show the timeouts.
4. A composition of `SessionServer` with the client of `ProducerSetup`, in which the
   answers are the server's.
