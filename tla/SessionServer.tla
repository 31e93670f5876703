--------------------------- MODULE SessionServer ---------------------------
(***************************************************************************)
(* The mediasoup signalling server (mediasoup/mediasoup/src): one Node.js  *)
(* process in which MediasoupServer, MediasoupManager, one MediasoupClient *)
(* per websocket and the default Mediasoup session share their state       *)
(* through asynchronous handlers.  A handler runs until its first await;   *)
(* the rest of it, a step of its own here, runs when the mediasoup worker  *)
(* has answered, and anything may have happened in between.                *)
(*                                                                         *)
(* The transports, producers and consumers are named after the request     *)
(* that creates them: the library draws a fresh uuid for every object, and *)
(* a request creates at most one.  The worker (a C++ process of the        *)
(* mediasoup library) is external.  It serves one channel in order, so     *)
(* what becomes of a request is settled by what was sent before it.        *)
(***************************************************************************)
EXTENDS FiniteSets

CONSTANTS
  Client,     \* websocket connections; a client id is never reused (count++)
  Request,    \* requests that await the worker; bounds how many a run sends
  Types,      \* the types of awaiting request the clients send
  None        \* no client, no object, or an id that no object has

TransportTypes == {"createWebRtcTransport", "createPlainTransport"}
SourceTypes    == {"produce", "dataProduce"}
SinkTypes      == {"consume", "dataConsume"}
EndpointTypes  == SourceTypes \cup SinkTypes
DefaultTypes   == TransportTypes \cup EndpointTypes \cup {"connect"}
AllTypes       == DefaultTypes \cup {"createSession"}

\* No value stands for two things.
ASSUME ConstantsAssumption ==
  /\ Types \subseteq AllTypes
  /\ None \notin Client
  /\ None \notin Request

VARIABLES
  process,    \* "running", or "crashed" by an unhandled rejection (Node 20)
  session,    \* the default Mediasoup: "starting", "up", "failed", "removed"
  extra,      \* the sessions made by createSession, by request
  conn,       \* each websocket: "new", "open" or "closed"
  call,       \* each request: who sent it, its type and the ids it names
  stage,      \* each request: "unsent", "waiting" for an answer the worker
              \* may grant, "refused" by a worker that has yet to say so,
              \* answered "ok" or answered with an "error"
  open,       \* the objects that exist in the worker, as far as the closes
              \* sent to it go
  listed,     \* the ids in the five Maps of the default Mediasoup
  mine,       \* the Map `transports' of each MediasoupClient
  notices,    \* sinks whose source is closed in the worker, until Node hears
  commands    \* pause and resume requests nobody awaits

vars == <<process, session, extra, conn, call, stage, open, listed, mine,
          notices, commands>>

Call == [by   : Client \cup {None},  type : AllTypes \cup {"none"},
         on   : Request \cup {None}, src  : Request \cup {None}]

NoCall == [by |-> None, type |-> "none", on |-> None, src |-> None]

Of(types) == {r \in Request : call[r].type \in types}

Transports == listed \cap Of(TransportTypes)

\* The ids a client can name: those the server has told some client.
Known == {r \in Request : stage[r] = "ok"} \cup {None}

\* MediasoupManager.getMediasoupById finds the default session.
Found == session \in {"up", "failed"}

TypeOK ==
  /\ process \in {"running", "crashed"}
  /\ session \in {"starting", "up", "failed", "removed"}
  /\ extra \subseteq Request
  /\ conn \in [Client -> {"new", "open", "closed"}]
  /\ call \in [Request -> Call]
  /\ stage \in [Request -> {"unsent", "waiting", "refused", "ok", "error"}]
  /\ open \subseteq Request
  /\ listed \subseteq Request
  /\ mine \in [Client -> SUBSET Request]
  /\ notices \subseteq Request
  /\ commands \subseteq [producer : Request, answer : {"ok", "error"}]

Init ==
  /\ process = "running"
  /\ session = "starting"
  /\ extra = {}
  /\ conn = [c \in Client |-> "new"]
  /\ call = [r \in Request |-> NoCall]
  /\ stage = [r \in Request |-> "unsent"]
  /\ open = {}
  /\ listed = {}
  /\ mine = [c \in Client |-> {}]
  /\ notices = {}
  /\ commands = {}

-----------------------------------------------------------------------------
(* Closing: what the library and the observers do in one synchronous step. *)

\* The sinks whose source is in `gone'.  A request the worker has granted
\* counts: its sink exists there although Node has not heard of it yet.
FedBy(gone) ==
  {s \in Of(SinkTypes) : /\ call[s].src \in gone
                         /\ s \in open \/ stage[s] = "waiting"}

\* Mutant: no close observer takes the closed objects out of the Maps.
CloseTransports_KeepsListed(closing) ==
  /\ open' = open \ (closing \cup {e \in listed : call[e].on \in closing})
  /\ UNCHANGED <<listed, notices>>

\* Mutant: the endpoints of a closed transport stay.
CloseTransports_KeepsEndpoints(closing) ==
  /\ open' = open \ closing
  /\ listed' = listed \ closing
  /\ UNCHANGED notices

\* transport.close(): the transports and the endpoints Node knows on them
\* close at once, and the close observers take each out of its Map.  The
\* worker closes the sinks they fed elsewhere, and sends a notice for each.
\* It may also have told of a sink that Node does not know yet on a closing
\* transport: that is up to the order in which the worker closes (`told').
CloseTransports(closing) ==
  LET gone == closing \cup {e \in listed : call[e].on \in closing}
      fed == FedBy(gone) \ gone
      starved == {s \in fed : call[s].on \in open \ closing}
  IN /\ open' = open \ (gone \cup starved)
     /\ listed' = listed \ gone
     /\ \E told \in SUBSET {s \in fed : call[s].on \in closing} :
          notices' = (notices \ gone) \cup starved \cup told

\* Mediasoup.close(), or the death of the worker that leads to it: every Map
\* is emptied and the closing channel rejects each request still under way.
\* The rejection of one that nobody awaits ends the process.
CloseSession(status) ==
  /\ session' = status
  /\ open' = {}
  /\ listed' = {}
  /\ notices' = {}
  /\ commands' = {}
  /\ stage' = [r \in Request |->
       IF stage[r] \in {"waiting", "refused"} /\ call[r].type \in DefaultTypes
         THEN "error" ELSE stage[r]]
  /\ process' = IF commands = {} THEN process ELSE "crashed"

-----------------------------------------------------------------------------
(* The life of the server and of its websockets. *)

\* MediasoupManager's constructor starts the default session without
\* awaiting it; it enters the Map when init is over.
StartSession ==
  /\ process = "running" /\ session = "starting"
  /\ session' = "up"
  /\ UNCHANGED <<process, extra, conn, call, stage, open, listed, mine,
                 notices, commands>>

\* init rejects, in a promise nobody awaits.
StartSessionFails ==
  /\ process = "running" /\ session = "starting"
  /\ process' = "crashed"
  /\ UNCHANGED <<session, extra, conn, call, stage, open, listed, mine,
                 notices, commands>>

\* Mutant: nothing is closed when the worker dies.
WorkerDied_NotClosed ==
  /\ process = "running" /\ session = "up"
  /\ session' = "failed"
  /\ UNCHANGED <<process, extra, conn, call, stage, open, listed, mine,
                 notices, commands>>

\* worker.on('died'): the session closes but stays in the manager's Map.
WorkerDied ==
  /\ process = "running" /\ session = "up"
  /\ CloseSession("failed")
  /\ UNCHANGED <<extra, conn, call, mine>>

onConnect(c) ==
  /\ process = "running" /\ conn[c] = "new"
  /\ conn' = [conn EXCEPT ![c] = "open"]
  /\ UNCHANGED <<process, session, extra, call, stage, open, listed, mine,
                 notices, commands>>

\* Mutants: the transports of the client stay, or those of every client go.
onClose_KeepsTransports(c) ==
  /\ process = "running" /\ conn[c] = "open"
  /\ conn' = [conn EXCEPT ![c] = "closed"]
  /\ mine' = [mine EXCEPT ![c] = {}]
  /\ UNCHANGED <<process, session, extra, call, stage, open, listed, notices,
                 commands>>

onClose_ClosesAll(c) ==
  /\ process = "running" /\ conn[c] = "open" /\ Found
  /\ conn' = [conn EXCEPT ![c] = "closed"]
  /\ mine' = [mine EXCEPT ![c] = {}]
  /\ CloseTransports(Transports)
  /\ UNCHANGED <<process, session, extra, call, stage, commands>>

\* The websocket closes: MediasoupClient.onClose deletes the transports in its
\* own Map, then WebsocketServer and MediasoupServer forget the client.
onClose(c) ==
  /\ process = "running" /\ conn[c] = "open"
  /\ conn' = [conn EXCEPT ![c] = "closed"]
  /\ mine' = [mine EXCEPT ![c] = {}]
  /\ IF Found THEN CloseTransports(mine[c] \cap Transports)
              ELSE UNCHANGED <<open, listed, notices>>
  /\ UNCHANGED <<process, session, extra, call, stage, commands>>

\* A message whose JSON is null: onMessage reads its id outside its two try
\* blocks, and nobody awaits the promise that it returns.
NullMessage(c) ==
  /\ process = "running" /\ conn[c] = "open"
  /\ process' = "crashed"
  /\ UNCHANGED <<session, extra, conn, call, stage, open, listed, mine,
                 notices, commands>>

-----------------------------------------------------------------------------
(* Requests: MediasoupClient.onMessage runs the handler of the request's    *)
(* type on the default session and answers with its result or its error.    *)

\* Client c sends r; the handler runs up to its first await (or to the end,
\* when it throws before) and leaves the request in stage s.
Receive(r, c, type, on, src, s) ==
  /\ process = "running" /\ conn[c] = "open"
  /\ stage[r] = "unsent" /\ type \in Types
  /\ call' = [call EXCEPT ![r] = [by |-> c, type |-> type, on |-> on, src |-> src]]
  /\ stage' = [stage EXCEPT ![r] = s]
  /\ UNCHANGED <<process, session, extra, conn, open, listed, mine, notices,
                 commands>>

\* A failed session has no router: creating a transport throws.
createWebRtcTransport(r, c) ==
  Receive(r, c, "createWebRtcTransport", None, None,
          IF session = "up" THEN "waiting" ELSE "error")

createPlainTransport(r, c) ==
  Receive(r, c, "createPlainTransport", None, None,
          IF session = "up" THEN "waiting" ELSE "error")

\* transports.get(id) is undefined, and using it throws, when no transport
\* of the session has the id.
connect(r, c, on) ==
  Receive(r, c, "connect", on, None,
          IF Found /\ on \in Transports THEN "waiting" ELSE "error")

createProducer(r, c, on) ==
  Receive(r, c, "produce", on, None,
          IF Found /\ on \in Transports THEN "waiting" ELSE "error")

createDataProducer(r, c, on) ==
  Receive(r, c, "dataProduce", on, None,
          IF Found /\ on \in Transports THEN "waiting" ELSE "error")

\* Mutant: any listed id passes for a source.
SinkStage_AnySource(on, src, sources) ==
  IF ~Found \/ on \notin Transports \/ src \notin listed THEN "error"
    ELSE IF src \in open THEN "waiting" ELSE "refused"

\* What becomes of a request for a sink of src on the transport `on': the
\* library refuses an unknown source at once, the worker one it has closed.
SinkStage(on, src, sources) ==
  IF ~Found \/ on \notin Transports \/ src \notin listed \cap Of({sources})
    THEN "error"
    ELSE IF src \in open THEN "waiting" ELSE "refused"

\* router.canConsume also fails when the codecs do not match.
createConsumer(r, c, on, src) ==
  \/ Receive(r, c, "consume", on, src, SinkStage(on, src, "produce"))
  \/ Receive(r, c, "consume", on, src, "error")

createDataConsumer(r, c, on, src) ==
  Receive(r, c, "dataConsume", on, src, SinkStage(on, src, "dataProduce"))

\* A random id, a new Mediasoup and a new worker: never looked up again.
createMediaSession(r, c) ==
  Receive(r, c, "createSession", None, None, "waiting")

-----------------------------------------------------------------------------
(* Requests that are answered at once. *)

\* Any client may name any id; only its own Map is corrected.
DestroyTransport(c, id) ==
  /\ process = "running" /\ conn[c] = "open" /\ Found
  /\ mine' = [mine EXCEPT ![c] = @ \ {id}]
  /\ CloseTransports({id} \cap Transports)
  /\ UNCHANGED <<process, session, extra, conn, call, stage, commands>>

destroyWebRtcTransport(c, id) == DestroyTransport(c, id)

destroyPlainTransport(c, id) == DestroyTransport(c, id)

\* The payload is not read: it is always the default session that goes.
destroyMediaSession(c) ==
  /\ process = "running" /\ conn[c] = "open" /\ Found
  /\ CloseSession("removed")
  /\ UNCHANGED <<extra, conn, call, mine>>

\* Mutant: nobody looks whether there is such a producer.
Command_Unchecked(c, id) ==
  /\ process = "running" /\ conn[c] = "open" /\ Found
  /\ commands' = commands \cup
       {[producer |-> id, answer |-> IF id \in open THEN "ok" ELSE "error"]}
  /\ UNCHANGED <<process, session, extra, conn, call, stage, open, listed,
                 mine, notices>>

\* producer.pause() or producer.resume(), whose promise nobody awaits.
Command(c, id) ==
  /\ process = "running" /\ conn[c] = "open" /\ Found
  /\ id \in listed \cap Of({"produce"})
  /\ commands' = commands \cup
       {[producer |-> id, answer |-> IF id \in open THEN "ok" ELSE "error"]}
  /\ UNCHANGED <<process, session, extra, conn, call, stage, open, listed,
                 mine, notices>>

pauseProducer(c, id) == Command(c, id)

resumeProducer(c, id) == Command(c, id)

-----------------------------------------------------------------------------
(* Answers of the worker: the rest of a handler, after its await.           *)

Granted(r, types) ==
  /\ process = "running"
  /\ stage[r] = "waiting" /\ call[r].type \in types

Answered(r, s) == stage' = [stage EXCEPT ![r] = s]

\* Mutants: the MediasoupClient does not store the transport, or all of them
\* store it because they share one Map.
TransportCreated_NotMine(r) ==
  /\ Granted(r, TransportTypes) /\ Answered(r, "ok")
  /\ open' = open \cup {r} /\ listed' = listed \cup {r}
  /\ UNCHANGED <<process, session, extra, conn, call, mine, notices, commands>>

TransportCreated_SharedMap(r) ==
  /\ Granted(r, TransportTypes) /\ Answered(r, "ok")
  /\ open' = open \cup {r} /\ listed' = listed \cup {r}
  /\ mine' = [c \in Client |-> mine[c] \cup {r}]
  /\ UNCHANGED <<process, session, extra, conn, call, notices, commands>>

\* Mediasoup stores the transport and subscribes to its close; then the
\* MediasoupClient stores it too, whether or not its websocket still lives.
TransportCreated(r) ==
  /\ Granted(r, TransportTypes)
  /\ Answered(r, "ok")
  /\ open' = open \cup {r}
  /\ listed' = listed \cup {r}
  /\ mine' = [mine EXCEPT ![call[r].by] = @ \cup {r}]
  /\ UNCHANGED <<process, session, extra, conn, call, notices, commands>>

\* The library makes the object without looking whether its transport, or
\* its source, closed in the meantime; the Mediasoup stores it all the same.
EndpointCreated(r, types) ==
  /\ Granted(r, types)
  /\ Answered(r, "ok")
  /\ open' = IF call[r].on \in open /\ r \notin notices THEN open \cup {r} ELSE open
  /\ listed' = listed \cup {r}
  /\ UNCHANGED <<process, session, extra, conn, call, mine, notices, commands>>

ProducerCreated(r)     == EndpointCreated(r, {"produce"})
ConsumerCreated(r)     == EndpointCreated(r, {"consume"})
DataProducerCreated(r) == EndpointCreated(r, {"dataProduce"})
DataConsumerCreated(r) == EndpointCreated(r, {"dataConsume"})

TransportConnected(r) ==
  /\ Granted(r, {"connect"})
  /\ Answered(r, "ok")
  /\ UNCHANGED <<process, session, extra, conn, call, open, listed, mine,
                 notices, commands>>

SessionCreated(r) ==
  /\ Granted(r, {"createSession"})
  /\ Answered(r, "ok")
  /\ extra' = extra \cup {r}
  /\ UNCHANGED <<process, session, conn, call, open, listed, mine, notices,
                 commands>>

\* The worker refuses, or fails at what it could have granted: onMessage
\* catches the error, or the undefined that Mediasoup returns for it.
RequestFailed(r) ==
  /\ process = "running" /\ stage[r] \in {"waiting", "refused"}
  /\ Answered(r, "error")
  /\ notices' = notices \ {r}
  /\ UNCHANGED <<process, session, extra, conn, call, open, listed, mine,
                 commands>>

\* Mutant: the sink stays in its Map.
SourceClosed_KeepsSink(s) ==
  /\ process = "running" /\ s \in notices /\ stage[s] = "ok"
  /\ notices' = notices \ {s}
  /\ UNCHANGED <<process, session, extra, conn, call, stage, open, listed,
                 mine, commands>>

\* The library hears that a source is closed and closes the sink, whose
\* observer takes it out of its Map.  It is told after the sink is created.
SourceClosed(s) ==
  /\ process = "running" /\ s \in notices /\ stage[s] = "ok"
  /\ listed' = listed \ {s}
  /\ notices' = notices \ {s}
  /\ UNCHANGED <<process, session, extra, conn, call, stage, open, mine,
                 commands>>

\* The worker answers a pause or a resume.  It refuses it when the producer
\* was closed in the worker already, and the process ends.
CommandAnswered(k) ==
  /\ process = "running" /\ k \in commands
  /\ commands' = commands \ {k}
  /\ process' = IF k.answer = "ok" THEN "running" ELSE "crashed"
  /\ UNCHANGED <<session, extra, conn, call, stage, open, listed, mine,
                 notices>>

-----------------------------------------------------------------------------
ClientStep(c) ==
  \/ onConnect(c)
  \/ onClose(c)
  \/ NullMessage(c)
  \/ destroyMediaSession(c)
  \/ \E id \in Known : \/ destroyWebRtcTransport(c, id)
                       \/ destroyPlainTransport(c, id)
                       \/ pauseProducer(c, id)
                       \/ resumeProducer(c, id)

RequestStep(r, c) ==
  \/ createWebRtcTransport(r, c)
  \/ createPlainTransport(r, c)
  \/ createMediaSession(r, c)
  \/ \E on \in Known : \/ connect(r, c, on)
                       \/ createProducer(r, c, on)
                       \/ createDataProducer(r, c, on)
  \/ \E on, src \in Known : \/ createConsumer(r, c, on, src)
                            \/ createDataConsumer(r, c, on, src)

WorkerAnswers(r) ==
  \/ TransportCreated(r)
  \/ ProducerCreated(r)
  \/ ConsumerCreated(r)
  \/ DataProducerCreated(r)
  \/ DataConsumerCreated(r)
  \/ TransportConnected(r)
  \/ SessionCreated(r)
  \/ RequestFailed(r)

Next ==
  \/ StartSession
  \/ StartSessionFails
  \/ WorkerDied
  \/ \E c \in Client : ClientStep(c)
  \/ \E r \in Request, c \in Client : RequestStep(r, c)
  \/ \E r \in Request : WorkerAnswers(r) \/ SourceClosed(r)
  \/ \E k \in commands : CommandAnswered(k)

Spec == Init /\ [][Next]_vars

\* The worker answers every request while it lives, and Node runs every
\* callback that is due; clients and failures owe nothing.
FairSpec ==
  /\ Spec
  /\ WF_vars(StartSession)
  /\ \A r \in Request : WF_vars(WorkerAnswers(r)) /\ WF_vars(SourceClosed(r))

-----------------------------------------------------------------------------
(* Properties. *)

\* What exists in the worker is in a Map of the session, so that some later
\* destroy or close can find it; and a transport is in its Map exactly as
\* long as it exists (mediasoup.ts:127, the close event does the removal).
Tracked ==
  /\ open \subseteq listed
  /\ Transports \subseteq open

\* A transport that exists is in the Map of the MediasoupClient that asked
\* for it: onClose looks nowhere else.
Owned == \A t \in open \cap Of(TransportTypes) : t \in mine[call[t].by]

\* The Map of a MediasoupClient only holds transports it asked for, so that
\* its onClose takes down nothing of another client.
OnlyOwn ==
  \A c \in Client : \A t \in mine[c] :
    call[t].by = c /\ call[t].type \in TransportTypes

\* An endpoint that exists in the worker sits on a transport that exists and,
\* if it is a sink, is fed by a source that exists.
Attached ==
  \A e \in open \cap Of(EndpointTypes) :
    /\ call[e].on \in open
    /\ call[e].type \in SinkTypes => call[e].src \in open

\* A listed id whose object is gone from the worker has one of two causes: a
\* notice is on its way, or it was created on a transport that had closed
\* while its request was under way, and nothing will ever remove it.
Zombies == {e \in listed \ open : call[e].on \notin open}

DeadIsExplained == listed \ open \subseteq notices \cup Zombies

\* A session that failed or was removed holds nothing and owes no answer, so
\* that no late answer can fill its Maps again.
DeadSessionIsEmpty ==
  session # "up" =>
    /\ open = {} /\ listed = {} /\ notices = {} /\ commands = {}
    /\ \A r \in Of(DefaultTypes) : stage[r] \in {"ok", "error"}

\* A transport of a closed websocket.  The comment in MediasoupClient.onClose
\* (mediasoup-client.ts:64) says that its settings are deleted.
Orphans == {t \in open \cap Of(TransportTypes) : conn[call[t].by] = "closed"}

NoOrphans == Orphans = {}

\* A transport is an orphan from its birth or never: only the answer to a
\* request that outlived its websocket makes one, onClose leaves none behind.
OrphansAreBornSo == [][\A t \in Orphans' \ Orphans : stage[t] = "waiting"]_vars

\* When a websocket closes, the transports that close are its own.
CloseSparesOthers ==
  [][\A c \in Client : conn[c] = "open" /\ conn'[c] = "closed" =>
       \A t \in Of(TransportTypes) \cap (open \ open') : call[t].by = c]_vars

\* The server process ends only in four ways: the default session does not
\* start, a client sends null, the session closes under a pause or resume that
\* is not answered yet, or a client paused or resumed a producer that is a
\* zombie.  A pause or resume of any other producer never ends it.
CrashHasCause ==
  [][process' = "crashed" /\ process = "running" =>
       \/ StartSessionFails
       \/ \E c \in Client : NullMessage(c)
       \/ session = "up" /\ session' # "up" /\ commands # {}
       \/ \E k \in commands \ commands' : k.producer \in Zombies]_vars

\* A sink whose source no longer exists leaves its Map in the end, unless its
\* own transport is gone as well (the case of a zombie).
SinksFollowSources ==
  \A s \in Request :
    (s \in listed \cap Of(SinkTypes) /\ call[s].src \notin open)
      ~> (s \notin listed \/ call[s].on \notin open \/ process = "crashed")

\* The objects that requests created, and what each was created on.
Made == {r \in Of(TransportTypes \cup EndpointTypes) : stage[r] = "ok"}

Needs == [r \in Request |->
  IF r \in Made THEN {call[r].on, call[r].src} \ {None} ELSE {}]

Promise == INSTANCE MediaObjects
             WITH Object <- Request, made <- Made, needs <- Needs, alive <- open

\* The session implements the promise about its objects: whatever the clients
\* ask for while others close, an endpoint comes to life only on a living
\* transport (and of a living source), ends exactly with them, and stays dead.
ImplementsMediaObjects == Promise!Spec

-----------------------------------------------------------------------------
(* The inductive invariant, in named parts.                                 *)

\* What a request in each stage says of its call: the ids it was let through
\* with are those of a transport and of a source that were created.
CallsAreSound ==
  \A r \in Request :
    /\ stage[r] = "unsent" => call[r] = NoCall
    /\ stage[r] # "unsent" => call[r].by \in Client
    /\ call[r].type \in TransportTypes => call[r].on = None
    /\ stage[r] \in {"waiting", "refused", "ok"} =>
         /\ call[r].type \in EndpointTypes =>
              call[r].on \in Of(TransportTypes) /\ stage[call[r].on] = "ok"
         /\ call[r].type \in SinkTypes =>
              call[r].src \in Of(SourceTypes) /\ stage[call[r].src] = "ok"

\* Node lists an object from the answer to the request that created it.
ListedIsCreated ==
  listed \subseteq {r \in Of(TransportTypes \cup EndpointTypes) : stage[r] = "ok"}

\* A notice is for a sink that is closed in the worker and that Node lists,
\* or will list when its request is answered.
NoticesAreForDeadSinks ==
  \A s \in notices :
    /\ s \in Of(SinkTypes) /\ s \notin open
    /\ stage[s] = "waiting" \/ s \in listed

\* A granted sink that lost its source before it was created has its notice.
LateSinksAreNotified ==
  \A s \in Of(SinkTypes) :
    stage[s] = "waiting" /\ call[s].on \in open /\ call[s].src \notin open
      => s \in notices

\* The worker refuses only the commands on zombies.
RefusedCommands ==
  \A k \in commands : k.answer = "error" => k.producer \in Zombies \cap Of(SourceTypes)

IInv ==
  /\ TypeOK
  /\ CallsAreSound
  /\ ListedIsCreated
  /\ NoticesAreForDeadSinks
  /\ LateSinksAreNotified
  /\ RefusedCommands
  /\ Tracked /\ Owned /\ OnlyOwn /\ Attached
  /\ DeadIsExplained /\ DeadSessionIsEmpty
=============================================================================
