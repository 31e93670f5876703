---------------------------- MODULE Broadcaster ----------------------------
(***************************************************************************)
(* The GStreamer broadcaster (gst-demo/broadcaster/src): over a websocket  *)
(* that reconnects, MediasoupBroadcaster asks for a plain transport and a  *)
(* producer on it, first for the audio and then for the video, and lets    *)
(* GStreamer start a subprocess that sends to both.  The answers bear a    *)
(* type and nothing else: `state' says what they are taken to be for.      *)
(*                                                                         *)
(* The server and the operating system are external.  The server forgets a *)
(* connection's transports when the connection closes.                     *)
(***************************************************************************)
EXTENDS Integers, Sequences

CONSTANTS
  MaxConnections,   \* bounds how often the websocket is opened
  ReplyType         \* the type of the server's answer to each type of
                    \* request; "none" when it does not know the request

RequestTypes == {"createSendPlainTransport", "produce"}

\* Whatever the server knows, it takes no request for one of the other type.
ASSUME ConstantsAssumption ==
  /\ MaxConnections \in Nat
  /\ ReplyType \in [RequestTypes -> STRING]
  /\ ReplyType["createSendPlainTransport"] # "producer"
  /\ ReplyType["produce"] # "sendPlainTransport"

VARIABLES
  process,      \* "running", or "crashed" by an exception nobody catches
  conn,         \* "connecting", "open" or "closed" (the retry timer runs)
  connections,  \* how often the websocket has been opened
  state,        \* what the broadcaster sets up: "audio" or "video"
  sent,         \* requests on this connection that are not answered
  transports,   \* how many transports the server has made
  produced,     \* the producers the server has for this connection
  port,         \* the transport that each kind's Producer describes, 0: none
  gst,          \* every subprocess spawned so far
  subprocess,   \* GStreamer.subprocess, 0: undefined
  runningFlag   \* GStreamer.runningFlag

vars == <<process, conn, connections, state, sent, transports, produced, port,
          gst, subprocess, runningFlag>>

Kind == {"audio", "video"}

Sent == [type : RequestTypes, kind : Kind, on : Nat]

Producer == [kind : Kind, on : Nat]

\* A subprocess is "dying" from when it is killed, or ends, until its close
\* event is run; it was started on connection `by'.
Subprocess == [status : {"running", "dying", "gone"}, by : Nat, port : [Kind -> Nat]]

TypeOK ==
  /\ process \in {"running", "crashed"}
  /\ conn \in {"connecting", "open", "closed"}
  /\ connections \in Nat
  /\ state \in Kind
  /\ sent \subseteq Sent
  /\ transports \in Nat
  /\ produced \subseteq Producer
  /\ port \in [Kind -> Nat]
  /\ gst \in Seq(Subprocess)
  /\ subprocess \in 0..Len(gst)
  /\ runningFlag \in BOOLEAN

Init ==
  /\ process = "running"
  /\ conn = "connecting" /\ connections = 1
  /\ state = "audio"
  /\ sent = {} /\ transports = 0 /\ produced = {}
  /\ port = [k \in Kind |-> 0]
  /\ gst = <<>> /\ subprocess = 0 /\ runningFlag = FALSE

-----------------------------------------------------------------------------
(* The websocket. *)

\* The kind is in the parameters of a produce request; for a transport it is
\* only a note for the reader, what the request was made for.
RequestPlainRtpTransport(kind) ==
  [type |-> "createSendPlainTransport", kind |-> kind, on |-> 0]

RequestCreateProducer(id, kind) == [type |-> "produce", kind |-> kind, on |-> id]

\* Mutant: a new connection goes on where the last one stopped.
OnOpen_KeepsState ==
  /\ process = "running" /\ conn = "connecting"
  /\ conn' = "open"
  /\ sent' = {RequestPlainRtpTransport("audio")}
  /\ UNCHANGED <<process, connections, state, transports, produced, port, gst,
                 subprocess, runningFlag>>

OnOpen ==
  /\ process = "running" /\ conn = "connecting"
  /\ conn' = "open"
  /\ state' = "audio"
  /\ sent' = {RequestPlainRtpTransport("audio")}
  /\ UNCHANGED <<process, connections, transports, produced, port, gst,
                 subprocess, runningFlag>>

\* Mutant: the reference to the subprocess is dropped, nothing is killed.
Kill_Forgets ==
  /\ gst' = gst
  /\ subprocess' = 0
  /\ runningFlag' = FALSE

\* Mutant: the flag waits for the close event.
Kill_KeepsFlag ==
  /\ gst' = IF subprocess = 0 THEN gst ELSE [gst EXCEPT ![subprocess].status = "dying"]
  /\ subprocess' = 0
  /\ UNCHANGED runningFlag

\* GStreamer.kill does not wait for the subprocess to end.
Kill ==
  /\ gst' = IF subprocess = 0 THEN gst ELSE [gst EXCEPT ![subprocess].status = "dying"]
  /\ subprocess' = 0
  /\ runningFlag' = FALSE

\* The connection fails or closes: the retry timer starts, GStreamer is killed.
OnClose ==
  /\ process = "running" /\ conn # "closed"
  /\ conn' = "closed"
  /\ sent' = {} /\ produced' = {}
  /\ Kill
  /\ UNCHANGED <<process, connections, state, transports, port>>

RetryConnect ==
  /\ process = "running" /\ conn = "closed"
  /\ connections < MaxConnections
  /\ conn' = "connecting" /\ connections' = connections + 1
  /\ UNCHANGED <<process, state, sent, transports, produced, port, gst,
                 subprocess, runningFlag>>

-----------------------------------------------------------------------------
(* GStreamer. *)

\* With a subprocess already running, exec only warns.
Exec ==
  IF runningFlag
    THEN UNCHANGED <<gst, subprocess, runningFlag>>
    ELSE /\ gst' = Append(gst, [status |-> "running", by |-> connections, port |-> port])
         /\ subprocess' = Len(gst) + 1
         /\ runningFlag' = TRUE

\* A subprocess ends by itself, or fails to start.
GStreamerEnds(p) ==
  /\ gst[p].status = "running"
  /\ gst' = [gst EXCEPT ![p].status = "dying"]
  /\ UNCHANGED <<process, conn, connections, state, sent, transports, produced,
                 port, subprocess, runningFlag>>

\* The close event of a subprocess, whichever is the current one.  Nothing
\* starts again.
OnGStreamerClose(p) ==
  /\ process = "running" /\ gst[p].status = "dying"
  /\ gst' = [gst EXCEPT ![p].status = "gone"]
  /\ subprocess' = 0 /\ runningFlag' = FALSE
  /\ UNCHANGED <<process, conn, connections, state, sent, transports, produced,
                 port>>

-----------------------------------------------------------------------------
(* Answers of the server. *)

\* A request that the server does not know is not answered, and an answer of a
\* type that the broadcaster does not know is ignored.
Answered(m, type) ==
  /\ process = "running" /\ conn = "open"
  /\ m \in sent /\ ReplyType[m.type] = type

\* Mutant: the Producer of the other kind is filled in.
OnMediasoupSendPlainTransport_Swapped(m) ==
  /\ Answered(m, "sendPlainTransport")
  /\ transports' = transports + 1
  /\ sent' = (sent \ {m}) \cup {RequestCreateProducer(transports', state)}
  /\ port' = [port EXCEPT !["video"] = transports']
  /\ UNCHANGED <<process, conn, connections, state, produced, gst, subprocess,
                 runningFlag>>

\* createAudioProducer or createVideoProducer, on the new transport.
OnMediasoupSendPlainTransport(m) ==
  /\ Answered(m, "sendPlainTransport")
  /\ transports' = transports + 1
  /\ sent' = (sent \ {m}) \cup {RequestCreateProducer(transports', state)}
  /\ port' = [port EXCEPT ![state] = transports']
  /\ UNCHANGED <<process, conn, connections, state, produced, gst, subprocess,
                 runningFlag>>

\* The video follows the audio; then GStreamer starts.
OnMediasoupProducer(m) ==
  /\ Answered(m, "producer")
  /\ produced' = produced \cup {[kind |-> m.kind, on |-> m.on]}
  /\ \/ /\ state = "audio"
        /\ state' = "video"
        /\ sent' = (sent \ {m}) \cup {RequestPlainRtpTransport("video")}
        /\ UNCHANGED <<gst, subprocess, runningFlag>>
     \/ /\ state = "video"
        /\ sent' = sent \ {m}
        /\ Exec
        /\ UNCHANGED state
  /\ UNCHANGED <<process, conn, connections, transports, port>>

\* An error bears no payload: reading it throws in the websocket's callback.
OnErrorAnswer(m) ==
  /\ \E type \in {"sendPlainTransport", "producer"} : Answered(m, type)
  /\ process' = "crashed"
  /\ UNCHANGED <<conn, connections, state, sent, transports, produced, port, gst,
                 subprocess, runningFlag>>

Answer(m) ==
  \/ OnMediasoupSendPlainTransport(m)
  \/ OnMediasoupProducer(m)
  \/ OnErrorAnswer(m)

Next ==
  \/ OnOpen
  \/ OnClose
  \/ RetryConnect
  \/ \E m \in sent : Answer(m)
  \/ \E p \in 1..Len(gst) : GStreamerEnds(p) \/ OnGStreamerClose(p)

Spec == Init /\ [][Next]_vars

\* A connection attempt ends one way or the other, the retry timer fires, the
\* server deals with what it gets, and a dying subprocess ends.
FairSpec ==
  /\ Spec
  /\ WF_vars(conn = "connecting" /\ (OnOpen \/ OnClose))
  /\ WF_vars(RetryConnect)
  /\ WF_vars(\E m \in sent : Answer(m))
  /\ WF_vars(\E p \in 1..Len(gst) : OnGStreamerClose(p))

-----------------------------------------------------------------------------
(* Properties. *)

\* The one request that may be outstanding is for the kind that `state' says,
\* and a producer is requested on the transport which that kind describes.
AnswerIsForState ==
  \A m \in sent :
    /\ sent = {m} /\ m.kind = state
    /\ m.type = "produce" => m.on = port[state]

\* The subprocess that GStreamer refers to, while it runs, sends each kind of
\* media to the transport of that kind's producer on this very connection.
StreamIsExpected ==
  \A p \in 1..Len(gst) : p = subprocess /\ gst[p].status = "running" =>
    /\ conn = "open" /\ gst[p].by = connections
    /\ \A k \in Kind : [kind |-> k, on |-> gst[p].port[k]] \in produced

\* A running subprocess is only let go of, without being killed, by the close
\* event of an earlier one; and one let go of is never found again.
LetGoByStaleClose ==
  [][\A p \in 1..Len(gst) : gst[p].status = "running" /\ gst'[p].status = "running" =>
       /\ subprocess # p => subprocess' # p
       /\ subprocess = p /\ subprocess' # p =>
            \E q \in 1..p - 1 : gst[q].status = "dying" /\ gst'[q].status = "gone"]_vars

\* What the set-up of the current connection has reached, and what is left of
\* it when the connection is not open.
SetUpShape ==
  /\ conn # "open" => sent = {} /\ subprocess = 0
  /\ conn = "open" /\ state = "video" =>
       [kind |-> "audio", on |-> port["audio"]] \in produced

\* GStreamer refers to the last subprocess or to none, and its flag agrees.
RefersToLast ==
  /\ subprocess \in {0, Len(gst)}
  /\ runningFlag <=> subprocess # 0

\* The inductive invariant.
IInv == TypeOK /\ AnswerIsForState /\ StreamIsExpected /\ SetUpShape /\ RefersToLast

\* No two subprocesses run that have not been killed: exec refuses to start
\* one when `subprocess is already running' (gstreamer.ts:49-52).
OneSubprocess ==
  \A p, q \in 1..Len(gst) :
    gst[p].status = "running" /\ gst[q].status = "running" => p = q

\* A connection that stays open gets its subprocess, unless an error answer
\* ends the broadcaster: it `streams from GStreamer to mediasoup'
\* (README.md:177).
BroadcastStarts ==
  \A n \in 1..MaxConnections :
    (conn = "open" /\ connections = n) ~>
      (\/ \E p \in 1..Len(gst) : gst[p].by = n
       \/ conn # "open"
       \/ process = "crashed")
=============================================================================
