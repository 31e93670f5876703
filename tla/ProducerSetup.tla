--------------------------- MODULE ProducerSetup ---------------------------
(***************************************************************************)
(* The RTMP media server's client of mediasoup (media-server): MediaServer *)
(* hands the configured streams to MediasoupClient, which sets them up one *)
(* after the other, video before audio, each with a plain transport and a  *)
(* producer on it.  Its requests bear a fixed uuid per type, so that an    *)
(* answer only says what kind of request it is for: it is taken to be for  *)
(* the head of the queue.                                                  *)
(*                                                                         *)
(* Streams are named by their place in the settings and a transport by the *)
(* request that made it.  The server is external: it answers any request   *)
(* it has not answered, with a payload or with an error.                   *)
(***************************************************************************)
EXTENDS Integers, Sequences

CONSTANTS Key,        \* stream keys
          Settings    \* the lists of streams a server may be configured with

Kind   == {"video", "audio"}
Stream == [key : Key, video : BOOLEAN, audio : BOOLEAN]

ASSUME SettingsAssumption == Settings \subseteq Seq(Stream)

VARIABLES
  streams,    \* the settings (never changed)
  pc,         \* MediaServer.process: the stream it creates next, then the
              \* connect, then the main loop
  ws,         \* "idle", "connecting", "connected", "failed" or "closed"
  creating,   \* mCreatingProducers
  byKey,      \* mProducerMap: the stream of each key, 0 when it has none
  state,      \* MediaProducer.state of each stream
  dest,       \* MediaProducer.video and .audio: the transport that each
              \* stream's sender of each kind, if there is one, sends
              \* to, 0 before it is opened
  sent        \* the requests the server has got and how it answered them

vars == <<streams, pc, ws, creating, byKey, state, dest, sent>>

Streams == 1..Len(streams)

Enabled(i) == streams[i].video \/ streams[i].audio

Sent == [what : {"transport", "produce"}, on : Nat, of : Nat,
         kind : Kind \cup {"none"}, answer : {"waiting", "ok", "error"}]

TypeOK ==
  /\ streams \in Seq(Stream)
  /\ pc \in 1..Len(streams) + 2
  /\ ws \in {"idle", "connecting", "connected", "failed", "closed"}
  /\ creating \in Seq(Streams)
  /\ byKey \in [Key -> Streams \cup {0}]
  /\ state \in [Streams -> {"CreatingVideo", "CreatingAudio", "None", "Created"}]
  /\ dest \in [Streams -> [Kind -> Nat]]
  /\ sent \in Seq(Sent)

\* MediaProducer's constructor.
FirstState(s) ==
  IF s.video THEN "CreatingVideo" ELSE IF s.audio THEN "CreatingAudio" ELSE "None"

Init ==
  /\ streams \in Settings
  /\ pc = 1
  /\ ws = "idle"
  /\ creating = <<>>
  /\ byKey = [k \in Key |-> 0]
  /\ state = [i \in Streams |-> FirstState(streams[i])]
  /\ dest = [i \in Streams |-> [k \in Kind |-> 0]]
  /\ sent = <<>>

-----------------------------------------------------------------------------
\* The requests of `log' and one more: sendMessage drops it without a
\* connection, libsoup when the connection is closed.
SendMessage(log, what, on, of, kind) ==
  sent' = IF ws' = "connected"
            THEN Append(log, [what |-> what, on |-> on, of |-> of, kind |-> kind,
                              answer |-> "waiting"])
            ELSE log

RequestPlainRtpTransport(log) == SendMessage(log, "transport", 0, 0, "none")

\* The producer's ssrc tells the server which stream's sender it is for.
RequestCreateProducer(log, id, of, kind) == SendMessage(log, "produce", id, of, kind)

CreateNextProducer(log, queue) ==
  IF ws' = "connected" /\ queue # <<>>
    THEN RequestPlainRtpTransport(log)
    ELSE sent' = log

\* Mutant: the last stream with a key takes the key over.
CreateMediaProducer_Overwrites ==
  /\ pc \in Streams /\ Enabled(pc)
  /\ pc' = pc + 1
  /\ byKey' = [byKey EXCEPT ![streams[pc].key] = pc]
  /\ creating' = Append(creating, pc)
  /\ UNCHANGED <<streams, ws, state, dest, sent>>

\* One turn of MediaServer.process's loop.  A stream with neither video nor
\* audio is skipped; of two with one key only the first enters the map.
CreateMediaProducer ==
  /\ pc \in Streams
  /\ pc' = pc + 1
  /\ UNCHANGED ws
  /\ IF Enabled(pc)
       THEN LET key == streams[pc].key IN
            /\ byKey' = IF byKey[key] = 0 THEN [byKey EXCEPT ![key] = pc] ELSE byKey
            /\ creating' = Append(creating, pc)
            /\ CreateNextProducer(sent, creating')
       ELSE UNCHANGED <<byKey, creating, sent>>
  /\ UNCHANGED <<streams, state, dest>>

Connect ==
  /\ pc = Len(streams) + 1
  /\ pc' = pc + 1
  /\ ws' = IF ws = "idle" THEN "connecting" ELSE ws
  /\ UNCHANGED <<streams, creating, byKey, state, dest, sent>>

-----------------------------------------------------------------------------
(* The main loop runs the websocket's callbacks. *)

\* Mutant: the streams that wait for the connection are forgotten.
OnConnected_Silent ==
  /\ pc = Len(streams) + 2 /\ ws = "connecting"
  /\ ws' = "connected"
  /\ UNCHANGED <<streams, pc, creating, byKey, state, dest, sent>>

OnConnected ==
  /\ pc = Len(streams) + 2 /\ ws = "connecting"
  /\ ws' = "connected"
  /\ CreateNextProducer(sent, creating)
  /\ UNCHANGED <<streams, pc, creating, byKey, state, dest>>

\* Nobody tries again.
OnFailedToConnect ==
  /\ pc = Len(streams) + 2 /\ ws = "connecting"
  /\ ws' = "failed"
  /\ UNCHANGED <<streams, pc, creating, byKey, state, dest, sent>>

\* The map is emptied, the queue is not, and nobody connects again.
OnDisconnected ==
  /\ ws = "connected"
  /\ ws' = "closed"
  /\ byKey' = [k \in Key |-> 0]
  /\ UNCHANGED <<streams, pc, creating, state, dest, sent>>

\* The server has answered request r, which was for `what'.
Answered(r, what) ==
  /\ ws = "connected" /\ ws' = "connected"
  /\ sent[r].answer = "waiting" /\ sent[r].what = what

Log(r, answer) == [sent EXCEPT ![r].answer = answer]

\* Mutants: the other kind's transport is requested at the same time; the
\* video sender is opened for the audio as well.
OnMediasoupSendPlainTransport_Parallel(r) ==
  LET head == Head(creating) IN
  /\ Answered(r, "transport") /\ creating # <<>>
  /\ dest' = [dest EXCEPT ![head]["video"] = r]
  /\ RequestPlainRtpTransport(Append(Log(r, "ok"),
       [what |-> "produce", on |-> r, of |-> head, kind |-> "video",
        answer |-> "waiting"]))
  /\ UNCHANGED <<streams, pc, creating, byKey, state>>

OnMediasoupSendPlainTransport_VideoOnly(r) ==
  LET head == Head(creating)
      kind == IF state[head] = "CreatingVideo" THEN "video" ELSE "audio"
  IN /\ Answered(r, "transport") /\ creating # <<>>
     /\ dest' = [dest EXCEPT ![head]["video"] = r]
     /\ RequestCreateProducer(Log(r, "ok"), r, head, kind)
     /\ UNCHANGED <<streams, pc, creating, byKey, state>>

\* The head's address of the current kind becomes that of the new transport, and
\* the producer of that kind is requested on it.  (openVideo and openAudio make no
\* sender for a codec they do not know, nor do they look whether it opened: then
\* nothing is sent to the address.)
OnMediasoupSendPlainTransport(r) ==
  LET head == Head(creating)
      kind == IF state[head] = "CreatingVideo" THEN "video" ELSE "audio"
  IN /\ Answered(r, "transport") /\ creating # <<>>
     /\ IF state[head] \in {"CreatingVideo", "CreatingAudio"}
          THEN /\ dest' = [dest EXCEPT ![head][kind] = r]
               /\ RequestCreateProducer(Log(r, "ok"), r, head, kind)
          ELSE dest' = dest /\ sent' = Log(r, "ok")
     /\ UNCHANGED <<streams, pc, creating, byKey, state>>

\* Mutants: the state does not go on to the audio; the audio is skipped; the
\* next stream is not started.
OnMediasoupProducer_KeepsVideo(r) ==
  /\ Answered(r, "produce") /\ creating # <<>>
  /\ streams[Head(creating)].audio
  /\ RequestPlainRtpTransport(Log(r, "ok"))
  /\ UNCHANGED <<streams, pc, creating, byKey, state, dest>>

OnMediasoupProducer_SkipsAudio(r) ==
  /\ Answered(r, "produce") /\ creating # <<>>
  /\ state' = [state EXCEPT ![Head(creating)] = "Created"]
  /\ creating' = Tail(creating)
  /\ CreateNextProducer(Log(r, "ok"), creating')
  /\ UNCHANGED <<streams, pc, byKey, dest>>

OnMediasoupProducer_NoNext(r) ==
  /\ Answered(r, "produce") /\ creating # <<>>
  /\ state' = [state EXCEPT ![Head(creating)] = "Created"]
  /\ creating' = Tail(creating)
  /\ sent' = Log(r, "ok")
  /\ UNCHANGED <<streams, pc, byKey, dest>>

\* Audio follows video; otherwise the stream is done and the next one starts.
OnMediasoupProducer(r) ==
  LET head == Head(creating) IN
  /\ Answered(r, "produce") /\ creating # <<>>
  /\ IF state[head] = "CreatingVideo" /\ streams[head].audio
       THEN /\ state' = [state EXCEPT ![head] = "CreatingAudio"]
            /\ creating' = creating
            /\ RequestPlainRtpTransport(Log(r, "ok"))
       ELSE IF state[head] \in {"CreatingVideo", "CreatingAudio"}
       THEN /\ state' = [state EXCEPT ![head] = "Created"]
            /\ creating' = Tail(creating)
            /\ CreateNextProducer(Log(r, "ok"), creating')
       ELSE /\ sent' = Log(r, "ok")
            /\ UNCHANGED <<state, creating>>
  /\ UNCHANGED <<streams, pc, byKey, dest>>

\* An answer without a payload is only logged.
OnErrorAnswer(r) ==
  /\ \E what \in {"transport", "produce"} : Answered(r, what)
  /\ sent' = Log(r, "error")
  /\ UNCHANGED <<streams, pc, creating, byKey, state, dest>>

OnMessage == \E r \in 1..Len(sent) : \/ OnMediasoupSendPlainTransport(r)
                                     \/ OnMediasoupProducer(r)
                                     \/ OnErrorAnswer(r)

Next ==
  \/ CreateMediaProducer
  \/ Connect
  \/ OnConnected
  \/ OnFailedToConnect
  \/ OnDisconnected
  \/ OnMessage

Spec == Init /\ [][Next]_vars

\* process runs to its end, the connection attempt ends one way or the other,
\* and the server answers.
FairSpec ==
  /\ Spec
  /\ WF_vars(CreateMediaProducer) /\ WF_vars(Connect)
  /\ WF_vars(OnConnected \/ OnFailedToConnect)
  /\ WF_vars(OnMessage)

-----------------------------------------------------------------------------
(* Properties. *)

\* At most one request is unanswered, the last one; and after an error there
\* is no other.
OneAtATime == \A r \in 1..Len(sent) - 1 : sent[r].answer = "ok"

\* The head of the queue is what the outstanding request is for, although the
\* request's uuid does not say so: the queue is not empty when the answer
\* comes (SafeQueue.front does not look), a producer is requested for the
\* head's current kind, and on the transport its sender sends to.
AnswerIsForHead ==
  \A r \in 1..Len(sent) : sent[r].answer # "ok" =>
    /\ creating # <<>>
    /\ LET head == Head(creating)
           kind == IF state[head] = "CreatingVideo" THEN "video" ELSE "audio"
       IN /\ state[head] \in {"CreatingVideo", "CreatingAudio"}
          /\ IF sent[r].what = "transport"
               THEN dest[head][kind] = 0
               ELSE /\ sent[r].of = head /\ sent[r].kind = kind
                    /\ sent[r].on = dest[head][kind]

\* A sender, if there is one, sends to the transport on which the producer of its stream and
\* kind was requested, and no transport serves two producers.
SendersReachTheirProducer ==
  \A r \in 1..Len(sent) : sent[r].what = "produce" =>
    /\ sent[r].of \in Streams /\ sent[r].kind \in Kind
    /\ dest[sent[r].of][sent[r].kind] = sent[r].on
    /\ r > 1 /\ sent[r].on = r - 1 /\ sent[r - 1].what = "transport"

\* The producers the server has made, by their requests, and the kinds that
\* stream i still waits for.
Made == {r \in 1..Len(sent) : sent[r].what = "produce" /\ sent[r].answer = "ok"}

Left(i) ==
  CASE state[i] = "CreatingVideo" ->
         IF streams[i].audio THEN {"video", "audio"} ELSE {"video"}
    [] state[i] = "CreatingAudio" -> {"audio"}
    [] OTHER -> {}

\* Every stream handed over so far is set up once, in the order of the
\* settings and video before audio, and none is lost or made twice: each kind
\* it is configured with is either made or left, and while one is left the
\* stream is in the queue, behind everything that is made.
SetUpInOrder ==
  /\ \A i \in 1..pc - 1, kind \in Kind : i \in Streams =>
       /\ kind \in Left(i) =>
            streams[i][kind] /\ \E n \in 1..Len(creating) : creating[n] = i
       /\ streams[i][kind] =>
            (kind \in Left(i) <=>
               \A r \in Made : sent[r].of # i \/ sent[r].kind # kind)
  /\ \A r \in Made :
       /\ sent[r].of \in Streams /\ sent[r].of < pc
       /\ streams[sent[r].of][sent[r].kind]
       /\ \A n \in 1..Len(creating) : sent[r].of <= creating[n]
  /\ \A q, r \in Made : q < r =>
       \/ sent[q].of < sent[r].of
       \/ sent[q].of = sent[r].of /\ sent[q].kind = "video" /\ sent[r].kind = "audio"

\* The set-up only stalls on an error answer: no connected client has work
\* left and nothing under way.
StallsOnlyOnError ==
  ws = "connected" /\ creating # <<>> =>
    sent # <<>> /\ sent[Len(sent)].answer \in {"waiting", "error"}

\* Media of a key goes to the first stream with the key that is handed over,
\* until the connection closes; a later one with the same key gets none.
KeyIsOfFirst ==
  \A i \in 1..pc - 1 : i \in Streams /\ Enabled(i) /\ ws # "closed" =>
    \E j \in 1..i : /\ byKey[streams[i].key] = j
                    /\ Enabled(j) /\ streams[j].key = streams[i].key
                    /\ \A k \in 1..j - 1 : Enabled(k) => streams[k].key # streams[j].key

\* The inductive invariant: the properties above that speak of single
\* requests, and what the queue, the states and the senders look like.
HeadKind ==
  IF state[Head(creating)] = "CreatingVideo" THEN "video" ELSE "audio"

Untouched(i) ==
  state[i] = FirstState(streams[i]) /\ \A kind \in Kind : dest[i][kind] = 0

\* The queue holds streams that are handed over and not yet set up, in order,
\* and only its head has begun.
QueueShape ==
  /\ \A n \in 1..Len(creating) :
       /\ creating[n] < pc /\ Enabled(creating[n])
       /\ state[creating[n]] \in {"CreatingVideo", "CreatingAudio"}
       /\ n > 1 \/ sent = <<>> => Untouched(creating[n])
  /\ \A m, n \in 1..Len(creating) : m < n => creating[m] < creating[n]
  /\ \A i \in Streams : i >= pc => Untouched(i)
  /\ creating # <<>> /\ HeadKind = "video" => dest[Head(creating)]["audio"] = 0

\* Requests only go out in the main loop, over a connection.
Phases ==
  /\ ws # "idle" => pc = Len(streams) + 2
  /\ ws \in {"idle", "connecting", "failed"} => sent = <<>>

KeysAreSound ==
  ws # "closed" => \A k \in Key : byKey[k] # 0 =>
    \E i \in 1..pc - 1 : i \in Streams /\ Enabled(i) /\ streams[i].key = k

IInv ==
  /\ TypeOK /\ Phases /\ QueueShape /\ KeysAreSound
  /\ OneAtATime /\ AnswerIsForHead /\ SendersReachTheirProducer
  /\ StallsOnlyOnError /\ KeyIsOfFirst

\* In the end every stream is set up, unless the connection fails or closes or
\* the server answers with an error.
EndsSetUp ==
  <>(\/ \A i \in Streams : Enabled(i) => state[i] = "Created"
     \/ ws \in {"failed", "closed"}
     \/ \E r \in 1..Len(sent) : sent[r].answer = "error")
=============================================================================
