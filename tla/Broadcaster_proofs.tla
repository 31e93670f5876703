------------------------- MODULE Broadcaster_proofs -------------------------
(***************************************************************************)
(* Theorems about Broadcaster, for any number of connections and whatever  *)
(* the server answers: IInv is inductive, and the action property follows  *)
(* from it.  OneSubprocess does not hold, BroadcastStarts is liveness.     *)
(***************************************************************************)
EXTENDS Broadcaster, TLAPS

USE DEF Kind

LEMMA InitInv == Init => IInv
<1> SUFFICES ASSUME Init PROVE IInv
  OBVIOUS
<1>1. TypeOK
  <2>1. gst = <<>> /\ gst \in Seq(Subprocess) /\ subprocess \in 0..Len(gst)
    BY DEF Init
  <2>2. runningFlag \in BOOLEAN
    BY Zenon DEF Init
  <2> QED BY <2>1, <2>2 DEF Init, TypeOK
<1>2. AnswerIsForState /\ StreamIsExpected /\ SetUpShape
  BY DEF Init, AnswerIsForState, StreamIsExpected, SetUpShape
<1>3. RefersToLast
  <2>1. ~runningFlag
    BY Zenon DEF Init
  <2> QED BY <2>1 DEF Init, RefersToLast
<1> QED BY <1>1, <1>2, <1>3 DEF IInv

\* A change of the status of one subprocess.
LEMMA StatusLemma ==
  ASSUME NEW old \in Seq(Subprocess), NEW p \in 1..Len(old),
         NEW status \in {"running", "dying", "gone"},
         NEW new, new = [old EXCEPT ![p].status = status]
  PROVE  /\ new \in Seq(Subprocess) /\ Len(new) = Len(old)
         /\ new[p].status = status
         /\ \A q \in 1..Len(old) : q # p => new[q] = old[q]
  <1>1. old[p] \in Subprocess
    OBVIOUS
  <1>2. [old[p] EXCEPT !.status = status] \in Subprocess
    BY <1>1 DEF Subprocess
  <1>3. new = [old EXCEPT ![p] = [old[p] EXCEPT !.status = status]]
    OBVIOUS
  <1>4. [old[p] EXCEPT !.status = status].status = status
    BY <1>1 DEF Subprocess
  <1> QED
    BY <1>2, <1>3, <1>4

\* What kill leaves: no current subprocess, and the others as they were.
LEMMA KillLemma ==
  ASSUME TypeOK, RefersToLast, Kill
  PROVE  /\ gst' \in Seq(Subprocess) /\ Len(gst') = Len(gst)
         /\ subprocess' = 0 /\ ~runningFlag' /\ runningFlag' \in BOOLEAN
         /\ \A p \in 1..Len(gst) :
              IF p = subprocess THEN gst'[p].status = "dying" ELSE gst'[p] = gst[p]
  <1>1. subprocess' = 0 /\ ~runningFlag' /\ runningFlag' \in BOOLEAN
    BY Zenon DEF Kill
  <1>2. CASE subprocess = 0
    BY <1>1, <1>2 DEF Kill, TypeOK
  <1>3. CASE subprocess # 0
    <2>1. gst \in Seq(Subprocess) /\ subprocess \in 1..Len(gst)
      BY <1>3 DEF TypeOK
    <2>2. gst' = [gst EXCEPT ![subprocess].status = "dying"]
      BY <1>3 DEF Kill
    <2>3. /\ gst' \in Seq(Subprocess) /\ Len(gst') = Len(gst)
          /\ gst'[subprocess].status = "dying"
          /\ \A q \in 1..Len(gst) : q # subprocess => gst'[q] = gst[q]
      BY ONLY <2>1, <2>2, StatusLemma
    <2> QED
      BY <1>1, <2>3
  <1> QED BY <1>2, <1>3

LEMMA StepInv ==
  ASSUME IInv, [Next]_vars
  PROVE  IInv'
<1> USE DEF IInv
<1>1. CASE OnOpen
  BY <1>1 DEF OnOpen, TypeOK, AnswerIsForState, StreamIsExpected, SetUpShape,
     RefersToLast, RequestPlainRtpTransport, Sent, RequestTypes
<1>2. CASE OnClose
  <2>1. /\ gst' \in Seq(Subprocess) /\ Len(gst') = Len(gst)
        /\ subprocess' = 0 /\ ~runningFlag' /\ runningFlag' \in BOOLEAN
    BY <1>2, KillLemma DEF OnClose
  <2>2. /\ conn' = "closed" /\ sent' = {} /\ produced' = {}
        /\ UNCHANGED <<process, connections, state, transports, port>>
    BY <1>2 DEF OnClose
  <2>3. TypeOK'
    BY <2>1, <2>2 DEF TypeOK
  <2>4. AnswerIsForState' /\ SetUpShape'
    BY <2>1, <2>2 DEF AnswerIsForState, SetUpShape
  <2>5. StreamIsExpected' /\ RefersToLast'
    BY <2>1, <2>2 DEF StreamIsExpected, RefersToLast
  <2> QED BY <2>3, <2>4, <2>5
<1>3. CASE RetryConnect
  BY <1>3 DEF RetryConnect, TypeOK, AnswerIsForState, StreamIsExpected, SetUpShape,
     RefersToLast
<1>4. ASSUME NEW m \in sent, OnMediasoupSendPlainTransport(m)
      PROVE  IInv'
  <2> USE <1>4 DEF OnMediasoupSendPlainTransport, Answered
  <2>1. m = [type |-> "createSendPlainTransport", kind |-> m.kind, on |-> m.on] \/ m.type = "produce"
    BY DEF TypeOK, Sent, RequestTypes
  <2>2. sent = {m} /\ sent' = {RequestCreateProducer(transports', state)}
    BY DEF AnswerIsForState
  <2>3. TypeOK'
    BY <2>2 DEF TypeOK, Sent, RequestTypes, RequestCreateProducer
  <2>4. AnswerIsForState'
    BY <2>2 DEF AnswerIsForState, RequestCreateProducer, TypeOK
  <2>5. StreamIsExpected' /\ RefersToLast'
    BY DEF StreamIsExpected, RefersToLast, TypeOK
  <2>6. SetUpShape'
    BY DEF SetUpShape, TypeOK
  <2> QED BY <2>3, <2>4, <2>5, <2>6
<1>5. ASSUME NEW m \in sent, OnMediasoupProducer(m)
      PROVE  IInv'
  <2> USE <1>5 DEF OnMediasoupProducer, Answered
  <2>1. sent = {m} /\ m \in Sent /\ m.kind = state
    BY DEF AnswerIsForState, TypeOK
  <2>2. CASE state = "audio" /\ state' = "video" /\ UNCHANGED <<gst, subprocess, runningFlag>>
            /\ sent' = (sent \ {m}) \cup {RequestPlainRtpTransport("video")}
    <3>1. m.type = "produce" /\ m.on = port["audio"]
      BY <2>1, <2>2, ConstantsAssumption DEF AnswerIsForState, Sent, RequestTypes
    <3>2. TypeOK'
      BY <2>1, <2>2 DEF TypeOK, Sent, RequestTypes, Producer, RequestPlainRtpTransport
    <3>3. AnswerIsForState'
      BY <2>1, <2>2 DEF AnswerIsForState, RequestPlainRtpTransport
    <3>4. StreamIsExpected' /\ RefersToLast'
      BY <2>2 DEF StreamIsExpected, RefersToLast
    <3>5. SetUpShape'
      BY <2>1, <2>2, <3>1 DEF SetUpShape
    <3> QED BY <3>2, <3>3, <3>4, <3>5
  <2>3. CASE state = "video" /\ state' = "video" /\ Exec /\ sent' = sent \ {m}
    <3>1. m.type = "produce" /\ m.on = port["video"]
      BY <2>1, <2>3, ConstantsAssumption DEF AnswerIsForState, Sent, RequestTypes
    <3>2. sent' = {} /\ produced' \subseteq Producer
      BY <2>1, <2>3 DEF TypeOK, Producer, Sent
    <3>3. \A k \in Kind : [kind |-> k, on |-> port[k]] \in produced'
      BY <2>1, <2>3, <3>1 DEF SetUpShape
    <3>4. CASE runningFlag
      BY <2>3, <3>2, <3>4 DEF Exec, TypeOK, AnswerIsForState, StreamIsExpected,
         SetUpShape, RefersToLast
    <3>5. CASE ~runningFlag
      <4> DEFINE new == [status |-> "running", by |-> connections, port |-> port]
      <4>1. gst' = Append(gst, new) /\ subprocess' = Len(gst) + 1 /\ runningFlag' = TRUE
        BY <2>3, <3>5 DEF Exec
      <4>2. new \in Subprocess
        BY DEF TypeOK, Subprocess
      <4> HIDE DEF new
      <4>3. gst' \in Seq(Subprocess) /\ Len(gst') = Len(gst) + 1 /\ gst'[Len(gst) + 1] = new
        BY <4>1, <4>2 DEF TypeOK
      <4>4. TypeOK'
        BY <2>3, <3>2, <4>1, <4>3 DEF TypeOK
      <4>5. StreamIsExpected'
        BY <2>3, <3>3, <4>1, <4>3 DEF StreamIsExpected, new
      <4>6. AnswerIsForState' /\ SetUpShape' /\ RefersToLast'
        BY <2>3, <3>2, <4>1, <4>3 DEF AnswerIsForState, SetUpShape, RefersToLast, TypeOK
      <4> QED BY <4>4, <4>5, <4>6
    <3> QED BY <3>4, <3>5
  <2> QED BY <2>2, <2>3
<1>6. ASSUME NEW m \in sent, OnErrorAnswer(m)
      PROVE  IInv'
  BY <1>6 DEF OnErrorAnswer, TypeOK, AnswerIsForState, StreamIsExpected, SetUpShape,
     RefersToLast
<1>7. ASSUME NEW p \in 1..Len(gst), GStreamerEnds(p)
      PROVE  IInv'
  <2>1. /\ gst' \in Seq(Subprocess) /\ Len(gst') = Len(gst)
        /\ gst'[p].status = "dying"
        /\ \A q \in 1..Len(gst) : q # p => gst'[q] = gst[q]
    <3>1. gst \in Seq(Subprocess) /\ gst' = [gst EXCEPT ![p].status = "dying"]
      BY <1>7 DEF GStreamerEnds, TypeOK
    <3> QED
      BY ONLY <3>1, p \in 1..Len(gst), StatusLemma
  <2>2. TypeOK' /\ AnswerIsForState' /\ SetUpShape' /\ RefersToLast'
    BY <1>7, <2>1 DEF GStreamerEnds, TypeOK, AnswerIsForState, SetUpShape, RefersToLast
  <2>3. StreamIsExpected'
    BY <1>7, <2>1 DEF GStreamerEnds, StreamIsExpected, TypeOK
  <2> QED BY <2>2, <2>3
<1>8. ASSUME NEW p \in 1..Len(gst), OnGStreamerClose(p)
      PROVE  IInv'
  <2>1. /\ gst' = [gst EXCEPT ![p].status = "gone"]
        /\ subprocess' = 0 /\ ~runningFlag' /\ runningFlag' \in BOOLEAN
        /\ UNCHANGED <<process, conn, connections, state, sent, transports,
                       produced, port>>
    BY <1>8, Zenon DEF OnGStreamerClose
  <2>2. gst' \in Seq(Subprocess) /\ Len(gst') = Len(gst)
    <3>1. gst \in Seq(Subprocess)
      BY DEF TypeOK
    <3> QED
      BY ONLY <3>1, <2>1, p \in 1..Len(gst), StatusLemma
  <2>3. TypeOK'
    BY <2>1, <2>2 DEF TypeOK
  <2>4. AnswerIsForState' /\ SetUpShape'
    BY <2>1 DEF AnswerIsForState, SetUpShape
  <2>5. StreamIsExpected' /\ RefersToLast'
    BY <2>1, <2>2 DEF StreamIsExpected, RefersToLast
  <2> QED BY <2>3, <2>4, <2>5
<1>9. CASE UNCHANGED vars
  BY <1>9 DEF vars, TypeOK, AnswerIsForState, StreamIsExpected, SetUpShape, RefersToLast
<1> QED
  BY <1>1, <1>2, <1>3, <1>4, <1>5, <1>6, <1>7, <1>8, <1>9 DEF Next, Answer

\* The set-up, the current subprocess and GStreamer's two fields agree in
\* every reachable state.
THEOREM Invariance == Spec => []IInv
  BY InitInv, StepInv, PTL DEF Spec

\* An answer is only ever taken for the kind it is for.
THEOREM AnswersAreForState == Spec => []AnswerIsForState
<1>1. IInv => AnswerIsForState
  BY DEF IInv
<1> QED  BY <1>1, Invariance, PTL

\* The subprocess in GStreamer's hands sends to producers that this connection
\* has.
THEOREM StreamsAreExpected == Spec => []StreamIsExpected
<1>1. IInv => StreamIsExpected
  BY DEF IInv
<1> QED  BY <1>1, Invariance, PTL

\* A running subprocess gets out of GStreamer's hands, other than by kill,
\* only through the late close event of an earlier one, and for good.
THEOREM LetGoOnlyByStaleClose == Spec => LetGoByStaleClose
<1> DEFINE Kept ==
      \A p \in 1..Len(gst) : gst[p].status = "running" /\ gst'[p].status = "running" =>
        /\ subprocess # p => subprocess' # p
        /\ subprocess = p /\ subprocess' # p =>
             \E q \in 1..p - 1 : gst[q].status = "dying" /\ gst'[q].status = "gone"
<1>1. ASSUME IInv, [Next]_vars
      PROVE  Kept
  <2> USE <1>1 DEF IInv
  <2>1. CASE OnClose
    BY <2>1, KillLemma DEF OnClose
  <2>2. ASSUME NEW m \in sent, OnMediasoupProducer(m)
        PROVE  Kept
    BY <2>2 DEF OnMediasoupProducer, Exec, RefersToLast, TypeOK
  <2>3. ASSUME NEW q \in 1..Len(gst), OnGStreamerClose(q)
        PROVE  Kept
    <3> SUFFICES ASSUME NEW p \in 1..Len(gst), gst[p].status = "running",
                        subprocess = p
                 PROVE  \E i \in 1..p - 1 : gst[i].status = "dying" /\ gst'[i].status = "gone"
      BY <2>3 DEF OnGStreamerClose
    <3>1. gst[q].status = "dying" /\ gst'[q].status = "gone"
      BY <2>3, StatusLemma DEF OnGStreamerClose, TypeOK
    <3>2. q # p /\ p = Len(gst)
      BY <3>1 DEF RefersToLast
    <3> QED BY <3>1, <3>2
  <2>4. ASSUME UNCHANGED subprocess
        PROVE  Kept
    BY <2>4
  <2> QED
    BY <1>1, <2>1, <2>2, <2>3, <2>4 DEF Next, Answer, OnOpen, RetryConnect,
       OnMediasoupSendPlainTransport, OnErrorAnswer, GStreamerEnds, vars
<1>2. IInv /\ [Next]_vars => [Kept]_vars
  BY <1>1
<1> HIDE DEF Kept
<1>3. Spec => [][Kept]_vars
  BY <1>2, Invariance, PTL DEF Spec
<1> QED
  BY <1>3 DEF LetGoByStaleClose, Kept

-----------------------------------------------------------------------------
(* The safety half of BroadcastStarts.                                      *)

\* A subprocess in GStreamer's hands was started on this connection, when
\* nothing was left to ask for; and a connection without one has a request out.
Progress ==
  /\ subprocess # 0 => gst[subprocess].by = connections /\ sent = {}
  /\ conn = "open" =>
       sent # {} \/ \E p \in 1..Len(gst) : gst[p].by = connections

\* How many answers the set-up still has to get on an open connection.
AnswersLeft ==
  (IF state = "audio" THEN 2 ELSE 0) +
  (IF sent = {} THEN 0
   ELSE IF \E m \in sent : m.type = "createSendPlainTransport" THEN 2 ELSE 1)

\* The status of a subprocess may change, and one may be added at the end; the
\* connection that it was started on stays.
LEMMA StartedOnStays ==
  ASSUME IInv, [Next]_vars
  PROVE  /\ Len(gst) \in Nat /\ Len(gst') \in Nat /\ Len(gst) <= Len(gst')
         /\ \A p \in 1..Len(gst) : gst'[p].by = gst[p].by
<1>1. gst \in Seq(Subprocess) /\ subprocess \in 0..Len(gst)
  BY DEF IInv, TypeOK
<1>2. ASSUME NEW p \in 1..Len(gst), NEW status,
             gst' = [gst EXCEPT ![p].status = status]
      PROVE  Len(gst') = Len(gst) /\ \A q \in 1..Len(gst) : gst'[q].by = gst[q].by
  BY <1>1, <1>2 DEF Subprocess
<1>3. CASE Kill
  <2>1. CASE subprocess = 0
    BY <1>1, <1>3, <2>1 DEF Kill
  <2>2. CASE subprocess # 0
    BY <1>1, <1>2, <1>3, <2>2 DEF Kill
  <2> QED  BY <2>1, <2>2
<1>4. CASE Exec
  BY <1>1, <1>4 DEF Exec
<1>5. CASE UNCHANGED gst
  BY <1>1, <1>5
<1>6. \/ Kill \/ Exec \/ UNCHANGED gst
      \/ \E p \in 1..Len(gst), status \in {"dying", "gone"} :
           gst' = [gst EXCEPT ![p].status = status]
  BY DEF Next, Answer, OnOpen, OnClose, RetryConnect, GStreamerEnds,
     OnGStreamerClose, OnMediasoupSendPlainTransport, OnMediasoupProducer,
     OnErrorAnswer, vars
<1>7. ASSUME NEW p \in 1..Len(gst), NEW status \in {"dying", "gone"},
             gst' = [gst EXCEPT ![p].status = status]
      PROVE  /\ Len(gst') \in Nat /\ Len(gst) <= Len(gst')
             /\ \A q \in 1..Len(gst) : gst'[q].by = gst[q].by
  BY <1>1, <1>2, <1>7
<1>8. Len(gst) \in Nat
  BY <1>1
<1> QED  BY <1>3, <1>4, <1>5, <1>6, <1>7, <1>8

LEMMA ProgressInv ==
  /\ Init => Progress
  /\ IInv /\ Progress /\ [Next]_vars => Progress'
<1>1. Init => Progress
  BY DEF Init, Progress
<1>2. ASSUME IInv, Progress, [Next]_vars  PROVE Progress'
  <2> USE <1>2 DEF IInv
  <2>1. CASE OnOpen
    BY <2>1 DEF OnOpen, Progress, SetUpShape
  <2>2. CASE OnClose
    BY <2>2 DEF OnClose, Kill, Progress
  <2>3. CASE RetryConnect
    BY <2>3 DEF RetryConnect, Progress, SetUpShape
  <2>4. ASSUME NEW m \in sent, OnMediasoupSendPlainTransport(m)
        PROVE  Progress'
    BY <2>4 DEF OnMediasoupSendPlainTransport, Progress
  <2>5. ASSUME NEW m \in sent, OnMediasoupProducer(m)  PROVE Progress'
    <3>1. subprocess = 0 /\ ~runningFlag /\ sent = {m}
      BY <2>5 DEF Progress, RefersToLast, AnswerIsForState
    <3>2. CASE sent' = (sent \ {m}) \cup {RequestPlainRtpTransport("video")}
               /\ UNCHANGED <<gst, subprocess>>
      BY <3>1, <3>2 DEF Progress
    <3>3. CASE sent' = sent \ {m} /\ Exec
      <4>1. /\ gst' = Append(gst, [status |-> "running", by |-> connections,
                                   port |-> port])
            /\ subprocess' = Len(gst) + 1 /\ connections' = connections
        BY <2>5, <3>1, <3>3 DEF Exec, OnMediasoupProducer
      <4>2. /\ Len(gst') = Len(gst) + 1 /\ Len(gst) \in Nat
            /\ gst'[Len(gst) + 1].by = connections
        BY <4>1 DEF TypeOK
      <4> QED  BY <3>1, <3>3, <4>1, <4>2 DEF Progress
    <3> QED  BY <2>5, <3>2, <3>3 DEF OnMediasoupProducer
  <2>6. ASSUME NEW p \in 1..Len(gst), GStreamerEnds(p)  PROVE Progress'
    BY <2>6, StartedOnStays DEF GStreamerEnds, Progress, TypeOK
  <2>7. ASSUME NEW p \in 1..Len(gst), OnGStreamerClose(p)  PROVE Progress'
    BY <2>7, StartedOnStays DEF OnGStreamerClose, Progress, TypeOK
  <2>8. CASE UNCHANGED <<conn, connections, sent, gst, subprocess>>
    BY <2>8 DEF Progress
  <2> QED
    BY <1>2, <2>1, <2>2, <2>3, <2>4, <2>5, <2>6, <2>7, <2>8
       DEF Next, Answer, OnErrorAnswer, vars
<1> QED  BY <1>1, <1>2

\* A connection that is open has had its subprocess, or has a request out whose
\* answer goes on with the set-up.
THEOREM SetUpGoesOn ==
  Spec => [](conn = "open" =>
               sent # {} \/ \E p \in 1..Len(gst) : gst[p].by = connections)
<1>1. Spec => []Progress
  BY ProgressInv, Invariance, PTL DEF Spec
<1>2. Progress => (conn = "open" =>
                     sent # {} \/ \E p \in 1..Len(gst) : gst[p].by = connections)
  BY DEF Progress
<1> QED  BY <1>1, <1>2, PTL

\* Each answer that does not end the broadcaster brings the set-up one closer to
\* its end, which four of them reach.
THEOREM AnswersLeadOn ==
  Spec => [][/\ AnswersLeft \in 0..4
             /\ (\E m \in sent : Answer(m)) /\ process' = "running" =>
                  AnswersLeft' = AnswersLeft - 1]_vars
<1>1. ASSUME IInv
      PROVE  /\ AnswersLeft \in 0..4
             /\ (\E m \in sent : Answer(m)) /\ process' = "running" =>
                  AnswersLeft' = AnswersLeft - 1
  <2> USE <1>1 DEF IInv
  <2>1. AnswersLeft \in 0..4
    BY DEF AnswersLeft
  <2>2. ASSUME NEW m \in sent, OnMediasoupSendPlainTransport(m)
        PROVE  AnswersLeft' = AnswersLeft - 1
    <3>1. sent = {m} /\ m.type = "createSendPlainTransport"
      BY <2>2, ConstantsAssumption
         DEF OnMediasoupSendPlainTransport, Answered, AnswerIsForState, TypeOK,
             Sent, RequestTypes
    <3>2. /\ sent' = {RequestCreateProducer(transports', state)} /\ state' = state
          /\ RequestCreateProducer(transports', state).type = "produce"
      BY <2>2, <3>1 DEF OnMediasoupSendPlainTransport, RequestCreateProducer
    <3>3. AnswersLeft = (IF state = "audio" THEN 2 ELSE 0) + 2
      BY <3>1 DEF AnswersLeft
    <3>4. AnswersLeft' = (IF state = "audio" THEN 2 ELSE 0) + 1
      BY <3>2 DEF AnswersLeft
    <3> QED  BY <3>3, <3>4
  <2>3. ASSUME NEW m \in sent, OnMediasoupProducer(m)
        PROVE  AnswersLeft' = AnswersLeft - 1
    <3>1. sent = {m} /\ m.type = "produce"
      BY <2>3, ConstantsAssumption
         DEF OnMediasoupProducer, Answered, AnswerIsForState, TypeOK, Sent,
             RequestTypes
    <3>2. CASE state = "audio"
      <4>1. sent' = {RequestPlainRtpTransport("video")} /\ state' = "video"
        BY <2>3, <3>1, <3>2 DEF OnMediasoupProducer
      <4>2. AnswersLeft = 3
        BY <3>1, <3>2 DEF AnswersLeft
      <4>3. RequestPlainRtpTransport("video").type = "createSendPlainTransport"
        BY DEF RequestPlainRtpTransport
      <4>4. AnswersLeft' = 2
        BY <4>1, <4>3 DEF AnswersLeft
      <4> QED  BY <4>2, <4>4
    <3>3. CASE state = "video"
      BY <2>3, <3>1, <3>3 DEF OnMediasoupProducer, AnswersLeft
    <3> QED  BY <3>2, <3>3 DEF TypeOK, Kind
  <2>4. ASSUME NEW m \in sent, OnErrorAnswer(m)  PROVE process' # "running"
    BY <2>4 DEF OnErrorAnswer
  <2> QED  BY <2>1, <2>2, <2>3, <2>4 DEF Answer
<1>2. IInv /\ [Next]_vars =>
        [/\ AnswersLeft \in 0..4
         /\ (\E m \in sent : Answer(m)) /\ process' = "running" =>
              AnswersLeft' = AnswersLeft - 1]_vars
  BY <1>1
<1> QED  BY <1>2, Invariance, PTL DEF Spec

\* exec is never called with a subprocess in GStreamer's hands, so that its
\* warning is never given and no start is lost (gstreamer.ts:49-52).
THEOREM ExecNeverRefuses ==
  Spec => [](\A m \in sent : ~runningFlag /\ subprocess = 0)
<1>1. Spec => []Progress
  BY ProgressInv, Invariance, PTL DEF Spec
<1>2. IInv /\ Progress => \A m \in sent : ~runningFlag /\ subprocess = 0
  BY DEF IInv, Progress, RefersToLast
<1> QED  BY <1>1, <1>2, Invariance, PTL

-----------------------------------------------------------------------------
(* How many subprocesses there are.                                         *)

\* What the connections have had: each one subprocess at most, in their order, and
\* none before the set-up is over.
Ordered ==
  /\ \A p \in 1..Len(gst) : gst[p].by <= connections
  /\ \A p, q \in 1..Len(gst) : p < q => gst[p].by < gst[q].by
  /\ conn = "connecting" \/ sent # {} =>
       \A p \in 1..Len(gst) : gst[p].by < connections

LEMMA Numbers ==
  ASSUME TypeOK
  PROVE  /\ Len(gst) \in Nat /\ connections \in Nat
         /\ \A p \in 1..Len(gst) : gst[p].by \in Nat
<1>1. \A p \in 1..Len(gst) : gst[p] \in Subprocess
  BY DEF TypeOK
<1> QED  BY <1>1 DEF TypeOK, Subprocess

LEMMA OrderedInv ==
  /\ Init => Ordered
  /\ IInv /\ Progress /\ Ordered /\ [Next]_vars => Ordered'
<1>1. Init => Ordered
  BY DEF Init, Ordered
<1>2. ASSUME IInv, Progress, Ordered, [Next]_vars  PROVE Ordered'
  <2>1. /\ Len(gst) \in Nat /\ connections \in Nat
        /\ \A p \in 1..Len(gst) : gst[p].by \in Nat
    BY <1>2, Numbers DEF IInv
  <2>2. CASE /\ Len(gst') = Len(gst) /\ UNCHANGED connections
             /\ conn' = "connecting" \/ sent' # {} =>
                  conn = "connecting" \/ sent # {}
    BY <1>2, <2>1, <2>2, StartedOnStays DEF Ordered
  <2>3. CASE RetryConnect
    BY <1>2, <2>1, <2>3 DEF RetryConnect, Ordered, IInv, SetUpShape
  <2>4. ASSUME NEW m \in sent, Exec, sent' = {}, conn' = conn, conn = "open",
               UNCHANGED connections, ~runningFlag
        PROVE  Ordered'
    <3>1. gst' = Append(gst, [status |-> "running", by |-> connections,
                              port |-> port])
      BY <2>4 DEF Exec
    <3>2. /\ Len(gst') = Len(gst) + 1 /\ gst'[Len(gst) + 1].by = connections
          /\ \A p \in 1..Len(gst) : gst'[p] = gst[p] /\ gst[p].by < connections
      BY <1>2, <2>1, <2>4, <3>1 DEF Ordered, IInv, TypeOK
    <3>3. \A p \in 1..Len(gst') :
            \/ p \in 1..Len(gst) /\ gst'[p].by < connections
            \/ p = Len(gst) + 1 /\ gst'[p].by = connections
      BY <2>1, <3>2
    <3>4. \A p, q \in 1..Len(gst) : p < q => gst'[p].by < gst'[q].by
      BY <1>2, <3>2 DEF Ordered
    <3>5. \A p, q \in 1..Len(gst') : p < q => gst'[p].by < gst'[q].by
      BY <2>1, <3>2, <3>3, <3>4
    <3>6. \A p \in 1..Len(gst') : gst'[p].by <= connections
      BY <2>1, <3>2, <3>3
    <3> QED  BY <2>4, <3>5, <3>6 DEF Ordered
  <2>5. CASE OnClose
    <3>1. Len(gst') = Len(gst) /\ sent' = {} /\ conn' = "closed"
          /\ UNCHANGED connections
      BY <1>2, <2>5, KillLemma DEF OnClose, IInv
    <3> QED  BY <2>2, <3>1
  <2>6. ASSUME NEW m \in sent, OnMediasoupProducer(m)  PROVE Ordered'
    <3>1. ~runningFlag /\ sent = {m} /\ sent # {}
      BY <1>2, <2>6 DEF Progress, IInv, RefersToLast, AnswerIsForState
    <3>2. /\ UNCHANGED <<conn, connections>> /\ conn = "open"
          /\ \/ UNCHANGED gst
             \/ Exec /\ sent' = {}
      BY <2>6, <3>1 DEF OnMediasoupProducer, Answered
    <3> QED  BY <2>2, <2>4, <3>1, <3>2
  <2>7. ASSUME NEW p \in 1..Len(gst), GStreamerEnds(p) \/ OnGStreamerClose(p)
        PROVE  Ordered'
    <3>1. /\ UNCHANGED <<conn, connections, sent>>
          /\ \E status : gst' = [gst EXCEPT ![p].status = status]
      BY <2>7 DEF GStreamerEnds, OnGStreamerClose
    <3>2. Len(gst') = Len(gst)
      BY <1>2, <3>1 DEF IInv, TypeOK
    <3> QED  BY <2>2, <3>1, <3>2
  <2>8. CASE OnOpen
    BY <2>2, <2>8 DEF OnOpen
  <2>9. ASSUME NEW m \in sent, OnMediasoupSendPlainTransport(m) \/ OnErrorAnswer(m)
        PROVE  Ordered'
    BY <2>2, <2>9 DEF OnMediasoupSendPlainTransport, OnErrorAnswer
  <2>10. CASE UNCHANGED vars
    BY <2>2, <2>10 DEF vars
  <2> QED
    BY <1>2, <2>3, <2>5, <2>6, <2>7, <2>8, <2>9, <2>10 DEF Next, Answer
<1> QED  BY <1>1, <1>2

\* However the connections and the subprocesses come and go, a connection starts
\* at most one subprocess.
THEOREM OneSubprocessEach ==
  Spec => [](\A p, q \in 1..Len(gst) : gst[p].by = gst[q].by => p = q)
<1>1. Spec => []Progress
  BY ProgressInv, Invariance, PTL DEF Spec
<1>2. Spec => []Ordered
  BY <1>1, OrderedInv, Invariance, PTL DEF Spec
<1>3. IInv /\ Ordered => \A p, q \in 1..Len(gst) : gst[p].by = gst[q].by => p = q
  <2> SUFFICES ASSUME IInv, Ordered, NEW p \in 1..Len(gst), NEW q \in 1..Len(gst),
                      p # q, gst[p].by = gst[q].by
               PROVE  FALSE
    OBVIOUS
  <2>1. gst[p].by \in Nat /\ Len(gst) \in Nat
    BY Numbers DEF IInv
  <2>2. p < q \/ q < p
    BY <2>1
  <2> QED  BY <2>1, <2>2 DEF Ordered
<1> QED  BY <1>2, <1>3, Invariance, PTL

\* The close event that is run is that of the subprocess in GStreamer's hands, or
\* there is none.
CloseIsOfCurrent ==
  \A p \in 1..Len(gst) : OnGStreamerClose(p) => subprocess \in {0, p}

\* Without late close events exec's refusal to start a second subprocess
\* (gstreamer.ts:49-52) holds: two that have not been killed run at once only
\* through the close event of one that kill did not wait for.
THEOREM TwoNeedAStaleClose ==
  Spec /\ [][CloseIsOfCurrent]_vars => []OneSubprocess
<1> DEFINE OnlyCurrent ==
      \A p \in 1..Len(gst) : gst[p].status = "running" => p = subprocess
<1>1. Init => OnlyCurrent
  BY DEF Init
<1>2. ASSUME IInv, OnlyCurrent, [Next]_vars, [CloseIsOfCurrent]_vars
      PROVE  OnlyCurrent'
  <2>1. CASE OnClose
    BY <1>2, <2>1, KillLemma DEF OnClose, IInv
  <2>2. CASE Exec
    <3>1. CASE runningFlag
      BY <1>2, <2>2, <3>1 DEF Exec
    <3>2. CASE ~runningFlag
      <4>1. subprocess' = Len(gst) + 1 /\ subprocess = 0
        BY <1>2, <2>2, <3>2 DEF Exec, IInv, RefersToLast
      <4>2. \A p \in 1..Len(gst) : gst[p].status # "running"
        BY <1>2, <4>1
      <4>3. /\ Len(gst') = Len(gst) + 1
            /\ \A p \in 1..Len(gst) : gst'[p] = gst[p]
        BY <1>2, <2>2, <3>2 DEF Exec, IInv, TypeOK
      <4> QED  BY <4>1, <4>2, <4>3
    <3> QED  BY <3>1, <3>2
  <2>3. ASSUME NEW p \in 1..Len(gst), GStreamerEnds(p)  PROVE OnlyCurrent'
    BY <1>2, <2>3, StatusLemma DEF GStreamerEnds, IInv, TypeOK
  <2>4. ASSUME NEW p \in 1..Len(gst), OnGStreamerClose(p)  PROVE OnlyCurrent'
    <3>1. /\ Len(gst') = Len(gst) /\ gst'[p].status = "gone"
          /\ \A q \in 1..Len(gst) : q # p => gst'[q] = gst[q]
      BY <1>2, <2>4, StatusLemma DEF OnGStreamerClose, IInv, TypeOK
    <3>2. subprocess \in {0, p} \/ UNCHANGED vars
      BY <1>2, <2>4 DEF CloseIsOfCurrent
    <3> QED  BY <1>2, <3>1, <3>2 DEF vars
  <2>5. CASE UNCHANGED <<gst, subprocess>>
    BY <1>2, <2>5
  <2> QED
    BY <1>2, <2>1, <2>2, <2>3, <2>4, <2>5
       DEF Next, Answer, OnOpen, RetryConnect, OnMediasoupSendPlainTransport,
           OnMediasoupProducer, OnErrorAnswer, vars
<1>3. OnlyCurrent => OneSubprocess
  BY DEF OneSubprocess
<1> HIDE DEF OnlyCurrent
<1> QED  BY <1>1, <1>2, <1>3, Invariance, PTL DEF Spec

\* A server that does not call its answer sendPlainTransport never gets a stream
\* (README.md:177), however often the broadcaster connects: the finding of
\* BroadcastServer for any number of connections.
THEOREM OtherServersGetNothing ==
  Spec /\ ReplyType["createSendPlainTransport"] # "sendPlainTransport" =>
    [](gst = <<>> /\ produced = {})
<1> DEFINE Foreign == ReplyType["createSendPlainTransport"] # "sendPlainTransport"
           Nothing == /\ gst = <<>> /\ produced = {}
                      /\ \A m \in sent : m.type = "createSendPlainTransport"
<1>1. Init => Nothing
  BY DEF Init
<1>2. ASSUME IInv, Nothing, Foreign, [Next]_vars  PROVE Nothing'
  <2>1. CASE OnOpen
    BY <1>2, <2>1 DEF OnOpen, RequestPlainRtpTransport
  <2>2. CASE OnClose
    BY <1>2, <2>2 DEF OnClose, Kill, IInv, TypeOK
  <2>3. ASSUME NEW m \in sent, NEW type, Answered(m, type)
        PROVE  type \notin {"sendPlainTransport", "producer"}
    BY <1>2, <2>3, ConstantsAssumption DEF Answered
  <2>4. CASE UNCHANGED <<gst, produced, sent>>
    BY <1>2, <2>4
  <2>5. \A p \in 1..Len(gst) : FALSE
    BY <1>2
  <2> QED
    BY <1>2, <2>1, <2>2, <2>3, <2>4, <2>5
       DEF Next, Answer, RetryConnect, OnMediasoupSendPlainTransport,
           OnMediasoupProducer, OnErrorAnswer, vars
<1>3. Nothing => gst = <<>> /\ produced = {}
  OBVIOUS
<1> HIDE DEF Nothing
<1>4. Foreign => Foreign'
  OBVIOUS
<1> HIDE DEF Foreign
<1>5. Spec /\ Foreign => []Nothing
  BY <1>1, <1>2, <1>4, Invariance, PTL DEF Spec
<1>6. Spec /\ Foreign => [](gst = <<>> /\ produced = {})
  BY <1>3, <1>5, PTL
<1> QED  BY <1>6 DEF Foreign
=============================================================================
