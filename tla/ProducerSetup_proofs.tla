------------------------ MODULE ProducerSetup_proofs ------------------------
(***************************************************************************)
(* Proofs about ProducerSetup, for any settings: answers without an        *)
(* identity of their own always reach the stream they are for.             *)
(***************************************************************************)
EXTENDS ProducerSetup, TLAPS

\* The program starts in the invariant.
LEMMA InitInv == Init => IInv
<1> SUFFICES ASSUME Init PROVE IInv
  OBVIOUS
<1>1. streams \in Seq(Stream) /\ Len(streams) \in Nat
  BY SettingsAssumption DEF Init
<1>2. TypeOK
  BY <1>1 DEF Init, TypeOK, Streams, FirstState, Stream
<1>3. Phases /\ KeysAreSound /\ OneAtATime /\ AnswerIsForHead
  BY <1>1 DEF Init, Phases, KeysAreSound, OneAtATime, AnswerIsForHead
<1>4. SendersReachTheirProducer /\ StallsOnlyOnError /\ KeyIsOfFirst
  BY <1>1 DEF Init, SendersReachTheirProducer, StallsOnlyOnError, KeyIsOfFirst
<1>5. QueueShape
  BY <1>1 DEF Init, QueueShape, Untouched
<1> QED  BY <1>2, <1>3, <1>4, <1>5 DEF IInv

\* Before the connection a stream is queued and no request goes out.
LEMMA CreateInv == ASSUME IInv, CreateMediaProducer PROVE IInv'
<1>1. /\ streams \in Seq(Stream) /\ Len(streams) \in Nat
      /\ pc \in Streams /\ pc \in Nat /\ streams' = streams /\ pc' = pc + 1
      /\ state' = state /\ dest' = dest /\ ws' = ws
      /\ creating \in Seq(Streams) /\ Len(creating) \in Nat
      /\ Streams' = Streams
  BY DEF IInv, TypeOK, CreateMediaProducer, Streams
<1>2. ws = "idle" /\ sent = <<>>
  BY <1>1 DEF IInv, Phases, Streams
<1>3. sent' = sent
  BY <1>1, <1>2 DEF CreateMediaProducer, CreateNextProducer
<1>4. Phases' /\ OneAtATime' /\ AnswerIsForHead' /\ SendersReachTheirProducer'
      /\ StallsOnlyOnError'
  BY <1>1, <1>2, <1>3
     DEF Phases, OneAtATime, AnswerIsForHead, SendersReachTheirProducer,
         StallsOnlyOnError
<1>5. CASE ~Enabled(pc)
  <2>1. UNCHANGED <<byKey, creating>>
    BY <1>5 DEF CreateMediaProducer
  <2>2. TypeOK'
    BY <1>1, <1>2, <1>3, <2>1 DEF IInv, TypeOK, Streams
  <2>3. QueueShape'
    BY SMTT(20), <1>1, <1>2, <1>3, <2>1
       DEF IInv, QueueShape, Untouched, HeadKind, Enabled, Streams, TypeOK
  <2>4. KeysAreSound'
    BY <1>1, <1>2, <2>1 DEF IInv, KeysAreSound, Enabled
  <2>5. KeyIsOfFirst'
    BY <1>1, <1>2, <1>5, <2>1 DEF IInv, KeyIsOfFirst, Enabled, Streams
  <2> QED  BY <1>4, <2>2, <2>3, <2>4, <2>5 DEF IInv
<1>6. CASE Enabled(pc)
  <2> DEFINE key == streams[pc].key
  <2>1. /\ byKey' = IF byKey[key] = 0 THEN [byKey EXCEPT ![key] = pc] ELSE byKey
        /\ creating' = Append(creating, pc)
    BY <1>6 DEF CreateMediaProducer
  <2>2. /\ key \in Key /\ byKey \in [Key -> Streams \cup {0}]
        /\ byKey' \in [Key -> Streams \cup {0}] /\ 0 \notin Streams
    <3>1. streams[pc] \in Stream /\ 0 \notin Streams
      BY <1>1 DEF Streams
    <3>2. byKey \in [Key -> Streams \cup {0}]
      BY DEF IInv, TypeOK
    <3>3. key \in Key
      BY <3>1 DEF Stream
    <3> QED  BY <1>1, <2>1, <3>1, <3>2, <3>3
  <2>3. /\ Len(creating') = Len(creating) + 1
        /\ \A n \in 1..Len(creating) : creating'[n] = creating[n]
        /\ creating'[Len(creating) + 1] = pc
        /\ creating' \in Seq(Streams)
    BY <1>1, <2>1
  <2> HIDE DEF key
  <2>4. TypeOK'
    BY <1>1, <1>2, <1>3, <2>2, <2>3 DEF IInv, TypeOK, Streams
  <2>5. QueueShape'
    <3>1. Untouched(pc) /\ state[pc] \in {"CreatingVideo", "CreatingAudio"}
      BY <1>1, <1>6 DEF IInv, QueueShape, Untouched, FirstState, Enabled, Streams
    <3>2. ASSUME NEW n \in 1..Len(creating')
          PROVE  /\ creating'[n] < pc + 1 /\ Enabled(creating'[n])
                 /\ state[creating'[n]] \in {"CreatingVideo", "CreatingAudio"}
                 /\ Untouched(creating'[n])
      <4>1. CASE n = Len(creating) + 1
        BY <1>1, <1>6, <2>3, <3>1, <4>1
      <4>2. CASE n \in 1..Len(creating)
        <5>1. QueueShape
          BY DEF IInv
        <5>2. /\ creating[n] < pc /\ Enabled(creating[n])
              /\ state[creating[n]] \in {"CreatingVideo", "CreatingAudio"}
              /\ Untouched(creating[n])
          BY ONLY <1>2, <4>2, <5>1 DEF QueueShape
        <5>3. creating'[n] = creating[n] /\ creating[n] < pc + 1
          <6>1. creating[n] \in Nat /\ creating'[n] = creating[n]
            BY SMTT(20), <1>1, <2>3, <4>2 DEF Streams
          <6> QED  BY ONLY <1>1, <5>2, <6>1
        <5> QED  BY ONLY <5>2, <5>3
      <4> QED  BY <1>1, <2>3, <4>1, <4>2
    <3>3. \A m, n \in 1..Len(creating') : m < n => creating'[m] < creating'[n]
      <4> SUFFICES ASSUME NEW m \in 1..Len(creating'), NEW n \in 1..Len(creating'),
                          m < n
                   PROVE  creating'[m] < creating'[n]
        OBVIOUS
      <4>1. m \in 1..Len(creating) /\ creating'[m] = creating[m] /\ creating[m] < pc
        BY <1>1, <2>3 DEF IInv, QueueShape
      <4>2. CASE n = Len(creating) + 1
        BY <2>3, <4>1, <4>2
      <4>3. CASE n \in 1..Len(creating)
        BY <2>3, <4>1, <4>3 DEF IInv, QueueShape
      <4> QED  BY <1>1, <2>3, <4>2, <4>3
    <3>4. \A i \in Streams : i >= pc + 1 => Untouched(i)
      BY <1>1 DEF IInv, QueueShape, Streams
    <3>5. dest'[Head(creating')]["audio"] = 0
      <4>1. Head(creating') = creating'[1] /\ 1 \in 1..Len(creating')
        BY <1>1, <2>3
      <4> QED  BY <1>1, <3>2, <4>1 DEF Untouched, Kind
    <3> QED  BY <1>1, <3>2, <3>3, <3>4, <3>5
             DEF QueueShape, Untouched, Enabled
  <2>6. KeysAreSound'
    <3> SUFFICES ASSUME NEW k \in Key, byKey'[k] # 0
                 PROVE  \E i \in 1..pc : i \in Streams /\ Enabled(i)
                                         /\ streams[i].key = k
      BY <1>1 DEF KeysAreSound, Enabled
    <3>1. CASE k = key /\ byKey[key] = 0
      BY <1>1, <1>6, <3>1 DEF key, Streams
    <3>2. CASE byKey[k] # 0
      BY <1>1, <1>2, <3>2 DEF IInv, KeysAreSound, Streams
    <3> QED  BY <2>1, <2>2, <3>1, <3>2
  <2>7. KeyIsOfFirst'
    <3> SUFFICES ASSUME NEW i \in 1..pc, i \in Streams, Enabled(i)
                 PROVE  \E j \in 1..i :
                          /\ byKey'[streams[i].key] = j
                          /\ Enabled(j) /\ streams[j].key = streams[i].key
                          /\ \A k \in 1..j - 1 :
                               Enabled(k) => streams[k].key # streams[j].key
      BY SMTT(20), <1>1 DEF KeyIsOfFirst, Enabled
    <3>1. CASE i < pc
      <4>1. PICK j \in 1..i :
              /\ byKey[streams[i].key] = j
              /\ Enabled(j) /\ streams[j].key = streams[i].key
              /\ \A k \in 1..j - 1 : Enabled(k) => streams[k].key # streams[j].key
        BY <1>1, <1>2, <3>1 DEF IInv, KeyIsOfFirst, Streams
      <4>2. streams[i] \in Stream
        BY <1>1 DEF Streams
      <4>3. streams[i].key \in Key /\ j # 0
        BY <1>1, <4>2 DEF Stream, Streams
      <4> QED  BY <2>1, <2>2, <4>1, <4>3
    <3>2. CASE i = pc /\ byKey[key] = 0
      <4>1. \A k \in 1..pc - 1 : Enabled(k) => streams[k].key # key
        BY <1>1, <1>2, <3>2 DEF IInv, KeyIsOfFirst, Streams
      <4> QED  BY <1>1, <1>6, <2>1, <2>2, <3>2, <4>1 DEF key, Streams
    <3>3. CASE i = pc /\ byKey[key] # 0
      <4>1. PICK h \in 1..pc - 1 : h \in Streams /\ Enabled(h) /\ streams[h].key = key
        BY <1>2, <2>2, <3>3 DEF IInv, KeysAreSound
      <4>2. PICK j \in 1..h :
              /\ byKey[key] = j
              /\ Enabled(j) /\ streams[j].key = key
              /\ \A k \in 1..j - 1 : Enabled(k) => streams[k].key # streams[j].key
        BY SMTT(20), <1>1, <1>2, <4>1 DEF IInv, KeyIsOfFirst, Streams
      <4> QED  BY <1>1, <2>1, <3>3, <4>1, <4>2 DEF key, Streams
    <3> QED  BY <1>1, <3>1, <3>2, <3>3
  <2> QED  BY <1>4, <2>4, <2>5, <2>6, <2>7 DEF IInv
<1> QED  BY <1>5, <1>6

\* The phases of the connection.
LEMMA ConnectInv == ASSUME IInv, Connect PROVE IInv'
<1>1. /\ Len(streams) \in Nat /\ pc = Len(streams) + 1 /\ pc' = Len(streams) + 2
      /\ ws = "idle" /\ ws' = "connecting" /\ sent = <<>>
      /\ UNCHANGED <<streams, creating, byKey, state, dest, sent>>
      /\ \A i \in Streams : i < pc
  BY DEF IInv, TypeOK, Connect, Phases, Streams
<1>2. TypeOK' /\ Phases'
  BY <1>1 DEF IInv, TypeOK, Phases, Streams
<1>3. QueueShape'
  BY <1>1 DEF IInv, TypeOK, QueueShape, Untouched, HeadKind, Enabled, Streams
<1>4. KeysAreSound' /\ KeyIsOfFirst'
  BY <1>1 DEF IInv, KeysAreSound, KeyIsOfFirst, Enabled, Streams
<1>5. OneAtATime' /\ AnswerIsForHead' /\ SendersReachTheirProducer' /\ StallsOnlyOnError'
  BY <1>1 DEF OneAtATime, AnswerIsForHead, SendersReachTheirProducer, StallsOnlyOnError
<1> QED  BY <1>2, <1>3, <1>4, <1>5 DEF IInv

\* What a client that stops answering for good leaves behind.
LEMMA EndInv == ASSUME IInv, OnFailedToConnect \/ OnDisconnected PROVE IInv'
<1>1. /\ pc = Len(streams) + 2 /\ ws' \in {"failed", "closed"}
      /\ ws' = "failed" => sent = <<>>
      /\ UNCHANGED <<streams, pc, creating, state, dest, sent>>
      /\ ws' = "closed" \/ (byKey' = byKey /\ ws # "closed")
      /\ byKey' \in [Key -> Streams \cup {0}]
  BY DEF IInv, TypeOK, Phases, OnFailedToConnect, OnDisconnected
<1>2. TypeOK' /\ Phases'
  BY <1>1 DEF IInv, TypeOK, Phases, Streams
<1>3. QueueShape'
  BY <1>1 DEF IInv, QueueShape, Untouched, HeadKind, Enabled, Streams
<1>4. KeysAreSound' /\ KeyIsOfFirst'
  BY <1>1 DEF IInv, KeysAreSound, KeyIsOfFirst, Enabled, Streams
<1>5. OneAtATime' /\ AnswerIsForHead' /\ SendersReachTheirProducer' /\ StallsOnlyOnError'
  BY <1>1 DEF IInv, OneAtATime, AnswerIsForHead, SendersReachTheirProducer, HeadKind,
              StallsOnlyOnError, Streams
<1> QED  BY <1>2, <1>3, <1>4, <1>5 DEF IInv

\* What every step of the connected client leaves alone.
LEMMA Unaffected ==
  ASSUME IInv, ws' = "connected", pc = Len(streams) + 2, ws # "closed",
         UNCHANGED <<streams, pc, byKey>>
  PROVE  Phases' /\ KeysAreSound' /\ KeyIsOfFirst'
BY DEF IInv, Phases, KeysAreSound, KeyIsOfFirst, Enabled, Streams

\* A request for a plain transport, for the head of a queue that is not empty,
\* after a log of answered requests.
LEMMA RequestTransport ==
  ASSUME NEW log \in Seq(Sent), NEW s, sent' = Append(log, s),
         s = [what |-> "transport", on |-> 0, of |-> 0, kind |-> "none",
              answer |-> "waiting"],
         \A r \in 1..Len(log) : log[r].answer = "ok",
         \A r \in 1..Len(log) : log[r].what = "produce" =>
           /\ log[r].of \in Streams' /\ log[r].kind \in Kind
           /\ dest'[log[r].of][log[r].kind] = log[r].on
           /\ r > 1 /\ log[r].on = r - 1 /\ log[r - 1].what = "transport",
         creating' # <<>>,
         state'[Head(creating')] \in {"CreatingVideo", "CreatingAudio"},
         dest'[Head(creating')][HeadKind'] = 0
  PROVE  /\ sent' \in Seq(Sent) /\ sent' # <<>>
         /\ OneAtATime' /\ AnswerIsForHead' /\ SendersReachTheirProducer'
         /\ StallsOnlyOnError'
<1>1. s \in Sent
  BY DEF Sent
<1>2. /\ Len(log) \in Nat /\ Len(sent') = Len(log) + 1
      /\ \A r \in 1..Len(log) : sent'[r] = log[r]
      /\ sent'[Len(log) + 1] = s /\ sent' \in Seq(Sent) /\ sent' # <<>>
  BY <1>1
<1>3. OneAtATime' /\ StallsOnlyOnError'
  BY <1>2 DEF OneAtATime, StallsOnlyOnError
<1>4. AnswerIsForHead'
  BY <1>2 DEF AnswerIsForHead, HeadKind
<1>5. SendersReachTheirProducer'
  <2> SUFFICES ASSUME NEW r \in 1..Len(sent'), sent'[r].what = "produce"
               PROVE  /\ sent'[r].of \in Streams' /\ sent'[r].kind \in Kind
                      /\ dest'[sent'[r].of][sent'[r].kind] = sent'[r].on
                      /\ r > 1 /\ sent'[r].on = r - 1
                      /\ sent'[r - 1].what = "transport"
    BY DEF SendersReachTheirProducer
  <2>1. r \in 1..Len(log) /\ sent'[r] = log[r]
    BY <1>2
  <2>2. r > 1 /\ log[r - 1].what = "transport" /\ log[r].on = r - 1
    BY <2>1
  <2>3. r - 1 \in 1..Len(log)
    BY <1>2, <2>1, <2>2
  <2> QED  BY <1>2, <2>1, <2>2, <2>3
<1> QED  BY <1>2, <1>3, <1>4, <1>5

\* The log when the last request is answered.
LEMMA AnsweredLast ==
  ASSUME IInv, NEW r \in 1..Len(sent), sent[r].answer = "waiting",
         NEW answer \in {"ok", "error"}
  PROVE  /\ r = Len(sent) /\ Len(Log(r, answer)) = r
         /\ Log(r, answer) \in Seq(Sent)
         /\ Log(r, answer)[r] = [sent[r] EXCEPT !.answer = answer]
         /\ \A q \in 1..Len(sent) : /\ sent[q] \in Sent
                                    /\ Log(r, answer)[q].what = sent[q].what
                                    /\ Log(r, answer)[q].on = sent[q].on
                                    /\ Log(r, answer)[q].of = sent[q].of
                                    /\ Log(r, answer)[q].kind = sent[q].kind
                                    /\ q # r => Log(r, answer)[q] = sent[q]
         /\ \A q \in 1..r - 1 : sent[q].answer = "ok"
         /\ answer = "ok" => \A q \in 1..r : Log(r, answer)[q].answer = "ok"
<1>1. sent \in Seq(Sent) /\ Len(sent) \in Nat /\ sent[r] \in Sent
  BY DEF IInv, TypeOK
<1>2. r = Len(sent)
  BY <1>1 DEF IInv, OneAtATime
<1>3. [sent[r] EXCEPT !.answer = answer] \in Sent
  BY <1>1 DEF Sent
<1>4. /\ Log(r, answer) \in Seq(Sent) /\ Len(Log(r, answer)) = Len(sent)
      /\ Log(r, answer)[r] = [sent[r] EXCEPT !.answer = answer]
      /\ \A q \in 1..Len(sent) : q # r => Log(r, answer)[q] = sent[q]
  BY <1>1, <1>3 DEF Log
<1>5. /\ Log(r, answer)[r].what = sent[r].what /\ Log(r, answer)[r].on = sent[r].on
      /\ Log(r, answer)[r].of = sent[r].of /\ Log(r, answer)[r].kind = sent[r].kind
      /\ Log(r, answer)[r].answer = answer
  BY <1>1, <1>4 DEF Sent
<1>6. \A q \in 1..r - 1 : sent[q].answer = "ok"
  BY <1>1, <1>2 DEF IInv, OneAtATime
<1>7. ASSUME NEW q \in 1..Len(sent)
      PROVE  /\ sent[q] \in Sent
             /\ Log(r, answer)[q].what = sent[q].what
             /\ Log(r, answer)[q].on = sent[q].on
             /\ Log(r, answer)[q].of = sent[q].of
             /\ Log(r, answer)[q].kind = sent[q].kind
             /\ q # r => Log(r, answer)[q] = sent[q]
  <2>1. sent[q] \in Sent
    BY <1>1
  <2>2. CASE q = r
    BY <1>5, <2>1, <2>2
  <2>3. CASE q # r
    BY <1>4, <2>1, <2>3
  <2> QED  BY <2>2, <2>3
<1>8. ASSUME answer = "ok", NEW q \in 1..r
      PROVE  Log(r, answer)[q].answer = "ok"
  <2>1. CASE q = r
    BY <1>5, <1>8, <2>1
  <2>2. CASE q \in 1..r - 1
    BY <1>1, <1>2, <1>4, <1>6, <2>2
  <2> QED  BY <1>1, <1>2, <2>1, <2>2
<1> HIDE DEF Log
<1> QED  BY <1>2, <1>4, <1>6, <1>7, <1>8

\* The connection opens: the first stream's transport is requested.
LEMMA ConnectedInv == ASSUME IInv, OnConnected PROVE IInv'
<1>1. /\ pc = Len(streams) + 2 /\ ws = "connecting" /\ ws' = "connected"
      /\ sent = <<>> /\ creating \in Seq(Streams)
      /\ UNCHANGED <<streams, pc, creating, byKey, state, dest>>
  BY DEF IInv, TypeOK, Phases, OnConnected
<1>2. Phases' /\ KeysAreSound' /\ KeyIsOfFirst'
  BY <1>1, Unaffected
<1>3. CASE creating = <<>>
  <2>1. sent' = <<>>
    BY <1>1, <1>3 DEF OnConnected, CreateNextProducer
  <2>2. TypeOK'
    BY <1>1, <2>1 DEF IInv, TypeOK, Streams
  <2>3. QueueShape'
    BY <1>1, <1>3, <2>1 DEF IInv, QueueShape, Untouched, Streams
  <2>4. OneAtATime' /\ AnswerIsForHead' /\ SendersReachTheirProducer' /\ StallsOnlyOnError'
    BY <1>1, <1>3, <2>1
       DEF OneAtATime, AnswerIsForHead, SendersReachTheirProducer, StallsOnlyOnError
  <2> QED  BY <1>2, <2>2, <2>3, <2>4 DEF IInv
<1>4. CASE creating # <<>>
  <2> DEFINE s == [what |-> "transport", on |-> 0, of |-> 0, kind |-> "none",
                   answer |-> "waiting"]
  <2>1. sent' = Append(sent, s)
    BY <1>1, <1>4
       DEF OnConnected, CreateNextProducer, RequestPlainRtpTransport, SendMessage
  <2>2. /\ 1 \in 1..Len(creating) /\ Head(creating) = creating[1]
        /\ Head(creating) \in Streams
    BY <1>1, <1>4
  <2>3. /\ state[Head(creating)] \in {"CreatingVideo", "CreatingAudio"}
        /\ \A kind \in Kind : dest[Head(creating)][kind] = 0
    BY <1>1, <2>2 DEF IInv, QueueShape, Untouched
  <2>4. dest'[Head(creating')][HeadKind'] = 0
    BY <1>1, <2>3 DEF HeadKind, Kind
  <2> HIDE DEF s
  <2>5. /\ sent' \in Seq(Sent) /\ sent' # <<>>
        /\ OneAtATime' /\ AnswerIsForHead' /\ SendersReachTheirProducer'
        /\ StallsOnlyOnError'
    <3>1. /\ sent \in Seq(Sent) /\ Len(sent) = 0 /\ creating' # <<>>
          /\ state'[Head(creating')] \in {"CreatingVideo", "CreatingAudio"}
      BY <1>1, <1>4, <2>3
    <3>2. \A r \in 1..Len(sent) : FALSE
      BY <3>1
    <3> QED  BY <2>1, <2>4, <3>1, <3>2, RequestTransport DEF s
  <2>6. TypeOK'
    BY <1>1, <2>5 DEF IInv, TypeOK, Streams
  <2>7. QueueShape'
    BY <1>1, <2>5 DEF IInv, QueueShape, Untouched, Enabled, HeadKind, Streams
  <2> QED  BY <1>2, <2>5, <2>6, <2>7 DEF IInv
<1> QED  BY <1>3, <1>4

\* An error leaves the head where it is.
LEMMA ErrorInv ==
  ASSUME IInv, NEW r \in 1..Len(sent), OnErrorAnswer(r) PROVE IInv'
<1>1. /\ sent[r].answer = "waiting" /\ ws = "connected" /\ ws' = "connected"
      /\ sent' = Log(r, "error") /\ pc = Len(streams) + 2 /\ sent # <<>>
      /\ UNCHANGED <<streams, pc, creating, byKey, state, dest>>
  BY DEF IInv, Phases, OnErrorAnswer, Answered
<1>2. Phases' /\ KeysAreSound' /\ KeyIsOfFirst'
  BY <1>1, Unaffected
<1>3. /\ r = Len(sent) /\ Len(sent') = r /\ sent' \in Seq(Sent)
      /\ sent'[r] = [sent[r] EXCEPT !.answer = "error"]
      /\ \A q \in 1..Len(sent) : /\ sent[q] \in Sent
                                 /\ sent'[q].what = sent[q].what
                                 /\ sent'[q].on = sent[q].on
                                 /\ sent'[q].of = sent[q].of
                                 /\ sent'[q].kind = sent[q].kind
                                 /\ q # r => sent'[q] = sent[q]
      /\ \A q \in 1..r - 1 : sent[q].answer = "ok"
  BY ZenonT(40), <1>1, AnsweredLast
<1>4. sent'[r].answer = "error" /\ sent' # <<>>
  BY <1>3 DEF Sent
<1>5. TypeOK'
  BY <1>1, <1>3 DEF IInv, TypeOK, Streams
<1>6. QueueShape'
  BY <1>1, <1>4 DEF IInv, QueueShape, Untouched, Enabled, HeadKind, Streams
<1>7. OneAtATime' /\ StallsOnlyOnError'
  BY <1>3, <1>4 DEF OneAtATime, StallsOnlyOnError
<1>8. AnswerIsForHead'
  BY <1>1, <1>3 DEF IInv, AnswerIsForHead
<1>9. SendersReachTheirProducer'
  <2> SUFFICES ASSUME NEW q \in 1..Len(sent'), sent'[q].what = "produce"
               PROVE  /\ sent'[q].of \in Streams' /\ sent'[q].kind \in Kind
                      /\ dest'[sent'[q].of][sent'[q].kind] = sent'[q].on
                      /\ q > 1 /\ sent'[q].on = q - 1
                      /\ sent'[q - 1].what = "transport"
    BY DEF SendersReachTheirProducer
  <2>1. /\ q \in 1..Len(sent) /\ q > 1 /\ sent[q].on = q - 1
        /\ sent[q - 1].what = "transport"
        /\ sent[q].of \in Streams /\ sent[q].kind \in Kind
        /\ dest[sent[q].of][sent[q].kind] = sent[q].on
    BY <1>3 DEF IInv, SendersReachTheirProducer
  <2>2. q - 1 \in 1..Len(sent)
    BY <1>3, <2>1
  <2> QED  BY <1>1, <1>3, <2>1, <2>2 DEF Streams
<1> QED  BY <1>2, <1>5, <1>6, <1>7, <1>8, <1>9 DEF IInv

\* The log of an answered last request keeps what it says of producers.
LEMMA AnsweredProduces ==
  ASSUME IInv, NEW r \in 1..Len(sent), sent[r].answer = "waiting",
         NEW q \in 1..r, Log(r, "ok")[q].what = "produce"
  PROVE  /\ Log(r, "ok")[q].of \in Streams /\ Log(r, "ok")[q].kind \in Kind
         /\ dest[Log(r, "ok")[q].of][Log(r, "ok")[q].kind] = Log(r, "ok")[q].on
         /\ q > 1 /\ Log(r, "ok")[q].on = q - 1
         /\ Log(r, "ok")[q - 1].what = "transport"
<1>1. /\ r = Len(sent) /\ Len(sent) \in Nat
      /\ \A p \in 1..Len(sent) : /\ Log(r, "ok")[p].what = sent[p].what
                                 /\ Log(r, "ok")[p].on = sent[p].on
                                 /\ Log(r, "ok")[p].of = sent[p].of
                                 /\ Log(r, "ok")[p].kind = sent[p].kind
  <2>1. "ok" \in {"ok", "error"} /\ Len(sent) \in Nat
    BY DEF IInv, TypeOK
  <2> HIDE DEF Log
  <2> QED  BY ZenonT(40), <2>1, AnsweredLast
<1> HIDE DEF Log
<1>2. /\ sent[q].of \in Streams /\ sent[q].kind \in Kind
      /\ dest[sent[q].of][sent[q].kind] = sent[q].on
      /\ q > 1 /\ sent[q].on = q - 1 /\ sent[q - 1].what = "transport"
  BY <1>1 DEF IInv, SendersReachTheirProducer
<1>3. q - 1 \in 1..Len(sent) /\ q \in 1..Len(sent)
  BY <1>1, <1>2
<1> QED  BY <1>1, <1>2, <1>3

\* A transport: the head's sender opens to it and asks for its producer.
LEMMA TransportInv ==
  ASSUME IInv, NEW r \in 1..Len(sent), OnMediasoupSendPlainTransport(r)
  PROVE  IInv'
<1> DEFINE head == Head(creating)
           log == Log(r, "ok")
           s == [what |-> "produce", on |-> r, of |-> head, kind |-> HeadKind,
                 answer |-> "waiting"]
<1>1. /\ sent[r].answer = "waiting" /\ sent[r].what = "transport"
      /\ ws = "connected" /\ ws' = "connected" /\ pc = Len(streams) + 2
      /\ UNCHANGED <<streams, pc, creating, byKey, state>>
  BY DEF IInv, Phases, OnMediasoupSendPlainTransport, Answered
<1>2. /\ creating # <<>> /\ state[head] \in {"CreatingVideo", "CreatingAudio"}
      /\ dest[head][HeadKind] = 0
  BY <1>1 DEF IInv, AnswerIsForHead, HeadKind
<1>3. /\ dest' = [dest EXCEPT ![head][HeadKind] = r]
      /\ sent' = Append(log, s)
  BY <1>1, <1>2 DEF OnMediasoupSendPlainTransport, RequestCreateProducer, SendMessage,
                    HeadKind
<1>4. /\ creating \in Seq(Streams) /\ Len(creating) \in Nat \ {0}
      /\ head \in Streams /\ head = creating[1] /\ HeadKind \in Kind
      /\ dest \in [Streams -> [Kind -> Nat]] /\ r \in Nat /\ r > 0
      /\ Streams \subseteq Nat /\ Streams' = Streams /\ Len(streams) \in Nat
  BY <1>1, <1>2 DEF IInv, TypeOK, HeadKind, Kind, Streams
<1>5. /\ r = Len(sent) /\ Len(log) = r /\ log \in Seq(Sent)
      /\ log[r].what = "transport"
      /\ \A q \in 1..r : log[q].answer = "ok"
  BY <1>1, AnsweredLast
<1>6. ASSUME NEW q \in 1..r, log[q].what = "produce"
      PROVE  /\ log[q].of \in Streams /\ log[q].kind \in Kind
             /\ dest[log[q].of][log[q].kind] = log[q].on
             /\ q > 1 /\ log[q].on = q - 1 /\ log[q - 1].what = "transport"
  BY <1>1, <1>6, AnsweredProduces
<1>7. /\ s \in Sent /\ s.what = "produce" /\ s.on = r /\ s.of = head
      /\ s.kind = HeadKind /\ s.answer = "waiting"
  BY <1>4 DEF Sent, Streams
<1> HIDE DEF head, log, s
<1>8. /\ Len(sent') = r + 1 /\ sent'[r + 1] = s /\ sent' \in Seq(Sent) /\ sent' # <<>>
      /\ \A q \in 1..r : sent'[q] = log[q]
  BY <1>3, <1>4, <1>5, <1>7
<1>9. /\ dest' \in [Streams -> [Kind -> Nat]] /\ dest'[head][HeadKind] = r
      /\ \A i \in Streams, kind \in Kind :
           i # head \/ kind # HeadKind => dest'[i][kind] = dest[i][kind]
  BY <1>3, <1>4
<1>10. Phases' /\ KeysAreSound' /\ KeyIsOfFirst'
  BY <1>1, Unaffected
<1>11. TypeOK'
  BY <1>1, <1>4, <1>8, <1>9 DEF IInv, TypeOK
<1>12. HeadKind' = HeadKind
  BY <1>1 DEF HeadKind
<1>13. QueueShape'
  <2>1. ASSUME NEW n \in 1..Len(creating), n > 1
        PROVE  Untouched(creating[n])'
    <3>1. creating[n] # head /\ creating[n] \in Streams /\ Untouched(creating[n])
      BY <1>4, <2>1 DEF IInv, QueueShape
    <3> QED  BY <1>1, <1>9, <3>1 DEF Untouched
  <2>2. ~ \E i \in Streams : i >= pc
    BY <1>1, <1>4 DEF Streams
  <2>3. HeadKind = "video" => dest'[head]["audio"] = 0
    BY <1>2, <1>4, <1>9 DEF IInv, QueueShape, Kind, head
  <2> QED  BY <1>1, <1>2, <1>4, <1>8, <1>12, <2>1, <2>2, <2>3
           DEF IInv, QueueShape, Enabled, head, Untouched
<1>14. OneAtATime' /\ StallsOnlyOnError'
  BY <1>4, <1>5, <1>7, <1>8 DEF OneAtATime, StallsOnlyOnError
<1>15. AnswerIsForHead'
  <2> SUFFICES ASSUME NEW q \in 1..Len(sent'), sent'[q].answer # "ok"
               PROVE  q = r + 1
    BY <1>1, <1>2, <1>7, <1>8, <1>9, <1>12 DEF AnswerIsForHead, HeadKind, head
  <2>1. ASSUME q \in 1..r PROVE FALSE
    BY <1>5, <1>8, <2>1
  <2> QED  BY <1>4, <1>8, <2>1
<1>16. SendersReachTheirProducer'
  <2> SUFFICES ASSUME NEW q \in 1..Len(sent'), sent'[q].what = "produce"
               PROVE  /\ sent'[q].of \in Streams /\ sent'[q].kind \in Kind
                      /\ dest'[sent'[q].of][sent'[q].kind] = sent'[q].on
                      /\ q > 1 /\ sent'[q].on = q - 1
                      /\ sent'[q - 1].what = "transport"
    BY <1>4 DEF SendersReachTheirProducer
  <2>1. CASE q = r + 1
    BY <1>4, <1>5, <1>7, <1>8, <1>9, <2>1
  <2>2. CASE q \in 1..r
    <3>1. /\ log[q].of \in Streams /\ log[q].kind \in Kind
          /\ dest[log[q].of][log[q].kind] = log[q].on
          /\ q > 1 /\ log[q].on = q - 1 /\ log[q - 1].what = "transport"
      BY <1>6, <1>8, <2>2
    <3>2. log[q].of # head \/ log[q].kind # HeadKind
      BY <1>2, <2>2, <3>1 DEF head
    <3>3. q - 1 \in 1..r
      BY <1>4, <2>2, <3>1
    <3> QED  BY <1>8, <1>9, <2>2, <3>1, <3>2, <3>3
  <2> QED  BY <1>4, <1>8, <2>1, <2>2
<1> QED  BY <1>10, <1>11, <1>13, <1>14, <1>15, <1>16 DEF IInv

\* A producer: the same stream's audio, or the next stream, or the end.
LEMMA ProduceInv ==
  ASSUME IInv, NEW r \in 1..Len(sent), OnMediasoupProducer(r)
  PROVE  IInv'
<1> DEFINE head == Head(creating)
           log == Log(r, "ok")
           s == [what |-> "transport", on |-> 0, of |-> 0, kind |-> "none",
                 answer |-> "waiting"]
<1>1. /\ sent[r].answer = "waiting" /\ sent[r].what = "produce"
      /\ ws = "connected" /\ ws' = "connected" /\ pc = Len(streams) + 2
      /\ UNCHANGED <<streams, pc, byKey, dest>>
  BY DEF IInv, Phases, OnMediasoupProducer, Answered
<1>2. creating # <<>> /\ state[head] \in {"CreatingVideo", "CreatingAudio"}
  BY <1>1 DEF IInv, AnswerIsForHead
<1>3. /\ creating \in Seq(Streams) /\ Len(creating) \in Nat \ {0}
      /\ head \in Streams /\ head = creating[1]
      /\ dest \in [Streams -> [Kind -> Nat]] /\ Streams \subseteq Nat
      /\ Streams' = Streams /\ ~ \E i \in Streams : i >= pc
      /\ state \in [Streams -> {"CreatingVideo", "CreatingAudio", "None", "Created"}]
  BY <1>1, <1>2 DEF IInv, TypeOK, Streams
<1>4. /\ r = Len(sent) /\ Len(log) = r /\ log \in Seq(Sent)
      /\ \A q \in 1..r : log[q].answer = "ok"
  BY <1>1, AnsweredLast
<1>5. \A q \in 1..Len(log) : log[q].what = "produce" =>
        /\ log[q].of \in Streams' /\ log[q].kind \in Kind
        /\ dest'[log[q].of][log[q].kind] = log[q].on
        /\ q > 1 /\ log[q].on = q - 1 /\ log[q - 1].what = "transport"
  <2> SUFFICES ASSUME NEW q \in 1..r, log[q].what = "produce"
               PROVE  /\ log[q].of \in Streams /\ log[q].kind \in Kind
                      /\ dest[log[q].of][log[q].kind] = log[q].on
                      /\ q > 1 /\ log[q].on = q - 1
                      /\ log[q - 1].what = "transport"
    BY <1>1, <1>3, <1>4
  <2> QED  BY <1>1, AnsweredProduces
<1>6. Phases' /\ KeysAreSound' /\ KeyIsOfFirst'
  BY <1>1, Unaffected
<1>7. log # <<>>
  BY <1>4
<1> HIDE DEF log
<1>8. CASE state[head] = "CreatingVideo" /\ streams[head].audio
  <2>1. /\ state' = [state EXCEPT ![head] = "CreatingAudio"]
        /\ creating' = creating /\ sent' = Append(log, s)
    BY <1>1, <1>8
       DEF OnMediasoupProducer, RequestPlainRtpTransport, SendMessage, log
  <2>2. state'[head] = "CreatingAudio" /\ HeadKind' = "audio" /\ head' = head
    BY <1>3, <2>1 DEF HeadKind
  <2>3. dest'[head]["audio"] = 0
    BY <1>1, <1>2, <1>8 DEF IInv, QueueShape, HeadKind
  <2> HIDE DEF s
  <2>4. /\ sent' \in Seq(Sent) /\ sent' # <<>>
        /\ OneAtATime' /\ AnswerIsForHead' /\ SendersReachTheirProducer'
        /\ StallsOnlyOnError'
    <3>1. \A q \in 1..Len(log) : log[q].answer = "ok"
      BY <1>4
    <3>2. /\ creating' # <<>> /\ dest'[Head(creating')][HeadKind'] = 0
          /\ state'[Head(creating')] \in {"CreatingVideo", "CreatingAudio"}
      BY <1>2, <2>1, <2>2, <2>3
    <3> QED  BY <1>4, <1>5, <2>1, <3>1, <3>2, RequestTransport DEF s
  <2>5. TypeOK'
    BY <1>1, <1>3, <2>1, <2>4 DEF IInv, TypeOK
  <2>6. QueueShape'
    <3>1. ASSUME NEW n \in 1..Len(creating), n > 1
          PROVE  /\ Untouched(creating[n])'
                 /\ state'[creating[n]] \in {"CreatingVideo", "CreatingAudio"}
      <4>1. /\ creating[n] # head /\ creating[n] \in Streams
            /\ Untouched(creating[n])
            /\ state[creating[n]] \in {"CreatingVideo", "CreatingAudio"}
        BY SMTT(20), <1>3, <3>1 DEF IInv, QueueShape
      <4> QED  BY <1>1, <1>3, <2>1, <4>1 DEF Untouched
    <3>2. ASSUME NEW n \in 1..Len(creating)
          PROVE  /\ creating[n] < pc /\ Enabled(creating[n])
                 /\ state'[creating[n]] \in {"CreatingVideo", "CreatingAudio"}
      BY <1>3, <2>2, <3>1 DEF IInv, QueueShape
    <3>3. \A m, n \in 1..Len(creating) : m < n => creating[m] < creating[n]
      BY DEF IInv, QueueShape
    <3>4. ASSUME NEW n \in 1..Len(creating), n > 1 \/ sent' = <<>>
          PROVE  /\ state'[creating[n]] = FirstState(streams'[creating[n]])
                 /\ \A kind \in Kind : dest'[creating[n]][kind] = 0
      BY <2>1, <2>4, <3>1, <3>4 DEF Untouched
    <3> QED  BY <1>1, <1>3, <2>1, <2>2, <3>2, <3>3, <3>4
             DEF QueueShape, Enabled, Untouched
  <2> QED  BY <1>6, <2>4, <2>5, <2>6 DEF IInv
<1>9. CASE ~(state[head] = "CreatingVideo" /\ streams[head].audio)
  <2>1. /\ state' = [state EXCEPT ![head] = "Created"]
        /\ creating' = Tail(creating)
        /\ sent' = IF creating' # <<>> THEN Append(log, s) ELSE log
    BY <1>1, <1>2, <1>9
       DEF OnMediasoupProducer, CreateNextProducer, RequestPlainRtpTransport,
           SendMessage, log
  <2>2. /\ creating' \in Seq(Streams) /\ Len(creating') = Len(creating) - 1
        /\ \A n \in 1..Len(creating') : n + 1 \in 1..Len(creating)
                                        /\ creating'[n] = creating[n + 1]
    BY <1>3, <2>1
  <2>3. ASSUME NEW n \in 1..Len(creating')
        PROVE  /\ creating'[n] \in Streams /\ creating'[n] < pc
               /\ Enabled(creating'[n])
               /\ state'[creating'[n]] \in {"CreatingVideo", "CreatingAudio"}
               /\ state'[creating'[n]] = FirstState(streams[creating'[n]])
               /\ \A kind \in Kind : dest'[creating'[n]][kind] = 0
    <3>1. PICK m \in 1..Len(creating) : m > 1 /\ creating'[n] = creating[m]
      BY SMTT(20), <1>3, <2>2
    <3>2. 1 \in 1..Len(creating) /\ creating[m] \in Streams
      BY <1>3
    <3>3. /\ creating[1] < creating[m] /\ Untouched(creating[m])
          /\ creating[m] < pc /\ Enabled(creating[m])
          /\ state[creating[m]] \in {"CreatingVideo", "CreatingAudio"}
      BY <3>1, <3>2 DEF IInv, QueueShape
    <3>4. creating[m] # head
      <4>1. creating[m] \in Nat /\ creating[1] \in Nat /\ head = creating[1]
        BY <1>3, <3>2
      <4> HIDE DEF head
      <4> QED  BY <3>3, <4>1
    <3> QED  BY <1>1, <1>3, <2>1, <3>1, <3>2, <3>3, <3>4 DEF Untouched
  <2> HIDE DEF s
  <2>4. QueueShape'
    <3>1. \A m, n \in 1..Len(creating') : m < n => creating'[m] < creating'[n]
      BY SMTT(20), <1>3, <2>2 DEF IInv, QueueShape
    <3>2. creating' # <<>> => dest'[Head(creating')]["audio"] = 0
      BY <2>2, <2>3 DEF Kind
    <3> QED  BY <1>1, <1>3, <2>3, <3>1, <3>2 DEF QueueShape, Untouched, Enabled
  <2>5. /\ sent' \in Seq(Sent)
        /\ OneAtATime' /\ AnswerIsForHead' /\ SendersReachTheirProducer'
        /\ StallsOnlyOnError'
    <3>1. CASE creating' = <<>>
      BY <1>4, <1>5, <2>1, <3>1
         DEF OneAtATime, AnswerIsForHead, SendersReachTheirProducer,
             StallsOnlyOnError
    <3>2. CASE creating' # <<>>
      <4>1. \A q \in 1..Len(log) : log[q].answer = "ok"
        BY <1>4
      <4>2. Head(creating') = creating'[1] /\ 1 \in 1..Len(creating')
        BY <2>2, <3>2
      <4>3. /\ state'[Head(creating')] \in {"CreatingVideo", "CreatingAudio"}
            /\ dest'[Head(creating')][HeadKind'] = 0
        BY <2>3, <4>2 DEF HeadKind, Kind
      <4> QED  BY <1>4, <1>5, <2>1, <3>2, <4>1, <4>3, RequestTransport DEF s
    <3> QED  BY <3>1, <3>2
  <2>6. TypeOK'
    BY <1>1, <1>3, <2>1, <2>2, <2>5 DEF IInv, TypeOK
  <2> QED  BY <1>6, <2>4, <2>5, <2>6 DEF IInv
<1> QED  BY <1>8, <1>9

LEMMA StutterInv == ASSUME IInv, UNCHANGED vars PROVE IInv'
<1>1. /\ streams' = streams /\ pc' = pc /\ ws' = ws /\ creating' = creating
      /\ byKey' = byKey /\ state' = state /\ dest' = dest /\ sent' = sent
  BY DEF vars
<1>2. TypeOK' /\ Phases' /\ KeysAreSound' /\ KeyIsOfFirst'
  BY <1>1 DEF IInv, TypeOK, Phases, KeysAreSound, KeyIsOfFirst, Enabled, Streams
<1>3. QueueShape'
  BY <1>1 DEF IInv, QueueShape, Untouched, Enabled, HeadKind, Streams
<1>4. OneAtATime' /\ AnswerIsForHead'
  BY <1>1 DEF IInv, OneAtATime, AnswerIsForHead
<1>5. SendersReachTheirProducer' /\ StallsOnlyOnError'
  BY <1>1 DEF IInv, SendersReachTheirProducer, StallsOnlyOnError, Streams
<1> QED
  BY <1>2, <1>3, <1>4, <1>5 DEF IInv

\* Every reachable state of the client, whatever streams it is configured
\* with, satisfies the inductive invariant.
THEOREM Invariance == Spec => []IInv
<1>1. IInv /\ [Next]_vars => IInv'
  BY CreateInv, ConnectInv, ConnectedInv, EndInv, TransportInv, ProduceInv,
     ErrorInv, StutterInv
     DEF Next, OnMessage
<1> QED  BY InitInv, <1>1, PTL DEF Spec

\* Although the answers bear no identity, each is for the head of the queue,
\* which exists.
THEOREM AnswersAreForHead == Spec => []AnswerIsForHead
<1>1. IInv => AnswerIsForHead
  BY DEF IInv
<1> QED  BY <1>1, Invariance, PTL

\* Every sender sends to the transport on which its own producer was made.
THEOREM MediaGoesWhereItBelongs == Spec => []SendersReachTheirProducer
<1>1. IInv => SendersReachTheirProducer
  BY DEF IInv
<1> QED  BY <1>1, Invariance, PTL

\* The media of a key goes to the first stream that has it.
THEOREM KeysAreOfTheFirst == Spec => []KeyIsOfFirst
<1>1. IInv => KeyIsOfFirst
  BY DEF IInv
<1> QED  BY <1>1, Invariance, PTL

-----------------------------------------------------------------------------
(* The set-up in order, on top of the invariant. *)

LEMMA InitOrder == Init => SetUpInOrder
BY SettingsAssumption DEF Init, SetUpInOrder, Made

\* A stream that is handed over has all of its kinds left, and is queued.
LEMMA CreateOrder ==
  ASSUME IInv, SetUpInOrder, CreateMediaProducer PROVE SetUpInOrder'
<1>1. /\ streams \in Seq(Stream) /\ Len(streams) \in Nat
      /\ pc \in Streams /\ pc \in Nat /\ pc' = pc + 1
      /\ UNCHANGED <<streams, state>> /\ ws' = ws /\ Streams' = Streams
      /\ creating \in Seq(Streams) /\ Len(creating) \in Nat
  BY DEF IInv, TypeOK, CreateMediaProducer, Streams
<1>2. sent = <<>> /\ sent' = <<>>
  BY <1>1 DEF IInv, Phases, CreateMediaProducer, CreateNextProducer, Streams
<1>3. Made = {} /\ Made' = {}
  BY <1>2 DEF Made
<1>4. /\ \A n \in 1..Len(creating) : n \in 1..Len(creating') /\ creating'[n] = creating[n]
      /\ Enabled(pc) => \E n \in 1..Len(creating') : creating'[n] = pc
  <2>1. CASE Enabled(pc)
    <3>1. creating' = Append(creating, pc)
      BY <2>1 DEF CreateMediaProducer
    <3> QED  BY <1>1, <3>1
  <2>2. CASE ~Enabled(pc)
    BY <1>1, <2>2 DEF CreateMediaProducer
  <2> QED  BY <2>1, <2>2
<1>5. state[pc] = FirstState(streams[pc]) /\ streams[pc] \in Stream
  <2>1. pc >= pc
    BY <1>1
  <2>2. Untouched(pc)
    BY <1>1, <2>1 DEF IInv, QueueShape
  <2>3. streams[pc] \in Stream
    BY <1>1 DEF Streams
  <2> QED  BY <2>2, <2>3 DEF Untouched
<1>6. ASSUME NEW i \in 1..pc, i \in Streams, NEW kind \in Kind
      PROVE  /\ kind \in Left(i) =>
                  streams[i][kind] /\ \E n \in 1..Len(creating') : creating'[n] = i
             /\ streams[i][kind] => kind \in Left(i)
  <2>1. CASE i = pc
    BY <1>4, <1>5, <2>1 DEF Left, FirstState, Kind, Stream, Enabled
  <2>2. CASE i \in 1..pc - 1
    <3>1. /\ kind \in Left(i) =>
               streams[i][kind] /\ \E n \in 1..Len(creating) : creating[n] = i
          /\ streams[i][kind] => kind \in Left(i)
      BY <1>3, <1>6, <2>2 DEF SetUpInOrder
    <3> QED  BY <1>4, <3>1
  <2> QED  BY <1>1, <2>1, <2>2
<1> QED  BY <1>1, <1>3, <1>6 DEF SetUpInOrder, Left

\* Steps that neither hand a stream over nor make a producer.
LEMMA SameOrder ==
  ASSUME IInv, SetUpInOrder, UNCHANGED <<streams, creating, state>>,
         pc' = pc \/ (pc = Len(streams) + 1 /\ pc' = pc + 1),
         Made' = Made,
         \A r \in Made : sent'[r].of = sent[r].of /\ sent'[r].kind = sent[r].kind
  PROVE  SetUpInOrder'
<1>1. /\ Streams' = Streams /\ pc \in Nat /\ Len(streams) \in Nat
      /\ \A i \in Streams : (i < pc) <=> (i < pc')
      /\ \A i \in Streams : i \in 1..pc' - 1 <=> i \in 1..pc - 1
      /\ \A i \in Streams : Left(i)' = Left(i)
      /\ pc' \in Nat
  BY DEF IInv, TypeOK, Streams, Left
<1>2. ASSUME NEW i \in 1..pc' - 1, NEW kind \in Kind, i \in Streams
      PROVE  /\ kind \in Left(i)' =>
                  streams'[i][kind] /\ \E n \in 1..Len(creating') : creating'[n] = i
             /\ streams'[i][kind] =>
                  (kind \in Left(i)' <=>
                     \A r \in Made' : sent'[r].of # i \/ sent'[r].kind # kind)
  <2>1. /\ kind \in Left(i) =>
             streams[i][kind] /\ \E n \in 1..Len(creating) : creating[n] = i
        /\ streams[i][kind] =>
             (kind \in Left(i) <=>
                \A r \in Made : sent[r].of # i \/ sent[r].kind # kind)
    <3>1. i \in 1..pc - 1
      BY <1>1, <1>2
    <3> QED  BY <1>2, <3>1 DEF SetUpInOrder
  <2> QED  BY <1>1, <1>2, <2>1
<1>3. ASSUME NEW r \in Made'
      PROVE  /\ sent'[r].of \in Streams' /\ sent'[r].of < pc'
             /\ streams'[sent'[r].of][sent'[r].kind]
             /\ \A n \in 1..Len(creating') : sent'[r].of <= creating'[n]
  BY <1>1 DEF SetUpInOrder
<1>4. \A q, r \in Made' : q < r =>
        \/ sent'[q].of < sent'[r].of
        \/ sent'[q].of = sent'[r].of /\ sent'[q].kind = "video"
           /\ sent'[r].kind = "audio"
  BY DEF SetUpInOrder
<1> QED  BY <1>1, <1>2, <1>3, <1>4 DEF SetUpInOrder, Left

\* No producer is made by the connection's steps, ...
LEMMA ConnectionOrder ==
  ASSUME IInv, SetUpInOrder,
         Connect \/ OnConnected \/ OnFailedToConnect \/ OnDisconnected
           \/ UNCHANGED vars
  PROVE  SetUpInOrder'
<1>1. CASE OnConnected
  <2>1. /\ sent = <<>> /\ UNCHANGED <<streams, creating, state, pc>>
        /\ \A r \in 1..Len(sent') : sent'[r].answer = "waiting"
    <3>1. sent = <<>>
      BY <1>1 DEF IInv, Phases, OnConnected
    <3> QED  BY <1>1, <3>1
             DEF OnConnected, CreateNextProducer, RequestPlainRtpTransport, SendMessage
  <2>2. Made = {} /\ Made' = {}
    BY <2>1 DEF Made
  <2> QED  BY <2>1, <2>2, SameOrder
<1>2. CASE Connect \/ OnFailedToConnect \/ OnDisconnected \/ UNCHANGED vars
  <2>1. /\ UNCHANGED <<streams, creating, state, sent>>
        /\ pc' = pc \/ (pc = Len(streams) + 1 /\ pc' = pc + 1)
    BY <1>2 DEF Connect, OnFailedToConnect, OnDisconnected, vars
  <2>2. Made' = Made
    BY <2>1 DEF Made
  <2> QED  BY <2>1, <2>2, SameOrder
<1> QED  BY <1>1, <1>2

\* ... nor by an error, ...
LEMMA ErrorOrder ==
  ASSUME IInv, SetUpInOrder, NEW r \in 1..Len(sent), OnErrorAnswer(r)
  PROVE  SetUpInOrder'
<1>1. /\ sent[r].answer = "waiting" /\ sent' = Log(r, "error")
      /\ UNCHANGED <<streams, pc, creating, state>>
  BY DEF OnErrorAnswer, Answered
<1>2. /\ r = Len(sent) /\ Len(sent') = r
      /\ sent'[r] = [sent[r] EXCEPT !.answer = "error"]
      /\ \A q \in 1..Len(sent) : /\ sent[q] \in Sent
                                 /\ q # r => sent'[q] = sent[q]
  BY ZenonT(40), <1>1, AnsweredLast
<1>3. sent'[r].answer = "error"
  BY <1>2 DEF Sent
<1>4. Made' = Made /\ \A q \in Made : sent'[q] = sent[q]
  BY <1>1, <1>2, <1>3 DEF Made
<1> QED  BY <1>1, <1>4, SameOrder

\* ... nor by a transport, which only asks for one.
LEMMA TransportOrder ==
  ASSUME IInv, SetUpInOrder, NEW r \in 1..Len(sent), OnMediasoupSendPlainTransport(r)
  PROVE  SetUpInOrder'
<1> DEFINE log == Log(r, "ok")
           s == [what |-> "produce", on |-> r, of |-> Head(creating),
                 kind |-> HeadKind, answer |-> "waiting"]
<1>1. /\ sent[r].answer = "waiting" /\ sent[r].what = "transport"
      /\ UNCHANGED <<streams, pc, creating, state>>
  BY DEF OnMediasoupSendPlainTransport, Answered
<1>2. sent' = Append(log, s)
  <2>1. state[Head(creating)] \in {"CreatingVideo", "CreatingAudio"}
    BY <1>1 DEF IInv, AnswerIsForHead
  <2> QED  BY <2>1
           DEF OnMediasoupSendPlainTransport, Answered, RequestCreateProducer,
               SendMessage, HeadKind
<1>3. s.answer = "waiting"
  OBVIOUS
<1>4. /\ r = Len(sent) /\ Len(log) = r /\ log \in Seq(Sent)
      /\ \A q \in 1..Len(sent) : /\ log[q].what = sent[q].what
                                 /\ q # r => log[q] = sent[q]
  <2>1. "ok" \in {"ok", "error"}
    OBVIOUS
  <2> HIDE DEF Log
  <2> QED  BY ZenonT(40), <1>1, <2>1, AnsweredLast
<1> HIDE DEF log, s
<1>5. /\ Len(sent') = r + 1 /\ sent'[r + 1] = s
      /\ \A q \in 1..r : sent'[q] = log[q]
  BY <1>2, <1>4
<1>6. Made' = Made /\ \A q \in Made : sent'[q] = sent[q]
  BY <1>1, <1>3, <1>4, <1>5 DEF Made
<1> QED  BY <1>1, <1>6, SameOrder

\* A producer that is made is the next one: of the head, which is no later than
\* anything left and no earlier than anything made.
LEMMA ProduceOrder ==
  ASSUME IInv, SetUpInOrder, NEW r \in 1..Len(sent), OnMediasoupProducer(r)
  PROVE  SetUpInOrder'
<1> DEFINE head == Head(creating)
           log == Log(r, "ok")
<1>1. /\ sent[r].answer = "waiting" /\ sent[r].what = "produce"
      /\ UNCHANGED <<streams, pc>> /\ Streams' = Streams
  BY DEF OnMediasoupProducer, Answered, Streams
<1>2. /\ creating # <<>> /\ state[head] \in {"CreatingVideo", "CreatingAudio"}
      /\ sent[r].of = head /\ sent[r].kind = HeadKind
  BY <1>1 DEF IInv, AnswerIsForHead, HeadKind
<1>3. /\ creating \in Seq(Streams) /\ Len(creating) \in Nat \ {0}
      /\ head \in Streams /\ head = creating[1] /\ Streams \subseteq Nat
      /\ state \in [Streams -> {"CreatingVideo", "CreatingAudio", "None", "Created"}]
      /\ pc \in Nat
  BY <1>1, <1>2 DEF IInv, TypeOK, Streams
<1>4. /\ head < pc /\ head \in 1..pc - 1
      /\ \A n \in 1..Len(creating) : creating[n] \in Nat /\ head <= creating[n]
                                     /\ (n > 1 => head # creating[n])
  <2>1. /\ creating[1] < pc
        /\ \A m, n \in 1..Len(creating) : m < n => creating[m] < creating[n]
    BY <1>3 DEF IInv, QueueShape
  <2>2. \A n \in 1..Len(creating) : creating[n] \in Nat
    BY <1>3
  <2>3. head > 0
    BY <1>3 DEF Streams
  <2> HIDE DEF head
  <2> QED  BY <1>3, <2>1, <2>2, <2>3
<1>5. /\ r = Len(sent) /\ Len(log) = r /\ log \in Seq(Sent)
      /\ \A q \in 1..Len(sent) : /\ log[q].what = sent[q].what
                                 /\ log[q].of = sent[q].of
                                 /\ log[q].kind = sent[q].kind
      /\ \A q \in 1..r - 1 : sent[q].answer = "ok"
      /\ \A q \in 1..r : log[q].answer = "ok"
  <2>1. "ok" \in {"ok", "error"}
    OBVIOUS
  <2> HIDE DEF Log
  <2> QED  BY ZenonT(40), <1>1, <2>1, AnsweredLast
<1>6. /\ \A q \in 1..r : q \in 1..Len(sent') /\ sent'[q] = log[q]
      /\ \A q \in 1..Len(sent') : q \in 1..r \/ sent'[q].answer = "waiting"
  <2>1. \/ sent' = log
        \/ sent' = Append(log, [what |-> "transport", on |-> 0, of |-> 0,
                                kind |-> "none", answer |-> "waiting"])
    BY DEF OnMediasoupProducer, Answered, CreateNextProducer,
           RequestPlainRtpTransport, SendMessage
  <2> HIDE DEF log
  <2>2. CASE sent' = log
    BY <1>5, <2>2
  <2>3. ASSUME NEW s, s.answer = "waiting", sent' = Append(log, s)
        PROVE  /\ \A q \in 1..r : q \in 1..Len(sent') /\ sent'[q] = log[q]
               /\ \A q \in 1..Len(sent') : q \in 1..r \/ sent'[q].answer = "waiting"
    <3>1. /\ Len(sent') = r + 1 /\ sent'[r + 1] = s /\ r \in Nat
          /\ \A q \in 1..r : sent'[q] = log[q]
      BY <1>5, <2>3
    <3>2. \A q \in 1..r + 1 : q \in 1..r \/ q = r + 1
      BY <3>1
    <3> QED  BY <2>3, <3>1, <3>2
  <2> QED  BY <2>1, <2>2, <2>3
<1> HIDE DEF log
<1>7. /\ Made' = Made \cup {r} /\ \A q \in Made : q \in 1..r - 1
      /\ \A q \in Made' : sent'[q].of = sent[q].of /\ sent'[q].kind = sent[q].kind
  <2>1. \A q \in 1..Len(sent') : sent'[q].what = "produce" /\ sent'[q].answer = "ok"
          <=> q \in 1..r /\ sent[q].what = "produce"
    BY <1>5, <1>6
  <2>2. \A q \in 1..r : (q \in Made' <=> sent[q].what = "produce") /\ q \in 1..Len(sent)
    BY <1>5, <1>6, <2>1 DEF Made
  <2>3. \A q \in Made' : q \in 1..r
    BY <1>5, <1>6 DEF Made
  <2>4. \A q \in 1..r : q \in Made <=> q # r /\ sent[q].what = "produce"
    BY <1>1, <1>5 DEF Made
  <2>5. \A q \in Made : q \in 1..r
    BY <1>5 DEF Made
  <2>6. Made' = Made \cup {r} /\ \A q \in Made : q \in 1..r - 1
    BY <1>1, <1>5, <2>2, <2>3, <2>4, <2>5
  <2> QED  BY <1>5, <1>6, <2>3, <2>6
<1>8. /\ HeadKind \in Kind /\ HeadKind \in Left(head)
      /\ \A i \in Streams :
           Left(i)' = IF i = head THEN Left(i) \ {HeadKind} ELSE Left(i)
  <2>1. CASE state[head] = "CreatingVideo" /\ streams[head].audio
    <3>1. state' = [state EXCEPT ![head] = "CreatingAudio"]
      BY <1>1, <2>1 DEF OnMediasoupProducer
    <3> QED  BY <1>1, <1>3, <2>1, <3>1 DEF Left, HeadKind, Kind
  <2>2. CASE ~(state[head] = "CreatingVideo" /\ streams[head].audio)
    <3>1. state' = [state EXCEPT ![head] = "Created"]
      BY <1>2, <2>2 DEF OnMediasoupProducer
    <3> QED  BY <1>1, <1>2, <1>3, <2>2, <3>1 DEF Left, HeadKind, Kind
  <2> QED  BY <2>1, <2>2
<1>9. /\ \A n \in 1..Len(creating') :
           \E m \in 1..Len(creating) : creating'[n] = creating[m]
      /\ \A n \in 1..Len(creating) : n > 1 =>
           \E m \in 1..Len(creating') : creating'[m] = creating[n]
      /\ \A i \in Streams : i = head /\ Left(i)' # {} => creating' = creating
  <2>1. CASE creating' = creating
    BY <2>1
  <2>2. CASE creating' # creating
    <3>1. creating' = Tail(creating) /\ state' = [state EXCEPT ![head] = "Created"]
      BY <2>2 DEF OnMediasoupProducer
    <3>2. \A i \in Streams : i = head => Left(i)' = {}
      BY <1>3, <3>1 DEF Left
    <3>3. /\ Len(creating') = Len(creating) - 1
          /\ \A n \in 1..Len(creating') : creating'[n] = creating[n + 1]
      BY <1>3, <3>1
    <3>4. \A n \in 1..Len(creating) : n > 1 =>
            n - 1 \in 1..Len(creating') /\ creating'[n - 1] = creating[n]
      BY <1>3, <3>3
    <3>5. \A n \in 1..Len(creating') : n + 1 \in 1..Len(creating)
      BY <1>3, <3>3
    <3> QED  BY <3>2, <3>3, <3>4, <3>5
  <2> QED  BY <2>1, <2>2
<1>10. streams[head][HeadKind]
  BY <1>3, <1>4, <1>8 DEF SetUpInOrder
<1> HIDE DEF head
<1>11. ASSUME NEW i \in 1..pc - 1, NEW kind \in Kind, i \in Streams
       PROVE  /\ kind \in Left(i)' =>
                   streams[i][kind] /\ \E n \in 1..Len(creating') : creating'[n] = i
              /\ streams[i][kind] =>
                   (kind \in Left(i)' <=>
                      \A q \in Made' : sent'[q].of # i \/ sent'[q].kind # kind)
  <2>1. /\ kind \in Left(i) =>
             streams[i][kind] /\ \E n \in 1..Len(creating) : creating[n] = i
        /\ streams[i][kind] =>
             (kind \in Left(i) <=>
                \A q \in Made : sent[q].of # i \/ sent[q].kind # kind)
    BY <1>11 DEF SetUpInOrder
  <2>2. CASE i # head
    <3>1. Left(i)' = Left(i)
      BY <1>8, <1>11, <2>2
    <3>2. (\A q \in Made' : sent'[q].of # i \/ sent'[q].kind # kind)
          <=> (\A q \in Made : sent[q].of # i \/ sent[q].kind # kind)
      BY <1>2, <1>7, <2>2
    <3>3. kind \in Left(i) => \E n \in 1..Len(creating') : creating'[n] = i
      <4> SUFFICES ASSUME kind \in Left(i)
                   PROVE  \E n \in 1..Len(creating') : creating'[n] = i
        OBVIOUS
      <4>1. PICK n \in 1..Len(creating) : creating[n] = i
        BY <2>1
      <4>2. n > 1
        BY <1>3, <2>2, <4>1
      <4> QED  BY <1>9, <4>1, <4>2
    <3> QED  BY <2>1, <3>1, <3>2, <3>3
  <2>3. CASE i = head /\ kind = HeadKind
    <3>1. kind \notin Left(i)'
      BY <1>8, <1>11, <2>3
    <3>2. r \in Made' /\ sent'[r].of = i /\ sent'[r].kind = kind
      BY <1>2, <1>7, <2>3
    <3> QED  BY <3>1, <3>2
  <2>4. CASE i = head /\ kind # HeadKind
    <3>1. kind \in Left(i)' <=> kind \in Left(i)
      BY <1>8, <1>11, <2>4
    <3>2. (\A q \in Made' : sent'[q].of # i \/ sent'[q].kind # kind)
          <=> (\A q \in Made : sent[q].of # i \/ sent[q].kind # kind)
      BY <1>2, <1>7, <2>4
    <3>3. kind \in Left(i)' => \E n \in 1..Len(creating') : creating'[n] = i
      BY <1>3, <1>9, <1>11, <2>4
    <3> QED  BY <2>1, <3>1, <3>2, <3>3
  <2> QED  BY <2>2, <2>3, <2>4
<1>12. ASSUME NEW q \in Made'
       PROVE  /\ sent[q].of \in Streams /\ sent[q].of < pc
              /\ streams[sent[q].of][sent[q].kind]
              /\ \A n \in 1..Len(creating') : sent[q].of <= creating'[n]
  <2>1. CASE q = r
    <3>1. sent[q].of = head /\ sent[q].kind = HeadKind
      BY <1>2, <2>1
    <3>2. \A n \in 1..Len(creating') : head <= creating'[n]
      BY <1>4, <1>9
    <3> QED  BY <1>3, <1>4, <1>10, <3>1, <3>2
  <2>2. CASE q \in Made
    <3>1. /\ sent[q].of \in Streams /\ sent[q].of < pc
          /\ streams[sent[q].of][sent[q].kind]
          /\ \A n \in 1..Len(creating) : sent[q].of <= creating[n]
      BY <2>2 DEF SetUpInOrder
    <3> QED  BY <1>9, <3>1
  <2> QED  BY <1>7, <2>1, <2>2
<1>13. ASSUME NEW p \in Made', NEW q \in Made', p < q
       PROVE  \/ sent[p].of < sent[q].of
              \/ sent[p].of = sent[q].of /\ sent[p].kind = "video"
                 /\ sent[q].kind = "audio"
  <2>1. CASE q \in Made
    <3>1. p \in Made
      BY <1>5, <1>7, <1>13, <2>1
    <3> QED  BY <1>13, <2>1, <3>1 DEF SetUpInOrder
  <2>2. CASE q = r
    <3>1. p \in Made
      BY <1>7, <1>13, <2>2
    <3>2. /\ sent[p].of \in Streams /\ sent[p].of <= head
          /\ streams[sent[p].of][sent[p].kind]
      BY <1>3, <3>1 DEF SetUpInOrder
    <3>3. CASE sent[p].of = head
      <4>1. sent[p].kind \in Kind
        BY <1>1, <1>5, <3>1 DEF IInv, SendersReachTheirProducer, Made
      <4>2. sent[p].kind \notin Left(head)
        BY <1>3, <1>4, <3>1, <3>2, <3>3, <4>1 DEF SetUpInOrder
      <4>3. sent[p].kind = "video" /\ HeadKind = "audio"
        BY <1>2, <1>8, <3>2, <3>3, <4>1, <4>2 DEF Left, HeadKind, Kind, head
      <4> QED  BY <1>2, <2>2, <3>3, <4>3
    <3>4. CASE sent[p].of # head
      BY <1>2, <1>3, <2>2, <3>2, <3>4
    <3> QED  BY <3>3, <3>4
  <2> QED  BY <1>7, <2>1, <2>2
<1>14. /\ \A q \in Made' : /\ sent'[q].of \in Streams' /\ sent'[q].of < pc'
                           /\ streams'[sent'[q].of][sent'[q].kind]
                           /\ \A n \in 1..Len(creating') : sent'[q].of <= creating'[n]
       /\ \A p, q \in Made' : p < q =>
            \/ sent'[p].of < sent'[q].of
            \/ sent'[p].of = sent'[q].of /\ sent'[p].kind = "video"
               /\ sent'[q].kind = "audio"
  BY <1>1, <1>7, <1>12, <1>13
<1> QED  BY <1>1, <1>11, <1>14 DEF SetUpInOrder, Left

\* The streams are set up once each, in the order of the settings, video before
\* audio, and none is lost or made twice, however many are configured.
THEOREM StreamsAreSetUpInOrder == Spec => []SetUpInOrder
<1>1. IInv /\ SetUpInOrder /\ [Next]_vars => SetUpInOrder'
  BY CreateOrder, ConnectionOrder, ErrorOrder, TransportOrder, ProduceOrder
     DEF Next, OnMessage
<1> QED  BY InitOrder, Invariance, <1>1, PTL DEF Spec

-----------------------------------------------------------------------------
(* What EndsSetUp rests on besides fairness: there is always a step to take *)
(* until the end, and never an endless number of them.                      *)

\* The end that EndsSetUp speaks of.
Ended ==
  \/ \A i \in Streams : Enabled(i) => state[i] = "Created"
  \/ ws \in {"failed", "closed"}
  \/ \E r \in 1..Len(sent) : sent[r].answer = "error"

\* The guard of an action that FairSpec is fair to holds.
CanGoOn ==
  \/ pc \in Streams
  \/ pc = Len(streams) + 1
  \/ pc = Len(streams) + 2 /\ ws = "connecting"
  \/ /\ ws = "connected" /\ creating # <<>>
     /\ \E r \in 1..Len(sent) : sent[r].answer = "waiting"

\* Nobody is in the main loop without having tried to connect, and only a stream
\* without video and audio has nothing to create.
Started ==
  /\ pc = Len(streams) + 2 => ws # "idle"
  /\ \A i \in Streams : Enabled(i) => state[i] # "None"

\* The place of the program in the set-up, of which each part is less in a later
\* place with the same parts before it.
Rank ==
  <<Len(streams) + 2 - pc,
    IF ws = "idle" THEN 3 ELSE IF ws = "connecting" THEN 2
      ELSE IF ws = "connected" THEN 1 ELSE 0,
    Len(creating),
    IF creating # <<>> /\ state[Head(creating)] = "CreatingVideo" THEN 1 ELSE 0,
    IF sent = <<>> \/ sent[Len(sent)].answer # "waiting" THEN 0
      ELSE IF sent[Len(sent)].what = "transport" THEN 2 ELSE 1>>

Below(a, b) == \E n \in 1..5 : a[n] < b[n] /\ \A m \in 1..n - 1 : a[m] = b[m]

LEMMA StartedInv ==
  /\ Init => Started
  /\ IInv /\ Started /\ [Next]_vars => Started'
<1>1. Init => Started
  <2> SUFFICES ASSUME Init PROVE Started
    OBVIOUS
  <2>1. streams \in Seq(Stream) /\ Len(streams) \in Nat
    BY SettingsAssumption DEF Init
  <2> QED  BY <2>1 DEF Init, Started, FirstState, Enabled, Streams
<1>2. ASSUME IInv, Started, [Next]_vars PROVE Started'
  <2>1. /\ Len(streams) \in Nat /\ pc \in 1..Len(streams) + 2
        /\ state \in [Streams -> {"CreatingVideo", "CreatingAudio", "None", "Created"}]
    BY <1>2 DEF IInv, TypeOK
  <2>2. streams' = streams /\ Streams' = Streams
    BY <1>2
       DEF Next, vars, OnMessage, CreateMediaProducer, Connect, OnConnected,
           OnFailedToConnect, OnDisconnected, OnMediasoupSendPlainTransport,
           OnMediasoupProducer, OnErrorAnswer, Streams
  <2>3. \A i \in Streams : state'[i] = state[i] \/ state'[i] \in {"CreatingAudio", "Created"}
    BY <1>2, <2>1
       DEF Next, vars, OnMessage, CreateMediaProducer, Connect, OnConnected,
           OnFailedToConnect, OnDisconnected, OnMediasoupSendPlainTransport,
           OnMediasoupProducer, OnErrorAnswer
  <2>4. pc' = Len(streams) + 2 => ws' # "idle"
    <3>1. CASE CreateMediaProducer
      BY <2>1, <3>1 DEF CreateMediaProducer, Streams
    <3>2. CASE Connect
      BY <3>2 DEF Connect
    <3>3. CASE OnConnected \/ OnFailedToConnect \/ OnDisconnected \/ UNCHANGED vars
      BY <1>2, <3>3 DEF Started, OnConnected, OnFailedToConnect, OnDisconnected, vars
    <3>4. CASE OnMessage
      BY <3>4 DEF OnMessage, OnMediasoupSendPlainTransport, OnMediasoupProducer,
                  OnErrorAnswer, Answered
    <3> QED  BY <1>2, <3>1, <3>2, <3>3, <3>4 DEF Next
  <2> QED  BY <1>2, <2>2, <2>3, <2>4 DEF Started, Enabled
<1> QED  BY <1>1, <1>2

\* While a stream is left, process has not come to its end, the connection is being
\* opened, or a request for the head is out.
LEMMA NotStuck ==
  ASSUME IInv, SetUpInOrder, Started, ~Ended PROVE CanGoOn
<1>1. /\ Len(streams) \in Nat /\ pc \in 1..Len(streams) + 2
      /\ state \in [Streams -> {"CreatingVideo", "CreatingAudio", "None", "Created"}]
      /\ ws \in {"idle", "connecting", "connected", "failed", "closed"}
      /\ sent \in Seq(Sent) /\ creating \in Seq(Streams)
  BY DEF IInv, TypeOK
<1>2. CASE pc < Len(streams) + 2
  BY <1>1, <1>2 DEF CanGoOn, Streams
<1>3. CASE pc = Len(streams) + 2 /\ ws # "connected"
  BY <1>1, <1>3 DEF CanGoOn, Started, Ended
<1>4. CASE pc = Len(streams) + 2 /\ ws = "connected"
  <2>1. PICK i \in Streams : Enabled(i) /\ state[i] # "Created"
    BY DEF Ended
  <2>2. \E kind \in Kind : kind \in Left(i)
    BY <1>1, <2>1 DEF Left, Kind, Started
  <2>3. i \in 1..pc - 1
    BY <1>1, <1>4 DEF Streams
  <2>4. creating # <<>>
    <3>1. \E n \in 1..Len(creating) : creating[n] = i
      BY <2>2, <2>3 DEF SetUpInOrder
    <3> QED  BY <1>1, <3>1
  <2>5. sent # <<>> /\ sent[Len(sent)].answer \in {"waiting", "error"}
    BY <1>4, <2>4 DEF IInv, StallsOnlyOnError
  <2>6. Len(sent) \in 1..Len(sent)
    BY <1>1, <2>5
  <2>7. sent[Len(sent)].answer = "waiting"
    BY <2>5, <2>6 DEF Ended
  <2> QED  BY <1>4, <2>4, <2>6, <2>7 DEF CanGoOn
<1> QED  BY <1>1, <1>2, <1>3, <1>4

\* Until every stream is set up, unless the connection ends or an answer is an
\* error, there is a step to take.
THEOREM SetUpIsNeverStuck == Spec => [](~Ended => CanGoOn)
<1>1. Spec => []Started
  <2>1. Init => Started
    BY StartedInv
  <2>2. IInv /\ Started /\ [Next]_vars => Started'
    BY StartedInv
  <2> QED  BY <2>1, <2>2, Invariance, PTL DEF Spec
<1>2. IInv /\ SetUpInOrder /\ Started => (~Ended => CanGoOn)
  BY NotStuck
<1> QED  BY <1>1, <1>2, Invariance, StreamsAreSetUpInOrder, PTL

-----------------------------------------------------------------------------
LEMMA RankIsNatural == IInv => \A n \in 1..5 : Rank[n] \in Nat
BY DEF IInv, TypeOK, Rank

\* One lemma for each part of the rank that a step lessens.
LEMMA BelowAt ==
  ASSUME NEW a, NEW b, NEW n \in 1..5, a[n] < b[n], \A m \in 1..n - 1 : a[m] = b[m]
  PROVE  Below(a, b)
BY DEF Below

LEMMA RankFalls == ASSUME IInv, IInv', Next PROVE Below(Rank', Rank)
<1>1. /\ Len(streams) \in Nat /\ pc \in 1..Len(streams) + 2 /\ Len(creating) \in Nat
      /\ creating \in Seq(Streams) /\ sent \in Seq(Sent) /\ Len(sent) \in Nat
      /\ state \in [Streams -> {"CreatingVideo", "CreatingAudio", "None", "Created"}]
  BY DEF IInv, TypeOK
<1>2. CASE CreateMediaProducer \/ Connect
  <2>1. pc' = pc + 1 /\ streams' = streams
    BY <1>2 DEF CreateMediaProducer, Connect
  <2>2. Rank'[1] < Rank[1]
    BY <1>1, <2>1 DEF Rank
  <2> QED  BY <2>2, BelowAt
<1>3. CASE OnConnected \/ OnFailedToConnect \/ OnDisconnected
  <2>1. /\ pc' = pc /\ streams' = streams
        /\ \/ ws = "connecting" /\ ws' \in {"connected", "failed"}
           \/ ws = "connected" /\ ws' = "closed"
    BY <1>3 DEF OnConnected, OnFailedToConnect, OnDisconnected
  <2>2. Rank'[2] < Rank[2] /\ Rank'[1] = Rank[1]
    BY <2>1 DEF Rank
  <2> QED  BY <2>2, BelowAt
<1>4. ASSUME NEW r \in 1..Len(sent),
             OnMediasoupSendPlainTransport(r) \/ OnErrorAnswer(r)
      PROVE  Below(Rank', Rank)
  <2>1. /\ UNCHANGED <<pc, streams, ws, creating, state>>
        /\ sent[r].answer = "waiting"
        /\ OnMediasoupSendPlainTransport(r) => sent[r].what = "transport"
    BY <1>4 DEF OnMediasoupSendPlainTransport, OnErrorAnswer, Answered
  <2>2. r = Len(sent) /\ sent # <<>>
    BY <1>1, <2>1 DEF IInv, OneAtATime
  <2>3. sent' # <<>> /\ \/ sent'[Len(sent')].answer # "waiting"
                        \/ /\ sent[r].what = "transport"
                           /\ sent'[Len(sent')].what = "produce"
    <3>1. CASE OnErrorAnswer(r)
      <4>1. sent' = Log(r, "error")
        BY <3>1 DEF OnErrorAnswer
      <4>2. Len(sent') = r /\ sent'[r] = [sent[r] EXCEPT !.answer = "error"]
            /\ sent[r] \in Sent
        BY <1>1, <2>1, <2>2, <4>1 DEF Log
      <4> QED  BY <1>1, <2>2, <4>2 DEF Sent
    <3>2. CASE OnMediasoupSendPlainTransport(r)
      <4>1. PICK kind : sent' = Append(Log(r, "ok"),
                [what |-> "produce", on |-> r, of |-> Head(creating),
                 kind |-> kind, answer |-> "waiting"])
        <5>1. state[Head(creating)] \in {"CreatingVideo", "CreatingAudio"}
          BY <2>1 DEF IInv, AnswerIsForHead
        <5> QED  BY <3>2, <5>1
                 DEF OnMediasoupSendPlainTransport, Answered, RequestCreateProducer,
                     SendMessage
      <4>2. Log(r, "ok") \in Seq(Sent)
        <5>1. "ok" \in {"ok", "error"}
          OBVIOUS
        <5> HIDE DEF Log
        <5> QED  BY ZenonT(40), <2>1, <5>1, AnsweredLast
      <4> QED  BY <2>1, <3>2, <4>1, <4>2
    <3> QED  BY <1>4, <3>1, <3>2
  <2>4. \A m \in 1..4 : Rank'[m] = Rank[m]
    BY <2>1 DEF Rank
  <2>5. Rank'[5] < Rank[5]
    BY <2>1, <2>2, <2>3 DEF Rank
  <2> QED  BY <2>4, <2>5, BelowAt
<1>5. ASSUME NEW r \in 1..Len(sent), OnMediasoupProducer(r)
      PROVE  Below(Rank', Rank)
  <2> DEFINE head == Head(creating)
  <2>1. /\ UNCHANGED <<pc, streams, ws>> /\ creating # <<>>
        /\ sent[r].answer = "waiting"
    BY <1>5 DEF OnMediasoupProducer, Answered
  <2>2. state[head] \in {"CreatingVideo", "CreatingAudio"} /\ head \in Streams
    BY <1>1, <2>1 DEF IInv, AnswerIsForHead
  <2>3. CASE state[head] = "CreatingVideo" /\ streams[head].audio
    <3>1. state' = [state EXCEPT ![head] = "CreatingAudio"] /\ creating' = creating
      BY <1>5, <2>3 DEF OnMediasoupProducer
    <3>2. state'[head] = "CreatingAudio"
      BY <1>1, <2>2, <3>1
    <3>3. Rank'[4] < Rank[4] /\ \A m \in 1..3 : Rank'[m] = Rank[m]
      BY <2>1, <2>3, <3>1, <3>2 DEF Rank
    <3> QED  BY <3>3, BelowAt
  <2>4. CASE ~(state[head] = "CreatingVideo" /\ streams[head].audio)
    <3>1. creating' = Tail(creating)
      BY <1>5, <2>2, <2>4 DEF OnMediasoupProducer
    <3>2. Len(creating') = Len(creating) - 1
      BY <1>1, <2>1, <3>1
    <3>3. Rank'[3] < Rank[3] /\ \A m \in 1..2 : Rank'[m] = Rank[m]
      BY <1>1, <2>1, <3>2 DEF Rank
    <3> QED  BY <3>3, BelowAt
  <2> QED  BY <2>3, <2>4
<1> QED  BY <1>2, <1>3, <1>4, <1>5 DEF Next, OnMessage

\* Every step leads on: the set-up takes finitely many steps, whatever the server
\* answers and whenever the connection ends.
THEOREM SetUpLeadsOn ==
  Spec => [][Below(Rank', Rank) /\ \A n \in 1..5 : Rank[n] \in Nat]_vars
<1>1. IInv /\ IInv' /\ [Next]_vars =>
        [Below(Rank', Rank) /\ \A n \in 1..5 : Rank[n] \in Nat]_vars
  BY RankFalls, RankIsNatural
<1> QED  BY <1>1, Invariance, PTL DEF Spec
=============================================================================
