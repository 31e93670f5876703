-------------------------- MODULE DemoClient_proofs --------------------------
(***************************************************************************)
(* Theorems about DemoClient, for any number of calls, any of its slots    *)
(* and any length of the queue: IInv is inductive.                         *)
(***************************************************************************)
EXTENDS DemoClient, TLAPS

-----------------------------------------------------------------------------
(* The queue of the requests. *)

LEMMA SentShape ==
  ASSUME NEW r \in Sent
  PROVE  /\ r.slot \in AllSlots
         /\ r.type # "rtpCapabilities" => r.of \in Call
  BY DEF Sent

\* The oldest request is settled.
LEMMA Dropped ==
  ASSUME pending \in Seq(Sent), pending # <<>>, pending' = Tail(pending)
  PROVE  /\ pending' \in Seq(Sent)
         /\ 1 \in 1..Len(pending) /\ Head(pending) = pending[1] /\ Head(pending) \in Sent
         /\ \A i \in 1..Len(pending') : i + 1 \in 1..Len(pending) /\ pending'[i] = pending[i + 1]
         /\ \A s \in AllSlots : DestroyUnderWay(s)' => DestroyUnderWay(s)
<1>1. /\ Len(pending) \in Nat /\ Len(pending) > 0 /\ Len(pending') = Len(pending) - 1
      /\ \A i \in 1..Len(pending') : pending'[i] = pending[i + 1]
      /\ pending' \in Seq(Sent) /\ Head(pending) = pending[1] /\ Head(pending) \in Sent
  OBVIOUS
<1>2. \A i \in 1..Len(pending') : i + 1 \in 1..Len(pending) /\ pending'[i] = pending[i + 1]
  BY <1>1
<1>3. ASSUME NEW s \in AllSlots, DestroyUnderWay(s)' PROVE DestroyUnderWay(s)
  <2>1. PICK i \in 1..Len(pending') :
          pending'[i].type = "destroyWebRtcTransport" /\ pending'[i].slot = s
    BY <1>3 DEF DestroyUnderWay
  <2>2. i + 1 \in 1..Len(pending) /\ pending'[i] = pending[i + 1]
    BY <1>2
  <2> QED BY <2>1, <2>2 DEF DestroyUnderWay
<1> QED BY <1>1, <1>2, <1>3

\* A request is made.
LEMMA Appended ==
  ASSUME pending \in Seq(Sent), NEW r \in Sent, pending' = Append(pending, r)
  PROVE  /\ pending' \in Seq(Sent)
         /\ Len(pending) \in Nat /\ Len(pending') = Len(pending) + 1
         /\ \A i \in 1..Len(pending) : pending'[i] = pending[i]
         /\ \A i \in 1..Len(pending') : i \in 1..Len(pending) \/ i = Len(pending')
         /\ pending'[Len(pending')] = r
         /\ \A s \in AllSlots : DestroyUnderWay(s)' =>
              DestroyUnderWay(s) \/ (r.type = "destroyWebRtcTransport" /\ r.slot = s)
<1>1. /\ pending' \in Seq(Sent)
      /\ Len(pending) \in Nat /\ Len(pending') = Len(pending) + 1
      /\ \A i \in 1..Len(pending) : pending'[i] = pending[i]
      /\ pending'[Len(pending')] = r
  OBVIOUS
<1>2. \A i \in 1..Len(pending') : i \in 1..Len(pending) \/ i = Len(pending')
  BY <1>1
<1>3. ASSUME NEW s \in AllSlots, DestroyUnderWay(s)', ~DestroyUnderWay(s)
      PROVE  r.type = "destroyWebRtcTransport" /\ r.slot = s
  <2>1. PICK i \in 1..Len(pending') :
          pending'[i].type = "destroyWebRtcTransport" /\ pending'[i].slot = s
    BY <1>3 DEF DestroyUnderWay
  <2>2. i \notin 1..Len(pending)
    BY <1>1, <1>3, <2>1 DEF DestroyUnderWay
  <2> QED BY <1>1, <1>2, <2>1, <2>2
<1> QED BY <1>1, <1>2, <1>3

LEMMA InitInv == Init => IInv
<1> SUFFICES ASSUME Init PROVE IInv
  OBVIOUS
<1>1. /\ Request("rtpCapabilities", 0, "producer") \in Sent /\ Len(pending) = 1
      /\ pending \in Seq(Sent)
      /\ \A i \in 1..Len(pending) : pending[i].type = "rtpCapabilities"
  BY DEF Init, Request, Sent, AllSlots
<1>2. /\ caps \in BOOLEAN /\ hasty \subseteq AllSlots
  BY Zenon DEF Init
<1>3. TypeOK
  <2>1. 0 \notin Call
    BY ConstantsAssumption DEF Call
  <2> QED BY <1>1, <1>2 DEF Init, TypeOK, AllSlots
<1>4. RequestsHaveCalls /\ DestroysAreAlone /\ ConsumersStay
  BY <1>1 DEF RequestsHaveCalls, DestroysAreAlone, ConsumersStay
<1>5. ObjectsHaveCalls /\ CallsAreAlone
  BY DEF Init, ObjectsHaveCalls, CallsAreAlone, Patient
<1>6. OwnAnswers /\ NoLeak /\ OneOpenObject
  BY DEF Init, OwnAnswers, NoLeak, OneOpenObject, Patient
<1> QED BY <1>3, <1>4, <1>5, <1>6 DEF IInv

-----------------------------------------------------------------------------
(* Requests that are settled. *)

\* The queue without its oldest request: what is left of its invariants when calls
\* and slots are as they were, but for a call that no request is left of.
LEMMA QueueInv ==
  ASSUME IInv, pending # <<>>, pending' = Tail(pending), UNCHANGED <<slot, hasty>>,
         \A c \in Call : step'[c] = step[c]
           \/ (Head(pending).type = "createWebRtcTransport" /\ Head(pending).of = c)
  PROVE  RequestsHaveCalls'
<1> DEFINE r == Head(pending)
<1>1. /\ pending \in Seq(Sent) /\ 1 \in 1..Len(pending) /\ r = pending[1]
      /\ \A i \in 1..Len(pending') : i + 1 \in 1..Len(pending) /\ pending'[i] = pending[i + 1]
  BY Dropped DEF IInv, TypeOK
<1> HIDE DEF r
<1> SUFFICES ASSUME NEW i \in 1..Len(pending')
             PROVE  /\ pending'[i].type = "createWebRtcTransport" =>
                         /\ step'[pending'[i].of] = "transport"
                         /\ slot'[pending'[i].of] = pending'[i].slot
                         /\ \A j \in 1..Len(pending') :
                              pending'[j].type = pending'[i].type
                                /\ pending'[j].of = pending'[i].of => j = i
                    /\ pending'[i].type \in {"consume", "dataConsume"} =>
                         step'[pending'[i].of] = "loaded"
                    /\ pending'[i].type = "destroyWebRtcTransport" =>
                         step'[pending'[i].of] \in {"loading", "loaded", "broken"}
  BY DEF RequestsHaveCalls
<1>2. i + 1 \in 1..Len(pending) /\ pending'[i] = pending[i + 1] /\ pending[i + 1] \in Sent
  BY <1>1
<1>3. pending'[i].type # "rtpCapabilities" => pending'[i].of \in Call
  BY <1>2, SentShape
<1>4. /\ pending'[i].type = "createWebRtcTransport" =>
           /\ step[pending'[i].of] = "transport"
           /\ slot[pending'[i].of] = pending'[i].slot
           /\ \A j \in 1..Len(pending) :
                pending[j].type = pending'[i].type
                  /\ pending[j].of = pending'[i].of => j = i + 1
      /\ pending'[i].type \in {"consume", "dataConsume"} =>
           step[pending'[i].of] = "loaded"
      /\ pending'[i].type = "destroyWebRtcTransport" =>
           step[pending'[i].of] \in {"loading", "loaded", "broken"}
  BY <1>2 DEF IInv, RequestsHaveCalls
<1>5. r.type = "createWebRtcTransport" => step[r.of] = "transport"
  BY <1>1 DEF IInv, RequestsHaveCalls
<1>6. pending'[i].type = "createWebRtcTransport" =>
        /\ ~(r.type = "createWebRtcTransport" /\ r.of = pending'[i].of)
        /\ \A j \in 1..Len(pending') :
             pending'[j].type = pending'[i].type /\ pending'[j].of = pending'[i].of => j = i
  BY <1>1, <1>4
<1>7. pending'[i].type # "rtpCapabilities" /\ step'[pending'[i].of] # step[pending'[i].of] =>
        /\ r.of = pending'[i].of /\ r.type = "createWebRtcTransport"
        /\ step[pending'[i].of] = "transport"
  BY <1>3, <1>5 DEF r
<1> QED BY <1>4, <1>6, <1>7

\* Nothing but the queue, the step of a call that failed, and the transports in the
\* server has changed.
LEMMA SettledInv ==
  ASSUME IInv, pending # <<>>, pending' = Tail(pending),
         caps' \in BOOLEAN, UNCHANGED ws,
         UNCHANGED <<slot, chosen, source, current, local, fed, hasty>>,
         \/ step' = step
         \/ /\ Head(pending).type = "createWebRtcTransport"
            /\ step' = [step EXCEPT ![Head(pending).of] = "failed"],
         remote' \in [Call -> {"none", "open", "gone"}],
         \A c \in Call :
           \/ remote'[c] = remote[c]
           \/ remote'[c] = "gone" /\ step[c] \in {"loading", "loaded", "broken"}
           \/ Head(pending).type = "createWebRtcTransport" /\ c = Head(pending).of /\ step'[c] = "failed"
  PROVE  IInv'
<1> DEFINE r == Head(pending)
<1>1. TypeOK /\ pending \in Seq(Sent)
  BY DEF IInv, TypeOK
<1>2. /\ pending' \in Seq(Sent) /\ 1 \in 1..Len(pending) /\ r = pending[1] /\ r \in Sent
      /\ \A i \in 1..Len(pending') : i + 1 \in 1..Len(pending) /\ pending'[i] = pending[i + 1]
      /\ \A s \in AllSlots : DestroyUnderWay(s)' => DestroyUnderWay(s)
  BY <1>1, Dropped
<1>3. r.type = "createWebRtcTransport" => r.of \in Call /\ step[r.of] = "transport"
  BY <1>2, SentShape DEF IInv, RequestsHaveCalls
<1>4. step' \in [Call -> {"none", "transport", "loading", "loaded", "broken", "failed"}]
  BY <1>1, <1>3 DEF TypeOK
<1>5. TypeOK'
  <2>1. fed' \in [Call -> SUBSET Call] /\ hasty' \subseteq AllSlots
    BY <1>1, Zenon DEF TypeOK
  <2> QED BY <1>1, <1>2, <1>4, <2>1 DEF TypeOK
<1> HIDE DEF r
<1>6. \A c \in Call : step'[c] = step[c]
        \/ (c = r.of /\ r.type = "createWebRtcTransport" /\ step'[c] = "failed")
  BY <1>1, <1>4 DEF TypeOK, r
<1>7. RequestsHaveCalls'
  BY <1>6, QueueInv DEF r
<1>8. ObjectsHaveCalls'
  <2>1. \A c \in Call : step'[c] # step[c] => step[c] = "transport" /\ step'[c] = "failed"
    BY <1>3, <1>6
  <2>2. \A c \in Call : step'[c] \in {"none", "transport"} => remote'[c] \in {remote[c], "gone"}
          /\ (remote'[c] = remote[c] \/ step[c] \in {"loading", "loaded", "broken"})
    BY <1>6 DEF r
  <2>3. \A c \in Call :
          /\ step'[c] \in {"none", "transport"} => fed'[c] = {}
          /\ step'[c] = "none" => remote'[c] = "none"
          /\ step'[c] = "transport" /\ ws' = "open" => remote'[c] = "none"
          /\ step'[c] = "loaded" <=> local'[c] # "none"
    BY <2>1, <2>2 DEF IInv, ObjectsHaveCalls
  <2>4. \A s \in AllSlots :
          current'[s] # 0 =>
            slot'[current'[s]] = s /\ step'[current'[s]] \in {"loading", "loaded", "broken"}
    BY <1>1, <2>1 DEF IInv, ObjectsHaveCalls, TypeOK
  <2> QED BY <2>3, <2>4 DEF ObjectsHaveCalls
<1>9. CallsAreAlone'
  BY <1>1, <1>2, <1>6 DEF IInv, CallsAreAlone, Patient, TypeOK
<1>10. DestroysAreAlone'
  BY <1>2 DEF IInv, DestroysAreAlone
<1>11. ConsumersStay'
  BY <1>1, <1>2 DEF IInv, ConsumersStay, Patient
<1>12. OwnAnswers'
  BY <1>6 DEF IInv, OwnAnswers, Patient
<1>13. NoLeak' /\ OneOpenObject'
  BY <1>6 DEF IInv, NoLeak, OneOpenObject, Patient, ObjectsHaveCalls, r
<1> QED BY <1>5, <1>7, <1>8, <1>9, <1>10, <1>11, <1>12, <1>13 DEF IInv

LEMMA PlainAnswersInv ==
  ASSUME IInv, RtpCapabilities \/ Produced
  PROVE  IInv'
<1>1. /\ pending # <<>> /\ pending' = Tail(pending)
      /\ UNCHANGED <<ws, slot, chosen, source, current, local, fed, hasty>>
      /\ UNCHANGED <<step, remote>>
  BY DEF RtpCapabilities, Produced, Resolved
<1>2. caps' \in BOOLEAN
  BY Zenon DEF RtpCapabilities, Produced, IInv, TypeOK
<1>3. remote' \in [Call -> {"none", "open", "gone"}]
  BY <1>1 DEF IInv, TypeOK
<1> QED BY <1>1, <1>2, <1>3, SettledInv

LEMMA RejectedInv ==
  ASSUME IInv, Rejected
  PROVE  IInv'
<1> DEFINE r == Head(pending)
<1>1. /\ pending # <<>> /\ pending' = Tail(pending)
      /\ UNCHANGED <<ws, slot, chosen, source, current, local, fed, hasty>> /\ UNCHANGED caps
      /\ step' = IF r.type = "createWebRtcTransport"
                   THEN [step EXCEPT ![r.of] = "failed"] ELSE step
      /\ \/ remote' = remote
         \/ r.type = "createWebRtcTransport" /\ remote' = [remote EXCEPT ![r.of] = "open"]
         \/ r.type = "destroyWebRtcTransport" /\ remote' = [remote EXCEPT ![r.of] = "gone"]
  BY DEF Rejected
<1>2. 1 \in 1..Len(pending) /\ r = pending[1] /\ r \in Sent
  BY <1>1, Dropped DEF IInv, TypeOK
<1>3. /\ r.type # "rtpCapabilities" => r.of \in Call
      /\ r.type = "destroyWebRtcTransport" => step[r.of] \in {"loading", "loaded", "broken"}
  BY <1>2, SentShape DEF IInv, RequestsHaveCalls
<1>4. /\ step \in [Call -> {"none", "transport", "loading", "loaded", "broken", "failed"}]
      /\ remote \in [Call -> {"none", "open", "gone"}]
  BY <1>1 DEF IInv, TypeOK
<1>5. caps' \in BOOLEAN
  BY <1>1, Zenon DEF IInv, TypeOK
<1> HIDE DEF r
<1>6. remote' \in [Call -> {"none", "open", "gone"}]
  BY <1>1, <1>3, <1>4
<1>7. \A c \in Call :
        \/ remote'[c] = remote[c]
        \/ remote'[c] = "gone" /\ step[c] \in {"loading", "loaded", "broken"}
        \/ r.type = "createWebRtcTransport" /\ c = r.of /\ step'[c] = "failed"
  BY <1>1, <1>3, <1>4
<1> QED BY <1>1, <1>4, <1>5, <1>6, <1>7, SettledInv DEF r

LEMMA WsClosedInv ==
  ASSUME IInv, WsClosed
  PROVE  IInv'
<1> DEFINE Asked(c) == /\ pending # <<>> /\ Head(pending).of = c
                       /\ Head(pending).type = "createWebRtcTransport"
<1>1. PICK late \in SUBSET {c \in Call : Asked(c)} :
        remote' = [c \in Call |-> IF c \in late THEN "open"
                                  ELSE IF remote[c] = "open" THEN "gone" ELSE remote[c]]
  BY DEF WsClosed
<1>2. /\ UNCHANGED <<pending, slot, step, chosen, source, current, local, hasty>>
      /\ UNCHANGED <<caps, fed>> /\ ws' = "closed"
  BY DEF WsClosed
<1>3. \A c \in late : step[c] = "transport"
  <2> SUFFICES ASSUME NEW c \in Call, Asked(c) PROVE step[c] = "transport"
    OBVIOUS
  <2>1. 1 \in 1..Len(pending) /\ Head(pending) = pending[1]
    BY DEF IInv, TypeOK
  <2> QED BY <2>1 DEF IInv, RequestsHaveCalls
<1> HIDE DEF Asked
<1>4. /\ remote' \in [Call -> {"none", "open", "gone"}]
      /\ \A c \in Call : \/ remote'[c] # "open" /\ (remote[c] = "none" => remote'[c] = "none")
                        \/ step[c] = "transport"
  BY <1>1, <1>3 DEF IInv, TypeOK
<1>5. TypeOK'
  <2>1. caps' \in BOOLEAN /\ fed' \in [Call -> SUBSET Call] /\ hasty' \subseteq AllSlots
    BY <1>2, Zenon DEF IInv, TypeOK
  <2> QED BY <1>2, <1>4, <2>1 DEF IInv, TypeOK
<1>6. RequestsHaveCalls' /\ ObjectsHaveCalls'
  BY <1>2, <1>4 DEF IInv, RequestsHaveCalls, ObjectsHaveCalls
<1>7. CallsAreAlone' /\ DestroysAreAlone' /\ ConsumersStay'
  BY <1>2 DEF IInv, CallsAreAlone, DestroysAreAlone, ConsumersStay, Patient, DestroyUnderWay
<1>8. OwnAnswers' /\ OneOpenObject'
  BY <1>2 DEF IInv, OwnAnswers, OneOpenObject, Patient
<1>9. NoLeak'
  BY <1>2, <1>4 DEF NoLeak, Patient
<1> QED BY <1>5, <1>6, <1>7, <1>8, <1>9 DEF IInv

LEMMA TransportCreatedInv ==
  ASSUME IInv, TransportCreated
  PROVE  IInv'
<1> DEFINE c == Head(pending).of
           s == slot[c]
<1>1. /\ pending # <<>> /\ pending' = Tail(pending)
      /\ Head(pending).type = "createWebRtcTransport"
      /\ remote' = [remote EXCEPT ![c] = "open"]
      /\ UNCHANGED <<ws, slot, chosen, local, hasty>> /\ UNCHANGED <<caps, fed>>
      /\ \/ /\ current' = [current EXCEPT ![s] = c]
            /\ step' = [step EXCEPT ![c] = "loading"]
            /\ source' = [source EXCEPT ![c] = chosen[s]]
         \/ /\ step' = [step EXCEPT ![c] = "failed"]
            /\ UNCHANGED <<current, source>>
  BY DEF TransportCreated, Resolved
<1>2. /\ pending' \in Seq(Sent) /\ 1 \in 1..Len(pending)
      /\ Head(pending) = pending[1] /\ Head(pending) \in Sent
      /\ \A i \in 1..Len(pending') : i + 1 \in 1..Len(pending) /\ pending'[i] = pending[i + 1]
      /\ \A t \in AllSlots : DestroyUnderWay(t)' => DestroyUnderWay(t)
  BY <1>1, Dropped DEF IInv, TypeOK
<1>3. /\ c \in Call /\ step[c] = "transport" /\ s \in AllSlots
      /\ local[c] = "none"
  BY <1>1, <1>2, SentShape DEF IInv, RequestsHaveCalls, ObjectsHaveCalls, TypeOK
<1> HIDE DEF c, s
<1>4. /\ slot \in [Call -> AllSlots]
      /\ step \in [Call -> {"none", "transport", "loading", "loaded", "broken", "failed"}]
      /\ chosen \in [AllSlots -> Call \cup {0}] /\ source \in [Call -> Call \cup {0}]
      /\ current \in [AllSlots -> Call \cup {0}]
      /\ local \in [Call -> {"none", "open", "closed"}]
      /\ remote \in [Call -> {"none", "open", "gone"}]
      /\ 0 \notin Call
  BY ConstantsAssumption DEF IInv, TypeOK, Call
<1>5. /\ step' \in [Call -> {"none", "transport", "loading", "loaded", "broken", "failed"}]
      /\ \A d \in Call : d # c => step'[d] = step[d] /\ remote'[d] = remote[d] /\ source'[d] = source[d]
      /\ step'[c] \in {"loading", "failed"} /\ remote'[c] = "open"
      /\ step'[c] = "loading" => current'[s] = c /\ source'[c] = chosen[s]
      /\ step'[c] = "failed" => current'[s] = current[s]
      /\ \A t \in AllSlots : t # s => current'[t] = current[t]
  BY <1>1, <1>3, <1>4
<1>6. TypeOK'
  <2>1. caps' \in BOOLEAN /\ fed' \in [Call -> SUBSET Call] /\ hasty' \subseteq AllSlots
    BY <1>1, Zenon DEF IInv, TypeOK
  <2>2. /\ ws' \in {"open", "closed"} /\ remote' \in [Call -> {"none", "open", "gone"}]
        /\ source' \in [Call -> Call \cup {0}] /\ current' \in [AllSlots -> Call \cup {0}]
    <3>1. ws \in {"open", "closed"} /\ chosen[s] \in Call \cup {0}
      BY <1>3, <1>4 DEF IInv, TypeOK
    <3>2. ws' \in {"open", "closed"} /\ remote' \in [Call -> {"none", "open", "gone"}]
      BY <1>1, <1>3, <1>4, <3>1
    <3>3. CASE UNCHANGED <<current, source>>
      BY <1>4, <3>2, <3>3
    <3>4. CASE current' = [current EXCEPT ![s] = c] /\ source' = [source EXCEPT ![c] = chosen[s]]
      BY <1>3, <1>4, <3>1, <3>2, <3>4
    <3> QED BY <1>1, <3>3, <3>4
  <2>3. slot' = slot /\ chosen' = chosen /\ local' = local
    BY <1>1
  <2> QED BY <1>2, <1>4, <1>5, <2>1, <2>2, <2>3 DEF TypeOK
<1>7. RequestsHaveCalls'
  BY <1>1, <1>5, QueueInv DEF c
<1>8. ObjectsHaveCalls'
  <2>1. \A d \in Call :
          /\ step'[d] \in {"none", "transport"} => fed'[d] = {}
          /\ step'[d] = "none" => remote'[d] = "none"
          /\ step'[d] = "transport" /\ ws' = "open" => remote'[d] = "none"
          /\ step'[d] = "loaded" <=> local'[d] # "none"
    BY <1>1, <1>3, <1>4, <1>5 DEF IInv, ObjectsHaveCalls
  <2>2. \A t \in AllSlots :
          current'[t] # 0 =>
            slot'[current'[t]] = t /\ step'[current'[t]] \in {"loading", "loaded", "broken"}
    BY <1>1, <1>3, <1>4, <1>5 DEF IInv, ObjectsHaveCalls, s
  <2> QED BY <2>1, <2>2 DEF ObjectsHaveCalls
\* In a slot in which the page has waited there is nothing but this call.
<1>9. s \notin hasty =>
        /\ current[s] = 0 /\ ~DestroyUnderWay(s)
        /\ \A d \in Call : slot[d] = s /\ step[d] \in {"transport", "loading"} => d = c
        /\ s \in ChoosingSlots => chosen[s] = c
  BY <1>3 DEF IInv, CallsAreAlone, Patient, s
<1>10. CallsAreAlone'
  BY <1>1, <1>2, <1>3, <1>4, <1>5, <1>9 DEF IInv, CallsAreAlone, Patient, s
<1>11. \A i \in 1..Len(pending') :
         pending'[i].type = "destroyWebRtcTransport" => pending'[i].slot \in AllSlots
  BY <1>2, SentShape
<1>12. DestroysAreAlone'
  BY <1>1, <1>2, <1>5, <1>9, <1>11 DEF IInv, DestroysAreAlone, DestroyUnderWay
<1>13. ConsumersStay'
  <2> SUFFICES ASSUME NEW i \in 1..Len(pending'),
                      pending'[i].type \in {"consume", "dataConsume"},
                      pending'[i].of \in Patient
               PROVE  /\ current'[slot[pending'[i].of]] = pending'[i].of
                      /\ \A j \in 1..Len(pending') :
                           pending'[j].type = "destroyWebRtcTransport"
                             /\ pending'[j].slot = slot[pending'[i].of] => i < j
    BY <1>1 DEF ConsumersStay, Patient
  <2>1. i + 1 \in 1..Len(pending) /\ pending'[i] = pending[i + 1]
    BY <1>2
  <2>2. /\ current[slot[pending'[i].of]] = pending'[i].of
        /\ \A j \in 1..Len(pending) :
             pending[j].type = "destroyWebRtcTransport"
               /\ pending[j].slot = slot[pending'[i].of] => i + 1 < j
    BY <2>1 DEF IInv, ConsumersStay
  <2>3. slot[pending'[i].of] \in AllSlots \ hasty /\ pending'[i].of # 0
    BY <1>4 DEF Patient
  <2>4. slot[pending'[i].of] # s
    BY <1>9, <2>2, <2>3
  <2>5. current'[slot[pending'[i].of]] = pending'[i].of
    BY <1>5, <2>2, <2>3, <2>4
  <2>6. ASSUME NEW j \in 1..Len(pending'),
               pending'[j].type = "destroyWebRtcTransport",
               pending'[j].slot = slot[pending'[i].of]
        PROVE  i < j
    <3>1. j + 1 \in 1..Len(pending) /\ pending'[j] = pending[j + 1]
      BY <1>2
    <3>2. i + 1 < j + 1
      BY <2>2, <2>6, <3>1
    <3> QED BY <3>2
  <2> QED BY <2>5, <2>6
<1>14. OwnAnswers'
  BY <1>1, <1>3, <1>4, <1>5, <1>9 DEF IInv, OwnAnswers, Patient, s
<1>15. NoLeak' /\ OneOpenObject'
  BY <1>1, <1>3, <1>4, <1>5, <1>9 DEF IInv, NoLeak, OneOpenObject, Patient, s
<1> QED BY <1>6, <1>7, <1>8, <1>10, <1>12, <1>13, <1>14, <1>15 DEF IInv

LEMMA FedInv ==
  ASSUME IInv, Consumed \/ DataConsumed
  PROVE  IInv'
<1> DEFINE c == Head(pending).of
           o == current[slot[c]]
<1>1. /\ pending # <<>> /\ pending' = Tail(pending)
      /\ Head(pending).type \in {"consume", "dataConsume"}
      /\ UNCHANGED <<ws, slot, step, chosen, source, current, local, remote, hasty>> /\ UNCHANGED caps
      /\ fed' = IF o # 0 /\ local[o] = "open" THEN [fed EXCEPT ![o] = @ \cup {c}] ELSE fed
  BY DEF Consumed, DataConsumed, Fed, Feed, Resolved
<1>2. /\ pending' \in Seq(Sent) /\ 1 \in 1..Len(pending)
      /\ Head(pending) = pending[1] /\ Head(pending) \in Sent
      /\ \A i \in 1..Len(pending') : i + 1 \in 1..Len(pending) /\ pending'[i] = pending[i + 1]
      /\ \A t \in AllSlots : DestroyUnderWay(t)' => DestroyUnderWay(t)
  BY <1>1, Dropped DEF IInv, TypeOK
<1>3. /\ c \in Call /\ slot[c] \in AllSlots /\ o \in Call \cup {0}
      /\ o # 0 => slot[o] = slot[c]
      /\ c \in Patient => o = c
  BY <1>1, <1>2, SentShape DEF IInv, TypeOK, ObjectsHaveCalls, ConsumersStay, Patient
<1> HIDE DEF c, o
<1>4. fed \in [Call -> SUBSET Call] /\ slot \in [Call -> AllSlots]
  BY DEF IInv, TypeOK
<1>5. /\ fed' \in [Call -> SUBSET Call]
      /\ \A d \in Call : fed'[d] = fed[d] \/ (d = o /\ fed'[d] = fed[d] \cup {c})
  BY <1>1, <1>3, <1>4
<1>6. TypeOK'
  <2>1. caps' \in BOOLEAN /\ hasty' \subseteq AllSlots
    BY <1>1, Zenon DEF IInv, TypeOK
  <2> QED BY <1>1, <1>2, <1>5, <2>1 DEF IInv, TypeOK
<1>7. RequestsHaveCalls'
  BY <1>1, QueueInv
<1>8. ObjectsHaveCalls'
  BY <1>1 DEF IInv, ObjectsHaveCalls
<1>9. CallsAreAlone'
  BY <1>1, <1>2, <1>4 DEF IInv, CallsAreAlone, Patient
<1>10. DestroysAreAlone' /\ ConsumersStay'
  BY <1>1, <1>2 DEF IInv, DestroysAreAlone, ConsumersStay, Patient
<1>11. OwnAnswers'
  <2>1. ASSUME NEW d \in Call, d \in Patient PROVE fed'[d] \subseteq {d}
    <3>1. fed[d] \subseteq {d}
      BY <2>1 DEF IInv, OwnAnswers
    <3>2. d = o => c = d
      BY <1>3, <2>1, ConstantsAssumption DEF Patient, Call
    <3> QED BY <1>5, <3>1, <3>2
  <2> QED BY <1>1, <2>1 DEF IInv, OwnAnswers, Patient
<1>12. NoLeak' /\ OneOpenObject'
  BY <1>1 DEF IInv, NoLeak, OneOpenObject, Patient
<1> QED BY <1>6, <1>7, <1>8, <1>9, <1>10, <1>11, <1>12 DEF IInv

LEMMA DestroyedInv ==
  ASSUME IInv, Destroyed
  PROVE  IInv'
<1> DEFINE c == Head(pending).of
           s == Head(pending).slot
           o == current[s]
<1>1. /\ pending # <<>> /\ pending' = Tail(pending)
      /\ Head(pending).type = "destroyWebRtcTransport"
      /\ remote' = [remote EXCEPT ![c] = "gone"]
      /\ local' = IF o # 0 /\ local[o] = "open" THEN [local EXCEPT ![o] = "closed"] ELSE local
      /\ current' = [current EXCEPT ![s] = 0]
      /\ UNCHANGED <<ws, slot, step, chosen, source, hasty>> /\ UNCHANGED <<caps, fed>>
  BY DEF Destroyed, Resolved
<1>2. /\ pending' \in Seq(Sent) /\ 1 \in 1..Len(pending)
      /\ Head(pending) = pending[1] /\ Head(pending) \in Sent
      /\ \A i \in 1..Len(pending') : i + 1 \in 1..Len(pending) /\ pending'[i] = pending[i + 1]
      /\ \A t \in AllSlots : DestroyUnderWay(t)' => DestroyUnderWay(t)
  BY <1>1, Dropped DEF IInv, TypeOK
<1>3. /\ c \in Call /\ s \in AllSlots /\ o \in Call \cup {0}
      /\ step[c] \in {"loading", "loaded", "broken"}
      /\ o # 0 => slot[o] = s
      /\ DestroyUnderWay(s)
  BY <1>1, <1>2, SentShape DEF IInv, TypeOK, RequestsHaveCalls, ObjectsHaveCalls, DestroyUnderWay
\* In a slot in which the page has waited it is the object of the request.
<1>4. s \notin hasty =>
        /\ o = c
        /\ \A j \in 1..Len(pending) :
             pending[j].type = "destroyWebRtcTransport" /\ pending[j].slot = s => j = 1
  BY <1>1, <1>2 DEF IInv, DestroysAreAlone
<1> HIDE DEF c, s, o
<1>5. /\ slot \in [Call -> AllSlots] /\ current \in [AllSlots -> Call \cup {0}]
      /\ local \in [Call -> {"none", "open", "closed"}]
      /\ remote \in [Call -> {"none", "open", "gone"}]
      /\ 0 \notin Call
  BY ConstantsAssumption DEF IInv, TypeOK, Call
<1>6. /\ current' \in [AllSlots -> Call \cup {0}]
      /\ local' \in [Call -> {"none", "open", "closed"}]
      /\ remote' \in [Call -> {"none", "open", "gone"}]
      /\ current'[s] = 0 /\ \A t \in AllSlots : t # s => current'[t] = current[t]
      /\ \A d \in Call : d # c => remote'[d] = remote[d]
      /\ remote'[c] = "gone"
      /\ \A d \in Call :
           local'[d] = local[d] \/ (d = o /\ local[d] = "open" /\ local'[d] = "closed")
      /\ o # 0 => local'[o] # "open"
  BY <1>1, <1>3, <1>5
<1>7. TypeOK'
  <2>1. caps' \in BOOLEAN /\ fed' \in [Call -> SUBSET Call] /\ hasty' \subseteq AllSlots
    BY <1>1, Zenon DEF IInv, TypeOK
  <2> QED BY <1>1, <1>2, <1>6, <2>1 DEF IInv, TypeOK
<1>8. RequestsHaveCalls'
  BY <1>1, QueueInv
<1>9. ObjectsHaveCalls'
  BY <1>1, <1>3, <1>6 DEF IInv, ObjectsHaveCalls
<1>10. CallsAreAlone'
  BY <1>1, <1>2, <1>3, <1>5, <1>6 DEF IInv, CallsAreAlone, Patient
<1>11. DestroysAreAlone'
  <2>1. \A i \in 1..Len(pending') :
          pending'[i].type = "destroyWebRtcTransport" => pending'[i].slot \in AllSlots
    BY <1>2, SentShape
  <2> QED BY <1>1, <1>2, <1>4, <1>6, <2>1 DEF IInv, DestroysAreAlone
<1>12. ConsumersStay'
  <2> SUFFICES ASSUME NEW i \in 1..Len(pending'),
                      pending'[i].type \in {"consume", "dataConsume"},
                      pending'[i].of \in Patient
               PROVE  /\ current'[slot[pending'[i].of]] = pending'[i].of
                      /\ \A j \in 1..Len(pending') :
                           pending'[j].type = "destroyWebRtcTransport"
                             /\ pending'[j].slot = slot[pending'[i].of] => i < j
    BY <1>1 DEF ConsumersStay, Patient
  <2>1. i + 1 \in 1..Len(pending) /\ pending'[i] = pending[i + 1]
    BY <1>2
  <2>2. /\ current[slot[pending'[i].of]] = pending'[i].of
        /\ \A j \in 1..Len(pending) :
             pending[j].type = "destroyWebRtcTransport"
               /\ pending[j].slot = slot[pending'[i].of] => i + 1 < j
    BY <2>1 DEF IInv, ConsumersStay
  <2>3. slot[pending'[i].of] \in AllSlots
    BY <1>5 DEF Patient
  <2>4. slot[pending'[i].of] # s
    <3>1. pending[1].type = "destroyWebRtcTransport" /\ pending[1].slot = s
      BY <1>1, <1>2 DEF s
    <3>2. ~(i + 1 < 1)
      OBVIOUS
    <3> QED BY <1>2, <2>2, <3>1, <3>2
  <2>5. current'[slot[pending'[i].of]] = pending'[i].of
    BY <1>6, <2>2, <2>3, <2>4
  <2>6. ASSUME NEW j \in 1..Len(pending'),
               pending'[j].type = "destroyWebRtcTransport",
               pending'[j].slot = slot[pending'[i].of]
        PROVE  i < j
    <3>1. j + 1 \in 1..Len(pending) /\ pending'[j] = pending[j + 1]
      BY <1>2
    <3>2. i + 1 < j + 1
      BY <2>2, <2>6, <3>1
    <3> QED BY <3>2
  <2> QED BY <2>5, <2>6
<1>13. OwnAnswers'
  BY <1>1 DEF IInv, OwnAnswers, Patient
<1>14. NoLeak'
  BY <1>1, <1>3, <1>4, <1>5, <1>6 DEF IInv, NoLeak, Patient, o
<1>15. OneOpenObject'
  BY <1>1, <1>3, <1>5, <1>6 DEF IInv, OneOpenObject, Patient, o
<1> QED BY <1>7, <1>8, <1>9, <1>10, <1>11, <1>12, <1>13, <1>14, <1>15 DEF IInv

-----------------------------------------------------------------------------
(* Requests that are made. *)

\* An object has loaded its device.  What it sends next is not about a transport,
\* and what it may have used is the answer for its own call.
LEMMA LoadedInv ==
  ASSUME IInv, NEW c \in Call, Loaded(c), NEW r \in Sent,
         r.type \in {"produce", "dataProduce"}
           \/ (r.type \in {"consume", "dataConsume"} /\ r.of = c),
         pending' = pending \/ pending' = Append(pending, r),
         \/ fed' = fed
         \/ /\ current[slot[c]] # 0
            /\ fed' = [fed EXCEPT ![current[slot[c]]] = @ \cup {c}]
  PROVE  IInv'
<1> DEFINE s == slot[c]
           o == current[s]
<1>1. /\ step[c] = "loading" /\ step' = [step EXCEPT ![c] = "loaded"]
      /\ local' = [local EXCEPT ![c] = "open"]
      /\ UNCHANGED <<ws, slot, chosen, source, current, remote, hasty>> /\ UNCHANGED caps
  BY DEF Loaded
<1>2. /\ pending \in Seq(Sent) /\ Len(pending) \in Nat
      /\ slot \in [Call -> AllSlots] /\ current \in [AllSlots -> Call \cup {0}]
      /\ step \in [Call -> {"none", "transport", "loading", "loaded", "broken", "failed"}]
      /\ local \in [Call -> {"none", "open", "closed"}]
      /\ fed \in [Call -> SUBSET Call]
      /\ 0 \notin Call
  BY ConstantsAssumption DEF IInv, TypeOK, Call
<1>3. /\ pending' \in Seq(Sent) /\ Len(pending') \in Nat
      /\ \A i \in 1..Len(pending) : i \in 1..Len(pending') /\ pending'[i] = pending[i]
      /\ \A i \in 1..Len(pending') :
           i \in 1..Len(pending) \/ (i = Len(pending) + 1 /\ pending'[i] = r)
      /\ \A t \in AllSlots : DestroyUnderWay(t)' => DestroyUnderWay(t)
  <2>1. CASE pending' = pending
    BY <1>2, <2>1 DEF DestroyUnderWay
  <2>2. CASE pending' = Append(pending, r)
    BY <1>2, <2>2, Appended
  <2> QED BY <2>1, <2>2
<1>4. /\ s \in AllSlots /\ o \in Call \cup {0} /\ (o # 0 => slot[o] = s)
      /\ s \notin hasty =>
           /\ o = c /\ ~DestroyUnderWay(s)
           /\ \A d \in Call : slot[d] = s /\ step[d] \in {"transport", "loading"} => d = c
  BY <1>1, <1>2 DEF IInv, ObjectsHaveCalls, CallsAreAlone, Patient
<1> HIDE DEF s, o
<1>5. /\ step' \in [Call -> {"none", "transport", "loading", "loaded", "broken", "failed"}]
      /\ local' \in [Call -> {"none", "open", "closed"}]
      /\ step'[c] = "loaded" /\ local'[c] = "open"
      /\ \A d \in Call : d # c => step'[d] = step[d] /\ local'[d] = local[d]
  BY <1>1, <1>2
<1>6. /\ fed' \in [Call -> SUBSET Call]
      /\ \A d \in Call : fed'[d] = fed[d] \/ (d = o /\ fed'[d] = fed[d] \cup {c})
  BY <1>2, <1>4 DEF o, s
<1>7. TypeOK'
  <2>1. caps' \in BOOLEAN /\ hasty' \subseteq AllSlots
    BY <1>1, Zenon DEF IInv, TypeOK
  <2> QED BY <1>1, <1>3, <1>5, <1>6, <2>1 DEF IInv, TypeOK
<1>8. RequestsHaveCalls'
  <2> SUFFICES ASSUME NEW i \in 1..Len(pending')
               PROVE  LET type == pending'[i].type
                          d    == pending'[i].of
                      IN  /\ type = "createWebRtcTransport" =>
                               /\ step'[d] = "transport" /\ slot'[d] = pending'[i].slot
                               /\ \A j \in 1..Len(pending') :
                                    pending'[j].type = type /\ pending'[j].of = d => j = i
                          /\ type \in {"consume", "dataConsume"} => step'[d] = "loaded"
                          /\ type = "destroyWebRtcTransport" =>
                               step'[d] \in {"loading", "loaded", "broken"}
    BY DEF RequestsHaveCalls
  <2>1. r.type \notin {"createWebRtcTransport", "destroyWebRtcTransport"}
    OBVIOUS
  <2>2. CASE i \in 1..Len(pending)
    <3>1. pending'[i] = pending[i] /\ pending[i] \in Sent
      BY <1>2, <1>3, <2>2
    <3>2. pending[i].type = "createWebRtcTransport" =>
            /\ step[pending[i].of] = "transport"
            /\ slot[pending[i].of] = pending[i].slot
            /\ \A j \in 1..Len(pending') :
                 pending'[j].type = pending[i].type /\ pending'[j].of = pending[i].of => j = i
      BY <1>3, <2>1, <2>2 DEF IInv, RequestsHaveCalls
    <3>3. /\ pending[i].type \in {"consume", "dataConsume"} => step[pending[i].of] = "loaded"
          /\ pending[i].type = "destroyWebRtcTransport" =>
               step[pending[i].of] \in {"loading", "loaded", "broken"}
      BY <2>2 DEF IInv, RequestsHaveCalls
    <3>4. pending[i].type # "rtpCapabilities" => pending[i].of \in Call
      BY <3>1, SentShape
    <3> QED BY <1>1, <1>5, <3>1, <3>2, <3>3, <3>4
  <2>3. CASE pending'[i] = r
    BY <1>5, <2>1, <2>3
  <2> QED BY <1>3, <2>2, <2>3
<1>9. ObjectsHaveCalls'
  BY <1>1, <1>2, <1>5 DEF IInv, ObjectsHaveCalls
<1>10. CallsAreAlone'
  BY <1>1, <1>2, <1>3, <1>4, <1>5 DEF IInv, CallsAreAlone, Patient, s
<1>11. DestroysAreAlone'
  <2>1. \A i \in 1..Len(pending') :
          pending'[i].type = "destroyWebRtcTransport" =>
            i \in 1..Len(pending) /\ pending'[i] = pending[i]
    BY <1>3
  <2> QED BY <1>1, <2>1 DEF IInv, DestroysAreAlone
<1>12. ConsumersStay'
  <2> SUFFICES ASSUME NEW i \in 1..Len(pending'),
                      pending'[i].type \in {"consume", "dataConsume"},
                      pending'[i].of \in Patient
               PROVE  /\ current[slot[pending'[i].of]] = pending'[i].of
                      /\ \A j \in 1..Len(pending') :
                           pending'[j].type = "destroyWebRtcTransport"
                             /\ pending'[j].slot = slot[pending'[i].of] => i < j
    BY <1>1 DEF ConsumersStay, Patient
  <2>1. CASE i \in 1..Len(pending)
    <3>1. /\ current[slot[pending'[i].of]] = pending'[i].of
          /\ \A j \in 1..Len(pending) :
               pending[j].type = "destroyWebRtcTransport"
                 /\ pending[j].slot = slot[pending'[i].of] => i < j
      BY <1>3, <2>1 DEF IInv, ConsumersStay
    <3> QED BY <1>3, <3>1
  <2>2. CASE pending'[i] = r
    <3>1. pending'[i].of = c /\ s \notin hasty
      BY <2>2 DEF Patient, s
    <3>2. \A j \in 1..Len(pending') :
            ~(pending'[j].type = "destroyWebRtcTransport" /\ pending'[j].slot = s)
      BY <1>3, <1>4, <3>1 DEF DestroyUnderWay
    <3> QED BY <1>4, <3>1, <3>2 DEF s, o
  <2> QED BY <1>3, <2>1, <2>2
<1>13. OwnAnswers'
  <2>1. ASSUME NEW d \in Call, d \in Patient PROVE fed'[d] \subseteq {d}
    <3>1. fed[d] \subseteq {d}
      BY <2>1 DEF IInv, OwnAnswers
    <3>2. d = o => c = d
      BY <1>2, <1>4, <2>1 DEF Patient
    <3> QED BY <1>6, <3>1, <3>2
  <2>2. ASSUME NEW d \in Call, d \in Patient, slot[d] \in ChoosingSlots, step'[d] \in {"loading", "loaded", "broken"}
        PROVE  source[d] = d
    BY <1>1, <1>5, <2>2 DEF IInv, OwnAnswers
  <2> QED BY <1>1, <2>1, <2>2 DEF OwnAnswers, Patient
<1>14. NoLeak' /\ OneOpenObject'
  BY <1>1, <1>4, <1>5 DEF IInv, NoLeak, OneOpenObject, Patient, s, o
<1> QED BY <1>7, <1>8, <1>9, <1>10, <1>11, <1>12, <1>13, <1>14 DEF IInv

LEMMA ObjectLoadedInv ==
  ASSUME IInv, NEW c \in Call,
         \/ ProducerLoaded(c) \/ ConsumerLoaded(c)
         \/ DataProducerLoaded(c) \/ DataConsumerLoaded(c)
  PROVE  IInv'
<1>1. slot[c] \in AllSlots /\ current[slot[c]] \in Call \cup {0}
  BY DEF IInv, TypeOK
<1>2. ASSUME NEW type \in {"consume", "dataConsume"}, Subscribe(c, type) PROVE IInv'
  <2>1. /\ Request(type, c, slot[c]) \in Sent
        /\ Request(type, c, slot[c]).type = type /\ Request(type, c, slot[c]).of = c
    BY <1>1 DEF Request, Sent
  <2>2. /\ Loaded(c) /\ pending' = Append(pending, Request(type, c, slot[c]))
        /\ fed' = fed
    BY <1>2 DEF Subscribe
  <2> QED BY <2>1, <2>2, LoadedInv
<1>3. ASSUME NEW type \in {"produce", "dataProduce"}, Publish(c, type) PROVE IInv'
  <2>1. /\ Request(type, c, slot[c]) \in Sent
        /\ Request(type, c, slot[c]).type = type
    BY <1>1 DEF Request, Sent
  <2>2. /\ Loaded(c)
        /\ pending' = pending \/ pending' = Append(pending, Request(type, c, slot[c]))
        /\ \/ fed' = fed
           \/ /\ current[slot[c]] # 0
              /\ fed' = [fed EXCEPT ![current[slot[c]]] = @ \cup {c}]
    BY <1>3, Zenon DEF Publish, Feed
  <2> QED BY <2>1, <2>2, LoadedInv
<1> QED BY <1>2, <1>3 DEF ProducerLoaded, ConsumerLoaded, DataProducerLoaded, DataConsumerLoaded

LEMMA RequestCreateInv ==
  ASSUME IInv, NEW c \in Call, NEW s \in AllSlots, RequestCreate(c, s)
  PROVE  IInv'
<1> DEFINE r == Request("createWebRtcTransport", c, s)
<1>1. /\ current[s] = 0 /\ step[c] = "none"
      /\ slot' = [slot EXCEPT ![c] = s]
      /\ step' = [step EXCEPT ![c] = "transport"]
      /\ chosen' = IF s \in ChoosingSlots THEN [chosen EXCEPT ![s] = c] ELSE chosen
      /\ pending' = Append(pending, r)
      /\ UNCHANGED <<ws, source, current, local, remote>> /\ UNCHANGED <<caps, fed>>
  BY DEF RequestCreate
<1>2. /\ hasty \subseteq hasty' /\ hasty' \subseteq AllSlots
      /\ s \notin hasty' => ~CreateUnderWay(s) /\ ~DestroyUnderWay(s)
  BY DEF RequestCreate, Hurry, IInv, TypeOK
<1>3. /\ r \in Sent /\ r.type = "createWebRtcTransport" /\ r.of = c /\ r.slot = s
  BY DEF Request, Sent
<1> HIDE DEF r
<1>4. /\ pending \in Seq(Sent)
      /\ slot \in [Call -> AllSlots] /\ current \in [AllSlots -> Call \cup {0}]
      /\ step \in [Call -> {"none", "transport", "loading", "loaded", "broken", "failed"}]
      /\ chosen \in [AllSlots -> Call \cup {0}]
      /\ 0 \notin Call
  BY ConstantsAssumption DEF IInv, TypeOK, Call
<1>5. /\ pending' \in Seq(Sent)
      /\ Len(pending) \in Nat /\ Len(pending') = Len(pending) + 1
      /\ \A i \in 1..Len(pending) : pending'[i] = pending[i]
      /\ \A i \in 1..Len(pending') : i \in 1..Len(pending) \/ i = Len(pending')
      /\ pending'[Len(pending')] = r
      /\ \A t \in AllSlots : DestroyUnderWay(t)' => DestroyUnderWay(t)
  BY <1>1, <1>3, <1>4, Appended
<1>6. /\ slot' \in [Call -> AllSlots]
      /\ step' \in [Call -> {"none", "transport", "loading", "loaded", "broken", "failed"}]
      /\ chosen' \in [AllSlots -> Call \cup {0}]
      /\ slot'[c] = s /\ step'[c] = "transport"
      /\ \A d \in Call : d # c => slot'[d] = slot[d] /\ step'[d] = step[d]
      /\ s \in ChoosingSlots => chosen'[s] = c
      /\ \A t \in AllSlots : t # s => chosen'[t] = chosen[t]
  BY <1>1, <1>4
<1>7. /\ remote[c] = "none" /\ local[c] = "none"
      /\ \A t \in AllSlots : current[t] # c
  BY <1>1, <1>4 DEF IInv, ObjectsHaveCalls
<1>8. TypeOK'
  <2>1. caps' \in BOOLEAN /\ fed' \in [Call -> SUBSET Call] /\ hasty' \subseteq AllSlots
    BY <1>1, <1>2, Zenon DEF IInv, TypeOK
  <2> QED BY <1>1, <1>5, <1>6, <2>1 DEF IInv, TypeOK
<1>9. \A i \in 1..Len(pending) :
        /\ pending[i] \in Sent
        /\ pending[i].type # "rtpCapabilities" => pending[i].of \in Call
        /\ pending[i].type \in {"createWebRtcTransport", "consume", "dataConsume",
                                "destroyWebRtcTransport"} => pending[i].of # c
  BY <1>1, <1>4, SentShape DEF IInv, RequestsHaveCalls
<1>10. RequestsHaveCalls'
  BY <1>3, <1>5, <1>6, <1>9 DEF IInv, RequestsHaveCalls
<1>11. ObjectsHaveCalls'
  BY <1>1, <1>4, <1>6, <1>7 DEF IInv, ObjectsHaveCalls
\* No other call is under way in the slot, or the page has not waited.
<1>12. \A d \in Call : s \notin hasty' /\ d # c /\ slot[d] = s => step[d] \notin {"transport", "loading"}
  BY <1>2 DEF CreateUnderWay
<1>13. CallsAreAlone'
  BY <1>1, <1>2, <1>4, <1>5, <1>6, <1>12 DEF IInv, CallsAreAlone, Patient
<1>14. DestroysAreAlone'
  BY <1>1, <1>2, <1>3, <1>5 DEF IInv, DestroysAreAlone
<1>15. ConsumersStay'
  <2> SUFFICES ASSUME NEW i \in 1..Len(pending'),
                      pending'[i].type \in {"consume", "dataConsume"},
                      pending'[i].of \in Patient'
               PROVE  /\ current[slot'[pending'[i].of]] = pending'[i].of
                      /\ \A j \in 1..Len(pending') :
                           pending'[j].type = "destroyWebRtcTransport"
                             /\ pending'[j].slot = slot'[pending'[i].of] => i < j
    BY <1>1 DEF ConsumersStay
  <2>1. i \in 1..Len(pending) /\ pending'[i] = pending[i]
    BY <1>3, <1>5
  <2>2. pending[i].of # c /\ pending[i].of \in Patient
    BY <1>2, <1>6, <1>9, <2>1 DEF Patient
  <2>3. slot'[pending[i].of] = slot[pending[i].of]
    BY <1>6, <2>2 DEF Patient
  <2>4. /\ current[slot[pending[i].of]] = pending[i].of
        /\ \A j \in 1..Len(pending) :
             pending[j].type = "destroyWebRtcTransport"
               /\ pending[j].slot = slot[pending[i].of] => i < j
    BY <2>1, <2>2 DEF IInv, ConsumersStay
  <2> QED BY <1>3, <1>5, <2>1, <2>3, <2>4
<1>16. \A d \in Patient' : d # c => d \in Patient /\ slot'[d] = slot[d] /\ step'[d] = step[d]
  BY <1>2, <1>6 DEF Patient
<1>17. OwnAnswers'
  <2>1. fed[c] = {}
    BY <1>1 DEF IInv, ObjectsHaveCalls
  <2> QED BY <1>1, <1>6, <1>16, <2>1 DEF IInv, OwnAnswers
<1>18. NoLeak' /\ OneOpenObject'
  BY <1>1, <1>6, <1>7, <1>16 DEF IInv, NoLeak, OneOpenObject
<1> QED BY <1>8, <1>10, <1>11, <1>13, <1>14, <1>15, <1>17, <1>18 DEF IInv

LEMMA DestroyInv ==
  ASSUME IInv, NEW s \in AllSlots, Destroy(s)
  PROVE  IInv'
<1> DEFINE o == current[s]
           r == Request("destroyWebRtcTransport", o, s)
<1>1. /\ o # 0 /\ pending' = Append(pending, r)
      /\ UNCHANGED <<ws, slot, step, chosen, source, current, local, remote>>
      /\ UNCHANGED <<caps, fed>>
  BY DEF Destroy
<1>2. /\ hasty \subseteq hasty' /\ hasty' \subseteq AllSlots
      /\ s \notin hasty' => ~CreateUnderWay(s) /\ ~DestroyUnderWay(s)
  BY DEF Destroy, Hurry, IInv, TypeOK
<1>3. o \in Call /\ slot[o] = s /\ step[o] \in {"loading", "loaded", "broken"}
  BY <1>1 DEF IInv, TypeOK, ObjectsHaveCalls
<1>4. /\ r \in Sent /\ r.type = "destroyWebRtcTransport" /\ r.of = o /\ r.slot = s
  BY <1>3 DEF Request, Sent
<1> HIDE DEF r, o
<1>5. /\ pending' \in Seq(Sent)
      /\ Len(pending) \in Nat /\ Len(pending') = Len(pending) + 1
      /\ \A i \in 1..Len(pending) : pending'[i] = pending[i]
      /\ \A i \in 1..Len(pending') : i \in 1..Len(pending) \/ i = Len(pending')
      /\ pending'[Len(pending')] = r
      /\ \A t \in AllSlots : DestroyUnderWay(t)' => DestroyUnderWay(t) \/ t = s
  BY <1>1, <1>4, Appended DEF IInv, TypeOK
<1>6. TypeOK'
  <2>1. caps' \in BOOLEAN /\ fed' \in [Call -> SUBSET Call] /\ hasty' \subseteq AllSlots
    BY <1>1, <1>2, Zenon DEF IInv, TypeOK
  <2> QED BY <1>1, <1>5, <2>1 DEF IInv, TypeOK
<1>7. RequestsHaveCalls'
  BY <1>1, <1>3, <1>4, <1>5 DEF IInv, RequestsHaveCalls
<1>8. ObjectsHaveCalls'
  BY <1>1 DEF IInv, ObjectsHaveCalls
<1>9. slot \in [Call -> AllSlots] /\ Patient' \subseteq Patient
  BY <1>1, <1>2 DEF IInv, TypeOK, Patient
<1>10. CallsAreAlone'
  <2> SUFFICES ASSUME NEW c \in Patient', step[c] \in {"transport", "loading"}
               PROVE  /\ \A d \in Call : slot[d] = slot[c] /\ step[d] \in {"transport", "loading"} => d = c
                      /\ ~DestroyUnderWay(slot[c])'
                      /\ current[slot[c]] = IF step[c] = "loading" THEN c ELSE 0
                      /\ step[c] = "transport" /\ slot[c] \in ChoosingSlots => chosen[slot[c]] = c
    BY <1>1 DEF CallsAreAlone, DestroyUnderWay
  <2>1. c \in Call /\ slot[c] \in AllSlots /\ slot[c] \notin hasty'
    BY <1>1, <1>9 DEF Patient
  <2>2. slot[c] # s
    BY <1>2, <2>1 DEF CreateUnderWay
  <2>3. /\ \A d \in Call : slot[d] = slot[c] /\ step[d] \in {"transport", "loading"} => d = c
        /\ ~DestroyUnderWay(slot[c])
        /\ current[slot[c]] = IF step[c] = "loading" THEN c ELSE 0
        /\ step[c] = "transport" /\ slot[c] \in ChoosingSlots => chosen[slot[c]] = c
    BY <1>9 DEF IInv, CallsAreAlone
  <2>4. \A j \in 1..Len(pending') :
          ~(pending'[j].type = "destroyWebRtcTransport" /\ pending'[j].slot = slot[c])
    BY <1>4, <1>5, <2>2, <2>3 DEF DestroyUnderWay
  <2> QED BY <1>1, <2>3, <2>4 DEF DestroyUnderWay
<1>11. DestroysAreAlone'
  <2> SUFFICES ASSUME NEW i \in 1..Len(pending'),
                      pending'[i].type = "destroyWebRtcTransport", pending'[i].slot \notin hasty'
               PROVE  /\ current[pending'[i].slot] = pending'[i].of
                      /\ \A j \in 1..Len(pending') :
                           pending'[j].type = "destroyWebRtcTransport"
                             /\ pending'[j].slot = pending'[i].slot => j = i
    BY <1>1 DEF DestroysAreAlone
  <2>1. CASE pending'[i].slot = s
    <3>1. \A j \in 1..Len(pending) :
            ~(pending[j].type = "destroyWebRtcTransport" /\ pending[j].slot = s)
      BY <1>2, <2>1 DEF DestroyUnderWay
    <3>2. i = Len(pending') /\ pending'[i] = r
      BY <1>5, <2>1, <3>1
    <3> QED BY <1>4, <1>5, <2>1, <3>1, <3>2 DEF o
  <2>2. CASE pending'[i].slot # s
    <3>1. i \in 1..Len(pending) /\ pending'[i] = pending[i]
      BY <1>4, <1>5, <2>2
    <3>2. /\ current[pending[i].slot] = pending[i].of
          /\ \A j \in 1..Len(pending) :
               pending[j].type = "destroyWebRtcTransport" /\ pending[j].slot = pending[i].slot
                 => j = i
      BY <1>2, <3>1 DEF IInv, DestroysAreAlone
    <3> QED BY <1>4, <1>5, <2>2, <3>1, <3>2
  <2> QED BY <2>1, <2>2
<1>12. ConsumersStay'
  <2> SUFFICES ASSUME NEW i \in 1..Len(pending'),
                      pending'[i].type \in {"consume", "dataConsume"},
                      pending'[i].of \in Patient'
               PROVE  /\ current[slot[pending'[i].of]] = pending'[i].of
                      /\ \A j \in 1..Len(pending') :
                           pending'[j].type = "destroyWebRtcTransport"
                             /\ pending'[j].slot = slot[pending'[i].of] => i < j
    BY <1>1 DEF ConsumersStay
  <2>1. i \in 1..Len(pending) /\ pending'[i] = pending[i]
    BY <1>4, <1>5
  <2>2. /\ current[slot[pending[i].of]] = pending[i].of
        /\ \A j \in 1..Len(pending) :
             pending[j].type = "destroyWebRtcTransport"
               /\ pending[j].slot = slot[pending[i].of] => i < j
    BY <1>9, <2>1 DEF IInv, ConsumersStay
  <2> QED BY <1>5, <2>1, <2>2
<1>13. OwnAnswers' /\ NoLeak' /\ OneOpenObject'
  BY <1>1, <1>9 DEF IInv, OwnAnswers, NoLeak, OneOpenObject
<1> QED BY <1>6, <1>7, <1>8, <1>10, <1>11, <1>12, <1>13 DEF IInv

\* An object could not load its device: what is in the slots, the queue and the
\* server stays.
LEMMA LoadFailsInv ==
  ASSUME IInv, NEW c \in Call, LoadFails(c)
  PROVE  IInv'
<1>1. /\ step[c] = "loading" /\ step' = [step EXCEPT ![c] = "broken"]
      /\ UNCHANGED <<ws, pending, slot, chosen, source, current, local, remote, hasty>>
      /\ UNCHANGED <<caps, fed>>
  BY DEF LoadFails
<1>2. step \in [Call -> {"none", "transport", "loading", "loaded", "broken", "failed"}]
  BY DEF IInv, TypeOK
<1>3. /\ step' \in [Call -> {"none", "transport", "loading", "loaded", "broken", "failed"}]
      /\ step'[c] = "broken" /\ \A d \in Call : d # c => step'[d] = step[d]
  BY <1>1, <1>2
<1>4. TypeOK'
  <2>1. caps' \in BOOLEAN /\ fed' \in [Call -> SUBSET Call] /\ hasty' \subseteq AllSlots
    BY <1>1, Zenon DEF IInv, TypeOK
  <2> QED BY <1>1, <1>3, <2>1 DEF IInv, TypeOK
<1>5. RequestsHaveCalls'
  <2>1. \A i \in 1..Len(pending) :
          pending[i].type \in {"createWebRtcTransport", "consume", "dataConsume"} =>
            pending[i].of # c
    BY <1>1 DEF IInv, RequestsHaveCalls
  <2>2. \A i \in 1..Len(pending) : pending[i].type # "rtpCapabilities" => pending[i].of \in Call
    BY SentShape DEF IInv, TypeOK
  <2> QED BY <1>1, <1>3, <2>1, <2>2 DEF IInv, RequestsHaveCalls
<1>6. ObjectsHaveCalls'
  BY <1>1, <1>3, ConstantsAssumption DEF IInv, ObjectsHaveCalls, TypeOK
<1>7. CallsAreAlone' /\ DestroysAreAlone' /\ ConsumersStay'
  BY <1>1, <1>3
     DEF IInv, CallsAreAlone, DestroysAreAlone, ConsumersStay, Patient, DestroyUnderWay
<1>8. OwnAnswers' /\ OneOpenObject'
  BY <1>1, <1>3 DEF IInv, OwnAnswers, OneOpenObject, Patient
<1>9. NoLeak'
  BY <1>1, <1>3 DEF IInv, NoLeak, Patient
<1> QED BY <1>4, <1>5, <1>6, <1>7, <1>8, <1>9 DEF IInv

-----------------------------------------------------------------------------
(* The theorems. *)

LEMMA NextInv == IInv /\ [Next]_vars => IInv'
<1> SUFFICES ASSUME IInv, [Next]_vars PROVE IInv'
  OBVIOUS
<1>1. CASE \E c \in Call, s \in Slots : RequestCreate(c, s)
  BY <1>1, RequestCreateInv, ConstantsAssumption
<1>2. CASE \E s \in Slots : Destroy(s)
  BY <1>2, DestroyInv, ConstantsAssumption
<1>3. CASE \E c \in Call : \/ ProducerLoaded(c) \/ ConsumerLoaded(c)
                           \/ DataProducerLoaded(c) \/ DataConsumerLoaded(c)
                           \/ LoadFails(c)
  BY <1>3, ObjectLoadedInv, LoadFailsInv
<1>4. CASE RtpCapabilities \/ Produced
  BY <1>4, PlainAnswersInv
<1>5. CASE TransportCreated
  BY <1>5, TransportCreatedInv
<1>6. CASE Consumed \/ DataConsumed
  BY <1>6, FedInv
<1>7. CASE Destroyed
  BY <1>7, DestroyedInv
<1>8. CASE Rejected
  BY <1>8, RejectedInv
<1>9. CASE WsClosed
  BY <1>9, WsClosedInv
<1>10. CASE UNCHANGED vars
  <2>1. UNCHANGED <<ws, pending, slot, step, chosen, source>>
        /\ UNCHANGED <<current, local, remote, hasty>> /\ caps' = caps /\ fed' = fed
    BY <1>10 DEF vars
  <2>2. TypeOK'
    <3>1. caps' \in BOOLEAN /\ fed' \in [Call -> SUBSET Call] /\ hasty' \subseteq AllSlots
      BY <2>1, Zenon DEF IInv, TypeOK
    <3> QED BY <2>1, <3>1 DEF IInv, TypeOK
  <2>3. RequestsHaveCalls' /\ ObjectsHaveCalls' /\ DestroysAreAlone'
    BY <2>1 DEF IInv, RequestsHaveCalls, ObjectsHaveCalls, DestroysAreAlone
  <2>4. CallsAreAlone' /\ ConsumersStay'
    BY <2>1 DEF IInv, CallsAreAlone, ConsumersStay, Patient, DestroyUnderWay
  <2>5. OwnAnswers' /\ NoLeak' /\ OneOpenObject'
    BY <2>1 DEF IInv, OwnAnswers, NoLeak, OneOpenObject, Patient
  <2> QED BY <2>2, <2>3, <2>4, <2>5 DEF IInv
<1> QED BY <1>1, <1>2, <1>3, <1>4, <1>5, <1>6, <1>7, <1>8, <1>9, <1>10 DEF Next

\* The calls of the page never disturb the order that IInv describes, as long as the
\* page waits in a slot.
THEOREM Invariance == Spec => []IInv
<1> QED BY InitInv, NextInv, PTL DEF Spec

\* An object produces or consumes what its own call asked for and nothing else.
THEOREM AnswersAreOwn == Spec => []OwnAnswers
<1>1. IInv => OwnAnswers
  BY DEF IInv
<1> QED BY <1>1, Invariance, PTL

\* A transport that the server has can still be destroyed by the page.
THEOREM NothingLeaks == Spec => []NoLeak
<1>1. IInv => NoLeak
  BY DEF IInv
<1> QED BY <1>1, Invariance, PTL

\* Every object that leaves its slot is closed.
THEOREM OpenObjectsAreInSlots == Spec => []OneOpenObject
<1>1. IInv => OneOpenObject
  BY DEF IInv
<1> QED BY <1>1, Invariance, PTL

\* destroyProducer and the like take out of the slot, after their await, the object
\* whose transport they asked the server to destroy, and leave nothing of it open or
\* still to be opened.
THEOREM DestroysAreOwn == Spec => DestroysItsOwn
<1> DEFINE P == \A s \in AllSlots \ hasty : current[s] # 0 /\ current'[s] = 0 =>
                  /\ remote'[current[s]] = "gone"
                  /\ local'[current[s]] # "open" /\ step'[current[s]] # "loading"
<1>1. ASSUME IInv, [Next]_vars PROVE P \/ UNCHANGED vars
  <2> SUFFICES ASSUME NEW s \in AllSlots, s \notin hasty, current[s] # 0, current'[s] = 0,
                      Next
               PROVE  /\ remote'[current[s]] = "gone"
                      /\ local'[current[s]] # "open" /\ step'[current[s]] # "loading"
    BY <1>1 DEF P
  <2>1. current[s] \in Call /\ 0 \notin Call /\ current \in [AllSlots -> Call \cup {0}]
    BY <1>1, ConstantsAssumption DEF Call, TypeOK, IInv
  <2>2. CASE Destroyed
    <3> DEFINE c == Head(pending).of
               t == Head(pending).slot
    <3>1. /\ pending # <<>> /\ pending' = Tail(pending)
          /\ Head(pending).type = "destroyWebRtcTransport"
          /\ remote' = [remote EXCEPT ![c] = "gone"]
          /\ local' = IF current[t] # 0 /\ local[current[t]] = "open"
                        THEN [local EXCEPT ![current[t]] = "closed"] ELSE local
          /\ current' = [current EXCEPT ![t] = 0] /\ step' = step
      BY <2>2 DEF Destroyed, Resolved
    <3>2. 1 \in 1..Len(pending) /\ Head(pending) = pending[1] /\ Head(pending) \in Sent
      BY <1>1, <3>1, Dropped DEF IInv, TypeOK
    <3>3. t = s /\ c = current[s]
      <4>1. t = s
        BY <2>1, <3>1, <3>2
      <4> QED BY <1>1, <3>1, <3>2, <4>1 DEF IInv, DestroysAreAlone
    <3>4. step[c] # "loading"
      <4>1. slot[c] = s /\ step[c] \in {"loading", "loaded", "broken"}
        BY <1>1, <3>3 DEF IInv, ObjectsHaveCalls
      <4>2. DestroyUnderWay(s)
        BY <3>1, <3>2, <3>3 DEF DestroyUnderWay
      <4> QED BY <1>1, <2>1, <3>3, <4>1, <4>2 DEF IInv, CallsAreAlone, Patient
    <3>5. /\ c \in Call /\ c # 0
          /\ local \in [Call -> {"none", "open", "closed"}]
          /\ remote \in [Call -> {"none", "open", "gone"}]
      BY <1>1, <2>1, <3>3, <3>4 DEF IInv, TypeOK, ObjectsHaveCalls
    <3> HIDE DEF c, t
    <3> QED BY <2>1, <3>1, <3>3, <3>4, <3>5
  <2>3. CASE TransportCreated
    <3> DEFINE c == Head(pending).of
    <3>1. /\ pending # <<>> /\ pending' = Tail(pending) /\ Head(pending).type = "createWebRtcTransport"
          /\ current' = [current EXCEPT ![slot[c]] = c] \/ current' = current
      BY <2>3 DEF TransportCreated, Resolved
    <3>2. c \in Call
      BY <1>1, <3>1, Dropped, SentShape DEF IInv, TypeOK
    <3> HIDE DEF c
    <3> QED BY <2>1, <3>1, <3>2
  <2>4. CASE ~Destroyed /\ ~TransportCreated
    <3>1. current' = current
      BY <2>4 DEF Next, RequestCreate, Destroy, ProducerLoaded, ConsumerLoaded,
           DataProducerLoaded, DataConsumerLoaded, Publish, Subscribe, Loaded, LoadFails,
           RtpCapabilities, Consumed, DataConsumed, Fed, Produced, Rejected, WsClosed
    <3> QED BY <3>1
  <2> QED BY <2>2, <2>3, <2>4
<1> QED BY <1>1, Invariance, PTL DEF Spec, DestroysItsOwn

\* As long as the page has waited in every slot, no slot has two open objects:
\* the functions' refusal to create a second one (mediasoup-demo.ts:84) fails
\* only for a page that calls while something is under way.
THEOREM TwoObjectsNeedHaste == Spec => [](hasty = {} => OneObject)
<1>1. IInv => (hasty = {} => OneObject)
  BY DEF IInv, OneOpenObject, Patient, OneObject
<1> QED  BY <1>1, Invariance, PTL
=============================================================================
