------------------------ MODULE SessionServer_proofs ------------------------
(***************************************************************************)
(* Proofs about SessionServer, for every set of clients and of requests.   *)
(* IInv is inductive; the properties that the runs check follow from it.   *)
(***************************************************************************)
EXTENDS SessionServer, TLAPS

USE ConstantsAssumption

-----------------------------------------------------------------------------
\* A type of one family is of no other.
LEMMA TypesDiffer ==
  /\ TransportTypes \cap EndpointTypes = {}
  /\ SourceTypes \cap SinkTypes = {}
  /\ "none" \notin AllTypes \cup TransportTypes \cup SourceTypes \cup SinkTypes
  /\ DefaultTypes \subseteq AllTypes
  /\ TransportTypes \cup EndpointTypes \subseteq DefaultTypes
  /\ "createSession" \notin DefaultTypes
  /\ "connect" \notin TransportTypes \cup EndpointTypes
BY DEF TransportTypes, EndpointTypes, SourceTypes, SinkTypes, DefaultTypes,
       AllTypes

\* Closing transports of the session keeps what the invariant says of the
\* objects (mediasoup.ts, deleteTransport and the close observers).
LEMMA CloseKeepsObjects ==
  ASSUME IInv, NEW closing \in SUBSET Transports, CloseTransports(closing),
         UNCHANGED <<call, stage>>
  PROVE  /\ open' \subseteq open /\ listed' \subseteq listed
         /\ notices' \subseteq Request
         /\ open' \cap closing = {}
         /\ Of(TransportTypes) \cap (open \ open') \subseteq closing
         /\ Tracked' /\ Attached' /\ DeadIsExplained'
         /\ NoticesAreForDeadSinks' /\ LateSinksAreNotified'
         /\ Zombies \subseteq Zombies'
<1> DEFINE gone == closing \cup {e \in listed : call[e].on \in closing}
           fed == FedBy(gone) \ gone
           starved == {s \in fed : call[s].on \in open \ closing}
<1>1. PICK told \in SUBSET {s \in fed : call[s].on \in closing} :
        /\ open' = open \ (gone \cup starved)
        /\ listed' = listed \ gone
        /\ notices' = (notices \ gone) \cup starved \cup told
  BY DEF CloseTransports
<1>2. /\ closing \subseteq open /\ closing \subseteq listed
      /\ closing \subseteq Of(TransportTypes)
      /\ open \subseteq listed
  BY DEF IInv, Tracked, Transports
<1>3. gone \ closing \subseteq Of(EndpointTypes)
  BY TypesDiffer DEF IInv, ListedIsCreated, CallsAreSound, Of, Transports
<1>4. starved \subseteq Of(SinkTypes) /\ told \subseteq Of(SinkTypes)
  BY DEF FedBy, Of
<1>5. UNCHANGED <<call, stage>>
  OBVIOUS
<1>6. gone \subseteq listed
  BY <1>2
<1>7. /\ open' \subseteq open /\ listed' \subseteq listed
      /\ open' \cap closing = {}
  BY <1>1
<1>8. notices' \subseteq Request
  BY <1>1, <1>4 DEF IInv, TypeOK, Of
<1>9. Of(TransportTypes) \cap (open \ open') \subseteq closing
  BY <1>1, <1>3, <1>4, TypesDiffer DEF Of, EndpointTypes
<1> HIDE DEF starved
<1>10. Tracked'
  <2>1. open' \subseteq listed'
    BY <1>1, <1>2
  <2>2. Transports' \subseteq open'
    BY <1>1, <1>4, <1>5, TypesDiffer
       DEF IInv, Tracked, Transports, Of, EndpointTypes
  <2> QED  BY <2>1, <2>2 DEF Tracked
<1>11. Attached'
  <2> SUFFICES ASSUME NEW e \in Request, e \in open',
                      call[e].type \in EndpointTypes
               PROVE  /\ call[e].on \in open'
                      /\ call[e].type \in SinkTypes => call[e].src \in open'
    BY <1>5 DEF Attached, Of
  <2>1. e \in open /\ e \in listed /\ e \notin gone /\ e \notin starved
    BY <1>1, <1>2
  <2>2. /\ call[e].on \in open \ closing
        /\ call[e].type \in SinkTypes => call[e].src \in open
    BY <2>1 DEF IInv, Attached, Of
  <2>3. /\ call[e].on \in Of(TransportTypes)
        /\ call[e].type \in SinkTypes => call[e].src \in Of(SourceTypes)
    BY <2>1 DEF IInv, CallsAreSound, ListedIsCreated, Of
  <2>4. call[e].on \in open'
    BY <1>1, <1>3, <1>4, <2>2, <2>3, TypesDiffer DEF Of, EndpointTypes
  <2>5. ASSUME call[e].type \in SinkTypes  PROVE call[e].src \in open'
    <3>1. call[e].src \notin gone
      BY <2>1, <2>2, <2>5 DEF FedBy, Of, starved
    <3>2. call[e].src \notin starved
      BY <1>4, <2>3, <2>5, TypesDiffer DEF Of
    <3> QED  BY <1>1, <2>2, <2>5, <3>1, <3>2
  <2> QED  BY <2>4, <2>5
<1>12. Zombies \subseteq Zombies'
  <2> SUFFICES ASSUME NEW e \in listed, e \notin open, call[e].on \notin open
               PROVE  e \in listed' /\ e \notin open' /\ call[e].on \notin open'
    BY <1>5 DEF Zombies
  <2>1. e \notin gone
    BY <1>2
  <2> QED  BY <1>1, <1>7, <2>1
<1>13. DeadIsExplained'
  <2> SUFFICES ASSUME NEW e \in listed', e \notin open', e \notin notices'
               PROVE  e \in Zombies'
    BY DEF DeadIsExplained
  <2>1. CASE e \in open
    BY <1>1, <2>1
  <2>2. CASE e \notin open
    <3>1. e \notin notices
      BY <1>1
    <3>2. e \in Zombies
      BY <1>7, <2>2, <3>1 DEF IInv, DeadIsExplained
    <3> QED  BY <1>12, <3>2
  <2> QED  BY <2>1, <2>2
<1>14. NoticesAreForDeadSinks'
  <2> SUFFICES ASSUME NEW s \in notices'
               PROVE  /\ s \in Of(SinkTypes) /\ s \notin open'
                      /\ stage[s] = "waiting" \/ s \in listed'
    BY <1>5 DEF NoticesAreForDeadSinks, Of
  <2>1. CASE s \in notices \ gone
    BY <1>1, <2>1 DEF IInv, NoticesAreForDeadSinks
  <2>2. CASE s \in starved
    BY <1>1, <1>2, <1>4, <2>2 DEF FedBy, starved
  <2>3. CASE s \in told
    <3>1. s \notin gone /\ call[s].on \in closing
      BY <2>3
    <3>2. s \notin open
      BY <1>2, <3>1
    <3> QED  BY <1>4, <1>7, <2>3, <3>2 DEF FedBy
  <2> QED  BY <1>1, <2>1, <2>2, <2>3
<1>15. LateSinksAreNotified'
  <2> SUFFICES ASSUME NEW s \in Of(SinkTypes), stage[s] = "waiting",
                      call[s].on \in open', call[s].src \notin open'
               PROVE  s \in notices'
    BY <1>5 DEF LateSinksAreNotified, Of
  <2>1. s \notin gone
    BY <1>6 DEF IInv, ListedIsCreated
  <2>2. call[s].on \in open \ closing
    BY <1>7
  <2>3. CASE call[s].src \notin open
    BY <1>1, <2>1, <2>2, <2>3 DEF IInv, LateSinksAreNotified
  <2>4. CASE call[s].src \in open
    <3>1. call[s].src \notin starved
      BY <1>4, TypesDiffer DEF IInv, CallsAreSound, Of
    <3>2. s \in starved
      BY <1>1, <2>1, <2>2, <2>4, <3>1 DEF FedBy, starved
    <3> QED  BY <1>1, <3>2
  <2> QED  BY <2>3, <2>4
<1> QED  BY <1>7, <1>8, <1>9, <1>10, <1>11, <1>12, <1>13, <1>14, <1>15

-----------------------------------------------------------------------------
(* The inductive invariant: one lemma for each kind of step.                *)

\* The server starts with no client, no object and no request.
LEMMA InitInv == Init => IInv
<1> SUFFICES ASSUME Init  PROVE IInv
  OBVIOUS
<1>1. TypeOK
  BY DEF Init, TypeOK, Call, NoCall
<1>2. \A types : "none" \notin types => Of(types) = {}
  BY DEF Init, Of, NoCall
<1>3. CallsAreSound
  BY TypesDiffer DEF Init, CallsAreSound, NoCall
<1> QED
  BY <1>1, <1>2, <1>3, TypesDiffer
     DEF Init, IInv, ListedIsCreated, NoticesAreForDeadSinks,
         LateSinksAreNotified, RefusedCommands, Tracked, Transports, Owned,
         OnlyOwn, Attached, DeadIsExplained, DeadSessionIsEmpty

\* The default session ends: every Map is empty and no request of it waits.
LEMMA CloseSessionInv ==
  ASSUME IInv, NEW status \in {"failed", "removed"}, CloseSession(status),
         UNCHANGED <<extra, conn, call, mine>>
  PROVE  IInv'
<1>1. /\ open' = {} /\ listed' = {} /\ notices' = {} /\ commands' = {}
      /\ session' = status
      /\ UNCHANGED <<extra, conn, call, mine>>
  BY DEF CloseSession
<1>2. stage' = [r \in Request |->
         IF stage[r] \in {"waiting", "refused"} /\ call[r].type \in DefaultTypes
           THEN "error" ELSE stage[r]]
  BY DEF CloseSession
<1>3. TypeOK'
  BY <1>1, <1>2 DEF IInv, TypeOK, CloseSession
<1>4. CallsAreSound'
  BY <1>1, <1>2 DEF IInv, CallsAreSound, TypeOK, Of
<1>5. LateSinksAreNotified'
  BY <1>1 DEF LateSinksAreNotified
<1>6. OnlyOwn'
  BY <1>1 DEF IInv, OnlyOwn
<1>7. DeadSessionIsEmpty'
  <2> SUFFICES ASSUME NEW r \in Request, call[r].type \in DefaultTypes
               PROVE  stage'[r] \in {"ok", "error"}
    BY <1>1 DEF DeadSessionIsEmpty, Of
  <2>1. stage[r] # "unsent"
    BY TypesDiffer DEF IInv, CallsAreSound, NoCall
  <2>2. stage[r] \in {"waiting", "refused", "ok", "error"}
    BY <2>1 DEF IInv, TypeOK
  <2> QED  BY <1>2, <2>2
<1> QED
  BY <1>1, <1>3, <1>4, <1>5, <1>6, <1>7
     DEF IInv, ListedIsCreated, NoticesAreForDeadSinks, RefusedCommands,
         Tracked, Transports, Owned, Attached, DeadIsExplained

\* A request is received.  What the handlers look up before their first
\* await is all that the invariant needs.
LEMMA ReceiveInv ==
  ASSUME IInv, NEW r \in Request, NEW c \in Client, NEW type \in AllTypes,
         NEW on \in Known, NEW src \in Known,
         NEW s \in {"waiting", "refused", "error"},
         Receive(r, c, type, on, src, s),
         type \in TransportTypes => on = None,
         type \in DefaultTypes /\ s # "error" => session = "up",
         type \in EndpointTypes /\ s # "error" => on \in Transports,
         type \in SinkTypes /\ s # "error" =>
           src \in listed \cap Of(SourceTypes),
         type \in SinkTypes /\ s = "waiting" => src \in open
  PROVE  IInv'
<1>1. /\ stage[r] = "unsent" /\ call[r] = NoCall
      /\ call' = [call EXCEPT ![r] = [by |-> c, type |-> type, on |-> on, src |-> src]]
      /\ stage' = [stage EXCEPT ![r] = s]
      /\ UNCHANGED <<process, session, extra, conn, open, listed, mine,
                     notices, commands>>
  BY DEF Receive, IInv, CallsAreSound
<1>2. on \in Request \cup {None} /\ src \in Request \cup {None}
  BY DEF Known
<1>3. TypeOK'
  BY <1>1, <1>2 DEF IInv, TypeOK, Call
<1>4. /\ call'[r].type = type /\ call'[r].on = on /\ call'[r].src = src
      /\ call'[r].by = c /\ stage'[r] = s
      /\ \A q \in Request \ {r} : call'[q] = call[q] /\ stage'[q] = stage[q]
  BY <1>1 DEF IInv, TypeOK
<1>5. /\ r \notin listed /\ r \notin open /\ r \notin notices
      /\ \A c2 \in Client : r \notin mine[c2]
      /\ \A types : "none" \notin types => r \notin Of(types)
  <2>1. \A types : "none" \notin types => r \notin Of(types)
    BY <1>1 DEF Of, NoCall
  <2>2. r \notin listed /\ r \notin open
    BY <1>1 DEF IInv, ListedIsCreated, Tracked
  <2>3. r \notin notices /\ \A c2 \in Client : r \notin mine[c2]
    BY <2>1, TypesDiffer DEF IInv, NoticesAreForDeadSinks, OnlyOwn, Of, NoCall
  <2> QED  BY <2>1, <2>2, <2>3
<1>6. \A types, S : r \notin S => S \cap Of(types)' = S \cap Of(types)
  BY <1>4 DEF Of
<1>7. CallsAreSound'
  <2> SUFFICES ASSUME NEW q \in Request
               PROVE
      /\ stage'[q] = "unsent" => call'[q] = NoCall
      /\ stage'[q] # "unsent" => call'[q].by \in Client
      /\ call'[q].type \in TransportTypes => call'[q].on = None
      /\ stage'[q] \in {"waiting", "refused", "ok"} =>
         /\ call'[q].type \in EndpointTypes =>
              call'[q].on \in Of(TransportTypes)' /\ stage'[call'[q].on] = "ok"
         /\ call'[q].type \in SinkTypes =>
              call'[q].src \in Of(SourceTypes)' /\ stage'[call'[q].src] = "ok"
    BY DEF CallsAreSound
  <2>1. \A t : t \in Of(TransportTypes) => t \in Of(TransportTypes)' /\ t # r
    BY <1>4, <1>5, TypesDiffer DEF Of
  <2>2. \A t : t \in Of(SourceTypes) => t \in Of(SourceTypes)' /\ t # r
    BY <1>4, <1>5, TypesDiffer DEF Of
  <2>3. Of(TransportTypes) \subseteq Request /\ Of(SourceTypes) \subseteq Request
    BY DEF Of
  <2>4. CASE q = r
    <3>1. on \in Transports => on \in Of(TransportTypes) /\ stage[on] = "ok"
      BY DEF IInv, ListedIsCreated, Transports
    <3>2. src \in listed => stage[src] = "ok"
      BY DEF IInv, ListedIsCreated
    <3> QED  BY <1>4, <2>1, <2>2, <2>3, <2>4, <3>1, <3>2
  <2>5. CASE q # r
    BY <1>4, <2>1, <2>2, <2>3, <2>5 DEF IInv, CallsAreSound
  <2> QED  BY <2>4, <2>5
<1>8. ListedIsCreated'
  BY <1>1, <1>4, <1>5 DEF IInv, ListedIsCreated, Of
<1>9. NoticesAreForDeadSinks'
  BY <1>1, <1>4, <1>5 DEF IInv, NoticesAreForDeadSinks, Of
<1>10. LateSinksAreNotified'
  BY <1>1, <1>4, <1>5 DEF IInv, LateSinksAreNotified, Of
<1>11. Zombies' = Zombies
  BY <1>1, <1>4, <1>5 DEF Zombies
<1>12. Tracked'
  BY <1>1, <1>5, <1>6 DEF IInv, Tracked, Transports
<1>13. Owned' /\ OnlyOwn'
  <2>1. Owned'
    BY <1>1, <1>4, <1>5 DEF IInv, Owned, Of
  <2>2. OnlyOwn'
    BY <1>1, <1>4, <1>5 DEF IInv, OnlyOwn, TypeOK
  <2> QED  BY <2>1, <2>2
<1>14. Attached'
  BY <1>1, <1>4, <1>5 DEF IInv, Attached, Of
<1>15. DeadSessionIsEmpty'
  <2>1. \A q \in Of(DefaultTypes)' : q # r => q \in Of(DefaultTypes)
    BY <1>4 DEF Of
  <2>2. r \in Of(DefaultTypes)' => type \in DefaultTypes
    BY <1>4 DEF Of
  <2> QED  BY <1>1, <1>4, <2>1, <2>2 DEF IInv, DeadSessionIsEmpty, Of
<1>16. DeadIsExplained' /\ RefusedCommands'
  BY <1>1, <1>4, <1>5, <1>11 DEF IInv, DeadIsExplained, RefusedCommands, Zombies, Of
<1> QED  BY <1>3, <1>7, <1>8, <1>9, <1>10, <1>12, <1>13, <1>14, <1>15, <1>16 DEF IInv

\* Every handler that awaits the worker checks what ReceiveInv asks for.
LEMMA RequestInv ==
  ASSUME IInv, NEW r \in Request, NEW c \in Client, RequestStep(r, c)
  PROVE  IInv'
<1>1. None \in Known
  BY DEF Known
<1>2. Found /\ listed # {} => session = "up"
  BY DEF IInv, DeadSessionIsEmpty
<1>3. \A type, on, src, s : Receive(r, c, type, on, src, s) => type \in AllTypes
  BY DEF Receive
<1>4. CASE createWebRtcTransport(r, c) \/ createPlainTransport(r, c)
  BY <1>1, <1>3, <1>4, ReceiveInv, TypesDiffer
     DEF createWebRtcTransport, createPlainTransport, TransportTypes,
         EndpointTypes, SourceTypes, SinkTypes
<1>5. CASE createMediaSession(r, c)
  BY <1>1, <1>3, <1>5, ReceiveInv, TypesDiffer
     DEF createMediaSession, TransportTypes, EndpointTypes, SourceTypes,
         SinkTypes, DefaultTypes
<1>6. ASSUME NEW on \in Known,
             \/ connect(r, c, on)
             \/ createProducer(r, c, on)
             \/ createDataProducer(r, c, on)
      PROVE  IInv'
  <2>1. Found /\ on \in Transports => session = "up"
    BY <1>2 DEF Transports
  <2> QED  BY <1>1, <1>3, <1>6, <2>1, ReceiveInv
           DEF connect, createProducer, createDataProducer, TransportTypes,
               EndpointTypes, SourceTypes, SinkTypes
<1>7. ASSUME NEW on \in Known, NEW src \in Known,
             \/ createConsumer(r, c, on, src)
             \/ createDataConsumer(r, c, on, src)
      PROVE  IInv'
  <2>1. ASSUME NEW sources \in SourceTypes
        PROVE  LET s == SinkStage(on, src, sources)
               IN /\ s \in {"waiting", "refused", "error"}
                  /\ s # "error" => /\ session = "up" /\ on \in Transports
                                    /\ src \in listed \cap Of(SourceTypes)
                  /\ s = "waiting" => src \in open
    BY <1>2, <2>1 DEF SinkStage, Transports, Of
  <2>2. \A type \in SinkTypes :
          /\ type \in AllTypes /\ type \notin TransportTypes
    BY DEF SinkTypes, AllTypes, DefaultTypes, EndpointTypes, TransportTypes
  <2>3. ASSUME NEW type \in SinkTypes, NEW sources \in SourceTypes, NEW s,
               Receive(r, c, type, on, src, s),
               s = "error" \/ s = SinkStage(on, src, sources)
        PROVE  IInv'
    <3>1. /\ s \in {"waiting", "refused", "error"}
          /\ s # "error" => /\ session = "up" /\ on \in Transports
                            /\ src \in listed \cap Of(SourceTypes)
          /\ s = "waiting" => src \in open
      BY <2>1, <2>3
    <3> QED  BY <2>2, <2>3, <3>1, ReceiveInv
  <2>4. "consume" \in SinkTypes /\ "dataConsume" \in SinkTypes
    BY DEF SinkTypes
  <2>5. "produce" \in SourceTypes /\ "dataProduce" \in SourceTypes
    BY DEF SourceTypes
  <2>6. CASE createConsumer(r, c, on, src)
    BY <2>3, <2>4, <2>5, <2>6 DEF createConsumer
  <2>7. CASE createDataConsumer(r, c, on, src)
    BY <2>3, <2>4, <2>5, <2>7 DEF createDataConsumer
  <2> QED  BY <1>7, <2>6, <2>7
<1> QED  BY <1>4, <1>5, <1>6, <1>7 DEF RequestStep

\* Transports of the session close; clients, calls and stages stay.
LEMMA CloseTransportsInv ==
  ASSUME IInv, NEW closing \in SUBSET Transports, CloseTransports(closing),
         UNCHANGED <<process, session, extra, call, stage, commands>>,
         conn' \in [Client -> {"new", "open", "closed"}],
         mine' \in [Client -> SUBSET Request],
         \A c \in Client : mine'[c] \subseteq mine[c],
         \A t \in (open \cap Of(TransportTypes)) \ closing :
           t \in mine'[call[t].by]
  PROVE  IInv'
<1>1. /\ open' \subseteq open /\ listed' \subseteq listed
      /\ notices' \subseteq Request
      /\ open' \cap closing = {}
      /\ Tracked' /\ Attached' /\ DeadIsExplained'
      /\ NoticesAreForDeadSinks' /\ LateSinksAreNotified'
      /\ Zombies \subseteq Zombies'
  BY CloseKeepsObjects
<1>2. TypeOK'
  BY <1>1 DEF IInv, TypeOK
<1>3. CallsAreSound'
  BY DEF IInv, CallsAreSound, Of
<1>4. ListedIsCreated' /\ Owned' /\ OnlyOwn' /\ RefusedCommands'
  BY <1>1 DEF IInv, ListedIsCreated, Owned, OnlyOwn, RefusedCommands, Of
<1>5. DeadSessionIsEmpty'
  <2>1. SUFFICES ASSUME session # "up"  PROVE notices' = {}
    BY <1>1 DEF IInv, DeadSessionIsEmpty, Of
  <2>2. notices' \subseteq notices \cup listed' \cup {s \in Of(SinkTypes) : stage[s] = "waiting"}
    BY <1>1 DEF NoticesAreForDeadSinks, Of
  <2>3. {s \in Of(SinkTypes) : stage[s] = "waiting"} = {}
    BY <2>1 DEF IInv, DeadSessionIsEmpty, Of, SinkTypes, DefaultTypes, EndpointTypes
  <2> QED  BY <1>1, <2>1, <2>2, <2>3 DEF IInv, DeadSessionIsEmpty
<1> QED  BY <1>1, <1>2, <1>3, <1>4, <1>5 DEF IInv

\* A transport is created: no endpoint can be on it yet.
LEMMA TransportCreatedInv ==
  ASSUME IInv, NEW r \in Request, TransportCreated(r)
  PROVE  IInv'
<1>1. /\ stage[r] = "waiting" /\ call[r].type \in TransportTypes
      /\ stage' = [stage EXCEPT ![r] = "ok"]
      /\ open' = open \cup {r}
      /\ listed' = listed \cup {r}
      /\ mine' = [mine EXCEPT ![call[r].by] = @ \cup {r}]
      /\ UNCHANGED <<process, session, extra, conn, call, notices, commands>>
  BY DEF TransportCreated, Granted, Answered
<1>2. /\ call[r].by \in Client /\ r \in Of(TransportTypes)
      /\ session = "up"
      /\ r \notin listed /\ r \notin open /\ r \notin notices
  <2>1. r \in Of(TransportTypes) /\ r \in Of(DefaultTypes) /\ r \notin Of(SinkTypes)
    BY <1>1, TypesDiffer DEF Of, EndpointTypes
  <2>2. call[r].by \in Client /\ r \notin listed /\ r \notin open
    BY <1>1 DEF IInv, CallsAreSound, ListedIsCreated, Tracked
  <2> QED  BY <1>1, <2>1, <2>2 DEF IInv, DeadSessionIsEmpty, NoticesAreForDeadSinks
<1>3. /\ \A q \in Request : call[q].type \in EndpointTypes /\ stage[q] \in {"waiting", "refused", "ok"}
           => call[q].on # r /\ (call[q].type \in SinkTypes => call[q].src # r)
      /\ \A q \in Request : stage'[q] # stage[q] => q = r /\ stage'[q] = "ok"
  BY <1>1 DEF IInv, CallsAreSound, TypeOK
<1>4. TypeOK'
  BY <1>1, <1>2 DEF IInv, TypeOK
<1>5. CallsAreSound'
  BY <1>1, <1>3, TypesDiffer DEF IInv, CallsAreSound, TypeOK, Of, EndpointTypes
<1>6. ListedIsCreated'
  BY <1>1, <1>2 DEF IInv, ListedIsCreated, TypeOK, Of
<1>7. NoticesAreForDeadSinks'
  BY <1>1, <1>2, <1>3 DEF IInv, NoticesAreForDeadSinks, Of
<1>8. LateSinksAreNotified'
  BY <1>1, <1>3, TypesDiffer DEF IInv, LateSinksAreNotified, Of, EndpointTypes
<1>9. Tracked' /\ Owned' /\ OnlyOwn'
  BY <1>1, <1>2 DEF IInv, Tracked, Transports, Owned, OnlyOwn, TypeOK, Of
<1>10. Attached'
  BY <1>1, <1>2, TypesDiffer DEF IInv, Attached, Of
<1>11. Zombies \subseteq Zombies'
  <2> SUFFICES ASSUME NEW e \in Zombies  PROVE e \in Zombies'
    OBVIOUS
  <2>1. e \in listed /\ e \notin open /\ call[e].on \notin open
    BY DEF Zombies
  <2>2. /\ call[e].type \in EndpointTypes /\ e \in Request
        /\ stage[e] = "ok"
    BY <2>1 DEF IInv, Tracked, Transports, ListedIsCreated, Of
  <2> QED  BY <1>1, <1>2, <1>3, <2>1, <2>2 DEF Zombies
<1>12. DeadIsExplained' /\ RefusedCommands'
  BY <1>1, <1>2, <1>11 DEF IInv, DeadIsExplained, RefusedCommands, Of
<1>13. DeadSessionIsEmpty'
  BY <1>1, <1>2 DEF DeadSessionIsEmpty
<1> QED
  BY <1>4, <1>5, <1>6, <1>7, <1>8, <1>9, <1>10, <1>12, <1>13 DEF IInv

\* An endpoint is created, on a transport that may have closed meanwhile.
LEMMA EndpointCreatedInv ==
  ASSUME IInv, NEW r \in Request, NEW types \in SUBSET EndpointTypes,
         EndpointCreated(r, types)
  PROVE  IInv'
<1>1. /\ stage[r] = "waiting" /\ call[r].type \in EndpointTypes
      /\ stage' = [stage EXCEPT ![r] = "ok"]
      /\ open' = IF call[r].on \in open /\ r \notin notices THEN open \cup {r} ELSE open
      /\ listed' = listed \cup {r}
      /\ UNCHANGED <<process, session, extra, conn, call, mine, notices, commands>>
  BY DEF EndpointCreated, Granted, Answered
<1>2. /\ r \in Of(EndpointTypes) /\ r \notin Of(TransportTypes)
      /\ session = "up" /\ r \notin listed /\ r \notin open
  <2>1. r \in Of(EndpointTypes) /\ r \in Of(DefaultTypes) /\ r \notin Of(TransportTypes)
    BY <1>1, TypesDiffer DEF Of
  <2>2. r \notin listed /\ r \notin open
    BY <1>1 DEF IInv, ListedIsCreated, Tracked
  <2> QED  BY <1>1, <2>1, <2>2 DEF IInv, DeadSessionIsEmpty
<1>3. /\ \A q \in Request : call[q].type \in EndpointTypes /\ stage[q] \in {"waiting", "refused", "ok"}
           => call[q].on # r /\ (call[q].type \in SinkTypes => call[q].src # r)
      /\ \A q \in Request : stage'[q] # stage[q] => q = r /\ stage'[q] = "ok"
  BY <1>1 DEF IInv, CallsAreSound, TypeOK
<1>4. TypeOK'
  BY <1>1 DEF IInv, TypeOK
<1>5. CallsAreSound'
  BY <1>1, <1>3, TypesDiffer DEF IInv, CallsAreSound, TypeOK, Of, EndpointTypes
<1>6. ListedIsCreated'
  BY <1>1, <1>2 DEF IInv, ListedIsCreated, TypeOK, Of
<1>7. NoticesAreForDeadSinks'
  BY <1>1, <1>2, <1>3 DEF IInv, NoticesAreForDeadSinks, Of
<1>8. LateSinksAreNotified'
  BY <1>1, <1>3, TypesDiffer DEF IInv, LateSinksAreNotified, CallsAreSound, Of, EndpointTypes
<1>9. Tracked' /\ Owned' /\ OnlyOwn'
  BY <1>1, <1>2 DEF IInv, Tracked, Transports, Owned, OnlyOwn, TypeOK, Of
<1>10. Attached'
  <2>1. CASE open' = open
    BY <1>1, <2>1 DEF IInv, Attached, Of
  <2>2. CASE open' = open \cup {r} /\ call[r].on \in open /\ r \notin notices
    <3>1. call[r].type \in SinkTypes => call[r].src \in open
      BY <1>1, <2>2 DEF IInv, LateSinksAreNotified, Of
    <3> QED  BY <1>1, <2>2, <3>1 DEF IInv, Attached, Of
  <2> QED  BY <1>1, <2>1, <2>2
<1>11. Zombies \subseteq Zombies'
  <2> SUFFICES ASSUME NEW e \in Zombies  PROVE e \in Zombies'
    OBVIOUS
  <2>1. e \in listed /\ e \notin open /\ call[e].on \notin open
    BY DEF Zombies
  <2>2. /\ call[e].type \in EndpointTypes /\ e \in Request
        /\ stage[e] = "ok"
    BY <2>1 DEF IInv, Tracked, Transports, ListedIsCreated, Of
  <2> QED  BY <1>1, <1>2, <1>3, <2>1, <2>2 DEF Zombies
<1>12. RefusedCommands'
  BY <1>1, <1>11 DEF IInv, RefusedCommands, Of
<1>13. DeadIsExplained'
  <2>1. r \notin open' => r \in notices' \cup Zombies'
    BY <1>1 DEF Zombies
  <2>2. \A e \in listed : e \notin open' => e \in notices' \cup Zombies'
    BY <1>1, <1>11 DEF IInv, DeadIsExplained
  <2> QED  BY <1>1, <2>1, <2>2 DEF DeadIsExplained
<1>14. DeadSessionIsEmpty'
  BY <1>1, <1>2 DEF DeadSessionIsEmpty
<1> QED
  BY <1>4, <1>5, <1>6, <1>7, <1>8, <1>9, <1>10, <1>12, <1>13, <1>14 DEF IInv

\* A request is answered without an object of the default session.
LEMMA OtherAnswerInv ==
  ASSUME IInv, NEW r \in Request,
         TransportConnected(r) \/ SessionCreated(r) \/ RequestFailed(r)
  PROVE  IInv'
<1>1. PICK s \in {"ok", "error"} :
        /\ stage' = [stage EXCEPT ![r] = s]
        /\ s = "ok" => call[r].type \notin TransportTypes \cup EndpointTypes
        /\ s = "error" => notices' = notices \ {r}
        /\ s = "ok" => notices' = notices
  BY TypesDiffer
     DEF TransportConnected, SessionCreated, RequestFailed, Granted, Answered
<1>2. /\ stage[r] \in {"waiting", "refused"}
      /\ extra' \subseteq Request
      /\ UNCHANGED <<process, session, conn, call, open, listed, mine, commands>>
  BY DEF TransportConnected, SessionCreated, RequestFailed, Granted, IInv, TypeOK
<1>3. /\ \A q \in Request \ {r} : stage'[q] = stage[q]
      /\ stage'[r] = s
  BY <1>1 DEF IInv, TypeOK
<1>4. r \notin listed /\ r \notin open
  BY <1>2 DEF IInv, ListedIsCreated, Tracked
<1>5. TypeOK'
  BY <1>1, <1>2 DEF IInv, TypeOK
<1>6. CallsAreSound'
  BY <1>1, <1>2, <1>3, TypesDiffer DEF IInv, CallsAreSound, Of, EndpointTypes
<1>7. ListedIsCreated'
  BY <1>2, <1>3, <1>4 DEF IInv, ListedIsCreated, Of
<1>8. NoticesAreForDeadSinks'
  BY <1>1, <1>2, <1>3, TypesDiffer DEF IInv, NoticesAreForDeadSinks, Of, EndpointTypes
<1>9. LateSinksAreNotified'
  BY <1>1, <1>2, <1>3 DEF IInv, LateSinksAreNotified, Of
<1>10. Tracked' /\ Owned' /\ OnlyOwn' /\ Attached'
  BY <1>2 DEF IInv, Tracked, Transports, Owned, OnlyOwn, Attached, Of
<1>11. DeadIsExplained' /\ RefusedCommands'
  BY <1>1, <1>2, <1>4 DEF IInv, DeadIsExplained, RefusedCommands, Zombies, Of
<1>12. DeadSessionIsEmpty'
  BY <1>1, <1>2, <1>3 DEF IInv, DeadSessionIsEmpty, Of
<1> QED
  BY <1>5, <1>6, <1>7, <1>8, <1>9, <1>10, <1>11, <1>12 DEF IInv

\* A sink leaves its Map because its source is closed.
LEMMA SourceClosedInv ==
  ASSUME IInv, NEW s \in Request, SourceClosed(s)
  PROVE  IInv'
<1>1. /\ s \in notices /\ stage[s] = "ok" /\ s \notin open
      /\ s \in Of(SinkTypes) /\ s \notin Of(TransportTypes)
      /\ s \notin Of(SourceTypes)
  BY TypesDiffer DEF SourceClosed, IInv, NoticesAreForDeadSinks, Of, EndpointTypes
<1>2. /\ listed' = listed \ {s} /\ notices' = notices \ {s}
      /\ UNCHANGED <<process, session, extra, conn, call, stage, open, mine,
                     commands>>
  BY DEF SourceClosed
<1>3. TypeOK' /\ CallsAreSound' /\ ListedIsCreated'
  BY <1>2 DEF IInv, TypeOK, CallsAreSound, ListedIsCreated, Of
<1>4. NoticesAreForDeadSinks' /\ LateSinksAreNotified'
  BY <1>1, <1>2 DEF IInv, NoticesAreForDeadSinks, LateSinksAreNotified, Of
<1>5. Tracked' /\ Owned' /\ OnlyOwn' /\ Attached'
  BY <1>1, <1>2 DEF IInv, Tracked, Transports, Owned, OnlyOwn, Attached, Of
<1>6. DeadIsExplained' /\ DeadSessionIsEmpty'
  BY <1>2 DEF IInv, DeadIsExplained, DeadSessionIsEmpty, Zombies, Of
<1>7. RefusedCommands'
  <2> SUFFICES ASSUME NEW k \in commands, k.answer = "error"
               PROVE  k.producer \in Zombies'
    BY <1>2 DEF IInv, RefusedCommands, Of
  <2> QED  BY <1>1, <1>2 DEF IInv, RefusedCommands, Zombies
<1> QED  BY <1>3, <1>4, <1>5, <1>6, <1>7 DEF IInv

\* A pause or resume is sent, or answered.
LEMMA CommandInv ==
  ASSUME IInv,
         \/ \E c \in Client, id \in Known : Command(c, id)
         \/ \E k \in commands : CommandAnswered(k)
  PROVE  IInv'
<1>1. UNCHANGED <<session, extra, conn, call, stage, open, listed, mine, notices>>
  BY DEF Command, CommandAnswered
<1>2. /\ commands' \subseteq [producer : Request, answer : {"ok", "error"}]
      /\ \A k \in commands' : k.answer = "error" => k.producer \in Zombies \cap Of(SourceTypes)
      /\ session # "up" => commands' = {}
      /\ process' \in {"running", "crashed"}
  <2>1. ASSUME NEW c \in Client, NEW id \in Known, Command(c, id)
        PROVE  <1>2!:
    <3>1. /\ id \in listed \cap Of({"produce"})
          /\ commands' = commands \cup {[producer |-> id, answer |-> IF id \in open THEN "ok" ELSE "error"]}
          /\ process' = process
      BY <2>1 DEF Command
    <3>2. id \in Request /\ id \in Of(SourceTypes) /\ id \notin Of(SinkTypes)
      BY <3>1 DEF Of, SourceTypes, SinkTypes
    <3>3. id \notin open => id \in Zombies
      BY <3>1, <3>2 DEF IInv, DeadIsExplained, NoticesAreForDeadSinks
    <3>4. session = "up"
      BY <3>1 DEF IInv, DeadSessionIsEmpty
    <3> DEFINE k == [producer |-> id, answer |-> IF id \in open THEN "ok" ELSE "error"]
    <3>5. /\ k \in [producer : Request, answer : {"ok", "error"}]
          /\ k.producer = id /\ k.answer = "error" => id \notin open
      BY <3>2
    <3>6. commands' = commands \cup {k}
      BY <3>1
    <3> HIDE DEF k
    <3> QED
      BY <3>1, <3>2, <3>3, <3>4, <3>5, <3>6 DEF IInv, TypeOK, RefusedCommands
  <2>2. ASSUME NEW k \in commands, CommandAnswered(k)
        PROVE  <1>2!:
    BY <2>2 DEF CommandAnswered, IInv, TypeOK, RefusedCommands, DeadSessionIsEmpty
  <2> QED  BY <2>1, <2>2
<1> QED
  BY <1>1, <1>2
     DEF IInv, TypeOK, CallsAreSound, ListedIsCreated, NoticesAreForDeadSinks,
         LateSinksAreNotified, RefusedCommands, Tracked, Transports, Owned,
         OnlyOwn, Attached, DeadIsExplained, DeadSessionIsEmpty, Zombies, Of

\* A session starts or fails to start, a websocket opens, or nothing happens.
LEMMA StatusInv ==
  ASSUME IInv,
         session' \in {session, "up"},
         process' \in {"running", "crashed"},
         conn' \in [Client -> {"new", "open", "closed"}],
         UNCHANGED <<extra, call, stage, open, listed, mine, notices, commands>>
  PROVE  IInv'
BY DEF IInv, TypeOK, CallsAreSound, ListedIsCreated, NoticesAreForDeadSinks,
       LateSinksAreNotified, RefusedCommands, Tracked, Transports, Owned,
       OnlyOwn, Attached, DeadIsExplained, DeadSessionIsEmpty, Zombies, Of

\* The websocket closes and takes down the transports in its own Map.
LEMMA OnCloseInv ==
  ASSUME IInv, NEW c \in Client, onClose(c)
  PROVE  IInv'
<1>1. /\ conn' \in [Client -> {"new", "open", "closed"}]
      /\ mine' = [mine EXCEPT ![c] = {}]
      /\ UNCHANGED <<process, session, extra, call, stage, commands>>
  BY DEF onClose, IInv, TypeOK
<1>2. CASE Found
  <2>1. mine[c] \cap Transports \in SUBSET Transports
    OBVIOUS
  <2>2. CloseTransports(mine[c] \cap Transports)
    BY <1>2 DEF onClose
  <2>3. /\ mine' \in [Client -> SUBSET Request]
        /\ \A d \in Client : mine'[d] \subseteq mine[d]
    BY <1>1 DEF IInv, TypeOK
  <2>4. \A t \in (open \cap Of(TransportTypes)) \ (mine[c] \cap Transports) :
          t \in mine'[call[t].by]
    BY <1>1 DEF IInv, TypeOK, Owned, Tracked, Transports, Of
  <2> HIDE DEF Transports
  <2> QED  BY <1>1, <2>1, <2>2, <2>3, <2>4, CloseTransportsInv
<1>3. CASE ~Found
  <2>1. open = {} /\ UNCHANGED <<open, listed, notices>>
    BY <1>3 DEF onClose, Found, IInv, DeadSessionIsEmpty
  <2> QED
    BY <1>1, <2>1
       DEF IInv, TypeOK, CallsAreSound, ListedIsCreated,
           NoticesAreForDeadSinks, LateSinksAreNotified, RefusedCommands,
           Tracked, Transports, Owned, OnlyOwn, Attached, DeadIsExplained,
           DeadSessionIsEmpty, Zombies, Of
<1> QED  BY <1>2, <1>3

\* Any client may close any transport by its id.
LEMMA DestroyTransportInv ==
  ASSUME IInv, NEW c \in Client, NEW id \in Known, DestroyTransport(c, id)
  PROVE  IInv'
<1>1. /\ mine' = [mine EXCEPT ![c] = @ \ {id}]
      /\ CloseTransports({id} \cap Transports)
      /\ UNCHANGED <<process, session, extra, conn, call, stage, commands>>
  BY DEF DestroyTransport
<1>2. /\ mine' \in [Client -> SUBSET Request]
      /\ \A d \in Client : mine'[d] \subseteq mine[d]
      /\ conn' \in [Client -> {"new", "open", "closed"}]
  BY <1>1 DEF IInv, TypeOK
<1>3. \A t \in (open \cap Of(TransportTypes)) \ ({id} \cap Transports) :
        t \in mine'[call[t].by]
  BY <1>1 DEF IInv, TypeOK, Owned, Tracked, Transports, Of
<1>4. {id} \cap Transports \in SUBSET Transports
  OBVIOUS
<1> HIDE DEF Transports
<1> QED  BY <1>1, <1>2, <1>3, <1>4, CloseTransportsInv

-----------------------------------------------------------------------------
(* The theorems.                                                            *)

\* Every step of the server keeps the inductive invariant.
LEMMA NextInv == IInv /\ [Next]_vars => IInv'
<1> SUFFICES ASSUME IInv, [Next]_vars  PROVE IInv'
  OBVIOUS
<1>1. CASE StartSession \/ StartSessionFails
  BY <1>1, StatusInv DEF StartSession, StartSessionFails, IInv, TypeOK
<1>2. CASE WorkerDied
  BY <1>2, CloseSessionInv DEF WorkerDied
<1>3. ASSUME NEW c \in Client, ClientStep(c)  PROVE IInv'
  <2>1. CASE onConnect(c)
    BY <2>1, StatusInv DEF onConnect, IInv, TypeOK
  <2>2. CASE onClose(c)
    BY <2>2, OnCloseInv
  <2>3. CASE destroyMediaSession(c)
    BY <2>3, CloseSessionInv DEF destroyMediaSession
  <2>4. ASSUME NEW id \in Known,
               destroyWebRtcTransport(c, id) \/ destroyPlainTransport(c, id)
        PROVE  IInv'
    BY <2>4, DestroyTransportInv DEF destroyWebRtcTransport, destroyPlainTransport
  <2>5. ASSUME NEW id \in Known, pauseProducer(c, id) \/ resumeProducer(c, id)
        PROVE  IInv'
    BY <2>5, CommandInv DEF pauseProducer, resumeProducer
  <2>6. CASE NullMessage(c)
    BY <2>6, StatusInv DEF NullMessage, IInv, TypeOK
  <2> QED  BY <1>3, <2>1, <2>2, <2>3, <2>4, <2>5, <2>6 DEF ClientStep
<1>4. ASSUME NEW r \in Request, NEW c \in Client, RequestStep(r, c)
      PROVE  IInv'
  BY <1>4, RequestInv
<1>5. ASSUME NEW r \in Request, WorkerAnswers(r)  PROVE IInv'
  <2>1. CASE TransportCreated(r)
    BY <2>1, TransportCreatedInv
  <2>2. CASE \/ ProducerCreated(r) \/ ConsumerCreated(r)
             \/ DataProducerCreated(r) \/ DataConsumerCreated(r)
    BY <2>2, EndpointCreatedInv
       DEF ProducerCreated, ConsumerCreated, DataProducerCreated,
           DataConsumerCreated, EndpointTypes, SourceTypes, SinkTypes
  <2>3. CASE TransportConnected(r) \/ SessionCreated(r) \/ RequestFailed(r)
    BY <2>3, OtherAnswerInv
  <2> QED  BY <1>5, <2>1, <2>2, <2>3 DEF WorkerAnswers
<1>6. ASSUME NEW r \in Request, SourceClosed(r)  PROVE IInv'
  BY <1>6, SourceClosedInv
<1>7. ASSUME NEW k \in commands, CommandAnswered(k)  PROVE IInv'
  BY <1>7, CommandInv
<1>8. CASE UNCHANGED vars
  BY <1>8, StatusInv DEF vars, IInv, TypeOK
<1> QED  BY <1>1, <1>2, <1>3, <1>4, <1>5, <1>6, <1>7, <1>8 DEF Next

\* IInv is an invariant of the server.
THEOREM Invariance == Spec => []IInv
BY InitInv, NextInv, PTL DEF Spec

\* What exists in the worker is in a Map of the session: the closes look there.
THEOREM NothingIsLost == Spec => []Tracked
<1>1. IInv => Tracked
  BY DEF IInv
<1> QED  BY <1>1, Invariance, PTL

\* A transport that the worker has is in the Map of the client that asked for it:
\* onClose looks there.
THEOREM OwnersKnow == Spec => []Owned
<1>1. IInv => Owned
  BY DEF IInv
<1> QED  BY <1>1, Invariance, PTL

\* It is in no other client's Map.
THEOREM OnlyOwnersKnow == Spec => []OnlyOwn
<1>1. IInv => OnlyOwn
  BY DEF IInv
<1> QED  BY <1>1, Invariance, PTL

\* The objects of the worker stay attached to each other.
THEOREM ObjectsAreConsistent == Spec => []Attached
<1>1. IInv => Attached
  BY DEF IInv
<1> QED  BY <1>1, Invariance, PTL

\* A listed id that is dead is on its way out, or was dead when it was listed.
THEOREM DeadEntriesAreExplained == Spec => []DeadIsExplained
<1>1. IInv => DeadIsExplained
  BY DEF IInv
<1> QED  BY <1>1, Invariance, PTL

\* A session that failed or was removed holds nothing, whatever was under way.
THEOREM DeadSessionStaysEmpty == Spec => []DeadSessionIsEmpty
<1>1. IInv => DeadSessionIsEmpty
  BY DEF IInv
<1> QED  BY <1>1, Invariance, PTL

\* Which steps change the objects that exist, a websocket or the process.
LEMMA StepKinds ==
  ASSUME IInv, [Next]_vars
  PROVE  \/ UNCHANGED <<call, conn, open>> 
         \/ \E r \in Request, c \in Client : RequestStep(r, c)
         \/ \E r \in Request : TransportCreated(r)
         \/ \E r \in Request : EndpointCreated(r, EndpointTypes)
         \/ open' = {} /\ UNCHANGED <<call, conn>>
         \/ \E c \in Client : onConnect(c) \/ onClose(c)
         \/ \E c \in Client, id \in Known : DestroyTransport(c, id)
BY DEF Next, vars, ClientStep, WorkerAnswers, StartSession, StartSessionFails,
       NullMessage, WorkerDied, CloseSession, destroyMediaSession, destroyWebRtcTransport,
       destroyPlainTransport, pauseProducer, resumeProducer, Command,
       CommandAnswered, SourceClosed, ProducerCreated, ConsumerCreated,
       DataProducerCreated, DataConsumerCreated, EndpointCreated, Granted,
       TransportConnected, SessionCreated, RequestFailed, EndpointTypes,
       SourceTypes, SinkTypes

\* A request that is received changes no object, no websocket and no call but
\* its own.
LEMMA RequestFrame ==
  ASSUME IInv, NEW r \in Request, NEW c \in Client, RequestStep(r, c)
  PROVE  /\ stage[r] = "unsent" /\ UNCHANGED <<process, conn, open>>
         /\ \A q \in Request \ {r} : call'[q] = call[q]
BY DEF RequestStep, createWebRtcTransport, createPlainTransport,
       createMediaSession, connect, createProducer, createDataProducer,
       createConsumer, createDataConsumer, Receive, IInv, TypeOK

\* A websocket that closes closes the transports it asked for, all of them and
\* no other.
LEMMA OnCloseSweeps ==
  ASSUME IInv, NEW c \in Client, onClose(c)
  PROVE  /\ UNCHANGED call /\ conn' = [conn EXCEPT ![c] = "closed"]
         /\ open' \subseteq open
         /\ \A t \in Of(TransportTypes) : t \in open' => call[t].by # c
         /\ \A t \in Of(TransportTypes) \cap (open \ open') : call[t].by = c
<1>1. UNCHANGED <<call, stage>> /\ conn' = [conn EXCEPT ![c] = "closed"]
  BY DEF onClose
<1>2. CASE Found
  <2>1. CloseTransports(mine[c] \cap Transports)
    BY <1>2 DEF onClose
  <2>2. mine[c] \cap Transports \in SUBSET Transports
    OBVIOUS
  <2> DEFINE closing == mine[c] \cap Transports
  <2>3. /\ open' \subseteq open /\ open' \cap closing = {}
        /\ Of(TransportTypes) \cap (open \ open') \subseteq closing
    <3> HIDE DEF closing
    <3> QED  BY <1>1, <2>1, <2>2, CloseKeepsObjects DEF closing
  <2>4. \A t \in open \cap Of(TransportTypes) : call[t].by = c => t \in closing
    BY DEF IInv, Owned, Tracked, Transports
  <2>5. \A t \in closing : call[t].by = c
    BY DEF IInv, OnlyOwn
  <2> QED  BY <1>1, <2>3, <2>4, <2>5
<1>3. CASE ~Found
  BY <1>1, <1>3 DEF onClose, Found, IInv, DeadSessionIsEmpty
<1> QED  BY <1>2, <1>3

\* A websocket that closes leaves no transport behind: an orphan is made only
\* by the answer to a request that outlived it (mediasoup-client.ts:202-247).
THEOREM OrphansOnlyAtBirth == Spec => OrphansAreBornSo
<1>1. ASSUME IInv, [Next]_vars, NEW t \in Orphans' \ Orphans
      PROVE  stage[t] = "waiting"
  <2>1. t \in open' /\ t \in Request /\ call'[t].type \in TransportTypes
        /\ conn'[call'[t].by] = "closed"
    BY <1>1 DEF Orphans, Of
  <2>2. CASE UNCHANGED <<call, conn, open>>
    BY <1>1, <2>2 DEF Orphans, Of
  <2>3. ASSUME NEW r \in Request, NEW c \in Client, RequestStep(r, c)
        PROVE  stage[t] = "waiting"
    <3>1. t # r
      BY <1>1, <2>1, <2>3, RequestFrame DEF IInv, Tracked, ListedIsCreated
    <3> QED  BY <1>1, <2>1, <2>3, <3>1, RequestFrame DEF Orphans, Of
  <2>4. ASSUME NEW r \in Request, TransportCreated(r)
        PROVE  stage[t] = "waiting"
    BY <1>1, <2>4 DEF TransportCreated, Granted, Orphans, Of
  <2>5. ASSUME NEW r \in Request, EndpointCreated(r, EndpointTypes)
        PROVE  stage[t] = "waiting"
    BY <1>1, <2>5 DEF EndpointCreated, Granted, Orphans, Of
  <2>6. CASE open' = {}
    BY <2>1, <2>6
  <2>7. ASSUME NEW c \in Client, onConnect(c)  PROVE stage[t] = "waiting"
    BY <1>1, <2>1, <2>7 DEF onConnect, Orphans, Of, IInv, TypeOK
  <2>8. ASSUME NEW c \in Client, onClose(c)  PROVE stage[t] = "waiting"
    <3>1. UNCHANGED call /\ t \in open /\ t \in Of(TransportTypes)
      BY <2>1, <2>8, <1>1, OnCloseSweeps DEF Of
    <3>2. call[t].by \in Client /\ call[t].by # c
      BY <1>1, <2>1, <2>8, <3>1, OnCloseSweeps, TypesDiffer
         DEF IInv, CallsAreSound, NoCall, Of
    <3>3. conn'[call[t].by] = conn[call[t].by]
      BY <1>1, <2>8, <3>2, OnCloseSweeps DEF IInv, TypeOK
    <3> QED  BY <1>1, <2>1, <3>1, <3>3 DEF Orphans
  <2>9. ASSUME NEW c \in Client, NEW id \in Known, DestroyTransport(c, id)
        PROVE  stage[t] = "waiting"
    BY <1>1, <2>1, <2>9 DEF DestroyTransport, CloseTransports, Orphans, Of
  <2> QED
    BY <1>1, <2>2, <2>3, <2>4, <2>5, <2>6, <2>7, <2>8, <2>9, StepKinds
<1>2. IInv /\ [Next]_vars => [\A t \in Orphans' \ Orphans : stage[t] = "waiting"]_vars
  BY <1>1
<1> QED  BY <1>2, Invariance, PTL DEF Spec, OrphansAreBornSo

\* A websocket that closes takes down no transport of another client
\* (mediasoup-client.ts:63-72).
THEOREM ClosesAreOwn == Spec => CloseSparesOthers
<1>1. ASSUME IInv, [Next]_vars, NEW c \in Client,
             conn[c] = "open", conn'[c] = "closed",
             NEW t \in Of(TransportTypes) \cap (open \ open')
      PROVE  call[t].by = c
  <2>1. CASE UNCHANGED conn
    BY <1>1, <2>1
  <2>2. ASSUME NEW d \in Client, onConnect(d)  PROVE FALSE
    BY <1>1, <2>2 DEF onConnect
  <2>3. ASSUME NEW d \in Client, onClose(d)  PROVE call[t].by = c
    <3>1. d = c
      BY <1>1, <2>3 DEF onClose, IInv, TypeOK
    <3> QED  BY <1>1, <2>3, <3>1, OnCloseSweeps
  <2> QED
    BY <1>1, <2>1, <2>2, <2>3, StepKinds, RequestFrame
       DEF TransportCreated, EndpointCreated, DestroyTransport
<1>2. IInv /\ [Next]_vars =>
        [\A c \in Client : conn[c] = "open" /\ conn'[c] = "closed" =>
           \A t \in Of(TransportTypes) \cap (open \ open') : call[t].by = c]_vars
  BY <1>1
<1> QED  BY <1>2, Invariance, PTL DEF Spec, CloseSparesOthers

\* The process ends only when the session does not start, when a client sends
\* null, when the session closes under an unanswered pause or resume, or on a
\* pause or resume of a zombie.
THEOREM CrashesHaveCause == Spec => CrashHasCause
<1> DEFINE Cause ==
      \/ StartSessionFails
      \/ \E c \in Client : NullMessage(c)
      \/ session = "up" /\ session' # "up" /\ commands # {}
      \/ \E k \in commands \ commands' : k.producer \in Zombies
<1>1. ASSUME IInv, [Next]_vars, process' = "crashed", process = "running"
      PROVE  Cause
  <2>1. ASSUME NEW status \in {"failed", "removed"}, CloseSession(status)
        PROVE  session = "up" /\ session' # "up" /\ commands # {}
    BY <1>1, <2>1 DEF CloseSession, IInv, DeadSessionIsEmpty
  <2>2. ASSUME NEW k \in commands, CommandAnswered(k)
        PROVE  k \in commands \ commands' /\ k.producer \in Zombies
    BY <1>1, <2>2 DEF CommandAnswered, IInv, TypeOK, RefusedCommands
  <2>3. \/ UNCHANGED process \/ StartSessionFails
        \/ \E c \in Client : NullMessage(c)
        \/ \E status \in {"failed", "removed"} : CloseSession(status)
        \/ \E k \in commands : CommandAnswered(k)
    BY <1>1, RequestFrame
       DEF Next, vars, ClientStep, WorkerAnswers, StartSession, WorkerDied,
           onConnect, onClose, DestroyTransport, destroyMediaSession,
           destroyWebRtcTransport, destroyPlainTransport, pauseProducer,
           resumeProducer, Command, SourceClosed, TransportCreated,
           ProducerCreated, ConsumerCreated, DataProducerCreated,
           DataConsumerCreated, EndpointCreated, TransportConnected,
           SessionCreated, RequestFailed
  <2> QED  BY <1>1, <2>1, <2>2, <2>3
<1>2. IInv /\ [Next]_vars => [process' = "crashed" /\ process = "running" => Cause]_vars
  BY <1>1
<1> QED  BY <1>2, Invariance, PTL DEF Spec, CrashHasCause

-----------------------------------------------------------------------------
(* The session implements MediaObjects. *)

\* What the requests say, besides CallsAreSound and NoticesAreForDeadSinks: only
\* a sink has a source, and a notice is for a sink whose source is gone.
Grounded ==
  /\ \A r \in Request : call[r].type \notin SinkTypes => call[r].src = None
  /\ \A s \in notices : call[s].src \notin open

\* Which steps change a call, an object or a notice.
LEMMA ObjectSteps ==
  ASSUME [Next]_vars
  PROVE  \/ UNCHANGED <<call, stage, open>> /\ notices' \subseteq notices
         \/ \E r \in Request, c \in Client : RequestStep(r, c)
         \/ \E closing \in SUBSET Transports :
              CloseTransports(closing) /\ UNCHANGED <<call, stage>>
         \/ \E status \in {"failed", "removed"} :
              CloseSession(status) /\ UNCHANGED call
         \/ \E r \in Request : TransportCreated(r)
         \/ \E r \in Request : EndpointCreated(r, EndpointTypes)
         \/ \E r \in Request :
              /\ TransportConnected(r) \/ SessionCreated(r) \/ RequestFailed(r)
              /\ UNCHANGED <<call, open>> /\ notices' \subseteq notices
<1>1. CASE UNCHANGED vars
  BY <1>1 DEF vars
<1>2. CASE StartSession \/ StartSessionFails
  BY <1>2 DEF StartSession, StartSessionFails
<1>3. CASE WorkerDied
  BY <1>3 DEF WorkerDied
<1>4. ASSUME NEW c \in Client, ClientStep(c)
      PROVE  \/ UNCHANGED <<call, stage, open>> /\ notices' \subseteq notices
             \/ \E closing \in SUBSET Transports :
                  CloseTransports(closing) /\ UNCHANGED <<call, stage>>
             \/ CloseSession("removed") /\ UNCHANGED call
  <2>1. CASE onConnect(c)
    BY <2>1 DEF onConnect
  <2>2. CASE onClose(c)
    <3>1. mine[c] \cap Transports \in SUBSET Transports
      OBVIOUS
    <3> QED  BY <2>2, <3>1 DEF onClose
  <2>3. CASE destroyMediaSession(c)
    BY <2>3 DEF destroyMediaSession
  <2>4. ASSUME NEW id \in Known, DestroyTransport(c, id)
        PROVE  \E closing \in SUBSET Transports :
                 CloseTransports(closing) /\ UNCHANGED <<call, stage>>
    <3>1. {id} \cap Transports \in SUBSET Transports
      OBVIOUS
    <3> QED  BY <2>4, <3>1 DEF DestroyTransport
  <2>5. ASSUME NEW id \in Known, Command(c, id)
        PROVE  UNCHANGED <<call, stage, open>> /\ notices' \subseteq notices
    BY <2>5 DEF Command
  <2>6. CASE NullMessage(c)
    BY <2>6 DEF NullMessage
  <2> QED
    BY <1>4, <2>1, <2>2, <2>3, <2>4, <2>5, <2>6
       DEF ClientStep, destroyWebRtcTransport, destroyPlainTransport,
           pauseProducer, resumeProducer
<1>5. ASSUME NEW r \in Request, WorkerAnswers(r)
      PROVE  \/ TransportCreated(r)
             \/ EndpointCreated(r, EndpointTypes)
             \/ /\ TransportConnected(r) \/ SessionCreated(r) \/ RequestFailed(r)
                /\ UNCHANGED <<call, open>> /\ notices' \subseteq notices
  BY <1>5 DEF WorkerAnswers, ProducerCreated, ConsumerCreated,
       DataProducerCreated, DataConsumerCreated, EndpointCreated, Granted,
       TransportConnected, SessionCreated, RequestFailed, EndpointTypes,
       SourceTypes, SinkTypes
<1>6. ASSUME NEW r \in Request, SourceClosed(r)
      PROVE  UNCHANGED <<call, stage, open>> /\ notices' \subseteq notices
  BY <1>6 DEF SourceClosed
<1>7. ASSUME NEW k \in commands, CommandAnswered(k)
      PROVE  UNCHANGED <<call, stage, open>> /\ notices' \subseteq notices
  BY <1>7 DEF CommandAnswered
<1> QED  BY <1>1, <1>2, <1>3, <1>4, <1>5, <1>6, <1>7 DEF Next

\* A request that is received names a source only if it is for a sink.
LEMMA RequestNames ==
  ASSUME IInv, NEW r \in Request, NEW c \in Client, RequestStep(r, c)
  PROVE  /\ stage[r] = "unsent" /\ stage'[r] # "ok" /\ UNCHANGED <<open, notices>>
         /\ call'[r].type \notin SinkTypes => call'[r].src = None
         /\ \A q \in Request \ {r} : call'[q] = call[q] /\ stage'[q] = stage[q]
BY DEF RequestStep, createWebRtcTransport, createPlainTransport,
       createMediaSession, connect, createProducer, createDataProducer,
       createConsumer, createDataConsumer, Receive, SinkStage, IInv, TypeOK,
       SinkTypes

LEMMA GroundedInv ==
  /\ Init => Grounded
  /\ IInv /\ Grounded /\ [Next]_vars => Grounded'
<1>1. Init => Grounded
  BY DEF Init, Grounded, NoCall
<1>2. ASSUME IInv, Grounded, [Next]_vars  PROVE Grounded'
  <2>1. \A s \in notices : /\ stage[s] \in {"waiting", "ok"} /\ s \in Request
                           /\ stage[call[s].src] = "ok"
    BY <1>2 DEF IInv, NoticesAreForDeadSinks, CallsAreSound, ListedIsCreated, Of
  <2>2. CASE UNCHANGED <<call, open>> /\ notices' \subseteq notices
    BY <1>2, <2>2 DEF Grounded
  <2>3. ASSUME NEW r \in Request, NEW c \in Client, RequestStep(r, c)
        PROVE  Grounded'
    BY <1>2, <2>1, <2>3, RequestNames DEF Grounded
  <2>4. ASSUME NEW closing \in SUBSET Transports, CloseTransports(closing),
               UNCHANGED call
        PROVE  Grounded'
    BY <1>2, <2>4 DEF CloseTransports, FedBy, Grounded
  <2>5. ASSUME NEW status \in {"failed", "removed"}, CloseSession(status),
               UNCHANGED call
        PROVE  Grounded'
    BY <1>2, <2>5 DEF CloseSession, Grounded
  <2>6. ASSUME NEW r \in Request,
               TransportCreated(r) \/ EndpointCreated(r, EndpointTypes)
        PROVE  Grounded'
    BY <1>2, <2>1, <2>6
       DEF TransportCreated, EndpointCreated, Granted, Grounded
  <2> QED  BY <1>2, <2>2, <2>3, <2>4, <2>5, <2>6, ObjectSteps
<1> QED  BY <1>1, <1>2

\* What the objects were created on, read off the calls.
LEMMA NeedsFacts ==
  ASSUME IInv, Grounded
  PROVE  /\ open \subseteq Made
         /\ \A t \in Request : call[t].type \in TransportTypes => Needs[t] = {}
         /\ \A e \in Made \cap Of(EndpointTypes) :
              call[e].on \in Made \cap Of(TransportTypes) /\ call[e].on \in Needs[e]
         /\ \A e \in Made \cap Of(SourceTypes) : Needs[e] = {call[e].on}
         /\ \A e \in Made \cap Of(SinkTypes) :
              /\ call[e].src \in Made \cap Of(SourceTypes)
              /\ Needs[e] = {call[e].on, call[e].src}
         /\ Promise!Transports = Made \cap Of(TransportTypes)
         /\ Made \cap Of(SourceTypes) \subseteq Promise!Sources
<1>1. open \subseteq Made
  BY DEF IInv, Tracked, ListedIsCreated, Made
<1>2. \A t \in Request : call[t].type \in TransportTypes => Needs[t] = {}
  BY TypesDiffer DEF IInv, CallsAreSound, Grounded, Needs, EndpointTypes
<1>3. ASSUME NEW e \in Made \cap Of(EndpointTypes)
      PROVE  /\ call[e].on \in Made \cap Of(TransportTypes)
             /\ e \in Request /\ call[e].on # None
             /\ Needs[e] = {call[e].on, call[e].src} \ {None}
             /\ call[e].type \in SourceTypes => call[e].src = None
             /\ call[e].type \in SinkTypes =>
                  call[e].src \in Made \cap Of(SourceTypes) /\ call[e].src # None
  BY <1>3, TypesDiffer
     DEF IInv, CallsAreSound, Grounded, Needs, Made, Of, EndpointTypes
<1>4. /\ Of(SourceTypes) \subseteq Of(EndpointTypes)
      /\ Of(SinkTypes) \subseteq Of(EndpointTypes)
  BY DEF Of, EndpointTypes
<1>5. \A e \in Made \cap Of(SourceTypes) : Needs[e] = {call[e].on}
  BY <1>3, <1>4 DEF Of
<1>6. \A e \in Made \cap Of(SinkTypes) :
        /\ call[e].src \in Made \cap Of(SourceTypes)
        /\ Needs[e] = {call[e].on, call[e].src}
  BY <1>3, <1>4 DEF Of
<1>7. Promise!Transports = Made \cap Of(TransportTypes)
  <2>1. \A o \in Made : o \in Of(TransportTypes) \/ o \in Of(EndpointTypes)
    BY DEF Made, Of
  <2>2. \A o \in Of(TransportTypes) : Needs[o] = {}
    BY <1>2 DEF Of
  <2> QED  BY <1>3, <2>1, <2>2 DEF Promise!Transports
<1>8. Made \cap Of(SourceTypes) \subseteq Promise!Sources
  BY <1>3, <1>4, <1>5, <1>7 DEF Promise!Sources
<1> QED  BY <1>1, <1>2, <1>3, <1>5, <1>6, <1>7, <1>8

\* Nothing is created and nothing changes of what was.
LEMMA NeedsStay ==
  ASSUME \A r \in Request :
           \/ call'[r] = call[r] /\ (stage'[r] = "ok" <=> stage[r] = "ok")
           \/ stage[r] # "ok" /\ stage'[r] # "ok"
  PROVE  UNCHANGED <<Made, Needs>>
<1>1. Made' = Made
  BY DEF Made, Of
<1>2. \A r \in Made : call'[r] = call[r]
  BY DEF Made, Of
<1> QED  BY <1>1, <1>2 DEF Needs

\* What ends with some transports: what is on them, and the sinks fed there.
LEMMA CloseTransportsCloses ==
  ASSUME IInv, Grounded, NEW closing \in SUBSET Transports,
         CloseTransports(closing), UNCHANGED <<call, stage>>
  PROVE  Promise!Close /\ UNCHANGED <<Made, Needs>>
<1> DEFINE gone == closing \cup {e \in listed : call[e].on \in closing}
           starved == {s \in FedBy(gone) \ gone : call[s].on \in open \ closing}
           ended == closing \cup Promise!Needing(closing)
<1>1. open' = open \ (gone \cup starved)
  BY DEF CloseTransports
<1>2. UNCHANGED <<Made, Needs>>
  BY NeedsStay
<1>3. closing \subseteq open /\ closing \subseteq Promise!Transports
  BY NeedsFacts DEF Transports, IInv, Tracked
<1>4. open \subseteq Made /\ open \subseteq listed
  BY NeedsFacts DEF IInv, Tracked
<1>5. ASSUME NEW e \in open
      PROVE  e \in gone <=> e \in ended
  <2>1. CASE e \in Of(TransportTypes)
    <3>1. Needs[e] = {} /\ call[e].on \notin closing
      BY <2>1, NeedsFacts DEF Of, IInv, CallsAreSound, Transports
    <3> QED  BY <3>1 DEF Promise!Needing
  <2>2. CASE e \in Of(SourceTypes)
    BY <1>4, <2>2, NeedsFacts DEF Promise!Needing
  <2>3. CASE e \in Of(SinkTypes)
    <3>1. Needs[e] = {call[e].on, call[e].src} /\ call[e].src \notin closing
      BY <1>4, <2>3, NeedsFacts, TypesDiffer DEF Of, Transports, EndpointTypes
    <3> QED  BY <1>4, <3>1 DEF Promise!Needing
  <2> QED  BY <1>4, <2>1, <2>2, <2>3 DEF Made, Of, EndpointTypes
<1>6. ASSUME NEW e \in open, e \notin gone
      PROVE  e \in starved <=> e \in Promise!Needing(ended)
  <2>1. CASE e \in Of(TransportTypes)
    <3>1. Needs[e] = {} /\ e \notin Of(SinkTypes)
      BY <2>1, NeedsFacts, TypesDiffer DEF Of, EndpointTypes
    <3> QED  BY <3>1 DEF Promise!Needing, FedBy
  <2>2. CASE e \in Of(EndpointTypes)
    <3>1. call[e].on \in Of(TransportTypes) /\ call[e].on \notin closing
      BY <1>4, <1>6, <2>2, NeedsFacts
    <3>2. call[e].on \in open
      BY <2>2 DEF IInv, Attached
    <3>3. call[e].on \notin ended
      <4>1. Needs[call[e].on] = {}
        BY <3>1, NeedsFacts DEF Of
      <4> QED  BY <3>1, <4>1 DEF Promise!Needing
    <3>4. CASE e \in Of(SourceTypes)
      <4>1. Needs[e] = {call[e].on} /\ e \notin Of(SinkTypes)
        BY <1>4, <3>4, NeedsFacts, TypesDiffer DEF Of
      <4> QED  BY <3>3, <4>1 DEF Promise!Needing, FedBy
    <3>5. CASE e \in Of(SinkTypes)
      <4>1. Needs[e] = {call[e].on, call[e].src}
        BY <1>4, <3>5, NeedsFacts
      <4>2. call[e].src \in open
        BY <2>2, <3>5 DEF IInv, Attached, Of
      <4>3. e \in Promise!Needing(ended) <=> call[e].src \in gone
        BY <1>4, <1>5, <3>3, <4>1, <4>2 DEF Promise!Needing
      <4> QED  BY <1>6, <3>1, <3>2, <3>5, <4>3 DEF FedBy
    <3> QED  BY <2>2, <3>4, <3>5 DEF Of, EndpointTypes
  <2> QED  BY <1>4, <2>1, <2>2 DEF Made, Of
<1>7. open' = open \ (ended \cup Promise!Needing(ended))
  BY <1>1, <1>5, <1>6
<1> QED  BY <1>2, <1>3, <1>7 DEF Promise!Close

\* The end of the session is the end of every transport.
LEMMA CloseSessionCloses ==
  ASSUME IInv, Grounded, NEW status, CloseSession(status), UNCHANGED call
  PROVE  Promise!Close /\ UNCHANGED <<Made, Needs>>
<1> DEFINE closing == Promise!Transports \cap open
<1>1. open' = {} /\ UNCHANGED <<Made, Needs>>
  BY NeedsStay DEF CloseSession
<1>2. open \subseteq closing \cup Promise!Needing(closing)
  <2> SUFFICES ASSUME NEW e \in open, e \notin Of(TransportTypes)
               PROVE  e \in Promise!Needing(closing)
    BY NeedsFacts
  <2>1. e \in Made \cap Of(EndpointTypes)
    BY NeedsFacts DEF Made, Of
  <2>2. call[e].on \in open
    BY <2>1 DEF IInv, Attached
  <2>3. call[e].on \in Needs[e] /\ call[e].on \in Promise!Transports
    BY <2>1, NeedsFacts
  <2> QED  BY <2>1, <2>2, <2>3 DEF Promise!Needing
<1> QED  BY <1>1, <1>2 DEF Promise!Close

\* The answer to a request creates its object.
LEMMA AnswerCreates ==
  ASSUME IInv, NEW r \in Request, UNCHANGED call,
         stage' = [stage EXCEPT ![r] = "ok"], stage[r] = "waiting",
         call[r].type \in TransportTypes \cup EndpointTypes
  PROVE  /\ r \notin Made /\ Made' = Made \cup {r}
         /\ Needs' = [Needs EXCEPT ![r] = {call[r].on, call[r].src} \ {None}]
<1>1. r \notin Made /\ Made' = Made \cup {r}
  BY DEF Made, Of, IInv, TypeOK
<1> QED  BY <1>1 DEF Needs

LEMMA TransportCreatedCreates ==
  ASSUME IInv, Grounded, NEW r \in Request, TransportCreated(r)
  PROVE  Promise!Create(r)
<1>1. /\ UNCHANGED call /\ stage[r] = "waiting" /\ call[r].type \in TransportTypes
      /\ stage' = [stage EXCEPT ![r] = "ok"] /\ open' = open \cup {r}
  BY DEF TransportCreated, Granted, Answered
<1>2. {call[r].on, call[r].src} \ {None} = {}
  BY <1>1, TypesDiffer DEF IInv, CallsAreSound, Grounded, EndpointTypes
<1>3. {} \in Promise!Grounds
  BY DEF Promise!Grounds
<1>4. /\ r \notin Made /\ Made' = Made \cup {r}
      /\ Needs' = [Needs EXCEPT ![r] = {}]
  BY <1>1, <1>2, AnswerCreates
<1> QED  BY <1>1, <1>3, <1>4 DEF Promise!Create

LEMMA EndpointCreatedCreates ==
  ASSUME IInv, Grounded, NEW r \in Request, EndpointCreated(r, EndpointTypes)
  PROVE  Promise!Create(r)
<1>1. /\ UNCHANGED call /\ stage[r] = "waiting" /\ call[r].type \in EndpointTypes
      /\ stage' = [stage EXCEPT ![r] = "ok"]
      /\ open' = IF call[r].on \in open /\ r \notin notices
                   THEN open \cup {r} ELSE open
  BY DEF EndpointCreated, Granted, Answered
<1>2. /\ call[r].on \in Of(TransportTypes) /\ stage[call[r].on] = "ok"
      /\ call[r].on # None
  BY <1>1 DEF IInv, CallsAreSound, Of
<1>3. call[r].on \in Promise!Transports
  BY <1>2, NeedsFacts DEF Made, Of
<1>4. /\ r \notin Made /\ Made' = Made \cup {r}
      /\ Needs' = [Needs EXCEPT ![r] = {call[r].on, call[r].src} \ {None}]
  BY <1>1, AnswerCreates
<1>5. CASE call[r].type \in SourceTypes
  <2>1. {call[r].on, call[r].src} \ {None} = {call[r].on}
    BY <1>2, <1>5, TypesDiffer DEF Grounded
  <2>2. r \notin notices
    BY <1>5, TypesDiffer DEF IInv, NoticesAreForDeadSinks, Of
  <2>3. {call[r].on} \in Promise!Grounds
    BY <1>3 DEF Promise!Grounds
  <2>4. Needs' = [Needs EXCEPT ![r] = {call[r].on}]
    BY <1>4, <2>1
  <2> QED  BY <1>1, <1>4, <2>2, <2>3, <2>4 DEF Promise!Create
<1>6. CASE call[r].type \in SinkTypes
  <2>1. /\ call[r].src \in Of(SourceTypes) /\ stage[call[r].src] = "ok"
        /\ call[r].src # None
    BY <1>1, <1>6 DEF IInv, CallsAreSound, Of
  <2>2. {call[r].on, call[r].src} \ {None} = {call[r].on, call[r].src}
    BY <1>2, <2>1
  <2>3. call[r].on \in open => (r \notin notices <=> call[r].src \in open)
    BY <1>1, <1>6 DEF IInv, LateSinksAreNotified, Grounded, Of
  <2>4. call[r].src \in Promise!Sources
    BY <2>1, NeedsFacts DEF Made, Of, EndpointTypes
  <2>5. {call[r].on, call[r].src} \in Promise!Grounds
    BY <1>3, <2>4 DEF Promise!Grounds
  <2>6. Needs' = [Needs EXCEPT ![r] = {call[r].on, call[r].src}]
    BY <1>4, <2>2
  <2> QED  BY <1>1, <1>4, <2>3, <2>5, <2>6 DEF Promise!Create
<1> QED  BY <1>1, <1>5, <1>6 DEF EndpointTypes

\* The session keeps its promise about the objects in the worker, whatever its
\* clients ask for while transports, sources or the session close: an endpoint
\* comes to life only on a living transport and source, ends exactly with them,
\* and never comes back (mediasoup.ts, the create and delete methods).
THEOREM ObjectsKeepThePromise == Spec => ImplementsMediaObjects
<1>1. Init => Promise!Init
  <2>1. Init => Made = {}
    BY DEF Init, Made, Of
  <2> QED  BY <2>1 DEF Init, Promise!Init, Needs
<1>2. ASSUME IInv, Grounded, [Next]_vars  PROVE [Promise!Next]_(Promise!vars)
  <2>1. CASE UNCHANGED <<call, stage, open>>
    BY <2>1, NeedsStay DEF Promise!vars
  <2>2. ASSUME NEW r \in Request, NEW c \in Client, RequestStep(r, c)
        PROVE  UNCHANGED Promise!vars
    <3>1. \A q \in Request :
            \/ call'[q] = call[q] /\ (stage'[q] = "ok" <=> stage[q] = "ok")
            \/ stage[q] # "ok" /\ stage'[q] # "ok"
      BY <1>2, <2>2, RequestNames
    <3> QED  BY <1>2, <2>2, <3>1, RequestNames, NeedsStay DEF Promise!vars
  <2>3. ASSUME NEW closing \in SUBSET Transports, CloseTransports(closing),
               UNCHANGED <<call, stage>>
        PROVE  Promise!Next
    BY <1>2, <2>3, CloseTransportsCloses DEF Promise!Next
  <2>4. ASSUME NEW status \in {"failed", "removed"}, CloseSession(status),
               UNCHANGED call
        PROVE  Promise!Next
    BY <1>2, <2>4, CloseSessionCloses DEF Promise!Next
  <2>5. ASSUME NEW r \in Request, TransportCreated(r)  PROVE Promise!Next
    BY <1>2, <2>5, TransportCreatedCreates DEF Promise!Next
  <2>6. ASSUME NEW r \in Request, EndpointCreated(r, EndpointTypes)
        PROVE  Promise!Next
    BY <1>2, <2>6, EndpointCreatedCreates DEF Promise!Next
  <2>7. ASSUME NEW r \in Request, UNCHANGED <<call, open>>,
               TransportConnected(r) \/ SessionCreated(r) \/ RequestFailed(r)
        PROVE  UNCHANGED Promise!vars
    <3>1. r \notin Made /\ r \notin Made'
      BY <1>2, <2>7, TypesDiffer
         DEF TransportConnected, SessionCreated, RequestFailed, Granted,
             Answered, Made, Of, IInv, TypeOK, DefaultTypes
    <3>2. \A q \in Request \ {r} : stage'[q] = stage[q]
      BY <1>2, <2>7
         DEF TransportConnected, SessionCreated, RequestFailed, Answered, IInv,
             TypeOK
    <3>3. Made' = Made
      BY <2>7, <3>1, <3>2 DEF Made, Of
    <3> QED  BY <2>7, <3>3 DEF Promise!vars, Needs
  <2> QED
    BY <1>2, <2>1, <2>2, <2>3, <2>4, <2>5, <2>6, <2>7, ObjectSteps
<1>3. Spec => []Grounded
  BY GroundedInv, Invariance, PTL DEF Spec
<1> QED
  BY <1>1, <1>2, <1>3, Invariance, PTL
     DEF Spec, ImplementsMediaObjects, Promise!Spec

-----------------------------------------------------------------------------
(* The safety half of SinksFollowSources.                                   *)

\* The listed sinks whose source is gone and whose own transport is not.
StarvedSinks ==
  {s \in listed \cap Of(SinkTypes) : call[s].src \notin open /\ call[s].on \in open}

\* The library is told of each of them: SourceClosed, which FairSpec is fair
\* to, can take it out of its Map while the process runs ...
THEOREM StarvedSinksAreTold ==
  Spec => [](\A s \in StarvedSinks : s \in notices /\ stage[s] = "ok")
<1>1. ASSUME IInv, NEW s \in StarvedSinks
      PROVE  s \in notices /\ stage[s] = "ok"
  <2>1. s \in listed /\ stage[s] = "ok"
    BY <1>1 DEF StarvedSinks, IInv, ListedIsCreated
  <2>2. s \notin open
    BY <1>1 DEF StarvedSinks, IInv, Attached, Of, EndpointTypes
  <2> QED  BY <1>1, <2>1, <2>2 DEF StarvedSinks, Zombies, IInv, DeadIsExplained
<1>2. IInv => \A s \in StarvedSinks : s \in notices /\ stage[s] = "ok"
  BY <1>1
<1> QED  BY <1>2, Invariance, PTL

\* ... and until it is taken out, or its transport closes too, nothing changes
\* that: its source does not come back.
THEOREM StarvedSinksWait ==
  Spec => [][\A s \in StarvedSinks :
               s \in StarvedSinks' \/ s \notin listed' \/ call'[s].on \notin open']_vars
<1>1. ASSUME IInv, [Next]_vars, NEW s \in StarvedSinks
      PROVE  s \in StarvedSinks' \/ s \notin listed' \/ call'[s].on \notin open'
  <2>1. /\ s \in Of(SinkTypes) /\ stage[s] = "ok"
        /\ call[s].src \in Request /\ stage[call[s].src] = "ok"
        /\ call[s].src \notin open
    BY <1>1 DEF StarvedSinks, IInv, ListedIsCreated, CallsAreSound, Of, EndpointTypes
  <2>2. call'[s] = call[s]
    <3>1. ASSUME NEW r \in Request, NEW c \in Client, RequestStep(r, c)
          PROVE  call'[s] = call[s]
      BY <1>1, <2>1, <3>1, RequestNames DEF Of
    <3> QED
      BY <1>1, <3>1, ObjectSteps DEF TransportCreated, EndpointCreated
  <2>3. call[s].src \notin open'
    <3>1. ASSUME NEW r \in Request,
                 TransportCreated(r) \/ EndpointCreated(r, EndpointTypes)
          PROVE  call[s].src \notin open'
      BY <2>1, <3>1 DEF TransportCreated, EndpointCreated, Granted
    <3>2. open' \subseteq open \/ \E r \in Request :
            TransportCreated(r) \/ EndpointCreated(r, EndpointTypes)
      BY <1>1, ObjectSteps, RequestNames DEF CloseTransports, CloseSession
    <3> QED  BY <2>1, <3>1, <3>2
  <2> QED  BY <2>1, <2>2, <2>3 DEF StarvedSinks, Of
<1>2. IInv /\ [Next]_vars =>
        [\A s \in StarvedSinks :
           s \in StarvedSinks' \/ s \notin listed' \/ call'[s].on \notin open']_vars
  BY <1>1
<1> QED  BY <1>2, Invariance, PTL DEF Spec

-----------------------------------------------------------------------------
(* The one cause of orphans.                                                *)

\* No websocket closes while the worker still owes it a transport.
ClosesSettled ==
  \A c \in Client : conn[c] = "open" /\ conn'[c] = "closed" =>
    \A r \in Of(TransportTypes) : call[r].by = c => stage[r] # "waiting"

\* No transport is owed to a closed websocket.
NoneOwed ==
  \A r \in Of(TransportTypes) : stage[r] = "waiting" => conn[call[r].by] # "closed"

\* A websocket that is not closed before a step and closed after it was open, and
\* a call that waits after a step was waiting before it, or came on a websocket
\* that is open.
LEMMA WaitingSteps ==
  ASSUME IInv, [Next]_vars
  PROVE  /\ \A c \in Client : conn'[c] = "closed" => conn[c] \in {"open", "closed"}
         /\ \A r \in Request : stage[r] = "waiting" => call'[r] = call[r]
         /\ \A r \in Request : stage'[r] = "waiting" /\ stage[r] # "waiting" =>
              call'[r].by \in Client /\ conn'[call'[r].by] = "open"
<1>1. ASSUME NEW c \in Client, conn'[c] = "closed"
      PROVE  conn[c] \in {"open", "closed"}
  <2>1. CASE UNCHANGED conn
    BY <1>1, <2>1
  <2>2. ASSUME NEW d \in Client, onConnect(d) \/ onClose(d)
        PROVE  conn[c] \in {"open", "closed"}
    BY <1>1, <2>2 DEF onConnect, onClose, IInv, TypeOK
  <2> QED
    BY <2>1, <2>2, StepKinds, RequestFrame
       DEF TransportCreated, EndpointCreated, DestroyTransport
<1>2. ASSUME NEW r \in Request, stage[r] = "waiting"  PROVE call'[r] = call[r]
  BY <1>2, ObjectSteps, RequestNames DEF TransportCreated, EndpointCreated
<1>3. ASSUME NEW r \in Request, stage'[r] = "waiting", stage[r] # "waiting"
      PROVE  call'[r].by \in Client /\ conn'[call'[r].by] = "open"
  <2>1. PICK q \in Request, c \in Client : RequestStep(q, c)
    BY <1>3, ObjectSteps
       DEF CloseSession, TransportCreated, EndpointCreated, TransportConnected,
           SessionCreated, RequestFailed, Answered, IInv, TypeOK
  <2>2. /\ conn[c] = "open" /\ UNCHANGED conn
        /\ call'[q].by = c /\ \A p \in Request \ {q} : stage'[p] = stage[p]
    BY <2>1
       DEF RequestStep, createWebRtcTransport, createPlainTransport,
           createMediaSession, connect, createProducer, createDataProducer,
           createConsumer, createDataConsumer, Receive, IInv, TypeOK
  <2> QED  BY <1>3, <2>2
<1> QED  BY <1>1, <1>2, <1>3

\* Without that race there are no orphans, whatever else happens: what the
\* comment in MediasoupClient.onClose says (mediasoup-client.ts:64) fails only
\* through a transport that the worker answers after its websocket closed.
THEOREM OrphansNeedARace == Spec /\ [][ClosesSettled]_vars => []NoOrphans
<1>1. Init => NoOrphans /\ NoneOwed
  BY DEF Init, NoOrphans, Orphans, NoneOwed, Of
<1>2. ASSUME IInv, NoneOwed, [Next]_vars, [ClosesSettled]_vars
      PROVE  NoneOwed'
  <2> SUFFICES ASSUME NEW r \in Request, call'[r].type \in TransportTypes,
                      stage'[r] = "waiting", conn'[call'[r].by] = "closed"
               PROVE  FALSE
    BY DEF NoneOwed, Of
  <2>1. stage[r] = "waiting" /\ call'[r] = call[r]
    BY <1>2, WaitingSteps
  <2>2. call[r].by \in Client /\ r \in Of(TransportTypes)
    BY <1>2, <2>1 DEF IInv, CallsAreSound, Of
  <2>3. conn[call[r].by] = "open"
    BY <1>2, <2>1, <2>2, WaitingSteps DEF NoneOwed
  <2> QED  BY <1>2, <2>1, <2>2, <2>3 DEF ClosesSettled, vars
<1>3. ASSUME IInv, NoneOwed, NoOrphans, [Next]_vars, [ClosesSettled]_vars,
             \A t \in Orphans' \ Orphans : stage[t] = "waiting"
      PROVE  NoOrphans'
  <2> SUFFICES ASSUME NEW t \in Orphans'  PROVE FALSE
    BY DEF NoOrphans
  <2>1. stage[t] = "waiting" /\ t \in Request
    BY <1>3 DEF NoOrphans, Orphans, Of
  <2>2. call'[t] = call[t] /\ conn'[call[t].by] = "closed"
        /\ t \in Of(TransportTypes)
    BY <1>3, <2>1, WaitingSteps DEF Orphans, Of
  <2>3. call[t].by \in Client
    BY <1>3, <2>1 DEF IInv, CallsAreSound
  <2>4. conn[call[t].by] = "open"
    BY <1>3, <2>1, <2>2, <2>3, WaitingSteps DEF NoneOwed
  <2> QED  BY <1>3, <2>1, <2>2, <2>3, <2>4 DEF ClosesSettled, vars
<1>4. NoOrphans /\ UNCHANGED vars => NoOrphans'
  BY DEF NoOrphans, Orphans, Of, vars
<1>5. Spec /\ [][ClosesSettled]_vars => []NoneOwed
  BY <1>1, <1>2, Invariance, PTL DEF Spec
<1>6. Spec => [][\A t \in Orphans' \ Orphans : stage[t] = "waiting"]_vars
  BY OrphansOnlyAtBirth DEF OrphansAreBornSo
<1> QED  BY <1>1, <1>3, <1>4, <1>5, <1>6, Invariance, PTL DEF Spec
=============================================================================
