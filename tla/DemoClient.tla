----------------------------- MODULE DemoClient -----------------------------
(***************************************************************************)
(* MediasoupDemo of the browser client (demo/src/libs): four slots, each   *)
(* for one object (a producer, a consumer, a data producer or a data       *)
(* consumer) with a WebRTC transport on the server.  The functions that    *)
(* create and destroy them are asynchronous: they look at the slot, wait   *)
(* for the server, and then write to what is in the slot by now.           *)
(*                                                                         *)
(* An object, its transport and its requests are named after the call that *)
(* asks for it.  The requests go through the queue that RequestReply       *)
(* describes: the oldest is settled first, resolved or rejected.           *)
(***************************************************************************)
EXTENDS Integers, Sequences

CONSTANTS
  MaxCalls,     \* bounds the calls of the four requestCreate functions
  Slots,        \* the slots that the page uses
  MaxPending    \* bounds the requests that are not settled

SinkSlots == {"consumer", "dataConsumer"}
AllSlots  == SinkSlots \cup {"producer", "dataProducer"}

\* The slots whose calls keep their argument in a field, and read it after
\* their await: producerId (and remoteVideo), dataProducerId, stream.
ChoosingSlots == SinkSlots \cup {"producer"}

ASSUME ConstantsAssumption ==
  /\ MaxCalls \in Nat
  /\ Slots \subseteq AllSlots
  /\ MaxPending \in Nat

\* Calls are numbered as they are made; 0 is no call and no object.
Call == 1..MaxCalls

VARIABLES
  ws,           \* the websocket: "open" or "closed"
  caps,         \* whether rtpCapabilities is set
  pending,      \* the requests that are not settled, oldest first
  slot,         \* the slot that each call is for
  step,         \* each call: "none", "transport" (awaits it), "loading" (the
                \* object loads its device), "loaded", "broken" (the object
                \* could not load it) or "failed" (there is no object)
  chosen,       \* the call that the field is an argument of, by slot
  source,       \* the call whose argument each object produces or consumes
  current,      \* the object in each slot
  local,        \* the object's own transport: "none", "open" or "closed"
  remote,       \* the transport in the server: "none", "open" or "gone"
  fed,          \* the answers that each object was given to use, by call
  hasty         \* the slots in which the page did not wait for the end of what
                \* was under way (not in the code: it tells the cases apart)

vars == <<ws, caps, pending, slot, step, chosen, source, current, local, remote,
          fed, hasty>>

Sent ==
  [type : {"rtpCapabilities"}, of : {0}, slot : AllSlots] \cup
  [type : {"createWebRtcTransport", "produce", "dataProduce", "consume",
           "dataConsume", "destroyWebRtcTransport"}, of : Call, slot : AllSlots]

TypeOK ==
  /\ ws \in {"open", "closed"}
  /\ caps \in BOOLEAN
  /\ pending \in Seq(Sent)
  /\ slot \in [Call -> AllSlots]
  /\ step \in [Call -> {"none", "transport", "loading", "loaded", "broken", "failed"}]
  /\ chosen \in [AllSlots -> Call \cup {0}]
  /\ source \in [Call -> Call \cup {0}]
  /\ current \in [AllSlots -> Call \cup {0}]
  /\ local \in [Call -> {"none", "open", "closed"}]
  /\ remote \in [Call -> {"none", "open", "gone"}]
  /\ fed \in [Call -> SUBSET Call]
  /\ hasty \subseteq AllSlots

Request(type, c, s) == [type |-> type, of |-> c, slot |-> s]

\* The page asks for the capabilities as soon as the websocket is open.
Init ==
  /\ ws = "open" /\ caps = FALSE
  /\ pending = <<Request("rtpCapabilities", 0, "producer")>>
  /\ slot = [c \in Call |-> "producer"]
  /\ step = [c \in Call |-> "none"]
  /\ chosen = [s \in AllSlots |-> 0]
  /\ source = [c \in Call |-> 0]
  /\ current = [s \in AllSlots |-> 0]
  /\ local = [c \in Call |-> "none"]
  /\ remote = [c \in Call |-> "none"]
  /\ fed = [c \in Call |-> {}]
  /\ hasty = {}

-----------------------------------------------------------------------------
(* What the page calls. *)

DestroyUnderWay(s) ==
  \E i \in 1..Len(pending) :
    pending[i].type = "destroyWebRtcTransport" /\ pending[i].slot = s

CreateUnderWay(s) ==
  \E c \in Call : slot[c] = s /\ step[c] \in {"transport", "loading"}

\* What the page would have to look at before it calls again.  The promise of
\* requestCreateProducer does not tell: it does not wait for createProducer.
Hurry(s) ==
  hasty' = IF CreateUnderWay(s) \/ DestroyUnderWay(s) THEN hasty \cup {s} ELSE hasty

\* onCreateProducer and the like look at the websocket; the first of them waits
\* for the camera before it goes on.
PageAllows(s) == ws = "open" \/ s = "producer"

\* Mutants: the slot is not looked at; one id serves both kinds of consumer.
RequestCreate_Unchecked(c, s) ==
  /\ PageAllows(s)
  /\ step[c] = "none" /\ \A d \in 1..c - 1 : step[d] # "none"
  /\ Len(pending) < MaxPending
  /\ slot' = [slot EXCEPT ![c] = s]
  /\ step' = [step EXCEPT ![c] = "transport"]
  /\ chosen' = IF s \in ChoosingSlots THEN [chosen EXCEPT ![s] = c] ELSE chosen
  /\ pending' = Append(pending, Request("createWebRtcTransport", c, s))
  /\ Hurry(s)
  /\ UNCHANGED <<ws, caps, source, current, local, remote, fed>>

RequestCreate_OneId(c, s) ==
  /\ PageAllows(s)
  /\ current[s] = 0
  /\ step[c] = "none" /\ \A d \in 1..c - 1 : step[d] # "none"
  /\ Len(pending) < MaxPending
  /\ slot' = [slot EXCEPT ![c] = s]
  /\ step' = [step EXCEPT ![c] = "transport"]
  /\ chosen' = [r \in AllSlots |->
       IF r \in ChoosingSlots /\ (r = s \/ {r, s} \subseteq SinkSlots) THEN c ELSE chosen[r]]
  /\ pending' = Append(pending, Request("createWebRtcTransport", c, s))
  /\ Hurry(s)
  /\ UNCHANGED <<ws, caps, source, current, local, remote, fed>>

\* requestCreateProducer, -Consumer, -DataProducer, -DataConsumer: the slot is
\* looked at now, and filled only when the transport is there.
RequestCreate(c, s) ==
  /\ PageAllows(s)
  /\ current[s] = 0
  /\ step[c] = "none" /\ \A d \in 1..c - 1 : step[d] # "none"
  /\ Len(pending) < MaxPending
  /\ slot' = [slot EXCEPT ![c] = s]
  /\ step' = [step EXCEPT ![c] = "transport"]
  /\ chosen' = IF s \in ChoosingSlots THEN [chosen EXCEPT ![s] = c] ELSE chosen
  /\ pending' = Append(pending, Request("createWebRtcTransport", c, s))
  /\ Hurry(s)
  /\ UNCHANGED <<ws, caps, source, current, local, remote, fed>>

\* Mutant: nobody looks whether the slot holds an object.
Destroy_Unchecked(s) ==
  /\ Len(pending) < MaxPending
  /\ pending' = Append(pending, Request("destroyWebRtcTransport", current[s], s))
  /\ Hurry(s)
  /\ UNCHANGED <<ws, caps, slot, step, chosen, source, current, local, remote, fed>>

\* destroyProducer and the like, up to their await.
Destroy(s) ==
  /\ current[s] # 0
  /\ Len(pending) < MaxPending
  /\ pending' = Append(pending, Request("destroyWebRtcTransport", current[s], s))
  /\ Hurry(s)
  /\ UNCHANGED <<ws, caps, slot, step, chosen, source, current, local, remote, fed>>

-----------------------------------------------------------------------------
(* The server resolves the oldest request. *)

Resolved(type) ==
  /\ ws = "open" /\ pending # <<>> /\ Head(pending).type = type
  /\ pending' = Tail(pending)

RtpCapabilities ==
  /\ Resolved("rtpCapabilities")
  /\ caps' = TRUE
  /\ UNCHANGED <<ws, slot, step, chosen, source, current, local, remote, fed,
                 hasty>>

\* createProducer and the like: without capabilities they throw, and the
\* transport stays in the server; otherwise a new object takes the slot.
TransportCreated ==
  /\ Resolved("createWebRtcTransport")
  /\ LET c == Head(pending).of IN
     /\ remote' = [remote EXCEPT ![c] = "open"]
     /\ IF caps
          THEN /\ current' = [current EXCEPT ![slot[c]] = c]
               /\ step' = [step EXCEPT ![c] = "loading"]
               /\ source' = [source EXCEPT ![c] = chosen[slot[c]]]
          ELSE /\ step' = [step EXCEPT ![c] = "failed"]
               /\ UNCHANGED <<current, source>>
  /\ UNCHANGED <<ws, caps, slot, chosen, local, fed, hasty>>

\* device.load is over: the object makes its transport, whether or not it was
\* closed in the meantime.  (Its connect is left out: nobody waits for it.)
Loaded(c) ==
  /\ step[c] = "loading"
  /\ step' = [step EXCEPT ![c] = "loaded"]
  /\ local' = [local EXCEPT ![c] = "open"]
  /\ UNCHANGED <<ws, caps, slot, chosen, source, current, remote, hasty>>

\* new Device(), device.load or the creation of the transport throws: the object
\* stays in the slot, and stays without a transport of its own.
LoadFails(c) ==
  /\ step[c] = "loading"
  /\ step' = [step EXCEPT ![c] = "broken"]
  /\ UNCHANGED <<ws, caps, pending, slot, chosen, source, current, local, remote,
                 fed, hasty>>

\* The answer for call c is used by the object that is in the slot by now, if
\* there is one and its transport is open.
Feed(c) ==
  LET o == current[slot[c]]
  IN fed' = IF o # 0 /\ local'[o] = "open" THEN [fed EXCEPT ![o] = @ \cup {c}] ELSE fed

\* A consumer sends its own request.
Subscribe(c, type) ==
  /\ Loaded(c)
  /\ pending' = Append(pending, Request(type, c, slot[c]))
  /\ UNCHANGED fed

ConsumerLoaded(c) == slot[c] = "consumer" /\ Subscribe(c, "consume")

DataConsumerLoaded(c) == slot[c] = "dataConsumer" /\ Subscribe(c, "dataConsume")

\* It is the producer in the slot that produces.  It asks for nothing when the
\* stream has no track or the library throws first.  (The second track's request
\* is left out.)
Publish(c, type) ==
  /\ Loaded(c)
  /\ Feed(c)
  /\ \/ pending' = pending
     \/ fed' # fed /\ pending' = Append(pending, Request(type, c, slot[c]))

ProducerLoaded(c) == slot[c] = "producer" /\ Publish(c, "produce")

DataProducerLoaded(c) == slot[c] = "dataProducer" /\ Publish(c, "dataProduce")

\* MediasoupConsumer.consume and MediasoupDataConsumer.dataConsume.
Fed(type) ==
  /\ Resolved(type)
  /\ UNCHANGED <<ws, caps, slot, step, chosen, source, current, local, remote, hasty>>
  /\ Feed(Head(pending).of)

Consumed == Fed("consume")

DataConsumed == Fed("dataConsume")

\* Nothing is done with the answer.
Produced ==
  /\ Resolved("produce") \/ Resolved("dataProduce")
  /\ UNCHANGED <<ws, caps, slot, step, chosen, source, current, local, remote, fed,
                 hasty>>

\* Mutant: the object is dropped but not closed.
Destroyed_NoClose ==
  /\ Resolved("destroyWebRtcTransport")
  /\ remote' = [remote EXCEPT ![Head(pending).of] = "gone"]
  /\ current' = [current EXCEPT ![Head(pending).slot] = 0]
  /\ UNCHANGED <<ws, caps, slot, step, chosen, source, local, fed, hasty>>

\* The rest of destroyProducer and the like: the object in the slot is closed
\* and the slot emptied.  With an empty slot it throws.
Destroyed ==
  /\ Resolved("destroyWebRtcTransport")
  /\ LET c == Head(pending).of
         s == Head(pending).slot
         o == current[s]
     IN /\ remote' = [remote EXCEPT ![c] = "gone"]
        /\ local' = IF o # 0 /\ local[o] = "open"
                      THEN [local EXCEPT ![o] = "closed"] ELSE local
        /\ current' = [current EXCEPT ![s] = 0]
  /\ UNCHANGED <<ws, caps, slot, step, chosen, source, fed, hasty>>

\* Mutant: the slot is emptied although the request failed.
Rejected_Empties ==
  /\ pending # <<>>
  /\ pending' = Tail(pending)
  /\ LET c == Head(pending).of
         type == Head(pending).type
     IN /\ step' = IF type = "createWebRtcTransport"
                     THEN [step EXCEPT ![c] = "failed"] ELSE step
        /\ current' = IF type = "destroyWebRtcTransport"
                        THEN [current EXCEPT ![Head(pending).slot] = 0] ELSE current
  /\ UNCHANGED <<ws, caps, slot, chosen, source, remote, local, fed, hasty>>

\* The oldest request is rejected by an error answer, or by its timer; then
\* the server may still have done what it asked for.
Rejected ==
  /\ pending # <<>>
  /\ pending' = Tail(pending)
  /\ LET c == Head(pending).of
         type == Head(pending).type
     IN /\ step' = IF type = "createWebRtcTransport"
                     THEN [step EXCEPT ![c] = "failed"] ELSE step
        /\ \/ UNCHANGED remote
           \/ /\ ws = "open" /\ type = "createWebRtcTransport"
              /\ remote' = [remote EXCEPT ![c] = "open"]
           \/ /\ ws = "open" /\ type = "destroyWebRtcTransport"
              /\ remote' = [remote EXCEPT ![c] = "gone"]
  /\ UNCHANGED <<ws, caps, slot, chosen, source, current, local, fed,
                 hasty>>

\* The server drops the client's transports, but not one that its worker has yet
\* to create (SessionServer: an orphan).
WsClosed ==
  /\ ws = "open" /\ ws' = "closed"
  /\ \E late \in SUBSET {c \in Call : /\ pending # <<>> /\ Head(pending).of = c
                                     /\ Head(pending).type = "createWebRtcTransport"} :
       remote' = [c \in Call |-> IF c \in late THEN "open"
                                 ELSE IF remote[c] = "open" THEN "gone" ELSE remote[c]]
  /\ UNCHANGED <<caps, pending, slot, step, chosen, source, current, local, fed,
                 hasty>>

Next ==
  \/ \E c \in Call, s \in Slots : RequestCreate(c, s)
  \/ \E s \in Slots : Destroy(s)
  \/ \E c \in Call : \/ ProducerLoaded(c) \/ ConsumerLoaded(c)
                     \/ DataProducerLoaded(c) \/ DataConsumerLoaded(c)
                     \/ LoadFails(c)
  \/ RtpCapabilities \/ TransportCreated \/ Consumed \/ DataConsumed \/ Produced
  \/ Destroyed \/ Rejected \/ WsClosed

Spec == Init /\ [][Next]_vars

-----------------------------------------------------------------------------
(* Properties. *)

\* The calls of a slot in which the page has always waited.
Patient == {c \in Call : slot[c] \notin hasty}

\* An object produces or consumes what its own call asked for and nothing else
\* (createProducer and the listeners of createConsumer use whatever is in the
\* slot, and the field last written, after their awaits).
OwnAnswers ==
  \A c \in Patient :
    /\ fed[c] \subseteq {c}
    /\ slot[c] \in ChoosingSlots /\ step[c] \in {"loading", "loaded", "broken"} =>
         source[c] = c

\* A transport that the server has can still be destroyed by the page: its
\* object is in the slot (destroyProducer and the like look nowhere else),
\* unless the call that asked for it failed, or is bound to because its
\* websocket closed first.
NoLeak ==
  \A c \in Patient :
    remote[c] = "open" =>
      \/ current[slot[c]] = c
      \/ step[c] = "failed"
      \/ step[c] = "transport" /\ ws = "closed"

\* An object whose own transport is open is the one in the slot: close() is
\* called for every object that leaves it.
OneOpenObject == \A c \in Patient : local[c] = "open" => current[slot[c]] = c

\* What destroyProducer and the like take out of the slot after their await is
\* the object whose transport they asked the server to destroy, and nothing of it
\* stays behind: its own transport is not open, nor is it still to be made.
DestroysItsOwn ==
  [][\A s \in AllSlots \ hasty : current[s] # 0 /\ current'[s] = 0 =>
       /\ remote'[current[s]] = "gone"
       /\ local'[current[s]] # "open" /\ step'[current[s]] # "loading"]_vars

\* No slot ever has two objects with open transports: the functions refuse to
\* create a second, which `has already been created' (mediasoup-demo.ts:84).
OneObject ==
  \A c, d \in Call : slot[c] = slot[d] /\ local[c] = "open" /\ local[d] = "open" => c = d

-----------------------------------------------------------------------------
(* The inductive invariant. *)

\* A call whose transport is asked for has no other request, and the requests of
\* the others are of objects.
RequestsHaveCalls ==
  \A i \in 1..Len(pending) :
    LET type == pending[i].type
        c    == pending[i].of
    IN  /\ type = "createWebRtcTransport" =>
             /\ step[c] = "transport" /\ slot[c] = pending[i].slot
             /\ \A j \in 1..Len(pending) :
                  pending[j].type = type /\ pending[j].of = c => j = i
        /\ type \in {"consume", "dataConsume"} => step[c] = "loaded"
        /\ type = "destroyWebRtcTransport" => step[c] \in {"loading", "loaded", "broken"}

\* What a call has, by how far it is, and the slots hold objects of their own.
ObjectsHaveCalls ==
  /\ \A c \in Call :
       /\ step[c] \in {"none", "transport"} => fed[c] = {}
       /\ step[c] = "none" => remote[c] = "none"
       /\ step[c] = "transport" /\ ws = "open" => remote[c] = "none"
       /\ step[c] = "loaded" <=> local[c] # "none"
  /\ \A s \in AllSlots :
       current[s] # 0 =>
         slot[current[s]] = s /\ step[current[s]] \in {"loading", "loaded", "broken"}

\* In a slot in which the page has waited, one thing is under way: one call, whose
\* object the slot holds as soon as there is one,
CallsAreAlone ==
  \A c \in Patient :
    step[c] \in {"transport", "loading"} =>
      /\ \A d \in Call : slot[d] = slot[c] /\ step[d] \in {"transport", "loading"} => d = c
      /\ ~DestroyUnderWay(slot[c])
      /\ current[slot[c]] = IF step[c] = "loading" THEN c ELSE 0
      /\ step[c] = "transport" /\ slot[c] \in ChoosingSlots => chosen[slot[c]] = c

\* or one destroy, of the object that is in it.
DestroysAreAlone ==
  \A i \in 1..Len(pending) :
    pending[i].type = "destroyWebRtcTransport" /\ pending[i].slot \notin hasty =>
      /\ current[pending[i].slot] = pending[i].of
      /\ \A j \in 1..Len(pending) :
           pending[j].type = "destroyWebRtcTransport" /\ pending[j].slot = pending[i].slot
             => j = i

\* A consumer waits for its answer in the slot, and is destroyed after it has it.
ConsumersStay ==
  \A i \in 1..Len(pending) :
    pending[i].type \in {"consume", "dataConsume"} /\ pending[i].of \in Patient =>
      /\ current[slot[pending[i].of]] = pending[i].of
      /\ \A j \in 1..Len(pending) :
           pending[j].type = "destroyWebRtcTransport" /\ pending[j].slot = slot[pending[i].of]
             => i < j

IInv ==
  /\ TypeOK
  /\ RequestsHaveCalls /\ ObjectsHaveCalls
  /\ CallsAreAlone /\ DestroysAreAlone /\ ConsumersStay
  /\ OwnAnswers /\ NoLeak /\ OneOpenObject
=============================================================================
