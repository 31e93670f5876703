------------------------- MODULE RequestQueue_proofs -------------------------
(***************************************************************************)
(* Proofs about RequestQueue, for any number of calls: its invariants, and *)
(* that it implements the safety part of RequestReply.                     *)
(***************************************************************************)
EXTENDS RequestQueue, TLAPS

\* The client starts with no call.
LEMMA InitInv == Init => IInv
BY NoneAssumption
   DEF Init, IInv, TypeOK, TimerGuardsCurrent, NoIdleQueue,
       StaleEntriesTimedOut, PendingIsPending

\* The next task starts, or the queue rests, when the current one has ended
\* with its promise settled.
LEMMA CallbackOfCurrent ==
  ASSUME IInv, NEW result \in {"resolved", "rejected"},
         NEW map \in SUBSET requestMap, current # None,
         current \notin map \/ result = "rejected",
         Callback(current, result, map), UNCHANGED ws,
         answers' \subseteq Answer
  PROVE  /\ IInv'
         /\ outcome[current] = "pending"
         /\ outcome' = [outcome EXCEPT ![current] = result]
         /\ PendingCalls = <<current>> \o queue
         /\ PendingCalls' = queue
<1>1. /\ current \in Request /\ queue \in Seq(Request)
      /\ outcome[current] = "pending"
      /\ timers \ {current} = {}
  BY DEF IInv, TypeOK, PendingIsPending, TimerGuardsCurrent
<1>2. outcome' = [outcome EXCEPT ![current] = result]
  BY <1>1 DEF Callback
<1>3. PendingCalls = <<current>> \o queue
  BY DEF PendingCalls
<1>4. CASE queue = <<>>
  <2>1. /\ current' = None /\ requestMap' = map /\ timers' = {}
        /\ UNCHANGED <<queue, atServer>>
    BY <1>1, <1>4 DEF Callback, ProcessNextTask
  <2>2. IInv'
    BY <1>1, <1>2, <1>4, <2>1, NoneAssumption
       DEF IInv, TypeOK, TimerGuardsCurrent, NoIdleQueue,
           StaleEntriesTimedOut, PendingIsPending
  <2>3. PendingCalls' = queue
    BY <1>4, <2>1 DEF PendingCalls
  <2> QED  BY <1>1, <1>2, <1>3, <2>2, <2>3
<1>5. CASE queue # <<>>
  <2> DEFINE h == Head(queue)
  <2>1. /\ current' = h /\ requestMap' = map \cup {h} /\ timers' = {h}
        /\ queue' = Tail(queue)
        /\ atServer' \in {atServer, atServer \cup {h}}
    BY <1>1, <1>5 DEF Callback, ProcessNextTask, Run
  <2>2. /\ h \in Request /\ h = queue[1] /\ Tail(queue) \in Seq(Request)
        /\ Len(queue) \in Nat \ {0} /\ Len(Tail(queue)) = Len(queue) - 1
        /\ \A i \in 1..Len(Tail(queue)) : Tail(queue)[i] = queue[i + 1]
    BY <1>1, <1>5
  <2>3. h # current /\ outcome[h] = "pending" /\ h # None
    BY <1>1, <2>2, NoneAssumption DEF IInv, PendingIsPending
  <2> HIDE DEF h
  <2>4. TypeOK'
    BY <1>1, <1>2, <2>1, <2>2 DEF IInv, TypeOK
  <2>5. TimerGuardsCurrent' /\ NoIdleQueue' /\ StaleEntriesTimedOut'
    BY <1>1, <1>2, <2>1, <2>2, <2>3
       DEF IInv, TypeOK, TimerGuardsCurrent, NoIdleQueue, StaleEntriesTimedOut
  <2>6. PendingIsPending'
    <3>1. ASSUME NEW r \in Request
          PROVE  outcome'[r] = "pending" <=>
                   r = h \/ \E i \in 1..Len(Tail(queue)) : Tail(queue)[i] = r
      <4>1. outcome'[r] = "pending" <=> outcome[r] = "pending" /\ r # current
        BY <1>1, <1>2 DEF IInv, TypeOK
      <4>2. (\E i \in 1..Len(queue) : queue[i] = r) <=>
              r = h \/ \E i \in 1..Len(Tail(queue)) : Tail(queue)[i] = r
        <5>1. ASSUME NEW i \in 1..Len(queue), queue[i] = r, r # h
              PROVE  \E j \in 1..Len(Tail(queue)) : Tail(queue)[j] = r
          <6>1. i - 1 \in 1..Len(Tail(queue)) /\ Tail(queue)[i - 1] = r
            BY <2>2, <5>1
          <6> QED  BY <6>1
        <5>2. ASSUME NEW j \in 1..Len(Tail(queue)), Tail(queue)[j] = r
              PROVE  \E i \in 1..Len(queue) : queue[i] = r
          <6>1. j + 1 \in 1..Len(queue) /\ queue[j + 1] = r
            BY <2>2, <5>2
          <6> QED  BY <6>1
        <5>3. r = h => \E i \in 1..Len(queue) : queue[i] = r
          BY <2>2
        <5> QED  BY <5>1, <5>2, <5>3
      <4> QED  BY <4>1, <4>2, <2>2 DEF IInv, PendingIsPending
    <3>2. \A i \in 1..Len(Tail(queue)) : Tail(queue)[i] # h
      BY <2>2 DEF IInv, PendingIsPending
    <3>3. \A i, j \in 1..Len(Tail(queue)) :
            Tail(queue)[i] = Tail(queue)[j] => i = j
      BY <2>2 DEF IInv, PendingIsPending
    <3> QED  BY <2>1, <3>1, <3>2, <3>3 DEF PendingIsPending
  <2>7. PendingCalls' = queue
    BY <1>1, <1>5, <2>1, <2>2, <2>3 DEF PendingCalls, h
  <2> QED  BY <1>1, <1>2, <1>3, <2>4, <2>5, <2>6, <2>7 DEF IInv
<1> QED  BY <1>4, <1>5

\* A call joins the end of the queue, or runs at once.
LEMMA SendMessageInv ==
  ASSUME IInv, NEW r \in Request, sendMessage(r)
  PROVE  /\ IInv'
         /\ outcome[r] = "none" /\ outcome' = [outcome EXCEPT ![r] = "pending"]
         /\ PendingCalls' = Append(PendingCalls, r)
<1>1. /\ outcome[r] = "none" /\ outcome' = [outcome EXCEPT ![r] = "pending"]
      /\ queue \in Seq(Request) /\ UNCHANGED <<ws, answers>>
      /\ r # None /\ r # current
      /\ \A i \in 1..Len(queue) : queue[i] # r
  BY NoneAssumption DEF sendMessage, IInv, TypeOK, PendingIsPending
<1>2. CASE current = None
  <2>1. /\ current' = r /\ requestMap' = requestMap \cup {r}
        /\ timers' = timers \cup {r} /\ queue = <<>> /\ queue' = queue
        /\ atServer' \in {atServer, atServer \cup {r}}
    BY <1>2 DEF sendMessage, Run, IInv, NoIdleQueue
  <2>2. IInv'
    <3>1. TypeOK' /\ TimerGuardsCurrent' /\ NoIdleQueue'
      BY <1>1, <1>2, <2>1
         DEF IInv, TypeOK, TimerGuardsCurrent, NoIdleQueue
    <3>2. StaleEntriesTimedOut'
      BY <1>1, <1>2, <2>1, NoneAssumption
         DEF IInv, TypeOK, StaleEntriesTimedOut
    <3>3. PendingIsPending'
      <4>1. \A q \in Request : outcome[q] # "pending"
        BY <1>2, <2>1, NoneAssumption DEF IInv, PendingIsPending
      <4>2. \A q \in Request : outcome'[q] = "pending" <=> q = r
        BY <1>1, <4>1 DEF IInv, TypeOK
      <4> QED  BY <2>1, <4>2 DEF PendingIsPending
    <3> QED  BY <3>1, <3>2, <3>3 DEF IInv
  <2>3. PendingCalls' = Append(PendingCalls, r)
    BY <1>1, <1>2, <2>1 DEF PendingCalls
  <2> QED  BY <1>1, <2>2, <2>3
<1>3. CASE current # None
  <2>1. /\ queue' = Append(queue, r)
        /\ UNCHANGED <<current, requestMap, timers, atServer>>
    BY <1>3 DEF sendMessage
  <2>2. /\ Append(queue, r) \in Seq(Request)
        /\ Len(Append(queue, r)) = Len(queue) + 1 /\ Len(queue) \in Nat
        /\ \A i \in 1..Len(queue) : Append(queue, r)[i] = queue[i]
        /\ Append(queue, r)[Len(queue) + 1] = r
    BY <1>1
  <2>3. TypeOK' /\ TimerGuardsCurrent' /\ NoIdleQueue' /\ StaleEntriesTimedOut'
    BY <1>1, <1>3, <2>1, <2>2
       DEF IInv, TypeOK, TimerGuardsCurrent, NoIdleQueue, StaleEntriesTimedOut
  <2>4. PendingIsPending'
    <3>1. ASSUME NEW q \in Request
          PROVE  outcome'[q] = "pending" <=>
                   q = current \/ \E i \in 1..Len(queue') : queue'[i] = q
      <4>1. CASE q = r
        BY <1>1, <2>1, <2>2, <4>1 DEF IInv, TypeOK
      <4>2. CASE q # r
        BY <1>1, <2>1, <2>2, <4>2 DEF IInv, TypeOK, PendingIsPending
      <4> QED  BY <4>1, <4>2
    <3>2. \A i \in 1..Len(queue') : queue'[i] # current
      BY <1>1, <2>1, <2>2 DEF IInv, PendingIsPending
    <3>3. \A i, j \in 1..Len(queue') : queue'[i] = queue'[j] => i = j
      BY <1>1, <2>1, <2>2 DEF IInv, PendingIsPending
    <3> QED  BY <2>1, <3>1, <3>2, <3>3 DEF PendingIsPending
  <2>5. PendingCalls' = Append(PendingCalls, r)
    <3>1. current \in Request
      BY <1>3 DEF IInv, TypeOK
    <3> QED  BY <1>1, <1>3, <2>1, <3>1 DEF PendingCalls
  <2> QED  BY <1>1, <2>3, <2>4, <2>5 DEF IInv
<1> QED  BY <1>2, <1>3

\* Every step keeps the invariant and does what RequestReply allows.
LEMMA StepRefines ==
  ASSUME IInv, [Next]_vars
  PROVE  IInv' /\ [Promise!Next]_Promise!vars
<1> DEFINE Stutter == UNCHANGED <<PendingCalls, outcome>>
<1>1. ASSUME NEW result \in {"resolved", "rejected"}, current # None,
             outcome[current] = "pending",
             outcome' = [outcome EXCEPT ![current] = result],
             PendingCalls = <<current>> \o queue, PendingCalls' = queue
      PROVE  Promise!Settle
  <2>1. /\ queue \in Seq(Request) /\ current \in Request
    BY <1>1 DEF IInv, TypeOK
  <2>2. /\ PendingCalls # <<>> /\ Head(PendingCalls) = current
        /\ Tail(PendingCalls) = queue
    BY <1>1, <2>1
  <2> QED  BY <1>1, <2>2 DEF Promise!Settle
<1>2. ASSUME NEW r \in Request, sendMessage(r)
      PROVE  IInv' /\ Promise!Next
  BY <1>2, SendMessageInv DEF Promise!Next, Promise!Make
<1>3. ASSUME NEW r \in Request, Timeout(r)
      PROVE  IInv' /\ Promise!Next
  <2>1. r = current /\ current # None
    BY <1>3 DEF Timeout, IInv, TimerGuardsCurrent
  <2>2. /\ Callback(current, "rejected", requestMap)
        /\ UNCHANGED ws /\ answers' \subseteq Answer
    BY <1>3, <2>1 DEF Timeout, IInv, TypeOK
  <2> QED  BY <1>1, <2>1, <2>2, CallbackOfCurrent DEF Promise!Next
<1>4. ASSUME NEW a \in answers, onMessage(a)
      PROVE  IInv' /\ (Promise!Next \/ Stutter)
  <2> DEFINE result == IF a.kind = "error" THEN "rejected" ELSE "resolved"
             map == requestMap \ {a.to}
  <2>1. /\ a.to \in Request /\ UNCHANGED ws /\ answers' \subseteq Answer
    BY <1>4 DEF onMessage, IInv, TypeOK, Answer
  <2>2. CASE a.to \notin requestMap
    <3>1. UNCHANGED <<outcome, queue, current, requestMap, timers, atServer>>
      BY <1>4, <2>2 DEF onMessage, Callback
    <3> QED
      BY <2>1, <3>1
         DEF IInv, TypeOK, TimerGuardsCurrent, NoIdleQueue,
             StaleEntriesTimedOut, PendingIsPending, PendingCalls
  <2>3. CASE a.to \in requestMap /\ a.to = current
    <3>1. Callback(current, result, map)
      BY <1>4, <2>3 DEF onMessage
    <3>2. current # None /\ current \notin map /\ map \in SUBSET requestMap
          /\ result \in {"resolved", "rejected"}
      BY <2>1, <2>3, NoneAssumption
    <3> HIDE DEF result, map
    <3> QED  BY <1>1, <2>1, <3>1, <3>2, CallbackOfCurrent DEF Promise!Next
  <2>4. CASE a.to \in requestMap /\ a.to # current
    <3>1. outcome[a.to] = "rejected" /\ a.to \notin timers
      BY <2>4 DEF IInv, StaleEntriesTimedOut, TimerGuardsCurrent
    <3>2. /\ outcome' = outcome /\ requestMap' = map /\ timers' = timers
          /\ UNCHANGED <<queue, current, atServer>>
      <4>1. /\ outcome' = [outcome EXCEPT ![a.to] = outcome[a.to]]
            /\ requestMap' = map /\ timers' = timers \ {a.to}
            /\ UNCHANGED <<queue, current, atServer>>
        BY <1>4, <2>4, <3>1 DEF onMessage, Callback
      <4>2. outcome' = outcome
        BY <2>1, <4>1 DEF IInv, TypeOK
      <4> QED  BY <3>1, <4>1, <4>2
    <3> QED
      BY <2>1, <3>2
         DEF IInv, TypeOK, TimerGuardsCurrent, NoIdleQueue,
             StaleEntriesTimedOut, PendingIsPending, PendingCalls
  <2> QED  BY <2>2, <2>3, <2>4
<1>5. ASSUME \/ onOpen \/ onClose \/ UNCHANGED vars
             \/ \E r \in Request : ServerAnswers(r) \/ ServerIgnores(r)
      PROVE  IInv' /\ Stutter
  <2>1. /\ UNCHANGED <<outcome, queue, current, requestMap, timers>>
        /\ ws' \in {"connecting", "open", "closed"}
        /\ atServer' \subseteq Request /\ answers' \subseteq Answer
    BY <1>5 DEF onOpen, onClose, ServerAnswers, ServerIgnores, vars, IInv,
                TypeOK, Answer
  <2> QED
    BY <2>1
       DEF IInv, TypeOK, TimerGuardsCurrent, NoIdleQueue, StaleEntriesTimedOut,
           PendingIsPending, PendingCalls
<1> QED  BY <1>2, <1>3, <1>4, <1>5 DEF Next, Promise!vars

\* The inductive invariant of the queue.
THEOREM Invariance == Spec => []IInv
<1>1. IInv /\ [Next]_vars => IInv'
  BY StepRefines
<1> QED  BY InitInv, <1>1, PTL DEF Spec

\* The queue never waits for a task without a timer, and no timer is left of
\* another task.
THEOREM QueueIsNeverStuck == Spec => []TimerGuardsCurrent
<1>1. IInv => TimerGuardsCurrent
  BY DEF IInv
<1> QED  BY <1>1, Invariance, PTL

\* What stays in requestMap are requests that timed out.
THEOREM StaleEntriesHaveTimedOut == Spec => []StaleEntriesTimedOut
<1>1. IInv => StaleEntriesTimedOut
  BY DEF IInv
<1> QED  BY <1>1, Invariance, PTL

\* A late answer, or one out of order, resolves no other call.
THEOREM AnswersAreOwn == Spec => ResolvesOnOwnAnswer
<1>1. ASSUME IInv, [Next]_vars, NEW r \in Request,
             outcome'[r] = "resolved", outcome[r] # "resolved"
      PROVE  [to |-> r, kind |-> "payload"] \in answers \ answers'
  <2>1. CASE UNCHANGED vars
    BY <1>1, <2>1 DEF vars
  <2>2. CASE onOpen \/ onClose
    BY <1>1, <2>2 DEF onOpen, onClose
  <2>3. ASSUME NEW q \in Request,
               sendMessage(q) \/ Timeout(q) \/ ServerAnswers(q) \/ ServerIgnores(q)
        PROVE  FALSE
    BY <1>1, <2>3 DEF IInv, TypeOK, sendMessage, Timeout, Callback, ServerAnswers,
                      ServerIgnores
  <2>4. ASSUME NEW a \in answers, onMessage(a)
        PROVE  [to |-> r, kind |-> "payload"] \in answers \ answers'
    <3>1. /\ answers' = answers \ {a}
          /\ Callback(a.to, IF a.kind = "error" THEN "rejected" ELSE "resolved",
                      requestMap \ {a.to})
      BY <1>1, <2>4 DEF onMessage
    <3>2. a.to = r /\ a.kind # "error"
      BY <1>1, <3>1 DEF Callback, IInv, TypeOK, Answer
    <3>3. a = [to |-> r, kind |-> "payload"]
      BY <1>1, <3>2 DEF IInv, TypeOK, Answer
    <3> QED  BY <3>1, <3>3
  <2> QED  BY <1>1, <2>1, <2>2, <2>3, <2>4 DEF Next
<1>2. IInv /\ [Next]_vars =>
        [\A r \in Request :
           outcome'[r] = "resolved" /\ outcome[r] # "resolved" =>
             [to |-> r, kind |-> "payload"] \in answers \ answers']_vars
  BY <1>1
<1> QED  BY <1>2, Invariance, PTL DEF Spec, ResolvesOnOwnAnswer

\* Calls are settled one at a time, in their order, each once: no timeout, lost
\* answer, late answer or answer out of order makes a difference to that.
THEOREM QueueIsOrderly == Spec => Promise!SafeSpec
<1>1. Init => Promise!Init
  BY DEF Init, Promise!Init, PendingCalls
<1>2. IInv /\ [Next]_vars => IInv' /\ [Promise!Next]_Promise!vars
  BY StepRefines
<1> QED  BY InitInv, <1>1, <1>2, PTL DEF Spec, Promise!SafeSpec

\* The safety half of the promise that every call is settled in the end: the
\* oldest call that is not settled has its timer, which is what FairSpec is
\* fair to, until it is settled ...
THEOREM OldestHasTimer ==
  Spec => [](PendingCalls # <<>> => Head(PendingCalls) \in timers)
<1>1. IInv => (PendingCalls # <<>> => Head(PendingCalls) \in timers)
  <2> SUFFICES ASSUME IInv, PendingCalls # <<>>
               PROVE  Head(PendingCalls) \in timers
    OBVIOUS
  <2>1. current # None
    BY DEF PendingCalls, IInv, NoIdleQueue
  <2>2. PendingCalls = <<current>> \o queue /\ queue \in Seq(Request)
        /\ current \in Request
    BY <2>1 DEF PendingCalls, IInv, TypeOK
  <2>3. Head(PendingCalls) = current
    BY <2>2
  <2> QED  BY <2>1, <2>3 DEF IInv, TimerGuardsCurrent
<1> QED  BY <1>1, Invariance, PTL

\* ... and when that timer strikes it settles the oldest call.
THEOREM TimeoutSettlesOldest ==
  Spec => [][\A r \in Request : Timeout(r) =>
               /\ PendingCalls = <<r>> \o PendingCalls'
               /\ outcome'[r] = "rejected"]_vars
<1>1. ASSUME IInv, NEW r \in Request, Timeout(r)
      PROVE  PendingCalls = <<r>> \o PendingCalls' /\ outcome'[r] = "rejected"
  <2>1. r = current /\ current # None
    BY <1>1, NoneAssumption DEF Timeout, IInv, TimerGuardsCurrent
  <2>2. /\ PendingCalls = <<current>> \o queue /\ PendingCalls' = queue
        /\ outcome' = [outcome EXCEPT ![current] = "rejected"]
    BY <1>1, <2>1, CallbackOfCurrent DEF Timeout, IInv, TypeOK
  <2>3. outcome'[r] = "rejected"
    BY <1>1, <2>1, <2>2 DEF IInv, TypeOK
  <2> QED  BY <2>1, <2>2, <2>3
<1>2. IInv /\ [Next]_vars =>
        [\A r \in Request : Timeout(r) =>
           /\ PendingCalls = <<r>> \o PendingCalls'
           /\ outcome'[r] = "rejected"]_vars
  BY <1>1
<1> QED  BY <1>2, Invariance, PTL DEF Spec
=============================================================================
