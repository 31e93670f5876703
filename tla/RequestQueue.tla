---------------------------- MODULE RequestQueue ----------------------------
(***************************************************************************)
(* The request queue of the browser client (demo/src/libs): AsyncQueue,    *)
(* MediasoupWebsocket and its WebsocketTask, over a websocket that may not *)
(* be open yet and may close for good (nothing reconnects), to a server    *)
(* that may answer late, out of order, with an error or not at all.        *)
(*                                                                         *)
(* A request is named after the call of sendMessage that makes it; its     *)
(* uuid is drawn afresh when its task starts.                              *)
(***************************************************************************)
EXTENDS Integers, Sequences

CONSTANTS Request,    \* calls of sendMessage; bounds how many a run makes
          None        \* no request

ASSUME NoneAssumption == None \notin Request

VARIABLES
  ws,           \* the websocket: "connecting", "open" or "closed"
  outcome,      \* the promise of each call: "none", "pending", "resolved" or
                \* "rejected"
  queue,        \* AsyncQueue.queue: the tasks that have not started
  current,      \* the task whose promise AsyncQueue awaits (processing)
  requestMap,   \* the tasks that an answer can still find
  timers,       \* the tasks whose 15 s timer runs
  atServer,     \* requests that the server has received and not answered
  answers       \* answers on their way, to requests, by kind

vars == <<ws, outcome, queue, current, requestMap, timers, atServer, answers>>

Answer == [to : Request, kind : {"payload", "error"}]

TypeOK ==
  /\ ws \in {"connecting", "open", "closed"}
  /\ outcome \in [Request -> {"none", "pending", "resolved", "rejected"}]
  /\ queue \in Seq(Request)
  /\ current \in Request \cup {None}
  /\ requestMap \subseteq Request
  /\ timers \subseteq Request
  /\ atServer \subseteq Request
  /\ answers \subseteq Answer

Init ==
  /\ ws = "connecting"
  /\ outcome = [r \in Request |-> "none"]
  /\ queue = <<>>
  /\ current = None
  /\ requestMap = {} /\ timers = {}
  /\ atServer = {} /\ answers = {}

-----------------------------------------------------------------------------
\* Mutant: no timer is started.
Run_NoTimer(r, map, running) ==
  /\ current' = r
  /\ requestMap' = map \cup {r}
  /\ timers' = running
  /\ atServer' = IF ws = "open" THEN atServer \cup {r} ELSE atServer

\* The task of r runs: it enters the map of tasks that an answer can find and
\* starts its timer; its message goes out, or is dropped with a warning when
\* the websocket is not open.
Run(r, map, running) ==
  /\ current' = r
  /\ requestMap' = map \cup {r}
  /\ timers' = running \cup {r}
  /\ atServer' = IF ws = "open" THEN atServer \cup {r} ELSE atServer

\* processNextTask: the oldest task that has not started, if there is one.
ProcessNextTask(map, running) ==
  \/ /\ queue = <<>>
     /\ current' = None
     /\ requestMap' = map /\ timers' = running
     /\ UNCHANGED <<queue, atServer>>
  \/ /\ queue # <<>>
     /\ Run(Head(queue), map, running)
     /\ queue' = Tail(queue)

\* Mutant: the timer is not stopped.
Callback_KeepsTimer(r, result, map) ==
  /\ outcome' = [outcome EXCEPT ![r] = IF @ = "pending" THEN result ELSE @]
  /\ \/ current = r /\ ProcessNextTask(map, timers)
     \/ /\ current # r
        /\ requestMap' = map
        /\ UNCHANGED <<timers, queue, current, atServer>>

\* The task's callback, with the entries that are left in requestMap: it stops
\* the timer, settles the promise of the call unless that is settled already,
\* and ends the task, so that AsyncQueue goes on if it was awaiting this one.
Callback(r, result, map) ==
  /\ outcome' = [outcome EXCEPT ![r] = IF @ = "pending" THEN result ELSE @]
  /\ \/ current = r /\ ProcessNextTask(map, timers \ {r})
     \/ /\ current # r
        /\ requestMap' = map /\ timers' = timers \ {r}
        /\ UNCHANGED <<queue, current, atServer>>

sendMessage(r) ==
  /\ outcome[r] = "none"
  /\ outcome' = [outcome EXCEPT ![r] = "pending"]
  /\ \/ /\ current = None
        /\ Run(r, requestMap, timers)
        /\ UNCHANGED queue
     \/ /\ current # None
        /\ queue' = Append(queue, r)
        /\ UNCHANGED <<current, requestMap, timers, atServer>>
  /\ UNCHANGED <<ws, answers>>

\* The timer calls back; the task stays in requestMap.
Timeout(r) ==
  /\ r \in timers
  /\ Callback(r, "rejected", requestMap)
  /\ UNCHANGED <<ws, answers>>

\* Mutants: the answered task stays in requestMap; any answer is taken for the
\* running task's; the promise gets the kind of the answer for a result.
onMessage_KeepsEntry(a) ==
  /\ ws = "open" /\ a \in answers
  /\ answers' = answers \ {a}
  /\ a.to \in requestMap
  /\ Callback(a.to, IF a.kind = "error" THEN "rejected" ELSE "resolved", requestMap)
  /\ UNCHANGED ws

onMessage_RawResult(a) ==
  /\ ws = "open" /\ a \in answers
  /\ answers' = answers \ {a}
  /\ a.to \in requestMap
  /\ Callback(a.to, a.kind, requestMap \ {a.to})
  /\ UNCHANGED ws

onMessage_ForCurrent(a) ==
  /\ ws = "open" /\ a \in answers /\ current # None
  /\ answers' = answers \ {a}
  /\ Callback(current, IF a.kind = "error" THEN "rejected" ELSE "resolved",
              requestMap \ {current})
  /\ UNCHANGED ws

\* An answer arrives and finds its task by its uuid; with none it is dropped.
onMessage(a) ==
  /\ ws = "open" /\ a \in answers
  /\ answers' = answers \ {a}
  /\ \/ /\ a.to \in requestMap
        /\ Callback(a.to, IF a.kind = "error" THEN "rejected" ELSE "resolved",
                    requestMap \ {a.to})
     \/ /\ a.to \notin requestMap
        /\ UNCHANGED <<outcome, queue, current, requestMap, timers, atServer>>
  /\ UNCHANGED ws

onOpen ==
  /\ ws = "connecting" /\ ws' = "open"
  /\ UNCHANGED <<outcome, queue, current, requestMap, timers, atServer, answers>>

\* The connection fails or is lost, with everything on its way.
onClose ==
  /\ ws # "closed" /\ ws' = "closed"
  /\ atServer' = {} /\ answers' = {}
  /\ UNCHANGED <<outcome, queue, current, requestMap, timers>>

\* The server answers what it received, in any order.
ServerAnswers(r) ==
  /\ r \in atServer
  /\ atServer' = atServer \ {r}
  /\ \E kind \in {"payload", "error"} :
       answers' = answers \cup {[to |-> r, kind |-> kind]}
  /\ UNCHANGED <<ws, outcome, queue, current, requestMap, timers>>

\* A type that the server does not know is never answered.
ServerIgnores(r) ==
  /\ r \in atServer
  /\ atServer' = atServer \ {r}
  /\ UNCHANGED <<ws, outcome, queue, current, requestMap, timers, answers>>

Next ==
  \/ onOpen \/ onClose
  \/ \E r \in Request : \/ sendMessage(r)
                        \/ Timeout(r)
                        \/ ServerAnswers(r)
                        \/ ServerIgnores(r)
  \/ \E a \in answers : onMessage(a)

Spec == Init /\ [][Next]_vars

\* A timer that is not stopped fires; nothing else is owed to the client.
FairSpec == Spec /\ \A r \in Request : WF_vars(Timeout(r))

-----------------------------------------------------------------------------
(* Properties. *)

\* The task that AsyncQueue waits for always has a timer, and no other task
\* has: whatever the server and the network do, the queue cannot get stuck
\* behind it, and no late timer strikes a later request.
TimerGuardsCurrent == timers = IF current = None THEN {} ELSE {current}

\* Nothing waits in the queue unless a task is running.
NoIdleQueue == current = None => queue = <<>>

\* requestMap holds the running task and those that timed out without an
\* answer so far (their entries are never removed when no answer comes).
StaleEntriesTimedOut ==
  \A r \in requestMap : r = current \/ outcome[r] = "rejected"

\* The running task and the queue are the calls whose promise is pending, and
\* each of them is there once.
PendingIsPending ==
  /\ \A r \in Request : outcome[r] = "pending" <=>
       r = current \/ \E i \in 1..Len(queue) : queue[i] = r
  /\ \A i \in 1..Len(queue) : queue[i] # current
  /\ \A i, j \in 1..Len(queue) : queue[i] = queue[j] => i = j

\* The inductive invariant.
IInv ==
  /\ TypeOK
  /\ TimerGuardsCurrent
  /\ NoIdleQueue
  /\ StaleEntriesTimedOut
  /\ PendingIsPending

PendingCalls == (IF current = None THEN <<>> ELSE <<current>>) \o queue

Promise == INSTANCE RequestReply WITH pending <- PendingCalls

\* The queue implements the promise: one at a time, first come first settled,
\* each once, and every one in the end.
ImplementsRequestReply == Promise!Spec

\* A call resolves only on an answer to itself.
ResolvesOnOwnAnswer ==
  [][\A r \in Request :
       outcome'[r] = "resolved" /\ outcome[r] # "resolved" =>
         [to |-> r, kind |-> "payload"] \in answers \ answers']_vars
=============================================================================
