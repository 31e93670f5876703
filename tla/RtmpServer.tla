----------------------------- MODULE RtmpServer -----------------------------
(***************************************************************************)
(* The RTMP connections of the media server: the accept thread of          *)
(* RTMPServer makes an RTMPClient for each connection, with a thread of    *)
(* its own, which calls back when the publisher names its stream key and   *)
(* when the connection ends.  The clients are in one SafeMap by their      *)
(* descriptor until they have a key, then in another by their key.  Each   *)
(* call of a SafeMap locks it, nothing locks two of them.                  *)
(*                                                                         *)
(* The maps hold shared pointers; nothing else keeps a client from being   *)
(* destroyed, not even its own thread.  Destruction closes the descriptor  *)
(* in mSocketfd, which RTMP_Close has closed already when the thread is at *)
(* its end, and which accept may have given to another connection since.   *)
(* What a thread reads of its client after that is what the destructor has *)
(* left there (the build does not optimise); that the memory is not given  *)
(* to something else before the thread ends is an assumption.              *)
(*                                                                         *)
(* librtmp and the kernel are external.  shutdown is left out: only static *)
(* destruction would call it, and the main loop never ends.                *)
(***************************************************************************)
CONSTANTS
  Connection,   \* connections, in the kernel's sense, each accepted once
  Descriptor,   \* what accept may return, but for Zero
  Zero,         \* descriptor 0: the standard input, and in mSocketfd no socket
  Key,          \* stream keys
  Known,        \* those in the settings
  None          \* no connection, no key, or no descriptor

ASSUME RtmpAssumption ==
  /\ Zero \notin Descriptor /\ None \notin Descriptor /\ None # Zero
  /\ None \notin Connection /\ Zero \notin Connection
  /\ None \notin Key
  /\ Known \subseteq Key

Number == Descriptor \cup {Zero}

VARIABLES
  mServState,   \* "STOPPED" or "ACCEPTING"
  owner,        \* the connection each number is open to
  acceptor,     \* the client in the accept loop's local variable
  task,         \* what the thread of each connection is at
  mSocketfd,    \* RTMPClient.mSocketfd
  sb,           \* the number librtmp reads from (m_sb.sb_socket)
  streamKey,    \* RTMPClient.streamKey
  asked,        \* the key in the command the thread is at
  found,        \* onStreamKey's connectingClient
  connecting,   \* mConnectingStreamMap
  streams,      \* mStreamMap
  destroyed,    \* the clients that are destroyed; their mStopFlag is set
  told,         \* which of MediasoupClient::resume and pause was last called for a
                \* key (what they say to mediasoup is left out)
  mixed,        \* history: connections that shared a number in use
  raced         \* history: keys that two threads were about to take at once

kernel  == <<owner, mSocketfd, sb>>
maps    == <<connecting, streams, destroyed>>
command == <<asked, found>>
vars == <<mServState, acceptor, task, streamKey, told, mixed, raced, kernel, maps, command>>

Tasks == {"none", "ignored", "accepted", "added", "failed", "select", "serve", "read",
          "check", "resume", "add", "refused", "close", "closed", "leave", "forget", "done"}

TypeOK ==
  /\ mServState \in {"STOPPED", "ACCEPTING"}
  /\ owner \in [Number -> Connection \cup {None, Zero}]
  /\ acceptor \in Connection \cup {None}
  /\ task \in [Connection -> Tasks]
  /\ mSocketfd \in [Connection -> Number]
  /\ sb \in [Connection -> Number \cup {None}]
  /\ streamKey \in [Connection -> Key \cup {None}]
  /\ asked \in [Connection -> Key \cup {None}]
  /\ found \in [Connection -> Connection \cup {None}]
  /\ connecting \in [Number -> Connection \cup {None}]
  /\ streams \in [Key -> Connection \cup {None}]
  /\ destroyed \subseteq Connection
  /\ told \in [Key -> {"nothing", "resume", "pause"}]
  /\ mixed \subseteq Connection
  /\ raced \subseteq Key

Init ==
  /\ mServState = "STOPPED"
  /\ owner = [n \in Number |-> IF n = Zero THEN Zero ELSE None]
  /\ acceptor = None
  /\ task = [c \in Connection |-> "none"]
  /\ mSocketfd = [c \in Connection |-> Zero]
  /\ sb = [c \in Connection |-> None]
  /\ streamKey = [c \in Connection |-> None]
  /\ asked = [c \in Connection |-> None]
  /\ found = [c \in Connection |-> None]
  /\ connecting = [n \in Number |-> None]
  /\ streams = [k \in Key |-> None]
  /\ destroyed = {}
  /\ told = [k \in Key |-> "nothing"]
  /\ mixed = {} /\ raced = {}

-----------------------------------------------------------------------------
(* The SafeMap, the sockets and the shared pointers. *)

Added(map, key, c) == IF map[key] = None THEN [map EXCEPT ![key] = c] ELSE map

Removed(map, key) == [map EXCEPT ![key] = None]

Goto(c, where) == task' = [task EXCEPT ![c] = where]

\* close(2) of the numbers in mSocketfd: disconnect() of these clients.
Disconnect(clients) ==
  /\ owner' = [n \in Number |->
       IF n # Zero /\ \E o \in clients : mSocketfd[o] = n THEN None ELSE owner[n]]
  /\ mSocketfd' = [o \in Connection |-> IF o \in clients THEN Zero ELSE mSocketfd[o]]

Held(o) ==
  \/ acceptor = o
  \/ \E c \in Connection : found[c] = o
  \/ \E n \in Number : connecting[n] = o
  \/ \E k \in Key : streams[k] = o

\* A reference to o was dropped; ~RTMPClient runs if it was the last one.
Gone(o) == {x \in {o} \ {None} : ~Held(x)'}

Release(o) ==
  /\ destroyed' = destroyed \cup Gone(o)
  /\ Disconnect(Gone(o))

-----------------------------------------------------------------------------
(* The accept thread. *)

Listen ==
  /\ mServState = "STOPPED"
  /\ mServState' = "ACCEPTING"
  /\ UNCHANGED <<acceptor, task, streamKey, told, mixed, raced, kernel, maps, command>>

\* The clients that still read from number d, or will still close it.
InUse(d) == {c \in Connection : mSocketfd[c] = d \/ sb[c] = d}

\* Any free number: those below may be those of other files.
Accept(c, d) ==
  /\ mServState = "ACCEPTING" /\ acceptor = None /\ task[c] = "none"
  /\ owner[d] = None
  /\ owner' = [owner EXCEPT ![d] = c]
  /\ mSocketfd' = [mSocketfd EXCEPT ![c] = d]
  /\ acceptor' = c
  /\ Goto(c, "accepted")
  /\ mixed' = IF InUse(d) = {} THEN mixed ELSE mixed \cup InUse(d) \cup {c}
  /\ UNCHANGED <<mServState, streamKey, told, raced, sb, maps, command>>

\* Nobody looks whether add has added: another may be there under the number.
AddConnecting(c) ==
  /\ acceptor = c /\ task[c] = "accepted"
  /\ connecting' = Added(connecting, mSocketfd[c], c)
  /\ Goto(c, "added")
  /\ UNCHANGED <<mServState, acceptor, streamKey, told, mixed, raced, kernel, streams,
                 destroyed, command>>

\* accept returns 0 when somebody has closed the standard input.
AcceptZero(c) ==
  /\ mServState = "ACCEPTING" /\ acceptor = None /\ task[c] = "none"
  /\ owner[Zero] = None
  /\ owner' = [owner EXCEPT ![Zero] = c]
  /\ Goto(c, "ignored")
  /\ UNCHANGED <<mServState, acceptor, streamKey, told, mixed, raced, mSocketfd, sb,
                 maps, command>>

StartThread(c) ==
  /\ acceptor = c /\ task[c] = "added"
  /\ \/ Goto(c, "select")
     \/ Goto(c, "failed")        \* pthread_create fails: nobody takes it out
  /\ UNCHANGED <<mServState, acceptor, streamKey, told, mixed, raced, kernel, maps, command>>

\* The turn of the loop ends, and with it its reference to the client.
EndAccept(c) ==
  /\ acceptor = c /\ task[c] \notin {"accepted", "added"}
  /\ acceptor' = None
  /\ UNCHANGED <<connecting, streams, command>>
  /\ Release(c)
  /\ UNCHANGED <<mServState, task, streamKey, told, mixed, raced, sb>>

-----------------------------------------------------------------------------
(* The thread of a connection: RTMPClient::runThread and RunRTMP. *)

Serves(c) ==
  /\ task[c] = "select"
  /\ Goto(c, "serve")
  /\ sb' = [sb EXCEPT ![c] = mSocketfd[c]]
  /\ UNCHANGED <<mServState, acceptor, streamKey, told, mixed, raced, owner, mSocketfd,
                 maps, command>>

\* The select times out or fails, or RTMP_Alloc does: RTMP_Close is not called.
NotServed(c) ==
  /\ task[c] = "select"
  /\ Goto(c, "closed")
  /\ UNCHANGED <<mServState, acceptor, streamKey, told, mixed, raced, kernel, maps, command>>

\* TLS and the handshake of RTMP, with whatever connection has the number now.
Handshake(c) ==
  /\ task[c] = "serve" /\ owner[sb[c]] \in Connection
  /\ Goto(c, "read")
  /\ UNCHANGED <<mServState, acceptor, streamKey, told, mixed, raced, kernel, maps, command>>

\* The handshake or a read fails, or the thread is stopped.
EndRtmp(c) ==
  /\ task[c] \in {"serve", "read"}
  /\ Goto(c, "close")
  /\ UNCHANGED <<mServState, acceptor, streamKey, told, mixed, raced, kernel, maps, command>>

\* RTMP_Close closes the number once more if the client has disconnected.
RTMP_Close(c) ==
  /\ task[c] = "close"
  /\ owner' = [owner EXCEPT ![sb[c]] = None]
  /\ sb' = [sb EXCEPT ![c] = None]
  /\ Goto(c, "closed")
  /\ UNCHANGED <<mServState, acceptor, streamKey, told, mixed, raced, mSocketfd, maps, command>>

-----------------------------------------------------------------------------
(* The command that names a key (FCPublish or play), and onStreamKey.  A client *)
(* that is destroyed may still get the one its thread waits for.               *)

\* The client leaves the map of those without a key.
TakeConnecting(c, k) ==
  /\ task[c] = "read" /\ owner[sb[c]] \in Connection
  /\ connecting[mSocketfd[c]] # None
  /\ found' = [found EXCEPT ![c] = connecting[mSocketfd[c]]]
  /\ connecting' = Removed(connecting, mSocketfd[c])
  /\ asked' = [asked EXCEPT ![c] = k]
  /\ Goto(c, "check")
  /\ UNCHANGED <<mServState, acceptor, streamKey, told, mixed, raced, kernel, streams,
                 destroyed>>

\* It is not there, as with the second command of a connection.
NotConnecting(c) ==
  /\ task[c] = "read" /\ owner[sb[c]] \in Connection
  /\ connecting[mSocketfd[c]] = None
  /\ Goto(c, "refused")
  /\ UNCHANGED <<mServState, acceptor, streamKey, told, mixed, raced, kernel, maps, command>>

\* onStreamKey returns false and drops the client it has taken,
Refuse(c) ==
  /\ found' = [found EXCEPT ![c] = None]
  /\ asked' = [asked EXCEPT ![c] = None]
  /\ UNCHANGED <<acceptor, connecting, streams>>
  /\ Release(found[c])
  /\ Goto(c, "refused")

\* and ParseAMFObject disconnects its own.
Refused(c) ==
  /\ task[c] = "refused"
  /\ Disconnect({c})
  /\ Goto(c, "read")
  /\ UNCHANGED <<mServState, acceptor, streamKey, told, mixed, raced, sb, maps, command>>

\* The threads that have found key k free and have yet to take it.
Taking(k) == {c \in Connection : task[c] \in {"resume", "add"} /\ asked[c] = k}

\* Mutant: nobody looks whether the key is taken.
CheckKey_Unchecked(c) ==
  /\ task[c] = "check"
  /\ Goto(c, "resume")
  /\ raced' = IF Taking(asked[c]) = {} THEN raced ELSE raced \cup {asked[c]}
  /\ UNCHANGED <<mServState, acceptor, streamKey, told, mixed, kernel, maps, command>>

CheckKey(c) ==
  /\ task[c] = "check"
  /\ \/ /\ streams[asked[c]] = None
        /\ Goto(c, "resume")
        /\ raced' = IF Taking(asked[c]) = {} THEN raced ELSE raced \cup {asked[c]}
        /\ UNCHANGED <<acceptor, kernel, maps, command>>
     \/ /\ streams[asked[c]] # None
        /\ Refuse(c)
        /\ UNCHANGED <<raced, sb>>
  /\ UNCHANGED <<mServState, streamKey, told, mixed>>

\* MediaServer::onStreamKey: a key of the settings is resumed in mediasoup.
ResumeKey(c) ==
  /\ task[c] = "resume"
  /\ \/ /\ asked[c] \in Known
        /\ told' = [told EXCEPT ![asked[c]] = "resume"]
        /\ Goto(c, "add")
        /\ UNCHANGED <<acceptor, kernel, maps, command>>
     \/ /\ asked[c] \notin Known
        /\ Refuse(c)
        /\ UNCHANGED <<told, sb>>
  /\ UNCHANGED <<mServState, streamKey, mixed, raced>>

\* Nor does anybody look here.
AddStream(c) ==
  /\ task[c] = "add"
  /\ streams' = Added(streams, asked[c], found[c])
  /\ streamKey' = [streamKey EXCEPT ![c] = asked[c]]
  /\ found' = [found EXCEPT ![c] = None]
  /\ asked' = [asked EXCEPT ![c] = None]
  /\ UNCHANGED <<acceptor, connecting>>
  /\ Release(found[c])
  /\ Goto(c, "read")
  /\ UNCHANGED <<mServState, told, mixed, raced, sb>>

-----------------------------------------------------------------------------
(* onClosed, at the end of the thread. *)

\* Mutant: a connection pauses after another may have taken the key.
PauseKey_Late(c) ==
  \/ /\ task[c] = "closed"
     /\ Goto(c, "leave")
     /\ UNCHANGED <<mServState, acceptor, streamKey, told, mixed, raced, kernel, maps, command>>
  \/ /\ task[c] = "forget" /\ streamKey[c] # None
     /\ told' = [told EXCEPT ![streamKey[c]] = "pause"]
     /\ UNCHANGED <<mServState, acceptor, task, streamKey, mixed, raced, kernel, maps, command>>

PauseKey(c) ==
  /\ task[c] = "closed"
  /\ told' = IF streamKey[c] = None THEN told ELSE [told EXCEPT ![streamKey[c]] = "pause"]
  /\ Goto(c, "leave")
  /\ UNCHANGED <<mServState, acceptor, streamKey, mixed, raced, kernel, maps, command>>

\* Whatever client is there under the key.
LeaveStreams(c) ==
  /\ task[c] = "leave"
  /\ UNCHANGED <<acceptor, connecting, command>>
  /\ \/ /\ streamKey[c] # None
        /\ streams' = Removed(streams, streamKey[c])
        /\ Release(streams[streamKey[c]])
     \/ /\ streamKey[c] = None
        /\ UNCHANGED <<streams, destroyed, owner, mSocketfd>>
  /\ Goto(c, "forget")
  /\ UNCHANGED <<mServState, streamKey, told, mixed, raced, sb>>

\* Mutant: only those with a key are taken out of a map.
LeaveConnecting_Keyed(c) ==
  /\ task[c] = "forget"
  /\ Goto(c, "done")
  /\ UNCHANGED <<mServState, acceptor, streamKey, told, mixed, raced, kernel, maps, command>>

\* Whatever client is there under the number.
LeaveConnecting(c) ==
  /\ task[c] = "forget"
  /\ connecting' = Removed(connecting, mSocketfd[c])
  /\ UNCHANGED <<acceptor, streams, command>>
  /\ Release(connecting[mSocketfd[c]])
  /\ Goto(c, "done")
  /\ UNCHANGED <<mServState, streamKey, told, mixed, raced, sb>>

-----------------------------------------------------------------------------
ThreadStep(c) ==
  \/ Serves(c) \/ NotServed(c) \/ Handshake(c) \/ EndRtmp(c) \/ RTMP_Close(c)
  \/ \E k \in Key : TakeConnecting(c, k)
  \/ NotConnecting(c) \/ Refused(c)
  \/ CheckKey(c) \/ ResumeKey(c) \/ AddStream(c)
  \/ PauseKey(c) \/ LeaveStreams(c) \/ LeaveConnecting(c)

Next ==
  \/ Listen
  \/ \E c \in Connection :
       \/ \E d \in Descriptor : Accept(c, d)
       \/ AcceptZero(c) \/ AddConnecting(c)
       \/ StartThread(c) \/ EndAccept(c)
       \/ ThreadStep(c)

Spec == Init /\ [][Next]_vars

-----------------------------------------------------------------------------
(* Properties. *)

\* The thread sends the media it reads under its key.
Publishes(c) == task[c] = "read" /\ streamKey[c] # None

\* Between two connections that publish one key there is always the end of the
\* first: a key that is taken is refused (RTMPServer.cc:133), unless two threads
\* are between the test and the insertion at once.  However descriptors are
\* mixed up, this goes by keys alone.
OnePublisher ==
  \A c, d \in Connection :
    Publishes(c) /\ Publishes(d) /\ c # d /\ streamKey[c] = streamKey[d] =>
      streamKey[c] \in raced

\* While a key is published, resume is what was last called for it: the pause
\* by the connection that had the key before never comes after.  And the
\* connection is the one in the map, with a client that exists and a socket that
\* is its own (if it has not disconnected), unless numbers were mixed up.
PublisherIsServed ==
  \A c \in Connection :
    Publishes(c) /\ streamKey[c] \notin raced =>
      /\ told[streamKey[c]] = "resume"
      /\ c \notin mixed =>
           /\ streams[streamKey[c]] = c /\ c \notin destroyed
           /\ mSocketfd[c] # Zero => owner[mSocketfd[c]] = c

\* The connection has a key, and its thread has yet to give it up.
Holds(c, k) ==
  /\ streamKey[c] = k /\ k # None
  /\ task[c] \notin {"forget", "done"}

\* No key stays taken and no socket stays open: the client in the map under a key
\* has a thread that will still take it out, and one whose thread is done is in no
\* map and has no socket.  Where numbers were mixed up this fails for good.
NothingStays ==
  /\ \A k \in Key : streams[k] \in Connection \ mixed => Holds(streams[k], k)
  /\ \A c \in Connection \ mixed : task[c] = "done" /\ acceptor # c =>
       /\ ~Held(c)
       /\ \A n \in Number : owner[n] # c

-----------------------------------------------------------------------------
(* What StreamKeys promises of each key. *)

Holders(k) == Taking(k) \cup {c \in Connection : Holds(c, k)}

KeyHolder(k) ==
  IF k \in raced \/ Holders(k) = {} THEN None ELSE CHOOSE c \in Holders(k) : TRUE

KeyPhase(k) ==
  LET c == KeyHolder(k) IN
  IF k \in raced THEN "shared"
  ELSE IF c = None THEN IF streams[k] = None THEN "free" ELSE "lost"
  ELSE IF c \in Taking(k) THEN IF task[c] = "resume" THEN "taken" ELSE "resumed"
  ELSE IF task[c] = "leave" THEN "paused" ELSE "held"

Promise == INSTANCE StreamKeys
             WITH phase  <- [k \in Key |-> KeyPhase(k)],
                  holder <- [k \in Key |-> KeyHolder(k)]

\* The connections' threads, each locking one map at a time and calling mediasoup
\* in between, take every key in turn: one holder, resume called before it
\* publishes, pause before the key is free again, and nothing said out of turn.
ImplementsStreamKeys == Promise!Spec

-----------------------------------------------------------------------------
(* The inductive invariant. *)

\* What the threads know, by where they are.
Locals ==
  \A c \in Connection :
    /\ (found[c] # None) <=> task[c] \in {"check", "resume", "add"}
    /\ (asked[c] # None) <=> task[c] \in {"check", "resume", "add"}
    /\ (sb[c] # None) <=>
         task[c] \in {"serve", "read", "check", "resume", "add", "refused", "close"}
    /\ streamKey[c] # None =>
         task[c] \in {"read", "check", "resume", "add", "refused", "close", "closed",
                      "leave", "forget", "done"}

\* Connections that have no thread yet, or never will.
Early ==
  /\ \A c \in Connection :
       /\ task[c] \in {"none", "ignored"} =>
            mSocketfd[c] = Zero /\ c \notin destroyed /\ ~Held(c)
       /\ task[c] \in {"accepted", "added"} => acceptor = c /\ mSocketfd[c] # Zero
       /\ task[c] = "none" => \A n \in Number : owner[n] # c
  /\ owner[Zero] \in Connection => task[owner[Zero]] = "ignored"

\* A client exists exactly as long as something refers to it.
References ==
  \A c \in Connection :
    /\ c \in destroyed => ~Held(c) /\ mSocketfd[c] = Zero
    /\ ~Held(c) /\ task[c] \notin {"none", "ignored"} => c \in destroyed

\* Under a number there is a client with that number, and not after its thread has
\* taken it out.
ConnectingShape ==
  \A n \in Number : connecting[n] \in Connection =>
    /\ n # Zero /\ mSocketfd[connecting[n]] = n
    /\ task[connecting[n]] \notin {"check", "resume", "add", "refused", "done"}

\* Who takes or holds a key that is not raced for has it alone.
KeyShape ==
  \A k \in Key \ raced :
    /\ \A c, d \in Connection : Holds(c, k) /\ Holds(d, k) => c = d
    /\ \A c, d \in Taking(k) : c = d
    /\ \A c \in Connection : Holds(c, k) =>
         /\ streams[k] # None
         /\ task[c] # "leave" => told[k] = "resume"
    /\ \A c \in Taking(k) :
         /\ streams[k] = None
         /\ task[c] = "add" => told[k] = "resume"

\* A connection that shares no number is alone in using its own;
AloneInUse(c) ==
  \A x \in Connection : \A d \in Descriptor :
    c \in InUse(d) /\ x \in InUse(d) => x = c

\* its socket is open to nobody else, and until its thread has closed it, to it;
OwnsSocket(c) ==
  /\ \A d \in Descriptor : c \in InUse(d) => owner[d] \in {c, None}
  /\ \A n \in Number : owner[n] = c => mSocketfd[c] = n
  /\ mSocketfd[c] # Zero /\ task[c] \notin {"closed", "leave", "forget", "done"} =>
       owner[mSocketfd[c]] = c

\* it is in the map until its thread reads.
IsConnecting(c) ==
  /\ sb[c] # None => sb[c] # Zero /\ mSocketfd[c] \in {sb[c], Zero}
  /\ task[c] \in {"added", "failed", "select", "serve"} =>
       connecting[mSocketfd[c]] = c

NumberShape ==
  \A c \in Connection \ mixed : AloneInUse(c) /\ OwnsSocket(c) /\ IsConnecting(c)

\* Its thread handles its own client and no other does, and its key is that of
\* its entry.
OwnShape ==
  \A c \in Connection \ mixed :
    /\ found[c] \in {c, None}
    /\ \A x \in Connection : found[x] = c => x = c
    /\ streamKey[c] # None =>
         /\ found[c] = None
         /\ \A n \in Number : connecting[n] # c
    /\ \A k \in Key : streams[k] = c => Holds(c, k)
    /\ \A k \in Key \ raced : Holds(c, k) => streams[k] = c

IInv ==
  /\ TypeOK
  /\ Locals /\ Early /\ References /\ ConnectingShape
  /\ KeyShape /\ NumberShape /\ OwnShape
=============================================================================
