------------------------- MODULE RtmpServer_proofs -------------------------
(***************************************************************************)
(* Theorems about RtmpServer, for any connections, descriptors and keys:   *)
(* IInv is inductive.                                                      *)
(***************************************************************************)
EXTENDS RtmpServer, TLAPS

-----------------------------------------------------------------------------
(* What the release of a reference does. *)

\* Sockets are closed, and only by clients that are refused or that nothing holds
\* any more.
Closes(refused) ==
  /\ mSocketfd' \in [Connection -> Number]
  /\ owner' \in [Number -> Connection \cup {None, Zero}]
  /\ \A x \in Connection :
       mSocketfd'[x] # mSocketfd[x] =>
         /\ mSocketfd'[x] = Zero /\ owner'[mSocketfd[x]] = None
         /\ x \in refused \/ ~Held(x)'
  /\ \A n \in Number :
       owner'[n] # owner[n] =>
         /\ n # Zero /\ owner'[n] = None
         /\ \E x \in Connection : mSocketfd[x] = n /\ mSocketfd'[x] = Zero

LEMMA DisconnectFacts ==
  ASSUME TypeOK, NEW C \in SUBSET Connection, Disconnect(C)
  PROVE  /\ Closes(C)
         /\ \A x \in C : mSocketfd'[x] = Zero
<1>1. mSocketfd' \in [Connection -> Number]
  BY DEF TypeOK, Disconnect, Number
<1>2. owner' \in [Number -> Connection \cup {None, Zero}]
  BY DEF TypeOK, Disconnect
<1>3. \A x \in Connection :
        mSocketfd'[x] # mSocketfd[x] =>
          mSocketfd'[x] = Zero /\ owner'[mSocketfd[x]] = None /\ x \in C
  BY DEF TypeOK, Disconnect
<1>4. \A n \in Number :
        owner'[n] # owner[n] =>
          /\ n # Zero /\ owner'[n] = None
          /\ \E x \in Connection : mSocketfd[x] = n /\ mSocketfd'[x] = Zero
  BY DEF TypeOK, Disconnect
<1>5. \A x \in C : mSocketfd'[x] = Zero
  BY DEF Disconnect
<1> QED BY <1>1, <1>2, <1>3, <1>4, <1>5 DEF Closes

LEMMA ReleaseFacts ==
  ASSUME TypeOK, NEW o \in Connection \cup {None}, NEW R \in SUBSET Connection,
         destroyed' = destroyed \cup Gone(o), Disconnect(Gone(o) \cup R)
  PROVE  /\ Closes(R)
         /\ \A x \in R : mSocketfd'[x] = Zero
         /\ destroyed' \subseteq Connection
         /\ destroyed \subseteq destroyed'
         /\ \A x \in destroyed' :
              x \in destroyed \/ (x = o /\ ~Held(x)' /\ mSocketfd'[x] = Zero)
         /\ o # None /\ ~Held(o)' => o \in destroyed'
<1>1. /\ Gone(o) \in SUBSET Connection
      /\ \A x \in Gone(o) : x = o /\ ~Held(x)'
      /\ o # None /\ ~Held(o)' => o \in Gone(o)
  BY DEF Gone
<1>2. /\ Closes(Gone(o) \cup R)
      /\ \A x \in Gone(o) \cup R : mSocketfd'[x] = Zero
  BY <1>1, DisconnectFacts
<1>3. Closes(R)
  BY <1>1, <1>2 DEF Closes
<1> QED BY <1>1, <1>2, <1>3 DEF TypeOK

-----------------------------------------------------------------------------
(* IInv is inductive. *)

LEMMA InitInv == Init => IInv
<1> SUFFICES ASSUME Init PROVE IInv
  OBVIOUS
<1>1. TypeOK
  BY RtmpAssumption DEF Init, TypeOK, Number, Tasks
<1>2. \A c \in Connection : ~Held(c)
  BY RtmpAssumption DEF Init, Held
<1>3. Locals /\ Early
  BY <1>2, RtmpAssumption DEF Init, Locals, Early, Number
<1>4. References
  BY <1>2, RtmpAssumption DEF Init, References
<1>5. ConnectingShape
  BY RtmpAssumption DEF Init, ConnectingShape
<1>6. KeyShape
  BY RtmpAssumption DEF Init, KeyShape, Holds, Taking
<1>7. NumberShape
  BY RtmpAssumption DEF Init, NumberShape, AloneInUse, OwnsSocket, IsConnecting, InUse, Number
<1>8. OwnShape
  BY RtmpAssumption DEF Init, OwnShape, Holds
<1> QED BY <1>1, <1>3, <1>4, <1>5, <1>6, <1>7, <1>8 DEF IInv
\* Nothing has changed of what holds the clients.
LEMMA HeldSame ==
  ASSUME UNCHANGED <<acceptor, found, connecting, streams>>
  PROVE  \A x \in Connection : Held(x)' <=> Held(x)
BY DEF Held

\* Two clients with one number are mixed up.
LEMMA AloneInNumber ==
  ASSUME TypeOK, NumberShape, NEW c \in Connection \ mixed, NEW x \in Connection,
         mSocketfd[c] # Zero,
         mSocketfd[x] = mSocketfd[c] \/ sb[x] = mSocketfd[c]
  PROVE  x = c
<1>1. mSocketfd[c] \in Descriptor
  BY DEF TypeOK, Number
<1>2. c \in InUse(mSocketfd[c]) /\ x \in InUse(mSocketfd[c])
  BY DEF InUse
<1> QED BY <1>1, <1>2 DEF NumberShape, AloneInUse

LEMMA ListenInv ==
  ASSUME IInv, Listen
  PROVE  IInv'
<1> USE DEF IInv, Listen, kernel, maps, command
<1>1. TypeOK'
  BY DEF TypeOK
<1>2. \A x \in Connection : Held(x)' <=> Held(x)
  BY HeldSame
<1>3. Locals' /\ Early' /\ References'
  BY <1>2 DEF Locals, Early, References
<1>4. ConnectingShape' /\ KeyShape'
  BY DEF ConnectingShape, KeyShape, Holds, Taking
<1>5. NumberShape' /\ OwnShape'
  BY DEF NumberShape, AloneInUse, OwnsSocket, IsConnecting, InUse, OwnShape, Holds
<1> QED BY <1>1, <1>3, <1>4, <1>5

\* The steps that only take a thread on.
LEMMA GotoInv ==
  ASSUME IInv, NEW c \in Connection,
         \/ StartThread(c) \/ NotServed(c) \/ Handshake(c) \/ EndRtmp(c)
         \/ NotConnecting(c)
  PROVE  IInv'
<1> USE DEF IInv, Goto, kernel, maps, command
<1> USE DEF StartThread, NotServed, Handshake, EndRtmp, NotConnecting
<1>1. TypeOK'
  BY DEF TypeOK, Tasks
<1>2. \A x \in Connection : Held(x)' <=> Held(x)
  BY HeldSame
<1>3. Locals' /\ Early'
  BY <1>2 DEF Locals, Early, TypeOK
<1>4. References'
  BY <1>2 DEF References, TypeOK
<1>5. ConnectingShape'
  <2>1. task'[c] = "refused" => \A n \in Number : connecting[n] # c
    BY RtmpAssumption DEF ConnectingShape, TypeOK
  <2>2. task'[c] \notin {"check", "resume", "add", "done"}
    BY DEF TypeOK
  <2>3. \A x \in Connection : x # c => task'[x] = task[x]
    BY DEF TypeOK
  <2>4. UNCHANGED <<connecting, mSocketfd>>
    OBVIOUS
  <2> QED BY <2>1, <2>2, <2>3, <2>4 DEF ConnectingShape
<1>6. KeyShape'
  <2>1. /\ \A x \in Connection, q \in Key : Holds(x, q)' <=> Holds(x, q)
        /\ \A q \in Key : Taking(q)' = Taking(q)
    BY DEF Holds, Taking, TypeOK
  <2>2. \A x \in Connection : task'[x] = "add" <=> task[x] = "add"
    BY DEF TypeOK
  <2>3. \A x \in Connection : task'[x] = "leave" <=> task[x] = "leave"
    BY DEF TypeOK
  <2>4. \A q \in Key : Taking(q) \subseteq Connection
    BY DEF Taking
  <2>5. UNCHANGED <<streams, told, raced>>
    OBVIOUS
  <2> QED BY <2>1, <2>2, <2>3, <2>4, <2>5 DEF KeyShape
<1>7. NumberShape'
  BY DEF NumberShape, AloneInUse, OwnsSocket, IsConnecting, TypeOK, InUse
<1>8. OwnShape'
  BY DEF OwnShape, TypeOK, Holds
<1> QED BY <1>1, <1>3, <1>4, <1>5, <1>6, <1>7, <1>8

LEMMA AcceptInv ==
  ASSUME IInv, NEW c \in Connection, NEW d \in Descriptor, Accept(c, d)
  PROVE  IInv'
<1> USE DEF IInv, Accept, Goto, kernel, maps, command
<1> d \in Number /\ d # Zero /\ d # None /\ c # None
  BY RtmpAssumption DEF Number
<1>1. TypeOK'
  <2>1. InUse(d) \subseteq Connection
    BY DEF InUse
  <2>2. mixed' \subseteq Connection
    BY <2>1 DEF TypeOK
  <2>3. /\ task' \in [Connection -> Tasks]
        /\ mSocketfd' \in [Connection -> Number]
        /\ owner' \in [Number -> Connection \cup {None, Zero}]
    BY DEF TypeOK, Tasks
  <2> QED BY <2>2, <2>3 DEF TypeOK
<1>2. \A x \in Connection : Held(x)' <=> Held(x) \/ x = c
  BY RtmpAssumption DEF Held, TypeOK
<1>3. Locals' /\ Early'
  BY <1>2, RtmpAssumption DEF Locals, Early, TypeOK
<1>4. References'
  BY <1>2 DEF References, Locals, Early, TypeOK
<1>5. ConnectingShape'
  <2>1. \A n \in Number : connecting[n] # c
    BY DEF Locals, Early, Held
  <2> QED BY <2>1 DEF ConnectingShape, TypeOK
<1>6. KeyShape'
  BY DEF KeyShape, TypeOK, Holds, Taking
<1>7. NumberShape'
  <2> SUFFICES ASSUME NEW o \in Connection \ mixed'
      PROVE  AloneInUse(o)' /\ OwnsSocket(o)' /\ IsConnecting(o)'
    BY DEF NumberShape
  <2>1. AloneInUse(o) /\ OwnsSocket(o) /\ IsConnecting(o)
    BY DEF NumberShape
  <2>2. owner[d] = None /\ mSocketfd[c] = Zero /\ sb[c] = None
    BY DEF Locals, Early
  <2>3. o \notin InUse(d) /\ (o = c => InUse(d) = {})
    OBVIOUS
  <2>4. AloneInUse(o)'
    BY <2>1, <2>2, <2>3, RtmpAssumption DEF AloneInUse, InUse, TypeOK
  <2>5. OwnsSocket(o)'
    <3>1. \A n \in Number : owner[n] # c
      BY DEF Locals, Early
    <3> QED BY <2>1, <2>2, <2>3, <3>1, RtmpAssumption DEF OwnsSocket, InUse, TypeOK, Number
  <2>6. IsConnecting(o)'
    BY <2>1, <2>2 DEF IsConnecting, TypeOK
  <2> QED BY <2>4, <2>5, <2>6
<1>8. OwnShape'
  BY DEF OwnShape, TypeOK, Holds
<1> QED BY <1>1, <1>3, <1>4, <1>5, <1>6, <1>7, <1>8

LEMMA AcceptZeroInv ==
  ASSUME IInv, NEW c \in Connection, AcceptZero(c)
  PROVE  IInv'
<1> USE DEF IInv, AcceptZero, Goto, kernel, maps, command
<1> Zero \in Number /\ c # None /\ c # Zero
  BY RtmpAssumption DEF Number
<1>1. TypeOK'
  BY DEF TypeOK, Tasks
<1>2. \A x \in Connection : Held(x)' <=> Held(x)
  BY HeldSame
<1>3. Locals' /\ Early'
  BY <1>2, RtmpAssumption DEF Locals, Early, TypeOK
<1>4. References'
  BY <1>2 DEF References, TypeOK
<1>5. ConnectingShape'
  BY DEF ConnectingShape, TypeOK
<1>6. KeyShape'
  BY DEF KeyShape, TypeOK, Holds, Taking
<1>7. NumberShape'
  <2> SUFFICES ASSUME NEW o \in Connection \ mixed'
      PROVE  AloneInUse(o)' /\ OwnsSocket(o)' /\ IsConnecting(o)'
    BY DEF NumberShape
  <2>1. AloneInUse(o) /\ OwnsSocket(o) /\ IsConnecting(o)
    BY DEF NumberShape
  <2>2. AloneInUse(o)' /\ IsConnecting(o)'
    BY <2>1 DEF AloneInUse, IsConnecting, InUse, TypeOK
  <2>3. OwnsSocket(o)'
    <3>1. \A n \in Number : owner'[n] = c => n = Zero
      BY DEF Locals, Early, TypeOK
    <3>2. mSocketfd[c] = Zero /\ sb[c] = None
      BY DEF Locals, Early
    <3> QED BY <2>1, <3>1, <3>2, RtmpAssumption DEF OwnsSocket, InUse, TypeOK, Number
  <2> QED BY <2>2, <2>3
<1>8. OwnShape'
  BY DEF OwnShape, TypeOK, Holds
<1> QED BY <1>1, <1>3, <1>4, <1>5, <1>6, <1>7, <1>8

LEMMA AddConnectingInv ==
  ASSUME IInv, NEW c \in Connection, AddConnecting(c)
  PROVE  IInv'
<1> USE DEF IInv, AddConnecting, Goto, kernel, maps, command
<1> DEFINE d == mSocketfd[c]
<1>0. /\ d \in Number /\ d # Zero /\ c # None /\ streamKey[c] = None
      /\ sb[c] = None /\ found[c] = None
  BY RtmpAssumption DEF Locals, Early, TypeOK
<1>1. /\ connecting' \in [Number -> Connection \cup {None}]
      /\ \A n \in Number : connecting'[n] # connecting[n] =>
           n = d /\ connecting[n] = None /\ connecting'[n] = c
      /\ connecting'[d] # None
  BY <1>0 DEF Added, TypeOK
<1>2. TypeOK'
  BY <1>1 DEF TypeOK, Tasks
<1>3. \A x \in Connection : Held(x)' <=> Held(x)
  <2>1. \A x \in Connection : (\E n \in Number : connecting'[n] = x) =>
          x = acceptor \/ \E n \in Number : connecting[n] = x
    BY <1>1 DEF Locals, Early
  <2>2. \A x \in Connection : (\E n \in Number : connecting[n] = x) =>
          \E n \in Number : connecting'[n] = x
    BY <1>1, RtmpAssumption
  <2> QED BY <2>1, <2>2 DEF Held
<1>4. Locals' /\ Early'
  BY <1>3, RtmpAssumption DEF Locals, Early, TypeOK
<1>5. References'
  BY <1>3 DEF References, TypeOK
<1>6. ConnectingShape'
  BY <1>0, <1>1 DEF ConnectingShape, TypeOK
<1>7. KeyShape'
  BY DEF KeyShape, TypeOK, Holds, Taking
<1>8. NumberShape'
  <2> SUFFICES ASSUME NEW o \in Connection \ mixed'
      PROVE  AloneInUse(o)' /\ OwnsSocket(o)' /\ IsConnecting(o)'
    BY DEF NumberShape
  <2>1. AloneInUse(o) /\ OwnsSocket(o) /\ IsConnecting(o)
    BY DEF NumberShape
  <2>2. AloneInUse(o)' /\ OwnsSocket(o)'
    BY <2>1 DEF AloneInUse, OwnsSocket, InUse, TypeOK
  <2>3. IsConnecting(o)'
    <3>1. CASE o = c
      <4>1. connecting'[d] \in Connection /\ mSocketfd[connecting'[d]] = d
        BY <1>0, <1>1 DEF ConnectingShape, TypeOK
      <4>2. connecting'[d] = c
        BY <1>0, <3>1, <4>1, AloneInNumber
      <4> QED BY <1>0, <3>1, <4>2 DEF IsConnecting
    <3>2. CASE o # c
      <4>1. mSocketfd[o] \in Number
        BY DEF TypeOK
      <4>2. task'[o] = task[o]
        BY <3>2 DEF TypeOK
      <4> QED BY <1>1, <2>1, <4>1, <4>2, RtmpAssumption DEF IsConnecting
    <3> QED BY <3>1, <3>2
  <2> QED BY <2>2, <2>3
<1>9. OwnShape'
  BY <1>0, <1>1 DEF OwnShape, TypeOK, Holds
<1> QED BY <1>2, <1>4, <1>5, <1>6, <1>7, <1>8, <1>9

LEMMA ServesInv ==
  ASSUME IInv, NEW c \in Connection, Serves(c)
  PROVE  IInv'
<1> USE DEF IInv, Serves, Goto, kernel, maps, command
<1>1. TypeOK'
  BY DEF TypeOK, Tasks
<1>2. \A x \in Connection : Held(x)' <=> Held(x)
  BY HeldSame
<1>3. Locals' /\ Early'
  BY <1>2, RtmpAssumption DEF Locals, Early, TypeOK, Number
<1>4. References'
  BY <1>2 DEF References, TypeOK
<1>5. ConnectingShape'
  BY DEF ConnectingShape, TypeOK
<1>6. KeyShape'
  BY DEF KeyShape, TypeOK, Holds, Taking
<1>7. NumberShape'
  <2> SUFFICES ASSUME NEW o \in Connection \ mixed'
      PROVE  AloneInUse(o)' /\ OwnsSocket(o)' /\ IsConnecting(o)'
    BY DEF NumberShape
  <2>1. AloneInUse(o) /\ OwnsSocket(o) /\ IsConnecting(o)
    BY DEF NumberShape
  <2>2. \A d \in Number : InUse(d)' \subseteq InUse(d)
    BY DEF InUse, TypeOK
  <2>3. AloneInUse(o)'
    BY <2>1, <2>2 DEF AloneInUse, Number
  <2>4. OwnsSocket(o)'
    BY <2>1, <2>2 DEF OwnsSocket, Number, TypeOK
  <2>5. IsConnecting(o)'
    <3>1. CASE o = c
      <4>1. mSocketfd[c] \in Number /\ mSocketfd[c] # Zero
        BY <2>1, <3>1 DEF IsConnecting, ConnectingShape, TypeOK
      <4> QED BY <2>1, <3>1, <4>1 DEF IsConnecting, TypeOK
    <3>2. CASE o # c
      BY <2>1, <3>2 DEF IsConnecting, TypeOK
    <3> QED BY <3>1, <3>2
  <2> QED BY <2>3, <2>4, <2>5
<1>8. OwnShape'
  BY DEF OwnShape, TypeOK, Holds
<1> QED BY <1>1, <1>3, <1>4, <1>5, <1>6, <1>7, <1>8

LEMMA RTMP_CloseInv ==
  ASSUME IInv, NEW c \in Connection, RTMP_Close(c)
  PROVE  IInv'
<1> USE DEF IInv, RTMP_Close, Goto, kernel, maps, command
<1>0. sb[c] \in Number
  BY DEF Locals, Early, TypeOK
<1>1. TypeOK'
  BY <1>0 DEF TypeOK, Tasks
<1>2. \A x \in Connection : Held(x)' <=> Held(x)
  BY HeldSame
<1>3. Locals' /\ Early'
  BY <1>2, RtmpAssumption DEF Locals, Early, TypeOK, Number
<1>4. References'
  BY <1>2 DEF References, TypeOK
<1>5. ConnectingShape'
  BY DEF ConnectingShape, TypeOK
<1>6. KeyShape'
  BY DEF KeyShape, TypeOK, Holds, Taking
<1>7. NumberShape'
  <2> SUFFICES ASSUME NEW o \in Connection \ mixed'
      PROVE  AloneInUse(o)' /\ OwnsSocket(o)' /\ IsConnecting(o)'
    BY DEF NumberShape
  <2>1. AloneInUse(o) /\ OwnsSocket(o) /\ IsConnecting(o)
    BY DEF NumberShape
  <2>2. \A d \in Number : InUse(d)' \subseteq InUse(d)
    BY RtmpAssumption DEF InUse, TypeOK, Number
  <2>3. AloneInUse(o)'
    BY <2>1, <2>2 DEF AloneInUse, Number
  <2>4. OwnsSocket(o)'
    <3>1. mSocketfd[o] # Zero /\ sb[c] = mSocketfd[o] => c = o
      BY AloneInNumber
    <3> QED BY <1>0, <2>1, <2>2, <3>1, RtmpAssumption DEF OwnsSocket, Number, TypeOK
  <2>5. IsConnecting(o)'
    BY <2>1 DEF IsConnecting, TypeOK
  <2> QED BY <2>3, <2>4, <2>5
<1>8. OwnShape'
  BY DEF OwnShape, TypeOK, Holds
<1> QED BY <1>1, <1>3, <1>4, <1>5, <1>6, <1>7, <1>8

LEMMA TakeConnectingInv ==
  ASSUME IInv, NEW c \in Connection, NEW k \in Key, TakeConnecting(c, k)
  PROVE  IInv'
<1> USE DEF IInv, TakeConnecting, Goto, kernel, maps, command
<1> DEFINE d == mSocketfd[c]
           o == connecting[d]
<1>0. /\ d \in Number /\ o \in Connection /\ d # Zero /\ mSocketfd[o] = d
      /\ k # None /\ o # None /\ found[c] = None /\ c \in Connection
  BY RtmpAssumption DEF Locals, Early, TypeOK, ConnectingShape
<1>1. /\ connecting' \in [Number -> Connection \cup {None}]
      /\ connecting'[d] = None
      /\ \A n \in Number : n # d => connecting'[n] = connecting[n]
  BY <1>0 DEF Removed, TypeOK
<1>2. /\ found' \in [Connection -> Connection \cup {None}] /\ found'[c] = o
      /\ \A x \in Connection : x # c => found'[x] = found[x]
  BY <1>0 DEF TypeOK
<1>3. TypeOK'
  BY <1>1, <1>2 DEF TypeOK, Tasks
<1>4. \A x \in Connection : Held(x)' <=> Held(x)
  <2>1. \A x \in Connection : (\E n \in Number : connecting'[n] = x) =>
          \E n \in Number : connecting[n] = x
    BY <1>1, RtmpAssumption
  <2>2. \A x \in Connection : (\E n \in Number : connecting[n] = x) =>
          x = found'[c] \/ \E n \in Number : connecting'[n] = x
    BY <1>1, <1>2
  <2>3. \A x \in Connection : (\E y \in Connection : found'[y] = x) =>
          \/ \E y \in Connection : found[y] = x
          \/ \E n \in Number : connecting[n] = x
    BY <1>0, <1>2
  <2>4. \A x \in Connection : (\E y \in Connection : found[y] = x) =>
          \E y \in Connection : found'[y] = x
    BY <1>0, <1>2, RtmpAssumption
  <2> QED BY <2>1, <2>2, <2>3, <2>4, <1>0, RtmpAssumption DEF Held
<1>5. Locals' /\ Early'
  BY <1>0, <1>2, <1>4, RtmpAssumption DEF Locals, Early, TypeOK
<1>6. References'
  BY <1>4 DEF References, TypeOK
<1>7. ConnectingShape'
  BY <1>0, <1>1, RtmpAssumption DEF ConnectingShape, TypeOK
<1>8. KeyShape'
  BY DEF KeyShape, TypeOK, Holds, Taking
<1>9. \A x \in Connection \ mixed : c = x \/ o = x => o = c
  BY <1>0, AloneInNumber
<1>10. NumberShape'
  <2> SUFFICES ASSUME NEW x \in Connection \ mixed'
      PROVE  AloneInUse(x)' /\ OwnsSocket(x)' /\ IsConnecting(x)'
    BY DEF NumberShape
  <2>1. AloneInUse(x) /\ OwnsSocket(x) /\ IsConnecting(x)
    BY DEF NumberShape
  <2>2. AloneInUse(x)' /\ OwnsSocket(x)'
    BY <2>1 DEF AloneInUse, OwnsSocket, InUse, TypeOK
  <2>3. mSocketfd[x] \in Number /\ (task'[x] = task[x] \/ task'[x] = "check")
    BY DEF TypeOK
  <2>4. IsConnecting(x)'
    BY <1>0, <1>1, <1>9, <2>1, <2>3 DEF IsConnecting
  <2> QED BY <2>2, <2>4
<1>11. OwnShape'
  <2>1. \A x \in Connection : Holds(x, streamKey[x])' <=> Holds(x, streamKey[x])
    BY DEF Holds, TypeOK
  <2>2. \A x \in Connection, q \in Key : Holds(x, q)' <=> Holds(x, q)
    BY DEF Holds, TypeOK
  <2>3. c \in Connection \ mixed => streamKey[c] = None
    BY <1>0, <1>9 DEF OwnShape
  <2> QED BY <1>0, <1>1, <1>2, <1>9, <2>2, <2>3, RtmpAssumption DEF OwnShape
<1> QED BY <1>3, <1>5, <1>6, <1>7, <1>8, <1>10, <1>11

LEMMA PauseKeyInv ==
  ASSUME IInv, NEW c \in Connection, PauseKey(c)
  PROVE  IInv'
<1> USE DEF IInv, PauseKey, Goto, kernel, maps, command
<1>1. TypeOK'
  BY DEF TypeOK, Tasks
<1>2. \A x \in Connection : Held(x)' <=> Held(x)
  BY HeldSame
<1>3. Locals' /\ Early'
  BY <1>2 DEF Locals, Early, TypeOK
<1>4. References'
  BY <1>2 DEF References, TypeOK
<1>5. ConnectingShape'
  BY DEF ConnectingShape, TypeOK
<1>6. KeyShape'
  BY DEF KeyShape, TypeOK, Holds, Taking
<1>7. NumberShape'
  BY DEF NumberShape, AloneInUse, OwnsSocket, IsConnecting, TypeOK, InUse
<1>8. OwnShape'
  BY DEF OwnShape, TypeOK, Holds
<1> QED BY <1>1, <1>3, <1>4, <1>5, <1>6, <1>7, <1>8

-----------------------------------------------------------------------------
(* The steps that drop a reference. *)

\* What they have in common: thread c drops the one to o; those in R (c at most,
\* and only when it goes on to read) disconnect; nobody's entry is gained, and nobody's lost who
\* has yet to read.
Drops(c, o, R, t) ==
  /\ destroyed' = destroyed \cup Gone(o) /\ Disconnect(Gone(o) \cup R)
  /\ R \subseteq {c}
  /\ o # None => Held(o)
  /\ \A x \in Connection : Held(x)' => Held(x)
  /\ \A x \in Connection : Held(x) /\ x # o => Held(x)'
  /\ task' = [task EXCEPT ![c] = t]
  /\ t \in Tasks
  /\ {task[c], t} \cap {"none", "ignored", "accepted", "added"} = {}
  /\ task[c] \in {"closed", "leave", "forget", "done"} =>
       t \in {"closed", "leave", "forget", "done"}
  /\ t \in {"added", "failed", "select", "serve"} => task[c] = t
  /\ c \in R => t = "read"
  /\ \A x \in Connection : x # c /\ acceptor = x => acceptor' = x
  /\ UNCHANGED <<sb, mixed>>
  /\ connecting' \in [Number -> Connection \cup {None}]
  /\ \A n \in Number : connecting'[n] \in {connecting[n], None}
  /\ \A n \in Number : connecting'[n] = c =>
       c \notin R /\ (t = task[c] \/ t \notin {"check", "resume", "add", "refused", "done"})
  /\ \A x \in Connection \ mixed :
       task'[x] \in {"added", "failed", "select", "serve"} =>
         connecting'[mSocketfd[x]] = connecting[mSocketfd[x]]

LEMMA ClosesKeeps ==
  ASSUME IInv, NEW R \in SUBSET Connection, Closes(R), UNCHANGED <<sb, mixed>>,
         NEW c \in Connection \ mixed,
         task[c] \in {"closed", "leave", "forget", "done"} =>
           task'[c] \in {"closed", "leave", "forget", "done"}
  PROVE  AloneInUse(c)' /\ OwnsSocket(c)'
<1> USE DEF IInv
<1>1. AloneInUse(c) /\ OwnsSocket(c)
  BY DEF NumberShape
<1>2. \A d \in Descriptor : InUse(d)' \subseteq InUse(d)
  BY RtmpAssumption DEF InUse, Closes
<1>3. AloneInUse(c)'
  BY <1>1, <1>2 DEF AloneInUse
<1>4. mSocketfd[c] # Zero /\ mSocketfd'[c] # Zero =>
        /\ mSocketfd'[c] = mSocketfd[c]
        /\ owner'[mSocketfd[c]] = owner[mSocketfd[c]]
  <2>1. mSocketfd[c] \in Number
    BY DEF TypeOK
  <2>2. \A x \in Connection :
          mSocketfd[c] # Zero /\ mSocketfd[x] = mSocketfd[c] => x = c
    BY AloneInNumber
  <2> QED BY <2>1, <2>2 DEF Closes
<1>5. mSocketfd'[c] # Zero => mSocketfd[c] # Zero
  BY DEF Closes
<1>6. \A n \in Number : owner'[n] \in {owner[n], None}
  BY DEF Closes
<1>7. \A d \in Descriptor : c \in InUse(d)' => owner'[d] \in {c, None}
  BY <1>1, <1>2, <1>6 DEF OwnsSocket, Number
<1>8. \A n \in Number : owner'[n] = c => mSocketfd'[c] = n
  BY <1>1, <1>6, RtmpAssumption DEF OwnsSocket, Closes
<1>9. mSocketfd'[c] # Zero /\ task'[c] \notin {"closed", "leave", "forget", "done"} =>
        owner'[mSocketfd'[c]] = c
  BY <1>1, <1>4, <1>5 DEF OwnsSocket
<1> QED BY <1>3, <1>7, <1>8, <1>9 DEF OwnsSocket

LEMMA DropKeeps ==
  ASSUME IInv, NEW c \in Connection, NEW o \in Connection \cup {None},
         NEW R \in SUBSET Connection, NEW t, Drops(c, o, R, t)
  PROVE  /\ mSocketfd' \in [Connection -> Number]
         /\ owner' \in [Number -> Connection \cup {None, Zero}]
         /\ destroyed' \subseteq Connection
         /\ task' \in [Connection -> Tasks]
         /\ \A x \in Connection : task'[x] = IF x = c THEN t ELSE task[x]
         /\ Early' /\ References' /\ ConnectingShape' /\ NumberShape'
<1> USE DEF IInv
<1>1. /\ Closes(R)
      /\ \A x \in R : mSocketfd'[x] = Zero
      /\ destroyed' \subseteq Connection
      /\ destroyed \subseteq destroyed'
      /\ \A x \in destroyed' :
           x \in destroyed \/ (x = o /\ ~Held(x)' /\ mSocketfd'[x] = Zero)
      /\ o # None /\ ~Held(o)' => o \in destroyed'
  BY ReleaseFacts DEF Drops
<1>2. /\ task' \in [Connection -> Tasks]
      /\ \A x \in Connection : task'[x] = IF x = c THEN t ELSE task[x]
  BY DEF Drops, TypeOK
<1>3. \A x \in Connection : mSocketfd'[x] # mSocketfd[x] =>
        mSocketfd'[x] = Zero /\ ((x = c /\ x \in R) \/ ~Held(x)')
  BY <1>1 DEF Closes, Drops
<1>4. \A n \in Number : owner'[n] \in {owner[n], None}
  BY <1>1 DEF Closes
<1>5. Early'
  <2>1. ASSUME NEW x \in Connection, task'[x] \in {"none", "ignored"}
        PROVE  mSocketfd'[x] = Zero /\ x \notin destroyed' /\ ~Held(x)'
    <3>1. task[x] = task'[x]
      BY <1>2, <2>1 DEF Drops
    <3>2. mSocketfd[x] = Zero /\ x \notin destroyed /\ ~Held(x)
      BY <2>1, <3>1 DEF Early
    <3>3. x # o
      BY <3>2, RtmpAssumption DEF Drops
    <3> QED BY <1>1, <1>3, <3>2, <3>3 DEF Drops
  <2>2. ASSUME NEW x \in Connection, task'[x] \in {"accepted", "added"}
        PROVE  acceptor' = x /\ mSocketfd'[x] # Zero
    <3>1. task[x] = task'[x] /\ x # c
      BY <1>2, <2>2 DEF Drops
    <3>2. acceptor = x /\ mSocketfd[x] # Zero
      BY <2>2, <3>1 DEF Early
    <3>3. acceptor' = x /\ Held(x)'
      BY <3>1, <3>2 DEF Drops, Held
    <3> QED BY <1>3, <3>1, <3>2, <3>3
  <2>3. ASSUME NEW x \in Connection, task'[x] = "none"
        PROVE  \A n \in Number : owner'[n] # x
    <3>1. task[x] = "none"
      BY <1>2, <2>3 DEF Drops
    <3> QED BY <1>4, <3>1, RtmpAssumption DEF Early
  <2>4. owner'[Zero] \in Connection => task'[owner'[Zero]] = "ignored"
    <3>1. owner'[Zero] \in Connection => owner'[Zero] = owner[Zero]
      BY <1>4, RtmpAssumption DEF Number
    <3> QED BY <1>2, <3>1 DEF Early, Drops
  <2> QED BY <2>1, <2>2, <2>3, <2>4 DEF Early
<1>6. References'
  <2>1. ASSUME NEW x \in Connection, x \in destroyed'
        PROVE  ~Held(x)' /\ mSocketfd'[x] = Zero
    BY <1>1, <1>3, <2>1 DEF References, Drops
  <2>2. ASSUME NEW x \in Connection, ~Held(x)', task'[x] \notin {"none", "ignored"}
        PROVE  x \in destroyed'
    <3>1. task[x] \notin {"none", "ignored"}
      BY <1>2, <2>2 DEF Drops
    <3>2. CASE Held(x)
      BY <1>1, <2>2, <3>2, RtmpAssumption DEF Drops
    <3>3. CASE ~Held(x)
      BY <1>1, <3>1, <3>3 DEF References
    <3> QED BY <3>2, <3>3
  <2> QED BY <2>1, <2>2 DEF References
<1>7. ConnectingShape'
  <2> SUFFICES ASSUME NEW n \in Number, NEW x \in Connection, connecting'[n] = x
      PROVE  /\ n # Zero /\ mSocketfd'[x] = n
             /\ task'[x] \notin {"check", "resume", "add", "refused", "done"}
    BY DEF ConnectingShape
  <2>1. x = connecting[n]
    BY RtmpAssumption DEF Drops
  <2>2. n # Zero /\ mSocketfd[x] = n /\ task[x] \notin {"check", "resume", "add", "refused", "done"}
    BY <2>1 DEF ConnectingShape
  <2>3. Held(x)' /\ (x = c => c \notin R)
    BY DEF Held, Drops
  <2>4. task'[x] \notin {"check", "resume", "add", "refused", "done"}
    BY <1>2, <2>2 DEF Drops
  <2> QED BY <1>3, <2>2, <2>3, <2>4
<1>8. NumberShape'
  <2> SUFFICES ASSUME NEW x \in Connection \ mixed
      PROVE  AloneInUse(x)' /\ OwnsSocket(x)' /\ IsConnecting(x)'
    BY DEF NumberShape, Drops
  <2>1. AloneInUse(x)' /\ OwnsSocket(x)'
    BY <1>1, <1>2, ClosesKeeps DEF Drops
  <2>2. IsConnecting(x)
    BY DEF NumberShape
  <2>3. sb'[x] # None => sb'[x] # Zero /\ mSocketfd'[x] \in {sb'[x], Zero}
    BY <1>3, <2>2 DEF IsConnecting, Drops
  <2>4. ASSUME task'[x] \in {"added", "failed", "select", "serve"}
        PROVE  connecting'[mSocketfd'[x]] = x
    <3>1. task[x] = task'[x] /\ x \notin R
      BY <1>2, <2>4 DEF Drops
    <3>2. connecting'[mSocketfd[x]] = x
      BY <2>2, <2>4, <3>1 DEF IsConnecting, Drops
    <3>3. Held(x)'
      BY <3>2 DEF Held, TypeOK, Drops
    <3> QED BY <1>3, <3>1, <3>2, <3>3
  <2> QED BY <2>1, <2>3, <2>4 DEF IsConnecting
<1> QED BY <1>1, <1>2, <1>5, <1>6, <1>7, <1>8 DEF Closes

LEMMA EndAcceptInv ==
  ASSUME IInv, NEW c \in Connection, EndAccept(c)
  PROVE  IInv'
<1> USE DEF IInv, EndAccept, command
<1>1. Drops(c, c, {}, task[c])
  <2>1. c # None
    BY RtmpAssumption
  <2>2. Held(c) /\ (\A x \in Connection : Held(x)' => Held(x))
    BY <2>1, RtmpAssumption DEF Held
  <2>3. \A x \in Connection : Held(x) /\ x # c => Held(x)'
    BY DEF Held
  <2>4. task[c] \in Tasks /\ task[c] \notin {"none", "ignored", "accepted", "added"}
    BY <2>2 DEF TypeOK, Early
  <2>5. task' = [task EXCEPT ![c] = task[c]]
    BY DEF TypeOK
  <2> QED BY <2>1, <2>2, <2>3, <2>4, <2>5 DEF Drops, Release, TypeOK
<1>2. /\ mSocketfd' \in [Connection -> Number]
      /\ owner' \in [Number -> Connection \cup {None, Zero}]
      /\ destroyed' \subseteq Connection
      /\ Early' /\ References' /\ ConnectingShape' /\ NumberShape'
  BY <1>1, DropKeeps
<1>3. TypeOK'
  BY <1>2 DEF TypeOK
<1>4. Locals'
  BY DEF Locals
<1>5. KeyShape' /\ OwnShape'
  BY DEF KeyShape, OwnShape, Holds, Taking
<1> QED BY <1>2, <1>3, <1>4, <1>5

LEMMA RefusedInv ==
  ASSUME IInv, NEW c \in Connection, Refused(c)
  PROVE  IInv'
<1> USE DEF IInv, Refused, Goto, maps, command
<1>1. Drops(c, None, {c}, "read")
  <2>1. Gone(None) = {}
    BY DEF Gone
  <2>2. \A x \in Connection : Held(x)' <=> Held(x)
    BY HeldSame
  <2>3. \A n \in Number : connecting'[n] # c
    BY RtmpAssumption DEF ConnectingShape
  <2> QED BY <2>1, <2>2, <2>3 DEF Drops, TypeOK, Tasks
<1>2. /\ mSocketfd' \in [Connection -> Number]
      /\ owner' \in [Number -> Connection \cup {None, Zero}]
      /\ destroyed' \subseteq Connection
      /\ task' \in [Connection -> Tasks]
      /\ \A x \in Connection : task'[x] = IF x = c THEN "read" ELSE task[x]
      /\ Early' /\ References' /\ ConnectingShape' /\ NumberShape'
  BY <1>1, DropKeeps
<1>3. TypeOK'
  BY <1>2 DEF TypeOK
<1>4. Locals'
  BY <1>2 DEF Locals
<1>5. KeyShape' /\ OwnShape'
  BY <1>2 DEF KeyShape, OwnShape, Holds, Taking
<1> QED BY <1>2, <1>3, <1>4, <1>5

\* onStreamKey returns false.
LEMMA RefuseInv ==
  ASSUME IInv, NEW c \in Connection, task[c] \in {"check", "resume"}, Refuse(c),
         UNCHANGED <<mServState, sb, streamKey, told, mixed, raced>>
  PROVE  IInv'
<1> USE DEF IInv, Refuse, Goto
<1>1. found[c] \in Connection /\ c # None
  BY RtmpAssumption DEF Locals, TypeOK
<1>2. /\ found' \in [Connection -> Connection \cup {None}]
      /\ asked' \in [Connection -> Key \cup {None}]
      /\ \A x \in Connection : found'[x] = IF x = c THEN None ELSE found[x]
      /\ \A x \in Connection : asked'[x] = IF x = c THEN None ELSE asked[x]
  BY DEF TypeOK
<1>3. Drops(c, found[c], {}, "refused")
  <2>1. Held(found[c]) /\ (\A x \in Connection : Held(x)' => Held(x))
    BY <1>1, <1>2, RtmpAssumption DEF Held
  <2>2. \A x \in Connection : Held(x) /\ x # found[c] => Held(x)'
    BY <1>2 DEF Held
  <2>3. \A n \in Number : connecting'[n] # c
    BY DEF ConnectingShape
  <2> QED BY <2>1, <2>2, <2>3 DEF Drops, Release, TypeOK, Tasks
<1>4. /\ mSocketfd' \in [Connection -> Number]
      /\ owner' \in [Number -> Connection \cup {None, Zero}]
      /\ destroyed' \subseteq Connection
      /\ task' \in [Connection -> Tasks]
      /\ \A x \in Connection : task'[x] = IF x = c THEN "refused" ELSE task[x]
      /\ Early' /\ References' /\ ConnectingShape' /\ NumberShape'
  BY <1>1, <1>3, DropKeeps
<1>5. TypeOK'
  BY <1>2, <1>4 DEF TypeOK
<1>6. Locals'
  BY <1>2, <1>4 DEF Locals
<1>7. KeyShape'
  BY <1>2, <1>4 DEF KeyShape, Holds, Taking
<1>8. OwnShape'
  BY <1>2, <1>4, RtmpAssumption DEF OwnShape, Holds
<1> QED BY <1>4, <1>5, <1>6, <1>7, <1>8

LEMMA CheckKeyInv ==
  ASSUME IInv, NEW c \in Connection, CheckKey(c)
  PROVE  IInv'
<1> USE DEF IInv, Goto, kernel, maps, command
<1>1. CASE streams[asked[c]] # None
  BY <1>1, RefuseInv DEF CheckKey
<1>2. CASE streams[asked[c]] = None
  <2> DEFINE k == asked[c]
  <2>0. /\ task[c] = "check" /\ k \in Key /\ streams[k] = None
        /\ task' = [task EXCEPT ![c] = "resume"]
        /\ raced' = IF Taking(k) = {} THEN raced ELSE raced \cup {k}
        /\ UNCHANGED <<mServState, streamKey, told, mixed, acceptor, kernel, maps, command>>
    BY <1>2 DEF CheckKey, Locals, TypeOK
  <2>1. TypeOK'
    BY <2>0 DEF TypeOK, Tasks
  <2>2. \A x \in Connection : Held(x)' <=> Held(x)
    BY <2>0, HeldSame
  <2>3. Locals' /\ Early'
    BY <2>0, <2>2 DEF Locals, Early, TypeOK
  <2>4. References' /\ ConnectingShape'
    BY <2>0, <2>2 DEF References, ConnectingShape, TypeOK
  <2>5. KeyShape'
    <3> SUFFICES ASSUME NEW q \in Key \ raced'
        PROVE  /\ \A x, y \in Connection : Holds(x, q)' /\ Holds(y, q)' => x = y
               /\ \A x, y \in Taking(q)' : x = y
               /\ \A x \in Connection : Holds(x, q)' =>
                    /\ streams'[q] # None
                    /\ task'[x] # "leave" => told'[q] = "resume"
               /\ \A x \in Taking(q)' :
                    /\ streams'[q] = None
                    /\ task'[x] = "add" => told'[q] = "resume"
      BY DEF KeyShape
    <3>1. q \notin raced /\ (q = k => Taking(q) = {})
      BY <2>0
    <3>2. \A x \in Connection : Holds(x, q)' <=> Holds(x, q)
      BY <2>0 DEF Holds, TypeOK
    <3>3. \A x \in Taking(q)' : x \in Connection /\ (x \in Taking(q) \/ (x = c /\ q = k))
      BY <2>0 DEF Taking, TypeOK
    <3>4. \A x \in Connection : task'[x] = IF x = c THEN "resume" ELSE task[x]
      BY <2>0 DEF TypeOK
    <3> QED BY <2>0, <3>1, <3>2, <3>3, <3>4 DEF KeyShape
  <2>6. NumberShape'
    BY <2>0 DEF NumberShape, AloneInUse, OwnsSocket, IsConnecting, TypeOK, InUse
  <2>7. OwnShape'
    BY <2>0 DEF OwnShape, TypeOK, Holds
  <2> QED BY <2>1, <2>3, <2>4, <2>5, <2>6, <2>7
<1> QED BY <1>1, <1>2

LEMMA ResumeKeyInv ==
  ASSUME IInv, NEW c \in Connection, ResumeKey(c)
  PROVE  IInv'
<1> USE DEF IInv, Goto, kernel, maps, command
<1>1. CASE asked[c] \notin Known
  BY <1>1, RefuseInv DEF ResumeKey
<1>2. CASE asked[c] \in Known
  <2> USE <1>2 DEF ResumeKey
  <2>1. TypeOK'
    BY DEF TypeOK, Tasks
  <2>2. \A x \in Connection : Held(x)' <=> Held(x)
    BY HeldSame
  <2>3. Locals' /\ Early'
    BY <2>2 DEF Locals, Early, TypeOK
  <2>4. References' /\ ConnectingShape'
    BY <2>2 DEF References, ConnectingShape, TypeOK
  <2>5. KeyShape'
    <3>1. \A q \in Key : told'[q] = IF q = asked[c] THEN "resume" ELSE told[q]
      BY DEF TypeOK
    <3>2. /\ \A x \in Connection, q \in Key : Holds(x, q)' <=> Holds(x, q)
          /\ \A q \in Key : Taking(q)' = Taking(q)
      BY DEF Holds, Taking, TypeOK
    <3>3. \A x \in Connection : task'[x] = IF x = c THEN "add" ELSE task[x]
      BY DEF TypeOK
    <3>4. \A q \in Key : \A x \in Taking(q) :
            /\ x \in Connection /\ asked[x] = q
            /\ x # c => task'[x] = task[x]
      BY <3>3 DEF Taking
    <3>5. UNCHANGED <<raced, streams>>
      OBVIOUS
    <3>6. \A q \in Key : \A x \in Connection :
            Holds(x, q) /\ task'[x] # "leave" => task[x] # "leave"
      BY <3>3
    <3> QED BY <3>1, <3>2, <3>4, <3>5, <3>6 DEF KeyShape
  <2>6. NumberShape'
    BY DEF NumberShape, AloneInUse, OwnsSocket, IsConnecting, TypeOK, InUse
  <2>7. OwnShape'
    BY DEF OwnShape, TypeOK, Holds
  <2> QED BY <2>1, <2>3, <2>4, <2>5, <2>6, <2>7
<1> QED BY <1>1, <1>2

LEMMA AddStreamInv ==
  ASSUME IInv, NEW c \in Connection, AddStream(c)
  PROVE  IInv'
<1> USE DEF IInv, AddStream, Goto
<1> DEFINE k == asked[c]
           o == found[c]
<1>1. o \in Connection /\ k \in Key /\ o # None /\ k # None /\ c # None
  BY RtmpAssumption DEF Locals, TypeOK
<1>2. /\ found' \in [Connection -> Connection \cup {None}]
      /\ asked' \in [Connection -> Key \cup {None}]
      /\ streamKey' \in [Connection -> Key \cup {None}]
      /\ \A x \in Connection : found'[x] = IF x = c THEN None ELSE found[x]
      /\ \A x \in Connection : asked'[x] = IF x = c THEN None ELSE asked[x]
      /\ \A x \in Connection : streamKey'[x] = IF x = c THEN k ELSE streamKey[x]
  BY <1>1 DEF TypeOK
<1>3. /\ streams' \in [Key -> Connection \cup {None}]
      /\ \A q \in Key : streams'[q] = IF q = k /\ streams[q] = None THEN o ELSE streams[q]
  BY <1>1 DEF TypeOK, Added
<1>4. Drops(c, o, {}, "read")
  <2>1. Held(o) /\ (\A x \in Connection : Held(x)' => Held(x))
    BY <1>1, <1>2, <1>3, RtmpAssumption DEF Held
  <2>2. \A x \in Connection : Held(x) /\ x # o => Held(x)'
    BY <1>2, <1>3, RtmpAssumption DEF Held
  <2>3. \A n \in Number : connecting'[n] # c
    BY DEF ConnectingShape
  <2> QED BY <2>1, <2>2, <2>3 DEF Drops, Release, TypeOK, Tasks
<1>5. /\ mSocketfd' \in [Connection -> Number]
      /\ owner' \in [Number -> Connection \cup {None, Zero}]
      /\ destroyed' \subseteq Connection
      /\ task' \in [Connection -> Tasks]
      /\ \A x \in Connection : task'[x] = IF x = c THEN "read" ELSE task[x]
      /\ Early' /\ References' /\ ConnectingShape' /\ NumberShape'
  BY <1>1, <1>4, DropKeeps
<1>6. TypeOK'
  BY <1>2, <1>3, <1>5 DEF TypeOK
<1>7. Locals'
  BY <1>1, <1>2, <1>5 DEF Locals
<1>8. /\ \A x \in Connection, q \in Key :
           Holds(x, q)' <=> IF x = c THEN q = k ELSE Holds(x, q)
      /\ \A q \in Key : Taking(q)' = Taking(q) \ {c}
  BY <1>1, <1>2, <1>5, RtmpAssumption DEF Holds, Taking
<1>9. KeyShape'
  <2>1. c \in Taking(k)
    BY DEF Taking
  <2>2. k \in Key \ raced =>
          /\ \A x \in Taking(k) : x = c
          /\ \A x \in Connection : ~Holds(x, k)
          /\ streams[k] = None /\ told[k] = "resume"
    BY <1>1, <2>1 DEF KeyShape
  <2>3. \A q \in Key : Taking(q) \subseteq Connection
    BY DEF Taking
  <2>4. \A x \in Connection : x # c => task'[x] = task[x]
    BY <1>5
  <2>5. UNCHANGED <<told, raced>>
    OBVIOUS
  <2> QED BY <1>1, <1>3, <1>5, <1>8, <2>2, <2>3, <2>4, <2>5 DEF KeyShape
<1>10. OwnShape'
  <2>1. UNCHANGED <<connecting, mixed, raced>>
    OBVIOUS
  <2>2. \A n \in Number : connecting[n] # c
    BY DEF ConnectingShape
  <2>3. c \in Taking(k)
    BY DEF Taking
  <2>4. k \notin raced => streams[k] = None
    BY <1>1, <2>3 DEF KeyShape
  <2>5. \A x \in Connection \ mixed : o = x \/ c = x => o = c
    BY <1>1 DEF OwnShape
  <2>6. c \notin mixed => streamKey[c] = None
    BY <1>1 DEF OwnShape
  <2>7. \A q \in Key : Holds(c, q) => streamKey[c] # None
    BY DEF Holds
  <2> QED BY <1>1, <1>2, <1>3, <1>8, <2>1, <2>2, <2>4, <2>5, <2>6, <2>7, RtmpAssumption
          DEF OwnShape
<1> QED BY <1>5, <1>6, <1>7, <1>9, <1>10

LEMMA LeaveStreamsInv ==
  ASSUME IInv, NEW c \in Connection, LeaveStreams(c)
  PROVE  IInv'
<1> USE DEF IInv, LeaveStreams, Goto, command
<1>1. /\ streams' \in [Key -> Connection \cup {None}]
      /\ \A k \in Key : streams'[k] = IF k = streamKey[c] THEN None ELSE streams[k]
  BY RtmpAssumption DEF TypeOK, Removed
<1>2. /\ mSocketfd' \in [Connection -> Number]
      /\ owner' \in [Number -> Connection \cup {None, Zero}]
      /\ destroyed' \subseteq Connection
      /\ task' \in [Connection -> Tasks]
      /\ \A x \in Connection : task'[x] = IF x = c THEN "forget" ELSE task[x]
      /\ Early' /\ References' /\ ConnectingShape' /\ NumberShape'
  <2>1. CASE streamKey[c] # None
    <3> DEFINE o == streams[streamKey[c]]
    <3>1. o \in Connection \cup {None} /\ streamKey[c] \in Key
      BY <2>1 DEF TypeOK
    <3>2. (o # None => Held(o)) /\ (\A x \in Connection : Held(x)' => Held(x))
      BY <1>1, <3>1, RtmpAssumption DEF Held
    <3>3. \A x \in Connection : Held(x) /\ x # o => Held(x)'
      BY <1>1 DEF Held
    <3>4. Drops(c, o, {}, "forget")
      BY <2>1, <3>2, <3>3 DEF Drops, Release, TypeOK, Tasks
    <3> HIDE DEF o
    <3> QED BY <3>1, <3>4, DropKeeps
  <2>2. CASE streamKey[c] = None
    <3>1. UNCHANGED <<streams, destroyed, owner, mSocketfd>>
      BY <2>2
    <3>2. \A x \in Connection : Held(x)' <=> Held(x)
      BY <3>1, HeldSame
    <3>3. /\ task' \in [Connection -> Tasks]
          /\ \A x \in Connection : task'[x] = IF x = c THEN "forget" ELSE task[x]
      BY DEF TypeOK, Tasks
    <3>4. Early' /\ References'
      BY <3>1, <3>2, <3>3 DEF Early, References
    <3>5. ConnectingShape' /\ NumberShape'
      BY <3>1, <3>3 DEF ConnectingShape, NumberShape, AloneInUse, OwnsSocket, IsConnecting,
                        InUse
    <3> QED BY <3>1, <3>3, <3>4, <3>5 DEF TypeOK
  <2> QED BY <2>1, <2>2
<1>3. TypeOK'
  BY <1>1, <1>2 DEF TypeOK
<1>4. Locals'
  BY <1>2 DEF Locals
<1>5. /\ \A x \in Connection, q \in Key : Holds(x, q)' <=> Holds(x, q) /\ x # c
      /\ \A q \in Key : Taking(q)' = Taking(q)
      /\ \A q \in Key : q = streamKey[c] => Holds(c, q)
  BY <1>2, RtmpAssumption DEF Holds, Taking
<1>6. UNCHANGED <<told, raced, mixed, found, streamKey, connecting>>
  OBVIOUS
<1>7. KeyShape'
  <2>1. \A q \in Key : Taking(q) \subseteq Connection \ {c}
    BY DEF Taking
  <2> QED BY <1>1, <1>2, <1>5, <1>6, <2>1 DEF KeyShape
<1>8. OwnShape'
  <2>1. \A q \in Key : Holds(c, q) => q = streamKey[c]
    BY DEF Holds
  <2>2. \A q \in Key \ raced : \A x \in Connection : Holds(x, q) /\ Holds(c, q) => x = c
    BY DEF KeyShape
  <2> QED BY <1>1, <1>5, <1>6, <2>1, <2>2, RtmpAssumption DEF OwnShape
<1> QED BY <1>2, <1>3, <1>4, <1>7, <1>8

LEMMA LeaveConnectingInv ==
  ASSUME IInv, NEW c \in Connection, LeaveConnecting(c)
  PROVE  IInv'
<1> USE DEF IInv, LeaveConnecting, Goto, command
<1> DEFINE d == mSocketfd[c]
           o == connecting[d]
<1>1. d \in Number /\ o \in Connection \cup {None}
  BY DEF TypeOK
<1>2. /\ connecting' \in [Number -> Connection \cup {None}]
      /\ \A n \in Number : connecting'[n] = IF n = d THEN None ELSE connecting[n]
  BY DEF TypeOK, Removed
<1>3. Drops(c, o, {}, "done")
  <2>1. (o # None => Held(o)) /\ (\A x \in Connection : Held(x)' => Held(x))
    BY <1>1, <1>2, RtmpAssumption DEF Held
  <2>2. \A x \in Connection : Held(x) /\ x # o => Held(x)'
    BY <1>2 DEF Held
  <2>3. \A n \in Number : connecting'[n] # c
    BY <1>2, RtmpAssumption DEF ConnectingShape
  <2>4. \A x \in Connection \ mixed :
          task'[x] \in {"added", "failed", "select", "serve"} => mSocketfd[x] # d
    <3>1. ASSUME NEW x \in Connection \ mixed,
                 task'[x] \in {"added", "failed", "select", "serve"}
          PROVE  mSocketfd[x] # d
      <4>1. x # c /\ task[x] = task'[x]
        BY <3>1 DEF TypeOK
      <4>2. connecting[mSocketfd[x]] = x
        BY <3>1, <4>1 DEF NumberShape, IsConnecting
      <4>3. mSocketfd[x] # Zero
        BY <4>2 DEF ConnectingShape, TypeOK
      <4> QED BY <4>1, <4>3, AloneInNumber
    <3> QED BY <3>1
  <2> QED BY <1>2, <2>1, <2>2, <2>3, <2>4 DEF Drops, Release, TypeOK, Tasks
<1>4. /\ mSocketfd' \in [Connection -> Number]
      /\ owner' \in [Number -> Connection \cup {None, Zero}]
      /\ destroyed' \subseteq Connection
      /\ task' \in [Connection -> Tasks]
      /\ \A x \in Connection : task'[x] = IF x = c THEN "done" ELSE task[x]
      /\ Early' /\ References' /\ ConnectingShape' /\ NumberShape'
  <2> HIDE DEF o
  <2> QED BY <1>1, <1>3, DropKeeps
<1>5. TypeOK'
  BY <1>2, <1>4 DEF TypeOK
<1>6. Locals'
  BY <1>4 DEF Locals
<1>7. KeyShape'
  BY <1>4 DEF KeyShape, Holds, Taking
<1>8. OwnShape'
  BY <1>2, <1>4, RtmpAssumption DEF OwnShape, Holds
<1> QED BY <1>4, <1>5, <1>6, <1>7, <1>8

-----------------------------------------------------------------------------
(* The theorems. *)

LEMMA NextInv == IInv /\ [Next]_vars => IInv'
<1> SUFFICES ASSUME IInv, [Next]_vars PROVE IInv'
  OBVIOUS
<1>1. CASE UNCHANGED vars
  <2> USE <1>1 DEF IInv, vars, kernel, maps, command
  <2>1. TypeOK'
    BY DEF TypeOK
  <2>2. \A x \in Connection : Held(x)' <=> Held(x)
    BY HeldSame
  <2>3. Locals' /\ Early' /\ References'
    BY <2>2 DEF Locals, Early, References
  <2>4. ConnectingShape' /\ KeyShape'
    BY DEF ConnectingShape, KeyShape, Holds, Taking
  <2>5. NumberShape' /\ OwnShape'
    BY DEF NumberShape, AloneInUse, OwnsSocket, IsConnecting, InUse, OwnShape, Holds
  <2> QED BY <2>1, <2>3, <2>4, <2>5
<1>2. CASE Listen
  BY <1>2, ListenInv
<1>3. ASSUME NEW c \in Connection,
             \/ \E d \in Descriptor : Accept(c, d)
             \/ AcceptZero(c) \/ AddConnecting(c)
             \/ StartThread(c) \/ EndAccept(c)
      PROVE  IInv'
  BY <1>3, AcceptInv, AcceptZeroInv, AddConnectingInv, GotoInv, EndAcceptInv
<1>4. ASSUME NEW c \in Connection, ThreadStep(c)
      PROVE  IInv'
  BY <1>4, GotoInv, ServesInv, RTMP_CloseInv, TakeConnectingInv, RefusedInv,
     CheckKeyInv, ResumeKeyInv, AddStreamInv, PauseKeyInv, LeaveStreamsInv,
     LeaveConnectingInv
     DEF ThreadStep
<1> QED BY <1>1, <1>2, <1>3, <1>4 DEF Next

\* The inductive invariant of the connections: what their threads, the maps, the
\* descriptors and the references to the clients have to do with each other.
THEOREM Invariance == Spec => []IInv
<1> QED BY InitInv, NextInv, PTL DEF Spec

\* One publisher for each key that was not raced for, however descriptors are
\* mixed up.
THEOREM PublishersDiffer == Spec => []OnePublisher
<1>1. IInv => OnePublisher
  BY DEF IInv, KeyShape, OnePublisher, Publishes, Holds, TypeOK
<1> QED BY <1>1, Invariance, PTL

\* While a key is published resume is the last that was called for it, and the
\* connection is the one in the map, with a client and a socket of its own.
THEOREM PublishersAreServed == Spec => []PublisherIsServed
<1>1. IInv => PublisherIsServed
  <2> SUFFICES ASSUME IInv, NEW c \in Connection, Publishes(c), streamKey[c] \notin raced
      PROVE  /\ told[streamKey[c]] = "resume"
             /\ c \notin mixed =>
                  /\ streams[streamKey[c]] = c /\ c \notin destroyed
                  /\ mSocketfd[c] # Zero => owner[mSocketfd[c]] = c
    BY DEF PublisherIsServed
  <2>1. streamKey[c] \in Key \ raced /\ Holds(c, streamKey[c]) /\ task[c] = "read"
    BY DEF Publishes, Holds, IInv, TypeOK
  <2>2. told[streamKey[c]] = "resume"
    BY <2>1 DEF IInv, KeyShape
  <2>3. ASSUME c \notin mixed
        PROVE  /\ streams[streamKey[c]] = c /\ c \notin destroyed
               /\ mSocketfd[c] # Zero => owner[mSocketfd[c]] = c
    <3>1. streams[streamKey[c]] = c
      BY <2>1, <2>3 DEF IInv, OwnShape
    <3>2. Held(c)
      BY <2>1, <3>1 DEF Held
    <3> QED BY <2>1, <2>3, <3>1, <3>2 DEF IInv, References, NumberShape, OwnsSocket
  <2> QED BY <2>2, <2>3
<1> QED BY <1>1, Invariance, PTL

\* The thread of the client under a key will still take it out, and a connection
\* that is done is in no map and has no socket.
THEOREM NothingIsLeft == Spec => []NothingStays
<1>1. IInv => NothingStays
  <2> SUFFICES ASSUME IInv PROVE NothingStays
    OBVIOUS
  <2>1. \A k \in Key : streams[k] \in Connection \ mixed => Holds(streams[k], k)
    BY DEF IInv, OwnShape
  <2>2. ASSUME NEW c \in Connection \ mixed, task[c] = "done", acceptor # c
        PROVE  ~Held(c) /\ \A n \in Number : owner[n] # c
    <3>1. \A x \in Connection : found[x] # c
      BY <2>2, RtmpAssumption DEF IInv, OwnShape, Locals
    <3>2. \A n \in Number : connecting[n] # c
      BY <2>2 DEF IInv, ConnectingShape
    <3>3. \A k \in Key : streams[k] # c
      BY <2>1, <2>2 DEF Holds
    <3>4. ~Held(c)
      BY <2>2, <3>1, <3>2, <3>3 DEF Held
    <3>5. mSocketfd[c] = Zero
      BY <2>2, <3>4 DEF IInv, References
    <3>6. \A n \in Number : owner[n] = c => n = Zero
      BY <3>5 DEF IInv, NumberShape, OwnsSocket
    <3> QED BY <2>2, <3>4, <3>6 DEF IInv, Early
  <2> QED BY <2>1, <2>2 DEF NothingStays
<1> QED BY <1>1, Invariance, PTL

-----------------------------------------------------------------------------
(* The connections implement StreamKeys. *)

\* Where a key is in its life, by who takes or holds it.
KeyFacts ==
  \A k \in Key :
    /\ k \in raced => KeyPhase(k) = "shared" /\ KeyHolder(k) = None
    /\ k \notin raced =>
         /\ \A c \in Connection : c \in Taking(k) =>
              /\ KeyHolder(k) = c
              /\ KeyPhase(k) = IF task[c] = "resume" THEN "taken" ELSE "resumed"
         /\ \A c \in Connection : Holds(c, k) =>
              /\ KeyHolder(k) = c
              /\ KeyPhase(k) = IF task[c] = "leave" THEN "paused" ELSE "held"
         /\ Holders(k) = {} =>
              /\ KeyHolder(k) = None
              /\ KeyPhase(k) = IF streams[k] = None THEN "free" ELSE "lost"

LEMMA KeysAreWhere == IInv => KeyFacts
<1> SUFFICES ASSUME IInv, NEW k \in Key, k \notin raced
             PROVE  /\ \A c \in Connection : c \in Taking(k) =>
                         /\ KeyHolder(k) = c
                         /\ KeyPhase(k) = IF task[c] = "resume" THEN "taken"
                                                                ELSE "resumed"
                    /\ \A c \in Connection : Holds(c, k) =>
                         /\ KeyHolder(k) = c
                         /\ KeyPhase(k) = IF task[c] = "leave" THEN "paused" ELSE "held"
                    /\ Holders(k) = {} =>
                         /\ KeyHolder(k) = None
                         /\ KeyPhase(k) = IF streams[k] = None THEN "free" ELSE "lost"
  BY DEF KeyFacts, KeyPhase, KeyHolder
<1>1. ASSUME NEW c \in Connection, c \in Taking(k)
      PROVE  Holders(k) = {c}
  <2>1. streams[k] = None /\ \A x \in Taking(k) : x = c
    BY <1>1 DEF IInv, KeyShape
  <2>2. \A x \in Connection : ~Holds(x, k)
    BY <2>1 DEF IInv, KeyShape
  <2> QED BY <1>1, <2>1, <2>2 DEF Holders
<1>2. ASSUME NEW c \in Connection, Holds(c, k)
      PROVE  Holders(k) = {c} /\ c \notin Taking(k)
  <2>1. streams[k] # None /\ \A x \in Connection : Holds(x, k) => x = c
    BY <1>2 DEF IInv, KeyShape
  <2>2. Taking(k) = {}
    BY <2>1 DEF IInv, KeyShape
  <2> QED BY <1>2, <2>1, <2>2 DEF Holders
<1>3. \A c \in Connection : Holders(k) = {c} => KeyHolder(k) = c /\ c # None
  BY RtmpAssumption DEF KeyHolder
<1>4. Holders(k) = {} => KeyHolder(k) = None
  BY DEF KeyHolder
<1> QED BY <1>1, <1>2, <1>3, <1>4 DEF KeyPhase

\* The steps of StreamKeys in the terms of this module.
Moves(k, from, to) == KeyPhase(k) = from /\ KeyPhase(k)' = to

Lives(k) ==
  \/ /\ KeyPhase(k)' = KeyPhase(k) /\ KeyHolder(k)' = KeyHolder(k)
     /\ \/ told'[k] = told[k]
        \/ KeyPhase(k) = "shared" /\ told'[k] \in {"resume", "pause"}
  \/ /\ told'[k] = told[k]
     /\ \/ Moves(k, "free", "taken") /\ KeyHolder(k)' \in Connection
        \/ Moves(k, "resumed", "held") /\ KeyHolder(k)' = KeyHolder(k)
        \/ /\ \/ Moves(k, "taken", "free") /\ k \notin Known
              \/ Moves(k, "paused", "free")
              \/ Moves(k, "held", "lost")
              \/ Moves(k, "taken", "shared") \/ Moves(k, "resumed", "shared")
           /\ KeyHolder(k)' = None
  \/ /\ KeyHolder(k)' = KeyHolder(k)
     /\ \/ Moves(k, "taken", "resumed") /\ k \in Known /\ told'[k] = "resume"
        \/ Moves(k, "held", "paused") /\ told'[k] = "pause"

LEMMA LivesIsStep ==
  ASSUME NEW k \in Key, Lives(k)
  PROVE  Promise!Step(k) \/ Promise!Same(k)
<1> USE DEF Promise!Goes, Promise!Keeps, Promise!Leaves, Promise!Says
<1>1. CASE KeyPhase(k)' = KeyPhase(k) /\ KeyHolder(k)' = KeyHolder(k)
           /\ told'[k] = told[k]
  BY <1>1 DEF Promise!Same
<1>2. CASE KeyPhase(k)' = KeyPhase(k) /\ KeyHolder(k)' = KeyHolder(k)
           /\ KeyPhase(k) = "shared" /\ told'[k] \in {"resume", "pause"}
  BY <1>2 DEF Promise!Step, Promise!Shared
<1>3. CASE ~(KeyPhase(k)' = KeyPhase(k) /\ KeyHolder(k)' = KeyHolder(k))
  BY <1>3 DEF Lives, Moves, Promise!Step, Promise!Take, Promise!Refuse, Promise!Resume,
              Promise!Publish, Promise!Pause, Promise!Free, Promise!Lose, Promise!Share
<1> QED BY <1>1, <1>2, <1>3 DEF Lives, Moves

\* The other threads are where they were.
OthersStay(c) ==
  \A x \in Connection \ {c} :
    task'[x] = task[x] /\ asked'[x] = asked[x] /\ streamKey'[x] = streamKey[x]

\* A key that the moving thread neither takes nor gives up stays what it is.
LEMMA KeyStays ==
  ASSUME IInv, IInv', KeyFacts, KeyFacts', NEW c \in Connection, NEW k \in Key,
         OthersStay(c),
         told'[k] = told[k], k \in raced <=> k \in raced',
         streams[k] = None <=> streams'[k] = None,
         c \in Taking(k) <=> c \in Taking(k)', Holds(c, k) <=> Holds(c, k)',
         c \in Taking(k) => (task[c] = "resume" <=> task'[c] = "resume"),
         Holds(c, k) => (task[c] = "leave" <=> task'[c] = "leave")
  PROVE  Lives(k)
<1>1. \A x \in Connection :
        /\ x \in Taking(k) <=> x \in Taking(k)'
        /\ Holds(x, k) <=> Holds(x, k)'
        /\ x \in Taking(k) => (task[x] = "resume" <=> task'[x] = "resume")
        /\ Holds(x, k) => (task[x] = "leave" <=> task'[x] = "leave")
  BY DEF OthersStay, Taking, Holds
<1>2. CASE k \in raced
  BY <1>2 DEF KeyFacts, Lives
<1>3. CASE k \notin raced /\ \E x \in Connection : x \in Taking(k)
  BY <1>1, <1>3 DEF KeyFacts, Lives
<1>4. CASE k \notin raced /\ \E x \in Connection : Holds(x, k)
  BY <1>1, <1>4 DEF KeyFacts, Lives
<1>5. CASE k \notin raced /\ ~ \E x \in Connection : x \in Taking(k) \/ Holds(x, k)
  <2>1. Holders(k) = {} /\ Holders(k)' = {}
    BY <1>1, <1>5 DEF Holders, Taking
  <2> QED BY <1>5, <2>1 DEF KeyFacts, Lives
<1> QED BY <1>2, <1>3, <1>4, <1>5

\* The steps that have nothing to do with keys.
LEMMA QuietLives ==
  ASSUME IInv, IInv', KeyFacts, KeyFacts', NEW c \in Connection, OthersStay(c),
         UNCHANGED <<streams, streamKey, told, raced>>,
         \/ task'[c] = task[c] /\ asked'[c] = asked[c]
         \/ /\ task[c] \notin {"resume", "add", "leave"}
            /\ task'[c] \notin {"resume", "add", "leave"}
            /\ task[c] \in {"forget", "done"} <=> task'[c] \in {"forget", "done"}
  PROVE  \A k \in Key : Lives(k)
<1> SUFFICES ASSUME NEW k \in Key PROVE Lives(k)
  OBVIOUS
<1>1. /\ c \in Taking(k) <=> c \in Taking(k)'
      /\ Holds(c, k) <=> Holds(c, k)'
      /\ c \in Taking(k) => (task[c] = "resume" <=> task'[c] = "resume")
      /\ Holds(c, k) => (task[c] = "leave" <=> task'[c] = "leave")
  BY DEF Taking, Holds
<1> QED BY <1>1, KeyStays

\* A client that takes no key, and one that is refused it.
LEMMA RefuseStays ==
  ASSUME IInv, NEW c \in Connection, Refuse(c)
  PROVE  /\ task' = [task EXCEPT ![c] = "refused"]
         /\ asked' = [asked EXCEPT ![c] = None]
         /\ streams' = streams
BY DEF Refuse, Goto

\* A key is taken, or two threads share it.
LEMMA CheckKeyLives ==
  ASSUME IInv, IInv', KeyFacts, KeyFacts', NEW c \in Connection, CheckKey(c)
  PROVE  \A k \in Key : Lives(k)
<1>1. task[c] = "check" /\ asked[c] \in Key /\ UNCHANGED <<streamKey, told>>
  BY DEF CheckKey, IInv, TypeOK, Locals
<1>2. CASE /\ streams[asked[c]] = None
           /\ Goto(c, "resume")
           /\ raced' = IF Taking(asked[c]) = {} THEN raced ELSE raced \cup {asked[c]}
           /\ UNCHANGED <<acceptor, kernel, maps, command>>
  <2>1. /\ task'[c] = "resume" /\ UNCHANGED <<asked, streams>> /\ OthersStay(c)
    BY <1>1, <1>2 DEF Goto, OthersStay, maps, command, IInv, TypeOK
  <2>2. ASSUME NEW k \in Key, k # asked[c] PROVE Lives(k)
    <3>1. /\ c \notin Taking(k) /\ c \notin Taking(k)'
          /\ Holds(c, k) <=> Holds(c, k)'
          /\ task[c] # "leave" /\ task'[c] # "leave"
          /\ k \in raced <=> k \in raced'
      BY <1>1, <1>2, <2>1, <2>2 DEF Taking, Holds
    <3> QED BY <1>1, <2>1, <3>1, KeyStays
  <2>3. ASSUME NEW k \in Key, k = asked[c] PROVE Lives(k)
    <3>1. c \in Taking(k)'
      BY <2>1, <2>3 DEF Taking
    <3>2. CASE k \in raced
      BY <1>1, <1>2, <2>3, <3>2 DEF KeyFacts, Lives
    <3>3. CASE k \notin raced /\ Taking(k) = {}
      <4>1. k \notin raced' /\ streams[k] = None
        BY <1>2, <2>3, <3>3
      <4>2. Holders(k) = {}
        BY <3>3, <4>1 DEF IInv, KeyShape, Holders
      <4>3. KeyPhase(k)' = "taken" /\ KeyHolder(k)' = c
        BY <2>1, <3>1, <4>1 DEF KeyFacts
      <4>4. KeyPhase(k) = "free"
        BY <3>3, <4>1, <4>2 DEF KeyFacts
      <4> QED BY <1>1, <4>3, <4>4 DEF Lives, Moves
    <3>4. CASE k \notin raced /\ Taking(k) # {}
      <4>1. k \in raced'
        BY <1>2, <2>3, <3>4
      <4>2. KeyPhase(k)' = "shared" /\ KeyHolder(k)' = None
        BY <4>1 DEF KeyFacts
      <4>3. KeyPhase(k) \in {"taken", "resumed"}
        <5>1. PICK x \in Connection : x \in Taking(k)
          BY <3>4 DEF Taking
        <5> QED BY <3>4, <5>1 DEF KeyFacts
      <4> QED BY <1>1, <4>2, <4>3 DEF Lives, Moves
    <3> QED BY <3>2, <3>3, <3>4
  <2> QED BY <2>2, <2>3
<1>3. CASE streams[asked[c]] # None /\ Refuse(c) /\ UNCHANGED <<raced, sb>>
  <2>1. task'[c] = "refused" /\ streams' = streams /\ OthersStay(c)
    BY <1>1, <1>3, RefuseStays DEF OthersStay, IInv, TypeOK
  <2> QED BY <1>1, <1>3, <2>1, QuietLives
<1> QED BY <1>2, <1>3 DEF CheckKey

\* A key that is taken is resumed, or given back at once.
LEMMA ResumeKeyLives ==
  ASSUME IInv, IInv', KeyFacts, KeyFacts', NEW c \in Connection, ResumeKey(c)
  PROVE  \A k \in Key : Lives(k)
<1>1. /\ task[c] = "resume" /\ asked[c] \in Key /\ UNCHANGED <<streamKey, raced>>
      /\ told \in [Key -> {"nothing", "resume", "pause"}]
  BY DEF ResumeKey, IInv, TypeOK, Locals
<1>2. CASE /\ asked[c] \in Known
           /\ told' = [told EXCEPT ![asked[c]] = "resume"]
           /\ Goto(c, "add")
           /\ UNCHANGED <<acceptor, kernel, maps, command>>
  <2>1. /\ task'[c] = "add" /\ UNCHANGED <<asked, streams>> /\ OthersStay(c)
    BY <1>1, <1>2 DEF Goto, OthersStay, maps, command, IInv, TypeOK
  <2>2. ASSUME NEW k \in Key, k # asked[c] PROVE Lives(k)
    <3>1. /\ c \notin Taking(k) /\ c \notin Taking(k)'
          /\ Holds(c, k) <=> Holds(c, k)'
          /\ task[c] # "leave" /\ task'[c] # "leave"
          /\ told'[k] = told[k]
      BY <1>1, <1>2, <2>1, <2>2 DEF Taking, Holds
    <3> QED BY <1>1, <2>1, <3>1, KeyStays
  <2>3. ASSUME NEW k \in Key, k = asked[c] PROVE Lives(k)
    <3>1. c \in Taking(k) /\ c \in Taking(k)' /\ told'[k] = "resume" /\ k \in Known
      BY <1>1, <1>2, <2>1, <2>3 DEF Taking
    <3>2. CASE k \in raced
      BY <1>1, <3>1, <3>2 DEF KeyFacts, Lives
    <3>3. CASE k \notin raced
      BY <1>1, <2>1, <3>1, <3>3 DEF KeyFacts, Lives, Moves
    <3> QED BY <3>2, <3>3
  <2> QED BY <2>2, <2>3
<1>3. CASE asked[c] \notin Known /\ Refuse(c) /\ UNCHANGED <<told, sb>>
  <2>1. task'[c] = "refused" /\ streams' = streams /\ OthersStay(c)
    BY <1>1, <1>3, RefuseStays DEF OthersStay, IInv, TypeOK
  <2>2. ASSUME NEW k \in Key, k # asked[c] PROVE Lives(k)
    <3>1. /\ c \notin Taking(k) /\ c \notin Taking(k)'
          /\ Holds(c, k) <=> Holds(c, k)'
          /\ task[c] # "leave" /\ task'[c] # "leave"
      BY <1>1, <2>1, <2>2 DEF Taking, Holds
    <3> QED BY <1>1, <1>3, <2>1, <3>1, KeyStays
  <2>3. ASSUME NEW k \in Key, k = asked[c] PROVE Lives(k)
    <3>1. c \in Taking(k)
      BY <1>1, <2>3 DEF Taking
    <3>2. CASE k \in raced
      BY <1>1, <1>3, <3>2 DEF KeyFacts, Lives
    <3>3. CASE k \notin raced
      <4>1. streams'[k] = None
        BY <2>1, <3>1, <3>3 DEF IInv, KeyShape
      <4>2. Holders(k)' = {}
        <5>1. \A x \in Connection : ~Holds(x, k)'
          BY <1>1, <3>3, <4>1 DEF IInv, KeyShape
        <5>2. \A x \in Connection : x \in Taking(k)' => x \in Taking(k) /\ x # c
          BY <2>1 DEF OthersStay, Taking
        <5>3. \A x \in Taking(k) : x = c
          BY <3>1, <3>3 DEF IInv, KeyShape
        <5> QED BY <5>1, <5>2, <5>3 DEF Holders, Taking
      <4>3. KeyPhase(k)' = "free" /\ KeyHolder(k)' = None
        BY <1>1, <3>3, <4>1, <4>2 DEF KeyFacts
      <4>4. KeyPhase(k) = "taken"
        BY <1>1, <3>1, <3>3 DEF KeyFacts
      <4> QED BY <1>3, <2>3, <4>3, <4>4 DEF Lives, Moves
    <3> QED BY <3>2, <3>3
  <2> QED BY <2>2, <2>3
<1> QED BY <1>2, <1>3 DEF ResumeKey

\* The thread publishes its new key, and loses the one it had.
LEMMA AddStreamLives ==
  ASSUME IInv, IInv', KeyFacts, KeyFacts', NEW c \in Connection, AddStream(c)
  PROVE  \A k \in Key : Lives(k)
<1> DEFINE new == asked[c]
<1>1. /\ task[c] = "add" /\ new \in Key /\ new # None /\ found[c] # None
      /\ UNCHANGED <<told, raced>>
      /\ streams \in [Key -> Connection \cup {None}]
  BY RtmpAssumption DEF AddStream, IInv, TypeOK, Locals
<1>2. /\ task'[c] = "read" /\ streamKey'[c] = new /\ OthersStay(c)
  BY <1>1 DEF AddStream, Goto, OthersStay, IInv, TypeOK
<1>3. \A k \in Key : streams'[k] = IF k = new /\ streams[k] = None THEN found[c]
                                                                  ELSE streams[k]
  BY <1>1 DEF AddStream, Added
<1>4. ASSUME NEW k \in Key, k = new PROVE Lives(k)
  <2>1. c \in Taking(k) /\ Holds(c, k)'
    BY <1>1, <1>2, <1>4 DEF Taking, Holds
  <2>2. CASE k \in raced
    BY <1>1, <2>2 DEF KeyFacts, Lives
  <2>3. CASE k \notin raced
    BY <1>1, <1>2, <2>1, <2>3 DEF KeyFacts, Lives, Moves
  <2> QED BY <2>2, <2>3
<1>5. ASSUME NEW k \in Key, k # new, streamKey[c] # k PROVE Lives(k)
  <2>1. /\ c \notin Taking(k) /\ c \notin Taking(k)'
        /\ ~Holds(c, k) /\ ~Holds(c, k)'
    BY <1>1, <1>2, <1>5 DEF Taking, Holds
  <2> QED BY <1>1, <1>2, <1>3, <1>5, <2>1, KeyStays
<1>6. ASSUME NEW k \in Key, k # new, streamKey[c] = k PROVE Lives(k)
  <2>1. Holds(c, k) /\ streams'[k] = streams[k]
    BY <1>1, <1>3, <1>6, RtmpAssumption DEF Holds
  <2>2. CASE k \in raced
    BY <1>1, <2>2 DEF KeyFacts, Lives
  <2>3. CASE k \notin raced
    <3>1. streams[k] # None /\ \A x \in Connection : Holds(x, k) => x = c
      BY <2>1, <2>3 DEF IInv, KeyShape
    <3>2. Taking(k)' = {}
      BY <1>1, <2>1, <2>3, <3>1 DEF IInv, KeyShape
    <3>3. \A x \in Connection : ~Holds(x, k)'
      BY <1>2, <1>6, <3>1 DEF Holds, OthersStay
    <3>4. KeyPhase(k)' = "lost" /\ KeyHolder(k)' = None
      BY <1>1, <2>1, <2>3, <3>1, <3>2, <3>3 DEF KeyFacts, Holders
    <3>5. KeyPhase(k) = "held"
      BY <1>1, <2>1, <2>3 DEF KeyFacts
    <3> QED BY <1>1, <3>4, <3>5 DEF Lives, Moves
  <2> QED BY <2>2, <2>3
<1> QED BY <1>4, <1>5, <1>6

\* The key of a connection that ends is paused while it is still taken,
LEMMA PauseKeyLives ==
  ASSUME IInv, IInv', KeyFacts, KeyFacts', NEW c \in Connection, PauseKey(c)
  PROVE  \A k \in Key : Lives(k)
<1> SUFFICES ASSUME NEW k \in Key PROVE Lives(k)
  OBVIOUS
<1>1. /\ task[c] = "closed" /\ UNCHANGED <<streams, streamKey, raced>>
      /\ told \in [Key -> {"nothing", "resume", "pause"}]
      /\ streamKey[c] \in Key \cup {None} /\ k # None
  BY RtmpAssumption DEF PauseKey, IInv, TypeOK, maps
<1>2. /\ task'[c] = "leave" /\ OthersStay(c)
  BY <1>1 DEF PauseKey, Goto, OthersStay, command, IInv, TypeOK
<1>3. told'[k] = IF streamKey[c] = k THEN "pause" ELSE told[k]
  BY <1>1 DEF PauseKey
<1>4. CASE streamKey[c] # k
  <2>1. /\ c \notin Taking(k) /\ c \notin Taking(k)'
        /\ ~Holds(c, k) /\ ~Holds(c, k)'
    BY <1>1, <1>2, <1>4 DEF Taking, Holds
  <2> QED BY <1>1, <1>2, <1>3, <1>4, <2>1, KeyStays
<1>5. CASE streamKey[c] = k /\ k \in raced
  BY <1>1, <1>3, <1>5 DEF KeyFacts, Lives
<1>6. CASE streamKey[c] = k /\ k \notin raced
  <2>1. Holds(c, k) /\ Holds(c, k)'
    BY <1>1, <1>2, <1>6 DEF Holds
  <2> QED BY <1>1, <1>2, <1>3, <1>6, <2>1 DEF KeyFacts, Lives, Moves
<1> QED BY <1>4, <1>5, <1>6

\* and then it is free.
LEMMA LeaveStreamsLives ==
  ASSUME IInv, IInv', KeyFacts, KeyFacts', NEW c \in Connection, LeaveStreams(c)
  PROVE  \A k \in Key : Lives(k)
<1> SUFFICES ASSUME NEW k \in Key PROVE Lives(k)
  OBVIOUS
<1>1. /\ task[c] = "leave" /\ UNCHANGED <<told, streamKey, raced>>
      /\ streams \in [Key -> Connection \cup {None}]
      /\ streamKey[c] \in Key \cup {None} /\ k # None
  BY RtmpAssumption DEF LeaveStreams, IInv, TypeOK
<1>2. /\ task'[c] = "forget" /\ OthersStay(c)
  BY <1>1 DEF LeaveStreams, Goto, OthersStay, command, IInv, TypeOK
<1>3. streams'[k] = IF streamKey[c] = k THEN None ELSE streams[k]
  BY <1>1 DEF LeaveStreams, Removed
<1>4. c \notin Taking(k) /\ c \notin Taking(k)' /\ ~Holds(c, k)'
  BY <1>1, <1>2 DEF Taking, Holds
<1>5. CASE streamKey[c] # k
  <2>1. ~Holds(c, k)
    BY <1>5 DEF Holds
  <2> QED BY <1>1, <1>2, <1>3, <1>4, <1>5, <2>1, KeyStays
<1>6. CASE k \in raced
  BY <1>1, <1>6 DEF KeyFacts, Lives
<1>7. CASE streamKey[c] = k /\ k \notin raced
  <2>1. Holds(c, k)
    BY <1>1, <1>7 DEF Holds
  <2>2. streams[k] # None /\ \A x \in Connection : Holds(x, k) => x = c
    BY <1>7, <2>1 DEF IInv, KeyShape
  <2>3. Taking(k) = {}
    BY <1>7, <2>2 DEF IInv, KeyShape
  <2>4. Holders(k)' = {}
    BY <1>2, <1>4, <2>2, <2>3 DEF Holders, Holds, Taking, OthersStay
  <2>5. KeyPhase(k)' = "free" /\ KeyHolder(k)' = None
    BY <1>1, <1>3, <1>7, <2>4 DEF KeyFacts
  <2>6. KeyPhase(k) = "paused"
    BY <1>1, <1>7, <2>1 DEF KeyFacts
  <2> QED BY <1>1, <2>5, <2>6 DEF Lives, Moves
<1> QED BY <1>5, <1>6, <1>7

\* All the others leave the keys alone.
LEMMA OtherStepsLive ==
  ASSUME IInv, IInv', KeyFacts, KeyFacts', NEW c \in Connection,
         \/ \E d \in Descriptor : Accept(c, d)
         \/ AcceptZero(c) \/ AddConnecting(c) \/ StartThread(c) \/ EndAccept(c)
         \/ Serves(c) \/ NotServed(c) \/ Handshake(c) \/ EndRtmp(c) \/ RTMP_Close(c)
         \/ \E k \in Key : TakeConnecting(c, k)
         \/ NotConnecting(c) \/ Refused(c) \/ LeaveConnecting(c)
  PROVE  \A k \in Key : Lives(k)
<1> USE DEF Goto, kernel, maps, command
<1>1. UNCHANGED <<streams, streamKey, told, raced>>
  BY DEF Accept, AcceptZero, AddConnecting, StartThread, EndAccept, Serves, NotServed,
         Handshake, EndRtmp, RTMP_Close, TakeConnecting, NotConnecting, Refused,
         LeaveConnecting
<1>2. CASE EndAccept(c)
  <2>1. task' = task /\ asked' = asked
    BY <1>2 DEF EndAccept
  <2> QED BY <1>1, <2>1, QuietLives DEF OthersStay
<1>3. CASE ~EndAccept(c)
  <2>1. task \in [Connection -> Tasks] /\ asked \in [Connection -> Key \cup {None}]
    BY DEF IInv, TypeOK
  <2>2. OthersStay(c)
    BY <1>1, <1>3, <2>1
       DEF OthersStay, Accept, AcceptZero, AddConnecting, StartThread, Serves, NotServed,
           Handshake, EndRtmp, RTMP_Close, TakeConnecting, NotConnecting, Refused,
           LeaveConnecting
  <2>3. /\ task[c] \notin {"resume", "add", "leave"}
        /\ task'[c] \notin {"resume", "add", "leave"}
        /\ task[c] \in {"forget", "done"} <=> task'[c] \in {"forget", "done"}
    BY <1>3, <2>1
       DEF Accept, AcceptZero, AddConnecting, StartThread, Serves, NotServed,
           Handshake, EndRtmp, RTMP_Close, TakeConnecting, NotConnecting, Refused,
           LeaveConnecting
  <2> QED BY <1>1, <2>2, <2>3, QuietLives
<1> QED BY <1>2, <1>3

LEMMA NextLives == IInv /\ IInv' /\ KeyFacts /\ KeyFacts' /\ [Next]_vars =>
                     \A k \in Key : Lives(k)
<1> SUFFICES ASSUME IInv, IInv', KeyFacts, KeyFacts', [Next]_vars
             PROVE  \A k \in Key : Lives(k)
  OBVIOUS
<1>1. CASE Listen \/ UNCHANGED vars
  <2>1. UNCHANGED <<task, asked, streamKey, streams, told, raced>>
    BY <1>1 DEF Listen, vars, maps, command
  <2>2. ASSUME NEW k \in Key PROVE KeyPhase(k)' = KeyPhase(k) /\ KeyHolder(k)' = KeyHolder(k)
    BY <2>1 DEF KeyPhase, KeyHolder, Holders, Taking, Holds
  <2> QED BY <2>1, <2>2 DEF Lives
<1>2. ASSUME NEW c \in Connection,
             \/ \E d \in Descriptor : Accept(c, d)
             \/ AcceptZero(c) \/ AddConnecting(c) \/ StartThread(c) \/ EndAccept(c)
      PROVE  \A k \in Key : Lives(k)
  BY <1>2, OtherStepsLive
<1>3. ASSUME NEW c \in Connection, ThreadStep(c)
      PROVE  \A k \in Key : Lives(k)
  BY <1>3, OtherStepsLive, CheckKeyLives, ResumeKeyLives, AddStreamLives,
     PauseKeyLives, LeaveStreamsLives
     DEF ThreadStep
<1> QED BY <1>1, <1>2, <1>3 DEF Next

\* Whatever the connections do, each key that is not raced for is taken by one of
\* them at a time, resumed before it is published and paused before it is free, and
\* nothing is said of it out of turn.
THEOREM KeysAreTakenInTurn == Spec => ImplementsStreamKeys
<1>1. Init => Promise!Init
  <2> SUFFICES ASSUME Init PROVE Promise!Init
    OBVIOUS
  <2>1. ASSUME NEW k \in Key PROVE Holders(k) = {} /\ k \notin raced /\ streams[k] = None
    BY <2>1, RtmpAssumption DEF Init, Holders, Taking, Holds
  <2>2. ASSUME NEW k \in Key PROVE KeyPhase(k) = "free" /\ KeyHolder(k) = None
    BY <2>1 DEF KeyPhase, KeyHolder
  <2> QED BY <2>2 DEF Init, Promise!Init
<1>2. IInv /\ IInv' /\ [Next]_vars => [Promise!Next]_Promise!vars
  <2> SUFFICES ASSUME IInv, IInv', [Next]_vars PROVE Promise!Next
    OBVIOUS
  <2>1. KeyFacts
    BY KeysAreWhere
  <2>2. KeyFacts'
    BY KeysAreWhere, PTL
  <2> QED BY <2>1, <2>2, NextLives, LivesIsStep DEF Promise!Next
<1> QED BY <1>1, <1>2, Invariance, PTL DEF Spec, ImplementsStreamKeys, Promise!Spec
=============================================================================
