--------------------------- MODULE MCBroadcaster ---------------------------
(* Broadcaster for TLC: against a server that answers the way the           *)
(* broadcaster expects, and against the signalling server of the            *)
(* repository, whose funcMap (mediasoup-client.ts:44-60) has no              *)
(* createSendPlainTransport and which answers a produce with a produce.     *)
EXTENDS Broadcaster

ExpectedServer ==
  [t \in RequestTypes |->
     IF t = "produce" THEN "producer" ELSE "sendPlainTransport"]

SignallingServer ==
  [t \in RequestTypes |-> IF t = "produce" THEN "produce" ELSE "none"]
=============================================================================
