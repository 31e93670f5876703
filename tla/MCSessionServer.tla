--------------------------- MODULE MCSessionServer ---------------------------
(* SessionServer for TLC.  Clients and requests are interchangeable names:   *)
(* the safety runs take them up to symmetry, the fair run takes the requests *)
(* in order.                                                                 *)
EXTENDS SessionServer, Naturals, TLC

Symmetry == Permutations(Client) \cup Permutations(Request)

InOrder ==
  \A i, j \in Request : i < j /\ stage[j] # "unsent" => stage[i] # "unsent"

MediaTypes == {"createWebRtcTransport", "produce", "consume"}
DataTypes  == AllTypes \ MediaTypes
==============================================================================
