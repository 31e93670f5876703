---------------------------- MODULE RequestReply ----------------------------
(***************************************************************************)
(* What MediasoupWebsocket.sendMessage promises its callers: requests are  *)
(* settled one at a time, in the order in which they were made, each once. *)
(***************************************************************************)
EXTENDS Sequences

CONSTANT Request

VARIABLES pending,   \* the requests that are not settled, oldest first
          outcome    \* each request: "none", "pending", "resolved", "rejected"

Init ==
  /\ pending = <<>>
  /\ outcome = [r \in Request |-> "none"]

Make(r) ==
  /\ outcome[r] = "none"
  /\ pending' = Append(pending, r)
  /\ outcome' = [outcome EXCEPT ![r] = "pending"]

Settle ==
  /\ pending # <<>>
  /\ pending' = Tail(pending)
  /\ \E result \in {"resolved", "rejected"} :
       outcome' = [outcome EXCEPT ![Head(pending)] = result]

Next == Settle \/ \E r \in Request : Make(r)

vars == <<pending, outcome>>

SafeSpec == Init /\ [][Next]_vars

Spec == SafeSpec /\ WF_vars(Settle)
=============================================================================
