----------------------------- MODULE StreamKeys -----------------------------
(***************************************************************************)
(* What RTMPServer promises MediaServer and the publishers about stream    *)
(* keys: a key has one holder at a time, MediasoupClient::resume is called *)
(* for it before the holder publishes, pause before anybody else may take  *)
(* it, and neither is called at another time.                              *)
(*                                                                         *)
(* Two ends are bad but not excluded: a holder may turn to another key and *)
(* lose the first for good, and a key that two connections were about to   *)
(* take at once is under no order from then on.                            *)
(***************************************************************************)
CONSTANTS Connection, Key, Known, None

VARIABLES phase,    \* of each key: "free", "taken", "resumed", "held", "paused",
                    \* "lost" or "shared"
          holder,   \* the connection that has it, or None
          told      \* what was last said of it: "nothing", "resume" or "pause"

vars == <<phase, holder, told>>

Init ==
  /\ phase = [k \in Key |-> "free"]
  /\ holder = [k \in Key |-> None]
  /\ told = [k \in Key |-> "nothing"]

-----------------------------------------------------------------------------
(* The life of one key. *)

Goes(k, from, to) == phase[k] = from /\ phase'[k] = to

Keeps(k) == holder'[k] = holder[k]

Leaves(k) == holder'[k] = None

Says(k, what) == told'[k] = what

Take(k) ==
  /\ Goes(k, "free", "taken")
  /\ holder'[k] \in Connection /\ Says(k, told[k])

\* A key that is not in the settings is nobody's.
Refuse(k) ==
  /\ k \notin Known
  /\ Goes(k, "taken", "free")
  /\ Leaves(k) /\ Says(k, told[k])

Resume(k) ==
  /\ k \in Known
  /\ Goes(k, "taken", "resumed")
  /\ Keeps(k) /\ Says(k, "resume")

Publish(k) == Goes(k, "resumed", "held") /\ Keeps(k) /\ Says(k, told[k])

Pause(k) == Goes(k, "held", "paused") /\ Keeps(k) /\ Says(k, "pause")

Free(k) == Goes(k, "paused", "free") /\ Leaves(k) /\ Says(k, told[k])

Lose(k) == Goes(k, "held", "lost") /\ Leaves(k) /\ Says(k, told[k])

Share(k) ==
  /\ \E from \in {"taken", "resumed"} : Goes(k, from, "shared")
  /\ Leaves(k) /\ Says(k, told[k])

Shared(k) ==
  /\ Goes(k, "shared", "shared")
  /\ Keeps(k) /\ \E what \in {"resume", "pause"} : Says(k, what)

Step(k) ==
  \/ Take(k) \/ Refuse(k) \/ Resume(k) \/ Publish(k) \/ Pause(k) \/ Free(k)
  \/ Lose(k) \/ Share(k) \/ Shared(k)

Same(k) == phase'[k] = phase[k] /\ Keeps(k) /\ Says(k, told[k])

\* A connection that turns to another key moves two at once.
Next == \A k \in Key : Step(k) \/ Same(k)

Spec == Init /\ [][Next]_vars
=============================================================================
