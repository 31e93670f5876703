---------------------------- MODULE MediaObjects ----------------------------
(***************************************************************************)
(* What the session promises of the objects it has in the mediasoup        *)
(* worker: transports need nothing, a source needs a transport, a sink     *)
(* needs a transport and a source.  An object lives from its creation if   *)
(* all that it needs lives then, or never; it ends when a transport that   *)
(* it needs, directly or through its source, is closed, and for no other   *)
(* reason; and nothing lives twice.                                        *)
(***************************************************************************)
CONSTANT Object

VARIABLES made,     \* the objects ever created
          needs,    \* what each of them was created on
          alive     \* those that exist

vars == <<made, needs, alive>>

Init ==
  /\ made = {}
  /\ needs = [o \in Object |-> {}]
  /\ alive = {}

Transports == {o \in made : needs[o] = {}}

Sources == {o \in made : \E t \in Transports : needs[o] = {t}}

\* What a transport, a source or a sink may be created on: nothing has to live.
Grounds ==
  {{}} \cup {{t} : t \in Transports} \cup {{t, s} : t \in Transports, s \in Sources}

Create(o) ==
  /\ o \notin made
  /\ made' = made \cup {o}
  /\ \E ground \in Grounds :
       /\ needs' = [needs EXCEPT ![o] = ground]
       /\ alive' = IF ground \subseteq alive THEN alive \cup {o} ELSE alive

Needing(gone) == {o \in made : needs[o] \cap gone # {}}

\* Some transports close, and with them what needs them: the sources and sinks
\* on them, then the sinks that those sources fed on other transports.
Close ==
  \E closing \in SUBSET (Transports \cap alive) :
    LET gone == closing \cup Needing(closing)
    IN alive' = alive \ (gone \cup Needing(gone))

Next ==
  \/ \E o \in Object : Create(o)
  \/ Close /\ UNCHANGED <<made, needs>>

Spec == Init /\ [][Next]_vars
=============================================================================
