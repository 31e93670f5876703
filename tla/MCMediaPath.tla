----------------------------- MODULE MCMediaPath -----------------------------
(* MediaPath for TLC, with MAXLEN = 4: units that are sent whole (0, 1, 2),  *)
(* that are short (3, 4, 5), and in two or three fragments of which the last *)
(* is full (9) or not (6, 10).                                               *)
EXTENDS MediaPath

Slice(n) == [size |-> n, slice |-> TRUE]
Other(n) == [size |-> n, slice |-> FALSE]

Some == {Slice(n) : n \in {0, 3, 5, 6, 9}} \cup {Other(n) : n \in {0, 2, 4, 6}}

MCFrames ==
  {<<>>} \cup {<<u>> : u \in Some} \cup {<<u, v>> : u, v \in Some} \cup
  {<<Other(2), Other(1), Slice(10)>>, <<Slice(6), Slice(2), Slice(10)>>}
==============================================================================
