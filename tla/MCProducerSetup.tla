-------------------------- MODULE MCProducerSetup --------------------------
(* ProducerSetup for TLC: every list of up to three streams over two keys.  *)
EXTENDS ProducerSetup

AllStreams == [key : Key, video : BOOLEAN, audio : BOOLEAN]
ShortLists == UNION {[1..n -> AllStreams] : n \in 0..3}
=============================================================================
