---------------------------- MODULE MCRtmpServer ----------------------------
(* RtmpServer for TLC.  Connections and descriptors are interchangeable      *)
(* names, and so are the keys that are in the settings.                      *)
EXTENDS RtmpServer, TLC

Symmetry == Permutations(Connection) \cup Permutations(Descriptor) \cup Permutations(Known)
=============================================================================
