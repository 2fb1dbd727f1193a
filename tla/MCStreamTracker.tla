-------------------------- MODULE MCStreamTracker --------------------------
(* Small instances of StreamTracker for TLC.                              *)
EXTENDS StreamTracker, TLC

Symmetry == Permutations(Streams) \cup Permutations(Removers)
============================================================================
