------------------------ MODULE MCPlaybackAdmission ------------------------
(* Small instances of PlaybackAdmission for TLC.                          *)
EXTENDS PlaybackAdmission, TLC

Symmetry ==
    Permutations(Streams) \cup Permutations(Removers) \cup Permutations(Acquirers)
============================================================================
