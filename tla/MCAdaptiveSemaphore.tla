----------------------- MODULE MCAdaptiveSemaphore -----------------------
(* Small instances of AdaptiveSemaphore for TLC.                          *)
EXTENDS AdaptiveSemaphore, TLC

Symmetry == Permutations(Acquirers)
==========================================================================
