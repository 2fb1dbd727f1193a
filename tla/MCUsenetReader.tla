---------------------------- MODULE MCUsenetReader ----------------------------
(* Small instances of UsenetReader for TLC: the cfg files give Total,       *)
(* MaxPrefetch and Lazy their values.                                       *)
EXTENDS UsenetReader
==============================================================================
