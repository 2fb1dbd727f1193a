------------------------------- MODULE MCStorage -------------------------------
(* Small instances of SegmentCache, MetadataStore and LibrarySync for TLC.   *)
(* They share no state, and a behaviour is one of the module that focus names. *)
EXTENDS SegmentCache, MetadataStore, LibrarySync

(* What may happen to metadata files for their stores to be counted right.   *)
Careful == {{"delete", "rename", "hide", "crash"}, {"directory", "hide", "delete"},
            {"status", "hole", "list", "rename"}, {"delete", "source", "single"}}

SourceToo == {{"delete", "source"}}
Overlapping == {{"delete", "directory", "overlap"}}
UpdatesOverlap == {{"hole", "status", "list", "rename", "overlap"}}
DuringImport == {{"delete", "early"}}
SecondImport == {{"status", "again", "early"}}

(* What may happen beside a library synchronisation for it to be careful.    *)
Settled == {{"import", "move", "remove"}, {"remove", "volume", "cancel", "setting"},
            {"import", "move", "cancel", "volume"}, {"delete", "repair", "move", "remove"},
            {"import", "delete", "repair"}, {"move", "dry"}}

ImportsDuringRuns == {{"import", "move", "remove", "delete", "quick"}}
DryRuns == {{"import", "move", "dry"}}

VARIABLE focus

Init ==
    /\ focus \in {"cache", "store", "sync"}
    /\ CacheInit /\ StoreInit /\ SyncInit
    /\ focus # "store" => allowed = CHOOSE S \in Scenarios : TRUE
    /\ focus # "sync" => /\ happens = CHOOSE S \in Situations : TRUE
                         /\ strategy = "NONE" /\ libraryDir = FALSE /\ meta = {}

Next ==
    /\ UNCHANGED focus
    /\ \/ focus = "cache" /\ CacheNext /\ UNCHANGED <<storeVars, syncVars>>
       \/ focus = "store" /\ StoreNext /\ UNCHANGED <<cacheVars, syncVars>>
       \/ focus = "sync" /\ SyncNext /\ UNCHANGED <<cacheVars, storeVars>>

vars == <<focus, cacheVars, storeVars, syncVars>>

Spec == Init /\ [][Next]_vars

(* Every variable of the modules has a value of its type.                   *)
StorageTypeOK == CacheTypeOK /\ StoreTypeOK /\ SyncTypeOK
================================================================================
