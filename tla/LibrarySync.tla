----------------------------- MODULE LibrarySync -----------------------------
(***************************************************************************)
(* What a library synchronisation does (SyncLibrary and syncMetadataOnly   *)
(* in internal/health/library_sync.go): three walks over the metadata, the *)
(* library and the import directory, a snapshot of the health records,     *)
(* records for new files, and the clean-up of metadata without a link, of  *)
(* links without metadata and of records without a file.                   *)
(*                                                                         *)
(* A run works on what its walks saw while imports, the ARRs and users go  *)
(* on.  The loop makes one run after the other; a dry run of the API is    *)
(* beside them.  Besides Titles the library has Others, which are linked    *)
(* all the time; the library's volume may be away.                         *)
(***************************************************************************)
EXTENDS Integers, FiniteSets

CONSTANTS
    Titles,        \* virtual paths to look at
    Others,        \* number of further files, with metadata and a link
    Situations,    \* sets of what happens beside the runs, to look at
    MaxSyncs,      \* bound on the runs
    MaxImports     \* bound on the imports

AllEvents == {"import", "move", "remove", "delete", "repair", "volume", "setting", "cancel", "dry"}

ASSUME SyncAssumption ==
    /\ IsFiniteSet(Titles) /\ Others \in Nat /\ MaxSyncs \in Nat /\ MaxImports \in Nat
    /\ \A S \in Situations : S \subseteq AllEvents \cup {"quick"}

VARIABLES
    happens,       \* the situation
    strategy,      \* cfg.Import.ImportStrategy
    libraryDir,    \* cfg.Health.LibraryDir is set
    cleanup,       \* cfg.Health.CleanupOrphanedMetadata
    volume,        \* the library's files are to be seen
    meta,          \* paths with metadata
    library,       \* paths with a link in the library
    imports,       \* paths with a link in the import directory
    linking,       \* imports that have written metadata and not yet the link
    imported,      \* paths with an import history
    record,        \* title |-> "none", "checked" or "repair": file_health
    pendingMeta,   \* system_state: pending_metadata_deletions
    pendingLinks,  \* system_state: pending_library_deletions
    run,           \* the run of the loop ("loop") and the dry run ("dry")
    done,          \* number of the last run that recorded its orphans
    runs, added,
    loose,         \* history: title |-> runs in which it was unlinked or moved
    fresh,         \* history: paths that came during the loop's run
    unsafe,        \* history: metadata was deleted that was not loose twice
    bereft         \* history: a record was deleted of a file in the library

settings == <<happens, strategy, libraryDir>>
links == <<library, imports, linking>>
table == <<record, pendingMeta, pendingLinks>>
syncNotes == <<loose, fresh, unsafe, bereft>>
syncVars == <<settings, cleanup, volume, meta, links, imported, table, run, done, runs, added,
              syncNotes>>

SyncRuns == {"loop", "dry"}

NoSync == [at |-> "off", number |-> 0, clean |-> FALSE, walked |-> {}, metas |-> {}, libs |-> {},
           imps |-> {}, blind |-> FALSE, errors |-> FALSE, recs |-> {}, repairs |-> {},
           todo |-> {}, batch |-> {}]

SyncInit ==
    /\ happens \in Situations
    /\ strategy \in {"SYMLINK", "STRM", "NONE"} /\ libraryDir \in BOOLEAN
    /\ cleanup = TRUE /\ volume = TRUE
    /\ meta \in SUBSET Titles /\ library = meta /\ imports = {} /\ linking = {} /\ imported = meta
    /\ record = [p \in Titles |-> IF p \in meta THEN "checked" ELSE "none"]
    /\ pendingMeta = {} /\ pendingLinks = {}
    /\ run = [r \in SyncRuns |-> NoSync] /\ done = 0 /\ runs = 0 /\ added = 0
    /\ loose = [p \in Titles |-> {}] /\ fresh = {} /\ unsafe = FALSE /\ bereft = FALSE

-----------------------------------------------------------------------------
(* What happens beside the runs.                                           *)

Linked(p) == p \in library \cup imports

(* The numbers of the runs that are in progress.                           *)
Going == {run[r].number : r \in {q \in SyncRuns : run[q].at # "off"}}

Loosen(X) == loose' = [p \in Titles |-> IF p \in X THEN loose[p] \cup Going ELSE loose[p]]

(* The importer writes the metadata, then the link, then the record; in a  *)
(* situation that is not quick nobody imports during a run.                *)
ImportMetadata(p) ==
    /\ "import" \in happens /\ added < MaxImports /\ p \notin meta \cup linking
    /\ "quick" \in happens \/ (Going = {} /\ p \notin pendingMeta)
    /\ added' = added + 1
    /\ meta' = meta \cup {p} /\ linking' = linking \cup {p} /\ imported' = imported \cup {p}
    /\ fresh' = fresh \cup {p}
    /\ loose' = [loose EXCEPT ![p] = IF Linked(p) THEN {} ELSE Going]
    /\ UNCHANGED <<settings, cleanup, volume, library, imports, table, run, done, runs, unsafe, bereft>>

ImportLink(p) ==
    /\ p \in linking
    /\ linking' = linking \ {p}
    /\ imports' = IF strategy = "NONE" THEN imports ELSE imports \cup {p}
    /\ record' = [record EXCEPT ![p] = IF p \in meta /\ @ = "none" THEN "checked" ELSE @]
    /\ UNCHANGED <<settings, cleanup, volume, meta, library, imported, pendingMeta, pendingLinks, run,
                   done, runs, added, syncNotes>>

(* An ARR moves the link to its library.                                   *)
ArrMoves(p) ==
    /\ "move" \in happens /\ p \in imports
    /\ imports' = imports \ {p} /\ library' = library \cup {p}
    /\ Loosen({p})
    /\ UNCHANGED <<settings, cleanup, volume, meta, linking, imported, table, run, done, runs, added,
                   fresh, unsafe, bereft>>

(* The title is deleted in the ARR.                                        *)
ArrRemoves(p) ==
    /\ "remove" \in happens /\ p \in library
    /\ library' = library \ {p}
    /\ Loosen({p})
    /\ UNCHANGED <<settings, cleanup, volume, meta, imports, linking, imported, table, run, done, runs,
                   added, fresh, unsafe, bereft>>

(* A user deletes the virtual file.                                        *)
UserDeletes(p) ==
    /\ "delete" \in happens /\ p \in meta
    /\ meta' = meta \ {p}
    /\ record' = [record EXCEPT ![p] = "none"]
    /\ UNCHANGED <<settings, cleanup, volume, links, imported, pendingMeta, pendingLinks, run, done,
                   runs, added, syncNotes>>

(* The health worker asks for a repair.                                    *)
Repairs(p) ==
    /\ "repair" \in happens /\ record[p] = "checked"
    /\ record' = [record EXCEPT ![p] = "repair"]
    /\ UNCHANGED <<settings, cleanup, volume, meta, links, imported, pendingMeta, pendingLinks, run,
                   done, runs, added, syncNotes>>

VolumeChanges ==
    /\ "volume" \in happens
    /\ volume' = ~volume
    /\ UNCHANGED <<settings, cleanup, meta, links, imported, table, run, done, runs, added, syncNotes>>

SettingChanges ==
    /\ "setting" \in happens
    /\ cleanup' = ~cleanup
    /\ UNCHANGED <<settings, volume, meta, links, imported, table, run, done, runs, added, syncNotes>>

-----------------------------------------------------------------------------
(* A run.                                                                  *)

MetadataOnly == strategy = "NONE" /\ ~libraryDir

Goes(r, f) == run' = [run EXCEPT ![r] = f]
Over(r) == run' = [run EXCEPT ![r] = NoSync]

RunBegins(r) ==
    /\ run[r].at = "off" /\ runs < MaxSyncs
    /\ r = "dry" => "dry" \in happens
    /\ "quick" \in happens \/ linking = {}
    /\ runs' = runs + 1
    /\ Goes(r, [NoSync EXCEPT !.at = "walk", !.number = runs + 1, !.clean = cleanup])
    /\ fresh' = IF r = "loop" THEN {} ELSE fresh
    /\ loose' = [p \in Titles |-> IF Linked(p) THEN loose[p] ELSE loose[p] \cup {runs + 1}]
    /\ UNCHANGED <<settings, cleanup, volume, meta, links, imported, table, done, added, unsafe, bereft>>

(* The walks, in any order; that of the library needs its directory.       *)
SyncWalk(r, what) ==
    /\ run[r].at = "walk" /\ what \notin run[r].walked
    /\ MetadataOnly => what = "meta"
    /\ LET w == [run[r] EXCEPT !.walked = @ \cup {what}] IN
       \/ what = "meta" /\ Goes(r, [w EXCEPT !.metas = meta])
       \/ /\ what = "library" /\ libraryDir
          /\ \E e \in BOOLEAN : Goes(r, [w EXCEPT !.libs = IF volume THEN library ELSE {},
                                                !.blind = ~volume, !.errors = @ \/ e])
       \/ what = "library" /\ ~libraryDir /\ Over(r)
       \/ what = "imports" /\ Goes(r, [w EXCEPT !.imps = imports])
    /\ UNCHANGED <<settings, cleanup, volume, meta, links, imported, table, done, runs, added, syncNotes>>

Found(r) == run[r].libs \cup run[r].imps

(* Nothing found, or errors on the way: no clean-up.                       *)
NothingFound(r) == Found(r) = {} /\ (run[r].blind \/ Others = 0)

Trusted(r) ==
    /\ run[r].clean /\ ~run[r].errors
    /\ NothingFound(r) => run[r].metas = {} /\ Others = 0

(* The snapshot of the records, and the files to register: those without a *)
(* record, and those whose link has another path than in the record.       *)
TakeSnapshot(r) ==
    /\ run[r].at = "walk"
    /\ run[r].walked = IF MetadataOnly THEN {"meta"} ELSE {"meta", "library", "imports"}
    /\ LET recs == {p \in Titles : record[p] # "none"} IN
       \E changed \in SUBSET (run[r].metas \cap recs \cap Found(r)) :
       Goes(r, [run[r] EXCEPT !.at = "add", !.clean = IF MetadataOnly THEN FALSE ELSE Trusted(r),
                             !.recs = recs, !.repairs = {p \in recs : record[p] = "repair"},
                             !.todo = (run[r].metas \ recs) \cup changed])
    /\ UNCHANGED <<settings, cleanup, volume, meta, links, imported, table, done, runs, added, syncNotes>>

(* processMetadataForSync: a file that cannot be read is registered, in a  *)
(* dry run as well; one that is gone is not.                               *)
Register(r, p) ==
    /\ run[r].at = "add" /\ p \in run[r].todo
    /\ LET w == [run[r] EXCEPT !.todo = @ \ {p}] IN
       \/ Goes(r, [w EXCEPT !.batch = IF p \in meta THEN @ \cup {p} ELSE @]) /\ UNCHANGED record
       \/ /\ p \in meta
          /\ Goes(r, w)
          /\ record' = [record EXCEPT ![p] = "checked"]
    /\ UNCHANGED <<settings, cleanup, volume, meta, links, imported, pendingMeta, pendingLinks, done,
                   runs, added, syncNotes>>

(* BatchAddAutomaticHealthChecks leaves the status of other records alone. *)
AddRecords(r) ==
    /\ run[r].at = "add" /\ run[r].todo = {}
    /\ record' = [p \in Titles |-> IF r = "loop" /\ p \in run[r].batch /\ record[p] = "none"
                                  THEN "checked" ELSE record[p]]
    /\ Goes(r, [run[r] EXCEPT !.at = IF MetadataOnly THEN "records" ELSE "judge"])
    /\ UNCHANGED <<settings, cleanup, volume, meta, links, imported, pendingMeta, pendingLinks, done,
                   runs, added, syncNotes>>

-----------------------------------------------------------------------------
(* The clean-up, in two passes.                                            *)

Orphans(r) == run[r].metas \ Found(r)

(* More than a fifth of the metadata without a link.                       *)
TooMany(r) ==
    LET away == IF run[r].blind THEN Others ELSE 0 IN
    5 * (Cardinality(Orphans(r)) + away) > Cardinality(run[r].metas) + Others

(* Faulty variant: what was pending stays when a run does not clean up.    *)
AfterNoCleanupKept(pending) == pending
AfterNoCleanup(pending) == {}

Judge(r) ==
    /\ run[r].at = "judge"
    /\ LET go == run[r].clean /\ ~TooMany(r) IN
       /\ Goes(r, [run[r] EXCEPT !.at = IF go THEN "orphans" ELSE "records", !.clean = go,
                                !.todo = IF go THEN Orphans(r) \cap pendingMeta ELSE {}])
       /\ pendingMeta' = IF go THEN pendingMeta ELSE AfterNoCleanup(pendingMeta)
       /\ pendingLinks' = IF go THEN pendingLinks ELSE AfterNoCleanup(pendingLinks)
       /\ done' = IF go \/ r = "dry" THEN done ELSE run[r].number
    /\ UNCHANGED <<settings, cleanup, volume, meta, links, imported, record, runs, added, syncNotes>>

(* Missing in two consecutive runs.                                        *)
DeleteOrphan(r, p) ==
    /\ run[r].at = "orphans" /\ p \in run[r].todo
    /\ Goes(r, [run[r] EXCEPT !.todo = @ \ {p}])
    /\ meta' = IF r = "loop" THEN meta \ {p} ELSE meta
    /\ unsafe' = (unsafe \/ (r = "loop" /\ p \in meta /\ ~({run[r].number, done} \subseteq loose[p])))
    /\ UNCHANGED <<settings, cleanup, volume, links, imported, table, done, runs, added, loose, fresh,
                   bereft>>

(* The orphans that are new are pending for the next run; a dry run keeps  *)
(* them in the same place.                                                 *)
KeepOrphans(r) ==
    /\ run[r].at = "orphans" /\ run[r].todo = {}
    /\ pendingMeta' = Orphans(r) \ pendingMeta
    /\ done' = IF r = "loop" THEN run[r].number ELSE done
    /\ Goes(r, [run[r] EXCEPT !.at = "links", !.todo = (Found(r) \ run[r].metas) \cap pendingLinks])
    /\ UNCHANGED <<settings, cleanup, volume, meta, links, imported, record, pendingLinks, runs, added,
                   syncNotes>>

(* A link without metadata: not with NONE, and a symlink not when the file *)
(* was imported here; that in the import directory hides the library's.    *)
DeleteLink(r, p) ==
    /\ run[r].at = "links" /\ p \in run[r].todo
    /\ Goes(r, [run[r] EXCEPT !.todo = @ \ {p}])
    /\ IF r = "dry" \/ strategy = "NONE" \/ (strategy = "SYMLINK" /\ p \in imported)
       THEN UNCHANGED <<library, imports, loose>>
       ELSE /\ imports' = IF p \in run[r].imps THEN imports \ {p} ELSE imports
            /\ library' = IF p \in run[r].imps THEN library ELSE library \ {p}
            /\ Loosen({p})
    /\ UNCHANGED <<settings, cleanup, volume, meta, linking, imported, table, done, runs, added, fresh,
                   unsafe, bereft>>

KeepLinks(r) ==
    /\ run[r].at = "links" /\ run[r].todo = {}
    /\ pendingLinks' = (Found(r) \ run[r].metas) \ pendingLinks
    /\ Goes(r, [run[r] EXCEPT !.at = "records"])
    /\ UNCHANGED <<settings, cleanup, volume, meta, links, imported, record, pendingMeta, done, runs,
                   added, syncNotes>>

(* Faulty variant: the snapshot of the records is taken for granted.       *)
StaleUnguarded(r) == {p \in run[r].recs : p \notin run[r].metas \/ p \notin run[r].libs}

(* findFilesToDelete: no metadata, or after a clean-up no link in the      *)
(* library, unless a repair is under way.                                  *)
Stale(r) ==
    {p \in run[r].recs : \/ p \notin run[r].metas
                         \/ run[r].clean /\ p \notin run[r].repairs /\ p \notin run[r].libs}

RunEnds(r) ==
    /\ run[r].at = "records"
    /\ record' = [p \in Titles |-> IF r = "loop" /\ p \in Stale(r) THEN "none" ELSE record[p]]
    /\ bereft' = (bereft \/ \E p \in Stale(r) :
                      /\ r = "loop"
                      /\ p \in meta \cap library /\ p \notin fresh /\ record[p] # "none"
                      /\ run[r].number \notin loose[p])
    /\ Over(r)
    /\ UNCHANGED <<settings, cleanup, volume, meta, links, imported, pendingMeta, pendingLinks, done,
                   runs, added, loose, fresh, unsafe>>

(* Stop, a cancelled request, a query that fails: what is done is done.    *)
RunIsCut(r) ==
    /\ "cancel" \in happens /\ run[r].at # "off"
    /\ Over(r)
    /\ UNCHANGED <<settings, cleanup, volume, meta, links, imported, table, done, runs, added, syncNotes>>

RunStep(r) ==
    \/ TakeSnapshot(r) \/ AddRecords(r) \/ Judge(r) \/ KeepOrphans(r) \/ KeepLinks(r) \/ RunEnds(r)
    \/ \E what \in {"meta", "library", "imports"} : SyncWalk(r, what)
    \/ \E p \in Titles : Register(r, p) \/ DeleteOrphan(r, p) \/ DeleteLink(r, p)

SyncNext ==
    \/ \E r \in SyncRuns : RunBegins(r) \/ RunStep(r) \/ RunIsCut(r)
    \/ \E p \in Titles : \/ ImportMetadata(p) \/ ImportLink(p) \/ ArrMoves(p) \/ ArrRemoves(p)
                        \/ UserDeletes(p) \/ Repairs(p)
    \/ VolumeChanges \/ SettingChanges

SyncSpec == SyncInit /\ [][SyncNext]_syncVars

(* The situations in which what a run deletes is what it should: the       *)
(* library's volume stays, or holds enough files for a run to notice that  *)
(* it is away; and nobody imports during a run, nor are there dry runs.    *)
VolumeCounts == "volume" \notin happens \/ 4 * Others > Cardinality(Titles)
RunsAreAlone == happens \cap {"quick", "dry"} = {}

-----------------------------------------------------------------------------
(* Properties.                                                             *)

(* Every variable has a value of its type.                                 *)
RunType ==
    [at : {"off", "walk", "add", "judge", "orphans", "links", "records"}, number : 0..MaxSyncs,
     clean : BOOLEAN, walked : SUBSET {"meta", "library", "imports"},
     metas : SUBSET Titles, libs : SUBSET Titles, imps : SUBSET Titles,
     blind : BOOLEAN, errors : BOOLEAN, recs : SUBSET Titles, repairs : SUBSET Titles,
     todo : SUBSET Titles, batch : SUBSET Titles]
SyncTypeOK ==
    /\ happens \in Situations /\ strategy \in {"SYMLINK", "STRM", "NONE"}
    /\ libraryDir \in BOOLEAN /\ cleanup \in BOOLEAN /\ volume \in BOOLEAN
    /\ \A X \in {meta, library, imports, linking, imported, pendingMeta, pendingLinks, fresh} : X \subseteq Titles
    /\ record \in [Titles -> {"none", "checked", "repair"}]
    /\ run \in [SyncRuns -> RunType]
    /\ runs \in 0..MaxSyncs /\ done \in 0..MaxSyncs /\ added \in 0..MaxImports
    /\ loose \in [Titles -> SUBSET (0..MaxSyncs)] /\ unsafe \in BOOLEAN /\ bereft \in BOOLEAN

(* "Only delete metadata if it was orphaned in BOTH the current AND        *)
(* previous sync run" of the loop: whatever is deleted was without a link, *)
(* or on its way from one directory to the other, in both; neither a       *)
(* volume that is away nor a run that was cut short or did not clean up    *)
(* counts.                                                                 *)
OrphansWereLooseTwice == ~unsafe

(* A run does not take the health record of a file that was linked in the  *)
(* library, under its path, from the beginning to the end of the run.      *)
LibraryFilesKeepRecords == ~bereft
===============================================================================
