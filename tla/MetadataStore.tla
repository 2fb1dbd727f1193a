---------------------------- MODULE MetadataStore ----------------------------
(***************************************************************************)
(* The metadata of virtual files and the NZB stores they share             *)
(* (internal/metadata/service.go, store.go, knownholes.go and              *)
(* internal/database/store_ref_repository.go): one .meta file per path,    *)
(* which refers to the store of its release; a row that counts the files   *)
(* of a store; a cache of what listings show.                              *)
(*                                                                         *)
(* Operations run in goroutines of their own and take no lock, so each is  *)
(* a sequence of steps on the disk, the table or a cache.  The paths are   *)
(* the files of one directory.  Files with inline segments, which refer to *)
(* no store, are left out.                                                 *)
(***************************************************************************)
EXTENDS Integers, FiniteSets

CONSTANTS
    Paths,         \* virtual paths
    Stores,        \* releases; a release names its store, and is one queue item
    Tasks,         \* goroutines with an operation in progress
    Scenarios,     \* sets of operations and circumstances to look at
    MaxWrites,     \* bound on the files that imports write
    MaxCrashes     \* bound on the crashes

VARIABLES
    allowed,       \* the scenario
    file,          \* path |-> its .meta file: store, status and a hole, or Nothing
    hidden,        \* path |-> the store of its file in corrupted_metadata
    listed,        \* liteCache: path |-> status
    present,       \* the store files on disk
    kept,          \* stores that StoreService has in its cache
    refs,          \* nzb_store_refs: store |-> ref_count, 0 for no row
    importing,     \* the release that is being imported
    task,          \* what each goroutine does
    writes, crashes,
    gapped         \* history: stores with a file that a crash left uncounted

disk == <<file, hidden, present, refs>>
caches == <<listed, kept>>
bounds == <<writes, crashes, gapped>>
storeVars == <<allowed, disk, caches, importing, task, bounds>>

Nothing == [store |-> "none", status |-> "none", hole |-> FALSE]
NoStore == "none"

Operations == {"delete", "directory", "rename", "hide", "status", "hole", "list"}

(* source: deletions take the source NZB along; single: every release has  *)
(* one file; overlap: operations on the same path at the same time; early: *)
(* deletion or repeated import of files of the release that is being       *)
(* imported; again: import of a release that has files.                    *)
Circumstances == {"source", "single", "overlap", "early", "again", "crash"}

ASSUME StoreAssumption ==
    /\ \A S \in Scenarios : S \subseteq Operations \cup Circumstances
    /\ MaxWrites \in Nat /\ MaxCrashes \in Nat
    /\ IsFiniteSet(Paths) /\ IsFiniteSet(Stores) /\ IsFiniteSet(Tasks)
    /\ Paths \cap Stores = {} /\ "none" \notin Paths \cup Stores

NoDecs == [s \in Stores |-> 0]
NoTask == [op |-> "none", at |-> "idle", path |-> "none", to |-> "none", rec |-> Nothing,
           decs |-> NoDecs]

StoreInit ==
    /\ allowed \in Scenarios
    /\ file = [p \in Paths |-> Nothing] /\ hidden = [p \in Paths |-> NoStore]
    /\ listed = [p \in Paths |-> "none"] /\ kept = {}
    /\ present = {} /\ refs = [s \in Stores |-> 0]
    /\ importing = NoStore /\ task = [t \in Tasks |-> NoTask]
    /\ writes = 0 /\ crashes = 0 /\ gapped = {}

-----------------------------------------------------------------------------
Touches(t) == IF task[t].at = "idle" THEN {}
              ELSE IF task[t].op = "directory" THEN Paths ELSE {task[t].path, task[t].to}

(* No other operation is on one of the paths, or the scenario has overlaps. *)
Free(X) == "overlap" \in allowed \/ \A t \in Tasks : Touches(t) \cap X = {}

(* The paths have no file of the release that is being imported.           *)
Spared(X) == "early" \in allowed \/ \A p \in X : file[p] = Nothing \/ file[p].store # importing

(* ReadFileMetadata needs the segments of the store.                       *)
Readable(p) == file[p] # Nothing /\ file[p].store \in present \cup kept

Begin(t, op, p, at) ==
    /\ task[t].at = "idle"
    /\ task' = [task EXCEPT ![t] = [NoTask EXCEPT !.op = op, !.path = p, !.at = at]]

Goto(t, at) == task' = [task EXCEPT ![t].at = at]
Done(t) == task' = [task EXCEPT ![t] = NoTask]

(* A read of the file caches its store and what listings show of it.       *)
CacheRead(p) ==
    /\ kept' = kept \cup {file[p].store}
    /\ listed' = [listed EXCEPT ![p] = file[p].status]

-----------------------------------------------------------------------------
(* Import: the store first, then the files, each in a goroutine.           *)

ImportBegin(s) ==
    /\ importing = NoStore
    /\ "again" \in allowed \/ /\ \A p \in Paths : file[p].store # s /\ hidden[p] # s
                              /\ \A t \in Tasks : task[t].rec.store # s /\ task[t].decs[s] = 0 /\ task[t].to # s
    /\ importing' = s
    /\ present' = present \cup {s} /\ kept' = kept \cup {s}
    /\ UNCHANGED <<allowed, file, hidden, refs, listed, task, bounds>>

ImportEnd ==
    /\ importing # NoStore /\ \A t \in Tasks : task[t].op # "import"
    /\ importing' = NoStore
    /\ UNCHANGED <<allowed, disk, caches, task, bounds>>

(* A path with a healthy file is not used.  A file that is not healthy is  *)
(* deleted first when the release has several files, and overwritten when  *)
(* it has one.                                                             *)
ImportFile(t, p) ==
    /\ importing # NoStore /\ writes < MaxWrites
    /\ Free({p}) /\ Spared({p}) /\ ~(Readable(p) /\ file[p].status = "healthy")
    /\ "single" \in allowed => \A q \in Paths, u \in Tasks : file[q].store # importing /\ task[u].op # "import"
    /\ writes' = writes + 1
    /\ \/ file[p] # Nothing /\ Begin(t, "import", p, "delete")
       \/ Begin(t, "import", p, "write")
    /\ UNCHANGED <<allowed, disk, caches, importing, crashes, gapped>>

(* WriteFileMetadata: a temporary file that is renamed over the old one.   *)
Write(t) ==
    /\ task[t].at = "write"
    /\ LET rec == IF task[t].op = "import"
                  THEN [store |-> importing, status |-> "healthy", hole |-> FALSE]
                  ELSE task[t].rec IN
       /\ file' = [file EXCEPT ![task[t].path] = rec]
       /\ task' = [task EXCEPT ![t].rec = rec, ![t].at = "list"]
    /\ UNCHANGED <<allowed, hidden, present, refs, caches, importing, bounds>>

(* Then liteCache.Add.                                                     *)
CacheListed(t) ==
    /\ task[t].at = "list"
    /\ listed' = [listed EXCEPT ![task[t].path] = task[t].rec.status]
    /\ IF task[t].op = "import" THEN Goto(t, "count") ELSE Done(t)
    /\ UNCHANGED <<allowed, disk, kept, importing, bounds>>

(* Faulty variant: the write and its caller both count the file.           *)
CountedTwice(n) == n + 2

(* Faulty variant: one more file of a counted store is not counted.        *)
CountedOnce(n) == IF n = 0 THEN 1 ELSE n
Counted(n) == n + 1

(* WriteFileMetadataV3 counts the file after it has written it.            *)
IncStoreRef(t) ==
    /\ task[t].at = "count"
    /\ refs' = [refs EXCEPT ![task[t].rec.store] = Counted(@)]
    /\ Done(t)
    /\ UNCHANGED <<allowed, file, hidden, present, caches, importing, bounds>>

-----------------------------------------------------------------------------
(* Deletion of a file, with its store when it was the last one.            *)

Delete(t, p) ==
    /\ "delete" \in allowed
    /\ Free({p}) /\ Spared({p}) /\ file[p] # Nothing
    /\ Begin(t, "delete", p, "delete")
    /\ UNCHANGED <<allowed, disk, caches, importing, bounds>>

(* The entry of listings is removed, and the read that finds out about the *)
(* store brings it back.                                                   *)
DeleteRead(t) ==
    /\ task[t].at = "delete"
    /\ LET p == task[t].path IN
       IF Readable(p)
       THEN /\ CacheRead(p)
            /\ task' = [task EXCEPT ![t].at = "unlink", ![t].decs[file[p].store] = 1]
       ELSE /\ listed' = [listed EXCEPT ![p] = "none"]
            /\ Goto(t, "unlink")
            /\ UNCHANGED kept
    /\ UNCHANGED <<allowed, disk, importing, bounds>>

Unlink(t) ==
    /\ task[t].at = "unlink"
    /\ file' = [file EXCEPT ![task[t].path] = Nothing]
    /\ Goto(t, IF "source" \in allowed /\ task[t].op = "delete" THEN "source" ELSE "uncount")
    /\ UNCHANGED <<allowed, hidden, present, refs, caches, importing, bounds>>

(* The source NZB of a file that refers to a store is the store.           *)
DeleteSource(t) ==
    /\ task[t].at = "source"
    /\ present' = {s \in present : task[t].decs[s] = 0}
    /\ Goto(t, "uncount")
    /\ UNCHANGED <<allowed, file, hidden, refs, caches, importing, bounds>>

(* Faulty variant: the store goes with its last but one file.              *)
NoneLeftEarly(n) == n <= 2
NoneLeft(n) == n <= 1

(* DecStoreRef, once for every file of the store: a row that comes to      *)
(* zero, or is not there, makes an orphan of the store after the last one. *)
DecStoreRef(t, s) ==
    /\ task[t].at = "uncount" /\ task[t].decs[s] > 0
    /\ refs' = [refs EXCEPT ![s] = IF NoneLeft(@) THEN 0 ELSE @ - 1]
    /\ task' = [task EXCEPT ![t].decs[s] = @ - 1, ![t].to = s,
                            ![t].at = IF NoneLeft(refs[s]) /\ task[t].decs[s] = 1
                                      THEN "drop" ELSE "uncount"]
    /\ task[t].to \in Stores => task[t].to = s \/ task[t].decs[task[t].to] = 0
    /\ UNCHANGED <<allowed, file, hidden, present, caches, importing, bounds>>

DropStore(t) ==
    /\ task[t].at = "drop"
    /\ present' = present \ {task[t].to}
    /\ Goto(t, "uncount")
    /\ UNCHANGED <<allowed, file, hidden, refs, caches, importing, bounds>>

(* An import goes on with the write of its file.                           *)
Deleted(t) ==
    /\ task[t].at = "uncount" /\ task[t].decs = NoDecs
    /\ IF task[t].op = "import" THEN task' = [task EXCEPT ![t].at = "write", ![t].to = "none"]
                                ELSE Done(t)
    /\ UNCHANGED <<allowed, disk, caches, importing, bounds>>

(* DeleteDirectory: the stores are counted before everything is removed.   *)
DeleteDirectory(t) ==
    /\ "directory" \in allowed
    /\ Free(Paths) /\ Spared(Paths)
    /\ Begin(t, "directory", "none", "walk")
    /\ listed' = [p \in Paths |-> "none"]
    /\ UNCHANGED <<allowed, disk, kept, importing, bounds>>

FilesOf(s) == {p \in Paths : file[p].store = s}

Walk(t) ==
    /\ task[t].at = "walk"
    /\ task' = [task EXCEPT ![t].at = "removeAll",
                            ![t].decs = [s \in Stores |-> Cardinality(FilesOf(s))]]
    /\ UNCHANGED <<allowed, disk, caches, importing, bounds>>

RemoveAll(t) ==
    /\ task[t].at = "removeAll"
    /\ file' = [p \in Paths |-> Nothing]
    /\ Goto(t, "uncount")
    /\ UNCHANGED <<allowed, hidden, present, refs, caches, importing, bounds>>

-----------------------------------------------------------------------------
(* Faulty variant: what is listed for the new path stays.                  *)
UnlistedOld(p, q) == [listed EXCEPT ![p] = "none"]
Unlisted(p, q) == [listed EXCEPT ![p] = "none", ![q] = "none"]

(* RenameFileMetadata, also over a file that is there.                     *)
Rename(t, p, q) ==
    /\ "rename" \in allowed /\ p # q
    /\ Free({p, q}) /\ file[p] # Nothing
    /\ task[t].at = "idle"
    /\ task' = [task EXCEPT ![t] = [NoTask EXCEPT !.op = "rename", !.at = "move", !.path = p, !.to = q]]
    /\ listed' = Unlisted(p, q)
    /\ UNCHANGED <<allowed, disk, kept, importing, bounds>>

RenameMove(t) ==
    /\ task[t].at = "move"
    /\ file' = IF file[task[t].path] = Nothing THEN file
               ELSE [file EXCEPT ![task[t].path] = Nothing, ![task[t].to] = file[task[t].path]]
    /\ Done(t)
    /\ UNCHANGED <<allowed, hidden, present, refs, caches, importing, bounds>>

(* MoveToCorrupted: the file still refers to its store, and is counted.    *)
Hide(t, p) ==
    /\ "hide" \in allowed
    /\ Free({p}) /\ file[p] # Nothing
    /\ Begin(t, "hide", p, "hide")
    /\ listed' = [listed EXCEPT ![p] = "none"]
    /\ UNCHANGED <<allowed, disk, kept, importing, bounds>>

HideMove(t) ==
    /\ task[t].at = "hide"
    /\ IF file[task[t].path] = Nothing THEN UNCHANGED <<file, hidden>>
       ELSE /\ hidden' = [hidden EXCEPT ![task[t].path] = file[task[t].path].store]
            /\ file' = [file EXCEPT ![task[t].path] = Nothing]
    /\ Done(t)
    /\ UNCHANGED <<allowed, present, refs, caches, importing, bounds>>

(* UpdateFileMetadata: UpdateFileStatus and AddKnownHoles read the file,   *)
(* change it and write it back.                                            *)
Update(t, p, what) ==
    /\ what \in {"status", "hole"} \cap allowed
    /\ Free({p}) /\ Readable(p)
    /\ task[t].at = "idle"
    /\ CacheRead(p)
    /\ \E status \in {"healthy", "degraded"} :
          LET rec == IF what = "hole" THEN [file[p] EXCEPT !.hole = TRUE]
                                      ELSE [file[p] EXCEPT !.status = status] IN
          task' = [task EXCEPT ![t] = [NoTask EXCEPT !.op = what, !.path = p, !.at = "write", !.rec = rec]]
    /\ UNCHANGED <<allowed, disk, importing, bounds>>

(* ReadFileMetadataLite, when the entry is not cached.                     *)
List(t, p) ==
    /\ "list" \in allowed
    /\ Free({p}) /\ listed[p] = "none" /\ file[p] # Nothing
    /\ task[t].at = "idle"
    /\ task' = [task EXCEPT ![t] = [NoTask EXCEPT !.op = "list", !.path = p, !.at = "list", !.rec = file[p]]]
    /\ UNCHANGED <<allowed, disk, caches, importing, bounds>>

(* The cache of stores makes room.                                         *)
ForgetStore(s) ==
    /\ s \in kept
    /\ kept' = kept \ {s}
    /\ UNCHANGED <<allowed, disk, listed, importing, task, bounds>>

(* The imported files of a store that are written and not counted yet.     *)
Uncounted(s) == {t \in Tasks : task[t].op = "import" /\ task[t].at \in {"list", "count"}
                                 /\ task[t].rec.store = s}

(* The process ends, at any step; nothing at the start counts the files    *)
(* again.                                                                  *)
StoreCrash ==
    /\ "crash" \in allowed /\ crashes < MaxCrashes
    /\ crashes' = crashes + 1
    /\ gapped' = gapped \cup {s \in Stores : Uncounted(s) # {}}
    /\ listed' = [p \in Paths |-> "none"] /\ kept' = {}
    /\ importing' = NoStore /\ task' = [t \in Tasks |-> NoTask]
    /\ UNCHANGED <<allowed, disk, writes>>

TaskStep(t) ==
    \/ Write(t) \/ CacheListed(t) \/ IncStoreRef(t)
    \/ DeleteRead(t) \/ Unlink(t) \/ DeleteSource(t) \/ DropStore(t) \/ Deleted(t)
    \/ \E s \in Stores : DecStoreRef(t, s)
    \/ Walk(t) \/ RemoveAll(t) \/ RenameMove(t) \/ HideMove(t)

StoreNext ==
    \/ \E s \in Stores : ImportBegin(s) \/ ForgetStore(s)
    \/ ImportEnd \/ StoreCrash
    \/ \E t \in Tasks : TaskStep(t) \/ DeleteDirectory(t)
    \/ \E t \in Tasks, p \in Paths :
          \/ ImportFile(t, p) \/ Delete(t, p) \/ Hide(t, p) \/ List(t, p)
          \/ \E what \in {"status", "hole"} : Update(t, p, what)
          \/ \E q \in Paths : Rename(t, p, q)

-----------------------------------------------------------------------------
(* Properties.                                                             *)

StoreSpec == StoreInit /\ [][StoreNext]_storeVars

(* The scenarios in which deletions are careful: one operation at a time   *)
(* on a path, none on the files of the release that is being imported, and *)
(* a source NZB goes along only with the one file of its release.  Crashes *)
(* may come at any step.                                                   *)
CarefulUse ==
    /\ allowed \cap {"overlap", "early", "again"} = {}
    /\ "source" \in allowed => "single" \in allowed /\ "hide" \notin allowed

RecType == [store : Stores, status : {"healthy", "degraded"}, hole : BOOLEAN]
TaskType ==
    [op : Operations \cup {"import", "none"},
     at : {"idle", "delete", "unlink", "source", "uncount", "drop", "write", "list", "count",
           "walk", "removeAll", "move", "hide"},
     path : Paths \cup {"none"}, to : Paths \cup Stores \cup {"none"},
     rec : RecType \cup {Nothing}, decs : [Stores -> Nat]]

(* Every variable has a value of its type.                                 *)
StoreTypeOK ==
    /\ allowed \in Scenarios
    /\ file \in [Paths -> RecType \cup {Nothing}] /\ hidden \in [Paths -> Stores \cup {NoStore}]
    /\ listed \in [Paths -> {"none", "healthy", "degraded"}]
    /\ present \subseteq Stores /\ kept \subseteq Stores /\ importing \in Stores \cup {NoStore}
    /\ refs \in [Stores -> Nat] /\ task \in [Tasks -> TaskType]
    /\ writes \in 0..MaxWrites /\ crashes \in 0..MaxCrashes /\ gapped \subseteq Stores

(* "When all .meta files that reference a given store are deleted, the     *)
(* refcount hits 0 and the caller can delete the store file", and no       *)
(* sooner: the store of every file is there, of a file that was moved to   *)
(* corrupted_metadata and can be restored too.  The exception is a store   *)
(* of which a crash came between the write of a file and its count         *)
(* (service.go:277-283): it goes with its last but one file.               *)
StoreOutlivesFiles ==
    \A p \in Paths : /\ file[p] # Nothing /\ file[p].store \notin gapped => file[p].store \in present
                     /\ hidden[p] # NoStore /\ hidden[p] \notin gapped => hidden[p] \in present

(* The same without the exception: a crash never costs a file its store.   *)
(* TLC finds it violated.                                                  *)
CrashesSpareStores ==
    \A p \in Paths : /\ file[p] # Nothing => file[p].store \in present
                     /\ hidden[p] # NoStore => hidden[p] \in present

(* No store is forgotten while it is in use: its count and the counts that *)
(* are on their way cover its files, unless a crash lost such a count.     *)
CountsCoverFiles ==
    \A s \in Stores \ gapped : refs[s] + Cardinality(Uncounted(s)) >=
        Cardinality(FilesOf(s)) + Cardinality({p \in Paths : hidden[p] = s})

(* While nothing is done to a file, listings show its status.              *)
ListingIsCurrent ==
    \A p \in Paths : file[p] # Nothing /\ listed[p] # "none" /\ (\A t \in Tasks : p \notin Touches(t))
        => listed[p] = file[p].status

(* "the write is idempotent and concurrent discoveries collapse": a hole   *)
(* that was written stays as long as the file does.                        *)
HolesAreKept ==
    [][\A p \in Paths : file[p].hole /\ file'[p] # Nothing /\ file'[p].store = file[p].store
                           => file'[p].hole]_storeVars
===============================================================================
