----------------------------- MODULE SegmentCache -----------------------------
(***************************************************************************)
(* The on-disk cache of decoded segments (internal/nzbfilesystem/segcache):*)
(* the catalog in memory, the data files and temporary files, catalog.json *)
(* and the manager's three goroutines, with readers that call Get and Put  *)
(* at any time.  The process may crash, and a configuration change stops   *)
(* the manager and starts another one over the same directory, while       *)
(* readers opened before still hold the old cache.                         *)
(*                                                                         *)
(* Every segment has size 1, so a size is a number of segments, and the    *)
(* catalog is kept in the order of LastAccess.  os.WriteFile is an open    *)
(* that truncates and a write; a rename moves the inode, also under a      *)
(* writer that still has it open.                                          *)
(***************************************************************************)
EXTENDS Integers, Sequences, SequencesExt, FiniteSets

CONSTANTS
    Segments,      \* message ids
    Callers,       \* readers' goroutines that use the cache
    Capacity,      \* MaxSizeBytes, in segments
    MaxStarts,     \* bound on the starts after the first one
    MaxFailedReads \* bound on the entries deleted by failed reads

VARIABLES
    catalog,       \* keys of c.items, least recently used first
    total,         \* c.totalSize
    dirty,         \* c.dirty
    data,          \* contents of each segment's data file
    temp,          \* contents of each segment's temporary file
    saved,         \* catalog.json, in order
    call,          \* each caller's Get or Put in progress
    load,          \* LoadCatalog: "waiting", "loading" or "done"
    save,          \* SaveCatalog in progress, of the flush loop or of Stop
    manager,       \* "running", "stopping" or "stopped"
    starts,
    failedReads,   \* history: reads that failed, since the catalog was loaded
    overlapped     \* history: segments with two Puts at the same time

memory == <<catalog, total, dirty>>
files == <<data, temp, saved>>
loops == <<load, save, manager, starts>>
history == <<failedReads, overlapped>>
cacheVars == <<memory, files, call, loops, history>>

Contents == {"none", "partial", "whole"}

NoFile == <<"no file">>

(* A caller is idle or at a point of Get or of Put; own tells if the cache *)
(* it uses is the current one, file where the file it has open is now.     *)
IdleCall == [at |-> "idle", id |-> "none", own |-> TRUE, file |-> "none"]
CallOf(at, id, own, file) == [at |-> at, id |-> id, own |-> own, file |-> file]

InCatalog(id) == id \in ToSet(catalog)

Without(ids, gone) == SelectSeq(ids, LAMBDA id : id \notin gone)

CacheInit ==
    /\ catalog = <<>> /\ total = 0 /\ dirty = FALSE
    /\ data = [s \in Segments |-> "none"]
    /\ temp = [s \in Segments |-> "none"]
    /\ saved = NoFile
    /\ call = [c \in Callers |-> IdleCall]
    /\ load = "waiting" /\ save = "idle" /\ manager = "running" /\ starts = 0
    /\ failedReads = 0 /\ overlapped = {}

-----------------------------------------------------------------------------
(* Get.                                                                    *)

(* A hit; LastAccess is moved only when it is a minute old.                *)
GetLookup(c, id) ==
    /\ call[c].at = "idle" /\ InCatalog(id)
    /\ call' = [call EXCEPT ![c] = CallOf("read", id, TRUE, "none")]
    /\ \/ UNCHANGED memory
       \/ /\ catalog' = Append(Without(catalog, {id}), id)
          /\ dirty' = TRUE
          /\ UNCHANGED total
    /\ UNCHANGED <<files, loops, history>>

(* The file is read without the lock, and may have been removed.           *)
GetRead(c) ==
    /\ call[c].at = "read"
    /\ call' = [call EXCEPT ![c] =
                   IF data[@.id] = "none" THEN [@ EXCEPT !.at = "drop"] ELSE IdleCall]
    /\ UNCHANGED <<memory, files, loops, history>>

(* The entry of an unreadable file is deleted: total and dirty stay.       *)
GetDrop(c) ==
    /\ call[c].at = "drop" /\ failedReads < MaxFailedReads
    /\ call' = [call EXCEPT ![c] = IdleCall]
    /\ IF call[c].own
       THEN /\ catalog' = Without(catalog, {call[c].id})
            /\ failedReads' = failedReads + Len(catalog) - Len(catalog')
       ELSE UNCHANGED <<catalog, failedReads>>
    /\ UNCHANGED <<total, dirty, files, loops, overlapped>>

-----------------------------------------------------------------------------
(* Put.                                                                    *)

(* What becomes of the open files when the inode at `from` goes to `to`.   *)
Moved(id, from, to) ==
    [c \in Callers |->
        IF call[c].id = id /\ call[c].file = from THEN [call[c] EXCEPT !.file = to]
        ELSE IF call[c].id = id /\ call[c].file = to THEN [call[c] EXCEPT !.file = "none"]
        ELSE call[c]]

(* The gate, and the open of the temporary file; a reader opened before a  *)
(* change of the configuration uses the cache of that time.                *)
PutOpen(c, id, own) ==
    /\ call[c].at = "idle"
    /\ IF own THEN load # "loading" ELSE starts > 0
    /\ temp' = [temp EXCEPT ![id] = "partial"]
    /\ call' = [call EXCEPT ![c] = CallOf("write", id, own, "temp")]
    /\ overlapped' = IF \E d \in Callers : call[d].id = id /\ call[d].at \in {"write", "rename"}
                     THEN overlapped \cup {id} ELSE overlapped
    /\ UNCHANGED <<memory, data, saved, loops, failedReads>>

PutWrite(c) ==
    /\ call[c].at = "write"
    /\ LET id == call[c].id IN
       /\ temp' = IF call[c].file = "temp" THEN [temp EXCEPT ![id] = "whole"] ELSE temp
       /\ data' = IF call[c].file = "data" THEN [data EXCEPT ![id] = "whole"] ELSE data
    /\ call' = [call EXCEPT ![c].at = "rename", ![c].file = "none"]
    /\ UNCHANGED <<memory, saved, loops, history>>

(* Faulty variant: the error of the write is ignored.                      *)
PutWriteFailsIgnored(c) ==
    /\ call[c].at = "write"
    /\ call' = [call EXCEPT ![c].at = "rename", ![c].file = "none"]
    /\ UNCHANGED <<memory, files, loops, history>>

(* A write that fails returns and leaves the temporary file.               *)
PutWriteFails(c) ==
    /\ call[c].at = "write"
    /\ call' = [call EXCEPT ![c] = IdleCall]
    /\ UNCHANGED <<memory, files, loops, history>>

(* The rename fails when another Put of the segment has moved the file.    *)
PutRename(c) ==
    /\ call[c].at = "rename"
    /\ LET id == call[c].id IN
       IF temp[id] = "none"
       THEN call' = [call EXCEPT ![c] = IdleCall] /\ UNCHANGED files
       ELSE /\ data' = [data EXCEPT ![id] = temp[id]]
            /\ temp' = [temp EXCEPT ![id] = "none"]
            /\ call' = [Moved(id, "temp", "data") EXCEPT ![c].at = "enter"]
            /\ UNCHANGED saved
    /\ UNCHANGED <<memory, loops, history>>

(* Faulty variant: the size of the entry that is replaced stays counted.   *)
PutEnterTwice(c) ==
    /\ call[c].at = "enter"
    /\ IF call[c].own
       THEN /\ catalog' = Append(Without(catalog, {call[c].id}), call[c].id)
            /\ total' = total + 1
       ELSE UNCHANGED <<catalog, total>>
    /\ dirty' = (dirty \/ call[c].own)
    /\ call' = [call EXCEPT ![c] = IdleCall]
    /\ UNCHANGED <<files, loops, history>>

(* The entry, under the lock, and the mark that the catalog is dirty.      *)
PutEnter(c) ==
    /\ call[c].at = "enter"
    /\ IF call[c].own
       THEN /\ catalog' = Append(Without(catalog, {call[c].id}), call[c].id)
            /\ total' = total + (IF InCatalog(call[c].id) THEN 0 ELSE 1)
       ELSE UNCHANGED <<catalog, total>>
    /\ dirty' = (dirty \/ call[c].own)
    /\ call' = [call EXCEPT ![c] = IdleCall]
    /\ UNCHANGED <<files, loops, history>>

-----------------------------------------------------------------------------
(* The cleanup loop.                                                       *)

(* Faulty variant: what is removed stays in the total.                     *)
TotalWithoutNone(n) == total
TotalWithout(n) == total - n

(* The n least recently used entries and their files are removed; a writer *)
(* that still has one of the files open writes to a removed inode.         *)
RemoveOldest(n) ==
    LET gone == {catalog[i] : i \in 1..n} IN
    /\ catalog' = SubSeq(catalog, n + 1, Len(catalog))
    /\ total' = TotalWithout(n)
    /\ dirty' = TRUE
    /\ data' = [s \in Segments |-> IF s \in gone THEN "none" ELSE data[s]]
    /\ call' = [c \in Callers |-> IF call[c].id \in gone /\ call[c].file = "data"
                                  THEN [call[c] EXCEPT !.file = "none"] ELSE call[c]]
    /\ UNCHANGED <<temp, saved, loops, history>>

(* Entries that were not accessed within ExpiryDuration.                   *)
Cleanup ==
    /\ manager = "running"
    /\ \E n \in 1..Len(catalog) : RemoveOldest(n)

(* The fewest of the oldest entries that bring the total below the limit.  *)
Evict ==
    /\ manager = "running" /\ total > Capacity
    /\ LET n == total - Capacity IN
       IF catalog = <<>> THEN UNCHANGED cacheVars
       ELSE RemoveOldest(IF n < Len(catalog) THEN n ELSE Len(catalog))

-----------------------------------------------------------------------------
(* SaveCatalog, from the flush loop and, when the loops have ended, from   *)
(* Stop; it does nothing when the catalog is not dirty.  A save that fails *)
(* writes nothing, so that it is no step.                                  *)

(* The snapshot, and catalog.json replaced by a rename.                    *)
SaveWrite ==
    /\ save = "idle" /\ dirty
    /\ \/ manager = "running"
       \/ manager = "stopping" /\ load # "loading"
    /\ saved' = catalog /\ save' = "clear"
    /\ UNCHANGED <<memory, data, temp, call, load, manager, starts, history>>

(* The flag is cleared after the write, whatever happened in between.      *)
SaveClear ==
    /\ save = "clear"
    /\ dirty' = FALSE /\ save' = "idle"
    /\ UNCHANGED <<catalog, total, files, call, load, manager, starts, history>>

-----------------------------------------------------------------------------
(* LoadCatalog, Start and Stop.                                            *)

LoadGate ==
    /\ load = "waiting"
    /\ load' = "loading"
    /\ UNCHANGED <<memory, files, call, save, manager, starts, history>>

(* The entries whose data file exists replace the catalog.                 *)
LoadAssign ==
    /\ load = "loading"
    /\ load' = "done"
    /\ \/ LET found == Without(saved, {s \in Segments : data[s] = "none"}) IN
          /\ saved # NoFile
          /\ catalog' = found /\ total' = Len(found) /\ failedReads' = 0
       \/ UNCHANGED <<catalog, total, failedReads>>    \* no catalog.json, or it cannot be read
    /\ UNCHANGED <<dirty, files, call, save, manager, starts, overlapped>>

(* A change of the configuration: cancel, then wait for the goroutines.    *)
StopBegin ==
    /\ manager = "running" /\ starts < MaxStarts
    /\ manager' = "stopping"
    /\ UNCHANGED <<memory, files, call, load, save, starts, history>>

(* Stop's own save has been made, or was not needed, or has failed.        *)
StopEnd ==
    /\ manager = "stopping" /\ load = "done" /\ save = "idle"
    /\ manager' = "stopped"
    /\ UNCHANGED <<memory, files, call, load, save, starts, history>>

(* A new cache and its manager; calls in progress stay with the old one.   *)
Fresh ==
    /\ catalog' = <<>> /\ total' = 0 /\ dirty' = FALSE /\ failedReads' = 0
    /\ load' = "waiting" /\ save' = "idle" /\ manager' = "running"
    /\ starts' = starts + 1

StartAgain ==
    /\ manager = "stopped"
    /\ Fresh
    /\ call' = [c \in Callers |-> IF call[c] = IdleCall THEN IdleCall
                                  ELSE [call[c] EXCEPT !.own = FALSE]]
    /\ UNCHANGED <<files, overlapped>>

(* The process dies and is started again: the files are as they were.      *)
CacheCrash ==
    /\ starts < MaxStarts
    /\ Fresh
    /\ call' = [c \in Callers |-> IdleCall]
    /\ UNCHANGED <<files, overlapped>>

CallerStep(c) ==
    \/ \E id \in Segments : GetLookup(c, id) \/ \E own \in BOOLEAN : PutOpen(c, id, own)
    \/ GetRead(c) \/ GetDrop(c)
    \/ PutWrite(c) \/ PutWriteFails(c) \/ PutRename(c) \/ PutEnter(c)

ManagerStep ==
    \/ Cleanup \/ Evict
    \/ SaveWrite \/ SaveClear
    \/ LoadGate \/ LoadAssign
    \/ StopBegin \/ StopEnd \/ StartAgain \/ CacheCrash

CacheNext == ManagerStep \/ \E c \in Callers : CallerStep(c)

CacheSpec == CacheInit /\ [][CacheNext]_cacheVars

-----------------------------------------------------------------------------
(* Properties.                                                             *)

IdSequences == UNION {[1..n -> Segments] : n \in 0..Cardinality(Segments)}

(* Every variable has a value of its type: ids are in the catalog once and *)
(* the total has a bound.                                                  *)
CacheTypeOK ==
    /\ catalog \in IdSequences /\ IsInjective(catalog)
    /\ total \in 0..(Cardinality(Segments) + MaxFailedReads) /\ dirty \in BOOLEAN
    /\ data \in [Segments -> Contents] /\ temp \in [Segments -> Contents]
    /\ saved \in IdSequences \cup {NoFile}
    /\ call \in [Callers -> [at : {"idle", "read", "drop", "write", "rename", "enter"},
                             id : Segments \cup {"none"}, own : BOOLEAN,
                             file : {"none", "temp", "data"}]]
    /\ load \in {"waiting", "loading", "done"}
    /\ save \in {"idle", "clear"}
    /\ manager \in {"running", "stopping", "stopped"} /\ starts \in 0..MaxStarts
    /\ failedReads \in 0..MaxFailedReads /\ overlapped \subseteq Segments

(* A data file is never left truncated by a Put that failed or by a crash  *)
(* in the middle of a Put: the temporary file and the rename see to that,  *)
(* unless two Puts of the segment shared the temporary file.               *)
TruncatedOnlyByOverlap == \A s \in Segments : data[s] = "partial" => s \in overlapped

(* The accounting that decides about evictions differs from the catalog by *)
(* the entries whose file could not be read and by nothing else, through   *)
(* replaced entries, evictions, expiry, hydration and restarts.            *)
SizeDriftsOnlyByFailedReads == total = Len(catalog) + failedReads

(* "Put stores segment bytes atomically (temp-write + rename)."            *)
CachedFilesAreWhole == \A s \in Segments : data[s] # "partial"

(* "TotalSize returns the total bytes occupied by cached segments."        *)
TotalIsOccupied == total <= Len(catalog)

(* "Stop shuts down background goroutines and saves the catalog."          *)
StopSavesCatalog ==
    manager = "stopped" /\ (\A c \in Callers : call[c] = IdleCall) => saved = catalog
=============================================================================
