---------------------------- MODULE Storage_proofs ----------------------------
(***************************************************************************)
(* Proofs about SegmentCache, LibrarySync and MetadataStore: which data    *)
(* files of the cache can be truncated, what a library synchronisation     *)
(* deletes, and that under careful use no NZB store goes before the last   *)
(* file that refers to it.                                                 *)
(***************************************************************************)
EXTENDS SegmentCache, LibrarySync, MetadataStore, FiniteSetTheorems, TLAPS

-----------------------------------------------------------------------------
(* SegmentCache.                                                           *)

Puts == {"write", "rename"}

(* What the files and the calls are made of.                               *)
FilesTyped ==
    /\ data \in [Segments -> Contents] /\ temp \in [Segments -> Contents]
    /\ overlapped \subseteq Segments
CallType == [at : {"idle", "read", "drop", "write", "rename", "enter"}, id : Segments \cup {"none"},
             own : BOOLEAN, file : {"none", "temp", "data"}]
CallsTyped == call \in [Callers -> CallType]

(* Only a Put that has not written yet has a file open.                    *)
OnlyWritersHaveFiles ==
    \A c \in Callers : /\ call[c].file # "none" => call[c].at = "write"
                       /\ call[c].at \in Puts => call[c].id \in Segments

(* A Put that was never beside another one of its segment is alone with    *)
(* the temporary file, and has written all of it before the rename.        *)
LonePutsOwnTheirFile ==
    \A c \in Callers : call[c].at \in Puts /\ call[c].id \notin overlapped =>
        /\ \A d \in Callers : call[d].at \in Puts /\ call[d].id = call[c].id => d = c
        /\ call[c].at = "write" => call[c].file = "temp"
        /\ call[c].at = "rename" => temp[call[c].id] = "whole"

CacheInv ==
    /\ FilesTyped /\ CallsTyped /\ OnlyWritersHaveFiles /\ LonePutsOwnTheirFile /\ TruncatedOnlyByOverlap

(* The fields of a call. *)
LEMMA CallFields ==
    ASSUME CallsTyped, NEW c \in Callers
    PROVE  /\ call[c] \in CallType /\ call[c].id \in Segments \cup {"none"}
           /\ call[c] = [at |-> call[c].at, id |-> call[c].id, own |-> call[c].own, file |-> call[c].file]
BY DEF CallsTyped, CallType

(* One call goes on, and the files stay.                                   *)
LEMMA CallGoesOn ==
    ASSUME CacheInv, NEW c \in Callers, NEW f \in CallType, call' = [call EXCEPT ![c] = f],
           UNCHANGED <<files, overlapped>>, f.at \notin Puts, f.file = "none"
    PROVE  CacheInv'
<1>1. FilesTyped' /\ TruncatedOnlyByOverlap'
  BY DEF CacheInv, FilesTyped, TruncatedOnlyByOverlap, files
<1>2. CallsTyped' /\ call'[c] = f /\ \A d \in Callers \ {c} : call'[d] = call[d]
  BY DEF CacheInv, CallsTyped
<1>3. OnlyWritersHaveFiles'
  BY <1>2 DEF CacheInv, OnlyWritersHaveFiles
<1>4. LonePutsOwnTheirFile'
  BY <1>2 DEF CacheInv, LonePutsOwnTheirFile, files
<1> QED BY <1>1, <1>2, <1>3, <1>4 DEF CacheInv

(* Nothing changes but the memory and the manager.                         *)
LEMMA FilesStay ==
    ASSUME CacheInv, UNCHANGED <<data, temp, call, overlapped>>
    PROVE  CacheInv'
BY DEF CacheInv, FilesTyped, CallsTyped, OnlyWritersHaveFiles, LonePutsOwnTheirFile, TruncatedOnlyByOverlap

(* A Get opens no data file for writing. *)
LEMMA GetKeeps ==
    ASSUME CacheInv, NEW c \in Callers,
           GetRead(c) \/ GetDrop(c) \/ \E id \in Segments : GetLookup(c, id)
    PROVE  CacheInv'
<1>0. CallsTyped
  BY DEF CacheInv
<1>1. IdleCall \in CallType /\ IdleCall.at = "idle" /\ IdleCall.file = "none"
  BY DEF IdleCall, CallType
<1>2. ASSUME NEW id \in Segments, GetLookup(c, id)
      PROVE  CacheInv'
  <2>1. /\ CallOf("read", id, TRUE, "none") \in CallType
        /\ CallOf("read", id, TRUE, "none").at = "read" /\ CallOf("read", id, TRUE, "none").file = "none"
    BY DEF CallOf, CallType
  <2> QED BY <1>2, <2>1, CallGoesOn DEF GetLookup, history, Puts
<1>3. CASE GetRead(c)
  <2> DEFINE f == [call[c] EXCEPT !.at = "drop"]
  <2>1. f \in CallType /\ f.at = "drop" /\ f.file = "none"
    BY <1>0, <1>3, CallFields DEF CacheInv, OnlyWritersHaveFiles, CallType, GetRead
  <2>2. call' = [call EXCEPT ![c] = f] \/ call' = [call EXCEPT ![c] = IdleCall]
    BY <1>3 DEF GetRead
  <2> HIDE DEF f
  <2> QED BY <1>1, <1>3, <2>1, <2>2, CallGoesOn DEF GetRead, history, Puts
<1>4. CASE GetDrop(c)
  BY <1>1, <1>4, CallGoesOn DEF GetDrop, Puts
<1> QED BY <1>2, <1>3, <1>4

(* A Put opens the file of its segment; if it is alone the file is its     *)
(* own.                                                                    *)
LEMMA PutOpenKeeps ==
    ASSUME CacheInv, NEW c \in Callers, NEW id \in Segments, NEW own \in BOOLEAN, PutOpen(c, id, own)
    PROVE  CacheInv'
<1> DEFINE f == CallOf("write", id, own, "temp")
<1>1. f \in CallType /\ f.at = "write" /\ f.file = "temp" /\ f.id = id
  BY DEF CallOf, CallType
<1>2. call' = [call EXCEPT ![c] = f]
  BY DEF PutOpen
<1> HIDE DEF f
<1>3. CallsTyped' /\ call'[c] = f /\ \A d \in Callers \ {c} : call'[d] = call[d]
  BY <1>1, <1>2 DEF CacheInv, CallsTyped
<1>4. FilesTyped' /\ TruncatedOnlyByOverlap' /\ \A s \in Segments \ {id} : temp'[s] = temp[s]
  BY DEF CacheInv, PutOpen, FilesTyped, TruncatedOnlyByOverlap, Contents
<1>5. OnlyWritersHaveFiles'
  BY <1>1, <1>3 DEF CacheInv, OnlyWritersHaveFiles
<1>6. /\ overlapped \subseteq overlapped'
      /\ id \notin overlapped' => \A d \in Callers : ~(call[d].id = id /\ call[d].at \in Puts)
  BY DEF PutOpen, Puts
<1>7. LonePutsOwnTheirFile'
  <2> SUFFICES ASSUME NEW d \in Callers, call'[d].at \in Puts, call'[d].id \notin overlapped'
               PROVE  /\ \A e \in Callers : call'[e].at \in Puts /\ call'[e].id = call'[d].id => e = d
                      /\ call'[d].at = "write" => call'[d].file = "temp"
                      /\ call'[d].at = "rename" => temp'[call'[d].id] = "whole"
    BY DEF LonePutsOwnTheirFile
  <2>1. CASE d = c
    BY <1>1, <1>3, <1>6, <2>1 DEF Puts
  <2>2. CASE d # c
    <3>1. call'[d] = call[d] /\ call[d].id \in Segments
      BY <1>3, <2>2 DEF CacheInv, OnlyWritersHaveFiles
    <3>2. CASE call[d].id = id
      BY <1>6, <3>1, <3>2
    <3>3. CASE call[d].id # id
      BY <1>1, <1>3, <1>4, <1>6, <3>1, <3>3 DEF CacheInv, LonePutsOwnTheirFile
    <3> QED BY <3>2, <3>3
  <2> QED BY <2>1, <2>2
<1> QED BY <1>3, <1>4, <1>5, <1>7 DEF CacheInv

(* It writes the file it has opened. *)
LEMMA PutWriteKeeps ==
    ASSUME CacheInv, NEW c \in Callers, PutWrite(c)
    PROVE  CacheInv'
<1> DEFINE id == call[c].id
           f == [call[c] EXCEPT !.at = "rename", !.file = "none"]
<1>0. FilesTyped /\ CallsTyped /\ id \in Segments /\ call[c].at = "write"
  BY DEF CacheInv, OnlyWritersHaveFiles, PutWrite, Puts
<1>1. f \in CallType /\ f.at = "rename" /\ f.file = "none" /\ f.id = id
  BY <1>0, CallFields DEF CallType
<1>2. call' = [call EXCEPT ![c] = f]
  BY <1>0 DEF PutWrite, CallsTyped, CallType
<1> HIDE DEF f
<1>3. CallsTyped' /\ call'[c] = f /\ \A d \in Callers \ {c} : call'[d] = call[d]
  BY <1>0, <1>1, <1>2 DEF CallsTyped
<1>4. /\ FilesTyped' /\ TruncatedOnlyByOverlap' /\ overlapped' = overlapped
      /\ \A s \in Segments \ {id} : temp'[s] = temp[s]
      /\ call[c].file = "temp" => temp'[id] = "whole"
      /\ temp[id] = "whole" => temp'[id] = "whole"
  BY <1>0 DEF CacheInv, PutWrite, FilesTyped, TruncatedOnlyByOverlap, Contents, history
<1>5. OnlyWritersHaveFiles'
  BY <1>0, <1>1, <1>3 DEF CacheInv, OnlyWritersHaveFiles
<1>6. LonePutsOwnTheirFile'
  BY <1>0, <1>1, <1>3, <1>4 DEF CacheInv, LonePutsOwnTheirFile, OnlyWritersHaveFiles, Puts
<1> QED BY <1>3, <1>4, <1>5, <1>6 DEF CacheInv

(* The rename makes the written file the segment's. *)
LEMMA PutRenameKeeps ==
    ASSUME CacheInv, NEW c \in Callers, PutRename(c)
    PROVE  CacheInv'
<1> DEFINE id == call[c].id
           f == [call[c] EXCEPT !.at = "enter"]
<1>0. FilesTyped /\ CallsTyped /\ id \in Segments /\ call[c].at = "rename" /\ call[c].file = "none"
  BY DEF CacheInv, OnlyWritersHaveFiles, PutRename, Puts
<1>1. IdleCall \in CallType /\ IdleCall.at = "idle" /\ IdleCall.file = "none"
  BY DEF IdleCall, CallType
<1>2. CASE temp[id] = "none"
  BY <1>1, <1>2, CallGoesOn DEF PutRename, history, Puts
<1>3. CASE temp[id] # "none"
  <2>1. /\ data' = [data EXCEPT ![id] = temp[id]] /\ temp' = [temp EXCEPT ![id] = "none"]
        /\ call' = [Moved(id, "temp", "data") EXCEPT ![c].at = "enter"]
        /\ overlapped' = overlapped
    BY <1>3 DEF PutRename, history
  <2>2. FilesTyped'
    BY <1>0, <2>1 DEF FilesTyped, Contents
  <2>3. \A d \in Callers : /\ Moved(id, "temp", "data")[d] \in CallType
                           /\ Moved(id, "temp", "data")[d].at = call[d].at
                           /\ Moved(id, "temp", "data")[d].id = call[d].id
                           /\ call[d].file = "none" => Moved(id, "temp", "data")[d].file = "none"
                           /\ call[d].id # id => Moved(id, "temp", "data")[d] = call[d]
    BY <1>0, CallFields DEF Moved, CallType
  <2>4. Moved(id, "temp", "data")[c] = call[c]
    BY <1>0 DEF Moved
  <2>5. f \in CallType /\ f.at = "enter" /\ f.file = "none"
    BY <1>0, CallFields DEF CallType
  <2>6. call' = [d \in Callers |-> IF d = c THEN f ELSE Moved(id, "temp", "data")[d]]
    BY <2>1, <2>4 DEF Moved
  <2> HIDE DEF f
  <2>7. CallsTyped' /\ call'[c] = f /\ \A d \in Callers \ {c} : call'[d] = Moved(id, "temp", "data")[d]
    BY <2>3, <2>5, <2>6 DEF CallsTyped
  <2>8. OnlyWritersHaveFiles'
    BY <2>3, <2>5, <2>7 DEF CacheInv, OnlyWritersHaveFiles, Puts
  <2>9. TruncatedOnlyByOverlap'
    <3>1. id \notin overlapped => temp[id] = "whole"
      BY <1>0 DEF CacheInv, LonePutsOwnTheirFile, Puts
    <3> QED BY <1>0, <2>1, <3>1 DEF CacheInv, TruncatedOnlyByOverlap, FilesTyped
  <2>10. LonePutsOwnTheirFile'
    <3> SUFFICES ASSUME NEW d \in Callers, call'[d].at \in Puts, call'[d].id \notin overlapped'
                 PROVE  /\ \A e \in Callers : call'[e].at \in Puts /\ call'[e].id = call'[d].id => e = d
                        /\ call'[d].at = "write" => call'[d].file = "temp"
                        /\ call'[d].at = "rename" => temp'[call'[d].id] = "whole"
      BY DEF LonePutsOwnTheirFile
    <3>1. d # c
      BY <2>5, <2>7 DEF Puts
    <3>2. call[d].at \in Puts /\ call[d].id \notin overlapped /\ call[d].id \in Segments
      BY <2>1, <2>3, <2>7, <3>1 DEF CacheInv, OnlyWritersHaveFiles
    <3>3. call[d].id # id
      BY <1>0, <3>1, <3>2 DEF CacheInv, LonePutsOwnTheirFile, Puts
    <3>4. call'[d] = call[d] /\ temp'[call[d].id] = temp[call[d].id]
      BY <1>0, <2>1, <2>3, <2>7, <3>1, <3>2, <3>3 DEF FilesTyped
    <3>5. \A e \in Callers : call'[e].at \in Puts => call[e].at \in Puts /\ call'[e].id = call[e].id
      BY <2>3, <2>5, <2>7 DEF Puts
    <3> QED BY <3>2, <3>4, <3>5 DEF CacheInv, LonePutsOwnTheirFile
  <2> QED BY <2>2, <2>7, <2>8, <2>9, <2>10 DEF CacheInv
<1> QED BY <1>2, <1>3

(* A Put that fails or enters its segment into the catalog gives its file  *)
(* back.                                                                   *)
LEMMA PutEndsKeeps ==
    ASSUME CacheInv, NEW c \in Callers, PutWriteFails(c) \/ PutEnter(c)
    PROVE  CacheInv'
<1>1. IdleCall \in CallType /\ IdleCall.at = "idle" /\ IdleCall.file = "none"
  BY DEF IdleCall, CallType
<1> QED BY <1>1, CallGoesOn DEF PutWriteFails, PutEnter, history, Puts

(* Eviction removes files and truncates none. *)
LEMMA RemoveOldestKeeps ==
    ASSUME CacheInv, NEW n, RemoveOldest(n)
    PROVE  CacheInv'
<1> DEFINE gone == {catalog[i] : i \in 1..n}
<1>0. FilesTyped /\ CallsTyped
  BY DEF CacheInv
<1>1. /\ data' = [s \in Segments |-> IF s \in gone THEN "none" ELSE data[s]]
      /\ call' = [c \in Callers |-> IF call[c].id \in gone /\ call[c].file = "data"
                                    THEN [call[c] EXCEPT !.file = "none"] ELSE call[c]]
      /\ temp' = temp /\ overlapped' = overlapped
  BY DEF RemoveOldest, history
<1> HIDE DEF gone
<1>2. FilesTyped' /\ TruncatedOnlyByOverlap'
  BY <1>0, <1>1 DEF CacheInv, FilesTyped, TruncatedOnlyByOverlap, Contents
<1>3. \A c \in Callers : /\ call'[c] \in CallType /\ call'[c].at = call[c].at /\ call'[c].id = call[c].id
                         /\ call[c].file # "data" => call'[c] = call[c]
                         /\ call'[c].file # "none" => call[c].file # "none"
  BY <1>0, <1>1, CallFields DEF CallType
<1>4. CallsTyped'
  BY <1>1, <1>3 DEF CallsTyped
<1>5. OnlyWritersHaveFiles' /\ LonePutsOwnTheirFile'
  BY <1>1, <1>3 DEF CacheInv, OnlyWritersHaveFiles, LonePutsOwnTheirFile
<1> QED BY <1>2, <1>4, <1>5 DEF CacheInv

(* A crash ends the calls; what they had open stays as it was. *)
LEMMA StartAgainKeeps ==
    ASSUME CacheInv, StartAgain \/ CacheCrash
    PROVE  CacheInv'
<1>1. FilesTyped' /\ TruncatedOnlyByOverlap'
  BY DEF CacheInv, StartAgain, CacheCrash, files, FilesTyped, TruncatedOnlyByOverlap
<1>2. CASE StartAgain
  <2>1. \A c \in Callers : /\ call'[c] \in CallType /\ call'[c].at = call[c].at
                           /\ call'[c].id = call[c].id /\ call'[c].file = call[c].file
    BY <1>2, CallFields DEF CacheInv, StartAgain, CallType
  <2>2. CallsTyped'
    BY <1>2, <2>1 DEF StartAgain, CallsTyped
  <2>3. OnlyWritersHaveFiles' /\ LonePutsOwnTheirFile'
    BY <1>2, <2>1 DEF CacheInv, StartAgain, files, OnlyWritersHaveFiles, LonePutsOwnTheirFile
  <2> QED BY <1>1, <2>2, <2>3 DEF CacheInv
<1>3. CASE CacheCrash
  <2>1. CallsTyped' /\ \A c \in Callers : call'[c] = IdleCall
    BY <1>3 DEF CacheCrash, CallsTyped, IdleCall, CallType
  <2>2. OnlyWritersHaveFiles' /\ LonePutsOwnTheirFile'
    BY <2>1 DEF OnlyWritersHaveFiles, LonePutsOwnTheirFile, IdleCall, Puts
  <2> QED BY <1>1, <2>1, <2>2 DEF CacheInv
<1> QED BY <1>2, <1>3

(* Every step of the cache keeps its invariant. *)
LEMMA CacheSteps ==
    ASSUME CacheInv, CacheNext \/ UNCHANGED cacheVars
    PROVE  CacheInv'
<1>1. ASSUME NEW c \in Callers, CallerStep(c)
      PROVE  CacheInv'
  BY <1>1, GetKeeps, PutOpenKeeps, PutWriteKeeps, PutRenameKeeps, PutEndsKeeps DEF CallerStep
<1>2. ASSUME Cleanup \/ Evict
      PROVE  CacheInv'
  <2>1. (\E n : RemoveOldest(n)) \/ UNCHANGED cacheVars
    BY <1>2 DEF Cleanup, Evict
  <2> QED BY <2>1, RemoveOldestKeeps, FilesStay DEF cacheVars, files, history
<1>3. ASSUME SaveWrite \/ SaveClear \/ LoadGate \/ LoadAssign \/ StopBegin \/ StopEnd
      PROVE  CacheInv'
  BY <1>3, FilesStay DEF SaveWrite, SaveClear, LoadGate, LoadAssign, StopBegin, StopEnd, files, history
<1>4. ASSUME StartAgain \/ CacheCrash
      PROVE  CacheInv'
  BY <1>4, StartAgainKeeps
<1>5. ASSUME UNCHANGED cacheVars
      PROVE  CacheInv'
  BY <1>5, FilesStay DEF cacheVars, files, history
<1> QED BY <1>1, <1>2, <1>3, <1>4, <1>5 DEF CacheNext, ManagerStep

(* No file is open at first. *)
LEMMA CacheStarts == CacheInit => CacheInv
<1> SUFFICES ASSUME CacheInit
             PROVE  CacheInv
  OBVIOUS
<1>1. FilesTyped /\ TruncatedOnlyByOverlap
  BY DEF CacheInit, FilesTyped, TruncatedOnlyByOverlap, Contents
<1>2. CallsTyped /\ \A c \in Callers : call[c] = IdleCall
  BY DEF CacheInit, CallsTyped, IdleCall, CallType
<1>3. OnlyWritersHaveFiles /\ LonePutsOwnTheirFile
  BY <1>2 DEF OnlyWritersHaveFiles, LonePutsOwnTheirFile, IdleCall, Puts
<1> QED BY <1>1, <1>2, <1>3 DEF CacheInv

(* Who has which file open in the cache of segments.                       *)
THEOREM CacheInvariant == CacheSpec => []CacheInv
<1>1. CacheInv /\ [CacheNext]_cacheVars => CacheInv'
  BY CacheSteps
<1> QED BY CacheStarts, <1>1, PTL DEF CacheSpec

(* Put of the segment cache: whatever fails or crashes in the middle, no   *)
(* data file is left truncated unless two Puts of its segment overlapped.  *)
THEOREM DataFilesAreTruncatedOnlyByOverlap == CacheSpec => []TruncatedOnlyByOverlap
<1>1. CacheInv => TruncatedOnlyByOverlap
  BY DEF CacheInv
<1> QED BY CacheInvariant, <1>1, PTL

-----------------------------------------------------------------------------
(* LibrarySync.                                                            *)

(* SyncTypeOK in parts, for the provers.                                   *)
PlacesTyped ==
    /\ happens \in Situations /\ strategy \in {"SYMLINK", "STRM", "NONE"}
    /\ libraryDir \in BOOLEAN /\ cleanup \in BOOLEAN /\ volume \in BOOLEAN
    /\ unsafe \in BOOLEAN /\ bereft \in BOOLEAN
    /\ \A X \in {meta, library, imports, linking, imported, pendingMeta, pendingLinks, fresh} : X \subseteq Titles
RecordTyped == record \in [Titles -> {"none", "checked", "repair"}]
RunTyped == run \in [SyncRuns -> RunType]
NumbersTyped ==
    /\ runs \in 0..MaxSyncs /\ done \in 0..MaxSyncs /\ added \in 0..MaxImports
    /\ loose \in [Titles -> SUBSET (0..MaxSyncs)]

Loop == run["loop"]
Judged == {"orphans", "links", "records"}

(* A volume that never goes away is never missed, and a run that could not *)
(* see it cleans nothing up.                                               *)
BlindRunsAreIdle ==
    /\ "volume" \notin happens => volume /\ \A r \in SyncRuns : ~run[r].blind
    /\ \A r \in SyncRuns : run[r].at \in Judged /\ run[r].clean => ~run[r].blind

(* A run that cleans up has made all three walks.                          *)
WalksComeFirst ==
    /\ \A r \in SyncRuns :
          run[r].at \notin {"off", "walk"} =>
              /\ "meta" \in run[r].walked
              /\ run[r].clean => ~MetadataOnly /\ run[r].walked = {"meta", "library", "imports"}
    /\ \A r \in SyncRuns : run[r].at \in {"orphans", "links"} => run[r].clean

(* What a walk has not seen came later, or changed its place meanwhile.    *)
WalksSawWhatWasThere ==
    Loop.at # "off" =>
        /\ "meta" \in Loop.walked => meta \ Loop.metas \subseteq fresh
        /\ "library" \in Loop.walked /\ ~Loop.blind =>
              \A p \in library \ Loop.libs : Loop.number \in loose[p] \/ p \in fresh

KeepInv ==
    /\ SyncTypeOK /\ VolumeCounts
    /\ BlindRunsAreIdle /\ WalksComeFirst /\ WalksSawWhatWasThere /\ LibraryFilesKeepRecords

(* During a run nothing is imported.                                       *)
NothingComes ==
    /\ run["dry"].at = "off"
    /\ Loop.at # "off" => linking = {} /\ fresh = {}

(* What was not loose in this run has been linked all the time, and a walk *)
(* has found it.                                                           *)
TightIsLinked ==
    Loop.at # "off" => \A p \in Titles : Loop.number \notin loose[p] =>
        /\ Linked(p)
        /\ "imports" \in Loop.walked /\ p \in imports => p \in Loop.imps

(* What is pending was loose in the run that has left it so.               *)
PendingWereLoose ==
    /\ \A p \in pendingMeta : done \in loose[p]
    /\ Loop.at = "orphans" => Loop.todo \subseteq Orphans("loop") \cap pendingMeta

OrphanInv ==
    /\ KeepInv /\ RunsAreAlone
    /\ NothingComes /\ TightIsLinked /\ PendingWereLoose /\ OrphansWereLooseTwice

(* The type invariant in four parts: places, records, runs and numbers. *)
LEMMA SyncParts ==
    /\ SyncTypeOK <=> PlacesTyped /\ RecordTyped /\ RunTyped /\ NumbersTyped
    /\ SyncTypeOK' <=> PlacesTyped' /\ RecordTyped' /\ RunTyped' /\ NumbersTyped'
BY DEF SyncTypeOK, PlacesTyped, RecordTyped, RunTyped, NumbersTyped

(* One run moves and the others stay. *)
LEMMA OneRunGoes ==
    ASSUME RunTyped, NEW r \in SyncRuns, NEW f \in RunType, Goes(r, f)
    PROVE  /\ RunTyped' /\ run'[r] = f
           /\ \A q \in SyncRuns \ {r} : run'[q] = run[q]
BY DEF RunTyped, Goes

(* The fields of a run. *)
LEMMA RunFields ==
    ASSUME RunTyped, NEW r \in SyncRuns
    PROVE  /\ run[r] \in RunType
           /\ run[r].number \in 0..MaxSyncs /\ run[r].clean \in BOOLEAN /\ run[r].blind \in BOOLEAN
           /\ run[r].walked \subseteq {"meta", "library", "imports"}
           /\ run[r].metas \subseteq Titles /\ run[r].libs \subseteq Titles /\ run[r].imps \subseteq Titles
           /\ run[r].recs \subseteq Titles /\ run[r].repairs \subseteq Titles
           /\ run[r].todo \subseteq Titles /\ run[r].batch \subseteq Titles
<1>1. run[r] \in RunType
  BY DEF RunTyped
<1> QED BY <1>1 DEF RunType

(* The numbers of the runs that are going. *)
LEMMA GoingNumbers ==
    ASSUME RunTyped
    PROVE  /\ Going \subseteq 0..MaxSyncs
           /\ \A r \in SyncRuns : run[r].at # "off" => run[r].number \in Going
BY RunFields DEF Going

(* Loosening adds the runs that are going to those a title was loose in. *)
LEMMA Loosened ==
    ASSUME PlacesTyped, RunTyped, NumbersTyped, NEW X, Loosen(X)
    PROVE  \A q \in Titles : /\ loose[q] \subseteq loose'[q]
                             /\ q \in X /\ Loop.at # "off" => Loop.number \in loose'[q]
BY GoingNumbers DEF Loosen, NumbersTyped, Loop, SyncRuns

(* Metadata that is written is fresh: no walk has seen it, and no run has  *)
(* judged it.                                                              *)
LEMMA ImportMetadataKeeps ==
    ASSUME KeepInv, NEW p \in Titles, ImportMetadata(p)
    PROVE  KeepInv'
<1>0. PlacesTyped /\ RecordTyped /\ RunTyped /\ NumbersTyped
  BY SyncParts DEF KeepInv
<1>1. PlacesTyped' /\ RecordTyped' /\ RunTyped'
  BY <1>0 DEF ImportMetadata, settings, links, table, syncNotes, PlacesTyped, RecordTyped, RunTyped
<1>2. NumbersTyped'
  BY <1>0, GoingNumbers, SyncAssumption DEF ImportMetadata, settings, links, table, syncNotes, NumbersTyped
<1>3. VolumeCounts' /\ BlindRunsAreIdle' /\ WalksComeFirst' /\ LibraryFilesKeepRecords'
  BY DEF KeepInv, ImportMetadata, settings, links, table, syncNotes, VolumeCounts, BlindRunsAreIdle,
         WalksComeFirst, MetadataOnly, LibraryFilesKeepRecords
<1>4. WalksSawWhatWasThere'
  BY <1>0, GoingNumbers
     DEF KeepInv, ImportMetadata, settings, links, table, syncNotes, WalksSawWhatWasThere, Loop, NumbersTyped,
         SyncRuns
<1> QED BY <1>1, <1>2, <1>3, <1>4, SyncParts DEF KeepInv

(* And it is not among the orphans. *)
LEMMA ImportMetadataSafe ==
    ASSUME OrphanInv, NEW p \in Titles, ImportMetadata(p)
    PROVE  OrphanInv'
<1>0. PlacesTyped /\ RunTyped /\ NumbersTyped
  BY SyncParts DEF KeepInv, OrphanInv
<1>1. KeepInv'
  BY ImportMetadataKeeps DEF OrphanInv
<1>2. RunsAreAlone' /\ NothingComes' /\ OrphansWereLooseTwice'
  BY <1>0, GoingNumbers
     DEF OrphanInv, ImportMetadata, settings, links, table, syncNotes, RunsAreAlone, NothingComes,
         OrphansWereLooseTwice, Loop, SyncRuns
<1>3. TightIsLinked'
  BY <1>0, GoingNumbers
     DEF OrphanInv, ImportMetadata, settings, links, table, syncNotes, RunsAreAlone, NothingComes,
         TightIsLinked, Loop, Linked, NumbersTyped, SyncRuns
<1>4. PendingWereLoose'
  BY <1>0, GoingNumbers
     DEF OrphanInv, ImportMetadata, settings, links, table, syncNotes, RunsAreAlone, NothingComes,
         PendingWereLoose, Loop, NumbersTyped, PlacesTyped, SyncRuns, Orphans, Found
<1> QED BY <1>1, <1>2, <1>3, <1>4 DEF OrphanInv

(* A title is linked, which only adds to the library. *)
LEMMA ImportLinkKeeps ==
    ASSUME KeepInv, NEW p \in Titles, ImportLink(p)
    PROVE  KeepInv'
<1>0. PlacesTyped /\ RecordTyped /\ RunTyped /\ NumbersTyped
  BY SyncParts DEF KeepInv
<1>1. PlacesTyped' /\ RecordTyped' /\ RunTyped'
  BY <1>0 DEF ImportLink, settings, links, table, syncNotes, PlacesTyped, RecordTyped, RunTyped
<1>2. NumbersTyped'
  BY <1>0, GoingNumbers, SyncAssumption DEF ImportLink, settings, links, table, syncNotes, NumbersTyped
<1>3. VolumeCounts' /\ BlindRunsAreIdle' /\ WalksComeFirst' /\ LibraryFilesKeepRecords'
  BY DEF KeepInv, ImportLink, settings, links, table, syncNotes, VolumeCounts, BlindRunsAreIdle,
         WalksComeFirst, MetadataOnly, LibraryFilesKeepRecords
<1>4. WalksSawWhatWasThere'
  BY <1>0, GoingNumbers
     DEF KeepInv, ImportLink, settings, links, table, syncNotes, WalksSawWhatWasThere, Loop, NumbersTyped,
         SyncRuns
<1> QED BY <1>1, <1>2, <1>3, <1>4, SyncParts DEF KeepInv

(* And it is not a loose one any more. *)
LEMMA ImportLinkSafe ==
    ASSUME OrphanInv, NEW p \in Titles, ImportLink(p)
    PROVE  OrphanInv'
<1>0. PlacesTyped /\ RunTyped /\ NumbersTyped
  BY SyncParts DEF KeepInv, OrphanInv
<1>1. KeepInv'
  BY ImportLinkKeeps DEF OrphanInv
<1>2. RunsAreAlone' /\ NothingComes' /\ OrphansWereLooseTwice'
  BY <1>0, GoingNumbers
     DEF OrphanInv, ImportLink, settings, links, table, syncNotes, RunsAreAlone, NothingComes,
         OrphansWereLooseTwice, Loop, SyncRuns
<1>3. TightIsLinked'
  BY <1>0, GoingNumbers
     DEF OrphanInv, ImportLink, settings, links, table, syncNotes, RunsAreAlone, NothingComes, TightIsLinked,
         Loop, Linked, NumbersTyped, SyncRuns
<1>4. PendingWereLoose'
  BY <1>0, GoingNumbers
     DEF OrphanInv, ImportLink, settings, links, table, syncNotes, RunsAreAlone, NothingComes,
         PendingWereLoose, Loop, NumbersTyped, PlacesTyped, SyncRuns, Orphans, Found
<1> QED BY <1>1, <1>2, <1>3, <1>4 DEF OrphanInv

(* A title that an ARR moves is loose for the runs that are going. *)
LEMMA ArrMovesKeeps ==
    ASSUME KeepInv, NEW p \in Titles, ArrMoves(p)
    PROVE  KeepInv'
<1>0. PlacesTyped /\ RecordTyped /\ RunTyped /\ NumbersTyped
  BY SyncParts DEF KeepInv
<1>1. PlacesTyped' /\ RecordTyped' /\ RunTyped'
  BY <1>0 DEF ArrMoves, Loosen, settings, links, table, syncNotes, PlacesTyped, RecordTyped, RunTyped
<1>2. NumbersTyped'
  BY <1>0, GoingNumbers, SyncAssumption DEF ArrMoves, Loosen, settings, links, table, syncNotes, NumbersTyped
<1>3. VolumeCounts' /\ BlindRunsAreIdle' /\ WalksComeFirst' /\ LibraryFilesKeepRecords'
  BY DEF KeepInv, ArrMoves, Loosen, settings, links, table, syncNotes, VolumeCounts, BlindRunsAreIdle,
         WalksComeFirst, MetadataOnly, LibraryFilesKeepRecords
<1>4. WalksSawWhatWasThere'
  <2>1. Loosen({p})
    BY DEF ArrMoves
  <2>2. \A q \in Titles : /\ loose[q] \subseteq loose'[q]
                          /\ q = p /\ Loop.at # "off" => Loop.number \in loose'[q]
    BY <1>0, <2>1, Loosened
  <2>3. library \subseteq library' /\ library' \subseteq library \cup {p}
    BY DEF ArrMoves
  <2> QED BY <1>0, <2>2, <2>3
             DEF KeepInv, ArrMoves, settings, syncNotes, WalksSawWhatWasThere, Loop, PlacesTyped
<1> QED BY <1>1, <1>2, <1>3, <1>4, SyncParts DEF KeepInv

(* And a run that misses its link may say so. *)
LEMMA ArrMovesSafe ==
    ASSUME OrphanInv, NEW p \in Titles, ArrMoves(p)
    PROVE  OrphanInv'
<1>0. PlacesTyped /\ RunTyped /\ NumbersTyped
  BY SyncParts DEF KeepInv, OrphanInv
<1>1. KeepInv'
  BY ArrMovesKeeps DEF OrphanInv
<1>2. RunsAreAlone' /\ NothingComes' /\ OrphansWereLooseTwice'
  BY <1>0, GoingNumbers
     DEF OrphanInv, ArrMoves, Loosen, settings, links, table, syncNotes, RunsAreAlone, NothingComes,
         OrphansWereLooseTwice, Loop, SyncRuns
<1>3. TightIsLinked'
  BY <1>0, GoingNumbers
     DEF OrphanInv, ArrMoves, Loosen, settings, links, table, syncNotes, RunsAreAlone, NothingComes,
         TightIsLinked, Loop, Linked, NumbersTyped, SyncRuns
<1>4. PendingWereLoose'
  BY <1>0, GoingNumbers
     DEF OrphanInv, ArrMoves, Loosen, settings, links, table, syncNotes, RunsAreAlone, NothingComes,
         PendingWereLoose, Loop, NumbersTyped, PlacesTyped, SyncRuns, Orphans, Found
<1> QED BY <1>1, <1>2, <1>3, <1>4 DEF OrphanInv

(* A title that an ARR removes was not linked all the time. *)
LEMMA ArrRemovesKeeps ==
    ASSUME KeepInv, NEW p \in Titles, ArrRemoves(p)
    PROVE  KeepInv'
<1>0. PlacesTyped /\ RecordTyped /\ RunTyped /\ NumbersTyped
  BY SyncParts DEF KeepInv
<1>1. PlacesTyped' /\ RecordTyped' /\ RunTyped'
  BY <1>0 DEF ArrRemoves, Loosen, settings, links, table, syncNotes, PlacesTyped, RecordTyped, RunTyped
<1>2. NumbersTyped'
  BY <1>0, GoingNumbers, SyncAssumption
     DEF ArrRemoves, Loosen, settings, links, table, syncNotes, NumbersTyped
<1>3. VolumeCounts' /\ BlindRunsAreIdle' /\ WalksComeFirst' /\ LibraryFilesKeepRecords'
  BY DEF KeepInv, ArrRemoves, Loosen, settings, links, table, syncNotes, VolumeCounts, BlindRunsAreIdle,
         WalksComeFirst, MetadataOnly, LibraryFilesKeepRecords
<1>4. WalksSawWhatWasThere'
  <2>1. Loosen({p})
    BY DEF ArrRemoves
  <2>2. \A q \in Titles : /\ loose[q] \subseteq loose'[q]
                          /\ q = p /\ Loop.at # "off" => Loop.number \in loose'[q]
    BY <1>0, <2>1, Loosened
  <2>3. library' \subseteq library
    BY DEF ArrRemoves
  <2> QED BY <1>0, <2>2, <2>3
             DEF KeepInv, ArrRemoves, settings, syncNotes, WalksSawWhatWasThere, Loop, PlacesTyped
<1> QED BY <1>1, <1>2, <1>3, <1>4, SyncParts DEF KeepInv

(* And it is loose from then on. *)
LEMMA ArrRemovesSafe ==
    ASSUME OrphanInv, NEW p \in Titles, ArrRemoves(p)
    PROVE  OrphanInv'
<1>0. PlacesTyped /\ RunTyped /\ NumbersTyped
  BY SyncParts DEF KeepInv, OrphanInv
<1>1. KeepInv'
  BY ArrRemovesKeeps DEF OrphanInv
<1>2. RunsAreAlone' /\ NothingComes' /\ OrphansWereLooseTwice'
  BY <1>0, GoingNumbers
     DEF OrphanInv, ArrRemoves, Loosen, settings, links, table, syncNotes, RunsAreAlone, NothingComes,
         OrphansWereLooseTwice, Loop, SyncRuns
<1>3. TightIsLinked'
  BY <1>0, GoingNumbers
     DEF OrphanInv, ArrRemoves, Loosen, settings, links, table, syncNotes, RunsAreAlone, NothingComes,
         TightIsLinked, Loop, Linked, NumbersTyped, SyncRuns
<1>4. PendingWereLoose'
  BY <1>0, GoingNumbers
     DEF OrphanInv, ArrRemoves, Loosen, settings, links, table, syncNotes, RunsAreAlone, NothingComes,
         PendingWereLoose, Loop, NumbersTyped, PlacesTyped, SyncRuns, Orphans, Found
<1> QED BY <1>1, <1>2, <1>3, <1>4 DEF OrphanInv

(* The user takes metadata and record together. *)
LEMMA UserDeletesKeeps ==
    ASSUME KeepInv, NEW p \in Titles, UserDeletes(p)
    PROVE  KeepInv'
<1>0. PlacesTyped /\ RecordTyped /\ RunTyped /\ NumbersTyped
  BY SyncParts DEF KeepInv
<1>1. PlacesTyped' /\ RecordTyped' /\ RunTyped'
  BY <1>0 DEF UserDeletes, settings, links, table, syncNotes, PlacesTyped, RecordTyped, RunTyped
<1>2. NumbersTyped'
  BY <1>0, GoingNumbers, SyncAssumption DEF UserDeletes, settings, links, table, syncNotes, NumbersTyped
<1>3. VolumeCounts' /\ BlindRunsAreIdle' /\ WalksComeFirst' /\ LibraryFilesKeepRecords'
  BY DEF KeepInv, UserDeletes, settings, links, table, syncNotes, VolumeCounts, BlindRunsAreIdle,
         WalksComeFirst, MetadataOnly, LibraryFilesKeepRecords
<1>4. WalksSawWhatWasThere'
  BY <1>0, GoingNumbers
     DEF KeepInv, UserDeletes, settings, links, table, syncNotes, WalksSawWhatWasThere, Loop, NumbersTyped,
         SyncRuns
<1> QED BY <1>1, <1>2, <1>3, <1>4, SyncParts DEF KeepInv

(* And leaves the orphans as they are. *)
LEMMA UserDeletesSafe ==
    ASSUME OrphanInv, NEW p \in Titles, UserDeletes(p)
    PROVE  OrphanInv'
<1>0. PlacesTyped /\ RunTyped /\ NumbersTyped
  BY SyncParts DEF KeepInv, OrphanInv
<1>1. KeepInv'
  BY UserDeletesKeeps DEF OrphanInv
<1>2. RunsAreAlone' /\ NothingComes' /\ OrphansWereLooseTwice'
  BY <1>0, GoingNumbers
     DEF OrphanInv, UserDeletes, settings, links, table, syncNotes, RunsAreAlone, NothingComes,
         OrphansWereLooseTwice, Loop, SyncRuns
<1>3. TightIsLinked'
  BY <1>0, GoingNumbers
     DEF OrphanInv, UserDeletes, settings, links, table, syncNotes, RunsAreAlone, NothingComes, TightIsLinked,
         Loop, Linked, NumbersTyped, SyncRuns
<1>4. PendingWereLoose'
  BY <1>0, GoingNumbers
     DEF OrphanInv, UserDeletes, settings, links, table, syncNotes, RunsAreAlone, NothingComes,
         PendingWereLoose, Loop, NumbersTyped, PlacesTyped, SyncRuns, Orphans, Found
<1> QED BY <1>1, <1>2, <1>3, <1>4 DEF OrphanInv

(* A repair that is asked for changes the record and takes none away. *)
LEMMA RepairsKeeps ==
    ASSUME KeepInv, NEW p \in Titles, Repairs(p)
    PROVE  KeepInv'
<1>0. PlacesTyped /\ RecordTyped /\ RunTyped /\ NumbersTyped
  BY SyncParts DEF KeepInv
<1>1. PlacesTyped' /\ RecordTyped' /\ RunTyped'
  BY <1>0 DEF Repairs, settings, links, table, syncNotes, PlacesTyped, RecordTyped, RunTyped
<1>2. NumbersTyped'
  BY <1>0, GoingNumbers, SyncAssumption DEF Repairs, settings, links, table, syncNotes, NumbersTyped
<1>3. VolumeCounts' /\ BlindRunsAreIdle' /\ WalksComeFirst' /\ LibraryFilesKeepRecords'
  BY DEF KeepInv, Repairs, settings, links, table, syncNotes, VolumeCounts, BlindRunsAreIdle, WalksComeFirst,
         MetadataOnly, LibraryFilesKeepRecords
<1>4. WalksSawWhatWasThere'
  BY <1>0, GoingNumbers
     DEF KeepInv, Repairs, settings, links, table, syncNotes, WalksSawWhatWasThere, Loop, NumbersTyped,
         SyncRuns
<1> QED BY <1>1, <1>2, <1>3, <1>4, SyncParts DEF KeepInv

(* And it leaves the orphans as they are. *)
LEMMA RepairsSafe ==
    ASSUME OrphanInv, NEW p \in Titles, Repairs(p)
    PROVE  OrphanInv'
<1>0. PlacesTyped /\ RunTyped /\ NumbersTyped
  BY SyncParts DEF KeepInv, OrphanInv
<1>1. KeepInv'
  BY RepairsKeeps DEF OrphanInv
<1>2. RunsAreAlone' /\ NothingComes' /\ OrphansWereLooseTwice'
  BY <1>0, GoingNumbers
     DEF OrphanInv, Repairs, settings, links, table, syncNotes, RunsAreAlone, NothingComes,
         OrphansWereLooseTwice, Loop, SyncRuns
<1>3. TightIsLinked'
  BY <1>0, GoingNumbers
     DEF OrphanInv, Repairs, settings, links, table, syncNotes, RunsAreAlone, NothingComes, TightIsLinked,
         Loop, Linked, NumbersTyped, SyncRuns
<1>4. PendingWereLoose'
  BY <1>0, GoingNumbers
     DEF OrphanInv, Repairs, settings, links, table, syncNotes, RunsAreAlone, NothingComes, PendingWereLoose,
         Loop, NumbersTyped, PlacesTyped, SyncRuns, Orphans, Found
<1> QED BY <1>1, <1>2, <1>3, <1>4 DEF OrphanInv

(* The volume goes or comes; a walk without it will know that it was       *)
(* blind.                                                                  *)
LEMMA VolumeChangesKeeps ==
    ASSUME KeepInv, VolumeChanges
    PROVE  KeepInv'
<1>0. PlacesTyped /\ RecordTyped /\ RunTyped /\ NumbersTyped
  BY SyncParts DEF KeepInv
<1>1. PlacesTyped' /\ RecordTyped' /\ RunTyped'
  BY <1>0 DEF VolumeChanges, settings, links, table, syncNotes, PlacesTyped, RecordTyped, RunTyped
<1>2. NumbersTyped'
  BY <1>0, GoingNumbers, SyncAssumption DEF VolumeChanges, settings, links, table, syncNotes, NumbersTyped
<1>3. VolumeCounts' /\ BlindRunsAreIdle' /\ WalksComeFirst' /\ LibraryFilesKeepRecords'
  BY DEF KeepInv, VolumeChanges, settings, links, table, syncNotes, VolumeCounts, BlindRunsAreIdle,
         WalksComeFirst, MetadataOnly, LibraryFilesKeepRecords
<1>4. WalksSawWhatWasThere'
  BY <1>0, GoingNumbers
     DEF KeepInv, VolumeChanges, settings, links, table, syncNotes, WalksSawWhatWasThere, Loop, NumbersTyped,
         SyncRuns
<1> QED BY <1>1, <1>2, <1>3, <1>4, SyncParts DEF KeepInv

(* And the orphans stay as they are. *)
LEMMA VolumeChangesSafe ==
    ASSUME OrphanInv, VolumeChanges
    PROVE  OrphanInv'
<1>0. PlacesTyped /\ RunTyped /\ NumbersTyped
  BY SyncParts DEF KeepInv, OrphanInv
<1>1. KeepInv'
  BY VolumeChangesKeeps DEF OrphanInv
<1>2. RunsAreAlone' /\ NothingComes' /\ OrphansWereLooseTwice'
  BY <1>0, GoingNumbers
     DEF OrphanInv, VolumeChanges, settings, links, table, syncNotes, RunsAreAlone, NothingComes,
         OrphansWereLooseTwice, Loop, SyncRuns
<1>3. TightIsLinked'
  BY <1>0, GoingNumbers
     DEF OrphanInv, VolumeChanges, settings, links, table, syncNotes, RunsAreAlone, NothingComes,
         TightIsLinked, Loop, Linked, NumbersTyped, SyncRuns
<1>4. PendingWereLoose'
  BY <1>0, GoingNumbers
     DEF OrphanInv, VolumeChanges, settings, links, table, syncNotes, RunsAreAlone, NothingComes,
         PendingWereLoose, Loop, NumbersTyped, PlacesTyped, SyncRuns, Orphans, Found
<1> QED BY <1>1, <1>2, <1>3, <1>4 DEF OrphanInv

(* Clean-up is switched, at which only runs that begin later look. *)
LEMMA SettingChangesKeeps ==
    ASSUME KeepInv, SettingChanges
    PROVE  KeepInv'
<1>0. PlacesTyped /\ RecordTyped /\ RunTyped /\ NumbersTyped
  BY SyncParts DEF KeepInv
<1>1. PlacesTyped' /\ RecordTyped' /\ RunTyped'
  BY <1>0 DEF SettingChanges, settings, links, table, syncNotes, PlacesTyped, RecordTyped, RunTyped
<1>2. NumbersTyped'
  BY <1>0, GoingNumbers, SyncAssumption DEF SettingChanges, settings, links, table, syncNotes, NumbersTyped
<1>3. VolumeCounts' /\ BlindRunsAreIdle' /\ WalksComeFirst' /\ LibraryFilesKeepRecords'
  BY DEF KeepInv, SettingChanges, settings, links, table, syncNotes, VolumeCounts, BlindRunsAreIdle,
         WalksComeFirst, MetadataOnly, LibraryFilesKeepRecords
<1>4. WalksSawWhatWasThere'
  BY <1>0, GoingNumbers
     DEF KeepInv, SettingChanges, settings, links, table, syncNotes, WalksSawWhatWasThere, Loop, NumbersTyped,
         SyncRuns
<1> QED BY <1>1, <1>2, <1>3, <1>4, SyncParts DEF KeepInv

(* And the orphans stay as they are. *)
LEMMA SettingChangesSafe ==
    ASSUME OrphanInv, SettingChanges
    PROVE  OrphanInv'
<1>0. PlacesTyped /\ RunTyped /\ NumbersTyped
  BY SyncParts DEF KeepInv, OrphanInv
<1>1. KeepInv'
  BY SettingChangesKeeps DEF OrphanInv
<1>2. RunsAreAlone' /\ NothingComes' /\ OrphansWereLooseTwice'
  BY <1>0, GoingNumbers
     DEF OrphanInv, SettingChanges, settings, links, table, syncNotes, RunsAreAlone, NothingComes,
         OrphansWereLooseTwice, Loop, SyncRuns
<1>3. TightIsLinked'
  BY <1>0, GoingNumbers
     DEF OrphanInv, SettingChanges, settings, links, table, syncNotes, RunsAreAlone, NothingComes,
         TightIsLinked, Loop, Linked, NumbersTyped, SyncRuns
<1>4. PendingWereLoose'
  BY <1>0, GoingNumbers
     DEF OrphanInv, SettingChanges, settings, links, table, syncNotes, RunsAreAlone, NothingComes,
         PendingWereLoose, Loop, NumbersTyped, PlacesTyped, SyncRuns, Orphans, Found
<1> QED BY <1>1, <1>2, <1>3, <1>4 DEF OrphanInv

(* The walks of the loop stay true while links go and changes are noted.   *)
LEMMA WalksStayTrue ==
    ASSUME PlacesTyped, WalksSawWhatWasThere,
           meta' \subseteq meta, library' \subseteq library, fresh \subseteq fresh',
           \A q \in Titles : loose[q] \subseteq loose'[q],
           Loop'.at # "off" => /\ Loop.at # "off" /\ Loop'.number = Loop.number /\ Loop'.walked = Loop.walked
                              /\ Loop'.metas = Loop.metas /\ Loop'.libs = Loop.libs /\ Loop'.blind = Loop.blind
    PROVE  WalksSawWhatWasThere'
<1>1. CASE Loop'.at = "off"
  BY <1>1 DEF WalksSawWhatWasThere
<1>2. CASE Loop'.at # "off"
  BY <1>2 DEF WalksSawWhatWasThere, PlacesTyped
<1> QED BY <1>1, <1>2

(* What a run has found, its orphans and its stale links are titles. *)
LEMMA FoundTitles ==
    ASSUME RunTyped, NEW r \in SyncRuns
    PROVE  Found(r) \subseteq Titles /\ Orphans(r) \subseteq Titles /\ Stale(r) \subseteq Titles
BY RunFields DEF Found, Orphans, Stale

(* The volume is missed: what a run finds away is more than a fifth.       *)
LEMMA AwayIsTooMany ==
    ASSUME RunTyped, VolumeCounts, NEW r \in SyncRuns, run[r].blind, "volume" \in happens
    PROVE  TooMany(r)
<1>1. IsFiniteSet(run[r].metas) /\ Cardinality(run[r].metas) <= Cardinality(Titles)
  BY RunFields, SyncAssumption, FS_Subset
<1>2. IsFiniteSet(Orphans(r))
  BY <1>1, FS_Subset DEF Orphans
<1>3. Cardinality(run[r].metas) \in Nat /\ Cardinality(Orphans(r)) \in Nat /\ Cardinality(Titles) \in Nat
  BY <1>1, <1>2, SyncAssumption, FS_CardinalityType
<1>4. 4 * Others > Cardinality(Titles)
  BY DEF VolumeCounts
<1> QED BY <1>1, <1>3, <1>4, SyncAssumption DEF TooMany

(* A run goes on with what its walks have seen.                            *)
Keeps(r, at, clean) ==
    /\ RunTyped' /\ \A q \in SyncRuns \ {r} : run'[q] = run[q]
    /\ run'[r].at = at /\ run'[r].clean = clean
    /\ run'[r].number = run[r].number /\ run'[r].walked = run[r].walked /\ run'[r].metas = run[r].metas
    /\ run'[r].libs = run[r].libs /\ run'[r].imps = run[r].imps /\ run'[r].blind = run[r].blind

(* A run that goes on with what its walks have seen keeps the invariant. *)
LEMMA RunKeepsTrue ==
    ASSUME KeepInv, PlacesTyped', RecordTyped', NumbersTyped',
           NEW r \in SyncRuns, NEW at, NEW clean, Keeps(r, at, clean),
           run[r].at \notin {"off", "walk"}, at \notin {"off", "walk"},
           clean => run[r].clean,
           at \in {"orphans", "links"} => clean,
           at \in Judged /\ clean => ~run[r].blind,
           UNCHANGED <<happens, strategy, libraryDir, volume, fresh, bereft>>,
           meta' \subseteq meta, library' \subseteq library,
           \A q \in Titles : loose[q] \subseteq loose'[q]
    PROVE  KeepInv'
<1>0. PlacesTyped /\ RunTyped
  BY SyncParts DEF KeepInv
<1>1. VolumeCounts' /\ LibraryFilesKeepRecords'
  BY DEF KeepInv, VolumeCounts, LibraryFilesKeepRecords
<1>2. BlindRunsAreIdle'
  BY DEF KeepInv, Keeps, BlindRunsAreIdle
<1>3. WalksComeFirst'
  BY DEF KeepInv, Keeps, WalksComeFirst, MetadataOnly
<1>4. WalksSawWhatWasThere'
  <2>1. Loop'.at # "off" => /\ Loop.at # "off" /\ Loop'.number = Loop.number /\ Loop'.walked = Loop.walked
                           /\ Loop'.metas = Loop.metas /\ Loop'.libs = Loop.libs /\ Loop'.blind = Loop.blind
    BY DEF Keeps, Loop, SyncRuns
  <2> QED BY <1>0, <2>1, WalksStayTrue DEF KeepInv
<1> QED BY <1>1, <1>2, <1>3, <1>4, SyncParts DEF KeepInv, Keeps

(* A run that begins has seen nothing; titles without a link are loose in  *)
(* it.                                                                     *)
LEMMA RunBeginsKeeps ==
    ASSUME KeepInv, NEW r \in SyncRuns, RunBegins(r)
    PROVE  KeepInv'
<1>0. PlacesTyped /\ RecordTyped /\ RunTyped /\ NumbersTyped
  BY SyncParts DEF KeepInv
<1>1. /\ RunTyped' /\ \A q \in SyncRuns \ {r} : run'[q] = run[q]
      /\ run'[r].at = "walk" /\ run'[r].number = runs + 1 /\ run'[r].walked = {} /\ ~run'[r].blind
  <2> DEFINE f == [NoSync EXCEPT !.at = "walk", !.number = runs + 1, !.clean = cleanup]
  <2>1. f \in RunType
    <3>1. runs + 1 \in 0..MaxSyncs /\ cleanup \in BOOLEAN /\ 0 \in 0..MaxSyncs
      BY <1>0, SyncAssumption DEF RunBegins, NumbersTyped, PlacesTyped
    <3> QED BY <3>1 DEF RunType, NoSync
  <2>2. Goes(r, f)
    BY DEF RunBegins
  <2>3. RunTyped' /\ run'[r] = f /\ \A q \in SyncRuns \ {r} : run'[q] = run[q]
    BY <1>0, <2>1, <2>2, OneRunGoes
  <2> QED BY <2>3 DEF NoSync
<1>2. PlacesTyped' /\ RecordTyped' /\ NumbersTyped'
  BY <1>0, SyncAssumption
     DEF RunBegins, settings, links, table, syncNotes, PlacesTyped, RecordTyped, NumbersTyped
<1>3. VolumeCounts' /\ BlindRunsAreIdle'
  BY <1>0, <1>1
     DEF KeepInv, RunBegins, settings, links, table, syncNotes, VolumeCounts, BlindRunsAreIdle,
         WalksComeFirst, Judged
<1>4. WalksComeFirst'
  BY <1>0, <1>1 DEF KeepInv, RunBegins, settings, WalksComeFirst, MetadataOnly
<1>5. WalksSawWhatWasThere'
  <2>1. CASE r = "loop"
    BY <1>1, <2>1 DEF WalksSawWhatWasThere, Loop
  <2>2. CASE r = "dry"
    <3>1. Loop' = Loop
      BY <1>1, <2>2 DEF Loop, SyncRuns
    <3>2. /\ meta' = meta /\ library' = library /\ fresh' = fresh
          /\ \A q \in Titles : loose[q] \subseteq loose'[q]
      BY <1>0, <2>2 DEF RunBegins, links, NumbersTyped
    <3> QED BY <1>0, <3>1, <3>2, WalksStayTrue DEF KeepInv
  <2> QED BY <2>1, <2>2 DEF SyncRuns
<1>6. LibraryFilesKeepRecords'
  BY <1>0, <1>1 DEF KeepInv, RunBegins, settings, links, table, syncNotes, LibraryFilesKeepRecords
<1> QED BY <1>1, <1>2, <1>3, <1>4, <1>5, <1>6, SyncParts DEF KeepInv

(* A run that is cut off knows nothing any more. *)
LEMMA RunIsCutKeeps ==
    ASSUME KeepInv, NEW r \in SyncRuns, RunIsCut(r)
    PROVE  KeepInv'
<1>0. PlacesTyped /\ RecordTyped /\ RunTyped /\ NumbersTyped
  BY SyncParts DEF KeepInv
<1>1. /\ RunTyped' /\ \A q \in SyncRuns \ {r} : run'[q] = run[q]
      /\ run'[r].at = "off" /\ ~run'[r].blind
  BY <1>0, RunFields, SyncAssumption DEF RunIsCut, Over, NoSync, RunTyped, RunType
<1>2. PlacesTyped' /\ RecordTyped' /\ NumbersTyped'
  BY <1>0, SyncAssumption
     DEF RunIsCut, settings, links, table, syncNotes, PlacesTyped, RecordTyped, NumbersTyped
<1>3. VolumeCounts' /\ BlindRunsAreIdle'
  BY <1>0, <1>1
     DEF KeepInv, RunIsCut, settings, links, table, syncNotes, VolumeCounts, BlindRunsAreIdle, WalksComeFirst,
         Judged
<1>4. WalksComeFirst'
  BY <1>0, <1>1 DEF KeepInv, RunIsCut, settings, WalksComeFirst, MetadataOnly
<1>5. WalksSawWhatWasThere'
  BY <1>0, <1>1
     DEF KeepInv, RunIsCut, settings, links, table, syncNotes, WalksSawWhatWasThere, Loop, NumbersTyped,
         SyncRuns
<1>6. LibraryFilesKeepRecords'
  BY <1>0, <1>1 DEF KeepInv, RunIsCut, settings, links, table, syncNotes, LibraryFilesKeepRecords
<1> QED BY <1>1, <1>2, <1>3, <1>4, <1>5, <1>6, SyncParts DEF KeepInv

(* Nor does one that has ended. *)
LEMMA RunEndsKeeps ==
    ASSUME KeepInv, NEW r \in SyncRuns, RunEnds(r)
    PROVE  KeepInv'
<1>0. PlacesTyped /\ RecordTyped /\ RunTyped /\ NumbersTyped
  BY SyncParts DEF KeepInv
<1>1. /\ RunTyped' /\ \A q \in SyncRuns \ {r} : run'[q] = run[q]
      /\ run'[r].at = "off" /\ ~run'[r].blind
  BY <1>0, RunFields, SyncAssumption DEF RunEnds, Over, NoSync, RunTyped, RunType
<1>2. PlacesTyped' /\ RecordTyped' /\ NumbersTyped'
  BY <1>0, SyncAssumption
     DEF RunEnds, settings, links, table, syncNotes, PlacesTyped, RecordTyped, NumbersTyped
<1>3. VolumeCounts' /\ BlindRunsAreIdle'
  BY <1>0, <1>1
     DEF KeepInv, RunEnds, settings, links, table, syncNotes, VolumeCounts, BlindRunsAreIdle, WalksComeFirst,
         Judged
<1>4. WalksComeFirst'
  BY <1>0, <1>1 DEF KeepInv, RunEnds, settings, WalksComeFirst, MetadataOnly
<1>5. WalksSawWhatWasThere'
  BY <1>0, <1>1
     DEF KeepInv, RunEnds, settings, links, table, syncNotes, WalksSawWhatWasThere, Loop, NumbersTyped,
         SyncRuns
<1>6. LibraryFilesKeepRecords'
  <2>1. ASSUME r = "loop", NEW p \in Stale(r), p \in meta \cap library, p \notin fresh,
               run[r].number \notin loose[p]
        PROVE  FALSE
    <3>1. /\ "meta" \in run[r].walked
          /\ run[r].clean => "library" \in run[r].walked /\ ~run[r].blind
      BY DEF RunEnds, KeepInv, WalksComeFirst, BlindRunsAreIdle, Judged
    <3>2. p \in run[r].metas
      BY <2>1, <3>1 DEF RunEnds, KeepInv, WalksSawWhatWasThere, Loop
    <3>3. run[r].clean => p \in run[r].libs
      BY <2>1, <3>1 DEF RunEnds, KeepInv, WalksSawWhatWasThere, Loop
    <3> QED BY <2>1, <3>2, <3>3 DEF Stale
  <2> QED BY <2>1 DEF KeepInv, RunEnds, LibraryFilesKeepRecords
<1> QED BY <1>1, <1>2, <1>3, <1>4, <1>5, <1>6, SyncParts DEF KeepInv

(* Registering a title changes neither the run's sets nor its doubts. *)
LEMMA RegisterGoes ==
    ASSUME KeepInv, NEW r \in SyncRuns, NEW p \in Titles, Register(r, p)
    PROVE  Keeps(r, "add", run[r].clean)
<1>0. PlacesTyped /\ RecordTyped /\ RunTyped /\ NumbersTyped
  BY SyncParts DEF KeepInv
<1>1. PICK todo \in SUBSET Titles, batch \in SUBSET Titles :
          Goes(r, [run[r] EXCEPT !.todo = todo, !.batch = batch])
  <2>1. /\ run[r].todo \ {p} \in SUBSET Titles /\ run[r].batch \in SUBSET Titles
        /\ run[r].batch \cup {p} \in SUBSET Titles
    BY <1>0, RunFields
  <2>2. [run[r] EXCEPT !.todo = @ \ {p}]
            = [run[r] EXCEPT !.todo = run[r].todo \ {p}, !.batch = run[r].batch]
    BY <1>0, RunFields DEF RunType
  <2>3. \A batch \in SUBSET Titles :
            [[run[r] EXCEPT !.todo = @ \ {p}] EXCEPT !.batch = batch]
                = [run[r] EXCEPT !.todo = run[r].todo \ {p}, !.batch = batch]
    BY <1>0, RunFields DEF RunType
  <2>4. \/ Goes(r, [[run[r] EXCEPT !.todo = @ \ {p}] EXCEPT !.batch = IF p \in meta THEN run[r].batch \cup {p}
                                                                    ELSE run[r].batch])
        \/ Goes(r, [run[r] EXCEPT !.todo = @ \ {p}])
    <3>1. [run[r] EXCEPT !.todo = @ \ {p}].batch = run[r].batch
      BY <1>0, RunFields DEF RunType
    <3> QED BY <3>1 DEF Register
  <2> QED BY <2>1, <2>2, <2>3, <2>4
<1> DEFINE f == [run[r] EXCEPT !.todo = todo, !.batch = batch]
<1>2. f \in RunType
  BY <1>0, RunFields DEF RunType
<1>3. f.at = "add" /\ f.clean = run[r].clean /\ f.number = run[r].number /\ f.walked = run[r].walked
      /\ f.metas = run[r].metas /\ f.libs = run[r].libs /\ f.imps = run[r].imps /\ f.blind = run[r].blind
  BY <1>0, RunFields DEF RunType, Register
<1> HIDE DEF f
<1> QED BY <1>0, <1>1, <1>2, <1>3, OneRunGoes DEF Keeps, f

(* And it adds a record, which takes none away. *)
LEMMA RegisterKeeps ==
    ASSUME KeepInv, NEW r \in SyncRuns, NEW p \in Titles, Register(r, p)
    PROVE  KeepInv'
<1>0. PlacesTyped /\ RecordTyped /\ RunTyped /\ NumbersTyped
  BY SyncParts DEF KeepInv
<1>1. Keeps(r, "add", run[r].clean)
  BY RegisterGoes
<1>2. PlacesTyped' /\ RecordTyped' /\ NumbersTyped'
  BY <1>0 DEF Register, settings, links, syncNotes, PlacesTyped, RecordTyped, NumbersTyped
<1>3. \A q \in Titles : loose[q] \subseteq loose'[q]
  BY DEF Register, syncNotes
<1> QED BY <1>1, <1>2, <1>3, RunKeepsTrue
           DEF Register, KeepInv, settings, links, syncNotes, WalksComeFirst, BlindRunsAreIdle, Judged

(* Adding the records of new titles leaves the run's sets. *)
LEMMA AddRecordsGoes ==
    ASSUME KeepInv, NEW r \in SyncRuns, AddRecords(r)
    PROVE  Keeps(r, (IF MetadataOnly THEN "records" ELSE "judge"), run[r].clean)
<1>0. PlacesTyped /\ RecordTyped /\ RunTyped /\ NumbersTyped
  BY SyncParts DEF KeepInv
<1> DEFINE f == [run[r] EXCEPT !.at = IF MetadataOnly THEN "records" ELSE "judge"]
<1>1. f \in RunType
  BY <1>0, RunFields DEF RunType
<1>2. Goes(r, f)
  BY DEF AddRecords
<1>3. f.at = (IF MetadataOnly THEN "records" ELSE "judge") /\ f.clean = run[r].clean /\ f.number = run[r].number /\ f.walked = run[r].walked
      /\ f.metas = run[r].metas /\ f.libs = run[r].libs /\ f.imps = run[r].imps /\ f.blind = run[r].blind
  BY <1>0, RunFields DEF RunType
<1> HIDE DEF f
<1> QED BY <1>0, <1>1, <1>2, <1>3, OneRunGoes DEF Keeps

(* And it takes no record away. *)
LEMMA AddRecordsKeeps ==
    ASSUME KeepInv, NEW r \in SyncRuns, AddRecords(r)
    PROVE  KeepInv'
<1>0. PlacesTyped /\ RecordTyped /\ RunTyped /\ NumbersTyped
  BY SyncParts DEF KeepInv
<1>1. Keeps(r, (IF MetadataOnly THEN "records" ELSE "judge"), run[r].clean)
  BY AddRecordsGoes
<1>2. PlacesTyped' /\ RecordTyped' /\ NumbersTyped'
  BY <1>0, FoundTitles, SyncAssumption
     DEF AddRecords, settings, links, syncNotes, table, PlacesTyped, RecordTyped, NumbersTyped
<1>3. \A q \in Titles : loose[q] \subseteq loose'[q]
  BY <1>0 DEF AddRecords, syncNotes, NumbersTyped
<1> QED BY <1>1, <1>2, <1>3, RunKeepsTrue
           DEF AddRecords, KeepInv, settings, links, syncNotes, WalksComeFirst, BlindRunsAreIdle, Judged

(* Deleting an orphan takes it off the run's list. *)
LEMMA DeleteOrphanGoes ==
    ASSUME KeepInv, NEW r \in SyncRuns, NEW p \in Titles, DeleteOrphan(r, p)
    PROVE  /\ Keeps(r, "orphans", run[r].clean)
           /\ run'[r].todo = run[r].todo \ {p}
<1>0. PlacesTyped /\ RecordTyped /\ RunTyped /\ NumbersTyped
  BY SyncParts DEF KeepInv
<1> DEFINE f == [run[r] EXCEPT !.todo = run[r].todo \ {p}]
<1>1. f \in RunType
  BY <1>0, RunFields DEF RunType
<1>2. Goes(r, f)
  BY DEF DeleteOrphan
<1>3. f.at = "orphans" /\ f.clean = run[r].clean /\ f.number = run[r].number /\ f.walked = run[r].walked
      /\ f.metas = run[r].metas /\ f.libs = run[r].libs /\ f.imps = run[r].imps /\ f.blind = run[r].blind /\ f.todo = run[r].todo \ {p}
  BY <1>0, RunFields DEF RunType, DeleteOrphan
<1> HIDE DEF f
<1> QED BY <1>0, <1>1, <1>2, <1>3, OneRunGoes DEF Keeps

(* It was no linked title, because the run's walks had not seen it. *)
LEMMA DeleteOrphanKeeps ==
    ASSUME KeepInv, NEW r \in SyncRuns, NEW p \in Titles, DeleteOrphan(r, p)
    PROVE  KeepInv'
<1>0. PlacesTyped /\ RecordTyped /\ RunTyped /\ NumbersTyped
  BY SyncParts DEF KeepInv
<1>1. Keeps(r, "orphans", run[r].clean)
  BY DeleteOrphanGoes
<1>2. PlacesTyped' /\ RecordTyped' /\ NumbersTyped'
  BY <1>0, FoundTitles, SyncAssumption
     DEF DeleteOrphan, settings, links, syncNotes, table, PlacesTyped, RecordTyped, NumbersTyped
<1>3. \A q \in Titles : loose[q] \subseteq loose'[q]
  BY <1>0 DEF DeleteOrphan, syncNotes, NumbersTyped
<1> QED BY <1>1, <1>2, <1>3, RunKeepsTrue
           DEF DeleteOrphan, KeepInv, settings, links, syncNotes, WalksComeFirst, BlindRunsAreIdle, Judged

(* Deleting a stale link leaves the run's sets. *)
LEMMA DeleteLinkGoes ==
    ASSUME KeepInv, NEW r \in SyncRuns, NEW p \in Titles, DeleteLink(r, p)
    PROVE  Keeps(r, "links", run[r].clean)
<1>0. PlacesTyped /\ RecordTyped /\ RunTyped /\ NumbersTyped
  BY SyncParts DEF KeepInv
<1> DEFINE f == [run[r] EXCEPT !.todo = run[r].todo \ {p}]
<1>1. f \in RunType
  BY <1>0, RunFields DEF RunType
<1>2. Goes(r, f)
  BY DEF DeleteLink
<1>3. f.at = "links" /\ f.clean = run[r].clean /\ f.number = run[r].number /\ f.walked = run[r].walked
      /\ f.metas = run[r].metas /\ f.libs = run[r].libs /\ f.imps = run[r].imps /\ f.blind = run[r].blind
  BY <1>0, RunFields DEF RunType, DeleteLink
<1> HIDE DEF f
<1> QED BY <1>0, <1>1, <1>2, <1>3, OneRunGoes DEF Keeps

(* The title whose link is deleted is loose from then on. *)
LEMMA DeleteLinkKeeps ==
    ASSUME KeepInv, NEW r \in SyncRuns, NEW p \in Titles, DeleteLink(r, p)
    PROVE  KeepInv'
<1>0. PlacesTyped /\ RecordTyped /\ RunTyped /\ NumbersTyped
  BY SyncParts DEF KeepInv
<1>1. Keeps(r, "links", run[r].clean)
  BY DeleteLinkGoes
<1>2. PlacesTyped' /\ RecordTyped' /\ NumbersTyped'
  BY <1>0, FoundTitles, SyncAssumption, GoingNumbers
     DEF DeleteLink, settings, links, syncNotes, table, PlacesTyped, RecordTyped, NumbersTyped, Loosen
<1>3. \A q \in Titles : loose[q] \subseteq loose'[q]
  BY <1>0, Loosened DEF DeleteLink, syncNotes, NumbersTyped, Loosen
<1> QED BY <1>1, <1>2, <1>3, RunKeepsTrue
           DEF DeleteLink, KeepInv, settings, links, syncNotes, WalksComeFirst, BlindRunsAreIdle, Judged

(* Keeping the orphans for the next run leaves the run's sets. *)
LEMMA KeepOrphansGoes ==
    ASSUME KeepInv, NEW r \in SyncRuns, KeepOrphans(r)
    PROVE  Keeps(r, "links", run[r].clean)
<1>0. PlacesTyped /\ RecordTyped /\ RunTyped /\ NumbersTyped
  BY SyncParts DEF KeepInv
<1> DEFINE f == [run[r] EXCEPT !.at = "links", !.todo = (Found(r) \ run[r].metas) \cap pendingLinks]
<1>1. f \in RunType
  BY <1>0, RunFields, FoundTitles DEF RunType
<1>2. Goes(r, f)
  BY DEF KeepOrphans
<1>3. f.at = "links" /\ f.clean = run[r].clean /\ f.number = run[r].number /\ f.walked = run[r].walked
      /\ f.metas = run[r].metas /\ f.libs = run[r].libs /\ f.imps = run[r].imps /\ f.blind = run[r].blind
  BY <1>0, RunFields DEF RunType
<1> HIDE DEF f
<1> QED BY <1>0, <1>1, <1>2, <1>3, OneRunGoes DEF Keeps

(* And it takes nothing away. *)
LEMMA KeepOrphansKeeps ==
    ASSUME KeepInv, NEW r \in SyncRuns, KeepOrphans(r)
    PROVE  KeepInv'
<1>0. PlacesTyped /\ RecordTyped /\ RunTyped /\ NumbersTyped
  BY SyncParts DEF KeepInv
<1>1. Keeps(r, "links", run[r].clean)
  BY KeepOrphansGoes
<1>2. PlacesTyped' /\ RecordTyped' /\ NumbersTyped'
  <2>1. pendingMeta' \subseteq Titles /\ done' \in 0..MaxSyncs
    BY <1>0, FoundTitles, RunFields DEF KeepOrphans, NumbersTyped
  <2> QED BY <1>0, <2>1 DEF KeepOrphans, settings, links, syncNotes, PlacesTyped, RecordTyped, NumbersTyped
<1>3. \A q \in Titles : loose[q] \subseteq loose'[q]
  BY <1>0 DEF KeepOrphans, syncNotes, NumbersTyped
<1> QED BY <1>1, <1>2, <1>3, RunKeepsTrue
           DEF KeepOrphans, KeepInv, settings, links, syncNotes, WalksComeFirst, BlindRunsAreIdle, Judged

(* So does keeping the stale links. *)
LEMMA KeepLinksGoes ==
    ASSUME KeepInv, NEW r \in SyncRuns, KeepLinks(r)
    PROVE  Keeps(r, "records", run[r].clean)
<1>0. PlacesTyped /\ RecordTyped /\ RunTyped /\ NumbersTyped
  BY SyncParts DEF KeepInv
<1> DEFINE f == [run[r] EXCEPT !.at = "records"]
<1>1. f \in RunType
  BY <1>0, RunFields DEF RunType
<1>2. Goes(r, f)
  BY DEF KeepLinks
<1>3. f.at = "records" /\ f.clean = run[r].clean /\ f.number = run[r].number /\ f.walked = run[r].walked
      /\ f.metas = run[r].metas /\ f.libs = run[r].libs /\ f.imps = run[r].imps /\ f.blind = run[r].blind
  BY <1>0, RunFields DEF RunType
<1> HIDE DEF f
<1> QED BY <1>0, <1>1, <1>2, <1>3, OneRunGoes DEF Keeps

(* Which takes nothing away either. *)
LEMMA KeepLinksKeeps ==
    ASSUME KeepInv, NEW r \in SyncRuns, KeepLinks(r)
    PROVE  KeepInv'
<1>0. PlacesTyped /\ RecordTyped /\ RunTyped /\ NumbersTyped
  BY SyncParts DEF KeepInv
<1>1. Keeps(r, "records", run[r].clean)
  BY KeepLinksGoes
<1>2. PlacesTyped' /\ RecordTyped' /\ NumbersTyped'
  BY <1>0, FoundTitles, SyncAssumption
     DEF KeepLinks, settings, links, syncNotes, table, PlacesTyped, RecordTyped, NumbersTyped
<1>3. \A q \in Titles : loose[q] \subseteq loose'[q]
  BY <1>0 DEF KeepLinks, syncNotes, NumbersTyped
<1> QED BY <1>1, <1>2, <1>3, RunKeepsTrue
           DEF KeepLinks, KeepInv, settings, links, syncNotes, WalksComeFirst, BlindRunsAreIdle, Judged

(* The judgement keeps the run clean only if there are not too many        *)
(* orphans.                                                                *)
LEMMA JudgeGoes ==
    ASSUME KeepInv, NEW r \in SyncRuns, Judge(r)
    PROVE  /\ Keeps(r, (IF run[r].clean /\ ~TooMany(r) THEN "orphans" ELSE "records"), run[r].clean /\ ~TooMany(r))
           /\ run'[r].todo = IF run[r].clean /\ ~TooMany(r) THEN Orphans(r) \cap pendingMeta ELSE {}
<1> DEFINE go == run[r].clean /\ ~TooMany(r)
<1>0. PlacesTyped /\ RecordTyped /\ RunTyped /\ NumbersTyped
  BY SyncParts DEF KeepInv
<1> DEFINE f == [run[r] EXCEPT !.at = IF go THEN "orphans" ELSE "records", !.clean = go,
                              !.todo = IF go THEN Orphans(r) \cap pendingMeta ELSE {}]
<1>1. f \in RunType
  <2>1. Orphans(r) \cap pendingMeta \in SUBSET Titles
    BY <1>0, FoundTitles
  <2>2. run[r] \in RunType /\ go \in BOOLEAN
    BY <1>0, RunFields
  <2> HIDE DEF go
  <2> QED BY <2>1, <2>2 DEF RunType
<1>2. Goes(r, f)
  BY DEF Judge
<1>3. f.at = (IF go THEN "orphans" ELSE "records") /\ f.clean = go /\ f.number = run[r].number /\ f.walked = run[r].walked
      /\ f.metas = run[r].metas /\ f.libs = run[r].libs /\ f.imps = run[r].imps /\ f.blind = run[r].blind
      /\ f.todo = IF go THEN Orphans(r) \cap pendingMeta ELSE {}
  BY <1>0, RunFields DEF RunType
<1> HIDE DEF f
<1> QED BY <1>0, <1>1, <1>2, <1>3, OneRunGoes DEF Keeps

(* A run that was blind has too many, so what it goes on to delete was     *)
(* seen to be loose.                                                       *)
LEMMA JudgeKeeps ==
    ASSUME KeepInv, NEW r \in SyncRuns, Judge(r)
    PROVE  KeepInv'
<1>0. PlacesTyped /\ RecordTyped /\ RunTyped /\ NumbersTyped
  BY SyncParts DEF KeepInv
<1> DEFINE go == run[r].clean /\ ~TooMany(r)
<1>1. Keeps(r, (IF go THEN "orphans" ELSE "records"), go)
  BY JudgeGoes
<1>2. PlacesTyped' /\ RecordTyped' /\ NumbersTyped'
  <2>1. pendingMeta' \subseteq Titles /\ pendingLinks' \subseteq Titles
    BY <1>0 DEF Judge, PlacesTyped, AfterNoCleanup
  <2>2. done' \in 0..MaxSyncs
    BY <1>0, RunFields DEF Judge, NumbersTyped
  <2> QED BY <1>0, <2>1, <2>2 DEF Judge, settings, links, syncNotes, PlacesTyped, RecordTyped, NumbersTyped
<1>3. \A q \in Titles : loose[q] \subseteq loose'[q]
  BY <1>0 DEF Judge, syncNotes, NumbersTyped
<1>4. go => ~run[r].blind
  BY <1>0, AwayIsTooMany DEF KeepInv, BlindRunsAreIdle
<1>5. go \in BOOLEAN
  OBVIOUS
<1> HIDE DEF go
<1> QED BY <1>1, <1>2, <1>3, <1>4, <1>5, RunKeepsTrue
           DEF Judge, KeepInv, settings, links, syncNotes, WalksComeFirst, BlindRunsAreIdle, Judged, go

(* Only a run whose walks met no error, and found something, stays clean. *)
LEMMA TakeSnapshotGoes ==
    ASSUME KeepInv, NEW r \in SyncRuns, TakeSnapshot(r)
    PROVE  Keeps(r, "add", IF MetadataOnly THEN FALSE ELSE Trusted(r))
<1> DEFINE clean == IF MetadataOnly THEN FALSE ELSE Trusted(r)
           recs == {p \in Titles : record[p] # "none"}
           repairs == {p \in recs : record[p] = "repair"}
<1>0. PlacesTyped /\ RecordTyped /\ RunTyped /\ NumbersTyped
  BY SyncParts DEF KeepInv
<1>1. PICK changed \in SUBSET (run[r].metas \cap recs \cap Found(r)) :
          Goes(r, [run[r] EXCEPT !.at = "add", !.clean = clean, !.recs = recs, !.repairs = repairs,
                                !.todo = (run[r].metas \ recs) \cup changed])
  BY DEF TakeSnapshot
<1> DEFINE f == [run[r] EXCEPT !.at = "add", !.clean = clean, !.recs = recs, !.repairs = repairs,
                              !.todo = (run[r].metas \ recs) \cup changed]
<1>2. f \in RunType
  <2>1. /\ recs \in SUBSET Titles /\ repairs \in SUBSET Titles
        /\ (run[r].metas \ recs) \cup changed \in SUBSET Titles
    BY <1>0, RunFields
  <2>2. run[r] \in RunType /\ clean \in BOOLEAN
    BY <1>0, RunFields DEF Trusted
  <2> HIDE DEF clean, recs, repairs
  <2> QED BY <2>1, <2>2 DEF RunType
<1>3. f.at = "add" /\ f.clean = clean /\ f.number = run[r].number /\ f.walked = run[r].walked
      /\ f.metas = run[r].metas /\ f.libs = run[r].libs /\ f.imps = run[r].imps /\ f.blind = run[r].blind
  BY <1>0, RunFields DEF RunType
<1> HIDE DEF f, clean, recs, repairs
<1>4. Keeps(r, "add", clean)
  BY <1>0, <1>1, <1>2, <1>3, OneRunGoes DEF Keeps, f
<1> QED BY <1>4 DEF clean

(* And it takes nothing away. *)
LEMMA TakeSnapshotKeeps ==
    ASSUME KeepInv, NEW r \in SyncRuns, TakeSnapshot(r)
    PROVE  KeepInv'
<1> DEFINE clean == IF MetadataOnly THEN FALSE ELSE Trusted(r)
<1>0. PlacesTyped /\ RecordTyped /\ RunTyped /\ NumbersTyped
  BY SyncParts DEF KeepInv
<1>1. Keeps(r, "add", clean)
  BY TakeSnapshotGoes
<1>2. PlacesTyped' /\ RecordTyped' /\ NumbersTyped'
  BY <1>0 DEF TakeSnapshot, settings, links, syncNotes, table, PlacesTyped, RecordTyped, NumbersTyped
<1>3. VolumeCounts' /\ LibraryFilesKeepRecords' /\ BlindRunsAreIdle'
  BY <1>1 DEF KeepInv, Keeps, TakeSnapshot, settings, syncNotes, VolumeCounts, LibraryFilesKeepRecords,
     BlindRunsAreIdle, Judged
<1>4. WalksComeFirst'
  <2>1. "meta" \in run[r].walked /\ (clean => ~MetadataOnly /\ run[r].walked = {"meta", "library", "imports"})
    BY DEF TakeSnapshot
  <2> HIDE DEF clean
  <2>2. MetadataOnly' <=> MetadataOnly
    BY DEF TakeSnapshot, settings, MetadataOnly
  <2> QED BY <1>1, <2>1, <2>2 DEF KeepInv, Keeps, WalksComeFirst
<1>5. WalksSawWhatWasThere'
  <2>1. Loop'.at # "off" => /\ Loop.at # "off" /\ Loop'.number = Loop.number /\ Loop'.walked = Loop.walked
                           /\ Loop'.metas = Loop.metas /\ Loop'.libs = Loop.libs /\ Loop'.blind = Loop.blind
    BY <1>1 DEF Keeps, Loop, SyncRuns, TakeSnapshot
  <2> QED BY <1>0, <2>1, WalksStayTrue DEF KeepInv, TakeSnapshot, links, syncNotes
<1> QED BY <1>1, <1>2, <1>3, <1>4, <1>5, SyncParts DEF KeepInv, Keeps

(* What a walk brings.                                                     *)
LEMMA WalkSees ==
    ASSUME PlacesTyped, RunTyped, NEW r \in SyncRuns, NEW what \in {"meta", "library", "imports"},
           SyncWalk(r, what)
    PROVE  /\ RunTyped' /\ \A q \in SyncRuns \ {r} : run'[q] = run[q]
           /\ \/ run'[r].at = "off" /\ ~run'[r].blind
              \/ /\ run'[r].at = "walk" /\ run'[r].number = run[r].number
                 /\ run'[r].walked = run[r].walked \cup {what}
                 /\ run'[r].metas = IF what = "meta" THEN meta ELSE run[r].metas
                 /\ what # "library" => run'[r].libs = run[r].libs /\ run'[r].blind = run[r].blind
                 /\ what = "library" => run'[r].blind = ~volume /\ (volume => run'[r].libs = library)
                 /\ run'[r].imps = IF what = "imports" THEN imports ELSE run[r].imps
<1> DEFINE w == [run[r] EXCEPT !.walked = @ \cup {what}]
<1>1. /\ w \in RunType /\ w.at = "walk" /\ w.number = run[r].number /\ w.walked = run[r].walked \cup {what}
      /\ w.metas = run[r].metas /\ w.libs = run[r].libs /\ w.imps = run[r].imps /\ w.blind = run[r].blind
      /\ w.errors \in BOOLEAN
  BY RunFields DEF RunType, SyncWalk
<1>2. meta \in SUBSET Titles /\ library \in SUBSET Titles /\ imports \in SUBSET Titles /\ volume \in BOOLEAN
  BY DEF PlacesTyped
<1>3. \/ what = "meta" /\ Goes(r, [w EXCEPT !.metas = meta])
      \/ /\ what = "library"
         /\ \E e \in BOOLEAN : Goes(r, [w EXCEPT !.libs = IF volume THEN library ELSE {},
                                               !.blind = ~volume, !.errors = w.errors \/ e])
      \/ Goes(r, NoSync)
      \/ what = "imports" /\ Goes(r, [w EXCEPT !.imps = imports])
  BY DEF SyncWalk, Over, Goes
<1> HIDE DEF w
<1>4. CASE what = "meta" /\ Goes(r, [w EXCEPT !.metas = meta])
  <2> DEFINE f == [w EXCEPT !.metas = meta]
  <2>1. f \in RunType /\ f.at = "walk" /\ f.number = w.number /\ f.walked = w.walked /\ f.metas = meta
        /\ f.libs = w.libs /\ f.imps = w.imps /\ f.blind = w.blind
    BY <1>1, <1>2 DEF RunType
  <2> HIDE DEF f
  <2>2. Goes(r, f)
    BY <1>4 DEF f
  <2> QED BY <1>1, <1>4, <2>1, <2>2, OneRunGoes
<1>5. CASE /\ what = "library"
           /\ \E e \in BOOLEAN : Goes(r, [w EXCEPT !.libs = IF volume THEN library ELSE {},
                                                 !.blind = ~volume, !.errors = w.errors \/ e])
  <2>1. PICK e \in BOOLEAN : Goes(r, [w EXCEPT !.libs = IF volume THEN library ELSE {},
                                               !.blind = ~volume, !.errors = w.errors \/ e])
    BY <1>5
  <2> DEFINE f == [w EXCEPT !.libs = IF volume THEN library ELSE {},
                            !.blind = ~volume, !.errors = w.errors \/ e]
  <2>2. (IF volume THEN library ELSE {}) \in SUBSET Titles /\ (~volume) \in BOOLEAN /\ (w.errors \/ e) \in BOOLEAN
    <3>1. (IF volume THEN library ELSE {}) \in SUBSET Titles
      BY <1>2
    <3>2. (~volume) \in BOOLEAN /\ (w.errors \/ e) \in BOOLEAN
      OBVIOUS
    <3> QED BY <3>1, <3>2
  <2>3. f \in RunType /\ f.at = "walk" /\ f.number = w.number /\ f.walked = w.walked /\ f.metas = w.metas
        /\ f.libs = (IF volume THEN library ELSE {}) /\ f.imps = w.imps /\ f.blind = ~volume
    BY <1>1, <2>2 DEF RunType
  <2> HIDE DEF f
  <2>4. Goes(r, f)
    BY <2>1 DEF f
  <2>5. RunTyped' /\ run'[r] = f /\ \A q \in SyncRuns \ {r} : run'[q] = run[q]
    BY <2>3, <2>4, OneRunGoes
  <2> QED BY <1>1, <1>5, <2>3, <2>5
<1>6. CASE Goes(r, NoSync)
  <2>1. NoSync \in RunType /\ NoSync.at = "off" /\ ~NoSync.blind
    BY SyncAssumption DEF NoSync, RunType
  <2> QED BY <1>6, <2>1, OneRunGoes
<1>7. CASE what = "imports" /\ Goes(r, [w EXCEPT !.imps = imports])
  <2> DEFINE f == [w EXCEPT !.imps = imports]
  <2>1. f \in RunType /\ f.at = "walk" /\ f.number = w.number /\ f.walked = w.walked /\ f.metas = w.metas
        /\ f.libs = w.libs /\ f.imps = imports /\ f.blind = w.blind
    BY <1>1, <1>2 DEF RunType
  <2> HIDE DEF f
  <2>2. Goes(r, f)
    BY <1>7 DEF f
  <2> QED BY <1>1, <1>7, <2>1, <2>2, OneRunGoes
<1> QED BY <1>3, <1>4, <1>5, <1>6, <1>7

(* A walk sees every title that was there all the time, or the run knows   *)
(* that it was blind.                                                      *)
LEMMA SyncWalkKeeps ==
    ASSUME KeepInv, NEW r \in SyncRuns, NEW what \in {"meta", "library", "imports"}, SyncWalk(r, what)
    PROVE  KeepInv'
<1>0. PlacesTyped /\ RecordTyped /\ RunTyped /\ NumbersTyped
  BY SyncParts DEF KeepInv
<1>1. /\ RunTyped' /\ \A q \in SyncRuns \ {r} : run'[q] = run[q]
      /\ \/ run'[r].at = "off" /\ ~run'[r].blind
         \/ /\ run'[r].at = "walk" /\ run'[r].number = run[r].number
            /\ run'[r].walked = run[r].walked \cup {what}
            /\ run'[r].metas = IF what = "meta" THEN meta ELSE run[r].metas
            /\ what # "library" => run'[r].libs = run[r].libs /\ run'[r].blind = run[r].blind
            /\ what = "library" => run'[r].blind = ~volume /\ (volume => run'[r].libs = library)
  BY <1>0, WalkSees
<1>2. PlacesTyped' /\ RecordTyped' /\ NumbersTyped'
  BY <1>0 DEF SyncWalk, settings, links, syncNotes, table, PlacesTyped, RecordTyped, NumbersTyped
<1>3. UNCHANGED <<happens, strategy, libraryDir, volume, meta, library, loose, fresh, bereft>>
  BY DEF SyncWalk, settings, links, syncNotes
<1>4. VolumeCounts' /\ LibraryFilesKeepRecords'
  BY <1>3 DEF KeepInv, VolumeCounts, LibraryFilesKeepRecords
<1>5. BlindRunsAreIdle'
  <2>1. "volume" \notin happens => ~run'[r].blind
    BY <1>1 DEF KeepInv, BlindRunsAreIdle
  <2> QED BY <1>1, <1>3, <2>1 DEF KeepInv, BlindRunsAreIdle, Judged
<1>6. WalksComeFirst'
  BY <1>1, <1>3 DEF KeepInv, WalksComeFirst, MetadataOnly
<1>7. WalksSawWhatWasThere'
  <2>1. CASE r = "loop" /\ Loop'.at # "off"
    <3>1. Loop.at # "off"
      BY <2>1 DEF SyncWalk, Loop
    <3>2. "meta" \in Loop'.walked => meta' \ Loop'.metas \subseteq fresh'
      BY <1>1, <1>3, <2>1, <3>1 DEF KeepInv, WalksSawWhatWasThere, Loop
    <3>3. "library" \in Loop'.walked /\ ~Loop'.blind =>
              \A p \in library' \ Loop'.libs : Loop'.number \in loose'[p] \/ p \in fresh'
      BY <1>1, <1>3, <2>1, <3>1 DEF KeepInv, WalksSawWhatWasThere, Loop
    <3> QED BY <3>2, <3>3 DEF WalksSawWhatWasThere
  <2>2. CASE r = "loop" /\ Loop'.at = "off"
    BY <2>2 DEF WalksSawWhatWasThere
  <2>3. CASE r # "loop"
    BY <1>1, <1>3, <2>3 DEF KeepInv, WalksSawWhatWasThere, Loop, SyncRuns
  <2> QED BY <2>1, <2>2, <2>3
<1> QED BY <1>1, <1>2, <1>4, <1>5, <1>6, <1>7, SyncParts DEF KeepInv

(* No run is going at first. *)
LEMMA SyncInit1 == SyncInit /\ VolumeCounts => KeepInv
<1> SUFFICES ASSUME SyncInit, VolumeCounts
             PROVE  KeepInv
  OBVIOUS
<1> USE DEF SyncInit
<1>0. NoSync \in RunType /\ NoSync.at = "off" /\ ~NoSync.blind
  BY SyncAssumption DEF NoSync, RunType
<1>1. PlacesTyped /\ RecordTyped
  BY DEF PlacesTyped, RecordTyped
<1>2. RunTyped /\ \A r \in SyncRuns : run[r] = NoSync
  BY <1>0 DEF RunTyped
<1>3. NumbersTyped
  BY SyncAssumption DEF NumbersTyped
<1>4. BlindRunsAreIdle /\ WalksComeFirst
  BY <1>0, <1>2 DEF BlindRunsAreIdle, WalksComeFirst, Judged
<1>5. WalksSawWhatWasThere /\ LibraryFilesKeepRecords
  BY <1>0, <1>2 DEF WalksSawWhatWasThere, LibraryFilesKeepRecords, Loop, SyncRuns
<1> QED BY <1>1, <1>2, <1>3, <1>4, <1>5, SyncParts DEF KeepInv

(* Every step of the synchronisation keeps its invariant. *)
LEMMA SyncSteps ==
    ASSUME KeepInv, SyncNext \/ UNCHANGED syncVars
    PROVE  KeepInv'
<1>1. ASSUME NEW r \in SyncRuns, RunBegins(r) \/ RunStep(r) \/ RunIsCut(r)
      PROVE  KeepInv'
  BY <1>1, RunBeginsKeeps, RunIsCutKeeps, RunEndsKeeps, RegisterKeeps, AddRecordsKeeps, DeleteOrphanKeeps,
     DeleteLinkKeeps, KeepOrphansKeeps, KeepLinksKeeps, JudgeKeeps, TakeSnapshotKeeps, SyncWalkKeeps
     DEF RunStep
<1>2. ASSUME NEW p \in Titles,
             \/ ImportMetadata(p) \/ ImportLink(p) \/ ArrMoves(p) \/ ArrRemoves(p)
             \/ UserDeletes(p) \/ Repairs(p)
      PROVE  KeepInv'
  BY <1>2, ImportMetadataKeeps, ImportLinkKeeps, ArrMovesKeeps, ArrRemovesKeeps, UserDeletesKeeps,
     RepairsKeeps
<1>3. ASSUME VolumeChanges \/ SettingChanges
      PROVE  KeepInv'
  BY <1>3, VolumeChangesKeeps, SettingChangesKeeps
<1>4. ASSUME UNCHANGED syncVars
      PROVE  KeepInv'
  <2>1. SyncTypeOK'
    BY <1>4 DEF KeepInv, syncVars, settings, links, table, syncNotes, SyncTypeOK
  <2>2. VolumeCounts' /\ BlindRunsAreIdle' /\ WalksComeFirst' /\ WalksSawWhatWasThere' /\ LibraryFilesKeepRecords'
    BY <1>4 DEF KeepInv, syncVars, settings, links, table, syncNotes, VolumeCounts, BlindRunsAreIdle,
       WalksComeFirst, MetadataOnly, WalksSawWhatWasThere, Loop, LibraryFilesKeepRecords
  <2> QED BY <2>1, <2>2 DEF KeepInv
<1> QED BY <1>1, <1>2, <1>3, <1>4 DEF SyncNext

(* What a run takes for an orphan was loose while it went on.              *)
LEMMA OrphansAreLoose ==
    ASSUME OrphanInv, Loop.at = "orphans", NEW p \in Orphans("loop")
    PROVE  Loop.number \in loose[p]
<1>0. PlacesTyped /\ RunTyped /\ "loop" \in SyncRuns
  BY SyncParts DEF KeepInv, OrphanInv, SyncRuns
<1>1. Loop.walked = {"meta", "library", "imports"} /\ ~Loop.blind
  BY <1>0 DEF OrphanInv, KeepInv, WalksComeFirst, BlindRunsAreIdle, Judged, Loop
<1>2. p \in Titles /\ p \notin Loop.libs /\ p \notin Loop.imps
  BY <1>0, FoundTitles DEF Orphans, Found, Loop
<1> SUFFICES ASSUME Loop.number \notin loose[p]
             PROVE  FALSE
  OBVIOUS
<1>3. Linked(p) /\ p \notin imports
  BY <1>1, <1>2 DEF OrphanInv, TightIsLinked
<1>4. p \in library \ Loop.libs /\ p \notin fresh
  BY <1>2, <1>3 DEF Linked, OrphanInv, NothingComes
<1> QED BY <1>1, <1>4 DEF OrphanInv, KeepInv, WalksSawWhatWasThere

(* Only the loop runs.                                                     *)
LEMMA OnlyTheLoop ==
    ASSUME OrphanInv, NEW r \in SyncRuns, run[r].at # "off"
    PROVE  r = "loop"
BY DEF OrphanInv, NothingComes, SyncRuns

(* A run goes on, and what it does to links it notes.                      *)
LEMMA RunGoesOnSafely ==
    ASSUME OrphanInv, KeepInv', NEW at, NEW clean, Keeps("loop", at, clean), Loop.at # "off", at # "off",
           UNCHANGED <<happens, linking, fresh, unsafe>>, imports' \subseteq imports,
           \A q \in Titles : /\ loose[q] \subseteq loose'[q]
                             /\ Loop.number \in loose'[q] \/ (Linked(q) => Linked(q)'),
           PendingWereLoose'
    PROVE  OrphanInv'
<1>1. RunsAreAlone' /\ OrphansWereLooseTwice'
  BY DEF OrphanInv, RunsAreAlone, OrphansWereLooseTwice
<1>2. NothingComes'
  BY DEF OrphanInv, NothingComes, Keeps, Loop, SyncRuns
<1>3. Loop'.number = Loop.number /\ Loop'.walked = Loop.walked /\ Loop'.imps = Loop.imps
  BY DEF Keeps, Loop
<1>4. TightIsLinked'
  <2> SUFFICES ASSUME NEW q \in Titles, Loop'.number \notin loose'[q]
               PROVE  Linked(q)' /\ ("imports" \in Loop'.walked /\ q \in imports' => q \in Loop'.imps)
    BY DEF TightIsLinked
  <2>1. Loop.number \notin loose[q]
    BY <1>3
  <2> QED BY <1>3, <2>1 DEF OrphanInv, TightIsLinked
<1> QED BY <1>1, <1>2, <1>4 DEF OrphanInv

(* A run that begins leaves the pending orphans as they are. *)
LEMMA RunBeginsSafe ==
    ASSUME OrphanInv, NEW r \in SyncRuns, RunBegins(r)
    PROVE  OrphanInv'
<1>0. PlacesTyped /\ RunTyped /\ NumbersTyped
  BY SyncParts DEF KeepInv, OrphanInv
<1>1. KeepInv' /\ RunTyped'
  BY RunBeginsKeeps, SyncParts DEF OrphanInv, KeepInv
<1>2. r = "loop"
  BY DEF OrphanInv, RunsAreAlone, RunBegins, SyncRuns
<1>3. /\ Loop'.at = "walk" /\ Loop'.number = runs + 1 /\ Loop'.walked = {}
      /\ run'["dry"] = run["dry"]
  BY <1>0, <1>2 DEF RunBegins, Goes, RunTyped, NoSync, Loop, SyncRuns
<1>4. RunsAreAlone' /\ OrphansWereLooseTwice'
  BY DEF OrphanInv, RunBegins, settings, RunsAreAlone, OrphansWereLooseTwice
<1>5. NothingComes'
  BY <1>2, <1>3 DEF OrphanInv, RunsAreAlone, NothingComes, RunBegins, links
<1>6. \A q \in Titles : /\ loose[q] \subseteq loose'[q]
                        /\ Loop'.number \notin loose'[q] => Linked(q)'
  BY <1>0, <1>3 DEF RunBegins, Linked, links, NumbersTyped
<1>7. TightIsLinked'
  BY <1>3, <1>6 DEF TightIsLinked
<1>8. PendingWereLoose'
  BY <1>0, <1>3, <1>6 DEF OrphanInv, PendingWereLoose, RunBegins, table, PlacesTyped
<1> QED BY <1>1, <1>4, <1>5, <1>7, <1>8 DEF OrphanInv

(* A run that is over leaves the pending orphans as they were. *)
LEMMA RunIsOverSafe ==
    ASSUME OrphanInv, KeepInv', NEW r \in SyncRuns, Over(r), run[r].at # "off",
           UNCHANGED <<happens, links, pendingMeta, done, loose, fresh, unsafe>>
    PROVE  OrphanInv'
<1>0. RunTyped
  BY SyncParts DEF KeepInv, OrphanInv
<1>1. r = "loop"
  BY OnlyTheLoop
<1>2. Loop'.at = "off" /\ run'["dry"] = run["dry"]
  BY <1>0, <1>1 DEF Over, RunTyped, Loop, NoSync, SyncRuns
<1>3. RunsAreAlone' /\ OrphansWereLooseTwice' /\ NothingComes' /\ TightIsLinked' /\ PendingWereLoose'
  BY <1>2 DEF OrphanInv, RunsAreAlone, OrphansWereLooseTwice, NothingComes, TightIsLinked, PendingWereLoose
<1> QED BY <1>3 DEF OrphanInv

(* So a run that is cut off keeps the invariant. *)
LEMMA RunIsCutSafe ==
    ASSUME OrphanInv, NEW r \in SyncRuns, RunIsCut(r)
    PROVE  OrphanInv'
<1>1. KeepInv'
  BY RunIsCutKeeps DEF OrphanInv
<1> QED BY <1>1, RunIsOverSafe DEF RunIsCut, settings, table, syncNotes

(* And one that ends. *)
LEMMA RunEndsSafe ==
    ASSUME OrphanInv, NEW r \in SyncRuns, RunEnds(r)
    PROVE  OrphanInv'
<1>1. KeepInv'
  BY RunEndsKeeps DEF OrphanInv
<1> QED BY <1>1, RunIsOverSafe DEF RunEnds, settings

(* A walk that misses a title's link finds the title loose. *)
LEMMA SyncWalkSafe ==
    ASSUME OrphanInv, NEW r \in SyncRuns, NEW what \in {"meta", "library", "imports"}, SyncWalk(r, what)
    PROVE  OrphanInv'
<1>0. PlacesTyped /\ RunTyped /\ NumbersTyped
  BY SyncParts DEF KeepInv, OrphanInv
<1>1. KeepInv'
  BY SyncWalkKeeps DEF OrphanInv
<1>2. r = "loop"
  BY OnlyTheLoop DEF SyncWalk
<1>3. /\ run'["dry"] = run["dry"]
      /\ \/ Loop'.at = "off"
         \/ /\ Loop'.at = "walk" /\ Loop'.number = Loop.number /\ Loop'.walked = Loop.walked \cup {what}
            /\ Loop'.imps = IF what = "imports" THEN imports ELSE Loop.imps
  BY <1>0, <1>2, WalkSees DEF Loop, SyncRuns
<1>4. UNCHANGED <<happens, library, imports, linking, pendingMeta, done, loose, fresh, unsafe>> /\ Loop.at = "walk"
  BY <1>2 DEF SyncWalk, settings, links, table, syncNotes, Loop
<1>5. RunsAreAlone' /\ OrphansWereLooseTwice' /\ PendingWereLoose'
  BY <1>3, <1>4 DEF OrphanInv, RunsAreAlone, OrphansWereLooseTwice, PendingWereLoose
<1>6. NothingComes'
  BY <1>3, <1>4 DEF OrphanInv, NothingComes
<1>7. TightIsLinked'
  BY <1>3, <1>4 DEF OrphanInv, TightIsLinked, Linked
<1> QED BY <1>1, <1>5, <1>6, <1>7 DEF OrphanInv

(* The snapshot changes no orphan. *)
LEMMA TakeSnapshotSafe ==
    ASSUME OrphanInv, NEW r \in SyncRuns, TakeSnapshot(r)
    PROVE  OrphanInv'
<1>1. KeepInv'
  BY TakeSnapshotKeeps DEF OrphanInv
<1>2. r = "loop" /\ Loop.at = "walk"
  BY OnlyTheLoop DEF TakeSnapshot, Loop
<1>3. PICK clean : Keeps("loop", "add", clean)
  BY <1>2, TakeSnapshotGoes DEF OrphanInv
<1>4. UNCHANGED <<happens, library, imports, linking, pendingMeta, done, loose, fresh, unsafe>>
  BY DEF TakeSnapshot, settings, links, table, syncNotes
<1>5. PendingWereLoose'
  BY <1>3, <1>4 DEF OrphanInv, PendingWereLoose, Keeps, Loop
<1> QED BY <1>1, <1>2, <1>3, <1>4, <1>5, RunGoesOnSafely DEF Linked

(* Registering a title changes none. *)
LEMMA RegisterSafe ==
    ASSUME OrphanInv, NEW r \in SyncRuns, NEW p \in Titles, Register(r, p)
    PROVE  OrphanInv'
<1>1. KeepInv'
  BY RegisterKeeps DEF OrphanInv
<1>2. r = "loop" /\ Loop.at = "add"
  BY OnlyTheLoop DEF Register, Loop
<1>3. PICK clean : Keeps("loop", "add", clean)
  BY <1>2, RegisterGoes DEF OrphanInv
<1>4. UNCHANGED <<happens, library, imports, linking, pendingMeta, done, loose, fresh, unsafe>>
  BY DEF Register, settings, links, syncNotes
<1>5. PendingWereLoose'
  BY <1>3, <1>4 DEF OrphanInv, PendingWereLoose, Keeps, Loop
<1> QED BY <1>1, <1>2, <1>3, <1>4, <1>5, RunGoesOnSafely DEF Linked

(* Nor does adding records. *)
LEMMA AddRecordsSafe ==
    ASSUME OrphanInv, NEW r \in SyncRuns, AddRecords(r)
    PROVE  OrphanInv'
<1>1. KeepInv'
  BY AddRecordsKeeps DEF OrphanInv
<1>2. r = "loop" /\ Loop.at = "add"
  BY OnlyTheLoop DEF AddRecords, Loop
<1>3. PICK at \in {"records", "judge"}, clean \in BOOLEAN : Keeps("loop", at, clean)
  BY <1>2, AddRecordsGoes, RunFields, SyncParts DEF OrphanInv, KeepInv
<1>4. UNCHANGED <<happens, library, imports, linking, pendingMeta, done, loose, fresh, unsafe>>
  BY DEF AddRecords, settings, links, syncNotes
<1>5. PendingWereLoose'
  BY <1>3, <1>4 DEF OrphanInv, PendingWereLoose, Keeps, Loop
<1> QED BY <1>1, <1>2, <1>3, <1>4, <1>5, RunGoesOnSafely DEF Linked

(* The orphans to be deleted are those pending from the run before, loose  *)
(* in both.                                                                *)
LEMMA JudgeSafe ==
    ASSUME OrphanInv, NEW r \in SyncRuns, Judge(r)
    PROVE  OrphanInv'
<1>0. PlacesTyped /\ RunTyped /\ NumbersTyped
  BY SyncParts DEF KeepInv, OrphanInv
<1>1. KeepInv'
  BY JudgeKeeps DEF OrphanInv
<1>2. r = "loop" /\ Loop.at = "judge"
  BY OnlyTheLoop DEF Judge, Loop
<1>3. UNCHANGED <<happens, library, imports, linking, loose, fresh, unsafe>>
  BY DEF Judge, settings, links, syncNotes
<1>4. CASE Loop.clean /\ ~TooMany("loop")
  <2>1. Keeps("loop", "orphans", Loop.clean /\ ~TooMany("loop"))
        /\ Loop'.todo = Orphans("loop") \cap pendingMeta
    BY <1>2, <1>4, JudgeGoes DEF OrphanInv, Loop
  <2>2. pendingMeta' = pendingMeta /\ done' = done
    BY <1>2, <1>4 DEF Judge, Loop
  <2>3. Orphans("loop")' = Orphans("loop")
    BY <2>1 DEF Orphans, Found, Keeps
  <2>4. PendingWereLoose'
    BY <1>3, <2>1, <2>2, <2>3 DEF OrphanInv, PendingWereLoose
  <2> QED BY <1>1, <1>2, <1>3, <2>1, <2>4, RunGoesOnSafely DEF Linked
<1>5. CASE ~(Loop.clean /\ ~TooMany("loop"))
  <2>1. Keeps("loop", "records", Loop.clean /\ ~TooMany("loop"))
    BY <1>2, <1>5, JudgeGoes DEF OrphanInv, Loop
  <2>2. pendingMeta' = {}
    BY <1>2, <1>5 DEF Judge, Loop, AfterNoCleanup
  <2>3. PendingWereLoose'
    BY <2>1, <2>2 DEF PendingWereLoose, Keeps, Loop
  <2> QED BY <1>1, <1>2, <1>3, <2>1, <2>3, RunGoesOnSafely DEF Linked
<1> QED BY <1>4, <1>5

(* What is deleted was loose in the last run and in this one.              *)
LEMMA DeleteOrphanSafe ==
    ASSUME OrphanInv, NEW r \in SyncRuns, NEW p \in Titles, DeleteOrphan(r, p)
    PROVE  OrphanInv'
<1>1. KeepInv'
  BY DeleteOrphanKeeps DEF OrphanInv
<1>2. r = "loop" /\ Loop.at = "orphans" /\ p \in Loop.todo
  BY OnlyTheLoop DEF DeleteOrphan, Loop
<1>3. UNCHANGED <<happens, library, imports, linking, pendingMeta, done, loose, fresh>>
  BY DEF DeleteOrphan, settings, links, table
<1>4. Keeps("loop", "orphans", Loop.clean) /\ Loop'.todo = Loop.todo \ {p}
  BY <1>2, DeleteOrphanGoes DEF OrphanInv, Loop
<1>5. {Loop.number, done} \subseteq loose[p]
  <2>1. p \in Orphans("loop") /\ p \in pendingMeta
    BY <1>2 DEF OrphanInv, PendingWereLoose
  <2> QED BY <1>2, <2>1, OrphansAreLoose DEF OrphanInv, PendingWereLoose
<1>6. unsafe' = unsafe
  <2>1. unsafe = FALSE
    BY SyncParts DEF OrphanInv, KeepInv, PlacesTyped, OrphansWereLooseTwice
  <2>2. unsafe' = FALSE
    BY <1>2, <1>5, <2>1 DEF DeleteOrphan, Loop
  <2> QED BY <2>1, <2>2
<1>7. PendingWereLoose'
  <2>1. Orphans("loop")' = Orphans("loop")
    BY <1>4 DEF Orphans, Found, Keeps
  <2> QED BY <1>2, <1>3, <1>4, <2>1 DEF OrphanInv, PendingWereLoose
<1> QED BY <1>1, <1>2, <1>3, <1>4, <1>6, <1>7, RunGoesOnSafely DEF Linked

(* The orphans kept were loose in this run. *)
LEMMA KeepOrphansSafe ==
    ASSUME OrphanInv, NEW r \in SyncRuns, KeepOrphans(r)
    PROVE  OrphanInv'
<1>1. KeepInv'
  BY KeepOrphansKeeps DEF OrphanInv
<1>2. r = "loop" /\ Loop.at = "orphans"
  BY OnlyTheLoop DEF KeepOrphans, Loop
<1>3. UNCHANGED <<happens, library, imports, linking, loose, fresh, unsafe>>
  BY DEF KeepOrphans, settings, links, syncNotes
<1>4. Keeps("loop", "links", Loop.clean)
  BY <1>2, KeepOrphansGoes DEF OrphanInv, Loop
<1>5. PendingWereLoose'
  <2>1. done' = Loop.number /\ pendingMeta' \subseteq Orphans("loop")
    BY <1>2 DEF KeepOrphans, Loop
  <2>2. \A q \in pendingMeta' : done' \in loose'[q]
    BY <1>2, <1>3, <2>1, OrphansAreLoose
  <2> QED BY <1>4, <2>2 DEF PendingWereLoose, Keeps, Loop
<1> QED BY <1>1, <1>2, <1>3, <1>4, <1>5, RunGoesOnSafely DEF Linked

(* Deleting a stale link changes no orphan. *)
LEMMA DeleteLinkSafe ==
    ASSUME OrphanInv, NEW r \in SyncRuns, NEW p \in Titles, DeleteLink(r, p)
    PROVE  OrphanInv'
<1>0. PlacesTyped /\ RunTyped /\ NumbersTyped
  BY SyncParts DEF KeepInv, OrphanInv
<1>1. KeepInv'
  BY DeleteLinkKeeps DEF OrphanInv
<1>2. r = "loop" /\ Loop.at = "links"
  BY OnlyTheLoop DEF DeleteLink, Loop
<1>3. UNCHANGED <<happens, linking, pendingMeta, done, fresh, unsafe>>
  BY DEF DeleteLink, settings, table
<1>4. Keeps("loop", "links", Loop.clean)
  BY <1>2, DeleteLinkGoes DEF OrphanInv, Loop
<1>5. /\ imports' \subseteq imports
      /\ \A q \in Titles : q # p => (Linked(q) => Linked(q)')
  BY DEF DeleteLink, Linked
<1>6. \A q \in Titles : loose[q] \subseteq loose'[q]
  BY <1>0, Loosened DEF DeleteLink
<1>7. Loop.number \in loose'[p] \/ (Linked(p) => Linked(p)')
  <2>1. CASE Loosen({p})
    BY <1>0, <1>2, <2>1, Loosened
  <2>2. CASE UNCHANGED <<library, imports, loose>>
    BY <2>2 DEF Linked
  <2> QED BY <2>1, <2>2 DEF DeleteLink
<1>8. PendingWereLoose'
  BY <1>0, <1>3, <1>4, <1>6 DEF OrphanInv, PendingWereLoose, Keeps, Loop, PlacesTyped
<1> QED BY <1>1, <1>2, <1>3, <1>4, <1>5, <1>6, <1>7, <1>8, RunGoesOnSafely

(* Nor does keeping one. *)
LEMMA KeepLinksSafe ==
    ASSUME OrphanInv, NEW r \in SyncRuns, KeepLinks(r)
    PROVE  OrphanInv'
<1>1. KeepInv'
  BY KeepLinksKeeps DEF OrphanInv
<1>2. r = "loop" /\ Loop.at = "links"
  BY OnlyTheLoop DEF KeepLinks, Loop
<1>3. UNCHANGED <<happens, library, imports, linking, pendingMeta, done, loose, fresh, unsafe>>
  BY DEF KeepLinks, settings, links, syncNotes
<1>4. Keeps("loop", "records", Loop.clean)
  BY <1>2, KeepLinksGoes DEF OrphanInv, Loop
<1>5. PendingWereLoose'
  BY <1>3, <1>4 DEF OrphanInv, PendingWereLoose, Keeps, Loop
<1> QED BY <1>1, <1>2, <1>3, <1>4, <1>5, RunGoesOnSafely DEF Linked

(* Nothing is pending at first. *)
LEMMA SyncInitIsSafe == SyncInit /\ VolumeCounts /\ RunsAreAlone => OrphanInv
<1> SUFFICES ASSUME SyncInit, VolumeCounts, RunsAreAlone
             PROVE  OrphanInv
  OBVIOUS
<1>1. KeepInv
  BY SyncInit1
<1>2. \A r \in SyncRuns : run[r].at = "off"
  BY DEF SyncInit, NoSync
<1>3. NothingComes /\ TightIsLinked /\ PendingWereLoose
  BY <1>2 DEF SyncInit, NothingComes, TightIsLinked, PendingWereLoose, Loop, SyncRuns
<1>4. OrphansWereLooseTwice
  BY DEF SyncInit, OrphansWereLooseTwice
<1> QED BY <1>1, <1>3, <1>4 DEF OrphanInv

(* Every step keeps what is known of the pending orphans, when the runs    *)
(* are alone.                                                              *)
LEMMA SafeSteps ==
    ASSUME OrphanInv, SyncNext \/ UNCHANGED syncVars
    PROVE  OrphanInv'
<1>1. ASSUME NEW r \in SyncRuns, RunBegins(r) \/ RunStep(r) \/ RunIsCut(r)
      PROVE  OrphanInv'
  BY <1>1, RunBeginsSafe, RunIsCutSafe, RunEndsSafe, RegisterSafe, AddRecordsSafe, DeleteOrphanSafe,
     DeleteLinkSafe, KeepOrphansSafe, KeepLinksSafe, JudgeSafe, TakeSnapshotSafe, SyncWalkSafe
     DEF RunStep
<1>2. ASSUME NEW p \in Titles,
             \/ ImportMetadata(p) \/ ImportLink(p) \/ ArrMoves(p) \/ ArrRemoves(p)
             \/ UserDeletes(p) \/ Repairs(p)
      PROVE  OrphanInv'
  BY <1>2, ImportMetadataSafe, ImportLinkSafe, ArrMovesSafe, ArrRemovesSafe, UserDeletesSafe, RepairsSafe
<1>3. ASSUME VolumeChanges \/ SettingChanges
      PROVE  OrphanInv'
  BY <1>3, VolumeChangesSafe, SettingChangesSafe
<1>4. ASSUME UNCHANGED syncVars
      PROVE  OrphanInv'
  <2>1. KeepInv'
    BY <1>4, SyncSteps DEF OrphanInv
  <2>2. RunsAreAlone' /\ OrphansWereLooseTwice' /\ NothingComes'
    BY <1>4 DEF OrphanInv, syncVars, settings, links, syncNotes, RunsAreAlone, OrphansWereLooseTwice,
       NothingComes, Loop
  <2>3. TightIsLinked' /\ PendingWereLoose'
    BY <1>4 DEF OrphanInv, syncVars, links, table, syncNotes, TightIsLinked, Linked, PendingWereLoose, Orphans,
       Found, Loop
  <2> QED BY <2>1, <2>2, <2>3 DEF OrphanInv
<1> QED BY <1>1, <1>2, <1>3, <1>4 DEF SyncNext

-----------------------------------------------------------------------------
(* What the runs of the synchronisation know of the files: a run's walks   *)
(* have seen what was there all the time.                                  *)
THEOREM SyncInvariant == SyncSpec /\ VolumeCounts => []KeepInv
<1>1. KeepInv /\ [SyncNext]_syncVars => KeepInv'
  BY SyncSteps
<1> QED BY SyncInit1, <1>1, PTL DEF SyncSpec

(* Every variable of LibrarySync keeps its type.                           *)
THEOREM SyncTypeCorrect == SyncSpec /\ VolumeCounts => []SyncTypeOK
<1>1. KeepInv => SyncTypeOK
  BY DEF KeepInv
<1> QED BY SyncInvariant, <1>1, PTL

(* findFilesToDelete: a run takes no health record of a file that was      *)
(* linked in the library all the time, whatever imports, moves, removals,  *)
(* other runs and changes of the settings there are, if the volume's       *)
(* absence counts as too many orphans (or does not happen).                *)
THEOREM RecordsOfLibraryFilesStay == SyncSpec /\ VolumeCounts => []LibraryFilesKeepRecords
<1>1. KeepInv => LibraryFilesKeepRecords
  BY DEF KeepInv
<1> QED BY SyncInvariant, <1>1, PTL

(* And, with nobody importing during a run and no dry runs, what is        *)
(* pending was without its link in the run that has left it pending.       *)
THEOREM OrphanInvariant == SyncSpec /\ VolumeCounts /\ RunsAreAlone => []OrphanInv
<1>1. OrphanInv /\ [SyncNext]_syncVars => OrphanInv'
  BY SafeSteps
<1> QED BY SyncInitIsSafe, <1>1, PTL DEF SyncSpec

(* "Only delete metadata if it was orphaned in BOTH the current AND        *)
(* previous sync run", for as many runs and files as there may be.         *)
THEOREM OnlyTwiceOrphanedIsDeleted == SyncSpec /\ VolumeCounts /\ RunsAreAlone => []OrphansWereLooseTwice
<1>1. OrphanInv => OrphansWereLooseTwice
  BY DEF OrphanInv
<1> QED BY OrphanInvariant, <1>1, PTL

-----------------------------------------------------------------------------
(* MetadataStore.                                                          *)

Removing == {"unlink", "source", "uncount", "drop", "removeAll"}
Removed == {"source", "uncount", "drop"}

(* The files that a directory has of a release.                            *)
FilesIn(F, s) == {p \in Paths : F[p].store = s}
HiddenOf(s) == {p \in Paths : hidden[p] = s}

(* What a goroutine has removed and not yet taken off the count, and that  *)
(* it has written a file and not yet counted it.                           *)
Pending(x, s) == IF x.at \in Removed THEN x.decs[s] ELSE 0
IsUncounted(x, s) == x.op = "import" /\ x.at \in {"list", "count"} /\ x.rec.store = s
Tokens(s) == {y \in Tasks \X Nat : y[2] \in 1..Pending(task[y[1]], s)}

TouchedBy(x) == IF x.at = "idle" THEN {} ELSE IF x.op = "directory" THEN Paths ELSE {x.path, x.to}

(* The steps of an operation x on a directory F while release i is being   *)
(* imported: their order,                                                  *)
TaskShape(x) ==
    /\ x.at = "idle" => x = NoTask
    /\ x.op = "directory" => x.at \in {"walk", "removeAll", "uncount", "drop"}
    /\ x.at \in {"walk", "removeAll"} => x.op = "directory"
    /\ x.at # "idle" /\ x.op # "directory" => x.path \in Paths
    /\ IF x.at = "move" THEN x.op = "rename" /\ x.to \in Paths ELSE x.to \in Stores \cup {"none"}
    /\ x.at = "drop" => x.to \in Stores
    /\ x.at \notin Removing => x.decs = NoDecs
    /\ x.at = "source" => x.op = "delete"
    /\ x.at = "count" => x.op = "import"

(* an update keeps the store of its file,                                  *)
KeepsStore(x, F) ==
    x.at = "write" /\ x.op # "import" =>
        F[x.path] # Nothing /\ x.rec # Nothing /\ x.rec.store = F[x.path].store

(* an import goes on,                                                      *)
OfImport(x, i) ==
    x.op = "import" => i \in Stores /\ (x.at \in {"list", "count"} => x.rec.store = i)

(* a deletion spares its files,                                            *)
Spares(x, F, i) ==
    /\ x.at = "delete" => F[x.path] = Nothing \/ F[x.path].store # i
    /\ x.at = "walk" => \A p \in Paths : F[p] = Nothing \/ F[p].store # i
    /\ \A s \in Stores : x.decs[s] > 0 => s # i
    /\ x.at = "drop" => x.to # i

(* and removes what it is going to take off the count.                     *)
Announces(x, F) ==
    \A s \in Stores :
        /\ x.at = "unlink" /\ x.decs[s] > 0 => x.decs[s] = 1 /\ F[x.path].store = s
        /\ x.at = "removeAll" => x.decs[s] = Cardinality(FilesIn(F, s))

TaskFits(x, F, i) ==
    TaskShape(x) /\ KeepsStore(x, F) /\ OfImport(x, i) /\ Spares(x, F, i) /\ Announces(x, F)
TasksFit == \A t \in Tasks : TaskFits(task[t], file, importing)

(* Operations that go on at the same time are on different paths.          *)
TasksAreApart == \A t, u \in Tasks : t # u => TouchedBy(task[t]) \cap TouchedBy(task[u]) \cap Paths = {}

(* A store that is about to be dropped has no file, nor will one be taken  *)
(* off its count; unless a crash left one of its files uncounted.          *)
DroppedAreUnused ==
    \A t \in Tasks, s \in Stores \ gapped : task[t].at = "drop" /\ task[t].to = s =>
        FilesIn(file, s) = {} /\ HiddenOf(s) = {} /\ Tokens(s) = {}

ImportIsThere == importing # NoStore => importing \in present

(* The count of a store, with the files on their way to it, covers its     *)
(* files and what is about to be taken off it.                             *)
RefsCover ==
    \A s \in Stores :
        /\ IsFiniteSet(Tokens(s))
        /\ s \notin gapped => refs[s] + Cardinality(Uncounted(s))
              >= Cardinality(FilesIn(file, s)) + Cardinality(HiddenOf(s)) + Cardinality(Tokens(s))

(* Where source NZBs are deleted, every release has one file.              *)
LoneFiles ==
    /\ \A t \in Tasks : task[t].at = "source" => "source" \in allowed
    /\ "source" \in allowed =>
        /\ \A p \in Paths : hidden[p] = NoStore
        /\ \A p, q \in Paths : file[p] # Nothing /\ file[p].store = file[q].store => p = q
        /\ \A t \in Tasks : task[t].at # "hide"
        /\ \A t, u \in Tasks : task[t].op = "import" /\ task[u].op = "import" => t = u
        /\ \A t \in Tasks, q \in Paths :
              task[t].op = "import" /\ task[t].at \notin {"list", "count"} => file[q].store # importing
        /\ \A t \in Tasks, s \in Stores :
              task[t].at = "source" /\ task[t].decs[s] > 0 => FilesIn(file, s) = {}

StoreInv ==
    /\ StoreTypeOK /\ CarefulUse /\ TasksFit /\ TasksAreApart /\ DroppedAreUnused
    /\ ImportIsThere /\ StoreOutlivesFiles /\ RefsCover /\ LoneFiles

(* Two sets that differ in one element.                                    *)
LEMMA OneApart ==
    ASSUME NEW S, IsFiniteSet(S), NEW A \in SUBSET S, NEW B \in SUBSET S, NEW e, A \ {e} = B \ {e}
    PROVE  /\ IsFiniteSet(A) /\ IsFiniteSet(B) /\ Cardinality(A) \in Nat /\ Cardinality(B) \in Nat
           /\ Cardinality(A) + (IF e \in B THEN 1 ELSE 0) = Cardinality(B) + (IF e \in A THEN 1 ELSE 0)
<1>1. IsFiniteSet(A) /\ IsFiniteSet(B)
  BY FS_Subset
<1>2. Cardinality(A) \in Nat /\ Cardinality(B) \in Nat
  BY <1>1, FS_CardinalityType
<1>3. /\ Cardinality(A \ {e}) = IF e \in A THEN Cardinality(A) - 1 ELSE Cardinality(A)
      /\ Cardinality(B \ {e}) = IF e \in B THEN Cardinality(B) - 1 ELSE Cardinality(B)
  BY <1>1, FS_RemoveElement
<1> QED BY <1>1, <1>2, <1>3

(* The sets whose sizes are compared.                                      *)
LEMMA StoreSets ==
    ASSUME StoreInv, NEW s \in Stores
    PROVE  /\ Cardinality(Uncounted(s)) \in Nat /\ Cardinality(Tokens(s)) \in Nat
           /\ Cardinality(FilesIn(file, s)) \in Nat /\ Cardinality(HiddenOf(s)) \in Nat
           /\ FilesIn(file, s) = {} <=> Cardinality(FilesIn(file, s)) = 0
           /\ HiddenOf(s) = {} <=> Cardinality(HiddenOf(s)) = 0
           /\ Tokens(s) = {} <=> Cardinality(Tokens(s)) = 0
           /\ refs[s] \in Nat
<1>1. IsFiniteSet(Uncounted(s)) /\ IsFiniteSet(FilesIn(file, s)) /\ IsFiniteSet(HiddenOf(s))
  <2>1. Uncounted(s) \in SUBSET Tasks /\ FilesIn(file, s) \in SUBSET Paths /\ HiddenOf(s) \in SUBSET Paths
    BY DEF Uncounted, FilesIn, HiddenOf
  <2> QED BY <2>1, FS_Subset, StoreAssumption
<1>2. IsFiniteSet(Tokens(s)) /\ refs[s] \in Nat
  BY DEF StoreInv, RefsCover, StoreTypeOK
<1> QED BY <1>1, <1>2, FS_CardinalityType, FS_EmptySet

(* The fields of an operation.                                             *)
LEMMA TaskFields ==
    ASSUME NEW x \in TaskType
    PROVE  /\ x = [op |-> x.op, at |-> x.at, path |-> x.path, to |-> x.to, rec |-> x.rec, decs |-> x.decs]
           /\ x.decs \in [Stores -> Nat] /\ x.rec \in RecType \cup {Nothing}
           /\ x.path \in Paths \cup {"none"} /\ x.to \in Paths \cup Stores \cup {"none"}
BY DEF TaskType

(* A task at rest fits, touches nothing and owes no count. *)
LEMMA NoTaskFits ==
    ASSUME NEW F, NEW i
    PROVE  /\ NoTask \in TaskType /\ TaskFits(NoTask, F, i) /\ NoTask.at = "idle" /\ NoTask.op = "none"
           /\ TouchedBy(NoTask) = {} /\ NoTask.decs = NoDecs
           /\ \A s : Pending(NoTask, s) = 0 /\ ~IsUncounted(NoTask, s)
<1>1. /\ NoTask.at = "idle" /\ NoTask.op = "none" /\ NoTask.decs = NoDecs /\ NoTask.to = "none"
      /\ NoDecs \in [Stores -> Nat] /\ \A s \in Stores : NoDecs[s] = 0
  BY DEF NoTask, NoDecs
<1>2. NoTask \in TaskType
  BY <1>1 DEF NoTask, TaskType
<1>3. TaskFits(NoTask, F, i)
  BY <1>1 DEF TaskFits, TaskShape, KeepsStore, OfImport, Spares, Announces, Removing
<1> QED BY <1>1, <1>2, <1>3 DEF TouchedBy, Pending, IsUncounted, Removed

(* A file that is not there refers to no store. *)
LEMMA NothingHasNoStore == Nothing.store \notin Stores /\ NoStore \notin Stores
BY StoreAssumption DEF Nothing, NoStore

(* What one goroutine's step does to the sets of goroutines and tokens.    *)
LEMMA TokensChange ==
    ASSUME StoreInv, NEW t \in Tasks, NEW f \in TaskType, task' = [task EXCEPT ![t] = f], NEW s \in Stores
    PROVE  /\ IsFiniteSet(Tokens(s)') /\ Pending(f, s) \in Nat /\ Pending(task[t], s) \in Nat
           /\ Cardinality(Tokens(s)') \in Nat /\ (Tokens(s)' = {} <=> Cardinality(Tokens(s)') = 0)
           /\ Cardinality(Tokens(s)') + Pending(task[t], s) = Cardinality(Tokens(s)) + Pending(f, s)
           /\ Pending(f, s) = Pending(task[t], s) => Tokens(s)' = Tokens(s)
<1> DEFINE Rest == {y \in Tokens(s) : y[1] # t}
           Mine(n) == {t} \X (1..n)
<1>1. /\ task \in [Tasks -> TaskType] /\ task[t] \in TaskType
      /\ task' \in [Tasks -> TaskType] /\ task'[t] = f /\ \A u \in Tasks \ {t} : task'[u] = task[u]
  BY DEF StoreInv, StoreTypeOK
<1>2. Pending(f, s) \in Nat /\ Pending(task[t], s) \in Nat
  BY <1>1, TaskFields DEF Pending
<1>3. IsFiniteSet(Rest) /\ Cardinality(Rest) \in Nat
  <2>1. Rest \in SUBSET Tokens(s) /\ IsFiniteSet(Tokens(s))
    BY DEF StoreInv, RefsCover
  <2> QED BY <2>1, FS_Subset, FS_CardinalityType
<1>4. Tokens(s) = Rest \cup Mine(Pending(task[t], s)) /\ Tokens(s)' = Rest \cup Mine(Pending(f, s))
  BY <1>1, <1>2 DEF Tokens
<1>5. ASSUME NEW n \in Nat
      PROVE  /\ IsFiniteSet(Rest \cup Mine(n))
             /\ Cardinality(Rest \cup Mine(n)) = Cardinality(Rest) + n
  <2>1. IsFiniteSet(1..n) /\ Cardinality(1..n) = n
    BY FS_Interval
  <2>2. IsFiniteSet({t}) /\ Cardinality({t}) = 1
    BY FS_Singleton
  <2>3. IsFiniteSet({t} \X (1..n)) /\ Cardinality({t} \X (1..n)) = Cardinality({t}) * Cardinality(1..n)
    BY ONLY <2>1, <2>2, FS_Product
  <2>4. IsFiniteSet(Mine(n)) /\ Cardinality(Mine(n)) = n
    BY <2>1, <2>2, <2>3
  <2>5. Rest \cap Mine(n) = {}
    OBVIOUS
  <2>6. Cardinality(Rest \cap Mine(n)) = 0
    BY <2>5, FS_EmptySet
  <2> HIDE DEF Rest, Mine
  <2>7. /\ IsFiniteSet(Rest \cup Mine(n))
        /\ Cardinality(Rest \cup Mine(n)) = Cardinality(Rest) + Cardinality(Mine(n)) - Cardinality(Rest \cap Mine(n))
    BY <1>3, <2>4, FS_Union
  <2> QED BY <1>3, <2>4, <2>6, <2>7
<1>6. Pending(f, s) = Pending(task[t], s) => Tokens(s)' = Tokens(s)
  BY <1>4
<1> HIDE DEF Rest, Mine
<1>7. /\ Cardinality(Tokens(s)) = Cardinality(Rest) + Pending(task[t], s) /\ IsFiniteSet(Tokens(s)')
      /\ Cardinality(Tokens(s)') = Cardinality(Rest) + Pending(f, s)
  BY <1>2, <1>4, <1>5
<1>8. Tokens(s)' = {} <=> Cardinality(Tokens(s)') = 0
  BY <1>7, FS_EmptySet
<1> QED BY <1>2, <1>3, <1>6, <1>7, <1>8

(* The written files that are not counted yet, when one task changes. *)
LEMMA UncountedChange ==
    ASSUME StoreInv, NEW t \in Tasks, NEW f \in TaskType, task' = [task EXCEPT ![t] = f], NEW s \in Stores
    PROVE  /\ Cardinality(Uncounted(s)') \in Nat
           /\ Cardinality(Uncounted(s)') + (IF IsUncounted(task[t], s) THEN 1 ELSE 0)
                 = Cardinality(Uncounted(s)) + (IF IsUncounted(f, s) THEN 1 ELSE 0)
<1>1. task' = [task EXCEPT ![t] = f] /\ task'[t] = f /\ \A u \in Tasks \ {t} : task'[u] = task[u]
  BY DEF StoreInv, StoreTypeOK
<1>2. /\ Uncounted(s) \in SUBSET Tasks /\ Uncounted(s)' \in SUBSET Tasks
      /\ Uncounted(s)' \ {t} = Uncounted(s) \ {t}
  BY <1>1 DEF Uncounted
<1>3. (t \in Uncounted(s) <=> IsUncounted(task[t], s)) /\ (t \in Uncounted(s)' <=> IsUncounted(f, s))
  BY <1>1 DEF Uncounted, IsUncounted
<1> HIDE DEF Uncounted
<1>4. IsFiniteSet(Tasks)
  BY StoreAssumption
<1> QED BY <1>2, <1>3, <1>4, OneApart

(* One path gets another file, or none.                                    *)
LEMMA FilesChange ==
    ASSUME NEW F \in [Paths -> RecType \cup {Nothing}], NEW G \in [Paths -> RecType \cup {Nothing}], NEW p \in Paths, \A q \in Paths \ {p} : G[q] = F[q], NEW s
    PROVE  /\ Cardinality(FilesIn(F, s)) \in Nat /\ Cardinality(FilesIn(G, s)) \in Nat
           /\ Cardinality(FilesIn(G, s)) + (IF F[p].store = s THEN 1 ELSE 0)
                 = Cardinality(FilesIn(F, s)) + (IF G[p].store = s THEN 1 ELSE 0)
<1>1. /\ FilesIn(F, s) \in SUBSET Paths /\ FilesIn(G, s) \in SUBSET Paths
      /\ FilesIn(G, s) \ {p} = FilesIn(F, s) \ {p}
      /\ p \in FilesIn(F, s) <=> F[p].store = s
      /\ p \in FilesIn(G, s) <=> G[p].store = s
  BY DEF FilesIn
<1> HIDE DEF FilesIn
<1> QED BY <1>1, StoreAssumption, OneApart

(* An operation fits as long as nobody else changes its paths.             *)
LEMMA OthersFit ==
    ASSUME NEW x \in TaskType, NEW F, NEW G, NEW i, TaskFits(x, F, i),
           \A p \in TouchedBy(x) \cap Paths : G[p] = F[p]
    PROVE  TaskFits(x, G, i)
<1>1. CASE x.at = "idle"
  BY <1>1, NoTaskFits DEF TaskFits, TaskShape
<1>2. CASE x.at # "idle" /\ x.op = "directory"
  <2>1. \A p \in Paths : G[p] = F[p]
    BY <1>2 DEF TouchedBy
  <2>2. \A s : FilesIn(G, s) = FilesIn(F, s)
    BY <2>1 DEF FilesIn
  <2> QED BY <1>2, <2>1, <2>2 DEF TaskFits, TaskShape, KeepsStore, OfImport, Spares, Announces
<1>3. CASE x.at # "idle" /\ x.op # "directory"
  <2>1. x.path \in Paths /\ G[x.path] = F[x.path] /\ x.at \notin {"walk", "removeAll"}
    BY <1>3 DEF TaskFits, TaskShape, TouchedBy
  <2> QED BY <1>3, <2>1 DEF TaskFits, TaskShape, KeepsStore, OfImport, Spares, Announces
<1> QED BY <1>1, <1>2, <1>3

(* One goroutine goes on, and changes no path but its own.                 *)
LEMMA TaskStepFits ==
    ASSUME StoreInv, NEW t \in Tasks, NEW f \in TaskType, task' = [task EXCEPT ![t] = f],
           UNCHANGED <<allowed, importing>>,
           \A p \in Paths \ TouchedBy(task[t]) : file'[p] = file[p],
           TaskFits(f, file', importing),
           \A u \in Tasks \ {t} : TouchedBy(f) \cap TouchedBy(task[u]) \cap Paths = {}
    PROVE  TasksFit' /\ TasksAreApart' /\ CarefulUse'
<1>1. /\ \A u \in Tasks : task[u] \in TaskType /\ task[t] \in TaskType
      /\ task'[t] = f /\ \A u \in Tasks \ {t} : task'[u] = task[u]
  BY DEF StoreInv, StoreTypeOK
<1>2. ASSUME NEW u \in Tasks, u # t
      PROVE  TaskFits(task'[u], file', importing)
  <2>1. TouchedBy(task[t]) \cap TouchedBy(task[u]) \cap Paths = {}
    BY <1>2 DEF StoreInv, TasksAreApart
  <2>2. \A p \in TouchedBy(task[u]) \cap Paths : file'[p] = file[p]
    BY <2>1
  <2>3. task'[u] = task[u] /\ TaskFits(task[u], file, importing)
    BY <1>1, <1>2 DEF StoreInv, TasksFit
  <2> QED BY <1>1, <2>2, <2>3, OthersFit
<1>3. TasksFit'
  BY <1>1, <1>2 DEF TasksFit
<1>4. TasksAreApart'
  <2> SUFFICES ASSUME NEW u \in Tasks, NEW v \in Tasks, u # v
               PROVE  TouchedBy(task'[u]) \cap TouchedBy(task'[v]) \cap Paths = {}
    BY DEF TasksAreApart
  <2>1. CASE u # t /\ v # t
    BY <1>1, <2>1 DEF StoreInv, TasksAreApart
  <2>2. CASE u = t
    BY <1>1, <2>2
  <2>3. CASE v = t
    BY <1>1, <2>3
  <2> QED BY <2>1, <2>2, <2>3
<1> QED BY <1>3, <1>4 DEF StoreInv, CarefulUse

(* And no file changes, nor what is to be counted.                         *)
LEMMA CountsStay ==
    ASSUME StoreInv, NEW t \in Tasks, NEW f \in TaskType, task' = [task EXCEPT ![t] = f],
           UNCHANGED <<allowed, importing, file, hidden, refs, gapped>>, StoreTypeOK',
           StoreOutlivesFiles', ImportIsThere',
           TaskFits(f, file, importing), f.at \notin {"drop", "source"},
           \A u \in Tasks \ {t} : TouchedBy(f) \cap TouchedBy(task[u]) \cap Paths = {},
           \A s \in Stores : /\ Pending(f, s) = Pending(task[t], s)
                             /\ IsUncounted(f, s) <=> IsUncounted(task[t], s),
           "source" \in allowed =>
               /\ f.at # "hide"
               /\ f.op = "import" => \A u \in Tasks \ {t} : task[u].op # "import"
               /\ f.op = "import" /\ f.at \notin {"list", "count"} =>
                     \A q \in Paths : file[q].store # importing
    PROVE  StoreInv'
<1>0. /\ task \in [Tasks -> TaskType] /\ task'[t] = f /\ \A u \in Tasks \ {t} : task'[u] = task[u]
      /\ UNCHANGED <<file, hidden, refs, gapped>>
  BY DEF StoreInv, StoreTypeOK
<1>1. TasksFit' /\ TasksAreApart' /\ CarefulUse'
  <2>1. TaskFits(f, file', importing) /\ UNCHANGED <<allowed, importing>>
    BY <1>0
  <2>2. \A p \in Paths \ TouchedBy(task[t]) : file'[p] = file[p]
    BY <1>0
  <2> QED BY <2>1, <2>2, TaskStepFits
<1>2. \A s \in Stores : /\ Tokens(s)' = Tokens(s) /\ IsFiniteSet(Tokens(s)')
                        /\ Cardinality(Uncounted(s)') = Cardinality(Uncounted(s))
  <2> SUFFICES ASSUME NEW s \in Stores
               PROVE  /\ Tokens(s)' = Tokens(s) /\ IsFiniteSet(Tokens(s)')
                      /\ Cardinality(Uncounted(s)') = Cardinality(Uncounted(s))
    OBVIOUS
  <2>1. Tokens(s)' = Tokens(s) /\ IsFiniteSet(Tokens(s)')
    BY TokensChange
  <2>2. Cardinality(Uncounted(s)') = Cardinality(Uncounted(s))
    <3>1. /\ Cardinality(Uncounted(s)') \in Nat /\ Cardinality(Uncounted(s)) \in Nat
          /\ Cardinality(Uncounted(s)') + (IF IsUncounted(task[t], s) THEN 1 ELSE 0)
                = Cardinality(Uncounted(s)) + (IF IsUncounted(f, s) THEN 1 ELSE 0)
      BY UncountedChange, StoreSets
    <3>2. IsUncounted(f, s) <=> IsUncounted(task[t], s)
      OBVIOUS
    <3>3. CASE IsUncounted(f, s)
      BY <3>1, <3>2, <3>3
    <3>4. CASE ~IsUncounted(f, s)
      BY <3>1, <3>2, <3>4
    <3> QED BY <3>3, <3>4
  <2> QED BY <2>1, <2>2
<1>3. DroppedAreUnused'
  <2> SUFFICES ASSUME NEW u \in Tasks, NEW s \in Stores \ gapped, task'[u].at = "drop", task'[u].to = s
               PROVE  FilesIn(file', s) = {} /\ HiddenOf(s)' = {} /\ Tokens(s)' = {}
    BY <1>0 DEF DroppedAreUnused
  <2>1. task'[u] = task[u]
    BY <1>0
  <2> QED BY <1>0, <1>2, <2>1 DEF StoreInv, DroppedAreUnused, HiddenOf
<1>4. RefsCover'
  BY <1>0, <1>2 DEF StoreInv, RefsCover, HiddenOf
<1>5. LoneFiles'
  BY <1>0 DEF StoreInv, LoneFiles
<1> QED BY <1>1, <1>3, <1>4, <1>5 DEF StoreInv

(* A step that changes neither files nor counts keeps the invariant, when  *)
(* its task still fits and touches nothing of another's.                   *)
LEMMA QuietStep ==
    ASSUME StoreInv, NEW t \in Tasks, NEW f \in TaskType, task' = [task EXCEPT ![t] = f],
           UNCHANGED <<allowed, importing, disk, gapped>>, StoreTypeOK',
           TaskFits(f, file, importing), f.at \notin {"drop", "source"},
           \A u \in Tasks \ {t} : TouchedBy(f) \cap TouchedBy(task[u]) \cap Paths = {},
           \A s \in Stores : /\ Pending(f, s) = Pending(task[t], s)
                             /\ IsUncounted(f, s) <=> IsUncounted(task[t], s),
           "source" \in allowed =>
               /\ f.at # "hide"
               /\ f.op = "import" => \A u \in Tasks \ {t} : task[u].op # "import"
               /\ f.op = "import" /\ f.at \notin {"list", "count"} =>
                     \A q \in Paths : file[q].store # importing
    PROVE  StoreInv'
<1>1. StoreOutlivesFiles' /\ ImportIsThere' /\ UNCHANGED <<file, hidden, refs, gapped>>
  BY DEF StoreInv, ImportIsThere, StoreOutlivesFiles, disk
<1> QED BY <1>1, CountsStay

(* The guards against overlap say what no other task touches. *)
LEMMA FreeMeans ==
    ASSUME StoreInv
    PROVE  /\ \A X : Free(X) => \A u \in Tasks : TouchedBy(task[u]) \cap X = {}
           /\ \A X : Spared(X) <=> \A p \in X : file[p] = Nothing \/ file[p].store # importing
           /\ \A t \in Tasks : Touches(t) = TouchedBy(task[t])
BY DEF StoreInv, CarefulUse, Free, Spared, TouchedBy, Touches

(* An idle goroutine begins an operation on free paths.                    *)
LEMMA BeginKeeps ==
    ASSUME StoreInv, NEW t \in Tasks, NEW f \in TaskType, task[t].at = "idle",
           task' = [task EXCEPT ![t] = f], UNCHANGED <<allowed, importing, disk, gapped>>,
           listed' \in [Paths -> {"none", "healthy", "degraded"}], kept' \subseteq Stores,
           writes' \in 0..MaxWrites, crashes' = crashes,
           TaskFits(f, file, importing), f.at \in {"delete", "walk", "write", "list", "move", "hide"},
           f.op = "import" => f.at # "list",
           \A u \in Tasks : TouchedBy(f) \cap TouchedBy(task[u]) \cap Paths = {},
           "source" \in allowed =>
               /\ f.at # "hide"
               /\ f.op = "import" => /\ \A u \in Tasks : task[u].op # "import"
                                    /\ \A q \in Paths : file[q].store # importing
    PROVE  StoreInv'
<1>1. StoreTypeOK'
  BY DEF StoreInv, StoreTypeOK, disk
<1>2. \A s \in Stores : /\ Pending(f, s) = Pending(task[t], s)
                        /\ IsUncounted(f, s) <=> IsUncounted(task[t], s)
  BY DEF Pending, IsUncounted, Removed
<1> QED BY <1>1, <1>2, QuietStep

(* A task that begins has no counts to take off. *)
LEMMA NoDecsAreZero == NoDecs \in [Stores -> Nat] /\ \A s \in Stores : NoDecs[s] = 0
BY DEF NoDecs

(* A deletion begins with a path that nobody else touches. *)
LEMMA DeleteKeeps ==
    ASSUME StoreInv, NEW t \in Tasks, NEW p \in Paths, Delete(t, p)
    PROVE  StoreInv'
<1> DEFINE f == [NoTask EXCEPT !.op = "delete", !.path = p, !.at = "delete"]
<1>1. f \in TaskType /\ f.op = "delete" /\ f.path = p /\ f.at = "delete" /\ f.to = "none" /\ f.decs = NoDecs
  BY NoTaskFits DEF TaskType, NoTask, Operations
<1>2. task' = [task EXCEPT ![t] = f] /\ task[t].at = "idle" /\ Free({p}) /\ Spared({p})
  BY DEF Delete, Begin
<1> HIDE DEF f
<1>3. TaskFits(f, file, importing)
  BY <1>1, <1>2, FreeMeans, NoDecsAreZero
     DEF TaskFits, TaskShape, KeepsStore, OfImport, Spares, Announces, Removing
<1>4. \A u \in Tasks : TouchedBy(f) \cap TouchedBy(task[u]) \cap Paths = {}
  BY <1>1, <1>2, FreeMeans, StoreAssumption DEF TouchedBy
<1>5. /\ listed' \in [Paths -> {"none", "healthy", "degraded"}] /\ kept' \subseteq Stores
      /\ writes' \in 0..MaxWrites /\ crashes' = crashes /\ UNCHANGED <<allowed, importing, disk, gapped>>
  BY DEF Delete, caches, bounds, StoreInv, StoreTypeOK
<1> QED BY <1>1, <1>2, <1>3, <1>4, <1>5, BeginKeeps

(* The deletion of a directory begins when nobody else touches its files. *)
LEMMA DeleteDirectoryKeeps ==
    ASSUME StoreInv, NEW t \in Tasks, DeleteDirectory(t)
    PROVE  StoreInv'
<1> DEFINE f == [NoTask EXCEPT !.op = "directory", !.path = "none", !.at = "walk"]
<1>1. f \in TaskType /\ f.op = "directory" /\ f.at = "walk" /\ f.to = "none" /\ f.decs = NoDecs
  BY NoTaskFits DEF TaskType, NoTask, Operations
<1>2. task' = [task EXCEPT ![t] = f] /\ task[t].at = "idle" /\ Free(Paths) /\ Spared(Paths)
  BY DEF DeleteDirectory, Begin
<1> HIDE DEF f
<1>3. TaskFits(f, file, importing)
  BY <1>1, <1>2, FreeMeans, NoDecsAreZero
     DEF TaskFits, TaskShape, KeepsStore, OfImport, Spares, Announces, Removing
<1>4. \A u \in Tasks : TouchedBy(f) \cap TouchedBy(task[u]) \cap Paths = {}
  BY <1>1, <1>2, FreeMeans DEF TouchedBy
<1>5. /\ listed' \in [Paths -> {"none", "healthy", "degraded"}] /\ kept' \subseteq Stores
      /\ writes' \in 0..MaxWrites /\ crashes' = crashes /\ UNCHANGED <<allowed, importing, disk, gapped>>
  BY DEF DeleteDirectory, caches, bounds, StoreInv, StoreTypeOK
<1> QED BY <1>1, <1>2, <1>3, <1>4, <1>5, BeginKeeps

(* A file that is to be hidden is touched by nobody else. *)
LEMMA HideKeeps ==
    ASSUME StoreInv, NEW t \in Tasks, NEW p \in Paths, Hide(t, p)
    PROVE  StoreInv'
<1> DEFINE f == [NoTask EXCEPT !.op = "hide", !.path = p, !.at = "hide"]
<1>1. f \in TaskType /\ f.op = "hide" /\ f.path = p /\ f.at = "hide" /\ f.to = "none" /\ f.decs = NoDecs
  BY NoTaskFits DEF TaskType, NoTask, Operations
<1>2. task' = [task EXCEPT ![t] = f] /\ task[t].at = "idle" /\ Free({p}) /\ "source" \notin allowed
  BY DEF Hide, Begin, StoreInv, CarefulUse
<1> HIDE DEF f
<1>3. TaskFits(f, file, importing)
  BY <1>1, <1>2, NoDecsAreZero
     DEF TaskFits, TaskShape, KeepsStore, OfImport, Spares, Announces, Removing
<1>4. \A u \in Tasks : TouchedBy(f) \cap TouchedBy(task[u]) \cap Paths = {}
  BY <1>1, <1>2, FreeMeans, StoreAssumption DEF TouchedBy
<1>5. /\ listed' \in [Paths -> {"none", "healthy", "degraded"}] /\ kept' \subseteq Stores
      /\ writes' \in 0..MaxWrites /\ crashes' = crashes /\ UNCHANGED <<allowed, importing, disk, gapped>>
  BY DEF Hide, caches, bounds, StoreInv, StoreTypeOK
<1> QED BY <1>1, <1>2, <1>3, <1>4, <1>5, BeginKeeps

(* The import writes a file of the store it has just made, at a path of    *)
(* its own.                                                                *)
LEMMA ImportFileKeeps ==
    ASSUME StoreInv, NEW t \in Tasks, NEW p \in Paths, ImportFile(t, p)
    PROVE  StoreInv'
<1>1. PICK at \in {"delete", "write"} : Begin(t, "import", p, at)
  BY DEF ImportFile
<1> DEFINE f == [NoTask EXCEPT !.op = "import", !.path = p, !.at = at]
<1>2. f \in TaskType /\ f.op = "import" /\ f.path = p /\ f.at = at /\ f.to = "none" /\ f.decs = NoDecs
  BY NoTaskFits DEF TaskType, NoTask
<1>3. /\ task' = [task EXCEPT ![t] = f] /\ task[t].at = "idle" /\ Free({p}) /\ Spared({p})
      /\ importing \in Stores
  BY <1>1 DEF ImportFile, Begin, StoreInv, StoreTypeOK
<1> HIDE DEF f
<1>4. TaskFits(f, file, importing)
  BY <1>2, <1>3, FreeMeans, NoDecsAreZero
     DEF TaskFits, TaskShape, KeepsStore, OfImport, Spares, Announces, Removing
<1>5. \A u \in Tasks : TouchedBy(f) \cap TouchedBy(task[u]) \cap Paths = {}
  BY <1>2, <1>3, FreeMeans, StoreAssumption DEF TouchedBy
<1>6. /\ listed' \in [Paths -> {"none", "healthy", "degraded"}] /\ kept' \subseteq Stores
      /\ writes' \in 0..MaxWrites /\ crashes' = crashes /\ UNCHANGED <<allowed, importing, disk, gapped>>
  BY StoreAssumption DEF ImportFile, caches, StoreInv, StoreTypeOK
<1>7. "source" \in allowed => /\ \A u \in Tasks : task[u].op # "import"
                             /\ \A q \in Paths : file[q].store # importing
  BY DEF ImportFile, StoreInv, CarefulUse
<1> QED BY <1>2, <1>3, <1>4, <1>5, <1>6, <1>7, BeginKeeps

(* A rename begins with two paths that nobody else touches. *)
LEMMA RenameKeeps ==
    ASSUME StoreInv, NEW t \in Tasks, NEW p \in Paths, NEW q \in Paths, Rename(t, p, q)
    PROVE  StoreInv'
<1> DEFINE f == [NoTask EXCEPT !.op = "rename", !.at = "move", !.path = p, !.to = q]
<1>1. /\ f \in TaskType /\ f.op = "rename" /\ f.path = p /\ f.at = "move" /\ f.to = q /\ f.decs = NoDecs
  BY NoTaskFits DEF TaskType, NoTask, Operations
<1>2. task' = [task EXCEPT ![t] = f] /\ task[t].at = "idle" /\ Free({p, q})
  BY DEF Rename
<1> HIDE DEF f
<1>3. TaskFits(f, file, importing)
  BY <1>1, NoDecsAreZero DEF TaskFits, TaskShape, KeepsStore, OfImport, Spares, Announces, Removing
<1>4. \A u \in Tasks : TouchedBy(f) \cap TouchedBy(task[u]) \cap Paths = {}
  BY <1>1, <1>2, FreeMeans DEF TouchedBy
<1>5. /\ listed' \in [Paths -> {"none", "healthy", "degraded"}] /\ kept' \subseteq Stores
      /\ writes' \in 0..MaxWrites /\ crashes' = crashes /\ UNCHANGED <<allowed, importing, disk, gapped>>
  BY DEF Rename, Unlisted, bounds, StoreInv, StoreTypeOK
<1> QED BY <1>1, <1>2, <1>3, <1>4, <1>5, BeginKeeps

(* What can be read at a path is a file of a store. *)
LEMMA ReadableFiles ==
    ASSUME StoreInv, NEW p \in Paths
    PROVE  /\ Readable(p) => file[p] # Nothing
           /\ file[p] # Nothing => file[p] \in RecType /\ file[p].store \in Stores
           /\ file[p].store \in Stores => file[p] \in RecType /\ file[p] # Nothing
           /\ CacheRead(p) /\ file[p] # Nothing =>
                 listed' \in [Paths -> {"none", "healthy", "degraded"}] /\ kept' \subseteq Stores
<1>1. file[p] \in RecType \cup {Nothing} /\ Nothing.store = "none" /\ "none" \notin Stores
  BY StoreAssumption DEF StoreInv, StoreTypeOK, Nothing
<1>2. Readable(p) => file[p] # Nothing
  BY DEF Readable
<1>3. CacheRead(p) /\ file[p] # Nothing =>
         listed' \in [Paths -> {"none", "healthy", "degraded"}] /\ kept' \subseteq Stores
  BY <1>1 DEF StoreInv, StoreTypeOK, CacheRead, RecType
<1> QED BY <1>1, <1>2, <1>3 DEF RecType

(* A listing changes only the cache. *)
LEMMA ListKeeps ==
    ASSUME StoreInv, NEW t \in Tasks, NEW p \in Paths, List(t, p)
    PROVE  StoreInv'
<1>1. PICK rec \in RecType : rec = file[p]
  BY ReadableFiles DEF List
<1> DEFINE f == [NoTask EXCEPT !.op = "list", !.path = p, !.at = "list", !.rec = rec]
<1>2. f \in TaskType /\ f.op = "list" /\ f.path = p /\ f.at = "list" /\ f.to = "none" /\ f.decs = NoDecs
  BY NoTaskFits DEF TaskType, NoTask, Operations
<1>3. task' = [task EXCEPT ![t] = f] /\ task[t].at = "idle" /\ Free({p})
  BY <1>1 DEF List
<1> HIDE DEF f
<1>4. TaskFits(f, file, importing)
  BY <1>2, NoDecsAreZero DEF TaskFits, TaskShape, KeepsStore, OfImport, Spares, Announces, Removing
<1>5. \A u \in Tasks : TouchedBy(f) \cap TouchedBy(task[u]) \cap Paths = {}
  BY <1>2, <1>3, FreeMeans, StoreAssumption DEF TouchedBy
<1>6. /\ listed' \in [Paths -> {"none", "healthy", "degraded"}] /\ kept' \subseteq Stores
      /\ writes' \in 0..MaxWrites /\ crashes' = crashes /\ UNCHANGED <<allowed, importing, disk, gapped>>
  BY DEF List, caches, bounds, StoreInv, StoreTypeOK
<1> QED BY <1>2, <1>3, <1>4, <1>5, <1>6, BeginKeeps

(* An update of a file keeps the store it refers to. *)
LEMMA UpdateKeeps ==
    ASSUME StoreInv, NEW t \in Tasks, NEW p \in Paths, NEW what \in {"status", "hole"}, Update(t, p, what)
    PROVE  StoreInv'
<1>0. file[p] # Nothing /\ file[p] \in RecType
  BY ReadableFiles DEF Update
<1>1. PICK rec \in RecType :
         /\ rec.store = file[p].store
         /\ task' = [task EXCEPT ![t] =
                        [NoTask EXCEPT !.op = what, !.path = p, !.at = "write", !.rec = rec]]
  <2>1. PICK status \in {"healthy", "degraded"} :
           task' = [task EXCEPT ![t] = [NoTask EXCEPT !.op = what, !.path = p, !.at = "write",
                      !.rec = IF what = "hole" THEN [file[p] EXCEPT !.hole = TRUE]
                                               ELSE [file[p] EXCEPT !.status = status]]]
    BY DEF Update
  <2>2. /\ [file[p] EXCEPT !.hole = TRUE] \in RecType /\ [file[p] EXCEPT !.hole = TRUE].store = file[p].store
        /\ [file[p] EXCEPT !.status = status] \in RecType
        /\ [file[p] EXCEPT !.status = status].store = file[p].store
    BY <1>0 DEF RecType
  <2> QED BY <2>1, <2>2
<1> DEFINE f == [NoTask EXCEPT !.op = what, !.path = p, !.at = "write", !.rec = rec]
<1>2. /\ f \in TaskType /\ f.op = what /\ f.path = p /\ f.at = "write" /\ f.to = "none" /\ f.decs = NoDecs
      /\ f.rec = rec
  BY NoTaskFits DEF TaskType, NoTask, Operations
<1>3. task' = [task EXCEPT ![t] = f] /\ task[t].at = "idle" /\ Free({p}) /\ CacheRead(p)
  BY <1>1 DEF Update
<1> HIDE DEF f
<1>4. rec # Nothing
  BY StoreAssumption DEF RecType, Nothing
<1>5. TaskFits(f, file, importing)
  BY <1>0, <1>1, <1>2, <1>4, NoDecsAreZero
     DEF TaskFits, TaskShape, KeepsStore, OfImport, Spares, Announces, Removing
<1>6. \A u \in Tasks : TouchedBy(f) \cap TouchedBy(task[u]) \cap Paths = {}
  BY <1>2, <1>3, FreeMeans, StoreAssumption DEF TouchedBy
<1>7. /\ listed' \in [Paths -> {"none", "healthy", "degraded"}] /\ kept' \subseteq Stores
      /\ writes' \in 0..MaxWrites /\ crashes' = crashes /\ UNCHANGED <<allowed, importing, disk, gapped>>
  BY <1>0, <1>3, ReadableFiles DEF Update, bounds, StoreInv, StoreTypeOK
<1> QED BY <1>2, <1>3, <1>5, <1>6, <1>7, BeginKeeps

-----------------------------------------------------------------------------

(* The operation of a goroutine, and the same operation a step later.      *)
LEMMA TaskOf ==
    ASSUME StoreInv, NEW t \in Tasks
    PROVE  /\ task[t] \in TaskType /\ TaskFits(task[t], file, importing)
           /\ \A u \in Tasks \ {t} : TouchedBy(task[t]) \cap TouchedBy(task[u]) \cap Paths = {}
BY DEF StoreInv, StoreTypeOK, TasksFit, TasksAreApart

(* A task that goes on keeps all its fields but its place. *)
LEMMA GotoFields ==
    ASSUME NEW x \in TaskType, NEW y, NEW at \in {"uncount", "unlink", "source", "count"},
           y = [x EXCEPT !.at = at]
    PROVE  /\ y \in TaskType /\ y.op = x.op /\ y.at = at /\ y.path = x.path /\ y.to = x.to
           /\ y.rec = x.rec /\ y.decs = x.decs
BY DEF TaskType

(* Goto is such a step, for a task of the right type. *)
LEMMA GotoIs ==
    ASSUME StoreInv, NEW t \in Tasks, NEW x \in TaskType, x = task[t], NEW at, Goto(t, at)
    PROVE  task' = [task EXCEPT ![t] = [x EXCEPT !.at = at]]
BY DEF Goto, StoreInv, StoreTypeOK

(* A goroutine whose operation ends leaves nothing to be counted.          *)
LEMMA DoneKeeps ==
    ASSUME StoreInv, NEW t \in Tasks, Done(t), UNCHANGED <<allowed, disk, importing, bounds>>, StoreTypeOK',
           task[t].at \notin Removed \/ task[t].decs = NoDecs,
           task[t].op = "import" => task[t].at \notin {"list", "count"}
    PROVE  StoreInv'
<1>1. task' = [task EXCEPT ![t] = NoTask] /\ NoTask \in TaskType
  BY NoTaskFits DEF Done
<1>2. \A s \in Stores : /\ Pending(NoTask, s) = Pending(task[t], s)
                        /\ IsUncounted(NoTask, s) <=> IsUncounted(task[t], s)
  BY NoTaskFits, NoDecsAreZero DEF Pending, IsUncounted
<1>3. \A u \in Tasks \ {t} : TouchedBy(NoTask) \cap TouchedBy(task[u]) \cap Paths = {}
  BY NoTaskFits
<1>4. UNCHANGED gapped
  BY DEF bounds
<1> QED BY <1>1, <1>2, <1>3, <1>4, NoTaskFits, QuietStep

(* The write of a listing changes only the cache. *)
LEMMA CacheListedKeeps ==
    ASSUME StoreInv, NEW t \in Tasks, CacheListed(t)
    PROVE  StoreInv'
<1>1. PICK x \in TaskType : x = task[t]
  BY TaskOf
<1>2. /\ TaskFits(x, file, importing) /\ x.at = "list"
      /\ \A u \in Tasks \ {t} : TouchedBy(x) \cap TouchedBy(task[u]) \cap Paths = {}
  BY <1>1, TaskOf DEF CacheListed
<1>3. listed' \in [Paths -> {"none", "healthy", "degraded"}]
  <2>1. x.rec.status \in {"none", "healthy", "degraded"}
    BY TaskFields DEF RecType, Nothing
  <2> QED BY <1>1, <2>1 DEF CacheListed, StoreInv, StoreTypeOK
<1>4. CASE x.op = "import"
  <2> DEFINE f == [x EXCEPT !.at = "count"]
  <2>1. task' = [task EXCEPT ![t] = f]
    BY <1>1, <1>4, GotoIs DEF CacheListed
  <2>2. /\ f \in TaskType /\ f.op = x.op /\ f.at = "count" /\ f.path = x.path /\ f.to = x.to
        /\ f.rec = x.rec /\ f.decs = x.decs
    BY GotoFields
  <2> HIDE DEF f
  <2>3. StoreTypeOK' /\ UNCHANGED <<allowed, importing, disk, gapped>>
    BY <1>3, <2>1, <2>2 DEF CacheListed, disk, bounds, StoreInv, StoreTypeOK
  <2>4. TaskFits(f, file, importing)
    BY <1>2, <1>4, <2>2 DEF TaskFits, TaskShape, KeepsStore, OfImport, Spares, Announces, Removing
  <2>5. \A u \in Tasks \ {t} : TouchedBy(f) \cap TouchedBy(task[u]) \cap Paths = {}
    BY <1>2, <2>2 DEF TouchedBy
  <2>6. \A s \in Stores : /\ Pending(f, s) = Pending(task[t], s)
                          /\ IsUncounted(f, s) <=> IsUncounted(task[t], s)
    BY <1>1, <1>2, <2>2 DEF Pending, IsUncounted, Removed
  <2>7. "source" \in allowed => \A u \in Tasks \ {t} : task[u].op # "import"
    BY <1>1, <1>4 DEF StoreInv, LoneFiles
  <2> QED BY <2>1, <2>2, <2>3, <2>4, <2>5, <2>6, <2>7, QuietStep
<1>5. CASE x.op # "import"
  <2>1. Done(t) /\ UNCHANGED <<allowed, disk, importing, bounds>>
    BY <1>1, <1>5 DEF CacheListed
  <2>2. StoreTypeOK'
    BY <1>3, <2>1, NoTaskFits DEF CacheListed, Done, disk, bounds, StoreInv, StoreTypeOK
  <2> QED BY <1>1, <1>2, <1>5, <2>1, <2>2, DoneKeeps DEF Removed
<1> QED BY <1>4, <1>5

(* A deletion that is over drops its path from the cache. *)
LEMMA DeletedKeeps ==
    ASSUME StoreInv, NEW t \in Tasks, Deleted(t)
    PROVE  StoreInv'
<1>1. PICK x \in TaskType : x = task[t]
  BY TaskOf
<1>2. /\ TaskFits(x, file, importing) /\ x.at = "uncount" /\ x.decs = NoDecs
      /\ \A u \in Tasks \ {t} : TouchedBy(x) \cap TouchedBy(task[u]) \cap Paths = {}
      /\ UNCHANGED <<allowed, disk, caches, importing, bounds>>
  BY <1>1, TaskOf DEF Deleted
<1>3. CASE x.op = "import"
  <2> DEFINE f == [x EXCEPT !.at = "write", !.to = "none"]
  <2>1. task' = [task EXCEPT ![t] = f]
    BY <1>1, <1>3 DEF Deleted, StoreInv, StoreTypeOK
  <2>2. /\ f \in TaskType /\ f.op = x.op /\ f.at = "write" /\ f.path = x.path /\ f.to = "none"
        /\ f.rec = x.rec /\ f.decs = x.decs
    BY DEF TaskType
  <2> HIDE DEF f
  <2>3. StoreTypeOK' /\ UNCHANGED <<allowed, importing, disk, gapped>>
    BY <1>2, <2>1, <2>2 DEF disk, caches, bounds, StoreInv, StoreTypeOK
  <2>4. TaskFits(f, file, importing)
    BY <1>2, <1>3, <2>2, NoDecsAreZero
       DEF TaskFits, TaskShape, KeepsStore, OfImport, Spares, Announces, Removing
  <2>5. \A u \in Tasks \ {t} : TouchedBy(f) \cap TouchedBy(task[u]) \cap Paths = {}
    BY <1>2, <1>3, <2>2, StoreAssumption DEF TouchedBy
  <2>6. \A s \in Stores : /\ Pending(f, s) = Pending(task[t], s)
                          /\ IsUncounted(f, s) <=> IsUncounted(task[t], s)
    BY <1>1, <1>2, <2>2, NoDecsAreZero DEF Pending, IsUncounted, Removed
  <2>7. "source" \in allowed => /\ \A u \in Tasks \ {t} : task[u].op # "import"
                               /\ \A q \in Paths : file[q].store # importing
    BY <1>1, <1>2, <1>3 DEF StoreInv, LoneFiles
  <2> QED BY <2>1, <2>2, <2>3, <2>4, <2>5, <2>6, <2>7, QuietStep
<1>4. CASE x.op # "import"
  <2>1. Done(t)
    BY <1>1, <1>4 DEF Deleted
  <2>2. StoreTypeOK'
    BY <1>2, <2>1, NoTaskFits DEF Done, disk, caches, bounds, StoreInv, StoreTypeOK
  <2> QED BY <1>1, <1>2, <1>4, <2>1, <2>2, DoneKeeps
<1> QED BY <1>3, <1>4

(* A deletion reads the file that is still there, so the count it will     *)
(* take off is the file's.                                                 *)
LEMMA DeleteReadKeeps ==
    ASSUME StoreInv, NEW t \in Tasks, DeleteRead(t)
    PROVE  StoreInv'
<1>1. PICK x \in TaskType : x = task[t]
  BY TaskOf
<1>2. /\ TaskFits(x, file, importing) /\ x.at = "delete" /\ x.decs = NoDecs /\ x.path \in Paths
      /\ x.op # "directory"
      /\ \A u \in Tasks \ {t} : TouchedBy(x) \cap TouchedBy(task[u]) \cap Paths = {}
      /\ UNCHANGED <<allowed, disk, importing, bounds>>
  BY <1>1, TaskOf DEF DeleteRead, TaskFits, TaskShape, Removing
<1>3. ASSUME NEW d \in [Stores -> Nat],
             task' = [task EXCEPT ![t] = [x EXCEPT !.at = "unlink", !.decs = d]],
             listed' \in [Paths -> {"none", "healthy", "degraded"}], kept' \subseteq Stores,
             \A s \in Stores : d[s] > 0 => d[s] = 1 /\ file[x.path].store = s /\ s # importing
      PROVE  StoreInv'
  <2> DEFINE f == [x EXCEPT !.at = "unlink", !.decs = d]
  <2>1. /\ f \in TaskType /\ f.op = x.op /\ f.at = "unlink" /\ f.path = x.path /\ f.to = x.to
        /\ f.rec = x.rec /\ f.decs = d
    BY DEF TaskType
  <2>2. task' = [task EXCEPT ![t] = f]
    BY <1>3
  <2> HIDE DEF f
  <2>3. StoreTypeOK' /\ UNCHANGED <<allowed, importing, disk, gapped>>
    BY <1>2, <1>3, <2>1, <2>2 DEF disk, bounds, StoreInv, StoreTypeOK
  <2>4. TaskFits(f, file, importing)
    BY <1>2, <1>3, <2>1 DEF TaskFits, TaskShape, KeepsStore, OfImport, Spares, Announces, Removing
  <2>5. \A u \in Tasks \ {t} : TouchedBy(f) \cap TouchedBy(task[u]) \cap Paths = {}
    BY <1>2, <2>1 DEF TouchedBy
  <2>6. \A s \in Stores : /\ Pending(f, s) = Pending(task[t], s)
                          /\ IsUncounted(f, s) <=> IsUncounted(task[t], s)
    BY <1>1, <1>2, <2>1 DEF Pending, IsUncounted, Removed
  <2>7. "source" \in allowed /\ f.op = "import" =>
            /\ \A u \in Tasks \ {t} : task[u].op # "import"
            /\ \A q \in Paths : file[q].store # importing
    BY <1>1, <1>2, <2>1 DEF StoreInv, LoneFiles
  <2> QED BY <2>1, <2>2, <2>3, <2>4, <2>5, <2>6, <2>7, QuietStep
<1>4. CASE Readable(x.path)
  <2>1. file[x.path] # Nothing
    BY <1>2, <1>4, ReadableFiles
  <2>2. PICK s \in Stores : s = file[x.path].store
    BY <1>2, <2>1, ReadableFiles
  <2> DEFINE d == [NoDecs EXCEPT ![s] = 1]
  <2>3. d \in [Stores -> Nat] /\ \A r \in Stores : d[r] = IF r = s THEN 1 ELSE 0
    BY DEF NoDecs
  <2>4. CacheRead(x.path) /\ task' = [task EXCEPT ![t].at = "unlink", ![t].decs[s] = 1]
    BY <1>1, <1>4, <2>2 DEF DeleteRead
  <2>5. task' = [task EXCEPT ![t] = [x EXCEPT !.at = "unlink", !.decs = d]]
    BY <1>1, <1>2, <2>4 DEF StoreInv, StoreTypeOK, TaskType
  <2>6. s # importing
    BY <1>2, <2>1, <2>2 DEF TaskFits, Spares
  <2> HIDE DEF d
  <2>7. \A r \in Stores : d[r] > 0 => d[r] = 1 /\ file[x.path].store = r /\ r # importing
    BY <2>2, <2>3, <2>6
  <2>8. listed' \in [Paths -> {"none", "healthy", "degraded"}] /\ kept' \subseteq Stores
    BY <1>2, <2>1, <2>4, ReadableFiles
  <2> QED BY <1>3, <2>3, <2>5, <2>7, <2>8
<1>5. CASE ~Readable(x.path)
  <2>1. task' = [task EXCEPT ![t].at = "unlink"] /\ listed' = [listed EXCEPT ![x.path] = "none"] /\ kept' = kept
    BY <1>1, <1>5 DEF DeleteRead, Goto
  <2>2. task' = [task EXCEPT ![t] = [x EXCEPT !.at = "unlink", !.decs = NoDecs]]
    BY <1>1, <1>2, <2>1 DEF StoreInv, StoreTypeOK, TaskType
  <2>3. listed' \in [Paths -> {"none", "healthy", "degraded"}] /\ kept' \subseteq Stores
    BY <2>1 DEF StoreInv, StoreTypeOK
  <2>4. NoDecs \in [Stores -> Nat] /\ \A s \in Stores : ~(NoDecs[s] > 0)
    BY NoDecsAreZero
  <2> HIDE DEF NoDecs
  <2> QED BY <1>3, <2>2, <2>3, <2>4
<1> QED BY <1>4, <1>5

(* The walk over a directory owes one count for each file it has seen. *)
LEMMA WalkKeeps ==
    ASSUME StoreInv, NEW t \in Tasks, Walk(t)
    PROVE  StoreInv'
<1>1. PICK x \in TaskType : x = task[t]
  BY TaskOf
<1>2. /\ TaskFits(x, file, importing) /\ x.at = "walk" /\ x.op = "directory"
      /\ \A u \in Tasks \ {t} : TouchedBy(x) \cap TouchedBy(task[u]) \cap Paths = {}
      /\ UNCHANGED <<allowed, disk, caches, importing, bounds>>
  BY <1>1, TaskOf DEF Walk, TaskFits, TaskShape
<1>3. PICK d \in [Stores -> Nat] : d = [s \in Stores |-> Cardinality(FilesIn(file, s))]
  <2>1. \A s \in Stores : Cardinality(FilesIn(file, s)) \in Nat
    BY StoreSets
  <2> HIDE DEF FilesIn
  <2> QED BY <2>1
<1> DEFINE f == [x EXCEPT !.at = "removeAll", !.decs = d]
<1>4. task' = [task EXCEPT ![t] = f]
  BY <1>1, <1>3 DEF Walk, FilesOf, FilesIn, StoreInv, StoreTypeOK, TaskType
<1>5. /\ f \in TaskType /\ f.op = x.op /\ f.at = "removeAll" /\ f.path = x.path /\ f.to = x.to
      /\ f.rec = x.rec /\ f.decs = d
  BY DEF TaskType
<1> HIDE DEF f
<1>6. StoreTypeOK' /\ UNCHANGED <<allowed, importing, disk, gapped>>
  BY <1>2, <1>4, <1>5 DEF disk, caches, bounds, StoreInv, StoreTypeOK
<1>7. ASSUME NEW s \in Stores, d[s] > 0
      PROVE  s # importing
  <2>1. FilesIn(file, s) # {}
    BY <1>3, <1>7, StoreSets
  <2>2. PICK p \in Paths : file[p].store = s
    BY <2>1 DEF FilesIn
  <2> QED BY <1>2, <2>2, ReadableFiles DEF TaskFits, Spares
<1>8. TaskFits(f, file, importing)
  BY <1>2, <1>3, <1>5, <1>7 DEF TaskFits, TaskShape, KeepsStore, OfImport, Spares, Announces, Removing
<1>9. \A u \in Tasks \ {t} : TouchedBy(f) \cap TouchedBy(task[u]) \cap Paths = {}
  BY <1>2, <1>5 DEF TouchedBy
<1>10. \A s \in Stores : /\ Pending(f, s) = Pending(task[t], s)
                         /\ IsUncounted(f, s) <=> IsUncounted(task[t], s)
  BY <1>1, <1>2, <1>5 DEF Pending, IsUncounted, Removed
<1> QED BY <1>2, <1>4, <1>5, <1>6, <1>8, <1>9, <1>10, QuietStep

-----------------------------------------------------------------------------

(* What is counted depends on the goroutines, the files and the table.     *)
LEMMA SameCounts ==
    ASSUME StoreInv, UNCHANGED <<file, hidden, refs, task, gapped>>
    PROVE  RefsCover' /\ DroppedAreUnused' /\ TasksAreApart'
<1>1. \A s : Tokens(s)' = Tokens(s) /\ Uncounted(s)' = Uncounted(s) /\ HiddenOf(s)' = HiddenOf(s)
  BY DEF Tokens, Uncounted, HiddenOf
<1> HIDE DEF Tokens, Uncounted, HiddenOf
<1> QED BY <1>1 DEF StoreInv, RefsCover, DroppedAreUnused, TasksAreApart

(* The store of a new import has no files yet. *)
LEMMA ImportBeginKeeps ==
    ASSUME StoreInv, NEW s \in Stores, ImportBegin(s)
    PROVE  StoreInv'
<1>1. UNCHANGED <<allowed, file, hidden, refs, listed, task, bounds>>
  BY DEF ImportBegin
<1>2. /\ importing = NoStore /\ importing' = s /\ present' = present \cup {s} /\ kept' = kept \cup {s}
      /\ \A p \in Paths : file[p].store # s
      /\ \A t \in Tasks : task[t].decs[s] = 0 /\ task[t].to # s
  BY DEF ImportBegin, StoreInv, CarefulUse
<1>3. \A t \in Tasks : task[t].op # "import"
  BY <1>2, StoreAssumption DEF StoreInv, TasksFit, TaskFits, OfImport, NoStore
<1>4. StoreTypeOK' /\ CarefulUse' /\ ImportIsThere' /\ StoreOutlivesFiles'
  BY <1>1, <1>2 DEF StoreInv, StoreTypeOK, CarefulUse, ImportIsThere, StoreOutlivesFiles, bounds
<1>5. TasksFit'
  <2> SUFFICES ASSUME NEW t \in Tasks
               PROVE  TaskFits(task[t], file, s)
    BY <1>1, <1>2 DEF TasksFit
  <2>1. TaskFits(task[t], file, importing) /\ task[t].op # "import"
    BY <1>3 DEF StoreInv, TasksFit
  <2>2. Spares(task[t], file, s)
    <3>1. \A r \in Stores : task[t].decs[r] > 0 => r # s
      BY <1>2
    <3>2. task[t].at = "delete" => task[t].path \in Paths
      BY <2>1 DEF TaskFits, TaskShape
    <3> QED BY <1>2, <3>1, <3>2 DEF Spares
  <2> QED BY <2>1, <2>2 DEF TaskFits, OfImport
<1>6. LoneFiles'
  BY <1>1, <1>2, <1>3 DEF StoreInv, LoneFiles
<1> QED BY <1>1, <1>4, <1>5, <1>6, SameCounts DEF StoreInv, bounds

(* An import ends when none of its tasks goes on. *)
LEMMA ImportEndKeeps ==
    ASSUME StoreInv, ImportEnd
    PROVE  StoreInv'
<1>1. /\ UNCHANGED <<allowed, file, hidden, present, refs, listed, kept, task, bounds>>
      /\ importing' = NoStore /\ \A t \in Tasks : task[t].op # "import"
  BY DEF ImportEnd, disk, caches
<1>2. StoreTypeOK' /\ CarefulUse' /\ ImportIsThere' /\ StoreOutlivesFiles' /\ LoneFiles'
  BY <1>1 DEF StoreInv, StoreTypeOK, CarefulUse, ImportIsThere, StoreOutlivesFiles, LoneFiles, bounds
<1>3. TasksFit'
  <2> SUFFICES ASSUME NEW t \in Tasks
               PROVE  TaskFits(task[t], file, NoStore)
    BY <1>1 DEF TasksFit
  <2>1. TaskFits(task[t], file, importing) /\ task[t].op # "import"
    BY <1>1 DEF StoreInv, TasksFit
  <2>2. Spares(task[t], file, NoStore)
    <3>1. task[t].at = "delete" => task[t].path \in Paths
      BY <2>1 DEF TaskFits, TaskShape
    <3>2. \A p \in Paths : file[p] = Nothing \/ file[p].store # NoStore
      BY ReadableFiles, StoreAssumption DEF NoStore
    <3>3. NoStore \notin Stores
      BY StoreAssumption DEF NoStore
    <3>4. task[t].at = "drop" => task[t].to \in Stores
      BY <2>1 DEF TaskFits, TaskShape
    <3> QED BY <3>1, <3>2, <3>3, <3>4 DEF Spares
  <2> QED BY <2>1, <2>2 DEF TaskFits, OfImport
<1> QED BY <1>1, <1>2, <1>3, SameCounts DEF StoreInv, bounds

(* The cache of stores makes room; the disk stays as it is. *)
LEMMA ForgetStoreKeeps ==
    ASSUME StoreInv, NEW s \in Stores, ForgetStore(s)
    PROVE  StoreInv'
<1>1. UNCHANGED <<allowed, file, hidden, present, refs, listed, importing, task, bounds>> /\ kept' \subseteq kept
  BY DEF ForgetStore, disk
<1>2. /\ StoreTypeOK' /\ CarefulUse' /\ ImportIsThere' /\ StoreOutlivesFiles' /\ LoneFiles' /\ TasksFit'
  BY <1>1
     DEF StoreInv, StoreTypeOK, CarefulUse, ImportIsThere, StoreOutlivesFiles, LoneFiles, TasksFit, bounds
<1> QED BY <1>1, <1>2, SameCounts DEF StoreInv, bounds

(* After a crash only the disk and the table are left.                     *)
LEMMA StoreCrashKeeps ==
    ASSUME StoreInv, StoreCrash
    PROVE  StoreInv'
<1>1. /\ UNCHANGED <<allowed, file, hidden, present, refs, writes>> /\ importing' = NoStore
      /\ task' = [t \in Tasks |-> NoTask] /\ listed' = [p \in Paths |-> "none"] /\ kept' = {}
      /\ crashes' \in 0..MaxCrashes /\ gapped' = gapped \cup {s \in Stores : Uncounted(s) # {}}
  BY StoreAssumption DEF StoreCrash, disk, StoreInv, StoreTypeOK
<1>2. \A t \in Tasks : task'[t] = NoTask
  BY <1>1
<1>3. StoreTypeOK' /\ CarefulUse' /\ ImportIsThere' /\ StoreOutlivesFiles'
  BY <1>1, NoTaskFits DEF StoreInv, StoreTypeOK, CarefulUse, ImportIsThere, StoreOutlivesFiles
<1>4. TasksFit' /\ TasksAreApart' /\ LoneFiles' /\ DroppedAreUnused'
  BY <1>1, <1>2, NoTaskFits DEF TasksFit, TasksAreApart, LoneFiles, DroppedAreUnused, StoreInv
<1>5. RefsCover'
  <2> SUFFICES ASSUME NEW s \in Stores
               PROVE  /\ IsFiniteSet(Tokens(s)')
                      /\ s \notin gapped' =>
                            refs'[s] + Cardinality(Uncounted(s)')
                               >= Cardinality(FilesIn(file', s)) + Cardinality(HiddenOf(s)') + Cardinality(Tokens(s)')
    BY DEF RefsCover
  <2>1. Tokens(s)' = {} /\ Uncounted(s)' = {}
    BY <1>2, NoTaskFits DEF Tokens, Uncounted
  <2>2. s \notin gapped' => s \notin gapped /\ Uncounted(s) = {}
    BY <1>1
  <2>3. HiddenOf(s)' = HiddenOf(s)
    BY <1>1 DEF HiddenOf
  <2>4. s \notin gapped => refs[s] + Cardinality(Uncounted(s))
            >= Cardinality(FilesIn(file, s)) + Cardinality(HiddenOf(s)) + Cardinality(Tokens(s))
    BY DEF StoreInv, RefsCover
  <2>5. Cardinality({}) = 0 /\ IsFiniteSet({})
    BY FS_EmptySet
  <2>6. refs' = refs /\ file' = file
    BY <1>1
  <2> HIDE DEF Tokens, Uncounted, HiddenOf, FilesIn
  <2>7. /\ Cardinality(Tokens(s)') = 0 /\ Cardinality(Uncounted(s)') = 0 /\ IsFiniteSet(Tokens(s)')
        /\ s \notin gapped' => s \notin gapped /\ Cardinality(Uncounted(s)) = 0
    BY <2>1, <2>2, <2>5
  <2> QED BY <2>3, <2>4, <2>6, <2>7, StoreSets
<1> QED BY <1>3, <1>4, <1>5 DEF StoreInv

-----------------------------------------------------------------------------

(* WriteFileMetadata and its count.                                        *)

(* The count goes up and the written file is counted. *)
LEMMA IncStoreRefKeeps ==
    ASSUME StoreInv, NEW t \in Tasks, IncStoreRef(t)
    PROVE  StoreInv'
<1>1. PICK x \in TaskType : x = task[t]
  BY TaskOf
<1>2. /\ TaskFits(x, file, importing) /\ x.at = "count" /\ x.op = "import" /\ x.rec.store = importing
      /\ importing \in Stores
      /\ UNCHANGED <<allowed, file, hidden, present, listed, kept, importing, bounds>>
  BY <1>1, TaskOf DEF IncStoreRef, TaskFits, TaskShape, OfImport, caches
<1>3. /\ task' = [task EXCEPT ![t] = NoTask] /\ NoTask \in TaskType
      /\ refs' = [refs EXCEPT ![importing] = refs[importing] + 1]
  BY <1>1, <1>2, NoTaskFits DEF IncStoreRef, Done, Counted
<1>4. StoreTypeOK'
  BY <1>2, <1>3 DEF StoreInv, StoreTypeOK, bounds
<1>5. TasksFit' /\ TasksAreApart' /\ CarefulUse'
  BY <1>2, <1>3, NoTaskFits, TaskStepFits
<1>6. /\ task'[t] = NoTask /\ \A u \in Tasks \ {t} : task'[u] = task[u]
      /\ \A s \in Stores : Pending(NoTask, s) = Pending(task[t], s)
  BY <1>1, <1>2, <1>3, NoTaskFits DEF StoreInv, StoreTypeOK, Pending, Removed
<1>7. \A s \in Stores : Tokens(s)' = Tokens(s) /\ IsFiniteSet(Tokens(s)')
  BY <1>3, <1>6, TokensChange
<1>8. \A s : HiddenOf(s)' = HiddenOf(s)
  BY <1>2 DEF HiddenOf
<1>9. ImportIsThere' /\ StoreOutlivesFiles' /\ LoneFiles'
  BY <1>2, <1>6, NoTaskFits DEF StoreInv, ImportIsThere, StoreOutlivesFiles, LoneFiles, bounds
<1>10. DroppedAreUnused'
  BY <1>2, <1>6, <1>7, <1>8, NoTaskFits DEF StoreInv, DroppedAreUnused, bounds
<1>11. RefsCover'
  <2> SUFFICES ASSUME NEW s \in Stores \ gapped
               PROVE  refs'[s] + Cardinality(Uncounted(s)')
                         >= Cardinality(FilesIn(file', s)) + Cardinality(HiddenOf(s)') + Cardinality(Tokens(s)')
    BY <1>2, <1>7 DEF RefsCover, bounds
  <2>1. /\ Cardinality(Uncounted(s)') \in Nat
        /\ Cardinality(Uncounted(s)') + (IF IsUncounted(x, s) THEN 1 ELSE 0) = Cardinality(Uncounted(s))
    <3>1. /\ Cardinality(Uncounted(s)') \in Nat
          /\ Cardinality(Uncounted(s)') + (IF IsUncounted(task[t], s) THEN 1 ELSE 0)
                = Cardinality(Uncounted(s)) + (IF IsUncounted(NoTask, s) THEN 1 ELSE 0)
      BY <1>3, UncountedChange
    <3>2. ~IsUncounted(NoTask, s)
      BY NoTaskFits
    <3> QED BY <1>1, <3>1, <3>2, StoreSets
  <2>2. IsUncounted(x, s) <=> s = importing
    BY <1>2 DEF IsUncounted
  <2>3. refs'[s] = refs[s] + (IF s = importing THEN 1 ELSE 0)
    BY <1>2, <1>3, StoreSets DEF StoreInv, StoreTypeOK
  <2>4. refs[s] + Cardinality(Uncounted(s))
            >= Cardinality(FilesIn(file, s)) + Cardinality(HiddenOf(s)) + Cardinality(Tokens(s))
    BY DEF StoreInv, RefsCover
  <2>5. FilesIn(file', s) = FilesIn(file, s) /\ HiddenOf(s)' = HiddenOf(s) /\ Tokens(s)' = Tokens(s)
    BY <1>2, <1>7, <1>8
  <2> QED BY <2>1, <2>2, <2>3, <2>4, <2>5, StoreSets
<1> QED BY <1>4, <1>5, <1>9, <1>10, <1>11 DEF StoreInv

(* A file that is written is uncounted, or keeps the store it had. *)
LEMMA WriteKeeps ==
    ASSUME StoreInv, NEW t \in Tasks, Write(t)
    PROVE  StoreInv'
<1>1. PICK x \in TaskType : x = task[t]
  BY TaskOf
<1>2. /\ TaskFits(x, file, importing) /\ x.at = "write" /\ x.path \in Paths /\ x.op # "directory"
      /\ x.decs = NoDecs
      /\ \A u \in Tasks \ {t} : TouchedBy(x) \cap TouchedBy(task[u]) \cap Paths = {}
      /\ UNCHANGED <<allowed, hidden, present, refs, listed, kept, importing, bounds>>
  BY <1>1, TaskOf DEF Write, TaskFits, TaskShape, Removing, caches
<1>3. PICK rec \in RecType :
         /\ x.op = "import" => rec.store = importing
         /\ x.op # "import" => rec.store = file[x.path].store
         /\ file' = [file EXCEPT ![x.path] = rec]
         /\ task' = [task EXCEPT ![t] = [x EXCEPT !.rec = rec, !.at = "list"]]
  <2>1. CASE x.op = "import"
    <3> DEFINE rec == [store |-> importing, status |-> "healthy", hole |-> FALSE]
    <3>1. rec \in RecType /\ rec.store = importing
      BY <1>2, <2>1 DEF TaskFits, OfImport, RecType
    <3>2. file' = [file EXCEPT ![x.path] = rec] /\ task' = [task EXCEPT ![t].rec = rec, ![t].at = "list"]
      BY <1>1, <2>1 DEF Write
    <3> HIDE DEF rec
    <3> QED BY <1>1, <2>1, <3>1, <3>2 DEF StoreInv, StoreTypeOK, TaskType
  <2>2. CASE x.op # "import"
    <3>1. x.rec \in RecType /\ x.rec.store = file[x.path].store
      BY <1>2, <2>2, TaskFields DEF TaskFits, KeepsStore
    <3>2. file' = [file EXCEPT ![x.path] = x.rec] /\ task' = [task EXCEPT ![t].rec = x.rec, ![t].at = "list"]
      BY <1>1, <2>2 DEF Write
    <3> QED BY <1>1, <2>2, <3>1, <3>2 DEF StoreInv, StoreTypeOK, TaskType
  <2> QED BY <2>1, <2>2
<1> DEFINE f == [x EXCEPT !.rec = rec, !.at = "list"]
<1>4. /\ f \in TaskType /\ f.op = x.op /\ f.at = "list" /\ f.path = x.path /\ f.to = x.to
      /\ f.rec = rec /\ f.decs = x.decs
  BY DEF TaskType
<1>5. task' = [task EXCEPT ![t] = f]
  BY <1>3
<1> HIDE DEF f
<1>6. StoreTypeOK' /\ file'[x.path] = rec /\ \A q \in Paths \ {x.path} : file'[q] = file[q]
  BY <1>2, <1>3, <1>4, <1>5 DEF StoreInv, StoreTypeOK, bounds
<1>7. TaskFits(f, file', importing)
  BY <1>2, <1>3, <1>4, NoDecsAreZero
     DEF TaskFits, TaskShape, KeepsStore, OfImport, Spares, Announces, Removing
<1>8. TouchedBy(f) = TouchedBy(x) /\ x.path \in TouchedBy(x)
  BY <1>2, <1>4 DEF TouchedBy
<1>9. TasksFit' /\ TasksAreApart' /\ CarefulUse'
  BY <1>1, <1>2, <1>4, <1>5, <1>6, <1>7, <1>8, TaskStepFits
<1>10. task'[t] = f /\ \A u \in Tasks \ {t} : task'[u] = task[u]
  BY <1>5 DEF StoreInv, StoreTypeOK
<1>11. \A s \in Stores : Tokens(s)' = Tokens(s) /\ IsFiniteSet(Tokens(s)')
  <2>1. \A s \in Stores : Pending(f, s) = Pending(task[t], s)
    BY <1>1, <1>2, <1>4 DEF Pending, Removed
  <2> SUFFICES ASSUME NEW s \in Stores
               PROVE  Tokens(s)' = Tokens(s) /\ IsFiniteSet(Tokens(s)')
    OBVIOUS
  <2>2. f \in TaskType /\ Pending(f, s) = Pending(task[t], s)
    BY <1>4, <2>1
  <2> QED BY <1>5, <2>2, TokensChange
<1>12. \A s : HiddenOf(s)' = HiddenOf(s)
  BY <1>2 DEF HiddenOf
<1>13. \A s \in Stores : FilesIn(file', s) \subseteq FilesIn(file, s) \/ (x.op = "import" /\ s = importing)
  BY <1>3, <1>6 DEF FilesIn
<1>14. ImportIsThere' /\ StoreOutlivesFiles'
  <2>1. rec.store \in gapped \/ rec.store \in present
    <3>1. CASE x.op = "import"
      BY <1>2, <1>3, <3>1, StoreAssumption DEF StoreInv, ImportIsThere, TaskFits, OfImport, NoStore
    <3>2. CASE x.op # "import"
      BY <1>2, <1>3, <3>2 DEF StoreInv, StoreOutlivesFiles, TaskFits, KeepsStore
    <3> QED BY <3>1, <3>2
  <2> QED BY <1>2, <1>6, <2>1 DEF StoreInv, ImportIsThere, StoreOutlivesFiles, bounds
<1>15. DroppedAreUnused'
  <2> SUFFICES ASSUME NEW u \in Tasks, NEW s \in Stores \ gapped, task'[u].at = "drop", task'[u].to = s
               PROVE  FilesIn(file', s) = {} /\ HiddenOf(s)' = {} /\ Tokens(s)' = {}
    BY <1>2 DEF DroppedAreUnused, bounds
  <2>1. task'[u] = task[u]
    BY <1>4, <1>10
  <2>2. s # importing
    BY <2>1, TaskOf DEF TaskFits, Spares
  <2>3. FilesIn(file, s) = {} /\ HiddenOf(s) = {} /\ Tokens(s) = {}
    BY <2>1 DEF StoreInv, DroppedAreUnused
  <2> QED BY <1>11, <1>12, <1>13, <2>2, <2>3
<1>16. LoneFiles'
  <2>1. ASSUME "source" \in allowed, NEW p \in Paths, NEW q \in Paths,
               file'[p] # Nothing, file'[p].store = file'[q].store, p # q
        PROVE  FALSE
    <3>1. x.op = "import" => \A r \in Paths : file[r].store # importing
      BY <1>1, <1>2, <2>1 DEF StoreInv, LoneFiles
    <3>2. x.op # "import" => file[x.path] # Nothing /\ rec.store = file[x.path].store
      BY <1>2, <1>3 DEF TaskFits, KeepsStore
    <3>3. \A r \in Paths, v \in Paths : file[r] # Nothing /\ file[r].store = file[v].store => r = v
      BY <2>1 DEF StoreInv, LoneFiles
    <3> QED BY <1>3, <1>6, <2>1, <3>1, <3>2, <3>3
  <2>2. ASSUME "source" \in allowed, NEW u \in Tasks, NEW q \in Paths,
               task'[u].op = "import", task'[u].at \notin {"list", "count"}
        PROVE  file'[q].store # importing
    <3>1. u # t /\ task[u].op = "import" /\ x.op # "import" /\ file[q].store # importing
          /\ file[x.path].store # importing
      BY <1>1, <1>2, <1>4, <1>10, <2>2 DEF StoreInv, LoneFiles
    <3> QED BY <1>3, <1>6, <3>1
  <2>3. ASSUME "source" \in allowed, NEW u \in Tasks, NEW s \in Stores,
               task'[u].at = "source", task'[u].decs[s] > 0
        PROVE  FilesIn(file', s) = {}
    <3>1. task'[u] = task[u]
      BY <1>4, <1>10, <2>3
    <3>2. s # importing /\ FilesIn(file, s) = {}
      BY <2>3, <3>1, TaskOf DEF TaskFits, Spares, StoreInv, LoneFiles
    <3> QED BY <1>13, <3>2
  <2>4. /\ \A u \in Tasks : task'[u].at = "source" => "source" \in allowed
        /\ "source" \in allowed => /\ \A p \in Paths : hidden'[p] = NoStore
                                   /\ \A u \in Tasks : task'[u].at # "hide"
                                   /\ \A u, v \in Tasks : task'[u].op = "import" /\ task'[v].op = "import" => u = v
    BY <1>1, <1>2, <1>4, <1>10 DEF StoreInv, LoneFiles
  <2> QED BY <1>2, <2>1, <2>2, <2>3, <2>4 DEF LoneFiles
<1>17. RefsCover'
  <2> SUFFICES ASSUME NEW s \in Stores \ gapped
               PROVE  refs'[s] + Cardinality(Uncounted(s)')
                         >= Cardinality(FilesIn(file', s)) + Cardinality(HiddenOf(s)') + Cardinality(Tokens(s)')
    BY <1>2, <1>11 DEF RefsCover, bounds
  <2>1. /\ Cardinality(Uncounted(s)') \in Nat
        /\ Cardinality(Uncounted(s)') + (IF IsUncounted(task[t], s) THEN 1 ELSE 0)
              = Cardinality(Uncounted(s)) + (IF IsUncounted(f, s) THEN 1 ELSE 0)
    BY <1>4, <1>5, UncountedChange
  <2>2. ~IsUncounted(task[t], s) /\ (IsUncounted(f, s) <=> x.op = "import" /\ s = rec.store)
    BY <1>1, <1>2, <1>4 DEF IsUncounted
  <2>3. /\ Cardinality(FilesIn(file, s)) \in Nat /\ Cardinality(FilesIn(file', s)) \in Nat
        /\ Cardinality(FilesIn(file', s)) + (IF file[x.path].store = s THEN 1 ELSE 0)
              = Cardinality(FilesIn(file, s)) + (IF rec.store = s THEN 1 ELSE 0)
    <3>1. x.path \in Paths /\ file'[x.path].store = rec.store
      BY <1>2, <1>6
    <3>2. /\ \A q \in Paths \ {x.path} : file'[q] = file[q]
          /\ file \in [Paths -> RecType \cup {Nothing}] /\ file' \in [Paths -> RecType \cup {Nothing}]
      BY <1>6 DEF StoreInv, StoreTypeOK
    <3>3. /\ Cardinality(FilesIn(file, s)) \in Nat /\ Cardinality(FilesIn(file', s)) \in Nat
          /\ Cardinality(FilesIn(file', s)) + (IF file[x.path].store = s THEN 1 ELSE 0)
                = Cardinality(FilesIn(file, s)) + (IF file'[x.path].store = s THEN 1 ELSE 0)
      BY <3>1, <3>2, FilesChange
    <3> QED BY <3>1, <3>3
  <2>4. refs[s] + Cardinality(Uncounted(s))
            >= Cardinality(FilesIn(file, s)) + Cardinality(HiddenOf(s)) + Cardinality(Tokens(s))
    BY DEF StoreInv, RefsCover
  <2>5. refs' = refs /\ HiddenOf(s)' = HiddenOf(s) /\ Tokens(s)' = Tokens(s)
    BY <1>2, <1>11, <1>12
  <2>6. CASE x.op = "import"
    BY <2>1, <2>2, <2>3, <2>4, <2>5, <2>6, StoreSets
  <2>7. CASE x.op # "import"
    BY <1>3, <2>1, <2>2, <2>3, <2>4, <2>5, <2>7, StoreSets
  <2> QED BY <2>6, <2>7
<1> QED BY <1>6, <1>9, <1>14, <1>15, <1>16, <1>17 DEF StoreInv

-----------------------------------------------------------------------------

(* A store that none of the files refers to any more goes.                 *)
LEMMA StoreGoes ==
    ASSUME StoreInv, NEW t \in Tasks, NEW x \in TaskType, x = task[t], x.at \in {"source", "drop"},
           Goto(t, "uncount"), UNCHANGED <<allowed, file, hidden, refs, caches, importing, bounds>>,
           present' \subseteq present, StoreOutlivesFiles', ImportIsThere'
    PROVE  StoreInv'
<1>1. /\ TaskFits(x, file, importing) /\ \A u \in Tasks \ {t} : TouchedBy(x) \cap TouchedBy(task[u]) \cap Paths = {}
  BY TaskOf
<1> DEFINE f == [x EXCEPT !.at = "uncount"]
<1>2. task' = [task EXCEPT ![t] = f]
  BY GotoIs
<1>3. /\ f \in TaskType /\ f.op = x.op /\ f.at = "uncount" /\ f.path = x.path /\ f.to = x.to
      /\ f.rec = x.rec /\ f.decs = x.decs
  BY GotoFields
<1> HIDE DEF f
<1>4. StoreTypeOK'
  BY <1>2, <1>3 DEF caches, bounds, StoreInv, StoreTypeOK
<1>5. TaskFits(f, file, importing)
  BY <1>1, <1>3 DEF TaskFits, TaskShape, KeepsStore, OfImport, Spares, Announces, Removing
<1>6. \A u \in Tasks \ {t} : TouchedBy(f) \cap TouchedBy(task[u]) \cap Paths = {}
  BY <1>1, <1>3 DEF TouchedBy
<1>7. \A s \in Stores : /\ Pending(f, s) = Pending(task[t], s)
                        /\ IsUncounted(f, s) <=> IsUncounted(task[t], s)
  BY <1>3 DEF Pending, IsUncounted, Removed
<1>8. "source" \in allowed /\ f.op = "import" =>
          /\ \A u \in Tasks \ {t} : task[u].op # "import"
          /\ \A q \in Paths : file[q].store # importing
  BY <1>3 DEF StoreInv, LoneFiles
<1>9. UNCHANGED gapped
  BY DEF bounds
<1> QED BY <1>2, <1>3, <1>4, <1>5, <1>6, <1>7, <1>8, <1>9, CountsStay

(* Deleting the source takes the store of a single file, whose only file   *)
(* was deleted before.                                                     *)
LEMMA DeleteSourceKeeps ==
    ASSUME StoreInv, NEW t \in Tasks, DeleteSource(t)
    PROVE  StoreInv'
<1>1. PICK x \in TaskType : x = task[t]
  BY TaskOf
<1>2. /\ x.at = "source" /\ present' = {s \in present : x.decs[s] = 0} /\ Goto(t, "uncount")
      /\ UNCHANGED <<allowed, file, hidden, refs, caches, importing, bounds>>
  BY <1>1 DEF DeleteSource
<1>3. \A s \in Stores : x.decs[s] # 0 => FilesIn(file, s) = {} /\ s # importing
  <2> SUFFICES ASSUME NEW s \in Stores, x.decs[s] # 0
               PROVE  FilesIn(file, s) = {} /\ s # importing
    OBVIOUS
  <2>1. x.decs[s] > 0
    BY TaskFields
  <2> QED BY <1>1, <1>2, <2>1, TaskOf DEF StoreInv, LoneFiles, TaskFits, Spares
<1>4. StoreOutlivesFiles'
  <2>1. ASSUME NEW p \in Paths, file[p] # Nothing, file[p].store \notin gapped
        PROVE  file[p].store \in present'
    <3>1. file[p].store \in present /\ file[p].store \in Stores
      BY <2>1, ReadableFiles DEF StoreInv, StoreOutlivesFiles
    <3>2. p \in FilesIn(file, file[p].store)
      BY DEF FilesIn
    <3> QED BY <1>2, <1>3, <3>1, <3>2
  <2>2. \A p \in Paths : hidden[p] = NoStore
    BY <1>1, <1>2 DEF StoreInv, LoneFiles
  <2> QED BY <1>2, <2>1, <2>2 DEF StoreOutlivesFiles, bounds
<1>5. ImportIsThere'
  BY <1>2, <1>3 DEF StoreInv, StoreTypeOK, ImportIsThere
<1> QED BY <1>1, <1>2, <1>4, <1>5, StoreGoes

(* The count goes down; the store goes when the count has reached 0, and   *)
(* so no file is left.                                                     *)
LEMMA DropStoreKeeps ==
    ASSUME StoreInv, NEW t \in Tasks, DropStore(t)
    PROVE  StoreInv'
<1>1. PICK x \in TaskType : x = task[t]
  BY TaskOf
<1>2. /\ x.at = "drop" /\ present' = present \ {x.to} /\ Goto(t, "uncount")
      /\ UNCHANGED <<allowed, file, hidden, refs, caches, importing, bounds>>
  BY <1>1 DEF DropStore
<1>3. x.to \in Stores /\ x.to # importing
  BY <1>1, <1>2, TaskOf DEF TaskFits, TaskShape, Spares
<1>4. x.to \notin gapped => FilesIn(file, x.to) = {} /\ HiddenOf(x.to) = {}
  <2>1. task[t].at = "drop" /\ task[t].to = x.to
    BY <1>1, <1>2
  <2>2. DroppedAreUnused
    BY DEF StoreInv
  <2> QED BY <1>3, <2>1, <2>2 DEF DroppedAreUnused
<1>5. StoreOutlivesFiles' /\ ImportIsThere'
  <2>1. \A p \in Paths : /\ file[p].store \notin gapped => file[p].store # x.to
                         /\ hidden[p] \notin gapped => hidden[p] # x.to
    BY <1>4 DEF FilesIn, HiddenOf
  <2>2. /\ file' = file /\ hidden' = hidden /\ importing' = importing /\ gapped' = gapped
        /\ present' = present \ {x.to}
    BY <1>2 DEF bounds
  <2>3. StoreOutlivesFiles'
    BY <2>1, <2>2 DEF StoreInv, StoreOutlivesFiles
  <2>4. ImportIsThere'
    BY <1>3, <2>2 DEF StoreInv, ImportIsThere
  <2> QED BY <2>3, <2>4
<1> QED BY <1>1, <1>2, <1>5, StoreGoes

(* A store is taken off the count once for every file that was removed.    *)
LEMMA DecStoreRefKeeps ==
    ASSUME StoreInv, NEW t \in Tasks, NEW s \in Stores, DecStoreRef(t, s)
    PROVE  StoreInv'
<1>1. PICK x \in TaskType : x = task[t]
  BY TaskOf
<1>2. /\ TaskFits(x, file, importing) /\ x.at = "uncount" /\ x.decs[s] > 0 /\ s # importing
      /\ x.decs \in [Stores -> Nat]
      /\ \A u \in Tasks \ {t} : TouchedBy(x) \cap TouchedBy(task[u]) \cap Paths = {}
      /\ UNCHANGED <<allowed, file, hidden, present, listed, kept, importing, bounds>>
  BY <1>1, TaskOf, TaskFields DEF DecStoreRef, TaskFits, Spares, caches
<1> DEFINE d == [x.decs EXCEPT ![s] = x.decs[s] - 1]
<1>3. PICK at \in {"drop", "uncount"} : at = IF refs[s] <= 1 /\ x.decs[s] = 1 THEN "drop" ELSE "uncount"
  OBVIOUS
<1> DEFINE f == [x EXCEPT !.decs = d, !.to = s, !.at = at]
<1>4. d \in [Stores -> Nat] /\ d[s] = x.decs[s] - 1 /\ \A r \in Stores \ {s} : d[r] = x.decs[r]
  BY <1>2
<1>5. task' = [task EXCEPT ![t] = f]
  BY <1>1, <1>3 DEF DecStoreRef, NoneLeft, StoreInv, StoreTypeOK, TaskType
<1> HIDE DEF d
<1>6. /\ f \in TaskType /\ f.op = x.op /\ f.at = at /\ f.path = x.path /\ f.to = s
      /\ f.rec = x.rec /\ f.decs = d
  BY <1>4 DEF TaskType
<1> HIDE DEF f
<1>7. /\ task'[t] = f /\ \A u \in Tasks \ {t} : task'[u] = task[u]
  BY <1>5 DEF StoreInv, StoreTypeOK
<1>8. /\ \A r \in Stores \ {s} : Pending(f, r) = Pending(task[t], r)
      /\ Pending(f, s) = x.decs[s] - 1 /\ Pending(task[t], s) = x.decs[s]
  BY <1>1, <1>2, <1>4, <1>6 DEF Pending, Removed
<1>9. /\ \A r \in Stores : IsFiniteSet(Tokens(r)')
      /\ \A r \in Stores \ {s} : Tokens(r)' = Tokens(r)
      /\ Cardinality(Tokens(s)') = Cardinality(Tokens(s)) - 1 /\ Cardinality(Tokens(s)) >= 1
      /\ Cardinality(Tokens(s)') = 0 <=> Tokens(s)' = {}
  <2>1. ASSUME NEW r \in Stores
        PROVE  IsFiniteSet(Tokens(r)') /\ (r # s => Tokens(r)' = Tokens(r))
    <3>1. f \in TaskType /\ (r # s => Pending(f, r) = Pending(task[t], r))
      BY <1>6, <1>8
    <3> QED BY <1>5, <3>1, TokensChange
  <2>2. /\ Cardinality(Tokens(s)') \in Nat /\ (Tokens(s)' = {} <=> Cardinality(Tokens(s)') = 0)
        /\ Cardinality(Tokens(s)') + Pending(task[t], s) = Cardinality(Tokens(s)) + Pending(f, s)
    BY <1>5, <1>6, TokensChange
  <2> QED BY <1>2, <1>8, <2>1, <2>2, StoreSets
<1>10. /\ Uncounted(s) = {} /\ \A r \in Stores : Uncounted(r)' = Uncounted(r)
  <2>1. ASSUME NEW u \in Tasks
        PROVE  ~IsUncounted(task[u], s)
    BY <1>2, TaskOf DEF TaskFits, OfImport, IsUncounted
  <2>2. \A r : ~IsUncounted(f, r) /\ ~IsUncounted(task[t], r)
    BY <1>1, <1>2, <1>6 DEF IsUncounted
  <2> QED BY <1>7, <2>1, <2>2 DEF Uncounted, IsUncounted
<1>11. s \in gapped \/ refs[s] >= Cardinality(FilesIn(file, s)) + Cardinality(HiddenOf(s)) + Cardinality(Tokens(s))
  <2>1. Cardinality(Uncounted(s)) = 0
    BY <1>10, FS_EmptySet
  <2> QED BY <2>1, StoreSets DEF StoreInv, RefsCover
<1>12. /\ refs' = [refs EXCEPT ![s] = IF refs[s] <= 1 THEN 0 ELSE refs[s] - 1] /\ refs[s] \in Nat
       /\ s \notin gapped => refs[s] >= 1 /\ refs'[s] = refs[s] - 1
  <2>1. s \notin gapped => refs[s] >= 1
    BY <1>9, <1>11, StoreSets
  <2>2. refs' = [refs EXCEPT ![s] = IF refs[s] <= 1 THEN 0 ELSE refs[s] - 1] /\ refs[s] \in Nat
    BY StoreSets DEF DecStoreRef, NoneLeft
  <2>3. refs'[s] = IF refs[s] <= 1 THEN 0 ELSE refs[s] - 1
    BY <2>2 DEF StoreInv, StoreTypeOK
  <2> QED BY <2>1, <2>2, <2>3
<1>13. StoreTypeOK' /\ ImportIsThere' /\ StoreOutlivesFiles'
  BY <1>2, <1>5, <1>6, <1>12 DEF StoreInv, StoreTypeOK, ImportIsThere, StoreOutlivesFiles, bounds
<1>14. TasksFit' /\ TasksAreApart' /\ CarefulUse'
  <2>1. TaskFits(f, file', importing)
    <3>1. TaskShape(f) /\ KeepsStore(f, file') /\ OfImport(f, importing) /\ Announces(f, file')
      BY <1>2, <1>3, <1>6 DEF TaskFits, TaskShape, KeepsStore, OfImport, Announces, Removing
    <3>2. Spares(f, file', importing)
      BY <1>2, <1>3, <1>4, <1>6 DEF TaskFits, Spares
    <3> QED BY <3>1, <3>2 DEF TaskFits
  <2>2. \A u \in Tasks \ {t} : TouchedBy(f) \cap TouchedBy(task[u]) \cap Paths = {}
    BY <1>2, <1>3, <1>6, StoreAssumption DEF TouchedBy
  <2> QED BY <1>2, <1>5, <1>6, <2>1, <2>2, TaskStepFits
<1>15. \A r : FilesIn(file', r) = FilesIn(file, r) /\ HiddenOf(r)' = HiddenOf(r)
  BY <1>2 DEF HiddenOf
<1>16. DroppedAreUnused'
  <2> SUFFICES ASSUME NEW u \in Tasks, NEW r \in Stores \ gapped, task'[u].at = "drop", task'[u].to = r
               PROVE  FilesIn(file', r) = {} /\ HiddenOf(r)' = {} /\ Tokens(r)' = {}
    BY <1>2 DEF DroppedAreUnused, bounds
  <2>1. CASE u = t
    <3>1. r = s /\ refs[s] <= 1
      BY <1>3, <1>6, <1>7, <2>1
    <3>2. /\ Cardinality(FilesIn(file, s)) = 0 /\ Cardinality(HiddenOf(s)) = 0 /\ Cardinality(Tokens(s)') = 0
      BY <1>9, <1>11, <3>1, StoreSets, FS_CardinalityType
    <3> QED BY <1>9, <1>15, <3>1, <3>2, StoreSets
  <2>2. CASE u # t
    <3>1. FilesIn(file, r) = {} /\ HiddenOf(r) = {} /\ Tokens(r) = {}
      BY <1>7, <2>2 DEF StoreInv, DroppedAreUnused
    <3>2. r # s
      BY <1>9, <3>1, FS_EmptySet
    <3> QED BY <1>9, <1>15, <3>1, <3>2
  <2> QED BY <2>1, <2>2
<1>17. RefsCover'
  <2> SUFFICES ASSUME NEW r \in Stores \ gapped
               PROVE  refs'[r] + Cardinality(Uncounted(r)')
                         >= Cardinality(FilesIn(file', r)) + Cardinality(HiddenOf(r)') + Cardinality(Tokens(r)')
    BY <1>2, <1>9 DEF RefsCover, bounds
  <2>1. refs[r] + Cardinality(Uncounted(r))
            >= Cardinality(FilesIn(file, r)) + Cardinality(HiddenOf(r)) + Cardinality(Tokens(r))
    BY DEF StoreInv, RefsCover
  <2>2. Uncounted(r)' = Uncounted(r) /\ FilesIn(file', r) = FilesIn(file, r) /\ HiddenOf(r)' = HiddenOf(r)
    BY <1>10, <1>15
  <2>3. refs'[r] = (IF r = s THEN refs[r] - 1 ELSE refs[r]) /\ refs[r] \in Nat
    BY <1>12 DEF StoreInv, StoreTypeOK
  <2>4. Cardinality(Tokens(r)') = IF r = s THEN Cardinality(Tokens(r)) - 1 ELSE Cardinality(Tokens(r))
    BY <1>9
  <2> QED BY <2>1, <2>2, <2>3, <2>4, StoreSets
<1>18. LoneFiles'
  <2>1. \A u \in Tasks : /\ task'[u].at = "source" => task'[u] = task[u]
                         /\ task'[u].at # "hide" \/ task'[u] = task[u]
                         /\ task'[u].op = task[u].op
                         /\ task'[u].at \notin {"list", "count"} =>
                               task[u].at \notin {"list", "count"}
    BY <1>1, <1>2, <1>3, <1>6, <1>7
  <2> QED BY <1>2, <2>1 DEF StoreInv, LoneFiles
<1> QED BY <1>13, <1>14, <1>16, <1>17, <1>18 DEF StoreInv

(* A deleted file has its count left, to be taken off later. *)
LEMMA UnlinkKeeps ==
    ASSUME StoreInv, NEW t \in Tasks, Unlink(t)
    PROVE  StoreInv'
<1>1. PICK x \in TaskType : x = task[t]
  BY TaskOf
<1>2. /\ TaskFits(x, file, importing) /\ x.at = "unlink" /\ x.path \in Paths /\ x.op # "directory"
      /\ x.decs \in [Stores -> Nat] /\ \A s \in Stores : x.decs[s] > 0 => x.decs[s] = 1 /\ file[x.path].store = s
      /\ \A u \in Tasks \ {t} : TouchedBy(x) \cap TouchedBy(task[u]) \cap Paths = {}
      /\ UNCHANGED <<allowed, hidden, present, refs, listed, kept, importing, bounds>>
      /\ file' = [file EXCEPT ![x.path] = Nothing]
  BY <1>1, TaskOf, TaskFields DEF Unlink, TaskFits, TaskShape, Announces, caches
<1>3. PICK at \in {"source", "uncount"} :
         /\ at = "source" => "source" \in allowed /\ x.op = "delete"
         /\ Goto(t, at)
  BY <1>1 DEF Unlink
<1> DEFINE f == [x EXCEPT !.at = at]
<1>4. /\ f \in TaskType /\ f.op = x.op /\ f.at = at /\ f.path = x.path /\ f.to = x.to
      /\ f.rec = x.rec /\ f.decs = x.decs
  BY GotoFields
<1>5. task' = [task EXCEPT ![t] = f]
  BY <1>1, <1>3, GotoIs
<1> HIDE DEF f
<1>6. /\ task'[t] = f /\ \A u \in Tasks \ {t} : task'[u] = task[u]
      /\ file'[x.path] = Nothing /\ \A q \in Paths \ {x.path} : file'[q] = file[q]
      /\ file \in [Paths -> RecType \cup {Nothing}] /\ file' \in [Paths -> RecType \cup {Nothing}]
  BY <1>2, <1>5 DEF StoreInv, StoreTypeOK
<1>7. StoreTypeOK' /\ ImportIsThere' /\ StoreOutlivesFiles'
  BY <1>2, <1>4, <1>5, <1>6 DEF StoreInv, StoreTypeOK, ImportIsThere, StoreOutlivesFiles, bounds
<1>8. TaskFits(f, file', importing)
  BY <1>2, <1>3, <1>4 DEF TaskFits, TaskShape, KeepsStore, OfImport, Spares, Announces, Removing
<1>9. TouchedBy(f) = TouchedBy(x) /\ x.path \in TouchedBy(x)
  BY <1>2, <1>4 DEF TouchedBy
<1>10. TasksFit' /\ TasksAreApart' /\ CarefulUse'
  <2>1. UNCHANGED <<allowed, importing>> /\ \A p \in Paths \ TouchedBy(task[t]) : file'[p] = file[p]
    BY <1>1, <1>2, <1>6, <1>9
  <2>2. \A u \in Tasks \ {t} : TouchedBy(f) \cap TouchedBy(task[u]) \cap Paths = {}
    BY <1>2, <1>9
  <2> QED BY <1>4, <1>5, <1>8, <2>1, <2>2, TaskStepFits
<1>11. ASSUME NEW s \in Stores
       PROVE  /\ IsFiniteSet(Tokens(s)') /\ Cardinality(Tokens(s)') = Cardinality(Tokens(s)) + x.decs[s]
              /\ x.decs[s] = 0 => Tokens(s)' = Tokens(s)
              /\ Cardinality(Uncounted(s)') = Cardinality(Uncounted(s))
              /\ HiddenOf(s)' = HiddenOf(s)
  <2>1. Pending(f, s) = x.decs[s] /\ Pending(task[t], s) = 0 /\ x.decs[s] \in Nat
    BY <1>1, <1>2, <1>4 DEF Pending, Removed
  <2>2. /\ IsFiniteSet(Tokens(s)') /\ Cardinality(Tokens(s)') \in Nat
        /\ Cardinality(Tokens(s)') + Pending(task[t], s) = Cardinality(Tokens(s)) + Pending(f, s)
        /\ Pending(f, s) = Pending(task[t], s) => Tokens(s)' = Tokens(s)
    BY <1>4, <1>5, TokensChange
  <2>3. ~IsUncounted(f, s) /\ ~IsUncounted(task[t], s)
    BY <1>1, <1>2, <1>4 DEF IsUncounted
  <2>4. /\ Cardinality(Uncounted(s)') \in Nat
        /\ Cardinality(Uncounted(s)') + (IF IsUncounted(task[t], s) THEN 1 ELSE 0)
              = Cardinality(Uncounted(s)) + (IF IsUncounted(f, s) THEN 1 ELSE 0)
    BY <1>4, <1>5, UncountedChange
  <2>5. HiddenOf(s)' = HiddenOf(s)
    BY <1>2 DEF HiddenOf
  <2> QED BY <2>1, <2>2, <2>3, <2>4, <2>5, StoreSets
<1>12. \A s \in Stores : FilesIn(file', s) = FilesIn(file, s) \ {x.path}
  BY <1>2, <1>6, StoreAssumption DEF FilesIn, Nothing
<1>13. DroppedAreUnused'
  <2> SUFFICES ASSUME NEW u \in Tasks, NEW s \in Stores \ gapped, task'[u].at = "drop", task'[u].to = s
               PROVE  FilesIn(file', s) = {} /\ HiddenOf(s)' = {} /\ Tokens(s)' = {}
    BY <1>2 DEF DroppedAreUnused, bounds
  <2>1. task'[u] = task[u]
    BY <1>4, <1>6
  <2>2. FilesIn(file, s) = {} /\ HiddenOf(s) = {} /\ Tokens(s) = {}
    BY <2>1 DEF StoreInv, DroppedAreUnused
  <2>3. x.decs[s] = 0
    BY <1>2, <2>2 DEF FilesIn
  <2> QED BY <1>11, <1>12, <2>2, <2>3
<1>14. RefsCover'
  <2> SUFFICES ASSUME NEW s \in Stores \ gapped
               PROVE  refs'[s] + Cardinality(Uncounted(s)')
                         >= Cardinality(FilesIn(file', s)) + Cardinality(HiddenOf(s)') + Cardinality(Tokens(s)')
    BY <1>2, <1>11 DEF RefsCover, bounds
  <2>1. refs[s] + Cardinality(Uncounted(s))
            >= Cardinality(FilesIn(file, s)) + Cardinality(HiddenOf(s)) + Cardinality(Tokens(s))
    BY DEF StoreInv, RefsCover
  <2>2. /\ Cardinality(FilesIn(file, s)) \in Nat /\ Cardinality(FilesIn(file', s)) \in Nat
        /\ Cardinality(FilesIn(file', s)) + (IF file[x.path].store = s THEN 1 ELSE 0)
              = Cardinality(FilesIn(file, s)) + (IF file'[x.path].store = s THEN 1 ELSE 0)
    <3>1. x.path \in Paths /\ \A q \in Paths \ {x.path} : file'[q] = file[q]
      BY <1>2, <1>6
    <3> QED BY <1>6, <3>1, FilesChange
  <2>3. file'[x.path].store # s
    BY <1>6, StoreAssumption DEF Nothing
  <2>4. x.decs[s] = 0 \/ (x.decs[s] = 1 /\ file[x.path].store = s)
    BY <1>2
  <2> QED BY <1>2, <1>11, <2>1, <2>2, <2>3, <2>4, StoreSets
<1>15. LoneFiles'
  <2>1. \A u \in Tasks : task'[u].at = "source" => "source" \in allowed
    BY <1>3, <1>4, <1>6 DEF StoreInv, LoneFiles
  <2>2. ASSUME "source" \in allowed
        PROVE  /\ \A p \in Paths : hidden[p] = NoStore
               /\ \A p, q \in Paths : file'[p] # Nothing /\ file'[p].store = file'[q].store => p = q
               /\ \A u \in Tasks : task'[u].at # "hide"
               /\ \A u, v \in Tasks : task'[u].op = "import" /\ task'[v].op = "import" => u = v
    <3>1. \A p, q \in Paths : file[p] # Nothing /\ file[p].store = file[q].store => p = q
      BY <2>2 DEF StoreInv, LoneFiles
    <3>2. \A p, q \in Paths : file'[p] # Nothing /\ file'[p].store = file'[q].store => p = q
      <4>1. \A p \in Paths : file'[p] # Nothing => file'[p].store # Nothing.store
        BY <1>6, StoreAssumption DEF RecType, Nothing
      <4> QED BY <1>6, <3>1, <4>1
    <3> QED BY <1>1, <1>2, <1>4, <1>6, <2>2, <3>2 DEF StoreInv, LoneFiles
  <2>3. ASSUME "source" \in allowed, NEW u \in Tasks, NEW q \in Paths,
               task'[u].op = "import", task'[u].at \notin {"list", "count"}
        PROVE  file'[q].store # importing
    <3>1. task[u].op = "import" /\ task[u].at \notin {"list", "count"}
      BY <1>1, <1>2, <1>4, <1>6, <2>3
    <3>2. importing \in Stores /\ file[q].store # importing
      BY <2>3, <3>1, TaskOf DEF TaskFits, OfImport, StoreInv, LoneFiles
    <3> QED BY <1>6, <3>2, StoreAssumption DEF Nothing
  <2>4. ASSUME "source" \in allowed, NEW u \in Tasks, NEW s \in Stores,
               task'[u].at = "source", task'[u].decs[s] > 0
        PROVE  FilesIn(file', s) = {}
    <3>1. CASE u = t
      <4>1. file[x.path].store = s
        BY <1>2, <1>4, <1>6, <2>4, <3>1
      <4>2. \A q \in Paths : file[q].store = s => q = x.path
        BY <1>2, <2>4, <4>1, ReadableFiles DEF StoreInv, LoneFiles
      <4> QED BY <1>12, <4>2 DEF FilesIn
    <3>2. CASE u # t
      BY <1>6, <1>12, <2>4, <3>2 DEF StoreInv, LoneFiles
    <3> QED BY <3>1, <3>2
  <2>5. UNCHANGED <<allowed, hidden, importing>>
    BY <1>2
  <2> QED BY <2>1, <2>2, <2>3, <2>4, <2>5 DEF LoneFiles
<1> QED BY <1>7, <1>10, <1>13, <1>14, <1>15 DEF StoreInv

(* The files of a directory go at once, and the counts of all of them are  *)
(* left.                                                                   *)
LEMMA RemoveAllKeeps ==
    ASSUME StoreInv, NEW t \in Tasks, RemoveAll(t)
    PROVE  StoreInv'
<1>1. PICK x \in TaskType : x = task[t]
  BY TaskOf
<1>2. /\ TaskFits(x, file, importing) /\ x.at = "removeAll" /\ x.op = "directory"
      /\ x.decs \in [Stores -> Nat] /\ \A s \in Stores : x.decs[s] = Cardinality(FilesIn(file, s))
      /\ \A u \in Tasks \ {t} : TouchedBy(x) \cap TouchedBy(task[u]) \cap Paths = {}
      /\ UNCHANGED <<allowed, hidden, present, refs, listed, kept, importing, bounds>>
      /\ file' = [p \in Paths |-> Nothing] /\ Goto(t, "uncount")
  BY <1>1, TaskOf, TaskFields DEF RemoveAll, TaskFits, TaskShape, Announces, caches
<1> DEFINE f == [x EXCEPT !.at = "uncount"]
<1>3. /\ f \in TaskType /\ f.op = x.op /\ f.at = "uncount" /\ f.path = x.path /\ f.to = x.to
      /\ f.rec = x.rec /\ f.decs = x.decs
  BY GotoFields
<1>4. task' = [task EXCEPT ![t] = f]
  BY <1>1, <1>2, GotoIs
<1> HIDE DEF f
<1>5. /\ task'[t] = f /\ \A u \in Tasks \ {t} : task'[u] = task[u]
      /\ \A p \in Paths : file'[p] = Nothing
  BY <1>2, <1>4 DEF StoreInv, StoreTypeOK
<1>6. StoreTypeOK' /\ ImportIsThere' /\ StoreOutlivesFiles'
  BY <1>2, <1>3, <1>4, <1>5 DEF StoreInv, StoreTypeOK, ImportIsThere, StoreOutlivesFiles, bounds
<1>7. \A s \in Stores : FilesIn(file', s) = {}
  BY <1>5, NothingHasNoStore DEF FilesIn
<1>8. TasksFit' /\ TasksAreApart' /\ CarefulUse'
  <2>1. TaskFits(f, file', importing)
    BY <1>2, <1>3 DEF TaskFits, TaskShape, KeepsStore, OfImport, Spares, Announces, Removing
  <2>2. TouchedBy(f) = TouchedBy(x) /\ TouchedBy(x) = Paths
    BY <1>2, <1>3 DEF TouchedBy
  <2>3. UNCHANGED <<allowed, importing>> /\ \A p \in Paths \ TouchedBy(task[t]) : file'[p] = file[p]
    BY <1>1, <1>2, <2>2
  <2>4. \A u \in Tasks \ {t} : TouchedBy(f) \cap TouchedBy(task[u]) \cap Paths = {}
    BY <1>2, <2>2
  <2> QED BY <1>3, <1>4, <2>1, <2>3, <2>4, TaskStepFits
<1>9. ASSUME NEW s \in Stores
      PROVE  /\ IsFiniteSet(Tokens(s)') /\ Cardinality(Tokens(s)') = Cardinality(Tokens(s)) + x.decs[s]
             /\ x.decs[s] = 0 => Tokens(s)' = Tokens(s)
             /\ Cardinality(Uncounted(s)') = Cardinality(Uncounted(s))
             /\ HiddenOf(s)' = HiddenOf(s)
  <2>1. Pending(f, s) = x.decs[s] /\ Pending(task[t], s) = 0 /\ x.decs[s] \in Nat
    BY <1>1, <1>2, <1>3 DEF Pending, Removed
  <2>2. /\ IsFiniteSet(Tokens(s)') /\ Cardinality(Tokens(s)') \in Nat
        /\ Cardinality(Tokens(s)') + Pending(task[t], s) = Cardinality(Tokens(s)) + Pending(f, s)
        /\ Pending(f, s) = Pending(task[t], s) => Tokens(s)' = Tokens(s)
    BY <1>3, <1>4, TokensChange
  <2>3. ~IsUncounted(f, s) /\ ~IsUncounted(task[t], s)
    BY <1>1, <1>2, <1>3 DEF IsUncounted
  <2>4. /\ Cardinality(Uncounted(s)') \in Nat
        /\ Cardinality(Uncounted(s)') + (IF IsUncounted(task[t], s) THEN 1 ELSE 0)
              = Cardinality(Uncounted(s)) + (IF IsUncounted(f, s) THEN 1 ELSE 0)
    BY <1>3, <1>4, UncountedChange
  <2>5. HiddenOf(s)' = HiddenOf(s)
    BY <1>2 DEF HiddenOf
  <2> QED BY <2>1, <2>2, <2>3, <2>4, <2>5, StoreSets
<1>10. DroppedAreUnused'
  <2> SUFFICES ASSUME NEW u \in Tasks, NEW s \in Stores \ gapped, task'[u].at = "drop", task'[u].to = s
               PROVE  FilesIn(file', s) = {} /\ HiddenOf(s)' = {} /\ Tokens(s)' = {}
    BY <1>2 DEF DroppedAreUnused, bounds
  <2>1. task'[u] = task[u]
    BY <1>3, <1>5
  <2>2. FilesIn(file, s) = {} /\ HiddenOf(s) = {} /\ Tokens(s) = {}
    BY <2>1 DEF StoreInv, DroppedAreUnused
  <2>3. x.decs[s] = 0
    BY <1>2, <2>2, StoreSets
  <2> QED BY <1>7, <1>9, <2>2, <2>3
<1>11. RefsCover'
  <2> SUFFICES ASSUME NEW s \in Stores \ gapped
               PROVE  refs'[s] + Cardinality(Uncounted(s)')
                         >= Cardinality(FilesIn(file', s)) + Cardinality(HiddenOf(s)') + Cardinality(Tokens(s)')
    BY <1>2, <1>9 DEF RefsCover, bounds
  <2>1. refs[s] + Cardinality(Uncounted(s))
            >= Cardinality(FilesIn(file, s)) + Cardinality(HiddenOf(s)) + Cardinality(Tokens(s))
    BY DEF StoreInv, RefsCover
  <2>2. Cardinality(FilesIn(file', s)) = 0 /\ x.decs[s] = Cardinality(FilesIn(file, s))
    BY <1>2, <1>7, FS_EmptySet
  <2> QED BY <1>2, <1>9, <2>1, <2>2, StoreSets
<1>12. LoneFiles'
  <2>1. ASSUME NEW u \in Tasks
        PROVE  /\ task'[u].op = task[u].op /\ (task'[u].at = "source" => task'[u] = task[u])
               /\ task'[u].at = "hide" => task'[u] = task[u]
    BY <1>1, <1>3, <1>5
  <2>2. ASSUME NEW u \in Tasks, NEW q \in Paths, task[u].op = "import"
        PROVE  file'[q].store # importing
    BY <1>5, <2>2, TaskOf, NothingHasNoStore DEF TaskFits, OfImport
  <2> QED BY <1>2, <1>5, <1>7, <2>1, <2>2 DEF StoreInv, LoneFiles
<1> QED BY <1>6, <1>8, <1>10, <1>11, <1>12 DEF StoreInv

-----------------------------------------------------------------------------

(* A goroutine whose operation ends moves files, and counts nothing.       *)
LEMMA MoveKeeps ==
    ASSUME StoreInv, NEW t \in Tasks, NEW x \in TaskType, x = task[t], x.at \in {"move", "hide"},
           Done(t), UNCHANGED <<allowed, present, refs, caches, importing, bounds>>,
           file' \in [Paths -> RecType \cup {Nothing}], hidden' \in [Paths -> Stores \cup {NoStore}],
           \A p \in Paths \ TouchedBy(x) : file'[p] = file[p], StoreOutlivesFiles',
           \A s \in Stores : /\ FilesIn(file, s) = {} => FilesIn(file', s) = {}
                             /\ FilesIn(file, s) = {} /\ HiddenOf(s) = {} => HiddenOf(s)' = {}
                             /\ Cardinality(FilesIn(file', s)) + Cardinality(HiddenOf(s)')
                                   <= Cardinality(FilesIn(file, s)) + Cardinality(HiddenOf(s)),
           \A s \in Stores : Cardinality(FilesIn(file', s)) \in Nat /\ Cardinality(HiddenOf(s)') \in Nat,
           "source" \in allowed =>
               /\ hidden' = hidden
               /\ \A p, q \in Paths : file'[p] # Nothing /\ file'[p].store = file'[q].store => p = q
    PROVE  StoreInv'
<1>1. task' = [task EXCEPT ![t] = NoTask] /\ NoTask \in TaskType
  BY NoTaskFits DEF Done
<1>2. task'[t] = NoTask /\ \A u \in Tasks \ {t} : task'[u] = task[u]
  BY <1>1 DEF StoreInv, StoreTypeOK
<1>3. StoreTypeOK' /\ ImportIsThere'
  BY <1>1 DEF StoreInv, StoreTypeOK, ImportIsThere, caches, bounds
<1>4. TasksFit' /\ TasksAreApart' /\ CarefulUse'
  <2>1. TaskFits(NoTask, file', importing) /\ UNCHANGED <<allowed, importing>>
    BY NoTaskFits
  <2>2. \A p \in Paths \ TouchedBy(task[t]) : file'[p] = file[p]
    OBVIOUS
  <2>3. \A u \in Tasks \ {t} : TouchedBy(NoTask) \cap TouchedBy(task[u]) \cap Paths = {}
    BY NoTaskFits
  <2> QED BY <1>1, <2>1, <2>2, <2>3, TaskStepFits
<1>5. ASSUME NEW s \in Stores
      PROVE  /\ Tokens(s)' = Tokens(s) /\ IsFiniteSet(Tokens(s)')
             /\ Cardinality(Uncounted(s)') = Cardinality(Uncounted(s))
  <2>1. Pending(NoTask, s) = Pending(task[t], s)
    BY NoTaskFits DEF Pending, Removed
  <2>2. Tokens(s)' = Tokens(s) /\ IsFiniteSet(Tokens(s)')
    BY <1>1, <2>1, TokensChange
  <2>3. ~IsUncounted(NoTask, s) /\ ~IsUncounted(task[t], s)
    BY NoTaskFits DEF IsUncounted
  <2>4. /\ Cardinality(Uncounted(s)') \in Nat
        /\ Cardinality(Uncounted(s)') + (IF IsUncounted(task[t], s) THEN 1 ELSE 0)
              = Cardinality(Uncounted(s)) + (IF IsUncounted(NoTask, s) THEN 1 ELSE 0)
    BY <1>1, UncountedChange
  <2> QED BY <2>2, <2>3, <2>4, StoreSets
<1>6. DroppedAreUnused'
  <2> SUFFICES ASSUME NEW u \in Tasks, NEW s \in Stores \ gapped, task'[u].at = "drop", task'[u].to = s
               PROVE  FilesIn(file', s) = {} /\ HiddenOf(s)' = {} /\ Tokens(s)' = {}
    BY <1>2 DEF DroppedAreUnused, bounds
  <2>1. task'[u] = task[u]
    BY <1>2, NoTaskFits
  <2>2. FilesIn(file, s) = {} /\ HiddenOf(s) = {} /\ Tokens(s) = {}
    BY <2>1 DEF StoreInv, DroppedAreUnused
  <2> QED BY <1>5, <2>2
<1>7. RefsCover'
  <2> SUFFICES ASSUME NEW s \in Stores \ gapped
               PROVE  refs'[s] + Cardinality(Uncounted(s)')
                         >= Cardinality(FilesIn(file', s)) + Cardinality(HiddenOf(s)') + Cardinality(Tokens(s)')
    BY <1>2, <1>5 DEF RefsCover, bounds
  <2>1. refs[s] + Cardinality(Uncounted(s))
            >= Cardinality(FilesIn(file, s)) + Cardinality(HiddenOf(s)) + Cardinality(Tokens(s))
    BY DEF StoreInv, RefsCover
  <2> QED BY <1>5, <2>1, StoreSets
<1>8. LoneFiles'
  <2>1. ASSUME "source" \in allowed, NEW u \in Tasks, NEW q \in Paths,
               task'[u].op = "import", task'[u].at \notin {"list", "count"}
        PROVE  file'[q].store # importing
    <3>1. task[u].op = "import" /\ task[u].at \notin {"list", "count"}
      BY <1>2, <2>1, NoTaskFits
    <3>2. importing \in Stores /\ FilesIn(file, importing) = {}
      BY <2>1, <3>1, TaskOf DEF TaskFits, OfImport, StoreInv, LoneFiles, FilesIn
    <3>3. FilesIn(file', importing) = {}
      BY <3>2
    <3> QED BY <3>3 DEF FilesIn
  <2>2. ASSUME "source" \in allowed, NEW u \in Tasks, NEW s \in Stores,
               task'[u].at = "source", task'[u].decs[s] > 0
        PROVE  FilesIn(file', s) = {}
    <3>1. task'[u] = task[u]
      BY <1>2, <2>2, NoTaskFits
    <3>2. FilesIn(file, s) = {}
      BY <2>2, <3>1 DEF StoreInv, LoneFiles
    <3> QED BY <3>2
  <2>3. /\ \A u \in Tasks : task'[u].at = "source" => "source" \in allowed
        /\ "source" \in allowed =>
              /\ \A p \in Paths : hidden'[p] = NoStore
              /\ \A u \in Tasks : task'[u].at # "hide"
              /\ \A u, v \in Tasks : task'[u].op = "import" /\ task'[v].op = "import" => u = v
    BY <1>2, NoTaskFits DEF StoreInv, LoneFiles
  <2> QED BY <2>1, <2>2, <2>3 DEF LoneFiles
<1> QED BY <1>3, <1>4, <1>6, <1>7, <1>8 DEF StoreInv

(* A rename takes the file's reference with it. *)
LEMMA RenameMoveKeeps ==
    ASSUME StoreInv, NEW t \in Tasks, RenameMove(t)
    PROVE  StoreInv'
<1>1. PICK x \in TaskType : x = task[t]
  BY TaskOf
<1>2. /\ x.at = "move" /\ x.path \in Paths /\ x.to \in Paths /\ TouchedBy(x) = {x.path, x.to}
      /\ UNCHANGED <<allowed, hidden, present, refs, caches, importing, bounds>> /\ Done(t)
      /\ file' = IF file[x.path] = Nothing THEN file
                 ELSE [file EXCEPT ![x.path] = Nothing, ![x.to] = file[x.path]]
  BY <1>1, TaskOf DEF RenameMove, TaskFits, TaskShape, TouchedBy
<1>3. file \in [Paths -> RecType \cup {Nothing}] /\ file' \in [Paths -> RecType \cup {Nothing}]
  BY <1>2 DEF StoreInv, StoreTypeOK
<1>4. \A p \in Paths \ TouchedBy(x) : file'[p] = file[p]
  BY <1>2, <1>3
<1>5. /\ \A p \in Paths : file'[p] # Nothing => \E q \in Paths : file[q] = file'[p]
      /\ \A p \in Paths, q \in Paths :
            /\ \A r, v \in Paths : file[r] # Nothing /\ file[r].store = file[v].store => r = v
            /\ file'[p] # Nothing /\ file'[q] # Nothing /\ file'[p].store = file'[q].store
            => p = q
  BY <1>2, <1>3
<1>6. StoreOutlivesFiles'
  <2>1. \A p \in Paths : file'[p] # Nothing => file'[p].store \in gapped \cup present
    BY <1>5 DEF StoreInv, StoreOutlivesFiles
  <2>2. hidden' = hidden /\ present' = present /\ gapped' = gapped
    BY <1>2 DEF bounds
  <2> QED BY <2>1, <2>2 DEF StoreInv, StoreOutlivesFiles
<1>7. ASSUME NEW s \in Stores
      PROVE  /\ FilesIn(file, s) = {} => FilesIn(file', s) = {}
             /\ Cardinality(FilesIn(file', s)) \in Nat
             /\ Cardinality(FilesIn(file', s)) <= Cardinality(FilesIn(file, s))
  <2>1. FilesIn(file, s) = {} => FilesIn(file', s) = {}
    BY <1>5, NothingHasNoStore DEF FilesIn
  <2>2. CASE file[x.path] = Nothing
    BY <1>2, <2>1, <2>2, StoreSets
  <2>3. CASE file[x.path] # Nothing
    <3> DEFINE g == [file EXCEPT ![x.path] = Nothing]
    <3>1. g \in [Paths -> RecType \cup {Nothing}] /\ g[x.path] = Nothing
          /\ \A q \in Paths \ {x.path} : g[q] = file[q]
      BY <1>2, <1>3
    <3>2. file'[x.to] = file[x.path] /\ \A q \in Paths \ {x.to} : file'[q] = g[q]
      BY <1>2, <1>3, <2>3
    <3> HIDE DEF g
    <3>3. /\ Cardinality(FilesIn(file, s)) \in Nat /\ Cardinality(FilesIn(g, s)) \in Nat
          /\ Cardinality(FilesIn(g, s)) + (IF file[x.path].store = s THEN 1 ELSE 0)
                = Cardinality(FilesIn(file, s)) + (IF g[x.path].store = s THEN 1 ELSE 0)
      BY <1>2, <1>3, <3>1, FilesChange
    <3>4. /\ Cardinality(FilesIn(g, s)) \in Nat /\ Cardinality(FilesIn(file', s)) \in Nat
          /\ Cardinality(FilesIn(file', s)) + (IF g[x.to].store = s THEN 1 ELSE 0)
                = Cardinality(FilesIn(g, s)) + (IF file'[x.to].store = s THEN 1 ELSE 0)
      <4>1. /\ x.to \in Paths /\ g \in [Paths -> RecType \cup {Nothing}]
            /\ file' \in [Paths -> RecType \cup {Nothing}]
        BY <1>2, <1>3, <3>1
      <4>2. \A q \in Paths \ {x.to} : file'[q] = g[q]
        BY <3>2
      <4> QED BY <4>1, <4>2, FilesChange
    <3>5. g[x.path].store # s
      BY <3>1, NothingHasNoStore
    <3> QED BY <2>1, <3>2, <3>3, <3>4, <3>5
  <2> QED BY <2>2, <2>3
<1>8. \A s : HiddenOf(s)' = HiddenOf(s)
  BY <1>2 DEF HiddenOf
<1>9. "source" \in allowed =>
          \A p, q \in Paths : file'[p] # Nothing /\ file'[p].store = file'[q].store => p = q
  <2>1. \A p, q \in Paths : file'[p] # Nothing /\ file'[p].store = file'[q].store => file'[q] # Nothing
    BY <1>3, NothingHasNoStore DEF RecType
  <2> QED BY <1>5, <2>1 DEF StoreInv, LoneFiles
<1>10. hidden' = hidden /\ hidden' \in [Paths -> Stores \cup {NoStore}]
  BY <1>2 DEF StoreInv, StoreTypeOK
<1>11. \A s \in Stores : /\ Cardinality(FilesIn(file', s)) + Cardinality(HiddenOf(s)')
                               <= Cardinality(FilesIn(file, s)) + Cardinality(HiddenOf(s))
                         /\ Cardinality(HiddenOf(s)') \in Nat
  BY <1>7, <1>8, StoreSets
<1> QED BY <1>1, <1>2, <1>3, <1>4, <1>6, <1>7, <1>8, <1>9, <1>10, <1>11, MoveKeeps

(* A hidden file counts at the place where it is hidden. *)
LEMMA HideMoveKeeps ==
    ASSUME StoreInv, NEW t \in Tasks, HideMove(t)
    PROVE  StoreInv'
<1>1. PICK x \in TaskType : x = task[t]
  BY TaskOf
<1>2. /\ x.at = "hide" /\ x.path \in Paths /\ x.path \in TouchedBy(x) /\ "source" \notin allowed
      /\ UNCHANGED <<allowed, present, refs, caches, importing, bounds>> /\ Done(t)
      /\ IF file[x.path] = Nothing THEN UNCHANGED <<file, hidden>>
         ELSE /\ hidden' = [hidden EXCEPT ![x.path] = file[x.path].store]
              /\ file' = [file EXCEPT ![x.path] = Nothing]
  BY <1>1, TaskOf DEF HideMove, TaskFits, TaskShape, TouchedBy, StoreInv, LoneFiles
<1>3. /\ file \in [Paths -> RecType \cup {Nothing}] /\ hidden \in [Paths -> Stores \cup {NoStore}]
      /\ file' \in [Paths -> RecType \cup {Nothing}] /\ hidden' \in [Paths -> Stores \cup {NoStore}]
  BY <1>2, ReadableFiles DEF StoreInv, StoreTypeOK
<1>4. \A p \in Paths \ TouchedBy(x) : file'[p] = file[p]
  BY <1>2, <1>3
<1>5. StoreOutlivesFiles'
  BY <1>2, <1>3 DEF StoreInv, StoreOutlivesFiles, bounds
<1>6. ASSUME NEW s \in Stores
      PROVE  /\ FilesIn(file, s) = {} => FilesIn(file', s) = {}
             /\ FilesIn(file, s) = {} /\ HiddenOf(s) = {} => HiddenOf(s)' = {}
             /\ Cardinality(FilesIn(file', s)) + Cardinality(HiddenOf(s)')
                   <= Cardinality(FilesIn(file, s)) + Cardinality(HiddenOf(s))
             /\ Cardinality(FilesIn(file', s)) \in Nat /\ Cardinality(HiddenOf(s)') \in Nat
  <2>1. CASE file[x.path] = Nothing
    <3>1. FilesIn(file', s) = FilesIn(file, s) /\ HiddenOf(s)' = HiddenOf(s)
      BY <1>2, <2>1 DEF HiddenOf
    <3> QED BY <3>1, StoreSets
  <2>2. CASE file[x.path] # Nothing
    <3>1. /\ file'[x.path] = Nothing /\ \A q \in Paths \ {x.path} : file'[q] = file[q]
          /\ hidden'[x.path] = file[x.path].store /\ \A q \in Paths \ {x.path} : hidden'[q] = hidden[q]
      BY <1>2, <1>3, <2>2
    <3>2. /\ FilesIn(file, s) = {} => FilesIn(file', s) = {}
          /\ FilesIn(file, s) = {} /\ HiddenOf(s) = {} => HiddenOf(s)' = {}
      BY <1>2, <3>1, NothingHasNoStore DEF FilesIn, HiddenOf
    <3>3. /\ Cardinality(FilesIn(file, s)) \in Nat /\ Cardinality(FilesIn(file', s)) \in Nat
          /\ Cardinality(FilesIn(file', s)) + (IF file[x.path].store = s THEN 1 ELSE 0)
                = Cardinality(FilesIn(file, s)) + (IF file'[x.path].store = s THEN 1 ELSE 0)
      BY <1>2, <1>3, <3>1, FilesChange
    <3>4. file'[x.path].store # s
      BY <3>1, NothingHasNoStore
    <3>5. /\ HiddenOf(s) \in SUBSET Paths /\ HiddenOf(s)' \in SUBSET Paths
          /\ HiddenOf(s)' \ {x.path} = HiddenOf(s) \ {x.path}
          /\ x.path \in HiddenOf(s)' <=> file[x.path].store = s
      BY <1>2, <3>1 DEF HiddenOf
    <3> HIDE DEF HiddenOf
    <3>6. /\ Cardinality(HiddenOf(s)') \in Nat /\ Cardinality(HiddenOf(s)) \in Nat
          /\ Cardinality(HiddenOf(s)') + (IF x.path \in HiddenOf(s) THEN 1 ELSE 0)
                = Cardinality(HiddenOf(s)) + (IF x.path \in HiddenOf(s)' THEN 1 ELSE 0)
      BY <3>5, StoreAssumption, OneApart
    <3> QED BY <3>2, <3>3, <3>4, <3>5, <3>6
  <2> QED BY <2>1, <2>2
<1> QED BY <1>1, <1>2, <1>3, <1>4, <1>5, <1>6, MoveKeeps

-----------------------------------------------------------------------------

(* There are no files and no tasks at first. *)
LEMMA StoreInitial == StoreInit /\ CarefulUse => StoreInv
<1> SUFFICES ASSUME StoreInit, CarefulUse
             PROVE  StoreInv
  OBVIOUS
<1>1. \A t \in Tasks : task[t] = NoTask
  BY DEF StoreInit
<1>2. /\ \A s \in Stores : /\ Tokens(s) = {} /\ Uncounted(s) = {} /\ FilesIn(file, s) = {}
                            /\ HiddenOf(s) = {} /\ refs[s] = 0
  BY <1>1, NoTaskFits, NothingHasNoStore
     DEF StoreInit, Tokens, Uncounted, FilesIn, HiddenOf
<1>3. StoreTypeOK
  BY NoTaskFits, StoreAssumption DEF StoreInit, StoreTypeOK
<1>4. TasksFit /\ TasksAreApart /\ DroppedAreUnused
  BY <1>1, NoTaskFits DEF TasksFit, TasksAreApart, DroppedAreUnused
<1>5. ImportIsThere /\ StoreOutlivesFiles
  BY DEF StoreInit, ImportIsThere, StoreOutlivesFiles
<1>6. RefsCover
  BY <1>2, FS_EmptySet DEF RefsCover
<1>7. LoneFiles
  BY <1>1, NoTaskFits DEF StoreInit, LoneFiles
<1> QED BY <1>3, <1>4, <1>5, <1>6, <1>7 DEF StoreInv

(* Every step of the metadata service keeps the invariant. *)
LEMMA StoreSteps == StoreInv /\ [StoreNext]_storeVars => StoreInv'
<1> SUFFICES ASSUME StoreInv, [StoreNext]_storeVars
             PROVE  StoreInv'
  OBVIOUS
<1>1. ASSUME NEW s \in Stores, ImportBegin(s) \/ ForgetStore(s)
      PROVE  StoreInv'
  BY <1>1, ImportBeginKeeps, ForgetStoreKeeps
<1>2. CASE ImportEnd \/ StoreCrash
  BY <1>2, ImportEndKeeps, StoreCrashKeeps
<1>3. ASSUME NEW t \in Tasks, TaskStep(t) \/ DeleteDirectory(t)
      PROVE  StoreInv'
  BY <1>3, WriteKeeps, CacheListedKeeps, IncStoreRefKeeps, DeleteReadKeeps, UnlinkKeeps, DeleteSourceKeeps,
     DropStoreKeeps, DeletedKeeps, DecStoreRefKeeps, WalkKeeps, RemoveAllKeeps, RenameMoveKeeps, HideMoveKeeps,
     DeleteDirectoryKeeps
     DEF TaskStep
<1>4. ASSUME NEW t \in Tasks, NEW p \in Paths,
             \/ ImportFile(t, p) \/ Delete(t, p) \/ Hide(t, p) \/ List(t, p)
             \/ \E what \in {"status", "hole"} : Update(t, p, what)
             \/ \E q \in Paths : Rename(t, p, q)
      PROVE  StoreInv'
  BY <1>4, ImportFileKeeps, DeleteKeeps, HideKeeps, ListKeeps, UpdateKeeps, RenameKeeps
<1>5. CASE UNCHANGED storeVars
  <2>1. UNCHANGED <<allowed, file, hidden, present, refs, listed, kept, importing, task, bounds>>
    BY <1>5 DEF storeVars, disk, caches
  <2>2. StoreTypeOK' /\ CarefulUse' /\ ImportIsThere' /\ StoreOutlivesFiles' /\ LoneFiles' /\ TasksFit'
    BY <2>1
       DEF StoreInv, StoreTypeOK, CarefulUse, ImportIsThere, StoreOutlivesFiles, LoneFiles, TasksFit, bounds
  <2> QED BY <2>1, <2>2, SameCounts DEF StoreInv, bounds
<1> QED BY <1>1, <1>2, <1>3, <1>4, <1>5 DEF StoreNext

(* The stores and their counts under careful use: crashes come at any      *)
(* step, and the counts are right for every store that no crash hit        *)
(* between the write of a file and its count.                              *)
THEOREM StoreInvariant == StoreSpec /\ CarefulUse => []StoreInv
<1>1. StoreInit /\ CarefulUse => StoreInv
  BY StoreInitial
<1>2. StoreInv /\ [StoreNext]_storeVars => StoreInv'
  BY StoreSteps
<1> QED BY <1>1, <1>2, PTL DEF StoreSpec

(* Under careful use no store goes before its last file, hidden files      *)
(* included, unless a crash came between the write of one of its files and *)
(* the count of it; a crash at any other step costs no store.              *)
THEOREM StoresOutliveTheirFiles == StoreSpec /\ CarefulUse => []StoreOutlivesFiles
<1>1. StoreInv => StoreOutlivesFiles
  BY DEF StoreInv
<1> QED BY <1>1, StoreInvariant, PTL

(* And its count, with the counts that are on their way, covers its files, *)
(* with the same exception.                                                *)
THEOREM CountsCover == StoreSpec /\ CarefulUse => []CountsCoverFiles
<1>1. StoreInv => CountsCoverFiles
  <2> SUFFICES ASSUME StoreInv, NEW s \in Stores \ gapped
               PROVE  refs[s] + Cardinality(Uncounted(s)) >=
                         Cardinality(FilesOf(s)) + Cardinality({p \in Paths : hidden[p] = s})
    BY DEF CountsCoverFiles
  <2>1. refs[s] + Cardinality(Uncounted(s))
            >= Cardinality(FilesIn(file, s)) + Cardinality(HiddenOf(s)) + Cardinality(Tokens(s))
    BY DEF StoreInv, RefsCover
  <2>2. FilesOf(s) = FilesIn(file, s) /\ {p \in Paths : hidden[p] = s} = HiddenOf(s)
    BY DEF FilesOf, FilesIn, HiddenOf
  <2>3. /\ Cardinality(FilesOf(s)) = Cardinality(FilesIn(file, s))
        /\ Cardinality({p \in Paths : hidden[p] = s}) = Cardinality(HiddenOf(s))
    BY <2>2
  <2>4. refs[s] + Cardinality(Uncounted(s)) >= Cardinality(FilesIn(file, s)) + Cardinality(HiddenOf(s))
    BY <2>1, StoreSets
  <2> HIDE DEF Uncounted
  <2> QED BY <2>3, <2>4
<1> QED BY <1>1, StoreInvariant, PTL
===============================================================================
