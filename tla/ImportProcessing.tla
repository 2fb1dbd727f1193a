-------------------------- MODULE ImportProcessing --------------------------
(***************************************************************************)
(* What a run of the import queue does with its NZB: the custody of the    *)
(* file (internal/importer/service.go), the stages of ProcessNzbFile and   *)
(* the three ways files are written (internal/importer/processor.go with   *)
(* singlefile, multifile and archive/rar), and what follows success and    *)
(* failure: health records, roll-back, the move to the failed folder.      *)
(*                                                                         *)
(* ImportQueue models who runs an item and when; here a hand (a worker or  *)
(* a background run) takes any pending one.  An NZB posts Parts; damaged   *)
(* are those the damage policy refuses, and a damaged volume spoils its    *)
(* whole archive.  Metadata is kept by place: a folder, a name and the     *)
(* number a second copy gets.  RAR and 7z differ in their analysis alone;  *)
(* STRM imports and images that are expanded are not modelled.  A search   *)
(* for a free number starts at the first one, not where the last one       *)
(* ended.  No external SABnzbd is configured.                              *)
(***************************************************************************)
EXTENDS Naturals, FiniteSets

CONSTANTS
    Nzbs,        \* items of the queue
    Hands,       \* workers and background runs
    Folders,     \* folders of the virtual file system
    Parts,       \* files that a release posts
    MaxCopy,     \* bound on the number of a copy
    Cases,       \* what is imported how, and what happens meanwhile
    MaxServerStarts,   \* bound on starts of the server
    MaxRetries   \* bound on requests to retry

ASSUME ProcessingConstants ==
    /\ Parts # {} /\ IsFiniteSet(Parts) /\ "none" \notin Nzbs \cup Parts
    /\ {MaxCopy, MaxServerStarts, MaxRetries} \subseteq Nat
    /\ Cases \subseteq
         [kind : [Nzbs -> {"single", "multi", "archive"}], folder : [Nzbs -> Folders],
          hands : SUBSET Hands, obfuscated : BOOLEAN,
          events : SUBSET {"cancel", "retry", "hasty", "failures", "corrupt", "relink", "crash", "stop"}]

NoNzb == "none"
NoPart == "none"
Nowhere == <<>>

Places == Folders \X Parts \X (0..MaxCopy)
Vacant == [by |-> NoNzb, of |-> NoPart, ok |-> FALSE]

VARIABLES
    setting,   \* the case of this behaviour
    damaged,   \* the parts of each NZB that cannot be served
    row,       \* the status of each item
    rowPath,   \* import_queue.nzb_path: in the upload, queue or failed directory
    nzbAt,     \* where the file is
    placed,    \* metadata by place: whose, of what, and whether it is healthy
    records,   \* health records by place
    hand,      \* what each hand does
    server,    \* "up", "stopping" or "down"
    counted,   \* failures of each item that the breaker was told
    serverStarts,
    retries,
    contested  \* history: places that two releases were after, see Contests

nzbVars == <<row, rowPath, nzbAt>>
limitVars == <<serverStarts, retries>>
fixedVars == <<setting, damaged>>
processingVars ==
    <<fixedVars, nzbVars, placed, records, hand, server, counted, limitVars, contested>>

Kind(n) == setting.kind[n]
Happens(e) == e \in setting.events
PartsOf(n) == IF Kind(n) = "single" THEN {CHOOSE p \in Parts : TRUE} ELSE Parts

(* One damaged volume makes the whole set unusable.                        *)
Usable(n) == IF Kind(n) = "archive" /\ damaged[n] # {} THEN {} ELSE PartsOf(n) \ damaged[n]

Idle ==
    [nzb |-> NoNzb, step |-> "idle", path |-> "none", due |-> {},
     spots |-> [p \in Parts |-> Nowhere], wrote |-> {}, verdict |-> "none", stop |-> FALSE]

Attended(n) == \E h \in Hands : hand[h].nzb = n

ProcessingInit ==
    /\ setting \in Cases
    /\ damaged \in {d \in [Nzbs -> SUBSET Parts] : \A n \in Nzbs : d[n] \subseteq PartsOf(n)}
    /\ row = [n \in Nzbs |-> "pending"]
    /\ rowPath = [n \in Nzbs |-> "upload"] /\ nzbAt = rowPath
    /\ placed = [s \in Places |-> Vacant]
    /\ records = [s \in Places |-> "none"]
    /\ hand = [h \in Hands |-> Idle]
    /\ server = "up" /\ serverStarts = 0 /\ retries = 0
    /\ counted = [n \in Nzbs |-> 0] /\ contested = {}

-----------------------------------------------------------------------------
(* A hand's steps.                                                         *)

To(h, step) == hand' = [hand EXCEPT ![h].step = step]
End(h) == hand' = [hand EXCEPT ![h] = Idle]
GiveUpWith(h, verdict) == hand' = [hand EXCEPT ![h].step = "clean", ![h].verdict = verdict]

(* A hand claims an item and keeps a copy of its row.                      *)
Take(h, n) ==
    /\ server = "up" /\ hand[h].step = "idle" /\ h \in setting.hands /\ row[n] = "pending"
    /\ row' = [row EXCEPT ![n] = "processing"]
    /\ hand' = [hand EXCEPT ![h] = [Idle EXCEPT !.nzb = n, !.step = "persist", !.path = rowPath[n]]]
    /\ UNCHANGED <<rowPath, nzbAt, placed, records, counted>>

(* ensurePersistentNzb: an NZB that is not in the queue directory is moved *)
(* there, and then the row is told.                                        *)
Persist(h, n) ==
    /\ hand[h].step = "persist"
    /\ \/ /\ hand[h].path = "queue"
          /\ To(h, "open") /\ UNCHANGED nzbAt
       \/ /\ hand[h].path # "queue" /\ nzbAt[n] = hand[h].path
          /\ nzbAt' = [nzbAt EXCEPT ![n] = "queue"]
          /\ hand' = [hand EXCEPT ![h].step = "record", ![h].path = "queue"]
       \/ /\ hand[h].path # "queue" /\ nzbAt[n] # hand[h].path
          /\ GiveUpWith(h, "failed") /\ UNCHANGED nzbAt
    /\ UNCHANGED <<row, rowPath, placed, records, counted>>

(* The update runs under the item's context.                               *)
RecordPath(h, n) ==
    /\ hand[h].step = "record"
    /\ IF hand[h].stop
       THEN GiveUpWith(h, "cancelled") /\ UNCHANGED rowPath
       ELSE To(h, "open") /\ rowPath' = [rowPath EXCEPT ![n] = "queue"]
    /\ UNCHANGED <<row, nzbAt, placed, records, counted>>

(* The admission slot, then the file.                                      *)
Open(h, n) ==
    /\ hand[h].step = "open"
    /\ IF hand[h].stop THEN GiveUpWith(h, "cancelled")
       ELSE IF nzbAt[n] # hand[h].path THEN GiveUpWith(h, "failed")
       ELSE To(h, "probe")
    /\ UNCHANGED <<nzbVars, placed, records, counted>>

(* preParseFastFail: a release of which nothing can be imported fails.  A  *)
(* check that is cut short by a cancellation reports an error for each     *)
(* segment in flight, which counts as missing.                             *)
Probe(h, n) ==
    /\ hand[h].step = "probe"
    /\ \E found \in IF hand[h].stop THEN SUBSET PartsOf(n) ELSE {Usable(n)} :
          IF found = {} THEN GiveUpWith(h, "failed")
          ELSE hand' = [hand EXCEPT ![h].step = "parse", ![h].due = found]
    /\ UNCHANGED <<nzbVars, placed, records, counted>>

(* ParseNzb goes on without what a cancellation keeps it from reading, and *)
(* the checks that follow it see the cancellation.                         *)
Parse(h) ==
    /\ hand[h].step = "parse"
    /\ IF hand[h].stop THEN GiveUpWith(h, "cancelled") ELSE To(h, "place")
    /\ UNCHANGED <<nzbVars, placed, records, counted>>

FolderOf(n) == {s \in Places : s[1] = setting.folder[n]}

(* Obfuscated files all take the name of the release.                      *)
Place(n, p, copy) ==
    <<setting.folder[n],
      IF Kind(n) = "multi" /\ setting.obfuscated THEN CHOOSE q \in Parts : TRUE ELSE p, copy>>

(* Mutant: nobody sees what other files of the batch hold.                  *)
HeldByNobody(h) == {}

(* The places that other files of the same batch have reserved.            *)
Held(h) == {hand[h].spots[p] : p \in Parts}

(* Mutant: what is there already is not looked at.                         *)
FreePlaceUnheeding(h, n, p) ==
    Place(n, p, CHOOSE c \in 0..MaxCopy :
                   Place(n, p, c) \notin Held(h) /\ \A d \in 0..MaxCopy : d < c => Place(n, p, d) \in Held(h))

Taken(h, n, p, copy) == Place(n, p, copy) \in Held(h) \/ placed[Place(n, p, copy)].ok

(* EnsureUniqueVirtualPath and PathReserver.Reserve: the first place that  *)
(* nobody holds and that has no healthy file.                              *)
FreePlace(h, n, p) ==
    Place(n, p, CHOOSE c \in 0..MaxCopy :
                   ~ Taken(h, n, p, c) /\ \A d \in 0..MaxCopy : d < c => Taken(h, n, p, d))

(* processRarArchive: the folder is noted for the roll-back, the archive   *)
(* is analysed, and what is already there and healthy is left out.         *)
Analyse(h, n) ==
    /\ hand[h].step = "place" /\ Kind(n) = "archive"
    /\ LET noted == [hand EXCEPT ![h].wrote = FolderOf(n)]
           due == {p \in hand[h].due : ~ placed[Place(n, p, 0)].ok}
       IN hand' = IF hand[h].stop
                  THEN [noted EXCEPT ![h].step = "clean", ![h].verdict = "cancelled"]
                  ELSE [noted EXCEPT ![h].step = "write", ![h].due = due,
                                     ![h].spots = [p \in Parts |-> IF p \in due
                                                      THEN Place(n, p, 0) ELSE Nowhere]]
    /\ UNCHANGED <<nzbVars, placed, records, counted>>

(* processSingleFile and processMultiFile choose the place of each file    *)
(* by itself; the numbers of copies end at MaxCopy here.                   *)
Reserve(h, n, p) ==
    /\ Kind(n) # "archive" /\ hand[h].step \in {"place", "write"}
    /\ p \in hand[h].due /\ hand[h].spots[p] = Nowhere
    /\ \E copy \in 0..MaxCopy : ~ Taken(h, n, p, copy)
    /\ hand' = [hand EXCEPT ![h].step = "write", ![h].spots[p] = FreePlace(h, n, p)]
    /\ UNCHANGED <<nzbVars, placed, records, counted>>

(* WriteFileMetadataAuto; the files of a batch are written whatever        *)
(* becomes of the others, each after the broken one that it replaces is    *)
(* deleted.                                                                *)
WriteFile(h, n, p) ==
    /\ hand[h].step = "write" /\ hand[h].spots[p] # Nowhere
    /\ LET s == hand[h].spots[p]
           over == [hand EXCEPT ![h].due = @ \ {p}, ![h].spots[p] = Nowhere]
       IN \/ /\ placed' = [placed EXCEPT ![s] = [by |-> n, of |-> p, ok |-> TRUE]]
             /\ hand' = [over EXCEPT ![h].wrote = @ \cup {s}]
          \/ /\ Happens("failures")
             /\ hand' = [over EXCEPT ![h].verdict = "failed"]
             /\ placed' = IF Kind(n) = "single" THEN placed ELSE [placed EXCEPT ![s] = Vacant]
    /\ UNCHANGED <<nzbVars, records, counted>>

(* Mutant: files that were written beside one that failed are not reported. *)
WrittenUnreported(h) ==
    /\ hand[h].step = "write" /\ hand[h].due = {}
    /\ hand' = IF hand[h].verdict = "none" THEN [hand EXCEPT ![h].step = "store"]
               ELSE [hand EXCEPT ![h].step = "clean", ![h].wrote = {}]
    /\ UNCHANGED <<nzbVars, placed, records, counted>>

Written(h) ==
    /\ hand[h].step = "write" /\ hand[h].due = {}
    /\ To(h, IF hand[h].verdict = "none" THEN "store" ELSE "clean")
    /\ UNCHANGED <<nzbVars, placed, records, counted>>

(* handleProcessingSuccess up to HandleSuccess: each file gets a new       *)
(* health record.  Once the server is stopping no write to the database    *)
(* succeeds, and the row stays as it is.                                   *)
Store(h) ==
    /\ hand[h].step = "store"
    /\ IF server = "up"
       THEN /\ records' = [s \in Places |-> IF s \in hand[h].wrote /\ placed[s] # Vacant
                                               THEN "pending" ELSE records[s]]
            /\ To(h, "complete")
       ELSE End(h) /\ UNCHANGED records
    /\ UNCHANGED <<nzbVars, placed, counted>>

Complete(h, n) ==
    /\ hand[h].step = "complete"
    /\ IF server = "up" THEN row' = [row EXCEPT ![n] = "completed"] /\ To(h, "discard")
                        ELSE End(h) /\ UNCHANGED row
    /\ UNCHANGED <<rowPath, nzbAt, placed, records, counted>>

Discard(h, n) ==
    /\ hand[h].step = "discard"
    /\ nzbAt' = [nzbAt EXCEPT ![n] = IF @ = hand[h].path THEN "gone" ELSE @]
    /\ End(h)
    /\ UNCHANGED <<row, rowPath, placed, records, counted>>

-----------------------------------------------------------------------------
(* What follows a failure.                                                 *)

(* cleanupWrittenPaths and cleanupHealthRecords: the places go whoever     *)
(* wrote them, the records only while nothing has validated them.          *)
CleanUp(h) ==
    /\ hand[h].step = "clean"
    /\ placed' = [s \in Places |-> IF s \in hand[h].wrote THEN Vacant ELSE placed[s]]
    /\ records' = [s \in Places |-> IF server = "up" /\ s \in hand[h].wrote /\ records[s] = "pending"
                                       THEN "none" ELSE records[s]]
    /\ To(h, "fail")
    /\ UNCHANGED <<nzbVars, counted>>

Fail(h, n) ==
    /\ hand[h].step = "fail"
    /\ row' = IF server = "up" THEN [row EXCEPT ![n] = "failed"] ELSE row
    /\ To(h, "count")
    /\ UNCHANGED <<rowPath, nzbAt, placed, records, counted>>

(* Coordinator.HandleFailure: the breaker hears of every failure that is   *)
(* not a cancellation.                                                     *)
Count(h, n) ==
    /\ hand[h].step = "count"
    /\ counted' = [counted EXCEPT ![n] = IF hand[h].verdict = "failed" THEN @ + 1 ELSE @]
    /\ To(h, "move")
    /\ UNCHANGED <<nzbVars, placed, records>>

(* Mutant: the row keeps the path from before the move.                    *)
MoveToFailedUntold(h, n) ==
    /\ hand[h].step = "move"
    /\ nzbAt' = [nzbAt EXCEPT ![n] = IF @ = hand[h].path THEN "failed" ELSE @]
    /\ End(h)
    /\ UNCHANGED <<row, rowPath, placed, records, counted>>

(* MoveToFailedFolder: nothing to do for a file that is not there or has   *)
(* been moved before.                                                      *)
MoveToFailed(h, n) ==
    /\ hand[h].step = "move"
    /\ IF nzbAt[n] # hand[h].path \/ hand[h].path = "failed"
       THEN End(h) /\ UNCHANGED nzbAt
       ELSE To(h, "moved") /\ nzbAt' = [nzbAt EXCEPT ![n] = "failed"]
    /\ UNCHANGED <<row, rowPath, placed, records, counted>>

RecordFailed(h, n) ==
    /\ hand[h].step = "moved"
    /\ rowPath' = IF server = "up" THEN [rowPath EXCEPT ![n] = "failed"] ELSE rowPath
    /\ End(h)
    /\ UNCHANGED <<row, nzbAt, placed, records, counted>>

(* What a hand is after: the places that it has chosen, and those that it  *)
(* has written and may still take back.                                    *)
Claims(h) ==
    (Held(h) \ {Nowhere}) \cup
    (IF hand[h].step \in {"write", "clean"} /\ Kind(hand[h].nzb) # "archive" THEN hand[h].wrote ELSE {})

(* Places where two releases meet and the code keeps no order: a write     *)
(* where another hand is at work as well, since nobody sees what the       *)
(* others have reserved; and the files of other releases that an archive   *)
(* takes along as it rolls its whole folder back, which is one and the     *)
(* same for releases of one name (processor.go:965, service.go:1206-1247). *)
Contests(h, n) ==
    {s \in UNION {Claims(g) : g \in Hands \ {h}} : placed'[s] # placed[s] /\ placed'[s].by = n} \cup
    (IF hand[h].step = "clean" /\ Kind(n) = "archive"
     THEN {s \in hand[h].wrote : placed[s].by \notin {NoNzb, n}} ELSE {})

HandStep(h, n) ==
    /\ hand[h].nzb = n /\ server # "down"
    /\ \/ Persist(h, n) \/ RecordPath(h, n) \/ Open(h, n) \/ Probe(h, n) \/ Parse(h)
       \/ Analyse(h, n) \/ \E p \in Parts : Reserve(h, n, p) \/ WriteFile(h, n, p)
       \/ Written(h) \/ Store(h) \/ Complete(h, n) \/ Discard(h, n)
       \/ CleanUp(h) \/ Fail(h, n) \/ Count(h, n) \/ MoveToFailed(h, n) \/ RecordFailed(h, n)
    /\ contested' = contested \cup Contests(h, n)
    /\ UNCHANGED <<fixedVars, server, limitVars>>

-----------------------------------------------------------------------------
(* Requests, the *arrs, the health worker, and the process.                *)

CancelRun(h) ==
    /\ Happens("cancel") /\ server = "up"
    /\ hand[h].nzb # NoNzb /\ row[hand[h].nzb] = "processing" /\ ~ hand[h].stop
    /\ hand' = [hand EXCEPT ![h].stop = TRUE]
    /\ UNCHANGED <<fixedVars, nzbVars, placed, records, server, counted, limitVars>>

(* The row says "failed" before the run is over, and may be retried then.  *)
RetryImport(n) ==
    /\ Happens("retry") /\ server = "up" /\ retries < MaxRetries /\ row[n] = "failed"
    /\ Attended(n) => Happens("hasty")
    /\ row' = [row EXCEPT ![n] = "pending"] /\ retries' = retries + 1
    /\ UNCHANGED <<fixedVars, rowPath, nzbAt, placed, records, hand, server, counted, serverStarts>>

(* A check or a playback finds a file broken.                              *)
Corrupt(s) ==
    /\ Happens("corrupt") /\ placed[s].ok
    /\ placed' = [placed EXCEPT ![s].ok = FALSE]
    /\ UNCHANGED <<fixedVars, nzbVars, records, hand, server, counted, limitVars>>

(* An *arr imports the file and its webhook gives the record its path in   *)
(* the library.                                                            *)
RelinkRecord(s) ==
    /\ Happens("relink") /\ server = "up" /\ records[s] = "pending" /\ placed[s] # Vacant
    /\ records' = [records EXCEPT ![s] = "relinked"]
    /\ UNCHANGED <<fixedVars, nzbVars, placed, hand, server, counted, limitVars>>

(* Manager.Stop cancels the context of every run.                          *)
StopServer ==
    /\ Happens("stop") /\ server = "up" /\ serverStarts < MaxServerStarts
    /\ server' = "stopping"
    /\ hand' = [h \in Hands |-> IF hand[h].nzb = NoNzb THEN Idle ELSE [hand[h] EXCEPT !.stop = TRUE]]
    /\ UNCHANGED <<fixedVars, nzbVars, placed, records, counted, limitVars>>

ExitServer ==
    /\ server = "stopping" /\ \A h \in Hands : hand[h].nzb = NoNzb
    /\ server' = "down"
    /\ UNCHANGED <<fixedVars, nzbVars, placed, records, hand, counted, limitVars>>

Crash ==
    /\ Happens("crash") /\ server # "down" /\ serverStarts < MaxServerStarts
    /\ server' = "down" /\ hand' = [h \in Hands |-> Idle]
    /\ UNCHANGED <<fixedVars, nzbVars, placed, records, counted, limitVars>>

(* Service.Start begins with ResetStaleItems.                              *)
StartServer ==
    /\ server = "down" /\ server' = "up" /\ serverStarts' = serverStarts + 1
    /\ row' = [n \in Nzbs |-> IF row[n] = "processing" THEN "pending" ELSE row[n]]
    /\ UNCHANGED <<fixedVars, rowPath, nzbAt, placed, records, hand, counted, retries>>

ProcessingNext ==
    \/ \E h \in Hands, n \in Nzbs : HandStep(h, n)
    \/ /\ \/ \E h \in Hands, n \in Nzbs : Take(h, n) /\ UNCHANGED <<fixedVars, server, limitVars>>
          \/ \E h \in Hands : CancelRun(h)
          \/ \E n \in Nzbs : RetryImport(n)
          \/ \E s \in Places : Corrupt(s) \/ RelinkRecord(s)
          \/ StopServer \/ ExitServer \/ Crash \/ StartServer
       /\ UNCHANGED contested

ProcessingSpec == ProcessingInit /\ [][ProcessingNext]_processingVars

-----------------------------------------------------------------------------
(* Types.                                                                  *)
ProcessingTypeOK ==
    /\ setting \in Cases /\ damaged \in [Nzbs -> SUBSET Parts]
    /\ row \in [Nzbs -> {"pending", "processing", "completed", "failed"}]
    /\ rowPath \in [Nzbs -> {"upload", "queue", "failed"}]
    /\ nzbAt \in [Nzbs -> {"upload", "queue", "failed", "gone"}]
    /\ placed \in [Places -> [by : Nzbs \cup {NoNzb}, of : Parts \cup {NoPart}, ok : BOOLEAN]]
    /\ records \in [Places -> {"none", "pending", "relinked"}]
    /\ \A h \in Hands :
          /\ hand[h].nzb \in Nzbs \cup {NoNzb} /\ (hand[h].nzb = NoNzb <=> hand[h].step = "idle")
          /\ hand[h].due \subseteq Parts /\ hand[h].wrote \subseteq Places
          /\ hand[h].spots \in [Parts -> Places \cup {Nowhere}]
          /\ hand[h].verdict \in {"none", "failed", "cancelled"} /\ hand[h].stop \in BOOLEAN
    /\ server \in {"up", "stopping", "down"}
    /\ counted \in [Nzbs -> Nat] /\ serverStarts \in 0..MaxServerStarts /\ retries \in 0..MaxRetries
    /\ contested \subseteq Places

(* No import replaces or removes a healthy file of another one that is     *)
(* completed, not by its choice of a place and not by the roll-back when   *)
(* it fails.  Contested places are the exception: there a run overwrites   *)
(* or takes back what another run put beside it, and a failed archive      *)
(* removes what earlier releases of its folder left, though                *)
(* service.go:1244-1247 says that a failed re-import keeps their records.  *)
HealthyFilesStay ==
    [][\A s \in Places :
          LET n == placed[s].by
          IN placed[s].ok /\ n # NoNzb /\ row[n] = "completed" /\ ~ Attended(n) /\ s \notin contested'
             => placed'[s].by = n]_placed

(* The same without the exception; TLC finds an archive that fails and     *)
(* takes the files of a completed release along.                           *)
CompletedFilesStay ==
    [][\A s \in Places :
          LET n == placed[s].by
          IN placed[s].ok /\ n # NoNzb /\ row[n] = "completed" /\ ~ Attended(n) => placed'[s].by = n]_placed

(* Every part that an import could have written is there when it is        *)
(* completed, at a place of its own, and stays there: parts that carry the *)
(* same name, earlier copies and files that were left out because they     *)
(* were there do not make one disappear.  Folders with contested places    *)
(* are left out.                                                           *)
CompletedAreServed ==
    \A n \in Nzbs : row[n] = "completed" /\ ~ Attended(n) /\ FolderOf(n) \cap contested = {} =>
        \A p \in Usable(n) : \E s \in FolderOf(n) : placed[s].of = p

(* A failed import leaves no metadata behind, which players would list and *)
(* nothing would ever take away.  An import whose files a crash or a stop  *)
(* left behind may be cancelled before it reaches them again: cases that   *)
(* have both are left out.                                                 *)
FailedLeaveNothing ==
    ~ Happens("stop") /\ ~ ({"crash", "cancel"} \subseteq setting.events) =>
        \A n \in Nzbs : row[n] = "failed" /\ ~ Attended(n) =>
            \A s \in Places : placed[s].by # n

(* An import that is still to be done, or to be done again, finds its NZB  *)
(* where its row says, whatever failures, cancellations and retries it has *)
(* behind it, as long as the server is not stopped.  A retry must wait for *)
(* the end of the run that failed: the file that a second run has taken up *)
(* again is moved by the end of the first one, and the row ends up with    *)
(* the path that the second one recorded.                                  *)
ImportsKeepTheirNzb ==
    ~ Happens("stop") /\ ~ Happens("crash") /\ ~ Happens("hasty") =>
        \A n \in Nzbs : row[n] \in {"pending", "failed"} /\ ~ Attended(n) => nzbAt[n] = rowPath[n]

(* The failed folder exists so that a failed import can be retried         *)
(* (service.go:1363); TLC finds that an import which a stop of the server  *)
(* interrupts cannot: its NZB is moved there, the row cannot be told, and  *)
(* after the next start the item fails for want of its file.               *)
FailedImportsCanBeRetried ==
    \A n \in Nzbs : row[n] = "failed" /\ ~ Attended(n) => nzbAt[n] = rowPath[n]

(* User cancellations are not failures and never count (coordinator.go);   *)
(* TLC finds one that hits while the segments are checked to be counted.   *)
CancelledAreNotCounted ==
    [][\A h \in Hands, n \in Nzbs :
          hand[h].nzb = n /\ hand[h].stop => counted'[n] = counted[n]]_counted

(* The records that a roll-back spares are those of files that an earlier  *)
(* import of the release wrote; TLC finds those files to be gone.          *)
SparedRecordsHaveFiles ==
    \A s \in Places : records[s] = "relinked" => placed[s] # Vacant

=============================================================================
