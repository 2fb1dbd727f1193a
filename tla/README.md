# A TLA+ model of tater-tube-server

tater-tube-server is a Go media server. It imports NZB files, keeps only the
metadata of the files they describe, and downloads the bytes from Usenet while
somebody reads them. This directory holds TLA+ modules of the parts of the
server that are concurrent, stateful and hard to test, TLC configurations that
check them on small instances, and proofs about them for every instance.

Paths below are relative to `internal/` unless they say otherwise.
`PROJECT.json` lists the components, the runs, the lines each definition
models, what the runs were found to contradict, the hazards and the theorems.

## Inventory

| Component | State | Operations | Talks to | Hard because | Correct when |
| --- | --- | --- | --- | --- | --- |
| Connection budget, admission gate (`pool/semaphore.go`, `budget.go`, `admission.go`) | in-flight count, FIFO waiters, capacity, stream source | Acquire, release, SetCapacity, NotifyStreamChange | stream tracker (reads its count), import readers | cancellation races a grant; capacity follows a counter nobody locks | slots accounted for, no lost wake-up, FIFO, playback keeps headroom |
| Stream tracker (`api/stream_tracker.go`) | map of streams, atomic counter, history, persistence queue | AddStream, SetCancelFunc, Remove, KillStream, KillStreamsForPlayer, clean-up, Stop | HTTP handlers, budget, database | every operation is several unlocked steps | counter no higher than the map, stopped streams end, history flushed |
| Segment reader (`usenet/usenet_reader.go`, `segment.go`) | range of segments, read position, prefetch index, condition variable | Read, Start, Interrupt, Close, GetBufferedOffset, download manager | NNTP pool, budget, hole hooks, remote file | signals without the lock, lazily created segments, Close under Read | no byte skipped, window kept, Read and Close return |
| Remote file (`nzbfilesystem`) | shared cursor, current reader, closer pool | Read, ReadAt, Seek, Close | reader, metadata, health | readers are reused, given up and closed in the background while reads are interrupted | right bytes, no reader left open |
| Segment cache (`nzbfilesystem/segcache`) | catalog, total size, data files | Get, Put, eviction, expiry, save, load | segment reader | file and catalog change in separate steps | no truncated file is served, sizes add up |
| Metadata and store references (`metadata`, `database/store_ref_repository.go`) | metadata files, shared stores, reference counts, caches of listings | write, delete, rename, hide, list, update | importer, remote file, health | file and count apart after a crash; read-modify-write without a lock | a store outlives its files |
| Import queue (`importer/queue`, `importer/service.go`, `database/*queue*`, queue handlers in `api`) | table of items, worker pool, maps of cancel functions | add, claim, process, finish, retry, restart, cancel, remove, pause, resize, stop, start | processor, post-processor, API | check-then-act requests, crash in the middle, runs outside the pool | one run per item, nothing left in processing, cancel reaches its run |
| Import processor (`importer`) | NZB file, virtual places, written files | ProcessNzbFile and its stages, success and failure tails | metadata, queue, health | partial failure and cancellation between any two writes, two releases in one folder | a completed import is served, a failed one leaves nothing |
| Health worker (`health`) | running flag, loops, active checks, health rows | Start, Stop, cycle, background checks, repair | database, ARRs, metadata | Stop races a cycle, cancel races a result, budgets of retries | Stop returns, verdicts are about the present copy, repairs bounded |
| Library sync (`health/library_sync.go`) | pending orphans, runs | walk, register, clean up | metadata, library, ARRs | walks are not a snapshot; the volume may be away | only what was twice without a link is deleted |
| ARR re-acquire loop (`arrs`, `importer/import_failure.go`) | failure counts, observations of stuck records | report, passes, repair decision | ARRs, importer | external clock, partial failure, restarts | acts after the grace period only, gives up for good |
| Local library (`api/tater_local_library_*`) | index, watcher, pending changes | monitor, scanner, scans on request, artwork | file system, guide | event loss, failed writes, changes of the settings | what was noticed is scanned |
| Tube TV, HLS (`api/tater_tv_*`, `tater_stream_hls.go`) | channels, schedules, encoders and their players | guide requests, rebuilds, starts and ends of encoders | library, FFmpeg, tracker | shared encoders, timeouts, positional numbers | nobody stops what another watches; programs take turns |
| Player API (`api/tater_playback_*`, `stream_handler.go`) | capability reports, plans in URLs | report, plan, serve | prober, encoders | plans are made and used at different times | a plan asks nothing the player did not report |
| NNTP pool manager, metrics; import file system; scanner, watcher, post-processing; progress; configuration manager; remuxer; holes; encryption; ARR set-up; auth; updater; other repositories; frontend | - | - | - | - | not modelled, see below |

They meet in few places: the tracker's counter is read by the budget; the
remote file opens segment readers over metadata and reports failures to health;
the queue's workers run the processor, which writes metadata and health
records; the health worker, the synchronisation and the re-acquire loop delete
or repair what the importer has written; players share encoders.

## Modules

| Module | Models | Checked through | Proofs in |
| --- | --- | --- | --- |
| `AdaptiveSemaphore`, `BoundedSlots` | connection budget; its abstract promise | `MCFiles`, `MCImportQueue` | `AdaptiveSemaphore_proofs` |
| `UsenetReader` | segment reader | `MCUsenetReader` | `UsenetReader_proofs` |
| `StreamTracker` | stream tracker | `MCImportQueue`, `MCStreamTracker` | `StreamTracker_proofs` |
| `PlaybackAdmission` | tracker and budget wired together | `MCImportQueue` | `Playback_proofs` |
| `ImportQueue` | queue, pool, requests | `MCImportQueue`, `MCImports` | `Imports_proofs` |
| `ImportProcessing` | one import from its NZB to its files | `MCImports` | `Imports_proofs` |
| `ReacquireLoop` | failure breaker, stuck-queue clean-up | `MCImports` | `Imports_proofs` |
| `HealthRecord`, `HealthLifecycle` | one record; starting and stopping | `MCHealth` | `Health_proofs` |
| `FileCursor`, `ReaderHandover` | cursors of an open file; closer pool | `MCFiles` | `Files_proofs` |
| `LibraryScan` | library monitor and scanner | `MCFiles` | `Files_proofs` |
| `SegmentCache`, `LibrarySync` | cache; synchronisation run | `MCStorage` | `Storage_proofs` |
| `MetadataStore` | metadata files, stores, counts | `MCStorage` | `Storage_proofs` |
| `PlaybackSessions`, `PlaybackPlan` | encoders; plans | `MCPlayback` | `Playback_proofs` |
| `TubeGuide` | guide of the channels | `MCPlayback` | `Playback_proofs` |

Modules that share no state are checked in one run: an MC module that extends
several of them has a variable `focus` that says which of them a behaviour is
about; the others rest, and their fairness is asked for under that focus only.
Each module also defines faulty variants of its operators, marked as such in
their comments; no specification uses them.

### AdaptiveSemaphore, BoundedSlots

`inFlight` and `waiters` are the fields of `adaptiveSemaphore`; `caller` says
where each goroutine is in Acquire; `signalled` holds the waiters whose channel
was closed. `capacity`, `sourceSet` and `streams` are the budget's view of the
pool and of the tracker; `pendingNotify` counts stream changes that have not
called NotifyStreamChange yet. Acquire is split where the lock is released:
`AcquireSlot` or `Enqueue`, then `TakeGrant`, or `ContextDone` followed by
`UndoGrant` or `LeaveQueue`. Every action that runs `wakeWaitersLocked` contains
it (`Wake`). `BoundedSlots` is the promise: a step that raises the number of
slots in use ends within the limit in force.

### StreamTracker, PlaybackAdmission

The streams map is a set of ids, the counter an integer of its own, because the
code changes them in separate steps: `AddStore`, `AddCount`, `AddNotify`;
`RemoveLoad`, `RemoveArchive`, `RemoveDelete`, `RemoveCount`, `RemoveNotify`.
Handlers (`life`) and outside removers (`todo`: stop requests, clean-up) run
them concurrently. Which streams a stop request or the clean-up matches is left
open. The history is bounded by `HistoryLimit`, the queue to the database by
`QueueLimit`. `PlaybackAdmission` extends the tracker and instantiates the
budget, as `api/server.go` composes them: the budget's `streams` is the
tracker's counter, and the step that ends AddStream or Remove is also the
budget's wake-up.

### UsenetReader

One client reads; Interrupt and Close come from elsewhere. A segment is a
number, its bytes are abstract: what counts is whether it has data, an error,
or was released. `present` are the slots that hold a segment (all of them in
eager mode). The manager's check of the window (`ManagerLock`) and its
`cond.Wait` (`ManagerWait`) are separate steps, because the reader moves
`current` and signals without the manager's lock. GetSegment is two steps
(`Lookup` under the read lock, `Create` under the write lock). A download's
attempts and retries end in one of two steps, `FetchData` or `FetchError`; what
happens between them is seen by nobody. The 30 second deadline of Close is left
out, and so is the nil of createSegmentLocked (`segment.go:100-134`): the loader
has every segment of the range, and each holds a byte of it.

### ImportQueue

`status` is the column of the table, with the values its CHECK constraint
accepts. A row's id is its identity; the same NZB added again after its row was
removed is another item. Workers and background runs (`ProcessItemInBackground`)
move through `at`; `registry` is the manager's map of cancel functions, and the
service's own map has no reader. A request is two steps, `Check` and then the
operation, which is unconditional, with anything in between. `overtaken` is
history: the items on which a request has acted although the row was no longer
as it had been looked at, until the runs of that time are over. `Exit` ends the
process at any point, `Start` resets what was left in processing. Each run may
fail to write its final status (`lostWrite`).

### ImportProcessing

Custody of the NZB (the watched directory, the temporary copy, the failed
folder, the store), the stages of ProcessNzbFile with the checks for
cancellation between them, the choice of virtual places with their numbered
copies, the writes of single, multi-file and archive imports, and the tails of
success and failure; beside them a cancellation, a retry, a stop or a crash of
the server at any step, damaged volumes and failing writes. Left out: STRM
imports, images that are expanded, an external SABnzbd, archive formats over
bytes, the high-water mark of copy numbers. Copy numbers end at `MaxCopy`: a
file for which none is free waits, which TLC would report as a deadlock: with
the three copies of the run none waits, with one it does. `contested` is
history: places where two releases met and the code keeps no order, because
both hands wrote there at one time, or because an archive rolled the whole
folder back and with it what earlier releases had left.

### ReacquireLoop

For one Sonarr or Radarr instance: targets and their downloads, the importer's
report of a failure, the failure tracker with its window, the passes of the
clean-up with grace period and observations, ghosts, packs of several targets,
and the repair's decision; requests to the ARR fail, and the server restarts.
Left out: the worker's start and stop, history synchronisation, foreign
download clients, the 500-record limit of a page, the ARRs without
unmonitoring.

### HealthRecord, HealthLifecycle

`HealthRecord` follows one file's row through cycles and background checks
(prepare, check, side effect, write), repair and cancel requests, deletions,
imports, renames, webhooks, failing streams and restarts of the server.
`copy` numbers the copies of the file, `vouched` the copy a healthy row speaks
of, so that a verdict about an older copy can be told. `HealthLifecycle` models
Start and Stop of the worker and of the synchronisation, the configuration
callbacks under their two locks, and the shutdown.

### FileCursor, ReaderHandover

`FileCursor` is one open virtual file: Seek, Read and ReadAt over a reader that
is opened for a range, read on, skipped forward within `SkipLimit`, limited for
scrubbing, given up and opened again. `wrong` records whether bytes were
delivered that are not those asked for. A client is a record of how it uses the
file (handle or stream, its range header, how many bytes the segments really
hold). `ReaderHandover` follows every reader ever opened from the handle to the
closer pool, to an inline close or to Close itself.

### LibraryScan

File events, the watcher and its pending changes, the debounce timer, the
scanner's loop with its wake-ups, scans asked for by administrators and by the
planner, failed writes, artwork that reads the index and writes it back,
changes of the settings, folders that go away, and restarts. `noticed` holds,
for each category, what of the files the monitor has been told of.

### SegmentCache, LibrarySync, MetadataStore

`SegmentCache`: Get (lookup, read, drop), Put (open, write, rename, enter),
eviction, expiry, save and load of the catalog, Start and Stop of the manager,
crashes, and callers that keep the cache of an older configuration.
`LibrarySync`: a run from its three walks over the judgement of orphans to the
clean-up, beside imports, moves, removals, deletions, repairs, changes of the
settings and of the volume, cancellation and a dry run. `loose` records in
which runs a title had no link for a while. `MetadataStore`: files that refer
to shared stores, their counts in the database, and tasks (import, deletion of
a file or a directory, rename, hide, list, update) that take one step per write
to the disk, the cache or the database; a crash comes between any two.
`allowed` says which operations a behaviour may have. `gapped` is history: the
stores of which a crash came between the write of a file and its count.

### PlaybackSessions, TubeGuide, PlaybackPlan

`PlaybackSessions`: who owns an encoder. Channels are shared by players, titles
have an encoder of their own; binding, replacement, release, failure, idling,
kills, resets and the maintenance of directories are actions of their own.
`TubeGuide`: the numbers of channels, their schedules, extension of the
horizon, the caches in memory and on disk, rebuilds, changes of the
configuration and of the clock. `PlaybackPlan`: the abilities a player reports,
the plan made of them, the URL it travels in, and what the handlers make of
that URL, while settings and encoders change in between. Resolutions are
classes; level and profile are one number; what a player plays and what its
display shows is one set of dynamic ranges; the empty string of the code is
`"none"`; probes succeed.

## Runs

| Run | Question | Outcome |
| --- | --- | --- |
| `reader` | the window is kept, no segment is skipped, every Read returns | holds |
| `queue_claims` | two runs own one item only after a request acted on an outdated look, runs are cancelled only on request; the tracker never counts finished streams, and its notifications suffice for the budget | holds |
| `queue_restart` | do two runs never own one item? | violated: a restart looks at the row, a worker claims it, the restart writes it back to pending, another worker claims it |
| `imports` | nothing stays in processing, nobody shares an item but after an outdated look; the clean-up acts after its grace period and gives up for good; completed imports are served, failed ones leave nothing, NZBs are where their rows say, healthy files stay but in contested places | holds |
| `health` | healthy means the present copy, budgets are kept, loops never overlap, checking ends | holds |
| `health_stop` | does Stop return? | violated: Stop waits for the loop under the lock that the loop needs |
| `files` | bytes are those asked for, calls end; nothing stays open after Close; noticed changes are due and get scanned; slots of the connection budget are accounted for and granted in order, refinement of `BoundedSlots`, every waiter is served | holds |
| `storage` | truncated files need an overlap; a store outlives its files, unless a crash left a file uncounted; only what was twice an orphan is deleted; files in the library keep their records | holds |
| `storage_shared` | does a store outlive its files when a file is deleted with its source? | violated: the source of every file of a release is the store they share |
| `playback` | one playback per player, shared channels play on; programs take turns, scheduled items stay; plans suit the player, pictures are labelled honestly (outside HLS while a planned HEVC encoder is there), plans are served | holds |
| `plan_base` | is the HDR10 base layer played? | violated: the handler refuses the planner's own URL |
| `plan_tonemap` | is HDR tone-mapped when the HEVC encoder has gone? | violated outside HLS: the label becomes SDR and the frames stay HDR, in H.264 |

`PROJECT.json` quotes, for each violated run, the line of the repository that
says otherwise.

### Bounds

* Semaphore: three goroutines (one cancelled, one granted, one behind),
  capacities up to 3, up to two streams and two pending notifications.
* Reader: three segments and a window of two, so that the window is full and
  moves. Tracker: two streams and one outside remover: a stream's handler and
  the remover race, the other stream shows what they do to the counter; limits
  of 1, so that history and queue are full in some states.
* Queue: one item and one client, since every request is about one row; two
  workers and a background run, which can share the item in every pairing, for
  cancellations, retries and restarts (`queue_claims`); one worker, one
  background run, all requests and one restart of the server, which may fall
  anywhere (`imports`). Admission: one stream and its remover against two
  acquirers.
* Imports: one item, one worker, one background run for the queue; one target,
  two downloads, two failures, a grace period and a window of one, one failing
  request and one restart for the loop; two releases whose places collide, two
  parts, up to three copies of a name, one retry and one start for the
  processor, in the cases that `SoundCases` of `MCImports` lists.
* Health: the five sets of requests that `MCHealth` names (each with the cycle
  or with one background check), two retries, one repair, two copies; two
  updaters, two starts of each loop, three changes of the settings.
* Files: a file of 7 bytes, a skip limit of 2 and a scrub limit of 3, reads up
  to 3, so that every comparison is met from both sides; five readers and two
  closers over a channel of two; two categories, four settings, one change each.
* Storage: one segment, two callers; two paths, two stores, two tasks, three
  writes, one crash; one title in its directories beside four others, three
  runs, one import.
* Playback: two players, two channels, one title, two requests, two encoders; a
  horizon of 4 with programs of 1 and 2; three devices, the media and the
  servers that `MCPlayback` names.

Symmetry is used in runs without liveness properties only. Deadlock is checked
except in the runs where every actor may be done and the instance rests
(`health`, `files`, `storage`, `playback` and those of the same
modules).

### Fairness

Weak fairness, and only of steps the runtime or a timeout guarantees: a
goroutine that can run does, a download attempt ends, a ticker ticks, a stopped
server exits and is started again, a scheduled scan starts. The lock of a
remote file is taken under strong fairness: Go's mutex hands itself to a waiter
that starves. Clients owe nothing: nobody has to read, close, stop a stream,
add an item, ask for a scan or make a request; nor do the ARRs.

## Proofs

Theorems hold for every value of the constants that satisfies the named
assumption of its module. Each rests on an inductive invariant; TLC has
checked the properties, and the invariants it can evaluate, on the runs'
instances before. The proofs follow one pattern: the
invariant is a conjunction of named parts, one lemma per action or group of
actions shows that it keeps all parts, a lemma puts the steps together, and a
theorem takes the invariant through `PTL`; the properties follow from it.

| Module | Theorems | The invariant says |
| --- | --- | --- |
| `AdaptiveSemaphore_proofs` | `SlotsAccountedFor`, `QueueIsExact`, `NoLostWakeup`, `ImportsKeepOneSlot`, `GrantsFollowTheQueue`, `SemaphoreImplementsBoundedSlots`, `TypeCorrect` | exact accounting; the queue lists exactly the callers that wait without a grant; nobody waits while a slot is free and no notification is due |
| `UsenetReader_proofs` | `WorkIsBounded`, `NothingIsSkipped`, `TypeCorrect` | segments are scheduled once, the reader is behind the manager, fetches lie ahead of the reader, released segments have errors, an opened segment was fetched |
| `StreamTracker_proofs` | `FinishedStreamsAreNotCounted`, `TypeCorrect` | the counter is at most the map, less what is stored and not counted, and more only by what is deleted and not counted off |
| `Imports_proofs` | `CancelledWereAsked`, `ProcessingHasARun`, `NoTwoRunsOfAnItem`, `TypeCorrect`; `ActedOnAfterTheGracePeriod`, `LoopTypeCorrect`; `WaitingImportsHaveTheirNzb`; `HealthyFilesAreLeft`, `CompletedImportsAreServed`, `FailedImportsLeaveNothing`, `ProcessingTypeCorrect` | who owns a row in each place of a run, which runs are registered, what a restart and a crash leave; what a pass has seen of a record and since when; where an NZB is and what its row says at each step of the run that has it; what a run has due, reserved and written at each stage, whose each file is, and who answers for the files of an import that is not completed |
| `Health_proofs` | `CyclesNeverOverlap`; `HealthyIsAboutTheCopy`, `BudgetIsNeverOverdrawn`, `RetriesNeverExceed`; type correctness of both | which loops can run beside the flag and the lock; what the cycle's job holds at each of its places, and what the row still owes to it |
| `Files_proofs` | `CloseLeavesNothingOpen`; `ClientsGetTheirBytes`, `CursorIsTheReaders`; `NoticedAreDue`; type correctness of all three | each reader is in exactly one place; where cursor, offset and reader stand; a noticed change is pending, queued, taken or in the index |
| `Storage_proofs` | `DataFilesAreTruncatedOnlyByOverlap`; `RecordsOfLibraryFilesStay`, `OnlyTwiceOrphanedIsDeleted`, `SyncTypeCorrect`; `StoresOutliveTheirFiles`, `CountsCover` | who has which data file open; what walks made one after the other must have seen of a title that was there all the time; the count of a store and its uncounted files cover its files, its hidden files and the counts still to be taken off |
| `Playback_proofs` | `OnePlaybackAtATime`, `RunningEncodersAreKnown`, `OthersKeepTheirChannel`, `SessionsTypeCorrect`; `NobodyWaitsForHeadroomGivenBack`, `IdlePoolIsOpenToImports`; `EveryPlanSuits`, `EveryPictureIsHonest`, `EveryPlanIsServed`, `PlansTypeCorrect`; `LineupsStay`, `ChannelsTakeTurns`, `CustomChannelsAlternate` | the managers' maps know every running encoder and what each request has seen is still so; tracker and budget keep their own invariants; a plan suits its player, its query means the same to every server, and what is served is made of it; each channel's rows are what decks of its programs have drawn, and a restart that falls into no reset finds the guide on disk |

Why the invariants are needed, and what the theorems assume:

* *Semaphore.* Accounting alone is not inductive: taking a grant or undoing one
  keeps it only because a granted waiter has left the queue, which is the second
  part; the last part needs the first two, for the wake-up to hand out exactly
  the free slots.
* *Reader.* `WorkStaysInWindow` speaks of fetches and data; a step of the
  manager keeps it only because the reader is behind it and nothing is
  scheduled twice.
* *Queue.* Two runs can own one item, since requests look and act in two steps;
  the run `queue_restart` shows it. `NoTwoRunsOfAnItem` says that nothing else
  brings it about: not claims, crashes, restarts of the server, resizing or late
  writes. For that the invariant keeps that the row of an item which a run owns
  says processing, or is gone, unless the item is `overtaken`: only a pending
  row is claimed.
* *Health.* `HealthyIsAboutTheCopy` and the budgets hold as the properties state
  them, where only cycles check: a background check overtakes the guard of the
  bulk update.
* *Files.* `ClientsGetTheirBytes` is about clients that are served as they ask
  (`Honoured`): a range header that is honoured and ends within the file, and
  segments that hold what was declared. `MCFiles` assumes as much of its
  `PlainClients` (`PlainClientsAreServed`), and the clients for which it fails
  are the disagreements listed below. `NoticedAreDue` excludes, as the property
  does, scenes with changed settings, artwork and folders that go away.
* *Re-acquire loop.* `ActedOnAfterTheGracePeriod` needs of a pass that no
  observation is older than the record it is about: the targets of a download
  are forgotten with its record. `ReacquireConstants` asks for packs that are
  not empty.
* *Custody.* `WaitingImportsHaveTheirNzb` is about a server that does not stop
  or crash, and retries that wait for the end of the run they follow (`Calm` in
  the proof, as the property has it). Any failure, cancellation, damaged volume
  and number of retries is covered, and two releases in one folder.
* *Files of imports.* `RunInv` (`RunInvariant`) holds in every case and bound:
  what a hand has due, reserved and written fits its stage, one hand is at work
  on an import and its row says so, and every file is in the folder of the
  release that wrote it. `HealthyFilesAreLeft` is for every case, with the
  exception that the property names: contested places. What a hand has reserved
  holds no healthy file and what it is to take back is its own or nobody's,
  unless another hand is after the same place (`Heeds`, `HandsHeed`). With two
  hands on one folder both find a place free and the second overwrites the
  first; an archive notes the whole folder for its roll-back and takes what an
  earlier release left there, though `importer/service.go:1244-1247` says that
  the records of a prior success stay. `CompletedFilesStay` is the property
  without the exception, and is violated. The other two properties need a case
  in which they hold. `CompletedImportsAreServed` is for cases that are
  `Lasting`: releases that have a folder each, or one run at a time without
  archives (`Alone`), and a file that can break is replaced only by files of its
  own name. An obfuscated release whose files all take one name loses a broken
  part to another one. The invariant follows each part from the list of what is
  due to its file (`PartsAreKept`). `FailedImportsLeaveNothing` is for cases
  that are `Tidy`. As the property has it the server is not stopped, and does
  not crash where runs are cancelled; where it crashes, all releases are
  archives and retries are not hasty. Each file of an import is accounted for:
  the import is completed, the file is on the list of the hand that takes it
  back, or the next run gets to the folder and notes it whole (`Accounted`), for
  which a crash must leave row and NZB in the queue folder
  (`RunsReachTheirFiles`). A release that is no archive is written beside what a
  crash left of it, under the next number, and the roll-back of that second run
  does not know the first copy: TLC shows it to stay.
* *Storage.* The theorems about the synchronisation assume `VolumeCounts`: the
  volume stays, or its absence makes more than a fifth of the titles orphans, so
  that the clean-up is refused; without it a title that is linked in both
  directories loses its record while the volume is away. That orphans were
  loose twice also needs `RunsAreAlone`: no dry run and no import during a run,
  each of which TLC finds to break it.
* *Metadata.* `CarefulUse` names what the service leaves to its callers: tasks
  that touch one path do not overlap, an import is neither repeated nor its
  files deleted before it ends, and the source is deleted for releases of one
  file only. Each exception has an instance in `MCStorage` that violates the
  property. Crashes at every point, shared stores, directories, renames and
  hidden files are covered; one outcome is excepted in the properties
  themselves: a store of which a crash came between the write of a file and its
  count (`gapped`, `metadata/service.go:277-283`) counts less than it has, and
  goes with its last file but one. `CrashesSpareStores` says that it does not,
  and is violated.

* *Sessions.* That one player has one encoder at a time holds between the steps
  of a request too, because a request for a channel removes the player's titles
  before it binds the channel, and one for a title unbinds the channel first;
  `OneAtATime` says where in a request which of them is gone. It is for requests
  of one player that follow each other. `SessionsAssumption` keeps names apart.
* *Admission.* A step of the composition is one of the tracker, of the budget or
  of both; what the tracker has not notified yet is what the budget counts as
  due. The rest is the two parts' own lemmas, taken by `INSTANCE`.
* *Plans.* What a player is served depends on a server that has changed since
  the plan, so the invariant cannot speak of the server: it says what the
  plan's query means (`QueryMeans`) to any of them. `Known` asks that a player
  claims HDR only if it is one of the TV players whose HDR path the server knows
  (`HDRLinux` in `MCPlayback` breaks the property without it), and that a probe
  reports a Dolby Vision profile if and only if the range is Dolby Vision.
  `Contained` asks that a title is no playlist, which the handler would refuse,
  and that a player's container is one that `cleanTaterPreferredStreamContainer`
  yields. The players and titles of `MCPlayback` satisfy both.
  `EveryPictureIsHonest` covers every change of the server over HLS. Outside HLS
  it does not speak of a plan of HEVC that meets a server without an HEVC
  encoder: there `api/stream_handler.go:820-823` takes the label back and leaves
  the frames HDR, which the run `plan_tonemap` shows.
* *Guide.* A deck is filled anew from the rows at every extension, with the
  programs that the library has then; so the invariant (`Fair`) speaks of the
  rows alone: what the deck of each library's programs would make of them. If of
  two libraries one has all programs of the channel that the other has
  (`Nested`), the cycles of the smaller pool and of the larger go together
  (`InStep`), and the programs that no library misses play in turn. Without that
  they need not: see `SwappedLibraries` below. That none of them comes twice in a
  row (`CustomChannelsAlternate`) needs no such assumption. `LineupsStay` asks
  that numbers do not depend on the other sources (`LineupIsSteady`) and that no
  restart falls into a reset (`RestartsAlone`): a guide that a request has read
  between the reset of the memory and that of the file is in memory only.
  `MCPlayback` assumes of its instance what the theorems suppose. What replayed
  rows and drafts are is defined by recursive functions; that these exist is
  proved by induction with a set of numbers (`StepByStep`, `RecursionExists`).

Only model-checked:

* liveness (`EveryWaiterServed`, `ReadsReturn`, `CancelledStreamsEnd`,
  `ProcessingEnds`, `FailedImportsAreGivenUp`, `CheckingEnds`, `FileCallsEnd`,
  `ChangesAreScanned`), which the prover does not cover, nor `ENABLED`;
* what the cache's catalog adds up to (`CacheTypeOK`,
  `SizeDriftsOnlyByFailedReads`), and the numbers of the guide's channels, which
  count and sort sets (`GuideTypeOK`).

## Disagreements found, and instances kept for reference

TLC finds each property below violated. The first are configurations of their
own, the others are defined in the named module and are looked at with the
run's configuration changed as stated.

* `AdaptiveSemaphore_overtaking.cfg` (`NoOvertaking`): between a stream's end
  and its notification a fresh caller passes the queued ones.
* `PlaybackAdmission_headroom.cfg` (`PlaybackKeepsHeadroom`),
  `StreamTracker_count.cfg` (`ActiveCountExact`): a stream that is removed twice
  is counted down twice, and imports take a playback's connections.
* `StreamTracker_orphan.cfg` (`ServedAreTracked`): a stop request before
  SetCancelFunc leaves a stream that is served and not tracked.
* `UsenetReader_window.cfg` (`AdvanceWakesManager`): with a window of one the
  signal falls between the manager's check and its wait, and the Read hangs; the
  run's window is two.
  `UsenetReader_panic.cfg` (`ReadsSurviveClose`): Close clears the range between
  the halves of GetSegment. `UsenetReader_eof.cfg` (`EofMeansEnd`): a Read over
  a closed reader reports the end of the file. `CloseDrainsDownloads` in
  `UsenetReader_sound.cfg`: Close returns over running downloads.
* In `Imports_sound.cfg`: `CancelReachesRun`, `RetryUsesThePool`,
  `PauseTakesEffect`, `DeleteSparesProcessing`.
* `Files_close.cfg` (`FileCloseReturns`): a closer that is scheduled after Close
  has cleared the channel's field waits on nothing. In `Files_sound.cfg`:
  `HandedOverAreInterrupted`, `CloseHasInterrupted`, `FingerprintCovers`; with
  `Clients <- PastTheEnd` `CallersStayInsideFile`; with `MixedUse` or
  `RangeNotHonoured` `BytesAreThoseAsked`; with `ShortSegment` `FileCallsEnd`.
* `Health_sound.cfg`: `OneSyncLoop`, `SettingIsFollowed`,
  `StaleVerdictsAreHarmless`; `CheckingEnds` without its exception for writes
  that fail, among them the return to pending after the ten minutes of a
  background check, which is written with an expired context
  (`health/worker.go:357`, `377`).
* `Storage_sound.cfg`: `CachedFilesAreWhole`, `TotalIsOccupied`,
  `StopSavesCatalog`; `CrashesSpareStores`: a crash between the write of a file
  and its count (`metadata/service.go:277-283`) lets an earlier deletion remove
  the store; `StoreOutlivesFiles` with `Scenarios <- Overlapping`,
  `DuringImport`, `SecondImport`; `HolesAreKept` with
  `UpdatesOverlap`; `OrphansWereLooseTwice` with `Situations <- DryRuns`, and
  with `ImportsDuringRuns` and `MaxImports = 2`.
* `Imports_sound.cfg`: `CompletedFilesStay`: an archive that fails removes the
  folder with the files of an earlier release; `CompletedAreServed` with two
  archives and two hands on one folder, which the cases leave out;
  `FailedImportsCanBeRetried` with
  `Cases <- StoppedCases` (a stopped server leaves a failed row without an NZB),
  `CancelledAreNotCounted`, `SparedRecordsHaveFiles`; `ImportsKeepTheirNzb`
  without its condition on hasty retries: a retry before the failed run is over
  takes the file up again, the end of that run moves it away, and row and file
  part (`importer/service.go:561-604`, `1312-1375`);
  `FailedImportsAreCounted` (the row says failed before the breaker looks),
  `GhostsAreGoneForTheWindow`, and `StuckTargetsAreGivenUp` with two targets in
  one pack and `MaxFailures = 1`, `Grace = 0`, `MaxErrors = 0`,
  `MaxReboots = 0`.
* `Playback_sound.cfg`: `ChannelsAreWatched`, `LiveRootsAreKept`,
  `StoppedAreUntracked`, `IdleTitlesGo`, `RebuildTakesEffect`;
  `EstablishedLineupStays` with `Libraries <- ShiftingLibraries`: a source that
  comes or goes shifts the numbers of those behind it, and a channel whose
  number moves loses its schedule (the run's libraries keep every number);
  `ProgramsTakeTurns` with `Libraries <- SwappedLibraries`, `Break = 0`,
  `Horizon = 2`, `MaxTime = 8`: as programs are swapped for one another the
  replayed schedule starts new cycles, and one that is always there is passed
  over; `PlansSuitThePlayer` with `Devices <- HDRLinux`.

Met while modelling, and outside the properties: a realtime-only library loses
what events and restarts lose; artwork puts a stale index back; a guide request
that holds an older configuration overwrites the newer guide, and the guide
grows without bound; direct plans never clean a URL that carries a plan
already; a failed import of a bare ISO does not remove what it wrote; a release
can be counted twice when its deletion fails; IncStoreRef's error is ignored;
renaming over a file does not count its old store down; bulk removal leaves the
NZB files on disk.

TLC also finds these to hold, and they are not among the runs' properties: the
modules' type invariants, `QueueMatchesCallers`, `OneSlotStaysOpen`,
`IdlePoolIsOpen`, `ReleasedHoldsNoData`, `CancelledStreamsEnd` (with
`StreamTracker_sound.cfg`), `CloseReturns`, `StopFlushesQueue`,
`SweptStreamsEnd`, `RescansAreCharged`, `RetriesAreBounded`,
`RunningSyncHasLoop`, `SharedCursorIsReaders`, `OneReaderDownloads`,
`SizeDriftsOnlyByFailedReads`, `CountsCoverFiles`, `ListingIsCurrent`,
`EncodersAreKnown`, `IdleEncodersEnd`, `CloseEnds`, `ServedGuideReachesNow`.

## Not modelled

The components marked `not_modelled` in `PROJECT.json`, with the reason there:
byte formats (remuxer, encryption, archives, yEnc), configuration, HTTP and
external services, set-up, authentication, updates and the user interfaces,
which are sequential and driven by data; and the NNTP pool manager, the
progress broadcaster, the watcher and post-processing of imports and the
classification of holes, which are smaller concurrent parts left for later.
Measured in lines the map covers about a seventh of the implementation: most of
it is formats, handlers that translate requests, and configuration.

## Plan

1. Models of `PoolManager` (SetProviders and ClearPool against users of an old
   client), the progress broadcaster (bounded subscribers, late updates), play
   state, the callbacks of the configuration manager, and holes as an algorithm
   against a set-based definition.
2. The rest of the importer: ISO expansion, STRM, the fallback transfer.
