---------------------------- MODULE ReacquireLoop ----------------------------
(***************************************************************************)
(* The circuit breaker that ends the loop "an *arr grabs a release, the    *)
(* import fails, the *arr grabs the next one": the failure counts          *)
(* (internal/arrs/failures), the importer's report of a failed download    *)
(* (internal/arrs/worker/import_failure.go), the periodic clean-up of      *)
(* stuck queue records (stuck_cleanup.go, worker.go) and the repair of a   *)
(* broken library file (internal/arrs/scanner).                            *)
(*                                                                         *)
(* One Sonarr or Radarr instance is modelled as its API is used: it grabs  *)
(* releases for monitored targets without a file, lists a record for each  *)
(* target of a download, imports, gives up or flags the download by its    *)
(* own clock, and between any two requests.  Removing one record removes   *)
(* its siblings.  A download is a member of Downloads; one that nothing    *)
(* refers to any more may be grabbed again as another release.             *)
(***************************************************************************)
EXTENDS Integers, FiniteSets

CONSTANTS
    Targets,       \* movies or episodes
    Packs,         \* the sets of targets one release may cover
    Downloads,     \* downloads in the *arr's queue
    MaxFailures,   \* arrs.queue_cleanup_max_failures
    Grace,         \* arrs.queue_cleanup_grace_period_minutes, in ticks
    Window,        \* ghostObservationWindow, in ticks
    MaxErrors,     \* bound on failing requests
    MaxReboots    \* bound on restarts of the server

ASSUME ReacquireConstants ==
    /\ Packs \subseteq (SUBSET Targets) \ {{}}
    /\ MaxFailures \in Nat \ {0}
    /\ {Grace, Window, MaxErrors, MaxReboots} \subseteq Nat

NoDownload == "none"
NotSeen == -1

Ages == NotSeen..(IF Grace > Window THEN Grace ELSE Window)

VARIABLES
    dead,       \* targets of which no release can be imported
    monitored,  \* targets the *arr looks for
    library,    \* targets with a file in the library
    record,     \* the download that each target's queue record belongs to
    stage,      \* how far each download is
    missing,    \* downloads whose output path does not exist
    counts,     \* Tracker.counts, up to the limit
    stuckSince, \* firstSeen["stuck|..."] of each record, as an age
    goneSince,  \* firstSeen["ghost|..."] of each record
    eased,      \* records found not stuck since their grace period began
    returned,   \* records whose path was there since their window began
    pass,       \* the clean-up: items still to look at, actions to take
    importer,   \* HandleImportFailure of a failed download
    repair,     \* the target whose broken file the health worker replaces
    errors,
    reboots

arrVars == <<dead, monitored, library, record, stage, missing>>
workerVars == <<stuckSince, goneSince, eased, returned, pass>>
boundVars == <<errors, reboots>>
serverVars == <<workerVars, importer, repair>>
reacquireVars == <<arrVars, counts, serverVars, boundVars>>

NoTarget == "none"
NoPass == [items |-> {}, actions |-> {}, unmonitor |-> {}]
NoFailure == [download |-> NoDownload, at |-> "none", giveUp |-> {}]

(* Of which targets the download has a record in the queue.                *)
Covered(d) == {t \in Targets : record[t] = d}

(* Nothing refers to the download, here or in the *arr.                    *)
Unused(d) ==
    /\ Covered(d) = {}
    /\ \A i \in pass.items \cup pass.actions : i.download # d
    /\ importer.download # d

ReacquireInit ==
    /\ dead \in SUBSET Targets
    /\ monitored = Targets
    /\ library = {}
    /\ record = [t \in Targets |-> NoDownload]
    /\ stage = [d \in Downloads |-> "over"]
    /\ missing = {}
    /\ counts = [t \in Targets |-> 0]
    /\ stuckSince = [t \in Targets |-> NotSeen]
    /\ goneSince = stuckSince
    /\ eased = {} /\ returned = {}
    /\ pass = NoPass
    /\ importer = NoFailure
    /\ repair = NoTarget
    /\ errors = 0
    /\ reboots = 0

Fails == errors < MaxErrors /\ errors' = errors + 1
Works == UNCHANGED errors

----------------------------------------------------------------------------
(* The *arr and the file system.                                           *)

Becomes(d, s) == stage' = [stage EXCEPT ![d] = s]

NewRecords(P, ages) == [t \in Targets |-> IF t \in P THEN NotSeen ELSE ages[t]]

Without(D) == [t \in Targets |-> IF record[t] \in D THEN NoDownload ELSE record[t]]

(* The records of the downloads leave the queue; of an imported one the    *)
(* history remains.                                                        *)
Forget(D) ==
    /\ record' = Without(D)
    /\ stage' = [d \in Downloads |->
                   IF d \in D /\ stage[d] # "imported" THEN "over" ELSE stage[d]]
    /\ missing' = missing \ D

(* A release is found for a target that is monitored and has no file; the  *)
(* new records have ids of their own.                                      *)
Grab(P, d) ==
    /\ P \cap (monitored \ library) # {}
    /\ \A t \in P : record[t] = NoDownload
    /\ Unused(d)
    /\ record' = [t \in Targets |-> IF t \in P THEN d ELSE record[t]]
    /\ Becomes(d, "loading")
    /\ missing' = missing \ {d}
    /\ stuckSince' = NewRecords(P, stuckSince)
    /\ goneSince' = NewRecords(P, goneSince)
    /\ eased' = eased \ P /\ returned' = returned \ P
    /\ UNCHANGED <<dead, monitored, library, counts, pass, importer, repair, boundVars>>

(* The server has the files of the download.                               *)
Downloaded(d) ==
    /\ stage[d] = "loading"
    /\ Becomes(d, "waiting")
    /\ UNCHANGED <<dead, monitored, library, record, missing, counts, serverVars,
                   boundVars>>

(* The *arr cannot import what it finds, or can after all.                 *)
Flag(d) ==
    /\ \/ stage[d] = "waiting" /\ Becomes(d, "stuck")
       \/ stage[d] = "stuck" /\ Becomes(d, "waiting")
    /\ UNCHANGED <<dead, monitored, library, record, missing, counts, serverVars,
                   boundVars>>

PathChanges(d) ==
    /\ Covered(d) # {} /\ stage[d] \in {"waiting", "stuck", "imported"}
    /\ missing' = IF d \in missing THEN missing \ {d} ELSE missing \cup {d}
    /\ UNCHANGED <<dead, monitored, library, record, stage, counts, serverVars,
                   boundVars>>

(* The *arr moves the files into the library, as its webhook reports; the  *)
(* records go, or stay behind as ghosts.                                   *)
Import(d) ==
    /\ stage[d] = "waiting" /\ Covered(d) \cap dead = {} /\ Covered(d) # {}
    /\ library' = library \cup Covered(d)
    /\ Becomes(d, "imported")
    /\ record' \in {record, Without({d})}
    /\ UNCHANGED <<dead, monitored, missing, counts, serverVars, boundVars>>

(* The *arr asks the SABnzbd interface for failed downloads, takes them    *)
(* off its queue and looks for other releases.                             *)
Poll ==
    /\ Forget({d \in Downloads : stage[d] = "failed"})
    /\ record' # record
    /\ UNCHANGED <<dead, monitored, library, counts, serverVars, boundVars>>

----------------------------------------------------------------------------
(* The count of failures.                                                  *)

Bump(T) ==
    counts' = [t \in Targets |-> IF t \in T /\ counts[t] < MaxFailures
                                 THEN counts[t] + 1 ELSE counts[t]]

AtLimit(T) == {t \in T : counts'[t] >= MaxFailures}

----------------------------------------------------------------------------
(* HandleImportFailure, in the goroutine of the import that failed.        *)

(* The row says "failed", for the *arr to see, before the breaker runs.    *)
(* Cancelled imports and those handed to a fallback do not get here.       *)
ImportFails(d) ==
    /\ stage[d] = "loading" /\ importer = NoFailure
    /\ Becomes(d, "failed")
    /\ importer' = [download |-> d, at |-> "told", giveUp |-> {}]
    /\ UNCHANGED <<dead, monitored, library, record, missing, counts, workerVars,
                   repair, boundVars>>

(* The queue is fetched and every target with a record of the download is  *)
(* counted; nothing is when the records are gone or the request fails.     *)
CountFailure ==
    LET T == Covered(importer.download)
    IN /\ importer.at = "told"
       /\ \/ /\ Works
             /\ Bump(T)
             /\ importer' = IF AtLimit(T) = {} THEN NoFailure
                            ELSE [importer EXCEPT !.at = "unmonitor",
                                                  !.giveUp = AtLimit(T)]
          \/ /\ Fails
             /\ importer' = NoFailure
             /\ UNCHANGED counts
       /\ UNCHANGED <<arrVars, workerVars, repair, reboots>>

(* Faulty variant: only of what is still in the queue, as in the clean-up. *)
UnmonitorListed ==
    /\ importer.at = "unmonitor"
    /\ importer' = [importer EXCEPT !.at = "delete"]
    /\ \/ Works /\ monitored' = IF Covered(importer.download) = {} THEN monitored
                                 ELSE monitored \ importer.giveUp
       \/ Fails /\ UNCHANGED monitored
    /\ UNCHANGED <<dead, library, record, stage, missing, counts, workerVars, repair,
                   reboots>>

(* Before the queue is touched: the deletion may come too late.            *)
UnmonitorFirst ==
    /\ importer.at = "unmonitor"
    /\ importer' = [importer EXCEPT !.at = "delete"]
    /\ \/ Works /\ monitored' = monitored \ importer.giveUp
       \/ Fails /\ UNCHANGED monitored
    /\ UNCHANGED <<dead, library, record, stage, missing, counts, workerVars, repair,
                   reboots>>

DeleteFailed ==
    /\ importer.at = "delete"
    /\ importer' = NoFailure
    /\ \/ Works /\ Forget({importer.download})
       \/ Fails /\ UNCHANGED <<record, stage, missing>>
    /\ UNCHANGED <<dead, monitored, library, counts, workerVars, repair, reboots>>

----------------------------------------------------------------------------
(* CleanupStuckQueue: the queue is fetched, every item is looked at, and   *)
(* then the selected ones are deleted one by one.                          *)

PassBegins ==
    /\ pass = NoPass
    /\ LET listed == {t \in Targets : record[t] # NoDownload}
       IN /\ listed # {}
          /\ pass' = [NoPass EXCEPT !.items =
                        {[target |-> t, download |-> record[t],
                          stuck |-> stage[record[t]] = "stuck"] : t \in listed}]
    /\ UNCHANGED <<arrVars, counts, stuckSince, goneSince, eased, returned,
                   importer, repair, boundVars>>

(* The clean-up's tracking is keyed by record: what it notes about one     *)
(* that is gone concerns no other.                                         *)
Note(i, ages, a) ==
    IF record[i.target] = i.download THEN [ages EXCEPT ![i.target] = a] ELSE ages

Age(i, ages) ==
    IF record[i.target] = i.download THEN ages[i.target] ELSE NotSeen

Selected(i, giveUp) ==
    [target |-> i.target, download |-> i.download, giveUp |-> giveUp]

Leaves(i) == pass.items \ {i}

(* checkGhostByImportHistory: the file is in the library.                  *)
GhostByHistory(i) == stage[i.download] = "imported"

(* isGhostByPathGone.  The time of a path that came back is kept.          *)
GhostByPath(i) ==
    i.download \in missing /\ Age(i, goneSince) >= Window

SelectGhost(i) ==
    /\ i \in pass.items
    /\ GhostByHistory(i) \/ GhostByPath(i)
    /\ counts' = IF GhostByHistory(i) THEN [counts EXCEPT ![i.target] = 0] ELSE counts
    /\ pass' = [pass EXCEPT !.items = Leaves(i),
                            !.actions = @ \cup {Selected(i, FALSE)}]
    /\ stuckSince' = Note(i, stuckSince, NotSeen)
    /\ goneSince' = IF GhostByHistory(i) THEN goneSince
                    ELSE Note(i, goneSince, NotSeen)
    /\ eased' = eased \ {i.target}
    /\ returned' = returned \ {i.target}
    /\ UNCHANGED <<arrVars, importer, repair, boundVars>>

(* Faulty variant: the grace period of a record that recovers goes on.     *)
ForgetsActed(i, acts) == acts

(* clearFirstSeen: of a record that no rule matches, or that is acted on.  *)
Forgets(i, acts) == ~i.stuck \/ acts

(* The message rules, for what is no ghost: the grace period begins, is    *)
(* over, or the record is not stuck.                                       *)
SelectByRule(i) ==
    LET begins == i.stuck /\ Grace > 0 /\ Age(i, stuckSince) = NotSeen
        acts == i.stuck /\ (Grace = 0 \/ Age(i, stuckSince) >= Grace)
    IN /\ i \in pass.items
       /\ ~(GhostByHistory(i) \/ GhostByPath(i))
       /\ IF acts THEN Bump({i.target}) ELSE UNCHANGED counts
       /\ pass' = [pass EXCEPT
                     !.items = Leaves(i),
                     !.actions = IF acts
                                 THEN @ \cup {Selected(i, AtLimit({i.target}) # {})}
                                 ELSE @]
       /\ stuckSince' = IF begins THEN Note(i, stuckSince, 0)
                        ELSE IF Forgets(i, acts) THEN Note(i, stuckSince, NotSeen)
                        ELSE stuckSince
       /\ goneSince' = IF i.download \in missing /\ Age(i, goneSince) = NotSeen
                       THEN Note(i, goneSince, 0) ELSE goneSince
       /\ eased' = IF stuckSince'[i.target] = NotSeen THEN eased \ {i.target}
                   ELSE IF i.stuck THEN eased ELSE eased \cup {i.target}
       /\ returned' = IF Age(i, goneSince) = NotSeen \/ i.download \in missing
                      THEN returned ELSE returned \cup {i.target}
       /\ UNCHANGED <<arrVars, importer, repair, boundVars>>

(* deleteStarrQueue: siblings go with the record.  Only a deletion that    *)
(* succeeds is followed by the unmonitoring: a record that is not there    *)
(* any more, or a failing request, ends the item.                          *)
DeleteSelected(a) ==
    /\ pass.items = {} /\ pass.unmonitor = {}
    /\ a \in pass.actions
    /\ \/ /\ record[a.target] = a.download
          /\ Works
          /\ Forget({a.download})
          /\ pass' = [pass EXCEPT !.actions = @ \ {a},
                                  !.unmonitor = IF a.giveUp THEN {a.target} ELSE {}]
       \/ /\ (record[a.target] # a.download /\ Works) \/ Fails
          /\ pass' = [pass EXCEPT !.actions = @ \ {a}]
          /\ UNCHANGED <<record, stage, missing>>
    /\ UNCHANGED <<dead, monitored, library, counts, stuckSince,
                   goneSince, eased, returned, importer, repair, reboots>>

UnmonitorSelected ==
    /\ pass.unmonitor # {}
    /\ pass' = [pass EXCEPT !.unmonitor = {}]
    /\ \/ Works /\ monitored' = monitored \ pass.unmonitor
       \/ Fails /\ UNCHANGED monitored
    /\ UNCHANGED <<dead, library, record, stage, missing, counts, stuckSince,
                   goneSince, eased, returned, importer, repair, reboots>>

----------------------------------------------------------------------------
(* The health worker's repair of a library file: the *arr's file is        *)
(* deleted, then the breaker decides between a search and giving up.  Of a *)
(* path the library does not have the queue record is failed, uncounted.   *)

RepairDeletes(t) ==
    /\ repair = NoTarget /\ t \in library
    /\ repair' = t
    /\ \/ Works /\ library' = library \ {t}
       \/ Fails /\ UNCHANGED library
    /\ UNCHANGED <<dead, monitored, record, stage, missing, counts, workerVars,
                   importer, reboots>>

RepairDecides ==
    /\ repair # NoTarget
    /\ repair' = NoTarget
    /\ Bump({repair})
    /\ \/ Works /\ monitored' = monitored \ AtLimit({repair})
       \/ Fails /\ UNCHANGED monitored
    /\ UNCHANGED <<dead, library, record, stage, missing, workerVars, importer,
                   reboots>>

RepairFromQueue(d) ==
    /\ repair = NoTarget
    /\ Covered(d) # {} /\ Covered(d) \cap library = {}
    /\ stage[d] \in {"waiting", "stuck"}
    /\ Forget({d})
    /\ UNCHANGED <<dead, monitored, library, counts, serverVars, boundVars>>

----------------------------------------------------------------------------
Older(ages, limit) ==
    [t \in Targets |-> IF ages[t] \in 0..(limit - 1) THEN ages[t] + 1 ELSE ages[t]]

TimePasses ==
    /\ stuckSince' = Older(stuckSince, Grace)
    /\ goneSince' = Older(goneSince, Window)
    /\ UNCHANGED <<arrVars, counts, eased, returned, pass, importer, repair,
                   boundVars>>

(* Counts and observations are kept in memory only.                        *)
ServerRestarts ==
    /\ reboots < MaxReboots /\ reboots' = reboots + 1
    /\ counts' = [t \in Targets |-> 0]
    /\ stuckSince' = [t \in Targets |-> NotSeen]
    /\ goneSince' = stuckSince' /\ eased' = {} /\ returned' = {}
    /\ pass' = NoPass /\ importer' = NoFailure /\ repair' = NoTarget
    /\ UNCHANGED <<arrVars, errors>>

ArrStep ==
    \/ \E d \in Downloads :
         \/ \E P \in Packs : Grab(P, d)
         \/ Flag(d) \/ PathChanges(d) \/ Import(d)
    \/ Poll

ImporterStep == CountFailure \/ UnmonitorFirst \/ DeleteFailed

PassStep ==
    \/ \E i \in pass.items : SelectGhost(i) \/ SelectByRule(i)
    \/ \E a \in pass.actions : DeleteSelected(a)
    \/ UnmonitorSelected

ReacquireNext ==
    \/ ArrStep
    \/ \E d \in Downloads : Downloaded(d) \/ ImportFails(d)
    \/ ImporterStep
    \/ PassBegins \/ PassStep
    \/ \E t \in library : RepairDeletes(t)
    \/ \E d \in Downloads : RepairFromQueue(d)
    \/ RepairDecides
    \/ TimePasses \/ ServerRestarts

ReacquireSpec == ReacquireInit /\ [][ReacquireNext]_reacquireVars

(* The server's goroutines go on; the *arr and its indexers owe nothing.   *)
ReacquireFairSpec == ReacquireSpec /\ WF_reacquireVars(ImporterStep) /\ WF_reacquireVars(PassStep)

----------------------------------------------------------------------------
(* The variables keep their types.                                         *)
ReacquireTypeOK ==
    /\ monitored \subseteq Targets /\ library \subseteq Targets
    /\ record \in [Targets -> Downloads \cup {NoDownload}]
    /\ missing \subseteq Downloads
    /\ counts \in [Targets -> 0..MaxFailures]
    /\ stuckSince \in [Targets -> Ages] /\ goneSince \in [Targets -> Ages]

(* "An item is only acted on after it has been continuously observed stuck *)
(* for the configured grace period" (stuck_cleanup.go:45): no pass since   *)
(* the period began has found the record otherwise.                        *)
ActsAfterGrace ==
    [][\A i \in pass.items :
         SelectByRule(i) /\ pass'.actions # pass.actions
           => i.target \notin eased]_reacquireVars

(* The re-grab loop ends: a target that cannot be imported, and whose      *)
(* failed imports are counted again and again, is not monitored any more   *)
(* at last, though the *arr may take the record away at any moment.        *)
FailedImportsAreGivenUp ==
    \A t \in Targets :
      [](t \in dead) /\ []<><<CountFailure /\ t \in Covered(importer.download)>>_reacquireVars
        => <>[](t \notin monitored)

(* "If the *arr's poll wins and the queue record is already gone, the      *)
(* count was still recorded" (import_failure.go:31): the same of every     *)
(* failed import, counted or not.                                          *)
FailedImportsAreCounted ==
    \A t \in Targets :
      [](t \in dead) /\ []<>(\E d \in Downloads : t \in Covered(d) /\ stage[d] = "failed")
        => <>[](t \notin monitored)

(* "The whole pack ends up unmonitored episode by episode"                 *)
(* (stuck_cleanup.go:409): the same of a target the clean-up gives up on.  *)
StuckTargetsAreGivenUp ==
    \A t \in Targets :
      [](t \in dead) /\ []<>(\E a \in pass.actions : a.target = t /\ a.giveUp)
        => <>[](t \notin monitored)

(* "Require the path to be missing for >=60s to guard against transient    *)
(* FUSE hiccups" (worker.go:305): no pass since the window began has found *)
(* it there.                                                               *)
GhostsAreGoneForTheWindow ==
    [][\A i \in pass.items :
         SelectGhost(i) /\ ~GhostByHistory(i) => i.target \notin returned]_reacquireVars
=============================================================================
