----------------------------- MODULE Health_proofs -----------------------------
(***************************************************************************)
(* Proofs about HealthRecord and HealthLifecycle, for any number of checks *)
(* and updaters, any limits and every mix of requests.                     *)
(*                                                                         *)
(* The record: between the moment the cycle selects a row and the moment   *)
(* it writes the result, requests may only take charges, retries and the   *)
(* status checking away, so what the cycle has decided on an older row is  *)
(* safe on the row as it is then, or meets the guard on the status.  A     *)
(* background check has no such guard, and the theorems exclude it.        *)
(*                                                                         *)
(* The lifecycle: Stop holds hw.mu until its loop has ended, so that no    *)
(* Start finds the worker not running while a loop is left.                *)
(***************************************************************************)
EXTENDS HealthRecord, HealthLifecycle, FiniteSetTheorems, TLAPS

(* While no check is asked for, the cycle is the only runner.              *)
OnlyTheCycle == \A d \in Checks : job[d].at = "idle"

(* The cycle checks what is due and notifies of what is under repair.      *)
SelectedAreDue ==
    /\ job[Cycle].at \in {"selected", "check"} => job[Cycle].fh.status # "repair_triggered"
    /\ job[Cycle].at \in {"effect", "write"} /\ job[Cycle].fh.status = "repair_triggered"
         => job[Cycle].effect # "repair" /\ job[Cycle].update \notin {"healthy", "retry", "degraded"}

(* The row is charged no more than the row the cycle goes by, and a rescan *)
(* is planned on a budget that is left.                                    *)
ChargedNoMore == job[Cycle].at # "idle" => row.repair <= job[Cycle].fh.repair
PlannedOnBudget ==
    job[Cycle].at \in {"effect", "write"} /\ job[Cycle].update = "repairRetry"
      => job[Cycle].fh.repair < MaxRepairs

(* While the row is in checking, the verdict is about the copy there is.   *)
JudgedIsCurrent ==
    job[Cycle].at \in {"effect", "write"} /\ row.status = "checking"
      => job[Cycle].copy = copy \/ importing

(* While the row is in checking, it has a retry left.                      *)
RetryIsLeft ==
    /\ job[Cycle].at = "selected" => row.retry < MaxRetries
    /\ job[Cycle].at = "notify" => row.status # "checking"
    /\ job[Cycle].at \in {"check", "effect", "write"} /\ row.status = "checking"
         => row.retry < MaxRetries

CycleInv ==
    /\ OnlyTheCycle /\ ChargedNoMore /\ JudgedIsCurrent /\ RetryIsLeft
    /\ row.status = "healthy" => vouched = copy \/ importing
    /\ row.repair <= MaxRepairs
    /\ row.retry <= MaxRetries

RecordInv ==
    /\ HealthTypeOK /\ SelectedAreDue /\ PlannedOnBudget
    /\ "check" \notin requests => CycleInv

(* At most one loop runs, and none when the worker is not running and      *)
(* nobody waits for the end of one.                                        *)
LoopInv ==
    /\ LifecycleTypeOK
    /\ \A j, k \in Running(loops) : j = k
    /\ ~running /\ hwMu = Nobody => Running(loops) = {}

-----------------------------------------------------------------------------
(* The loops of the worker.                                                *)

(* A loop that has not been started yet is a start that is left. *)
LEMMA UnbornIsChosen ==
    ASSUME NEW ls, Unborn(ls) # {}
    PROVE  Fresh(ls) \in Unborn(ls) /\ Fresh(ls) \in Starts
BY DEF Unborn, Fresh

(* Start finds the flag down under the lock, so its loop is the only one. *)
LEMMA StartKeepsLoops ==
    ASSUME LoopInv, StartWorker
    PROVE  /\ running' \in BOOLEAN /\ hwMu' = hwMu /\ stopClosed' = stopClosed /\ panics' = panics
           /\ loops' \in [Starts -> {"unborn", "select", "tick", "enter", "cycle", "leave", "ended"}]
           /\ \A j, k \in Running(loops') : j = k
           /\ ~running' /\ hwMu' = Nobody => Running(loops') = {}
<1> USE DEF LoopInv, LifecycleTypeOK, StartWorker, worker
<1>1. CASE running \/ ~enabled
  BY <1>1 DEF Running
<1>2. CASE ~(running \/ ~enabled)
  <2>1. Fresh(loops) \in Starts
    BY <1>2, UnbornIsChosen
  <2>2. Running(loops') \subseteq {Fresh(loops)}
    BY <1>2, <2>1 DEF Running
  <2> QED BY <1>2, <2>1, <2>2
<1> QED BY <1>1, <1>2

LoopsKept ==
    /\ running' \in BOOLEAN /\ hwMu' \in Actors \cup {Nobody}
    /\ stopClosed' \in BOOLEAN /\ panics' \in Nat
    /\ loops' \in [Starts -> {"unborn", "select", "tick", "enter", "cycle", "leave", "ended"}]
    /\ \A j, k \in Running(loops') : j = k
    /\ ~running' /\ hwMu' = Nobody => Running(loops') = {}

(* The part of the lifecycle that is not the worker's loops.               *)
RestTyped ==
    /\ enabled \in BOOLEAN /\ updates \in 0..MaxUpdates
    /\ callback \in [Updaters -> [at : {"idle", "called", "start", "startSync", "stopSync", "stop",
                                        "wait"},
                                  old : BOOLEAN, new : BOOLEAN]]
    /\ hscMu \in Updaters \cup {Nobody}
    /\ \A u \in Updaters : ~At(u, "idle") /\ ~At(u, "called") <=> hscMu = u
LibraryTyped ==
    /\ syncRunning \in BOOLEAN
    /\ syncLoops \in [Starts -> {"unborn", "begin", "select", "sync", "ended"}]
    /\ syncCancel \in 0..MaxStarts /\ syncCancelled \subseteq Starts

(* The invariant in parts: the loops, the callbacks, the library and the   *)
(* main goroutine.                                                         *)
LEMMA InvariantParts ==
    LoopInv' <=> LoopsKept /\ RestTyped' /\ LibraryTyped'
                   /\ main' \in {"serving", "stopping", "waiting", "stopped"}
BY DEF LoopInv, LifecycleTypeOK, LoopsKept, RestTyped, LibraryTyped, Running, At

(* A step that leaves the worker alone keeps the part about the loops. *)
LEMMA SameLoops ==
    ASSUME LoopInv, UNCHANGED worker
    PROVE  LoopsKept
BY DEF LoopInv, LifecycleTypeOK, LoopsKept, worker, Running

(* Stop closes the channel, lowers the flag and takes the lock, or panics. *)
LEMMA StopBeginKeepsLoops ==
    ASSUME LoopInv, NEW a \in Actors, StopBegin(a)
    PROVE  LoopsKept
<1> USE LifecycleConstants DEF LoopInv, LifecycleTypeOK, LoopsKept, StopBegin, Running
<1>1. CASE stopClosed
  BY <1>1
<1>2. CASE ~stopClosed
  <2>1. hwMu' # Nobody
    BY <1>2 DEF Actors, Nobody, Main
  <2> QED BY <1>2, <2>1
<1> QED BY <1>1, <1>2

(* Stop gives the lock back when no loop runs any more. *)
LEMMA StopEndKeepsLoops ==
    ASSUME LoopInv, NEW a \in Actors, StopEnd(a)
    PROVE  LoopsKept
BY DEF LoopInv, LifecycleTypeOK, LoopsKept, StopEnd, Running

(* A loop that moves on is still the only one; when it ends it is out of   *)
(* the set.                                                                *)
LEMMA LoopMoves ==
    ASSUME LoopInv, NEW k \in Starts, LoopStep(k) \/ LoopTicks(k)
    PROVE  LoopsKept
<1>1. PICK to \in {"select", "tick", "enter", "cycle", "leave", "ended"} :
          /\ loops[k] \in {"select", "tick", "enter", "cycle", "leave"}
          /\ loops' = [loops EXCEPT ![k] = to]
  BY DEF LoopStep, LoopTicks, LoopEnds, LoopReads, CycleBegins, CycleWorks, CycleEnds, Moves
<1>2. UNCHANGED <<hwMu, running, stopClosed, panics>>
  BY DEF LoopStep, LoopTicks, LoopEnds, LoopReads, CycleBegins, CycleWorks, CycleEnds, LoopFrame
<1>3. Running(loops') \subseteq Running(loops)
  BY <1>1 DEF Running, LoopInv, LifecycleTypeOK
<1> QED BY <1>1, <1>2, <1>3 DEF LoopInv, LifecycleTypeOK, LoopsKept

(* Starting the library's loop keeps the types of its variables. *)
LEMMA StartSyncKeepsTypes ==
    ASSUME LibraryTyped, StartSync
    PROVE  LibraryTyped'
<1> USE LifecycleConstants DEF LibraryTyped, StartSync, library
<1>1. CASE syncRunning
  BY <1>1
<1>2. CASE ~syncRunning
  <2>1. Fresh(syncLoops) \in Starts
    BY <1>2, UnbornIsChosen
  <2>2. syncCancel' \in 0..MaxStarts
    BY <1>2, <2>1 DEF Starts
  <2>3. syncLoops' \in [Starts -> {"unborn", "begin", "select", "sync", "ended"}]
    BY <1>2, <2>1
  <2> QED BY <1>2, <2>2, <2>3
<1> QED BY <1>1, <1>2

(* So does stopping it. *)
LEMMA StopSyncKeepsTypes ==
    ASSUME LibraryTyped, StopSync
    PROVE  LibraryTyped'
<1> USE LifecycleConstants DEF LibraryTyped, StopSync, library
<1>1. CASE syncRunning
  <2>1. syncCancel # 0 => syncCancel \in Starts
    BY DEF Starts
  <2>2. syncCancelled' \subseteq Starts
    BY <1>1, <2>1
  <2>3. syncCancel' \in 0..MaxStarts /\ syncRunning' = FALSE /\ syncLoops' = syncLoops
    BY <1>1
  <2> QED BY <2>2, <2>3
<1>2. CASE ~syncRunning
  BY <1>2
<1> QED BY <1>1, <1>2

(* And so does every step of the loop itself. *)
LEMMA SyncKeepsTypes ==
    ASSUME LoopInv,
           \/ UNCHANGED library
           \/ StartSync \/ StopSync
           \/ \E k \in Starts : SyncBegins(k) \/ SyncEnds(k) \/ SyncWorks(k) \/ SyncDone(k)
    PROVE  LibraryTyped'
<1>0. LibraryTyped
  BY DEF LoopInv, LifecycleTypeOK, LibraryTyped
<1>1. CASE UNCHANGED library
  BY <1>0, <1>1 DEF LibraryTyped, library
<1>2. CASE StartSync
  BY <1>0, <1>2, StartSyncKeepsTypes
<1>3. CASE StopSync
  BY <1>0, <1>3, StopSyncKeepsTypes
<1>4. CASE \E k \in Starts : SyncBegins(k) \/ SyncEnds(k) \/ SyncWorks(k) \/ SyncDone(k)
  BY <1>0, <1>4 DEF SyncBegins, SyncEnds, SyncWorks, SyncDone, SyncFrame, LibraryTyped
<1> QED BY <1>1, <1>2, <1>3, <1>4

(* A callback moves from place to place, and only with the controller's    *)
(* lock beyond its call.                                                   *)
LEMMA CallbackGoes ==
    ASSUME LoopInv, NEW u \in Updaters, NEW from, NEW at,
           At(u, from), Goes(u, at),
           from \in {"called", "start", "startSync", "stopSync", "stop", "wait"},
           at \in {"idle", "start", "startSync", "stopSync", "stop", "wait"},
           from = "called" => hscMu = Nobody,
           hscMu' = IF at = "idle" THEN Nobody ELSE u
    PROVE  RestTyped'
<1> USE LifecycleConstants DEF LoopInv, LifecycleTypeOK, RestTyped, At, Goes, Nobody
<1>1. callback' \in [Updaters -> [at : {"idle", "called", "start", "startSync", "stopSync", "stop",
                                        "wait"},
                                  old : BOOLEAN, new : BOOLEAN]]
  OBVIOUS
<1>2. \A v \in Updaters : callback'[v].at = IF v = u THEN at ELSE callback[v].at
  OBVIOUS
<1>3. \A v \in Updaters : v # u => hscMu # v
  OBVIOUS
<1>4. \A v \in Updaters : ~At(v, "idle")' /\ ~At(v, "called")' <=> hscMu' = v
  BY <1>2, <1>3
<1> QED BY <1>1, <1>4

(* No loop runs before the first start. *)
LEMMA LoopInit == LifecycleInit => LoopInv
<1> SUFFICES ASSUME LifecycleInit
             PROVE  LoopInv
  OBVIOUS
<1> USE LifecycleConstants DEF LifecycleInit
<1>1. Running(loops) = {1} /\ running
  BY DEF Running, Starts
<1>2. RestTyped
  BY DEF RestTyped, At, NoCallback, Nobody
<1>3. LibraryTyped
  BY DEF LibraryTyped, Starts
<1>4. loops \in [Starts -> {"unborn", "select", "tick", "enter", "cycle", "leave", "ended"}]
  OBVIOUS
<1> QED BY <1>1, <1>2, <1>3, <1>4 DEF LoopInv, LifecycleTypeOK, RestTyped, LibraryTyped, Actors

(* Every step of the lifecycle keeps its invariant. *)
LEMMA LoopNext == LoopInv /\ [LifecycleNext]_lifecycleVars => LoopInv'
<1> SUFFICES ASSUME LoopInv, [LifecycleNext]_lifecycleVars
             PROVE  LoopInv'
  OBVIOUS
<1>r. UNCHANGED controller => RestTyped'
  BY DEF LoopInv, LifecycleTypeOK, RestTyped, controller, At
<1>m. UNCHANGED main => main' \in {"serving", "stopping", "waiting", "stopped"}
  BY DEF LoopInv, LifecycleTypeOK
<1>s. UNCHANGED worker => LoopsKept
  BY SameLoops
<1>l. UNCHANGED library => LibraryTyped'
  BY SyncKeepsTypes
<1>1. ASSUME NEW k \in Starts, LoopStep(k) \/ LoopTicks(k)
      PROVE  LoopInv'
  <2>1. UNCHANGED <<controller, library, main>>
    BY <1>1 DEF LoopStep, LoopTicks, LoopEnds, LoopReads, CycleBegins, CycleWorks, CycleEnds,
                LoopFrame
  <2> QED BY <1>1, <2>1, <1>r, <1>m, <1>l, LoopMoves, InvariantParts
<1>2. ASSUME NEW k \in Starts, SyncBegins(k) \/ SyncEnds(k) \/ SyncWorks(k) \/ SyncDone(k)
      PROVE  LoopInv'
  <2>1. UNCHANGED <<controller, worker, main>>
    BY <1>2 DEF SyncBegins, SyncEnds, SyncWorks, SyncDone, SyncFrame
  <2>2. LibraryTyped'
    BY <1>2, SyncKeepsTypes
  <2> QED BY <2>1, <2>2, <1>r, <1>m, <1>s, InvariantParts
<1>3. ASSUME NEW u \in Updaters, UpdateConfig(u)
      PROVE  LoopInv'
  <2>1. RestTyped'
    BY <1>3, LifecycleConstants
       DEF LoopInv, LifecycleTypeOK, RestTyped, UpdateConfig, At, Nobody
  <2>2. UNCHANGED <<worker, library, main>>
    BY <1>3 DEF UpdateConfig
  <2> QED BY <2>1, <2>2, <1>m, <1>s, <1>l, InvariantParts
<1>4. ASSUME NEW u \in Updaters, Callback(u)
      PROVE  LoopInv'
  <2>h. ~At(u, "idle") /\ ~At(u, "called") => hscMu = u
    BY DEF LoopInv, LifecycleTypeOK
  <2>1. CASE CallbackLock(u)
    <3>1. RestTyped'
      BY <2>1, CallbackGoes DEF CallbackLock
    <3> QED BY <2>1, <3>1, <1>m, <1>s, <1>l, InvariantParts DEF CallbackLock
  <2>2. CASE CallbackStart(u)
    <3>1. At(u, "start") /\ hscMu = u /\ hscMu' = u
      BY <2>2, <2>h DEF CallbackStart, At
    <3>2. RestTyped'
      BY <2>2, <3>1, CallbackGoes DEF CallbackStart
    <3>3. LoopsKept
      BY <2>2, StartKeepsLoops DEF CallbackStart, LoopsKept, LoopInv, LifecycleTypeOK
    <3> QED BY <2>2, <3>2, <3>3, <1>m, <1>l, InvariantParts DEF CallbackStart
  <2>3. CASE CallbackStartSync(u)
    <3>1. RestTyped'
      BY <2>3, CallbackGoes DEF CallbackStartSync
    <3>2. LibraryTyped'
      BY <2>3, SyncKeepsTypes DEF CallbackStartSync
    <3> QED BY <2>3, <3>1, <3>2, <1>m, <1>s, InvariantParts DEF CallbackStartSync
  <2>4. CASE CallbackStopSync(u)
    <3>1. At(u, "stopSync") /\ hscMu = u /\ hscMu' = u
      BY <2>4, <2>h DEF CallbackStopSync, At
    <3>2. RestTyped'
      BY <2>4, <3>1, CallbackGoes DEF CallbackStopSync
    <3>3. LibraryTyped'
      BY <2>4, SyncKeepsTypes DEF CallbackStopSync
    <3> QED BY <2>4, <3>2, <3>3, <1>m, <1>s, InvariantParts DEF CallbackStopSync
  <2>5. CASE CallbackStop(u)
    <3>1. RestTyped'
      BY <2>5, CallbackGoes DEF CallbackStop
    <3>2. LoopsKept
      <4>1. u \in Actors
        BY DEF Actors
      <4> QED BY <2>5, <4>1, <1>s, StopBeginKeepsLoops DEF CallbackStop
    <3> QED BY <2>5, <3>1, <3>2, <1>m, <1>l, InvariantParts DEF CallbackStop
  <2>6. CASE CallbackStopped(u)
    <3>1. RestTyped'
      BY <2>6, CallbackGoes DEF CallbackStopped
    <3>2. LoopsKept
      BY <2>6, StopEndKeepsLoops DEF CallbackStopped, Actors
    <3> QED BY <2>6, <3>1, <3>2, <1>m, <1>l, InvariantParts DEF CallbackStopped
  <2> QED BY <1>4, <2>1, <2>2, <2>3, <2>4, <2>5, <2>6 DEF Callback
<1>5. CASE CancelLibrarySync
  <2>1. LibraryTyped'
    BY <1>5, SyncKeepsTypes DEF CancelLibrarySync
  <2> QED BY <1>5, <2>1, <1>r, <1>m, <1>s, InvariantParts DEF CancelLibrarySync
<1>6. CASE Shutdown
  BY <1>6, <1>r, <1>s, <1>l, InvariantParts DEF Shutdown
<1>7. CASE ShutdownStop
  <2>1. Main \in Actors
    BY DEF Actors
  <2>2. LoopsKept
    BY <1>7, <2>1, <1>s, StopBeginKeepsLoops DEF ShutdownStop
  <2> QED BY <1>7, <2>2, <1>r, <1>l, InvariantParts DEF ShutdownStop
<1>8. CASE ShutdownStopped
  <2>1. LoopsKept
    BY <1>8, StopEndKeepsLoops DEF ShutdownStopped, Actors
  <2> QED BY <1>8, <2>1, <1>r, <1>l, InvariantParts DEF ShutdownStopped
<1>9. CASE UNCHANGED lifecycleVars
  BY <1>9, <1>r, <1>m, <1>s, <1>l, InvariantParts DEF lifecycleVars
<1> QED BY <1>1, <1>2, <1>3, <1>4, <1>5, <1>6, <1>7, <1>8, <1>9 DEF LifecycleNext

(* Which loops can run beside the worker's flags and the callback's lock   *)
(* (Start, Stop, run).                                                     *)
THEOREM LoopInvariant == WorkerSpec => []LoopInv
BY LoopInit, LoopNext, PTL DEF WorkerSpec

(* However often the setting is switched and whatever the shutdown does,   *)
(* the lifecycle's variables are well typed and only a holder of the       *)
(* controller's lock is inside the callback.                               *)
THEOREM LifecycleTypeCorrect == WorkerSpec => []LifecycleTypeOK
<1>1. LoopInv => LifecycleTypeOK
  BY DEF LoopInv
<1> QED BY <1>1, LoopInvariant, PTL

(* At most one health loop runs, however callbacks, requests and the       *)
(* shutdown interleave (Start, Stop and run of the worker).                *)
THEOREM CyclesNeverOverlap == WorkerSpec => []OneHealthLoop
<1>1. LoopInv => OneHealthLoop
  <2> SUFFICES ASSUME LoopInv
               PROVE  Cardinality(Running(loops)) <= 1
    BY DEF OneHealthLoop
  <2>1. CASE Running(loops) = {}
    BY <2>1, FS_EmptySet
  <2>2. CASE Running(loops) # {}
    <3>1. PICK k \in Running(loops) : TRUE
      BY <2>2
    <3>2. Running(loops) = {k}
      BY <3>1 DEF LoopInv
    <3>3. Cardinality(Running(loops)) = 1
      BY <3>2, FS_Singleton, Zenon
    <3> QED BY <3>3
  <2> QED BY <2>1, <2>2
<1> QED BY <1>1, LoopInvariant, PTL

-----------------------------------------------------------------------------
(* The types of the record.                                                *)

Plans == [effect : {"none", "hide", "delete", "repair", "retrigger"},
          update : {"skip", "healthy", "retry", "repairRetry", "repairTrigger", "corrupted",
                    "degraded"}]

(* What a verdict or a notification makes of a record is a plan. *)
LEMMA PlansTyped ==
    ASSUME NEW fh \in Rows
    PROVE  /\ \A verdict \in {"removed", "healthy", "degraded", "corrupted"} :
                 ResultPlan(fh, verdict) \in Plans
           /\ NotificationPlan(fh) \in Plans
<1>1. \A e \in {"none", "hide", "delete", "repair", "retrigger"} :
        \A u \in {"skip", "healthy", "retry", "repairRetry", "repairTrigger", "corrupted",
                  "degraded"} : Plan(e, u) \in Plans
  BY DEF Plan, Plans
<1>2. NotificationPlan(fh) \in Plans
  BY <1>1 DEF NotificationPlan
<1>3. ASSUME NEW verdict \in {"removed", "healthy", "degraded", "corrupted"}
      PROVE  ResultPlan(fh, verdict) \in Plans
  BY <1>1 DEF ResultPlan
<1> QED BY <1>2, <1>3

(* A job with a plan is a job. *)
LEMMA PlannedTyped ==
    ASSUME NEW j \in Jobs, NEW p \in Plans, copy \in 1..MaxCopies
    PROVE  Planned(j, p) \in Jobs
<1>1. copy \in 0..MaxCopies
  BY HealthConstants
<1>2. ASSUME NEW at \in {"write", "effect"}
      PROVE  [j EXCEPT !.at = at, !.copy = copy, !.effect = p.effect, !.update = p.update] \in Jobs
  BY <1>1 DEF Jobs, Plans
<1> QED BY <1>2 DEF Planned

(* Every update of the bulk write yields a record. *)
LEMMA UpdatedTyped ==
    ASSUME NEW r \in Rows,
           NEW u \in {"healthy", "retry", "repairRetry", "repairTrigger", "corrupted", "degraded"}
    PROVE  Updated(r, u) \in Rows
<1>1. CASE u = "healthy"
  BY <1>1 DEF Rows, Updated
<1>2. CASE u = "retry"
  <2>1. Updated(r, u) = [r EXCEPT !.status = "pending", !.retry = r.retry + 1]
    BY <1>2 DEF Updated
  <2>2. r.retry + 1 \in Nat
    BY DEF Rows
  <2> QED BY <2>1, <2>2 DEF Rows
<1>3. CASE u = "repairRetry"
  <2>1. r.repair + 1 \in Nat
    BY DEF Rows
  <2>2. Charged(r) = [r EXCEPT !.repair = r.repair + 1] /\ Charged(r) \in Rows
    BY <2>1 DEF Charged, Rows
  <2>3. Updated(r, u) = [Charged(r) EXCEPT !.status = "repair_triggered"]
    BY <1>3 DEF Updated
  <2> QED BY <2>2, <2>3 DEF Rows
<1>4. CASE u \in {"repairTrigger", "corrupted", "degraded"}
  BY <1>4 DEF Rows, Updated
<1> QED BY <1>1, <1>2, <1>3, <1>4

(* So do the records that requests and imports write. *)
LEMMA RowsTyped ==
    ASSUME row \in Rows
    PROVE  /\ NoRow \in Rows /\ FreshRow \in Rows /\ Pending(row) \in Rows
           /\ AfterCancel \in Rows
BY DEF Rows, NoRow, FreshRow, Pending, AfterCancel

(* The jobs stay jobs when one of them is replaced. *)
LEMMA JobsTyped ==
    ASSUME HealthTypeOK
    PROVE  /\ NoJob \in Jobs
           /\ \A p \in Runners, j \in Jobs : Set(p, j) => job' \in [Runners -> Jobs]
BY HealthConstants, RowsTyped DEF HealthTypeOK, NoJob, Jobs, Set

(* The results that are not written yet are a finite set. *)
LEMMA UnwrittenIsCounted ==
    ASSUME HealthTypeOK
    PROVE  Cardinality(Unwritten) \in Nat
<1>1. IsFiniteSet(Runners)
  BY HealthConstants, FS_AddElement DEF Runners
<1> QED BY <1>1, FS_Subset, FS_CardinalityType DEF Unwritten

(* A check keeps the types. *)
LEMMA CheckTyped ==
    ASSUME HealthTypeOK, NEW p \in Runners, Check(p)
    PROVE  HealthTypeOK'
<1> USE DEF HealthTypeOK
<1>0. job[p] \in Jobs /\ job[p].fh \in Rows
  BY DEF Jobs
<1>1. PICK verdict \in {"removed", "healthy", "degraded", "corrupted"} :
          Set(p, Planned(job[p], ResultPlan(job[p].fh, verdict)))
  BY DEF Check
<1>2. Planned(job[p], ResultPlan(job[p].fh, verdict)) \in Jobs
  BY <1>0, PlansTyped, PlannedTyped
<1>3. job' \in [Runners -> Jobs]
  BY <1>1, <1>2, JobsTyped
<1>4. row' \in Rows /\ asked' \in 0..MaxAsked /\ dropped' \in Nat /\ vouched' \in 0..MaxCopies
  BY RowsTyped, HealthConstants DEF Check, DropRow, ledger
<1>5. UNCHANGED <<scenario, meta, copy, active, importing, strayed>>
  BY DEF Check
<1> QED BY <1>3, <1>4, <1>5 DEF scenario

(* The side effect of a verdict keeps the types. *)
LEMMA EffectTyped ==
    ASSUME HealthTypeOK, NEW p \in Runners, Effect(p)
    PROVE  HealthTypeOK'
<1> USE DEF HealthTypeOK
<1>0. job[p] \in Jobs
  OBVIOUS
<1>1. \A u \in {"skip", "healthy", "retry", "repairRetry", "repairTrigger", "corrupted", "degraded"} :
        ToWrite(p, u) => job' \in [Runners -> Jobs]
  <2>1. \A u \in {"skip", "healthy", "retry", "repairRetry", "repairTrigger", "corrupted", "degraded"} :
          [job[p] EXCEPT !.at = "write", !.update = u] \in Jobs
    BY <1>0 DEF Jobs
  <2> QED BY <2>1, JobsTyped DEF ToWrite
<1>2. Set(p, [job[p] EXCEPT !.effect = "hide"]) => job' \in [Runners -> Jobs]
  BY <1>0 DEF Set, Jobs
<1>3. job[p].update \in {"skip", "healthy", "retry", "repairRetry", "repairTrigger", "corrupted",
                         "degraded"}
  BY <1>0 DEF Jobs
<1>4. job' \in [Runners -> Jobs]
  BY <1>1, <1>2, <1>3
     DEF Effect, EffectDelete, EffectHide, EffectZombie, EffectRegenerate, EffectRescan
<1>5. row' \in Rows /\ asked' \in 0..MaxAsked /\ dropped' \in Nat /\ vouched' \in 0..MaxCopies
  BY RowsTyped, HealthConstants
     DEF Effect, EffectDelete, EffectHide, EffectZombie, EffectRegenerate, EffectRescan,
         DropOwnRow, DropRow, ledger
<1>6. strayed' \in BOOLEAN /\ meta' \in {"visible", "hidden", "gone"}
  BY Zenon DEF Effect, EffectDelete, EffectHide, EffectZombie, EffectRegenerate, EffectRescan, Hide,
               Becomes
<1>7. UNCHANGED <<scenario, copy, active, importing>>
  BY DEF Effect, EffectDelete, EffectHide, EffectZombie, EffectRegenerate, EffectRescan
<1> QED BY <1>4, <1>5, <1>6, <1>7 DEF scenario

(* The write of a result keeps the types of the record and of the          *)
(* counters.                                                               *)
LEMMA WriteTyped ==
    ASSUME HealthTypeOK, NEW p \in Runners, NEW expected,
           WriteRow(p, expected) \/ ResultLost(p)
    PROVE  row' \in Rows /\ asked' \in 0..MaxAsked /\ dropped' \in Nat /\ vouched' \in 0..MaxCopies
<1> USE DEF HealthTypeOK
<1>0. job[p] \in Jobs /\ job[p].copy \in 0..MaxCopies
      /\ job[p].update \in {"skip", "healthy", "retry", "repairRetry", "repairTrigger", "corrupted",
                             "degraded"}
  BY DEF Jobs
<1>1. CASE ResultLost(p)
  BY <1>1 DEF ResultLost
<1>2. CASE WriteRow(p, expected)
  <2>1. row' \in Rows
    BY <1>0, <1>2, UpdatedTyped DEF WriteRow, ResultLost
  <2>2. asked' \in 0..MaxAsked /\ dropped' \in Nat /\ vouched' \in 0..MaxCopies
    BY <1>0, <1>2, HealthConstants DEF WriteRow, ResultLost, ledger
  <2> QED BY <2>1, <2>2
<1> QED BY <1>1, <1>2

(* What is left of HealthTypeOK when the jobs are typed.                   *)
RowTyped ==
    /\ row \in Rows
    /\ meta \in {"visible", "hidden", "gone"} /\ copy \in 1..MaxCopies
    /\ active \in Checks \cup {None}
    /\ importing \in BOOLEAN /\ strayed \in BOOLEAN
    /\ asked \in 0..MaxAsked /\ dropped \in Nat /\ vouched \in 0..MaxCopies

(* A step that writes the record and the jobs keeps the rest of the types. *)
LEMMA TypeParts ==
    ASSUME HealthTypeOK, UNCHANGED scenario, job' \in [Runners -> Jobs], RowTyped'
    PROVE  HealthTypeOK'
BY DEF HealthTypeOK, RowTyped, scenario

(* A step of a cycle keeps the types. *)
LEMMA CycleStepTyped ==
    ASSUME HealthTypeOK, CycleStep
    PROVE  HealthTypeOK'
<1>c. Cycle \in Runners /\ job[Cycle] \in Jobs
  BY DEF Runners, HealthTypeOK
<1>r. row \in Rows /\ RowTyped
  BY DEF HealthTypeOK, RowTyped
<1>0. \A at \in {"selected", "notify"} : [NoJob EXCEPT !.at = at, !.fh = row] \in Jobs
  BY <1>r, JobsTyped DEF Jobs
<1>1. CASE SelectCheck
  <2>1. job' \in [Runners -> Jobs]
    BY <1>1, <1>c, <1>0, JobsTyped DEF SelectCheck
  <2>2. RowTyped' /\ UNCHANGED scenario
    BY <1>1, <1>r DEF SelectCheck, CycleFrame, RowTyped, ledger
  <2> QED BY <2>1, <2>2, TypeParts
<1>2. CASE MarkChecking
  <2>1. [job[Cycle] EXCEPT !.at = "check"] \in Jobs
    BY <1>c DEF Jobs
  <2>2. job' \in [Runners -> Jobs]
    BY <1>2, <1>c, <2>1, JobsTyped DEF MarkChecking
  <2>3. row' \in Rows
    BY <1>2, <1>r DEF MarkChecking, Rows
  <2>4. RowTyped' /\ UNCHANGED scenario
    BY <1>2, <1>r, <2>3 DEF MarkChecking, CycleFrame, RowTyped, ledger
  <2> QED BY <2>2, <2>4, TypeParts
<1>3. CASE SelectRepair
  <2>1. job' \in [Runners -> Jobs]
    BY <1>3, <1>c, <1>0, JobsTyped DEF SelectRepair
  <2>2. RowTyped' /\ UNCHANGED scenario
    BY <1>3, <1>r DEF SelectRepair, CycleFrame, RowTyped, ledger
  <2> QED BY <2>1, <2>2, TypeParts
<1>4. CASE Notify
  <2>1. [job[Cycle] EXCEPT !.fh = row] \in Jobs /\ job[Cycle].fh \in Rows
    BY <1>c, <1>r DEF Jobs
  <2>2. copy \in 1..MaxCopies
    BY DEF HealthTypeOK
  <2>3. /\ Planned([job[Cycle] EXCEPT !.fh = row], NotificationPlan(row)) \in Jobs
        /\ Planned(job[Cycle], NotificationPlan(job[Cycle].fh)) \in Jobs
    BY <1>c, <1>r, <2>1, <2>2, PlansTyped, PlannedTyped
  <2>4. job' \in [Runners -> Jobs]
    BY <1>4, <1>c, <2>3, JobsTyped DEF Notify
  <2>5. RowTyped' /\ UNCHANGED scenario
    BY <1>4, <1>r DEF Notify, CycleFrame, RowTyped, ledger
  <2> QED BY <2>4, <2>5, TypeParts
<1>5. CASE CycleWrite
  <2>1. job' \in [Runners -> Jobs]
    BY <1>5, <1>c, JobsTyped DEF CycleWrite
  <2>2. row' \in Rows /\ asked' \in 0..MaxAsked /\ dropped' \in Nat /\ vouched' \in 0..MaxCopies
    BY <1>5, <1>c, WriteTyped DEF CycleWrite
  <2>3. RowTyped' /\ UNCHANGED scenario
    BY <1>5, <1>r, <2>2 DEF CycleWrite, WriteFrame, RowTyped
  <2> QED BY <2>1, <2>3, TypeParts
<1> QED BY <1>c, <1>1, <1>2, <1>3, <1>4, <1>5, CheckTyped, EffectTyped DEF CycleStep

(* A step of a background check keeps the types. *)
LEMMA CheckStepTyped ==
    ASSUME HealthTypeOK, NEW d \in Checks, StartCheck(d) \/ CheckStep(d)
    PROVE  HealthTypeOK'
<1>c. d \in Runners /\ job[d] \in Jobs
  BY DEF Runners, HealthTypeOK
<1>r. row \in Rows /\ RowTyped
  BY DEF HealthTypeOK, RowTyped
<1>1. CASE StartCheck(d)
  <2>1. [NoJob EXCEPT !.at = "register"] \in Jobs
    BY JobsTyped DEF Jobs
  <2>2. job' \in [Runners -> Jobs]
    BY <1>1, <1>c, <2>1, JobsTyped DEF StartCheck
  <2>3. row' \in Rows
    BY <1>1, <1>r DEF StartCheck, Rows
  <2>4. RowTyped' /\ UNCHANGED scenario
    BY <1>1, <1>r, <2>3 DEF StartCheck, RowTyped, ledger
  <2> QED BY <2>2, <2>4, TypeParts
<1>2. CASE Register(d) \/ ReadRecord(d) \/ CheckCancelled(d)
  <2>1. /\ \A at \in {"read", "fail"} : [job[d] EXCEPT !.at = at] \in Jobs
        /\ [job[d] EXCEPT !.at = "check", !.fh = row] \in Jobs
    BY <1>c, <1>r DEF Jobs
  <2>2. job' \in [Runners -> Jobs]
    BY <1>2, <1>c, <2>1, JobsTyped DEF Register, ReadRecord, CheckCancelled
  <2>3. RowTyped' /\ UNCHANGED scenario
    BY <1>2, <1>r DEF Register, ReadRecord, CheckCancelled, RowTyped, ledger
  <2> QED BY <2>2, <2>3, TypeParts
<1>3. CASE DirectWrite(d)
  <2>1. [job[d] EXCEPT !.at = "fail"] \in Jobs
    BY <1>c DEF Jobs
  <2>2. job' \in [Runners -> Jobs]
    BY <1>3, <1>c, <2>1, JobsTyped DEF DirectWrite
  <2>3. row' \in Rows /\ asked' \in 0..MaxAsked /\ dropped' \in Nat /\ vouched' \in 0..MaxCopies
    BY <1>3, <1>c, WriteTyped DEF DirectWrite
  <2>4. RowTyped' /\ UNCHANGED scenario
    BY <1>3, <1>r, <2>3 DEF DirectWrite, WriteFrame, RowTyped
  <2> QED BY <2>2, <2>4, TypeParts
<1>4. CASE CheckFailed(d)
  <2>1. job' \in [Runners -> Jobs]
    BY <1>4, <1>c, JobsTyped DEF CheckFailed
  <2>2. row' \in Rows
    BY <1>4, <1>r, RowsTyped DEF CheckFailed
  <2>3. RowTyped' /\ UNCHANGED scenario
    BY <1>4, <1>r, <2>2 DEF CheckFailed, WriteFrame, RowTyped, ledger
  <2> QED BY <2>1, <2>3, TypeParts
<1> QED BY <1>c, <1>1, <1>2, <1>3, <1>4, CheckTyped, EffectTyped DEF CheckStep

(* Requests change the jobs little.                                        *)
LEMMA RequestJobs ==
    ASSUME HealthTypeOK, Request
    PROVE  /\ job' \in [Runners -> Jobs]
           /\ \A d \in Checks : job[d].at = "idle" => job'[d].at = "idle"
           /\ \/ job'[Cycle].at = "idle"
              \/ \E h \in BOOLEAN : job'[Cycle] = [job[Cycle] EXCEPT !.here = h]
<1> USE DEF HealthTypeOK
<1>c. Cycle \in Runners /\ job[Cycle] \in Jobs /\ Checks \subseteq Runners /\ Cycle \notin Checks
  BY HealthConstants DEF Runners, Cycle
<1>s. job[Cycle] = [job[Cycle] EXCEPT !.here = job[Cycle].here] /\ job[Cycle].here \in BOOLEAN
  BY <1>c, Zenon DEF Jobs
<1>1. CASE UNCHANGED job
  BY <1>1, <1>c, <1>s
<1>2. CASE CancelActive
  <2>1. CASE active = None
    BY <1>1, <1>2, <2>1 DEF CancelActive
  <2>2. CASE active # None
    <3>1. active \in Checks
      BY <2>2
    <3>2. [job[active] EXCEPT !.cancelled = TRUE] \in Jobs
      BY <3>1, <1>c DEF Jobs
    <3>3. job' = [job EXCEPT ![active] = [job[active] EXCEPT !.cancelled = TRUE]]
      BY <1>2, <2>2 DEF CancelActive
    <3>4. job'[Cycle] = job[Cycle] /\ job' \in [Runners -> Jobs]
      BY <3>1, <3>2, <3>3, <1>c
    <3>5. \A d \in Checks : job[d].at = "idle" => job'[d].at = "idle"
      BY <3>1, <3>2, <3>3, <1>c DEF Jobs
    <3> QED BY <3>4, <3>5, <1>s
  <2> QED BY <2>1, <2>2
<1>3. CASE Rename
  <2>1. \A p \in Runners : [job[p] EXCEPT !.here = FALSE] \in Jobs
    BY DEF Jobs
  <2>2. job' \in [Runners -> Jobs]
    BY <1>3, <2>1, JobsTyped DEF Rename
  <2>3. \A p \in Runners : job[p].at = "idle" => job'[p].at = "idle"
    BY <1>3 DEF Rename, NoJob
  <2>4. job[Cycle].at # "idle" => job'[Cycle] = [job[Cycle] EXCEPT !.here = FALSE]
    BY <1>3, <1>c DEF Rename
  <2> QED BY <2>2, <2>3, <2>4, <1>c
<1>4. CASE Reboot
  BY <1>4, <1>c, JobsTyped DEF Reboot, NoJob
<1>5. UNCHANGED job \/ CancelActive \/ Rename \/ Reboot
  BY DEF Request, CancelRequest, RestartRequest, DeleteRequest, RepairRequest, StreamFails,
         ImportWrite, ImportSchedule, Download
<1> QED BY <1>1, <1>2, <1>3, <1>4, <1>5

(* A request, a webhook, an import or a failed stream keeps the types. *)
LEMMA RequestTyped ==
    ASSUME HealthTypeOK, Request
    PROVE  HealthTypeOK'
<1> USE HealthConstants DEF HealthTypeOK
<1>r. row \in Rows /\ NoRow \in Rows /\ Pending(row) \in Rows /\ AfterCancel \in Rows
  BY RowsTyped
<1>e. ASSUME NEW r \in Rows
      PROVE  /\ \A st \in {"pending", "degraded", "repair_triggered"} :
                  /\ [r EXCEPT !.status = st] \in Rows
                  /\ [r EXCEPT !.status = st, !.retry = 0, !.repair = 0] \in Rows
                  /\ [r EXCEPT !.status = st, !.retry = MaxRetries - 1] \in Rows
             /\ \A b \in BOOLEAN : [r EXCEPT !.retry = 0, !.relinked = b] \in Rows
             /\ [r EXCEPT !.relinked = TRUE] \in Rows
  <2>1. MaxRetries - 1 \in Nat
    OBVIOUS
  <2>2. \A st \in {"pending", "degraded", "repair_triggered"} :
          /\ [r EXCEPT !.status = st] \in Rows
          /\ [r EXCEPT !.status = st, !.retry = 0, !.repair = 0] \in Rows
    BY DEF Rows
  <2>3. \A st \in {"pending", "degraded", "repair_triggered"} :
          [r EXCEPT !.status = st, !.retry = MaxRetries - 1] \in Rows
    BY <2>1 DEF Rows
  <2>4. \A b \in BOOLEAN : [r EXCEPT !.retry = 0, !.relinked = b] \in Rows
    BY DEF Rows
  <2>5. [r EXCEPT !.relinked = TRUE] \in Rows
    BY DEF Rows
  <2> QED BY <2>2, <2>3, <2>4, <2>5
<1>c. None \in Checks \cup {None} /\ (CancelActive => active' = None)
  BY DEF CancelActive
<1>j. job' \in [Runners -> Jobs]
  BY RequestJobs
<1>1. row' \in Rows
  <2>1. CASE CancelRequest \/ RestartRequest \/ DeleteRequest \/ RepairRequest
    BY <2>1, <1>r, <1>e DEF CancelRequest, RestartRequest, DeleteRequest, RepairRequest, DropRow
  <2>2. CASE \E c \in 1..copy : StreamFails(c)
    BY <2>2, <1>r, <1>e DEF StreamFails, DropRow
  <2>3. CASE ImportWrite \/ ImportSchedule \/ Download \/ Rename \/ Reboot
    BY <2>3, <1>r, <1>e DEF ImportWrite, ImportSchedule, Download, Rename, Reboot
  <2> QED BY <2>1, <2>2, <2>3 DEF Request
<1>2. asked' \in 0..MaxAsked /\ dropped' \in Nat /\ vouched' \in 0..MaxCopies
  BY UnwrittenIsCounted
     DEF Request, CancelRequest, RestartRequest, DeleteRequest, RepairRequest, StreamFails,
         ImportWrite, ImportSchedule, Download, Rename, Reboot, DropRow, ledger
<1>3. copy' \in 1..MaxCopies
  BY DEF Request, CancelRequest, RestartRequest, DeleteRequest, RepairRequest, StreamFails,
         ImportWrite, ImportSchedule, Download, Rename, Reboot
<1>4. meta' \in {"visible", "hidden", "gone"} /\ active' \in Checks \cup {None}
  BY <1>c DEF Request, CancelRequest, RestartRequest, DeleteRequest, RepairRequest, StreamFails,
         ImportWrite, ImportSchedule, Download, Rename, Reboot
<1>5. importing' \in BOOLEAN /\ strayed' \in BOOLEAN
  BY Zenon DEF Request, CancelRequest, RestartRequest, DeleteRequest, RepairRequest, StreamFails,
         ImportWrite, ImportSchedule, Download, Rename, Reboot
<1>6. UNCHANGED scenario
  BY DEF Request, CancelRequest, RestartRequest, DeleteRequest, RepairRequest, StreamFails,
         ImportWrite, ImportSchedule, Download, Rename, Reboot
<1> QED BY <1>j, <1>1, <1>2, <1>3, <1>4, <1>5, <1>6, TypeParts DEF RowTyped

(* Every step of HealthRecord keeps the types. *)
LEMMA RecordTyped == HealthTypeOK /\ [HealthNext]_recordVars => HealthTypeOK'
<1> SUFFICES ASSUME HealthTypeOK, [HealthNext]_recordVars
             PROVE  HealthTypeOK'
  OBVIOUS
<1>1. CASE UNCHANGED recordVars
  BY <1>1 DEF HealthTypeOK, recordVars, scenario, ledger
<1> QED BY <1>1, CycleStepTyped, CheckStepTyped, RequestTyped DEF HealthNext

-----------------------------------------------------------------------------
(* The cycle's job and the row.                                            *)

CycleJobOK == SelectedAreDue /\ PlannedOnBudget

(* What the worker plans for a record that is due: a charge needs a budget,*)
(* a retry one that is left.                                               *)
LEMMA PlansForDue ==
    ASSUME NEW fh \in Rows, fh.status # "repair_triggered",
           NEW verdict \in {"removed", "healthy", "degraded", "corrupted"}
    PROVE  ResultPlan(fh, verdict).update = "repairRetry" => fh.repair < MaxRepairs
<1> SUFFICES ASSUME ResultPlan(fh, verdict).update = "repairRetry"
             PROVE  ~Spent(fh)
  BY HealthConstants DEF Spent, Rows
<1> QED BY DEF ResultPlan, Plan

(* A repair is planned only below its budget, and no notification plans    *)
(* anything else.                                                          *)
LEMMA PlansForRepair ==
    ASSUME NEW fh \in Rows
    PROVE  /\ NotificationPlan(fh).update = "repairRetry" => fh.repair < MaxRepairs
           /\ NotificationPlan(fh).effect # "repair"
           /\ NotificationPlan(fh).update \notin {"healthy", "retry", "degraded"}
BY HealthConstants DEF NotificationPlan, Plan, Spent, Rows

(* The fields of a job that was just planned. *)
LEMMA PlannedJob ==
    ASSUME NEW j \in Jobs, NEW p
    PROVE  LET k == Planned(j, p) IN
           /\ k.at \in {"effect", "write"} /\ k.fh = j.fh /\ k.copy = copy
           /\ k.effect = p.effect /\ k.update = p.update
BY DEF Planned, Jobs

(* A check of the cycle plans what one of its four verdicts asks for. *)
LEMMA CheckPlans ==
    ASSUME HealthTypeOK, Check(Cycle)
    PROVE  \E verdict \in {"removed", "healthy", "degraded", "corrupted"} :
              job'[Cycle] = Planned(job[Cycle], ResultPlan(job[Cycle].fh, verdict))
BY DEF Check, Set, HealthTypeOK, Runners

(* What a job's effect may leave of its plan.                              *)
LEMMA EffectPlans ==
    ASSUME HealthTypeOK, NEW p \in Runners, Effect(p)
    PROVE  /\ job[p].at = "effect" /\ job'[p].at \in {"effect", "write"}
           /\ job'[p].fh = job[p].fh /\ job'[p].copy = job[p].copy
           /\ job'[p].effect # "repair" \/ job'[p].effect = job[p].effect
           /\ \/ job'[p].update \in {job[p].update, "skip", "corrupted", "repairTrigger"}
              \/ job'[p].update = "healthy" /\ job[p].effect = "repair"
<1>1. job \in [Runners -> Jobs] /\ job[p] \in Jobs
  BY DEF HealthTypeOK
<1>2. CASE job[p].effect = "repair" /\ ToWrite(p, "healthy")
  BY <1>1, <1>2 DEF Effect, EffectDelete, EffectHide, EffectZombie, EffectRegenerate, EffectRescan,
                    AtEffect, ToWrite, Set, Jobs
<1>3. CASE \E u \in {job[p].update, "skip", "corrupted", "repairTrigger"} : ToWrite(p, u)
  BY <1>1, <1>3 DEF Effect, EffectDelete, EffectHide, EffectZombie, EffectRegenerate, EffectRescan,
                    AtEffect, ToWrite, Set, Jobs
<1>4. CASE Set(p, [job[p] EXCEPT !.effect = "hide"])
  BY <1>1, <1>4 DEF Effect, EffectDelete, EffectHide, EffectZombie, EffectRegenerate, EffectRescan,
                    AtEffect, ToWrite, Set, Jobs
<1> QED BY <1>2, <1>3, <1>4
        DEF Effect, EffectDelete, EffectHide, EffectZombie, EffectRegenerate, EffectRescan, AtEffect

(* Steps of others leave the cycle's plan alone, or end it.                *)
LEMMA OthersLeaveThePlan ==
    ASSUME HealthTypeOK,
           \/ Request
           \/ \E d \in Checks : StartCheck(d) \/ CheckStep(d)
           \/ UNCHANGED recordVars
    PROVE  \/ job'[Cycle].at = "idle"
           \/ /\ job'[Cycle].at = job[Cycle].at /\ job'[Cycle].fh = job[Cycle].fh
              /\ job'[Cycle].copy = job[Cycle].copy /\ job'[Cycle].effect = job[Cycle].effect
              /\ job'[Cycle].update = job[Cycle].update
<1>c. Cycle \in Runners /\ Cycle \notin Checks /\ job[Cycle] \in Jobs /\ Checks \subseteq Runners
      /\ job \in [Runners -> Jobs]
  BY HealthConstants DEF Runners, Cycle, HealthTypeOK
<1>1. CASE Request
  <2>1. ASSUME NEW h \in BOOLEAN, job'[Cycle] = [job[Cycle] EXCEPT !.here = h]
        PROVE  /\ job'[Cycle].at = job[Cycle].at /\ job'[Cycle].fh = job[Cycle].fh
               /\ job'[Cycle].copy = job[Cycle].copy /\ job'[Cycle].effect = job[Cycle].effect
               /\ job'[Cycle].update = job[Cycle].update
    BY <1>c, <2>1 DEF Jobs
  <2> QED BY <1>1, <2>1, RequestJobs
<1>2. ASSUME NEW d \in Checks, StartCheck(d) \/ CheckStep(d)
      PROVE  job'[Cycle] = job[Cycle]
  <2>1. \E j : Set(d, j)
    BY <1>2 DEF StartCheck, CheckStep, Register, ReadRecord, Check, CheckCancelled, Effect,
         EffectDelete, EffectHide, EffectZombie, EffectRegenerate, EffectRescan, ToWrite,
         DirectWrite, CheckFailed
  <2> QED BY <2>1, <1>c DEF Set
<1>3. CASE UNCHANGED recordVars
  BY <1>3 DEF recordVars
<1> QED BY <1>1, <1>2, <1>3

(* The cycle's job keeps the shape it has at each of its places. *)
LEMMA CycleJobKept == HealthTypeOK /\ CycleJobOK /\ [HealthNext]_recordVars => CycleJobOK'
<1> SUFFICES ASSUME HealthTypeOK, CycleJobOK, [HealthNext]_recordVars
             PROVE  CycleJobOK'
  OBVIOUS
<1> USE DEF CycleJobOK, SelectedAreDue, PlannedOnBudget
<1>c. Cycle \in Runners /\ job \in [Runners -> Jobs] /\ job[Cycle] \in Jobs /\ job[Cycle].fh \in Rows
      /\ row \in Rows
  BY DEF Runners, HealthTypeOK, Jobs
<1>n. NoJob \in Jobs /\ NoJob.at = "idle"
  BY JobsTyped DEF NoJob
<1>1. CASE SelectCheck
  BY <1>1, <1>c, <1>n DEF SelectCheck, Set, Jobs
<1>2. CASE MarkChecking
  BY <1>2, <1>c DEF MarkChecking, Set, Jobs
<1>3. CASE SelectRepair
  BY <1>3, <1>c, <1>n DEF SelectRepair, Set, Jobs
<1>4. CASE Notify
  <2>1. [job[Cycle] EXCEPT !.fh = row] \in Jobs /\ [job[Cycle] EXCEPT !.fh = row].fh = row
    BY <1>c DEF Jobs
  <2>2. \/ job'[Cycle] = NoJob
        \/ \E j \in Jobs : j.fh \in Rows /\ job'[Cycle] = Planned(j, NotificationPlan(j.fh))
    BY <1>4, <1>c, <2>1 DEF Notify, Set
  <2>3. ASSUME NEW j \in Jobs, j.fh \in Rows, job'[Cycle] = Planned(j, NotificationPlan(j.fh))
        PROVE  CycleJobOK'
    BY <2>3, PlannedJob, PlansForRepair
  <2> QED BY <2>2, <2>3, <1>n
<1>5. CASE Check(Cycle)
  <2>1. PICK verdict \in {"removed", "healthy", "degraded", "corrupted"} :
            job'[Cycle] = Planned(job[Cycle], ResultPlan(job[Cycle].fh, verdict))
    BY <1>5, CheckPlans
  <2>2. job[Cycle].fh.status # "repair_triggered"
    BY <1>5 DEF Check
  <2> QED BY <2>1, <2>2, <1>c, PlannedJob, PlansForDue
<1>6. CASE Effect(Cycle)
  BY <1>6, <1>c, EffectPlans
<1>7. CASE CycleWrite
  BY <1>7, <1>c, <1>n DEF CycleWrite, Set
<1>8. CASE \/ Request \/ \E d \in Checks : StartCheck(d) \/ CheckStep(d)
           \/ UNCHANGED recordVars
  BY <1>8, OthersLeaveThePlan
<1> QED BY <1>1, <1>2, <1>3, <1>4, <1>5, <1>6, <1>7, <1>8 DEF HealthNext, CycleStep

-----------------------------------------------------------------------------
(* The cycle alone with the requests.                                      *)

(* A request charges nothing, leaves no more than the last retry, and puts *)
(* no record into checking or healthy.                                     *)
LEMMA RequestRow ==
    ASSUME HealthTypeOK, Request
    PROVE  /\ row'.repair <= row.repair
           /\ row'.retry <= row.retry \/ row'.retry = MaxRetries - 1
           /\ row'.status \in {"checking", "healthy"}
                => /\ row'.status = row.status /\ row'.retry <= row.retry
                   /\ importing' \/ (copy' = copy /\ importing' = importing)
                   /\ vouched' = vouched
<1> USE HealthConstants
<1>r. row \in Rows /\ row.retry \in Nat /\ row.repair \in Nat
  BY DEF HealthTypeOK, Rows
<1>n. NoRow.status = "absent" /\ NoRow.retry = 0 /\ NoRow.repair = 0
  BY DEF NoRow
<1>p. /\ Pending(row) \in Rows /\ Pending(row).status = "pending"
      /\ Pending(row).retry <= row.retry /\ Pending(row).repair <= row.repair
  BY <1>r, <1>n, RowsTyped DEF Pending, FreshRow, Rows
<1>a. /\ AfterCancel \in Rows /\ AfterCancel.status \in {"pending", row.status}
      /\ AfterCancel.retry <= row.retry /\ AfterCancel.repair <= row.repair
  BY <1>r, <1>p, RowsTyped DEF AfterCancel
<1>1. CASE CancelRequest
  <2>1. row' = Pending(row)
    BY <1>1 DEF CancelRequest, AfterCancel
  <2> QED BY <2>1, <1>p, <1>r
<1>2. CASE RestartRequest
  BY <1>2, <1>a, <1>r DEF RestartRequest, Rows
<1>3. CASE DeleteRequest
  BY <1>3, <1>n, <1>r DEF DeleteRequest, DropRow
<1>4. CASE RepairRequest
  BY <1>4, <1>r DEF RepairRequest, Rows
<1>5. ASSUME NEW c \in 1..copy, StreamFails(c)
      PROVE  /\ row'.repair <= row.repair
             /\ row'.retry <= row.retry \/ row'.retry = MaxRetries - 1
             /\ row'.status \notin {"checking", "healthy"}
  <2>1. CASE row' = NoRow
    BY <2>1, <1>n, <1>r
  <2>2. CASE row' = [Pending(row) EXCEPT !.status = "degraded"]
    BY <2>2, <1>p, <1>r DEF Rows
  <2>3. CASE row' = [Pending(row) EXCEPT !.status = "repair_triggered", !.retry = MaxRetries - 1]
    BY <2>3, <1>p, <1>r DEF Rows
  <2> QED BY <1>5, <2>1, <2>2, <2>3 DEF StreamFails, DropRow
<1>6. CASE ImportWrite
  BY <1>6, <1>r DEF ImportWrite, ledger
<1>7. CASE ImportSchedule
  <2>1. row' = [Pending(row) EXCEPT !.retry = 0, !.relinked = FALSE]
    BY <1>7 DEF ImportSchedule
  <2>2. row'.status = "pending" /\ row'.retry = 0 /\ row'.repair = Pending(row).repair
    BY <2>1, <1>p DEF Rows
  <2> QED BY <2>2, <1>p, <1>r
<1>8. CASE Download
  <2>1. CASE row' = [Pending(row) EXCEPT !.retry = 0, !.relinked = TRUE]
    BY <2>1, <1>p, <1>r DEF Rows
  <2>2. CASE row' = [row EXCEPT !.relinked = TRUE] /\ row.status \in {"repair_triggered", "corrupted"}
    BY <2>2, <1>r DEF Rows
  <2> QED BY <1>8, <2>1, <2>2 DEF Download
<1>9. CASE Rename
  BY <1>9, <1>r DEF Rename, ledger
<1>10. CASE Reboot
  BY <1>10, <1>p, <1>r DEF Reboot
<1> QED BY <1>1, <1>2, <1>3, <1>4, <1>5, <1>6, <1>7, <1>8, <1>9, <1>10 DEF Request

(* Where only cycles check, every step keeps what the cycle may rely on. *)
LEMMA CycleInvKept ==
    HealthTypeOK /\ CycleJobOK /\ CycleInv /\ "check" \notin requests /\ [HealthNext]_recordVars
      => CycleInv'
<1> SUFFICES ASSUME HealthTypeOK, CycleJobOK, CycleInv, "check" \notin requests,
                    [HealthNext]_recordVars
             PROVE  CycleInv'
  OBVIOUS
<1> USE HealthConstants
<1>c. /\ Cycle \in Runners /\ Cycle \notin Checks /\ Checks \subseteq Runners
      /\ job \in [Runners -> Jobs] /\ job[Cycle] \in Jobs /\ job[Cycle].fh \in Rows
      /\ job[Cycle].fh.repair \in Nat
      /\ row \in Rows /\ row.retry \in Nat /\ row.repair \in Nat
  BY DEF Runners, Cycle, HealthTypeOK, Jobs, Rows
<1>o. OnlyTheCycle
  BY DEF CycleInv
<1>n. NoJob \in Jobs /\ NoJob.at = "idle"
  BY JobsTyped DEF NoJob
<1>others. ASSUME NEW j, Set(Cycle, j)
           PROVE  OnlyTheCycle' /\ job'[Cycle] = j
  BY <1>others, <1>c, <1>o DEF Set, OnlyTheCycle
<1>1. CASE SelectCheck
  <2>1. PICK j \in Jobs : Set(Cycle, j) /\ j.at = "selected" /\ j.fh = row
    <3>1. LET j == [NoJob EXCEPT !.at = "selected", !.fh = row] IN
             j \in Jobs /\ j.at = "selected" /\ j.fh = row
      BY <1>c, <1>n DEF Jobs
    <3> QED BY <1>1, <3>1 DEF SelectCheck
  <2> QED BY <1>1, <2>1, <1>others, <1>c
          DEF SelectCheck, CycleFrame, ledger, CycleInv, ChargedNoMore, JudgedIsCurrent, RetryIsLeft
<1>2. CASE MarkChecking
  <2>1. PICK j \in Jobs : Set(Cycle, j) /\ j.at = "check" /\ j.fh = job[Cycle].fh
    BY <1>2, <1>c DEF MarkChecking, Jobs
  <2>2. /\ row'.repair = row.repair /\ row'.retry = row.retry
        /\ row'.status # "checking" => row' = row
    BY <1>2, <1>c DEF MarkChecking, Rows
  <2> QED BY <1>2, <2>1, <2>2, <1>others, <1>c
          DEF MarkChecking, CycleFrame, ledger, CycleInv, ChargedNoMore, JudgedIsCurrent, RetryIsLeft
<1>3. CASE SelectRepair
  <2>1. PICK j \in Jobs : Set(Cycle, j) /\ j.at = "notify" /\ j.fh = row
    <3>1. LET j == [NoJob EXCEPT !.at = "notify", !.fh = row] IN
             j \in Jobs /\ j.at = "notify" /\ j.fh = row
      BY <1>c, <1>n DEF Jobs
    <3> QED BY <1>3, <3>1 DEF SelectRepair
  <2> QED BY <1>3, <2>1, <1>others, <1>c
          DEF SelectRepair, CycleFrame, ledger, CycleInv, ChargedNoMore, JudgedIsCurrent, RetryIsLeft
<1>4. CASE Notify
  <2>0. UNCHANGED <<row, copy, importing, vouched>>
    BY <1>4 DEF Notify, CycleFrame, ledger
  <2>1. CASE Set(Cycle, NoJob)
    BY <2>0, <2>1, <1>n, <1>others, <1>c DEF CycleInv, ChargedNoMore, JudgedIsCurrent, RetryIsLeft
  <2>2. [job[Cycle] EXCEPT !.fh = row] \in Jobs /\ [job[Cycle] EXCEPT !.fh = row].fh = row
    BY <1>c DEF Jobs
  <2>3. ASSUME NEW j \in Jobs, j.fh \in {row, job[Cycle].fh},
               Set(Cycle, Planned(j, NotificationPlan(j.fh)))
        PROVE  CycleInv'
    <3>1. /\ job'[Cycle].at \in {"effect", "write"} /\ job'[Cycle].fh = j.fh
          /\ job'[Cycle].copy = copy /\ OnlyTheCycle'
      BY <2>3, <1>others, PlannedJob
    <3>2. job[Cycle].at = "notify"
      BY <1>4 DEF Notify
    <3> QED BY <2>0, <2>3, <3>1, <3>2, <1>c
            DEF CycleInv, ChargedNoMore, JudgedIsCurrent, RetryIsLeft
  <2> QED BY <1>4, <1>c, <2>1, <2>2, <2>3 DEF Notify
<1>5. CASE Check(Cycle)
  <2>1. PICK verdict \in {"removed", "healthy", "degraded", "corrupted"} :
            job'[Cycle] = Planned(job[Cycle], ResultPlan(job[Cycle].fh, verdict))
    BY <1>5, CheckPlans
  <2>2. /\ job'[Cycle].at \in {"effect", "write"} /\ job'[Cycle].fh = job[Cycle].fh
        /\ job'[Cycle].copy = copy
    BY <2>1, <1>c, PlannedJob
  <2>3. OnlyTheCycle' /\ job[Cycle].at = "check"
    BY <1>5, <1>others DEF Check
  <2>4. UNCHANGED <<copy, importing>> /\ (row' = NoRow \/ (row' = row /\ vouched' = vouched))
    BY <1>5 DEF Check, DropRow, ledger
  <2> QED BY <2>2, <2>3, <2>4, <1>c
          DEF NoRow, CycleInv, ChargedNoMore, JudgedIsCurrent, RetryIsLeft
<1>6. CASE Effect(Cycle)
  <2>1. /\ job[Cycle].at = "effect" /\ job'[Cycle].at \in {"effect", "write"}
        /\ job'[Cycle].fh = job[Cycle].fh /\ job'[Cycle].copy = job[Cycle].copy
    BY <1>6, <1>c, EffectPlans
  <2>2. \E j : Set(Cycle, j)
    BY <1>6 DEF Effect, EffectDelete, EffectHide, EffectZombie, EffectRegenerate, EffectRescan,
                ToWrite
  <2>3. OnlyTheCycle'
    BY <2>2, <1>others
  <2>4. UNCHANGED <<copy, importing>> /\ (row' = NoRow \/ (row' = row /\ vouched' = vouched))
    BY <1>6 DEF Effect, EffectDelete, EffectHide, EffectZombie, EffectRegenerate, EffectRescan,
                DropOwnRow, DropRow, ledger
  <2> QED BY <2>1, <2>3, <2>4, <1>c
          DEF NoRow, CycleInv, ChargedNoMore, JudgedIsCurrent, RetryIsLeft
<1>7. CASE CycleWrite
  <2>0. job[Cycle].at = "write" /\ UNCHANGED <<copy, importing>>
    BY <1>7 DEF CycleWrite, WriteFrame
  <2>1. OnlyTheCycle' /\ job'[Cycle].at = "idle"
    BY <1>7, <1>n, <1>others DEF CycleWrite
  <2>2. CASE row' = row /\ vouched' = vouched
    BY <2>0, <2>1, <2>2 DEF CycleInv, ChargedNoMore, JudgedIsCurrent, RetryIsLeft
  <2>3. CASE ~(row' = row /\ vouched' = vouched)
    <3>1. PICK update :
             /\ update = job[Cycle].update /\ update # "skip"
             /\ row.status = IF job[Cycle].fh.status = "repair_triggered" THEN "repair_triggered"
                             ELSE "checking"
             /\ row' = Updated(row, update)
             /\ vouched' = IF update = "healthy" THEN job[Cycle].copy ELSE vouched
      BY <1>7, <2>3 DEF CycleWrite, WriteRow, ResultLost, ledger, None
    <3>t. update \in {"healthy", "retry", "repairRetry", "repairTrigger", "corrupted", "degraded"}
      BY <3>1, <1>c DEF Jobs
    <3>2. CASE update = "healthy"
      <4>1. row'.status = "healthy" /\ row'.retry = 0 /\ row'.repair = 0
        BY <3>1, <3>2, <1>c DEF Updated, Rows
      <4>2. row.status = "checking"
        BY <3>1, <3>2, <2>0 DEF CycleJobOK, SelectedAreDue
      <4> QED BY <4>1, <4>2, <3>1, <3>2, <2>0, <2>1
              DEF CycleInv, ChargedNoMore, JudgedIsCurrent, RetryIsLeft
    <3>3. CASE update = "retry"
      <4>1. row'.status = "pending" /\ row'.retry = row.retry + 1 /\ row'.repair = row.repair
        BY <3>1, <3>3, <1>c DEF Updated, Rows
      <4>2. row.status = "checking"
        BY <3>1, <3>3, <2>0 DEF CycleJobOK, SelectedAreDue
      <4> QED BY <4>1, <4>2, <3>1, <2>0, <2>1, <1>c
              DEF CycleInv, ChargedNoMore, JudgedIsCurrent, RetryIsLeft
    <3>4. CASE update = "repairRetry"
      <4>1. /\ row'.status = "repair_triggered" /\ row'.retry = row.retry
            /\ row'.repair = row.repair + 1
        BY <3>1, <3>4, <1>c DEF Updated, Charged, Rows
      <4>2. row.repair < MaxRepairs
        BY <3>1, <3>4, <2>0, <1>c DEF CycleJobOK, PlannedOnBudget, CycleInv, ChargedNoMore
      <4> QED BY <4>1, <4>2, <2>0, <2>1, <1>c
              DEF CycleInv, ChargedNoMore, JudgedIsCurrent, RetryIsLeft
    <3>5. CASE update \in {"repairTrigger", "corrupted", "degraded"}
      <4>1. /\ row'.status \in {"repair_triggered", "corrupted", "degraded"}
            /\ row'.retry = row.retry /\ row'.repair = row.repair
        BY <3>1, <3>5, <1>c DEF Updated, Rows
      <4> QED BY <4>1, <2>0, <2>1, <1>c DEF CycleInv, ChargedNoMore, JudgedIsCurrent, RetryIsLeft
    <3> QED BY <3>t, <3>2, <3>3, <3>4, <3>5
  <2> QED BY <2>2, <2>3
<1>8. CASE Request
  <2>1. OnlyTheCycle'
    BY <1>8, <1>o, RequestJobs DEF OnlyTheCycle
  <2>2. \/ job'[Cycle].at = "idle"
        \/ /\ job'[Cycle].at = job[Cycle].at /\ job'[Cycle].fh = job[Cycle].fh
           /\ job'[Cycle].copy = job[Cycle].copy
    BY <1>8, OthersLeaveThePlan
  <2>3. row' \in Rows /\ row'.retry \in Nat /\ row'.repair \in Nat
    BY <1>8, RequestTyped DEF HealthTypeOK, Rows
  <2> QED BY <1>8, <2>1, <2>2, <2>3, <1>c, RequestRow
          DEF CycleInv, ChargedNoMore, JudgedIsCurrent, RetryIsLeft
<1>9. ASSUME NEW d \in Checks, ("check" \in requests /\ StartCheck(d)) \/ CheckStep(d)
      PROVE  FALSE
  BY <1>9, <1>o DEF OnlyTheCycle, CheckStep, Register, ReadRecord, Check, CheckCancelled, Effect,
         EffectDelete, EffectHide, EffectZombie, EffectRegenerate, EffectRescan, AtEffect,
         DirectWrite, CheckFailed
<1>10. CASE UNCHANGED recordVars
  BY <1>10 DEF recordVars, ledger, CycleInv, OnlyTheCycle, ChargedNoMore, JudgedIsCurrent,
               RetryIsLeft
<1> QED BY <1>1, <1>2, <1>3, <1>4, <1>5, <1>6, <1>7, <1>8, <1>9, <1>10 DEF HealthNext, CycleStep

(* There is no record, and nobody checks, at first. *)
LEMMA RecordInit == HealthInit => RecordInv
<1> SUFFICES ASSUME HealthInit
             PROVE  RecordInv
  OBVIOUS
<1> USE HealthConstants DEF HealthInit
<1>1. HealthTypeOK
  <2>0. NoRow \in Rows /\ FreshRow \in Rows
    BY DEF NoRow, FreshRow, Rows
  <2>1. row \in Rows /\ NoJob \in Jobs
    BY <2>0 DEF NoJob, Jobs
  <2>2. job \in [Runners -> Jobs]
    BY <2>1
  <2>3. requests \in SUBSET AllRequests /\ copy \in 1..MaxCopies /\ vouched \in 0..MaxCopies
    OBVIOUS
  <2>4. active \in Checks \cup {None} /\ importing \in BOOLEAN /\ strayed \in BOOLEAN
    OBVIOUS
  <2> QED BY <2>1, <2>2, <2>3, <2>4 DEF HealthTypeOK
<1>2. Cycle \in Runners /\ Checks \subseteq Runners /\ NoJob.at = "idle"
  BY DEF Runners, NoJob
<1>3. row.status = "pending" /\ row.retry = 0 /\ row.repair = 0
  BY DEF FreshRow, NoRow
<1> QED BY <1>1, <1>2, <1>3
        DEF RecordInv, SelectedAreDue, PlannedOnBudget, CycleInv, OnlyTheCycle, ChargedNoMore,
            JudgedIsCurrent, RetryIsLeft

(* Every step of HealthRecord keeps its invariant. *)
LEMMA RecordNext == RecordInv /\ [HealthNext]_recordVars => RecordInv'
<1> SUFFICES ASSUME RecordInv, [HealthNext]_recordVars
             PROVE  RecordInv'
  OBVIOUS
<1>1. HealthTypeOK' /\ CycleJobOK'
  BY RecordTyped, CycleJobKept DEF RecordInv, CycleJobOK
<1>2. requests' = requests
  BY DEF HealthNext, CycleStep, SelectCheck, MarkChecking, SelectRepair, Notify, CycleFrame, Check,
         Effect, EffectDelete, EffectHide, EffectZombie, EffectRegenerate, EffectRescan,
         CycleWrite, WriteFrame, StartCheck, CheckStep, Register, ReadRecord, CheckCancelled,
         DirectWrite, CheckFailed, Request, CancelRequest, RestartRequest, DeleteRequest,
         RepairRequest, StreamFails, ImportWrite, ImportSchedule, Download, Rename, Reboot,
         recordVars, scenario
<1>3. "check" \notin requests => CycleInv'
  BY CycleInvKept DEF RecordInv, CycleJobOK
<1> QED BY <1>1, <1>2, <1>3 DEF RecordInv, CycleJobOK

(* What a cycle, a background check, requests, imports and webhooks may    *)
(* find the record of a file to be (worker.go, health_repository.go).      *)
THEOREM RecordInvariant == HealthSpec => []RecordInv
BY RecordInit, RecordNext, PTL DEF HealthSpec

(* Whatever runs and whatever is asked for, the record, the metadata and   *)
(* the jobs are well typed.                                                *)
THEOREM RecordTypeCorrect == HealthSpec => []HealthTypeOK
<1>1. RecordInv => HealthTypeOK
  BY DEF RecordInv
<1> QED BY <1>1, RecordInvariant, PTL

(* A healthy record is about the copy that is there, as long as only the   *)
(* cycle checks: the guard of UpdateHealthStatusBulk on the status.        *)
THEOREM HealthyIsAboutTheCopy == HealthSpec => []HealthyIsCurrent
<1>1. RecordInv => HealthyIsCurrent
  BY DEF RecordInv, CycleInv, HealthyIsCurrent
<1> QED BY <1>1, RecordInvariant, PTL

(* The repair budget is never overdrawn, as long as only the cycle checks: *)
(* the comparison with repair_retry_count comes long before the increment. *)
THEOREM BudgetIsNeverOverdrawn == HealthSpec => []BudgetIsKept
<1>1. RecordInv => BudgetIsKept
  BY DEF RecordInv, CycleInv, BudgetIsKept
<1> QED BY <1>1, RecordInvariant, PTL

(* No more than MaxRetries retries are counted, as long as only the cycle  *)
(* checks.                                                                 *)
THEOREM RetriesNeverExceed == HealthSpec => []RetriesAreBounded
<1>1. RecordInv => RetriesAreBounded
  BY DEF RecordInv, CycleInv, RetriesAreBounded
<1> QED BY <1>1, RecordInvariant, PTL
================================================================================
