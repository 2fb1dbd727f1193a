---------------------------- MODULE HealthLifecycle ----------------------------
(***************************************************************************)
(* Starting and stopping the health worker and the library sync            *)
(* (internal/health/controller.go, worker.go, library_sync.go): callbacks  *)
(* of configuration changes, requests for the library sync, and the        *)
(* shutdown of the server, against the two loops.                          *)
(*                                                                         *)
(* A start gives its loop a number.  hw.mu is held over a step only        *)
(* by Stop, which waits under it; every other section under hw.mu, lsw.mu  *)
(* or the configuration's lock is one action.                              *)
(***************************************************************************)
EXTENDS Integers, FiniteSets

CONSTANTS
    Updaters,      \* goroutines that update the configuration
    MaxStarts,     \* bound on the starts of each loop
    MaxUpdates     \* bound on the changes of the setting

ASSUME LifecycleConstants ==
    /\ {"none", "main"} \cap Updaters = {}
    /\ MaxStarts \in Nat \ {0} /\ MaxUpdates \in Nat

VARIABLES
    enabled,       \* Health.Enabled in the current configuration
    updates,       \* changes so far
    callback,      \* each updater's callback: the old and new setting, where it is
    hscMu,         \* who holds the controller's lock, or none
    hwMu,          \* who holds hw.mu in Stop, or none
    running,       \* hw.running
    stopClosed,    \* hw.stopChan is closed
    panics,        \* history: Stops that closed it a second time
    loops,         \* where the health worker's loops are
    syncRunning,   \* lsw.running
    syncLoops,     \* where the library sync's loops are
    syncCancel,    \* the loop that lsw.cancelFunc cancels, or 0
    syncCancelled, \* loops whose context is cancelled
    main           \* "serving", "stopping" (the context is cancelled) or "stopped"

Nobody == "none"
Main == "main"
Actors == Updaters \cup {Main}

controller == <<enabled, updates, callback, hscMu>>
worker == <<hwMu, running, stopClosed, panics, loops>>
library == <<syncRunning, syncLoops, syncCancel, syncCancelled>>
lifecycleVars == <<controller, worker, library, main>>

Starts == 1..MaxStarts
Running(ls) == {k \in Starts : ls[k] \notin {"unborn", "ended"}}
Unborn(ls) == {k \in Starts : ls[k] = "unborn"}
Fresh(ls) == CHOOSE k \in Starts : ls[k] = "unborn"

NoCallback == [at |-> "idle", old |-> FALSE, new |-> FALSE]

(* A server that starts with the health system enabled (startHealthWorker). *)
LifecycleInit ==
    /\ enabled = TRUE /\ updates = 0
    /\ callback = [u \in Updaters |-> NoCallback] /\ hscMu = Nobody
    /\ hwMu = Nobody /\ running = TRUE /\ stopClosed = FALSE /\ panics = 0
    /\ loops = [k \in Starts |-> IF k = 1 THEN "select" ELSE "unborn"]
    /\ syncRunning = TRUE /\ syncCancel = 1 /\ syncCancelled = {}
    /\ syncLoops = [k \in Starts |-> IF k = 1 THEN "begin" ELSE "unborn"]
    /\ main = "serving"

-----------------------------------------------------------------------------
(* Health worker.                                                          *)

(* Start; it does nothing while the configuration says disabled.           *)
StartWorker ==
    /\ hwMu = Nobody
    /\ IF running \/ ~enabled
       THEN UNCHANGED worker
       ELSE /\ Unborn(loops) # {}
            /\ running' = TRUE
            /\ loops' = [loops EXCEPT ![Fresh(loops)] = "select"]
            /\ UNCHANGED <<hwMu, stopClosed, panics>>

(* Stop until it waits: the channel is closed, or closing it panics.       *)
StopBegin(a) ==
    /\ hwMu = Nobody /\ running
    /\ IF stopClosed
       THEN /\ panics' = panics + 1
            /\ UNCHANGED <<hwMu, running, stopClosed>>
       ELSE /\ stopClosed' = TRUE /\ running' = FALSE /\ hwMu' = a
            /\ UNCHANGED panics
    /\ UNCHANGED loops

(* Faulty variant: Stop does not wait for the loop.                        *)
StopEndAtOnce(a) ==
    /\ hwMu = a
    /\ hwMu' = Nobody
    /\ UNCHANGED <<running, stopClosed, panics, loops>>

(* hw.wg.Wait has returned.                                                *)
StopEnd(a) ==
    /\ hwMu = a /\ Running(loops) = {}
    /\ hwMu' = Nobody
    /\ UNCHANGED <<running, stopClosed, panics, loops>>

Moves(k, from, to) == loops[k] = from /\ loops' = [loops EXCEPT ![k] = to]
LoopFrame == UNCHANGED <<controller, library, main, hwMu, running, stopClosed, panics>>

(* The select of run: the context, the stop channel or the ticker.         *)
LoopEnds(k) ==
    /\ stopClosed \/ main # "serving"
    /\ Moves(k, "select", "ended") /\ LoopFrame

LoopTicks(k) == Moves(k, "select", "tick") /\ LoopFrame

(* cycleRunning is read and then set by runHealthCheckCycle, each time     *)
(* under hw.mu; the loop itself is the only one to set it.                 *)
LoopReads(k) == hwMu = Nobody /\ Moves(k, "tick", "enter") /\ LoopFrame
CycleBegins(k) == hwMu = Nobody /\ Moves(k, "enter", "cycle") /\ LoopFrame
CycleWorks(k) == Moves(k, "cycle", "leave") /\ LoopFrame
CycleEnds(k) == hwMu = Nobody /\ Moves(k, "leave", "select") /\ LoopFrame

LoopStep(k) ==
    LoopEnds(k) \/ LoopReads(k) \/ CycleBegins(k) \/ CycleWorks(k) \/ CycleEnds(k)

-----------------------------------------------------------------------------
(* Library sync.                                                           *)

(* StartLibrarySync.                                                       *)
StartSync ==
    IF syncRunning THEN UNCHANGED library
    ELSE /\ Unborn(syncLoops) # {}
         /\ LET k == Fresh(syncLoops) IN
            /\ syncLoops' = [syncLoops EXCEPT ![k] = "begin"]
            /\ syncCancel' = k
         /\ syncRunning' = TRUE
         /\ UNCHANGED syncCancelled

(* Stop, which does not wait for the loop.                                 *)
StopSync ==
    IF ~syncRunning THEN UNCHANGED library
    ELSE /\ syncCancelled' = IF syncCancel = 0 THEN syncCancelled ELSE syncCancelled \cup {syncCancel}
         /\ syncCancel' = 0
         /\ syncRunning' = FALSE
         /\ UNCHANGED syncLoops

SyncCancelled(k) == k \in syncCancelled \/ main # "serving"
SyncFrame == UNCHANGED <<controller, worker, main, syncCancel, syncCancelled>>

(* run reads the setting once.                                             *)
SyncBegins(k) ==
    /\ syncLoops[k] = "begin" /\ enabled
    /\ syncLoops' = [syncLoops EXCEPT ![k] = "select"]
    /\ UNCHANGED syncRunning /\ SyncFrame

(* Faulty variant: the flag is not cleared.                                *)
SyncEndsSilently(k) ==
    /\ \/ syncLoops[k] = "begin" /\ ~enabled
       \/ syncLoops[k] = "select" /\ SyncCancelled(k)
    /\ syncLoops' = [syncLoops EXCEPT ![k] = "ended"]
    /\ UNCHANGED syncRunning /\ SyncFrame

(* Its deferred function clears the flag, whoever has set it.              *)
SyncEnds(k) ==
    /\ \/ syncLoops[k] = "begin" /\ ~enabled
       \/ syncLoops[k] = "select" /\ SyncCancelled(k)
    /\ syncLoops' = [syncLoops EXCEPT ![k] = "ended"]
    /\ syncRunning' = FALSE
    /\ SyncFrame

(* A synchronisation, after the ticker or a manual trigger.                *)
SyncWorks(k) ==
    /\ syncLoops[k] = "select"
    /\ syncLoops' = [syncLoops EXCEPT ![k] = "sync"]
    /\ UNCHANGED syncRunning /\ SyncFrame

SyncDone(k) ==
    /\ syncLoops[k] = "sync"
    /\ syncLoops' = [syncLoops EXCEPT ![k] = "select"]
    /\ UNCHANGED syncRunning /\ SyncFrame

(* handleCancelLibrarySync.                                                *)
CancelLibrarySync ==
    main = "serving" /\ syncRunning /\ StopSync /\ UNCHANGED <<controller, worker, main>>

-----------------------------------------------------------------------------
(* The controller's callback.                                              *)

At(u, at) == callback[u].at = at
Goes(u, at) == callback' = [callback EXCEPT ![u].at = at] /\ UNCHANGED <<enabled, updates>>

(* UpdateConfig replaces the configuration and then calls the callbacks,   *)
(* without its lock.                                                       *)
UpdateConfig(u) ==
    /\ At(u, "idle") /\ updates < MaxUpdates /\ main = "serving"
    /\ enabled' = ~enabled /\ updates' = updates + 1
    /\ callback' = [callback EXCEPT ![u] = [at |-> "called", old |-> enabled, new |-> ~enabled]]
    /\ UNCHANGED <<hscMu, worker, library, main>>

(* Faulty variant: the callback takes no lock.                             *)
CallbackUnlocked(u) ==
    /\ At(u, "called")
    /\ hscMu' = u
    /\ Goes(u, IF callback[u].new THEN "start" ELSE "stopSync")
    /\ UNCHANGED <<worker, library, main>>

(* The callback takes the controller's lock.                               *)
CallbackLock(u) ==
    /\ At(u, "called") /\ hscMu = Nobody
    /\ hscMu' = u
    /\ Goes(u, IF callback[u].new THEN "start" ELSE "stopSync")
    /\ UNCHANGED <<worker, library, main>>

(* IsRunning and Start.                                                    *)
CallbackStart(u) ==
    /\ At(u, "start") /\ StartWorker
    /\ Goes(u, "startSync")
    /\ UNCHANGED <<hscMu, library, main>>

CallbackStartSync(u) ==
    /\ At(u, "startSync") /\ StartSync
    /\ Goes(u, "idle") /\ hscMu' = Nobody
    /\ UNCHANGED <<worker, main>>

CallbackStopSync(u) ==
    /\ At(u, "stopSync") /\ StopSync
    /\ Goes(u, "stop")
    /\ UNCHANGED <<hscMu, worker, main>>

(* IsRunning and Stop; a panic ends the request and frees the locks.       *)
CallbackStop(u) ==
    /\ At(u, "stop")
    /\ IF running
       THEN /\ StopBegin(u)
            /\ Goes(u, IF stopClosed THEN "idle" ELSE "wait")
            /\ hscMu' = IF stopClosed THEN Nobody ELSE u
       ELSE /\ hwMu = Nobody
            /\ Goes(u, "idle") /\ hscMu' = Nobody
            /\ UNCHANGED worker
    /\ UNCHANGED <<library, main>>

CallbackStopped(u) ==
    /\ At(u, "wait") /\ StopEnd(u)
    /\ Goes(u, "idle") /\ hscMu' = Nobody
    /\ UNCHANGED <<library, main>>

Callback(u) ==
    \/ CallbackLock(u) \/ CallbackStart(u) \/ CallbackStartSync(u)
    \/ CallbackStopSync(u) \/ CallbackStop(u) \/ CallbackStopped(u)

-----------------------------------------------------------------------------
(* Shutdown: the context is cancelled, then Stop is called.                *)

Shutdown ==
    /\ main = "serving"
    /\ main' = "stopping"
    /\ UNCHANGED <<controller, worker, library>>

ShutdownStop ==
    /\ main = "stopping"
    /\ IF running /\ ~stopClosed
       THEN StopBegin(Main) /\ main' = "waiting"
       ELSE hwMu = Nobody /\ main' = "stopped" /\ UNCHANGED worker
    /\ UNCHANGED <<controller, library>>

ShutdownStopped ==
    /\ main = "waiting" /\ StopEnd(Main)
    /\ main' = "stopped"
    /\ UNCHANGED <<controller, library>>

LifecycleNext ==
    \/ \E k \in Starts :
          \/ LoopTicks(k) \/ LoopStep(k)
          \/ SyncBegins(k) \/ SyncEnds(k) \/ SyncWorks(k) \/ SyncDone(k)
    \/ \E u \in Updaters : UpdateConfig(u) \/ Callback(u)
    \/ CancelLibrarySync
    \/ Shutdown \/ ShutdownStop \/ ShutdownStopped

(* Every goroutine runs on, a select does not prefer the ticker for ever   *)
(* over a cancelled context, and a synchronisation ends.                   *)
LifecycleFairness ==
    /\ \A k \in Starts :
          /\ WF_lifecycleVars(LoopStep(k)) /\ SF_lifecycleVars(LoopEnds(k))
          /\ WF_lifecycleVars(SyncBegins(k)) /\ WF_lifecycleVars(SyncDone(k))
          /\ SF_lifecycleVars(SyncEnds(k))
    /\ \A u \in Updaters : WF_lifecycleVars(Callback(u))
    /\ WF_lifecycleVars(ShutdownStop \/ ShutdownStopped)

WorkerSpec == LifecycleInit /\ [][LifecycleNext]_lifecycleVars /\ LifecycleFairness

-----------------------------------------------------------------------------
(* Properties.                                                             *)

(* Every variable has a value of its type, and only a holder of hsc.mu     *)
(* works in the controller.                                                *)
LifecycleTypeOK ==
    /\ enabled \in BOOLEAN /\ updates \in 0..MaxUpdates
    /\ callback \in [Updaters -> [at : {"idle", "called", "start", "startSync", "stopSync", "stop",
                                        "wait"},
                                  old : BOOLEAN, new : BOOLEAN]]
    /\ hscMu \in Updaters \cup {Nobody} /\ hwMu \in Actors \cup {Nobody}
    /\ \A u \in Updaters : ~At(u, "idle") /\ ~At(u, "called") <=> hscMu = u
    /\ running \in BOOLEAN /\ stopClosed \in BOOLEAN /\ panics \in Nat
    /\ loops \in [Starts -> {"unborn", "select", "tick", "enter", "cycle", "leave", "ended"}]
    /\ syncRunning \in BOOLEAN
    /\ syncLoops \in [Starts -> {"unborn", "begin", "select", "sync", "ended"}]
    /\ syncCancel \in 0..MaxStarts /\ syncCancelled \subseteq Starts
    /\ main \in {"serving", "stopping", "waiting", "stopped"}

(* However the setting is switched, cycles never overlap: a new loop only  *)
(* starts when Stop has waited for the old one.                            *)
OneHealthLoop == Cardinality(Running(loops)) <= 1

(* The library sync says that it runs only while a loop can be triggered   *)
(* and cancelled.                                                          *)
RunningSyncHasLoop ==
    syncRunning => \E k \in Running(syncLoops) : k \notin syncCancelled

(* "Library sync worker already running": there is one loop at a time that *)
(* is not cancelled.                                                       *)
OneSyncLoop == Cardinality(Running(syncLoops) \ syncCancelled) <= 1

(* "Stop gracefully stops the health worker."                              *)
StopReturns == \A a \in Actors : hwMu = a ~> hwMu # a

(* "Health system was disabled, now enabled - start workers": at rest the  *)
(* worker has a loop if and only if the setting says so.                   *)
SettingIsFollowed ==
    main = "serving" /\ (\A u \in Updaters : At(u, "idle"))
      => (enabled <=> Running(loops) # {})
================================================================================
