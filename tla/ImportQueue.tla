----------------------------- MODULE ImportQueue -----------------------------
(***************************************************************************)
(* The import queue: the rows of import_queue (internal/database), the     *)
(* worker pool of the queue manager (internal/importer/queue/manager.go),  *)
(* the import service around it (internal/importer/service.go) and the     *)
(* requests of the queue API and of the SABnzbd-compatible API.            *)
(*                                                                         *)
(* An item is one row, named by its id; ids are never used again, so an    *)
(* NZB that is removed and added once more is another item.  The process   *)
(* may be stopped or may crash at any point and is then started again;     *)
(* only the table survives.  Most requests read the item's status in one   *)
(* query and act on it in another, with anything in between.               *)
(***************************************************************************)
EXTENDS Integers, FiniteSets

CONSTANTS
    Items,         \* ids of rows, of NZBs with different paths
    Workers,       \* goroutines the worker pool may use
    Backgrounds,   \* goroutines of ProcessItemInBackground
    Clients,       \* API requests in progress
    Ops,           \* the requests that clients make
    PoolSize,      \* configured number of workers at start
    MaxRestarts    \* bound on the number of restarts

AllOps == {"cancel", "retry", "restart", "remove", "sabRemove", "pause", "resume"}

ASSUME QueueConstants ==
    /\ Ops \subseteq AllOps
    /\ PoolSize \in 1..Cardinality(Workers)
    /\ MaxRestarts \in Nat
    /\ Workers \cap Backgrounds = {}
    /\ "none" \notin Items \cup Workers

Runners == Workers \cup Backgrounds

NoItem == "none"
NoRun == "none"
NoRequest == [op |-> "none", item |-> NoItem]

VARIABLES
    status,      \* the row's status, or "absent" before and "removed" after
    phase,       \* the process: "up", "stopping" or "down"
    paused,      \* m.paused
    live,        \* workers whose loop context is not cancelled
    at,          \* each runner's progress with its item
    job,         \* the item each runner works on
    cancelled,   \* runners whose item context is cancelled
    registry,    \* m.cancelFuncs
    request,     \* what each client has checked and is about to do
    asked,       \* items whose cancellation was accepted
    lostWrite,   \* items whose final status could not be written
    overtaken,   \* items that a request put to work on an outdated look at
                 \* their row, while runs of them go on
    restarts

serviceVars == <<phase, paused, live, restarts>>
runVars == <<at, job, cancelled, registry>>
noteVars == <<asked, lostWrite, overtaken>>
vars == <<status, serviceVars, runVars, request, noteVars>>

(* The values the CHECK constraint of the status column accepts.           *)
Accepted == {"pending", "processing", "completed", "failed", "fallback"}

Gone == {"absent", "removed"}

(* The runner owns its item: claimed it, and has not yet written how it    *)
(* ended.                                                                  *)
Active == {"claimed", "running", "succeeded", "failed"}

Set(i, s) == status' = [status EXCEPT ![i] = s]

(* UPDATE or DELETE ... WHERE id = ?: nothing happens to a row that is not *)
(* there, and the constraint makes the statement fail.                     *)
Update(i, s) ==
    status' = IF status[i] \in Gone \/ s \notin Accepted \cup {"removed"}
              THEN status ELSE [status EXCEPT ![i] = s]

Init ==
    /\ status \in [Items -> {"absent", "pending"}]
    /\ phase = "up"
    /\ paused = FALSE
    /\ live \in {W \in SUBSET Workers : Cardinality(W) = PoolSize}
    /\ at = [r \in Runners |-> IF r \in live THEN "idle" ELSE "off"]
    /\ job = [r \in Runners |-> NoItem]
    /\ cancelled = {}
    /\ registry = [i \in Items |-> NoRun]
    /\ request = [c \in Clients |-> NoRequest]
    /\ asked = {}
    /\ lostWrite = {}
    /\ overtaken = {}
    /\ restarts = 0

(* The statuses at which a handler goes on with its request.               *)
Allowed(op, s) ==
    CASE op = "cancel" -> s = "processing"
      [] op = "retry" -> s \in {"pending", "failed", "completed"}
      [] op = "restart" -> s \notin Gone \cup {"processing"}
      [] op = "remove" -> s \notin Gone \cup {"processing"}
      [] op = "sabRemove" -> s # "absent"
      [] op = "pause" -> s = "pending"
      [] op = "resume" -> s = "paused"

(* History only: a request acts on a row that no longer is as it has looked *)
(* at it, and a run that is over has written how it ended.                  *)
NoteLook(op, i) ==
    overtaken' = IF Allowed(op, status[i]) THEN overtaken ELSE overtaken \cup {i}

RunIsOver(r) ==
    overtaken' = IF \E q \in Runners \ {r} : job[q] = job[r] /\ at[q] \in Active
                 THEN overtaken ELSE overtaken \ {job[r]}

Step(r, from, to) ==
    /\ at[r] = from
    /\ at' = [at EXCEPT ![r] = to]

----------------------------------------------------------------------------
(* Adding and expiring rows.                                               *)

(* AddToQueue: an upsert that leaves pending and processing rows alone.    *)
AddToQueue(i) ==
    /\ phase # "down"
    /\ status[i] \notin {"processing", "pending", "removed"}
    /\ Set(i, "pending")
    /\ UNCHANGED <<serviceVars, runVars, request, noteVars>>

(* AddBatchToQueue: a conflicting row keeps its status.                    *)
AddBatchToQueue ==
    /\ phase # "down"
    /\ \E S \in SUBSET {i \in Items : status[i] = "absent"} :
         /\ S # {}
         /\ status' = [i \in Items |-> IF i \in S THEN "pending" ELSE status[i]]
    /\ UNCHANGED <<serviceVars, runVars, request, noteVars>>

(* DeleteFailedItemsOlderThan; which rows are old is decided by the clock. *)
CleanupFailed ==
    /\ phase # "down"
    /\ \E S \in SUBSET {i \in Items : status[i] = "failed"} :
         /\ S # {}
         /\ status' = [i \in Items |-> IF i \in S THEN "removed" ELSE status[i]]
    /\ UNCHANGED <<serviceVars, runVars, request, noteVars>>

(* RemoveFromQueueBulk, both queries of it: DELETE repeats the condition.  *)
RemoveBulk(S) ==
    /\ phase # "down"
    /\ S # {}
    /\ \A i \in S : status[i] \notin Gone \cup {"processing"}
    /\ status' = [i \in Items |-> IF i \in S THEN "removed" ELSE status[i]]
    /\ UNCHANGED <<serviceVars, runVars, request, noteVars>>

----------------------------------------------------------------------------
(* Running an item, on a worker or in the background.                      *)

(* The worker's ticker fires; what it reads of paused may change at once.  *)
Tick(w) ==
    /\ ~paused
    /\ Step(w, "idle", "due")
    /\ UNCHANGED <<status, serviceVars, job, cancelled, registry, request, noteVars>>

(* Faulty variant: the row's status is not looked at again by the UPDATE   *)
(* and processing rows count as available.                                 *)
ClaimAny(w) ==
    /\ phase = "up"
    /\ Step(w, "due", "claimed")
    /\ \E i \in Items :
         /\ status[i] \in {"pending", "processing"}
         /\ Set(i, "processing")
         /\ job' = [job EXCEPT ![w] = i]
         /\ lostWrite' = lostWrite \ {i}
    /\ UNCHANGED <<serviceVars, cancelled, registry, request, asked, overtaken>>

(* processNextItem claims a pending row in one transaction, with the       *)
(* manager's context: a worker that is not to go on may claim once more.   *)
(* The order by priority and age is left out: any pending row may be next. *)
Claim(w) ==
    /\ phase = "up"
    /\ Step(w, "due", "claimed")
    /\ \E i \in Items :
         /\ status[i] = "pending"
         /\ Set(i, "processing")
         /\ job' = [job EXCEPT ![w] = i]
         /\ lostWrite' = lostWrite \ {i}
    /\ UNCHANGED <<serviceVars, cancelled, registry, request, asked, overtaken>>

(* Nothing to claim, or the database is busy.                              *)
ClaimNothing(w) ==
    /\ Step(w, "due", "idle")
    /\ UNCHANGED <<status, serviceVars, job, cancelled, registry, request, noteVars>>

(* ProcessItemInBackground reads the row, then sets its status; it gives   *)
(* up when the row is gone or a query fails.                               *)
GiveUp(b) ==
    /\ at[b] \in {"load", "mark"}
    /\ at' = [at EXCEPT ![b] = "off"]
    /\ job' = [job EXCEPT ![b] = NoItem]
    /\ UNCHANGED <<status, serviceVars, cancelled, registry, request, noteVars>>

LoadItem(b) ==
    /\ Step(b, "load", "mark")
    /\ status[job[b]] \notin Gone
    /\ UNCHANGED <<status, serviceVars, job, cancelled, registry, request, noteVars>>

MarkProcessing(b) ==
    /\ Step(b, "mark", "claimed")
    /\ Update(job[b], "processing")
    /\ lostWrite' = lostWrite \ {job[b]}
    /\ NoteLook("retry", job[b])
    /\ UNCHANGED <<serviceVars, job, cancelled, registry, request, asked>>

(* The cancel function: workers register it with the manager, background   *)
(* runs with the service, whose map nobody reads.                          *)
Register(r) ==
    /\ Step(r, "claimed", "running")
    /\ registry' = IF r \in Workers THEN [registry EXCEPT ![job[r]] = r]
                   ELSE registry
    /\ UNCHANGED <<status, serviceVars, job, cancelled, request, noteVars>>

(* ProcessItem returns.  A cancelled run fails unless it was done already; *)
(* one that is not cancelled ends either way.                              *)
Process(r) ==
    /\ at[r] = "running"
    /\ \E end \in {"succeeded", "failed"} : at' = [at EXCEPT ![r] = end]
    /\ UNCHANGED <<status, serviceVars, job, cancelled, registry, request, noteVars>>

(* Results are written with the manager's context, or the request's in the *)
(* background; the manager's is cancelled by Stop.                         *)
CanWrite(r) == r \in Backgrounds \/ phase = "up"

(* Faulty variant: the final status is not written.                        *)
HandleSuccessForgets(r) ==
    /\ Step(r, "succeeded", "ending")
    /\ \/ UNCHANGED <<status, lostWrite>>
       \/ UNCHANGED status /\ lostWrite' = lostWrite \cup {job[r]}
    /\ RunIsOver(r)
    /\ UNCHANGED <<serviceVars, job, cancelled, registry, request, asked>>

(* handleProcessingSuccess: any failing step before the status is written  *)
(* returns early.                                                          *)
HandleSuccess(r) ==
    /\ Step(r, "succeeded", "ending")
    /\ \/ CanWrite(r) /\ Update(job[r], "completed") /\ UNCHANGED lostWrite
       \/ UNCHANGED status /\ lostWrite' = lostWrite \cup {job[r]}
    /\ RunIsOver(r)
    /\ UNCHANGED <<serviceVars, job, cancelled, registry, request, asked>>

(* handleProcessingFailure: a failing write is logged, the rest goes on.   *)
HandleFailure(r) ==
    /\ Step(r, "failed", "fallback")
    /\ \/ CanWrite(r) /\ Update(job[r], "failed") /\ UNCHANGED lostWrite
       \/ UNCHANGED status /\ lostWrite' = lostWrite \cup {job[r]}
    /\ RunIsOver(r)
    /\ UNCHANGED <<serviceVars, job, cancelled, registry, request, asked>>

(* The row is removed when an external SABnzbd has taken the download over.*)
Fallback(r) ==
    /\ Step(r, "fallback", "ending")
    /\ \/ UNCHANGED status
       \/ CanWrite(r) /\ Update(job[r], "removed")
    /\ UNCHANGED <<serviceVars, job, cancelled, registry, request, noteVars>>

(* Faulty variant: the run does not take its cancel function back.         *)
EndRunKeepsEntry(r) ==
    /\ Step(r, "ending", IF r \in Workers THEN "idle" ELSE "off")
    /\ job' = [job EXCEPT ![r] = NoItem]
    /\ cancelled' = cancelled \ {r}
    /\ asked' = IF \E q \in Runners \ {r} : job[q] = job[r] THEN asked
                ELSE asked \ {job[r]}
    /\ UNCHANGED <<status, serviceVars, request, lostWrite, overtaken, registry>>

(* The deferred clean-up deletes the item's entry, whoever wrote it.       *)
EndRun(r) ==
    /\ Step(r, "ending", IF r \in Workers THEN "idle" ELSE "off")
    /\ job' = [job EXCEPT ![r] = NoItem]
    /\ cancelled' = cancelled \ {r}
    /\ registry' = IF r \in Workers THEN [registry EXCEPT ![job[r]] = NoRun]
                   ELSE registry
    /\ asked' = IF \E q \in Runners \ {r} : job[q] = job[r] THEN asked
                ELSE asked \ {job[r]}
    /\ UNCHANGED <<status, serviceVars, request, lostWrite, overtaken>>

(* A worker whose loop context is cancelled leaves between two items.      *)
WorkerExit(w) ==
    /\ w \notin live
    /\ Step(w, "idle", "off")
    /\ UNCHANGED <<status, serviceVars, job, cancelled, registry, request, noteVars>>

----------------------------------------------------------------------------
(* The manager and the process.                                            *)

PauseOrResume ==
    /\ phase = "up"
    /\ paused' = ~paused
    /\ UNCHANGED <<status, phase, live, restarts, runVars, request, noteVars>>

(* Faulty variant: shrinking the pool cancels what its workers are doing.  *)
ResizeCancels ==
    /\ phase = "up"
    /\ \/ \E w \in Workers :
            /\ at[w] = "off"
            /\ live' = live \cup {w}
            /\ at' = [at EXCEPT ![w] = "idle"]
            /\ UNCHANGED cancelled
       \/ \E w \in live :
            /\ Cardinality(live) > 1
            /\ live' = live \ {w}
            /\ cancelled' = IF job[w] = NoItem THEN cancelled
                            ELSE cancelled \cup {w}
            /\ UNCHANGED at
    /\ UNCHANGED <<status, phase, paused, restarts, job, registry, request, noteVars>>

(* Resize by one: start a worker, or cancel the loop of one.               *)
Resize ==
    /\ phase = "up"
    /\ \/ \E w \in Workers :
            /\ at[w] = "off"
            /\ live' = live \cup {w}
            /\ at' = [at EXCEPT ![w] = "idle"]
       \/ \E w \in live :
            /\ Cardinality(live) > 1
            /\ live' = live \ {w}
            /\ UNCHANGED at
    /\ UNCHANGED <<status, phase, paused, restarts, job, cancelled, registry,
                   request, noteVars>>

(* Manager.Stop cancels the loops and the context of every worker's item.  *)
Stop ==
    /\ phase = "up"
    /\ restarts < MaxRestarts
    /\ phase' = "stopping"
    /\ live' = {}
    /\ cancelled' = cancelled \cup {w \in Workers : job[w] # NoItem}
    /\ UNCHANGED <<status, paused, restarts, at, job, registry, request, noteVars>>

(* The process ends, after Stop or in the middle of anything.              *)
Exit ==
    /\ phase = "stopping" \/ (phase = "up" /\ restarts < MaxRestarts)
    /\ phase' = "down"
    /\ live' = {}
    /\ at' = [r \in Runners |-> "off"]
    /\ job' = [r \in Runners |-> NoItem]
    /\ cancelled' = {}
    /\ registry' = [i \in Items |-> NoRun]
    /\ request' = [c \in Clients |-> NoRequest]
    /\ asked' = {}
    /\ overtaken' = {}
    /\ UNCHANGED <<status, paused, restarts, lostWrite>>

(* Faulty variant: rows left behind in processing stay there.              *)
StartWithoutReset ==
    /\ phase = "down"
    /\ phase' = "up"
    /\ paused' = FALSE
    /\ live' \in {W \in SUBSET Workers : Cardinality(W) = PoolSize}
    /\ at' = [r \in Runners |-> IF r \in live' THEN "idle" ELSE "off"]
    /\ lostWrite' = {}
    /\ restarts' = restarts + 1
    /\ UNCHANGED <<status, job, cancelled, registry, request, asked, overtaken>>

(* Service.Start: ResetStaleItems, then the workers.                       *)
Start ==
    /\ phase = "down"
    /\ phase' = "up"
    /\ paused' = FALSE
    /\ status' = [i \in Items |-> IF status[i] = "processing" THEN "pending"
                                  ELSE status[i]]
    /\ live' \in {W \in SUBSET Workers : Cardinality(W) = PoolSize}
    /\ at' = [r \in Runners |-> IF r \in live' THEN "idle" ELSE "off"]
    /\ lostWrite' = {}
    /\ restarts' = restarts + 1
    /\ UNCHANGED <<job, cancelled, registry, request, asked, overtaken>>

----------------------------------------------------------------------------
(* Requests: the handler checks the row, then acts.                        *)

Check(c, op, i) ==
    /\ phase # "down"
    /\ request[c] = NoRequest
    /\ Allowed(op, status[i])
    /\ request' = [request EXCEPT ![c] = [op |-> op, item |-> i]]
    /\ UNCHANGED <<status, serviceVars, runVars, noteVars>>

Act(c, op) ==
    /\ request[c].op = op
    /\ request' = [request EXCEPT ![c] = NoRequest]

(* Manager.CancelProcessing.                                               *)
Cancel(c) ==
    LET i == request[c].item IN
    /\ Act(c, "cancel")
    /\ cancelled' = IF registry[i] = NoRun THEN cancelled
                    ELSE cancelled \cup {registry[i]}
    /\ asked' = asked \cup {i}
    /\ UNCHANGED <<status, serviceVars, at, job, registry, lostWrite, overtaken>>

(* ExecuteItem hands the item to a goroutine of its own.                   *)
Retry(c) ==
    /\ Act(c, "retry")
    /\ \E b \in Backgrounds :
         /\ at[b] = "off"
         /\ at' = [at EXCEPT ![b] = "load"]
         /\ job' = [job EXCEPT ![b] = request[c].item]
    /\ UNCHANGED <<status, serviceVars, cancelled, registry, noteVars>>

(* RestartQueueItemsBulk: the UPDATE does not look at the status again.    *)
Restart(c) ==
    /\ Act(c, "restart")
    /\ Update(request[c].item, "pending")
    /\ NoteLook("restart", request[c].item)
    /\ UNCHANGED <<serviceVars, runVars, asked, lostWrite>>

(* RemoveFromQueue, after a look at the status or without one.             *)
Remove(c) ==
    /\ Act(c, "remove") \/ Act(c, "sabRemove")
    /\ Update(request[c].item, "removed")
    /\ UNCHANGED <<serviceVars, runVars, noteVars>>

(* handleSABnzbdQueuePause, for one item.                                  *)
SetPaused(c) ==
    /\ \E op \in {"pause", "resume"} :
         /\ Act(c, op)
         /\ Update(request[c].item, IF op = "pause" THEN "paused" ELSE "pending")
    /\ UNCHANGED <<serviceVars, runVars, noteVars>>

----------------------------------------------------------------------------
RunStep(r) ==
    \/ Register(r) \/ Process(r) \/ HandleSuccess(r) \/ HandleFailure(r)
    \/ Fallback(r) \/ EndRun(r)

BackgroundStep(b) == LoadItem(b) \/ MarkProcessing(b) \/ GiveUp(b)

ClientStep(c) ==
    \/ \E op \in Ops, i \in Items : Check(c, op, i)
    \/ Cancel(c) \/ Retry(c) \/ Restart(c) \/ Remove(c) \/ SetPaused(c)

Next ==
    \/ \E i \in Items : AddToQueue(i)
    \/ AddBatchToQueue \/ CleanupFailed
    \/ \E S \in SUBSET Items : RemoveBulk(S)
    \/ \E w \in Workers : Tick(w) \/ Claim(w) \/ ClaimNothing(w) \/ WorkerExit(w)
    \/ \E b \in Backgrounds : BackgroundStep(b)
    \/ \E r \in Runners : RunStep(r)
    \/ PauseOrResume \/ Resize \/ Stop \/ Exit \/ Start
    \/ \E c \in Clients : ClientStep(c)

Spec == Init /\ [][Next]_vars

(* A runner that has an item goes on with it: downloads and database calls *)
(* end, by their timeouts if need be.  A server that stops exits and is    *)
(* started again.  Nobody has to add items or make requests.               *)
Fairness ==
    /\ \A b \in Backgrounds : WF_vars(BackgroundStep(b))
    /\ \A r \in Runners : WF_vars(RunStep(r))
    /\ WF_vars(phase = "stopping" /\ Exit)
    /\ WF_vars(Start)

FairSpec == Spec /\ Fairness

----------------------------------------------------------------------------
(* Properties.                                                             *)

(* The variables keep their types, a runner has an item exactly while it   *)
(* is doing something, and the manager's map of cancel functions has none  *)
(* of a run that is over, where it would cancel the item's next run.       *)
TypeOK ==
    /\ status \in [Items -> Accepted \cup Gone]
    /\ phase \in {"up", "stopping", "down"}
    /\ paused \in BOOLEAN
    /\ live \subseteq Workers
    /\ at \in [Runners -> Active \cup {"off", "idle", "due", "load", "mark",
                                   "fallback", "ending"}]
    /\ job \in [Runners -> Items \cup {NoItem}]
    /\ \A r \in Runners : job[r] = NoItem <=> at[r] \in {"off", "idle", "due"}
    /\ cancelled \subseteq {r \in Runners : job[r] # NoItem}
    /\ registry \in [Items -> Workers \cup {NoRun}]
    /\ \A i \in Items : registry[i] # NoRun => job[registry[i]] = i
    /\ request \in [Clients -> {NoRequest} \cup [op : Ops, item : Items]]
    /\ asked \subseteq Items /\ lostWrite \subseteq Items /\ overtaken \subseteq Items
    /\ restarts \in 0..MaxRestarts

(* "This prevents multiple workers from processing the same item"          *)
(* (repository.go:145): no two runs own the same item.                     *)
ClaimsAreExclusive ==
    \A r1, r2 \in Runners :
        /\ r1 # r2
        /\ at[r1] \in Active /\ at[r2] \in Active
        => job[r1] # job[r2]

(* Two runs own one item only after a restart or a retry that looked at    *)
(* the row and acted when it no longer was as it had looked: claims, other *)
(* requests, crashes and restarts never let a second run in, and once the  *)
(* runs of such an item are over it is exclusive again.                    *)
OnlyStaleLooksShareItems ==
    \A r1, r2 \in Runners :
        /\ r1 # r2
        /\ at[r1] \in Active /\ at[r2] \in Active
        /\ job[r1] = job[r2]
        => job[r1] \in overtaken

(* A row says processing only while somebody is at work on it, unless the  *)
(* database refused the final status: no request and no restart leaves an  *)
(* item behind that nobody will finish.                                    *)
NoOrphanProcessing ==
    phase = "up" =>
        \A i \in Items :
            status[i] = "processing" =>
                \/ i \in lostWrite
                \/ \E r \in Runners : job[r] = i /\ at[r] \in Active

(* "When scaling down, excess workers finish their current item before     *)
(* stopping" (manager.go:251): while the server is up, a run is cancelled  *)
(* only if its item's cancellation was asked for.                          *)
OnlyAskedRunsAreCancelled ==
    phase = "up" => \A r \in cancelled : job[r] \in asked

(* An item does not stay in processing: its run ends and says how, and     *)
(* after a crash or a shutdown in the middle the next start takes it up    *)
(* again; only a refused database write leaves it to the next restart.     *)
ProcessingEnds ==
    \A i \in Items :
        status[i] = "processing" ~> status[i] # "processing" \/ i \in lostWrite

(* "CancelProcessing cancels a processing queue item by cancelling its     *)
(* context" (service.go:1449).                                             *)
CancelReachesRun ==
    [][\A c \in Clients : \A r \in Runners :
         Cancel(c) /\ at[r] = "running" /\ job[r] = request[c].item
             => r \in cancelled']_vars

(* "Resets a failed, pending, or completed queue item to pending so it is  *)
(* picked up by the worker pool" (queue_handlers.go:260).                  *)
RetryUsesThePool ==
    [][\A i \in Items :
         status[i] # "processing" /\ status'[i] = "processing"
             => \E w \in Workers : job'[w] = i]_vars

(* handleSABnzbdQueuePause "handles pausing/resuming a queue item"         *)
(* (sabnzbd_handlers.go:208): a pending item that is paused is paused.     *)
PauseTakesEffect ==
    [][\A c \in Clients :
         /\ request[c].op = "pause" /\ SetPaused(c)
         /\ status[request[c].item] = "pending"
         => status'[request[c].item] = "paused"]_vars

(* "Cannot delete items currently being processed"                         *)
(* (queue_handlers.go:205).                                                *)
DeleteSparesProcessing ==
    [][\A c \in Clients :
         request[c].op = "remove" /\ Remove(c)
             => status[request[c].item] # "processing"]_vars
==============================================================================
