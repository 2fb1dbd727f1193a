----------------------------- MODULE HealthRecord -----------------------------
(***************************************************************************)
(* The health record of one file and everyone who changes it: the worker's *)
(* check cycle (internal/health/worker.go), checks that the API starts in  *)
(* the background, the health API, the ARR's webhooks, imports and failed  *)
(* streams, over the row of file_health (internal/database) and the file's *)
(* metadata.  Rows are written one statement at a time by path, and the    *)
(* cycle's result only if the row still has the status the cycle gave it.  *)
(*                                                                         *)
(* Which verdict a check reaches is up to the provider and left open.  A   *)
(* copy is one download of the title: an import writes another one under   *)
(* the same virtual path.  When a check is due is left open too.           *)
(***************************************************************************)
EXTENDS Integers, FiniteSets

CONSTANTS
    Checks,          \* goroutines of PerformBackgroundCheck
    Scenarios,       \* the sets of requests to look at
    MaxRetries,      \* GetMaxRetries
    MaxRepairs,      \* GetMaxRepairRetries
    MaxCopies,       \* bound on the copies of the title
    MaxAsked         \* bound on the rescans asked for on one budget

AllRequests == {"check", "cancel", "restart", "delete", "repair", "stream", "import",
                "download", "rename", "reboot", "failure"}

(* GetMaxRetries and GetMaxRepairRetries are never below one; a check is   *)
(* neither the cycle nor the mark of no check.                             *)
ASSUME HealthConstants ==
    /\ IsFiniteSet(Checks) /\ {"none", "cycle"} \cap Checks = {}
    /\ MaxRetries \in Nat \ {0} /\ MaxRepairs \in Nat \ {0}
    /\ MaxCopies \in Nat \ {0} /\ MaxAsked \in Nat
    /\ Scenarios \subseteq SUBSET AllRequests

VARIABLES
    requests,        \* what else happens to the record in this behaviour
    mode,            \* what corruption leads to: "repair", "delete" or "off"
    row,             \* the row: status, retries, repairs, relinked to the library
    meta,            \* the metadata file: "visible", "hidden" or "gone"
    copy,            \* number of the copy that the metadata describes
    job,             \* the work of the cycle and of each background check
    active,          \* the check in hw.activeChecks, or "none"
    importing,       \* an import has written the metadata but not the row
    asked,           \* history: rescans the worker asked for on this budget
    dropped,         \* history: results of these that never reached the row
    strayed,         \* history: a verdict on an older copy hid or deleted the copy
    vouched          \* history: the copy that the row's last healthy verdict was about

ledger == <<asked, dropped, vouched>>
scenario == <<requests, mode>>
recordVars ==
    <<scenario, row, meta, copy, job, active, importing, ledger, strayed>>

None == "none"
Cycle == "cycle"
Runners == Checks \cup {Cycle}

NoRow == [status |-> "absent", retry |-> 0, repair |-> 0, relinked |-> FALSE]
FreshRow == [NoRow EXCEPT !.status = "pending"]
Present == row.status # "absent"

(* A job: where it is, the row it goes by, the copy it has judged, what it *)
(* does outside the row, what it writes to the row, whether its context is *)
(* cancelled and whether the file still has the path it knows.             *)
NoJob == [at |-> "idle", fh |-> NoRow, copy |-> 0, effect |-> "none", update |-> "skip",
          cancelled |-> FALSE, here |-> TRUE]

Set(p, j) == job' = [job EXCEPT ![p] = j]

HealthInit ==
    /\ requests \in Scenarios /\ mode \in {"repair", "delete", "off"}
    /\ row = FreshRow
    /\ meta = "visible" /\ copy = 1
    /\ job = [p \in Runners |-> NoJob] /\ active = None
    /\ importing = FALSE
    /\ asked = 0 /\ dropped = 0 /\ strayed = FALSE /\ vouched = 0

-----------------------------------------------------------------------------

(* Faulty variant: a rescan is not counted.                                *)
ChargedNothing(r) == r

(* repair_retry_count = repair_retry_count + 1                             *)
Charged(r) == [r EXCEPT !.repair = @ + 1]

(* The statements of UpdateHealthStatusBulk.                               *)
Updated(r, update) ==
    CASE update = "healthy"       -> [r EXCEPT !.status = "healthy", !.retry = 0, !.repair = 0]
      [] update = "retry"         -> [r EXCEPT !.status = "pending", !.retry = @ + 1]
      [] update = "repairRetry"   -> [Charged(r) EXCEPT !.status = "repair_triggered"]
      [] update = "repairTrigger" -> [r EXCEPT !.status = "repair_triggered"]
      [] update = "corrupted"     -> [r EXCEPT !.status = "corrupted"]
      [] update = "degraded"      -> [r EXCEPT !.status = "degraded"]

(* Without its row a title has its whole repair budget again, and a new    *)
(* count of rescans begins.                                                *)
DropRow == row' = NoRow /\ asked' = 0 /\ dropped' = 0 /\ vouched' = 0

(* UpdateFileHealth: an upsert by path, used to set a record to pending.   *)
Pending(r) == IF r = NoRow THEN FreshRow ELSE [r EXCEPT !.status = "pending"]

-----------------------------------------------------------------------------
(* Deciding about a result.                                                *)

Plan(effect, update) == [effect |-> effect, update |-> update]

(* Faulty variant: one retry too many.                                     *)
LastTryLate(fh) == fh.retry >= MaxRetries
(* Faulty variant: one rescan too many.                                    *)
SpentLate(fh) == fh.repair > MaxRepairs

(* The last retry, and the end of the repair budget.                       *)
LastTry(fh) == fh.retry >= MaxRetries - 1
Spent(fh) == fh.repair >= MaxRepairs

(* prepareUpdateForResult.                                                 *)
ResultPlan(fh, verdict) ==
    LET underRepair == fh.status = "repair_triggered" IN
    CASE verdict = "removed" -> Plan("none", "skip")
      [] verdict = "healthy" -> Plan("none", "healthy")
      [] verdict = "degraded" /\ ~underRepair -> Plan("none", "degraded")
      [] OTHER ->
         IF mode = "delete" THEN Plan("delete", "skip")
         ELSE IF underRepair
              THEN IF mode = "off" THEN Plan("none", "corrupted")
                   ELSE IF Spent(fh) THEN Plan("hide", "corrupted") ELSE Plan("none", "repairRetry")
         ELSE IF ~LastTry(fh) THEN Plan("none", "retry")
         ELSE IF Spent(fh) THEN Plan("hide", "corrupted")
         ELSE IF mode = "off" THEN Plan("none", "corrupted")
         ELSE Plan("repair", "repairRetry")

(* prepareRepairNotificationUpdate.                                        *)
NotificationPlan(fh) ==
    IF mode = "delete" THEN Plan("delete", "skip")
    ELSE IF Spent(fh) THEN Plan("none", "corrupted")
    ELSE Plan("retrigger", "repairRetry")

(* A job goes to its effect, or to its write when it has none.             *)
Planned(j, p) ==
    [j EXCEPT !.at = IF p.effect = "none" THEN "write" ELSE "effect",
              !.copy = copy, !.effect = p.effect, !.update = p.update]

(* What a job finds of the metadata under the path it knows.               *)
Sees(j) == IF j.here THEN meta ELSE "gone"

(* CheckFile.  prepareCheck deletes the row of a file without metadata.    *)
Check(p) ==
    /\ job[p].at = "check" /\ ~job[p].cancelled
    /\ IF Sees(job[p]) # "visible"
       THEN /\ Set(p, Planned(job[p], ResultPlan(job[p].fh, "removed")))
            /\ IF job[p].here THEN DropRow ELSE UNCHANGED <<row, ledger>>
       ELSE /\ \E verdict \in {"healthy", "degraded", "corrupted"} :
                  Set(p, Planned(job[p], ResultPlan(job[p].fh, verdict)))
            /\ UNCHANGED <<row, ledger>>
    /\ UNCHANGED <<scenario, meta, copy, active, importing, strayed>>

-----------------------------------------------------------------------------
(* Side effects, which come before the row is written.                     *)

(* The metadata under the path the job knows is moved or deleted.          *)
Becomes(p, state) ==
    IF Sees(job[p]) = "visible"
    THEN meta' = state /\ strayed' = (strayed \/ job[p].copy # copy)
    ELSE UNCHANGED <<meta, strayed>>

(* moveMetadataToSafetyFolder.                                             *)
Hide(p) == IF job[p].fh.relinked THEN Becomes(p, "hidden") ELSE UNCHANGED <<meta, strayed>>

ToWrite(p, update) == Set(p, [job[p] EXCEPT !.at = "write", !.update = update])

(* DeleteHealthRecord by the job's path.                                   *)
DropOwnRow(p) == IF job[p].here THEN DropRow ELSE UNCHANGED <<row, ledger>>

AtEffect(p, effects) == job[p].at = "effect" /\ job[p].effect \in effects

(* deleteCorruptedFile; an error leaves everything, the row too.           *)
EffectDelete(p) ==
    /\ AtEffect(p, {"delete"})
    /\ ToWrite(p, "skip")
    /\ \/ Becomes(p, "gone") /\ DropOwnRow(p)
       \/ "failure" \in requests /\ UNCHANGED <<row, meta, ledger, strayed>>
    /\ UNCHANGED <<scenario, copy, active, importing>>

(* markCorruptedRepairExhausted, or the move after the ARR has accepted.   *)
EffectHide(p) ==
    /\ AtEffect(p, {"hide"})
    /\ ToWrite(p, job[p].update)
    /\ Hide(p)
    /\ UNCHANGED <<scenario, row, copy, active, importing, ledger>>

(* triggerFileRepair finds no metadata: the record is a zombie.            *)
EffectZombie(p) ==
    /\ AtEffect(p, {"repair"}) /\ Sees(job[p]) # "visible"
    /\ ToWrite(p, "skip") /\ DropOwnRow(p)
    /\ UNCHANGED <<scenario, meta, copy, active, importing, strayed>>

(* It finds unreadable metadata, and regenerates it.                       *)
EffectRegenerate(p) ==
    /\ AtEffect(p, {"repair"}) /\ Sees(job[p]) = "visible" /\ ~job[p].fh.relinked
    /\ ToWrite(p, "healthy")
    /\ UNCHANGED <<scenario, row, meta, copy, active, importing, ledger, strayed>>

(* The ARR is asked for a rescan: triggerFileRepair, retriggerFileRepair   *)
(* and applyRepairOutcome.  It accepts; or it has another file already and *)
(* cleanupZombieRecord follows; or it refuses or cannot be reached.        *)
EffectRescan(p) ==
    /\ AtEffect(p, {"repair", "retrigger"})
    /\ job[p].effect = "repair" => Sees(job[p]) = "visible"
    /\ \/ /\ asked < MaxAsked
          /\ Set(p, [job[p] EXCEPT !.effect = "hide"])
          /\ asked' = asked + 1
          /\ UNCHANGED <<row, meta, dropped, vouched, strayed>>
       \/ /\ ToWrite(p, "skip")
          /\ Becomes(p, "gone") /\ DropOwnRow(p)
       \/ /\ \E update \in {"corrupted", "repairTrigger"} : ToWrite(p, update)
          /\ UNCHANGED <<row, meta, ledger, strayed>>
    /\ UNCHANGED <<scenario, copy, active, importing>>

Effect(p) ==
    EffectDelete(p) \/ EffectHide(p) \/ EffectZombie(p) \/ EffectRegenerate(p) \/ EffectRescan(p)

-----------------------------------------------------------------------------
(* The row is written.                                                     *)

(* The result does not reach the row, and with it the charge of a rescan.  *)
ResultLost(p) ==
    /\ dropped' = IF job[p].effect = "hide" /\ job[p].update = "repairRetry" THEN dropped + 1
                  ELSE dropped
    /\ UNCHANGED <<row, asked, vouched>>

(* UpdateHealthStatusBulk for one file; expected is the status that the    *)
(* row must still have, or none for an unguarded write.                    *)
WriteRow(p, expected) ==
    LET update == job[p].update
        lands == job[p].here /\ Present /\ expected \in {None, row.status} IN
    IF update = "skip" THEN UNCHANGED <<row, ledger>>
    ELSE IF ~lands THEN ResultLost(p)
    ELSE /\ row' = Updated(row, update)
         /\ IF update = "healthy" THEN asked' = 0 /\ dropped' = 0 /\ vouched' = job[p].copy
            ELSE UNCHANGED ledger

WriteFrame == UNCHANGED <<scenario, meta, copy, importing, strayed>>

(* Faulty variant: the write is not guarded.                               *)
CycleWriteUnguarded ==
    /\ job[Cycle].at = "write"
    /\ Set(Cycle, NoJob)
    /\ WriteRow(Cycle, None)
    /\ UNCHANGED active /\ WriteFrame

(* The end of the cycle; a write that fails is only logged.                *)
CycleWrite ==
    /\ job[Cycle].at = "write"
    /\ Set(Cycle, NoJob)
    /\ \/ WriteRow(Cycle, IF job[Cycle].fh.status = "repair_triggered" THEN "repair_triggered"
                          ELSE "checking")
       \/ "failure" \in requests /\ ResultLost(Cycle)
    /\ UNCHANGED active /\ WriteFrame

-----------------------------------------------------------------------------
(* The cycle.                                                              *)

CycleFrame == UNCHANGED <<scenario, meta, copy, active, importing, ledger, strayed>>

(* GetUnhealthyFiles.                                                      *)
SelectCheck ==
    /\ job[Cycle].at = "idle"
    /\ row.status \in {"pending", "healthy", "degraded"} /\ row.retry < MaxRetries
    /\ Set(Cycle, [NoJob EXCEPT !.at = "selected", !.fh = row])
    /\ UNCHANGED row /\ CycleFrame

(* SetFilesCheckingBulk, whatever the status has become.                   *)
MarkChecking ==
    /\ job[Cycle].at = "selected"
    /\ Set(Cycle, [job[Cycle] EXCEPT !.at = "check"])
    /\ row' = IF Present /\ job[Cycle].here THEN [row EXCEPT !.status = "checking"] ELSE row
    /\ CycleFrame

(* GetFilesForRepairNotification.                                          *)
SelectRepair ==
    /\ job[Cycle].at = "idle" /\ mode # "off"
    /\ row.status = "repair_triggered"
    /\ Set(Cycle, [NoJob EXCEPT !.at = "notify", !.fh = row])
    /\ UNCHANGED row /\ CycleFrame

(* The record is read again; one that has left repair_triggered is let     *)
(* alone, one that is gone is taken as it was read before.                 *)
Notify ==
    /\ job[Cycle].at = "notify"
    /\ IF Present /\ job[Cycle].here
       THEN IF row.status = "repair_triggered"
            THEN Set(Cycle, Planned([job[Cycle] EXCEPT !.fh = row], NotificationPlan(row)))
            ELSE Set(Cycle, NoJob)
       ELSE Set(Cycle, Planned(job[Cycle], NotificationPlan(job[Cycle].fh)))
    /\ UNCHANGED row /\ CycleFrame

CycleStep ==
    SelectCheck \/ MarkChecking \/ SelectRepair \/ Notify \/ Check(Cycle) \/ Effect(Cycle) \/ CycleWrite

-----------------------------------------------------------------------------
(* Background checks.                                                      *)

(* handleDirectHealthCheck sets the status by id and starts a goroutine.   *)
StartCheck(d) ==
    /\ job[d].at = "idle" /\ Present /\ row.status # "checking"
    /\ row' = [row EXCEPT !.status = "checking"]
    /\ Set(d, [NoJob EXCEPT !.at = "register"])
    /\ UNCHANGED <<scenario, meta, copy, active, importing, ledger, strayed>>

(* performDirectCheck enters its cancel function.                          *)
Register(d) ==
    /\ job[d].at = "register"
    /\ active' = d
    /\ Set(d, [job[d] EXCEPT !.at = "read"])
    /\ UNCHANGED <<scenario, row, meta, copy, importing, ledger, strayed>>

(* It is cancelled or finds no record, or goes on with the record it read. *)
ReadRecord(d) ==
    /\ job[d].at = "read"
    /\ Set(d, IF job[d].cancelled \/ ~Present \/ ~job[d].here
              THEN [job[d] EXCEPT !.at = "fail"]
              ELSE [job[d] EXCEPT !.at = "check", !.fh = row])
    /\ UNCHANGED <<scenario, row, meta, copy, active, importing, ledger, strayed>>

(* Cancelled, or after ten minutes.                                        *)
CheckCancelled(d) ==
    /\ job[d].at = "check"
    /\ job[d].cancelled \/ "failure" \in requests
    /\ Set(d, [job[d] EXCEPT !.at = "fail"])
    /\ UNCHANGED <<scenario, row, meta, copy, active, importing, ledger, strayed>>

(* The result is written whatever the status is; the deferred delete takes *)
(* away the entry of whichever check of the file is in the map.            *)
DirectWrite(d) ==
    /\ job[d].at = "write"
    /\ \/ WriteRow(d, None) /\ Set(d, NoJob) /\ active' = None
       \/ /\ "failure" \in requests /\ Set(d, [job[d] EXCEPT !.at = "fail"])
          /\ ResultLost(d) /\ UNCHANGED active
    /\ WriteFrame

(* The caller sets a check that failed back to pending, with the context   *)
(* of the check: after ten minutes nothing is written any more.            *)
CheckFailed(d) ==
    /\ job[d].at = "fail"
    /\ \/ row' = IF job[d].here THEN Pending(row) ELSE row
       \/ "failure" \in requests /\ UNCHANGED row
    /\ Set(d, NoJob)
    /\ active' = None
    /\ UNCHANGED ledger /\ WriteFrame

CheckStep(d) ==
    Register(d) \/ ReadRecord(d) \/ Check(d) \/ CheckCancelled(d) \/ Effect(d) \/ DirectWrite(d)
      \/ CheckFailed(d)

-----------------------------------------------------------------------------
(* Requests.                                                               *)

(* CancelHealthCheck, which does nothing when no check is active.          *)
CancelActive ==
    /\ job' = IF active = None THEN job ELSE [job EXCEPT ![active].cancelled = TRUE]
    /\ active' = None
AfterCancel == IF active = None THEN row ELSE Pending(row)

CancelRequest ==
    /\ Present /\ active # None
    /\ CancelActive /\ row' = AfterCancel
    /\ UNCHANGED <<scenario, meta, copy, importing, ledger, strayed>>

(* handleRestartHealthChecksBulk: the budget is reset too.                 *)
RestartRequest ==
    /\ Present
    /\ CancelActive
    /\ row' = [AfterCancel EXCEPT !.status = "pending", !.retry = 0, !.repair = 0]
    /\ asked' = 0 /\ dropped' = 0
    /\ UNCHANGED <<scenario, meta, copy, importing, vouched, strayed>>

(* handleDeleteHealth, with or without the metadata.                       *)
DeleteRequest ==
    /\ Present
    /\ IF row.status = "checking" THEN CancelActive ELSE UNCHANGED <<job, active>>
    /\ DropRow
    /\ meta' \in {meta, "gone"}
    /\ UNCHANGED <<scenario, copy, importing, strayed>>

(* handleRepairHealth, when the ARR accepts.                               *)
RepairRequest ==
    /\ Present /\ row.status # "repair_triggered"
    /\ row' = [row EXCEPT !.status = "repair_triggered"]
    /\ UNCHANGED <<scenario, meta, copy, job, active, importing, ledger, strayed>>

(* updateFileHealthOnError, of a stream that was opened on copy c.  The    *)
(* library path of a row that no webhook has relinked may be set or not.   *)
StreamFails(c) ==
    LET failed(status) == row' = [Pending(row) EXCEPT !.status = status]
        loses(state) == /\ meta' = state
                        /\ strayed' = (strayed \/ (meta = "visible" /\ c # copy)) IN
    /\ \/ failed("degraded") /\ UNCHANGED <<meta, ledger, strayed>>
       \/ mode = "delete" /\ loses("gone") /\ DropRow
       \/ /\ mode # "delete"
          /\ row' = [Pending(row) EXCEPT !.status = "repair_triggered", !.retry = MaxRetries - 1]
          /\ \/ Present /\ meta = "visible" /\ loses("hidden")
             \/ ~row.relinked /\ UNCHANGED <<meta, strayed>>
             \/ meta # "visible" /\ UNCHANGED <<meta, strayed>>
          /\ UNCHANGED ledger
    /\ UNCHANGED <<scenario, copy, job, active, importing>>

(* Another copy is imported: first its metadata, then, when the importer   *)
(* has finished, the row; the repair budget is kept.                       *)
ImportWrite ==
    /\ ~importing /\ copy < MaxCopies
    /\ copy' = copy + 1 /\ meta' = "visible" /\ importing' = TRUE
    /\ UNCHANGED <<scenario, row, job, active, ledger, strayed>>

ImportSchedule ==
    /\ importing /\ importing' = FALSE
    /\ row' = [Pending(row) EXCEPT !.retry = 0, !.relinked = FALSE]
    /\ UNCHANGED <<scenario, meta, copy, job, active, ledger, strayed>>

(* A Download webhook: relinkOrMergeRecordTx, which lets a repair alone    *)
(* that is less than a minute old, or a new record for a known file.       *)
Download ==
    /\ Present \/ meta = "visible"
    /\ \/ row' = [Pending(row) EXCEPT !.retry = 0, !.relinked = TRUE]
       \/ /\ row.status \in {"repair_triggered", "corrupted"}
          /\ row' = [row EXCEPT !.relinked = TRUE]
    /\ UNCHANGED <<scenario, meta, copy, job, active, importing, ledger, strayed>>

(* The file and its record get another path; what is in progress goes on   *)
(* with the path it knows.                                                 *)
Rename ==
    /\ Present /\ \E p \in Runners : job[p].at # "idle" /\ job[p].here
    /\ job' = [p \in Runners |-> IF job[p].at = "idle" THEN NoJob ELSE [job[p] EXCEPT !.here = FALSE]]
    /\ active' = None
    /\ UNCHANGED <<scenario, row, meta, copy, importing, ledger, strayed>>

(* Rescans that were asked for and whose result is not written yet.        *)
Unwritten ==
    {p \in Runners : job[p].at \in {"effect", "write"} /\ job[p].effect = "hide"
                       /\ job[p].update = "repairRetry"}

(* Faulty variant: Start leaves records in checking.                       *)
RebootInChecking ==
    /\ \E p \in Runners : job[p].at # "idle"
    /\ job' = [p \in Runners |-> NoJob] /\ active' = None
    /\ dropped' = dropped + Cardinality(Unwritten)
    /\ UNCHANGED <<scenario, row, meta, copy, importing, asked, vouched, strayed>>

(* The process ends and starts again: Start resets what is stuck, and the  *)
(* queue an import that was under way.                                     *)
Reboot ==
    /\ \E p \in Runners : job[p].at # "idle"
    /\ job' = [p \in Runners |-> NoJob] /\ active' = None
    /\ row' = IF row.status = "checking" THEN Pending(row) ELSE row
    /\ dropped' = dropped + Cardinality(Unwritten)
    /\ UNCHANGED <<scenario, meta, copy, importing, asked, vouched, strayed>>

Request ==
    \/ "cancel" \in requests /\ CancelRequest
    \/ "restart" \in requests /\ RestartRequest
    \/ "delete" \in requests /\ DeleteRequest
    \/ "repair" \in requests /\ RepairRequest
    \/ "stream" \in requests /\ \E c \in 1..copy : StreamFails(c)
    \/ "import" \in requests /\ (ImportWrite \/ ImportSchedule)
    \/ "download" \in requests /\ Download
    \/ "rename" \in requests /\ Rename
    \/ "reboot" \in requests /\ Reboot

HealthNext ==
    \/ CycleStep
    \/ \E d \in Checks : ("check" \in requests /\ StartCheck(d)) \/ CheckStep(d)
    \/ Request

(* The worker's loop and the goroutines it has started run on.             *)
HealthFairness ==
    WF_recordVars(CycleStep) /\ \A d \in Checks : WF_recordVars(CheckStep(d))

HealthSpec == HealthInit /\ [][HealthNext]_recordVars /\ HealthFairness

-----------------------------------------------------------------------------
(* Properties.                                                             *)

Rows == [status : {"absent", "pending", "checking", "healthy", "degraded", "repair_triggered",
                   "corrupted"},
         retry : Nat, repair : Nat, relinked : BOOLEAN]

Jobs == [at : {"idle", "selected", "notify", "register", "read", "check", "effect", "write",
               "fail"},
         fh : Rows, copy : 0..MaxCopies,
         effect : {"none", "hide", "delete", "repair", "retrigger"},
         update : {"skip", "healthy", "retry", "repairRetry", "repairTrigger", "corrupted",
                   "degraded"},
         cancelled : BOOLEAN, here : BOOLEAN]

(* Every variable has a value of its type.                                 *)
HealthTypeOK ==
    /\ requests \in SUBSET AllRequests /\ mode \in {"repair", "delete", "off"}
    /\ row \in Rows
    /\ meta \in {"visible", "hidden", "gone"} /\ copy \in 1..MaxCopies
    /\ job \in [Runners -> Jobs]
    /\ active \in Checks \cup {None}
    /\ importing \in BOOLEAN /\ strayed \in BOOLEAN
    /\ asked \in 0..MaxAsked /\ dropped \in Nat /\ vouched \in 0..MaxCopies

(* Every rescan the worker asks of the ARR is charged to the title's       *)
(* budget, unless the guard discards the result because the record was     *)
(* changed in the meantime, or the process ends before it is written.      *)
RescansAreCharged == asked <= row.repair + dropped + Cardinality(Unwritten)

(* As long as only the cycle checks, a healthy record is about the copy    *)
(* that is there: a verdict on an older copy never outlives the import of  *)
(* the new one.                                                            *)
HealthyIsCurrent ==
    row.status = "healthy" /\ "check" \notin requests => vouched = copy \/ importing

(* As long as only the cycle checks, the budget is never overdrawn: a      *)
(* title is given up after MaxRepairs.                                     *)
BudgetIsKept == "check" \notin requests => row.repair <= MaxRepairs

(* As long as only the cycle checks, a record is never retried more often  *)
(* than MaxRetries.                                                        *)
RetriesAreBounded == "check" \notin requests => row.retry <= MaxRetries

(* A record does not stay in checking, which no query ever selects, unless *)
(* a write fails, or a background check takes ten minutes, whose return to *)
(* pending is written with an expired context (worker.go:357, 377), or the *)
(* file is renamed during the check.                                       *)
CheckingEnds ==
    row.status = "checking" /\ requests \cap {"failure", "rename"} = {} ~> row.status # "checking"

(* "The concurrent actor's decision wins instead of being silently         *)
(* clobbered": no verdict on an older copy takes the copy away.            *)
StaleVerdictsAreHarmless == ~strayed
=============================================================================
