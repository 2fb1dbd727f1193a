------------------------------- MODULE MCHealth -------------------------------
(* A small instance of HealthRecord and HealthLifecycle for TLC.  The two   *)
(* share no state, and a behaviour is one of the module that focus names.   *)
EXTENDS HealthRecord, HealthLifecycle

CycleAndRequests == {"restart", "delete", "repair", "reboot"}
CycleAndPlayback == {"stream", "import", "download", "repair"}
CyclesAndChecks == {"check", "cancel", "delete"}
RenamesAndChecks == {"check", "rename"}
FailuresAndChecks == {"check", "failure"}
SmallScenarios == {CycleAndRequests, CycleAndPlayback, CyclesAndChecks, RenamesAndChecks,
                   FailuresAndChecks}

VARIABLE focus

Init ==
    /\ focus \in {"record", "lifecycle"}
    /\ HealthInit /\ LifecycleInit
    /\ requests # CycleAndRequests => mode = "repair"
    /\ focus = "lifecycle" => requests = CycleAndRequests /\ mode = "off"

Next ==
    /\ UNCHANGED focus
    /\ \/ focus = "record" /\ HealthNext /\ UNCHANGED lifecycleVars
       \/ focus = "lifecycle" /\ LifecycleNext /\ UNCHANGED recordVars

RecordFairness ==
    /\ WF_recordVars(focus = "record" /\ CycleStep)
    /\ \A d \in Checks : WF_recordVars(focus = "record" /\ CheckStep(d))

Spec == Init /\ [][Next]_<<focus, recordVars, lifecycleVars>> /\ RecordFairness

LifecycleSpec ==
    /\ Init /\ focus = "lifecycle" /\ [][Next]_<<focus, recordVars, lifecycleVars>>
    /\ LifecycleFairness

(* Every variable of the two modules has a value of its type.               *)
HealthSystemTypeOK == HealthTypeOK /\ LifecycleTypeOK
===============================================================================
