-------------------------- MODULE PlaybackAdmission --------------------------
(***************************************************************************)
(* The stream tracker and the import connection budget together, as        *)
(* internal/api/server.go wires them: the tracker's counter is the         *)
(* budget's stream activity source, and the tracker calls the budget's     *)
(* NotifyStreamChange at the end of every AddStream and Remove.            *)
(***************************************************************************)
EXTENDS StreamTracker

CONSTANTS Acquirers, MaxCapacity, StreamBaseHeadroom, StreamAdditionalHeadroom   \* see AdaptiveSemaphore

ASSUME AdmissionAssumption ==
    /\ IsFiniteSet(Acquirers) /\ MaxCapacity \in Nat
    /\ StreamBaseHeadroom \in Nat /\ StreamAdditionalHeadroom \in Nat

VARIABLES inFlight, waiters, signalled, caller, capacity, sourceSet   \* see AdaptiveSemaphore

(* Tracker operations that have moved the counter and not yet notified.    *)
NotificationsDue ==
    Cardinality({s \in Streams : life[s] = "counted"})
      + Cardinality({p \in Procs : streamAt[p] = "decremented"})

Budget == INSTANCE AdaptiveSemaphore
    WITH streams <- activeCount,
         pendingNotify <- NotificationsDue,
         MaxStreams <- Cardinality(Streams),
         MaxPendingNotify <- Cardinality(Procs)

budgetVars == <<inFlight, waiters, signalled, caller, capacity, sourceSet>>
admissionVars == <<trackerVars, budgetVars>>

(* The server is wired before it serves, and the pool is configured.       *)
AdmissionInit ==
    /\ TrackerInit
    /\ inFlight = 0
    /\ waiters = <<>>
    /\ signalled = {}
    /\ caller = [a \in Acquirers |-> "idle"]
    /\ capacity \in 1..MaxCapacity
    /\ sourceSet = TRUE

TrackerStep ==
    /\ QuietStep
    /\ UNCHANGED budgetVars

(* Faulty variant: the budget is not told.                                 *)
NotifyForgotten ==
    /\ NotifyStep
    /\ UNCHANGED budgetVars

(* The end of AddStream or Remove: the budget wakes its waiters.           *)
Notify ==
    /\ NotifyStep
    /\ Budget!Wake(inFlight, waiters, signalled, Budget!EffectiveCap)
    /\ UNCHANGED <<caller, capacity, sourceSet>>

ImportStep ==
    /\ UNCHANGED trackerVars
    /\ \E a \in Acquirers : Budget!CallerStep(a)

ReconfigureStep ==
    /\ UNCHANGED trackerVars
    /\ \E c \in 0..MaxCapacity : Budget!SetCapacity(c)

AdmissionNext == TrackerStep \/ Notify \/ ImportStep \/ ReconfigureStep

AdmissionSpec == AdmissionInit /\ [][AdmissionNext]_admissionVars

----------------------------------------------------------------------------
(* Properties.                                                             *)

(* The variables of both parts keep their types.                           *)
AdmissionTypeOK == TrackerTypeOK /\ Budget!SemaphoreTypeOK

(* A count change is always followed by a notification, so imports are     *)
(* never left waiting for headroom that a finished playback gave back.     *)
NoIdleHeadroom == Budget!NoIdleHeadroom

(* When nothing is being played, imports may use the whole pool.           *)
IdlePoolIsOpen ==
    Settled /\ tracked = {} => Budget!EffectiveCap = capacity

(* "Live playback receives meaningful connection headroom instead of       *)
(* competing with an import burst" (budget.go:7): while a stream is        *)
(* registered, its reservation is in force.                                *)
PlaybackKeepsHeadroom ==
    Settled /\ tracked # {} /\ capacity > StreamBaseHeadroom
        => Budget!EffectiveCap <= capacity - StreamBaseHeadroom
==============================================================================
