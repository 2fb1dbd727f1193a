---------------------------- MODULE MCImportQueue ----------------------------
(* Small instances of ImportQueue and, sharing no state with it, of         *)
(* PlaybackAdmission and of StreamTracker by itself for TLC.  A behaviour   *)
(* is one of the module that focus names.                                   *)
EXTENDS ImportQueue, PlaybackAdmission, TLC

Symmetry ==
    Permutations(Items) \cup Permutations(Workers) \cup Permutations(Backgrounds)
      \cup Permutations(Clients)
      \cup Permutations(Streams) \cup Permutations(Removers) \cup Permutations(Acquirers)

(* Where the tracker meets the budget, one stream is enough: it is added    *)
(* once and removed twice over.  The tracker by itself has all of them.     *)
OneIsStreamed == Cardinality({s \in Streams : life'[s] # "new"}) <= 1

VARIABLE focus

(* Every stream was watched and is gone, and the tracker has stopped.       *)
AllStreamsOver ==
    /\ writer = "stopped"
    /\ \A s \in Streams : life[s] = "done"
    /\ \A p \in Procs : streamAt[p] = "out"

BothInit ==
    /\ focus \in {"queue", "admission", "tracker"}
    /\ Init /\ AdmissionInit
    /\ focus # "queue" => status = [i \in Items |-> "absent"]
    /\ focus # "admission" => capacity = MaxCapacity

BothNext ==
    /\ UNCHANGED focus
    /\ \/ focus = "queue" /\ Next /\ UNCHANGED admissionVars
       \/ focus = "admission" /\ AdmissionNext /\ OneIsStreamed /\ UNCHANGED vars
       \/ focus = "tracker" /\ TrackerNext /\ UNCHANGED <<budgetVars, vars>>
       \/ focus = "tracker" /\ AllStreamsOver /\ UNCHANGED <<admissionVars, vars>>

bothVars == <<focus, vars, admissionVars>>

BothSpec == BothInit /\ [][BothNext]_bothVars
==============================================================================
