---------------------------- MODULE Imports_proofs ----------------------------
(***************************************************************************)
(* Proofs about ImportQueue, ReacquireLoop and ImportProcessing, for any   *)
(* items, workers, background runs, clients and kinds of requests.         *)
(*                                                                         *)
(* Which runs own an item is not written in its row: a row says processing *)
(* and not by whom.  That nobody is forgotten and nobody cancelled unasked *)
(* holds whatever requests interleave, from the types and the map of       *)
(* cancel functions alone.  That two runs own one item only after a stale  *)
(* look needs that a row with a run says processing or is gone unless it   *)
(* was overtaken: only a pending row is claimed.                           *)
(*                                                                         *)
(* Of an import's files: what a hand has due, reserved and written fits    *)
(* the stage it is at (RunInv), and what it has chosen and written is its  *)
(* own or contested (HandsHeed).  Two sets of cases have what the other    *)
(* properties of ImportProcessing need: Lasting, among those that are      *)
(* Alone, and Tidy.                                                        *)
(***************************************************************************)
EXTENDS ImportQueue, ReacquireLoop, ImportProcessing, WellFoundedInduction, TLAPS

-----------------------------------------------------------------------------
(* ImportQueue.                                                            *)

(* Nothing runs in a process that is down, and nobody asks it anything.    *)
DownIsIdle ==
    phase = "down" => /\ \A r \in Runners : at[r] = "off"
                      /\ \A c \in Clients : request[c] = NoRequest

(* A process that stops or has stopped may be started once more.           *)
RestartIsLeft == phase # "up" => restarts < MaxRestarts

(* Background runs have their cancel functions in a map that nobody reads. *)
OnlyWorkersAreCancelled == cancelled \subseteq Workers

BaseInv ==
    /\ TypeOK
    /\ OnlyWorkersAreCancelled
    /\ DownIsIdle
    /\ RestartIsLeft
    /\ OnlyAskedRunsAreCancelled
    /\ NoOrphanProcessing

(* The queue is empty and nobody runs at first. *)
LEMMA InitBase == Init => BaseInv
<1> SUFFICES ASSUME Init
             PROVE  BaseInv
  OBVIOUS
<1> USE QueueConstants DEF Init
<1>1. /\ status \in [Items -> Accepted \cup Gone]
      /\ \A i \in Items : status[i] # "processing"
  BY DEF Accepted, Gone
<1>2. /\ live \subseteq Workers
      /\ at \in [Runners -> {"idle", "off"}]
      /\ at \in [Runners -> Active \cup {"off", "idle", "due", "load", "mark",
                                   "fallback", "ending"}]
      /\ job \in [Runners -> Items \cup {NoItem}]
      /\ \A r \in Runners : job[r] = NoItem
  BY DEF Active
<1>3. request \in [Clients -> {NoRequest} \cup [op : Ops, item : Items]]
  OBVIOUS
<1>4. registry \in [Items -> Workers \cup {NoRun}] /\ \A i \in Items : registry[i] = NoRun
  OBVIOUS
<1>5. TypeOK
  <2>1. paused \in BOOLEAN
    BY Zenon
  <2> QED
    BY <1>1, <1>2, <1>3, <1>4, <2>1 DEF TypeOK
<1> QED
  BY <1>1, <1>5
     DEF BaseInv, DownIsIdle, RestartIsLeft, OnlyWorkersAreCancelled, OnlyWorkersAreCancelled,
         OnlyAskedRunsAreCancelled, NoOrphanProcessing
(* Adding and removing rows.                                               *)
LEMMA RowsKeep ==
    ASSUME BaseInv,
           \/ \E i \in Items : AddToQueue(i)
           \/ AddBatchToQueue \/ CleanupFailed
           \/ \E S \in SUBSET Items : RemoveBulk(S)
    PROVE  BaseInv'
<1> USE QueueConstants DEF BaseInv, serviceVars, runVars, noteVars, Accepted, Gone, Active, Runners, Set, Update, Step, CanWrite, Act, NoRequest, NoItem, NoRun, NoteLook, RunIsOver
<1>1. CASE \E i \in Items : AddToQueue(i)
  BY <1>1 DEF AddToQueue, TypeOK, DownIsIdle, RestartIsLeft, OnlyWorkersAreCancelled,
      OnlyAskedRunsAreCancelled, NoOrphanProcessing
<1>2. CASE AddBatchToQueue
  BY <1>2 DEF AddBatchToQueue, TypeOK, DownIsIdle, RestartIsLeft, OnlyWorkersAreCancelled,
      OnlyAskedRunsAreCancelled, NoOrphanProcessing
<1>3. CASE CleanupFailed
  BY <1>3 DEF CleanupFailed, TypeOK, DownIsIdle, RestartIsLeft, OnlyWorkersAreCancelled,
      OnlyAskedRunsAreCancelled, NoOrphanProcessing
<1>4. CASE \E S \in SUBSET Items : RemoveBulk(S)
  BY <1>4 DEF RemoveBulk, TypeOK, DownIsIdle, RestartIsLeft, OnlyWorkersAreCancelled,
      OnlyAskedRunsAreCancelled, NoOrphanProcessing
<1> QED
  BY <1>1, <1>2, <1>3, <1>4

(* A worker between two items.                                             *)
LEMMA WorkersKeep ==
    ASSUME BaseInv, NEW w \in Workers, Tick(w) \/ Claim(w) \/ ClaimNothing(w) \/ WorkerExit(w)
    PROVE  BaseInv'
<1> USE QueueConstants DEF BaseInv, serviceVars, runVars, noteVars, Accepted, Gone, Active, Runners, Set, Update, Step, CanWrite, Act, NoRequest, NoItem, NoRun, NoteLook, RunIsOver
<1>1. CASE Tick(w)
  BY <1>1 DEF Tick, TypeOK, DownIsIdle, RestartIsLeft, OnlyWorkersAreCancelled,
      OnlyAskedRunsAreCancelled, NoOrphanProcessing
<1>2. CASE Claim(w)
  <2>1. PICK i \in Items : /\ status[i] = "pending"
                          /\ status' = [status EXCEPT ![i] = "processing"]
                          /\ job' = [job EXCEPT ![w] = i]
                          /\ lostWrite' = lostWrite \ {i}
    BY <1>2 DEF Claim
  <2>11. TypeOK'
    <3>1. paused' \in BOOLEAN
      BY <1>2, <2>1, Zenon DEF Claim, TypeOK
    <3>2. /\ at' \in [Runners -> Active \cup {"off", "idle", "due", "load", "mark",
                                   "fallback", "ending"}]
          /\ job' \in [Runners -> Items \cup {NoItem}]
          /\ \A r \in Runners : job'[r] = NoItem <=> at'[r] \in {"off", "idle", "due"}
      BY <1>2, <2>1 DEF Claim, TypeOK, DownIsIdle
    <3>3. /\ cancelled' \subseteq {r \in Runners : job'[r] # NoItem}
          /\ registry' \in [Items -> Workers \cup {NoRun}]
          /\ \A n \in Items : registry'[n] # NoRun => job'[registry'[n]] = n
      BY <1>2, <2>1 DEF Claim, TypeOK, DownIsIdle, OnlyWorkersAreCancelled
    <3>4. /\ status' \in [Items -> Accepted \cup Gone]
          /\ request' \in [Clients -> {NoRequest} \cup [op : Ops, item : Items]]
          /\ asked' \subseteq Items /\ lostWrite' \subseteq Items /\ overtaken' \subseteq Items
      BY <1>2, <2>1 DEF Claim, TypeOK
    <3>5. /\ phase' \in {"up", "stopping", "down"}
          /\ live' \subseteq Workers
          /\ restarts' \in 0..MaxRestarts
      BY <1>2, <2>1 DEF Claim, TypeOK
    <3> QED
      BY <3>1, <3>2, <3>3, <3>4, <3>5 DEF TypeOK
  <2>12. DownIsIdle' /\ RestartIsLeft'
    BY <1>2, <2>1 DEF Claim, TypeOK, DownIsIdle, RestartIsLeft
  <2>13. OnlyAskedRunsAreCancelled'
    BY <1>2, <2>1 DEF Claim, TypeOK, DownIsIdle, OnlyWorkersAreCancelled, OnlyAskedRunsAreCancelled
  <2>15. OnlyWorkersAreCancelled'
    BY <1>2, <2>1 DEF Claim, TypeOK, OnlyWorkersAreCancelled
  <2>14. NoOrphanProcessing'
    BY <1>2, <2>1 DEF Claim, TypeOK, NoOrphanProcessing
  <2> QED
    BY <2>11, <2>12, <2>13, <2>14, <2>15
<1>3. CASE ClaimNothing(w)
  BY <1>3 DEF ClaimNothing, TypeOK, DownIsIdle, RestartIsLeft, OnlyWorkersAreCancelled,
      OnlyAskedRunsAreCancelled, NoOrphanProcessing
<1>4. CASE WorkerExit(w)
  BY <1>4 DEF WorkerExit, TypeOK, DownIsIdle, RestartIsLeft, OnlyWorkersAreCancelled,
      OnlyAskedRunsAreCancelled, NoOrphanProcessing
<1> QED
  BY <1>1, <1>2, <1>3, <1>4

(* A background run before it owns its item.                               *)
LEMMA BackgroundsKeep ==
    ASSUME BaseInv, NEW b \in Backgrounds, BackgroundStep(b)
    PROVE  BaseInv'
<1> USE QueueConstants DEF BaseInv, serviceVars, runVars, noteVars, Accepted, Gone, Active, Runners, Set, Update, Step, CanWrite, Act, NoRequest, NoItem, NoRun, NoteLook, RunIsOver
<1>1. CASE LoadItem(b)
  BY <1>1 DEF LoadItem, TypeOK, DownIsIdle, RestartIsLeft, OnlyWorkersAreCancelled,
      OnlyAskedRunsAreCancelled, NoOrphanProcessing
<1>2. CASE MarkProcessing(b)
  BY <1>2 DEF MarkProcessing, TypeOK, DownIsIdle, RestartIsLeft, OnlyWorkersAreCancelled,
      OnlyAskedRunsAreCancelled, NoOrphanProcessing
<1>3. CASE GiveUp(b)
  <2>11. TypeOK'
    BY <1>3 DEF GiveUp, TypeOK, OnlyWorkersAreCancelled
  <2>12. DownIsIdle' /\ RestartIsLeft'
    BY <1>3 DEF GiveUp, TypeOK, DownIsIdle, RestartIsLeft
  <2>13. OnlyAskedRunsAreCancelled'
    BY <1>3 DEF GiveUp, TypeOK, DownIsIdle, OnlyWorkersAreCancelled, OnlyAskedRunsAreCancelled
  <2>15. OnlyWorkersAreCancelled'
    BY <1>3 DEF GiveUp, TypeOK, OnlyWorkersAreCancelled
  <2>14. NoOrphanProcessing'
    BY <1>3 DEF GiveUp, TypeOK, NoOrphanProcessing
  <2> QED
    BY <2>11, <2>12, <2>13, <2>14, <2>15
<1> QED
  BY <1>1, <1>2, <1>3 DEF BackgroundStep

(* A run of an item.                                                       *)
LEMMA RunsKeep ==
    ASSUME BaseInv, NEW r \in Runners, RunStep(r)
    PROVE  BaseInv'
<1> USE QueueConstants DEF BaseInv, serviceVars, runVars, noteVars, Accepted, Gone, Active, Runners, Set, Update, Step, CanWrite, Act, NoRequest, NoItem, NoRun, NoteLook, RunIsOver
<1>1. CASE Register(r)
  BY <1>1 DEF Register, TypeOK, DownIsIdle, RestartIsLeft, OnlyWorkersAreCancelled,
      OnlyAskedRunsAreCancelled, NoOrphanProcessing
<1>2. CASE Process(r)
  BY <1>2 DEF Process, TypeOK, DownIsIdle, RestartIsLeft, OnlyWorkersAreCancelled,
      OnlyAskedRunsAreCancelled, NoOrphanProcessing
<1>3. CASE HandleSuccess(r)
  BY <1>3 DEF HandleSuccess, TypeOK, DownIsIdle, RestartIsLeft, OnlyWorkersAreCancelled,
      OnlyAskedRunsAreCancelled, NoOrphanProcessing
<1>4. CASE HandleFailure(r)
  BY <1>4 DEF HandleFailure, TypeOK, DownIsIdle, RestartIsLeft, OnlyWorkersAreCancelled,
      OnlyAskedRunsAreCancelled, NoOrphanProcessing
<1>5. CASE Fallback(r)
  BY <1>5 DEF Fallback, TypeOK, DownIsIdle, RestartIsLeft, OnlyWorkersAreCancelled,
      OnlyAskedRunsAreCancelled, NoOrphanProcessing
<1>6. CASE EndRun(r)
  BY <1>6 DEF EndRun, TypeOK, DownIsIdle, RestartIsLeft, OnlyWorkersAreCancelled,
      OnlyAskedRunsAreCancelled, NoOrphanProcessing
<1> QED
  BY <1>1, <1>2, <1>3, <1>4, <1>5, <1>6 DEF RunStep

(* The manager and the process.                                            *)
LEMMA ServiceKeeps ==
    ASSUME BaseInv, PauseOrResume \/ Resize \/ Stop \/ Exit \/ Start
    PROVE  BaseInv'
<1> USE QueueConstants DEF BaseInv, serviceVars, runVars, noteVars, Accepted, Gone, Active, Runners, Set, Update, Step, CanWrite, Act, NoRequest, NoItem, NoRun, NoteLook, RunIsOver
<1>1. CASE PauseOrResume
  BY <1>1 DEF PauseOrResume, TypeOK, DownIsIdle, RestartIsLeft, OnlyWorkersAreCancelled,
      OnlyAskedRunsAreCancelled, NoOrphanProcessing
<1>2. CASE Resize
  BY <1>2 DEF Resize, TypeOK, DownIsIdle, RestartIsLeft, OnlyWorkersAreCancelled,
      OnlyAskedRunsAreCancelled, NoOrphanProcessing
<1>3. CASE Stop
  BY <1>3 DEF Stop, TypeOK, DownIsIdle, RestartIsLeft, OnlyWorkersAreCancelled,
      OnlyAskedRunsAreCancelled, NoOrphanProcessing
<1>4. CASE Exit
  BY <1>4 DEF Exit, TypeOK, DownIsIdle, RestartIsLeft, OnlyWorkersAreCancelled,
      OnlyAskedRunsAreCancelled, NoOrphanProcessing
<1>5. CASE Start
  <2>11. TypeOK'
    <3>1. paused' \in BOOLEAN
      BY <1>5, Zenon DEF Start, TypeOK
    <3>2. /\ at' \in [Runners -> Active \cup {"off", "idle", "due", "load", "mark",
                                   "fallback", "ending"}]
          /\ job' \in [Runners -> Items \cup {NoItem}]
          /\ \A r \in Runners : job'[r] = NoItem <=> at'[r] \in {"off", "idle", "due"}
      BY <1>5 DEF Start, TypeOK, DownIsIdle
    <3>3. /\ cancelled' \subseteq {r \in Runners : job'[r] # NoItem}
          /\ registry' \in [Items -> Workers \cup {NoRun}]
          /\ \A i \in Items : registry'[i] # NoRun => job'[registry'[i]] = i
      BY <1>5 DEF Start, TypeOK, DownIsIdle, OnlyWorkersAreCancelled
    <3>4. /\ status' \in [Items -> Accepted \cup Gone]
          /\ request' \in [Clients -> {NoRequest} \cup [op : Ops, item : Items]]
          /\ asked' \subseteq Items /\ lostWrite' \subseteq Items /\ overtaken' \subseteq Items
      BY <1>5 DEF Start, TypeOK
    <3>5. /\ phase' \in {"up", "stopping", "down"}
          /\ live' \subseteq Workers
          /\ restarts' \in 0..MaxRestarts
      BY <1>5 DEF Start, TypeOK, RestartIsLeft
    <3> QED
      BY <3>1, <3>2, <3>3, <3>4, <3>5 DEF TypeOK
  <2>12. DownIsIdle' /\ RestartIsLeft'
    BY <1>5 DEF Start, TypeOK, DownIsIdle, RestartIsLeft
  <2>13. OnlyAskedRunsAreCancelled'
    BY <1>5 DEF Start, TypeOK, DownIsIdle, OnlyWorkersAreCancelled, OnlyAskedRunsAreCancelled
  <2>15. OnlyWorkersAreCancelled'
    BY <1>5 DEF Start, TypeOK, OnlyWorkersAreCancelled
  <2>14. NoOrphanProcessing'
    BY <1>5 DEF Start, TypeOK, NoOrphanProcessing
  <2> QED
    BY <2>11, <2>12, <2>13, <2>14, <2>15
<1> QED
  BY <1>1, <1>2, <1>3, <1>4, <1>5

(* A request.                                                              *)
LEMMA ClientsKeep ==
    ASSUME BaseInv, NEW c \in Clients, ClientStep(c)
    PROVE  BaseInv'
<1> USE QueueConstants DEF BaseInv, serviceVars, runVars, noteVars, Accepted, Gone, Active, Runners, Set, Update, Step, CanWrite, Act, NoRequest, NoItem, NoRun, NoteLook, RunIsOver
<1>1. CASE \E op \in Ops, i \in Items : Check(c, op, i)
  BY <1>1 DEF Check, TypeOK, DownIsIdle, RestartIsLeft, OnlyWorkersAreCancelled,
      OnlyAskedRunsAreCancelled, NoOrphanProcessing
<1>2. CASE Cancel(c)
  <2>11. TypeOK'
    <3>1. paused' \in BOOLEAN
      BY <1>2, Zenon DEF Cancel, TypeOK
    <3>2. /\ at' \in [Runners -> Active \cup {"off", "idle", "due", "load", "mark",
                                   "fallback", "ending"}]
          /\ job' \in [Runners -> Items \cup {NoItem}]
          /\ \A r \in Runners : job'[r] = NoItem <=> at'[r] \in {"off", "idle", "due"}
      BY <1>2 DEF Cancel, TypeOK, DownIsIdle
    <3>3. /\ cancelled' \subseteq {r \in Runners : job'[r] # NoItem}
          /\ registry' \in [Items -> Workers \cup {NoRun}]
          /\ \A i \in Items : registry'[i] # NoRun => job'[registry'[i]] = i
      BY <1>2 DEF Cancel, TypeOK, DownIsIdle, OnlyWorkersAreCancelled
    <3>4. /\ status' \in [Items -> Accepted \cup Gone]
          /\ request' \in [Clients -> {NoRequest} \cup [op : Ops, item : Items]]
          /\ asked' \subseteq Items /\ lostWrite' \subseteq Items /\ overtaken' \subseteq Items
      BY <1>2 DEF Cancel, TypeOK
    <3>5. /\ phase' \in {"up", "stopping", "down"}
          /\ live' \subseteq Workers
          /\ restarts' \in 0..MaxRestarts
      BY <1>2 DEF Cancel, TypeOK
    <3> QED
      BY <3>1, <3>2, <3>3, <3>4, <3>5 DEF TypeOK
  <2>12. DownIsIdle' /\ RestartIsLeft'
    BY <1>2 DEF Cancel, TypeOK, DownIsIdle, RestartIsLeft
  <2>13. OnlyAskedRunsAreCancelled'
    BY <1>2 DEF Cancel, TypeOK, DownIsIdle, OnlyWorkersAreCancelled, OnlyAskedRunsAreCancelled
  <2>15. OnlyWorkersAreCancelled'
    BY <1>2 DEF Cancel, TypeOK, OnlyWorkersAreCancelled
  <2>14. NoOrphanProcessing'
    BY <1>2 DEF Cancel, TypeOK, NoOrphanProcessing
  <2> QED
    BY <2>11, <2>12, <2>13, <2>14, <2>15
<1>3. CASE Retry(c)
  <2>1. request[c] \in [op : Ops, item : Items]
    BY <1>3 DEF Retry, TypeOK
  <2>2. PICK b \in Backgrounds : /\ at[b] = "off"
                                /\ at' = [at EXCEPT ![b] = "load"]
                                /\ job' = [job EXCEPT ![b] = request[c].item]
    BY <1>3 DEF Retry
  <2>11. TypeOK'
    <3>1. paused' \in BOOLEAN
      BY <1>3, <2>1, <2>2, Zenon DEF Retry, TypeOK
    <3>2. /\ at' \in [Runners -> Active \cup {"off", "idle", "due", "load", "mark",
                                   "fallback", "ending"}]
          /\ job' \in [Runners -> Items \cup {NoItem}]
          /\ \A r \in Runners : job'[r] = NoItem <=> at'[r] \in {"off", "idle", "due"}
      BY <1>3, <2>1, <2>2 DEF Retry, TypeOK, DownIsIdle
    <3>3. /\ cancelled' \subseteq {r \in Runners : job'[r] # NoItem}
          /\ registry' \in [Items -> Workers \cup {NoRun}]
          /\ \A i \in Items : registry'[i] # NoRun => job'[registry'[i]] = i
      BY <1>3, <2>1, <2>2 DEF Retry, TypeOK, DownIsIdle, OnlyWorkersAreCancelled
    <3>4. /\ status' \in [Items -> Accepted \cup Gone]
          /\ request' \in [Clients -> {NoRequest} \cup [op : Ops, item : Items]]
          /\ asked' \subseteq Items /\ lostWrite' \subseteq Items /\ overtaken' \subseteq Items
      BY <1>3, <2>1, <2>2 DEF Retry, TypeOK
    <3>5. /\ phase' \in {"up", "stopping", "down"}
          /\ live' \subseteq Workers
          /\ restarts' \in 0..MaxRestarts
      BY <1>3, <2>1, <2>2 DEF Retry, TypeOK
    <3> QED
      BY <3>1, <3>2, <3>3, <3>4, <3>5 DEF TypeOK
  <2>12. DownIsIdle' /\ RestartIsLeft'
    BY <1>3, <2>1, <2>2 DEF Retry, TypeOK, DownIsIdle, RestartIsLeft
  <2>13. OnlyAskedRunsAreCancelled'
    BY <1>3, <2>1, <2>2 DEF Retry, TypeOK, DownIsIdle, OnlyWorkersAreCancelled, OnlyAskedRunsAreCancelled
  <2>15. OnlyWorkersAreCancelled'
    BY <1>3, <2>1, <2>2 DEF Retry, TypeOK, OnlyWorkersAreCancelled
  <2>14. NoOrphanProcessing'
    BY <1>3, <2>1, <2>2 DEF Retry, TypeOK, NoOrphanProcessing
  <2> QED
    BY <2>11, <2>12, <2>13, <2>14, <2>15
<1>4. CASE Restart(c)
  BY <1>4 DEF Restart, TypeOK, DownIsIdle, RestartIsLeft, OnlyWorkersAreCancelled,
      OnlyAskedRunsAreCancelled, NoOrphanProcessing
<1>5. CASE Remove(c)
  BY <1>5 DEF Remove, TypeOK, DownIsIdle, RestartIsLeft, OnlyWorkersAreCancelled,
      OnlyAskedRunsAreCancelled, NoOrphanProcessing
<1>6. CASE SetPaused(c)
  <2>1. /\ request' = [request EXCEPT ![c] = NoRequest]
        /\ request[c].item \in Items
        /\ status' = status \/ status' = [status EXCEPT ![request[c].item] = "pending"]
    <3>1. PICK op \in {"pause", "resume"} :
             /\ request[c].op = op
             /\ request' = [request EXCEPT ![c] = NoRequest]
             /\ Update(request[c].item, IF op = "pause" THEN "paused" ELSE "pending")
      BY <1>6 DEF SetPaused
    <3>2. request[c] \in [op : Ops, item : Items]
      BY <3>1 DEF TypeOK
    <3>3. request[c].item \in Items
      BY <3>2
    <3>4. CASE op = "pause"
      BY <3>1, <3>3, <3>4
    <3>5. CASE op = "resume"
      BY <3>1, <3>3, <3>5
    <3> QED
      BY <3>4, <3>5
  <2>11. TypeOK'
    BY <1>6, <2>1 DEF SetPaused, TypeOK
  <2>12. DownIsIdle' /\ RestartIsLeft'
    BY <1>6, <2>1 DEF SetPaused, TypeOK, DownIsIdle, RestartIsLeft
  <2>13. OnlyAskedRunsAreCancelled'
    BY <1>6, <2>1 DEF SetPaused, TypeOK, DownIsIdle, OnlyWorkersAreCancelled, OnlyAskedRunsAreCancelled
  <2>15. OnlyWorkersAreCancelled'
    BY <1>6, <2>1 DEF SetPaused, TypeOK, OnlyWorkersAreCancelled
  <2>14. NoOrphanProcessing'
    BY <1>6, <2>1 DEF SetPaused, TypeOK, NoOrphanProcessing
  <2> QED
    BY <2>11, <2>12, <2>13, <2>14, <2>15
<1> QED
  BY <1>1, <1>2, <1>3, <1>4, <1>5, <1>6 DEF ClientStep

(* Every request, run, crash and restart keeps the queue's invariant. *)
LEMMA BaseInvariant == BaseInv /\ [Next]_vars => BaseInv'
<1> SUFFICES ASSUME BaseInv, [Next]_vars
             PROVE  BaseInv'
  OBVIOUS
<1>1. CASE UNCHANGED vars
  BY <1>1 DEF vars, serviceVars, runVars, noteVars, BaseInv, TypeOK, DownIsIdle, RestartIsLeft,
      OnlyWorkersAreCancelled, OnlyAskedRunsAreCancelled, NoOrphanProcessing
<1>2. CASE Next
  BY <1>2, RowsKeep, WorkersKeep, BackgroundsKeep, RunsKeep, ServiceKeeps, ClientsKeep DEF Next
<1> QED
  BY <1>1, <1>2

----------------------------------------------------------------------------
(* Runs that share an item, and what requests have to do with it.          *)

(* A row with a run says processing, or is gone, unless a request has acted *)
(* on an outdated look at it.                                              *)
RowsOfRuns ==
    \A r \in Runners :
      at[r] \in Active => status[job[r]] \in {"processing", "removed"} \/ job[r] \in overtaken

(* The table never says paused, so that nothing can be resumed.            *)
NothingIsPaused == \A c \in Clients : request[c].op # "resume"

ClaimInv ==
    /\ RowsOfRuns
    /\ NothingIsPaused
    /\ OnlyStaleLooksShareItems

(* No run owns an item at first. *)
LEMMA InitClaims == Init => ClaimInv
  BY QueueConstants
  DEF Init, ClaimInv, RowsOfRuns, NothingIsPaused, OnlyStaleLooksShareItems, Active,
      NoRequest, Runners

(* No row that says processing is put up or replaced.                     *)
LEMMA RowsKeepClaims ==
    ASSUME BaseInv, ClaimInv,
           \/ \E i \in Items : AddToQueue(i)
           \/ AddBatchToQueue \/ CleanupFailed
           \/ \E S \in SUBSET Items : RemoveBulk(S)
    PROVE  ClaimInv'
<1> USE QueueConstants DEF BaseInv, ClaimInv, serviceVars, runVars, noteVars,
      Accepted, Gone, Active, Runners, Set, Update, Step, Act, NoRequest, NoItem, NoteLook, RunIsOver, Allowed
<1>1. CASE \E i \in Items : AddToQueue(i)
  BY <1>1 DEF AddToQueue, TypeOK, RowsOfRuns, NothingIsPaused, OnlyStaleLooksShareItems
<1>2. CASE AddBatchToQueue
  BY <1>2 DEF AddBatchToQueue, TypeOK, RowsOfRuns, NothingIsPaused, OnlyStaleLooksShareItems
<1>3. CASE CleanupFailed
  BY <1>3 DEF CleanupFailed, TypeOK, RowsOfRuns, NothingIsPaused, OnlyStaleLooksShareItems
<1>4. CASE \E S \in SUBSET Items : RemoveBulk(S)
  BY <1>4 DEF RemoveBulk, TypeOK, RowsOfRuns, NothingIsPaused, OnlyStaleLooksShareItems
<1> QED
  BY <1>1, <1>2, <1>3, <1>4

(* A claimed row was pending, and so nobody's unless it was overtaken.      *)
LEMMA WorkersKeepClaims ==
    ASSUME BaseInv, ClaimInv, NEW w \in Workers,
           Tick(w) \/ Claim(w) \/ ClaimNothing(w) \/ WorkerExit(w)
    PROVE  ClaimInv'
<1> USE QueueConstants DEF BaseInv, ClaimInv, serviceVars, runVars, noteVars,
      Accepted, Gone, Active, Runners, Set, Update, Step, Act, NoRequest, NoItem, NoteLook, RunIsOver, Allowed
<1>1. CASE Tick(w)
  BY <1>1 DEF Tick, TypeOK, RowsOfRuns, NothingIsPaused, OnlyStaleLooksShareItems
<1>2. CASE Claim(w)
  BY <1>2 DEF Claim, TypeOK, RowsOfRuns, NothingIsPaused, OnlyStaleLooksShareItems
<1>3. CASE ClaimNothing(w)
  BY <1>3 DEF ClaimNothing, TypeOK, RowsOfRuns, NothingIsPaused, OnlyStaleLooksShareItems
<1>4. CASE WorkerExit(w)
  BY <1>4 DEF WorkerExit, TypeOK, RowsOfRuns, NothingIsPaused, OnlyStaleLooksShareItems
<1> QED
  BY <1>1, <1>2, <1>3, <1>4

(* A background run that finds its row in other hands notes it.            *)
LEMMA BackgroundsKeepClaims ==
    ASSUME BaseInv, ClaimInv, NEW b \in Backgrounds, BackgroundStep(b)
    PROVE  ClaimInv'
<1> USE QueueConstants DEF BaseInv, ClaimInv, serviceVars, runVars, noteVars,
      Accepted, Gone, Active, Runners, Set, Update, Step, Act, NoRequest, NoItem, NoteLook, RunIsOver, Allowed
<1>1. CASE LoadItem(b)
  BY <1>1 DEF LoadItem, TypeOK, RowsOfRuns, NothingIsPaused, OnlyStaleLooksShareItems
<1>2. CASE MarkProcessing(b)
  BY <1>2 DEF MarkProcessing, TypeOK, RowsOfRuns, NothingIsPaused, OnlyStaleLooksShareItems
<1>3. CASE GiveUp(b)
  BY <1>3 DEF GiveUp, TypeOK, RowsOfRuns, NothingIsPaused, OnlyStaleLooksShareItems
<1> QED
  BY <1>1, <1>2, <1>3 DEF BackgroundStep

(* A run changes the status of its own row alone, and with it ends: what   *)
(* was noted of the row goes only with the last run of it.                  *)
LEMMA RunsKeepClaims ==
    ASSUME BaseInv, ClaimInv, NEW r \in Runners, RunStep(r)
    PROVE  ClaimInv'
<1> USE QueueConstants DEF BaseInv, ClaimInv, serviceVars, runVars, noteVars,
      Accepted, Gone, Active, Runners, Set, Update, Step, Act, NoRequest, NoItem, NoteLook, RunIsOver, Allowed
<1>1. CASE Register(r)
  BY <1>1 DEF Register, TypeOK, RowsOfRuns, NothingIsPaused, OnlyStaleLooksShareItems
<1>2. CASE Process(r)
  BY <1>2 DEF Process, TypeOK, RowsOfRuns, NothingIsPaused, OnlyStaleLooksShareItems
<1>3. CASE HandleSuccess(r)
  BY <1>3 DEF HandleSuccess, TypeOK, RowsOfRuns, NothingIsPaused, OnlyStaleLooksShareItems
<1>4. CASE HandleFailure(r)
  BY <1>4 DEF HandleFailure, TypeOK, RowsOfRuns, NothingIsPaused, OnlyStaleLooksShareItems
<1>5. CASE Fallback(r)
  BY <1>5 DEF Fallback, TypeOK, RowsOfRuns, NothingIsPaused, OnlyStaleLooksShareItems
<1>6. CASE EndRun(r)
  BY <1>6 DEF EndRun, TypeOK, RowsOfRuns, NothingIsPaused, OnlyStaleLooksShareItems
<1> QED
  BY <1>1, <1>2, <1>3, <1>4, <1>5, <1>6 DEF RunStep

(* The start resets rows when nothing runs.                                *)
LEMMA ServiceKeepsClaims ==
    ASSUME BaseInv, ClaimInv, PauseOrResume \/ Resize \/ Stop \/ Exit \/ Start
    PROVE  ClaimInv'
<1> USE QueueConstants DEF BaseInv, ClaimInv, serviceVars, runVars, noteVars,
      Accepted, Gone, Active, Runners, Set, Update, Step, Act, NoRequest, NoItem, NoteLook, RunIsOver, Allowed
<1>1. CASE PauseOrResume
  BY <1>1 DEF PauseOrResume, TypeOK, RowsOfRuns, NothingIsPaused, OnlyStaleLooksShareItems
<1>2. CASE Resize
  BY <1>2 DEF Resize, TypeOK, RowsOfRuns, NothingIsPaused, OnlyStaleLooksShareItems
<1>3. CASE Stop
  BY <1>3 DEF Stop, TypeOK, RowsOfRuns, NothingIsPaused, OnlyStaleLooksShareItems
<1>4. CASE Exit
  BY <1>4 DEF Exit, TypeOK, RowsOfRuns, NothingIsPaused, OnlyStaleLooksShareItems
<1>5. CASE Start
  BY <1>5 DEF Start, DownIsIdle, TypeOK, RowsOfRuns, NothingIsPaused, OnlyStaleLooksShareItems
<1> QED
  BY <1>1, <1>2, <1>3, <1>4, <1>5

(* A request that acts on what it has not looked at notes it.              *)
LEMMA ClientsKeepClaims ==
    ASSUME BaseInv, ClaimInv, NEW c \in Clients, ClientStep(c)
    PROVE  ClaimInv'
<1> USE QueueConstants DEF BaseInv, ClaimInv, serviceVars, runVars, noteVars,
      Accepted, Gone, Active, Runners, Set, Update, Step, Act, NoRequest, NoItem, NoteLook, RunIsOver, Allowed
<1>1. CASE \E op \in Ops, i \in Items : Check(c, op, i)
  <2>1. PICK op \in Ops, i \in Items : Check(c, op, i)
    BY <1>1
  <2>2. /\ status[i] \in {"pending", "processing", "completed", "failed", "fallback",
                           "absent", "removed"}
        /\ request \in [Clients -> {NoRequest} \cup [op : Ops, item : Items]]
    BY DEF TypeOK
  <2>3. op # "resume"
    BY <2>1, <2>2 DEF Check, Allowed
  <2>4. request' = [request EXCEPT ![c] = [op |-> op, item |-> i]] /\ UNCHANGED <<status, at, job, overtaken>>
    BY <2>1 DEF Check
  <2> QED
    BY <2>2, <2>3, <2>4 DEF RowsOfRuns, NothingIsPaused, OnlyStaleLooksShareItems
<1>2. CASE Cancel(c)
  BY <1>2 DEF Cancel, TypeOK, RowsOfRuns, NothingIsPaused, OnlyStaleLooksShareItems
<1>3. CASE Retry(c)
  BY <1>3 DEF Retry, TypeOK, RowsOfRuns, NothingIsPaused, OnlyStaleLooksShareItems
<1>4. CASE Restart(c)
  BY <1>4 DEF Restart, TypeOK, RowsOfRuns, NothingIsPaused, OnlyStaleLooksShareItems
<1>5. CASE Remove(c)
  BY <1>5 DEF Remove, TypeOK, RowsOfRuns, NothingIsPaused, OnlyStaleLooksShareItems
<1>6. CASE SetPaused(c)
  BY <1>6 DEF SetPaused, TypeOK, RowsOfRuns, NothingIsPaused, OnlyStaleLooksShareItems
<1> QED
  BY <1>1, <1>2, <1>3, <1>4, <1>5, <1>6 DEF ClientStep

(* Every step keeps the claims of all other items apart.                   *)
LEMMA ClaimInvariant == BaseInv /\ ClaimInv /\ [Next]_vars => ClaimInv'
<1> SUFFICES ASSUME BaseInv, ClaimInv, [Next]_vars
             PROVE  ClaimInv'
  OBVIOUS
<1>1. CASE UNCHANGED vars
  BY <1>1 DEF vars, serviceVars, runVars, noteVars, ClaimInv, RowsOfRuns,
      NothingIsPaused, OnlyStaleLooksShareItems
<1>2. CASE Next
  BY <1>2, RowsKeepClaims, WorkersKeepClaims, BackgroundsKeepClaims, RunsKeepClaims,
     ServiceKeepsClaims, ClientsKeepClaims DEF Next
<1> QED
  BY <1>1, <1>2

----------------------------------------------------------------------------
(* The theorems.                                                           *)

(* The strengthening of the next three is an invariant of the queue, with  *)
(* every request and every restart interleaved.                            *)
THEOREM QueueInvariant == Spec => []BaseInv
  BY InitBase, BaseInvariant, PTL DEF Spec

(* The variables keep their types, and the manager's map of cancel         *)
(* functions (manager.go) never names a run that is over.                  *)
THEOREM TypeCorrect == Spec => []TypeOK
<1>1. BaseInv => TypeOK
  BY DEF BaseInv
<1> QED
  BY <1>1, QueueInvariant, PTL

(* Neither resizing the pool nor another item's end cancels a run:         *)
(* cancellation was asked for, or the server is stopping (manager.go:251). *)
THEOREM CancelledWereAsked == Spec => []OnlyAskedRunsAreCancelled
<1>1. BaseInv => OnlyAskedRunsAreCancelled
  BY DEF BaseInv
<1> QED
  BY <1>1, QueueInvariant, PTL

(* No interleaving of requests, crashes and restarts leaves a row in       *)
(* processing that no run will finish, but for a refused write.            *)
THEOREM ProcessingHasARun == Spec => []NoOrphanProcessing
<1>1. BaseInv => NoOrphanProcessing
  BY DEF BaseInv
<1> QED
  BY <1>1, QueueInvariant, PTL

(* No two runs own one item (repository.go:145), whatever the requests,    *)
(* crashes and restarts and however they interleave, unless a restart or a *)
(* retry acted on the item's row when it no longer was as it had looked.   *)
THEOREM NoTwoRunsOfAnItem == Spec => []OnlyStaleLooksShareItems
<1>1. Init => BaseInv /\ ClaimInv
  BY InitBase, InitClaims
<1>2. BaseInv /\ ClaimInv /\ [Next]_vars => (BaseInv /\ ClaimInv)'
  BY BaseInvariant, ClaimInvariant
<1>3. ClaimInv => OnlyStaleLooksShareItems
  BY DEF ClaimInv
<1> QED
  BY <1>1, <1>2, <1>3, PTL DEF Spec

-----------------------------------------------------------------------------
(* ReacquireLoop.                                                          *)

(* A pass is its items, its actions and what it still has to unmonitor.    *)
PassShape ==
    pass = [items |-> pass.items, actions |-> pass.actions, unmonitor |-> pass.unmonitor]

(* A pass looks at a record once, and every one had a download then.       *)
ItemsAreListed ==
    /\ \A i \in pass.items : i.target \in Targets /\ i.download # NoDownload
    /\ \A i \in pass.items, j \in pass.items : i.target = j.target => i = j

(* A grace period belongs to the record that is there: when the record of  *)
(* an item was replaced since the queue was fetched, none runs for the new *)
(* one.                                                                    *)
NewRecordsAreUnseen ==
    \A i \in pass.items :
        record[i.target] \notin {i.download, NoDownload} => stuckSince[i.target] = NotSeen

(* Found not stuck, and yet its period runs: the record is gone.           *)
EasedAreGone == \A t \in eased : t \in Targets /\ record[t] = NoDownload

(* Without a grace period none runs.                                       *)
NoGraceNoPeriod == Grace = 0 => eased = {} /\ \A t \in Targets : stuckSince[t] = NotSeen

PassInv ==
    /\ ReacquireTypeOK
    /\ PassShape
    /\ ItemsAreListed
    /\ NewRecordsAreUnseen
    /\ EasedAreGone
    /\ NoGraceNoPeriod

(* No pass is under way at the start, and nothing was acted on.            *)
LEMMA PassInit == ReacquireInit => PassInv
  BY ReacquireConstants
  DEF ReacquireInit, PassInv, ReacquireTypeOK, ItemsAreListed, NewRecordsAreUnseen, EasedAreGone, NoGraceNoPeriod,
      NoPass, PassShape, Ages, NotSeen

(* Records may go, and the rest of the clean-up's variables stay.          *)
LEMMA RecordsMayGo ==
    ASSUME PassInv, UNCHANGED <<stuckSince, eased>>,
           record' \in [Targets -> Downloads \cup {NoDownload}],
           \A t \in Targets : record'[t] \in {record[t], NoDownload},
           pass'.items \subseteq pass.items
    PROVE  ItemsAreListed' /\ NewRecordsAreUnseen' /\ EasedAreGone' /\ NoGraceNoPeriod'
  BY DEF PassInv, ItemsAreListed, NewRecordsAreUnseen, EasedAreGone, NoGraceNoPeriod

(* The failures of a target are counted up to their bound.                 *)
LEMMA CountsStayTyped ==
    ASSUME ReacquireTypeOK, NEW T, Bump(T)
    PROVE  counts' \in [Targets -> 0..MaxFailures]
  BY ReacquireConstants DEF ReacquireTypeOK, Bump

(* Records that go leave the others alone.                                 *)
LEMMA ForgetRecords ==
    ASSUME ReacquireTypeOK, NEW D, Forget(D)
    PROVE  /\ record' \in [Targets -> Downloads \cup {NoDownload}]
           /\ \A t \in Targets : record'[t] \in {record[t], NoDownload}
           /\ missing' \subseteq Downloads
  BY DEF ReacquireTypeOK, Forget, Without

(* A pass notes an age for the target it looks at, when the record is      *)
(* still the one it listed.                                                *)
LEMMA NotedAges ==
    ASSUME NEW ages \in [Targets -> Ages], NEW i, NEW a \in Ages
    PROVE  /\ Note(i, ages, a) \in [Targets -> Ages]
           /\ \A t \in Targets : t # i.target => Note(i, ages, a)[t] = ages[t]
           /\ record[i.target] = i.download /\ i.target \in Targets => Note(i, ages, a)[i.target] = a
           /\ record[i.target] # i.download => Note(i, ages, a) = ages
           /\ \A t \in Targets : Note(i, ages, a)[t] \in {ages[t], a}
  BY DEF Note

(* Not seen and just seen are ages, and differ.                            *)
LEMMA SmallAges == NotSeen \in Ages /\ 0 \in Ages /\ NotSeen # 0
  BY ReacquireConstants DEF Ages, NotSeen

(* The passes.                                                             *)
LEMMA PassStepKeeps ==
    ASSUME PassInv, PassBegins \/ PassStep
    PROVE  PassInv'
<1> USE DEF PassInv
<1>1. CASE PassBegins
  <2>1. pass' = [items |-> {[target |-> t, download |-> record[t], stuck |-> stage[record[t]] = "stuck"] :
                              t \in {u \in Targets : record[u] # NoDownload}},
                 actions |-> {}, unmonitor |-> {}]
    BY <1>1 DEF PassBegins, NoPass
  <2>2. PassShape'
    BY <2>1 DEF PassShape
  <2>3. UNCHANGED <<monitored, library, record, missing, counts, stuckSince, goneSince, eased>>
    BY <1>1 DEF PassBegins, arrVars
  <2>4. ReacquireTypeOK' /\ EasedAreGone' /\ NoGraceNoPeriod'
    BY <2>3 DEF ReacquireTypeOK, EasedAreGone, NoGraceNoPeriod
  <2>5. ItemsAreListed' /\ NewRecordsAreUnseen'
    BY <2>1, <2>3 DEF ItemsAreListed, NewRecordsAreUnseen
  <2> QED
    BY <2>2, <2>4, <2>5
<1>2. ASSUME NEW i \in pass.items, SelectGhost(i)
      PROVE  PassInv'
  <2>1. /\ stuckSince' = Note(i, stuckSince, NotSeen)
        /\ pass'.items = pass.items \ {i}
        /\ eased' \subseteq eased
        /\ UNCHANGED <<record, monitored, library, missing>>
        /\ goneSince' = goneSince \/ goneSince' = Note(i, goneSince, NotSeen)
        /\ counts' = counts \/ counts' = [counts EXCEPT ![i.target] = 0]
    BY <1>2 DEF SelectGhost, Leaves, arrVars, ReacquireTypeOK
  <2>2. stuckSince' \in [Targets -> Ages] /\ goneSince' \in [Targets -> Ages]
    BY <2>1, NotedAges, SmallAges DEF ReacquireTypeOK
  <2>3. \A t \in Targets : stuckSince'[t] \in {stuckSince[t], NotSeen}
    BY <2>1, NotedAges, SmallAges DEF ReacquireTypeOK
  <2>4. counts' \in [Targets -> 0..MaxFailures]
    BY <2>1, ReacquireConstants DEF ReacquireTypeOK
  <2>5. ReacquireTypeOK'
    BY <2>1, <2>2, <2>4 DEF ReacquireTypeOK
  <2>6. PassShape'
    BY <1>2 DEF SelectGhost, Leaves, Selected, PassShape
  <2>7. i.target \in Targets
    BY DEF ItemsAreListed
  <2> QED
    BY <2>1, <2>3, <2>5, <2>6, <2>7 DEF ItemsAreListed, NewRecordsAreUnseen, EasedAreGone, NoGraceNoPeriod
<1>3. ASSUME NEW i \in pass.items, SelectByRule(i)
      PROVE  PassInv'
  <2> DEFINE begins == i.stuck /\ Grace > 0 /\ Age(i, stuckSince) = NotSeen
             acts == i.stuck /\ (Grace = 0 \/ Age(i, stuckSince) >= Grace)
  <2>0. /\ IF acts THEN Bump({i.target}) ELSE UNCHANGED counts
        /\ stuckSince' = IF begins THEN Note(i, stuckSince, 0)
                         ELSE IF Forgets(i, acts) THEN Note(i, stuckSince, NotSeen)
                         ELSE stuckSince
        /\ goneSince' = IF i.download \in missing /\ Age(i, goneSince) = NotSeen
                        THEN Note(i, goneSince, 0) ELSE goneSince
        /\ eased' = IF stuckSince'[i.target] = NotSeen THEN eased \ {i.target}
                    ELSE IF i.stuck THEN eased ELSE eased \cup {i.target}
        /\ pass' = [pass EXCEPT
                     !.items = Leaves(i),
                     !.actions = IF acts
                                 THEN @ \cup {Selected(i, AtLimit({i.target}) # {})}
                                 ELSE @]
        /\ UNCHANGED arrVars
    BY <1>3 DEF SelectByRule
  <2> HIDE DEF acts
  <2>1. /\ pass'.items = pass.items \ {i}
        /\ UNCHANGED <<record, monitored, library, missing>>
    BY <2>0 DEF arrVars, Leaves
  <2>2. \/ stuckSince' = Note(i, stuckSince, 0) /\ Grace > 0
        \/ stuckSince' = Note(i, stuckSince, NotSeen)
        \/ stuckSince' = stuckSince
    BY <2>0
  <2>3. goneSince' = Note(i, goneSince, 0) \/ goneSince' = goneSince
    BY <2>0
  <2>4. i.target \in Targets /\ i.download # NoDownload
    BY DEF ItemsAreListed, PassShape
  <2>5. stuckSince' \in [Targets -> Ages] /\ goneSince' \in [Targets -> Ages]
    BY <2>2, <2>3, NotedAges, SmallAges DEF ReacquireTypeOK
  <2>6. \A t \in Targets : t # i.target => stuckSince'[t] = stuckSince[t]
    BY <2>2, NotedAges, SmallAges DEF ReacquireTypeOK
  <2>7. counts' \in [Targets -> 0..MaxFailures]
    BY <2>0, CountsStayTyped DEF ReacquireTypeOK
  <2>8. ReacquireTypeOK'
    BY <2>1, <2>5, <2>7 DEF ReacquireTypeOK
  <2>9. ItemsAreListed'
    BY <2>1 DEF ItemsAreListed
  <2>10. NewRecordsAreUnseen'
    BY <2>1, <2>6 DEF NewRecordsAreUnseen, ItemsAreListed
  <2>11. NoGraceNoPeriod'
    <3>1. Grace = 0 => \A t \in Targets : stuckSince'[t] = NotSeen
      BY <2>2, NotedAges, SmallAges DEF NoGraceNoPeriod, ReacquireTypeOK
    <3> QED
      BY <2>0, <2>4, <3>1 DEF NoGraceNoPeriod
  <2>12. ASSUME stuckSince'[i.target] # NotSeen, ~ i.stuck
         PROVE  record[i.target] = NoDownload
    <3>1. stuckSince' = Note(i, stuckSince, NotSeen)
      BY <2>0, <2>12 DEF Forgets
    <3>2. record[i.target] # i.download
      BY <2>4, <2>12, <3>1, NotedAges, SmallAges DEF ReacquireTypeOK
    <3>3. stuckSince[i.target] # NotSeen
      BY <2>12, <3>1, <3>2, NotedAges, SmallAges DEF ReacquireTypeOK
    <3> QED
      BY <3>2, <3>3 DEF NewRecordsAreUnseen
  <2>13. EasedAreGone'
    BY <2>0, <2>1, <2>4, <2>12 DEF EasedAreGone
  <2>14. PassShape'
    <3> HIDE DEF begins
    <3> QED
      BY <2>0 DEF Leaves, PassShape
  <2> QED
    BY <2>8, <2>9, <2>10, <2>11, <2>13, <2>14
<1>4. ASSUME NEW a \in pass.actions, DeleteSelected(a)
      PROVE  PassInv'
  <2>1. /\ pass'.items = pass.items
        /\ UNCHANGED <<monitored, library, counts, stuckSince, goneSince, eased>>
        /\ Forget({a.download}) \/ UNCHANGED <<record, missing>>
    <3>1. pass'.items = pass.items
      BY <1>4 DEF DeleteSelected, PassShape
    <3>2. UNCHANGED <<monitored, library, counts, stuckSince, goneSince, eased>>
      BY <1>4 DEF DeleteSelected
    <3>3. Forget({a.download}) \/ UNCHANGED <<record, missing>>
      BY <1>4 DEF DeleteSelected
    <3> QED
      BY <3>1, <3>2, <3>3
  <2>2. /\ record' \in [Targets -> Downloads \cup {NoDownload}]
        /\ \A t \in Targets : record'[t] \in {record[t], NoDownload}
        /\ missing' \subseteq Downloads
    BY <2>1, ForgetRecords DEF ReacquireTypeOK
  <2>3. ReacquireTypeOK'
    BY <2>1, <2>2 DEF ReacquireTypeOK
  <2>4. PassShape'
    BY <1>4 DEF DeleteSelected, PassShape
  <2> QED
    BY <2>1, <2>2, <2>3, <2>4, RecordsMayGo
<1>5. CASE UnmonitorSelected
  <2>1. /\ pass'.items = pass.items /\ PassShape' /\ monitored' \subseteq monitored
        /\ UNCHANGED <<record, library, missing, counts, stuckSince, goneSince, eased>>
    BY <1>5 DEF UnmonitorSelected, PassShape
  <2> QED
    BY <2>1 DEF ReacquireTypeOK, ItemsAreListed, NewRecordsAreUnseen, EasedAreGone, NoGraceNoPeriod
<1> QED
  BY <1>1, <1>2, <1>3, <1>4, <1>5 DEF PassStep

(* The *arr, the importer and the repair do not touch what a pass noted,   *)
(* but a new record begins without a period.                               *)
LEMMA OthersKeep ==
    ASSUME PassInv, ReacquireNext, ~ PassBegins, ~ PassStep
    PROVE  PassInv'
<1> USE DEF PassInv
<1>1. ASSUME NEW d \in Downloads, NEW P \in Packs, Grab(P, d)
      PROVE  PassInv'
  <2>1. P \subseteq Targets
    BY ReacquireConstants
  <2>2. /\ record' = [t \in Targets |-> IF t \in P THEN d ELSE record[t]]
        /\ stuckSince' = [t \in Targets |-> IF t \in P THEN NotSeen ELSE stuckSince[t]]
        /\ goneSince' = [t \in Targets |-> IF t \in P THEN NotSeen ELSE goneSince[t]]
        /\ eased' = eased \ P /\ missing' = missing \ {d}
        /\ \A i \in pass.items : i.download # d
        /\ UNCHANGED <<monitored, library, counts, pass>>
    BY <1>1 DEF Grab, NewRecords, Unused
  <2>3. ReacquireTypeOK'
    BY <2>2, SmallAges DEF ReacquireTypeOK
  <2> QED
    BY <2>1, <2>2, <2>3 DEF PassShape, ItemsAreListed, NewRecordsAreUnseen, EasedAreGone, NoGraceNoPeriod
<1>2. ASSUME NEW d \in Downloads, Flag(d) \/ PathChanges(d) \/ Downloaded(d) \/ ImportFails(d)
      PROVE  PassInv'
  <2>1. /\ UNCHANGED <<record, monitored, library, counts, pass, stuckSince, goneSince, eased>>
        /\ missing' \subseteq Downloads
    BY <1>2 DEF Flag, PathChanges, Downloaded, ImportFails, serverVars, workerVars, ReacquireTypeOK
  <2> QED
    BY <2>1 DEF ReacquireTypeOK, PassShape, ItemsAreListed, NewRecordsAreUnseen, EasedAreGone, NoGraceNoPeriod
<1>3. ASSUME UNCHANGED <<counts, pass, stuckSince, goneSince, eased>>,
             monitored' \subseteq Targets, library' \subseteq Targets, missing' \subseteq Downloads,
             record' \in [Targets -> Downloads \cup {NoDownload}],
             \A t \in Targets : record'[t] \in {record[t], NoDownload}
      PROVE  PassInv'
  <2>1. ReacquireTypeOK'
    BY <1>3 DEF ReacquireTypeOK
  <2> QED
    BY <1>3, <2>1, RecordsMayGo DEF PassShape
<1>4. ASSUME NEW d \in Downloads, Import(d)
      PROVE  PassInv'
  <2>1. /\ UNCHANGED <<counts, pass, stuckSince, goneSince, eased, monitored, missing>>
        /\ library' \subseteq Targets
        /\ record' \in [Targets -> Downloads \cup {NoDownload}]
        /\ \A t \in Targets : record'[t] \in {record[t], NoDownload}
    BY <1>4 DEF Import, Covered, Without, serverVars, workerVars, ReacquireTypeOK
  <2> QED
    BY <1>3, <2>1 DEF ReacquireTypeOK
<1>5. CASE Poll
  <2>1. UNCHANGED <<counts, pass, stuckSince, goneSince, eased, monitored, library>>
    BY <1>5 DEF Poll, serverVars, workerVars
  <2>2. /\ record' \in [Targets -> Downloads \cup {NoDownload}]
        /\ \A t \in Targets : record'[t] \in {record[t], NoDownload}
        /\ missing' \subseteq Downloads
    BY <1>5, ForgetRecords DEF Poll
  <2> QED
    BY <1>3, <2>1, <2>2 DEF ReacquireTypeOK
<1>6. CASE CountFailure
  <2>1. counts' \in [Targets -> 0..MaxFailures]
    BY <1>6, CountsStayTyped DEF CountFailure, ReacquireTypeOK
  <2>2. UNCHANGED <<record, monitored, library, missing, pass, stuckSince, goneSince, eased>>
    BY <1>6 DEF CountFailure, arrVars, workerVars
  <2> QED
    BY <2>1, <2>2
       DEF ReacquireTypeOK, PassShape, ItemsAreListed, NewRecordsAreUnseen, EasedAreGone, NoGraceNoPeriod
<1>7. CASE UnmonitorFirst
  <2>1. monitored' \subseteq monitored
    BY <1>7 DEF UnmonitorFirst
  <2>2. UNCHANGED <<record, library, missing, counts, pass, stuckSince, goneSince, eased>>
    BY <1>7 DEF UnmonitorFirst, workerVars
  <2> QED
    BY <2>1, <2>2
       DEF ReacquireTypeOK, PassShape, ItemsAreListed, NewRecordsAreUnseen, EasedAreGone, NoGraceNoPeriod
<1>8. CASE DeleteFailed
  <2>1. UNCHANGED <<counts, pass, stuckSince, goneSince, eased, monitored, library>>
    BY <1>8 DEF DeleteFailed, workerVars
  <2>2. /\ record' \in [Targets -> Downloads \cup {NoDownload}]
        /\ \A t \in Targets : record'[t] \in {record[t], NoDownload}
        /\ missing' \subseteq Downloads
    BY <1>8, ForgetRecords DEF DeleteFailed, ReacquireTypeOK
  <2> QED
    BY <1>3, <2>1, <2>2 DEF ReacquireTypeOK
<1>9. ASSUME NEW t \in library, RepairDeletes(t)
      PROVE  PassInv'
  <2>1. library' \subseteq library
    BY <1>9 DEF RepairDeletes
  <2>2. UNCHANGED <<record, monitored, missing, counts, pass, stuckSince, goneSince, eased>>
    BY <1>9 DEF RepairDeletes, workerVars
  <2> QED
    BY <2>1, <2>2
       DEF ReacquireTypeOK, PassShape, ItemsAreListed, NewRecordsAreUnseen, EasedAreGone, NoGraceNoPeriod
<1>10. CASE RepairDecides
  <2>1. monitored' \subseteq monitored /\ counts' \in [Targets -> 0..MaxFailures]
    BY <1>10, CountsStayTyped DEF RepairDecides
  <2>2. UNCHANGED <<record, library, missing, pass, stuckSince, goneSince, eased>>
    BY <1>10 DEF RepairDecides, workerVars
  <2> QED
    BY <2>1, <2>2
       DEF ReacquireTypeOK, PassShape, ItemsAreListed, NewRecordsAreUnseen, EasedAreGone, NoGraceNoPeriod
<1>11. ASSUME NEW d \in Downloads, RepairFromQueue(d)
       PROVE  PassInv'
  <2>1. UNCHANGED <<counts, pass, stuckSince, goneSince, eased, monitored, library>>
    BY <1>11 DEF RepairFromQueue, serverVars, workerVars
  <2>2. /\ record' \in [Targets -> Downloads \cup {NoDownload}]
        /\ \A t \in Targets : record'[t] \in {record[t], NoDownload}
        /\ missing' \subseteq Downloads
    BY <1>11, ForgetRecords DEF RepairFromQueue
  <2> QED
    BY <1>3, <2>1, <2>2 DEF ReacquireTypeOK
<1>12. CASE TimePasses
  <2>1. UNCHANGED <<record, monitored, library, missing, counts, eased, pass>>
    BY <1>12 DEF TimePasses, arrVars
  <2>2. /\ \A t \in Targets : stuckSince[t] = NotSeen => stuckSince'[t] = NotSeen
        /\ stuckSince' \in [Targets -> Ages] /\ goneSince' \in [Targets -> Ages]
    BY <1>12, ReacquireConstants DEF TimePasses, Older, NotSeen, Ages, ReacquireTypeOK
  <2> QED
    BY <2>1, <2>2
       DEF ReacquireTypeOK, PassShape, ItemsAreListed, NewRecordsAreUnseen, EasedAreGone, NoGraceNoPeriod
<1>13. CASE ServerRestarts
  BY <1>13, SmallAges, ReacquireConstants
  DEF ServerRestarts, arrVars, NoPass, PassShape, ReacquireTypeOK, ItemsAreListed, NewRecordsAreUnseen, EasedAreGone,
      NoGraceNoPeriod
<1> QED
  BY <1>1, <1>2, <1>4, <1>5, <1>6, <1>7, <1>8, <1>9, <1>10, <1>11, <1>12, <1>13
  DEF ReacquireNext, ArrStep, ImporterStep

(* Every step keeps the invariant of the passes.                           *)
LEMMA PassNext == PassInv /\ [ReacquireNext]_reacquireVars => PassInv'
<1>1. ASSUME PassInv, UNCHANGED reacquireVars
      PROVE  PassInv'
  BY <1>1
  DEF reacquireVars, arrVars, serverVars, workerVars, boundVars, PassInv, ReacquireTypeOK, PassShape, ItemsAreListed,
      NewRecordsAreUnseen, EasedAreGone, NoGraceNoPeriod
<1> QED
  BY <1>1, PassStepKeeps, OthersKeep

(* A pass looks at every record once, and what a grace period applies to   *)
(* is what it has listed.                                                  *)
THEOREM PassInvariant == ReacquireSpec => []PassInv
  BY PassInit, PassNext, PTL DEF ReacquireSpec

(* Every variable of the re-acquire loop keeps its type.                   *)
THEOREM LoopTypeCorrect == ReacquireSpec => []ReacquireTypeOK
<1>1. PassInv => ReacquireTypeOK
  BY DEF PassInv
<1> QED
  BY <1>1, PassInvariant, PTL

(* The clean-up acts on no record that a pass has found in order since its *)
(* grace period began.                                                     *)
THEOREM ActedOnAfterTheGracePeriod == ReacquireSpec => ActsAfterGrace
<1> DEFINE Patient ==
      \A i \in pass.items : SelectByRule(i) /\ pass'.actions # pass.actions => i.target \notin eased
<1>1. ASSUME PassInv, [ReacquireNext]_reacquireVars
      PROVE  Patient
  <2> SUFFICES ASSUME NEW i \in pass.items, SelectByRule(i), pass'.actions # pass.actions, i.target \in eased
               PROVE  FALSE
    OBVIOUS
  <2> DEFINE acts == i.stuck /\ (Grace = 0 \/ Age(i, stuckSince) >= Grace)
  <2>1. acts
    BY DEF SelectByRule
  <2>2. record[i.target] = NoDownload /\ i.target \in Targets /\ i.download # NoDownload
    BY <1>1 DEF PassInv, EasedAreGone, ItemsAreListed, PassShape
  <2>3. Age(i, stuckSince) = NotSeen
    BY <2>2 DEF Age
  <2>4. Grace = 0
    BY <2>1, <2>3, ReacquireConstants DEF NotSeen
  <2> QED
    BY <1>1, <2>4 DEF PassInv, NoGraceNoPeriod
<1>2. Patient => [Patient]_reacquireVars
  OBVIOUS
<1> QED
  BY <1>1, <1>2, PassInvariant, PTL DEF ReacquireSpec, ActsAfterGrace

-----------------------------------------------------------------------------
(* ImportProcessing.                                                       *)

(* No stop, no crash, and no retry before the failed run is over.          *)
Calm == ~ Happens("stop") /\ ~ Happens("crash") /\ ~ Happens("hasty")

Busy(h) == hand[h].step # "idle"

(* What a hand carries is a record of these fields.                        *)
HandShape ==
    /\ hand = [h \in Hands |-> hand[h]]
    /\ \A h \in Hands :
          hand[h] = [nzb |-> hand[h].nzb, step |-> hand[h].step, path |-> hand[h].path,
                     due |-> hand[h].due, spots |-> hand[h].spots, wrote |-> hand[h].wrote,
                     verdict |-> hand[h].verdict, stop |-> hand[h].stop]

RowShape ==
    /\ row = [n \in Nzbs |-> row[n]]
    /\ rowPath = [n \in Nzbs |-> rowPath[n]]
    /\ nzbAt = [n \in Nzbs |-> nzbAt[n]]

Importing == {"record", "open", "probe", "parse", "place", "write", "store", "complete", "clean", "fail"}
Failing == {"count", "move"}

(* Where the NZB of a busy hand is, and what its row says, at each step.   *)
Custody(step, path, says, said, place) ==
    \/ step = "persist" /\ says = "processing" /\ path = said /\ place = said
    \/ step \in Importing /\ says = "processing" /\ path = "queue" /\ place = "queue"
    \/ step \in Failing /\ says = "failed" /\ path = "queue" /\ place = "queue"
    \/ step = "moved" /\ says = "failed" /\ place = "failed"
    \/ step = "discard" /\ says = "completed"

HandsKeepCustody ==
    \A h \in Hands : Busy(h) =>
        Custody(hand[h].step, hand[h].path, row[hand[h].nzb], rowPath[hand[h].nzb], nzbAt[hand[h].nzb])

OneHandEach == \A g \in Hands, h \in Hands : Busy(g) /\ Busy(h) /\ hand[g].nzb = hand[h].nzb => g = h

(* Of what no hand works on, the row says where the NZB is.                *)
RestingWhereSaid ==
    \A n \in Nzbs : row[n] \in {"pending", "failed"} /\ (\A h \in Hands : Busy(h) => hand[h].nzb # n) =>
        nzbAt[n] = rowPath[n]

CustodyInv ==
    /\ HandShape /\ RowShape
    /\ \A h \in Hands : Busy(h) => hand[h].nzb \in Nzbs
    /\ Calm => server = "up" /\ HandsKeepCustody /\ OneHandEach /\ RestingWhereSaid

(* Every import starts in the queue folder that its row names, and in no   *)
(* hand.                                                                   *)
LEMMA CustodyInit == ProcessingInit => CustodyInv
<1> SUFFICES ASSUME ProcessingInit
             PROVE  CustodyInv
  OBVIOUS
<1>1. \A h \in Hands : hand[h] = Idle /\ ~ Busy(h)
  BY DEF ProcessingInit, Idle, Busy
<1>2. HandShape
  <2>1. hand = [h \in Hands |-> hand[h]]
    BY DEF ProcessingInit
  <2> QED
    BY <1>1, <2>1 DEF HandShape, Idle
<1>3. RowShape
  BY DEF ProcessingInit, RowShape
<1>4. HandsKeepCustody /\ OneHandEach /\ RestingWhereSaid
  BY <1>1 DEF ProcessingInit, HandsKeepCustody, OneHandEach, RestingWhereSaid
<1> QED
  BY <1>1, <1>2, <1>3, <1>4 DEF ProcessingInit, CustodyInv

(* A step that leaves the rows and what the hands carry is only a step     *)
(* within a stage.                                                         *)
SameCustody ==
    /\ UNCHANGED nzbVars
    /\ \A g \in Hands : /\ hand'[g].nzb = hand[g].nzb /\ hand'[g].path = hand[g].path
                        /\ \/ hand'[g].step = hand[g].step
                           \/ {hand'[g].step, hand[g].step} \subseteq Importing

(* A step that leaves the rows, the files and who holds them keeps         *)
(* custody.                                                                *)
LEMMA StagesKeep ==
    ASSUME CustodyInv, UNCHANGED <<setting, server>>, HandShape', SameCustody
    PROVE  CustodyInv'
<1>1. RowShape'
  BY DEF CustodyInv, RowShape, SameCustody, nzbVars
<1>2. \A g \in Hands : Busy(g)' <=> Busy(g)
  BY DEF SameCustody, Busy, Importing
<1>0. \A g \in Hands : Busy(g)' => hand'[g].nzb \in Nzbs
  BY <1>2 DEF CustodyInv, SameCustody
<1> SUFFICES ASSUME Calm
             PROVE  HandsKeepCustody' /\ OneHandEach' /\ RestingWhereSaid'
  BY <1>0, <1>1 DEF CustodyInv, Calm, Happens
<1>3. HandsKeepCustody /\ OneHandEach /\ RestingWhereSaid
  BY DEF CustodyInv
<1>4. HandsKeepCustody'
  BY <1>2, <1>3 DEF HandsKeepCustody, Custody, SameCustody, nzbVars, Importing, Failing
<1>5. OneHandEach'
  BY <1>2, <1>3 DEF OneHandEach, SameCustody
<1>6. RestingWhereSaid'
  BY <1>2, <1>3 DEF RestingWhereSaid, SameCustody, nzbVars
<1> QED
  BY <1>4, <1>5, <1>6

(* A step of a hand with its item, by which the other items are not        *)
(* touched, keeps custody if it does for the item.                         *)
ElsewhereSame(h, n) ==
    /\ HandShape' /\ RowShape'
    /\ \A g \in Hands : g # h => hand'[g] = hand[g]
    /\ \A m \in Nzbs : m # n => row'[m] = row[m] /\ rowPath'[m] = rowPath[m] /\ nzbAt'[m] = nzbAt[m]

(* A step of one hand on its own item keeps custody when that item's row   *)
(* and file agree after it.                                                *)
LEMMA OneItemKeeps ==
    ASSUME CustodyInv, UNCHANGED <<setting, server>>,
           NEW h \in Hands, NEW n \in Nzbs, ElsewhereSame(h, n),
           Calm => \A g \in Hands : g # h /\ Busy(g) => hand[g].nzb # n,
           Busy(h) => hand[h].nzb = n,
           Busy(h)' => hand'[h].nzb = n,
           Calm /\ Busy(h)' => Custody(hand'[h].step, hand'[h].path, row'[n], rowPath'[n], nzbAt'[n]),
           Calm /\ ~ Busy(h)' /\ row'[n] \in {"pending", "failed"} => nzbAt'[n] = rowPath'[n]
    PROVE  CustodyInv'
<1>0. \A g \in Hands : Busy(g)' => hand'[g].nzb \in Nzbs
  BY DEF CustodyInv, ElsewhereSame, Busy
<1> SUFFICES ASSUME Calm
             PROVE  HandsKeepCustody' /\ OneHandEach' /\ RestingWhereSaid'
  BY <1>0 DEF CustodyInv, Calm, Happens, ElsewhereSame
<1>1. HandsKeepCustody /\ OneHandEach /\ RestingWhereSaid
  BY DEF CustodyInv
<1>2. \A g \in Hands : g # h => hand'[g] = hand[g] /\ (Busy(g)' <=> Busy(g))
  BY DEF ElsewhereSame, Busy
<1>3. HandsKeepCustody'
  <2> SUFFICES ASSUME NEW g \in Hands, Busy(g)'
               PROVE  Custody(hand'[g].step, hand'[g].path, row'[hand'[g].nzb], rowPath'[hand'[g].nzb],
                              nzbAt'[hand'[g].nzb])
    BY DEF HandsKeepCustody
  <2>1. CASE g = h
    BY <2>1
  <2>2. CASE g # h
    <3>1. Busy(g) /\ hand'[g] = hand[g] /\ hand[g].nzb \in Nzbs /\ hand[g].nzb # n
      BY <1>2, <2>2 DEF CustodyInv
    <3> DEFINE m == hand[g].nzb
    <3>2. row'[m] = row[m] /\ rowPath'[m] = rowPath[m] /\ nzbAt'[m] = nzbAt[m]
      BY <3>1 DEF ElsewhereSame
    <3> QED
      BY <1>1, <3>1, <3>2 DEF HandsKeepCustody
  <2> QED
    BY <2>1, <2>2
<1>4. OneHandEach'
  BY <1>1, <1>2 DEF OneHandEach
<1>5. RestingWhereSaid'
  BY <1>1, <1>2 DEF RestingWhereSaid, ElsewhereSame
<1> QED
  BY <1>3, <1>4, <1>5

(* A hand goes on within its stage.                                        *)
Within(h) ==
    /\ HandShape' /\ UNCHANGED nzbVars
    /\ \A g \in Hands : g # h => hand'[g] = hand[g]
    /\ hand'[h].nzb = hand[h].nzb /\ hand'[h].path = hand[h].path
    /\ {hand'[h].step, hand[h].step} \subseteq Importing

Further(h, step, due, spots, wrote, verdict) ==
    [nzb |-> hand[h].nzb, step |-> step, path |-> hand[h].path, due |-> due, spots |-> spots,
     wrote |-> wrote, verdict |-> verdict, stop |-> hand[h].stop]

Turned(h, step, path, verdict) ==
    [nzb |-> hand[h].nzb, step |-> step, path |-> path, due |-> hand[h].due, spots |-> hand[h].spots,
     wrote |-> hand[h].wrote, verdict |-> verdict, stop |-> hand[h].stop]

(* A hand that goes to another step is otherwise the same.                 *)
LEMMA StepOfHand ==
    ASSUME HandShape, NEW h \in Hands, NEW step
    PROVE  [hand EXCEPT ![h].step = step]
             = [hand EXCEPT ![h] = Turned(h, step, hand[h].path, hand[h].verdict)]
<1> DEFINE r == hand[h]
           q == [hand[h] EXCEPT !.step = step]
<1>1. [hand EXCEPT ![h].step = step] = [hand EXCEPT ![h] = q]
  BY DEF HandShape
<1>2. r = [nzb |-> r.nzb, step |-> r.step, path |-> r.path, due |-> r.due, spots |-> r.spots,
           wrote |-> r.wrote, verdict |-> r.verdict, stop |-> r.stop]
  BY DEF HandShape
<1>3. q = Turned(h, step, hand[h].path, hand[h].verdict)
  BY <1>2 DEF Turned, Further
<1> QED
  BY <1>1, <1>3

(* A hand that moves its NZB is otherwise the same.                        *)
LEMMA PathOfHand ==
    ASSUME HandShape, NEW h \in Hands, NEW step, NEW path
    PROVE  [hand EXCEPT ![h].step = step, ![h].path = path]
             = [hand EXCEPT ![h] = Turned(h, step, path, hand[h].verdict)]
<1> DEFINE r == hand[h]
           q == [hand[h] EXCEPT !.step = step, !.path = path]
<1>1. [hand EXCEPT ![h].step = step, ![h].path = path] = [hand EXCEPT ![h] = q]
  BY DEF HandShape
<1>2. r = [nzb |-> r.nzb, step |-> r.step, path |-> r.path, due |-> r.due, spots |-> r.spots,
           wrote |-> r.wrote, verdict |-> r.verdict, stop |-> r.stop]
  BY DEF HandShape
<1>3. q = Turned(h, step, path, hand[h].verdict)
  <2>1. [r EXCEPT !.step = step] = Turned(h, step, r.path, r.verdict)
    BY <1>2 DEF Turned
  <2>2. [Turned(h, step, r.path, r.verdict) EXCEPT !.path = path] = Turned(h, step, path, r.verdict)
    BY DEF Turned
  <2> QED
    BY <2>1, <2>2
<1> QED
  BY <1>1, <1>3

(* A hand that gives up goes to clean with its verdict.                    *)
LEMMA VerdictOfHand ==
    ASSUME HandShape, NEW h \in Hands, NEW verdict, GiveUpWith(h, verdict)
    PROVE  hand' = [hand EXCEPT ![h] = Turned(h, "clean", hand[h].path, verdict)]
<1> DEFINE r == hand[h]
           q == [hand[h] EXCEPT !.step = "clean", !.verdict = verdict]
<1>1. hand' = [hand EXCEPT ![h] = q]
  BY DEF HandShape, GiveUpWith
<1>2. r = [nzb |-> r.nzb, step |-> r.step, path |-> r.path, due |-> r.due, spots |-> r.spots,
           wrote |-> r.wrote, verdict |-> r.verdict, stop |-> r.stop]
  BY DEF HandShape
<1>3. q = Turned(h, "clean", hand[h].path, verdict)
  <2>1. [r EXCEPT !.step = "clean"] = Turned(h, "clean", r.path, r.verdict)
    BY <1>2 DEF Turned
  <2>2. [Turned(h, "clean", r.path, r.verdict) EXCEPT !.verdict = verdict] = Turned(h, "clean", r.path, verdict)
    BY DEF Turned
  <2> QED
    BY <2>1, <2>2
<1> QED
  BY <1>1, <1>3

(* A hand that writes a file notes it.                                     *)
LEMMA WroteOfHand ==
    ASSUME HandShape, NEW h \in Hands, NEW wrote
    PROVE  [hand EXCEPT ![h].wrote = wrote]
             = [hand EXCEPT ![h] = Further(h, hand[h].step, hand[h].due, hand[h].spots, wrote, hand[h].verdict)]
<1> DEFINE r == hand[h]
           q == [hand[h] EXCEPT !.wrote = wrote]
<1>1. [hand EXCEPT ![h].wrote = wrote] = [hand EXCEPT ![h] = q]
  BY DEF HandShape
<1>2. r = [nzb |-> r.nzb, step |-> r.step, path |-> r.path, due |-> r.due, spots |-> r.spots,
           wrote |-> r.wrote, verdict |-> r.verdict, stop |-> r.stop]
  BY DEF HandShape
<1>3. q = Further(h, hand[h].step, hand[h].due, hand[h].spots, wrote, hand[h].verdict)
  BY <1>2 DEF Turned, Further
<1> QED
  BY <1>1, <1>3

(* Work on the files of an import moves neither its row nor its NZB.       *)
LEMMA FurtherIsWithin ==
    ASSUME HandShape, NEW h \in Hands, UNCHANGED nzbVars, hand[h].step \in Importing, NEW step \in Importing,
           NEW due, NEW spots, NEW wrote, NEW verdict,
           hand' = [hand EXCEPT ![h] = Further(h, step, due, spots, wrote, verdict)]
    PROVE  Within(h)
<1>1. hand'[h] = Further(h, step, due, spots, wrote, verdict) /\ \A g \in Hands : g # h => hand'[g] = hand[g]
  BY DEF HandShape
<1>2. hand' = [g \in Hands |-> hand'[g]]
  BY DEF HandShape
<1>3. HandShape'
  BY <1>1, <1>2 DEF HandShape, Further
<1> QED
  BY <1>1, <1>3 DEF Within, Further

(* The steps that stay within the import or its failure.                   *)
LEMMA StageStepsKeep ==
    ASSUME CustodyInv, NEW h \in Hands, NEW n \in Nzbs,
           UNCHANGED <<fixedVars, server, limitVars>>,
           \/ Open(h, n) \/ Probe(h, n) \/ Parse(h) \/ Analyse(h, n)
           \/ \E p \in Parts : Reserve(h, n, p) \/ WriteFile(h, n, p)
           \/ Written(h) \/ (Store(h) /\ server = "up") \/ CleanUp(h)
    PROVE  CustodyInv'
<1> DEFINE r == hand[h]
           to(step) == [hand EXCEPT ![h] = Further(h, step, r.due, r.spots, r.wrote, r.verdict)]
           quit(verdict) == [hand EXCEPT ![h] = Further(h, "clean", r.due, r.spots, r.wrote, verdict)]
<1>0. HandShape
  BY DEF CustodyInv
<1>00. r = [nzb |-> r.nzb, step |-> r.step, path |-> r.path, due |-> r.due, spots |-> r.spots,
            wrote |-> r.wrote, verdict |-> r.verdict, stop |-> r.stop]
  BY <1>0 DEF HandShape
<1>0a. \A step : To(h, step) => hand' = to(step)
  BY <1>0 DEF HandShape, To, Further
<1>0b. \A verdict : GiveUpWith(h, verdict) => hand' = quit(verdict)
  BY <1>0 DEF HandShape, GiveUpWith, Further
<1>0c. ASSUME UNCHANGED nzbVars, r.step \in Importing, NEW step \in Importing, NEW verdict,
              hand' = to(step) \/ hand' = quit(verdict)
       PROVE  Within(h)
  BY <1>0, <1>0c, FurtherIsWithin DEF Importing
<1> HIDE DEF to, quit
<1>1. ASSUME Open(h, n)
      PROVE  Within(h)
  BY <1>0a, <1>0b, <1>0c, <1>1 DEF Open, Importing
<1>2. ASSUME Probe(h, n)
      PROVE  Within(h)
  <2>1. UNCHANGED nzbVars /\ r.step = "probe"
    BY <1>2 DEF Probe
  <2>2. PICK found : IF found = {} THEN GiveUpWith(h, "failed")
                     ELSE hand' = [hand EXCEPT ![h].step = "parse", ![h].due = found]
    BY <1>2 DEF Probe
  <2>3. CASE found = {}
    BY <1>0b, <1>0c, <2>1, <2>2, <2>3 DEF Importing
  <2>4. CASE found # {}
    <3>1. hand' = [hand EXCEPT ![h] = Further(h, "parse", found, r.spots, r.wrote, r.verdict)]
      BY <1>0, <2>2, <2>4 DEF HandShape, Further
    <3> QED
      BY <1>0, <2>1, <3>1, FurtherIsWithin DEF Importing
  <2> QED
    BY <2>3, <2>4
<1>3. ASSUME Parse(h)
      PROVE  Within(h)
  BY <1>0a, <1>0b, <1>0c, <1>3 DEF Parse, Importing
<1>4. ASSUME Analyse(h, n)
      PROVE  Within(h)
  <2> DEFINE due == {p \in hand[h].due : ~ placed[Place(n, p, 0)].ok}
             spots == [p \in Parts |-> IF p \in due THEN Place(n, p, 0) ELSE Nowhere]
  <2>1. UNCHANGED nzbVars /\ r.step = "place"
    BY <1>4 DEF Analyse
  <2>2. LET noted == [hand EXCEPT ![h].wrote = FolderOf(n)]
        IN \/ hand' = [noted EXCEPT ![h].step = "clean", ![h].verdict = "cancelled"]
           \/ hand' = [noted EXCEPT ![h].step = "write", ![h].due = due, ![h].spots = spots]
    BY <1>4 DEF Analyse
  <2> HIDE DEF due, spots
  <2>3. \/ hand' = [hand EXCEPT ![h] = Further(h, "clean", r.due, r.spots, FolderOf(n), "cancelled")]
        \/ hand' = [hand EXCEPT ![h] = Further(h, "write", due, spots, FolderOf(n), r.verdict)]
    <3> DEFINE noted == [hand EXCEPT ![h].wrote = FolderOf(n)]
    <3>1. noted = [hand EXCEPT ![h] = Further(h, "place", r.due, r.spots, FolderOf(n), r.verdict)]
      BY <1>0, <2>1, WroteOfHand
    <3>2. \/ hand' = [noted EXCEPT ![h].step = "clean", ![h].verdict = "cancelled"]
          \/ hand' = [noted EXCEPT ![h].step = "write", ![h].due = due, ![h].spots = spots]
      BY <2>2
    <3> HIDE DEF noted
    <3>3. noted[h] = Further(h, "place", r.due, r.spots, FolderOf(n), r.verdict)
      BY <1>0, <3>1 DEF HandShape
    <3> QED
      BY <1>0, <3>1, <3>2, <3>3 DEF HandShape, Further
  <2> QED
    BY <1>0, <2>1, <2>3, FurtherIsWithin DEF Importing
<1>5. ASSUME NEW p \in Parts, Reserve(h, n, p)
      PROVE  Within(h)
  <2>1. UNCHANGED nzbVars /\ r.step \in {"place", "write"}
    BY <1>5 DEF Reserve
  <2> DEFINE spots == [r.spots EXCEPT ![p] = FreePlace(h, n, p)]
             reserved == [r EXCEPT !.step = "write", !.spots[p] = FreePlace(h, n, p)]
  <2>2. hand' = [hand EXCEPT ![h] = reserved]
    BY <1>0, <1>5 DEF Reserve, HandShape
  <2>3. reserved = [r EXCEPT !.step = "write", !.spots = spots]
    BY <1>00
  <2> HIDE DEF spots, reserved
  <2>4. reserved = Further(h, "write", r.due, spots, r.wrote, r.verdict)
    BY <1>00, <2>3 DEF Further
  <2> QED
    BY <1>0, <2>1, <2>2, <2>4, FurtherIsWithin DEF Importing
<1>6. ASSUME NEW p \in Parts, WriteFile(h, n, p)
      PROVE  Within(h)
  <2> DEFINE s == hand[h].spots[p]
             over == [hand EXCEPT ![h].due = @ \ {p}, ![h].spots[p] = Nowhere]
             spots == [r.spots EXCEPT ![p] = Nowhere]
  <2>1. UNCHANGED nzbVars /\ r.step = "write"
    BY <1>6 DEF WriteFile
  <2>2. hand' = [over EXCEPT ![h].wrote = @ \cup {s}] \/ hand' = [over EXCEPT ![h].verdict = "failed"]
    BY <1>6 DEF WriteFile
  <2>3. over = [hand EXCEPT ![h] = Further(h, "write", r.due \ {p}, spots, r.wrote, r.verdict)]
    <3> DEFINE gone == [r EXCEPT !.due = r.due \ {p}, !.spots[p] = Nowhere]
    <3>1. over = [hand EXCEPT ![h] = gone]
      BY <1>0 DEF HandShape
    <3>2. gone = [r EXCEPT !.due = r.due \ {p}, !.spots = spots]
      BY <1>00
    <3> HIDE DEF spots, gone, over
    <3>3. gone = Further(h, "write", r.due \ {p}, spots, r.wrote, r.verdict)
      BY <1>00, <2>1, <3>2 DEF Further
    <3> QED
      BY <3>1, <3>3
  <2>4. \/ hand' = [hand EXCEPT ![h] = Further(h, "write", r.due \ {p}, spots, r.wrote \cup {s}, r.verdict)]
        \/ hand' = [hand EXCEPT ![h] = Further(h, "write", r.due \ {p}, spots, r.wrote, "failed")]
    <3> HIDE DEF over, spots, s
    <3>1. over[h] = Further(h, "write", r.due \ {p}, spots, r.wrote, r.verdict)
      BY <1>0, <2>3 DEF HandShape
    <3> QED
      BY <1>0, <2>2, <2>3, <3>1 DEF HandShape, Further
  <2> HIDE DEF s, spots
  <2> QED
    BY <1>0, <2>1, <2>4, FurtherIsWithin DEF Importing
<1>7. ASSUME Written(h)
      PROVE  Within(h)
  BY <1>0a, <1>0c, <1>7 DEF Written, Importing
<1>8. ASSUME Store(h), server = "up"
      PROVE  Within(h)
  BY <1>0a, <1>0c, <1>8 DEF Store, Importing
<1>9. ASSUME CleanUp(h)
      PROVE  Within(h)
  BY <1>0a, <1>0c, <1>9 DEF CleanUp, Importing
<1>10. Within(h)
  BY <1>1, <1>2, <1>3, <1>4, <1>5, <1>6, <1>7, <1>8, <1>9
<1> QED
  BY <1>10, StagesKeep DEF Within, SameCustody, fixedVars

(* Who takes an item finds nobody at it, and its NZB where its row says.   *)
LEMMA TakeKeeps ==
    ASSUME CustodyInv, NEW h \in Hands, NEW n \in Nzbs, Take(h, n), UNCHANGED <<fixedVars, server, limitVars>>
    PROVE  CustodyInv'
<1>1. HandShape /\ RowShape
  BY DEF CustodyInv
<1>2. /\ row' = [row EXCEPT ![n] = "processing"] /\ UNCHANGED <<rowPath, nzbAt>>
      /\ hand' = [hand EXCEPT ![h] = [Idle EXCEPT !.nzb = n, !.step = "persist", !.path = rowPath[n]]]
      /\ row[n] = "pending" /\ ~ Busy(h)
  BY DEF Take, Busy
<1>3. /\ hand'[h] = [Idle EXCEPT !.nzb = n, !.step = "persist", !.path = rowPath[n]]
      /\ \A g \in Hands : g # h => hand'[g] = hand[g]
      /\ hand' = [g \in Hands |-> hand'[g]]
  BY <1>1, <1>2 DEF HandShape
<1>4. HandShape'
  BY <1>1, <1>3 DEF HandShape, Idle
<1>5. RowShape' /\ row'[n] = "processing" /\ \A m \in Nzbs : m # n => row'[m] = row[m]
  BY <1>1, <1>2 DEF RowShape
<1>6. hand'[h].nzb = n /\ hand'[h].step = "persist" /\ hand'[h].path = rowPath[n] /\ Busy(h)'
  BY <1>3 DEF Idle, Busy
<1>7. ElsewhereSame(h, n)
  BY <1>2, <1>3, <1>4, <1>5 DEF ElsewhereSame
<1>8. ASSUME Calm
      PROVE  \A g \in Hands : Busy(g) => hand[g].nzb # n
  BY <1>2, <1>8 DEF CustodyInv, HandsKeepCustody, Custody
<1>9. Calm => nzbAt[n] = rowPath[n]
  BY <1>2, <1>8 DEF CustodyInv, RestingWhereSaid
<1>10. Calm => Custody(hand'[h].step, hand'[h].path, row'[n], rowPath'[n], nzbAt'[n])
  BY <1>2, <1>5, <1>6, <1>9 DEF Custody
<1> QED
  BY <1>2, <1>6, <1>7, <1>8, <1>10, OneItemKeeps DEF fixedVars

(* The steps by which the NZB, its row or the path moves.                  *)
Moves(h, n) ==
    \/ Persist(h, n) \/ RecordPath(h, n) \/ Complete(h, n) \/ Discard(h, n)
    \/ Fail(h, n) \/ Count(h, n) \/ MoveToFailed(h, n) \/ RecordFailed(h, n)

(* A step that moves the row or the NZB of an item is one of the hand that *)
(* holds it.                                                               *)
LEMMA MovesKeepShape ==
    ASSUME CustodyInv, NEW h \in Hands, NEW n \in Nzbs, Moves(h, n)
    PROVE  /\ ElsewhereSame(h, n)
           /\ Busy(h) /\ (Busy(h)' => hand'[h].nzb = hand[h].nzb)
<1>1. HandShape /\ RowShape
  BY DEF CustodyInv
<1> DEFINE r == hand[h]
           same(q) == q.nzb = r.nzb \/ q.step = "idle"
<1>2. PICK q : /\ hand' = [hand EXCEPT ![h] = q] /\ same(q)
               /\ q = [nzb |-> q.nzb, step |-> q.step, path |-> q.path, due |-> q.due, spots |-> q.spots,
                       wrote |-> q.wrote, verdict |-> q.verdict, stop |-> q.stop]
  <2>1. r = [nzb |-> r.nzb, step |-> r.step, path |-> r.path, due |-> r.due, spots |-> r.spots,
             wrote |-> r.wrote, verdict |-> r.verdict, stop |-> r.stop]
    BY <1>1 DEF HandShape
  <2>2. \/ End(h)
        \/ \E step \in {"open", "discard", "count", "move", "moved"} : To(h, step)
        \/ \E verdict \in {"failed", "cancelled"} : GiveUpWith(h, verdict)
        \/ hand' = [hand EXCEPT ![h].step = "record", ![h].path = "queue"]
    BY DEF Moves, Persist, RecordPath, Complete, Discard, Fail, Count, MoveToFailed, RecordFailed
  <2>3. \/ hand' = [hand EXCEPT ![h] = Idle]
        \/ \E step, path, verdict : hand' = [hand EXCEPT ![h] = Turned(h, step, path, verdict)]
    <3>1. CASE End(h)
      BY <3>1 DEF End
    <3>2. ASSUME NEW step, To(h, step)
          PROVE  hand' = [hand EXCEPT ![h] = Turned(h, step, r.path, r.verdict)]
      BY <1>1, <3>2, StepOfHand DEF To
    <3>3. ASSUME NEW verdict, GiveUpWith(h, verdict)
          PROVE  hand' = [hand EXCEPT ![h] = Turned(h, "clean", r.path, verdict)]
      BY <1>1, <3>3, VerdictOfHand
    <3>4. CASE hand' = [hand EXCEPT ![h].step = "record", ![h].path = "queue"]
      <4>1. hand' = [hand EXCEPT ![h] = Turned(h, "record", "queue", r.verdict)]
        BY <1>1, <3>4, PathOfHand
      <4> QED
        BY <4>1
    <3> QED
      BY <2>2, <3>1, <3>2, <3>3, <3>4
  <2>4. same(Idle) /\ \A step, path, verdict : same(Turned(h, step, path, verdict))
    BY DEF Idle, Turned
  <2> QED
    BY <2>3, <2>4 DEF Idle, Turned
<1>3. hand'[h] = q /\ \A g \in Hands : g # h => hand'[g] = hand[g]
  BY <1>1, <1>2 DEF HandShape
<1>4. hand' = [g \in Hands |-> hand'[g]]
  BY <1>1, <1>2 DEF HandShape
<1>5. HandShape'
  <2>1. \A g \in Hands : g # h =>
          hand'[g] = [nzb |-> hand'[g].nzb, step |-> hand'[g].step, path |-> hand'[g].path,
                      due |-> hand'[g].due, spots |-> hand'[g].spots, wrote |-> hand'[g].wrote,
                      verdict |-> hand'[g].verdict, stop |-> hand'[g].stop]
    BY <1>1, <1>3 DEF HandShape
  <2> QED
    BY <1>2, <1>3, <1>4, <2>1 DEF HandShape
<1>6. /\ RowShape'
      /\ \A m \in Nzbs : m # n => row'[m] = row[m] /\ rowPath'[m] = rowPath[m] /\ nzbAt'[m] = nzbAt[m]
  BY <1>1
  DEF Moves, Persist, RecordPath, Complete, Discard, Fail, Count, MoveToFailed, RecordFailed, RowShape, nzbVars
<1>7. Busy(h)
  BY DEF Moves, Persist, RecordPath, Complete, Discard, Fail, Count, MoveToFailed, RecordFailed, Busy
<1> QED
  BY <1>2, <1>3, <1>5, <1>6, <1>7 DEF ElsewhereSame, Busy

(* ensurePersistentNzb, the verdict in the row and moveToFailedFolder: row *)
(* and file agree again when the hand lets go.                             *)
LEMMA MovesKeepCustody ==
    ASSUME CustodyInv, Calm, NEW h \in Hands, NEW n \in Nzbs, hand[h].nzb = n, Moves(h, n)
    PROVE  /\ Busy(h)' => Custody(hand'[h].step, hand'[h].path, row'[n], rowPath'[n], nzbAt'[n])
           /\ ~ Busy(h)' /\ row'[n] \in {"pending", "failed"} => nzbAt'[n] = rowPath'[n]
<1> DEFINE r == hand[h]
           Goal == /\ Busy(h)' => Custody(hand'[h].step, hand'[h].path, row'[n], rowPath'[n], nzbAt'[n])
                   /\ ~ Busy(h)' /\ row'[n] \in {"pending", "failed"} => nzbAt'[n] = rowPath'[n]
<1>0. HandShape /\ RowShape /\ server = "up" /\ Busy(h)
  BY MovesKeepShape DEF CustodyInv
<1>1. Custody(r.step, r.path, row[n], rowPath[n], nzbAt[n])
  BY <1>0 DEF CustodyInv, HandsKeepCustody
<1>2. r = [nzb |-> r.nzb, step |-> r.step, path |-> r.path, due |-> r.due, spots |-> r.spots,
           wrote |-> r.wrote, verdict |-> r.verdict, stop |-> r.stop]
  BY <1>0 DEF HandShape
<1>3. \A step : To(h, step) => hand'[h].step = step /\ hand'[h].path = r.path
  BY <1>0, <1>2 DEF To, HandShape
<1>4. \A verdict : GiveUpWith(h, verdict) => hand'[h].step = "clean" /\ hand'[h].path = r.path
  BY <1>0, <1>2 DEF GiveUpWith, HandShape
<1>5. End(h) => ~ Busy(h)'
  BY <1>0 DEF End, HandShape, Idle, Busy
<1>6. ASSUME Persist(h, n)
      PROVE  Goal
  <2>1. r.step = "persist" /\ row[n] = "processing" /\ r.path = rowPath[n] /\ nzbAt[n] = rowPath[n]
    BY <1>1, <1>6 DEF Persist, Custody, Importing, Failing
  <2>2. UNCHANGED <<row, rowPath>>
    BY <1>6 DEF Persist
  <2>3. CASE r.path = "queue"
    <3>1. To(h, "open") /\ UNCHANGED nzbAt
      BY <1>6, <2>1, <2>3 DEF Persist
    <3> QED
      BY <1>3, <2>1, <2>2, <2>3, <3>1 DEF Custody, Importing, Busy
  <2>4. CASE r.path # "queue"
    <3>1. /\ nzbAt' = [nzbAt EXCEPT ![n] = "queue"]
          /\ hand' = [hand EXCEPT ![h].step = "record", ![h].path = "queue"]
      BY <1>6, <2>1, <2>4 DEF Persist
    <3>2. nzbAt'[n] = "queue"
      BY <1>0, <3>1 DEF RowShape
    <3>3. hand'[h].step = "record" /\ hand'[h].path = "queue"
      BY <1>0, <1>2, <3>1 DEF HandShape
    <3> QED
      BY <2>1, <2>2, <3>2, <3>3 DEF Custody, Importing, Busy
  <2> QED
    BY <2>3, <2>4
<1>7. ASSUME RecordPath(h, n)
      PROVE  Goal
  <2>1. r.step = "record" /\ row[n] = "processing" /\ r.path = "queue" /\ nzbAt[n] = "queue"
    BY <1>1, <1>7 DEF RecordPath, Custody, Importing, Failing
  <2>2. UNCHANGED <<row, nzbAt>> /\ hand'[h].step \in {"clean", "open"} /\ hand'[h].path = r.path
    BY <1>3, <1>4, <1>7 DEF RecordPath
  <2> QED
    BY <2>1, <2>2 DEF Custody, Importing, Busy
<1>8. ASSUME Complete(h, n)
      PROVE  Goal
  <2>1. row' = [row EXCEPT ![n] = "completed"] /\ To(h, "discard")
    BY <1>0, <1>8 DEF Complete
  <2>2. row'[n] = "completed"
    BY <1>0, <2>1 DEF RowShape
  <2> QED
    BY <1>3, <2>1, <2>2 DEF Custody, Busy
<1>9. ASSUME Discard(h, n)
      PROVE  Goal
  <2>1. row[n] = "completed" /\ UNCHANGED row /\ End(h)
    BY <1>1, <1>9 DEF Discard, Custody, Importing, Failing
  <2> QED
    BY <1>5, <2>1
<1>10. ASSUME Fail(h, n)
       PROVE  Goal
  <2>1. r.path = "queue" /\ nzbAt[n] = "queue"
    BY <1>1, <1>10 DEF Fail, Custody, Importing, Failing
  <2>2. row'[n] = "failed" /\ UNCHANGED nzbAt /\ To(h, "count")
    BY <1>0, <1>10 DEF Fail, RowShape
  <2> QED
    BY <1>3, <2>1, <2>2 DEF Custody, Failing, Busy
<1>11. ASSUME Count(h, n)
       PROVE  Goal
  <2>1. r.path = "queue" /\ nzbAt[n] = "queue" /\ row[n] = "failed"
    BY <1>1, <1>11 DEF Count, Custody, Importing, Failing
  <2>2. UNCHANGED nzbVars /\ To(h, "move")
    BY <1>11 DEF Count
  <2> QED
    BY <1>3, <2>1, <2>2 DEF Custody, Failing, Busy, nzbVars
<1>12. ASSUME MoveToFailed(h, n)
       PROVE  Goal
  <2>1. r.path = "queue" /\ nzbAt[n] = "queue" /\ row[n] = "failed"
    BY <1>1, <1>12 DEF MoveToFailed, Custody, Importing, Failing
  <2>2. UNCHANGED row /\ nzbAt'[n] = "failed" /\ To(h, "moved")
    BY <1>0, <1>12, <2>1 DEF MoveToFailed, RowShape
  <2> QED
    BY <1>3, <2>1, <2>2 DEF Custody, Busy
<1>13. ASSUME RecordFailed(h, n)
       PROVE  Goal
  <2>1. nzbAt[n] = "failed"
    BY <1>1, <1>13 DEF RecordFailed, Custody, Importing, Failing
  <2>2. rowPath'[n] = "failed" /\ UNCHANGED nzbAt /\ End(h)
    BY <1>0, <1>13 DEF RecordFailed, RowShape
  <2> QED
    BY <1>5, <2>1, <2>2
<1> QED
  BY <1>6, <1>7, <1>8, <1>9, <1>10, <1>11, <1>12, <1>13 DEF Moves

(* So these steps keep custody.                                            *)
LEMMA MovesKeep ==
    ASSUME CustodyInv, NEW h \in Hands, NEW n \in Nzbs, hand[h].nzb = n, Moves(h, n),
           UNCHANGED <<fixedVars, server, limitVars>>
    PROVE  CustodyInv'
<1>1. ElsewhereSame(h, n) /\ Busy(h) /\ (Busy(h)' => hand'[h].nzb = n)
  BY MovesKeepShape
<1>2. ASSUME Calm
      PROVE  \A g \in Hands : g # h /\ Busy(g) => hand[g].nzb # n
  BY <1>1, <1>2 DEF CustodyInv, OneHandEach
<1>3. Calm /\ Busy(h)' => Custody(hand'[h].step, hand'[h].path, row'[n], rowPath'[n], nzbAt'[n])
  BY MovesKeepCustody
<1>4. Calm /\ ~ Busy(h)' /\ row'[n] \in {"pending", "failed"} => nzbAt'[n] = rowPath'[n]
  BY MovesKeepCustody
<1> QED
  BY <1>1, <1>2, <1>3, <1>4, OneItemKeeps DEF fixedVars

(* Requests, the importer's stops and what happens to the files: a retry   *)
(* finds the NZB where the row says when the run has let go.               *)
LEMMA OthersKeepCustody ==
    ASSUME CustodyInv,
           \/ \E h \in Hands : CancelRun(h)
           \/ \E n \in Nzbs : RetryImport(n)
           \/ \E s \in Places : Corrupt(s) \/ RelinkRecord(s)
           \/ StopServer \/ ExitServer \/ Crash \/ StartServer
    PROVE  CustodyInv'
<1>0. HandShape /\ RowShape /\ \A h \in Hands : Busy(h) => hand[h].nzb \in Nzbs
  BY DEF CustodyInv
<1>1. ASSUME NEW h \in Hands, CancelRun(h)
      PROVE  CustodyInv'
  <2>1. UNCHANGED <<fixedVars, nzbVars, server>> /\ hand' = [hand EXCEPT ![h].stop = TRUE]
    BY <1>1 DEF CancelRun
  <2>2. HandShape'
    BY <1>0, <2>1 DEF HandShape
  <2>3. \A g \in Hands : hand'[g].nzb = hand[g].nzb /\ hand'[g].path = hand[g].path /\ hand'[g].step = hand[g].step
    BY <1>0, <2>1 DEF HandShape
  <2> QED
    BY <2>1, <2>2, <2>3, StagesKeep DEF SameCustody, fixedVars
<1>2. ASSUME NEW n \in Nzbs, RetryImport(n)
      PROVE  CustodyInv'
  <2>1. /\ UNCHANGED <<setting, rowPath, nzbAt, hand, server>>
        /\ row' = [row EXCEPT ![n] = "pending"] /\ row[n] = "failed"
        /\ Attended(n) => Happens("hasty")
    BY <1>2 DEF RetryImport, fixedVars
  <2>2. /\ RowShape' /\ row'[n] = "pending"
        /\ \A m \in Nzbs : m # n => row'[m] = row[m] /\ rowPath'[m] = rowPath[m] /\ nzbAt'[m] = nzbAt[m]
    BY <1>0, <2>1 DEF RowShape
  <2>3. HandShape' /\ \A h \in Hands : Busy(h)' <=> Busy(h)
    BY <1>0, <2>1 DEF HandShape, Busy
  <2> SUFFICES ASSUME Calm
               PROVE  HandsKeepCustody' /\ OneHandEach' /\ RestingWhereSaid'
    BY <1>0, <2>1, <2>2, <2>3 DEF CustodyInv, Calm, Happens
  <2>4. HandsKeepCustody /\ OneHandEach /\ RestingWhereSaid
    BY DEF CustodyInv
  <2>5. \A h \in Hands : hand[h].nzb # n
    BY <2>1 DEF Calm, Attended
  <2>6. HandsKeepCustody'
    BY <1>0, <2>1, <2>2, <2>3, <2>4, <2>5 DEF HandsKeepCustody
  <2>7. OneHandEach'
    BY <2>1, <2>3, <2>4 DEF OneHandEach
  <2>8. RestingWhereSaid'
    BY <2>1, <2>2, <2>3, <2>4 DEF RestingWhereSaid
  <2> QED
    BY <2>6, <2>7, <2>8
<1>3. ASSUME NEW s \in Places, Corrupt(s) \/ RelinkRecord(s)
      PROVE  CustodyInv'
  <2>1. UNCHANGED <<fixedVars, nzbVars, server, hand>>
    BY <1>3 DEF Corrupt, RelinkRecord
  <2> QED
    BY <1>0, <2>1, StagesKeep DEF SameCustody, fixedVars, HandShape
<1>4. ASSUME StopServer \/ ExitServer \/ Crash \/ StartServer
      PROVE  CustodyInv'
  <2>1. UNCHANGED setting /\ ~ (Calm /\ server = "up")
    BY <1>4 DEF StopServer, ExitServer, Crash, StartServer, fixedVars, Calm
  <2>2. ~ Calm /\ ~ Calm'
    BY <2>1 DEF CustodyInv, Calm, Happens
  <2>3. RowShape'
    BY <1>0, <1>4 DEF StopServer, ExitServer, Crash, StartServer, nzbVars, RowShape
  <2>4. HandShape' /\ \A h \in Hands : Busy(h)' => hand'[h].nzb \in Nzbs
    <3>1. CASE StopServer
      <4>1. hand' = [h \in Hands |-> IF hand[h].nzb = NoNzb THEN Idle ELSE [hand[h] EXCEPT !.stop = TRUE]]
        BY <3>1 DEF StopServer
      <4>2. HandShape'
        BY <1>0, <4>1 DEF HandShape, Idle
      <4>3. \A h \in Hands : hand'[h].step = "idle" \/ (hand'[h].step = hand[h].step /\ hand'[h].nzb = hand[h].nzb)
        BY <1>0, <4>1 DEF HandShape, Idle
      <4> QED
        BY <1>0, <4>2, <4>3 DEF Busy
    <3>2. CASE ExitServer \/ StartServer
      BY <1>0, <3>2 DEF ExitServer, StartServer, HandShape, Busy
    <3>3. CASE Crash
      BY <3>3 DEF Crash, HandShape, Busy, Idle
    <3> QED
      BY <1>4, <3>1, <3>2, <3>3
  <2> QED
    BY <2>2, <2>3, <2>4 DEF CustodyInv
<1> QED
  BY <1>1, <1>2, <1>3, <1>4

(* Every step keeps custody.                                               *)
LEMMA CustodyNext == CustodyInv /\ [ProcessingNext]_processingVars => CustodyInv'
<1> SUFFICES ASSUME CustodyInv, [ProcessingNext]_processingVars
             PROVE  CustodyInv'
  OBVIOUS
<1>1. CASE UNCHANGED processingVars
  BY <1>1, StagesKeep DEF processingVars, fixedVars, CustodyInv, HandShape, SameCustody
<1>2. ASSUME NEW h \in Hands, NEW n \in Nzbs, Take(h, n), UNCHANGED <<fixedVars, server, limitVars>>
      PROVE  CustodyInv'
  BY <1>2, TakeKeeps
<1>3. ASSUME NEW h \in Hands, NEW n \in Nzbs, HandStep(h, n)
      PROVE  CustodyInv'
  <2>1. hand[h].nzb = n /\ UNCHANGED <<fixedVars, server, limitVars>>
    BY <1>3 DEF HandStep
  <2>2. CASE Moves(h, n)
    BY <2>1, <2>2, MovesKeep
  <2>3. CASE Store(h) /\ server # "up"
    <3>1. UNCHANGED nzbVars /\ End(h)
      BY <2>3 DEF Store
    <3>2. ~ Calm /\ ~ Calm'
      BY <2>1, <2>3 DEF CustodyInv, Calm, Happens, fixedVars
    <3>3. HandShape /\ RowShape
      BY DEF CustodyInv
    <3>4. HandShape' /\ \A g \in Hands : g # h => hand'[g] = hand[g]
      BY <3>1, <3>3 DEF HandShape, End, Idle
    <3>5. hand'[h].step = "idle"
      BY <3>1, <3>3 DEF HandShape, End, Idle
    <3> QED
      BY <3>1, <3>2, <3>3, <3>4, <3>5 DEF CustodyInv, RowShape, nzbVars, Busy
  <2>4. CASE ~ Moves(h, n) /\ ~ (Store(h) /\ server # "up")
    BY <1>3, <2>1, <2>4, StageStepsKeep DEF HandStep, Moves
  <2> QED
    BY <2>2, <2>3, <2>4
<1> QED
  BY <1>1, <1>2, <1>3, OthersKeepCustody DEF ProcessingNext

(* At most one run has an import, and its row and its NZB agree at each    *)
(* step of the run: what happened so far tells where the file is.          *)
THEOREM CustodyInvariant == ProcessingSpec => []CustodyInv
  BY CustodyInit, CustodyNext, PTL DEF ProcessingSpec

(* An import that waits or has failed has its NZB where its row says, as   *)
(* long as the server does not stop or crash and nobody retries before a   *)
(* failed run is over: a retry and a restart find the file. For any number *)
(* of NZBs, hands and folders.                                             *)
THEOREM WaitingImportsHaveTheirNzb == ProcessingSpec => []ImportsKeepTheirNzb
<1>1. CustodyInv => ImportsKeepTheirNzb
  <2> SUFFICES ASSUME CustodyInv, Calm, NEW n \in Nzbs, row[n] \in {"pending", "failed"}, ~ Attended(n)
               PROVE  nzbAt[n] = rowPath[n]
    BY DEF ImportsKeepTheirNzb, Calm
  <2>1. \A h \in Hands : hand[h].nzb # n
    BY DEF Attended
  <2> QED
    BY <2>1 DEF CustodyInv, RestingWhereSaid
<1> QED
  BY <1>1, CustodyInvariant, PTL

-----------------------------------------------------------------------------
(* The files of imports.                                                   *)

(* What a step makes of one hand is all it changes of the hands.           *)
IsHand(q) ==
    q = [nzb |-> q.nzb, step |-> q.step, path |-> q.path, due |-> q.due, spots |-> q.spots,
         wrote |-> q.wrote, verdict |-> q.verdict, stop |-> q.stop]

TurnsInto(h, q) == HandShape' /\ hand'[h] = q /\ \A g \in Hands : g # h => hand'[g] = hand[g]

(* A hand that becomes another one leaves the others as they are.          *)
LEMMA OneHandChanges ==
    ASSUME HandShape, NEW h \in Hands, NEW q, IsHand(q), hand' = [hand EXCEPT ![h] = q]
    PROVE  TurnsInto(h, q)
<1>1. hand'[h] = q /\ \A g \in Hands : g # h => hand'[g] = hand[g]
  BY DEF HandShape
<1>2. hand' = [g \in Hands |-> hand'[g]]
  BY DEF HandShape
<1>3. \A g \in Hands : IsHand(hand'[g])
  BY <1>1 DEF HandShape, IsHand
<1> QED
  BY <1>1, <1>2, <1>3 DEF HandShape, TurnsInto, IsHand

(* The ways to end a step: at another place, with a verdict, or over.      *)
LEMMA TurnsOfHand ==
    ASSUME HandShape, NEW h \in Hands
    PROVE  /\ \A step : To(h, step) =>
                 \E q : q = Turned(h, step, hand[h].path, hand[h].verdict) /\ TurnsInto(h, q)
           /\ \A verdict : GiveUpWith(h, verdict) =>
                 \E q : q = Turned(h, "clean", hand[h].path, verdict) /\ TurnsInto(h, q)
           /\ End(h) => TurnsInto(h, Idle)
<1>1. \A step, path, verdict : IsHand(Turned(h, step, path, verdict))
  BY DEF IsHand, Turned
<1>2. ASSUME NEW step, To(h, step)
      PROVE  \E q : q = Turned(h, step, hand[h].path, hand[h].verdict) /\ TurnsInto(h, q)
  <2>1. PICK q : q = Turned(h, step, hand[h].path, hand[h].verdict)
    OBVIOUS
  <2>2. hand' = [hand EXCEPT ![h] = q]
    BY <1>2, <2>1, StepOfHand DEF To
  <2>3. IsHand(q)
    BY <1>1, <2>1
  <2> QED
    BY <2>1, <2>2, <2>3, OneHandChanges
<1>3. ASSUME NEW verdict, GiveUpWith(h, verdict)
      PROVE  \E q : q = Turned(h, "clean", hand[h].path, verdict) /\ TurnsInto(h, q)
  <2>1. PICK q : q = Turned(h, "clean", hand[h].path, verdict)
    OBVIOUS
  <2>2. hand' = [hand EXCEPT ![h] = q]
    BY <1>3, <2>1, VerdictOfHand
  <2>3. IsHand(q)
    BY <1>1, <2>1
  <2> QED
    BY <2>1, <2>2, <2>3, OneHandChanges
<1>4. ASSUME End(h)
      PROVE  TurnsInto(h, Idle)
  BY <1>4, OneHandChanges DEF IsHand, Idle, End
<1> QED
  BY <1>2, <1>3, <1>4

(* A field of what has just been changed is changed as well.               *)
LEMMA ChangedAgain ==
    ASSUME NEW S, NEW f, f = [a \in S |-> f[a]], NEW h \in S, NEW k, NEW g, g = [f EXCEPT ![h] = k], NEW x
    PROVE  /\ g[h] = k
           /\ [g EXCEPT ![h].step = x] = [f EXCEPT ![h] = [k EXCEPT !.step = x]]
           /\ [g EXCEPT ![h].due = x] = [f EXCEPT ![h] = [k EXCEPT !.due = x]]
           /\ [g EXCEPT ![h].spots = x] = [f EXCEPT ![h] = [k EXCEPT !.spots = x]]
           /\ [g EXCEPT ![h].wrote = x] = [f EXCEPT ![h] = [k EXCEPT !.wrote = x]]
           /\ [g EXCEPT ![h].verdict = x] = [f EXCEPT ![h] = [k EXCEPT !.verdict = x]]
<1>1. g[h] = k
  OBVIOUS
<1>2. \A y : [g EXCEPT ![h] = y] = [f EXCEPT ![h] = y]
  OBVIOUS
<1>3. [g EXCEPT ![h].step = x] = [f EXCEPT ![h] = [k EXCEPT !.step = x]]
  <2>1. [g EXCEPT ![h].step = x] = [g EXCEPT ![h] = [g[h] EXCEPT !.step = x]]
    OBVIOUS
  <2>2. [g[h] EXCEPT !.step = x] = [k EXCEPT !.step = x]
    BY <1>1
  <2> QED
    BY <1>2, <2>1, <2>2
<1>4. [g EXCEPT ![h].due = x] = [f EXCEPT ![h] = [k EXCEPT !.due = x]]
  <2>1. [g EXCEPT ![h].due = x] = [g EXCEPT ![h] = [g[h] EXCEPT !.due = x]]
    OBVIOUS
  <2>2. [g[h] EXCEPT !.due = x] = [k EXCEPT !.due = x]
    BY <1>1
  <2> QED
    BY <1>2, <2>1, <2>2
<1>5. [g EXCEPT ![h].spots = x] = [f EXCEPT ![h] = [k EXCEPT !.spots = x]]
  <2>1. [g EXCEPT ![h].spots = x] = [g EXCEPT ![h] = [g[h] EXCEPT !.spots = x]]
    OBVIOUS
  <2>2. [g[h] EXCEPT !.spots = x] = [k EXCEPT !.spots = x]
    BY <1>1
  <2> QED
    BY <1>2, <2>1, <2>2
<1>6. [g EXCEPT ![h].wrote = x] = [f EXCEPT ![h] = [k EXCEPT !.wrote = x]]
  <2>1. [g EXCEPT ![h].wrote = x] = [g EXCEPT ![h] = [g[h] EXCEPT !.wrote = x]]
    OBVIOUS
  <2>2. [g[h] EXCEPT !.wrote = x] = [k EXCEPT !.wrote = x]
    BY <1>1
  <2> QED
    BY <1>2, <2>1, <2>2
<1>7. [g EXCEPT ![h].verdict = x] = [f EXCEPT ![h] = [k EXCEPT !.verdict = x]]
  <2>1. [g EXCEPT ![h].verdict = x] = [g EXCEPT ![h] = [g[h] EXCEPT !.verdict = x]]
    OBVIOUS
  <2>2. [g[h] EXCEPT !.verdict = x] = [k EXCEPT !.verdict = x]
    BY <1>1
  <2> QED
    BY <1>2, <2>1, <2>2
<1> QED
  BY <1>1, <1>3, <1>4, <1>5, <1>6, <1>7

(* preParseFastFail keeps what it found to be there.                       *)
LEMMA ProbeOfHand ==
    ASSUME HandShape, NEW h \in Hands, NEW found,
           hand' = [hand EXCEPT ![h].step = "parse", ![h].due = found]
    PROVE  \E q : /\ q = Further(h, "parse", found, hand[h].spots, hand[h].wrote, hand[h].verdict)
                  /\ TurnsInto(h, q)
<1>1. PICK r, k, q, g : /\ r = hand[h] /\ k = [r EXCEPT !.step = "parse"] /\ q = [k EXCEPT !.due = found]
                        /\ g = [hand EXCEPT ![h].step = "parse"]
  OBVIOUS
<1>2. hand = [a \in Hands |-> hand[a]] /\ hand = [hand EXCEPT ![h] = r]
  BY <1>1 DEF HandShape
<1>3. g = [hand EXCEPT ![h] = k]
  BY <1>1, <1>2, ChangedAgain
<1>4. hand' = [hand EXCEPT ![h] = q]
  <2>1. hand' = [g EXCEPT ![h].due = found]
    BY <1>1
  <2> QED
    BY <1>1, <1>2, <1>3, <2>1, ChangedAgain
<1>5. k = Further(h, "parse", r.due, r.spots, r.wrote, r.verdict)
  BY <1>1 DEF HandShape, Further
<1>6. q = Further(h, "parse", found, r.spots, r.wrote, r.verdict)
  BY <1>1, <1>5 DEF Further
<1>7. IsHand(q)
  BY <1>6 DEF IsHand, Further
<1> QED
  BY <1>1, <1>4, <1>6, <1>7, OneHandChanges

(* An archive is left out, or what of it is not there yet gets its place.  *)
LEMMA AnalyseOfHand ==
    ASSUME HandShape, NEW h \in Hands, NEW n \in Nzbs, Analyse(h, n)
    PROVE  \E q, due, spots :
              /\ TurnsInto(h, q)
              /\ due = {p \in hand[h].due : ~ placed[Place(n, p, 0)].ok}
              /\ spots = [p \in Parts |-> IF p \in due THEN Place(n, p, 0) ELSE Nowhere]
              /\ \/ q = Further(h, "clean", hand[h].due, hand[h].spots, FolderOf(n), "cancelled")
                 \/ /\ q = Further(h, "write", due, spots, FolderOf(n), hand[h].verdict)
                    /\ ~ hand[h].stop
<1>1. PICK noted, folder, r, k, due, spots :
         /\ noted = [hand EXCEPT ![h].wrote = folder]
         /\ folder = FolderOf(n) /\ r = hand[h] /\ k = [r EXCEPT !.wrote = folder]
         /\ due = {p \in hand[h].due : ~ placed[Place(n, p, 0)].ok}
         /\ spots = [p \in Parts |-> IF p \in due THEN Place(n, p, 0) ELSE Nowhere]
  OBVIOUS
<1>2. hand' = IF hand[h].stop
              THEN [noted EXCEPT ![h].step = "clean", ![h].verdict = "cancelled"]
              ELSE [noted EXCEPT ![h].step = "write", ![h].due = due, ![h].spots = spots]
  BY <1>1, Zenon DEF Analyse
<1>3. hand = [a \in Hands |-> hand[a]] /\ hand = [hand EXCEPT ![h] = r]
  BY <1>1 DEF HandShape
<1>4. noted = [hand EXCEPT ![h] = k]
  BY <1>1, <1>3, ChangedAgain
<1>5. k = Further(h, "place", r.due, r.spots, folder, r.verdict)
  BY <1>1 DEF HandShape, Further, Analyse
<1>6. CASE hand[h].stop
  <2>1. PICK g, l, q : /\ g = [noted EXCEPT ![h].step = "clean"]
                       /\ l = [k EXCEPT !.step = "clean"] /\ q = [l EXCEPT !.verdict = "cancelled"]
    OBVIOUS
  <2>2. g = [hand EXCEPT ![h] = l]
    BY <1>3, <1>4, <2>1, ChangedAgain
  <2>3. hand' = [g EXCEPT ![h].verdict = "cancelled"]
    BY <1>2, <1>6, <2>1
  <2>4. hand' = [hand EXCEPT ![h] = q]
    BY <1>3, <2>1, <2>2, <2>3, ChangedAgain
  <2>5. q = Further(h, "clean", r.due, r.spots, folder, "cancelled")
    BY <1>5, <2>1 DEF Further
  <2>6. IsHand(q)
    BY <2>5 DEF IsHand, Further
  <2>7. TurnsInto(h, q)
    BY <2>4, <2>6, OneHandChanges
  <2> QED
    BY <1>1, <2>5, <2>7
<1>7. CASE ~ hand[h].stop
  <2>1. PICK f, g, l, m, q : /\ f = [noted EXCEPT ![h].step = "write"] /\ g = [f EXCEPT ![h].due = due]
                             /\ l = [k EXCEPT !.step = "write"] /\ m = [l EXCEPT !.due = due]
                             /\ q = [m EXCEPT !.spots = spots]
    OBVIOUS
  <2>2. f = [hand EXCEPT ![h] = l]
    BY <1>3, <1>4, <2>1, ChangedAgain
  <2>3. g = [hand EXCEPT ![h] = m]
    BY <1>3, <2>1, <2>2, ChangedAgain
  <2>4. hand' = [g EXCEPT ![h].spots = spots]
    BY <1>2, <1>7, <2>1
  <2>5. hand' = [hand EXCEPT ![h] = q]
    BY <1>3, <2>1, <2>3, <2>4, ChangedAgain
  <2>6. q = Further(h, "write", due, spots, folder, r.verdict)
    <3>1. [Further(h, "place", r.due, r.spots, folder, r.verdict) EXCEPT !.step = "write"]
            = Further(h, "write", r.due, r.spots, folder, r.verdict)
      BY DEF Further
    <3>2. [Further(h, "write", r.due, r.spots, folder, r.verdict) EXCEPT !.due = due]
            = Further(h, "write", due, r.spots, folder, r.verdict)
      BY DEF Further
    <3>3. [Further(h, "write", due, r.spots, folder, r.verdict) EXCEPT !.spots = spots]
            = Further(h, "write", due, spots, folder, r.verdict)
      BY DEF Further
    <3>4. l = [k EXCEPT !.step = "write"] /\ m = [l EXCEPT !.due = due] /\ q = [m EXCEPT !.spots = spots]
      BY <2>1
    <3> QED
      BY <1>5, <3>1, <3>2, <3>3, <3>4, Zenon
  <2>7. IsHand(q)
    BY <2>6 DEF IsHand, Further
  <2>8. TurnsInto(h, q)
    BY <2>5, <2>7, OneHandChanges
  <2> QED
    BY <1>1, <1>7, <2>6, <2>8
<1> QED
  BY <1>6, <1>7

(* A file of a batch gets its place.                                       *)
LEMMA ReserveOfHand ==
    ASSUME HandShape, NEW h \in Hands, NEW n \in Nzbs, NEW p \in Parts, Reserve(h, n, p)
    PROVE  \E q, spots :
              /\ TurnsInto(h, q)
              /\ spots = [hand[h].spots EXCEPT ![p] = FreePlace(h, n, p)]
              /\ q = Further(h, "write", hand[h].due, spots, hand[h].wrote, hand[h].verdict)
<1>1. PICK r, spots, s, g, k, q :
         /\ r = hand[h] /\ spots = [r.spots EXCEPT ![p] = s] /\ s = FreePlace(h, n, p)
         /\ g = [hand EXCEPT ![h].step = "write"]
         /\ k = [r EXCEPT !.step = "write"] /\ q = [k EXCEPT !.spots = spots]
  OBVIOUS
<1>2. hand = [a \in Hands |-> hand[a]] /\ hand = [hand EXCEPT ![h] = r]
  BY <1>1 DEF HandShape
<1>3. g = [hand EXCEPT ![h] = k]
  BY <1>1, <1>2, ChangedAgain
<1>4. k = Further(h, "write", r.due, r.spots, r.wrote, r.verdict)
  BY <1>1 DEF HandShape, Further
<1>5. hand' = [g EXCEPT ![h].spots = spots]
  <2>1. hand' = [g EXCEPT ![h].spots[p] = s]
    BY <1>1 DEF Reserve
  <2>2. g[h].spots = r.spots
    BY <1>2, <1>3, <1>4 DEF Further
  <2> QED
    BY <1>1, <2>1, <2>2
<1>6. hand' = [hand EXCEPT ![h] = q]
  BY <1>1, <1>2, <1>3, <1>5, ChangedAgain
<1>7. q = Further(h, "write", r.due, spots, r.wrote, r.verdict)
  BY <1>1, <1>4 DEF Further
<1>8. IsHand(q)
  BY <1>7 DEF IsHand, Further
<1>9. TurnsInto(h, q)
  BY <1>6, <1>8, OneHandChanges
<1> QED
  BY <1>1, <1>7, <1>9

(* A file is written and noted, or its import has failed.                  *)
NotesFile(h, n, p, q, s, spots) ==
    \/ /\ q = Further(h, "write", hand[h].due \ {p}, spots, hand[h].wrote \cup {s}, hand[h].verdict)
       /\ placed' = [placed EXCEPT ![s] = [by |-> n, of |-> p, ok |-> TRUE]]
    \/ /\ q = Further(h, "write", hand[h].due \ {p}, spots, hand[h].wrote, "failed")
       /\ Kind(n) = "single" /\ placed' = placed
    \/ /\ q = Further(h, "write", hand[h].due \ {p}, spots, hand[h].wrote, "failed")
       /\ Kind(n) # "single" /\ placed' = [placed EXCEPT ![s] = Vacant]

(* A file that is written, or fails to be, is off the list of the hand.    *)
LEMMA WriteOfHand ==
    ASSUME HandShape, NEW h \in Hands, NEW n \in Nzbs, NEW p \in Parts, WriteFile(h, n, p)
    PROVE  \E q, s, spots :
              /\ TurnsInto(h, q) /\ NotesFile(h, n, p, q, s, spots)
              /\ s = hand[h].spots[p] /\ spots = [hand[h].spots EXCEPT ![p] = Nowhere]
<1>1. PICK r, s, spots, due, wrote, g, over, k, l :
         /\ r = hand[h] /\ s = r.spots[p] /\ spots = [r.spots EXCEPT ![p] = Nowhere]
         /\ due = r.due \ {p} /\ wrote = r.wrote \cup {s}
         /\ g = [hand EXCEPT ![h].due = r.due \ {p}] /\ over = [g EXCEPT ![h].spots[p] = Nowhere]
         /\ k = [r EXCEPT !.due = due] /\ l = [k EXCEPT !.spots = spots]
  OBVIOUS
<1>2. hand = [a \in Hands |-> hand[a]] /\ hand = [hand EXCEPT ![h] = r]
  BY <1>1 DEF HandShape
<1>3. \/ /\ placed' = [placed EXCEPT ![s] = [by |-> n, of |-> p, ok |-> TRUE]]
         /\ hand' = [over EXCEPT ![h].wrote = @ \cup {s}]
      \/ /\ hand' = [over EXCEPT ![h].verdict = "failed"]
         /\ placed' = IF Kind(n) = "single" THEN placed ELSE [placed EXCEPT ![s] = Vacant]
  BY <1>1 DEF WriteFile
<1>4. g = [hand EXCEPT ![h] = k]
  BY <1>1, <1>2, ChangedAgain
<1>5. k = Further(h, "write", due, r.spots, r.wrote, r.verdict)
  <2>1. r = Further(h, "write", r.due, r.spots, r.wrote, r.verdict)
    BY <1>1 DEF HandShape, Further, WriteFile
  <2>2. [Further(h, "write", r.due, r.spots, r.wrote, r.verdict) EXCEPT !.due = due]
          = Further(h, "write", due, r.spots, r.wrote, r.verdict)
    BY DEF Further
  <2>3. k = [r EXCEPT !.due = due]
    BY <1>1
  <2> QED
    BY <2>1, <2>2, <2>3, Zenon
<1>6. over = [hand EXCEPT ![h] = l]
  <2>1. g[h].spots = r.spots
    BY <1>2, <1>4, <1>5 DEF Further
  <2>2. over = [g EXCEPT ![h].spots = spots]
    BY <1>1, <2>1
  <2> QED
    BY <1>1, <1>2, <1>4, <2>2, ChangedAgain
<1>7. l = Further(h, "write", due, spots, r.wrote, r.verdict)
  <2>1. [Further(h, "write", due, r.spots, r.wrote, r.verdict) EXCEPT !.spots = spots]
          = Further(h, "write", due, spots, r.wrote, r.verdict)
    BY DEF Further
  <2>2. l = [k EXCEPT !.spots = spots]
    BY <1>1
  <2> QED
    BY <1>5, <2>1, <2>2, Zenon
<1>8. CASE /\ placed' = [placed EXCEPT ![s] = [by |-> n, of |-> p, ok |-> TRUE]]
           /\ hand' = [over EXCEPT ![h].wrote = @ \cup {s}]
  <2>1. PICK q : q = [l EXCEPT !.wrote = wrote]
    OBVIOUS
  <2>2. hand' = [over EXCEPT ![h].wrote = wrote]
    <3>1. over[h].wrote = r.wrote
      BY <1>2, <1>6, <1>7 DEF Further
    <3> QED
      BY <1>1, <1>8, <3>1
  <2>3. hand' = [hand EXCEPT ![h] = q]
    BY <1>2, <1>6, <2>1, <2>2, ChangedAgain
  <2>4. q = Further(h, "write", due, spots, wrote, r.verdict)
    BY <1>7, <2>1 DEF Further
  <2>5. IsHand(q)
    BY <2>4 DEF IsHand, Further
  <2>6. TurnsInto(h, q)
    BY <2>3, <2>5, OneHandChanges
  <2>7. NotesFile(h, n, p, q, s, spots)
    BY <1>1, <1>8, <2>4 DEF NotesFile
  <2> QED
    BY <1>1, <2>6, <2>7
<1>9. CASE /\ hand' = [over EXCEPT ![h].verdict = "failed"]
           /\ placed' = IF Kind(n) = "single" THEN placed ELSE [placed EXCEPT ![s] = Vacant]
  <2>1. PICK q : q = [l EXCEPT !.verdict = "failed"]
    OBVIOUS
  <2>2. hand' = [hand EXCEPT ![h] = q]
    BY <1>2, <1>6, <1>9, <2>1, ChangedAgain
  <2>3. q = Further(h, "write", due, spots, r.wrote, "failed")
    BY <1>7, <2>1 DEF Further
  <2>4. IsHand(q)
    BY <2>3 DEF IsHand, Further
  <2>5. TurnsInto(h, q)
    BY <2>2, <2>4, OneHandChanges
  <2>6. NotesFile(h, n, p, q, s, spots)
    BY <1>1, <1>9, <2>3 DEF NotesFile
  <2> QED
    BY <1>1, <2>5, <2>6
<1> QED
  BY <1>3, <1>8, <1>9

(* What a hand knows of the files it imports.                              *)
SameFiles(r, q) == q.nzb = r.nzb /\ q.due = r.due /\ q.spots = r.spots /\ q.wrote = r.wrote /\ q.stop = r.stop
SameRun(r, q) == SameFiles(r, q) /\ q.path = r.path /\ q.verdict = r.verdict

(* A value of one item is set.                                             *)
OnlyAt(f, g, n, value) == g[n] = value /\ \A m \in Nzbs : m # n => g[m] = f[m]

(* The stages by which a run of n comes nearer to its end, r before and q  *)
(* after.                                                                  *)
GoesOn(n, r, q) ==
    \/ /\ r.step = "persist" /\ q.step = "open" /\ SameRun(r, q) /\ r.path = "queue" /\ UNCHANGED nzbVars
    \/ /\ r.step = "persist" /\ q.step = "record" /\ SameFiles(r, q) /\ q.path = "queue" /\ q.verdict = r.verdict
       /\ OnlyAt(nzbAt, nzbAt', n, "queue") /\ UNCHANGED <<row, rowPath>>
    \/ /\ r.step = "record" /\ q.step = "open" /\ SameRun(r, q)
       /\ OnlyAt(rowPath, rowPath', n, "queue") /\ UNCHANGED <<row, nzbAt>>
    \/ /\ r.step = "open" /\ q.step = "probe" /\ SameRun(r, q) /\ nzbAt[n] = r.path /\ UNCHANGED nzbVars
    \/ /\ r.step = "parse" /\ q.step = "place" /\ SameRun(r, q) /\ ~ r.stop /\ UNCHANGED nzbVars
    \/ /\ r.step = "write" /\ q.step = "store" /\ SameRun(r, q) /\ r.due = {} /\ r.verdict = "none"
       /\ UNCHANGED nzbVars
    \/ /\ r.step = "store" /\ q.step = "complete" /\ SameRun(r, q) /\ UNCHANGED nzbVars
    \/ /\ r.step = "complete" /\ q.step = "discard" /\ SameRun(r, q)
       /\ OnlyAt(row, row', n, "completed") /\ UNCHANGED <<rowPath, nzbAt>>

(* The stages of a run that failed.                                        *)
GivesUp(n, r, q) ==
    \/ /\ r.step \in {"persist", "record", "open", "probe", "parse"} /\ q.step = "clean"
       /\ SameFiles(r, q) /\ q.path = r.path /\ q.verdict \in {"failed", "cancelled"} /\ UNCHANGED nzbVars
       /\ r.step = "persist" => r.path # "queue"
       /\ r.step \in {"record", "parse"} => r.stop
       /\ r.step = "open" => r.stop \/ nzbAt[n] # r.path
       /\ r.step = "probe" => r.stop \/ Usable(n) = {}
    \/ /\ r.step = "write" /\ q.step = "clean" /\ SameRun(r, q) /\ r.due = {} /\ r.verdict # "none"
       /\ UNCHANGED nzbVars
    \/ /\ r.step = "fail" /\ q.step = "count" /\ SameRun(r, q)
       /\ (server = "up" /\ OnlyAt(row, row', n, "failed")) \/ (server # "up" /\ UNCHANGED row)
       /\ UNCHANGED <<rowPath, nzbAt>>
    \/ /\ r.step = "count" /\ q.step = "move" /\ SameRun(r, q) /\ UNCHANGED nzbVars
    \/ /\ r.step = "move" /\ q.step = "moved" /\ SameRun(r, q)
       /\ OnlyAt(nzbAt, nzbAt', n, "failed") /\ UNCHANGED <<row, rowPath>>

(* A run is over.                                                          *)
IsOver(n, r, q) ==
    /\ q = Idle /\ r.step \in {"store", "complete", "discard", "move", "moved"} /\ UNCHANGED row
    /\ r.step \in {"store", "complete"} => server # "up"
    /\ \A m \in Nzbs : m # n => rowPath'[m] = rowPath[m] /\ nzbAt'[m] = nzbAt[m]

(* Each step that ends a run is such an end.                               *)
LEMMA EndsAre ==
    ASSUME CustodyInv, NEW h \in Hands, NEW n \in Nzbs, server # "down",
           \/ (Store(h) /\ server # "up") \/ (Complete(h, n) /\ server # "up")
           \/ Discard(h, n) \/ (MoveToFailed(h, n) /\ End(h)) \/ RecordFailed(h, n)
    PROVE  \E r, q : r = hand[h] /\ TurnsInto(h, q) /\ IsOver(n, r, q) /\ UNCHANGED placed
<1>1. PICK r, q : r = hand[h] /\ q = Idle
  OBVIOUS
<1>2. TurnsInto(h, q)
  BY <1>1, TurnsOfHand DEF CustodyInv, Store, Complete, Discard, MoveToFailed, RecordFailed
<1>3. UNCHANGED <<row, placed>>
  BY DEF Store, Complete, Discard, MoveToFailed, RecordFailed, nzbVars
<1>4. /\ r.step \in {"store", "complete", "discard", "move", "moved"}
      /\ r.step \in {"store", "complete"} => server # "up"
  BY <1>1 DEF Store, Complete, Discard, MoveToFailed, RecordFailed
<1>5. \A m \in Nzbs : m # n => rowPath'[m] = rowPath[m] /\ nzbAt'[m] = nzbAt[m]
  BY DEF CustodyInv, RowShape, Store, Complete, Discard, MoveToFailed, RecordFailed, nzbVars
<1> QED
  BY <1>1, <1>2, <1>3, <1>4, <1>5 DEF IsOver

(* Each step that goes on to another stage without a word about files is   *)
(* one of the above.                                                       *)
LEMMA TurnsAre ==
    ASSUME CustodyInv, NEW h \in Hands, NEW n \in Nzbs, server # "down",
           \/ Persist(h, n) \/ RecordPath(h, n) \/ Open(h, n) \/ (Probe(h, n) /\ GiveUpWith(h, "failed"))
           \/ Parse(h) \/ Written(h) \/ (Store(h) /\ server = "up") \/ (Complete(h, n) /\ server = "up")
           \/ Fail(h, n) \/ Count(h, n) \/ (MoveToFailed(h, n) /\ ~ End(h))
    PROVE  \E r, q : r = hand[h] /\ TurnsInto(h, q) /\ (GoesOn(n, r, q) \/ GivesUp(n, r, q)) /\ UNCHANGED placed
<1>0. HandShape /\ RowShape
  BY DEF CustodyInv
<1>1. PICK r : r = hand[h]
  OBVIOUS
<1> DEFINE Goal == \E q : TurnsInto(h, q) /\ (GoesOn(n, r, q) \/ GivesUp(n, r, q))
           turned(step, path, verdict) ==
              \E q : /\ TurnsInto(h, q) /\ SameFiles(r, q)
                     /\ q.step = step /\ q.path = path /\ q.verdict = verdict
<1>2. ASSUME NEW step, To(h, step)
      PROVE  turned(step, r.path, r.verdict)
  BY <1>0, <1>1, <1>2, TurnsOfHand DEF Turned, SameFiles
<1>3. ASSUME NEW verdict, GiveUpWith(h, verdict)
      PROVE  turned("clean", r.path, verdict)
  BY <1>0, <1>1, <1>3, TurnsOfHand DEF Turned, SameFiles
<1>4. UNCHANGED placed
  BY DEF Persist, RecordPath, Open, Probe, Parse, Written, Store, Complete, Fail, Count, MoveToFailed
<1> HIDE DEF turned
<1>5. ASSUME Persist(h, n)
      PROVE  Goal
  <2>1. r.step = "persist" /\ UNCHANGED <<row, rowPath>>
    BY <1>1, <1>5 DEF Persist
  <2>2. CASE r.path = "queue" /\ To(h, "open") /\ UNCHANGED nzbAt
    BY <1>2, <2>1, <2>2 DEF turned, GoesOn, SameRun, nzbVars
  <2>3. CASE /\ nzbAt' = [nzbAt EXCEPT ![n] = "queue"]
             /\ hand' = [hand EXCEPT ![h].step = "record", ![h].path = "queue"]
    <3>1. PICK q : q = Turned(h, "record", "queue", r.verdict)
      OBVIOUS
    <3>2. hand' = [hand EXCEPT ![h] = q]
      BY <1>0, <1>1, <2>3, <3>1, PathOfHand
    <3>3. IsHand(q)
      BY <3>1 DEF IsHand, Turned
    <3>4. TurnsInto(h, q)
      BY <1>0, <3>2, <3>3, OneHandChanges
    <3>5. OnlyAt(nzbAt, nzbAt', n, "queue")
      BY <1>0, <2>3 DEF RowShape, OnlyAt
    <3> QED
      BY <1>1, <2>1, <3>1, <3>4, <3>5 DEF GoesOn, SameFiles, Turned
  <2>4. CASE r.path # "queue" /\ GiveUpWith(h, "failed") /\ UNCHANGED nzbAt
    BY <1>3, <2>1, <2>4 DEF turned, GivesUp, nzbVars
  <2> QED
    BY <1>1, <1>5, <2>2, <2>3, <2>4 DEF Persist
<1>6. ASSUME RecordPath(h, n)
      PROVE  Goal
  <2>1. r.step = "record" /\ UNCHANGED <<row, nzbAt>>
    BY <1>1, <1>6 DEF RecordPath
  <2>2. CASE r.stop /\ GiveUpWith(h, "cancelled") /\ UNCHANGED rowPath
    BY <1>3, <2>1, <2>2 DEF turned, GivesUp, nzbVars
  <2>3. CASE To(h, "open") /\ rowPath' = [rowPath EXCEPT ![n] = "queue"]
    <3>1. OnlyAt(rowPath, rowPath', n, "queue")
      BY <1>0, <2>3 DEF RowShape, OnlyAt
    <3> QED
      BY <1>2, <2>1, <2>3, <3>1 DEF turned, GoesOn, SameRun
  <2> QED
    BY <1>1, <1>6, <2>2, <2>3 DEF RecordPath
<1>7. ASSUME Open(h, n)
      PROVE  Goal
  <2>1. r.step = "open" /\ UNCHANGED nzbVars
    BY <1>1, <1>7 DEF Open
  <2>2. CASE (r.stop \/ nzbAt[n] # r.path) /\ (GiveUpWith(h, "cancelled") \/ GiveUpWith(h, "failed"))
    BY <1>3, <2>1, <2>2 DEF turned, GivesUp
  <2>3. CASE To(h, "probe") /\ nzbAt[n] = r.path
    BY <1>2, <2>1, <2>3 DEF turned, GoesOn, SameRun
  <2> QED
    BY <1>1, <1>7, <2>2, <2>3 DEF Open
<1>8. ASSUME Probe(h, n), GiveUpWith(h, "failed")
      PROVE  Goal
  <2>1. r.step = "probe" /\ UNCHANGED nzbVars
    BY <1>1, <1>8 DEF Probe
  <2>2. r.stop \/ Usable(n) = {}
    <3>1. SUFFICES ASSUME ~ r.stop
                   PROVE  Usable(n) = {}
      OBVIOUS
    <3>2. CASE Usable(n) # {}
      <4>1. hand' = [hand EXCEPT ![h].step = "parse", ![h].due = Usable(n)]
        BY <1>1, <1>8, <3>1, <3>2 DEF Probe
      <4>2. PICK q : /\ q = Further(h, "parse", Usable(n), hand[h].spots, hand[h].wrote, hand[h].verdict)
                     /\ TurnsInto(h, q)
        BY <1>0, <4>1, ProbeOfHand
      <4>3. hand'[h].step = "parse"
        BY <4>2 DEF TurnsInto, Further
      <4>4. hand'[h].step = "clean"
        BY <1>3, <1>8 DEF turned, TurnsInto
      <4> QED
        BY <4>3, <4>4
    <3> QED
      BY <3>2
  <2> QED
    BY <1>3, <1>8, <2>1, <2>2 DEF turned, GivesUp
<1>9. ASSUME Parse(h)
      PROVE  Goal
  <2>1. r.step = "parse" /\ UNCHANGED nzbVars
    BY <1>1, <1>9 DEF Parse
  <2>2. CASE r.stop /\ GiveUpWith(h, "cancelled")
    BY <1>3, <2>1, <2>2 DEF turned, GivesUp
  <2>3. CASE To(h, "place") /\ ~ r.stop
    BY <1>2, <2>1, <2>3 DEF turned, GoesOn, SameRun
  <2> QED
    BY <1>1, <1>9, <2>2, <2>3 DEF Parse
<1>10. ASSUME Written(h)
       PROVE  Goal
  <2>1. r.step = "write" /\ r.due = {} /\ UNCHANGED nzbVars
    BY <1>1, <1>10 DEF Written
  <2>2. CASE To(h, "store") /\ r.verdict = "none"
    BY <1>2, <2>1, <2>2 DEF turned, GoesOn, SameRun
  <2>3. CASE To(h, "clean") /\ r.verdict # "none"
    BY <1>2, <2>1, <2>3 DEF turned, GivesUp, SameRun
  <2> QED
    BY <1>1, <1>10, <2>2, <2>3 DEF Written
<1>11. ASSUME Store(h), server = "up"
       PROVE  Goal
  <2>1. r.step = "store" /\ UNCHANGED nzbVars /\ To(h, "complete")
    BY <1>1, <1>11 DEF Store
  <2> QED
    BY <1>2, <2>1 DEF turned, GoesOn, SameRun
<1>12. ASSUME Complete(h, n), server = "up"
       PROVE  Goal
  <2>1. /\ r.step = "complete" /\ To(h, "discard") /\ row' = [row EXCEPT ![n] = "completed"]
        /\ UNCHANGED <<rowPath, nzbAt>>
    BY <1>1, <1>12 DEF Complete
  <2>2. OnlyAt(row, row', n, "completed")
    BY <1>0, <2>1 DEF RowShape, OnlyAt
  <2> QED
    BY <1>2, <2>1, <2>2 DEF turned, GoesOn, SameRun
<1>13. ASSUME Fail(h, n)
       PROVE  Goal
  <2>1. r.step = "fail" /\ To(h, "count") /\ UNCHANGED <<rowPath, nzbAt>>
    BY <1>1, <1>13 DEF Fail
  <2>2. (server = "up" /\ OnlyAt(row, row', n, "failed")) \/ (server # "up" /\ UNCHANGED row)
    BY <1>0, <1>13 DEF Fail, RowShape, OnlyAt
  <2> QED
    BY <1>2, <2>1, <2>2 DEF turned, GivesUp, SameRun
<1>14. ASSUME Count(h, n)
       PROVE  Goal
  <2>1. r.step = "count" /\ To(h, "move") /\ UNCHANGED nzbVars
    BY <1>1, <1>14 DEF Count
  <2> QED
    BY <1>2, <2>1 DEF turned, GivesUp, SameRun
<1>15. ASSUME MoveToFailed(h, n), ~ End(h)
       PROVE  Goal
  <2>1. /\ r.step = "move" /\ To(h, "moved") /\ UNCHANGED <<row, rowPath>>
        /\ nzbAt' = [nzbAt EXCEPT ![n] = "failed"]
    BY <1>1, <1>15 DEF MoveToFailed
  <2>2. OnlyAt(nzbAt, nzbAt', n, "failed")
    BY <1>0, <2>1 DEF RowShape, OnlyAt
  <2> QED
    BY <1>2, <2>1, <2>2 DEF turned, GivesUp, SameRun
<1>16. Goal
  BY <1>5, <1>6, <1>7, <1>8, <1>9, <1>10, <1>11, <1>12, <1>13, <1>14, <1>15
<1> QED
  BY <1>1, <1>4, <1>16

(* What the import of an NZB does not change.                              *)
Settled == setting \in Cases /\ damaged \in [Nzbs -> SUBSET Parts]
           /\ \A n \in Nzbs : damaged[n] \subseteq PartsOf(n)

(* Places are in the folder of the release and under the name of a part.   *)
LEMMA PlacesAreThere ==
    ASSUME Settled, NEW n \in Nzbs, NEW p \in Parts, NEW c \in 0..MaxCopy
    PROVE  /\ Place(n, p, c) \in FolderOf(n) /\ Place(n, p, c) \in Places
           /\ Place(n, p, c) # Nowhere
           /\ Place(n, p, c)[1] = setting.folder[n]
           /\ ~ (Kind(n) = "multi" /\ setting.obfuscated) => Place(n, p, c)[2] = p
<1>1. setting.folder[n] \in Folders
  BY ProcessingConstants DEF Settled
<1>2. (CHOOSE q \in Parts : TRUE) \in Parts
  OBVIOUS
<1>3. PICK f, x : Place(n, p, c) = <<f, x, c>> /\ f = setting.folder[n] /\ x \in Parts
                  /\ (~ (Kind(n) = "multi" /\ setting.obfuscated) => x = p)
  BY <1>2 DEF Place
<1>4. <<f, x, c>> \in Places /\ <<f, x, c>>[1] = f /\ <<f, x, c>>[2] = x
  BY <1>1, <1>3 DEF Places
<1>5. <<f, x, c>> # Nowhere
  BY DEF Nowhere
<1> QED
  BY <1>3, <1>4, <1>5 DEF FolderOf

(* Where a place is free, the first one that is free is found.             *)
LEMMA FreeIsFree ==
    ASSUME ProcessingConstants, NEW h \in Hands, NEW n \in Nzbs, NEW p \in Parts,
           NEW copy \in 0..MaxCopy, ~ Taken(h, n, p, copy)
    PROVE  \E c \in 0..MaxCopy : FreePlace(h, n, p) = Place(n, p, c) /\ ~ Taken(h, n, p, c)
<1> DEFINE left == {c \in 0..MaxCopy : ~ Taken(h, n, p, c)}
<1>1. left # {} /\ left \subseteq Nat
  BY ProcessingConstants
<1>2. PICK c \in left : \A d \in left : ~ (<<d, c>> \in OpToRel(<, Nat))
  BY <1>1, WFMin, NatLessThanWellFounded
<1>3. \A d \in left : ~ d < c
  <2>1. OpToRel(<, Nat) = {m \in Nat \X Nat : m[1] < m[2]}
    BY DEF OpToRel
  <2> SUFFICES ASSUME NEW d \in left, d < c
               PROVE  FALSE
    OBVIOUS
  <2>2. d \in Nat /\ c \in Nat
    BY <1>1
  <2> DEFINE pair == <<d, c>>
  <2>3. pair \in Nat \X Nat /\ pair[1] = d /\ pair[2] = c
    BY <2>2
  <2>4. pair \notin OpToRel(<, Nat)
    BY <1>2
  <2> HIDE DEF pair
  <2> QED
    BY <2>1, <2>2, <2>3, <2>4
<1>4. \A d \in 0..MaxCopy : d < c => Taken(h, n, p, d)
  BY <1>3
<1>5. \E x \in 0..MaxCopy : ~ Taken(h, n, p, x) /\ \A d \in 0..MaxCopy : d < x => Taken(h, n, p, d)
  BY <1>4
<1> HIDE DEF left
<1>6. PICK f : /\ f = CHOOSE x \in 0..MaxCopy :
                        ~ Taken(h, n, p, x) /\ \A d \in 0..MaxCopy : d < x => Taken(h, n, p, d)
               /\ f \in 0..MaxCopy /\ ~ Taken(h, n, p, f)
  BY <1>5
<1> QED
  BY <1>6 DEF FreePlace

(* The stages of a run that concern files: what is found, where each file  *)
(* is to go, that it is written, and that all are taken back.              *)
Finds(n, r, q) ==
    /\ r.step = "probe" /\ q.step = "parse" /\ UNCHANGED <<nzbVars, placed>>
    /\ q.nzb = r.nzb /\ q.path = r.path /\ q.spots = r.spots /\ q.wrote = r.wrote
    /\ q.verdict = r.verdict /\ q.stop = r.stop
    /\ q.due # {} /\ q.due \subseteq PartsOf(n) /\ (r.stop \/ q.due = Usable(n))

NotesFolder(n, r, q) ==
    /\ r.step = "place" /\ Kind(n) = "archive" /\ UNCHANGED <<nzbVars, placed>>
    /\ q.nzb = r.nzb /\ q.path = r.path /\ q.wrote = FolderOf(n) /\ q.stop = r.stop
    /\ \/ q.step = "clean" /\ q.due = r.due /\ q.spots = r.spots /\ q.verdict = "cancelled"
       \/ /\ q.step = "write" /\ q.verdict = r.verdict /\ ~ r.stop
          /\ \A p \in Parts : p \in q.due <=> p \in r.due /\ ~ placed[Place(n, p, 0)].ok
          /\ q.due \subseteq r.due
          /\ q.spots = [p \in Parts |-> q.spots[p]]
          /\ \A p \in Parts : q.spots[p] = IF p \in q.due THEN Place(n, p, 0) ELSE Nowhere

Reserves(n, p, r, q) ==
    /\ Kind(n) # "archive" /\ r.step \in {"place", "write"} /\ p \in r.due /\ UNCHANGED <<nzbVars, placed>>
    /\ q.nzb = r.nzb /\ q.path = r.path /\ q.wrote = r.wrote /\ q.stop = r.stop /\ q.due = r.due
    /\ q.step = "write" /\ q.verdict = r.verdict
    /\ q.spots = [x \in Parts |-> q.spots[x]] /\ \A x \in Parts : x # p => q.spots[x] = r.spots[x]
    /\ ~ placed[q.spots[p]].ok /\ \A x \in Parts : r.spots[x] # q.spots[p]
    /\ \E c \in 0..MaxCopy : q.spots[p] = Place(n, p, c)

Writes(n, p, r, q) ==
    /\ r.step = "write" /\ r.spots[p] # Nowhere /\ UNCHANGED nzbVars
    /\ q.nzb = r.nzb /\ q.path = r.path /\ q.stop = r.stop /\ q.due = r.due \ {p} /\ q.step = "write"
    /\ q.spots = [x \in Parts |-> q.spots[x]] /\ q.spots[p] = Nowhere
    /\ \A x \in Parts : x # p => q.spots[x] = r.spots[x]
    /\ \A s \in Places : s # r.spots[p] => placed'[s] = placed[s]
    /\ \/ /\ q.wrote = r.wrote \cup {r.spots[p]} /\ q.verdict = r.verdict
          /\ placed'[r.spots[p]] = [by |-> n, of |-> p, ok |-> TRUE]
       \/ /\ q.wrote = r.wrote /\ q.verdict = "failed" /\ Kind(n) = "single" /\ UNCHANGED placed
       \/ /\ q.wrote = r.wrote /\ q.verdict = "failed" /\ Kind(n) # "single" /\ placed'[r.spots[p]] = Vacant

TakesBack(n, r, q) ==
    /\ r.step = "clean" /\ q.step = "fail" /\ SameRun(r, q) /\ UNCHANGED nzbVars
    /\ \A s \in Places : placed'[s] = IF s \in r.wrote THEN Vacant ELSE placed[s]

SpotsShape == \A h \in Hands : hand[h].spots = [p \in Parts |-> hand[h].spots[p]]
FilesAreMap == placed = [s \in Places |-> placed[s]]

(* Each step of a run that concerns files is one of these.                 *)
LEMMA FileStepsAre ==
    ASSUME CustodyInv, SpotsShape, FilesAreMap, Settled, NEW h \in Hands, NEW n \in Nzbs,
           \A p \in Parts : hand[h].spots[p] # Nowhere => hand[h].spots[p] \in Places,
           hand[h].due \subseteq Parts,
           \/ (Probe(h, n) /\ ~ GiveUpWith(h, "failed")) \/ Analyse(h, n)
           \/ (\E p \in Parts : Reserve(h, n, p) \/ WriteFile(h, n, p)) \/ CleanUp(h)
    PROVE  \E r, q : /\ r = hand[h] /\ TurnsInto(h, q) /\ FilesAreMap'
                     /\ \/ Finds(n, r, q) \/ NotesFolder(n, r, q) \/ TakesBack(n, r, q)
                        \/ \E p \in Parts : Reserves(n, p, r, q) \/ Writes(n, p, r, q)
<1>0. HandShape /\ RowShape
  BY DEF CustodyInv
<1>1. PICK r : r = hand[h]
  OBVIOUS
<1>2. r.due \subseteq Parts /\ r.spots = [p \in Parts |-> r.spots[p]]
  BY <1>1 DEF SpotsShape
<1> DEFINE Goal == \E q : /\ TurnsInto(h, q) /\ FilesAreMap'
                          /\ \/ Finds(n, r, q) \/ NotesFolder(n, r, q) \/ TakesBack(n, r, q)
                             \/ \E p \in Parts : Reserves(n, p, r, q) \/ Writes(n, p, r, q)
<1>3. UNCHANGED placed => FilesAreMap'
  BY DEF FilesAreMap
<1>4. ASSUME Probe(h, n), ~ GiveUpWith(h, "failed")
      PROVE  Goal
  <2>1. r.step = "probe" /\ UNCHANGED <<nzbVars, placed>>
    BY <1>1, <1>4 DEF Probe
  <2>2. PICK found \in IF r.stop THEN SUBSET PartsOf(n) ELSE {Usable(n)} :
           found # {} /\ hand' = [hand EXCEPT ![h].step = "parse", ![h].due = found]
    BY <1>1, <1>4 DEF Probe
  <2>3. found \subseteq PartsOf(n) /\ (r.stop \/ found = Usable(n))
    BY <2>2 DEF Usable
  <2>4. PICK q : q = Further(h, "parse", found, r.spots, r.wrote, r.verdict) /\ TurnsInto(h, q)
    BY <1>0, <1>1, <2>2, ProbeOfHand
  <2> QED
    BY <1>1, <1>3, <2>1, <2>2, <2>3, <2>4 DEF Further, Finds
<1>5. ASSUME Analyse(h, n)
      PROVE  Goal
  <2>1. r.step = "place" /\ Kind(n) = "archive" /\ UNCHANGED <<nzbVars, placed>>
    BY <1>1, <1>5 DEF Analyse
  <2>2. PICK q, due, spots :
              /\ TurnsInto(h, q)
              /\ due = {p \in r.due : ~ placed[Place(n, p, 0)].ok}
              /\ spots = [p \in Parts |-> IF p \in due THEN Place(n, p, 0) ELSE Nowhere]
              /\ \/ q = Further(h, "clean", r.due, r.spots, FolderOf(n), "cancelled")
                 \/ /\ q = Further(h, "write", due, spots, FolderOf(n), r.verdict)
                    /\ ~ r.stop
    BY <1>0, <1>1, <1>5, AnalyseOfHand
  <2>3. /\ due \subseteq r.due /\ \A p \in Parts : p \in due <=> p \in r.due /\ ~ placed[Place(n, p, 0)].ok
        /\ spots = [p \in Parts |-> spots[p]]
        /\ \A p \in Parts : spots[p] = IF p \in due THEN Place(n, p, 0) ELSE Nowhere
    BY <2>2
  <2>4. \/ q = Further(h, "clean", r.due, r.spots, FolderOf(n), "cancelled")
        \/ q = Further(h, "write", due, spots, FolderOf(n), r.verdict) /\ ~ r.stop
    BY <2>2
  <2>5. NotesFolder(n, r, q)
    BY <1>1, <2>1, <2>3, <2>4 DEF Further, NotesFolder
  <2> QED
    BY <1>3, <2>1, <2>2, <2>5
<1>6. ASSUME NEW p \in Parts, Reserve(h, n, p)
      PROVE  Goal
  <2>1. /\ Kind(n) # "archive" /\ r.step \in {"place", "write"} /\ p \in r.due /\ UNCHANGED <<nzbVars, placed>>
        /\ r.spots[p] = Nowhere
    BY <1>1, <1>6 DEF Reserve
  <2>2. PICK copy \in 0..MaxCopy : ~ Taken(h, n, p, copy)
    BY <1>6 DEF Reserve
  <2>3. PICK c \in 0..MaxCopy : FreePlace(h, n, p) = Place(n, p, c) /\ ~ Taken(h, n, p, c)
    BY <2>2, ProcessingConstants, FreeIsFree
  <2>4. PICK s : s = Place(n, p, c) /\ ~ placed[s].ok /\ \A x \in Parts : r.spots[x] # s
    BY <1>1, <2>3 DEF Taken, Held
  <2>5. PICK q, spots :
              /\ TurnsInto(h, q)
              /\ spots = [r.spots EXCEPT ![p] = s]
              /\ q = Further(h, "write", r.due, spots, r.wrote, r.verdict)
    BY <1>0, <1>1, <1>6, <2>3, <2>4, ReserveOfHand
  <2>6. /\ spots[p] = s /\ spots = [x \in Parts |-> spots[x]]
        /\ \A x \in Parts : x # p => spots[x] = r.spots[x]
    BY <1>2, <2>5
  <2>7. q = Further(h, "write", r.due, spots, r.wrote, r.verdict)
    BY <2>5
  <2>8. Reserves(n, p, r, q)
    BY <1>1, <2>1, <2>4, <2>6, <2>7 DEF Further, Reserves
  <2> QED
    BY <1>3, <2>1, <2>5, <2>8
<1>7. ASSUME NEW p \in Parts, WriteFile(h, n, p)
      PROVE  Goal
  <2>1. r.step = "write" /\ r.spots[p] # Nowhere /\ UNCHANGED nzbVars
    BY <1>1, <1>7 DEF WriteFile
  <2>2. PICK q, s, spots :
           /\ TurnsInto(h, q) /\ NotesFile(h, n, p, q, s, spots)
           /\ s = hand[h].spots[p] /\ spots = [hand[h].spots EXCEPT ![p] = Nowhere]
    BY <1>0, <1>7, WriteOfHand, Zenon
  <2>3. /\ spots[p] = Nowhere /\ spots = [x \in Parts |-> spots[x]]
        /\ \A x \in Parts : x # p => spots[x] = r.spots[x]
    BY <1>1, <1>2, <2>2
  <2>4. s \in Places /\ s = r.spots[p]
    BY <1>1, <2>1, <2>2
  <2>5. /\ FilesAreMap' /\ \A t \in Places : t # s => placed'[t] = placed[t]
        /\ \/ /\ q = Further(h, "write", r.due \ {p}, spots, r.wrote \cup {s}, r.verdict)
              /\ placed'[s] = [by |-> n, of |-> p, ok |-> TRUE]
           \/ /\ q = Further(h, "write", r.due \ {p}, spots, r.wrote, "failed") /\ Kind(n) = "single"
              /\ UNCHANGED placed
           \/ /\ q = Further(h, "write", r.due \ {p}, spots, r.wrote, "failed") /\ Kind(n) # "single"
              /\ placed'[s] = Vacant
    BY <1>1, <2>2, <2>4 DEF FilesAreMap, NotesFile
  <2>6. Writes(n, p, r, q)
    BY <1>1, <2>1, <2>3, <2>4, <2>5 DEF Further, Writes
  <2> QED
    BY <2>2, <2>5, <2>6
<1>8. ASSUME CleanUp(h)
      PROVE  Goal
  <2>1. r.step = "clean" /\ UNCHANGED nzbVars /\ To(h, "fail")
    BY <1>1, <1>8 DEF CleanUp
  <2>2. placed' = [s \in Places |-> IF s \in r.wrote THEN Vacant ELSE placed[s]]
    BY <1>1, <1>8 DEF CleanUp
  <2>3. PICK q : q = Turned(h, "fail", r.path, r.verdict) /\ TurnsInto(h, q)
    BY <1>0, <1>1, <2>1, TurnsOfHand
  <2>4. FilesAreMap' /\ \A s \in Places : placed'[s] = IF s \in r.wrote THEN Vacant ELSE placed[s]
    BY <2>2 DEF FilesAreMap
  <2>5. TakesBack(n, r, q)
    BY <1>1, <2>1, <2>3, <2>4 DEF Turned, TakesBack, SameRun, SameFiles
  <2> QED
    BY <2>3, <2>4, <2>5
<1>9. Goal
  BY <1>4, <1>5, <1>6, <1>7, <1>8
<1> QED
  BY <1>1, <1>9

(* A hand takes an item, or is told to stop.                               *)
Takes(n, r, q) ==
    /\ r.step = "idle" /\ row[n] = "pending" /\ OnlyAt(row, row', n, "processing")
    /\ UNCHANGED <<rowPath, nzbAt, placed>> /\ server = "up"
    /\ q.nzb = n /\ q.step = "persist" /\ q.path = rowPath[n] /\ q.due = {} /\ q.wrote = {}
    /\ q.spots = [p \in Parts |-> Nowhere] /\ q.verdict = "none" /\ q.stop = FALSE

IsTold(r, q) ==
    /\ r.nzb # NoNzb /\ UNCHANGED <<nzbVars, placed>> /\ Happens("cancel")
    /\ q.nzb = r.nzb /\ q.step = r.step /\ q.path = r.path /\ q.due = r.due /\ q.wrote = r.wrote
    /\ q.spots = r.spots /\ q.verdict = r.verdict /\ q.stop = TRUE

Does(n, r, q) ==
    \/ (GoesOn(n, r, q) \/ GivesUp(n, r, q) \/ IsOver(n, r, q)) /\ UNCHANGED placed
    \/ Finds(n, r, q) \/ NotesFolder(n, r, q) \/ TakesBack(n, r, q)
    \/ \E p \in Parts : Reserves(n, p, r, q) \/ Writes(n, p, r, q)

(* What a hand knows is in order.                                          *)
Early == {"persist", "record", "open", "probe", "parse", "place"}
Late == {"write", "store", "complete", "clean", "fail"}

Sound(r) ==
    /\ r.nzb \in Nzbs /\ r.step # "idle"
    /\ r.due \subseteq PartsOf(r.nzb) /\ r.wrote \subseteq FolderOf(r.nzb)
    /\ r.spots = [p \in Parts |-> r.spots[p]]
    /\ \A p \in Parts : r.spots[p] # Nowhere =>
          r.step = "write" /\ p \in r.due /\ \E c \in 0..MaxCopy : r.spots[p] = Place(r.nzb, p, c)
    /\ r.step \in Early => r.wrote = {} /\ r.verdict = "none"
    /\ r.step = "parse" => r.stop \/ r.due = Usable(r.nzb)
    /\ r.step = "place" => r.due = Usable(r.nzb)
    /\ Kind(r.nzb) = "single" =>
          /\ r.step = "write" => r.due = {} \/ (r.verdict = "none" /\ r.wrote = {})
          /\ r.step = "write" => r.wrote = {} \/ r.verdict = "none"
          /\ r.step = "clean" => r.wrote = {}

(* What becomes of a hand, r before and q after, when the server stops.    *)
IsWarned(h, r, q) ==
    \/ r = Idle /\ q = Idle
    \/ /\ Sound(r) /\ h \in setting.hands
       /\ q.nzb = r.nzb /\ q.step = r.step /\ q.path = r.path /\ q.due = r.due
       /\ q.wrote = r.wrote /\ q.spots = r.spots /\ q.verdict = r.verdict /\ q.stop = TRUE

(* A step keeps it so.                                                     *)
LEMMA StaysSound ==
    ASSUME Settled, NEW n \in Nzbs, NEW r, NEW q, Sound(r), r.nzb = n, Does(n, r, q) \/ IsTold(r, q)
    PROVE  q = Idle \/ Sound(q)
<1>0. PartsOf(n) \subseteq Parts /\ Usable(n) \subseteq PartsOf(n)
  BY ProcessingConstants DEF PartsOf, Usable
<1>1. CASE IsTold(r, q)
  BY <1>1 DEF IsTold, Sound
<1>2. CASE IsOver(n, r, q)
  BY <1>2 DEF IsOver
<1>3. CASE GoesOn(n, r, q)
  <2>1. /\ SameFiles(r, q) /\ q.step # "idle" /\ q.step # "write" /\ q.step # "clean" /\ q.step # "parse"
        /\ q.step = "place" => r.step = "parse" /\ ~ r.stop
        /\ q.step \in Early => r.step \in Early /\ q.verdict = r.verdict
        /\ \A p \in Parts : r.spots[p] = Nowhere
    BY <1>3 DEF GoesOn, SameRun, Early, Sound
  <2> QED
    BY <2>1 DEF SameFiles, Sound
<1>4. CASE GivesUp(n, r, q)
  <2>1. /\ SameFiles(r, q) /\ q.step # "idle" /\ q.step # "write" /\ q.step \notin Early
        /\ q.step = "clean" => r.step \in Early \/ (r.step = "write" /\ r.verdict # "none")
        /\ \A p \in Parts : r.spots[p] = Nowhere
    BY <1>4 DEF GivesUp, SameRun, SameFiles, Early, Sound
  <2> QED
    BY <2>1 DEF SameFiles, Sound, Early
<1>5. CASE Finds(n, r, q)
  BY <1>5 DEF Finds, Sound, Early
<1>6. CASE NotesFolder(n, r, q)
  <2>1. /\ Kind(q.nzb) # "single" /\ q.nzb = n /\ q.step \in {"write", "clean"}
        /\ q.due \subseteq PartsOf(n) /\ q.wrote \subseteq FolderOf(n)
    BY <1>6 DEF NotesFolder, Sound
  <2>2. q.spots = [p \in Parts |-> q.spots[p]]
    BY <1>6 DEF NotesFolder, Sound
  <2>3. \A p \in Parts : q.spots[p] # Nowhere =>
          q.step = "write" /\ p \in q.due /\ \E c \in 0..MaxCopy : q.spots[p] = Place(n, p, c)
    BY <1>6, ProcessingConstants DEF NotesFolder, Sound
  <2> QED
    BY <2>1, <2>2, <2>3 DEF Sound, Early
<1>7. CASE TakesBack(n, r, q)
  BY <1>7 DEF TakesBack, SameRun, SameFiles, Sound, Early
<1>8. ASSUME NEW p \in Parts, Reserves(n, p, r, q)
      PROVE  Sound(q)
  <2>1. /\ q.nzb = n /\ q.step = "write" /\ q.due = r.due /\ q.wrote = r.wrote /\ q.verdict = r.verdict
        /\ r.step = "write" \/ (r.step \in Early /\ r.wrote = {} /\ r.verdict = "none")
    BY <1>8 DEF Reserves, Sound, Early
  <2>2. q.spots = [x \in Parts |-> q.spots[x]]
    BY <1>8 DEF Reserves
  <2>3. \A x \in Parts : q.spots[x] # Nowhere => x \in q.due /\ \E c \in 0..MaxCopy : q.spots[x] = Place(n, x, c)
    <3> SUFFICES ASSUME NEW x \in Parts, q.spots[x] # Nowhere
                 PROVE  x \in q.due /\ \E c \in 0..MaxCopy : q.spots[x] = Place(n, x, c)
      OBVIOUS
    <3> QED
      BY <1>8 DEF Reserves, Sound
  <2> QED
    BY <2>1, <2>2, <2>3 DEF Sound, Early
<1>9. ASSUME NEW p \in Parts, Writes(n, p, r, q)
      PROVE  Sound(q)
  <2>1. /\ q.nzb = n /\ r.step = "write" /\ q.step = "write" /\ q.due = r.due \ {p} /\ r.spots[p] # Nowhere
        /\ \/ q.wrote = r.wrote \cup {r.spots[p]} /\ q.verdict = r.verdict
           \/ q.wrote = r.wrote /\ q.verdict = "failed"
    BY <1>9 DEF Writes, Sound
  <2>2. p \in r.due /\ r.spots[p] \in FolderOf(n)
    BY <2>1, PlacesAreThere DEF Sound
  <2>3. q.spots = [x \in Parts |-> q.spots[x]]
    BY <1>9 DEF Writes
  <2>4. \A x \in Parts : q.spots[x] # Nowhere => x \in q.due /\ \E c \in 0..MaxCopy : q.spots[x] = Place(n, x, c)
    <3> SUFFICES ASSUME NEW x \in Parts, q.spots[x] # Nowhere
                 PROVE  x \in q.due /\ \E c \in 0..MaxCopy : q.spots[x] = Place(n, x, c)
      OBVIOUS
    <3>1. x # p /\ q.spots[x] = r.spots[x]
      BY <1>9 DEF Writes
    <3> QED
      BY <2>1, <3>1 DEF Sound
  <2>5. q.due \subseteq PartsOf(n) /\ q.wrote \subseteq FolderOf(n)
    BY <2>1, <2>2 DEF Sound
  <2>6. ASSUME Kind(n) = "single"
        PROVE  q.due = {} /\ (q.wrote = {} \/ q.verdict = "none")
    <3>1. r.verdict = "none" /\ r.wrote = {}
      BY <2>1, <2>2, <2>6 DEF Sound
    <3>2. \E x : PartsOf(n) = {x}
      BY <2>6 DEF PartsOf
    <3>3. r.due \subseteq PartsOf(n)
      BY DEF Sound
    <3> QED
      BY <2>1, <2>2, <3>1, <3>2, <3>3
  <2> QED
    BY <2>1, <2>3, <2>4, <2>5, <2>6 DEF Sound, Early
<1> QED
  BY <1>1, <1>2, <1>3, <1>4, <1>5, <1>6, <1>7, <1>8, <1>9 DEF Does

(* Each hand's record is given a name, r, before anything is said of it.   *)
HandsInOrder ==
    \A h \in Hands : \A r : r = hand[h] => r = Idle \/ (Sound(r) /\ h \in setting.hands /\ server # "down")

(* Every step of a hand is one of these.                                   *)
LEMMA HandStepsAre ==
    ASSUME CustodyInv, HandsInOrder, FilesAreMap, Settled, NEW h \in Hands, NEW n \in Nzbs, HandStep(h, n)
    PROVE  \E r, q : /\ r = hand[h] /\ TurnsInto(h, q) /\ FilesAreMap'
                     /\ Sound(r) /\ r.nzb = n /\ h \in setting.hands /\ Does(n, r, q)
<1>1. hand[h].nzb = n /\ server # "down"
  BY DEF HandStep
<1>2. Idle.nzb # n
  BY ProcessingConstants DEF Idle, NoNzb
<1>3. \A r : r = hand[h] => Sound(r) /\ r.nzb = n /\ h \in setting.hands
  BY <1>1, <1>2 DEF HandsInOrder
<1>4. SpotsShape
  BY DEF HandsInOrder, SpotsShape, Sound, Idle
<1>5. hand[h].due \subseteq Parts /\ \A p \in Parts : hand[h].spots[p] # Nowhere => hand[h].spots[p] \in Places
  <2>1. PartsOf(n) \subseteq Parts
    BY ProcessingConstants DEF PartsOf
  <2>2. PICK r : r = hand[h] /\ Sound(r) /\ r.nzb = n
    BY <1>3
  <2>3. r.due \subseteq Parts
    BY <2>1, <2>2 DEF Sound
  <2>4. ASSUME NEW p \in Parts, r.spots[p] # Nowhere
        PROVE  r.spots[p] \in Places
    <3>1. PICK c \in 0..MaxCopy : r.spots[p] = Place(n, p, c)
      BY <2>2, <2>4 DEF Sound
    <3> QED
      BY <3>1, PlacesAreThere
  <2> QED
    BY <2>2, <2>3, <2>4
<1>6. CASE \/ (Probe(h, n) /\ ~ GiveUpWith(h, "failed")) \/ Analyse(h, n)
           \/ (\E p \in Parts : Reserve(h, n, p) \/ WriteFile(h, n, p)) \/ CleanUp(h)
  <2>1. PICK r, q : /\ r = hand[h] /\ TurnsInto(h, q) /\ FilesAreMap'
                    /\ \/ Finds(n, r, q) \/ NotesFolder(n, r, q) \/ TakesBack(n, r, q)
                       \/ \E p \in Parts : Reserves(n, p, r, q) \/ Writes(n, p, r, q)
    BY <1>4, <1>5, <1>6, FileStepsAre
  <2>2. Does(n, r, q)
    BY <2>1 DEF Does
  <2> QED
    BY <1>3, <2>1, <2>2
<1>7. CASE \/ Persist(h, n) \/ RecordPath(h, n) \/ Open(h, n) \/ (Probe(h, n) /\ GiveUpWith(h, "failed"))
           \/ Parse(h) \/ Written(h) \/ (Store(h) /\ server = "up") \/ (Complete(h, n) /\ server = "up")
           \/ Fail(h, n) \/ Count(h, n) \/ (MoveToFailed(h, n) /\ ~ End(h))
  <2>1. PICK r, q : r = hand[h] /\ TurnsInto(h, q) /\ (GoesOn(n, r, q) \/ GivesUp(n, r, q)) /\ UNCHANGED placed
    BY <1>1, <1>7, TurnsAre
  <2>2. Does(n, r, q) /\ FilesAreMap'
    BY <2>1 DEF FilesAreMap, Does
  <2> QED
    BY <1>3, <2>1, <2>2
<1>8. CASE \/ (Store(h) /\ server # "up") \/ (Complete(h, n) /\ server # "up")
           \/ Discard(h, n) \/ (MoveToFailed(h, n) /\ End(h)) \/ RecordFailed(h, n)
  <2>1. PICK r, q : r = hand[h] /\ TurnsInto(h, q) /\ IsOver(n, r, q) /\ UNCHANGED placed
    BY <1>1, <1>8, EndsAre
  <2>2. Does(n, r, q) /\ FilesAreMap'
    BY <2>1 DEF FilesAreMap, Does
  <2> QED
    BY <1>3, <2>1, <2>2
<1> QED
  BY <1>6, <1>7, <1>8 DEF HandStep

(* A hand that takes an item does what Takes says.                         *)
LEMMA TakesAre ==
    ASSUME CustodyInv, FilesAreMap, NEW h \in Hands, NEW n \in Nzbs, Take(h, n)
    PROVE  \E r, q : /\ r = hand[h] /\ TurnsInto(h, q) /\ FilesAreMap' /\ h \in setting.hands /\ Takes(n, r, q)
<1>1. PICK r, q : r = hand[h] /\ q = [Idle EXCEPT !.nzb = n, !.step = "persist", !.path = rowPath[n]]
  OBVIOUS
<1>2. /\ q.nzb = n /\ q.step = "persist" /\ q.path = rowPath[n] /\ q.due = {} /\ q.wrote = {}
      /\ q.spots = [p \in Parts |-> Nowhere] /\ q.verdict = "none" /\ q.stop = FALSE /\ IsHand(q)
  BY <1>1 DEF Idle, IsHand
<1>3. TurnsInto(h, q)
  BY <1>1, <1>2, OneHandChanges DEF CustodyInv, Take
<1>4. OnlyAt(row, row', n, "processing")
  BY DEF CustodyInv, RowShape, OnlyAt, Take
<1>5. /\ r.step = "idle" /\ row[n] = "pending" /\ UNCHANGED <<rowPath, nzbAt, placed>> /\ server = "up"
      /\ h \in setting.hands
  BY <1>1 DEF Take
<1>6. FilesAreMap'
  BY <1>5 DEF FilesAreMap
<1>7. Takes(n, r, q)
  BY <1>2, <1>4, <1>5 DEF Takes
<1> QED
  BY <1>1, <1>3, <1>5, <1>6, <1>7

(* A run that is cancelled does what IsTold says.                          *)
LEMMA TellsAre ==
    ASSUME CustodyInv, NEW h \in Hands, CancelRun(h)
    PROVE  \E r, q : r = hand[h] /\ TurnsInto(h, q) /\ IsTold(r, q)
<1>1. PICK r, q : r = hand[h] /\ q = [r EXCEPT !.stop = TRUE]
  OBVIOUS
<1>2. hand' = [hand EXCEPT ![h] = q]
  <2>1. hand' = [hand EXCEPT ![h].stop = TRUE]
    BY DEF CancelRun
  <2> QED
    BY <1>1, <2>1 DEF CustodyInv, HandShape
<1>3. r = [nzb |-> r.nzb, step |-> r.step, path |-> r.path, due |-> r.due, spots |-> r.spots,
           wrote |-> r.wrote, verdict |-> r.verdict, stop |-> r.stop]
  BY <1>1 DEF CustodyInv, HandShape
<1>4. q = [nzb |-> r.nzb, step |-> r.step, path |-> r.path, due |-> r.due, spots |-> r.spots,
           wrote |-> r.wrote, verdict |-> r.verdict, stop |-> TRUE]
  BY <1>1, <1>3
<1>5. IsHand(q)
  BY <1>4 DEF IsHand
<1>6. TurnsInto(h, q)
  BY <1>2, <1>5, OneHandChanges DEF CustodyInv
<1>7. r.nzb # NoNzb /\ UNCHANGED <<nzbVars, placed>> /\ Happens("cancel")
  BY <1>1 DEF CancelRun
<1> QED
  BY <1>1, <1>4, <1>6, <1>7 DEF IsTold

(* Every run is warned when the server stops.                              *)
LEMMA StopsAre ==
    ASSUME CustodyInv, HandsInOrder, StopServer, NEW h \in Hands
    PROVE  \E r, q : r = hand[h] /\ q = hand'[h] /\ IsWarned(h, r, q)
<1>1. PICK r, q : r = hand[h] /\ q = hand'[h]
  OBVIOUS
<1>2. r = [nzb |-> r.nzb, step |-> r.step, path |-> r.path, due |-> r.due, spots |-> r.spots,
           wrote |-> r.wrote, verdict |-> r.verdict, stop |-> r.stop]
  BY <1>1 DEF CustodyInv, HandShape
<1>3. q = IF r.nzb = NoNzb THEN Idle ELSE [r EXCEPT !.stop = TRUE]
  BY <1>1 DEF StopServer
<1>4. r = Idle \/ (Sound(r) /\ h \in setting.hands)
  BY <1>1 DEF HandsInOrder
<1>5. Sound(r) => r.nzb # NoNzb
  BY ProcessingConstants DEF Sound, NoNzb
<1>6. CASE r = Idle
  <2>1. q = Idle
    BY <1>3, <1>6 DEF Idle
  <2> QED
    BY <1>1, <1>6, <2>1 DEF IsWarned
<1>7. CASE Sound(r) /\ h \in setting.hands
  <2>1. q = [r EXCEPT !.stop = TRUE]
    BY <1>3, <1>5, <1>7
  <2>2. q = [nzb |-> r.nzb, step |-> r.step, path |-> r.path, due |-> r.due, spots |-> r.spots,
             wrote |-> r.wrote, verdict |-> r.verdict, stop |-> TRUE]
    BY <1>2, <2>1
  <2> QED
    BY <1>1, <1>7, <2>2 DEF IsWarned
<1> QED
  BY <1>4, <1>6, <1>7

(* Until the row says how an import has ended, its hand is at work on it.  *)
AtWork(r) == r.step \in Early \cup Late

RowsKnow ==
    \A h \in Hands : \A r : r = hand[h] =>
        /\ AtWork(r) => row[r.nzb] = "processing"
        /\ r.step = "discard" => row[r.nzb] = "completed"
OneAtWork ==
    \A g, h \in Hands : \A r, k :
        r = hand[g] /\ k = hand[h] /\ AtWork(r) /\ AtWork(k) /\ r.nzb = k.nzb => g = h

(* Only obfuscated files go by another name than their own.                *)
Renames(n) == Kind(n) = "multi" /\ setting.obfuscated
FileIsSound(s, f) ==
    \/ f = Vacant
    \/ /\ f.by \in Nzbs /\ s \in FolderOf(f.by) /\ f.of \in Parts
       /\ f.ok \/ Happens("corrupt")
       /\ ~ Renames(f.by) => f.of = s[2]
FilesInOrder == FilesAreMap /\ \A s \in Places : \A f : f = placed[s] => FileIsSound(s, f)

StopsAreKnown == ~ Happens("stop") => server \in {"up", "down"}

RunInv ==
    /\ CustodyInv /\ Settled /\ HandsInOrder /\ RowsKnow /\ OneAtWork /\ FilesInOrder
    /\ StopsAreKnown

(* What the case says stays.                                               *)
LEMMA CaseStays ==
    ASSUME UNCHANGED fixedVars
    PROVE  /\ Settled' <=> Settled
           /\ \A r : Sound(r)' <=> Sound(r)
           /\ \A s, f : FileIsSound(s, f)' <=> FileIsSound(s, f)
           /\ \A n : PartsOf(n)' = PartsOf(n) /\ Usable(n)' = Usable(n) /\ FolderOf(n)' = FolderOf(n)
           /\ \A n : Kind(n)' = Kind(n)
           /\ \A e : Happens(e)' <=> Happens(e)
<1>1. setting' = setting /\ damaged' = damaged
  BY DEF fixedVars
<1>2. \A n : Kind(n)' = Kind(n) /\ (Renames(n)' <=> Renames(n)) /\ FolderOf(n)' = FolderOf(n)
  BY <1>1 DEF Kind, Renames, FolderOf
<1>3. \A n : PartsOf(n)' = PartsOf(n)
  BY <1>1, <1>2 DEF PartsOf
<1>4. \A n : Usable(n)' = Usable(n)
  BY <1>1, <1>2, <1>3 DEF Usable
<1>5. \A n, p, c : Place(n, p, c)' = Place(n, p, c)
  BY <1>1, <1>2 DEF Place
<1>6. \A e : Happens(e)' <=> Happens(e)
  BY <1>1 DEF Happens
<1>7. Settled' <=> Settled
  BY <1>1, <1>3 DEF Settled
<1>8. \A r : Sound(r)' <=> Sound(r)
  BY <1>2, <1>3, <1>4, <1>5 DEF Sound
<1>9. \A s, f : FileIsSound(s, f)' <=> FileIsSound(s, f)
  BY <1>2, <1>6 DEF FileIsSound
<1> QED
  BY <1>2, <1>3, <1>4, <1>6, <1>7, <1>8, <1>9

(* The hands stay in order when one of them takes a step.                  *)
LEMMA HandsStayInOrder ==
    ASSUME RunInv, UNCHANGED <<fixedVars, server>>, NEW h \in Hands, NEW q, TurnsInto(h, q),
           q = Idle \/ (Sound(q) /\ h \in setting.hands /\ server # "down")
    PROVE  HandsInOrder' /\ Settled' /\ StopsAreKnown'
<1>1. setting' = setting /\ server' = server
  BY DEF fixedVars
<1>2. Settled' /\ StopsAreKnown'
  BY <1>1, CaseStays DEF RunInv, StopsAreKnown
<1>3. ASSUME NEW g \in Hands, NEW r, r = hand'[g]
      PROVE  r = Idle \/ (Sound(r)' /\ g \in setting'.hands /\ server' # "down")
  <2>1. r = Idle \/ (Sound(r) /\ g \in setting.hands /\ server # "down")
    BY <1>3 DEF TurnsInto, RunInv, HandsInOrder
  <2> QED
    BY <1>1, <2>1, CaseStays
<1>4. HandsInOrder'
  BY <1>3 DEF HandsInOrder, Idle
<1> QED
  BY <1>2, <1>4

(* The rows of the imports at work stay "processing" when one hand takes a *)
(* step.                                                                   *)
LEMMA RowsStayKnown ==
    ASSUME RunInv, NEW h \in Hands, NEW r, NEW q, r = hand[h], TurnsInto(h, q), NEW n \in Nzbs,
           \/ /\ UNCHANGED row
              /\ AtWork(q) => AtWork(r) /\ q.nzb = r.nzb
              /\ q.step = "discard" => r.step = "discard" /\ q.nzb = r.nzb
           \/ OnlyAt(row, row', n, "processing") /\ row[n] = "pending" /\ q.nzb = n /\ q.step # "discard"
           \/ /\ OnlyAt(row, row', n, "completed") /\ AtWork(r) /\ r.nzb = n /\ q.nzb = n /\ ~ AtWork(q)
           \/ /\ OnlyAt(row, row', n, "failed") /\ AtWork(r) /\ r.nzb = n /\ ~ AtWork(q) /\ q.step # "discard"
    PROVE  RowsKnow' /\ OneAtWork'
<1>1. hand'[h] = q /\ \A g \in Hands : g # h => hand'[g] = hand[g]
  BY DEF TurnsInto
<1>2. RowsKnow /\ OneAtWork /\ HandsInOrder
  BY DEF RunInv
<1>3. \A g \in Hands : \A k : k = hand[g] /\ (AtWork(k) \/ k.step = "discard") => k.nzb \in Nzbs
  <2>1. ~ (AtWork(Idle) \/ Idle.step = "discard")
    BY DEF Idle, AtWork, Early, Late
  <2>2. \A k : Sound(k) => k.nzb \in Nzbs
    BY DEF Sound
  <2> QED
    BY <1>2, <2>1, <2>2 DEF HandsInOrder
<1>4. \A k : AtWork(k) => k.step # "discard"
  BY DEF AtWork, Early, Late
<1>5. CASE /\ UNCHANGED row
           /\ AtWork(q) => AtWork(r) /\ q.nzb = r.nzb
           /\ q.step = "discard" => r.step = "discard" /\ q.nzb = r.nzb
  <2>1. RowsKnow'
    BY <1>1, <1>2, <1>5 DEF RowsKnow, AtWork
  <2>2. OneAtWork'
    BY <1>1, <1>2, <1>5 DEF OneAtWork, AtWork
  <2> QED
    BY <2>1, <2>2
<1>6. CASE OnlyAt(row, row', n, "processing") /\ row[n] = "pending" /\ q.nzb = n /\ q.step # "discard"
  <2>1. row'[n] = "processing" /\ \A m \in Nzbs : m # n => row'[m] = row[m]
    BY <1>6 DEF OnlyAt
  <2>2. \A g \in Hands : \A k : k = hand[g] /\ (AtWork(k) \/ k.step = "discard") => k.nzb # n
    BY <1>2, <1>6 DEF RowsKnow
  <2>3. RowsKnow'
    BY <1>1, <1>2, <1>3, <1>6, <2>1, <2>2 DEF RowsKnow, AtWork
  <2>4. OneAtWork'
    BY <1>1, <1>2, <1>6, <2>2 DEF OneAtWork, AtWork
  <2> QED
    BY <2>3, <2>4
<1>7. CASE /\ OnlyAt(row, row', n, "completed") /\ AtWork(r) /\ r.nzb = n /\ q.nzb = n /\ ~ AtWork(q)
  <2>1. row'[n] = "completed" /\ \A m \in Nzbs : m # n => row'[m] = row[m]
    BY <1>7 DEF OnlyAt
  <2>2. \A g \in Hands : \A k : g # h /\ k = hand[g] /\ AtWork(k) => k.nzb # n
    BY <1>2, <1>7 DEF OneAtWork
  <2>3. RowsKnow'
    BY <1>1, <1>2, <1>3, <1>4, <1>7, <2>1, <2>2 DEF RowsKnow, AtWork
  <2>4. OneAtWork'
    BY <1>1, <1>2, <1>7 DEF OneAtWork, AtWork
  <2> QED
    BY <2>3, <2>4
<1>8. CASE /\ OnlyAt(row, row', n, "failed") /\ AtWork(r) /\ r.nzb = n /\ ~ AtWork(q) /\ q.step # "discard"
  <2>1. row'[n] = "failed" /\ \A m \in Nzbs : m # n => row'[m] = row[m]
    BY <1>8 DEF OnlyAt
  <2>2. \A g \in Hands : \A k : g # h /\ k = hand[g] /\ AtWork(k) => k.nzb # n
    BY <1>2, <1>8 DEF OneAtWork
  <2>3. \A g \in Hands : \A k : k = hand[g] /\ k.step = "discard" => k.nzb # n
    BY <1>2, <1>8 DEF RowsKnow
  <2>4. RowsKnow'
    BY <1>1, <1>2, <1>3, <1>8, <2>1, <2>2, <2>3 DEF RowsKnow, AtWork
  <2>5. OneAtWork'
    BY <1>1, <1>2, <1>8 DEF OneAtWork, AtWork
  <2> QED
    BY <2>4, <2>5
<1> QED
  BY <1>5, <1>6, <1>7, <1>8

(* What a run does to the files leaves them in order.                      *)
LEMMA FilesStayInOrder ==
    ASSUME RunInv, UNCHANGED fixedVars, FilesAreMap',
           \A s \in Places : \/ placed'[s] = placed[s] \/ placed'[s] = Vacant
                             \/ \E n \in Nzbs, p \in Parts, c \in 0..MaxCopy :
                                   s = Place(n, p, c) /\ placed'[s] = [by |-> n, of |-> p, ok |-> TRUE]
    PROVE  FilesInOrder'
<1>1. ASSUME NEW s \in Places, NEW f, f = placed'[s]
      PROVE  FileIsSound(s, f)
  <2>1. CASE placed'[s] = placed[s] \/ placed'[s] = Vacant
    BY <1>1, <2>1 DEF RunInv, FilesInOrder, FileIsSound
  <2>2. ASSUME NEW n \in Nzbs, NEW p \in Parts, NEW c \in 0..MaxCopy,
               s = Place(n, p, c), placed'[s] = [by |-> n, of |-> p, ok |-> TRUE]
        PROVE  FileIsSound(s, f)
    <3>1. s \in FolderOf(n) /\ (~ Renames(n) => s[2] = p)
      BY <2>2, PlacesAreThere DEF RunInv, Renames
    <3>2. f.by = n /\ f.of = p /\ f.ok
      BY <1>1, <2>2
    <3> QED
      BY <3>1, <3>2 DEF FileIsSound
  <2> QED
    BY <2>1, <2>2
<1> QED
  BY <1>1, CaseStays DEF FilesInOrder

(* So does every step of a hand.                                           *)
LEMMA RunInvHandStep ==
    ASSUME RunInv, CustodyInv', NEW h \in Hands, NEW n \in Nzbs, NEW r, NEW q, r = hand[h], TurnsInto(h, q),
           Sound(r), r.nzb = n, h \in setting.hands, server # "down", FilesAreMap', Does(n, r, q),
           UNCHANGED <<fixedVars, server>>
    PROVE  RunInv'
<1>0. UNCHANGED fixedVars
  OBVIOUS
<1>1. q = Idle \/ Sound(q)
  BY StaysSound DEF RunInv
<1>2. HandsInOrder' /\ Settled' /\ StopsAreKnown'
  BY <1>1, HandsStayInOrder
<1>3. RowsKnow' /\ OneAtWork'
  <2>1. CASE GoesOn(n, r, q)
    <3>1. CASE r.step # "complete"
      <4>1. UNCHANGED row /\ r.nzb = q.nzb /\ q.step # "discard" /\ AtWork(r)
        BY <2>1, <3>1 DEF GoesOn, SameRun, SameFiles, nzbVars, AtWork, Early, Late
      <4> QED
        BY <4>1, RowsStayKnown
    <3>2. CASE r.step = "complete"
      <4>1. OnlyAt(row, row', n, "completed") /\ q.nzb = n /\ ~ AtWork(q) /\ AtWork(r)
        BY <2>1, <3>2 DEF GoesOn, SameRun, SameFiles, AtWork, Early, Late
      <4> QED
        BY <4>1, RowsStayKnown
    <3> QED
      BY <3>1, <3>2
  <2>2. CASE GivesUp(n, r, q)
    <3>1. CASE UNCHANGED row
      <4>1. r.nzb = q.nzb /\ q.step # "discard" /\ (AtWork(q) => AtWork(r))
        BY <2>2 DEF GivesUp, SameRun, SameFiles, AtWork, Early, Late
      <4> QED
        BY <3>1, <4>1, RowsStayKnown
    <3>2. CASE OnlyAt(row, row', n, "failed") /\ r.step = "fail" /\ q.step = "count"
      <4>1. AtWork(r) /\ ~ AtWork(q)
        BY <3>2 DEF AtWork, Early, Late
      <4> QED
        BY <3>2, <4>1, RowsStayKnown
    <3> QED
      BY <2>2, <3>1, <3>2 DEF GivesUp, nzbVars
  <2>3. CASE IsOver(n, r, q)
    <3>1. UNCHANGED row /\ ~ AtWork(q) /\ q.step # "discard"
      BY <2>3 DEF IsOver, Idle, AtWork, Early, Late
    <3> QED
      BY <3>1, RowsStayKnown
  <2>4. CASE \/ Finds(n, r, q) \/ NotesFolder(n, r, q) \/ TakesBack(n, r, q)
             \/ \E p \in Parts : Reserves(n, p, r, q) \/ Writes(n, p, r, q)
    <3>1. UNCHANGED row /\ r.nzb = q.nzb /\ AtWork(r) /\ q.step # "discard"
      BY <2>4
      DEF Finds, NotesFolder, TakesBack, Reserves, Writes, SameRun, SameFiles, nzbVars, AtWork, Early, Late
    <3> QED
      BY <3>1, RowsStayKnown
  <2> QED
    BY <2>1, <2>2, <2>3, <2>4 DEF Does
<1>4. FilesInOrder'
  <2>1. CASE UNCHANGED placed
    BY <1>0, <2>1, FilesStayInOrder
  <2>2. CASE TakesBack(n, r, q)
    <3>1. \A s \in Places : placed'[s] = placed[s] \/ placed'[s] = Vacant
      BY <2>2 DEF TakesBack
    <3> QED
      BY <1>0, <3>1, FilesStayInOrder
  <2>3. ASSUME NEW p \in Parts, Writes(n, p, r, q)
        PROVE  FilesInOrder'
    <3>1. PICK c \in 0..MaxCopy : r.spots[p] = Place(n, p, c)
      BY <2>3 DEF Writes, Sound
    <3>2. PICK s : s = r.spots[p] /\ s = Place(n, p, c)
      BY <3>1
    <3>3. /\ \A t \in Places : t # s => placed'[t] = placed[t]
          /\ placed'[s] = [by |-> n, of |-> p, ok |-> TRUE] \/ placed'[s] = Vacant \/ UNCHANGED placed
      BY <2>3, <3>2 DEF Writes
    <3>4. \A t \in Places : \/ placed'[t] = placed[t] \/ placed'[t] = Vacant
                            \/ t = Place(n, p, c) /\ placed'[t] = [by |-> n, of |-> p, ok |-> TRUE]
      BY <3>2, <3>3
    <3> QED
      BY <1>0, <3>4, FilesStayInOrder
  <2> QED
    BY <2>1, <2>2, <2>3 DEF Does, Finds, NotesFolder, Reserves
<1> QED
  BY <1>2, <1>3, <1>4 DEF RunInv

(* So does a hand that takes an item,                                      *)
LEMMA RunInvTake ==
    ASSUME RunInv, CustodyInv', NEW h \in Hands, NEW n \in Nzbs, NEW r, NEW q, r = hand[h], TurnsInto(h, q),
           h \in setting.hands, FilesAreMap', Takes(n, r, q), UNCHANGED <<fixedVars, server>>
    PROVE  RunInv'
<1>0. UNCHANGED fixedVars
  OBVIOUS
<1>1. Sound(q) /\ server # "down"
  BY DEF Takes, Sound, Early
<1>2. HandsInOrder' /\ Settled' /\ StopsAreKnown'
  BY <1>1, HandsStayInOrder
<1>3. RowsKnow' /\ OneAtWork'
  <2>1. OnlyAt(row, row', n, "processing") /\ row[n] = "pending" /\ q.nzb = n /\ q.step # "discard"
    BY DEF Takes
  <2> QED
    BY <2>1, RowsStayKnown
<1>4. FilesInOrder'
  BY <1>0, FilesStayInOrder DEF Takes
<1> QED
  BY <1>2, <1>3, <1>4 DEF RunInv

(* and a run that is cancelled.                                            *)
LEMMA RunInvTell ==
    ASSUME RunInv, CustodyInv', NEW h \in Hands, NEW r, NEW q, r = hand[h], TurnsInto(h, q),
           IsTold(r, q), UNCHANGED <<fixedVars, server>>
    PROVE  RunInv'
<1>0. UNCHANGED fixedVars
  OBVIOUS
<1>1. Sound(r) /\ h \in setting.hands /\ server # "down"
  <2>1. r # Idle
    BY DEF IsTold, Idle
  <2> QED
    BY <2>1 DEF RunInv, HandsInOrder
<1>2. Sound(q)
  BY <1>1 DEF IsTold, Sound
<1>3. HandsInOrder' /\ Settled' /\ StopsAreKnown'
  BY <1>1, <1>2, HandsStayInOrder
<1>4. RowsKnow' /\ OneAtWork'
  <2>1. UNCHANGED row /\ r.nzb = q.nzb /\ r.step = q.step /\ r.nzb \in Nzbs
    BY <1>1 DEF IsTold, nzbVars, Sound
  <2>2. AtWork(q) => AtWork(r)
    BY <2>1 DEF AtWork
  <2> QED
    BY <2>1, <2>2, RowsStayKnown
<1>5. FilesInOrder'
  <2>1. UNCHANGED placed
    BY DEF IsTold
  <2>2. FilesAreMap'
    BY <2>1 DEF RunInv, FilesInOrder, FilesAreMap
  <2> QED
    BY <1>0, <2>1, <2>2, FilesStayInOrder
<1> QED
  BY <1>3, <1>4, <1>5 DEF RunInv

(* So do requests, the health worker, and the start and the end of the     *)
(* process.                                                                *)
LEMMA RunInvElse ==
    ASSUME RunInv, CustodyInv',
           \/ \E n \in Nzbs : RetryImport(n)
           \/ \E s \in Places : Corrupt(s) \/ RelinkRecord(s)
           \/ StopServer \/ ExitServer \/ Crash \/ StartServer
    PROVE  RunInv'
<1>1. UNCHANGED fixedVars
  BY DEF RetryImport, Corrupt, RelinkRecord, StopServer, ExitServer, Crash, StartServer
<1>2. setting' = setting /\ Settled'
  BY <1>1, CaseStays DEF fixedVars, RunInv
<1>3. FilesInOrder'
  <2>1. CASE UNCHANGED placed
    <3>1. FilesAreMap'
      BY <2>1 DEF RunInv, FilesInOrder, FilesAreMap
    <3> QED
      BY <1>1, <2>1, <3>1, FilesStayInOrder
  <2>2. ASSUME NEW s \in Places, Corrupt(s)
        PROVE  FilesInOrder'
    <3>1. PICK f : f = placed[s]
      OBVIOUS
    <3>2. FileIsSound(s, f) /\ f.ok /\ Happens("corrupt") /\ FilesAreMap
      BY <2>2, <3>1 DEF RunInv, FilesInOrder, Corrupt
    <3>3. placed' = [placed EXCEPT ![s].ok = FALSE]
      BY <2>2 DEF Corrupt
    <3>4. f # Vacant
      BY <3>2 DEF Vacant
    <3>5. PICK g : g = [f EXCEPT !.ok = FALSE]
      OBVIOUS
    <3>6. placed' = [placed EXCEPT ![s] = g]
      BY <3>1, <3>3, <3>5
    <3>7. FilesAreMap' /\ placed'[s] = g /\ \A t \in Places : t # s => placed'[t] = placed[t]
      BY <3>2, <3>6 DEF FilesAreMap
    <3>8. g.by = f.by /\ g.of = f.of
      BY <3>5
    <3>9. FileIsSound(s, g)
      BY <3>2, <3>4, <3>8 DEF FileIsSound
    <3>10. \A t \in Places : \A e : e = placed'[t] => FileIsSound(t, e)
      BY <3>7, <3>9 DEF RunInv, FilesInOrder
    <3> QED
      BY <1>1, <3>7, <3>10, CaseStays DEF FilesInOrder
  <2> QED
    BY <2>1, <2>2 DEF RetryImport, RelinkRecord, StopServer, ExitServer, Crash, StartServer
<1>4. ASSUME UNCHANGED <<hand, server>>,
             UNCHANGED row \/ \E n \in Nzbs : row[n] = "failed" /\ row' = [row EXCEPT ![n] = "pending"]
      PROVE  RunInv'
  <2>1. HandsInOrder' /\ OneAtWork' /\ StopsAreKnown'
    <3>1. ASSUME NEW h \in Hands, NEW r, r = hand'[h]
          PROVE  r = Idle \/ (Sound(r)' /\ h \in setting'.hands /\ server' # "down")
      <4>1. r = Idle \/ (Sound(r) /\ h \in setting.hands /\ server # "down")
        BY <1>4, <3>1 DEF RunInv, HandsInOrder
      <4> QED
        BY <1>1, <1>2, <1>4, <4>1, CaseStays
    <3>2. HandsInOrder'
      BY <3>1 DEF HandsInOrder, Idle
    <3>3. OneAtWork'
      BY <1>4 DEF RunInv, OneAtWork, AtWork
    <3>4. StopsAreKnown'
      BY <1>1, <1>4, CaseStays DEF RunInv, StopsAreKnown
    <3> QED
      BY <3>2, <3>3, <3>4
  <2>2. RowsKnow'
    <3>1. CASE UNCHANGED row
      BY <1>4, <3>1 DEF RunInv, RowsKnow, AtWork
    <3>2. ASSUME NEW n \in Nzbs, row[n] = "failed", row' = [row EXCEPT ![n] = "pending"]
          PROVE  RowsKnow'
      <4>1. \A m : m # n => row'[m] = row[m]
        BY <3>2 DEF RunInv, CustodyInv, RowShape
      <4>2. ASSUME NEW h \in Hands, NEW r, r = hand[h]
            PROVE  /\ AtWork(r) => row'[r.nzb] = "processing"
                   /\ r.step = "discard" => row'[r.nzb] = "completed"
        BY <3>2, <4>1, <4>2 DEF RunInv, RowsKnow
      <4> QED
        BY <1>4, <4>2 DEF RowsKnow, AtWork
    <3> QED
      BY <1>4, <3>1, <3>2
  <2> QED
    BY <1>2, <1>3, <2>1, <2>2 DEF RunInv
<1>5. ASSUME \E n \in Nzbs : RetryImport(n)
      PROVE  RunInv'
  BY <1>4, <1>5 DEF RetryImport
<1>6. ASSUME \E s \in Places : Corrupt(s) \/ RelinkRecord(s)
      PROVE  RunInv'
  BY <1>4, <1>6 DEF Corrupt, RelinkRecord, nzbVars
<1>7. ASSUME StopServer
      PROVE  RunInv'
  <2>1. \A h \in Hands : \E r, q : r = hand[h] /\ q = hand'[h] /\ IsWarned(h, r, q)
    BY <1>7, StopsAre DEF RunInv
  <2>2. server' = "stopping" /\ Happens("stop") /\ UNCHANGED row
    BY <1>7 DEF StopServer, nzbVars
  <2>3. HandsInOrder'
    <3>1. ASSUME NEW h \in Hands, NEW q, q = hand'[h]
          PROVE  q = Idle \/ (Sound(q) /\ h \in setting.hands)
      <4>1. PICK r, k : r = hand[h] /\ k = hand'[h] /\ IsWarned(h, r, k)
        BY <2>1
      <4>2. k = q
        BY <3>1, <4>1
      <4>3. Sound(r) /\ h \in setting.hands => Sound(k)
        BY <4>1 DEF IsWarned, Sound, Idle
      <4> QED
        BY <4>1, <4>2, <4>3 DEF IsWarned
    <3>2. ASSUME NEW h \in Hands, NEW q, q = hand'[h]
          PROVE  q = Idle \/ (Sound(q)' /\ h \in setting'.hands /\ server' # "down")
      <4>1. q = Idle \/ (Sound(q) /\ h \in setting.hands)
        BY <3>1, <3>2
      <4> QED
        BY <1>1, <1>2, <2>2, <4>1, CaseStays
    <3> QED
      BY <3>2 DEF HandsInOrder, Idle
  <2>4. ASSUME NEW h \in Hands
        PROVE  hand'[h].step = hand[h].step /\ hand'[h].nzb = hand[h].nzb
    <3>1. PICK r, q : r = hand[h] /\ q = hand'[h] /\ IsWarned(h, r, q)
      BY <2>1
    <3>2. q.step = r.step /\ q.nzb = r.nzb
      BY <3>1 DEF IsWarned
    <3> QED
      BY <3>1, <3>2
  <2>5. RowsKnow' /\ OneAtWork'
    BY <2>2, <2>4 DEF RunInv, RowsKnow, OneAtWork, AtWork
  <2>6. StopsAreKnown'
    BY <1>1, <2>2, CaseStays DEF StopsAreKnown
  <2> QED
    BY <1>2, <1>3, <2>3, <2>5, <2>6 DEF RunInv
<1>8. ASSUME ExitServer \/ Crash \/ StartServer
      PROVE  RunInv'
  <2>1. \A h \in Hands : hand'[h] = Idle
    <3>1. CASE Crash
      BY <3>1 DEF Crash
    <3>2. CASE ExitServer
      <4>1. ASSUME NEW h \in Hands
            PROVE  hand[h] = Idle
        <5>1. PICK r : r = hand[h]
          OBVIOUS
        <5>2. r.nzb = NoNzb
          BY <3>2, <5>1 DEF ExitServer
        <5>3. ~ Sound(r)
          BY <5>2, ProcessingConstants DEF Sound, NoNzb
        <5> QED
          BY <5>1, <5>3 DEF RunInv, HandsInOrder
      <4> QED
        BY <3>2, <4>1 DEF ExitServer
    <3>3. CASE StartServer
      BY <3>3 DEF StartServer, RunInv, HandsInOrder
    <3> QED
      BY <1>8, <3>1, <3>2, <3>3
  <2>2. Idle' = Idle
    BY DEF Idle
  <2>3. HandsInOrder' /\ RowsKnow' /\ OneAtWork'
    <3>1. ~ AtWork(Idle) /\ Idle.step # "discard"
      BY DEF Idle, AtWork, Early, Late
    <3> QED
      BY <2>1, <2>2, <3>1 DEF HandsInOrder, RowsKnow, OneAtWork, AtWork
  <2>4. StopsAreKnown'
    BY <1>8 DEF StopsAreKnown, ExitServer, Crash, StartServer
  <2> QED
    BY <1>2, <1>3, <2>3, <2>4 DEF RunInv
<1> QED
  BY <1>5, <1>6, <1>7, <1>8

(* It all holds at the start ...                                           *)
LEMMA RunInvInit == ProcessingInit => RunInv
<1> SUFFICES ASSUME ProcessingInit
             PROVE  RunInv
  OBVIOUS
<1>1. CustodyInv
  BY CustodyInit
<1>2. Settled
  BY DEF ProcessingInit, Settled
<1>3. \A h \in Hands : hand[h] = Idle
  BY DEF ProcessingInit
<1>4. HandsInOrder
  BY <1>3 DEF HandsInOrder
<1>5. RowsKnow /\ OneAtWork
  <2>1. ~ AtWork(Idle) /\ Idle.step # "discard"
    BY DEF Idle, AtWork, Early, Late
  <2> QED
    BY <1>3, <2>1 DEF RowsKnow, OneAtWork
<1>6. FilesInOrder
  BY DEF ProcessingInit, FilesInOrder, FilesAreMap, FileIsSound
<1>7. StopsAreKnown
  BY DEF ProcessingInit, StopsAreKnown
<1> QED
  BY <1>1, <1>2, <1>4, <1>5, <1>6, <1>7 DEF RunInv

(* ... and after every step.                                               *)
LEMMA RunInvNext == RunInv /\ [ProcessingNext]_processingVars => RunInv'
<1> SUFFICES ASSUME RunInv, [ProcessingNext]_processingVars
             PROVE  RunInv'
  OBVIOUS
<1>1. CustodyInv'
  BY CustodyNext DEF RunInv
<1>2. CASE UNCHANGED processingVars
  <2>1. UNCHANGED fixedVars /\ UNCHANGED <<hand, server, row, placed, setting>>
    BY <1>2 DEF processingVars, nzbVars, fixedVars
  <2> QED
    BY <1>1, <2>1, CaseStays
    DEF RunInv, HandsInOrder, RowsKnow, OneAtWork, AtWork, FilesInOrder, FilesAreMap, StopsAreKnown, Idle
<1>3. ASSUME NEW h \in Hands, NEW n \in Nzbs, Take(h, n), UNCHANGED <<fixedVars, server, limitVars>>
      PROVE  RunInv'
  <2>1. PICK r, q : r = hand[h] /\ TurnsInto(h, q) /\ FilesAreMap' /\ h \in setting.hands /\ Takes(n, r, q)
    BY <1>3, TakesAre DEF RunInv, FilesInOrder
  <2> QED
    BY <1>1, <1>3, <2>1, RunInvTake
<1>4. ASSUME NEW h \in Hands, NEW n \in Nzbs, HandStep(h, n)
      PROVE  RunInv'
  <2>1. UNCHANGED <<fixedVars, server>> /\ server # "down"
    BY <1>4 DEF HandStep
  <2>2. PICK r, q : /\ r = hand[h] /\ TurnsInto(h, q) /\ FilesAreMap'
                    /\ Sound(r) /\ r.nzb = n /\ h \in setting.hands /\ Does(n, r, q)
    BY <1>4, HandStepsAre DEF RunInv, FilesInOrder
  <2> QED
    BY <1>1, <2>1, <2>2, RunInvHandStep
<1>5. ASSUME NEW h \in Hands, CancelRun(h)
      PROVE  RunInv'
  <2>1. PICK r, q : r = hand[h] /\ TurnsInto(h, q) /\ IsTold(r, q)
    BY <1>5, TellsAre DEF RunInv
  <2>2. UNCHANGED <<fixedVars, server>>
    BY <1>5 DEF CancelRun
  <2> QED
    BY <1>1, <2>1, <2>2, RunInvTell
<1> QED
  BY <1>1, <1>2, <1>3, <1>4, <1>5, RunInvElse DEF ProcessingNext

(* Releases that have a folder each, or one run at a time and no archives. *)
Apart == \A m, n \in Nzbs : m # n => setting.folder[m] # setting.folder[n]
InTurn == (\A n \in Nzbs : Kind(n) # "archive") /\ (\A g, h \in setting.hands : g = h)
Alone == Apart \/ InTurn

(* A hand has reserved a place of its own for each file, with no healthy   *)
(* file in it, and what it is to take back is its own.                     *)
Owns(r) ==
    /\ \A p \in Parts : r.spots[p] # Nowhere =>
          ~ placed[r.spots[p]].ok /\ \A x \in Parts : x # p => r.spots[x] # r.spots[p]
    /\ \A s \in r.wrote : placed[s].by \in {NoNzb, r.nzb}

HandsOwn == \A h \in Hands : \A r : r = hand[h] => Owns(r)
AloneInv == Alone => HandsOwn

(* A hand without an item has nothing to own.                              *)
LEMMA IdleOwns == Owns(Idle) /\ Owns(Idle)'
  BY DEF Owns, Idle

(* A place is in the folder of one release only.                           *)
LEMMA FoldersApart ==
    ASSUME Apart, NEW m \in Nzbs, NEW n \in Nzbs, NEW s, s \in FolderOf(m), s \in FolderOf(n)
    PROVE  m = n
  BY DEF Apart, FolderOf

(* What another hand does to its files does not disturb a hand.            *)
LEMMA OthersOwn ==
    ASSUME RunInv, Alone, HandsOwn, NEW h \in Hands, NEW n \in Nzbs, NEW r, r = hand[h], Sound(r), r.nzb = n,
           h \in setting.hands, AtWork(r),
           \A s \in Places : placed'[s] # placed[s] => s \in FolderOf(n) /\ placed'[s].by \in {NoNzb, n},
           NEW g \in Hands, g # h, NEW k, k = hand[g]
    PROVE  Owns(k)'
<1>1. k = Idle \/ (Sound(k) /\ g \in setting.hands)
  BY DEF RunInv, HandsInOrder
<1>2. CASE k = Idle
  BY <1>2, IdleOwns DEF Owns
<1>3. CASE Sound(k) /\ g \in setting.hands
  <2>1. Apart
    BY <1>3 DEF Alone, InTurn
  <2>2. Owns(k) /\ k.wrote \subseteq FolderOf(k.nzb) /\ k.nzb \in Nzbs
    BY <1>3 DEF HandsOwn, Sound
  <2>3. \A m : FolderOf(m) \subseteq Places
    BY DEF FolderOf
  <2>4. \A p \in Parts : k.spots[p] # Nowhere => k.spots[p] \in FolderOf(k.nzb) /\ k.nzb # n
    <3> SUFFICES ASSUME NEW p \in Parts, k.spots[p] # Nowhere
                 PROVE  k.spots[p] \in FolderOf(k.nzb) /\ k.nzb # n
      OBVIOUS
    <3>1. k.step = "write" /\ \E c \in 0..MaxCopy : k.spots[p] = Place(k.nzb, p, c)
      BY <1>3 DEF Sound
    <3>2. k.spots[p] \in FolderOf(k.nzb)
      BY <2>2, <3>1, PlacesAreThere DEF RunInv
    <3>3. AtWork(k)
      BY <3>1 DEF AtWork, Late
    <3> QED
      BY <3>2, <3>3 DEF RunInv, OneAtWork
  <2>5. \A s \in FolderOf(k.nzb) : k.nzb # n => placed'[s] = placed[s]
    BY <2>1, <2>2, <2>3, FoldersApart
  <2>6. \A p \in Parts : k.spots[p] # Nowhere =>
          ~ placed'[k.spots[p]].ok /\ \A x \in Parts : x # p => k.spots[x] # k.spots[p]
    BY <2>2, <2>4, <2>5 DEF Owns
  <2>7. \A s \in k.wrote : placed'[s].by \in {NoNzb, k.nzb}
    BY <2>2, <2>3, <2>5 DEF Owns
  <2> QED
    BY <2>6, <2>7 DEF Owns, NoNzb, Nowhere
<1> QED
  BY <1>1, <1>2, <1>3

(* The files that change are of the release that is imported.              *)
LEMMA ChangesAreOwn ==
    ASSUME RunInv, NEW n \in Nzbs, NEW r, NEW q, Sound(r), r.nzb = n, Does(n, r, q)
    PROVE  /\ \A s \in Places : placed'[s] # placed[s] => s \in FolderOf(n) /\ placed'[s].by \in {NoNzb, n}
           /\ ~ UNCHANGED placed => AtWork(r)
<1>1. CASE UNCHANGED placed
  BY <1>1
<1>2. CASE TakesBack(n, r, q)
  <2>1. r.wrote \subseteq FolderOf(n) /\ AtWork(r)
    BY <1>2 DEF TakesBack, Sound, AtWork, Late
  <2> QED
    BY <1>2, <2>1 DEF TakesBack, Vacant
<1>3. ASSUME NEW p \in Parts, Writes(n, p, r, q)
      PROVE  /\ \A s \in Places : placed'[s] # placed[s] => s \in FolderOf(n) /\ placed'[s].by \in {NoNzb, n}
             /\ AtWork(r)
  <2>1. \E c \in 0..MaxCopy : r.spots[p] = Place(n, p, c)
    BY <1>3 DEF Writes, Sound
  <2>2. r.spots[p] \in FolderOf(n) /\ AtWork(r)
    BY <1>3, <2>1, PlacesAreThere DEF Writes, RunInv, AtWork, Late
  <2>3. PICK s : s = r.spots[p]
    OBVIOUS
  <2>4. \A t \in Places : t # s => placed'[t] = placed[t]
    BY <1>3, <2>3 DEF Writes
  <2>5. placed'[s].by \in {NoNzb, n} \/ UNCHANGED placed
    BY <1>3, <2>3 DEF Writes, Vacant
  <2> QED
    BY <2>2, <2>3, <2>4, <2>5
<1> QED
  BY <1>1, <1>2, <1>3 DEF Does, Finds, NotesFolder, Reserves

(* Nor does a step of its own.                                             *)
LEMMA StillOwns ==
    ASSUME RunInv, Alone, NEW h \in Hands, NEW n \in Nzbs, NEW r, NEW q, r = hand[h], Sound(r), r.nzb = n,
           Owns(r), Does(n, r, q)
    PROVE  Owns(q)'
<1>0. Sound(q) \/ q = Idle
  BY StaysSound DEF RunInv
<1>1. CASE UNCHANGED placed /\ q.nzb = r.nzb /\ q.spots = r.spots /\ q.wrote = r.wrote
  BY <1>1 DEF Owns
<1>2. CASE IsOver(n, r, q)
  BY <1>2, IdleOwns DEF IsOver, Owns
<1>3. CASE NotesFolder(n, r, q)
  <2>1. Apart /\ Kind(n) = "archive" /\ UNCHANGED placed /\ q.nzb = n /\ q.wrote = FolderOf(n)
    BY <1>3 DEF NotesFolder, Alone, InTurn
  <2>2. \A s \in FolderOf(n) : placed[s].by \in {NoNzb, n}
    <3> SUFFICES ASSUME NEW s \in FolderOf(n)
                 PROVE  placed[s].by \in {NoNzb, n}
      OBVIOUS
    <3>1. PICK f : f = placed[s] /\ FileIsSound(s, f)
      BY DEF RunInv, FilesInOrder, FolderOf
    <3>2. CASE f = Vacant
      BY <3>1, <3>2 DEF Vacant
    <3>3. CASE f.by \in Nzbs /\ s \in FolderOf(f.by)
      BY <2>1, <3>1, <3>3, FoldersApart
    <3> QED
      BY <3>1, <3>2, <3>3 DEF FileIsSound
  <2>3. ASSUME NEW p \in Parts, q.spots[p] # Nowhere
        PROVE  ~ placed[q.spots[p]].ok /\ \A x \in Parts : x # p => q.spots[x] # q.spots[p]
    <3>1. CASE q.spots = r.spots
      BY <2>3, <3>1 DEF Owns
    <3>2. CASE \A x \in Parts : q.spots[x] = IF x \in q.due THEN Place(n, x, 0) ELSE Nowhere
      <4>1. p \in q.due /\ q.spots[p] = Place(n, p, 0) /\ q.step = "write"
        BY <1>0, <2>3, <3>2 DEF Sound, Idle
      <4>2. ~ placed[q.spots[p]].ok
        BY <1>3, <4>1 DEF NotesFolder
      <4>3. ASSUME NEW x \in Parts, x # p
            PROVE  q.spots[x] # q.spots[p]
        <5>1. 0 \in 0..MaxCopy
          BY ProcessingConstants
        <5>2. Place(n, p, 0)[2] = p /\ Place(n, x, 0)[2] = x
          BY <2>1, <5>1, PlacesAreThere DEF RunInv
        <5> QED
          BY <2>3, <3>2, <4>1, <4>3, <5>2
      <4> QED
        BY <4>2, <4>3
    <3> QED
      BY <1>3, <3>1, <3>2 DEF NotesFolder
  <2> QED
    BY <2>1, <2>2, <2>3 DEF Owns
<1>4. ASSUME NEW p \in Parts, Reserves(n, p, r, q)
      PROVE  Owns(q)'
  <2>1. UNCHANGED placed /\ q.nzb = r.nzb /\ q.wrote = r.wrote
    BY <1>4 DEF Reserves
  <2>2. ASSUME NEW x \in Parts, q.spots[x] # Nowhere
        PROVE  ~ placed[q.spots[x]].ok /\ \A y \in Parts : y # x => q.spots[y] # q.spots[x]
    BY <1>4, <2>2 DEF Reserves, Owns
  <2> QED
    BY <2>1, <2>2 DEF Owns
<1>5. ASSUME NEW p \in Parts, Writes(n, p, r, q)
      PROVE  Owns(q)'
  <2>1. PICK s : /\ s = r.spots[p] /\ s # Nowhere /\ q.nzb = n
                 /\ \A x \in Parts : x # p => r.spots[x] # s
    BY <1>5 DEF Writes, Owns
  <2>2. /\ q.spots[p] = Nowhere /\ \A x \in Parts : x # p => q.spots[x] = r.spots[x]
        /\ \A t \in Places : t # s => placed'[t] = placed[t]
        /\ \/ q.wrote = r.wrote \cup {s} /\ placed'[s] = [by |-> n, of |-> p, ok |-> TRUE]
           \/ q.wrote = r.wrote /\ placed'[s] = placed[s]
           \/ q.wrote = r.wrote /\ placed'[s] = Vacant
    BY <1>5, <2>1 DEF Writes
  <2>3. ASSUME NEW x \in Parts, q.spots[x] # Nowhere
        PROVE  ~ placed'[q.spots[x]].ok /\ \A y \in Parts : y # x => q.spots[y] # q.spots[x]
    <3>1. x # p /\ q.spots[x] = r.spots[x] /\ q.spots[x] # s
      BY <2>1, <2>2, <2>3
    <3>2. \E c \in 0..MaxCopy : r.spots[x] = Place(n, x, c)
      BY <2>3, <3>1 DEF Sound
    <3>3. q.spots[x] \in Places
      BY <3>1, <3>2, PlacesAreThere DEF RunInv
    <3>4. ~ placed[r.spots[x]].ok /\ \A y \in Parts : y # x => r.spots[y] # r.spots[x]
      BY <2>3, <3>1 DEF Owns
    <3> QED
      BY <2>1, <2>2, <2>3, <3>1, <3>3, <3>4
  <2>4. ASSUME NEW t \in q.wrote
        PROVE  placed'[t].by \in {NoNzb, n}
    <3>1. CASE t = s
      <4>1. placed'[s] = placed[s] => t \in r.wrote \/ placed'[s].by = n
        BY <2>2, <2>4, <3>1
      <4> QED
        BY <2>2, <3>1, <4>1 DEF Owns, Vacant
    <3>2. CASE t # s
      <4>1. t \in r.wrote /\ r.wrote \subseteq Places
        BY <2>2, <2>4, <3>2 DEF Sound, FolderOf
      <4> QED
        BY <2>2, <3>2, <4>1 DEF Owns
    <3> QED
      BY <3>1, <3>2
  <2> QED
    BY <2>1, <2>3, <2>4 DEF Owns
<1>6. CASE TakesBack(n, r, q)
  <2>1. /\ q.nzb = n /\ q.wrote = r.wrote /\ r.wrote \subseteq Places
        /\ \A s \in Places : placed'[s] = IF s \in r.wrote THEN Vacant ELSE placed[s]
    BY <1>6 DEF TakesBack, SameRun, SameFiles, Sound, FolderOf
  <2>2. \A p \in Parts : q.spots[p] = Nowhere
    BY <1>6 DEF TakesBack, SameRun, SameFiles, Sound
  <2> QED
    BY <2>1, <2>2 DEF Owns, Vacant
<1>7. CASE (GoesOn(n, r, q) \/ GivesUp(n, r, q)) /\ UNCHANGED placed
  <2>1. SameFiles(r, q)
    BY <1>7 DEF GoesOn, GivesUp, SameRun
  <2> QED
    BY <1>1, <1>7, <2>1 DEF SameFiles
<1>8. CASE Finds(n, r, q)
  BY <1>1, <1>8 DEF Finds
<1> QED
  BY <1>2, <1>3, <1>4, <1>5, <1>6, <1>7, <1>8 DEF Does

(* Whether releases are apart is said by the case, which stays.            *)
LEMMA CaseStaysAlone == UNCHANGED fixedVars => (Alone' <=> Alone) /\ (Apart' <=> Apart) /\ (InTurn' <=> InTurn)
<1> SUFFICES ASSUME UNCHANGED fixedVars
             PROVE  (Alone' <=> Alone) /\ (Apart' <=> Apart) /\ (InTurn' <=> InTurn)
  OBVIOUS
<1>1. setting' = setting
  BY DEF fixedVars
<1>2. Apart' <=> Apart
  BY <1>1 DEF Apart
<1>3. InTurn' <=> InTurn
  BY <1>1 DEF InTurn, Kind
<1> QED
  BY <1>2, <1>3 DEF Alone

(* No step of a hand takes from a hand what it owns,                       *)
LEMMA AloneHandStep ==
    ASSUME RunInv, Alone, HandsOwn, NEW h \in Hands, NEW n \in Nzbs, NEW r, NEW q, r = hand[h], TurnsInto(h, q),
           Sound(r), r.nzb = n, h \in setting.hands, Does(n, r, q)
    PROVE  HandsOwn'
<1>1. Owns(r)
  BY DEF HandsOwn
<1>2. Owns(q)'
  BY <1>1, StillOwns
<1>3. hand'[h] = q /\ \A g \in Hands : g # h => hand'[g] = hand[g]
  BY DEF TurnsInto
<1>4. ASSUME NEW g \in Hands, g # h, NEW k, k = hand[g]
      PROVE  Owns(k)'
  <2>1. CASE UNCHANGED placed
    BY <1>4, <2>1 DEF HandsOwn, Owns
  <2>2. CASE ~ UNCHANGED placed
    <3>1. /\ \A s \in Places : placed'[s] # placed[s] => s \in FolderOf(n) /\ placed'[s].by \in {NoNzb, n}
          /\ AtWork(r)
      BY <2>2, ChangesAreOwn
    <3> QED
      BY <1>4, <3>1, OthersOwn
  <2> QED
    BY <2>1, <2>2
<1>5. ASSUME NEW g \in Hands, NEW k, k = hand'[g]
      PROVE  Owns(k)'
  <2>1. CASE g = h
    BY <1>2, <1>3, <1>5, <2>1
  <2>2. CASE g # h
    <3>1. k = hand[g]
      BY <1>3, <1>5, <2>2
    <3> QED
      BY <1>4, <2>2, <3>1
  <2> QED
    BY <2>1, <2>2
<1> QED
  BY <1>5 DEF HandsOwn

(* nor does any other step.                                                *)
LEMMA AloneNext == RunInv /\ AloneInv /\ [ProcessingNext]_processingVars => AloneInv'
<1> SUFFICES ASSUME RunInv, AloneInv, [ProcessingNext]_processingVars, Alone'
             PROVE  HandsOwn'
  BY DEF AloneInv
<1>1. UNCHANGED fixedVars
  BY DEF ProcessingNext, processingVars, HandStep, CancelRun, RetryImport, Corrupt, RelinkRecord,
         StopServer, ExitServer, Crash, StartServer
<1>2. Alone /\ HandsOwn
  BY <1>1, CaseStaysAlone DEF AloneInv
<1>3. ASSUME NEW h \in Hands, NEW q, TurnsInto(h, q), Owns(q)', UNCHANGED placed
      PROVE  HandsOwn'
  <2>1. ASSUME NEW g \in Hands, NEW k, k = hand'[g]
        PROVE  Owns(k)'
    <3>1. CASE g = h
      BY <1>3, <2>1, <3>1 DEF TurnsInto
    <3>2. CASE g # h
      <4>1. Owns(k)
        BY <1>2, <1>3, <2>1, <3>2 DEF TurnsInto, HandsOwn
      <4> QED
        BY <1>3, <4>1 DEF Owns
    <3> QED
      BY <3>1, <3>2
  <2> QED
    BY <2>1 DEF HandsOwn
<1>4. CASE UNCHANGED hand /\ \A s \in Places : placed'[s].by = placed[s].by /\ (placed'[s].ok => placed[s].ok)
  <2>1. ASSUME NEW g \in Hands, NEW k, k = hand[g]
        PROVE  Owns(k)'
    <3>1. Owns(k) /\ (k = Idle \/ Sound(k))
      BY <1>2, <2>1 DEF HandsOwn, RunInv, HandsInOrder
    <3>2. \A s \in k.wrote : s \in Places
      BY <3>1 DEF Sound, FolderOf, Idle
    <3>3. \A p \in Parts : k.spots[p] # Nowhere => k.spots[p] \in Places
      BY <3>1, PlacesAreThere DEF Sound, RunInv, Idle
    <3> QED
      BY <1>4, <3>1, <3>2, <3>3 DEF Owns
  <2> QED
    BY <1>4, <2>1 DEF HandsOwn
<1>5. ASSUME NEW h \in Hands, NEW n \in Nzbs, Take(h, n), UNCHANGED <<fixedVars, server, limitVars>>
      PROVE  HandsOwn'
  <2>1. PICK r, q : r = hand[h] /\ TurnsInto(h, q) /\ FilesAreMap' /\ h \in setting.hands /\ Takes(n, r, q)
    BY <1>5, TakesAre DEF RunInv, FilesInOrder
  <2>2. Owns(q)' /\ UNCHANGED placed
    BY <2>1 DEF Takes, Owns
  <2> QED
    BY <1>3, <2>1, <2>2
<1>6. ASSUME NEW h \in Hands, NEW n \in Nzbs, HandStep(h, n)
      PROVE  HandsOwn'
  <2>1. PICK r, q : /\ r = hand[h] /\ TurnsInto(h, q) /\ FilesAreMap'
                    /\ Sound(r) /\ r.nzb = n /\ h \in setting.hands /\ Does(n, r, q)
    BY <1>6, HandStepsAre DEF RunInv, FilesInOrder
  <2> QED
    BY <1>2, <2>1, AloneHandStep
<1>7. ASSUME NEW h \in Hands, CancelRun(h)
      PROVE  HandsOwn'
  <2>1. PICK r, q : r = hand[h] /\ TurnsInto(h, q) /\ IsTold(r, q)
    BY <1>7, TellsAre DEF RunInv
  <2>2. Owns(r)
    BY <1>2, <2>1 DEF HandsOwn
  <2>3. Owns(q)' /\ UNCHANGED placed
    BY <2>1, <2>2 DEF IsTold, Owns
  <2> QED
    BY <1>3, <2>1, <2>3
<1>8. ASSUME NEW s \in Places, Corrupt(s)
      PROVE  HandsOwn'
  <2>1. UNCHANGED hand /\ placed' = [placed EXCEPT ![s].ok = FALSE] /\ FilesAreMap
    BY <1>8 DEF Corrupt, RunInv, FilesInOrder
  <2>2. PICK f, g : f = placed[s] /\ g = [f EXCEPT !.ok = FALSE]
    OBVIOUS
  <2>3. placed' = [placed EXCEPT ![s] = g]
    BY <2>1, <2>2
  <2>4. FileIsSound(s, f) /\ f # Vacant
    BY <1>8, <2>2 DEF RunInv, FilesInOrder, Corrupt, Vacant
  <2>5. placed'[s] = g /\ \A t \in Places : t # s => placed'[t] = placed[t]
    BY <2>1, <2>3 DEF FilesAreMap
  <2>6. g.by = f.by /\ (g.ok => f.ok)
    BY <1>8, <2>2 DEF Corrupt
  <2> QED
    BY <1>4, <2>1, <2>2, <2>5, <2>6
<1>9. ASSUME StopServer
      PROVE  HandsOwn'
  <2>1. UNCHANGED placed
    BY <1>9 DEF StopServer
  <2>2. ASSUME NEW h \in Hands, NEW k, k = hand'[h]
        PROVE  Owns(k)'
    <3>1. PICK r, q : r = hand[h] /\ q = hand'[h] /\ IsWarned(h, r, q)
      BY <1>9, StopsAre DEF RunInv
    <3>2. q = Idle \/ (q.spots = r.spots /\ q.wrote = r.wrote /\ q.nzb = r.nzb)
      BY <3>1 DEF IsWarned
    <3>3. k = q /\ Owns(r)
      BY <1>2, <2>2, <3>1 DEF HandsOwn
    <3> QED
      BY <2>1, <3>2, <3>3, IdleOwns DEF Owns
  <2> QED
    BY <2>2 DEF HandsOwn
<1>10. ASSUME Crash
       PROVE  HandsOwn'
  <2>1. \A h \in Hands : hand'[h] = Idle
    BY <1>10 DEF Crash
  <2> QED
    BY <2>1, IdleOwns DEF HandsOwn, Owns
<1>11. CASE UNCHANGED <<hand, placed>>
  BY <1>4, <1>11
<1> QED
  BY <1>5, <1>6, <1>7, <1>8, <1>9, <1>10, <1>11
  DEF ProcessingNext, RetryImport, RelinkRecord, ExitServer, StartServer, processingVars

(* The files, the rows and what the hands know agree in every state of     *)
(* every case.                                                             *)
THEOREM RunInvariant == ProcessingSpec => []RunInv
  BY RunInvInit, RunInvNext, PTL DEF ProcessingSpec

(* In every case where releases are alone, a hand has its places to itself *)
(* and takes back only what is its own.                                    *)
THEOREM OwnFilesInvariant == ProcessingSpec => []AloneInv
<1>1. ProcessingInit => AloneInv
  BY IdleOwns DEF ProcessingInit, AloneInv, HandsOwn
<1> QED
  BY <1>1, AloneNext, RunInvariant, PTL DEF ProcessingSpec

(* What a hand knows, unless the place is contested: that the places it    *)
(* has chosen, each for one file, hold no healthy one; and, no archive     *)
(* being imported, that those it has written hold what it wrote.           *)
Heeds(r) ==
    /\ \A p \in Parts : r.spots[p] # Nowhere =>
          /\ ~ placed[r.spots[p]].ok \/ r.spots[p] \in contested
          /\ \A x \in Parts : x # p => r.spots[x] # r.spots[p]
    /\ r.step \in {"write", "clean"} /\ Kind(r.nzb) # "archive" =>
          \A s \in r.wrote : placed[s].by \in {NoNzb, r.nzb} \/ s \in contested

HandsHeed == \A h \in Hands : \A r : r = hand[h] => Heeds(r)

LEMMA IdleHeeds == Heeds(Idle) /\ Heeds(Idle)'
  BY DEF Heeds, Idle

(* What is written beside another hand, in a place that the other one is   *)
(* after, is contested.                                                    *)
LEMMA MetPlacesAreContested ==
    ASSUME RunInv, NEW h \in Hands, NEW n \in Nzbs, NEW r, NEW q, r = hand[h], Sound(r), r.nzb = n,
           Does(n, r, q), contested' = contested \cup Contests(h, n),
           NEW g \in Hands, g # h, NEW s \in Places, s \in Claims(g)
    PROVE  placed'[s] = placed[s] \/ placed'[s] = Vacant \/ s \in contested'
<1>1. placed'[s] # placed[s] /\ placed'[s].by = n => s \in contested'
  BY DEF Contests
<1>2. CASE TakesBack(n, r, q)
  BY <1>2 DEF TakesBack
<1>3. ASSUME NEW p \in Parts, Writes(n, p, r, q)
      PROVE  placed'[s] = placed[s] \/ placed'[s] = Vacant \/ placed'[s].by = n
  <2>1. PICK t : t = r.spots[p]
    OBVIOUS
  <2>2. s # t => placed'[s] = placed[s]
    BY <1>3, <2>1 DEF Writes
  <2>3. placed'[t] = [by |-> n, of |-> p, ok |-> TRUE] \/ UNCHANGED placed \/ placed'[t] = Vacant
    BY <1>3, <2>1 DEF Writes
  <2> QED
    BY <2>2, <2>3
<1> QED
  BY <1>1, <1>2, <1>3 DEF Does, Finds, NotesFolder, Reserves

(* What a hand does leaves the others what they know.                      *)
LEMMA OthersHeed ==
    ASSUME RunInv, UNCHANGED fixedVars, NEW h \in Hands, NEW n \in Nzbs, NEW r, NEW q, r = hand[h],
           Sound(r), r.nzb = n, Does(n, r, q), contested' = contested \cup Contests(h, n),
           NEW g \in Hands, g # h, NEW k, k = hand[g], Heeds(k)
    PROVE  Heeds(k)'
<1>1. k = Idle \/ Sound(k)
  BY DEF RunInv, HandsInOrder
<1>2. CASE k = Idle
  BY <1>2, IdleHeeds
<1>3. CASE Sound(k)
  <2>1. \A s \in Places : s \in Claims(g) => placed'[s] = placed[s] \/ placed'[s] = Vacant \/ s \in contested'
    BY MetPlacesAreContested
  <2>2. ASSUME NEW p \in Parts, k.spots[p] # Nowhere
        PROVE  /\ ~ placed'[k.spots[p]].ok \/ k.spots[p] \in contested'
               /\ \A x \in Parts : x # p => k.spots[x] # k.spots[p]
    <3>1. k.spots[p] \in Places /\ k.spots[p] \in Claims(g)
      <4>1. \E c \in 0..MaxCopy : k.spots[p] = Place(k.nzb, p, c)
        BY <1>3, <2>2 DEF Sound
      <4> QED
        BY <1>3, <2>2, <4>1, PlacesAreThere DEF RunInv, Sound, Claims, Held
    <3>2. \/ placed'[k.spots[p]] = placed[k.spots[p]] \/ placed'[k.spots[p]] = Vacant
          \/ k.spots[p] \in contested'
      BY <2>1, <3>1
    <3> QED
      BY <2>2, <3>2 DEF Heeds, Vacant
  <2>3. ASSUME k.step \in {"write", "clean"}, Kind(k.nzb) # "archive", NEW s \in k.wrote
        PROVE  placed'[s].by \in {NoNzb, k.nzb} \/ s \in contested'
    <3>1. s \in Places /\ s \in Claims(g)
      BY <1>3, <2>3 DEF Sound, FolderOf, Claims
    <3>2. placed'[s] = placed[s] \/ placed'[s] = Vacant \/ s \in contested'
      BY <2>1, <3>1
    <3> QED
      BY <2>3, <3>2 DEF Heeds, Vacant
  <2> QED
    BY <2>2, <2>3, CaseStays DEF Heeds, Nowhere, NoNzb
<1> QED
  BY <1>1, <1>2, <1>3

(* So it does to itself.                                                   *)
LEMMA StillHeeds ==
    ASSUME RunInv, UNCHANGED fixedVars, NEW h \in Hands, NEW n \in Nzbs, NEW r, NEW q, r = hand[h],
           Sound(r), r.nzb = n, Does(n, r, q), contested \subseteq contested', Heeds(r)
    PROVE  Heeds(q)'
<1>0. (Sound(q) \/ q = Idle) /\ r.wrote \subseteq Places
  BY StaysSound DEF RunInv, Sound, FolderOf
<1>1. ASSUME UNCHANGED placed, q.nzb = r.nzb, q.spots = r.spots, q.wrote = r.wrote,
             q.step \in {"write", "clean"} => r.step = "write" \/ r.wrote = {}
      PROVE  Heeds(q)'
  BY <1>1, CaseStays DEF Heeds
<1>2. CASE IsOver(n, r, q)
  BY <1>2, IdleHeeds DEF IsOver
<1>3. CASE NotesFolder(n, r, q)
  <2>1. Kind(n) = "archive" /\ UNCHANGED placed /\ q.nzb = n
    BY <1>3 DEF NotesFolder
  <2>2. ASSUME NEW p \in Parts, q.spots[p] # Nowhere
        PROVE  ~ placed[q.spots[p]].ok /\ \A x \in Parts : x # p => q.spots[x] # q.spots[p]
    <3>1. q.step = "write" /\ p \in q.due
      BY <1>0, <2>2 DEF Sound, Idle
    <3>2. \A x \in Parts : q.spots[x] = IF x \in q.due THEN Place(n, x, 0) ELSE Nowhere
      BY <1>3, <3>1 DEF NotesFolder
    <3>3. ~ placed[q.spots[p]].ok
      BY <1>3, <3>1, <3>2 DEF NotesFolder
    <3>4. ASSUME NEW x \in Parts, x # p
          PROVE  q.spots[x] # q.spots[p]
      <4>1. 0 \in 0..MaxCopy
        BY ProcessingConstants
      <4>2. Place(n, p, 0)[2] = p /\ Place(n, x, 0)[2] = x
        BY <2>1, <4>1, PlacesAreThere DEF RunInv
      <4> QED
        BY <2>2, <3>1, <3>2, <3>4, <4>2
    <3> QED
      BY <3>3, <3>4
  <2> QED
    BY <2>1, <2>2, CaseStays DEF Heeds
<1>4. ASSUME NEW p \in Parts, Reserves(n, p, r, q)
      PROVE  Heeds(q)'
  <2>1. UNCHANGED placed /\ q.nzb = r.nzb /\ q.wrote = r.wrote /\ (r.step = "write" \/ r.wrote = {})
    BY <1>4 DEF Reserves, Sound, Early
  <2>2. ASSUME NEW x \in Parts, q.spots[x] # Nowhere
        PROVE  /\ ~ placed[q.spots[x]].ok \/ q.spots[x] \in contested
               /\ \A y \in Parts : y # x => q.spots[y] # q.spots[x]
    BY <1>4, <2>2 DEF Reserves, Heeds
  <2> QED
    BY <2>1, <2>2, CaseStays DEF Heeds
<1>5. ASSUME NEW p \in Parts, Writes(n, p, r, q)
      PROVE  Heeds(q)'
  <2>1. PICK s : /\ s = r.spots[p] /\ s # Nowhere /\ q.nzb = n /\ r.step = "write"
                 /\ \A x \in Parts : x # p => r.spots[x] # s
    BY <1>5 DEF Writes, Heeds
  <2>2. /\ q.spots[p] = Nowhere /\ \A x \in Parts : x # p => q.spots[x] = r.spots[x]
        /\ \A t \in Places : t # s => placed'[t] = placed[t]
        /\ \/ q.wrote = r.wrote \cup {s} /\ placed'[s] = [by |-> n, of |-> p, ok |-> TRUE]
           \/ q.wrote = r.wrote /\ placed'[s] = placed[s]
           \/ q.wrote = r.wrote /\ placed'[s] = Vacant
    BY <1>5, <2>1 DEF Writes
  <2>3. ASSUME NEW x \in Parts, q.spots[x] # Nowhere
        PROVE  /\ ~ placed'[q.spots[x]].ok \/ q.spots[x] \in contested'
               /\ \A y \in Parts : y # x => q.spots[y] # q.spots[x]
    <3>1. x # p /\ q.spots[x] = r.spots[x] /\ q.spots[x] # s
      BY <2>1, <2>2, <2>3
    <3>2. \E c \in 0..MaxCopy : r.spots[x] = Place(n, x, c)
      BY <2>3, <3>1 DEF Sound
    <3>3. q.spots[x] \in Places
      BY <3>1, <3>2, PlacesAreThere DEF RunInv
    <3>4. /\ ~ placed[r.spots[x]].ok \/ r.spots[x] \in contested
          /\ \A y \in Parts : y # x => r.spots[y] # r.spots[x]
      BY <2>3, <3>1 DEF Heeds
    <3> QED
      BY <2>1, <2>2, <2>3, <3>1, <3>3, <3>4
  <2>4. ASSUME Kind(n) # "archive", NEW t \in q.wrote
        PROVE  placed'[t].by \in {NoNzb, n} \/ t \in contested'
    <3>1. t \in r.wrote => placed[t].by \in {NoNzb, n} \/ t \in contested
      BY <2>1, <2>4 DEF Heeds
    <3>2. CASE t = s
      <4>1. placed'[s] = placed[s] => t \in r.wrote \/ placed'[s].by = n
        BY <2>2, <2>4, <3>2
      <4> QED
        BY <2>2, <3>1, <3>2, <4>1 DEF Vacant
    <3>3. CASE t # s
      <4>1. t \in r.wrote /\ t \in Places
        BY <1>0, <2>2, <2>4, <3>3
      <4> QED
        BY <2>2, <3>1, <3>3, <4>1
    <3> QED
      BY <3>2, <3>3
  <2> QED
    BY <2>1, <2>3, <2>4, CaseStays DEF Heeds, NoNzb, Nowhere
<1>6. CASE TakesBack(n, r, q)
  <2>1. \A p \in Parts : q.spots[p] = Nowhere
    BY <1>6 DEF TakesBack, SameRun, SameFiles, Sound
  <2> QED
    BY <1>6, <2>1 DEF Heeds, TakesBack, Nowhere
<1>7. CASE (GoesOn(n, r, q) \/ GivesUp(n, r, q)) /\ UNCHANGED placed
  <2>1. SameFiles(r, q) /\ (q.step \in {"write", "clean"} => r.step = "write" \/ r.step \in Early)
    BY <1>7 DEF GoesOn, GivesUp, SameRun, Early
  <2>2. r.step \in Early => r.wrote = {}
    BY DEF Sound
  <2> QED
    BY <1>1, <1>7, <2>1, <2>2 DEF SameFiles
<1>8. CASE Finds(n, r, q)
  BY <1>1, <1>8 DEF Finds
<1> QED
  BY <1>2, <1>3, <1>4, <1>5, <1>6, <1>7, <1>8 DEF Does

(* No step takes from a hand what it knows,                                *)
LEMMA HeedsNext == RunInv /\ HandsHeed /\ [ProcessingNext]_processingVars => HandsHeed'
<1> SUFFICES ASSUME RunInv, HandsHeed, [ProcessingNext]_processingVars
             PROVE  HandsHeed'
  OBVIOUS
<1>1. UNCHANGED fixedVars /\ contested \subseteq contested'
  BY DEF ProcessingNext, processingVars, HandStep, CancelRun, RetryImport, Corrupt, RelinkRecord,
         StopServer, ExitServer, Crash, StartServer
<1>2. ASSUME NEW h \in Hands, NEW q, TurnsInto(h, q), Heeds(q)',
             \A g \in Hands : g # h => \A k : k = hand[g] => Heeds(k)'
      PROVE  HandsHeed'
  BY <1>2 DEF TurnsInto, HandsHeed
<1>3. UNCHANGED placed => \A k : Heeds(k) => Heeds(k)'
  BY <1>1, CaseStays DEF Heeds
<1>4. CASE UNCHANGED hand /\ \A s \in Places : placed'[s].by = placed[s].by /\ (placed'[s].ok => placed[s].ok)
  <2>1. ASSUME NEW g \in Hands, NEW k, k = hand[g]
        PROVE  Heeds(k)'
    <3>1. Heeds(k) /\ (k = Idle \/ Sound(k))
      BY <2>1 DEF HandsHeed, RunInv, HandsInOrder
    <3>2. \A s \in k.wrote : s \in Places
      BY <3>1 DEF Sound, FolderOf, Idle
    <3>3. \A p \in Parts : k.spots[p] # Nowhere => k.spots[p] \in Places
      BY <3>1, PlacesAreThere DEF Sound, RunInv, Idle
    <3> QED
      BY <1>1, <1>4, <3>1, <3>2, <3>3, CaseStays DEF Heeds
  <2> QED
    BY <1>4, <2>1 DEF HandsHeed
<1>5. ASSUME NEW h \in Hands, NEW n \in Nzbs, Take(h, n), UNCHANGED <<fixedVars, server, limitVars>>
      PROVE  HandsHeed'
  <2>1. PICK r, q : r = hand[h] /\ TurnsInto(h, q) /\ FilesAreMap' /\ h \in setting.hands /\ Takes(n, r, q)
    BY <1>5, TakesAre DEF RunInv, FilesInOrder
  <2>2. Heeds(q)' /\ UNCHANGED placed
    BY <2>1 DEF Takes, Heeds
  <2> QED
    BY <1>2, <1>3, <2>1, <2>2 DEF HandsHeed
<1>6. ASSUME NEW h \in Hands, NEW n \in Nzbs, HandStep(h, n)
      PROVE  HandsHeed'
  <2>1. PICK r, q : /\ r = hand[h] /\ TurnsInto(h, q) /\ FilesAreMap'
                    /\ Sound(r) /\ r.nzb = n /\ h \in setting.hands /\ Does(n, r, q)
    BY <1>6, HandStepsAre DEF RunInv, FilesInOrder
  <2>2. contested' = contested \cup Contests(h, n)
    BY <1>6 DEF HandStep
  <2>3. Heeds(q)'
    BY <1>1, <2>1, StillHeeds DEF HandsHeed
  <2>4. \A g \in Hands : g # h => \A k : k = hand[g] => Heeds(k)'
    BY <1>1, <2>1, <2>2, OthersHeed DEF HandsHeed
  <2> QED
    BY <1>2, <2>1, <2>3, <2>4
<1>7. ASSUME NEW h \in Hands, CancelRun(h)
      PROVE  HandsHeed'
  <2>1. PICK r, q : r = hand[h] /\ TurnsInto(h, q) /\ IsTold(r, q)
    BY <1>7, TellsAre DEF RunInv
  <2>2. Heeds(q) /\ UNCHANGED placed
    BY <2>1 DEF IsTold, Heeds, HandsHeed
  <2> QED
    BY <1>2, <1>3, <2>1, <2>2 DEF HandsHeed
<1>8. ASSUME NEW s \in Places, Corrupt(s)
      PROVE  HandsHeed'
  <2>1. UNCHANGED hand /\ placed' = [placed EXCEPT ![s].ok = FALSE] /\ FilesAreMap
    BY <1>8 DEF Corrupt, RunInv, FilesInOrder
  <2>2. PICK f, g : f = placed[s] /\ g = [f EXCEPT !.ok = FALSE]
    OBVIOUS
  <2>3. placed' = [placed EXCEPT ![s] = g]
    BY <2>1, <2>2
  <2>4. FileIsSound(s, f) /\ f # Vacant
    BY <1>8, <2>2 DEF RunInv, FilesInOrder, Corrupt, Vacant
  <2>5. placed'[s] = g /\ \A t \in Places : t # s => placed'[t] = placed[t]
    BY <2>1, <2>3 DEF FilesAreMap
  <2>6. g.by = f.by /\ (g.ok => f.ok)
    BY <1>8, <2>2 DEF Corrupt
  <2> QED
    BY <1>4, <2>1, <2>2, <2>5, <2>6
<1>9. ASSUME StopServer
      PROVE  HandsHeed'
  <2>1. UNCHANGED placed
    BY <1>9 DEF StopServer
  <2>2. ASSUME NEW h \in Hands, NEW k, k = hand'[h]
        PROVE  Heeds(k)'
    <3>1. PICK r, q : r = hand[h] /\ q = hand'[h] /\ IsWarned(h, r, q)
      BY <1>9, StopsAre DEF RunInv
    <3>2. k = q /\ Heeds(r)
      BY <2>2, <3>1 DEF HandsHeed
    <3>3. q = Idle \/ Heeds(q)
      BY <3>1, <3>2 DEF IsWarned, Heeds
    <3> QED
      BY <1>3, <2>1, <3>2, <3>3, IdleHeeds
  <2> QED
    BY <2>2 DEF HandsHeed
<1>10. ASSUME Crash
       PROVE  HandsHeed'
  <2>1. \A h \in Hands : hand'[h] = Idle
    BY <1>10 DEF Crash
  <2> QED
    BY <2>1, IdleHeeds DEF HandsHeed, Heeds
<1>11. CASE UNCHANGED <<hand, placed>>
  BY <1>4, <1>11
<1> QED
  BY <1>5, <1>6, <1>7, <1>8, <1>9, <1>10, <1>11
  DEF ProcessingNext, RetryImport, RelinkRecord, ExitServer, StartServer, processingVars

(* and none takes a healthy file from an import that no hand is at, but    *)
(* where the place is contested.                                           *)
LEMMA StepsLeaveHealthyFiles ==
    ASSUME RunInv, HandsHeed, [ProcessingNext]_processingVars, NEW s \in Places,
           placed[s].ok, placed[s].by # NoNzb, ~ Attended(placed[s].by), s \notin contested'
    PROVE  placed'[s].by = placed[s].by
<1>1. ASSUME NEW h \in Hands, NEW n \in Nzbs, HandStep(h, n)
      PROVE  placed'[s].by = placed[s].by
  <2>1. PICK r, q : /\ r = hand[h] /\ TurnsInto(h, q) /\ FilesAreMap'
                    /\ Sound(r) /\ r.nzb = n /\ h \in setting.hands /\ Does(n, r, q)
    BY <1>1, HandStepsAre DEF RunInv, FilesInOrder
  <2>2. Heeds(r) /\ s \notin contested /\ s \notin Contests(h, n)
    BY <1>1, <2>1 DEF HandsHeed, HandStep
  <2>3. CASE UNCHANGED placed
    BY <2>3
  <2>4. ASSUME NEW p \in Parts, Writes(n, p, r, q)
        PROVE  placed'[s].by = placed[s].by
    <3>1. r.spots[p] # s
      BY <2>2, <2>4 DEF Heeds, Writes
    <3> QED
      BY <2>4, <3>1 DEF Writes
  <2>5. CASE TakesBack(n, r, q)
    <3>1. placed[s].by # n
      BY <2>1 DEF Attended
    <3>2. s \notin r.wrote
      <4>1. CASE Kind(n) = "archive"
        BY <2>1, <2>2, <2>5, <3>1, <4>1 DEF Contests, TakesBack
      <4>2. CASE Kind(n) # "archive"
        BY <2>1, <2>2, <2>5, <3>1, <4>2 DEF Heeds, TakesBack
      <4> QED
        BY <4>1, <4>2
    <3> QED
      BY <2>5, <3>2 DEF TakesBack
  <2> QED
    BY <2>1, <2>3, <2>4, <2>5 DEF Does, Finds, NotesFolder, Reserves
<1>2. ASSUME NEW t \in Places, Corrupt(t)
      PROVE  placed'[s].by = placed[s].by
  <2>1. placed' = [placed EXCEPT ![t].ok = FALSE] /\ FilesAreMap
    BY <1>2 DEF Corrupt, RunInv, FilesInOrder
  <2>2. PICK f, g : f = placed[t] /\ g = [f EXCEPT !.ok = FALSE]
    OBVIOUS
  <2>3. placed' = [placed EXCEPT ![t] = g]
    BY <2>1, <2>2
  <2>4. FileIsSound(t, f) /\ f # Vacant
    BY <1>2, <2>2 DEF RunInv, FilesInOrder, Corrupt, Vacant
  <2>5. g.by = f.by
    BY <2>2
  <2> QED
    BY <2>1, <2>2, <2>3, <2>5 DEF FilesAreMap
<1> QED
  BY <1>1, <1>2
  DEF ProcessingNext, Take, CancelRun, RetryImport, RelinkRecord, StopServer, ExitServer, Crash, StartServer,
      processingVars

(* In every case, whatever meets in a folder, no import replaces or        *)
(* removes a healthy file of a completed one, but in contested places.     *)
THEOREM HealthyFilesAreLeft == ProcessingSpec => HealthyFilesStay
<1>1. ProcessingInit => HandsHeed
  BY IdleHeeds DEF ProcessingInit, HandsHeed
<1>2. RunInv /\ HandsHeed /\ [ProcessingNext]_processingVars =>
        [\A s \in Places :
            LET n == placed[s].by
            IN placed[s].ok /\ n # NoNzb /\ row[n] = "completed" /\ ~ Attended(n) /\ s \notin contested'
               => placed'[s].by = n]_placed
  BY StepsLeaveHealthyFiles
<1> QED
  BY <1>1, <1>2, HeedsNext, RunInvariant, PTL DEF ProcessingSpec, HealthyFilesStay

(* Cases in which what is imported lasts: files that can break are         *)
(* replaced by files of their own name alone.                              *)
Legible == \A n \in Nzbs : ~ Renames(n)
OnlySingles == \A n \in Nzbs : Kind(n) = "single"
Lasting == Alone /\ (Happens("corrupt") => (Apart /\ Legible) \/ OnlySingles)

(* One file imported in turn may stand for another one of its name.        *)
Stands(n, p, s, f) == s \in FolderOf(n) /\ f.of = p /\ (f.by = n \/ (InTurn /\ OnlySingles))
Kept(n, p) == \E s, f : f = placed[s] /\ Stands(n, p, s, f)

(* Nothing that an import could use gets lost between its stages.          *)
Keeps(r) ==
    /\ r.step = "write" /\ r.verdict = "none" => \A p \in Usable(r.nzb) : p \in r.due \/ Kept(r.nzb, p)
    /\ r.step \in {"store", "complete"} => \A p \in Usable(r.nzb) : Kept(r.nzb, p)
PartsAreKept ==
    /\ \A h \in Hands : \A r : r = hand[h] => Keeps(r)
    /\ \A n \in Nzbs : row[n] = "completed" => \A p \in Usable(n) : Kept(n, p)
KeptInv == Lasting => PartsAreKept

(* Whether files last is said by the case, which stays.                    *)
LEMMA CaseStaysLasting ==
    ASSUME UNCHANGED fixedVars
    PROVE  (Lasting' <=> Lasting) /\ \A n, p, s, f : Stands(n, p, s, f)' <=> Stands(n, p, s, f)
<1>1. setting' = setting
  BY DEF fixedVars
<1>2. (Legible' <=> Legible) /\ (OnlySingles' <=> OnlySingles)
  BY <1>1 DEF Legible, OnlySingles, Renames, Kind
<1>3. (Alone' <=> Alone) /\ (Apart' <=> Apart) /\ (InTurn' <=> InTurn)
  BY CaseStaysAlone
<1>4. Lasting' <=> Lasting
  BY <1>2, <1>3, CaseStays DEF Lasting
<1>5. \A n, p, s, f : Stands(n, p, s, f)' <=> Stands(n, p, s, f)
  BY <1>2, <1>3, CaseStays DEF Stands
<1> QED
  BY <1>4, <1>5

(* A part is kept when the file that stands for it stays.                  *)
LEMMA FilesStand ==
    ASSUME UNCHANGED fixedVars, NEW n, NEW p, NEW s, NEW f, f = placed'[s], Stands(n, p, s, f)
    PROVE  Kept(n, p)'
<1>1. Stands(n, p, s, f)'
  BY CaseStaysLasting
<1> QED
  BY <1>1 DEF Kept

(* A part is kept as long as the files stay whose they are.                *)
LEMMA KeptWhileFilesStay ==
    ASSUME UNCHANGED fixedVars, \A s \in Places : placed'[s].by = placed[s].by /\ placed'[s].of = placed[s].of,
           NEW n, NEW p, Kept(n, p)
    PROVE  Kept(n, p)'
<1>1. PICK s, f : f = placed[s] /\ Stands(n, p, s, f)
  BY DEF Kept
<1>2. PICK g : g = placed'[s]
  OBVIOUS
<1>3. Stands(n, p, s, g)
  BY <1>1, <1>2 DEF Stands, FolderOf
<1> QED
  BY <1>2, <1>3, FilesStand

(* Parts of a single release are its one file.                             *)
LEMMA OnlyPart ==
    ASSUME OnlySingles
    PROVE  \A m, n \in Nzbs : \A p, x : p \in PartsOf(m) /\ x \in PartsOf(n) => p = x
<1>1. \A m \in Nzbs : PartsOf(m) = {CHOOSE p \in Parts : TRUE}
  BY DEF OnlySingles, PartsOf
<1> QED
  BY <1>1

(* The file that is written takes the place of no part of another name.    *)
LEMMA WritesKeep ==
    ASSUME RunInv, Lasting, UNCHANGED fixedVars, NEW n \in Nzbs, NEW p \in Parts, NEW r, NEW q,
           Sound(r), Owns(r), r.nzb = n, Writes(n, p, r, q),
           NEW m \in Nzbs, NEW x \in Usable(m), Kept(m, x)
    PROVE  Kept(m, x)' \/ (m = n /\ q.verdict # "none")
<1>0. PartsOf(m) \subseteq Parts /\ Usable(m) \subseteq PartsOf(m)
  BY ProcessingConstants DEF PartsOf, Usable
<1>1. PICK s, f : f = placed[s] /\ Stands(m, x, s, f)
  BY DEF Kept
<1>2. s \in Places /\ FileIsSound(s, f) /\ f.of \in Parts /\ s \in FolderOf(m)
  BY <1>0, <1>1 DEF Stands, FolderOf, RunInv, FilesInOrder
<1>3. PICK t, c : t = r.spots[p] /\ c \in 0..MaxCopy /\ t = Place(n, p, c) /\ p \in r.due
  BY DEF Writes, Sound
<1>4. t \in FolderOf(n) /\ (~ Renames(n) => t[2] = p)
  BY <1>3, PlacesAreThere DEF RunInv, Renames
<1>5. CASE s # t
  <2>1. placed'[s] = placed[s]
    BY <1>2, <1>3, <1>5 DEF Writes
  <2> QED
    BY <1>1, <2>1, FilesStand
<1>6. CASE s = t /\ UNCHANGED placed
  BY <1>1, <1>6, FilesStand
<1>7. CASE s = t /\ ~ UNCHANGED placed /\ InTurn /\ OnlySingles
  <2>1. placed'[t] = [by |-> n, of |-> p, ok |-> TRUE]
    BY <1>3, <1>7 DEF Writes, OnlySingles
  <2>2. p = x
    BY <1>0, <1>3, <1>7, OnlyPart DEF Sound
  <2>3. PICK g : g = placed'[s]
    OBVIOUS
  <2>4. Stands(m, x, s, g)
    BY <1>2, <1>7, <2>1, <2>2, <2>3 DEF Stands
  <2> QED
    BY <2>3, <2>4, FilesStand
<1>8. CASE s = t /\ ~ UNCHANGED placed /\ ~ (InTurn /\ OnlySingles)
  <2>1. f.by = m /\ f.of = x
    BY <1>1, <1>8 DEF Stands
  <2>2. ~ f.ok
    BY <1>1, <1>3, <1>8 DEF Owns, Writes
  <2>3. f # Vacant
    BY <2>1, ProcessingConstants DEF Vacant, NoNzb
  <2>4. Happens("corrupt")
    BY <1>2, <2>2, <2>3 DEF FileIsSound
  <2>5. Apart /\ Legible
    <3>1. OnlySingles => Legible
      BY DEF OnlySingles, Legible, Renames
    <3> QED
      BY <1>8, <2>4, <3>1 DEF Lasting, Alone
  <2>6. m = n /\ x = p
    <3>1. m = n
      BY <1>2, <1>4, <1>8, <2>5, FoldersApart
    <3> QED
      BY <1>2, <1>4, <1>8, <2>1, <2>3, <2>5, <3>1 DEF Legible, FileIsSound
  <2>7. q.verdict # "none" \/ placed'[t] = [by |-> n, of |-> p, ok |-> TRUE]
    BY <1>3 DEF Writes
  <2>8. ASSUME placed'[t] = [by |-> n, of |-> p, ok |-> TRUE]
        PROVE  Kept(m, x)'
    <3>1. PICK g : g = placed'[s]
      OBVIOUS
    <3>2. Stands(m, x, s, g)
      BY <1>2, <1>8, <2>6, <2>8, <3>1 DEF Stands
    <3> QED
      BY <3>1, <3>2, FilesStand
  <2> QED
    BY <2>6, <2>7, <2>8
<1> QED
  BY <1>5, <1>6, <1>7, <1>8

(* A roll-back takes away no file that stands for a part of another import. *)
LEMMA TakingBackKeeps ==
    ASSUME RunInv, Lasting, UNCHANGED fixedVars, NEW n \in Nzbs, NEW r, NEW q,
           Sound(r), Owns(r), r.nzb = n, TakesBack(n, r, q),
           NEW m \in Nzbs, m # n, NEW x \in Usable(m), Kept(m, x)
    PROVE  Kept(m, x)'
<1>1. PICK s, f : f = placed[s] /\ Stands(m, x, s, f)
  BY DEF Kept
<1>2. s \in Places
  BY <1>1 DEF Stands, FolderOf
<1>3. s \notin r.wrote
  <2>1. CASE InTurn /\ OnlySingles
    BY <2>1 DEF TakesBack, Sound, OnlySingles
  <2>2. CASE f.by = m
    BY <1>1, <2>2, ProcessingConstants DEF Owns, NoNzb
  <2> QED
    BY <1>1, <2>1, <2>2 DEF Stands
<1>4. placed'[s] = placed[s]
  BY <1>2, <1>3 DEF TakesBack
<1> QED
  BY <1>1, <1>4, FilesStand

(* A step of a hand keeps what is due to the completed imports and to its  *)
(* own,                                                                    *)
LEMMA KeptHandStep ==
    ASSUME RunInv, AloneInv, Lasting, PartsAreKept, UNCHANGED fixedVars,
           NEW h \in Hands, NEW n \in Nzbs, NEW r, NEW q, r = hand[h], TurnsInto(h, q),
           Sound(r), r.nzb = n, Does(n, r, q)
    PROVE  PartsAreKept'
<1>1. Owns(r) /\ Keeps(r)
  BY DEF AloneInv, HandsOwn, PartsAreKept, Lasting
<1>2. \A m : Usable(m)' = Usable(m)
  BY CaseStays
<1>3. ASSUME NEW m \in Nzbs, NEW x \in Usable(m), Kept(m, x), m # n
      PROVE  Kept(m, x)'
  <2>1. CASE UNCHANGED placed
    BY <1>3, <2>1, KeptWhileFilesStay
  <2>2. ASSUME NEW p \in Parts, Writes(n, p, r, q)
        PROVE  Kept(m, x)'
    BY <1>1, <1>3, <2>2, WritesKeep
  <2>3. CASE TakesBack(n, r, q)
    BY <1>1, <1>3, <2>3, TakingBackKeeps
  <2> QED
    BY <2>1, <2>2, <2>3 DEF Does, Finds, NotesFolder, Reserves
<1>4. ~ UNCHANGED placed => AtWork(r)
  BY ChangesAreOwn
<1>5. q # Idle => Keeps(q)'
  <2> SUFFICES ASSUME q # Idle
               PROVE  Keeps(q)'
    OBVIOUS
  <2>1. CASE ~ (q.step = "write" /\ q.verdict = "none") /\ q.step \notin {"store", "complete"}
    BY <2>1 DEF Keeps
  <2>2. CASE GoesOn(n, r, q) /\ q.step \in {"store", "complete"} /\ UNCHANGED placed
    <3>1. q.nzb = n /\ \A p \in Usable(n) : Kept(n, p)
      BY <1>1, <2>2 DEF GoesOn, SameRun, SameFiles, Keeps
    <3>2. \A p \in Usable(n) : Kept(n, p)'
      BY <2>2, <3>1, KeptWhileFilesStay
    <3> QED
      BY <1>2, <2>2, <3>1, <3>2 DEF Keeps
  <2>3. CASE NotesFolder(n, r, q) /\ q.step = "write"
    <3>1. /\ q.nzb = n /\ UNCHANGED placed /\ Kind(n) = "archive" /\ r.due = Usable(n)
          /\ \A p \in Parts : p \in q.due <=> p \in r.due /\ ~ placed[Place(n, p, 0)].ok
      BY <2>3 DEF NotesFolder, Sound
    <3>2. Apart /\ ~ Renames(n) /\ Usable(n) \subseteq Parts
      BY <3>1, ProcessingConstants DEF Lasting, Alone, InTurn, Renames, Usable, PartsOf
    <3>3. ASSUME NEW p \in Usable(n), p \notin q.due
          PROVE  Kept(n, p)'
      <4>1. PICK s : s = Place(n, p, 0)
        OBVIOUS
      <4>2. 0 \in 0..MaxCopy /\ p \in Parts
        BY <3>2, ProcessingConstants
      <4>3. s \in FolderOf(n) /\ s \in Places /\ s[2] = p
        BY <3>2, <4>1, <4>2, PlacesAreThere DEF RunInv, Renames
      <4>4. PICK f : f = placed[s]
        OBVIOUS
      <4>5. FileIsSound(s, f) /\ f.ok
        BY <3>1, <3>3, <4>1, <4>2, <4>3, <4>4 DEF RunInv, FilesInOrder
      <4>6. f.by = n
        BY <3>2, <4>3, <4>5, FoldersApart DEF FileIsSound, Vacant
      <4>7. f.of = p
        BY <3>2, <4>3, <4>5, <4>6 DEF FileIsSound, Vacant
      <4>8. Stands(n, p, s, f) /\ f = placed'[s]
        BY <3>1, <4>3, <4>4, <4>6, <4>7 DEF Stands
      <4> QED
        BY <4>8, FilesStand
    <3> QED
      BY <1>2, <2>3, <3>1, <3>3 DEF Keeps
  <2>4. ASSUME NEW p \in Parts, Reserves(n, p, r, q)
        PROVE  Keeps(q)'
    <3>1. q.nzb = n /\ q.due = r.due /\ q.step = "write" /\ q.verdict = r.verdict /\ UNCHANGED placed
      BY <2>4 DEF Reserves
    <3>2. r.verdict = "none" => \A x \in Usable(n) : x \in r.due \/ Kept(n, x)
      BY <1>1, <2>4 DEF Reserves, Keeps, Sound
    <3>3. r.verdict = "none" => \A x \in Usable(n) : x \in r.due \/ Kept(n, x)'
      BY <3>1, <3>2, KeptWhileFilesStay
    <3> QED
      BY <1>2, <3>1, <3>3 DEF Keeps
  <2>5. ASSUME NEW p \in Parts, Writes(n, p, r, q), q.verdict = "none"
        PROVE  Keeps(q)'
    <3>1. q.nzb = n /\ q.step = "write" /\ q.due = r.due \ {p} /\ r.verdict = "none"
      BY <2>5 DEF Writes
    <3>2. \A x \in Usable(n) : x \in r.due \/ Kept(n, x)
      BY <1>1, <2>5, <3>1 DEF Writes, Keeps
    <3>3. \A x \in Usable(n) : Kept(n, x) => Kept(n, x)'
      BY <1>1, <2>5, WritesKeep
    <3>4. Kept(n, p)'
      <4>1. PICK s, c : s = r.spots[p] /\ c \in 0..MaxCopy /\ s = Place(n, p, c)
        BY <2>5 DEF Writes, Sound
      <4>2. s \in FolderOf(n)
        BY <4>1, PlacesAreThere DEF RunInv
      <4>3. PICK f : f = placed'[s]
        OBVIOUS
      <4>4. f = [by |-> n, of |-> p, ok |-> TRUE]
        BY <2>5, <4>1, <4>3 DEF Writes
      <4>5. Stands(n, p, s, f)
        BY <4>2, <4>4 DEF Stands
      <4> QED
        BY <4>3, <4>5, FilesStand
    <3>5. \A x \in Usable(n) : x \in q.due \/ Kept(n, x)'
      BY <3>1, <3>2, <3>3, <3>4
    <3> QED
      BY <1>2, <3>1, <3>5 DEF Keeps
  <2> QED
    BY <2>1, <2>2, <2>3, <2>4, <2>5
    DEF Does, GivesUp, IsOver, Finds, NotesFolder, TakesBack, Writes, GoesOn
<1>6. ASSUME NEW g \in Hands, NEW k, k = hand'[g]
      PROVE  Keeps(k)'
  <2>1. CASE g = h
    <3>1. k = q
      BY <1>6, <2>1 DEF TurnsInto
    <3>2. Keeps(Idle)'
      BY DEF Keeps, Idle
    <3>3. CASE q = Idle
      BY <3>1, <3>3 DEF Keeps, Idle
    <3> QED
      BY <1>5, <3>1, <3>3
  <2>2. CASE g # h
    <3>1. k = hand[g] /\ Keeps(k) /\ (k = Idle \/ Sound(k))
      BY <1>6, <2>2 DEF TurnsInto, PartsAreKept, RunInv, HandsInOrder
    <3>2. CASE k.step \in {"write", "store", "complete"}
      <4>1. AtWork(k) /\ k.nzb \in Nzbs
        BY <3>1, <3>2 DEF AtWork, Late, Sound, Idle
      <4>2. CASE UNCHANGED placed
        <5>1. \A x \in Usable(k.nzb) : Kept(k.nzb, x) => Kept(k.nzb, x)'
          BY <4>2, KeptWhileFilesStay
        <5> QED
          BY <1>2, <3>1, <5>1 DEF Keeps
      <4>3. CASE ~ UNCHANGED placed
        <5>1. k.nzb # n
          BY <1>4, <2>2, <3>1, <4>1, <4>3 DEF RunInv, OneAtWork
        <5>2. \A x \in Usable(k.nzb) : Kept(k.nzb, x) => Kept(k.nzb, x)'
          BY <1>3, <4>1, <5>1
        <5> QED
          BY <1>2, <3>1, <5>2 DEF Keeps
      <4> QED
        BY <4>2, <4>3
    <3>3. CASE k.step \notin {"write", "store", "complete"}
      BY <3>3 DEF Keeps
    <3> QED
      BY <3>2, <3>3
  <2> QED
    BY <2>1, <2>2
<1>7. ASSUME NEW m \in Nzbs, row'[m] = "completed", NEW x \in Usable(m)
      PROVE  Kept(m, x)'
  <2>1. CASE row[m] = "completed"
    <3>1. Kept(m, x)
      BY <2>1 DEF PartsAreKept
    <3>2. CASE UNCHANGED placed
      BY <3>1, <3>2, KeptWhileFilesStay
    <3>3. CASE ~ UNCHANGED placed
      <4>1. m # n
        BY <1>4, <2>1, <3>3 DEF RunInv, RowsKnow
      <4> QED
        BY <1>3, <3>1, <4>1
    <3> QED
      BY <3>2, <3>3
  <2>2. CASE row[m] # "completed"
    <3>1. r.step = "complete" /\ m = n /\ UNCHANGED placed
      BY <1>7, <2>2
      DEF Does, GoesOn, GivesUp, IsOver, Finds, NotesFolder, TakesBack, Reserves, Writes, OnlyAt, nzbVars
    <3>2. Kept(m, x)
      BY <1>1, <3>1 DEF Keeps
    <3> QED
      BY <3>1, <3>2, KeptWhileFilesStay
  <2> QED
    BY <2>1, <2>2
<1> QED
  BY <1>2, <1>6, <1>7 DEF PartsAreKept

(* A step that neither touches files nor completes an import.              *)
LEMMA KeptElse ==
    ASSUME PartsAreKept, UNCHANGED fixedVars,
           \A s \in Places : placed'[s].by = placed[s].by /\ placed'[s].of = placed[s].of,
           \A n \in Nzbs : row'[n] = "completed" => row[n] = "completed",
           \A h \in Hands : \A k : k = hand'[h] => Keeps(k) /\ (k = Idle \/ k.nzb \in Nzbs)
    PROVE  PartsAreKept'
<1>1. \A n : Usable(n)' = Usable(n)
  BY CaseStays
<1>2. \A n, p : Kept(n, p) => Kept(n, p)'
  BY KeptWhileFilesStay
<1>3. ASSUME NEW h \in Hands, NEW k, k = hand'[h]
      PROVE  Keeps(k)'
  <2>1. Keeps(k)
    BY <1>3
  <2> QED
    BY <1>1, <1>2, <2>1 DEF Keeps
<1>4. \A n \in Nzbs : row'[n] = "completed" => \A p \in Usable(n) : Kept(n, p)'
  BY <1>2 DEF PartsAreKept
<1> QED
  BY <1>1, <1>3, <1>4 DEF PartsAreKept

(* and so does every other step.                                           *)
LEMMA KeptNext == RunInv /\ AloneInv /\ KeptInv /\ [ProcessingNext]_processingVars => KeptInv'
<1> SUFFICES ASSUME RunInv, AloneInv, KeptInv, [ProcessingNext]_processingVars, Lasting'
             PROVE  PartsAreKept'
  BY DEF KeptInv
<1>1. UNCHANGED fixedVars
  BY DEF ProcessingNext, processingVars, HandStep, CancelRun, RetryImport, Corrupt, RelinkRecord,
         StopServer, ExitServer, Crash, StartServer
<1>2. Lasting /\ PartsAreKept
  BY <1>1, CaseStaysLasting DEF KeptInv
<1>3. Keeps(Idle)
  BY DEF Keeps, Idle
<1>4. \A h \in Hands : \A k : k = hand[h] => Keeps(k) /\ (k = Idle \/ k.nzb \in Nzbs)
  BY <1>2 DEF PartsAreKept, RunInv, HandsInOrder, Sound
<1>5. ASSUME NEW h \in Hands, NEW q, TurnsInto(h, q), Keeps(q), q = Idle \/ q.nzb \in Nzbs
      PROVE  \A g \in Hands : \A k : k = hand'[g] => Keeps(k) /\ (k = Idle \/ k.nzb \in Nzbs)
  <2>1. ASSUME NEW g \in Hands, NEW k, k = hand'[g]
        PROVE  Keeps(k) /\ (k = Idle \/ k.nzb \in Nzbs)
    <3>1. CASE g = h
      <4>1. k = q
        BY <1>5, <2>1, <3>1 DEF TurnsInto
      <4> QED
        BY <1>5, <4>1
    <3>2. CASE g # h
      BY <1>4, <1>5, <2>1, <3>2 DEF TurnsInto
    <3> QED
      BY <3>1, <3>2
  <2> QED
    BY <2>1
<1>6. ASSUME NEW h \in Hands, NEW n \in Nzbs, Take(h, n), UNCHANGED <<fixedVars, server, limitVars>>
      PROVE  PartsAreKept'
  <2>1. PICK r, q : r = hand[h] /\ TurnsInto(h, q) /\ FilesAreMap' /\ h \in setting.hands /\ Takes(n, r, q)
    BY <1>6, TakesAre DEF RunInv, FilesInOrder
  <2>2. Keeps(q) /\ q.nzb \in Nzbs /\ UNCHANGED placed
    BY <2>1 DEF Takes, Keeps
  <2>3. \A m \in Nzbs : row'[m] = "completed" => row[m] = "completed"
    BY <2>1 DEF Takes, OnlyAt
  <2>4. \A g \in Hands : \A k : k = hand'[g] => Keeps(k) /\ (k = Idle \/ k.nzb \in Nzbs)
    BY <1>5, <2>1, <2>2
  <2> QED
    BY <1>1, <1>2, <2>2, <2>3, <2>4, KeptElse
<1>7. ASSUME NEW h \in Hands, NEW n \in Nzbs, HandStep(h, n)
      PROVE  PartsAreKept'
  <2>1. PICK r, q : /\ r = hand[h] /\ TurnsInto(h, q) /\ FilesAreMap'
                    /\ Sound(r) /\ r.nzb = n /\ h \in setting.hands /\ Does(n, r, q)
    BY <1>7, HandStepsAre DEF RunInv, FilesInOrder
  <2> QED
    BY <1>1, <1>2, <2>1, KeptHandStep
<1>8. ASSUME NEW h \in Hands, CancelRun(h)
      PROVE  PartsAreKept'
  <2>1. PICK r, q : r = hand[h] /\ TurnsInto(h, q) /\ IsTold(r, q)
    BY <1>8, TellsAre DEF RunInv
  <2>2. Keeps(r) /\ (r = Idle \/ r.nzb \in Nzbs)
    BY <1>4, <2>1
  <2>3. Keeps(q) /\ q.nzb \in Nzbs /\ UNCHANGED placed /\ UNCHANGED row
    BY <2>1, <2>2 DEF IsTold, Keeps, Idle, nzbVars
  <2>4. \A g \in Hands : \A k : k = hand'[g] => Keeps(k) /\ (k = Idle \/ k.nzb \in Nzbs)
    BY <1>5, <2>1, <2>3
  <2> QED
    BY <1>1, <1>2, <2>3, <2>4, KeptElse
<1>9. ASSUME NEW s \in Places, Corrupt(s)
      PROVE  PartsAreKept'
  <2>1. UNCHANGED <<hand, row>> /\ placed' = [placed EXCEPT ![s].ok = FALSE] /\ FilesAreMap
    BY <1>9 DEF Corrupt, RunInv, FilesInOrder, nzbVars
  <2>2. PICK f, g : f = placed[s] /\ g = [f EXCEPT !.ok = FALSE]
    OBVIOUS
  <2>3. placed' = [placed EXCEPT ![s] = g]
    BY <2>1, <2>2
  <2>4. placed'[s] = g /\ \A t \in Places : t # s => placed'[t] = placed[t]
    BY <2>1, <2>3 DEF FilesAreMap
  <2>5. g.by = f.by /\ g.of = f.of
    BY <2>2
  <2>6. \A t \in Places : placed'[t].by = placed[t].by /\ placed'[t].of = placed[t].of
    BY <2>2, <2>4, <2>5
  <2> QED
    BY <1>1, <1>2, <1>4, <2>1, <2>6, KeptElse
<1>10. ASSUME StopServer
       PROVE  PartsAreKept'
  <2>1. UNCHANGED <<placed, row>>
    BY <1>10 DEF StopServer, nzbVars
  <2>2. ASSUME NEW h \in Hands, NEW k, k = hand'[h]
        PROVE  Keeps(k) /\ (k = Idle \/ k.nzb \in Nzbs)
    <3>1. PICK r, q : r = hand[h] /\ q = hand'[h] /\ IsWarned(h, r, q)
      BY <1>10, StopsAre DEF RunInv
    <3>2. k = q /\ Keeps(r)
      BY <1>4, <2>2, <3>1
    <3>3. CASE q = Idle
      BY <1>3, <3>2, <3>3
    <3>4. CASE Sound(r) /\ q.nzb = r.nzb /\ q.step = r.step /\ q.due = r.due /\ q.verdict = r.verdict
      BY <3>2, <3>4 DEF Keeps, Sound
    <3> QED
      BY <3>1, <3>3, <3>4 DEF IsWarned
  <2> QED
    BY <1>1, <1>2, <2>1, <2>2, KeptElse
<1>11. ASSUME Crash
       PROVE  PartsAreKept'
  <2>1. UNCHANGED <<placed, row>> /\ \A h \in Hands : hand'[h] = Idle
    BY <1>11 DEF Crash, nzbVars
  <2> QED
    BY <1>1, <1>2, <1>3, <2>1, KeptElse
<1>12. CASE UNCHANGED <<hand, placed>> /\ \A n \in Nzbs : row'[n] = "completed" => row[n] = "completed"
  BY <1>1, <1>2, <1>4, <1>12, KeptElse
<1>13. ASSUME NEW n \in Nzbs, RetryImport(n)
       PROVE  PartsAreKept'
  <2>1. UNCHANGED <<hand, placed>> /\ row' = [row EXCEPT ![n] = "pending"] /\ RowShape
    BY <1>13 DEF RetryImport, RunInv, CustodyInv
  <2>2. \A m \in Nzbs : row'[m] = "completed" => row[m] = "completed"
    BY <2>1 DEF RowShape
  <2> QED
    BY <1>12, <2>1, <2>2
<1>14. ASSUME StartServer
       PROVE  PartsAreKept'
  <2>1. UNCHANGED <<hand, placed>> /\ \A m \in Nzbs : row'[m] = "completed" => row[m] = "completed"
    BY <1>14 DEF StartServer
  <2> QED
    BY <1>12, <2>1
<1>15. ASSUME ExitServer \/ (\E s \in Places : RelinkRecord(s)) \/ UNCHANGED processingVars
       PROVE  PartsAreKept'
  <2>1. UNCHANGED <<hand, placed, row>>
    BY <1>15 DEF ExitServer, RelinkRecord, processingVars, nzbVars
  <2> QED
    BY <1>12, <2>1
<1> QED
  BY <1>6, <1>7, <1>8, <1>9, <1>10, <1>11, <1>13, <1>14, <1>15 DEF ProcessingNext

(* Every part that an import could have written is there once the import   *)
(* is completed, and stays there, in every case where files last.          *)
THEOREM CompletedImportsAreServed == ProcessingSpec => [](Lasting => CompletedAreServed)
<1>1. ProcessingInit => KeptInv
  <2> SUFFICES ASSUME ProcessingInit
               PROVE  PartsAreKept
    BY DEF KeptInv
  <2>1. \A h \in Hands : hand[h] = Idle
    BY DEF ProcessingInit
  <2>2. Keeps(Idle)
    BY DEF Keeps, Idle
  <2>3. \A n \in Nzbs : row[n] # "completed"
    BY DEF ProcessingInit
  <2> QED
    BY <2>1, <2>2, <2>3 DEF PartsAreKept
<1>2. KeptInv => (Lasting => CompletedAreServed)
  BY DEF KeptInv, PartsAreKept, Kept, Stands, CompletedAreServed
<1> QED
  BY <1>1, <1>2, KeptNext, RunInvariant, OwnFilesInvariant, PTL DEF ProcessingSpec

(* Cases in which a failed import can take everything back: nothing but a  *)
(* crash keeps a run from its roll-back, and then the next run of the      *)
(* archive gets to the folder again.                                       *)
OnlyArchives == \A n \in Nzbs : Kind(n) = "archive"
Tidy ==
    /\ ~ Happens("stop") /\ ~ ({"crash", "cancel"} \subseteq setting.events)
    /\ Happens("crash") => ~ Happens("hasty") /\ OnlyArchives

Holding == {"write", "store", "complete", "clean"}

IsHeld(n, s) == \E h \in Hands : \E r : r = hand[h] /\ r.nzb = n /\ r.step \in Holding /\ s \in r.wrote
OnlyComing(n) == \A h \in Hands : \A r : r = hand[h] /\ r.nzb = n => r.step \in Early
Again(n) ==
    /\ Happens("crash") /\ row[n] \in {"pending", "processing"}
    /\ rowPath[n] = "queue" /\ nzbAt[n] = "queue" /\ Usable(n) # {}
Accounted(n, s) == row[n] = "completed" \/ IsHeld(n, s) \/ (Again(n) /\ OnlyComing(n))
LeftCovered == \A s \in Places, n \in Nzbs : placed[s].by = n => Accounted(n, s)

(* After a crash the NZB is in the queue folder, so that the next run does *)
(* not fail before it notes the folder of the release.                     *)
Reaches(r) ==
    /\ ~ r.stop
    /\ ~ AtWork(r) /\ r.step # "discard" => row[r.nzb] = "failed"
    /\ r.step = "persist" => r.path = rowPath[r.nzb]
    /\ r.step \in {"record", "open", "probe", "parse", "place", "write", "store", "complete"} => r.path = "queue"
    /\ r.step \in {"open", "probe", "parse", "place", "write", "store", "complete"} => rowPath[r.nzb] = "queue"
    /\ r.step \in {"probe", "parse", "place", "write", "store", "complete"} => nzbAt[r.nzb] = "queue"
    /\ r.step \in {"parse", "place", "write", "store", "complete"} => Usable(r.nzb) # {}
    /\ r.step = "clean" /\ r.wrote # {} =>
          rowPath[r.nzb] = "queue" /\ nzbAt[r.nzb] = "queue" /\ Usable(r.nzb) # {}
RunsReachTheirFiles ==
    /\ \A h \in Hands : \A r : r = hand[h] => r = Idle \/ Reaches(r)
    /\ \A g, h \in Hands : \A r, k : r = hand[g] /\ k = hand[h] /\ r # Idle /\ r.nzb = k.nzb => g = h

TidyInv == Tidy => LeftCovered /\ (Happens("crash") => RunsReachTheirFiles)

(* Whether the case is tidy stays.                                         *)
LEMMA CaseStaysTidy == UNCHANGED fixedVars => (Tidy' <=> Tidy)
<1> SUFFICES ASSUME UNCHANGED fixedVars
             PROVE  Tidy' <=> Tidy
  OBVIOUS
<1>1. setting' = setting
  BY DEF fixedVars
<1>2. OnlyArchives' <=> OnlyArchives
  BY <1>1 DEF OnlyArchives, Kind
<1> QED
  BY <1>1, <1>2, CaseStays DEF Tidy

(* A run leaves the rows of other imports alone, and keeps its own.        *)
LEMMA ElsewhereStays ==
    ASSUME NEW n \in Nzbs, NEW r, NEW q, r.nzb = n, Does(n, r, q)
    PROVE  /\ \A m \in Nzbs : m # n => row'[m] = row[m] /\ rowPath'[m] = rowPath[m] /\ nzbAt'[m] = nzbAt[m]
           /\ q = Idle \/ q.nzb = n
<1>1. q = Idle \/ q.nzb = n
  BY DEF Does, GoesOn, GivesUp, IsOver, Finds, NotesFolder, TakesBack, Reserves, Writes, SameRun, SameFiles
<1>2. CASE IsOver(n, r, q)
  BY <1>1, <1>2 DEF IsOver
<1>3. CASE GoesOn(n, r, q)
  BY <1>1, <1>3 DEF GoesOn, OnlyAt, nzbVars
<1>4. CASE GivesUp(n, r, q)
  BY <1>1, <1>4 DEF GivesUp, OnlyAt, nzbVars
<1>5. CASE \/ Finds(n, r, q) \/ NotesFolder(n, r, q) \/ TakesBack(n, r, q)
           \/ \E p \in Parts : Reserves(n, p, r, q) \/ Writes(n, p, r, q)
  BY <1>1, <1>5 DEF Finds, NotesFolder, TakesBack, Reserves, Writes, nzbVars
<1> QED
  BY <1>2, <1>3, <1>4, <1>5 DEF Does

(* Each stage of a run that may be repeated after a crash leads to the     *)
(* next one.                                                               *)
LEMMA StillReaches ==
    ASSUME RunInv, Tidy, Happens("crash"), UNCHANGED fixedVars, server # "down",
           NEW n \in Nzbs, NEW r, NEW q, r.nzb = n, Sound(r), Reaches(r), Does(n, r, q)
    PROVE  q = Idle \/ Reaches(q)'
<1>0. server = "up" /\ Kind(n) = "archive"
  BY DEF Tidy, OnlyArchives, RunInv, StopsAreKnown
<1>1. \A m : Usable(m)' = Usable(m)
  BY CaseStays
<1>2. CASE GoesOn(n, r, q)
  BY <1>1, <1>2 DEF GoesOn, Reaches, AtWork, Early, Late, SameRun, SameFiles, OnlyAt, nzbVars
<1>3. CASE GivesUp(n, r, q)
  <2>1. q.nzb = n /\ q.stop = r.stop /\ q.wrote = r.wrote /\ q.step \in {"clean", "count", "move", "moved"}
    BY <1>3 DEF GivesUp, SameRun, SameFiles
  <2>2. CASE q.step = "clean"
    <3>1. CASE r.step = "write"
      <4>1. UNCHANGED nzbVars
        BY <1>3, <3>1 DEF GivesUp
      <4> QED
        BY <1>1, <2>1, <2>2, <3>1, <4>1 DEF Reaches, nzbVars, AtWork, Late
    <3>2. CASE r.step \in Early
      <4>1. q.wrote = {}
        BY <2>1, <3>2 DEF Sound
      <4> QED
        BY <1>1, <2>1, <2>2, <4>1 DEF Reaches, AtWork, Late
    <3> QED
      BY <1>3, <2>2, <3>1, <3>2 DEF GivesUp, Early
  <2>3. CASE q.step # "clean"
    <3>1. row'[n] = "failed"
      BY <1>0, <1>3, <2>3 DEF GivesUp, OnlyAt, nzbVars, Reaches, AtWork, Early, Late
    <3> QED
      BY <2>1, <2>3, <3>1 DEF Reaches
  <2> QED
    BY <2>2, <2>3
<1>4. CASE Finds(n, r, q)
  BY <1>1, <1>4 DEF Finds, Reaches, nzbVars, AtWork, Early, Late
<1>5. CASE NotesFolder(n, r, q)
  BY <1>1, <1>5 DEF NotesFolder, Reaches, nzbVars, AtWork, Early, Late
<1>6. CASE TakesBack(n, r, q)
  BY <1>1, <1>6 DEF TakesBack, Reaches, SameRun, SameFiles, nzbVars, AtWork, Early, Late
<1>7. ASSUME NEW p \in Parts, Writes(n, p, r, q)
      PROVE  Reaches(q)'
  BY <1>1, <1>7 DEF Writes, Reaches, nzbVars, AtWork, Early, Late
<1> QED
  BY <1>0, <1>2, <1>3, <1>4, <1>5, <1>6, <1>7 DEF Does, IsOver, Reserves

(* What a run may rely on stays while the row and the NZB of its import    *)
(* do.                                                                     *)
LEMMA ReachesElsewhere ==
    ASSUME UNCHANGED fixedVars, NEW k, Reaches(k),
           row'[k.nzb] = row[k.nzb] /\ rowPath'[k.nzb] = rowPath[k.nzb] /\ nzbAt'[k.nzb] = nzbAt[k.nzb]
    PROVE  Reaches(k)'
<1>1. \A m : Usable(m)' = Usable(m)
  BY CaseStays
<1> QED
  BY <1>1 DEF Reaches

(* After a step of one run every run has what it may rely on.              *)
LEMMA RunsStillReach ==
    ASSUME RunInv, Tidy, Happens("crash"), RunsReachTheirFiles, UNCHANGED fixedVars, server # "down",
           NEW h \in Hands, NEW n \in Nzbs, NEW r, NEW q, r = hand[h], TurnsInto(h, q), r.nzb = n, Sound(r),
           Does(n, r, q)
    PROVE  RunsReachTheirFiles'
<1>0. \A g \in Hands : \A k : k = hand'[g] => (g = h /\ k = q) \/ (g # h /\ k = hand[g])
  BY DEF TurnsInto
<1>1. r # Idle /\ Idle.nzb = NoNzb /\ NoNzb \notin Nzbs
  BY ProcessingConstants DEF Sound, Idle, NoNzb
<1>2. Reaches(r) /\ \A g \in Hands : \A k : g # h /\ k = hand[g] => k.nzb # n
  BY <1>1 DEF RunsReachTheirFiles
<1>3. q = Idle \/ Reaches(q)'
  BY <1>2, StillReaches
<1>4. /\ \A m \in Nzbs : m # n => row'[m] = row[m] /\ rowPath'[m] = rowPath[m] /\ nzbAt'[m] = nzbAt[m]
      /\ q = Idle \/ q.nzb = n
  BY ElsewhereStays
<1>5. ASSUME NEW g \in Hands, g # h, NEW k, k = hand[g]
      PROVE  k = Idle \/ Reaches(k)'
  <2>1. k = Idle \/ (Reaches(k) /\ k.nzb \in Nzbs /\ k.nzb # n)
    BY <1>2, <1>5 DEF RunsReachTheirFiles, RunInv, HandsInOrder, Sound
  <2> QED
    BY <1>4, <2>1, ReachesElsewhere
<1>6. \A g \in Hands : \A k : k = hand'[g] => k = Idle \/ Reaches(k)'
  BY <1>0, <1>3, <1>5
<1>7. ASSUME NEW g \in Hands, NEW f \in Hands, NEW k, NEW l, k = hand'[g], l = hand'[f], k # Idle, k.nzb = l.nzb
      PROVE  g = f
  <2>0. \A i \in Hands : \A x : x = hand[i] => x = Idle \/ x.nzb \in Nzbs
    BY DEF RunInv, HandsInOrder, Sound
  <2>1. CASE g = h
    <3>1. k.nzb = n
      BY <1>0, <1>4, <1>7, <2>1
    <3> QED
      BY <1>0, <1>2, <1>7, <2>1, <3>1
  <2>2. CASE g # h
    <3>1. k = hand[g] /\ k.nzb \in Nzbs /\ k.nzb # n
      BY <1>0, <1>2, <1>7, <2>0, <2>2
    <3>2. f # h
      BY <1>0, <1>1, <1>4, <1>7, <3>1
    <3> QED
      BY <1>0, <1>7, <3>1, <3>2 DEF RunsReachTheirFiles
  <2> QED
    BY <2>1, <2>2
<1>8. Idle' = Idle
  BY DEF Idle
<1> QED
  BY <1>6, <1>7, <1>8 DEF RunsReachTheirFiles

(* The files of an import stay accounted for when its run takes a step,    *)
LEMMA OwnStayAccounted ==
    ASSUME RunInv, Tidy, Happens("crash") => RunsReachTheirFiles, UNCHANGED fixedVars, server # "down",
           NEW h \in Hands, NEW n \in Nzbs, NEW r, NEW q, r = hand[h], TurnsInto(h, q), Sound(r), r.nzb = n,
           Does(n, r, q), NEW s \in Places, placed'[s].by = n, placed[s].by = n => Accounted(n, s)
    PROVE  Accounted(n, s)'
<1>0. server = "up"
  BY DEF Tidy, RunInv, StopsAreKnown
<1>1. hand'[h] = q /\ \A g \in Hands : g # h => hand'[g] = hand[g]
  BY DEF TurnsInto
<1>2. r # Idle /\ Idle.nzb = NoNzb /\ NoNzb # n
  BY ProcessingConstants DEF Sound, Idle, NoNzb
<1>3. ASSUME q.nzb = n, q.step \in Holding, s \in q.wrote
      PROVE  Accounted(n, s)'
  BY <1>1, <1>3 DEF Accounted, IsHeld
<1>4. ASSUME row'[n] = "completed"
      PROVE  Accounted(n, s)'
  BY <1>4 DEF Accounted
<1>5. CASE placed[s].by # n
  <2>1. PICK p \in Parts : Writes(n, p, r, q)
    BY <1>2, <1>5 DEF Does, Finds, NotesFolder, TakesBack, Reserves, Vacant
  <2>2. s = r.spots[p] /\ q.step = "write" /\ q.nzb = n
    BY <1>5, <2>1 DEF Writes
  <2>3. s \in q.wrote
    BY <1>2, <1>5, <2>1, <2>2 DEF Writes, Vacant
  <2> QED
    BY <1>3, <2>2, <2>3 DEF Holding
<1>6. CASE row[n] = "completed"
  <2>1. ~ AtWork(r)
    BY <1>6 DEF RunInv, RowsKnow
  <2>2. row'[n] = "completed"
    BY <1>6, <2>1 DEF Does, GoesOn, GivesUp, IsOver, Finds, NotesFolder, TakesBack, Reserves, Writes,
       AtWork, Early, Late, nzbVars
  <2> QED
    BY <1>4, <2>2
<1>7. CASE IsHeld(n, s)
  <2>1. PICK g, k : g \in Hands /\ k = hand[g] /\ k.nzb = n /\ k.step \in Holding /\ s \in k.wrote
    BY <1>7 DEF IsHeld
  <2>2. CASE g # h
    BY <1>1, <2>1, <2>2 DEF Accounted, IsHeld
  <2>3. CASE g = h
    <3>1. r.step \in Holding /\ s \in r.wrote
      BY <2>1, <2>3
    <3>2. CASE GoesOn(n, r, q) \/ GivesUp(n, r, q)
      <4>1. \/ q.step \in Holding /\ SameRun(r, q)
            \/ row'[n] = "completed"
        BY <3>1, <3>2 DEF GoesOn, GivesUp, Holding, OnlyAt
      <4> QED
        BY <1>3, <1>4, <3>1, <4>1 DEF SameRun, SameFiles
    <3>3. CASE IsOver(n, r, q)
      BY <1>0, <3>1, <3>3 DEF IsOver, Holding
    <3>4. CASE TakesBack(n, r, q)
      BY <1>2, <3>1, <3>4 DEF TakesBack, Vacant
    <3>5. ASSUME NEW p \in Parts, Reserves(n, p, r, q) \/ Writes(n, p, r, q)
          PROVE  Accounted(n, s)'
      BY <1>3, <3>1, <3>5 DEF Reserves, Writes, Holding
    <3> QED
      BY <3>1, <3>2, <3>3, <3>4, <3>5 DEF Does, Finds, NotesFolder, Holding
  <2> QED
    BY <2>2, <2>3
<1>8. CASE Again(n) /\ OnlyComing(n) /\ placed[s].by = n
  <2>1. /\ r.step \in Early /\ Happens("crash") /\ row[n] \in {"pending", "processing"}
        /\ rowPath[n] = "queue" /\ nzbAt[n] = "queue" /\ Usable(n) # {}
    BY <1>8 DEF OnlyComing, Again
  <2>2. Kind(n) = "archive" /\ Reaches(r) /\ RunsReachTheirFiles
    BY <1>2, <2>1 DEF Tidy, OnlyArchives, RunsReachTheirFiles
  <2>3. ~ r.stop /\ (r.step \in {"persist", "record", "open"} => r.path = "queue")
    BY <2>1, <2>2 DEF Reaches
  <2>4. CASE NotesFolder(n, r, q)
    <3>1. q.step \in Holding /\ q.wrote = FolderOf(n) /\ q.nzb = n
      BY <2>4 DEF NotesFolder, Holding
    <3>2. s \in FolderOf(n)
      <4>1. PICK f : f = placed[s] /\ FileIsSound(s, f)
        BY DEF RunInv, FilesInOrder
      <4> QED
        BY <1>2, <1>8, <4>1 DEF FileIsSound, Vacant
    <3> QED
      BY <1>3, <3>1, <3>2
  <2>5. CASE (GoesOn(n, r, q) \/ Finds(n, r, q)) /\ q.step \in Early
    <3>1. /\ q.nzb = n /\ row'[n] = row[n] /\ rowPath'[n] = "queue" /\ nzbAt'[n] = "queue"
      BY <2>1, <2>5 DEF GoesOn, Finds, SameRun, SameFiles, OnlyAt, nzbVars, Early
    <3>2. Again(n)'
      BY <2>1, <3>1, CaseStays DEF Again
    <3>3. OnlyComing(n)'
      BY <1>1, <1>8, <2>5 DEF OnlyComing
    <3> QED
      BY <3>2, <3>3 DEF Accounted
  <2>6. ~ GivesUp(n, r, q)
    BY <2>1, <2>3 DEF GivesUp, Early
  <2>7. (GoesOn(n, r, q) \/ Finds(n, r, q)) => q.step \in Early
    BY <2>1 DEF GoesOn, Finds, Early
  <2>8. /\ ~ IsOver(n, r, q) /\ ~ TakesBack(n, r, q)
        /\ \A p \in Parts : ~ Reserves(n, p, r, q) /\ ~ Writes(n, p, r, q)
    BY <2>1, <2>2 DEF IsOver, TakesBack, Reserves, Writes, Early
  <2> QED
    BY <2>4, <2>5, <2>6, <2>7, <2>8 DEF Does
<1> QED
  BY <1>5, <1>6, <1>7, <1>8 DEF Accounted

(* and so do those of the other imports.                                   *)
LEMMA OthersStayAccounted ==
    ASSUME RunInv, UNCHANGED fixedVars,
           NEW h \in Hands, NEW n \in Nzbs, NEW r, NEW q, r = hand[h], TurnsInto(h, q), Sound(r), r.nzb = n,
           Does(n, r, q), NEW s \in Places, NEW m \in Nzbs, m # n, placed'[s].by = m,
           placed[s].by = m => Accounted(m, s)
    PROVE  Accounted(m, s)'
<1>1. hand'[h] = q /\ \A g \in Hands : g # h => hand'[g] = hand[g]
  BY DEF TurnsInto
<1>2. Idle.nzb = NoNzb /\ NoNzb # m
  BY ProcessingConstants DEF Idle, NoNzb
<1>3. placed[s].by = m
  BY <1>2, ChangesAreOwn
<1>4. row'[m] = row[m] /\ rowPath'[m] = rowPath[m] /\ nzbAt'[m] = nzbAt[m] /\ q.nzb # m
  BY <1>2, ElsewhereStays
<1>5. CASE row[m] = "completed"
  BY <1>4, <1>5 DEF Accounted
<1>6. CASE IsHeld(m, s)
  <2>1. PICK g, k : g \in Hands /\ k = hand[g] /\ k.nzb = m /\ k.step \in Holding /\ s \in k.wrote
    BY <1>6 DEF IsHeld
  <2> QED
    BY <1>1, <2>1 DEF Accounted, IsHeld
<1>7. CASE Again(m) /\ OnlyComing(m)
  <2>1. Again(m)'
    BY <1>4, <1>7, CaseStays DEF Again
  <2>2. OnlyComing(m)'
    BY <1>1, <1>4, <1>7 DEF OnlyComing
  <2> QED
    BY <2>1, <2>2 DEF Accounted
<1> QED
  BY <1>3, <1>5, <1>6, <1>7 DEF Accounted

(* A step that changes no file's owner and no hand, but for what it hears. *)
LEMMA AccountedElse ==
    ASSUME TidyInv, Tidy, UNCHANGED <<fixedVars, nzbVars>>, \A s \in Places : placed'[s].by = placed[s].by,
           \A g \in Hands : \A r, q : r = hand[g] /\ q = hand'[g] =>
               /\ q.nzb = r.nzb /\ q.step = r.step /\ q.wrote = r.wrote
               /\ q = r \/ ~ Happens("crash")
    PROVE  TidyInv'
<1>1. UNCHANGED fixedVars /\ row' = row /\ rowPath' = rowPath /\ nzbAt' = nzbAt
  BY DEF nzbVars
<1>2. Idle' = Idle /\ (Happens("crash")' <=> Happens("crash"))
  BY <1>1, CaseStays DEF Idle
<1>3. ASSUME NEW s \in Places, NEW n \in Nzbs, placed'[s].by = n
      PROVE  Accounted(n, s)'
  <2>1. Accounted(n, s)
    BY <1>3 DEF TidyInv, LeftCovered
  <2>2. CASE IsHeld(n, s)
    BY <2>2 DEF Accounted, IsHeld
  <2>3. CASE Again(n) /\ OnlyComing(n)
    <3>1. Again(n)'
      BY <1>1, <2>3, CaseStays DEF Again
    <3>2. OnlyComing(n)'
      BY <2>3 DEF OnlyComing
    <3> QED
      BY <3>1, <3>2 DEF Accounted
  <2> QED
    BY <1>1, <2>1, <2>2, <2>3 DEF Accounted
<1>4. ASSUME Happens("crash")
      PROVE  RunsReachTheirFiles'
  <2>1. RunsReachTheirFiles /\ \A g \in Hands : hand'[g] = hand[g]
    BY <1>4 DEF TidyInv
  <2>2. \A g \in Hands : \A k : k = hand'[g] => k = Idle \/ Reaches(k)'
    BY <1>1, <2>1, ReachesElsewhere DEF RunsReachTheirFiles
  <2> QED
    BY <1>2, <2>1, <2>2 DEF RunsReachTheirFiles
<1> QED
  BY <1>2, <1>3, <1>4 DEF TidyInv, LeftCovered

(* An import that waits or has failed has no hand when a crash is to be    *)
(* reckoned with, and no hand holds a file of it.                          *)
LEMMA RestingIsNotHeld ==
    ASSUME RunInv, TidyInv, Tidy, NEW n \in Nzbs, row[n] \in {"pending", "failed"}
    PROVE  /\ \A s \in Places : ~ IsHeld(n, s)
           /\ Happens("crash") /\ row[n] = "pending" => \A g \in Hands : \A k : k = hand[g] => k.nzb # n
<1>1. ASSUME NEW s \in Places, IsHeld(n, s)
      PROVE  FALSE
  <2>1. PICK g, k : g \in Hands /\ k = hand[g] /\ k.nzb = n /\ k.step \in Holding
    BY <1>1 DEF IsHeld
  <2>2. AtWork(k)
    BY <2>1 DEF Holding, AtWork, Late
  <2> QED
    BY <2>1, <2>2 DEF RunInv, RowsKnow
<1>2. ASSUME Happens("crash"), row[n] = "pending", NEW g \in Hands, NEW k, k = hand[g], k.nzb = n
      PROVE  FALSE
  <2>1. k # Idle
    BY <1>2, ProcessingConstants DEF Idle, NoNzb
  <2>2. Reaches(k)
    BY <1>2, <2>1 DEF TidyInv, RunsReachTheirFiles
  <2> QED
    BY <1>2, <2>2 DEF Reaches, RunInv, RowsKnow
<1> QED
  BY <1>1, <1>2

(* A hand that takes an import leaves the files accounted for, and what    *)
(* runs may rely on.                                                       *)
LEMMA TidyTake ==
    ASSUME RunInv, TidyInv, Tidy, UNCHANGED fixedVars, NEW h \in Hands, NEW n \in Nzbs, NEW r, NEW q,
           r = hand[h], TurnsInto(h, q), Takes(n, r, q)
    PROVE  TidyInv'
<1>1. hand'[h] = q /\ \A g \in Hands : g # h => hand'[g] = hand[g]
  BY DEF TurnsInto
<1>2. /\ row[n] = "pending" /\ row'[n] = "processing" /\ \A m \in Nzbs : m # n => row'[m] = row[m]
      /\ rowPath' = rowPath /\ nzbAt' = nzbAt /\ placed' = placed /\ r.step = "idle"
      /\ q.nzb = n /\ q.step = "persist" /\ q.path = rowPath[n] /\ q.stop = FALSE /\ q.wrote = {}
  BY DEF Takes, OnlyAt
<1>3. ASSUME NEW s \in Places, NEW m \in Nzbs, placed'[s].by = m
      PROVE  Accounted(m, s)'
  <2>1. Accounted(m, s)
    BY <1>2, <1>3 DEF TidyInv, LeftCovered
  <2>2. CASE row[m] = "completed"
    BY <1>2, <2>2 DEF Accounted
  <2>3. CASE IsHeld(m, s)
    <3>1. PICK g, k : g \in Hands /\ k = hand[g] /\ k.nzb = m /\ k.step \in Holding /\ s \in k.wrote
      BY <2>3 DEF IsHeld
    <3>2. g # h
      BY <1>2, <3>1 DEF Holding
    <3> QED
      BY <1>1, <3>1, <3>2 DEF Accounted, IsHeld
  <2>4. CASE Again(m) /\ OnlyComing(m)
    <3>1. Again(m)'
      <4>1. row'[m] \in {"pending", "processing"}
        BY <1>2, <2>4 DEF Again
      <4> QED
        BY <1>2, <2>4, <4>1, CaseStays DEF Again
    <3>2. OnlyComing(m)'
      BY <1>1, <1>2, <2>4 DEF OnlyComing, Early
    <3> QED
      BY <3>1, <3>2 DEF Accounted
  <2> QED
    BY <2>1, <2>2, <2>3, <2>4 DEF Accounted
<1>4. ASSUME Happens("crash")
      PROVE  RunsReachTheirFiles'
  <2>1. RunsReachTheirFiles /\ \A g \in Hands : \A k : k = hand[g] => k.nzb # n
    BY <1>2, <1>4, RestingIsNotHeld DEF TidyInv
  <2>2. Reaches(q)'
    BY <1>2 DEF Reaches, AtWork, Early
  <2>3. ASSUME NEW g \in Hands, g # h, NEW k, k = hand[g]
        PROVE  k = Idle \/ Reaches(k)'
    <3>1. k = Idle \/ (Reaches(k) /\ k.nzb \in Nzbs /\ k.nzb # n)
      BY <2>1, <2>3 DEF RunsReachTheirFiles, RunInv, HandsInOrder, Sound
    <3> QED
      BY <1>2, <3>1, ReachesElsewhere
  <2>4. \A g \in Hands : \A k : k = hand'[g] => k = Idle \/ Reaches(k)'
    BY <1>1, <2>2, <2>3
  <2>5. Idle' = Idle
    BY DEF Idle
  <2> QED
    BY <1>1, <1>2, <2>1, <2>4, <2>5 DEF RunsReachTheirFiles
<1>5. Happens("crash")' <=> Happens("crash")
  BY CaseStays
<1> QED
  BY <1>3, <1>4, <1>5 DEF TidyInv, LeftCovered

(* So does a request to run a failed import again.                         *)
LEMMA TidyRetry ==
    ASSUME RunInv, TidyInv, Tidy, NEW n \in Nzbs, RetryImport(n)
    PROVE  TidyInv'
<1>1. UNCHANGED <<fixedVars, rowPath, nzbAt, placed, hand>> /\ row[n] = "failed"
  BY DEF RetryImport
<1>2. row'[n] = "pending" /\ \A m \in Nzbs : m # n => row'[m] = row[m]
  BY DEF RetryImport, RunInv, CustodyInv, RowShape
<1>3. ASSUME NEW s \in Places, NEW m \in Nzbs, placed'[s].by = m
      PROVE  Accounted(m, s)'
  <2>1. Accounted(m, s)
    BY <1>1, <1>3 DEF TidyInv, LeftCovered
  <2>2. m # n
    BY <1>1, <2>1, RestingIsNotHeld DEF Accounted, Again
  <2>3. IsHeld(m, s) => IsHeld(m, s)'
    BY <1>1 DEF IsHeld
  <2>4. Again(m) /\ OnlyComing(m) => Again(m)' /\ OnlyComing(m)'
    BY <1>1, <1>2, <2>2, CaseStays DEF Again, OnlyComing
  <2> QED
    BY <1>2, <2>1, <2>2, <2>3, <2>4 DEF Accounted
<1>4. ASSUME Happens("crash")
      PROVE  RunsReachTheirFiles'
  <2>1. RunsReachTheirFiles
    BY <1>4 DEF TidyInv
  <2>2. \A g \in Hands : hand[g].nzb # n
    BY <1>4 DEF RetryImport, Tidy, Attended
  <2>3. ASSUME NEW g \in Hands, NEW k, k = hand'[g]
        PROVE  k = Idle \/ Reaches(k)'
    <3>1. k = Idle \/ (Reaches(k) /\ k.nzb \in Nzbs /\ k.nzb # n)
      BY <1>1, <2>1, <2>2, <2>3 DEF RunsReachTheirFiles, RunInv, HandsInOrder, Sound
    <3> QED
      BY <1>1, <1>2, <3>1, ReachesElsewhere
  <2>4. Idle' = Idle
    BY DEF Idle
  <2> QED
    BY <1>1, <2>1, <2>3, <2>4 DEF RunsReachTheirFiles
<1>5. Happens("crash")' <=> Happens("crash")
  BY <1>1, CaseStays
<1> QED
  BY <1>3, <1>4, <1>5 DEF TidyInv, LeftCovered

(* Once the process is gone or starts again no hand is at work, and what a *)
(* run has left behind is for the next run of the import.                  *)
LEMMA TidyRestart ==
    ASSUME RunInv, TidyInv, Tidy, Crash \/ StartServer
    PROVE  TidyInv'
<1>1. UNCHANGED <<fixedVars, rowPath, nzbAt, placed>>
  BY DEF Crash, StartServer, nzbVars
<1>2. \A h \in Hands : hand'[h] = Idle
  BY DEF Crash, StartServer, RunInv, HandsInOrder
<1>3. \A n \in Nzbs : /\ row[n] = "completed" => row'[n] = "completed"
                      /\ row[n] \in {"pending", "processing"} => row'[n] \in {"pending", "processing"}
  BY DEF Crash, StartServer, nzbVars
<1>4. ASSUME NEW s \in Places, NEW n \in Nzbs, placed'[s].by = n
      PROVE  Accounted(n, s)'
  <2>1. Accounted(n, s)
    BY <1>1, <1>4 DEF TidyInv, LeftCovered
  <2>2. ASSUME IsHeld(n, s)
        PROVE  Again(n)
    <3>1. PICK g, k : g \in Hands /\ k = hand[g] /\ k.nzb = n /\ k.step \in Holding /\ s \in k.wrote
      BY <2>2 DEF IsHeld
    <3>2. k # Idle /\ AtWork(k)
      BY <3>1 DEF Holding, Idle, AtWork, Late
    <3>3. Crash /\ Happens("crash")
      BY <3>1, <3>2 DEF Crash, StartServer, RunInv, HandsInOrder
    <3>4. Reaches(k)
      BY <3>1, <3>2, <3>3 DEF TidyInv, RunsReachTheirFiles
    <3>5. row[n] = "processing"
      BY <3>1, <3>2 DEF RunInv, RowsKnow
    <3> QED
      BY <3>1, <3>3, <3>4, <3>5 DEF Again, Reaches, Holding
  <2>3. ASSUME Again(n)
        PROVE  Again(n)' /\ OnlyComing(n)'
    <3>1. Again(n)'
      BY <1>1, <1>3, <2>3, CaseStays DEF Again
    <3>2. Idle.nzb # n
      BY ProcessingConstants DEF Idle, NoNzb
    <3> QED
      BY <1>2, <3>1, <3>2 DEF OnlyComing
  <2> QED
    BY <1>3, <2>1, <2>2, <2>3 DEF Accounted
<1>5. RunsReachTheirFiles'
  <2>1. Idle' = Idle
    BY DEF Idle
  <2> QED
    BY <1>2, <2>1 DEF RunsReachTheirFiles
<1> QED
  BY <1>4, <1>5 DEF TidyInv, LeftCovered

(* Every step leaves the files of every import accounted for.              *)
LEMMA TidyNext == RunInv /\ TidyInv /\ [ProcessingNext]_processingVars => TidyInv'
<1> SUFFICES ASSUME RunInv, TidyInv, [ProcessingNext]_processingVars, Tidy'
             PROVE  TidyInv'
  BY DEF TidyInv
<1>1. UNCHANGED fixedVars
  BY DEF ProcessingNext, processingVars, HandStep, CancelRun, RetryImport, Corrupt, RelinkRecord,
         StopServer, ExitServer, Crash, StartServer
<1>2. Tidy /\ LeftCovered
  BY <1>1, CaseStaysTidy DEF TidyInv
<1>3. ASSUME NEW h \in Hands, NEW n \in Nzbs, Take(h, n), UNCHANGED <<fixedVars, server, limitVars>>
      PROVE  TidyInv'
  <2>1. PICK r, q : r = hand[h] /\ TurnsInto(h, q) /\ FilesAreMap' /\ h \in setting.hands /\ Takes(n, r, q)
    BY <1>3, TakesAre DEF RunInv, FilesInOrder
  <2> QED
    BY <1>1, <1>2, <2>1, TidyTake
<1>4. ASSUME NEW h \in Hands, NEW n \in Nzbs, HandStep(h, n)
      PROVE  TidyInv'
  <2>1. PICK r, q : /\ r = hand[h] /\ TurnsInto(h, q) /\ FilesAreMap'
                    /\ Sound(r) /\ r.nzb = n /\ h \in setting.hands /\ Does(n, r, q)
    BY <1>4, HandStepsAre DEF RunInv, FilesInOrder
  <2>2. server # "down"
    BY <1>4 DEF HandStep
  <2>3. Happens("crash") => RunsReachTheirFiles
    BY <1>2 DEF TidyInv
  <2>4. ASSUME NEW s \in Places, NEW m \in Nzbs, placed'[s].by = m
        PROVE  Accounted(m, s)'
    <3>1. placed[s].by = m => Accounted(m, s)
      BY <1>2 DEF LeftCovered
    <3>2. CASE m = n
      BY <1>1, <1>2, <2>1, <2>2, <2>3, <2>4, <3>1, <3>2, OwnStayAccounted
    <3>3. CASE m # n
      BY <1>1, <2>1, <2>4, <3>1, <3>3, OthersStayAccounted
    <3> QED
      BY <3>2, <3>3
  <2>5. Happens("crash") => RunsReachTheirFiles'
    BY <1>1, <1>2, <2>1, <2>2, <2>3, RunsStillReach
  <2>6. Happens("crash")' <=> Happens("crash")
    BY <1>1, CaseStays
  <2> QED
    BY <2>4, <2>5, <2>6 DEF TidyInv, LeftCovered
<1>5. ASSUME NEW h \in Hands, CancelRun(h)
      PROVE  TidyInv'
  <2>1. PICK r, q : r = hand[h] /\ TurnsInto(h, q) /\ IsTold(r, q)
    BY <1>5, TellsAre DEF RunInv
  <2>2. ~ Happens("crash") /\ UNCHANGED <<nzbVars, placed>>
    BY <1>2, <2>1 DEF IsTold, Tidy, Happens
  <2>3. \A g \in Hands : \A k, l : k = hand[g] /\ l = hand'[g] =>
            l.nzb = k.nzb /\ l.step = k.step /\ l.wrote = k.wrote
    BY <2>1 DEF TurnsInto, IsTold
  <2> QED
    BY <1>1, <1>2, <2>2, <2>3, AccountedElse
<1>6. ASSUME NEW s \in Places, Corrupt(s)
      PROVE  TidyInv'
  <2>1. UNCHANGED <<hand, nzbVars>> /\ placed' = [placed EXCEPT ![s].ok = FALSE] /\ FilesAreMap
    BY <1>6 DEF Corrupt, RunInv, FilesInOrder
  <2>2. PICK f, g : f = placed[s] /\ g = [f EXCEPT !.ok = FALSE]
    OBVIOUS
  <2>3. placed' = [placed EXCEPT ![s] = g]
    BY <2>1, <2>2
  <2>4. g.by = f.by
    BY <2>2
  <2>5. \A t \in Places : placed'[t].by = placed[t].by
    BY <2>1, <2>2, <2>3, <2>4 DEF FilesAreMap
  <2> QED
    BY <1>1, <1>2, <2>1, <2>5, AccountedElse
<1>7. ASSUME UNCHANGED <<hand, nzbVars, placed>>
      PROVE  TidyInv'
  BY <1>1, <1>2, <1>7, AccountedElse
<1>8. ~ StopServer
  BY <1>2 DEF StopServer, Tidy
<1> QED
  BY <1>2, <1>3, <1>4, <1>5, <1>6, <1>7, <1>8, TidyRetry, TidyRestart
  DEF ProcessingNext, RelinkRecord, ExitServer, processingVars

(* A failed import leaves no metadata behind, in every case in which its   *)
(* next run gets to what a crash interrupted.                              *)
THEOREM FailedImportsLeaveNothing == ProcessingSpec => [](Tidy => FailedLeaveNothing)
<1>1. ProcessingInit => TidyInv
  <2> SUFFICES ASSUME ProcessingInit
               PROVE  LeftCovered /\ RunsReachTheirFiles
    BY DEF TidyInv
  <2>1. LeftCovered
    BY ProcessingConstants DEF ProcessingInit, LeftCovered, Vacant, NoNzb
  <2>2. RunsReachTheirFiles
    BY DEF ProcessingInit, RunsReachTheirFiles
  <2> QED
    BY <2>1, <2>2
<1>2. RunInv /\ TidyInv => (Tidy => FailedLeaveNothing)
  <2> SUFFICES ASSUME RunInv, TidyInv, Tidy, NEW n \in Nzbs, row[n] = "failed", ~ Attended(n),
                      NEW s \in Places, placed[s].by = n
               PROVE  FALSE
    BY DEF FailedLeaveNothing
  <2>1. Accounted(n, s)
    BY DEF TidyInv, LeftCovered
  <2> QED
    BY <2>1, RestingIsNotHeld DEF Accounted, Again
<1> QED
  BY <1>1, <1>2, TidyNext, RunInvariant, PTL DEF ProcessingSpec

(* What the types say that the invariant above does not.                   *)
RowTypes ==
    /\ row \in [Nzbs -> {"pending", "processing", "completed", "failed"}]
    /\ rowPath \in [Nzbs -> {"upload", "queue", "failed"}]
    /\ nzbAt \in [Nzbs -> {"upload", "queue", "failed", "gone"}]
    /\ records \in [Places -> {"none", "pending", "relinked"}]
    /\ counted \in [Nzbs -> Nat]
ServerTypes ==
    /\ server \in {"up", "stopping", "down"}
    /\ serverStarts \in 0..MaxServerStarts /\ retries \in 0..MaxRetries
    /\ server # "up" => serverStarts < MaxServerStarts
File == [by : Nzbs \cup {NoNzb}, of : Parts \cup {NoPart}, ok : BOOLEAN]
FileTypes == \A s \in Places : placed[s] \in File
Verdicts(r) == r.verdict \in {"none", "failed", "cancelled"} /\ r.stop \in BOOLEAN
HandTypes == \A h \in Hands : \A r : r = hand[h] => Verdicts(r)

RunTypes == RowTypes /\ ServerTypes /\ FileTypes /\ HandTypes

(* The rows and the counters keep their types in every step, ...           *)
LEMMA RowsKeepTypes == RunTypes /\ [ProcessingNext]_processingVars => RowTypes' /\ ServerTypes'
<1> SUFFICES ASSUME RunTypes, [ProcessingNext]_processingVars
             PROVE  RowTypes' /\ ServerTypes'
  OBVIOUS
<1>0. MaxServerStarts \in Nat /\ MaxRetries \in Nat
  BY ProcessingConstants
<1>1. ASSUME NEW h \in Hands, NEW n \in Nzbs, HandStep(h, n)
      PROVE  RowTypes' /\ ServerTypes'
  <2>1. UNCHANGED <<server, serverStarts, retries>>
    BY <1>1 DEF HandStep, limitVars
  <2>2. row' \in [Nzbs -> {"pending", "processing", "completed", "failed"}]
    BY <1>1 DEF RunTypes, RowTypes, HandStep, Persist, RecordPath, Open, Probe, Parse, Analyse, Reserve, WriteFile,
           Written, Store, Complete, Discard, CleanUp, Fail, Count, MoveToFailed, RecordFailed, nzbVars
  <2>3. rowPath' \in [Nzbs -> {"upload", "queue", "failed"}]
    BY <1>1 DEF RunTypes, RowTypes, HandStep, Persist, RecordPath, Open, Probe, Parse, Analyse, Reserve, WriteFile,
           Written, Store, Complete, Discard, CleanUp, Fail, Count, MoveToFailed, RecordFailed, nzbVars
  <2>4. nzbAt' \in [Nzbs -> {"upload", "queue", "failed", "gone"}]
    BY <1>1 DEF RunTypes, RowTypes, HandStep, Persist, RecordPath, Open, Probe, Parse, Analyse, Reserve, WriteFile,
           Written, Store, Complete, Discard, CleanUp, Fail, Count, MoveToFailed, RecordFailed, nzbVars
  <2>5. records' \in [Places -> {"none", "pending", "relinked"}]
    <3>1. UNCHANGED records \/ Store(h) \/ CleanUp(h)
      BY <1>1 DEF HandStep, Persist, RecordPath, Open, Probe, Parse, Analyse, Reserve, WriteFile, Written, Complete,
             Discard, Fail, Count, MoveToFailed, RecordFailed
    <3>2. ASSUME NEW s \in Places
          PROVE  records[s] \in {"none", "pending", "relinked"}
      BY DEF RunTypes, RowTypes
    <3>3. CASE Store(h)
      BY <3>2, <3>3 DEF Store, RunTypes, RowTypes
    <3>4. CASE CleanUp(h)
      BY <3>2, <3>4 DEF CleanUp
    <3> QED
      BY <3>1, <3>3, <3>4 DEF RunTypes, RowTypes
  <2>6. counted' \in [Nzbs -> Nat]
    <3>1. UNCHANGED counted \/ Count(h, n)
      BY <1>1 DEF HandStep, Persist, RecordPath, Open, Probe, Parse, Analyse, Reserve, WriteFile, Written, Store,
             Complete, Discard, CleanUp, Fail, MoveToFailed, RecordFailed
    <3> QED
      BY <3>1 DEF Count, RunTypes, RowTypes
  <2> QED
    BY <2>1, <2>2, <2>3, <2>4, <2>5, <2>6 DEF RunTypes, RowTypes, ServerTypes
<1>2. ASSUME NEW h \in Hands, NEW n \in Nzbs, Take(h, n), UNCHANGED <<fixedVars, server, limitVars>>
      PROVE  RowTypes' /\ ServerTypes'
  BY <1>2 DEF Take, RunTypes, RowTypes, ServerTypes, limitVars
<1>3. ASSUME \E h \in Hands : CancelRun(h)
      PROVE  RowTypes' /\ ServerTypes'
  BY <1>3 DEF CancelRun, RunTypes, RowTypes, ServerTypes, nzbVars, limitVars
<1>4. ASSUME NEW n \in Nzbs, RetryImport(n)
      PROVE  RowTypes' /\ ServerTypes'
  BY <1>0, <1>4 DEF RetryImport, RunTypes, RowTypes, ServerTypes
<1>5. ASSUME NEW s \in Places, Corrupt(s) \/ RelinkRecord(s)
      PROVE  RowTypes' /\ ServerTypes'
  BY <1>5 DEF Corrupt, RelinkRecord, RunTypes, RowTypes, ServerTypes, nzbVars, limitVars
<1>6. ASSUME StopServer \/ ExitServer \/ Crash
      PROVE  RowTypes' /\ ServerTypes'
  BY <1>6 DEF StopServer, ExitServer, Crash, RunTypes, RowTypes, ServerTypes, nzbVars, limitVars
<1>7. ASSUME StartServer
      PROVE  RowTypes' /\ ServerTypes'
  BY <1>0, <1>7 DEF StartServer, RunTypes, RowTypes, ServerTypes
<1>8. CASE UNCHANGED processingVars
  BY <1>8 DEF processingVars, nzbVars, limitVars, RunTypes, RowTypes, ServerTypes
<1> QED
  BY <1>1, <1>2, <1>3, <1>4, <1>5, <1>6, <1>7, <1>8 DEF ProcessingNext

(* ... and so do the files and what the hands know of their runs.          *)
LEMMA FilesAndHandsKeepTypes ==
    RunInv /\ RunTypes /\ [ProcessingNext]_processingVars => FileTypes' /\ HandTypes'
<1> SUFFICES ASSUME RunInv, RunTypes, [ProcessingNext]_processingVars
             PROVE  FileTypes' /\ HandTypes'
  OBVIOUS
<1>0. Verdicts(Idle) /\ FileTypes /\ HandTypes
  BY DEF Verdicts, Idle, RunTypes
<1>1. ASSUME NEW h \in Hands, NEW q, TurnsInto(h, q), Verdicts(q)
      PROVE  HandTypes'
  BY <1>0, <1>1 DEF TurnsInto, HandTypes, Verdicts
<1>2. UNCHANGED placed => FileTypes'
  BY <1>0 DEF FileTypes, File
<1>3. ASSUME NEW h \in Hands, NEW n \in Nzbs, HandStep(h, n)
      PROVE  FileTypes' /\ HandTypes'
  <2>1. PICK r, q : /\ r = hand[h] /\ TurnsInto(h, q) /\ FilesAreMap'
                    /\ Sound(r) /\ r.nzb = n /\ h \in setting.hands /\ Does(n, r, q)
    BY <1>3, HandStepsAre DEF RunInv, FilesInOrder
  <2>2. Verdicts(r)
    BY <1>0, <2>1 DEF HandTypes
  <2>3. Verdicts(q)
    BY <1>0, <2>1, <2>2 DEF Does, GoesOn, GivesUp, IsOver, Finds, NotesFolder, TakesBack, Reserves, Writes,
           SameRun, SameFiles, Verdicts
  <2>4. Vacant \in File /\ \A p \in Parts : [by |-> n, of |-> p, ok |-> TRUE] \in File
    BY DEF Vacant, File
  <2>5. ASSUME NEW s \in Places
        PROVE  \/ placed'[s] = placed[s] \/ placed'[s] = Vacant
               \/ \E p \in Parts : placed'[s] = [by |-> n, of |-> p, ok |-> TRUE]
    BY <2>1 DEF Does, Finds, NotesFolder, TakesBack, Reserves, Writes
  <2>6. \A s \in Places : placed'[s] \in File
    BY <1>0, <2>4, <2>5 DEF FileTypes
  <2> QED
    BY <1>1, <2>1, <2>3, <2>6 DEF FileTypes, File
<1>4. ASSUME NEW h \in Hands, NEW n \in Nzbs, Take(h, n)
      PROVE  FileTypes' /\ HandTypes'
  <2>1. PICK r, q : r = hand[h] /\ TurnsInto(h, q) /\ FilesAreMap' /\ h \in setting.hands /\ Takes(n, r, q)
    BY <1>4, TakesAre DEF RunInv, FilesInOrder
  <2> QED
    BY <1>1, <1>2, <2>1 DEF Takes, Verdicts
<1>5. ASSUME NEW h \in Hands, CancelRun(h)
      PROVE  FileTypes' /\ HandTypes'
  <2>1. PICK r, q : r = hand[h] /\ TurnsInto(h, q) /\ IsTold(r, q)
    BY <1>5, TellsAre DEF RunInv
  <2>2. Verdicts(r)
    BY <1>0, <2>1 DEF HandTypes
  <2> QED
    BY <1>1, <1>2, <2>1, <2>2 DEF IsTold, Verdicts
<1>6. ASSUME NEW s \in Places, Corrupt(s)
      PROVE  FileTypes' /\ HandTypes'
  <2>1. UNCHANGED hand /\ placed' = [placed EXCEPT ![s].ok = FALSE] /\ FilesAreMap
    BY <1>6 DEF Corrupt, RunInv, FilesInOrder
  <2>2. PICK f, g : f = placed[s] /\ g = [f EXCEPT !.ok = FALSE]
    OBVIOUS
  <2>3. f \in File /\ placed' = [placed EXCEPT ![s] = g]
    BY <1>0, <2>1, <2>2 DEF FileTypes
  <2>4. g \in File
    BY <2>2, <2>3 DEF File
  <2>5. \A t \in Places : placed'[t] = IF t = s THEN g ELSE placed[t]
    BY <2>1, <2>3 DEF FilesAreMap
  <2>6. \A t \in Places : placed'[t] \in File
    BY <1>0, <2>4, <2>5 DEF FileTypes
  <2> QED
    BY <1>0, <2>1, <2>6 DEF FileTypes, File, HandTypes, Verdicts
<1>7. ASSUME StopServer
      PROVE  FileTypes' /\ HandTypes'
  <2>1. ASSUME NEW h \in Hands, NEW k, k = hand'[h]
        PROVE  Verdicts(k)
    <3>1. PICK r, q : r = hand[h] /\ q = hand'[h] /\ IsWarned(h, r, q)
      BY <1>7, StopsAre DEF RunInv
    <3>2. Verdicts(r) /\ k = q
      BY <1>0, <2>1, <3>1 DEF HandTypes
    <3> QED
      BY <1>0, <3>1, <3>2 DEF IsWarned, Verdicts
  <2> QED
    BY <1>2, <1>7, <2>1 DEF StopServer, HandTypes, Verdicts
<1>8. ASSUME Crash
      PROVE  FileTypes' /\ HandTypes'
  <2>1. \A h \in Hands : hand'[h] = Idle
    BY <1>8 DEF Crash
  <2> QED
    BY <1>0, <1>2, <1>8, <2>1 DEF Crash, HandTypes, Verdicts
<1>9. CASE UNCHANGED <<hand, placed>>
  BY <1>0, <1>2, <1>9 DEF HandTypes, Verdicts
<1> QED
  BY <1>3, <1>4, <1>5, <1>6, <1>7, <1>8, <1>9
  DEF ProcessingNext, RetryImport, RelinkRecord, ExitServer, StartServer, processingVars

(* and so does what is known of contested places.                          *)
ContestedAreTyped == contested \subseteq Places

LEMMA ContestedKeepsType == RunInv /\ ContestedAreTyped /\ [ProcessingNext]_processingVars => ContestedAreTyped'
<1> SUFFICES ASSUME RunInv, contested \subseteq Places, [ProcessingNext]_processingVars
             PROVE  contested' \subseteq Places
  BY DEF ContestedAreTyped, Places
<1>1. \A h \in Hands : \A r : r = hand[h] => r.wrote \subseteq Places
  <2>1. Idle.wrote = {} /\ \A r : Sound(r) => r.wrote \subseteq Places
    BY DEF Idle, Sound, FolderOf
  <2> QED
    BY <2>1 DEF RunInv, HandsInOrder
<1>2. \A h \in Hands : \A r : r = hand[h] => \A p \in Parts : r.spots[p] \in Places \cup {Nowhere}
  <2> SUFFICES ASSUME NEW h \in Hands, NEW r, r = hand[h], NEW p \in Parts, r.spots[p] # Nowhere
               PROVE  r.spots[p] \in Places
    OBVIOUS
  <2>1. Sound(r)
    BY DEF RunInv, HandsInOrder, Idle
  <2>2. \E c \in 0..MaxCopy : r.spots[p] = Place(r.nzb, p, c)
    BY <2>1 DEF Sound
  <2> QED
    BY <2>1, <2>2, PlacesAreThere DEF RunInv, Sound
<1>3. \A h \in Hands : Claims(h) \subseteq Places
  BY <1>1, <1>2 DEF Claims, Held
<1>4. ASSUME NEW h \in Hands, NEW n \in Nzbs, HandStep(h, n)
      PROVE  contested' \subseteq Places
  <2>1. Contests(h, n) \subseteq Places
    BY <1>1, <1>3 DEF Contests
  <2> QED
    BY <1>4, <2>1 DEF HandStep
<1> QED
  BY <1>4 DEF ProcessingNext, processingVars

(* Every variable of ImportProcessing keeps its type in every case.        *)
THEOREM ProcessingTypeCorrect == ProcessingSpec => []ProcessingTypeOK
<1>1. ProcessingInit => RunTypes
  <2> SUFFICES ASSUME ProcessingInit
               PROVE  RunTypes
    OBVIOUS
  <2>1. RowTypes /\ ServerTypes
    BY ProcessingConstants DEF ProcessingInit, RowTypes, ServerTypes
  <2>2. FileTypes
    BY DEF ProcessingInit, FileTypes, File, Vacant
  <2>3. HandTypes
    <3>1. Verdicts(Idle)
      BY DEF Verdicts, Idle
    <3>2. \A h \in Hands : hand[h] = Idle
      BY DEF ProcessingInit
    <3> QED
      BY <3>1, <3>2 DEF HandTypes, Verdicts
  <2> QED
    BY <2>1, <2>2, <2>3 DEF RunTypes
<1>2. RunInv /\ RunTypes /\ [ProcessingNext]_processingVars => RunTypes'
  BY RowsKeepTypes, FilesAndHandsKeepTypes DEF RunTypes
<1>3. ProcessingInit => ContestedAreTyped
  BY DEF ProcessingInit, ContestedAreTyped
<1>4. RunInv /\ RunTypes /\ ContestedAreTyped => ProcessingTypeOK
  <2> SUFFICES ASSUME RunInv, RunTypes, contested \subseteq Places
               PROVE  ProcessingTypeOK
    BY DEF ContestedAreTyped
  <2>1. setting \in Cases /\ damaged \in [Nzbs -> SUBSET Parts]
    BY DEF RunInv, Settled
  <2>2. placed \in [Places -> File]
    BY DEF RunInv, FilesInOrder, FilesAreMap, RunTypes, FileTypes
  <2>3. ASSUME NEW h \in Hands
        PROVE  /\ hand[h].nzb \in Nzbs \cup {NoNzb} /\ (hand[h].nzb = NoNzb <=> hand[h].step = "idle")
               /\ hand[h].due \subseteq Parts /\ hand[h].wrote \subseteq Places
               /\ hand[h].spots \in [Parts -> Places \cup {Nowhere}]
               /\ hand[h].verdict \in {"none", "failed", "cancelled"} /\ hand[h].stop \in BOOLEAN
    <3>1. PICK r : r = hand[h] /\ Verdicts(r) /\ (r = Idle \/ Sound(r))
      BY DEF RunInv, HandsInOrder, RunTypes, HandTypes
    <3>2. CASE r = Idle
      BY <3>1, <3>2 DEF Idle
    <3>3. CASE Sound(r)
      <4>1. PartsOf(r.nzb) \subseteq Parts /\ FolderOf(r.nzb) \subseteq Places
        BY ProcessingConstants DEF PartsOf, FolderOf
      <4>2. r.due \subseteq Parts /\ r.wrote \subseteq Places
        BY <3>3, <4>1 DEF Sound
      <4>3. ASSUME NEW p \in Parts
            PROVE  r.spots[p] \in Places \cup {Nowhere}
        <5>1. CASE r.spots[p] # Nowhere
          <6>1. r.nzb \in Nzbs /\ \E c \in 0..MaxCopy : r.spots[p] = Place(r.nzb, p, c)
            BY <3>3, <5>1 DEF Sound
          <6> QED
            BY <6>1, PlacesAreThere DEF RunInv
        <5> QED
          BY <5>1
      <4>4. r.spots \in [Parts -> Places \cup {Nowhere}]
        <5>1. r.spots = [p \in Parts |-> r.spots[p]]
          BY <3>3 DEF Sound
        <5> QED
          BY <4>3, <5>1
      <4>5. r.nzb \in Nzbs /\ r.nzb # NoNzb /\ r.step # "idle"
        BY <3>3, ProcessingConstants DEF Sound, NoNzb
      <4> QED
        BY <3>1, <4>2, <4>4, <4>5 DEF Verdicts
    <3> QED
      BY <3>1, <3>2, <3>3
  <2> QED
    BY <2>1, <2>2, <2>3 DEF RunTypes, RowTypes, ServerTypes, File, ProcessingTypeOK
<1> QED
  BY <1>1, <1>2, <1>3, <1>4, ContestedKeepsType, RunInvariant, PTL DEF ProcessingSpec

===============================================================================
