------------------------- MODULE AdaptiveSemaphore -------------------------
(***************************************************************************)
(* The import connection budget: a FIFO counting semaphore whose capacity  *)
(* is computed on demand (internal/pool/semaphore.go), with the capacity   *)
(* rule of ImportBudget (internal/pool/budget.go).  ImportAdmission        *)
(* (internal/pool/admission.go) is the same semaphore without a stream     *)
(* source: the behaviours in which sourceSet stays FALSE.                  *)
(*                                                                         *)
(* Every critical section of the mutex reads the capacity exactly once, so *)
(* it takes effect atomically at that read and is one action.  What is NOT *)
(* atomic is kept apart: a waiter's select between its grant and its       *)
(* context, the lock it takes afterwards to resolve a cancellation, and a  *)
(* change of the stream count and the notification that follows it.        *)
(***************************************************************************)
EXTENDS Integers, Sequences, FiniteSets

CONSTANTS
    Acquirers,                \* goroutines that fetch import segments
    MaxCapacity,              \* bound: largest configured pool capacity
    MaxStreams,               \* bound: most concurrent playback streams
    MaxPendingNotify,         \* bound: stream changes not yet notified
    StreamBaseHeadroom,       \* slots the first stream reserves (8)
    StreamAdditionalHeadroom  \* slots each further stream reserves (4)

ASSUME AcquirersFinite == IsFiniteSet(Acquirers)
ASSUME BoundsNat ==
    /\ MaxCapacity \in Nat
    /\ MaxStreams \in Nat
    /\ MaxPendingNotify \in Nat
    /\ StreamBaseHeadroom \in Nat
    /\ StreamAdditionalHeadroom \in Nat

VARIABLES
    inFlight,       \* s.inFlight
    waiters,        \* s.waiters, head first
    signalled,      \* acquirers whose waiter channel holds an unread grant
    caller,         \* where each acquirer is in Acquire / release
    capacity,       \* b.capacity
    sourceSet,      \* b.streamSource # nil
    streams,        \* what StreamTracker.ActiveStreams returns
    pendingNotify   \* stream changes whose NotifyStreamChange is to come

semVars == <<inFlight, waiters, signalled, caller>>
capVars == <<capacity, sourceSet>>
streamVars == <<streams, pendingNotify>>
semaphoreVars == <<semVars, capVars, streamVars>>

(* "unlimited" holds a noopRelease; "cancelled" has left the select by     *)
(* ctx.Done and has not yet taken the mutex.                               *)
CallerStates == {"idle", "waiting", "cancelled", "holding", "unlimited"}

----------------------------------------------------------------------------
(* Capacity.                                                               *)

Lesser(m, n) == IF m <= n THEN m ELSE n

ReservedSlots(watching, n) ==
    IF watching /\ n > 0
    THEN StreamBaseHeadroom + StreamAdditionalHeadroom * (n - 1)
    ELSE 0

(* Faulty variant: the reservation may take the last slot.               *)
EffectiveCapNoFloor(c, watching, n) ==
    IF c = 0 THEN 0 ELSE c - Lesser(ReservedSlots(watching, n), c)

(* effectiveCapLocked for configured capacity c, with or without a stream  *)
(* source, and n streams; 0 is "disabled".                                 *)
EffectiveCapFor(c, watching, n) ==
    IF c = 0 THEN 0 ELSE c - Lesser(ReservedSlots(watching, n), c - 1)

EffectiveCap == EffectiveCapFor(capacity, sourceSet, streams)

----------------------------------------------------------------------------
(* wakeWaitersLocked, entered with n slots in flight, queue ws, unread     *)
(* grants sig and capacity c.  The head of the queue is granted while      *)
(* there is headroom; everybody is when the semaphore is disabled.         *)

(* Faulty variant: one grant past the capacity.                          *)
GrantsOneTooMany(n, ws, c) ==
    IF c = 0 THEN Len(ws)
    ELSE IF n <= c THEN Lesser(Len(ws), c - n + 1)
    ELSE 0

Grants(n, ws, c) ==
    IF c = 0 THEN Len(ws)
    ELSE IF n < c THEN Lesser(Len(ws), c - n)
    ELSE 0

(* Faulty variant: the newest waiters are granted instead of the oldest.    *)
WakeNewest(n, ws, sig, c) ==
    LET g == Grants(n, ws, c) IN
    /\ inFlight' = n + g
    /\ waiters' = SubSeq(ws, 1, Len(ws) - g)
    /\ signalled' = sig \cup {ws[i] : i \in (Len(ws) - g + 1)..Len(ws)}

Wake(n, ws, sig, c) ==
    LET g == Grants(n, ws, c) IN
    /\ inFlight' = n + g
    /\ waiters' = SubSeq(ws, g + 1, Len(ws))
    /\ signalled' = sig \cup {ws[i] : i \in 1..g}

(* removeWaiterLocked: drop the first entry of a, if it is there.          *)
RemoveWaiter(ws, a) ==
    IF \E i \in 1..Len(ws) : ws[i] = a
    THEN LET pos == CHOOSE i \in 1..Len(ws) :
                     ws[i] = a /\ \A j \in 1..(i - 1) : ws[j] # a
         IN [j \in 1..(Len(ws) - 1) |-> IF j < pos THEN ws[j] ELSE ws[j + 1]]
    ELSE ws

NoDuplicates(ws) == \A i, j \in 1..Len(ws) : ws[i] = ws[j] => i = j

Entries(ws) == {ws[i] : i \in 1..Len(ws)}

----------------------------------------------------------------------------
SemaphoreInit ==
    /\ inFlight = 0
    /\ waiters = <<>>
    /\ signalled = {}
    /\ caller = [a \in Acquirers |-> "idle"]
    /\ capacity = 0
    /\ sourceSet = FALSE
    /\ streams = 0
    /\ pendingNotify = 0

----------------------------------------------------------------------------
(* Acquire.                                                                *)

AcquireDisabled(a) ==
    /\ caller[a] = "idle"
    /\ EffectiveCap = 0
    /\ caller' = [caller EXCEPT ![a] = "unlimited"]
    /\ UNCHANGED <<inFlight, waiters, signalled, capVars, streamVars>>

AcquireSlot(a) ==
    /\ caller[a] = "idle"
    /\ EffectiveCap # 0
    /\ inFlight < EffectiveCap
    /\ inFlight' = inFlight + 1
    /\ caller' = [caller EXCEPT ![a] = "holding"]
    /\ UNCHANGED <<waiters, signalled, capVars, streamVars>>

Enqueue(a) ==
    /\ caller[a] = "idle"
    /\ EffectiveCap # 0
    /\ inFlight >= EffectiveCap
    /\ waiters' = Append(waiters, a)
    /\ caller' = [caller EXCEPT ![a] = "waiting"]
    /\ UNCHANGED <<inFlight, signalled, capVars, streamVars>>

(* The select takes the grant.                                             *)
TakeGrant(a) ==
    /\ caller[a] = "waiting"
    /\ a \in signalled
    /\ signalled' = signalled \ {a}
    /\ caller' = [caller EXCEPT ![a] = "holding"]
    /\ UNCHANGED <<inFlight, waiters, capVars, streamVars>>

(* The select takes ctx.Done, which it may do even when a grant is there.  *)
ContextDone(a) ==
    /\ caller[a] = "waiting"
    /\ caller' = [caller EXCEPT ![a] = "cancelled"]
    /\ UNCHANGED <<inFlight, waiters, signalled, capVars, streamVars>>

(* Faulty variant: the slot is given back twice.                         *)
UndoGrantTwice(a) ==
    /\ caller[a] = "cancelled"
    /\ a \in signalled
    /\ Wake(inFlight - 2, waiters, signalled \ {a}, EffectiveCap)
    /\ caller' = [caller EXCEPT ![a] = "idle"]
    /\ UNCHANGED <<capVars, streamVars>>

(* Faulty variant: the slot is never given back.                         *)
UndoGrantKeepsSlot(a) ==
    /\ caller[a] = "cancelled"
    /\ a \in signalled
    /\ Wake(inFlight, waiters, signalled \ {a}, EffectiveCap)
    /\ caller' = [caller EXCEPT ![a] = "idle"]
    /\ UNCHANGED <<capVars, streamVars>>

(* Faulty variant: the slot is not forwarded.                            *)
UndoGrantNoForward(a) ==
    /\ caller[a] = "cancelled"
    /\ a \in signalled
    /\ inFlight' = inFlight - 1
    /\ signalled' = signalled \ {a}
    /\ caller' = [caller EXCEPT ![a] = "idle"]
    /\ UNCHANGED <<waiters, capVars, streamVars>>

(* The cancelling goroutine, under the mutex, was granted meanwhile: it    *)
(* undoes the grant and forwards the slot.                                 *)
UndoGrant(a) ==
    /\ caller[a] = "cancelled"
    /\ a \in signalled
    /\ Wake(inFlight - 1, waiters, signalled \ {a}, EffectiveCap)
    /\ caller' = [caller EXCEPT ![a] = "idle"]
    /\ UNCHANGED <<capVars, streamVars>>

(* Faulty variant: the waiter stays in the queue.                        *)
LeaveQueueStaysListed(a) ==
    /\ caller[a] = "cancelled"
    /\ a \notin signalled
    /\ caller' = [caller EXCEPT ![a] = "idle"]
    /\ UNCHANGED <<inFlight, waiters, signalled, capVars, streamVars>>

(* ... or was not: it leaves the queue.                                    *)
LeaveQueue(a) ==
    /\ caller[a] = "cancelled"
    /\ a \notin signalled
    /\ waiters' = RemoveWaiter(waiters, a)
    /\ caller' = [caller EXCEPT ![a] = "idle"]
    /\ UNCHANGED <<inFlight, signalled, capVars, streamVars>>

(* Faulty variant: release wakes nobody.                                 *)
ReleaseNoWake(a) ==
    /\ caller[a] = "holding"
    /\ inFlight' = IF inFlight > 0 THEN inFlight - 1 ELSE 0
    /\ caller' = [caller EXCEPT ![a] = "idle"]
    /\ UNCHANGED <<waiters, signalled, capVars, streamVars>>

(* The release function, guarded by once: decrement, clamped, then wake.   *)
Release(a) ==
    /\ caller[a] = "holding"
    /\ Wake(IF inFlight > 0 THEN inFlight - 1 ELSE 0,
            waiters, signalled, EffectiveCap)
    /\ caller' = [caller EXCEPT ![a] = "idle"]
    /\ UNCHANGED <<capVars, streamVars>>

NoopRelease(a) ==
    /\ caller[a] = "unlimited"
    /\ caller' = [caller EXCEPT ![a] = "idle"]
    /\ UNCHANGED <<inFlight, waiters, signalled, capVars, streamVars>>

----------------------------------------------------------------------------
(* Configuration and stream activity.                                      *)

SetCapacity(c) ==
    /\ capacity' = c
    /\ Wake(inFlight, waiters, signalled, EffectiveCapFor(c, sourceSet, streams))
    /\ UNCHANGED <<caller, sourceSet, streamVars>>

(* Called once, when the API server is built.                              *)
SetStreamSource ==
    /\ ~sourceSet
    /\ sourceSet' = TRUE
    /\ Wake(inFlight, waiters, signalled, EffectiveCapFor(capacity, TRUE, streams))
    /\ UNCHANGED <<caller, capacity, streamVars>>

(* The tracker's counter moves first; NotifyStreamChange comes later.      *)
StreamChange ==
    /\ pendingNotify < MaxPendingNotify
    /\ streams' \in {streams - 1, streams + 1} \cap 0..MaxStreams
    /\ pendingNotify' = pendingNotify + 1
    /\ UNCHANGED <<semVars, capVars>>

NotifyStreamChange ==
    /\ pendingNotify > 0
    /\ pendingNotify' = pendingNotify - 1
    /\ Wake(inFlight, waiters, signalled, EffectiveCap)
    /\ UNCHANGED <<caller, capVars, streams>>

----------------------------------------------------------------------------
CallerStep(a) ==
    \/ AcquireDisabled(a) \/ AcquireSlot(a) \/ Enqueue(a)
    \/ TakeGrant(a) \/ ContextDone(a) \/ UndoGrant(a) \/ LeaveQueue(a)
    \/ Release(a) \/ NoopRelease(a)

ConfigStep ==
    \/ \E c \in 0..MaxCapacity : SetCapacity(c)
    \/ SetStreamSource

StreamStep == StreamChange \/ NotifyStreamChange

SemaphoreNext ==
    \/ \E a \in Acquirers : CallerStep(a)
    \/ ConfigStep
    \/ StreamStep

SemaphoreSpec == SemaphoreInit /\ [][SemaphoreNext]_semaphoreVars

(* A fetch ends (its context has a timeout), a goroutine whose channel is  *)
(* ready runs, a cancelling goroutine gets the mutex, and the tracker      *)
(* calls the notifier it is about to call.  Nobody has to start a fetch,   *)
(* cancel one, or change the configuration.                                *)
SemaphoreFairness ==
    /\ \A a \in Acquirers :
         /\ WF_semaphoreVars(TakeGrant(a))
         /\ WF_semaphoreVars(UndoGrant(a))
         /\ WF_semaphoreVars(LeaveQueue(a))
         /\ WF_semaphoreVars(Release(a))
    /\ WF_semaphoreVars(NotifyStreamChange)

SemaphoreFairSpec == SemaphoreSpec /\ SemaphoreFairness

----------------------------------------------------------------------------
(* Properties.                                                             *)

(* The variables keep their types.                                         *)
SemaphoreTypeOK ==
    /\ inFlight \in Nat
    /\ waiters \in Seq(Acquirers)
    /\ signalled \subseteq Acquirers
    /\ caller \in [Acquirers -> CallerStates]
    /\ capacity \in Nat
    /\ sourceSet \in BOOLEAN
    /\ streams \in Int
    /\ pendingNotify \in Nat

Holding == {a \in Acquirers : caller[a] = "holding"}

(* Callers a slot is charged to: they hold it, or a grant is on its way.   *)
Holders == Holding \cup signalled

(* inFlight is exactly the number of callers a slot is charged to: no      *)
(* interleaving of grant, cancellation and release leaks or forges one.    *)
SlotAccounting == inFlight = Cardinality(Holders)

(* Callers inside Acquire's select or on their way out of it.              *)
Blocked == {a \in Acquirers : caller[a] \in {"waiting", "cancelled"}}

(* A caller blocked in Acquire is queued exactly once or has its grant     *)
(* waiting, and nobody else is in the queue: a cancelled waiter leaves     *)
(* nothing behind and no waiter is forgotten.                              *)
QueueMatchesCallers ==
    /\ NoDuplicates(waiters)
    /\ Entries(waiters) = Blocked \ signalled
    /\ signalled \subseteq Blocked

(* No lost wake-up: once every stream change has been notified, a caller   *)
(* is only kept waiting when the semaphore is enabled and full.            *)
NoIdleHeadroom ==
    pendingNotify = 0 /\ waiters # <<>>
        => EffectiveCap # 0 /\ inFlight >= EffectiveCap

(* The budget never squeezes imports out: an enabled pool keeps at least   *)
(* one slot, and never offers more than its capacity.                      *)
OneSlotStaysOpen ==
    capacity > 0 => EffectiveCap \in 1..capacity

(* What the budget promises its callers, whatever the interleaving: see    *)
(* BoundedSlots.  A slot is charged to a caller only within the capacity   *)
(* in force; after a shrink or a new stream the excess drains.             *)
Slots == INSTANCE BoundedSlots WITH holders <- Holders, limit <- EffectiveCap

ImplementsBoundedSlots == Slots!Spec

(* Grants to queued waiters follow the queue: nobody is signalled while a  *)
(* waiter ahead of it stays queued.                                        *)
FifoGrants ==
    [][\A i, j \in 1..Len(waiters) :
          i < j /\ waiters[j] \in signalled' \ signalled
             => waiters[i] \in signalled']_semaphoreVars

(* "adaptiveSemaphore is a FIFO counting semaphore" (semaphore.go:8): a    *)
(* fresh Acquire does not take a slot past a caller already queued.        *)
NoOvertaking ==
    [][\A a \in Acquirers :
          caller[a] = "idle" /\ caller'[a] = "holding" => waiters = <<>>]_semaphoreVars

(* When stream activity settles, every blocked Acquire returns.            *)
EveryWaiterServed ==
    <>[](pendingNotify = 0) =>
        \A a \in Acquirers : caller[a] = "waiting" ~> caller[a] # "waiting"
============================================================================
