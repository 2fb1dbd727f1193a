----------------------------- MODULE UsenetReader -----------------------------
(***************************************************************************)
(* The prefetching segment reader (internal/usenet/usenet_reader.go over   *)
(* internal/usenet/segment.go).                                            *)
(*                                                                         *)
(* One client goroutine calls Read.  The download manager schedules at     *)
(* most MaxPrefetch segments ahead of the read position and sleeps on a    *)
(* condition variable while the window is full; each scheduled segment is  *)
(* fetched by a goroutine of its own.  Interrupt and Close come from other *)
(* goroutines.  The manager is the only goroutine that ever waits on the   *)
(* condition variable, and the only one that keeps b.mu from one of its    *)
(* steps to the next; Signal and Broadcast are called without b.mu.        *)
(*                                                                         *)
(* The loader has every segment of the range, and each holds a byte of it: *)
(* the nil of createSegmentLocked, with which a read would end early, is   *)
(* not modelled.                                                           *)
(***************************************************************************)
EXTENDS Integers, FiniteSets

CONSTANTS
    Total,         \* number of segments in the range
    MaxPrefetch,   \* b.maxPrefetch
    Lazy           \* TRUE: the range creates segments on demand

ASSUME ReaderConstants ==
    /\ Total \in Nat \ {0}
    /\ MaxPrefetch \in Nat \ {0}
    /\ Lazy \in BOOLEAN

Segments == 0..(Total - 1)

VARIABLES
    started,          \* b.init has been sent to
    ctxDone,          \* b.ctx is cancelled
    mgr,              \* the download manager's progress
    nextToDownload,   \* b.nextToDownload
    fetch,            \* each download goroutine's progress
    current,          \* rg.current
    cleared,          \* rg.segments and b.rg are nil
    present,          \* slots of rg.segments that hold a segment
    data,             \* segments with s.data set
    errs,             \* segments with s.dataErr set
    released,         \* segments with s.released set
    reader,           \* the client's progress inside Read
    opened,           \* the cached limitedReader of the current segment
    delivered,        \* segments whose bytes were read to their end
    result,           \* what the last Read returned
    closer,           \* progress of Close
    interrupter       \* progress of Interrupt

managerVars == <<started, ctxDone, mgr, nextToDownload>>
segmentVars == <<present, data, errs, released>>
rangeVars == <<current, cleared, segmentVars>>
clientVars == <<reader, opened, delivered, result>>
closeVars == <<closer, interrupter>>
vars == <<managerVars, fetch, rangeVars, clientVars, closeVars>>

Init ==
    /\ started = FALSE
    /\ ctxDone = FALSE
    /\ mgr = "init"
    /\ nextToDownload = 0
    /\ fetch = [i \in Segments |-> "none"]
    /\ current = 0
    /\ cleared = FALSE
    /\ present = IF Lazy THEN {} ELSE Segments
    /\ data = {}
    /\ errs = {}
    /\ released = {}
    /\ reader = "idle"
    /\ opened = "no"
    /\ delivered = {}
    /\ result = "none"
    /\ closer = "open"
    /\ interrupter = "idle"

(* The length of rg.segments.                                              *)
RangeLen == IF cleared THEN 0 ELSE Total

(* b.mu is free: the manager holds it from its check of the window until   *)
(* cond.Wait gives it up.                                                  *)
MuFree == mgr # "full"

(* cond.Signal and cond.Broadcast: lost when nobody waits.                 *)
Wake == mgr' = IF mgr = "waiting" THEN "woken" ELSE mgr

(* dataReady is closed.                                                    *)
Ready == data \cup errs \cup released

----------------------------------------------------------------------------
(* The download manager.                                                   *)

Manager(from, to) ==
    /\ mgr = from
    /\ mgr' = to

ManagerStart ==
    /\ started
    /\ Manager("init", "top")
    /\ UNCHANGED <<started, ctxDone, nextToDownload, fetch, rangeVars,
                   clientVars, closeVars>>

ManagerAbort ==
    /\ ctxDone
    /\ Manager("init", "done")
    /\ UNCHANGED <<started, ctxDone, nextToDownload, fetch, rangeVars,
                   clientVars, closeVars>>

(* The loop condition ctx.Err() == nil.                                    *)
ManagerTop ==
    /\ Manager("top", IF ctxDone THEN "done" ELSE "lock")
    /\ UNCHANGED <<started, ctxDone, nextToDownload, fetch, rangeVars,
                   clientVars, closeVars>>

(* Under b.mu: stop, wait for room, or take the next index.                *)
ManagerLock ==
    /\ mgr = "lock"
    /\ IF cleared \/ nextToDownload >= Total
       THEN mgr' = "done" /\ UNCHANGED nextToDownload
       ELSE IF nextToDownload - current >= MaxPrefetch
       THEN mgr' = "full" /\ UNCHANGED nextToDownload
       ELSE mgr' = "schedule" /\ nextToDownload' = nextToDownload + 1
    /\ UNCHANGED <<started, ctxDone, fetch, rangeVars, clientVars, closeVars>>

ManagerWait ==
    /\ Manager("full", "waiting")
    /\ UNCHANGED <<started, ctxDone, nextToDownload, fetch, rangeVars,
                   clientVars, closeVars>>

ManagerResume ==
    /\ Manager("woken", IF ctxDone THEN "done" ELSE "top")
    /\ UNCHANGED <<started, ctxDone, nextToDownload, fetch, rangeVars,
                   clientVars, closeVars>>

(* GetSegment(idx), outside b.mu, and the start of its goroutine.          *)
ManagerSchedule ==
    LET idx == nextToDownload - 1 IN
    /\ Manager("schedule", "top")
    /\ IF idx < RangeLen /\ (Lazy \/ idx \in present)
       THEN /\ present' = present \cup {idx}
            /\ fetch' = [fetch EXCEPT ![idx] = "running"]
       ELSE UNCHANGED <<present, fetch>>
    /\ UNCHANGED <<started, ctxDone, nextToDownload, current, cleared, data,
                   errs, released, clientVars, closeVars>>

----------------------------------------------------------------------------
(* A download goroutine: its attempts and their retries (an attempt in the *)
(* article cache, on the network) change nothing that another goroutine    *)
(* sees until the last of them ends.                                       *)

Fetch(i, from, to) ==
    /\ fetch[i] = from
    /\ fetch' = [fetch EXCEPT ![i] = to]

(* Faulty variant: data is stored in a segment that was released.          *)
FetchDataAlways(i) ==
    /\ Fetch(i, "running", "signal")
    /\ data' = data \cup {i}
    /\ UNCHANGED <<managerVars, current, cleared, present, errs, released,
                   clientVars, closeVars>>

(* SetData with the article, the cached copy or the zeros of a padded      *)
(* hole; ignored once the segment is released.                             *)
FetchData(i) ==
    /\ Fetch(i, "running", "signal")
    /\ data' = IF i \in released THEN data ELSE data \cup {i}
    /\ UNCHANGED <<managerVars, current, cleared, present, errs, released,
                   clientVars, closeVars>>

(* SetError: missing and not padded, no pool, no budget, out of retries.   *)
FetchError(i) ==
    /\ Fetch(i, "running", "signal")
    /\ errs' = errs \cup {i}
    /\ UNCHANGED <<managerVars, current, cleared, present, data, released,
                   clientVars, closeVars>>

FetchSignal(i) ==
    /\ Fetch(i, "signal", "over")
    /\ Wake
    /\ UNCHANGED <<started, ctxDone, nextToDownload, rangeVars, clientVars,
                   closeVars>>

----------------------------------------------------------------------------
(* Read, by the client.                                                    *)

Reading(from, to) ==
    /\ reader = from
    /\ reader' = to

Return(from, r) ==
    /\ Reading(from, "idle")
    /\ result' = r

ReadCall ==
    /\ Reading("idle", "enter")
    /\ started' = TRUE
    /\ result' = "none"
    /\ UNCHANGED <<ctxDone, mgr, nextToDownload, fetch, rangeVars, opened,
                   delivered, closeVars>>

(* The reader takes its own copy of b.rg.                                  *)
ReadRange ==
    /\ MuFree
    /\ \/ cleared /\ Return("enter", "closed")
       \/ ~cleared /\ Reading("enter", "get") /\ UNCHANGED result
    /\ UNCHANGED <<managerVars, fetch, rangeVars, opened, delivered, closeVars>>

(* The read-locked half of GetSegment(current), from Get and from Next.    *)
Lookup(from, found, absent, atLimit) ==
    /\ \/ current >= RangeLen /\ \E r \in atLimit : Return(from, r)
       \/ current < RangeLen /\ current \in present /\ Reading(from, found)
            /\ UNCHANGED result
       \/ current < RangeLen /\ current \notin present /\ Lazy
            /\ Reading(from, absent) /\ UNCHANGED result
    /\ UNCHANGED <<managerVars, fetch, rangeVars, opened, delivered, closeVars>>

(* The write-locked half indexes rg.segments without a look at its length: *)
(* it panics when the range was cleared in between.                        *)
Create(from, found) ==
    /\ \/ cleared /\ Return(from, "panic") /\ UNCHANGED present
       \/ ~cleared /\ Reading(from, found) /\ UNCHANGED result
            /\ present' = present \cup {current}
    /\ UNCHANGED <<managerVars, fetch, current, cleared, data, errs, released,
                   opened, delivered, closeVars>>

ReadGet == Lookup("get", "wait", "create", {"eof"})

ReadCreate == Create("create", "wait")

(* Faulty variant: only the segment's data is waited for.                  *)
ReadWaitIgnoresContext ==
    /\ \/ opened # "no" /\ Reading("wait", "copy") /\ UNCHANGED <<result, opened>>
       \/ /\ opened = "no"
          /\ current \in Ready
          /\ IF current \in errs
             THEN Return("wait", "error") /\ UNCHANGED opened
             ELSE /\ Reading("wait", "copy")
                  /\ opened' = IF current \in data THEN "data" ELSE "empty"
                  /\ UNCHANGED result
    /\ UNCHANGED <<managerVars, fetch, rangeVars, delivered, closeVars>>

(* GetReaderContext: the cached reader, or wait for data or cancellation.  *)
ReadWait ==
    /\ \/ opened # "no" /\ Reading("wait", "copy") /\ UNCHANGED <<result, opened>>
       \/ opened = "no" /\ ctxDone /\ Return("wait", "error") /\ UNCHANGED opened
       \/ /\ opened = "no"
          /\ current \in Ready
          /\ IF current \in errs
             THEN Return("wait", "error") /\ UNCHANGED opened
             ELSE /\ Reading("wait", "copy")
                  /\ opened' = IF current \in data THEN "data" ELSE "empty"
                  /\ UNCHANGED result
    /\ UNCHANGED <<managerVars, fetch, rangeVars, delivered, closeVars>>

(* The caller's buffer fills up inside the segment.                        *)
ReadFilled ==
    /\ MuFree
    /\ opened = "data"
    /\ Return("copy", "data")
    /\ UNCHANGED <<managerVars, fetch, rangeVars, opened, delivered, closeVars>>

(* The segment's last byte is read; b.rg is looked at again.               *)
ReadSegmentEnd ==
    /\ MuFree
    /\ delivered' = IF opened = "data" THEN delivered \cup {current} ELSE delivered
    /\ \/ cleared /\ Return("copy", "closed")
       \/ ~cleared /\ Reading("copy", "next") /\ UNCHANGED result
    /\ UNCHANGED <<managerVars, fetch, rangeVars, opened, closeVars>>

(* Faulty variant: a consumed segment stays in the range.                  *)
NextAdvanceKeepsSegment ==
    /\ \/ /\ current >= RangeLen
          /\ \E r \in {"data", "eof"} : Return("next", r)
          /\ UNCHANGED <<current, opened>>
       \/ /\ current < RangeLen
          /\ Reading("next", "getNext")
          /\ current' = current + 1
          /\ opened' = "no"
          /\ UNCHANGED result
    /\ UNCHANGED <<managerVars, fetch, cleared, segmentVars, delivered, closeVars>>

(* Next: release and drop the consumed segment, move on.                   *)
NextAdvance ==
    /\ \/ /\ current >= RangeLen
          /\ \E r \in {"data", "eof"} : Return("next", r)
          /\ UNCHANGED <<current, segmentVars, opened>>
       \/ /\ current < RangeLen
          /\ Reading("next", "getNext")
          /\ current' = current + 1
          /\ present' = present \ {current}
          /\ data' = data \ {current}
          /\ errs' = errs \ {current}
          /\ released' = released \ {current}
          /\ opened' = "no"
          /\ UNCHANGED result
    /\ UNCHANGED <<managerVars, fetch, cleared, delivered, closeVars>>

(* The buffer may hold bytes already when the range ends.                  *)
NextGet == Lookup("getNext", "signal", "createNext", {"data", "eof"})

NextCreate == Create("createNext", "signal")

(* Faulty variant: the manager is not told that there is room.             *)
NextSignalForgotten ==
    /\ \/ Reading("signal", "wait") /\ UNCHANGED result
       \/ Return("signal", "data")
    /\ UNCHANGED <<managerVars, fetch, rangeVars, opened, delivered, closeVars>>

(* cond.Signal, and on with the loop unless the buffer is full.            *)
NextSignal ==
    /\ Wake
    /\ \/ Reading("signal", "wait") /\ UNCHANGED result
       \/ Return("signal", "data")
    /\ UNCHANGED <<started, ctxDone, nextToDownload, fetch, rangeVars, opened,
                   delivered, closeVars>>

----------------------------------------------------------------------------
(* Start, GetBufferedOffset, Interrupt and Close.                          *)

Start ==
    /\ started' = TRUE
    /\ UNCHANGED <<ctxDone, mgr, nextToDownload, fetch, rangeVars, clientVars,
                   closeVars>>

(* Looks up the last scheduled segment, and may create it.                 *)
GetBufferedOffset ==
    /\ MuFree
    /\ ~cleared
    /\ Lazy
    /\ nextToDownload > 0
    /\ present' = present \cup {nextToDownload - 1}
    /\ UNCHANGED <<managerVars, fetch, current, cleared, data, errs, released,
                   clientVars, closeVars>>

(* Faulty variant: Release does not leave an error behind.                 *)
ReleaseSilently(S) ==
    /\ released' = released \cup S
    /\ data' = data \ S
    /\ UNCHANGED errs

(* Release every segment of S: no data, and ErrClosedPipe unless there is  *)
(* an error already.                                                       *)
Release(S) ==
    /\ released' = released \cup S
    /\ data' = data \ S
    /\ errs' = errs \cup S

Interrupting(from, to) ==
    /\ interrupter = from
    /\ interrupter' = to
    /\ UNCHANGED closer

InterruptCancel ==
    /\ Interrupting("idle", "cancelled")
    /\ ctxDone' = TRUE
    /\ UNCHANGED <<started, mgr, nextToDownload, fetch, rangeVars, clientVars>>

InterruptBroadcast ==
    /\ Interrupting("cancelled", "notified")
    /\ Wake
    /\ UNCHANGED <<started, ctxDone, nextToDownload, fetch, rangeVars, clientVars>>

InterruptSegments ==
    /\ MuFree
    /\ Interrupting("notified", "idle")
    /\ Release(present)
    /\ UNCHANGED <<managerVars, fetch, current, cleared, present, clientVars>>

Closing(from, to) ==
    /\ closer = from
    /\ closer' = to
    /\ UNCHANGED interrupter

CloseCancel ==
    /\ Closing("open", "cancelled")
    /\ ctxDone' = TRUE
    /\ UNCHANGED <<started, mgr, nextToDownload, fetch, rangeVars, clientVars>>

CloseBroadcast ==
    /\ Closing("cancelled", "notified")
    /\ Wake
    /\ UNCHANGED <<started, ctxDone, nextToDownload, fetch, rangeVars, clientVars>>

CloseSegments ==
    /\ Closing("notified", "draining")
    /\ Release(present)
    /\ UNCHANGED <<managerVars, fetch, current, cleared, present, clientVars>>

(* Faulty variant: nothing pokes the manager again.                        *)
CloseTickNothing ==
    /\ closer = "draining"
    /\ mgr # "done"
    /\ UNCHANGED vars

(* The ticker repeats the broadcast until the wait group is done.          *)
CloseTick ==
    /\ closer = "draining"
    /\ mgr # "done"
    /\ Wake
    /\ UNCHANGED <<started, ctxDone, nextToDownload, fetch, rangeVars,
                   clientVars, closeVars>>

(* The wait group, which counts the manager alone, is done: Clear.  The 30 *)
(* second deadline is left out: a tick is enough for the manager to end.   *)
CloseClear ==
    /\ mgr = "done"
    /\ Closing("draining", "closed")
    /\ Release(present)
    /\ present' = {}
    /\ cleared' = TRUE
    /\ UNCHANGED <<managerVars, fetch, current, clientVars>>

----------------------------------------------------------------------------
ManagerStep ==
    \/ ManagerStart \/ ManagerAbort \/ ManagerTop \/ ManagerLock
    \/ ManagerWait \/ ManagerResume \/ ManagerSchedule

FetchStep(i) ==
    \/ FetchData(i) \/ FetchError(i) \/ FetchSignal(i)

(* The steps of a Read that has been called.                               *)
ReadStep ==
    \/ ReadRange \/ ReadGet \/ ReadCreate \/ ReadWait \/ ReadFilled
    \/ ReadSegmentEnd \/ NextAdvance \/ NextGet \/ NextCreate \/ NextSignal

InterruptStep == InterruptCancel \/ InterruptBroadcast \/ InterruptSegments

CloseStep == CloseBroadcast \/ CloseSegments \/ CloseClear

Next ==
    \/ ManagerStep
    \/ \E i \in Segments : FetchStep(i)
    \/ ReadCall \/ ReadStep
    \/ Start \/ GetBufferedOffset
    \/ InterruptStep
    \/ CloseCancel \/ CloseStep \/ CloseTick

Spec == Init /\ [][Next]_vars

(* Goroutines that can run do; every fetch attempt ends, by its timeout if *)
(* need be; the ticker ticks.  Nobody has to call Read, Interrupt or Close.*)
Fairness ==
    /\ WF_vars(ManagerStep)
    /\ \A i \in Segments : WF_vars(FetchStep(i))
    /\ WF_vars(ReadStep)
    /\ WF_vars(InterruptBroadcast \/ InterruptSegments)
    /\ WF_vars(CloseStep)
    /\ WF_vars(CloseTick)

FairSpec == Spec /\ Fairness
----------------------------------------------------------------------------
(* Properties.                                                             *)

(* The variables keep their types, and only segments in the range's slots  *)
(* or being fetched carry data.                                            *)
TypeOK ==
    /\ started \in BOOLEAN /\ ctxDone \in BOOLEAN /\ cleared \in BOOLEAN
    /\ mgr \in {"init", "top", "lock", "full", "waiting", "woken", "schedule", "done"}
    /\ nextToDownload \in 0..Total
    /\ current \in 0..Total
    /\ fetch \in [Segments -> {"none", "running", "signal", "over"}]
    /\ present \subseteq Segments /\ data \subseteq present
    /\ errs \subseteq Segments /\ released \subseteq Segments
    /\ reader \in {"idle", "enter", "get", "create", "wait", "copy", "next",
                   "getNext", "createNext", "signal"}
    /\ opened \in {"no", "data", "empty"}
    /\ delivered \subseteq Segments
    /\ result \in {"none", "data", "eof", "closed", "error", "panic"}
    /\ closer \in {"open", "cancelled", "notified", "draining", "closed"}
    /\ interrupter \in {"idle", "cancelled", "notified"}

(* Fetching a segment, or holding its bytes, is confined to the window of  *)
(* MaxPrefetch segments that starts at the read position: the reader never *)
(* passes a fetch that is under way, and memory and connections are        *)
(* bounded by MaxPrefetch however slowly or quickly the client reads.      *)
WorkStaysInWindow ==
    /\ nextToDownload <= current + MaxPrefetch
    /\ \A i \in Segments :
         fetch[i] = "running" \/ i \in data
             => current <= i /\ i < nextToDownload

(* Every segment the reader has left behind was read to its end: none is   *)
(* skipped, in particular not one that Interrupt or Close emptied while    *)
(* the reader was about to open it.                                        *)
NoSkippedSegment == \A i \in Segments : i < current => i \in delivered

(* A download that ends after Interrupt or Close leaves no data behind.    *)
ReleasedHoldsNoData == data \cap released = {}

(* A Read that was called returns: downloads, Interrupt and Close may come *)
(* in any order, and the manager may sleep on a full window.               *)
ReadsReturn == reader # "idle" ~> reader = "idle"

(* Close returns, although its broadcast may come just before the manager  *)
(* goes to sleep.                                                          *)
CloseReturns == closer = "cancelled" ~> closer = "closed"

(* "Signals downloadManager when reader advances" (usenet_reader.go:124):  *)
(* a Read that waits for a segment nobody has scheduled does not find the  *)
(* manager asleep for good.                                                *)
AdvanceWakesManager ==
    reader = "wait" /\ current >= nextToDownload /\ mgr = "waiting"
        ~> mgr # "waiting"

(* "Wait for goroutines with timeout" (usenet_reader.go:219): when Close   *)
(* returns before its deadline, no download is under way.                  *)
CloseDrainsDownloads ==
    closer = "closed" => \A i \in Segments : fetch[i] # "running"

(* "Unblock any pending reads waiting for data" (usenet_reader.go:213):    *)
(* closing the reader makes a Read in progress return an error.            *)
ReadsSurviveClose == result # "panic"

(* "Returns io.EOF error if pointer is at the end of the Buffer"           *)
(* (usenet_reader.go:263).                                                 *)
EofMeansEnd == result = "eof" => current = Total
==============================================================================
