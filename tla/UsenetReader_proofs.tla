------------------------- MODULE UsenetReader_proofs -------------------------
(***************************************************************************)
(* Proofs about UsenetReader, for ranges of any length, any window and     *)
(* segments that are created in advance or on demand.                      *)
(*                                                                         *)
(* That nothing is fetched outside the window, and nothing skipped, does   *)
(* not follow from the steps of the manager or of the reader alone.  The   *)
(* manager schedules each segment once and in order; a released segment    *)
(* carries an error, so the reader opens a segment only with the data that *)
(* its one finished fetch has left; hence what the reader moves past is    *)
(* neither being fetched nor still to be scheduled.                        *)
(***************************************************************************)
EXTENDS UsenetReader, TLAPS

(* The manager schedules segments in order, each of them once.             *)
ScheduledOnce ==
    /\ \A i \in Segments : fetch[i] # "none" => i < nextToDownload
    /\ mgr = "schedule" => /\ nextToDownload > 0
                           /\ fetch[nextToDownload - 1] = "none"

(* The reader stays behind the manager, and within the window.             *)
ReaderBehindManager ==
    /\ current <= nextToDownload
    /\ mgr = "schedule" => current < nextToDownload
    /\ nextToDownload <= current + MaxPrefetch

(* What is being fetched lies ahead of the reader, in its slot unless it   *)
(* was released; what has data was fetched.                                *)
FetchesAhead ==
    /\ \A i \in Segments :
         fetch[i] = "running" => current <= i /\ i \in present \cup released
    /\ \A i \in data : current <= i /\ fetch[i] \in {"signal", "over"}

(* A released segment has an error, with which the reader gives up.        *)
ReleasedHaveErrors == released \subseteq errs

(* The reader opens a segment that was fetched, and leaves it when it has  *)
(* read it to its end.                                                     *)
OpenedWasFetched ==
    /\ opened # "empty"
    /\ opened = "data" => current < Total /\ fetch[current] \in {"signal", "over"}
    /\ reader \in {"copy", "next"} => opened = "data"
    /\ reader = "next" => current \in delivered
    /\ reader \in {"create", "createNext"} => current < Total

IInv ==
    /\ TypeOK
    /\ ScheduledOnce
    /\ ReaderBehindManager
    /\ FetchesAhead
    /\ ReleasedHaveErrors
    /\ OpenedWasFetched
    /\ NoSkippedSegment

(* Nothing is scheduled, fetched or released at first. *)
LEMMA InitInvariant == Init => IInv
<1> SUFFICES ASSUME Init
             PROVE  IInv
  OBVIOUS
<1> USE ReaderConstants DEF Init, Segments
<1>1. TypeOK
  <2>1. started \in BOOLEAN /\ ctxDone \in BOOLEAN /\ cleared \in BOOLEAN
    BY Zenon
  <2> QED
    BY <2>1 DEF TypeOK
<1>2. ScheduledOnce /\ ReaderBehindManager /\ NoSkippedSegment
  BY DEF ScheduledOnce, ReaderBehindManager, NoSkippedSegment
<1>3. FetchesAhead /\ ReleasedHaveErrors /\ OpenedWasFetched
  BY DEF FetchesAhead, ReleasedHaveErrors, OpenedWasFetched
<1> QED
  BY <1>1, <1>2, <1>3 DEF IInv

USE DEF IInv, Segments

(* The manager's steps: it alone moves nextToDownload.                     *)
LEMMA ManagerKeeps ==
    ASSUME IInv, ManagerStep
    PROVE  IInv'
<1> USE ReaderConstants DEF managerVars, segmentVars, rangeVars, clientVars, closeVars, Manager
<1>1. CASE ManagerStart
  BY <1>1 DEF ManagerStart, TypeOK, ScheduledOnce, ReaderBehindManager, FetchesAhead,
      ReleasedHaveErrors, OpenedWasFetched, NoSkippedSegment
<1>2. CASE ManagerAbort
  BY <1>2 DEF ManagerAbort, TypeOK, ScheduledOnce, ReaderBehindManager, FetchesAhead,
      ReleasedHaveErrors, OpenedWasFetched, NoSkippedSegment
<1>3. CASE ManagerTop
  BY <1>3 DEF ManagerTop, TypeOK, ScheduledOnce, ReaderBehindManager, FetchesAhead,
      ReleasedHaveErrors, OpenedWasFetched, NoSkippedSegment
<1>4. CASE ManagerLock
  BY <1>4 DEF ManagerLock, TypeOK, ScheduledOnce, ReaderBehindManager, FetchesAhead,
      ReleasedHaveErrors, OpenedWasFetched, NoSkippedSegment
<1>5. CASE ManagerWait
  BY <1>5 DEF ManagerWait, TypeOK, ScheduledOnce, ReaderBehindManager, FetchesAhead,
      ReleasedHaveErrors, OpenedWasFetched, NoSkippedSegment
<1>6. CASE ManagerResume
  BY <1>6 DEF ManagerResume, TypeOK, ScheduledOnce, ReaderBehindManager, FetchesAhead,
      ReleasedHaveErrors, OpenedWasFetched, NoSkippedSegment
<1>7. CASE ManagerSchedule
  <2>1. TypeOK'
    <3>1. started' \in BOOLEAN /\ ctxDone' \in BOOLEAN /\ cleared' \in BOOLEAN
      BY <1>7, Zenon DEF ManagerSchedule, RangeLen, TypeOK
    <3>2. /\ mgr' \in {"init", "top", "lock", "full", "waiting", "woken", "schedule", "done"}
          /\ nextToDownload' \in 0..Total
          /\ current' \in 0..Total
          /\ fetch' \in [Segments -> {"none", "running", "signal", "over"}]
      BY <1>7 DEF ManagerSchedule, RangeLen, TypeOK, OpenedWasFetched
    <3>3. /\ present' \subseteq Segments /\ data' \subseteq present'
          /\ errs' \subseteq Segments /\ released' \subseteq Segments
          /\ delivered' \subseteq Segments
      <4>1. nextToDownload - 1 \in Segments
        BY <1>7 DEF ManagerSchedule, TypeOK, ScheduledOnce
      <4>2. /\ present' = present \/ present' = present \cup {nextToDownload - 1}
            /\ UNCHANGED <<data, errs, released, delivered>>
        BY <1>7 DEF ManagerSchedule
      <4> HIDE DEF Segments
      <4> QED
        BY <4>1, <4>2 DEF TypeOK
    <3>4. /\ reader' \in {"idle", "enter", "get", "create", "wait", "copy", "next",
                          "getNext", "createNext", "signal"}
          /\ opened' \in {"no", "data", "empty"}
          /\ result' \in {"none", "data", "eof", "closed", "error", "panic"}
          /\ closer' \in {"open", "cancelled", "notified", "draining", "closed"}
          /\ interrupter' \in {"idle", "cancelled", "notified"}
      BY <1>7 DEF ManagerSchedule, RangeLen, TypeOK
    <3> QED
      BY <3>1, <3>2, <3>3, <3>4 DEF TypeOK
  <2>2. ScheduledOnce'
    BY <1>7 DEF ManagerSchedule, RangeLen, ScheduledOnce, TypeOK
  <2>3. ReaderBehindManager'
    BY <1>7 DEF ManagerSchedule, RangeLen, ReaderBehindManager, TypeOK, ScheduledOnce, OpenedWasFetched
  <2>4. FetchesAhead'
    BY <1>7 DEF ManagerSchedule, RangeLen, FetchesAhead, TypeOK, ScheduledOnce, ReaderBehindManager, OpenedWasFetched
  <2>5. ReleasedHaveErrors'
    BY <1>7 DEF ManagerSchedule, RangeLen, ReleasedHaveErrors
  <2>6. OpenedWasFetched'
    BY <1>7 DEF ManagerSchedule, RangeLen, OpenedWasFetched, TypeOK, ScheduledOnce, FetchesAhead, ReleasedHaveErrors
  <2>7. NoSkippedSegment'
    BY <1>7 DEF ManagerSchedule, RangeLen, NoSkippedSegment, TypeOK, OpenedWasFetched
  <2> QED
    BY <2>1, <2>2, <2>3, <2>4, <2>5, <2>6, <2>7
<1> QED
  BY <1>1, <1>2, <1>3, <1>4, <1>5, <1>6, <1>7 DEF ManagerStep

(* A fetch ends once, and stores data only in a segment that is not        *)
(* released.                                                               *)
LEMMA FetchKeeps ==
    ASSUME IInv, NEW i \in Segments, FetchStep(i)
    PROVE  IInv'
<1> USE ReaderConstants DEF managerVars, segmentVars, rangeVars, clientVars, closeVars, Fetch
<1>1. CASE FetchData(i)
  BY <1>1 DEF FetchData, TypeOK, ScheduledOnce, ReaderBehindManager, FetchesAhead,
      ReleasedHaveErrors, OpenedWasFetched, NoSkippedSegment
<1>2. CASE FetchError(i)
  BY <1>2 DEF FetchError, TypeOK, ScheduledOnce, ReaderBehindManager, FetchesAhead,
      ReleasedHaveErrors, OpenedWasFetched, NoSkippedSegment
<1>3. CASE FetchSignal(i)
  BY <1>3 DEF FetchSignal, Wake, TypeOK, ScheduledOnce, ReaderBehindManager, FetchesAhead,
      ReleasedHaveErrors, OpenedWasFetched, NoSkippedSegment
<1> QED
  BY <1>1, <1>2, <1>3 DEF FetchStep

(* The reader moves on only from a segment that is open, and so fetched.   *)
LEMMA ReadKeeps ==
    ASSUME IInv, ReadCall \/ ReadStep
    PROVE  IInv'
<1> USE ReaderConstants DEF managerVars, segmentVars, rangeVars, clientVars, closeVars,
      Reading, Return, RangeLen
<1>1. CASE ReadCall
  BY <1>1 DEF ReadCall, TypeOK, ScheduledOnce, ReaderBehindManager, FetchesAhead,
      ReleasedHaveErrors, OpenedWasFetched, NoSkippedSegment
<1>2. CASE ReadRange
  BY <1>2 DEF ReadRange, TypeOK, ScheduledOnce, ReaderBehindManager, FetchesAhead,
      ReleasedHaveErrors, OpenedWasFetched, NoSkippedSegment
<1>3. CASE ReadGet \/ NextGet
  <2>1. TypeOK'
    <3>1. started' \in BOOLEAN /\ ctxDone' \in BOOLEAN /\ cleared' \in BOOLEAN
      BY <1>3, Zenon DEF ReadGet, NextGet, Lookup, TypeOK
    <3>2. /\ mgr' \in {"init", "top", "lock", "full", "waiting", "woken", "schedule", "done"}
          /\ nextToDownload' \in 0..Total
          /\ current' \in 0..Total
          /\ fetch' \in [Segments -> {"none", "running", "signal", "over"}]
      BY <1>3 DEF ReadGet, NextGet, Lookup, TypeOK, OpenedWasFetched
    <3>3. /\ present' \subseteq Segments /\ data' \subseteq present'
          /\ errs' \subseteq Segments /\ released' \subseteq Segments
          /\ delivered' \subseteq Segments
      BY <1>3 DEF ReadGet, NextGet, Lookup, TypeOK, OpenedWasFetched, ScheduledOnce, FetchesAhead
    <3>4. /\ reader' \in {"idle", "enter", "get", "create", "wait", "copy", "next",
                          "getNext", "createNext", "signal"}
          /\ opened' \in {"no", "data", "empty"}
          /\ result' \in {"none", "data", "eof", "closed", "error", "panic"}
          /\ closer' \in {"open", "cancelled", "notified", "draining", "closed"}
          /\ interrupter' \in {"idle", "cancelled", "notified"}
      BY <1>3 DEF ReadGet, NextGet, Lookup, TypeOK
    <3> QED
      BY <3>1, <3>2, <3>3, <3>4 DEF TypeOK
  <2>2. ScheduledOnce'
    BY <1>3 DEF ReadGet, NextGet, Lookup, ScheduledOnce, TypeOK
  <2>3. ReaderBehindManager'
    BY <1>3 DEF ReadGet, NextGet, Lookup, ReaderBehindManager, TypeOK, ScheduledOnce, OpenedWasFetched
  <2>4. FetchesAhead'
    BY <1>3 DEF ReadGet, NextGet, Lookup, FetchesAhead, TypeOK, ScheduledOnce, ReaderBehindManager, OpenedWasFetched
  <2>5. ReleasedHaveErrors'
    BY <1>3 DEF ReadGet, NextGet, Lookup, ReleasedHaveErrors
  <2>6. OpenedWasFetched'
    BY <1>3 DEF ReadGet, NextGet, Lookup, OpenedWasFetched, TypeOK, FetchesAhead, ReleasedHaveErrors
  <2>7. NoSkippedSegment'
    BY <1>3 DEF ReadGet, NextGet, Lookup, NoSkippedSegment, TypeOK, OpenedWasFetched
  <2> QED
    BY <2>1, <2>2, <2>3, <2>4, <2>5, <2>6, <2>7
<1>4. CASE ReadCreate \/ NextCreate
  <2>1. TypeOK'
    <3>1. started' \in BOOLEAN /\ ctxDone' \in BOOLEAN /\ cleared' \in BOOLEAN
      BY <1>4, Zenon DEF ReadCreate, NextCreate, Create, TypeOK
    <3>2. /\ mgr' \in {"init", "top", "lock", "full", "waiting", "woken", "schedule", "done"}
          /\ nextToDownload' \in 0..Total
          /\ current' \in 0..Total
          /\ fetch' \in [Segments -> {"none", "running", "signal", "over"}]
      BY <1>4 DEF ReadCreate, NextCreate, Create, TypeOK, OpenedWasFetched
    <3>3. /\ present' \subseteq Segments /\ data' \subseteq present'
          /\ errs' \subseteq Segments /\ released' \subseteq Segments
          /\ delivered' \subseteq Segments
      <4>1. current \in Segments
        BY <1>4 DEF ReadCreate, NextCreate, Create, TypeOK, OpenedWasFetched
      <4>2. /\ present' = present \/ present' = present \cup {current}
            /\ UNCHANGED <<data, errs, released, delivered>>
        BY <1>4 DEF ReadCreate, NextCreate, Create
      <4> HIDE DEF Segments
      <4> QED
        BY <4>1, <4>2 DEF TypeOK
    <3>4. /\ reader' \in {"idle", "enter", "get", "create", "wait", "copy", "next",
                          "getNext", "createNext", "signal"}
          /\ opened' \in {"no", "data", "empty"}
          /\ result' \in {"none", "data", "eof", "closed", "error", "panic"}
          /\ closer' \in {"open", "cancelled", "notified", "draining", "closed"}
          /\ interrupter' \in {"idle", "cancelled", "notified"}
      BY <1>4 DEF ReadCreate, NextCreate, Create, TypeOK
    <3> QED
      BY <3>1, <3>2, <3>3, <3>4 DEF TypeOK
  <2>2. ScheduledOnce'
    BY <1>4 DEF ReadCreate, NextCreate, Create, ScheduledOnce, TypeOK
  <2>3. ReaderBehindManager'
    BY <1>4 DEF ReadCreate, NextCreate, Create, ReaderBehindManager, TypeOK, ScheduledOnce, OpenedWasFetched
  <2>4. FetchesAhead'
    BY <1>4 DEF ReadCreate, NextCreate, Create, FetchesAhead, TypeOK, ScheduledOnce, ReaderBehindManager, OpenedWasFetched
  <2>5. ReleasedHaveErrors'
    BY <1>4 DEF ReadCreate, NextCreate, Create, ReleasedHaveErrors
  <2>6. OpenedWasFetched'
    BY <1>4 DEF ReadCreate, NextCreate, Create, OpenedWasFetched, TypeOK, FetchesAhead, ReleasedHaveErrors
  <2>7. NoSkippedSegment'
    BY <1>4 DEF ReadCreate, NextCreate, Create, NoSkippedSegment, TypeOK, OpenedWasFetched
  <2> QED
    BY <2>1, <2>2, <2>3, <2>4, <2>5, <2>6, <2>7
<1>5. CASE ReadWait
  BY <1>5 DEF ReadWait, Ready, TypeOK, ScheduledOnce, ReaderBehindManager, FetchesAhead,
      ReleasedHaveErrors, OpenedWasFetched, NoSkippedSegment
<1>6. CASE ReadFilled
  BY <1>6 DEF ReadFilled, TypeOK, ScheduledOnce, ReaderBehindManager, FetchesAhead,
      ReleasedHaveErrors, OpenedWasFetched, NoSkippedSegment
<1>7. CASE ReadSegmentEnd
  BY <1>7 DEF ReadSegmentEnd, TypeOK, ScheduledOnce, ReaderBehindManager, FetchesAhead,
      ReleasedHaveErrors, OpenedWasFetched, NoSkippedSegment
<1>8. CASE NextAdvance
  <2>1. TypeOK'
    <3>1. started' \in BOOLEAN /\ ctxDone' \in BOOLEAN /\ cleared' \in BOOLEAN
      BY <1>8, Zenon DEF NextAdvance, TypeOK
    <3>2. /\ mgr' \in {"init", "top", "lock", "full", "waiting", "woken", "schedule", "done"}
          /\ nextToDownload' \in 0..Total
          /\ current' \in 0..Total
          /\ fetch' \in [Segments -> {"none", "running", "signal", "over"}]
      BY <1>8 DEF NextAdvance, TypeOK, OpenedWasFetched
    <3>3. /\ present' \subseteq Segments /\ data' \subseteq present'
          /\ errs' \subseteq Segments /\ released' \subseteq Segments
          /\ delivered' \subseteq Segments
      BY <1>8 DEF NextAdvance, TypeOK, OpenedWasFetched, ScheduledOnce, FetchesAhead
    <3>4. /\ reader' \in {"idle", "enter", "get", "create", "wait", "copy", "next",
                          "getNext", "createNext", "signal"}
          /\ opened' \in {"no", "data", "empty"}
          /\ result' \in {"none", "data", "eof", "closed", "error", "panic"}
          /\ closer' \in {"open", "cancelled", "notified", "draining", "closed"}
          /\ interrupter' \in {"idle", "cancelled", "notified"}
      BY <1>8 DEF NextAdvance, TypeOK
    <3> QED
      BY <3>1, <3>2, <3>3, <3>4 DEF TypeOK
  <2>2. ScheduledOnce'
    BY <1>8 DEF NextAdvance, ScheduledOnce, TypeOK
  <2>3. ReaderBehindManager'
    BY <1>8 DEF NextAdvance, ReaderBehindManager, TypeOK, ScheduledOnce, OpenedWasFetched
  <2>4. FetchesAhead'
    <3>1. CASE UNCHANGED <<current, segmentVars, opened>>
      BY <1>8, <3>1 DEF NextAdvance, FetchesAhead
    <3>2. CASE ~UNCHANGED <<current, segmentVars, opened>>
      <4>1. /\ current' = current + 1 /\ fetch' = fetch
            /\ data' = data \ {current} /\ present' = present \ {current}
            /\ released' = released \ {current}
            /\ fetch[current] \in {"signal", "over"}
        BY <1>8, <3>2 DEF NextAdvance, OpenedWasFetched
      <4>2. \A i \in Segments : fetch'[i] = "running" => current' <= i
        BY <4>1 DEF FetchesAhead, TypeOK
      <4>3. \A i \in Segments : fetch'[i] = "running" => i \in present' \cup released'
        BY <4>1 DEF FetchesAhead, TypeOK
      <4>4. \A i \in data' : current' <= i /\ fetch'[i] \in {"signal", "over"}
        BY <4>1 DEF FetchesAhead, TypeOK
      <4> QED
        BY <4>2, <4>3, <4>4 DEF FetchesAhead
    <3> QED
      BY <3>1, <3>2
  <2>5. ReleasedHaveErrors'
    BY <1>8 DEF NextAdvance, ReleasedHaveErrors
  <2>6. OpenedWasFetched'
    BY <1>8 DEF NextAdvance, OpenedWasFetched, TypeOK, FetchesAhead, ReleasedHaveErrors
  <2>7. NoSkippedSegment'
    BY <1>8 DEF NextAdvance, NoSkippedSegment, TypeOK, OpenedWasFetched
  <2> QED
    BY <2>1, <2>2, <2>3, <2>4, <2>5, <2>6, <2>7
<1>9. CASE NextSignal
  BY <1>9 DEF NextSignal, Wake, TypeOK, ScheduledOnce, ReaderBehindManager, FetchesAhead,
      ReleasedHaveErrors, OpenedWasFetched, NoSkippedSegment
<1> QED
  BY <1>1, <1>2, <1>3, <1>4, <1>5, <1>6, <1>7, <1>8, <1>9 DEF ReadStep

(* Releasing what is in the slots takes data away and leaves errors.       *)
LEMMA CloseKeeps ==
    ASSUME IInv,
           Start \/ GetBufferedOffset \/ InterruptStep \/ CloseCancel \/ CloseStep \/ CloseTick
    PROVE  IInv'
<1> USE ReaderConstants DEF managerVars, segmentVars, rangeVars, clientVars, closeVars,
      Interrupting, Closing, Release, Wake
<1>1. CASE Start
  BY <1>1 DEF Start, TypeOK, ScheduledOnce, ReaderBehindManager, FetchesAhead,
      ReleasedHaveErrors, OpenedWasFetched, NoSkippedSegment
<1>2. CASE GetBufferedOffset
  BY <1>2 DEF GetBufferedOffset, TypeOK, ScheduledOnce, ReaderBehindManager, FetchesAhead,
      ReleasedHaveErrors, OpenedWasFetched, NoSkippedSegment
<1>3. CASE InterruptCancel \/ InterruptBroadcast
  <2>1. TypeOK'
    <3>1. started' \in BOOLEAN /\ ctxDone' \in BOOLEAN /\ cleared' \in BOOLEAN
      BY <1>3, Zenon DEF InterruptCancel, InterruptBroadcast, TypeOK
    <3>2. /\ mgr' \in {"init", "top", "lock", "full", "waiting", "woken", "schedule", "done"}
          /\ nextToDownload' \in 0..Total
          /\ current' \in 0..Total
          /\ fetch' \in [Segments -> {"none", "running", "signal", "over"}]
      BY <1>3 DEF InterruptCancel, InterruptBroadcast, TypeOK, OpenedWasFetched
    <3>3. /\ present' \subseteq Segments /\ data' \subseteq present'
          /\ errs' \subseteq Segments /\ released' \subseteq Segments
          /\ delivered' \subseteq Segments
      BY <1>3 DEF InterruptCancel, InterruptBroadcast, TypeOK, OpenedWasFetched, ScheduledOnce, FetchesAhead
    <3>4. /\ reader' \in {"idle", "enter", "get", "create", "wait", "copy", "next",
                          "getNext", "createNext", "signal"}
          /\ opened' \in {"no", "data", "empty"}
          /\ result' \in {"none", "data", "eof", "closed", "error", "panic"}
          /\ closer' \in {"open", "cancelled", "notified", "draining", "closed"}
          /\ interrupter' \in {"idle", "cancelled", "notified"}
      BY <1>3 DEF InterruptCancel, InterruptBroadcast, TypeOK
    <3> QED
      BY <3>1, <3>2, <3>3, <3>4 DEF TypeOK
  <2>2. ScheduledOnce'
    BY <1>3 DEF InterruptCancel, InterruptBroadcast, ScheduledOnce, TypeOK
  <2>3. ReaderBehindManager'
    BY <1>3 DEF InterruptCancel, InterruptBroadcast, ReaderBehindManager, TypeOK, ScheduledOnce, OpenedWasFetched
  <2>4. FetchesAhead'
    BY <1>3 DEF InterruptCancel, InterruptBroadcast, FetchesAhead, TypeOK, ScheduledOnce, ReaderBehindManager, OpenedWasFetched
  <2>5. ReleasedHaveErrors'
    BY <1>3 DEF InterruptCancel, InterruptBroadcast, ReleasedHaveErrors
  <2>6. OpenedWasFetched'
    BY <1>3 DEF InterruptCancel, InterruptBroadcast, OpenedWasFetched, TypeOK, FetchesAhead, ReleasedHaveErrors
  <2>7. NoSkippedSegment'
    BY <1>3 DEF InterruptCancel, InterruptBroadcast, NoSkippedSegment, TypeOK, OpenedWasFetched
  <2> QED
    BY <2>1, <2>2, <2>3, <2>4, <2>5, <2>6, <2>7
<1>4. CASE InterruptSegments \/ CloseSegments
  <2>1. TypeOK'
    <3>1. started' \in BOOLEAN /\ ctxDone' \in BOOLEAN /\ cleared' \in BOOLEAN
      BY <1>4, Zenon DEF InterruptSegments, CloseSegments, TypeOK
    <3>2. /\ mgr' \in {"init", "top", "lock", "full", "waiting", "woken", "schedule", "done"}
          /\ nextToDownload' \in 0..Total
          /\ current' \in 0..Total
          /\ fetch' \in [Segments -> {"none", "running", "signal", "over"}]
      BY <1>4 DEF InterruptSegments, CloseSegments, TypeOK, OpenedWasFetched
    <3>3. /\ present' \subseteq Segments /\ data' \subseteq present'
          /\ errs' \subseteq Segments /\ released' \subseteq Segments
          /\ delivered' \subseteq Segments
      BY <1>4 DEF InterruptSegments, CloseSegments, TypeOK, OpenedWasFetched, ScheduledOnce, FetchesAhead
    <3>4. /\ reader' \in {"idle", "enter", "get", "create", "wait", "copy", "next",
                          "getNext", "createNext", "signal"}
          /\ opened' \in {"no", "data", "empty"}
          /\ result' \in {"none", "data", "eof", "closed", "error", "panic"}
          /\ closer' \in {"open", "cancelled", "notified", "draining", "closed"}
          /\ interrupter' \in {"idle", "cancelled", "notified"}
      BY <1>4 DEF InterruptSegments, CloseSegments, TypeOK
    <3> QED
      BY <3>1, <3>2, <3>3, <3>4 DEF TypeOK
  <2>2. ScheduledOnce'
    BY <1>4 DEF InterruptSegments, CloseSegments, ScheduledOnce, TypeOK
  <2>3. ReaderBehindManager'
    BY <1>4 DEF InterruptSegments, CloseSegments, ReaderBehindManager, TypeOK, ScheduledOnce, OpenedWasFetched
  <2>4. FetchesAhead'
    BY <1>4 DEF InterruptSegments, CloseSegments, FetchesAhead, TypeOK, ScheduledOnce, ReaderBehindManager, OpenedWasFetched
  <2>5. ReleasedHaveErrors'
    BY <1>4 DEF InterruptSegments, CloseSegments, ReleasedHaveErrors
  <2>6. OpenedWasFetched'
    BY <1>4 DEF InterruptSegments, CloseSegments, OpenedWasFetched, TypeOK, FetchesAhead, ReleasedHaveErrors
  <2>7. NoSkippedSegment'
    BY <1>4 DEF InterruptSegments, CloseSegments, NoSkippedSegment, TypeOK, OpenedWasFetched
  <2> QED
    BY <2>1, <2>2, <2>3, <2>4, <2>5, <2>6, <2>7
<1>5. CASE CloseCancel \/ CloseBroadcast \/ CloseTick
  <2>1. TypeOK'
    <3>1. started' \in BOOLEAN /\ ctxDone' \in BOOLEAN /\ cleared' \in BOOLEAN
      BY <1>5, Zenon DEF CloseCancel, CloseBroadcast, CloseTick, TypeOK
    <3>2. /\ mgr' \in {"init", "top", "lock", "full", "waiting", "woken", "schedule", "done"}
          /\ nextToDownload' \in 0..Total
          /\ current' \in 0..Total
          /\ fetch' \in [Segments -> {"none", "running", "signal", "over"}]
      BY <1>5 DEF CloseCancel, CloseBroadcast, CloseTick, TypeOK, OpenedWasFetched
    <3>3. /\ present' \subseteq Segments /\ data' \subseteq present'
          /\ errs' \subseteq Segments /\ released' \subseteq Segments
          /\ delivered' \subseteq Segments
      BY <1>5 DEF CloseCancel, CloseBroadcast, CloseTick, TypeOK, OpenedWasFetched, ScheduledOnce, FetchesAhead
    <3>4. /\ reader' \in {"idle", "enter", "get", "create", "wait", "copy", "next",
                          "getNext", "createNext", "signal"}
          /\ opened' \in {"no", "data", "empty"}
          /\ result' \in {"none", "data", "eof", "closed", "error", "panic"}
          /\ closer' \in {"open", "cancelled", "notified", "draining", "closed"}
          /\ interrupter' \in {"idle", "cancelled", "notified"}
      BY <1>5 DEF CloseCancel, CloseBroadcast, CloseTick, TypeOK
    <3> QED
      BY <3>1, <3>2, <3>3, <3>4 DEF TypeOK
  <2>2. ScheduledOnce'
    BY <1>5 DEF CloseCancel, CloseBroadcast, CloseTick, ScheduledOnce, TypeOK
  <2>3. ReaderBehindManager'
    BY <1>5 DEF CloseCancel, CloseBroadcast, CloseTick, ReaderBehindManager, TypeOK, ScheduledOnce, OpenedWasFetched
  <2>4. FetchesAhead'
    BY <1>5 DEF CloseCancel, CloseBroadcast, CloseTick, FetchesAhead, TypeOK, ScheduledOnce, ReaderBehindManager, OpenedWasFetched
  <2>5. ReleasedHaveErrors'
    BY <1>5 DEF CloseCancel, CloseBroadcast, CloseTick, ReleasedHaveErrors
  <2>6. OpenedWasFetched'
    BY <1>5 DEF CloseCancel, CloseBroadcast, CloseTick, OpenedWasFetched, TypeOK, FetchesAhead, ReleasedHaveErrors
  <2>7. NoSkippedSegment'
    BY <1>5 DEF CloseCancel, CloseBroadcast, CloseTick, NoSkippedSegment, TypeOK, OpenedWasFetched
  <2> QED
    BY <2>1, <2>2, <2>3, <2>4, <2>5, <2>6, <2>7
<1>6. CASE CloseClear
  BY <1>6 DEF CloseClear, TypeOK, ScheduledOnce, ReaderBehindManager, FetchesAhead,
      ReleasedHaveErrors, OpenedWasFetched, NoSkippedSegment
<1> QED
  BY <1>1, <1>2, <1>3, <1>4, <1>5, <1>6 DEF InterruptStep, CloseStep

(* Every step of the reader keeps its invariant. *)
LEMMA NextInvariant == IInv /\ [Next]_vars => IInv'
<1> SUFFICES ASSUME IInv, [Next]_vars
             PROVE  IInv'
  OBVIOUS
<1>1. CASE UNCHANGED vars
  BY <1>1 DEF vars, managerVars, segmentVars, rangeVars, clientVars, closeVars, TypeOK,
      ScheduledOnce, ReaderBehindManager, FetchesAhead, ReleasedHaveErrors, OpenedWasFetched,
      NoSkippedSegment
<1>2. CASE Next
  <2> HIDE DEF IInv
  <2> QED
    BY <1>2, ManagerKeeps, FetchKeeps, ReadKeeps, CloseKeeps DEF Next
<1> QED
  BY <1>1, <1>2

----------------------------------------------------------------------------
(* The theorems.                                                           *)

(* The strengthening of the properties below is an invariant of the reader *)
(* (UsenetReader in usenet_reader.go, segmentRange in segment.go).         *)
THEOREM ReaderInvariant == Spec => []IInv
<1> HIDE DEF IInv
<1> QED
  BY InitInvariant, NextInvariant, PTL DEF Spec

(* The variables keep their types; only segments in the range's slots have *)
(* data.                                                                   *)
THEOREM TypeCorrect == Spec => []TypeOK
<1>1. IInv => TypeOK
  OBVIOUS
<1> HIDE DEF IInv
<1> QED
  BY <1>1, ReaderInvariant, PTL

(* Whatever the client does and however the downloads go, fetches and      *)
(* bytes in memory are those of the MaxPrefetch segments at the read       *)
(* position (max_prefetch).                                                *)
THEOREM WorkIsBounded == Spec => []WorkStaysInWindow
<1>1. IInv => WorkStaysInWindow
  BY DEF TypeOK, ScheduledOnce, ReaderBehindManager, FetchesAhead, WorkStaysInWindow
<1> HIDE DEF IInv
<1> QED
  BY <1>1, ReaderInvariant, PTL

(* No order of downloads, Interrupt, Close and Read makes the reader pass  *)
(* a segment it has not read to its end.                                   *)
THEOREM NothingIsSkipped == Spec => []NoSkippedSegment
<1>1. IInv => NoSkippedSegment
  OBVIOUS
<1> HIDE DEF IInv
<1> QED
  BY <1>1, ReaderInvariant, PTL
==============================================================================
