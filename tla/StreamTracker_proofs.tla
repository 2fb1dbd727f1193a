------------------------- MODULE StreamTracker_proofs -------------------------
(***************************************************************************)
(* Proofs about StreamTracker, for any streams, removers and limits.       *)
(*                                                                         *)
(* The counter is compared with the map while neither is at rest: what is  *)
(* stored but not counted yet is owed to the counter, and what is deleted  *)
(* but still counted is owed by it.  A stream that two processes delete    *)
(* leaves the map once and is counted down twice, so the bound is one      *)
(* sided, and it is the side on which no playback is invented.             *)
(***************************************************************************)
EXTENDS StreamTracker, FiniteSetTheorems, TLAPS

(* In the map and not counted yet; counted down soon.                      *)
Uncounted == {s \in Streams : life[s] = "stored"}
Deleting == {p \in Procs : streamAt[p] = "deleted"}

(* A handler's stream is in the map only after AddStream has begun.        *)
NewAreUntracked == \A s \in Streams : life[s] = "new" => s \notin tracked

(* A handler is inside Remove only when it has returned.                   *)
HandlersRemoveLast == \A s \in Streams : life[s] # "closing" => streamAt[s] = "out"

(* Remove goes on only with a stream that it has found.                    *)
FoundAreStreams == \A p \in Procs : streamAt[p] \notin {"out", "load"} => target[p] \in Streams

ShapeOK == TrackerTypeOK /\ NewAreUntracked /\ HandlersRemoveLast /\ FoundAreStreams

CountBound ==
    activeCount + Cardinality(Uncounted) <= Cardinality(tracked) + Cardinality(Deleting)

IInv ==
    /\ ShapeOK
    /\ CountBound

(* The sets that the counter is compared with are finite. *)
LEMMA FiniteParts ==
    ASSUME tracked \subseteq Streams
    PROVE  /\ IsFiniteSet(tracked) /\ IsFiniteSet(Uncounted) /\ IsFiniteSet(Deleting)
           /\ Cardinality(tracked) \in Nat
           /\ Cardinality(Uncounted) \in Nat
           /\ Cardinality(Deleting) \in Nat
<1>1. IsFiniteSet(Procs)
  BY ProcsFinite, FS_Union DEF Procs
<1>2. Uncounted \subseteq Streams /\ Deleting \subseteq Procs
  BY DEF Uncounted, Deleting
<1>3. IsFiniteSet(tracked) /\ IsFiniteSet(Uncounted) /\ IsFiniteSet(Deleting)
  BY <1>1, <1>2, ProcsFinite, FS_Subset
<1> QED
  BY <1>3, FS_CardinalityType

(* The map is empty and the counter 0 at first. *)
LEMMA InitInvariant == TrackerInit => IInv
<1> SUFFICES ASSUME TrackerInit
             PROVE  IInv
  OBVIOUS
<1> USE Limits DEF TrackerInit
<1>1. TrackerTypeOK
  BY DEF TrackerTypeOK, LifeStates, RemoveStates
<1>2. tracked = {} /\ Uncounted = {} /\ Deleting = {} /\ activeCount = 0
  BY DEF Uncounted, Deleting
<1>3. CountBound
  BY <1>2, FS_EmptySet DEF CountBound
<1>4. NewAreUntracked /\ HandlersRemoveLast /\ FoundAreStreams
  BY DEF NewAreUntracked, HandlersRemoveLast, FoundAreStreams, Procs
<1> QED
  BY <1>1, <1>3, <1>4 DEF IInv, ShapeOK

(* Every step keeps the types and the order of a handler's steps.          *)
LEMMA ShapeKeeps ==
    ASSUME ShapeOK, TrackerNext
    PROVE  ShapeOK'
<1> USE ProcsFinite, Limits
    DEF ShapeOK, TrackerTypeOK, NewAreUntracked, HandlersRemoveLast, FoundAreStreams, Procs, mapVars, procVars,
        persistVars, LifeStates, RemoveStates, Move, Advance
<1>1. ASSUME NEW s \in Streams, AddStore(s)
      PROVE  ShapeOK'
  BY <1>1 DEF AddStore
<1>2. ASSUME NEW s \in Streams, AddCount(s)
      PROVE  ShapeOK'
  BY <1>2 DEF AddCount
<1>3. ASSUME NEW s \in Streams, AddNotify(s)
      PROVE  ShapeOK'
  BY <1>3 DEF AddNotify
<1>4. ASSUME NEW s \in Streams, SetCancelFunc(s)
      PROVE  ShapeOK'
  BY <1>4 DEF SetCancelFunc
<1>5. ASSUME NEW s \in Streams, HandlerReturns(s)
      PROVE  ShapeOK'
  BY <1>5 DEF HandlerReturns
<1>6. ASSUME NEW s \in Streams, HandlerDone(s)
      PROVE  ShapeOK'
  BY <1>6 DEF HandlerDone
<1>7. ASSUME NEW s \in Streams, KillStream(s)
      PROVE  ShapeOK'
  BY <1>7 DEF KillStream
<1>8. ASSUME NEW k \in Removers, Collect(k)
      PROVE  ShapeOK'
  BY <1>8 DEF Collect
<1>9. ASSUME NEW k \in Removers, RemoveNext(k)
      PROVE  ShapeOK'
  BY <1>9 DEF RemoveNext
<1>10. ASSUME NEW p \in Procs, RemoveLoad(p)
       PROVE  ShapeOK'
  BY <1>10 DEF RemoveLoad
<1>11. ASSUME NEW p \in Procs, RemoveArchive(p)
       PROVE  ShapeOK'
  BY <1>11 DEF RemoveArchive, Enqueue
<1>12. ASSUME NEW p \in Procs, RemoveDelete(p)
       PROVE  ShapeOK'
  BY <1>12 DEF RemoveDelete
<1>13. ASSUME NEW p \in Procs, RemoveCount(p)
       PROVE  ShapeOK'
  BY <1>13 DEF RemoveCount
<1>14. ASSUME NEW p \in Procs, RemoveNotify(p)
       PROVE  ShapeOK'
  BY <1>14 DEF RemoveNotify
<1>15. CASE PersistOne
  BY <1>15 DEF PersistOne
<1>16. CASE TrackerStop \/ PersistExit
  BY <1>16 DEF TrackerStop, PersistExit
<1> QED
  BY <1>1, <1>2, <1>3, <1>4, <1>5, <1>6, <1>7, <1>8, <1>9, <1>10, <1>11, <1>12, <1>13, <1>14,
     <1>15, <1>16
  DEF TrackerNext, QuietStep, NotifyStep, HandlerStep, RemoveStep

(* A step that leaves the map, the counter and both sets alone.            *)
LEMMA QuietKeepsBound ==
    ASSUME CountBound, tracked' = tracked, activeCount' = activeCount,
           Uncounted' = Uncounted, Deleting' = Deleting
    PROVE  CountBound'
  BY DEF CountBound

(* Every step keeps the bound of the counter by the map and the calls in   *)
(* progress.                                                               *)
LEMMA BoundKeeps ==
    ASSUME IInv, TrackerNext
    PROVE  CountBound'
<1> USE DEF IInv, ShapeOK, TrackerTypeOK
<1>0. /\ tracked \subseteq Streams
      /\ IsFiniteSet(tracked) /\ IsFiniteSet(Uncounted) /\ IsFiniteSet(Deleting)
      /\ Cardinality(tracked) \in Nat /\ Cardinality(Uncounted) \in Nat
      /\ Cardinality(Deleting) \in Nat
      /\ activeCount \in Int
  BY FiniteParts
<1>1. ASSUME NEW s \in Streams, AddStore(s)
      PROVE  CountBound'
  <2>1. /\ tracked' = tracked \cup {s} /\ s \notin tracked
        /\ Uncounted' = Uncounted \cup {s} /\ s \notin Uncounted
        /\ Deleting' = Deleting /\ activeCount' = activeCount
    BY <1>1 DEF AddStore, Move, Uncounted, Deleting, NewAreUntracked
  <2>2. /\ Cardinality(tracked') = Cardinality(tracked) + 1
        /\ Cardinality(Uncounted') = Cardinality(Uncounted) + 1
    BY <1>0, <2>1, FS_AddElement
  <2> QED
    BY <1>0, <2>1, <2>2 DEF CountBound
<1>2. ASSUME NEW s \in Streams, AddCount(s)
      PROVE  CountBound'
  <2>1. /\ Uncounted' = Uncounted \ {s} /\ s \in Uncounted
        /\ Deleting' = Deleting /\ tracked' = tracked /\ activeCount' = activeCount + 1
    BY <1>2 DEF AddCount, Move, Uncounted, Deleting
  <2>2. Cardinality(Uncounted') = Cardinality(Uncounted) - 1
    BY <1>0, <2>1, FS_RemoveElement
  <2> QED
    BY <1>0, <2>1, <2>2 DEF CountBound
<1>3. ASSUME NEW p \in Procs, RemoveDelete(p)
      PROVE  CountBound'
  <2>1. /\ Deleting' = Deleting \cup {p} /\ p \notin Deleting
        /\ tracked' = tracked \ {target[p]}
        /\ Uncounted' = Uncounted /\ activeCount' = activeCount
    BY <1>3 DEF RemoveDelete, Advance, Uncounted, Deleting
  <2>2. Cardinality(Deleting') = Cardinality(Deleting) + 1
    BY <1>0, <2>1, FS_AddElement
  <2>3. Cardinality(tracked') >= Cardinality(tracked) - 1 /\ Cardinality(tracked') \in Nat
    <3>1. CASE target[p] \in tracked
      <4>1. Cardinality(tracked') = Cardinality(tracked) - 1
        BY <1>0, <2>1, <3>1, FS_RemoveElement
      <4>2. IsFiniteSet(tracked')
        BY <1>0, <2>1, FS_Subset
      <4>3. Cardinality(tracked') \in Nat
        BY <4>2, FS_CardinalityType
      <4> QED
        BY <1>0, <4>1, <4>3
    <3>2. CASE target[p] \notin tracked
      <4>1. tracked' = tracked
        BY <2>1, <3>2
      <4> QED
        BY <1>0, <4>1
    <3> QED
      BY <3>1, <3>2
  <2> QED
    BY <1>0, <2>1, <2>2, <2>3 DEF CountBound
<1>4. ASSUME NEW p \in Procs, RemoveCount(p)
      PROVE  CountBound'
  <2>1. /\ Deleting' = Deleting \ {p} /\ p \in Deleting
        /\ tracked' = tracked /\ Uncounted' = Uncounted /\ activeCount' = activeCount - 1
    BY <1>4 DEF RemoveCount, Advance, Uncounted, Deleting
  <2>2. Cardinality(Deleting') = Cardinality(Deleting) - 1
    BY <1>0, <2>1, FS_RemoveElement
  <2> QED
    BY <1>0, <2>1, <2>2 DEF CountBound
<1>5. ASSUME NEW s \in Streams,
             AddNotify(s) \/ SetCancelFunc(s) \/ HandlerDone(s) \/ KillStream(s)
      PROVE  CountBound'
  BY <1>5, QuietKeepsBound
  DEF AddNotify, SetCancelFunc, HandlerDone, KillStream, Move, mapVars, procVars, Uncounted, Deleting
<1>6. ASSUME NEW s \in Streams, HandlerReturns(s)
      PROVE  CountBound'
  <2>1. streamAt[s] = "out"
    BY <1>6 DEF HandlerReturns, Move, HandlersRemoveLast
  <2> QED
    BY <1>6, <2>1, QuietKeepsBound DEF HandlerReturns, Move, Uncounted, Deleting
<1>7. ASSUME NEW k \in Removers, Collect(k) \/ RemoveNext(k)
      PROVE  CountBound'
  BY <1>7, QuietKeepsBound DEF Collect, RemoveNext, mapVars, Uncounted, Deleting
<1>8. ASSUME NEW p \in Procs, RemoveLoad(p) \/ RemoveArchive(p) \/ RemoveNotify(p)
      PROVE  CountBound'
  BY <1>8, QuietKeepsBound
  DEF RemoveLoad, RemoveArchive, RemoveNotify, Advance, mapVars, Uncounted, Deleting
<1>9. CASE PersistOne \/ TrackerStop \/ PersistExit
  BY <1>9, QuietKeepsBound DEF PersistOne, TrackerStop, PersistExit, mapVars, procVars, Uncounted, Deleting
<1> QED
  BY <1>1, <1>2, <1>3, <1>4, <1>5, <1>6, <1>7, <1>8, <1>9
  DEF TrackerNext, QuietStep, NotifyStep, HandlerStep, RemoveStep

(* Every step of the tracker keeps its invariant. *)
LEMMA NextInvariant == IInv /\ [TrackerNext]_trackerVars => IInv'
<1>1. ASSUME IInv, TrackerNext PROVE IInv'
  BY <1>1, ShapeKeeps, BoundKeeps DEF IInv
<1>2. ASSUME IInv, UNCHANGED trackerVars PROVE IInv'
  BY <1>2 DEF trackerVars, mapVars, procVars, persistVars, IInv, ShapeOK, TrackerTypeOK, NewAreUntracked,
      HandlersRemoveLast, FoundAreStreams, CountBound, Uncounted, Deleting
<1> QED
  BY <1>1, <1>2

----------------------------------------------------------------------------
(* The theorems.                                                           *)

(* The strengthening of the properties below is an invariant of the        *)
(* tracker (stream_tracker.go).                                            *)
THEOREM TrackerInvariant == TrackerSpec => []IInv
  BY InitInvariant, NextInvariant, PTL DEF TrackerSpec

(* The variables keep their types, the history and the persistence queue   *)
(* their bounds.                                                           *)
THEOREM TypeCorrect == TrackerSpec => []TrackerTypeOK
<1>1. IInv => TrackerTypeOK
  BY DEF IInv, ShapeOK
<1> QED
  BY <1>1, TrackerInvariant, PTL

(* However removals of one stream interleave, the counter never reports    *)
(* more streams than the map holds once they are over: a finished playback *)
(* does not keep its import headroom.                                      *)
THEOREM FinishedStreamsAreNotCounted == TrackerSpec => []NoPhantomStreams
<1>1. IInv => NoPhantomStreams
  <2> SUFFICES ASSUME IInv, Settled
               PROVE  activeCount <= Cardinality(tracked)
    BY DEF NoPhantomStreams
  <2>1. Uncounted = {} /\ Deleting = {}
    BY DEF Settled, Uncounted, Deleting
  <2>2. Cardinality(tracked) \in Nat /\ activeCount \in Int
    BY FiniteParts DEF IInv, ShapeOK, TrackerTypeOK
  <2> QED
    BY <2>1, <2>2, FS_EmptySet DEF IInv, CountBound
<1> QED
  BY <1>1, TrackerInvariant, PTL
==============================================================================
