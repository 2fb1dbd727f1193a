---------------------------- MODULE StreamTracker ----------------------------
(***************************************************************************)
(* The registry of active playback streams (internal/api/stream_tracker.go)*)
(* and the request handlers around it (internal/api/local_stream_handler.go*)
(* and its siblings).                                                      *)
(*                                                                         *)
(* A handler registers its stream, attaches a cancel function, serves, and *)
(* removes the stream when it returns.  The stop requests of the player    *)
(* API, the stale-stream cleanup and the snapshot loop remove the same     *)
(* streams from the outside.  The streams map is a sync.Map and the count  *)
(* an atomic counter, so Remove is not one step: it loads the entry,       *)
(* cancels and archives it, deletes it, decrements the counter and         *)
(* notifies the connection budget, and another Remove of the same stream   *)
(* may run anywhere in between.                                            *)
(***************************************************************************)
EXTENDS Integers, Sequences, FiniteSets

CONSTANTS
    Streams,        \* stream ids, one request handler each
    Removers,       \* goroutines that remove streams from the outside
    HistoryLimit,   \* playbackHistoryLimit (250)
    QueueLimit      \* capacity of persistQueue (256)

ASSUME Limits == HistoryLimit \in Nat \ {0} /\ QueueLimit \in Nat \ {0}

(* A handler serves one stream and removes no other.                       *)
ASSUME ProcsFinite ==
    /\ IsFiniteSet(Streams)
    /\ IsFiniteSet(Removers)
    /\ Streams \cap Removers = {}

Procs == Streams \cup Removers

NoStream == "none"

VARIABLES
    tracked,       \* ids in the streams map
    activeCount,   \* t.activeCount
    cancelSet,     \* ids whose entry has a cancel function
    streamCancelled,     \* ids whose request context is cancelled
    life,          \* each handler's progress
    todo,          \* ids a remover has collected and still has to remove
    streamAt,            \* each process's progress inside Remove
    target,        \* the id that Remove works on
    history,       \* t.history, oldest first
    persistQueue,  \* t.persistQueue
    stored,        \* ids in the playback history table
    early,         \* ids queued before Stop was called
    writer         \* playbackPersistenceLoop and Stop

mapVars == <<tracked, activeCount, cancelSet, streamCancelled>>
procVars == <<life, todo, streamAt, target>>
persistVars == <<persistQueue, stored, early, writer>>
trackerVars == <<mapVars, procVars, history, persistVars>>

LifeStates == {"new", "stored", "counted", "announced", "serving", "closing", "done"}

RemoveStates == {"out", "load", "found", "archived", "deleted", "decremented"}

TrackerInit ==
    /\ tracked = {}
    /\ activeCount = 0
    /\ cancelSet = {}
    /\ streamCancelled = {}
    /\ life = [s \in Streams |-> "new"]
    /\ todo = [k \in Removers |-> {}]
    /\ streamAt = [p \in Procs |-> "out"]
    /\ target = [p \in Procs |-> NoStream]
    /\ history = <<>>
    /\ persistQueue = <<>>
    /\ stored = {}
    /\ early = {}
    /\ writer = "running"

----------------------------------------------------------------------------
(* AddStream, and the handler around it.                                   *)

Move(s, from, to) ==
    /\ life[s] = from
    /\ life' = [life EXCEPT ![s] = to]

AddStore(s) ==
    /\ Move(s, "new", "stored")
    /\ tracked' = tracked \cup {s}
    /\ UNCHANGED <<activeCount, cancelSet, streamCancelled, todo, streamAt, target,
                   history, persistVars>>

AddCount(s) ==
    /\ Move(s, "stored", "counted")
    /\ activeCount' = activeCount + 1
    /\ UNCHANGED <<tracked, cancelSet, streamCancelled, todo, streamAt, target,
                   history, persistVars>>

AddNotify(s) ==
    /\ Move(s, "counted", "announced")
    /\ UNCHANGED <<mapVars, todo, streamAt, target, history, persistVars>>

(* SetCancelFunc does nothing when the entry is gone already.              *)
SetCancelFunc(s) ==
    /\ Move(s, "announced", "serving")
    /\ cancelSet' = IF s \in tracked THEN cancelSet \cup {s} ELSE cancelSet
    /\ UNCHANGED <<tracked, activeCount, streamCancelled, todo, streamAt, target,
                   history, persistVars>>

(* Faulty variant: the deferred cleanup only cancels.                      *)
HandlerReturnsKeepsEntry(s) ==
    /\ Move(s, "serving", "closing")
    /\ streamCancelled' = streamCancelled \cup {s}
    /\ UNCHANGED <<tracked, activeCount, cancelSet, todo, streamAt, target,
                   history, persistVars>>

(* The client went away, or the context was cancelled: the deferred        *)
(* cleanup cancels the context and calls Remove.                           *)
HandlerReturns(s) ==
    /\ Move(s, "serving", "closing")
    /\ streamCancelled' = streamCancelled \cup {s}
    /\ streamAt' = [streamAt EXCEPT ![s] = "load"]
    /\ target' = [target EXCEPT ![s] = s]
    /\ UNCHANGED <<tracked, activeCount, cancelSet, todo, history, persistVars>>

HandlerDone(s) ==
    /\ streamAt[s] = "out"
    /\ Move(s, "closing", "done")
    /\ UNCHANGED <<mapVars, todo, streamAt, target, history, persistVars>>

----------------------------------------------------------------------------
(* Removal from the outside.                                               *)

(* KillStreamsForPlayer, cleanupStale and snapshotLoop collect the ids     *)
(* that match: whether one does is decided by names and times.             *)
Collect(k) ==
    /\ streamAt[k] = "out"
    /\ todo[k] = {}
    /\ \E ids \in SUBSET tracked :
         /\ ids # {}
         /\ todo' = [todo EXCEPT ![k] = ids]
    /\ UNCHANGED <<mapVars, life, streamAt, target, history, persistVars>>

RemoveNext(k) ==
    /\ streamAt[k] = "out"
    /\ \E s \in todo[k] :
         /\ todo' = [todo EXCEPT ![k] = @ \ {s}]
         /\ target' = [target EXCEPT ![k] = s]
    /\ streamAt' = [streamAt EXCEPT ![k] = "load"]
    /\ UNCHANGED <<mapVars, life, history, persistVars>>

(* KillStream, from the admin API: cancels the context, removes nothing.   *)
KillStream(s) ==
    /\ s \in tracked
    /\ s \in cancelSet
    /\ streamCancelled' = streamCancelled \cup {s}
    /\ UNCHANGED <<tracked, activeCount, cancelSet, procVars, history, persistVars>>

----------------------------------------------------------------------------
(* Remove(id), by process p.                                               *)

Advance(p, from, to) ==
    /\ streamAt[p] = from
    /\ streamAt' = [streamAt EXCEPT ![p] = to]

RemoveLoad(p) ==
    /\ Advance(p, "load", IF target[p] \in tracked THEN "found" ELSE "out")
    /\ UNCHANGED <<mapVars, life, todo, target, history, persistVars>>

(* persistPlaybackHistory: dropped when the queue is full.                 *)
Enqueue(s) ==
    /\ persistQueue' = IF Len(persistQueue) < QueueLimit
                       THEN Append(persistQueue, s) ELSE persistQueue
    /\ early' = IF writer = "running" /\ Len(persistQueue) < QueueLimit
                THEN early \cup {s} ELSE early
    /\ UNCHANGED <<stored, writer>>

(* Faulty variant: the stream's context is never cancelled.                *)
RemoveArchiveForgetsCancel(p) ==
    LET s == target[p] IN
    /\ Advance(p, "found", "archived")
    /\ history' = Append(IF Len(history) >= HistoryLimit THEN Tail(history)
                         ELSE history, s)
    /\ Enqueue(s)
    /\ UNCHANGED <<mapVars, life, todo, target>>

(* Faulty variant: the history grows one past its limit.                   *)
RemoveArchiveUnbounded(p) ==
    LET s == target[p] IN
    /\ Advance(p, "found", "archived")
    /\ streamCancelled' = IF s \in cancelSet THEN streamCancelled \cup {s} ELSE streamCancelled
    /\ history' = Append(IF Len(history) > HistoryLimit THEN Tail(history)
                         ELSE history, s)
    /\ Enqueue(s)
    /\ UNCHANGED <<tracked, activeCount, cancelSet, life, todo, target>>

(* Cancel the context, append to the bounded history, queue for the table. *)
RemoveArchive(p) ==
    LET s == target[p] IN
    /\ Advance(p, "found", "archived")
    /\ streamCancelled' = IF s \in cancelSet THEN streamCancelled \cup {s} ELSE streamCancelled
    /\ history' = Append(IF Len(history) >= HistoryLimit THEN Tail(history)
                         ELSE history, s)
    /\ Enqueue(s)
    /\ UNCHANGED <<tracked, activeCount, cancelSet, life, todo, target>>

RemoveDelete(p) ==
    /\ Advance(p, "archived", "deleted")
    /\ tracked' = tracked \ {target[p]}
    /\ UNCHANGED <<activeCount, cancelSet, streamCancelled, life, todo, target,
                   history, persistVars>>

(* Faulty variant: the counter is only decremented while other streams run.*)
RemoveCountKeepsLast(p) ==
    /\ Advance(p, "deleted", "decremented")
    /\ activeCount' = IF tracked = {} THEN activeCount ELSE activeCount - 1
    /\ UNCHANGED <<tracked, cancelSet, streamCancelled, life, todo, target,
                   history, persistVars>>

RemoveCount(p) ==
    /\ Advance(p, "deleted", "decremented")
    /\ activeCount' = activeCount - 1
    /\ UNCHANGED <<tracked, cancelSet, streamCancelled, life, todo, target,
                   history, persistVars>>

RemoveNotify(p) ==
    /\ Advance(p, "decremented", "out")
    /\ UNCHANGED <<mapVars, life, todo, target, history, persistVars>>

----------------------------------------------------------------------------
(* Persistence of the playback history.                                    *)

(* One record is written, or the database refuses it and it is dropped.    *)
PersistOne ==
    /\ writer \in {"running", "stopping"}
    /\ persistQueue # <<>>
    /\ persistQueue' = Tail(persistQueue)
    /\ stored' \in {stored, stored \cup {Head(persistQueue)}}
    /\ early' = early \ {Head(persistQueue)}
    /\ UNCHANGED <<mapVars, procVars, history, writer>>

(* Stop closes t.done; it may come while requests are still running, as    *)
(* the HTTP server's shutdown gives up after a timeout.                    *)
TrackerStop ==
    /\ writer = "running"
    /\ writer' = "stopping"
    /\ UNCHANGED <<mapVars, procVars, history, persistQueue, stored, early>>

(* Faulty variant: the loop leaves without draining the queue.             *)
PersistExitEarly ==
    /\ writer = "stopping"
    /\ writer' = "stopped"
    /\ UNCHANGED <<mapVars, procVars, history, persistQueue, stored, early>>

(* The loop saw t.done and found the queue empty.                          *)
PersistExit ==
    /\ writer = "stopping"
    /\ persistQueue = <<>>
    /\ writer' = "stopped"
    /\ UNCHANGED <<mapVars, procVars, history, persistQueue, stored, early>>

----------------------------------------------------------------------------
HandlerStep(s) ==
    \/ AddStore(s) \/ AddCount(s) \/ SetCancelFunc(s)
    \/ HandlerReturns(s) \/ HandlerDone(s)

RemoveStep(p) ==
    \/ RemoveLoad(p) \/ RemoveArchive(p) \/ RemoveDelete(p) \/ RemoveCount(p)

(* Steps of the tracker that do not call the connection budget.            *)
QuietStep ==
    \/ \E s \in Streams : HandlerStep(s) \/ KillStream(s)
    \/ \E k \in Removers : Collect(k) \/ RemoveNext(k)
    \/ \E p \in Procs : RemoveStep(p)
    \/ PersistOne \/ TrackerStop \/ PersistExit

(* Steps that end in NotifyStreamChange.                                   *)
NotifyStep ==
    \/ \E s \in Streams : AddNotify(s)
    \/ \E p \in Procs : RemoveNotify(p)

TrackerNext == QuietStep \/ NotifyStep

TrackerSpec == TrackerInit /\ [][TrackerNext]_trackerVars

(* A request handler that is running keeps running, one whose context is   *)
(* cancelled returns, Remove runs to its end, and the writer goroutine     *)
(* runs.  No client has to go away and nobody has to stop a stream.        *)
TrackerFairness ==
    /\ \A s \in Streams :
         /\ WF_trackerVars(AddCount(s) \/ AddNotify(s) \/ SetCancelFunc(s))
         /\ WF_trackerVars(s \in streamCancelled /\ HandlerReturns(s))
         /\ WF_trackerVars(HandlerDone(s))
    /\ \A p \in Procs : WF_trackerVars(RemoveStep(p) \/ RemoveNotify(p))
    /\ \A k \in Removers : WF_trackerVars(RemoveNext(k))
    /\ WF_trackerVars(PersistOne)
    /\ WF_trackerVars(PersistExit)

TrackerFairSpec == TrackerSpec /\ TrackerFairness

----------------------------------------------------------------------------
(* Properties.                                                             *)

(* The variables keep their types, and the two buffers their bounds.       *)
TrackerTypeOK ==
    /\ tracked \subseteq Streams
    /\ activeCount \in Int
    /\ cancelSet \subseteq Streams
    /\ streamCancelled \subseteq Streams
    /\ life \in [Streams -> LifeStates]
    /\ todo \in [Removers -> SUBSET Streams]
    /\ streamAt \in [Procs -> RemoveStates]
    /\ target \in [Procs -> Streams \cup {NoStream}]
    /\ history \in Seq(Streams) /\ Len(history) <= HistoryLimit
    /\ persistQueue \in Seq(Streams) /\ Len(persistQueue) <= QueueLimit
    /\ stored \subseteq Streams
    /\ early \subseteq Streams
    /\ writer \in {"running", "stopping", "stopped"}

(* Nobody is inside AddStream, and nobody between deleting an entry and    *)
(* decrementing the counter.                                               *)
Settled ==
    /\ \A s \in Streams : life[s] # "stored"
    /\ \A p \in Procs : streamAt[p] # "deleted"

(* The counter never reports a stream that is gone: an ended playback does *)
(* not keep its import headroom.                                           *)
NoPhantomStreams == Settled => activeCount <= Cardinality(tracked)

(* "activeCount is the exact number of entries currently in the streams    *)
(* map" (stream_tracker.go:55), read between operations.                   *)
ActiveCountExact == Settled => activeCount = Cardinality(tracked)

(* Stop waits until every record queued before it was called has been      *)
(* handed to the database.                                                 *)
StopFlushesQueue == writer = "stopped" => early = {}

(* "KillStreamsForPlayer cancels and removes active streams"               *)
(* (stream_tracker.go:851): nobody is served whom the tracker forgot.      *)
ServedAreTracked ==
    \A s \in Streams :
        life[s] = "serving" /\ s \notin tracked => s \in streamCancelled

Ended(s) == life[s] = "done" /\ s \notin tracked

(* A stream whose context is cancelled ends: its handler returns and the   *)
(* tracker forgets it.                                                     *)
CancelledStreamsEnd ==
    \A s \in Streams : s \in streamCancelled ~> Ended(s)

(* A stop request or clean-up that picked a serving stream ends it, even   *)
(* when the handler and other stop requests remove it at the same time;    *)
(* unless one of them got hold of the entry before its cancel function.    *)
SweptStreamsEnd ==
    \A s \in Streams, k \in Removers :
        /\ s \in todo[k] /\ s \in tracked \cap cancelSet
        /\ \A p \in Procs : target[p] = s => streamAt[p] # "archived"
        ~> Ended(s)
==============================================================================
