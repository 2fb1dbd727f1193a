---------------------------- MODULE ReaderHandover ----------------------------
(***************************************************************************)
(* How an open virtual file gets rid of its readers                        *)
(* (internal/nzbfilesystem/metadata_remote_file.go): Seek and the end of a *)
(* reader hand it over to a bounded pool of closer goroutines, and Close,  *)
(* from another goroutine, interrupts the reader without mvf.mu, shuts the *)
(* pool down and waits for it.                                             *)
(*                                                                         *)
(* Readers are numbered in the order they are opened.  A reader that waits *)
(* for a download returns sooner or later, by the provider's timeouts;     *)
(* closing one takes a while too.                                          *)
(***************************************************************************)
EXTENDS Integers, Sequences, FiniteSets

CONSTANTS
    Workers,       \* the closer goroutines
    QueueSize,     \* capacity of closerCh, closerWorkerCount as well
    MaxReaders     \* bound on the readers that are opened

ASSUME HandoverConstants == Workers # {} /\ QueueSize \in Nat /\ MaxReaders \in Nat

VARIABLES
    wrapped,       \* the reader is hidden in a remux wrapper
    reading,       \* the goroutine that reads: where it is
    closing,       \* the goroutine that calls Close: where it is
    lock,          \* mvf.mu
    current,       \* mvf.reader, 0 for none
    handle,        \* interruptHandle, 0 for none
    opened,        \* number of readers opened
    interrupted,   \* readers that have been interrupted
    closed,        \* readers whose Close has returned
    channel,       \* mvf.closerCh: "none", "open", and the pool's own: "closed"
    queue,         \* readers in the channel
    worker,        \* what each closer goroutine does
    inline         \* the reader that is closed under mvf.mu, 0 for none

pool == <<channel, queue, worker>>
readers == <<current, handle, opened, interrupted, closed>>
handoverVars == <<wrapped, reading, closing, lock, readers, pool, inline>>

HandoverInit ==
    /\ wrapped \in BOOLEAN
    /\ reading = "idle" /\ closing = "not yet" /\ lock = "free"
    /\ current = 0 /\ handle = 0 /\ opened = 0 /\ interrupted = {} /\ closed = {}
    /\ channel = "none" /\ queue = <<>>
    /\ worker = [w \in Workers |-> "not started"]
    /\ inline = 0

-----------------------------------------------------------------------------
(* The reading goroutine.                                                  *)

(* Close has cleared mvf.meta: a call that comes after it dereferences nil *)
(* and panics, which releases the lock.                                    *)
TakeLock ==
    /\ reading = "idle" /\ lock = "free"
    /\ IF closing \in {"draining", "done"}
       THEN reading' = "panicked" /\ UNCHANGED lock
       ELSE reading' = "holding" /\ lock' = "reading"
    /\ UNCHANGED <<wrapped, closing, readers, pool, inline>>

(* ensureReader; the wrapper of a remuxed file is set after the handle.    *)
Open ==
    /\ reading = "holding" /\ current = 0 /\ inline = 0 /\ opened < MaxReaders
    /\ opened' = opened + 1 /\ current' = opened + 1 /\ handle' = opened + 1
    /\ reading' = "waiting"
    /\ UNCHANGED <<wrapped, closing, lock, interrupted, closed, pool, inline>>

(* Another Read of the reader.                                             *)
ReadOn ==
    /\ reading = "holding" /\ current # 0
    /\ reading' = "waiting"
    /\ UNCHANGED <<wrapped, closing, lock, readers, pool, inline>>

(* The reader returns: with bytes, at its end, or because of an Interrupt. *)
ReaderReturns ==
    /\ reading = "waiting"
    /\ reading' = "holding"
    /\ UNCHANGED <<wrapped, closing, lock, readers, pool, inline>>

(* Faulty variant: the handed-over reader goes on with its downloads.      *)
AfterInterruptNone(r) == interrupted

(* An Interrupt of mvf.reader itself: a wrapper does not take it.          *)
AfterInterrupt(r) == IF wrapped THEN interrupted ELSE interrupted \cup {r}

(* Faulty variant: the queue takes one reader too many.                    *)
RoomLate == Len(queue) <= QueueSize
Room == Len(queue) < QueueSize

(* closeCurrentReader and enqueueCloser, for a Seek or at a reader's end:  *)
(* the pool is started with the first reader; when its queue is full the   *)
(* reader is closed here.                                                  *)
HandOver ==
    /\ reading = "holding" /\ current # 0
    /\ interrupted' = AfterInterrupt(current)
    /\ current' = 0 /\ handle' = 0
    /\ channel' = "open"
    /\ worker' = IF channel = "none" THEN [w \in Workers |-> "starting"] ELSE worker
    /\ IF Room
       THEN queue' = Append(queue, current) /\ UNCHANGED inline
       ELSE inline' = current /\ UNCHANGED queue
    /\ UNCHANGED <<wrapped, reading, closing, lock, opened, closed>>

(* The inline Close returns.                                               *)
InlineClosed ==
    /\ inline # 0
    /\ closed' = closed \cup {inline} /\ inline' = 0
    /\ UNCHANGED <<wrapped, reading, closing, lock, current, handle, opened, interrupted, pool>>

Unlock ==
    /\ reading = "holding" /\ inline = 0
    /\ reading' = "idle" /\ lock' = "free"
    /\ UNCHANGED <<wrapped, closing, readers, pool, inline>>

-----------------------------------------------------------------------------
(* The closer goroutines.  Each evaluates mvf.closerCh when it starts, and *)
(* once Close has cleared the field it waits on a nil channel for ever.    *)

WorkerStarts(w) ==
    /\ worker[w] = "starting"
    /\ worker' = [worker EXCEPT ![w] = IF channel = "closed" THEN "stuck" ELSE "ready"]
    /\ UNCHANGED <<wrapped, reading, closing, lock, readers, channel, queue, inline>>

WorkerTakes(w) ==
    /\ worker[w] = "ready" /\ queue # <<>>
    /\ worker' = [worker EXCEPT ![w] = "closing"]
    /\ closed' = closed \cup {Head(queue)}
    /\ queue' = Tail(queue)
    /\ UNCHANGED <<wrapped, reading, closing, lock, current, handle, opened, interrupted, channel,
                   inline>>

WorkerCloses(w) ==
    /\ worker[w] = "closing"
    /\ worker' = [worker EXCEPT ![w] = "ready"]
    /\ UNCHANGED <<wrapped, reading, closing, lock, readers, channel, queue, inline>>

(* Faulty variant: a worker ends as soon as the channel is closed.         *)
WorkerEndsAtOnce(w) ==
    /\ worker[w] = "ready" /\ channel = "closed"
    /\ worker' = [worker EXCEPT ![w] = "ended"]
    /\ UNCHANGED <<wrapped, reading, closing, lock, readers, channel, queue, inline>>

(* The range over the closed channel ends when it is drained.              *)
WorkerEnds(w) ==
    /\ worker[w] = "ready" /\ channel = "closed" /\ queue = <<>>
    /\ worker' = [worker EXCEPT ![w] = "ended"]
    /\ UNCHANGED <<wrapped, reading, closing, lock, readers, channel, queue, inline>>

WorkerStep(w) == WorkerStarts(w) \/ WorkerTakes(w) \/ WorkerCloses(w) \/ WorkerEnds(w)

-----------------------------------------------------------------------------
(* Close.                                                                  *)

(* interruptCurrentReader, without the lock.                               *)
CloseInterrupts ==
    /\ closing = "not yet"
    /\ closing' = "locking"
    /\ interrupted' = IF handle = 0 THEN interrupted ELSE interrupted \cup {handle}
    /\ UNCHANGED <<wrapped, reading, lock, current, handle, opened, closed, pool, inline>>

CloseLocks ==
    /\ closing = "locking" /\ lock = "free"
    /\ closing' = "holding" /\ lock' = "closing"
    /\ UNCHANGED <<wrapped, reading, readers, pool, inline>>

(* Faulty variant: the channel is not closed.                              *)
AfterShutOpen == channel

(* The channel is closed if there is one, and the field cleared.           *)
AfterShut == IF channel = "open" THEN "closed" ELSE channel

(* The current reader is closed under the lock.                            *)
CloseShuts ==
    /\ closing = "holding"
    /\ closed' = IF current = 0 THEN closed ELSE closed \cup {current}
    /\ current' = 0 /\ handle' = 0
    /\ channel' = AfterShut
    /\ closing' = "draining" /\ lock' = "free"
    /\ UNCHANGED <<wrapped, reading, opened, interrupted, queue, worker, inline>>

(* closeWg.Wait.                                                           *)
CloseReturns ==
    /\ closing = "draining"
    /\ \A w \in Workers : worker[w] \in {"not started", "ended"}
    /\ closing' = "done"
    /\ UNCHANGED <<wrapped, reading, lock, readers, pool, inline>>

HandoverNext ==
    \/ TakeLock \/ Open \/ ReadOn \/ ReaderReturns \/ HandOver \/ InlineClosed \/ Unlock
    \/ \E w \in Workers : WorkerStep(w)
    \/ CloseInterrupts \/ CloseLocks \/ CloseShuts \/ CloseReturns

(* A waiting read returns, whoever waits for a mutex gets it in the end,   *)
(* and the pool's goroutines run on.                                       *)
HandoverFairness ==
    /\ WF_handoverVars(ReaderReturns) /\ WF_handoverVars(InlineClosed)
    /\ SF_handoverVars(Unlock) /\ SF_handoverVars(CloseLocks)
    /\ WF_handoverVars(CloseShuts) /\ WF_handoverVars(CloseReturns)
    /\ \A w \in Workers : WF_handoverVars(WorkerStep(w))

HandoverSpec == HandoverInit /\ [][HandoverNext]_handoverVars /\ HandoverFairness

-----------------------------------------------------------------------------
(* Properties.                                                             *)

(* Every variable has a value of its type; the queue keeps its bound.      *)
HandoverTypeOK ==
    /\ wrapped \in BOOLEAN
    /\ reading \in {"idle", "holding", "waiting", "panicked"}
    /\ closing \in {"not yet", "locking", "holding", "draining", "done"}
    /\ lock \in {"free", "reading", "closing"}
    /\ opened \in 0..MaxReaders /\ current \in 0..opened /\ handle \in 0..opened
    /\ interrupted \subseteq 1..opened /\ closed \subseteq 1..opened
    /\ channel \in {"none", "open", "closed"}
    /\ queue \in Seq(1..opened) /\ Len(queue) <= QueueSize
    /\ worker \in [Workers -> {"not started", "starting", "ready", "closing", "ended", "stuck"}]
    /\ inline \in 0..opened

(* When Close returns, every reader that was ever opened is closed: none   *)
(* keeps the provider's connections.                                       *)
NothingStaysOpen == closing = "done" => closed = 1..opened

(* Of the readers that are not closed yet only the current one is still    *)
(* downloading, unless the file is remuxed.                                *)
OneReaderDownloads == ~wrapped => 1..opened \ (interrupted \cup closed) \subseteq {current}

(* Close comes to an end, also under a Read and with readers in the pool,  *)
(* unless it clears the channel before a goroutine of the pool has looked  *)
(* at it.                                                                  *)
CloseEnds == closing = "locking" ~> closing = "done" \/ \E w \in Workers : worker[w] = "stuck"

(* "Wait for the closer-worker pool to finish draining."                   *)
FileCloseReturns == closing = "locking" ~> closing = "done"

(* "Interrupt immediately so in-flight NNTP downloads stop consuming pool  *)
(* connections before the closer worker eventually calls Close()."         *)
HandedOverAreInterrupted == 1..opened \ (interrupted \cup closed) \subseteq {current}

(* "Close must be able to fire ctx-cancel on the in-flight reader before   *)
(* contending for the lock."                                               *)
CloseHasInterrupted == closing = "locking" /\ reading = "waiting" => current \in interrupted
===============================================================================
