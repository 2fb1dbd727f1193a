----------------------------- MODULE Files_proofs -----------------------------
(***************************************************************************)
(* Proofs about ReaderHandover, FileCursor and LibraryScan.                *)
(***************************************************************************)
EXTENDS ReaderHandover, FileCursor, LibraryScan, SequenceTheorems, TLAPS

-----------------------------------------------------------------------------
(* ReaderHandover.                                                         *)

Queued == {queue[i] : i \in 1..Len(queue)}

(* Who holds mvf.mu; after Close nobody reads any more.                    *)
LockIsHeld ==
    /\ lock = "reading" <=> reading \in {"holding", "waiting"}
    /\ lock = "closing" <=> closing = "holding"
    /\ inline # 0 => reading = "holding" /\ current = 0
    /\ closing \in {"draining", "done"} => reading \in {"idle", "panicked"} /\ current = 0

(* The pool is there from the first reader handed over, and a goroutine    *)
(* of it ends only when the channel is closed and empty.                   *)
PoolIsThere ==
    /\ channel = "none" => queue = <<>> /\ \A w \in Workers : worker[w] = "not started"
    /\ channel # "none" => \A w \in Workers : worker[w] # "not started"
    /\ \A w \in Workers : worker[w] = "ended" => channel = "closed" /\ queue = <<>>
    /\ channel = "closed" => closing \in {"draining", "done"}

(* A reader that was opened is closed, or somebody has it.                 *)
NoReaderIsLost == 1..opened \subseteq closed \cup Queued \cup {current, inline}

HandoverInv ==
    /\ HandoverTypeOK /\ LockIsHeld /\ PoolIsThere /\ NoReaderIsLost /\ NothingStaysOpen

(* HandoverTypeOK in parts: the queue, numbers of readers, and states.     *)
QueueTyped == queue \in Seq(1..opened) /\ Len(queue) <= QueueSize
ReadersTyped ==
    /\ opened \in 0..MaxReaders /\ current \in 0..opened /\ handle \in 0..opened
    /\ interrupted \subseteq 1..opened /\ closed \subseteq 1..opened
    /\ inline \in 0..opened
StatesTyped ==
    /\ wrapped \in BOOLEAN
    /\ reading \in {"idle", "holding", "waiting", "panicked"}
    /\ closing \in {"not yet", "locking", "holding", "draining", "done"}
    /\ lock \in {"free", "reading", "closing"}
    /\ channel \in {"none", "open", "closed"}
    /\ worker \in [Workers -> {"not started", "starting", "ready", "closing", "ended", "stuck"}]
CountsTyped == ReadersTyped /\ StatesTyped

(* The type invariant in two parts: the numbers and the channel. *)
LEMMA HandoverParts ==
    /\ HandoverTypeOK <=> CountsTyped /\ QueueTyped
    /\ HandoverTypeOK' <=> CountsTyped' /\ QueueTyped'
BY DEF HandoverTypeOK, CountsTyped, ReadersTyped, StatesTyped, QueueTyped

(* Reader 0 is no reader; the handles name readers that were opened. *)
LEMMA ReaderNumbers ==
    ASSUME CountsTyped
    PROVE  /\ opened \in Nat /\ 0 \in 0..opened /\ 0 \notin 1..opened
           /\ current # 0 => current \in 1..opened
           /\ handle # 0 => handle \in 1..opened
           /\ inline # 0 => inline \in 1..opened
BY HandoverConstants DEF CountsTyped, ReadersTyped

(* A step that leaves the channel alone keeps its type and its readers. *)
LEMMA SameQueue ==
    ASSUME QueueTyped, UNCHANGED <<queue, opened>>
    PROVE  QueueTyped' /\ Queued' = Queued /\ (queue = <<>> <=> queue' = <<>>)
BY DEF QueueTyped, Queued

(* No reader is open and the channel is empty at first. *)
LEMMA HandoverInit1 == HandoverInit => HandoverInv
<1> SUFFICES ASSUME HandoverInit
             PROVE  HandoverInv
  OBVIOUS
<1>0. /\ opened = 0 /\ current = 0 /\ handle = 0 /\ inline = 0 /\ interrupted = {} /\ closed = {}
      /\ queue = <<>>
  BY DEF HandoverInit
<1>1. QueueTyped
  <2>1. queue \in Seq(1..opened) /\ Len(queue) = 0
    BY <1>0, EmptySeq
  <2> QED BY <2>1, HandoverConstants DEF QueueTyped
<1>2. ReadersTyped
  BY <1>0, HandoverConstants DEF ReadersTyped
<1>3. StatesTyped
  BY DEF StatesTyped, HandoverInit
<1>4. LockIsHeld /\ PoolIsThere
  BY DEF LockIsHeld, PoolIsThere, HandoverInit
<1>5. NoReaderIsLost /\ NothingStaysOpen
  <2>1. 1..opened = {}
    BY <1>0
  <2> QED BY <1>0, <2>1 DEF NoReaderIsLost, NothingStaysOpen
<1> QED BY <1>1, <1>2, <1>3, <1>4, <1>5, HandoverParts DEF HandoverInv, CountsTyped

(* A step that leaves the queue, the pool and the readers there are.       *)
LEMMA QuietSteps ==
    ASSUME HandoverInv, UNCHANGED <<queue, channel, worker, opened, closed>>,
           {current, inline} \ {0} \subseteq {current', inline'},
           CountsTyped', LockIsHeld',
           \/ closing' = closing
           \/ closing \in {"not yet", "locking"} /\ closing' \in {"locking", "holding"}
    PROVE  HandoverInv'
<1>1. CountsTyped /\ QueueTyped /\ PoolIsThere /\ NoReaderIsLost /\ NothingStaysOpen
  BY HandoverParts DEF HandoverInv
<1>2. QueueTyped' /\ Queued' = Queued
  BY <1>1, SameQueue
<1>3. PoolIsThere'
  <2>1. channel = "closed" => closing' \in {"draining", "done"}
    BY <1>1 DEF PoolIsThere
  <2> QED BY <1>1, <1>2, <2>1, SameQueue DEF PoolIsThere
<1>4. NoReaderIsLost'
  <2>1. 0 \notin 1..opened
    BY <1>1, ReaderNumbers
  <2> QED BY <1>1, <1>2, <2>1 DEF NoReaderIsLost
<1>5. NothingStaysOpen'
  BY <1>1 DEF NothingStaysOpen
<1> QED BY <1>2, <1>3, <1>4, <1>5, HandoverParts DEF HandoverInv

(* Steps that open and close nothing: locking, reading, returning,         *)
(* interrupting.                                                           *)
LEMMA ReadingKeeps ==
    ASSUME HandoverInv, TakeLock \/ ReadOn \/ ReaderReturns \/ Unlock \/ CloseInterrupts \/ CloseLocks
    PROVE  HandoverInv'
<1>0. CountsTyped /\ LockIsHeld
  BY HandoverParts DEF HandoverInv
<1> USE DEF readers, pool
<1>1. CASE TakeLock
  <2>1. CountsTyped' /\ LockIsHeld'
    BY <1>0, <1>1 DEF TakeLock, CountsTyped, ReadersTyped, StatesTyped, LockIsHeld
  <2> QED BY <1>1, <2>1, QuietSteps DEF TakeLock
<1>2. CASE ReadOn
  <2>1. CountsTyped' /\ LockIsHeld'
    BY <1>0, <1>2 DEF ReadOn, CountsTyped, ReadersTyped, StatesTyped, LockIsHeld
  <2> QED BY <1>2, <2>1, QuietSteps DEF ReadOn
<1>3. CASE ReaderReturns
  <2>1. CountsTyped' /\ LockIsHeld'
    BY <1>0, <1>3 DEF ReaderReturns, CountsTyped, ReadersTyped, StatesTyped, LockIsHeld
  <2> QED BY <1>3, <2>1, QuietSteps DEF ReaderReturns
<1>4. CASE Unlock
  <2>1. CountsTyped' /\ LockIsHeld'
    BY <1>0, <1>4 DEF Unlock, CountsTyped, ReadersTyped, StatesTyped, LockIsHeld
  <2> QED BY <1>4, <2>1, QuietSteps DEF Unlock
<1>5. CASE CloseInterrupts
  <2>1. handle # 0 => handle \in 1..opened
    BY <1>0, ReaderNumbers
  <2>2. CountsTyped' /\ LockIsHeld'
    BY <1>0, <1>5, <2>1 DEF CloseInterrupts, CountsTyped, ReadersTyped, StatesTyped, LockIsHeld
  <2> QED BY <1>5, <2>2, QuietSteps DEF CloseInterrupts
<1>6. CASE CloseLocks
  <2>1. CountsTyped' /\ LockIsHeld'
    BY <1>0, <1>6 DEF CloseLocks, CountsTyped, ReadersTyped, StatesTyped, LockIsHeld
  <2> QED BY <1>6, <2>1, QuietSteps DEF CloseLocks
<1> QED BY <1>1, <1>2, <1>3, <1>4, <1>5, <1>6

(* A new reader has the next number, so it is in nobody's hands but the    *)
(* handle's.                                                               *)
LEMMA OpenKeeps ==
    ASSUME HandoverInv, Open
    PROVE  HandoverInv'
<1>0. CountsTyped /\ QueueTyped /\ LockIsHeld /\ PoolIsThere /\ NoReaderIsLost
  BY HandoverParts DEF HandoverInv
<1>1. /\ opened \in Nat /\ opened' = opened + 1 /\ opened' \in 0..MaxReaders
      /\ current = 0 /\ inline = 0 /\ current' = opened' /\ handle' = opened'
      /\ reading = "holding" /\ reading' = "waiting"
      /\ UNCHANGED <<wrapped, closing, lock, interrupted, closed, channel, queue, worker, inline>>
  <2>1. opened \in Nat
    BY <1>0, ReaderNumbers
  <2>2. opened < MaxReaders /\ opened' = opened + 1
    BY DEF Open
  <2>3. opened' \in 0..MaxReaders
    BY <2>1, <2>2, HandoverConstants
  <2> QED BY <2>1, <2>2, <2>3 DEF Open, pool
<1>2. /\ 1..opened \subseteq 1..opened' /\ 0..opened \subseteq 0..opened' /\ opened' \in 0..opened'
      /\ 1..opened' = (1..opened) \cup {opened'}
  BY <1>1
<1>3. CountsTyped'
  BY <1>0, <1>1, <1>2 DEF CountsTyped, ReadersTyped, StatesTyped
<1>4. QueueTyped' /\ Queued' = Queued
  BY <1>0, <1>1, <1>2, SeqMonotonic DEF QueueTyped, Queued
<1>5. LockIsHeld' /\ closing \notin {"draining", "done"}
  BY <1>0, <1>1 DEF LockIsHeld
<1>6. PoolIsThere'
  BY <1>0, <1>1 DEF PoolIsThere
<1>7. NoReaderIsLost'
  <2>1. 0 \notin 1..opened
    BY <1>1
  <2> QED BY <1>0, <1>1, <1>2, <1>4, <2>1 DEF NoReaderIsLost
<1>8. NothingStaysOpen'
  BY <1>1, <1>5 DEF NothingStaysOpen
<1> QED BY <1>3, <1>4, <1>5, <1>6, <1>7, <1>8, HandoverParts DEF HandoverInv

(* The reader closed under the lock was in one place only. *)
LEMMA InlineKeeps ==
    ASSUME HandoverInv, InlineClosed
    PROVE  HandoverInv'
<1>0. CountsTyped /\ QueueTyped /\ LockIsHeld /\ PoolIsThere /\ NoReaderIsLost
  BY HandoverParts DEF HandoverInv
<1>1. /\ inline # 0 /\ closed' = closed \cup {inline} /\ inline' = 0
      /\ UNCHANGED <<wrapped, reading, closing, lock, current, handle, opened, interrupted, channel,
                     queue, worker>>
  BY DEF InlineClosed, pool
<1>2. inline \in 1..opened
  BY <1>0, <1>1, ReaderNumbers
<1>3. CountsTyped'
  <2>1. 0 \in 0..opened
    BY <1>0, ReaderNumbers
  <2> QED BY <1>0, <1>1, <1>2, <2>1 DEF CountsTyped, ReadersTyped, StatesTyped
<1>4. QueueTyped' /\ Queued' = Queued
  BY <1>0, <1>1, SameQueue
<1>5. LockIsHeld' /\ closing \notin {"draining", "done"}
  BY <1>0, <1>1 DEF LockIsHeld
<1>6. PoolIsThere'
  BY <1>0, <1>1 DEF PoolIsThere
<1>7. NoReaderIsLost'
  BY <1>0, <1>1, <1>4 DEF NoReaderIsLost
<1>8. NothingStaysOpen'
  BY <1>1, <1>5 DEF NothingStaysOpen
<1> QED BY <1>3, <1>4, <1>5, <1>6, <1>7, <1>8, HandoverParts DEF HandoverInv

(* A reader that is given up goes to the channel, to a closer, or is       *)
(* closed inline.                                                          *)
LEMMA HandOverKeeps ==
    ASSUME HandoverInv, HandOver
    PROVE  HandoverInv'
<1>t. CountsTyped /\ QueueTyped /\ LockIsHeld /\ PoolIsThere /\ NoReaderIsLost
  BY HandoverParts DEF HandoverInv
<1>0. /\ reading = "holding" /\ closing \notin {"draining", "done"} /\ channel # "closed"
      /\ inline = 0 /\ current # 0
  BY <1>t DEF HandOver, LockIsHeld, PoolIsThere
<1>c. current \in 1..opened /\ opened \in Nat
  BY <1>t, <1>0, ReaderNumbers
<1>1. /\ UNCHANGED <<wrapped, reading, closing, lock, opened, closed>> /\ current' = 0 /\ handle' = 0
      /\ channel' = "open"
      /\ worker' = IF channel = "none" THEN [w \in Workers |-> "starting"] ELSE worker
      /\ interrupted' = AfterInterrupt(current)
  BY DEF HandOver
<1>q. QueueTyped' /\ Queued \cup {current} \subseteq Queued' \cup {inline'} /\ inline' \in 0..opened
  <2>1. CASE Room
    <3>1. queue' = Append(queue, current) /\ inline' = inline
      BY <2>1 DEF HandOver
    <3>2. queue \in Seq(1..opened) /\ Len(queue) \in Nat
      BY <1>t, LenProperties DEF QueueTyped
    <3>3. /\ Len(queue') = Len(queue) + 1 /\ queue' \in Seq(1..opened)
          /\ \A i \in 1..Len(queue) : queue'[i] = queue[i]
          /\ queue'[Len(queue) + 1] = current
      BY <3>1, <3>2, <1>c
    <3>4. QueueTyped'
      BY <3>2, <3>3, <2>1, <1>1, HandoverConstants DEF Room, QueueTyped
    <3>5. Queued \subseteq Queued'
      <4> SUFFICES ASSUME NEW i \in 1..Len(queue)
                   PROVE  queue[i] \in Queued'
        BY DEF Queued
      <4>1. i \in 1..Len(queue')
        BY <3>2, <3>3
      <4> QED BY <4>1, <3>3 DEF Queued
    <3>6. current \in Queued'
      <4>1. Len(queue) + 1 \in 1..Len(queue')
        BY <3>2, <3>3
      <4> QED BY <4>1, <3>3 DEF Queued
    <3>7. inline' \in 0..opened
      BY <3>1, <1>0, <1>c
    <3> QED BY <3>4, <3>5, <3>6, <3>7
  <2>2. CASE ~Room
    <3>1. queue' = queue /\ inline' = current
      BY <2>2 DEF HandOver
    <3>2. QueueTyped' /\ Queued' = Queued
      BY <3>1, <1>t, <1>1, SameQueue
    <3> QED BY <3>1, <3>2, <1>c
  <2> QED BY <2>1, <2>2
<1>2. CountsTyped'
  <2>1. worker' \in [Workers -> {"not started", "starting", "ready", "closing", "ended", "stuck"}]
    BY <1>1, <1>t DEF CountsTyped, ReadersTyped, StatesTyped
  <2>2. interrupted' \subseteq 1..opened
    BY <1>1, <1>c, <1>t DEF AfterInterrupt, CountsTyped, ReadersTyped, StatesTyped
  <2>3. 0 \in 0..opened
    BY <1>c
  <2> QED BY <1>1, <1>q, <1>t, <2>1, <2>2, <2>3 DEF CountsTyped, ReadersTyped, StatesTyped
<1>3. LockIsHeld'
  BY <1>t, <1>0, <1>1 DEF LockIsHeld
<1>4. PoolIsThere'
  <2>1. \A w \in Workers : worker'[w] \notin {"not started", "ended"}
    BY <1>t, <1>0, <1>1 DEF PoolIsThere, CountsTyped, ReadersTyped, StatesTyped
  <2> QED BY <1>1, <2>1 DEF PoolIsThere
<1>5. NoReaderIsLost'
  <2>1. 0 \notin 1..opened
    BY <1>c
  <2> QED BY <1>t, <1>0, <1>1, <1>q, <2>1 DEF NoReaderIsLost
<1>6. NothingStaysOpen'
  BY <1>0, <1>1 DEF NothingStaysOpen
<1> QED BY <1>2, <1>3, <1>4, <1>5, <1>6, <1>q, HandoverParts DEF HandoverInv

(* A closer takes the head of the channel and closes it; a reader is       *)
(* queued, taken or closed.                                                *)
LEMMA WorkersKeep ==
    ASSUME HandoverInv, NEW w \in Workers, WorkerStep(w)
    PROVE  HandoverInv'
<1>t. CountsTyped /\ QueueTyped /\ LockIsHeld /\ PoolIsThere /\ NoReaderIsLost /\ NothingStaysOpen
  BY HandoverParts DEF HandoverInv
<1>1. CASE WorkerStarts(w) \/ WorkerCloses(w) \/ WorkerEnds(w)
  <2>1. UNCHANGED <<wrapped, reading, closing, lock, current, handle, opened, interrupted, closed,
                    channel, queue, inline>>
    BY <1>1 DEF WorkerStarts, WorkerCloses, WorkerEnds, readers
  <2>2. CountsTyped'
    BY <1>1, <1>t, <2>1 DEF WorkerStarts, WorkerCloses, WorkerEnds, CountsTyped, ReadersTyped, StatesTyped
  <2>3. PoolIsThere'
    BY <1>1, <1>t, <2>1
       DEF WorkerStarts, WorkerCloses, WorkerEnds, CountsTyped, ReadersTyped, StatesTyped, PoolIsThere
  <2>4. QueueTyped' /\ Queued' = Queued
    BY <1>t, <2>1, SameQueue
  <2>5. LockIsHeld' /\ NoReaderIsLost' /\ NothingStaysOpen'
    BY <1>t, <2>1, <2>4 DEF LockIsHeld, NoReaderIsLost, NothingStaysOpen
  <2> QED BY <2>2, <2>3, <2>4, <2>5, HandoverParts DEF HandoverInv
<1>2. CASE WorkerTakes(w)
  <2>1. queue \in Seq(1..opened) /\ queue # <<>> /\ queue' = Tail(queue)
    BY <1>2, <1>t DEF WorkerTakes, QueueTyped
  <2>2. /\ queue' \in Seq(1..opened) /\ Len(queue') = Len(queue) - 1 /\ Len(queue) \in Nat
        /\ \A i \in 1..Len(queue') : queue'[i] = queue[i + 1]
        /\ Head(queue) \in 1..opened
    BY <2>1, HeadTailProperties, LenProperties
  <2>3. Head(queue) = queue[1]
    BY <2>1
  <2>4. Queued \subseteq Queued' \cup {Head(queue)}
    <3> SUFFICES ASSUME NEW i \in 1..Len(queue), i # 1
                 PROVE  queue[i] \in Queued'
      BY <2>3 DEF Queued
    <3>1. i - 1 \in 1..Len(queue') /\ (i - 1) + 1 = i
      BY <2>2
    <3>2. queue'[i - 1] = queue[i]
      BY <2>2, <3>1
    <3> QED BY <3>1, <3>2 DEF Queued
  <2>5. UNCHANGED <<wrapped, reading, closing, lock, current, handle, opened, interrupted, channel,
                    inline>> /\ closed' = closed \cup {Head(queue)}
    BY <1>2 DEF WorkerTakes
  <2>6. /\ worker' \in [Workers -> {"not started", "starting", "ready", "closing", "ended", "stuck"}]
        /\ \A v \in Workers : worker'[v] = IF v = w THEN "closing" ELSE worker[v]
    BY <1>2, <1>t DEF WorkerTakes, CountsTyped, ReadersTyped, StatesTyped
  <2>7. CountsTyped'
    BY <1>t, <2>2, <2>5, <2>6 DEF CountsTyped, ReadersTyped, StatesTyped
  <2>8. PoolIsThere'
    BY <1>2, <1>t, <2>1, <2>5, <2>6 DEF PoolIsThere, WorkerTakes
  <2>9. NothingStaysOpen'
    BY <1>t, <2>2, <2>5 DEF NothingStaysOpen
  <2>10. LockIsHeld'
    BY <1>t, <2>5 DEF LockIsHeld
  <2>11. NoReaderIsLost'
    BY <1>t, <2>4, <2>5 DEF NoReaderIsLost
  <2>12. QueueTyped'
    BY <1>t, <2>2, <2>5, HandoverConstants DEF QueueTyped
  <2> QED BY <2>7, <2>8, <2>9, <2>10, <2>11, <2>12, HandoverParts DEF HandoverInv
<1> QED BY <1>1, <1>2 DEF WorkerStep

(* Close closes the current reader and shuts the channel; what is queued   *)
(* stays queued.                                                           *)
LEMMA CloseShutsKeeps ==
    ASSUME HandoverInv, CloseShuts
    PROVE  HandoverInv'
<1>t. CountsTyped /\ QueueTyped /\ LockIsHeld /\ PoolIsThere /\ NoReaderIsLost
  BY HandoverParts DEF HandoverInv
<1>1. /\ closing = "holding" /\ closing' = "draining" /\ lock' = "free"
      /\ closed' = IF current = 0 THEN closed ELSE closed \cup {current}
      /\ current' = 0 /\ handle' = 0
      /\ channel' = IF channel = "open" THEN "closed" ELSE channel
      /\ UNCHANGED <<wrapped, reading, opened, interrupted, queue, worker, inline>>
  BY DEF CloseShuts, AfterShut
<1>2. opened \in Nat /\ current \in 0..opened /\ 0 \in 0..opened /\ 0 \notin 1..opened
      /\ (current # 0 => current \in 1..opened)
  BY <1>t, ReaderNumbers
<1>3. CountsTyped'
  BY <1>t, <1>1, <1>2 DEF CountsTyped, ReadersTyped, StatesTyped
<1>4. QueueTyped' /\ Queued' = Queued
  BY <1>t, <1>1, SameQueue
<1>5. LockIsHeld'
  BY <1>t, <1>1 DEF LockIsHeld, CountsTyped, ReadersTyped, StatesTyped
<1>6. PoolIsThere' /\ NothingStaysOpen'
  BY <1>t, <1>1 DEF PoolIsThere, NothingStaysOpen, CountsTyped, ReadersTyped, StatesTyped
<1>7. NoReaderIsLost'
  BY <1>t, <1>1, <1>2, <1>4 DEF NoReaderIsLost
<1> QED BY <1>3, <1>4, <1>5, <1>6, <1>7, HandoverParts DEF HandoverInv

(* Close returns once the closers are counted out: nothing is queued or    *)
(* held then.                                                              *)
LEMMA CloseReturnsKeeps ==
    ASSUME HandoverInv, CloseReturns
    PROVE  HandoverInv'
<1>t. CountsTyped /\ QueueTyped /\ LockIsHeld /\ PoolIsThere /\ NoReaderIsLost
  BY HandoverParts DEF HandoverInv
<1>0. /\ closing = "draining" /\ closing' = "done"
      /\ \A w \in Workers : worker[w] \in {"not started", "ended"}
      /\ UNCHANGED <<wrapped, reading, lock, current, handle, opened, interrupted, closed, channel,
                     queue, worker, inline>>
  BY DEF CloseReturns, readers, pool
<1>1. queue = <<>>
  BY <1>t, <1>0, HandoverConstants DEF PoolIsThere
<1>2. Queued = {}
  <2>1. Len(queue) = 0
    BY <1>1, EmptySeq
  <2> QED BY <2>1 DEF Queued
<1>3. current = 0 /\ inline = 0
  BY <1>t, <1>0 DEF LockIsHeld
<1>4. closed = 1..opened
  <2>1. 0 \notin 1..opened
    BY <1>t, ReaderNumbers
  <2> QED BY <1>t, <1>2, <1>3, <2>1 DEF NoReaderIsLost, CountsTyped, ReadersTyped, StatesTyped
<1>5. CountsTyped'
  BY <1>t, <1>0 DEF CountsTyped, ReadersTyped, StatesTyped
<1>6. QueueTyped' /\ Queued' = Queued
  BY <1>t, <1>0, SameQueue
<1>7. LockIsHeld' /\ PoolIsThere' /\ NoReaderIsLost' /\ NothingStaysOpen'
  BY <1>t, <1>0, <1>4, <1>6 DEF LockIsHeld, PoolIsThere, NoReaderIsLost, NothingStaysOpen
<1> QED BY <1>5, <1>6, <1>7, HandoverParts DEF HandoverInv

(* Every step of the hand-over keeps its invariant. *)
LEMMA HandoverNext1 == HandoverInv /\ [HandoverNext]_handoverVars => HandoverInv'
<1> SUFFICES ASSUME HandoverInv, [HandoverNext]_handoverVars
             PROVE  HandoverInv'
  OBVIOUS
<1>1. CASE UNCHANGED handoverVars
  <2>1. CountsTyped' /\ LockIsHeld'
    BY <1>1, HandoverParts
       DEF handoverVars, readers, pool, HandoverInv, CountsTyped, ReadersTyped, StatesTyped, LockIsHeld
  <2> QED BY <1>1, <2>1, QuietSteps DEF handoverVars, readers, pool
<1> QED BY <1>1, ReadingKeeps, OpenKeeps, InlineKeeps, HandOverKeeps, WorkersKeep, CloseShutsKeeps,
           CloseReturnsKeeps DEF HandoverNext

(* The bookkeeping of readers, channel and closers (the closer pool,       *)
(* Interrupt and Close) is an invariant.                                   *)
THEOREM HandoverInvariant == HandoverSpec => []HandoverInv
BY HandoverInit1, HandoverNext1, PTL DEF HandoverSpec

(* The variables of the hand-over are well typed, and the channel keeps    *)
(* its capacity.                                                           *)
THEOREM HandoverTypeCorrect == HandoverSpec => []HandoverTypeOK
<1>1. HandoverInv => HandoverTypeOK
  BY DEF HandoverInv
<1> QED BY <1>1, HandoverInvariant, PTL

(* When Close returns, every reader that was ever opened is closed,        *)
(* whatever was handed over, queued or closed under the lock before.       *)
THEOREM CloseLeavesNothingOpen == HandoverSpec => []NothingStaysOpen
<1>1. HandoverInv => NothingStaysOpen
  BY DEF HandoverInv
<1> QED BY <1>1, HandoverInvariant, PTL
-----------------------------------------------------------------------------
(* FileCursor.                                                             *)

Alive == reader # NoReader

StreamsOn ==
    client.use = "stream" =>
        /\ fcall.at \in {"idle", "open", "read"}
        /\ sharedNext \in 0..position
        /\ Alive => reader.next = position
        /\ fcall.at = "read" => Alive
        /\ fcall.at # "idle" => fcall.off + fcall.n = position /\ fcall.n < fcall.want
        /\ rangeEnd = 0 /\ client.header # <<>> =>
              /\ position \in {0, client.from, FileSize} \/ client.to < position
              /\ fcall.at = "open" => position = client.from
        /\ Alive /\ rangeEnd = 0 => client.to = 0

HandleReads ==
    client.use = "handle" =>
        /\ fcall.at \in {"idle", "openAt", "skip", "readAt", "ephemeral"}
        /\ position = 0 /\ rangeEnd \in {0, -1}
        /\ Alive => reader.last = FileSize - 1
        /\ Alive /\ fcall.at # "readAt" => sharedNext = reader.next
        /\ fcall.at # "idle" => fcall.off < FileSize /\ fcall.n <= fcall.want /\ fcall.off + fcall.want <= FileSize
        /\ fcall.at = "openAt" => fcall.n = 0 /\ fcall.want > 0 /\ sharedNext = fcall.off
        /\ fcall.at = "skip" => Alive /\ fcall.n = 0 /\ fcall.want > 0 /\ sharedNext < fcall.off
        /\ fcall.at = "readAt" => Alive /\ fcall.n < fcall.want /\ reader.next = fcall.off + fcall.n

CursorInv == CursorTypeOK /\ Honoured(client) /\ StreamsOn /\ HandleReads /\ ~wrong

(* CursorTypeOK in parts, for the provers.                                 *)
CallTyped ==
    fcall \in [at : {"idle", "open", "read", "openAt", "skip", "readAt", "ephemeral"},
               off : 0..FileSize, want : 0..MaxLen, n : 0..MaxLen]
ReaderTyped == reader = NoReader \/ reader \in [next : 0..FileSize, last : 0..(FileSize - 1)]
CursorsTyped ==
    /\ client \in Clients
    /\ position \in 0..FileSize /\ rangeEnd \in Int
    /\ sharedNext \in -1..FileSize /\ streak \in 0..(ScrubLimit - 1)
    /\ wrong \in BOOLEAN /\ condemned \in BOOLEAN

(* The type invariant in three parts: the call, the reader, the cursors. *)
LEMMA CursorParts ==
    /\ CursorTypeOK <=> CallTyped /\ ReaderTyped /\ CursorsTyped
    /\ CursorTypeOK' <=> CallTyped' /\ ReaderTyped' /\ CursorsTyped'
BY DEF CursorTypeOK, CallTyped, ReaderTyped, CursorsTyped

(* A file that has just been opened has no reader and its cursors are at   *)
(* 0.                                                                      *)
LEMMA CursorInit1 == CursorInit /\ Honoured(client) => CursorInv
<1> SUFFICES ASSUME CursorInit, Honoured(client)
             PROVE  CursorInv
  OBVIOUS
<1> USE CursorAssumption DEF CursorInit
<1>0. 0 \in 0..FileSize /\ 0 \in 0..MaxLen /\ 0 \in -1..FileSize /\ 0 \in 0..(ScrubLimit - 1)
      /\ 0 \in Int
  OBVIOUS
<1>1. CallTyped /\ ReaderTyped /\ CursorsTyped
  <2>1. CallTyped
    BY <1>0 DEF CallTyped, NoFileCall
  <2>2. ReaderTyped
    BY DEF ReaderTyped
  <2>3. CursorsTyped
    BY <1>0, Zenon DEF CursorsTyped
  <2> QED BY <2>1, <2>2, <2>3
<1>2. StreamsOn
  BY DEF StreamsOn, NoFileCall, Alive
<1>3. HandleReads
  BY DEF HandleReads, NoFileCall, Alive
<1> QED BY <1>1, <1>2, <1>3, CursorParts DEF CursorInv

(* What a reader still holds, for a client that is served as it asks.      *)
LEMMA LeftOver ==
    ASSUME CursorAssumption, Honoured(client), ReaderTyped, Alive
    PROVE  /\ reader.next \in 0..FileSize /\ reader.last \in 0..(FileSize - 1)
           /\ reader = [next |-> reader.next, last |-> reader.last]
           /\ Left \in Int /\ reader.next + Left <= reader.last + 1
           /\ client.holds = FileSize => Left = reader.last - reader.next + 1
<1>1. client.holds \in 0..FileSize
  BY DEF Honoured
<1> QED BY <1>1, CursorAssumption DEF ReaderTyped, Alive, Left

(* Seek moves the logical cursor and leaves the reader for the next read. *)
LEMMA SeekKeeps ==
    ASSUME CursorInv, NEW to \in 0..FileSize, Seek(to)
    PROVE  CursorInv'
<1>1. CallTyped /\ ReaderTyped /\ CursorsTyped /\ StreamsOn /\ Honoured(client) /\ ~wrong
  BY CursorParts DEF CursorInv
<1>2. client.use = "stream" /\ fcall.at = "idle"
  BY DEF Seek, SeekTargets
<1>3. CallTyped' /\ Honoured(client)' /\ ~wrong'
  BY <1>1 DEF Seek, CallTyped, Honoured
<1>4. ReaderTyped'
  BY <1>1 DEF Seek, SeekReader, ReaderTyped
<1>5. CursorsTyped'
  BY <1>1, CursorAssumption DEF Seek, CursorsTyped
<1>6. client.header # <<>> => to \in {0, client.from, FileSize}
  BY DEF Seek, SeekTargets
<1>7. StreamsOn'
  BY <1>1, <1>2, <1>6 DEF Seek, SeekReader, StreamsOn, Alive, CursorsTyped
<1>8. HandleReads'
  BY <1>2 DEF Seek, HandleReads
<1> QED BY <1>3, <1>4, <1>5, <1>7, <1>8, CursorParts DEF CursorInv

(* Read begins at the shared cursor. *)
LEMMA ReadKeeps ==
    ASSUME CursorInv, NEW len \in Lengths, Read(len)
    PROVE  CursorInv'
<1>1. CallTyped /\ ReaderTyped /\ CursorsTyped /\ StreamsOn /\ Honoured(client) /\ ~wrong
  BY CursorParts DEF CursorInv
<1>2. client.use = "stream" /\ fcall.at = "idle"
  BY <1>1 DEF Read, Honoured
<1>3. ReaderTyped' /\ CursorsTyped' /\ Honoured(client)' /\ ~wrong'
  BY <1>1 DEF Read, ReaderTyped, CursorsTyped, Honoured, cursors
<1>4. CallTyped'
  BY <1>1, CursorAssumption DEF Read, CallTyped, CursorsTyped, Lengths
<1>5. position \in client.from..client.to /\ client.to < FileSize
  BY <1>1, <1>2, CursorAssumption DEF Read, Honoured, CursorsTyped, Lengths
<1>6. StreamsOn'
  BY <1>1, <1>2, <1>5, CursorAssumption DEF Read, StreamsOn, Alive, CursorsTyped, Lengths, cursors, Honoured
<1>7. HandleReads'
  BY <1>2 DEF Read, HandleReads
<1> QED BY <1>3, <1>4, <1>6, <1>7, CursorParts DEF CursorInv

(* ReadAt begins at its own offset, and decides whether the reader there   *)
(* can go on.                                                              *)
LEMMA ReadAtKeeps ==
    ASSUME CursorInv, NEW len \in Lengths, NEW off \in 0..(FileSize - 1), ReadAt(off, len)
    PROVE  CursorInv'
<1>1. CallTyped /\ ReaderTyped /\ CursorsTyped /\ HandleReads /\ Honoured(client) /\ ~wrong
  BY CursorParts DEF CursorInv
<1>2. client.use = "handle" /\ fcall.at = "idle"
  BY <1>1 DEF ReadAt, Honoured
<1>3. ReaderTyped' /\ CursorsTyped' /\ Honoured(client)' /\ ~wrong'
  BY <1>1 DEF ReadAt, ReaderTyped, CursorsTyped, Honoured, cursors
<1>4. /\ fcall'.off = off /\ fcall'.n = 0
      /\ fcall'.want \in 1..MaxLen /\ off + fcall'.want <= FileSize
      /\ fcall'.at \in {"ephemeral", "skip", "openAt"}
  BY CursorAssumption DEF ReadAt, Least, Lengths
<1>5. CallTyped'
  <2>1. /\ fcall'.off \in 0..FileSize /\ fcall'.n \in 0..MaxLen /\ fcall'.want \in 0..MaxLen
    BY <1>4, CursorAssumption
  <2> QED BY <1>4, <2>1 DEF CallTyped, ReadAt
<1>6. /\ fcall'.at = "skip" => Alive /\ sharedNext < off
      /\ fcall'.at = "openAt" => sharedNext = off
  BY <1>1, <1>2, CursorAssumption DEF ReadAt, ForwardSkip, Shared, Alive, HandleReads, CursorsTyped
<1>7. HandleReads'
  BY <1>1, <1>2, <1>4, <1>6, CursorAssumption DEF ReadAt, HandleReads, Alive, CursorsTyped, cursors
<1>8. StreamsOn'
  BY <1>2 DEF ReadAt, StreamsOn
<1> QED BY <1>3, <1>5, <1>7, <1>8, CursorParts DEF CursorInv

(* EnsureReader gives a reader that starts at the offset asked for.        *)
LEMMA StreamOpens ==
    ASSUME CursorInv, ReadOpen
    PROVE  CursorInv'
<1>1. CallTyped /\ ReaderTyped /\ CursorsTyped /\ StreamsOn /\ HandleReads /\ Honoured(client) /\ ~wrong
  BY CursorParts DEF CursorInv
<1>2. client.use = "stream" /\ fcall.at = "open"
  BY <1>1 DEF ReadOpen, Honoured, HandleReads
<1>3. CASE Alive
  <2>1. reader' = reader /\ rangeEnd' = rangeEnd /\ condemned' = condemned
        /\ fcall' = [fcall EXCEPT !.at = "read"]
    BY <1>3 DEF ReadOpen, EnsureReader, Alive
  <2>2. CallTyped'
    BY <1>1, <2>1 DEF CallTyped
  <2>3. fcall'.at = "read" /\ fcall'.off = fcall.off /\ fcall'.want = fcall.want /\ fcall'.n = fcall.n
    BY <1>1, <2>1 DEF CallTyped
  <2>4. ReaderTyped' /\ CursorsTyped' /\ Honoured(client)' /\ ~wrong'
    BY <1>1, <2>1 DEF ReadOpen, ReaderTyped, CursorsTyped, Honoured
  <2>5. StreamsOn'
    BY <1>1, <1>2, <1>3, <2>1, <2>3 DEF ReadOpen, StreamsOn, Alive
  <2>6. HandleReads'
    BY <1>2 DEF ReadOpen, HandleReads
  <2> QED BY <2>2, <2>4, <2>5, <2>6, CursorParts DEF CursorInv
<1>4. CASE ~Alive
  <2> DEFINE last == IF RequestRange[2] = -1 THEN FileSize - 1 ELSE RequestRange[2]
             start == StartOf(RequestRange[1], last)
  <2>1. /\ rangeEnd' = RequestRange[3]
        /\ \/ /\ start >= 0 /\ start <= last /\ last < FileSize
              /\ reader' = [next |-> start, last |-> last]
              /\ fcall' = [fcall EXCEPT !.at = "read"]
              /\ UNCHANGED condemned
           \/ condemned' = TRUE /\ fcall' = NoFileCall /\ UNCHANGED reader
    BY <1>4 DEF ReadOpen, EnsureReader, Alive
  <2>2. /\ RequestRange[1] = position
        /\ RequestRange[2] \in Int /\ RequestRange[3] \in Int
        /\ RequestRange[3] = 0 => client.to = 0 /\ position <= client.to
    BY <1>1, <1>2, CursorAssumption DEF RequestRange, StreamsOn, Honoured, CursorsTyped
  <2>3. start = position
    BY <1>1, <1>2, <2>2 DEF StartOf, StreamsOn, CursorsTyped
  <2>4. Honoured(client)' /\ ~wrong' /\ CursorsTyped'
    BY <1>1, <2>1, <2>2 DEF ReadOpen, Honoured, CursorsTyped
  <2>5. HandleReads'
    BY <1>2 DEF ReadOpen, HandleReads
  <2>6. RequestRange[3] = 0 /\ client.header # <<>> =>
            position \in {0, client.from, FileSize} \/ client.to < position
    BY <1>1, <1>2, <2>2, CursorAssumption DEF Honoured, CursorsTyped
  <2>7. CASE /\ start >= 0 /\ start <= last /\ last < FileSize
             /\ reader' = [next |-> start, last |-> last]
             /\ fcall' = [fcall EXCEPT !.at = "read"]
    <3>1. CallTyped' /\ fcall'.at = "read" /\ fcall'.off = fcall.off /\ fcall'.want = fcall.want
          /\ fcall'.n = fcall.n
      BY <1>1, <2>7 DEF CallTyped
    <3>2. last \in Int
      BY <2>2, CursorAssumption
    <3>3. start \in 0..FileSize /\ last \in 0..(FileSize - 1)
      BY <2>3, <2>7, <3>2, <1>1, CursorAssumption DEF CursorsTyped
    <3>4. ReaderTyped' /\ Alive' /\ reader'.next = position
      BY <2>3, <2>7, <3>3 DEF ReaderTyped, Alive, NoReader
    <3>5. StreamsOn'
      BY <1>1, <1>2, <2>1, <2>2, <2>6, <3>1, <3>4 DEF ReadOpen, StreamsOn
    <3> QED BY <2>4, <2>5, <3>1, <3>4, <3>5, CursorParts DEF CursorInv
  <2>8. CASE fcall' = NoFileCall /\ UNCHANGED reader
    <3>1. CallTyped' /\ fcall'.at = "idle"
      BY <2>8, CursorAssumption DEF CallTyped, NoFileCall
    <3>2. ReaderTyped' /\ ~Alive'
      BY <1>1, <1>4, <2>8 DEF ReaderTyped, Alive
    <3>3. StreamsOn'
      BY <1>1, <1>2, <2>1, <2>6, <3>1, <3>2 DEF ReadOpen, StreamsOn
    <3> QED BY <2>4, <2>5, <3>1, <3>2, <3>3, CursorParts DEF CursorInv
  <2> HIDE DEF last, start
  <2> QED BY <2>1, <2>7, <2>8
<1> QED BY <1>3, <1>4

(* A reader is opened over a range that begins where the call reads. *)
LEMMA HandleOpens ==
    ASSUME CursorInv, OpenAt
    PROVE  CursorInv'
<1>1. CallTyped /\ ReaderTyped /\ CursorsTyped /\ StreamsOn /\ HandleReads /\ Honoured(client) /\ ~wrong
  BY CursorParts DEF CursorInv
<1>2. client.use = "handle" /\ fcall.at = "openAt" /\ client.header = <<>>
  BY <1>1 DEF OpenAt, Honoured, StreamsOn
<1>3. fcall.n = 0 /\ fcall.want > 0 /\ sharedNext = fcall.off /\ fcall.off < FileSize
  BY <1>1, <1>2 DEF HandleReads
<1>4. StreamsOn'
  BY <1>2 DEF OpenAt, StreamsOn
<1>5. Honoured(client)' /\ ~wrong'
  BY <1>1 DEF OpenAt, Honoured
<1>6. fcall' = [fcall EXCEPT !.at = "readAt"] =>
          CallTyped' /\ fcall'.at = "readAt" /\ fcall'.off = fcall.off /\ fcall'.want = fcall.want
          /\ fcall'.n = fcall.n
  BY <1>1 DEF CallTyped
<1>7. CASE Alive
  <2>1. reader' = reader /\ rangeEnd' = rangeEnd /\ condemned' = condemned
        /\ fcall' = [fcall EXCEPT !.at = "readAt"]
    BY <1>7 DEF OpenAt, EnsureReader, Alive
  <2>2. ReaderTyped' /\ CursorsTyped'
    BY <1>1, <2>1 DEF OpenAt, ReaderTyped, CursorsTyped
  <2>3. reader.next = fcall.off
    BY <1>1, <1>2, <1>3, <1>7 DEF HandleReads
  <2>4. HandleReads'
    BY <1>1, <1>2, <1>3, <1>6, <1>7, <2>1, <2>3 DEF OpenAt, HandleReads, Alive, CallTyped
  <2> QED BY <1>4, <1>5, <1>6, <2>1, <2>2, <2>4, CursorParts DEF CursorInv
<1>8. CASE ~Alive
  <2>1. RequestRange = <<0, -1, -1>>
    BY <1>1, <1>2 DEF HandleReads, RequestRange
  <2>2. StartOf(0, FileSize - 1) = fcall.off /\ fcall.off \in 0..(FileSize - 1)
    BY <1>1, <1>3, CursorAssumption DEF StartOf, CallTyped
  <2>3. /\ rangeEnd' = -1
        /\ reader' = [next |-> fcall.off, last |-> FileSize - 1]
        /\ fcall' = [fcall EXCEPT !.at = "readAt"] /\ condemned' = condemned
    BY <1>8, <2>1, <2>2, CursorAssumption DEF OpenAt, EnsureReader, Alive
  <2>4. ReaderTyped' /\ Alive' /\ reader'.next = fcall.off /\ reader'.last = FileSize - 1
    BY <2>2, <2>3, CursorAssumption DEF ReaderTyped, Alive, NoReader
  <2>5. CursorsTyped'
    BY <1>1, <2>3 DEF OpenAt, CursorsTyped
  <2>6. HandleReads'
    BY <1>1, <1>2, <1>3, <1>6, <2>3, <2>4 DEF OpenAt, HandleReads, CallTyped
  <2> QED BY <1>4, <1>5, <1>6, <2>3, <2>4, <2>5, <2>6, CursorParts DEF CursorInv
<1> QED BY <1>7, <1>8

(* A piece of k bytes is what comes next in the buffer.                    *)
LEMMA StreamDelivers ==
    ASSUME CursorInv, NEW k \in Lengths, ReadPiece(k)
    PROVE  CursorInv'
<1>1. CallTyped /\ ReaderTyped /\ CursorsTyped /\ StreamsOn /\ HandleReads /\ Honoured(client) /\ ~wrong
  BY CursorParts DEF CursorInv
<1>2. client.use = "stream" /\ fcall.at = "read"
  BY <1>1 DEF ReadPiece, Honoured, HandleReads
<1>3. /\ Alive /\ reader.next = position /\ fcall.off + fcall.n = position
      /\ k \in 1..MaxLen /\ k <= Left /\ k <= fcall.want - fcall.n
  BY <1>1, <1>2 DEF StreamsOn, ReadPiece, Deliver, Lengths
<1>4. /\ reader.next \in 0..FileSize /\ reader.last \in 0..(FileSize - 1)
      /\ reader.next + k <= reader.last + 1
  BY <1>1, <1>3, LeftOver, CursorAssumption DEF CallTyped
<1>5. Honoured(client)' /\ ~wrong'
  BY <1>1, <1>3 DEF ReadPiece, Deliver, Honoured
<1>6. reader' = [reader EXCEPT !.next = reader.next + k]
  BY DEF ReadPiece, Deliver
<1>7. position + k \in 0..FileSize
  BY <1>3, <1>4, CursorAssumption
<1>8. ReaderTyped' /\ Alive' /\ reader'.next = position + k
  BY <1>1, <1>3, <1>6, <1>7 DEF ReaderTyped, Alive, NoReader
<1>9. CursorsTyped'
  <2>1. wrong' \in BOOLEAN
    BY Zenon DEF ReadPiece, Deliver
  <2> QED BY <1>1, <1>7, <2>1 DEF ReadPiece, CursorsTyped
<1>10. HandleReads'
  BY <1>2 DEF ReadPiece, HandleReads
<1>11. rangeEnd = 0 /\ client.header # <<>> => client.to < position + k
  <2>1. rangeEnd = 0 => client.to = 0
    BY <1>1, <1>2, <1>3 DEF StreamsOn
  <2> QED BY <2>1, <1>1, <1>3, <1>7, CursorAssumption DEF CursorsTyped
<1>12. Alive /\ rangeEnd = 0 => client.to = 0
  BY <1>1, <1>2 DEF StreamsOn
<1>13. sharedNext \in 0..(position + k)
  BY <1>1, <1>2, <1>3, <1>7 DEF StreamsOn, CursorsTyped
<1>14. CASE fcall.n + k = fcall.want
  <2>1. CallTyped' /\ fcall'.at = "idle"
    BY <1>14, CursorAssumption DEF ReadPiece, Return, CallTyped, NoFileCall
  <2>2. StreamsOn'
    BY <1>2, <1>3, <1>8, <1>11, <1>12, <1>13, <2>1 DEF ReadPiece, StreamsOn
  <2> QED BY <1>5, <1>8, <1>9, <1>10, <2>1, <2>2, CursorParts DEF CursorInv
<1>15. CASE fcall.n + k # fcall.want
  <2>1. fcall' = [fcall EXCEPT !.n = fcall.n + k]
    BY <1>15 DEF ReadPiece
  <2>2. fcall.n + k \in 0..MaxLen /\ fcall.n + k < fcall.want
    BY <1>1, <1>3, <1>15, CursorAssumption DEF CallTyped
  <2>3. CallTyped' /\ fcall'.at = "read" /\ fcall'.off = fcall.off /\ fcall'.want = fcall.want
        /\ fcall'.n = fcall.n + k
    BY <1>1, <1>2, <2>1, <2>2 DEF CallTyped
  <2>4. fcall.off + (fcall.n + k) = position + k
    BY <1>1, <1>3 DEF CallTyped, CursorsTyped
  <2>5. StreamsOn'
    BY <1>2, <1>3, <1>8, <1>11, <1>12, <1>13, <2>2, <2>3, <2>4 DEF ReadPiece, StreamsOn
  <2> QED BY <1>5, <1>8, <1>9, <1>10, <2>3, <2>5, CursorParts DEF CursorInv
<1> QED BY <1>14, <1>15

(* At the end of its range the reader is given up, and the call ends or    *)
(* opens the next range.                                                   *)
LEMMA StreamEnds ==
    ASSUME CursorInv, ReadEnd
    PROVE  CursorInv'
<1>1. CallTyped /\ ReaderTyped /\ CursorsTyped /\ StreamsOn /\ HandleReads /\ Honoured(client) /\ ~wrong
  BY CursorParts DEF CursorInv
<1>2. client.use = "stream" /\ fcall.at = "read"
  BY <1>1 DEF ReadEnd, Honoured, HandleReads
<1>3. HandleReads' /\ Honoured(client)' /\ ~wrong'
  BY <1>1, <1>2 DEF ReadEnd, HandleReads, Honoured
<1>4. CASE HasMore
  <2>1. fcall' = [fcall EXCEPT !.at = "open"] /\ reader' = NoReader /\ streak' = 0
    BY <1>4 DEF ReadEnd
  <2>2. CallTyped' /\ fcall'.at = "open" /\ fcall'.off = fcall.off /\ fcall'.want = fcall.want
        /\ fcall'.n = fcall.n
    BY <1>1, <2>1 DEF CallTyped
  <2>3. ReaderTyped' /\ ~Alive' /\ CursorsTyped'
    BY <1>1, <2>1, CursorAssumption DEF ReadEnd, ReaderTyped, Alive, CursorsTyped
  <2>4. rangeEnd # 0
    BY <1>1, <1>4 DEF HasMore, CursorsTyped
  <2>5. StreamsOn'
    BY <1>1, <1>2, <2>2, <2>3, <2>4 DEF ReadEnd, StreamsOn
  <2> QED BY <1>3, <2>2, <2>3, <2>5, CursorParts DEF CursorInv
<1>5. CASE ~HasMore
  <2>1. CallTyped' /\ fcall'.at = "idle"
    BY <1>5, CursorAssumption DEF ReadEnd, Return, CallTyped, NoFileCall
  <2>2. ReaderTyped' /\ CursorsTyped'
    BY <1>1, <1>5 DEF ReadEnd, ReaderTyped, CursorsTyped
  <2>3. StreamsOn'
    BY <1>1, <1>2, <1>5, <2>1 DEF ReadEnd, StreamsOn, Alive
  <2> QED BY <1>3, <2>1, <2>2, <2>3, CursorParts DEF CursorInv
<1> QED BY <1>4, <1>5

(* A failed read gives the reader up; the cursors stay at what was         *)
(* delivered.                                                              *)
LEMMA StreamFails ==
    ASSUME CursorInv, ReadError
    PROVE  CursorInv'
<1>1. CallTyped /\ ReaderTyped /\ CursorsTyped /\ StreamsOn /\ HandleReads /\ Honoured(client) /\ ~wrong
  BY CursorParts DEF CursorInv
<1>2. client.use = "stream" /\ fcall.at = "read"
  BY <1>1 DEF ReadError, Honoured, HandleReads
<1>3. HandleReads' /\ Honoured(client)' /\ ~wrong' /\ ReaderTyped' /\ CursorsTyped'
  BY <1>1, <1>2 DEF ReadError, HandleReads, Honoured, ReaderTyped, CursorsTyped, cursors
<1>4. CallTyped' /\ fcall'.at = "idle"
  BY CursorAssumption DEF ReadError, Return, CallTyped, NoFileCall
<1>5. StreamsOn'
  BY <1>1, <1>2, <1>4 DEF ReadError, StreamsOn, Alive, cursors
<1> QED BY <1>3, <1>4, <1>5, CursorParts DEF CursorInv

(* The shared reader is brought forward, or given up.                      *)
LEMMA HandleSkips ==
    ASSUME CursorInv, Skip
    PROVE  CursorInv'
<1>1. CallTyped /\ ReaderTyped /\ CursorsTyped /\ StreamsOn /\ HandleReads /\ Honoured(client) /\ ~wrong
  BY CursorParts DEF CursorInv
<1>2. client.use = "handle" /\ fcall.at = "skip"
  BY <1>1 DEF Skip, Honoured, StreamsOn
<1>3. /\ Alive /\ sharedNext = reader.next /\ sharedNext < fcall.off /\ fcall.off < FileSize
      /\ fcall.n = 0 /\ fcall.want > 0 /\ fcall.off + fcall.want <= FileSize
      /\ reader.last = FileSize - 1
  BY <1>1, <1>2 DEF HandleReads
<1>4. StreamsOn' /\ Honoured(client)' /\ ~wrong'
  BY <1>1, <1>2 DEF Skip, StreamsOn, Honoured
<1>5. reader.next \in 0..FileSize /\ fcall.off \in 0..FileSize
  BY <1>1, <1>3, LeftOver, CursorAssumption DEF CallTyped
<1>6. CASE /\ reader' = [reader EXCEPT !.next = @ + fcall.off - sharedNext]
           /\ sharedNext' = fcall.off
           /\ fcall' = [fcall EXCEPT !.at = "readAt"]
           /\ UNCHANGED streak
  <2>1. reader.next + fcall.off - sharedNext = fcall.off
    BY <1>3, <1>5
  <2>2. reader' = [reader EXCEPT !.next = fcall.off]
    BY <1>6, <2>1
  <2>3. ReaderTyped' /\ Alive' /\ reader'.next = fcall.off /\ reader'.last = FileSize - 1
    BY <1>1, <1>3, <1>5, <2>2 DEF ReaderTyped, Alive, NoReader
  <2>4. CallTyped' /\ fcall'.at = "readAt" /\ fcall'.off = fcall.off /\ fcall'.want = fcall.want
        /\ fcall'.n = fcall.n
    BY <1>1, <1>6 DEF CallTyped
  <2>5. CursorsTyped'
    BY <1>1, <1>4, <1>5, <1>6, CursorAssumption DEF Skip, CursorsTyped
  <2>6. HandleReads'
    BY <1>1, <1>2, <1>3, <1>5, <2>3, <2>4 DEF Skip, HandleReads
  <2> QED BY <1>4, <2>3, <2>4, <2>5, <2>6, CursorParts DEF CursorInv
<1>7. CASE /\ reader' = NoReader /\ streak' = 0 /\ sharedNext' = -1
           /\ fcall' = [fcall EXCEPT !.at = "ephemeral"]
  <2>1. ReaderTyped' /\ ~Alive'
    BY <1>7 DEF ReaderTyped, Alive
  <2>2. CallTyped' /\ fcall'.at = "ephemeral" /\ fcall'.off = fcall.off /\ fcall'.want = fcall.want
        /\ fcall'.n = fcall.n
    BY <1>1, <1>7 DEF CallTyped
  <2>3. CursorsTyped'
    BY <1>1, <1>4, <1>7, CursorAssumption DEF Skip, CursorsTyped
  <2>4. HandleReads'
    BY <1>1, <1>2, <1>3, <2>1, <2>2 DEF Skip, HandleReads
  <2> QED BY <1>4, <2>1, <2>2, <2>3, <2>4, CursorParts DEF CursorInv
<1> QED BY <1>6, <1>7 DEF Skip

(* The end of a call of the shared path: the cursor is where the reader is. *)
LEMMA SharedReturns ==
    ASSUME CursorInv, client.use = "handle", fcall.at = "readAt", NEW n \in 0..fcall.want,
           UNCHANGED <<client, position, rangeEnd, wrong, condemned>>,
           SharedReturn(n), ReaderTyped', Alive',
           reader'.next = fcall.off + n, reader'.last = FileSize - 1
    PROVE  CursorInv'
<1>1. CallTyped /\ ReaderTyped /\ CursorsTyped /\ StreamsOn /\ HandleReads /\ Honoured(client) /\ ~wrong
  BY CursorParts DEF CursorInv
<1>2. fcall.off + n \in 0..FileSize
  <2>1. fcall.off + fcall.want <= FileSize
    BY <1>1 DEF HandleReads
  <2> QED BY <1>1, <2>1, CursorAssumption DEF CallTyped
<1>3. StreamsOn' /\ Honoured(client)' /\ ~wrong'
  BY <1>1 DEF StreamsOn, Honoured
<1>4. CallTyped' /\ fcall'.at = "idle"
  BY CursorAssumption DEF SharedReturn, Return, CallTyped, NoFileCall
<1>5. CursorsTyped'
  BY <1>1, <1>2, CursorAssumption DEF SharedReturn, CursorsTyped
<1>6. HandleReads'
  BY <1>1, <1>4 DEF SharedReturn, HandleReads
<1> QED BY <1>3, <1>4, <1>5, <1>6, CursorParts DEF CursorInv

(* A piece that the reader delivers moves its cursor and the call's by as  *)
(* much.                                                                   *)
LEMMA HandleDelivers ==
    ASSUME CursorInv, NEW k \in Lengths, ReadAtPiece(k)
    PROVE  CursorInv'
<1>1. CallTyped /\ ReaderTyped /\ CursorsTyped /\ StreamsOn /\ HandleReads /\ Honoured(client) /\ ~wrong
  BY CursorParts DEF CursorInv
<1>2. client.use = "handle" /\ fcall.at = "readAt"
  BY <1>1 DEF ReadAtPiece, Honoured, StreamsOn
<1>3. /\ Alive /\ reader.next = fcall.off + fcall.n /\ reader.last = FileSize - 1
      /\ k \in 1..MaxLen /\ k <= fcall.want - fcall.n
      /\ fcall.off < FileSize /\ fcall.off + fcall.want <= FileSize
  BY <1>1, <1>2 DEF HandleReads, ReadAtPiece, Deliver, Lengths
<1>4. ~wrong'
  BY <1>1, <1>3 DEF ReadAtPiece, Deliver
<1>5. /\ reader' = [reader EXCEPT !.next = reader.next + k]
      /\ reader.next + k = fcall.off + (fcall.n + k) /\ fcall.off + (fcall.n + k) \in 0..FileSize
      /\ fcall.n + k \in 0..MaxLen /\ fcall.n + k <= fcall.want
  BY <1>1, <1>3, CursorAssumption DEF ReadAtPiece, Deliver, CallTyped
<1>6. ReaderTyped' /\ Alive' /\ reader'.next = fcall.off + (fcall.n + k) /\ reader'.last = FileSize - 1
  BY <1>1, <1>3, <1>5 DEF ReaderTyped, Alive, NoReader
<1>7. CASE fcall.n + k = fcall.want
  <2>1. SharedReturn(fcall.n + k) /\ fcall.n + k \in 0..fcall.want
    BY <1>1, <1>5, <1>7 DEF ReadAtPiece, CallTyped
  <2>2. wrong' = wrong
    BY <1>1, <1>3 DEF ReadAtPiece, Deliver, CursorsTyped
  <2> QED BY <1>2, <1>6, <2>1, <2>2, SharedReturns DEF ReadAtPiece
<1>8. CASE fcall.n + k # fcall.want
  <2>1. fcall' = [fcall EXCEPT !.n = fcall.n + k] /\ UNCHANGED <<sharedNext, streak>>
    BY <1>8 DEF ReadAtPiece
  <2>2. CallTyped' /\ fcall'.at = "readAt" /\ fcall'.off = fcall.off /\ fcall'.want = fcall.want
        /\ fcall'.n = fcall.n + k
    BY <1>1, <1>2, <1>5, <2>1 DEF CallTyped
  <2>3. fcall.n + k < fcall.want
    BY <1>1, <1>5, <1>8 DEF CallTyped
  <2>4. CursorsTyped'
    <3>1. wrong' \in BOOLEAN
      BY Zenon DEF ReadAtPiece, Deliver
    <3> QED BY <1>1, <2>1, <3>1 DEF ReadAtPiece, CursorsTyped
  <2>5. HandleReads'
    <3>1. fcall'.off + fcall'.want <= FileSize /\ fcall'.n <= fcall'.want /\ fcall'.n < fcall'.want
      BY <1>3, <1>5, <2>2, <2>3
    <3>2. reader'.next = fcall'.off + fcall'.n /\ fcall'.off < FileSize
      BY <1>3, <1>6, <2>2
    <3> QED BY <1>1, <1>2, <1>6, <2>2, <3>1, <3>2 DEF ReadAtPiece, HandleReads
  <2>6. StreamsOn' /\ Honoured(client)'
    BY <1>1, <1>2 DEF ReadAtPiece, StreamsOn, Honoured
  <2> QED BY <1>4, <1>6, <2>2, <2>4, <2>5, <2>6, CursorParts DEF CursorInv
<1> QED BY <1>7, <1>8

(* The reader ends no sooner than the file, so it never has to be opened   *)
(* again in the middle of a call.                                          *)
LEMMA HandleEnds ==
    ASSUME CursorInv, ReadAtEnd \/ ReadAtError
    PROVE  CursorInv'
<1>1. CallTyped /\ ReaderTyped /\ CursorsTyped /\ StreamsOn /\ HandleReads /\ Honoured(client) /\ ~wrong
  BY CursorParts DEF CursorInv
<1>2. client.use = "handle" /\ fcall.at = "readAt"
  BY <1>1 DEF ReadAtEnd, ReadAtError, Honoured, StreamsOn
<1>3. /\ Alive /\ reader.next = fcall.off + fcall.n /\ reader.last = FileSize - 1
      /\ fcall.n < fcall.want /\ fcall.off + fcall.want <= FileSize
  BY <1>1, <1>2 DEF HandleReads
<1>4. Left = FileSize - reader.next
  BY <1>1, <1>2, <1>3, LeftOver, CursorAssumption DEF Honoured
<1>5. Left > 0
  BY <1>1, <1>3, <1>4, CursorAssumption DEF CallTyped
<1>6. ReadAtError
  BY <1>5, <1>1, <1>3, LeftOver, CursorAssumption DEF ReadAtEnd
<1>7. fcall.n \in 0..fcall.want
  BY <1>1, <1>3 DEF CallTyped
<1>8. ReaderTyped' /\ Alive' /\ reader'.next = fcall.off + fcall.n /\ reader'.last = FileSize - 1
  BY <1>1, <1>3, <1>6 DEF ReadAtError, ReaderTyped, Alive
<1> QED BY <1>2, <1>6, <1>7, <1>8, SharedReturns DEF ReadAtError

(* A scrub leaves the cursor with the shared reader, or gives both up.     *)
LEMMA HandleScrubs ==
    ASSUME CursorInv, NEW n \in 0..MaxLen, Ephemeral(n)
    PROVE  CursorInv'
<1>1. CallTyped /\ ReaderTyped /\ CursorsTyped /\ StreamsOn /\ HandleReads /\ Honoured(client) /\ ~wrong
  BY CursorParts DEF CursorInv
<1>2. client.use = "handle" /\ fcall.at = "ephemeral"
  BY <1>1 DEF Ephemeral, Honoured, StreamsOn
<1>3. /\ fcall.off \in 0..FileSize /\ n <= fcall.want /\ fcall.off + fcall.want <= FileSize
  BY <1>1, <1>2 DEF HandleReads, CallTyped, Ephemeral
<1>4. fcall.off + n \in 0..FileSize
  BY <1>1, <1>3, CursorAssumption DEF CallTyped
<1>5. StreamsOn' /\ Honoured(client)' /\ ~wrong'
  BY <1>1, <1>2 DEF Ephemeral, StreamsOn, Honoured
<1>6. CallTyped' /\ fcall'.at = "idle"
  BY CursorAssumption DEF Ephemeral, Return, CallTyped, NoFileCall
<1>7. CASE Alive /\ ~GivesUp
  <2>1. reader' = reader /\ streak' = streak + 1 /\ sharedNext' = sharedNext
    BY <1>7 DEF Ephemeral, AfterScrub, Alive
  <2>2. streak + 1 \in 0..(ScrubLimit - 1)
    BY <1>1, <1>7, CursorAssumption DEF GivesUp, CursorsTyped
  <2>3. CursorsTyped'
    BY <1>1, <2>1, <2>2 DEF Ephemeral, CursorsTyped
  <2>4. ReaderTyped' /\ HandleReads'
    BY <1>1, <1>2, <1>6, <2>1 DEF Ephemeral, ReaderTyped, HandleReads, Alive
  <2> QED BY <1>5, <1>6, <2>3, <2>4, CursorParts DEF CursorInv
<1>8. CASE ~(Alive /\ ~GivesUp)
  <2>1. reader' = NoReader /\ streak' = 0 /\ sharedNext' \in {fcall.off + n, -1}
    BY <1>8 DEF Ephemeral, AfterScrub, Alive
  <2>2. sharedNext' \in -1..FileSize
    BY <1>4, <2>1, CursorAssumption
  <2>3. CursorsTyped'
    BY <1>1, <2>1, <2>2, CursorAssumption DEF Ephemeral, CursorsTyped
  <2>4. ReaderTyped' /\ HandleReads'
    BY <1>1, <1>2, <1>6, <2>1 DEF Ephemeral, ReaderTyped, HandleReads, Alive
  <2> QED BY <1>5, <1>6, <2>3, <2>4, CursorParts DEF CursorInv
<1> QED BY <1>7, <1>8

(* Every call on the file keeps the invariant of its cursors. *)
LEMMA CursorSteps ==
    ASSUME CursorInv, CursorNext \/ UNCHANGED cursorVars
    PROVE  CursorInv'
<1>1. ASSUME CallStep
      PROVE  CursorInv'
  BY <1>1, StreamOpens, StreamEnds, StreamFails, StreamDelivers, HandleOpens, HandleSkips,
     HandleEnds, HandleDelivers, HandleScrubs DEF CallStep
<1>2. ASSUME NEW to \in 0..FileSize, Seek(to)
      PROVE  CursorInv'
  BY <1>2, SeekKeeps
<1>3. ASSUME NEW len \in Lengths, Read(len) \/ \E off \in 0..(FileSize - 1) : ReadAt(off, len)
      PROVE  CursorInv'
  BY <1>3, ReadKeeps, ReadAtKeeps
<1>4. ASSUME UNCHANGED cursorVars
      PROVE  CursorInv'
  <2>1. CallTyped' /\ ReaderTyped' /\ CursorsTyped'
    BY <1>4, CursorParts DEF cursorVars, cursors, CallTyped, ReaderTyped, CursorsTyped, CursorInv
  <2>2. StreamsOn' /\ HandleReads' /\ Honoured(client)' /\ ~wrong'
    BY <1>4 DEF cursorVars, cursors, CursorInv, StreamsOn, HandleReads, Honoured, Alive
  <2> QED BY <2>1, <2>2, CursorParts DEF CursorInv
<1> QED BY <1>1, <1>2, <1>3, <1>4 DEF CursorNext

(* Where the cursors and the reader of an open file stand, for a client    *)
(* that is served as it asks.                                              *)
THEOREM CursorInvariant == HonouredSpec => []CursorInv
<1>1. CursorInv /\ [CursorNext]_cursorVars => CursorInv'
  BY CursorSteps
<1> QED BY CursorInit1, <1>1, PTL DEF HonouredSpec

(* Every variable of FileCursor keeps its type.                            *)
THEOREM CursorTypeCorrect == HonouredSpec => []CursorTypeOK
<1>1. CursorInv => CursorTypeOK
  BY DEF CursorInv
<1> QED BY CursorInvariant, <1>1, PTL

(* Read, ReadAt and Seek of a virtual file: whatever the sizes, limits and *)
(* lengths, the caller is given the bytes at the offsets it asked for.     *)
THEOREM ClientsGetTheirBytes == HonouredSpec => []BytesAreThoseAsked
<1>1. CursorInv => BytesAreThoseAsked
  BY DEF CursorInv, BytesAreThoseAsked
<1> QED BY CursorInvariant, <1>1, PTL

(* ReadAt: between two calls the shared cursor is where the reader is.     *)
THEOREM CursorIsTheReaders == HonouredSpec => []SharedCursorIsReaders
<1>1. CursorInv => SharedCursorIsReaders
  BY DEF CursorInv, HandleReads, SharedCursorIsReaders, Alive
<1> QED BY CursorInvariant, <1>1, PTL

-----------------------------------------------------------------------------
(* LibraryScan.                                                            *)

(* ScanTypeOK in parts, for the provers.                                   *)
IndexTyped == library \in IndexType /\ artwork \in IndexType
ScannerTyped == scanner \in [scan : ScanType, initial : BOOLEAN, pending : BOOLEAN] /\ other \in ScanType
WatcherTyped ==
    /\ watcher \in [on : SUBSET Categories, events : SUBSET Categories, pending : SUBSET Categories,
                    retry : BOOLEAN]
    /\ realtime \subseteq Categories
    /\ wakes \subseteq {"scan", "monitor", "realtime"}
RestTyped ==
    /\ files \in [Categories -> Nat] /\ noticed \in [Categories -> Nat] /\ setting \in Settings
    /\ scene \subseteq AllScenes /\ settings \in Nat /\ failures \in Nat

(* The scenes NoticedChangesAreDue is about.                               *)
Quiet == scene \cap {"settings", "artwork", "unavailable"} = {}

Woken == "realtime" \in wakes
ScansNow == scanner.scan.at \in {"walks", "writes"}

(* Only a change of the configuration remakes the watcher, and there are   *)
(* events only where changes are watched.                                  *)
WatcherStays ==
    /\ "monitor" \notin wakes /\ ~watcher.retry /\ artwork.missing
    /\ watcher.on \cup watcher.events \cup watcher.pending \cup realtime # {} => setting.realtime
    /\ scanner.pending => setting.realtime

NoticedWasThere == \A c \in Categories : noticed[c] <= files[c]

(* One scan runs at a time, and it is of the configuration.                *)
OneScan ==
    /\ ~(ScansNow /\ other.at # "waits")
    /\ scanner.scan.at # "waits" => scanner.scan.of = setting.enabled
    /\ other.at # "waits" => other.at \in {"walks", "writes"} /\ other.of = setting.enabled /\ other.chosen = {}

(* What the scanner has taken, or still has to take.                       *)
TakenIsPending ==
    /\ ~ScansNow => scanner.scan.chosen = {}
    /\ scanner.scan.chosen # {} => scanner.pending
    /\ realtime # {} => Woken \/ (scanner.pending /\ ~ScansNow)

OnItsWay(c) == c \in watcher.pending \/ (c \in realtime /\ (Woken \/ scanner.pending))

(* NoticedChangesAreDue, of the categories a scan has taken.               *)
ChangesAreTaken ==
    \A c \in setting.enabled : noticed[c] > library.seen[c] =>
        \/ OnItsWay(c)
        \/ c \in scanner.scan.chosen /\ scanner.scan.at = "walks"
        \/ c \in scanner.scan.chosen /\ scanner.scan.at = "writes" /\ scanner.scan.seen[c] >= noticed[c]

(* What a scan that has walked does not know is still to come.             *)
LaterIsQueued ==
    \A c \in setting.enabled :
        /\ scanner.scan.at = "writes" /\ noticed[c] > scanner.scan.seen[c] => OnItsWay(c)
        /\ other.at = "writes" /\ noticed[c] > other.seen[c] => OnItsWay(c)

ScanInv ==
    /\ ScanTypeOK
    /\ Quiet => /\ WatcherStays /\ NoticedWasThere /\ OneScan /\ TakenIsPending
                /\ ChangesAreTaken /\ LaterIsQueued

(* The type invariant in four parts: index, scanner, watcher and the rest. *)
LEMMA ScanParts ==
    /\ ScanTypeOK <=> IndexTyped /\ ScannerTyped /\ WatcherTyped /\ RestTyped
    /\ ScanTypeOK' <=> IndexTyped' /\ ScannerTyped' /\ WatcherTyped' /\ RestTyped'
BY DEF ScanTypeOK, IndexTyped, ScannerTyped, WatcherTyped, RestTyped

(* The fields of a setting. *)
LEMMA SettingsTyped ==
    ASSUME ScanAssumption, RestTyped
    PROVE  setting.enabled \subseteq Categories /\ setting.realtime \in BOOLEAN /\ setting.auto \in BOOLEAN
BY DEF ScanAssumption, RestTyped

(* The fields of the two scans, and of the index that each would write. *)
LEMMA ScanFields ==
    ASSUME ScannerTyped
    PROVE  /\ \A run \in {scanner.scan, other} :
                  /\ run.of \subseteq Categories /\ run.chosen \subseteq Categories
                  /\ run.seen \in [Categories -> Nat]
                  /\ Written(run) \in IndexType
                  /\ Written(run).of = run.of /\ Written(run).seen = run.seen /\ ~Written(run).missing
           /\ scanner = [scan |-> scanner.scan, initial |-> scanner.initial, pending |-> scanner.pending]
           /\ scanner.scan \in ScanType
<1>1. \A run \in ScanType : /\ run.of \subseteq Categories /\ run.chosen \subseteq Categories
                            /\ run.seen \in [Categories -> Nat]
  BY DEF ScanType
<1>2. \A of \in SUBSET Categories, seen \in [Categories -> Nat] :
          [of |-> of, seen |-> seen, old |-> FALSE, missing |-> FALSE] \in IndexType
  BY DEF IndexType
<1> QED BY <1>1, <1>2 DEF ScannerTyped, Written

(* A change nobody has noticed yet owes nothing. *)
LEMMA FilesChangeKeeps ==
    ASSUME ScanInv, NEW c \in Categories, FilesChange(c)
    PROVE  ScanInv'
<1>0. IndexTyped /\ ScannerTyped /\ WatcherTyped /\ RestTyped
  BY ScanParts DEF ScanInv
<1>1. IndexTyped' /\ ScannerTyped' /\ WatcherTyped' /\ RestTyped'
  BY <1>0, SettingsTyped, ScanAssumption
     DEF FilesChange, IndexTyped, ScannerTyped, WatcherTyped, RestTyped, IndexType, ScanType
<1>2. ASSUME Quiet'
      PROVE  WatcherStays' /\ NoticedWasThere' /\ OneScan' /\ TakenIsPending' /\ ChangesAreTaken' /\ LaterIsQueued'
  BY <1>0, <1>2, SettingsTyped, ScanAssumption
     DEF FilesChange, ScanInv, Quiet, NoticedWasThere, ChangesAreTaken, LaterIsQueued, OneScan,
         TakenIsPending, WatcherStays, IndexTyped, ScannerTyped, WatcherTyped, RestTyped, IndexType, ScanType,
         ScansNow, Woken, OnItsWay
<1> QED BY <1>1, <1>2, ScanParts DEF ScanInv

(* A folder that goes away is outside the quiet scenes. *)
LEMMA FolderGoesKeeps ==
    ASSUME ScanInv, NEW c \in Categories, FolderGoes(c)
    PROVE  ScanInv'
<1>0. IndexTyped /\ ScannerTyped /\ WatcherTyped /\ RestTyped
  BY ScanParts DEF ScanInv
<1>1. IndexTyped' /\ ScannerTyped' /\ WatcherTyped' /\ RestTyped'
  <2>1. IndexTyped' /\ ScannerTyped'
    BY <1>0 DEF FolderGoes, IndexTyped, ScannerTyped
  <2>2. WatcherTyped'
    BY <1>0 DEF FolderGoes, WatcherTyped
  <2>3. RestTyped'
    BY <1>0 DEF FolderGoes, RestTyped
  <2> QED BY <2>1, <2>2, <2>3
<1>2. ASSUME Quiet'
      PROVE  WatcherStays' /\ NoticedWasThere' /\ OneScan' /\ TakenIsPending' /\ ChangesAreTaken' /\ LaterIsQueued'
  BY <1>0, <1>2, SettingsTyped, ScanAssumption
     DEF FolderGoes, ScanInv, Quiet, NoticedWasThere, ChangesAreTaken, LaterIsQueued, OneScan, TakenIsPending,
         WatcherStays, IndexTyped, ScannerTyped, WatcherTyped, RestTyped, IndexType, ScanType, ScansNow,
         Woken, OnItsWay
<1> QED BY <1>1, <1>2, ScanParts DEF ScanInv

(* A change that is noticed is put among the pending ones. *)
LEMMA NoticeEventKeeps ==
    ASSUME ScanInv, NEW c \in Categories, NoticeEvent(c)
    PROVE  ScanInv'
<1>0. IndexTyped /\ ScannerTyped /\ WatcherTyped /\ RestTyped
  BY ScanParts DEF ScanInv
<1>1. IndexTyped' /\ ScannerTyped' /\ WatcherTyped' /\ RestTyped'
  <2>1. IndexTyped' /\ ScannerTyped'
    BY <1>0 DEF NoticeEvent, IndexTyped, ScannerTyped
  <2>2. WatcherTyped'
    BY <1>0 DEF NoticeEvent, WatcherTyped
  <2>3. RestTyped'
    BY <1>0 DEF NoticeEvent, RestTyped
  <2> QED BY <2>1, <2>2, <2>3
<1>2. ASSUME Quiet'
      PROVE  WatcherStays' /\ NoticedWasThere' /\ OneScan' /\ TakenIsPending' /\ ChangesAreTaken' /\ LaterIsQueued'
  BY <1>0, <1>2, SettingsTyped, ScanAssumption
     DEF NoticeEvent, ScanInv, Quiet, NoticedWasThere, ChangesAreTaken, LaterIsQueued, OneScan,
         TakenIsPending, WatcherStays, IndexTyped, ScannerTyped, WatcherTyped, RestTyped, IndexType, ScanType,
         ScansNow, Woken, OnItsWay
<1> QED BY <1>1, <1>2, ScanParts DEF ScanInv

(* The pending changes go to the scanner, with a wake-up for it. *)
LEMMA QueueChangesKeeps ==
    ASSUME ScanInv, QueueChanges
    PROVE  ScanInv'
<1>0. IndexTyped /\ ScannerTyped /\ WatcherTyped /\ RestTyped
  BY ScanParts DEF ScanInv
<1>1. IndexTyped' /\ ScannerTyped' /\ WatcherTyped' /\ RestTyped'
  BY <1>0, SettingsTyped, ScanAssumption
     DEF QueueChanges, IndexTyped, ScannerTyped, WatcherTyped, RestTyped, IndexType, ScanType
<1>2. ASSUME Quiet'
      PROVE  WatcherStays' /\ NoticedWasThere' /\ OneScan' /\ TakenIsPending' /\ ChangesAreTaken' /\ LaterIsQueued'
  BY <1>0, <1>2, SettingsTyped, ScanAssumption
     DEF QueueChanges, ScanInv, Quiet, NoticedWasThere, ChangesAreTaken, LaterIsQueued, OneScan,
         TakenIsPending, WatcherStays, IndexTyped, ScannerTyped, WatcherTyped, RestTyped, IndexType, ScanType,
         ScansNow, Woken, OnItsWay
<1> QED BY <1>1, <1>2, ScanParts DEF ScanInv

(* The monitor is woken by changes of the settings alone, so not in a      *)
(* quiet scene.                                                            *)
LEMMA MonitorWakesKeeps ==
    ASSUME ScanInv, MonitorWakes
    PROVE  ScanInv'
<1>0. IndexTyped /\ ScannerTyped /\ WatcherTyped /\ RestTyped
  BY ScanParts DEF ScanInv
<1>1. IndexTyped' /\ ScannerTyped' /\ WatcherTyped' /\ RestTyped'
  BY <1>0, SettingsTyped, ScanAssumption
     DEF MonitorWakes, Rebuild, Watch, IndexTyped, ScannerTyped, WatcherTyped, RestTyped, IndexType, ScanType
<1>2. ASSUME Quiet'
      PROVE  WatcherStays' /\ NoticedWasThere' /\ OneScan' /\ TakenIsPending' /\ ChangesAreTaken' /\ LaterIsQueued'
  BY <1>0, <1>2, SettingsTyped, ScanAssumption
     DEF MonitorWakes, Rebuild, Watch, ScanInv, Quiet, NoticedWasThere, ChangesAreTaken, LaterIsQueued,
         OneScan, TakenIsPending, WatcherStays, IndexTyped, ScannerTyped, WatcherTyped, RestTyped, IndexType,
         ScanType, ScansNow, Woken, OnItsWay
<1> QED BY <1>1, <1>2, ScanParts DEF ScanInv

(* Nor does it retry in one. *)
LEMMA MonitorRetriesKeeps ==
    ASSUME ScanInv, MonitorRetries
    PROVE  ScanInv'
<1>0. IndexTyped /\ ScannerTyped /\ WatcherTyped /\ RestTyped
  BY ScanParts DEF ScanInv
<1>1. IndexTyped' /\ ScannerTyped' /\ WatcherTyped' /\ RestTyped'
  BY <1>0, SettingsTyped, ScanAssumption
     DEF MonitorRetries, Rebuild, Watch, IndexTyped, ScannerTyped, WatcherTyped, RestTyped, IndexType,
         ScanType
<1>2. ASSUME Quiet'
      PROVE  WatcherStays' /\ NoticedWasThere' /\ OneScan' /\ TakenIsPending' /\ ChangesAreTaken' /\ LaterIsQueued'
  BY <1>0, <1>2, SettingsTyped, ScanAssumption
     DEF MonitorRetries, Rebuild, Watch, ScanInv, Quiet, NoticedWasThere, ChangesAreTaken, LaterIsQueued,
         OneScan, TakenIsPending, WatcherStays, IndexTyped, ScannerTyped, WatcherTyped, RestTyped, IndexType,
         ScanType, ScansNow, Woken, OnItsWay
<1> QED BY <1>1, <1>2, ScanParts DEF ScanInv

(* The timer makes the scanner look at the age of the index; what is       *)
(* pending stays so.                                                       *)
LEMMA TimerFiresKeeps ==
    ASSUME ScanInv, TimerFires
    PROVE  ScanInv'
<1>0. IndexTyped /\ ScannerTyped /\ WatcherTyped /\ RestTyped
  BY ScanParts DEF ScanInv
<1>1. IndexTyped' /\ ScannerTyped' /\ WatcherTyped' /\ RestTyped'
  BY <1>0, SettingsTyped, ScanAssumption
     DEF TimerFires, Decide, Waits, NoScan, Empty, IndexTyped, ScannerTyped, WatcherTyped, RestTyped,
         IndexType, ScanType
<1>2. ASSUME Quiet'
      PROVE  WatcherStays' /\ NoticedWasThere' /\ OneScan' /\ TakenIsPending' /\ ChangesAreTaken' /\ LaterIsQueued'
  BY <1>0, <1>2, SettingsTyped, ScanAssumption
     DEF TimerFires, Decide, Waits, NoScan, Empty, ScanInv, Quiet, NoticedWasThere, ChangesAreTaken,
         LaterIsQueued, OneScan, TakenIsPending, WatcherStays, IndexTyped, ScannerTyped, WatcherTyped,
         RestTyped, IndexType, ScanType, ScansNow, Woken, OnItsWay
<1> QED BY <1>1, <1>2, ScanParts DEF ScanInv

(* A wake-up for a setting leaves what is pending. *)
LEMMA WakesForSettingKeeps ==
    ASSUME ScanInv, WakesForSetting
    PROVE  ScanInv'
<1>0. IndexTyped /\ ScannerTyped /\ WatcherTyped /\ RestTyped
  BY ScanParts DEF ScanInv
<1>1. IndexTyped' /\ ScannerTyped' /\ WatcherTyped' /\ RestTyped'
  BY <1>0, SettingsTyped, ScanAssumption
     DEF WakesForSetting, Decide, Waits, NoScan, Empty, IndexTyped, ScannerTyped, WatcherTyped, RestTyped,
         IndexType, ScanType
<1>2. ASSUME Quiet'
      PROVE  WatcherStays' /\ NoticedWasThere' /\ OneScan' /\ TakenIsPending' /\ ChangesAreTaken' /\ LaterIsQueued'
  BY <1>0, <1>2, SettingsTyped, ScanAssumption
     DEF WakesForSetting, Decide, Waits, NoScan, Empty, ScanInv, Quiet, NoticedWasThere, ChangesAreTaken,
         LaterIsQueued, OneScan, TakenIsPending, WatcherStays, IndexTyped, ScannerTyped, WatcherTyped,
         RestTyped, IndexType, ScanType, ScansNow, Woken, OnItsWay
<1> QED BY <1>1, <1>2, ScanParts DEF ScanInv

(* The wake-up for changes makes the scanner begin, with the changes       *)
(* pending.                                                                *)
LEMMA WakesForChangesKeeps ==
    ASSUME ScanInv, WakesForChanges
    PROVE  ScanInv'
<1>0. IndexTyped /\ ScannerTyped /\ WatcherTyped /\ RestTyped
  BY ScanParts DEF ScanInv
<1>1. IndexTyped' /\ ScannerTyped' /\ WatcherTyped' /\ RestTyped'
  BY <1>0, SettingsTyped, ScanAssumption
     DEF WakesForChanges, Decide, Waits, NoScan, Empty, IndexTyped, ScannerTyped, WatcherTyped, RestTyped,
         IndexType, ScanType
<1>2. ASSUME Quiet'
      PROVE  WatcherStays' /\ NoticedWasThere' /\ OneScan' /\ TakenIsPending' /\ ChangesAreTaken' /\ LaterIsQueued'
  BY <1>0, <1>2, SettingsTyped, ScanAssumption
     DEF WakesForChanges, Decide, Waits, NoScan, Empty, ScanInv, Quiet, NoticedWasThere, ChangesAreTaken,
         LaterIsQueued, OneScan, TakenIsPending, WatcherStays, IndexTyped, ScannerTyped, WatcherTyped,
         RestTyped, IndexType, ScanType, ScansNow, Woken, OnItsWay
<1> QED BY <1>1, <1>2, ScanParts DEF ScanInv

(* The scan begins, or another one runs and it is put off.                 *)
LEMMA ScannerBeginsKeeps ==
    ASSUME ScanInv, ScannerBegins
    PROVE  ScanInv'
<1>0. IndexTyped /\ ScannerTyped /\ WatcherTyped /\ RestTyped
  BY ScanParts DEF ScanInv
<1>1. IndexTyped' /\ WatcherTyped' /\ RestTyped'
  BY <1>0 DEF ScannerBegins, IndexTyped, WatcherTyped, RestTyped
<1> DEFINE taken == IF scanner.pending THEN realtime ELSE {}
<1>2. CASE Running
  <2>1. /\ scanner'.scan = NoScan /\ scanner'.pending = scanner.pending
        /\ realtime' = realtime /\ ScannerTyped'
    BY <1>0, <1>2 DEF ScannerBegins, ScannerTyped, ScanType, NoScan, Empty
  <2>2. Quiet' => WatcherStays' /\ NoticedWasThere' /\ OneScan' /\ TakenIsPending' /\ ChangesAreTaken'
                  /\ LaterIsQueued'
    BY <2>1 DEF ScanInv, ScannerBegins, Quiet, WatcherStays, NoticedWasThere, OneScan, TakenIsPending,
       ChangesAreTaken, LaterIsQueued, OnItsWay, Woken, ScansNow, NoScan
  <2> QED BY <1>1, <2>1, <2>2, ScanParts DEF ScanInv
<1>3. CASE ~Running
  <2>1. taken \subseteq Categories
    BY <1>0 DEF WatcherTyped
  <2>2. /\ scanner' = [scan |-> [at |-> "walks", of |-> scanner.scan.of, chosen |-> taken,
                                 seen |-> scanner.scan.seen],
                       initial |-> scanner.initial, pending |-> scanner.pending]
        /\ realtime' = IF scanner.pending THEN {} ELSE realtime
    <3>1. /\ scanner' = [scanner EXCEPT !.scan.at = "walks", !.scan.chosen = taken]
          /\ realtime' = IF scanner.pending THEN {} ELSE realtime
      BY <1>3 DEF ScannerBegins
    <3>2. /\ scanner = [scan |-> scanner.scan, initial |-> scanner.initial, pending |-> scanner.pending]
          /\ scanner.scan = [at |-> scanner.scan.at, of |-> scanner.scan.of, chosen |-> scanner.scan.chosen,
                             seen |-> scanner.scan.seen]
      BY <1>0 DEF ScannerTyped, ScanType
    <3> HIDE DEF taken
    <3> QED BY <3>1, <3>2
  <2>3. ScannerTyped'
    BY <1>0, <2>1, <2>2 DEF ScannerBegins, ScannerTyped, ScanType
  <2>4. ASSUME Quiet'
        PROVE  WatcherStays' /\ NoticedWasThere' /\ OneScan' /\ TakenIsPending' /\ ChangesAreTaken'
               /\ LaterIsQueued'
    <3>1. Quiet /\ WatcherStays /\ NoticedWasThere /\ OneScan /\ TakenIsPending /\ ChangesAreTaken
      BY <2>4 DEF Quiet, ScannerBegins, ScanInv
    <3>2. other.at = "waits"
      BY <1>3, <3>1 DEF ScannerBegins, Running, OneScan
    <3>3. WatcherStays' /\ NoticedWasThere' /\ OneScan' /\ LaterIsQueued'
      BY <2>2, <3>1, <3>2 DEF ScannerBegins, WatcherStays, NoticedWasThere, OneScan, ScansNow, LaterIsQueued
    <3>4. TakenIsPending'
      BY <2>2, <3>1 DEF TakenIsPending, ScannerBegins, ScansNow, Woken
    <3>5. ChangesAreTaken'
      BY <2>2, <3>1 DEF ChangesAreTaken, ScannerBegins, OnItsWay, Woken
    <3> QED BY <3>3, <3>4, <3>5
  <2> QED BY <1>1, <2>3, <2>4, ScanParts DEF ScanInv
<1> QED BY <1>2, <1>3

(* The index the scanner writes holds what was there when it walked, so    *)
(* also what was noticed before.                                           *)
LEMMA ScannerWritesKeeps ==
    ASSUME ScanInv, ScannerWrites
    PROVE  ScanInv'
<1>0. IndexTyped /\ ScannerTyped /\ WatcherTyped /\ RestTyped
  BY ScanParts DEF ScanInv
<1>1. IndexTyped'
  BY <1>0, ScanFields
     DEF ScannerWrites, NoScan, Empty, IndexTyped, ScannerTyped, WatcherTyped, RestTyped, IndexType
<1>2. ScannerTyped'
  BY <1>0, SettingsTyped, ScanAssumption
     DEF ScannerWrites, Written, NoScan, Empty, IndexTyped, ScannerTyped, WatcherTyped, RestTyped, ScanType
<1>3. WatcherTyped'
  BY <1>0, ScanFields, SettingsTyped, ScanAssumption
     DEF ScannerWrites, Written, NoScan, Empty, IndexTyped, ScannerTyped, WatcherTyped, RestTyped
<1>4. RestTyped'
  BY <1>0, SettingsTyped, ScanAssumption
     DEF ScannerWrites, Written, NoScan, Empty, IndexTyped, ScannerTyped, WatcherTyped, RestTyped
<1>5. ASSUME Quiet'
      PROVE  WatcherStays' /\ NoticedWasThere' /\ OneScan' /\ TakenIsPending' /\ ChangesAreTaken' /\ LaterIsQueued'
  <2>1. Quiet
    BY <1>5 DEF Quiet, ScannerWrites, Written, NoScan, Empty
  <2>2. WatcherStays /\ NoticedWasThere /\ OneScan /\ TakenIsPending /\ ChangesAreTaken /\ LaterIsQueued
    BY <2>1 DEF ScanInv
  <2>3. WatcherStays'
    BY <1>0, <2>1, <2>2, SettingsTyped, ScanAssumption
       DEF ScannerWrites, Written, NoScan, Empty, Quiet, WatcherStays, OneScan, TakenIsPending, WatcherStays,
           IndexTyped, ScannerTyped, WatcherTyped, RestTyped, IndexType, ScanType, ScansNow, Woken, OnItsWay
  <2>4. NoticedWasThere'
    BY <1>0, <2>1, <2>2, SettingsTyped, ScanAssumption
       DEF ScannerWrites, Written, NoScan, Empty, Quiet, NoticedWasThere, OneScan, TakenIsPending,
           WatcherStays, IndexTyped, ScannerTyped, WatcherTyped, RestTyped, IndexType, ScanType, ScansNow,
           Woken, OnItsWay
  <2>5. OneScan'
    BY <1>0, <2>1, <2>2, SettingsTyped, ScanAssumption
       DEF ScannerWrites, Written, NoScan, Empty, Quiet, OneScan, OneScan, TakenIsPending, WatcherStays,
           IndexTyped, ScannerTyped, WatcherTyped, RestTyped, IndexType, ScanType, ScansNow, Woken, OnItsWay
  <2>6. TakenIsPending'
    BY <1>0, <2>1, <2>2, SettingsTyped, ScanAssumption
       DEF ScannerWrites, Written, NoScan, Empty, Quiet, TakenIsPending, OneScan, TakenIsPending,
           WatcherStays, IndexTyped, ScannerTyped, WatcherTyped, RestTyped, IndexType, ScanType, ScansNow,
           Woken, OnItsWay
  <2>7. ChangesAreTaken'
    BY <1>0, <2>1, <2>2, SettingsTyped, ScanAssumption
       DEF ScannerWrites, Written, NoScan, Empty, Quiet, ChangesAreTaken, LaterIsQueued, OneScan,
           TakenIsPending, WatcherStays, IndexTyped, ScannerTyped, WatcherTyped, RestTyped, IndexType,
           ScanType, ScansNow, Woken, OnItsWay
  <2>8. LaterIsQueued'
    BY <1>0, <2>1, <2>2, SettingsTyped, ScanAssumption
       DEF ScannerWrites, Written, NoScan, Empty, Quiet, LaterIsQueued, OneScan, TakenIsPending, WatcherStays,
           IndexTyped, ScannerTyped, WatcherTyped, RestTyped, IndexType, ScanType, ScansNow, Woken, OnItsWay
  <2> QED BY <2>3, <2>4, <2>5, <2>6, <2>7, <2>8
<1> QED BY <1>1, <1>2, <1>3, <1>4, <1>5, ScanParts DEF ScanInv

(* A scan that fails puts its changes back among the pending ones. *)
LEMMA ScannerFailsKeeps ==
    ASSUME ScanInv, ScannerFails
    PROVE  ScanInv'
<1>0. IndexTyped /\ ScannerTyped /\ WatcherTyped /\ RestTyped
  BY ScanParts DEF ScanInv
<1>1. IndexTyped'
  BY <1>0, SettingsTyped, ScanAssumption
     DEF ScannerFails, NoScan, Empty, IndexTyped, ScannerTyped, WatcherTyped, RestTyped, IndexType
<1>2. ScannerTyped'
  BY <1>0, SettingsTyped, ScanAssumption
     DEF ScannerFails, NoScan, Empty, IndexTyped, ScannerTyped, WatcherTyped, RestTyped, ScanType
<1>3. WatcherTyped'
  BY <1>0, ScanFields, SettingsTyped, ScanAssumption
     DEF ScannerFails, NoScan, Empty, IndexTyped, ScannerTyped, WatcherTyped, RestTyped
<1>4. RestTyped'
  BY <1>0, SettingsTyped, ScanAssumption
     DEF ScannerFails, NoScan, Empty, IndexTyped, ScannerTyped, WatcherTyped, RestTyped
<1>5. ASSUME Quiet'
      PROVE  WatcherStays' /\ NoticedWasThere' /\ OneScan' /\ TakenIsPending' /\ ChangesAreTaken' /\ LaterIsQueued'
  <2>1. Quiet
    BY <1>5 DEF Quiet, ScannerFails, NoScan, Empty
  <2>2. WatcherStays /\ NoticedWasThere /\ OneScan /\ TakenIsPending /\ ChangesAreTaken /\ LaterIsQueued
    BY <2>1 DEF ScanInv
  <2>3. WatcherStays'
    BY <1>0, <2>1, <2>2, SettingsTyped, ScanAssumption
       DEF ScannerFails, NoScan, Empty, Quiet, WatcherStays, OneScan, TakenIsPending, WatcherStays,
           IndexTyped, ScannerTyped, WatcherTyped, RestTyped, IndexType, ScanType, ScansNow, Woken, OnItsWay
  <2>4. NoticedWasThere'
    BY <1>0, <2>1, <2>2, SettingsTyped, ScanAssumption
       DEF ScannerFails, NoScan, Empty, Quiet, NoticedWasThere, OneScan, TakenIsPending, WatcherStays,
           IndexTyped, ScannerTyped, WatcherTyped, RestTyped, IndexType, ScanType, ScansNow, Woken, OnItsWay
  <2>5. OneScan'
    BY <1>0, <2>1, <2>2, SettingsTyped, ScanAssumption
       DEF ScannerFails, NoScan, Empty, Quiet, OneScan, OneScan, TakenIsPending, WatcherStays, IndexTyped,
           ScannerTyped, WatcherTyped, RestTyped, IndexType, ScanType, ScansNow, Woken, OnItsWay
  <2>6. TakenIsPending'
    BY <1>0, <2>1, <2>2, SettingsTyped, ScanAssumption
       DEF ScannerFails, NoScan, Empty, Quiet, TakenIsPending, OneScan, TakenIsPending, WatcherStays,
           IndexTyped, ScannerTyped, WatcherTyped, RestTyped, IndexType, ScanType, ScansNow, Woken, OnItsWay
  <2>7. ChangesAreTaken'
    BY <1>0, <2>1, <2>2, SettingsTyped, ScanAssumption
       DEF ScannerFails, NoScan, Empty, Quiet, ChangesAreTaken, OneScan, TakenIsPending, WatcherStays,
           IndexTyped, ScannerTyped, WatcherTyped, RestTyped, IndexType, ScanType, ScansNow, Woken, OnItsWay
  <2>8. LaterIsQueued'
    BY <1>0, <2>1, <2>2, SettingsTyped, ScanAssumption
       DEF ScannerFails, NoScan, Empty, Quiet, LaterIsQueued, OneScan, TakenIsPending, WatcherStays,
           IndexTyped, ScannerTyped, WatcherTyped, RestTyped, IndexType, ScanType, ScansNow, Woken, OnItsWay
  <2> QED BY <2>3, <2>4, <2>5, <2>6, <2>7, <2>8
<1> QED BY <1>1, <1>2, <1>3, <1>4, <1>5, ScanParts DEF ScanInv

(* A scan that an administrator or the planner asks for takes no pending   *)
(* change.                                                                 *)
LEMMA OtherBeginsKeeps ==
    ASSUME ScanInv, OtherBegins
    PROVE  ScanInv'
<1>0. IndexTyped /\ ScannerTyped /\ WatcherTyped /\ RestTyped
  BY ScanParts DEF ScanInv
<1>1. IndexTyped' /\ ScannerTyped' /\ WatcherTyped' /\ RestTyped'
  BY <1>0, SettingsTyped, ScanAssumption
     DEF OtherBegins, Running, NoScan, Empty, IndexTyped, ScannerTyped, WatcherTyped, RestTyped, IndexType,
         ScanType
<1>2. ASSUME Quiet'
      PROVE  WatcherStays' /\ NoticedWasThere' /\ OneScan' /\ TakenIsPending' /\ ChangesAreTaken' /\ LaterIsQueued'
  BY <1>0, <1>2, SettingsTyped, ScanAssumption
     DEF OtherBegins, Running, NoScan, Empty, ScanInv, Quiet, NoticedWasThere, ChangesAreTaken, LaterIsQueued,
         OneScan, TakenIsPending, WatcherStays, IndexTyped, ScannerTyped, WatcherTyped, RestTyped, IndexType,
         ScanType, ScansNow, Woken, OnItsWay
<1> QED BY <1>1, <1>2, ScanParts DEF ScanInv

(* The index of such a scan does not go behind what the scanner took. *)
LEMMA OtherWritesKeeps ==
    ASSUME ScanInv, OtherWrites
    PROVE  ScanInv'
<1>0. IndexTyped /\ ScannerTyped /\ WatcherTyped /\ RestTyped
  BY ScanParts DEF ScanInv
<1>1. IndexTyped'
  BY <1>0, ScanFields
     DEF OtherWrites, NoScan, Empty, IndexTyped, ScannerTyped, WatcherTyped, RestTyped, IndexType
<1>2. ScannerTyped'
  BY <1>0, SettingsTyped, ScanAssumption
     DEF OtherWrites, Written, NoScan, Empty, IndexTyped, ScannerTyped, WatcherTyped, RestTyped, ScanType
<1>3. WatcherTyped'
  BY <1>0, ScanFields, SettingsTyped, ScanAssumption
     DEF OtherWrites, Written, NoScan, Empty, IndexTyped, ScannerTyped, WatcherTyped, RestTyped
<1>4. RestTyped'
  BY <1>0, SettingsTyped, ScanAssumption
     DEF OtherWrites, Written, NoScan, Empty, IndexTyped, ScannerTyped, WatcherTyped, RestTyped
<1>5. ASSUME Quiet'
      PROVE  WatcherStays' /\ NoticedWasThere' /\ OneScan' /\ TakenIsPending' /\ ChangesAreTaken' /\ LaterIsQueued'
  <2>1. Quiet
    BY <1>5 DEF Quiet, OtherWrites, Written, NoScan, Empty
  <2>2. WatcherStays /\ NoticedWasThere /\ OneScan /\ TakenIsPending /\ ChangesAreTaken /\ LaterIsQueued
    BY <2>1 DEF ScanInv
  <2>3. WatcherStays'
    BY <1>0, <2>1, <2>2, SettingsTyped, ScanAssumption
       DEF OtherWrites, Written, NoScan, Empty, Quiet, WatcherStays, OneScan, TakenIsPending, WatcherStays,
           IndexTyped, ScannerTyped, WatcherTyped, RestTyped, IndexType, ScanType, ScansNow, Woken, OnItsWay
  <2>4. NoticedWasThere'
    BY <1>0, <2>1, <2>2, SettingsTyped, ScanAssumption
       DEF OtherWrites, Written, NoScan, Empty, Quiet, NoticedWasThere, OneScan, TakenIsPending, WatcherStays,
           IndexTyped, ScannerTyped, WatcherTyped, RestTyped, IndexType, ScanType, ScansNow, Woken, OnItsWay
  <2>5. OneScan'
    BY <1>0, <2>1, <2>2, SettingsTyped, ScanAssumption
       DEF OtherWrites, Written, NoScan, Empty, Quiet, OneScan, OneScan, TakenIsPending, WatcherStays,
           IndexTyped, ScannerTyped, WatcherTyped, RestTyped, IndexType, ScanType, ScansNow, Woken, OnItsWay
  <2>6. TakenIsPending'
    BY <1>0, <2>1, <2>2, SettingsTyped, ScanAssumption
       DEF OtherWrites, Written, NoScan, Empty, Quiet, TakenIsPending, OneScan, TakenIsPending, WatcherStays,
           IndexTyped, ScannerTyped, WatcherTyped, RestTyped, IndexType, ScanType, ScansNow, Woken, OnItsWay
  <2>7. ChangesAreTaken'
    BY <1>0, <2>1, <2>2, SettingsTyped, ScanAssumption
       DEF OtherWrites, Written, NoScan, Empty, Quiet, ChangesAreTaken, LaterIsQueued, OneScan,
           TakenIsPending, WatcherStays, IndexTyped, ScannerTyped, WatcherTyped, RestTyped, IndexType,
           ScanType, ScansNow, Woken, OnItsWay
  <2>8. LaterIsQueued'
    BY <1>0, <2>1, <2>2, SettingsTyped, ScanAssumption
       DEF OtherWrites, Written, NoScan, Empty, Quiet, LaterIsQueued, OneScan, TakenIsPending, WatcherStays,
           IndexTyped, ScannerTyped, WatcherTyped, RestTyped, IndexType, ScanType, ScansNow, Woken, OnItsWay
  <2> QED BY <2>3, <2>4, <2>5, <2>6, <2>7, <2>8
<1> QED BY <1>1, <1>2, <1>3, <1>4, <1>5, ScanParts DEF ScanInv

(* Changes of the settings are outside the quiet scenes. *)
LEMMA SettingChangesKeeps ==
    ASSUME ScanInv, SettingChanges
    PROVE  ScanInv'
<1>0. IndexTyped /\ ScannerTyped /\ WatcherTyped /\ RestTyped
  BY ScanParts DEF ScanInv
<1>1. IndexTyped' /\ ScannerTyped' /\ WatcherTyped' /\ RestTyped'
  BY <1>0, SettingsTyped, ScanAssumption
     DEF SettingChanges, IndexTyped, ScannerTyped, WatcherTyped, RestTyped, IndexType, ScanType
<1>2. ASSUME Quiet'
      PROVE  WatcherStays' /\ NoticedWasThere' /\ OneScan' /\ TakenIsPending' /\ ChangesAreTaken' /\ LaterIsQueued'
  BY <1>0, <1>2, SettingsTyped, ScanAssumption
     DEF SettingChanges, ScanInv, Quiet, NoticedWasThere, ChangesAreTaken, LaterIsQueued, OneScan,
         TakenIsPending, WatcherStays, IndexTyped, ScannerTyped, WatcherTyped, RestTyped, IndexType, ScanType,
         ScansNow, Woken, OnItsWay
<1> QED BY <1>1, <1>2, ScanParts DEF ScanInv

(* An index that has grown old holds what it held. *)
LEMMA IndexAgesKeeps ==
    ASSUME ScanInv, IndexAges
    PROVE  ScanInv'
<1>0. IndexTyped /\ ScannerTyped /\ WatcherTyped /\ RestTyped
  BY ScanParts DEF ScanInv
<1>1. IndexTyped' /\ ScannerTyped' /\ WatcherTyped' /\ RestTyped'
  BY <1>0, SettingsTyped, ScanAssumption
     DEF IndexAges, IndexTyped, ScannerTyped, WatcherTyped, RestTyped, IndexType, ScanType
<1>2. ASSUME Quiet'
      PROVE  WatcherStays' /\ NoticedWasThere' /\ OneScan' /\ TakenIsPending' /\ ChangesAreTaken' /\ LaterIsQueued'
  BY <1>0, <1>2, SettingsTyped, ScanAssumption
     DEF IndexAges, ScanInv, Quiet, NoticedWasThere, ChangesAreTaken, LaterIsQueued, OneScan, TakenIsPending,
         WatcherStays, IndexTyped, ScannerTyped, WatcherTyped, RestTyped, IndexType, ScanType, ScansNow,
         Woken, OnItsWay
<1> QED BY <1>1, <1>2, ScanParts DEF ScanInv

(* Artwork requests are outside the quiet scenes when they read the index. *)
LEMMA ArtworkReadsKeeps ==
    ASSUME ScanInv, ArtworkReads
    PROVE  ScanInv'
<1>0. IndexTyped /\ ScannerTyped /\ WatcherTyped /\ RestTyped
  BY ScanParts DEF ScanInv
<1>1. IndexTyped' /\ ScannerTyped' /\ WatcherTyped' /\ RestTyped'
  BY <1>0, SettingsTyped, ScanAssumption
     DEF ArtworkReads, IndexTyped, ScannerTyped, WatcherTyped, RestTyped, IndexType, ScanType
<1>2. ASSUME Quiet'
      PROVE  WatcherStays' /\ NoticedWasThere' /\ OneScan' /\ TakenIsPending' /\ ChangesAreTaken' /\ LaterIsQueued'
  BY <1>0, <1>2, SettingsTyped, ScanAssumption
     DEF ArtworkReads, ScanInv, Quiet, NoticedWasThere, ChangesAreTaken, LaterIsQueued, OneScan,
         TakenIsPending, WatcherStays, IndexTyped, ScannerTyped, WatcherTyped, RestTyped, IndexType, ScanType,
         ScansNow, Woken, OnItsWay
<1> QED BY <1>1, <1>2, ScanParts DEF ScanInv

(* And when they write it back. *)
LEMMA ArtworkWritesKeeps ==
    ASSUME ScanInv, ArtworkWrites
    PROVE  ScanInv'
<1>0. IndexTyped /\ ScannerTyped /\ WatcherTyped /\ RestTyped
  BY ScanParts DEF ScanInv
<1>1. IndexTyped' /\ ScannerTyped' /\ WatcherTyped' /\ RestTyped'
  BY <1>0, SettingsTyped, ScanAssumption
     DEF ArtworkWrites, NoLibrary, Empty, IndexTyped, ScannerTyped, WatcherTyped, RestTyped, IndexType,
         ScanType
<1>2. ASSUME Quiet'
      PROVE  WatcherStays' /\ NoticedWasThere' /\ OneScan' /\ TakenIsPending' /\ ChangesAreTaken' /\ LaterIsQueued'
  BY <1>0, <1>2, SettingsTyped, ScanAssumption
     DEF ArtworkWrites, NoLibrary, Empty, ScanInv, Quiet, NoticedWasThere, ChangesAreTaken, LaterIsQueued,
         OneScan, TakenIsPending, WatcherStays, IndexTyped, ScannerTyped, WatcherTyped, RestTyped, IndexType,
         ScanType, ScansNow, Woken, OnItsWay
<1> QED BY <1>1, <1>2, ScanParts DEF ScanInv

(* A restart forgets the changes, and that they were noticed. *)
LEMMA RestartKeeps ==
    ASSUME ScanInv, Restart
    PROVE  ScanInv'
<1>0. IndexTyped /\ ScannerTyped /\ WatcherTyped /\ RestTyped
  BY ScanParts DEF ScanInv
<1>1. IndexTyped' /\ ScannerTyped' /\ WatcherTyped' /\ RestTyped'
  BY <1>0, SettingsTyped, ScanAssumption
     DEF Restart, NoScan, Empty, NoLibrary, Watch, IndexTyped, ScannerTyped, WatcherTyped, RestTyped,
         IndexType, ScanType
<1>2. ASSUME Quiet'
      PROVE  WatcherStays' /\ NoticedWasThere' /\ OneScan' /\ TakenIsPending' /\ ChangesAreTaken' /\ LaterIsQueued'
  BY <1>0, <1>2, SettingsTyped, ScanAssumption
     DEF Restart, NoScan, Empty, NoLibrary, Watch, ScanInv, Quiet, NoticedWasThere, ChangesAreTaken,
         LaterIsQueued, OneScan, TakenIsPending, WatcherStays, IndexTyped, ScannerTyped, WatcherTyped,
         RestTyped, IndexType, ScanType, ScansNow, Woken, OnItsWay
<1> QED BY <1>1, <1>2, ScanParts DEF ScanInv

(* What a walk writes down.                                                *)
LEMMA WalkFinds ==
    ASSUME IndexTyped, RestTyped, NEW run \in ScanType, NEW gone
    PROVE  /\ Walked(run, gone) \in [Categories -> Nat]
           /\ gone = {} => \A c \in run.of : Walked(run, gone)[c] =
                               IF run.chosen # {} /\ c \notin run.chosen THEN library.seen[c] ELSE files[c]
<1>1. /\ library.seen \in [Categories -> Nat] /\ files \in [Categories -> Nat] /\ run.of \subseteq Categories
  BY DEF IndexTyped, IndexType, RestTyped, ScanType
<1>2. ASSUME NEW c \in Categories
      PROVE  Walked(run, gone)[c] \in Nat
  BY <1>1, <1>2 DEF Walked
<1>3. Walked(run, gone) = [c \in Categories |-> Walked(run, gone)[c]]
  BY DEF Walked
<1>4. Walked(run, gone) \in [Categories -> Nat]
  BY <1>2, <1>3
<1>5. ASSUME gone = {}, NEW c \in run.of
      PROVE  Walked(run, gone)[c] = IF run.chosen # {} /\ c \notin run.chosen THEN library.seen[c] ELSE files[c]
  BY <1>1, <1>5 DEF Walked
<1> QED BY <1>4, <1>5

(* The scanner sees the files as they are, in the categories it scans. *)
LEMMA ScannerWalksKeeps ==
    ASSUME ScanInv, NEW gone \in SUBSET Categories, ScannerWalks(gone)
    PROVE  ScanInv'
<1>0. IndexTyped /\ ScannerTyped /\ WatcherTyped /\ RestTyped
  BY ScanParts DEF ScanInv
<1> DEFINE run == scanner.scan
           found == Walked(run, gone)
<1>1. /\ run \in ScanType /\ run.at = "walks"
      /\ scanner = [scan |-> run, initial |-> scanner.initial, pending |-> scanner.pending]
      /\ run = [at |-> run.at, of |-> run.of, chosen |-> run.chosen, seen |-> run.seen]
      /\ scanner.initial \in BOOLEAN /\ scanner.pending \in BOOLEAN
  BY <1>0 DEF ScannerTyped, ScanType, ScannerWalks
<1>2. found \in [Categories -> Nat]
  BY <1>0, <1>1, WalkFinds
<1>3. scanner' = [scan |-> [at |-> "writes", of |-> run.of, chosen |-> run.chosen, seen |-> found],
                  initial |-> scanner.initial, pending |-> scanner.pending]
  <2>1. scanner' = [scanner EXCEPT !.scan.at = "writes", !.scan.seen = found]
    BY DEF ScannerWalks
  <2> HIDE DEF found
  <2> QED BY <1>1, <2>1
<1>4. IndexTyped' /\ WatcherTyped' /\ RestTyped'
  <2>1. failures' \in Nat
    BY <1>0 DEF ScannerWalks, RestTyped
  <2> QED BY <1>0, <2>1 DEF ScannerWalks, IndexTyped, WatcherTyped, RestTyped
<1>5. ScannerTyped'
  <2> HIDE DEF found
  <2> QED BY <1>0, <1>1, <1>2, <1>3 DEF ScannerWalks, ScannerTyped, ScanType
<1>6. ASSUME Quiet'
      PROVE  WatcherStays' /\ NoticedWasThere' /\ OneScan' /\ TakenIsPending' /\ ChangesAreTaken' /\ LaterIsQueued'
  <2>1. Quiet
    BY <1>6 DEF Quiet, ScannerWalks
  <2>2. WatcherStays /\ NoticedWasThere /\ OneScan /\ TakenIsPending /\ ChangesAreTaken /\ LaterIsQueued
    BY <2>1 DEF ScanInv
  <2>3. gone = {} /\ other.at = "waits" /\ run.of = setting.enabled
    BY <1>1, <2>1, <2>2 DEF ScannerWalks, Gone, Quiet, OneScan, ScansNow
  <2>4. \A c \in setting.enabled : found[c] = IF run.chosen # {} /\ c \notin run.chosen
                                              THEN library.seen[c] ELSE files[c]
    BY <1>0, <1>1, <2>3, WalkFinds
  <2>5. /\ scanner'.scan.at = "writes" /\ scanner'.scan.of = run.of /\ scanner'.scan.chosen = run.chosen
        /\ scanner'.scan.seen = found /\ scanner'.pending = scanner.pending
    BY <1>3
  <2>6. \A c \in setting.enabled : noticed[c] <= files[c] /\ noticed[c] \in Nat /\ files[c] \in Nat
                                   /\ library.seen[c] \in Nat
    <3>1. setting.enabled \subseteq Categories
      BY <1>0, SettingsTyped, ScanAssumption
    <3>2. /\ noticed \in [Categories -> Nat] /\ files \in [Categories -> Nat]
          /\ library.seen \in [Categories -> Nat]
      BY <1>0 DEF RestTyped, IndexTyped, IndexType
    <3> QED BY <2>2, <3>1, <3>2 DEF NoticedWasThere
  <2> HIDE DEF found
  <2>7. WatcherStays' /\ NoticedWasThere'
    BY <2>2, <2>5 DEF ScannerWalks, WatcherStays, NoticedWasThere
  <2>8. OneScan' /\ TakenIsPending'
    BY <1>1, <2>2, <2>3, <2>5 DEF ScannerWalks, OneScan, TakenIsPending, ScansNow, Woken
  <2>9. ASSUME NEW c \in setting.enabled, noticed[c] > library.seen[c]
        PROVE  OnItsWay(c) \/ (c \in run.chosen /\ found[c] >= noticed[c])
    BY <1>1, <2>2, <2>4, <2>6, <2>9 DEF ChangesAreTaken
  <2>10. ASSUME NEW c \in setting.enabled, noticed[c] > found[c]
         PROVE  OnItsWay(c)
    BY <1>1, <2>2, <2>4, <2>6, <2>10 DEF ChangesAreTaken
  <2>11. \A c : OnItsWay(c) => OnItsWay(c)'
    BY <2>5 DEF ScannerWalks, OnItsWay, Woken
  <2>12. ChangesAreTaken'
    BY <2>5, <2>9, <2>11 DEF ChangesAreTaken, ScannerWalks
  <2>13. LaterIsQueued'
    BY <2>3, <2>5, <2>10, <2>11 DEF LaterIsQueued, ScannerWalks
  <2> QED BY <2>7, <2>8, <2>12, <2>13
<1> QED BY <1>4, <1>5, <1>6, ScanParts DEF ScanInv

(* So do the other scans. *)
LEMMA OtherWalksKeeps ==
    ASSUME ScanInv, NEW gone \in SUBSET Categories, OtherWalks(gone)
    PROVE  ScanInv'
<1>0. IndexTyped /\ ScannerTyped /\ WatcherTyped /\ RestTyped
  BY ScanParts DEF ScanInv
<1> DEFINE found == Walked(other, gone)
<1>1. /\ other \in ScanType /\ other.at = "walks"
      /\ other = [at |-> other.at, of |-> other.of, chosen |-> other.chosen, seen |-> other.seen]
  BY <1>0 DEF ScannerTyped, ScanType, OtherWalks
<1>2. found \in [Categories -> Nat]
  BY <1>0, <1>1, WalkFinds
<1>3. other' = [at |-> "writes", of |-> other.of, chosen |-> other.chosen, seen |-> found]
  <2>1. other' = [other EXCEPT !.at = "writes", !.seen = found]
    BY DEF OtherWalks
  <2> HIDE DEF found
  <2> QED BY <1>1, <2>1
<1>4. IndexTyped' /\ WatcherTyped' /\ RestTyped'
  <2>1. failures' \in Nat
    BY <1>0 DEF OtherWalks, RestTyped
  <2> QED BY <1>0, <2>1 DEF OtherWalks, IndexTyped, WatcherTyped, RestTyped
<1>5. ScannerTyped'
  <2> HIDE DEF found
  <2> QED BY <1>0, <1>1, <1>2, <1>3 DEF OtherWalks, ScannerTyped, ScanType
<1>6. ASSUME Quiet'
      PROVE  WatcherStays' /\ NoticedWasThere' /\ OneScan' /\ TakenIsPending' /\ ChangesAreTaken' /\ LaterIsQueued'
  <2>1. Quiet
    BY <1>6 DEF Quiet, OtherWalks
  <2>2. WatcherStays /\ NoticedWasThere /\ OneScan /\ TakenIsPending /\ ChangesAreTaken /\ LaterIsQueued
    BY <2>1 DEF ScanInv
  <2>3. gone = {} /\ ~ScansNow /\ other.of = setting.enabled /\ other.chosen = {}
    BY <1>1, <2>1, <2>2 DEF OtherWalks, Gone, Quiet, OneScan
  <2>4. \A c \in setting.enabled : found[c] = files[c]
    BY <1>0, <1>1, <2>3, WalkFinds
  <2>5. other'.at = "writes" /\ other'.of = other.of /\ other'.chosen = other.chosen /\ other'.seen = found
    BY <1>3
  <2>6. \A c \in setting.enabled : noticed[c] <= files[c] /\ noticed[c] \in Nat /\ files[c] \in Nat
    <3>1. setting.enabled \subseteq Categories
      BY <1>0, SettingsTyped, ScanAssumption
    <3>2. noticed \in [Categories -> Nat] /\ files \in [Categories -> Nat]
      BY <1>0 DEF RestTyped
    <3> QED BY <2>2, <3>1, <3>2 DEF NoticedWasThere
  <2> HIDE DEF found
  <2>7. WatcherStays' /\ NoticedWasThere' /\ TakenIsPending' /\ ChangesAreTaken'
    BY <2>2
       DEF OtherWalks, WatcherStays, NoticedWasThere, TakenIsPending, ScansNow, Woken, ChangesAreTaken,
           OnItsWay
  <2>8. OneScan'
    BY <1>1, <2>2, <2>3, <2>5 DEF OtherWalks, OneScan, ScansNow
  <2>9. \A c \in setting.enabled : ~(noticed[c] > found[c])
    BY <2>4, <2>6
  <2>10. LaterIsQueued'
    BY <2>2, <2>5, <2>9 DEF LaterIsQueued, OtherWalks, OnItsWay, Woken
  <2> QED BY <2>7, <2>8, <2>10
<1> QED BY <1>4, <1>5, <1>6, ScanParts DEF ScanInv

(* Nothing has been noticed at first. *)
LEMMA ScanInitHolds == ScanInit => ScanInv
<1> SUFFICES ASSUME ScanInit
             PROVE  ScanInv
  OBVIOUS
<1>1. Empty \in [Categories -> Nat] /\ \A c \in Categories : Empty[c] = 0
  BY DEF Empty
<1>2. setting \in Settings /\ setting.enabled \subseteq Categories /\ Watch \subseteq Categories
  BY ScanAssumption DEF ScanInit, Watch
<1>3. NoLibrary \in IndexType /\ NoScan \in ScanType
  BY <1>1 DEF NoLibrary, IndexType, NoScan, ScanType
<1>4. IndexTyped /\ ScannerTyped
  BY <1>3 DEF ScanInit, IndexTyped, ScannerTyped
<1>5. WatcherTyped
  BY <1>2 DEF ScanInit, WatcherTyped
<1>6. RestTyped
  <2>1. files \in [Categories -> Nat] /\ \A c \in Categories : files[c] = 1
    BY DEF ScanInit
  <2>2. scene \subseteq AllScenes
    BY ScanAssumption DEF ScanInit
  <2> QED BY <1>1, <1>2, <2>1, <2>2 DEF ScanInit, RestTyped
<1>7. NoticedWasThere /\ ChangesAreTaken /\ LaterIsQueued
  <2>1. \A c \in Categories : files[c] = 1 /\ noticed[c] = 0 /\ library.seen[c] = 0
    BY <1>1 DEF ScanInit, NoLibrary
  <2>2. scanner.scan.at = "waits" /\ other.at = "waits"
    BY DEF ScanInit, NoScan
  <2> QED BY <1>2, <2>1, <2>2 DEF NoticedWasThere, ChangesAreTaken, LaterIsQueued
<1>8. OneScan /\ TakenIsPending
  BY DEF ScanInit, OneScan, TakenIsPending, ScansNow, NoScan
<1>9. WatcherStays
  BY DEF ScanInit, WatcherStays, NoLibrary, Watch
<1> QED BY <1>4, <1>5, <1>6, <1>7, <1>8, <1>9, ScanParts DEF ScanInv

(* Stuttering keeps the invariant. *)
LEMMA ScanStays == ASSUME ScanInv, UNCHANGED scanVars PROVE ScanInv'
<1>1. IndexTyped' /\ ScannerTyped' /\ WatcherTyped' /\ RestTyped'
  BY ScanParts DEF ScanInv, scanVars, IndexTyped, ScannerTyped, WatcherTyped, RestTyped
<1>2. Quiet' => WatcherStays' /\ NoticedWasThere' /\ OneScan' /\ TakenIsPending' /\ ChangesAreTaken' /\ LaterIsQueued'
  BY DEF ScanInv, scanVars, Quiet, WatcherStays, NoticedWasThere, OneScan, TakenIsPending, ChangesAreTaken,
         LaterIsQueued, OnItsWay, Woken, ScansNow
<1> QED BY <1>1, <1>2, ScanParts DEF ScanInv

(* Every step of the library's scans keeps it. *)
LEMMA ScanSteps == ScanInv /\ [ScanNext]_scanVars => ScanInv'
<1> SUFFICES ASSUME ScanInv, ScanNext \/ UNCHANGED scanVars
             PROVE  ScanInv'
  OBVIOUS
<1>1. ASSUME NEW c \in Categories, FilesChange(c) \/ FolderGoes(c)
      PROVE  ScanInv'
  BY <1>1, FilesChangeKeeps, FolderGoesKeeps
<1>2. CASE MonitorNext
  BY <1>2, QueueChangesKeeps, MonitorWakesKeeps, MonitorRetriesKeeps, NoticeEventKeeps DEF MonitorNext
<1>3. CASE ScannerStarts
  BY <1>3, TimerFiresKeeps, WakesForSettingKeeps, WakesForChangesKeeps DEF ScannerStarts
<1>4. CASE ScannerGoesOn
  BY <1>4, ScannerBeginsKeeps, ScannerWritesKeeps, ScannerWalksKeeps DEF ScannerGoesOn
<1>5. CASE OtherGoesOn
  BY <1>5, OtherWritesKeeps, OtherWalksKeeps DEF OtherGoesOn
<1>6. CASE ScannerFails \/ OtherBegins \/ SettingChanges \/ IndexAges
  BY <1>6, ScannerFailsKeeps, OtherBeginsKeeps, SettingChangesKeeps, IndexAgesKeeps
<1>7. CASE ArtworkReads \/ ArtworkWrites \/ Restart
  BY <1>7, ArtworkReadsKeeps, ArtworkWritesKeeps, RestartKeeps
<1>8. CASE UNCHANGED scanVars
  BY <1>8, ScanStays
<1> QED BY <1>1, <1>2, <1>3, <1>4, <1>5, <1>6, <1>7, <1>8 DEF ScanNext

(* What becomes of a change the monitor of the library has noticed.        *)
THEOREM ScanInvariant == ScanSpec => []ScanInv
BY ScanInitHolds, ScanSteps, PTL DEF ScanSpec

(* Every variable of LibraryScan keeps its type.                           *)
THEOREM ScanTypeCorrect == ScanSpec => []ScanTypeOK
<1>1. ScanInv => ScanTypeOK
  BY DEF ScanInv
<1> QED BY ScanInvariant, <1>1, PTL

(* queueTaterLocalLibraryRealtimeScan and runLocalLibraryScanner: a change *)
(* that was noticed is in the index or on its way there, whatever other    *)
(* scans, failed writes and restarts come between.                         *)
THEOREM NoticedAreDue == ScanSpec => []NoticedChangesAreDue
<1>1. ScanInv => NoticedChangesAreDue
  BY DEF ScanInv, Quiet, ChangesAreTaken, OnItsWay, Woken, NoticedChangesAreDue
<1> QED BY ScanInvariant, <1>1, PTL
===============================================================================
