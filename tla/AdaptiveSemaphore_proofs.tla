---------------------- MODULE AdaptiveSemaphore_proofs ----------------------
(***************************************************************************)
(* Proofs about AdaptiveSemaphore, for any finite set of acquirers and any *)
(* capacities, headrooms and bounds.                                       *)
(*                                                                         *)
(* The inductive invariant is the type invariant, the shape of the queue   *)
(* (QueueMatchesCallers) and the accounting of slots (SlotAccounting): a   *)
(* wake-up turns queue entries into unread grants, one slot each, and it   *)
(* is because no caller is queued twice that the counter keeps up with the *)
(* set of holders.                                                         *)
(***************************************************************************)
EXTENDS AdaptiveSemaphore, FiniteSetTheorems, TLAPS

(* The reservation never reaches the last slot, and capacity 0 stays 0.    *)
LEMMA EffectiveCapRange ==
    ASSUME NEW c \in Nat, NEW watching \in BOOLEAN, NEW n \in Int
    PROVE  /\ EffectiveCapFor(c, watching, n) \in Nat
           /\ c > 0 => EffectiveCapFor(c, watching, n) \in 1..c
           /\ c = 0 => EffectiveCapFor(c, watching, n) = 0
<1>1. ReservedSlots(watching, n) \in Nat
  <2>1. CASE watching /\ n > 0
    <3>1. n - 1 \in Nat
      BY <2>1
    <3>2. StreamAdditionalHeadroom * (n - 1) \in Nat
      BY <3>1, BoundsNat
    <3> QED
      BY <2>1, <3>2, BoundsNat DEF ReservedSlots
  <2>2. CASE ~(watching /\ n > 0)
    BY <2>2 DEF ReservedSlots
  <2> QED
    BY <2>1, <2>2
<1> QED
  BY <1>1 DEF EffectiveCapFor, Lesser

(* How many waiters a wake-up grants: never more than are queued, never    *)
(* past the capacity, and never too few while somebody is left.            *)
LEMMA GrantsRange ==
    ASSUME NEW n \in Nat, NEW ws \in Seq(Acquirers), NEW c \in Nat
    PROVE  /\ Grants(n, ws, c) \in 0..Len(ws)
           /\ Grants(n, ws, c) < Len(ws) => c # 0 /\ n + Grants(n, ws, c) >= c
           /\ Grants(n, ws, c) > 0 => c = 0 \/ n + Grants(n, ws, c) <= c
  BY DEF Grants, Lesser

(* The first g entries of a queue without duplicates are g callers.        *)
LEMMA PrefixCardinality ==
    ASSUME NEW ws \in Seq(Acquirers), NoDuplicates(ws), NEW g \in 0..Len(ws)
    PROVE  /\ IsFiniteSet({ws[i] : i \in 1..g})
           /\ Cardinality({ws[i] : i \in 1..g}) = g
<1> DEFINE T == {ws[i] : i \in 1..g}
           f == [i \in 1..g |-> ws[i]]
<1>1. f \in Bijection(1..g, T)
  BY DEF NoDuplicates, Bijection, Injection, Surjection, IsInjective
<1>2. ExistsBijection(1..g, T)
  BY <1>1 DEF ExistsBijection
<1>3. IsFiniteSet(1..g) /\ Cardinality(1..g) = g
  BY FS_Interval
<1> QED
  BY <1>2, <1>3, FS_Bijection

(* What a wake-up does to the queue and the unread grants: it moves the    *)
(* head of the queue into the grants, keeps what is left duplicate-free,   *)
(* and charges one slot per caller it moved.                               *)
LEMMA WakeEffect ==
    ASSUME NEW n \in Nat, NEW ws \in Seq(Acquirers), NEW sig \in SUBSET Acquirers,
           NEW c \in Nat, NoDuplicates(ws), Entries(ws) \cap sig = {},
           Wake(n, ws, sig, c)
    PROVE  /\ inFlight' \in Nat
           /\ waiters' \in Seq(Acquirers)
           /\ NoDuplicates(waiters')
           /\ sig \subseteq signalled'
           /\ signalled' \subseteq sig \cup Entries(ws)
           /\ Entries(waiters') = Entries(ws) \ signalled'
           /\ IsFiniteSet(signalled' \ sig)
           /\ inFlight' = n + Cardinality(signalled' \ sig)
           /\ waiters' # <<>> => c # 0 /\ inFlight' >= c
           /\ signalled' # sig => c = 0 \/ inFlight' <= c
           /\ \A i, j \in 1..Len(ws) :
                 i < j /\ ws[j] \in signalled' \ sig => ws[i] \in signalled'
<1> DEFINE g == Grants(n, ws, c)
           moved == {ws[i] : i \in 1..g}
<1>1. /\ g \in 0..Len(ws)
      /\ g < Len(ws) => c # 0 /\ n + g >= c
      /\ g > 0 => c = 0 \/ n + g <= c
  BY GrantsRange
<1>2. /\ inFlight' = n + g
      /\ waiters' = SubSeq(ws, g + 1, Len(ws))
      /\ signalled' = sig \cup moved
  BY DEF Wake
<1> HIDE DEF g
<1>3. /\ waiters' \in Seq(Acquirers)
      /\ Len(waiters') = Len(ws) - g
      /\ \A i \in 1..(Len(ws) - g) : waiters'[i] = ws[g + i]
  BY <1>1, <1>2
<1>4. NoDuplicates(waiters')
  <2>1. SUFFICES ASSUME NEW i \in 1..Len(waiters'), NEW j \in 1..Len(waiters'),
                        waiters'[i] = waiters'[j]
                 PROVE  i = j
    BY DEF NoDuplicates
  <2>2. g + i \in 1..Len(ws) /\ g + j \in 1..Len(ws)
    BY <1>1, <1>3
  <2>3. ws[g + i] = ws[g + j]
    BY <1>3, <2>1
  <2> QED
    BY <1>1, <2>2, <2>3 DEF NoDuplicates
<1>5. moved \subseteq Entries(ws)
  <2>1. \A i \in 1..g : i \in 1..Len(ws)
    BY <1>1
  <2> QED
    BY <2>1 DEF Entries
<1>6. IsFiniteSet(moved) /\ Cardinality(moved) = g
  BY <1>1, PrefixCardinality
<1> HIDE DEF moved
<1>7. signalled' \ sig = moved
  BY <1>2, <1>5
<1>8. Entries(waiters') = Entries(ws) \ signalled'
  <2>1. ASSUME NEW x \in Entries(waiters')
        PROVE  x \in Entries(ws) \ signalled'
    <3>1. PICK i \in 1..(Len(ws) - g) : x = ws[g + i]
      BY <1>3 DEF Entries
    <3>2. x \in Entries(ws) /\ g + i \in 1..Len(ws)
      BY <1>1, <3>1 DEF Entries
    <3>3. x \notin moved
      BY <1>1, <3>1, <3>2 DEF NoDuplicates, moved
    <3> QED
      BY <1>2, <3>2, <3>3
  <2>2. ASSUME NEW x \in Entries(ws) \ signalled'
        PROVE  x \in Entries(waiters')
    <3>1. PICK i \in 1..Len(ws) : x = ws[i]
      BY DEF Entries
    <3>2. i \notin 1..g
      BY <1>2, <3>1 DEF moved
    <3>3. i - g \in 1..(Len(ws) - g) /\ waiters'[i - g] = x
      BY <1>1, <1>3, <3>1, <3>2
    <3> QED
      BY <1>3, <3>3 DEF Entries
  <2> QED
    BY <2>1, <2>2
<1>9. waiters' # <<>> => g < Len(ws)
  BY <1>1, <1>3
<1>10. signalled' # sig => g > 0
  BY <1>1, <1>2 DEF moved
<1>11. /\ inFlight' \in Nat
       /\ IsFiniteSet(signalled' \ sig)
       /\ inFlight' = n + Cardinality(signalled' \ sig)
  <2>1. IsFiniteSet(signalled' \ sig) /\ Cardinality(signalled' \ sig) = g
    BY <1>6, <1>7, Zenon
  <2> QED
    BY <1>1, <1>2, <2>1
<1>12. sig \subseteq signalled' /\ signalled' \subseteq sig \cup Entries(ws)
  BY <1>2, <1>5
<1>13. /\ waiters' # <<>> => c # 0 /\ inFlight' >= c
       /\ signalled' # sig => c = 0 \/ inFlight' <= c
  BY <1>1, <1>2, <1>9, <1>10
<1>14. ASSUME NEW i \in 1..Len(ws), NEW j \in 1..Len(ws), i < j,
              ws[j] \in signalled' \ sig
       PROVE  ws[i] \in signalled'
  <2>1. PICK k \in 1..g : ws[j] = ws[k]
    BY <1>7, <1>14 DEF moved
  <2>2. j = k
    BY <1>1, <2>1 DEF NoDuplicates
  <2>3. i \in 1..g
    BY <1>1, <1>14, <2>2
  <2> QED
    BY <1>2, <2>3 DEF moved
<1> QED
  BY <1>3, <1>4, <1>8, <1>11, <1>12, <1>13, <1>14

(* removeWaiterLocked drops exactly the caller it is given.                *)
LEMMA RemoveWaiterEffect ==
    ASSUME NEW ws \in Seq(Acquirers), NoDuplicates(ws), NEW a \in Acquirers
    PROVE  /\ RemoveWaiter(ws, a) \in Seq(Acquirers)
           /\ NoDuplicates(RemoveWaiter(ws, a))
           /\ Entries(RemoveWaiter(ws, a)) = Entries(ws) \ {a}
<1>1. CASE ~ \E i \in 1..Len(ws) : ws[i] = a
  BY <1>1 DEF RemoveWaiter, Entries
<1>2. CASE \E i \in 1..Len(ws) : ws[i] = a
  <2> DEFINE pos == CHOOSE i \in 1..Len(ws) :
                     ws[i] = a /\ \A j \in 1..(i - 1) : ws[j] # a
             rest == [j \in 1..(Len(ws) - 1) |->
                        IF j < pos THEN ws[j] ELSE ws[j + 1]]
  <2>1. \E i \in 1..Len(ws) : ws[i] = a /\ \A j \in 1..(i - 1) : ws[j] # a
    BY <1>2 DEF NoDuplicates
  <2>2. pos \in 1..Len(ws) /\ ws[pos] = a
    BY <2>1
  <2>3. RemoveWaiter(ws, a) = rest
    BY <1>2 DEF RemoveWaiter
  <2> HIDE DEF pos
  <2>4. /\ rest \in Seq(Acquirers)
        /\ Len(rest) = Len(ws) - 1
        /\ \A j \in 1..(Len(ws) - 1) :
              rest[j] = IF j < pos THEN ws[j] ELSE ws[j + 1]
    <3>1. Len(ws) - 1 \in Nat
      BY <2>2
    <3>2. rest \in [1..(Len(ws) - 1) -> Acquirers]
      BY <2>2
    <3> QED
      BY <3>1, <3>2
  <2> HIDE DEF rest
  <2>5. NoDuplicates(rest)
    BY <2>2, <2>4 DEF NoDuplicates
  <2>6. Entries(rest) = Entries(ws) \ {a}
    <3>1. ASSUME NEW x \in Entries(rest)
          PROVE  x \in Entries(ws) \ {a}
      <4>1. PICK j \in 1..(Len(ws) - 1) : x = rest[j]
        BY <2>4 DEF Entries
      <4>2. CASE j < pos
        BY <2>2, <2>4, <4>1, <4>2 DEF Entries, NoDuplicates
      <4>3. CASE ~(j < pos)
        BY <2>2, <2>4, <4>1, <4>3 DEF Entries, NoDuplicates
      <4> QED
        BY <4>2, <4>3
    <3>2. ASSUME NEW x \in Entries(ws) \ {a}
          PROVE  x \in Entries(rest)
      <4>1. PICK i \in 1..Len(ws) : x = ws[i]
        BY DEF Entries
      <4>2. CASE i < pos
        BY <2>2, <2>4, <4>1, <4>2 DEF Entries
      <4>3. CASE i > pos
        <5>1. i - 1 \in 1..(Len(ws) - 1) /\ rest[i - 1] = x
          BY <2>2, <2>4, <4>1, <4>3
        <5> QED
          BY <2>4, <5>1 DEF Entries
      <4> QED
        BY <2>2, <4>1, <4>2, <4>3
    <3> QED
      BY <3>1, <3>2
  <2> QED
    BY <2>3, <2>4, <2>5, <2>6
<1> QED
  BY <1>1, <1>2

----------------------------------------------------------------------------
(* The inductive invariant.                                                *)
IInv ==
    /\ SemaphoreTypeOK
    /\ QueueMatchesCallers
    /\ SlotAccounting
    /\ NoIdleHeadroom

(* BoundedSlots counts with the same Cardinality.                          *)
LEMMA SameCardinality == \A S : Slots!Cardinality(S) = Cardinality(S)
  BY DEF Slots!Cardinality, Cardinality, Slots!IsFiniteSet, IsFiniteSet

(* Every critical section that wakes waiters restores the invariant and is *)
(* a step of BoundedSlots: enter it with the books balanced for queue ws,  *)
(* unread grants sig and n slots in flight, at most one slot given back,   *)
(* and capacity c in force afterwards.                                     *)
LEMMA WakeRestoresInvariant ==
    ASSUME SemaphoreTypeOK,
           caller' \in [Acquirers -> CallerStates],
           NEW n \in Nat, NEW ws \in Seq(Acquirers), NEW sig \in SUBSET Acquirers,
           NEW c \in Nat, c = EffectiveCap',
           NoDuplicates(ws),
           Entries(ws) = Blocked' \ sig,
           sig \subseteq Blocked',
           n = Cardinality(Holding' \cup sig),
           Holding' \cup sig \subseteq Holders,
           Cardinality(Holders \ (Holding' \cup sig)) <= 1,
           Wake(n, ws, sig, c)
    PROVE  /\ inFlight' \in Nat
           /\ waiters' \in Seq(Acquirers)
           /\ signalled' \subseteq Acquirers
           /\ QueueMatchesCallers'
           /\ SlotAccounting'
           /\ NoIdleHeadroom'
           /\ Slots!Next
<1> DEFINE kept == Holding' \cup sig
           fresh == signalled' \ sig
<1>1. /\ inFlight' \in Nat
      /\ waiters' \in Seq(Acquirers)
      /\ NoDuplicates(waiters')
      /\ sig \subseteq signalled'
      /\ signalled' \subseteq sig \cup Entries(ws)
      /\ Entries(waiters') = Entries(ws) \ signalled'
      /\ IsFiniteSet(fresh)
      /\ inFlight' = n + Cardinality(fresh)
      /\ waiters' # <<>> => c # 0 /\ inFlight' >= c
      /\ signalled' # sig => c = 0 \/ inFlight' <= c
  <2>1. Entries(ws) \cap sig = {}
    OBVIOUS
  <2> QED
    BY <2>1, WakeEffect
<1>2. QueueMatchesCallers'
  BY <1>1 DEF QueueMatchesCallers
<1>3. Blocked' \cap Holding' = {} /\ Blocked' \subseteq Acquirers /\ Holding' \subseteq Acquirers
  BY DEF Blocked, Holding
<1>4. Holders' = kept \cup fresh /\ kept \cap fresh = {}
  BY <1>1, <1>3 DEF Holders
<1>5. IsFiniteSet(kept) /\ IsFiniteSet(fresh)
  <2>1. kept \subseteq Acquirers
    BY <1>3
  <2> QED
    BY <1>1, <2>1, AcquirersFinite, FS_Subset
<1>6. SlotAccounting'
  <2> HIDE DEF kept, fresh
  <2>1. Cardinality(kept \cup fresh)
          = Cardinality(kept) + Cardinality(fresh) - Cardinality(kept \cap fresh)
    BY <1>5, FS_Union
  <2>2. Cardinality(kept \cap fresh) = 0
    BY <1>4, FS_EmptySet
  <2>3. Cardinality(kept) \in Nat /\ Cardinality(fresh) \in Nat
    BY <1>5, FS_CardinalityType
  <2>4. inFlight' = Cardinality(kept) + Cardinality(fresh)
    BY <1>1 DEF kept, fresh
  <2>5. inFlight' = Cardinality(kept \cup fresh)
    BY <2>1, <2>2, <2>3, <2>4
  <2> QED
    BY <1>4, <2>5 DEF SlotAccounting
<1>7. NoIdleHeadroom'
  BY <1>1 DEF NoIdleHeadroom
<1>8. Slots!Next
  <2>1. Holders' \in SUBSET Acquirers
    BY <1>1, <1>3, <1>4
  <2>2. Cardinality(Slots!Leaving) <= 1
    <3>1. Slots!Leaving \subseteq Holders \ kept
      BY <1>4 DEF Slots!Leaving
    <3>2. IsFiniteSet(Holders \ kept)
      <4>1. Holders \ kept \in SUBSET Acquirers
        BY DEF Holders, Holding, SemaphoreTypeOK
      <4> QED
        BY <4>1, AcquirersFinite, FS_Subset
    <3>3. /\ Cardinality(Slots!Leaving) <= Cardinality(Holders \ kept)
          /\ IsFiniteSet(Slots!Leaving)
      BY <3>1, <3>2, FS_Subset
    <3>4. Cardinality(Slots!Leaving) \in Nat /\ Cardinality(Holders \ kept) \in Nat
      BY <3>2, <3>3, FS_CardinalityType
    <3> QED
      BY <3>3, <3>4
  <2>3. Slots!Entering # {} => c = 0 \/ Cardinality(Holders') <= c
    <3>1. Slots!Entering # {} => signalled' # sig
      BY <1>4 DEF Slots!Entering
    <3> QED
      BY <1>1, <1>6, <3>1 DEF SlotAccounting
  <2> QED
    BY <2>1, <2>2, <2>3, SameCardinality DEF Slots!Next
<1> QED
  BY <1>1, <1>2, <1>3, <1>6, <1>7, <1>8
----------------------------------------------------------------------------
(* Every capacity the rules can compute is a natural number.               *)
LEMMA EffectiveCapType ==
    ASSUME SemaphoreTypeOK
    PROVE  /\ EffectiveCap \in Nat
           /\ capacity > 0 => EffectiveCap \in 1..capacity
  BY EffectiveCapRange DEF EffectiveCap, SemaphoreTypeOK

(* Callers that hold a slot, that are blocked and that are elsewhere are   *)
(* different callers, and only finitely many hold one.                     *)
LEMMA HoldersFinite ==
    ASSUME SemaphoreTypeOK
    PROVE  /\ IsFiniteSet(Holders)
           /\ Cardinality(Holders) \in Nat
<1>1. Holders \in SUBSET Acquirers
  BY DEF Holders, Holding, SemaphoreTypeOK
<1> QED
  BY <1>1, AcquirersFinite, FS_Subset, FS_CardinalityType

(* One slot less: what is left after caller a gives its slot back.         *)
LEMMA OneHolderLess ==
    ASSUME SemaphoreTypeOK, SlotAccounting, NEW a \in Holders
    PROVE  /\ inFlight - 1 \in Nat
           /\ inFlight - 1 = Cardinality(Holders \ {a})
           /\ Cardinality(Holders \ (Holders \ {a})) <= 1
<1>1. Cardinality(Holders \ {a}) = Cardinality(Holders) - 1
  BY HoldersFinite, FS_RemoveElement
<1>2. Cardinality(Holders \ {a}) \in Nat
  BY HoldersFinite, FS_RemoveElement, FS_CardinalityType
<1>3. Holders \ (Holders \ {a}) = {a}
  OBVIOUS
<1>4. Cardinality({a}) = 1
  BY FS_Singleton
<1>5. Cardinality(Holders \ (Holders \ {a})) = 1
  BY <1>3, <1>4, Zenon
<1> QED
  BY <1>1, <1>2, <1>5 DEF SlotAccounting

(* A step that only wakes waiters under a new capacity c.                  *)
LEMMA PlainWake ==
    ASSUME IInv, UNCHANGED caller, NEW c \in Nat, c = EffectiveCap',
           Wake(inFlight, waiters, signalled, c)
    PROVE  /\ inFlight' \in Nat
           /\ waiters' \in Seq(Acquirers)
           /\ signalled' \subseteq Acquirers
           /\ QueueMatchesCallers'
           /\ SlotAccounting'
           /\ NoIdleHeadroom'
           /\ Slots!Next
<1>1. Holding' = Holding /\ Blocked' = Blocked
  BY DEF Holding, Blocked
<1>2. Cardinality(Holders \ Holders) <= 1
  <2>1. Holders \ Holders = {}
    OBVIOUS
  <2>2. Cardinality(Holders \ Holders) = 0
    BY <2>1, FS_EmptySet, Zenon
  <2> QED
    BY <2>2
<1>3. Holding' \cup signalled = Holders
  BY <1>1 DEF Holders
<1>4. inFlight = Cardinality(Holding' \cup signalled)
  BY <1>3 DEF IInv, SlotAccounting
<1>5. Cardinality(Holders \ (Holding' \cup signalled)) <= 1
  BY <1>2, <1>3
<1>6. caller' \in [Acquirers -> CallerStates] /\ SemaphoreTypeOK
  BY DEF IInv, SemaphoreTypeOK
<1>7. /\ NoDuplicates(waiters)
      /\ Entries(waiters) = Blocked' \ signalled
      /\ signalled \subseteq Blocked'
  BY <1>1 DEF IInv, QueueMatchesCallers
<1>8. inFlight \in Nat /\ waiters \in Seq(Acquirers) /\ signalled \in SUBSET Acquirers
  BY DEF IInv, SemaphoreTypeOK
<1>9. Holding' \cup signalled \subseteq Holders
  BY <1>3
<1> QED
  BY <1>4, <1>5, <1>6, <1>7, <1>8, <1>9, WakeRestoresInvariant

(* The same for a caller that gives its slot back and leaves Acquire.      *)
LEMMA LeavingWake ==
    ASSUME IInv, NEW a \in Acquirers, NEW sig, sig = signalled \ {a},
           \/ caller[a] = "holding"
           \/ caller[a] = "cancelled" /\ a \in signalled,
           caller' = [caller EXCEPT ![a] = "idle"],
           UNCHANGED <<capacity, sourceSet, streams>>,
           Wake(inFlight - 1, waiters, sig, EffectiveCap)
    PROVE  /\ inFlight' \in Nat
           /\ waiters' \in Seq(Acquirers)
           /\ signalled' \subseteq Acquirers
           /\ QueueMatchesCallers'
           /\ SlotAccounting'
           /\ NoIdleHeadroom'
           /\ Slots!Next
<1> USE DEF IInv
<1>1. SemaphoreTypeOK /\ caller' \in [Acquirers -> CallerStates]
  BY DEF SemaphoreTypeOK, CallerStates
<1>2. /\ Holding' = Holding \ {a}
      /\ Blocked' = Blocked \ {a}
      /\ caller[a] = "holding" => a \notin Blocked
      /\ caller[a] = "cancelled" => a \in Blocked
      /\ caller[a] = "holding" => a \in Holding
  BY <1>1 DEF Holding, Blocked, SemaphoreTypeOK
<1>3. Holding' \cup sig = Holders \ {a} /\ a \in Holders
  BY <1>2 DEF Holders
<1>4. /\ inFlight - 1 \in Nat
      /\ inFlight - 1 = Cardinality(Holding' \cup sig)
      /\ Cardinality(Holders \ (Holding' \cup sig)) <= 1
      /\ Holding' \cup sig \subseteq Holders
  BY <1>1, <1>3, OneHolderLess
<1>5. /\ NoDuplicates(waiters)
      /\ Entries(waiters) = Blocked' \ sig
      /\ sig \subseteq Blocked'
  BY <1>2 DEF QueueMatchesCallers
<1>6. EffectiveCap \in Nat /\ EffectiveCap = EffectiveCap'
  BY <1>1, EffectiveCapType DEF EffectiveCap
<1>7. waiters \in Seq(Acquirers) /\ sig \in SUBSET Acquirers
  BY <1>1 DEF SemaphoreTypeOK
<1> QED
  BY <1>1, <1>4, <1>5, <1>6, <1>7, WakeRestoresInvariant
----------------------------------------------------------------------------
(* The initial state satisfies the invariant.                              *)
LEMMA InitInvariant == SemaphoreInit => IInv /\ Slots!Init
<1> SUFFICES ASSUME SemaphoreInit PROVE IInv /\ Slots!Init
  OBVIOUS
<1> USE DEF SemaphoreInit
<1>1. SemaphoreTypeOK
  <2>1. waiters \in Seq(Acquirers)
    OBVIOUS
  <2>2. sourceSet \in BOOLEAN
    BY Zenon
  <2>3. caller \in [Acquirers -> CallerStates]
    BY Zenon DEF CallerStates
  <2>4. inFlight \in Nat /\ capacity \in Nat /\ streams \in Int /\ pendingNotify \in Nat
    OBVIOUS
  <2>5. signalled \subseteq Acquirers
    BY Zenon
  <2> QED
    BY <2>1, <2>2, <2>3, <2>4, <2>5, Zenon DEF SemaphoreTypeOK
<1>2. Holding = {} /\ Holders = {} /\ Blocked = {} /\ Entries(waiters) = {}
  BY DEF Holders, Holding, Blocked, Entries
<1>3. QueueMatchesCallers
  BY <1>2 DEF QueueMatchesCallers, NoDuplicates
<1>4. SlotAccounting
  BY <1>2, FS_EmptySet, Zenon DEF SlotAccounting
<1>5. NoIdleHeadroom
  BY DEF NoIdleHeadroom
<1>6. Slots!Init
  BY <1>2 DEF Slots!Init, EffectiveCap, EffectiveCapFor
<1> QED
  BY <1>1, <1>3, <1>4, <1>5, <1>6 DEF IInv

(* Every step preserves the invariant, and is a step of BoundedSlots or    *)
(* leaves its variables alone.                                             *)
LEMMA NextInvariant ==
    IInv /\ [SemaphoreNext]_semaphoreVars => IInv' /\ [Slots!Next]_(Slots!vars)
<1> SUFFICES ASSUME IInv, [SemaphoreNext]_semaphoreVars
             PROVE  IInv' /\ [Slots!Next]_(Slots!vars)
  OBVIOUS
<1> USE DEF IInv
<1> DEFINE CapsFixed == UNCHANGED <<capacity, sourceSet, streams>>
<1>0. ASSUME CapsFixed PROVE EffectiveCap' = EffectiveCap
  BY <1>0 DEF EffectiveCap
<1>1. ASSUME NEW a \in Acquirers, AcquireDisabled(a)
      PROVE  IInv' /\ [Slots!Next]_(Slots!vars)
  <2> USE <1>1 DEF AcquireDisabled, capVars, streamVars
  <2>1. SemaphoreTypeOK'
    BY DEF SemaphoreTypeOK, CallerStates
  <2>2. Holding' = Holding /\ Blocked' = Blocked
    BY DEF Holding, Blocked, SemaphoreTypeOK
  <2>3. Holders' = Holders /\ EffectiveCap' = EffectiveCap
    BY <2>2, <1>0 DEF Holders
  <2>4. QueueMatchesCallers' /\ SlotAccounting' /\ NoIdleHeadroom'
    BY <2>2, <2>3 DEF QueueMatchesCallers, SlotAccounting, NoIdleHeadroom
  <2> QED
    BY <2>1, <2>3, <2>4 DEF Slots!vars
<1>2. ASSUME NEW a \in Acquirers, AcquireSlot(a)
      PROVE  IInv' /\ [Slots!Next]_(Slots!vars)
  <2> USE <1>2 DEF AcquireSlot, capVars, streamVars
  <2>1. SemaphoreTypeOK'
    BY DEF SemaphoreTypeOK, CallerStates
  <2>2. Holding' = Holding \cup {a} /\ Blocked' = Blocked /\ a \notin Holding /\ a \notin Blocked
    BY DEF Holding, Blocked, SemaphoreTypeOK
  <2>3. Holders' = Holders \cup {a} /\ a \notin Holders
    BY <2>2 DEF Holders, QueueMatchesCallers
  <2>4. Cardinality(Holders') = Cardinality(Holders) + 1
    BY <2>3, HoldersFinite, FS_AddElement
  <2>5. EffectiveCap' = EffectiveCap /\ EffectiveCap \in Nat
    BY <1>0, EffectiveCapType
  <2>6. SlotAccounting'
    BY <2>4 DEF SlotAccounting
  <2>7. QueueMatchesCallers'
    BY <2>2 DEF QueueMatchesCallers
  <2>8. NoIdleHeadroom'
    BY <2>5 DEF NoIdleHeadroom, SemaphoreTypeOK
  <2>9. Slots!Next
    <3>1. Slots!Leaving = {} /\ Cardinality(Slots!Leaving) = 0
      BY <2>3, FS_EmptySet, Zenon DEF Slots!Leaving
    <3>2. Holders' \in SUBSET Acquirers
      BY <2>1 DEF Holders, Holding, SemaphoreTypeOK
    <3>3. Cardinality(Holders') <= EffectiveCap'
      BY <2>5, <2>6 DEF SlotAccounting, SemaphoreTypeOK
    <3> QED
      BY <2>5, <3>1, <3>2, <3>3, SameCardinality DEF Slots!Next
  <2> QED
    BY <2>1, <2>6, <2>7, <2>8, <2>9
<1>3. ASSUME NEW a \in Acquirers, Enqueue(a)
      PROVE  IInv' /\ [Slots!Next]_(Slots!vars)
  <2> USE <1>3 DEF Enqueue, capVars, streamVars
  <2>1. SemaphoreTypeOK'
    BY DEF SemaphoreTypeOK, CallerStates
  <2>2. Holding' = Holding /\ Blocked' = Blocked \cup {a} /\ a \notin Blocked
    BY DEF Holding, Blocked, SemaphoreTypeOK
  <2>3. /\ Len(waiters') = Len(waiters) + 1
        /\ waiters'[Len(waiters) + 1] = a
        /\ \A i \in 1..Len(waiters) : waiters'[i] = waiters[i]
        /\ Len(waiters) \in Nat
    BY DEF SemaphoreTypeOK
  <2>4. Entries(waiters') = Entries(waiters) \cup {a}
    BY <2>3 DEF Entries
  <2>5. a \notin Entries(waiters) /\ a \notin signalled
    BY <2>2 DEF QueueMatchesCallers
  <2>6. NoDuplicates(waiters')
    BY <2>3, <2>5 DEF NoDuplicates, QueueMatchesCallers, Entries
  <2>7. QueueMatchesCallers'
    BY <2>2, <2>4, <2>5, <2>6 DEF QueueMatchesCallers
  <2>8. Holders' = Holders /\ EffectiveCap' = EffectiveCap
    BY <2>2, <1>0 DEF Holders
  <2>9. SlotAccounting' /\ NoIdleHeadroom'
    BY <2>8 DEF SlotAccounting, NoIdleHeadroom
  <2> QED
    BY <2>1, <2>7, <2>8, <2>9 DEF Slots!vars
<1>4. ASSUME NEW a \in Acquirers, TakeGrant(a)
      PROVE  IInv' /\ [Slots!Next]_(Slots!vars)
  <2> USE <1>4 DEF TakeGrant, capVars, streamVars
  <2>1. SemaphoreTypeOK'
    BY DEF SemaphoreTypeOK, CallerStates
  <2>2. Holding' = Holding \cup {a} /\ Blocked' = Blocked \ {a}
    BY DEF Holding, Blocked, SemaphoreTypeOK
  <2>3. Holders' = Holders /\ EffectiveCap' = EffectiveCap
    BY <2>2, <1>0 DEF Holders
  <2>4. QueueMatchesCallers' /\ SlotAccounting' /\ NoIdleHeadroom'
    BY <2>2, <2>3 DEF QueueMatchesCallers, SlotAccounting, NoIdleHeadroom
  <2> QED
    BY <2>1, <2>3, <2>4 DEF Slots!vars
<1>5. ASSUME NEW a \in Acquirers, ContextDone(a)
      PROVE  IInv' /\ [Slots!Next]_(Slots!vars)
  <2> USE <1>5 DEF ContextDone, capVars, streamVars
  <2>1. SemaphoreTypeOK'
    BY DEF SemaphoreTypeOK, CallerStates
  <2>2. Holding' = Holding /\ Blocked' = Blocked
    BY DEF Holding, Blocked, SemaphoreTypeOK
  <2>3. Holders' = Holders /\ EffectiveCap' = EffectiveCap
    BY <2>2, <1>0 DEF Holders
  <2>4. QueueMatchesCallers' /\ SlotAccounting' /\ NoIdleHeadroom'
    BY <2>2, <2>3 DEF QueueMatchesCallers, SlotAccounting, NoIdleHeadroom
  <2> QED
    BY <2>1, <2>3, <2>4 DEF Slots!vars
<1>6. ASSUME NEW a \in Acquirers, UndoGrant(a)
      PROVE  IInv' /\ [Slots!Next]_(Slots!vars)
  <2>1. /\ caller[a] = "cancelled" /\ a \in signalled
        /\ Wake(inFlight - 1, waiters, signalled \ {a}, EffectiveCap)
        /\ caller' = [caller EXCEPT ![a] = "idle"]
        /\ UNCHANGED <<capacity, sourceSet, streams, pendingNotify>>
    BY <1>6 DEF UndoGrant, capVars, streamVars
  <2>2. /\ inFlight' \in Nat /\ waiters' \in Seq(Acquirers) /\ signalled' \subseteq Acquirers
        /\ QueueMatchesCallers' /\ SlotAccounting' /\ NoIdleHeadroom' /\ Slots!Next
    BY <2>1, LeavingWake
  <2>3. SemaphoreTypeOK'
    BY <2>1, <2>2 DEF SemaphoreTypeOK, CallerStates
  <2> QED
    BY <2>2, <2>3
<1>7. ASSUME NEW a \in Acquirers, LeaveQueue(a)
      PROVE  IInv' /\ [Slots!Next]_(Slots!vars)
  <2> USE <1>7 DEF LeaveQueue, capVars, streamVars
  <2>1. /\ waiters' \in Seq(Acquirers)
        /\ NoDuplicates(waiters')
        /\ Entries(waiters') = Entries(waiters) \ {a}
    BY RemoveWaiterEffect DEF SemaphoreTypeOK, QueueMatchesCallers
  <2>2. SemaphoreTypeOK'
    BY <2>1 DEF SemaphoreTypeOK, CallerStates
  <2>3. Holding' = Holding /\ Blocked' = Blocked \ {a}
    BY DEF Holding, Blocked, SemaphoreTypeOK
  <2>4. Holders' = Holders /\ EffectiveCap' = EffectiveCap
    BY <2>3, <1>0 DEF Holders
  <2>5. QueueMatchesCallers' /\ SlotAccounting'
    BY <2>1, <2>3, <2>4 DEF QueueMatchesCallers, SlotAccounting
  <2>6. NoIdleHeadroom'
    <3>1. waiters = <<>> => waiters' = <<>>
      BY DEF RemoveWaiter
    <3> QED
      BY <2>4, <3>1 DEF NoIdleHeadroom
  <2> QED
    BY <2>2, <2>4, <2>5, <2>6 DEF Slots!vars
<1>8. ASSUME NEW a \in Acquirers, Release(a)
      PROVE  IInv' /\ [Slots!Next]_(Slots!vars)
  <2>1. /\ caller[a] = "holding"
        /\ caller' = [caller EXCEPT ![a] = "idle"]
        /\ UNCHANGED <<capacity, sourceSet, streams, pendingNotify>>
        /\ Wake(IF inFlight > 0 THEN inFlight - 1 ELSE 0,
                waiters, signalled, EffectiveCap)
    BY <1>8 DEF Release, capVars, streamVars
  <2>2. a \in Holders
    BY <2>1 DEF Holders, Holding
  <2>3. inFlight - 1 \in Nat
    BY <2>2, OneHolderLess
  <2>4. (IF inFlight > 0 THEN inFlight - 1 ELSE 0) = inFlight - 1
    BY <2>3 DEF SemaphoreTypeOK
  <2>5. a \notin signalled
    BY <2>1 DEF QueueMatchesCallers, Blocked
  <2>6. Wake(inFlight - 1, waiters, signalled \ {a}, EffectiveCap)
    <3>1. signalled \ {a} = signalled
      BY <2>5
    <3> QED
      BY <2>1, <2>4, <3>1
  <2>7. /\ inFlight' \in Nat /\ waiters' \in Seq(Acquirers) /\ signalled' \subseteq Acquirers
        /\ QueueMatchesCallers' /\ SlotAccounting' /\ NoIdleHeadroom' /\ Slots!Next
    BY <2>1, <2>6, LeavingWake
  <2>8. SemaphoreTypeOK'
    BY <2>1, <2>7 DEF SemaphoreTypeOK, CallerStates
  <2> QED
    BY <2>7, <2>8
<1>9. ASSUME NEW a \in Acquirers, NoopRelease(a)
      PROVE  IInv' /\ [Slots!Next]_(Slots!vars)
  <2> USE <1>9 DEF NoopRelease, capVars, streamVars
  <2>1. SemaphoreTypeOK'
    BY DEF SemaphoreTypeOK, CallerStates
  <2>2. Holding' = Holding /\ Blocked' = Blocked
    BY DEF Holding, Blocked, SemaphoreTypeOK
  <2>3. Holders' = Holders /\ EffectiveCap' = EffectiveCap
    BY <2>2, <1>0 DEF Holders
  <2>4. QueueMatchesCallers' /\ SlotAccounting' /\ NoIdleHeadroom'
    BY <2>2, <2>3 DEF QueueMatchesCallers, SlotAccounting, NoIdleHeadroom
  <2> QED
    BY <2>1, <2>3, <2>4 DEF Slots!vars
<1>10. ASSUME NEW c \in 0..MaxCapacity, SetCapacity(c)
       PROVE  IInv' /\ [Slots!Next]_(Slots!vars)
  <2>1. /\ capacity' = c /\ c \in Nat
        /\ UNCHANGED <<caller, sourceSet, streams, pendingNotify>>
        /\ Wake(inFlight, waiters, signalled, EffectiveCapFor(c, sourceSet, streams))
    BY <1>10, BoundsNat DEF SetCapacity, streamVars
  <2>2. /\ EffectiveCapFor(c, sourceSet, streams) = EffectiveCap'
        /\ EffectiveCapFor(c, sourceSet, streams) \in Nat
    BY <2>1, EffectiveCapRange DEF EffectiveCap, SemaphoreTypeOK
  <2>3. /\ inFlight' \in Nat /\ waiters' \in Seq(Acquirers) /\ signalled' \subseteq Acquirers
        /\ QueueMatchesCallers' /\ SlotAccounting' /\ NoIdleHeadroom' /\ Slots!Next
    BY <2>1, <2>2, PlainWake
  <2>4. SemaphoreTypeOK'
    BY <2>1, <2>3 DEF SemaphoreTypeOK
  <2> QED
    BY <2>3, <2>4
<1>11. ASSUME SetStreamSource
       PROVE  IInv' /\ [Slots!Next]_(Slots!vars)
  <2>1. /\ sourceSet' = TRUE
        /\ UNCHANGED <<caller, capacity, streams, pendingNotify>>
        /\ Wake(inFlight, waiters, signalled, EffectiveCapFor(capacity, TRUE, streams))
    BY <1>11 DEF SetStreamSource, streamVars
  <2>2. /\ EffectiveCapFor(capacity, TRUE, streams) = EffectiveCap'
        /\ EffectiveCapFor(capacity, TRUE, streams) \in Nat
    BY <2>1, EffectiveCapRange DEF EffectiveCap, SemaphoreTypeOK
  <2>3. /\ inFlight' \in Nat /\ waiters' \in Seq(Acquirers) /\ signalled' \subseteq Acquirers
        /\ QueueMatchesCallers' /\ SlotAccounting' /\ NoIdleHeadroom' /\ Slots!Next
    BY <2>1, <2>2, PlainWake
  <2>4. SemaphoreTypeOK'
    BY <2>1, <2>3 DEF SemaphoreTypeOK
  <2> QED
    BY <2>3, <2>4
<1>12. ASSUME StreamChange
       PROVE  IInv' /\ [Slots!Next]_(Slots!vars)
  <2> USE <1>12 DEF StreamChange, semVars, capVars
  <2>1. SemaphoreTypeOK'
    BY DEF SemaphoreTypeOK
  <2>2. Holding' = Holding /\ Blocked' = Blocked /\ Holders' = Holders
    BY DEF Holding, Blocked, Holders
  <2>3. QueueMatchesCallers' /\ SlotAccounting'
    BY <2>2 DEF QueueMatchesCallers, SlotAccounting
  <2>4. NoIdleHeadroom'
    BY DEF NoIdleHeadroom, SemaphoreTypeOK
  <2>5. Slots!Next
    <3>1. Slots!Leaving = {} /\ Slots!Entering = {} /\ Cardinality({}) = 0
      BY <2>2, FS_EmptySet, Zenon DEF Slots!Leaving, Slots!Entering
    <3>2. Holders' \in SUBSET Acquirers
      BY <2>2 DEF Holders, Holding, SemaphoreTypeOK
    <3>3. EffectiveCap' \in Nat
      BY <2>1, EffectiveCapRange DEF EffectiveCap, SemaphoreTypeOK
    <3> QED
      BY <3>1, <3>2, <3>3, SameCardinality DEF Slots!Next
  <2> QED
    BY <2>1, <2>3, <2>4, <2>5
<1>13. ASSUME NotifyStreamChange
       PROVE  IInv' /\ [Slots!Next]_(Slots!vars)
  <2>1. /\ pendingNotify > 0 /\ pendingNotify' = pendingNotify - 1
        /\ UNCHANGED <<caller, capacity, sourceSet, streams>>
        /\ Wake(inFlight, waiters, signalled, EffectiveCap)
    BY <1>13 DEF NotifyStreamChange, capVars
  <2>2. EffectiveCap = EffectiveCap' /\ EffectiveCap \in Nat
    BY <2>1, <1>0, EffectiveCapType
  <2>3. /\ inFlight' \in Nat /\ waiters' \in Seq(Acquirers) /\ signalled' \subseteq Acquirers
        /\ QueueMatchesCallers' /\ SlotAccounting' /\ NoIdleHeadroom' /\ Slots!Next
    BY <2>1, <2>2, PlainWake
  <2>4. SemaphoreTypeOK'
    BY <2>1, <2>3 DEF SemaphoreTypeOK
  <2> QED
    BY <2>3, <2>4
<1>14. ASSUME UNCHANGED semaphoreVars
       PROVE  IInv' /\ [Slots!Next]_(Slots!vars)
  <2> USE <1>14 DEF semaphoreVars, semVars, capVars, streamVars
  <2>1. SemaphoreTypeOK'
    BY DEF SemaphoreTypeOK
  <2>2. Holding' = Holding /\ Blocked' = Blocked /\ Holders' = Holders
    BY DEF Holding, Blocked, Holders
  <2>3. EffectiveCap' = EffectiveCap
    BY <1>0
  <2>4. QueueMatchesCallers' /\ SlotAccounting' /\ NoIdleHeadroom'
    BY <2>2, <2>3 DEF QueueMatchesCallers, SlotAccounting, NoIdleHeadroom
  <2> QED
    BY <2>1, <2>2, <2>3, <2>4 DEF Slots!vars
<1> QED
  BY <1>1, <1>2, <1>3, <1>4, <1>5, <1>6, <1>7, <1>8, <1>9, <1>10, <1>11,
     <1>12, <1>13, <1>14 DEF SemaphoreNext, CallerStep, ConfigStep, StreamStep
----------------------------------------------------------------------------
(* The invariant holds throughout every behaviour.                         *)
THEOREM SemaphoreInvariant == SemaphoreSpec => []IInv
<1>1. SemaphoreInit => IInv
  BY InitInvariant
<1>2. IInv /\ [SemaphoreNext]_semaphoreVars => IInv'
  BY NextInvariant
<1> QED
  BY <1>1, <1>2, PTL DEF SemaphoreSpec

(* The variables keep their types: adaptiveSemaphore, ImportBudget.        *)
THEOREM TypeCorrect == SemaphoreSpec => []SemaphoreTypeOK
<1>1. IInv => SemaphoreTypeOK
  BY DEF IInv
<1> QED
  BY <1>1, SemaphoreInvariant, PTL

(* inFlight always equals the number of callers that hold a slot or have   *)
(* one on its way: cancellation racing a grant leaks and forges nothing,   *)
(* and the clamp in release (semaphore.go:119) never bites.                *)
THEOREM SlotsAccountedFor == SemaphoreSpec => []SlotAccounting
<1>1. IInv => SlotAccounting
  BY DEF IInv
<1> QED
  BY <1>1, SemaphoreInvariant, PTL

(* The queue holds exactly the blocked callers without a grant, once each. *)
THEOREM QueueIsExact == SemaphoreSpec => []QueueMatchesCallers
<1>1. IInv => QueueMatchesCallers
  BY DEF IInv
<1> QED
  BY <1>1, SemaphoreInvariant, PTL

(* Once stream changes are notified nobody waits while there is headroom.  *)
THEOREM NoLostWakeup == SemaphoreSpec => []NoIdleHeadroom
<1>1. IInv => NoIdleHeadroom
  BY DEF IInv
<1> QED
  BY <1>1, SemaphoreInvariant, PTL

(* Whatever the number of streams, an enabled pool keeps one import slot.  *)
THEOREM ImportsKeepOneSlot == SemaphoreSpec => []OneSlotStaysOpen
<1>1. IInv => OneSlotStaysOpen
  BY EffectiveCapType DEF IInv, OneSlotStaysOpen
<1> QED
  BY <1>1, SemaphoreInvariant, PTL

(* The semaphore implements BoundedSlots: slots are charged to new callers *)
(* only within the capacity in force, and given back one at a time.        *)
THEOREM SemaphoreImplementsBoundedSlots == SemaphoreSpec => ImplementsBoundedSlots
<1>1. SemaphoreInit => Slots!Init
  BY InitInvariant
<1>2. IInv /\ [SemaphoreNext]_semaphoreVars => [Slots!Next]_(Slots!vars)
  BY NextInvariant
<1> QED
  BY <1>1, <1>2, SemaphoreInvariant, PTL DEF SemaphoreSpec, ImplementsBoundedSlots, Slots!Spec
(* A wake-up signals no waiter while one ahead of it stays queued.         *)
LEMMA WakeIsFifo ==
    ASSUME IInv, NEW n \in Nat, NEW c \in Nat, NEW sig, sig \subseteq signalled,
           Wake(n, waiters, sig, c),
           NEW i \in 1..Len(waiters), NEW j \in 1..Len(waiters), i < j,
           waiters[j] \in signalled' \ signalled
    PROVE  waiters[i] \in signalled'
<1>1. /\ waiters \in Seq(Acquirers)
      /\ sig \in SUBSET Acquirers
      /\ NoDuplicates(waiters)
      /\ Entries(waiters) \cap sig = {}
  BY DEF IInv, SemaphoreTypeOK, QueueMatchesCallers
<1>2. \A k, m \in 1..Len(waiters) :
         k < m /\ waiters[m] \in signalled' \ sig => waiters[k] \in signalled'
  BY <1>1, WakeEffect
<1>3. waiters[j] \in signalled' \ sig
  OBVIOUS
<1> QED
  BY <1>2, <1>3

(* Grants follow the queue: the second half of the FIFO promise of         *)
(* adaptiveSemaphore, the one that does hold.                              *)
THEOREM GrantsFollowTheQueue == SemaphoreSpec => FifoGrants
<1> DEFINE InOrder ==
      \A i, j \in 1..Len(waiters) :
         i < j /\ waiters[j] \in signalled' \ signalled => waiters[i] \in signalled'
<1>1. ASSUME IInv, [SemaphoreNext]_semaphoreVars PROVE InOrder
  <2> SUFFICES ASSUME NEW i \in 1..Len(waiters), NEW j \in 1..Len(waiters), i < j,
                      waiters[j] \in signalled' \ signalled
               PROVE  waiters[i] \in signalled'
    OBVIOUS
  <2> USE <1>1
  <2>1. ASSUME NEW a \in Acquirers, UndoGrant(a) PROVE waiters[i] \in signalled'
    <3>1. a \in Holders
      BY <2>1 DEF UndoGrant, Holders
    <3>2. inFlight - 1 \in Nat
      BY <3>1, OneHolderLess DEF IInv
    <3>3. Wake(inFlight - 1, waiters, signalled \ {a}, EffectiveCap)
      BY <2>1 DEF UndoGrant
    <3>4. signalled \ {a} \subseteq signalled /\ EffectiveCap \in Nat
      BY EffectiveCapType DEF IInv
    <3> QED
      BY <3>2, <3>3, <3>4, WakeIsFifo
  <2>2. ASSUME NEW a \in Acquirers, Release(a) PROVE waiters[i] \in signalled'
    <3> DEFINE n == IF inFlight > 0 THEN inFlight - 1 ELSE 0
    <3>1. n \in Nat
      BY DEF IInv, SemaphoreTypeOK
    <3>2. Wake(n, waiters, signalled, EffectiveCap)
      BY <2>2 DEF Release
    <3>3. EffectiveCap \in Nat
      BY EffectiveCapType DEF IInv
    <3> HIDE DEF n
    <3> QED
      BY <3>1, <3>2, <3>3, WakeIsFifo
  <2>3. ASSUME NEW c \in Nat, Wake(inFlight, waiters, signalled, c)
        PROVE  waiters[i] \in signalled'
    <3>1. inFlight \in Nat
      BY DEF IInv, SemaphoreTypeOK
    <3> QED
      BY <2>3, <3>1, WakeIsFifo
  <2>4. ASSUME NEW c \in 0..MaxCapacity, SetCapacity(c) PROVE waiters[i] \in signalled'
    <3>0. c \in Nat /\ sourceSet \in BOOLEAN /\ streams \in Int
      BY DEF IInv, SemaphoreTypeOK
    <3>1. EffectiveCapFor(c, sourceSet, streams) \in Nat
      BY <3>0, EffectiveCapRange
    <3> QED
      BY <2>3, <2>4, <3>1 DEF SetCapacity
  <2>5. CASE SetStreamSource
    <3>1. EffectiveCapFor(capacity, TRUE, streams) \in Nat
      BY EffectiveCapRange DEF IInv, SemaphoreTypeOK
    <3> QED
      BY <2>3, <2>5, <3>1 DEF SetStreamSource
  <2>6. CASE NotifyStreamChange
    <3>1. EffectiveCap \in Nat
      BY EffectiveCapType DEF IInv
    <3> QED
      BY <2>3, <2>6, <3>1 DEF NotifyStreamChange
  <2>7. CASE \/ \E a \in Acquirers :
                  \/ AcquireDisabled(a) \/ AcquireSlot(a) \/ Enqueue(a)
                  \/ TakeGrant(a) \/ ContextDone(a) \/ LeaveQueue(a)
                  \/ NoopRelease(a)
             \/ StreamChange
             \/ UNCHANGED semaphoreVars
    <3>1. signalled' \subseteq signalled
      BY <2>7 DEF AcquireDisabled, AcquireSlot, Enqueue, TakeGrant, ContextDone,
                  LeaveQueue, NoopRelease, StreamChange, semaphoreVars, semVars
    <3> QED
      BY <3>1
  <2> QED
    BY <2>1, <2>2, <2>4, <2>5, <2>6, <2>7
       DEF SemaphoreNext, CallerStep, ConfigStep, StreamStep
<1>2. IInv /\ [SemaphoreNext]_semaphoreVars => [InOrder]_semaphoreVars
  BY <1>1
<1> QED
  BY <1>2, SemaphoreInvariant, PTL DEF SemaphoreSpec, FifoGrants
=============================================================================
