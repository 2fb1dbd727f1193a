---------------------------- MODULE BoundedSlots ----------------------------
(***************************************************************************)
(* What an admission budget promises, without its queue, its mutex or its  *)
(* counter: callers hold slots, the limit moves under them, at most one    *)
(* caller gives its slot back at a time, and new callers are let in only   *)
(* as far as the limit in force allows.  Limit 0 means "no limit".         *)
(***************************************************************************)
EXTENDS Naturals, FiniteSets

CONSTANT Acquirers

VARIABLES holders, limit

vars == <<holders, limit>>

Init ==
    /\ holders = {}
    /\ limit = 0

Leaving == holders \ holders'

Entering == holders' \ holders

Next ==
    /\ holders' \in SUBSET Acquirers
    /\ limit' \in Nat
    /\ Cardinality(Leaving) <= 1
    /\ Entering # {} => limit' = 0 \/ Cardinality(holders') <= limit'

Spec == Init /\ [][Next]_vars
=============================================================================
