--------------------------- MODULE EvictionPolicy ---------------------------
(***************************************************************************)
(* What storage/eviction.hpp promises the tier manager: a policy tracks a  *)
(* set of keys, and evict() removes and returns one of them, or nothing    *)
(* exactly when it tracks none.  TierManager uses a policy through this    *)
(* contract only (its variables policy and objectPolicy are such sets).    *)
(***************************************************************************)
CONSTANTS Keys, None

VARIABLES
    resident,   \* the tracked keys
    victim      \* the answer of the last call of evict()

Init ==
    /\ resident = {}
    /\ victim = None

insert(k) ==
    /\ resident' = resident \cup {k}
    /\ victim' = victim

remove(k) ==
    /\ resident' = resident \ {k}
    /\ victim' = victim

evict ==
    \/ /\ victim' \in resident
       /\ resident' = resident \ {victim'}
    \/ /\ resident = {}
       /\ victim' = None
       /\ resident' = {}

Next == evict \/ \E k \in Keys : insert(k) \/ remove(k)

Spec == Init /\ [][Next]_<<resident, victim>>
=============================================================================
