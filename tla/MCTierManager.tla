---------------------------- MODULE MCTierManager ----------------------------
(***************************************************************************)
(* TLC instances of TierManager.  Keys, regions, writers and readers are   *)
(* interchangeable: nothing orders them.                                   *)
(***************************************************************************)
EXTENDS TierManager, TLC

\* Never, one tick, and a negative TTL (a .cfg cannot write one).
ShortTtls == {-1, 0, 1}

Interchangeable ==
    Permutations(Keys) \cup Permutations(Regions)
    \cup Permutations(Writers) \cup Permutations(Readers)
=============================================================================
