-------------------------------- MODULE Cache --------------------------------
(***************************************************************************)
(* What the object store promises its clients: every key maps to the last  *)
(* content published under it, or to nothing.  Contents are numbered in    *)
(* the order they are published.  A cache may lose any of its entries at   *)
(* any time, but it never brings one back and never shows content that was *)
(* not published.                                                          *)
(***************************************************************************)
EXTENDS Naturals

CONSTANTS Keys, None

VARIABLES
    content,   \* the number of the content of each key, or None
    last       \* the number of contents published so far

Without(c, D) == [k \in Keys |-> IF k \in D THEN None ELSE c[k]]

Init ==
    /\ content = [k \in Keys |-> None]
    /\ last = 0

\* A publication may push other entries, and even itself, out of the cache.
Publish(k) ==
    /\ last' = last + 1
    /\ \E D \in SUBSET Keys :
          content' = Without([content EXCEPT ![k] = last + 1], D)

Lose ==
    /\ last' = last
    /\ \E D \in SUBSET Keys : content' = Without(content, D)

Next == Lose \/ \E k \in Keys : Publish(k)

Spec == Init /\ [][Next]_<<content, last>>
=============================================================================
