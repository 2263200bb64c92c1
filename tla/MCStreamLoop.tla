---------------------------- MODULE MCStreamLoop ----------------------------
(* StreamLoop on small instances: connections and buffers are each alike.  *)
EXTENDS StreamLoop, TLC

Interchangeable == Permutations(Conns) \cup Permutations(Buffers)
=============================================================================
