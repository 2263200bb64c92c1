------------------------------ MODULE MCS3Fifo ------------------------------
(* TLC instances of S3Fifo; the keys are interchangeable.                  *)
EXTENDS S3Fifo

Interchangeable == Permutations(Keys)
=============================================================================
