------------------------------ MODULE DrivePool ------------------------------
(***************************************************************************)
(* RAID-0 striping of an object's tier-local bytes over the n drives of a  *)
(* pool in stripe units of s bytes (storage/drive_pool.cpp).  The operators *)
(* take n and s as arguments because a store has two pools, SSD and HDD.   *)
(***************************************************************************)
EXTENDS Naturals

\* The word size of key_hash + c; unsigned sums wrap modulo 2^Width.
CONSTANT Width

ASSUME WidthAssumption == Width \in Nat \ {0}

drive_of(n, s, key_hash, off) == ((key_hash + (off \div s)) % 2^Width) % n

file_offset_of(n, s, off) == ((off \div s) \div n) * s + (off % s)

\* Chunks of s bytes in a tier extent: (tier_bytes + s - 1) / s.
Chunks(s, tier_bytes) == (tier_bytes + s - 1) \div s

files_used(n, s, tier_bytes) ==
    IF tier_bytes = 0 THEN 0
    ELSE IF Chunks(s, tier_bytes) < n THEN Chunks(s, tier_bytes) ELSE n

\* The tier offset at which segment i (from 0) of a read of [off, off+len)
\* starts: off itself, then each following stripe boundary.
SegStart(s, off, i) == IF i = 0 THEN off ELSE ((off \div s) + i) * s

SegCount(s, off, len) ==
    IF len = 0 THEN 0 ELSE ((off + len - 1) \div s) - (off \div s) + 1

\* One read per stripe unit, in logical order (the while loop, unrolled).
plan_reads(n, s, key_hash, off, len) ==
    [i \in 1..SegCount(s, off, len) |->
        LET cur == SegStart(s, off, i - 1)
            fit == s - (cur % s)
            rem == off + len - cur
        IN [drive       |-> drive_of(n, s, key_hash, cur),
            file_offset |-> file_offset_of(n, s, cur),
            length      |-> IF rem < fit THEN rem ELSE fit]]
=============================================================================
