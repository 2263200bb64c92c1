------------------------------- MODULE Layout -------------------------------
(***************************************************************************)
(* Positional tiering (storage/layout.cpp): which bytes of an object live  *)
(* in the RAM head, on the SSD pool and on the HDD pool.  The unit is left *)
(* open: module DataPath counts bytes, module TierManager device blocks    *)
(* (common/config.cpp accepts only tier sizes that are multiples of one).  *)
(***************************************************************************)
EXTENDS Naturals

CONSTANTS
    RamHead,     \* tiers.ram_head: leading bytes cached in RAM
    SsdPrefix,   \* tiers.ssd_prefix: leading bytes kept on the SSD pool
    ThreeLayer   \* whether an HDD pool is configured

\* The part of validate() (common/config.cpp) that bounds the tier sizes.
ASSUME TierSizesValid ==
    /\ RamHead \in Nat
    /\ SsdPrefix \in Nat
    /\ RamHead <= SsdPrefix
    /\ ThreeLayer \in BOOLEAN

Lesser(a, b) == IF a <= b THEN a ELSE b

\* An object no longer than the RAM head is RAM-only: its head is the object.
RamOnly(size) == size <= RamHead

SsdBytes(size) ==
    IF RamOnly(size) THEN 0
    ELSE IF ThreeLayer THEN Lesser(size, SsdPrefix)
    ELSE size

HddBytes(size) == IF RamOnly(size) THEN 0 ELSE size - SsdBytes(size)

compute_layout(size) ==
    [size           |-> size,
     ram_head_bytes |-> Lesser(size, RamHead),
     ssd_bytes      |-> SsdBytes(size),
     hdd_bytes      |-> HddBytes(size)]

\* The disk tier and tier-local offset of object byte off.
place(off, layout) ==
    IF off < layout.ssd_bytes
    THEN [tier |-> "ssd", local |-> off]
    ELSE [tier |-> "hdd", local |-> off - layout.ssd_bytes]
=============================================================================
