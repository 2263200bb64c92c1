----------------------------- MODULE BufferPool -----------------------------
(***************************************************************************)
(* The RAM pool of core/buffer_pool.cpp: equal power-of-two blocks, each   *)
(* subdivided on demand by a buddy allocator and given back once it is     *)
(* empty.  Sizes and offsets are counted in units of min_alloc, so a block *)
(* of order o is 2^o units.  The free lists are stacks in the code; here   *)
(* they are sets and any member may be taken.                              *)
(***************************************************************************)
EXTENDS Naturals, FiniteSets, FiniteSetsExt

CONSTANTS
    NumBlocks,   \* blocks in the BlockPool
    MaxOrder,    \* block_bytes = 2^MaxOrder units
    Requests,    \* sizes that are asked for
    NoArena      \* a block that is not in use

ASSUME PoolGeometry ==
    /\ NumBlocks \in Nat \ {0}
    /\ MaxOrder \in Nat
    /\ Requests \subseteq Nat

Blocks == 0..(NumBlocks - 1)

Orders == 0..MaxOrder

Units == 0..(2^MaxOrder - 1)

VARIABLES
    blocks,    \* free blocks of the BlockPool
    arenas,    \* the free lists of each block's BuddyAllocator, or NoArena
    used,      \* used_ of each arena
    regions    \* regions handed out and not yet given back

vars == <<blocks, arenas, used, regions>>

Init ==
    /\ blocks = Blocks
    /\ arenas = [b \in Blocks |-> NoArena]
    /\ used = [b \in Blocks |-> 0]
    /\ regions = {}

----------------------------------------------------------------------------
(* BuddyAllocator.                                                         *)

\* The least order whose blocks hold the given number of units.
order_for(bytes) == Min({o \in 0..bytes : 2^o >= bytes})

FreshArena == [o \in Orders |-> IF o = MaxOrder THEN {0} ELSE {}]

\* The orders from which a request of order target can be cut.
Splittable(free, target) == {o \in Orders : o >= target /\ free[o] # {}}

SplitDroppingOne(free, off, o, target) ==
    [p \in Orders |-> IF p = o THEN free[p] \ {off}
                      ELSE IF target < p /\ p < o THEN free[p] \cup {off + 2^p}
                      ELSE free[p]]

Split(free, off, o, target) ==
    [p \in Orders |-> IF p = o THEN free[p] \ {off}
                      ELSE IF target <= p /\ p < o THEN free[p] \cup {off + 2^p}
                      ELSE free[p]]

\* The block of order o that contains unit off, and its buddy (off XOR 2^o).
Aligned(off, o) == (off \div 2^o) * 2^o

Buddy(off, o) ==
    IF (off \div 2^o) % 2 = 0 THEN Aligned(off, o) + 2^o ELSE Aligned(off, o) - 2^o

\* Coalescing climbs while the buddy at every order passed is free.
TopNever(free, off, target) == target

Top(free, off, target) ==
    Max({o \in Orders : o >= target /\ \A p \in target..(o - 1) : Buddy(off, p) \in free[p]})

Coalesce(free, off, target) ==
    LET top == Top(free, off, target)
    IN [p \in Orders |-> IF p = top THEN free[p] \cup {Aligned(off, top)}
                         ELSE IF target <= p /\ p < top THEN free[p] \ {Buddy(off, p)}
                         ELSE free[p]]

----------------------------------------------------------------------------
(* BufferPool.                                                             *)

Serves(b, bytes) == arenas[b] # NoArena /\ Splittable(arenas[b], order_for(bytes)) # {}

Take(b, free, bytes) ==
    LET target == order_for(bytes)
        o == Min(Splittable(free, target))
    IN \E off \in free[o] :
          /\ arenas' = [arenas EXCEPT ![b] = Split(free, off, o, target)]
          /\ used' = [used EXCEPT ![b] = @ + 2^target]
          /\ regions' = regions \cup {[block |-> b, offset |-> off, len |-> bytes]}

\* allocate looks through the arenas in use in order ...
AllocateFromArena(bytes) ==
    /\ bytes > 0 /\ bytes <= 2^MaxOrder
    /\ \E b \in Blocks :
          /\ Serves(b, bytes)
          /\ \A c \in 0..(b - 1) : ~Serves(c, bytes)
          /\ Take(b, arenas[b], bytes)
    /\ UNCHANGED blocks

\* ... and starts a fresh one when none has room.
AllocateFromBlock(bytes) ==
    /\ bytes > 0 /\ bytes <= 2^MaxOrder
    /\ \A b \in Blocks : ~Serves(b, bytes)
    /\ \E b \in blocks :
          /\ blocks' = blocks \ {b}
          /\ Take(b, FreshArena, bytes)

Release(b, left) == left = 0

deallocate(r) ==
    LET target == order_for(r.len)
        left == used[r.block] - 2^target
    IN /\ arenas[r.block] # NoArena
       /\ regions' = regions \ {r}
       /\ used' = [used EXCEPT ![r.block] = left]
       /\ IF Release(r.block, left)
          THEN /\ arenas' = [arenas EXCEPT ![r.block] = NoArena]
               /\ blocks' = blocks \cup {r.block}
          ELSE /\ arenas' = [arenas EXCEPT ![r.block] = Coalesce(@, r.offset, target)]
               /\ UNCHANGED blocks

Next ==
    \/ \E bytes \in Requests : AllocateFromArena(bytes) \/ AllocateFromBlock(bytes)
    \/ \E r \in regions : deallocate(r)

Spec == Init /\ [][Next]_vars

----------------------------------------------------------------------------
(* Properties.                                                             *)

\* The units a block of order o at off covers.
Extent(off, o) == off..(off + 2^o - 1)

\* The pieces block b is cut into: regions handed out and free blocks.
Pieces(b) ==
    {[held |-> TRUE, len |-> r.len, at |-> Extent(r.offset, order_for(r.len))] :
        r \in {q \in regions : q.block = b}}
    \cup UNION {{[held |-> FALSE, len |-> 2^o, at |-> Extent(off, o)] : off \in arenas[b][o]} :
                   o \in Orders}

\* The regions handed out and the free lists of an arena tile its block: two
\* heads never share a byte, each has the length it asked for, and no byte is
\* lost to both.
Tiling ==
    \A b \in Blocks : arenas[b] # NoArena =>
        /\ UNION {x.at : x \in Pieces(b)} = Units
        /\ \A x \in Pieces(b) : x.len <= Cardinality(x.at)
        /\ \A x, y \in Pieces(b) : x = y \/ x.at \cap y.at = {}

\* A pool never refuses a request that fits: an aligned run of free units is
\* always one free block, so every free is coalesced as far as it goes, and a
\* block is in the BlockPool exactly when no region of it is handed out.
NoFalseExhaustion ==
    \A b \in Blocks :
        /\ b \in blocks <=> arenas[b] = NoArena
        /\ b \in blocks <=> \A r \in regions : r.block # b
        /\ b \notin blocks =>
              \A o \in Orders, off \in Units :
                  /\ off % 2^o = 0
                  /\ \A r \in regions : r.block = b =>
                        Extent(off, o) \cap Extent(r.offset, order_for(r.len)) = {}
                  => Splittable(arenas[b], o) # {}
=============================================================================
