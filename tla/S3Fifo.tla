------------------------------- MODULE S3Fifo -------------------------------
(***************************************************************************)
(* The S3-FIFO eviction policy (storage/s3fifo.cpp): a small probationary  *)
(* queue, a main queue with a second chance, and a ghost queue of recent   *)
(* victims.  remove() leaves its key's entries in the queues, so a queue   *)
(* can hold stale entries and, once the key comes back, several entries of *)
(* one key; evict() skips an entry whose key is not in that queue by then. *)
(* Each loop of evict() is given by what it leaves behind.                 *)
(***************************************************************************)
EXTENDS Naturals, FiniteSets, SequencesExt

CONSTANTS
    Keys,       \* key digests
    Absent,     \* a key without an entry; evict()'s "nothing"
    Capacity,   \* capacity_hint
    MaxQueue    \* bound: entries in a queue

ASSUME S3FifoConfig ==
    /\ Capacity \in Nat
    /\ MaxQueue \in Nat
    /\ Absent \notin Keys

VARIABLES
    small, main, ghost,   \* the deques
    meta,                 \* the queue and visited bit of each resident key
    ghostSet,
    smallN, mainN,        \* small_n_, main_n_
    victim                \* the answer of the last evict()

vars == <<small, main, ghost, meta, ghostSet, smallN, mainN, victim>>

cap == IF Capacity = 0 THEN 1 ELSE Capacity

Entry(q, visited) == [q |-> q, visited |-> visited]

InQueue(m, k, q) == m[k] # Absent /\ m[k].q = q

Init ==
    /\ small = <<>> /\ main = <<>> /\ ghost = <<>>
    /\ meta = [k \in Keys |-> Absent]
    /\ ghostSet = {}
    /\ smallN = 0 /\ mainN = 0
    /\ victim = Absent

insert(k) ==
    /\ Len(small) < MaxQueue /\ Len(main) < MaxQueue
    /\ IF meta[k] # Absent
       THEN /\ meta' = [meta EXCEPT ![k].visited = TRUE]
            /\ UNCHANGED <<small, main, ghostSet, smallN, mainN>>
       ELSE IF k \in ghostSet
       THEN /\ ghostSet' = ghostSet \ {k}
            /\ meta' = [meta EXCEPT ![k] = Entry("main", FALSE)]
            /\ main' = Append(main, k)
            /\ mainN' = mainN + 1
            /\ UNCHANGED <<small, smallN>>
       ELSE /\ meta' = [meta EXCEPT ![k] = Entry("small", FALSE)]
            /\ small' = Append(small, k)
            /\ smallN' = smallN + 1
            /\ UNCHANGED <<main, mainN, ghostSet>>
    /\ UNCHANGED <<ghost, victim>>

touch(k) ==
    /\ meta[k] # Absent
    /\ meta' = [meta EXCEPT ![k].visited = TRUE]
    /\ UNCHANGED <<small, main, ghost, ghostSet, smallN, mainN, victim>>

\* remove() that forgets which queue counted the key.
CountsAfterRemoveSmallOnly(k) ==
    /\ smallN' = IF meta[k] # Absent /\ smallN > 0 THEN smallN - 1 ELSE smallN
    /\ mainN' = mainN

CountsAfterRemove(k) ==
    /\ smallN' = IF InQueue(meta, k, "small") THEN smallN - 1 ELSE smallN
    /\ mainN' = IF InQueue(meta, k, "main") THEN mainN - 1 ELSE mainN

remove(k) ==
    /\ CountsAfterRemove(k)
    /\ meta' = [meta EXCEPT ![k] = Absent]
    /\ ghostSet' = ghostSet \ {k}
    /\ UNCHANGED <<small, main, ghost, victim>>

----------------------------------------------------------------------------
(* evict().                                                                *)

\* The entries of queue s at the positions in I, in order.
EntriesAt(s, I) ==
    LET at == SelectSeq([i \in 1..Len(s) |-> i], LAMBDA i : i \in I)
    IN [j \in DOMAIN at |-> s[at[j]]]

\* The positions of s at which pop_front_resident(s, q) finds a key that is
\* still in q when each key leaves q the first time it is popped.
Resident(m, s, q) ==
    {i \in DOMAIN s : InQueue(m, s[i], q) /\ \A j \in 1..(i - 1) : s[j] # s[i]}

\* The positions of s that hold a key of q, repeated entries included.
Held(m, s, q) == {i \in DOMAIN s : InQueue(m, s[i], q)}

First(I) == CHOOSE i \in I : \A j \in I : i <= j

FromSmall ==
    \/ smallN # 0 /\ mainN = 0
    \/ smallN # 0 /\ mainN # 0 /\ smallN >= (IF cap \div 10 > 1 THEN cap \div 10 ELSE 1)

\* The small loop moves visited keys to main until it meets an unvisited one,
\* at position stop (past the end if there is none).
SmallStop ==
    LET unvisited == {i \in Resident(meta, small, "small") : ~meta[small[i]].visited}
    IN IF unvisited = {} THEN Len(small) + 1 ELSE First(unvisited)

PromotedAt(stop) == {i \in Resident(meta, small, "small") : i < stop}

Promote(stop) ==
    [k \in Keys |-> IF \E i \in PromotedAt(stop) : small[i] = k
                    THEN Entry("main", FALSE) ELSE meta[k]]

MainWithoutPromoted(stop) == main

MainAfterPromotion(stop) == main \o EntriesAt(small, PromotedAt(stop))

ghost_push(k) ==
    LET g == Append(ghost, k)
    IN IF Len(g) > cap
       THEN ghost' = Tail(g) /\ ghostSet' = (ghostSet \cup {k}) \ {Head(g)}
       ELSE ghost' = g /\ ghostSet' = ghostSet \cup {k}

\* The main loop over queue s with meta data m.  A visited key is cleared and
\* sent to the back; the first position whose key is unvisited, or was
\* already cleared by an earlier entry of the same key, is the victim.  When
\* the first pass has none, it is the first key sent back.
EvictMain(m, s, n) ==
    LET held == Held(m, s, "main")
        chosen == {i \in held : \/ ~m[s[i]].visited
                                \/ \E j \in held : j < i /\ s[j] = s[i]}
        stop == IF chosen = {} THEN Len(s) + 1 ELSE First(chosen)
        back == EntriesAt(s, {i \in held : i < stop})
        cleared == [k \in Keys |-> IF Contains(back, k) THEN Entry("main", FALSE) ELSE m[k]]
    IN IF held = {}
       THEN /\ victim' = Absent
            /\ meta' = m
            /\ main' = <<>>
            /\ mainN' = n
       ELSE LET v == IF chosen = {} THEN Head(back) ELSE s[stop]
            IN /\ victim' = v
               /\ meta' = [cleared EXCEPT ![v] = Absent]
               /\ main' = IF chosen = {} THEN Tail(back)
                          ELSE SubSeq(s, stop + 1, Len(s)) \o back
               /\ mainN' = n - 1

EvictNothing ==
    /\ smallN = 0 /\ mainN = 0
    /\ victim' = Absent
    /\ UNCHANGED <<small, main, ghost, meta, ghostSet, smallN, mainN>>

\* An unvisited key of small is the victim; it is remembered as a ghost.
EvictFromSmall ==
    /\ ~(smallN = 0 /\ mainN = 0)
    /\ FromSmall
    /\ LET stop == SmallStop
           promoted == Cardinality(PromotedAt(stop))
       IN /\ stop <= Len(small)
          /\ victim' = small[stop]
          /\ meta' = [Promote(stop) EXCEPT ![small[stop]] = Absent]
          /\ small' = SubSeq(small, stop + 1, Len(small))
          /\ main' = MainAfterPromotion(stop)
          /\ smallN' = smallN - promoted - 1
          /\ mainN' = mainN + promoted
          /\ ghost_push(small[stop])

\* Every key of small was visited: all move to main, which gives the victim.
EvictAfterPromotion ==
    /\ ~(smallN = 0 /\ mainN = 0)
    /\ FromSmall
    /\ LET stop == SmallStop
           promoted == Cardinality(PromotedAt(stop))
       IN /\ stop > Len(small)
          /\ small' = <<>>
          /\ smallN' = smallN - promoted
          /\ EvictMain(Promote(stop), MainAfterPromotion(stop), mainN + promoted)
    /\ UNCHANGED <<ghost, ghostSet>>

EvictFromMain ==
    /\ ~(smallN = 0 /\ mainN = 0)
    /\ ~FromSmall
    /\ EvictMain(meta, main, mainN)
    /\ UNCHANGED <<small, ghost, ghostSet, smallN>>

Next ==
    \/ \E k \in Keys : insert(k) \/ touch(k) \/ remove(k)
    \/ EvictNothing
    \/ EvictFromSmall
    \/ EvictAfterPromotion
    \/ EvictFromMain

Spec == Init /\ [][Next]_vars

----------------------------------------------------------------------------
(* Properties.                                                             *)

\* small_n_ and main_n_ count the resident keys of each queue, so evict()
\* picks the queue to drain from what is really there and never underflows.
\* Every resident key has an entry in its own queue, so none becomes impossible
\* to evict, however often it is removed and inserted again.  The ghost queue
\* is bounded, its set never outgrows it, and no resident key is taken for a
\* recent victim.
QueuesConsistent ==
    /\ smallN = Cardinality({k \in Keys : InQueue(meta, k, "small")})
    /\ mainN = Cardinality({k \in Keys : InQueue(meta, k, "main")})
    /\ \A k \in Keys : /\ InQueue(meta, k, "small") => Contains(small, k)
                       /\ InQueue(meta, k, "main") => Contains(main, k)
    /\ Len(ghost) <= cap
    /\ ghostSet \subseteq Range(ghost)
    /\ \A k \in ghostSet : meta[k] = Absent

Contract == INSTANCE EvictionPolicy WITH
    None <- Absent,
    resident <- {k \in Keys : meta[k] # Absent}

\* S3-FIFO keeps the contract of eviction.hpp that the tier manager relies on.
ImplementsPolicy == Contract!Spec

\* "give accessed items a second chance; evict the first un-accessed one"
\* (s3fifo.cpp): an accessed key is evicted from main only when no unaccessed
\* key is in it.
SecondChance ==
    [][\A k \in Keys :
          InQueue(meta, k, "main") /\ meta[k].visited /\ meta'[k] = Absent /\ main' # main
          => \A j \in Keys : InQueue(meta, j, "main") => meta[j].visited]_vars
=============================================================================
