------------------------ MODULE TierManagerRegions -------------------------
(***************************************************************************)
(* The owners of the regions of the RAM pool and the pins of its readers:  *)
(* what every operation of the store does to them.                         *)
(***************************************************************************)
EXTENDS TierManagerTypes, FiniteSetTheorems

----------------------------------------------------------------------------
(* Ownership of one region.                                                *)

\* The readers wait on the orphaned regions; Holders and Storers are the
\* objects and the open stores that own region r.
Orphans == {r \in Regions : pins[r].orphaned}

Holders(r) == {k \in Keys : HeldByIndex(k, r)}

Storers(r) == {w \in Writers : HeldByHandle(w, r)}

\* Region r with F the free regions, O the orphans, n pins, the objects K and
\* the stores W: it has one owner, an orphan still has a reader, and the
\* region of an open store has none.
OneOwner(r, F, O, n, K, W) ==
    /\ r \in F => r \notin O /\ n = 0
    /\ r \in O => n > 0
    /\ W # {} => n = 0
    /\ r \in F \cup O => K = {} /\ W = {}
    /\ K = {} \/ W = {}
    /\ \A k, j \in K : k = j
    /\ \A w, v \in W : w = v
    /\ r \in F \cup O \/ K # {} \/ W # {}

RegionOwned(r) == OneOwner(r, ramFree, Orphans, pins[r].refcount, Holders(r), Storers(r))

RegionInv == \A r \in Regions : RegionOwned(r)

----------------------------------------------------------------------------
(* Every region has exactly one owner.                                     *)

\* Freeing the heads of the keys of D leaves a region to the pool, or to its readers.
LEMMA OwnerDropped ==
    ASSUME NEW r, NEW F, NEW O, NEW n \in Nat, NEW K, NEW W, OneOwner(r, F, O, n, K, W),
           NEW D, NEW F2, NEW O2,
           r \in F2 <=> r \in F \/ (K \cap D # {} /\ n = 0),
           r \in O2 <=> r \in O \/ (K \cap D # {} /\ n > 0)
    PROVE  OneOwner(r, F2, O2, n, K \ D, W)
BY DEF OneOwner

\* A free region can be taken by a writer.
LEMMA OwnerTaken ==
    ASSUME NEW r, NEW F, NEW O, NEW n, NEW K, NEW W, OneOwner(r, F, O, n, K, W),
           NEW F2, r \in F, r \notin F2, NEW x
    PROVE  OneOwner(r, F2, O, n, K, W \cup {x})
BY DEF OneOwner

\* A writer can give its region back.
LEMMA OwnerReturned ==
    ASSUME NEW r, NEW F, NEW O, NEW n, NEW K, NEW W, OneOwner(r, F, O, n, K, W),
           NEW F2, NEW x \in W, r \in F2
    PROVE  OneOwner(r, F2, O, n, K, W \ {x})
BY DEF OneOwner

\* A writer can hand its region to the index.
LEMMA OwnerPublished ==
    ASSUME NEW r, NEW F, NEW O, NEW n, NEW K, NEW W, OneOwner(r, F, O, n, K, W),
           NEW x \in W, NEW k
    PROVE  OneOwner(r, F, O, n, K \cup {k}, W \ {x})
BY DEF OneOwner

\* A reader may pin the head of an indexed object.
LEMMA OwnerPinned ==
    ASSUME NEW r, NEW F, NEW O, NEW n \in Nat, NEW K, NEW W, OneOwner(r, F, O, n, K, W), K # {}
    PROVE  OneOwner(r, F, O, n + 1, K, W)
BY DEF OneOwner

\* A reader that drops its pin frees the region when it was the last one of an orphan.
LEMMA OwnerUnpinned ==
    ASSUME NEW r, NEW F, NEW O, NEW n \in Nat \ {0}, NEW K, NEW W, OneOwner(r, F, O, n, K, W),
           NEW F2, NEW O2,
           r \in F2 <=> r \in F \/ (r \in O /\ n = 1),
           r \in O2 <=> r \in O /\ n # 1
    PROVE  OneOwner(r, F2, O2, n - 1, K, W)
BY DEF OneOwner

\* One owner per region is what the invariants of the store say.
LEMMA RegionFacts ==
    ASSUME TypeOK, RegionInv, NEW r \in Regions
    PROVE  /\ r \in ramFree => ~pins[r].orphaned /\ pins[r].refcount = 0
           /\ r \in ramFree \/ pins[r].orphaned =>
                 /\ \A k \in Keys : ~HeldByIndex(k, r)
                 /\ \A w \in Writers : ~HeldByHandle(w, r)
           /\ \A k, j \in Keys : HeldByIndex(k, r) /\ HeldByIndex(j, r) => k = j
           /\ \A w, v \in Writers : HeldByHandle(w, r) /\ HeldByHandle(v, r) => w = v
           /\ \A k \in Keys, w \in Writers : ~(HeldByIndex(k, r) /\ HeldByHandle(w, r))
           /\ \/ r \in ramFree
              \/ pins[r].orphaned /\ pins[r].refcount > 0
              \/ \E k \in Keys : HeldByIndex(k, r)
              \/ \E w \in Writers : HeldByHandle(w, r)
           /\ \A w \in Writers : HeldByHandle(w, r) => pins[r].refcount = 0
<1>1. OneOwner(r, ramFree, Orphans, pins[r].refcount, Holders(r), Storers(r))
  BY DEF RegionInv, RegionOwned
<1>2. /\ r \in Orphans <=> pins[r].orphaned
      /\ \A k \in Keys : k \in Holders(r) <=> HeldByIndex(k, r)
      /\ \A w \in Writers : w \in Storers(r) <=> HeldByHandle(w, r)
      /\ Holders(r) \subseteq Keys /\ Storers(r) \subseteq Writers
  BY DEF Orphans, Holders, Storers
<1>. QED BY <1>1, <1>2 DEF OneOwner

\* Steps that move no region keep one owner per region.
LEMMA SameRegions ==
    ASSUME RegionInv, UNCHANGED <<ramFree, pins>>,
           \A k \in Keys, r \in Regions : HeldByIndex(k, r)' <=> HeldByIndex(k, r),
           \A w \in Writers, r \in Regions : HeldByHandle(w, r)' <=> HeldByHandle(w, r)
    PROVE  RegionInv'
<1> SUFFICES ASSUME NEW r \in Regions PROVE RegionOwned(r)'
  BY DEF RegionInv
<1>1. Holders(r)' = Holders(r) /\ Storers(r)' = Storers(r) /\ Orphans' = Orphans
  BY DEF Holders, Storers, Orphans
<1>. QED BY <1>1 DEF RegionInv, RegionOwned

\* What freeing the regions of R does to region r.
LEMMA FreeStep ==
    ASSUME pins \in PinsType, NEW R \in SUBSET Regions, NEW r \in Regions,
           pins' = Orphan(R)
    PROVE  /\ pins'[r].refcount = pins[r].refcount /\ pins[r].refcount \in Nat
           /\ r \in Orphans' <=> r \in Orphans \/ (r \in R /\ pins[r].refcount > 0)
           /\ r \in Freed(R) <=> r \in R /\ pins[r].refcount = 0
BY DEF PinsType, Orphan, Freed, Orphans

\* A region is among the heads of S exactly when a key of S holds it.
LEMMA HeadsHeld ==
    ASSUME NEW S \in SUBSET Keys, NEW r \in Regions
    PROVE  r \in HeadsOf(index, S) <=> Holders(r) \cap S # {}
BY NoneIsApart DEF HeadsOf, Resident, HeldByIndex, Holders

\* An index entry that survives an eviction lost its head with it or keeps it.
LEMMA EvictedHolds ==
    ASSUME TypeOK, NEW V \in SUBSET Keys, index' = EvictedIndex(V),
           NEW k \in Keys, NEW r \in Regions
    PROVE  HeldByIndex(k, r)' <=> k \notin V /\ HeldByIndex(k, r)
<1>1. r # None
  BY NoneIsApart
<1>2. index'[k] = IF k \in EvictedObjects(V) THEN None
                  ELSE IF k \in V /\ Resident(index, k)
                  THEN [index[k] EXCEPT !.head = None] ELSE index[k]
  BY DEF EvictedIndex
<1>3. CASE k \in V /\ Resident(index, k)
  <2>1. index[k] \in Meta
    BY <1>3 DEF TypeOK, Resident
  <2>. QED BY <1>1, <1>2, <1>3, <2>1 DEF HeldByIndex, Meta
<1>4. CASE ~(k \in V /\ Resident(index, k))
  BY <1>1, <1>2, <1>4 DEF HeldByIndex, EvictedObjects, Resident
<1>. QED BY <1>3, <1>4

\* Evicting the heads of V and handing the regions of T to writer x keeps one
\* owner per region.
LEMMA EvictRegions ==
    ASSUME TypeOK, RegionInv, NEW V \in SUBSET policy, NEW T \in SUBSET (Regions \cup {None}),
           NEW x \in Writers, Evict(V, T),
           T \ {None} \subseteq Available(V),
           \A w \in Writers, r \in Regions :
              HeldByHandle(w, r)' <=> HeldByHandle(w, r) \/ (r \in T /\ w = x)
    PROVE  RegionInv'
<1> SUFFICES ASSUME NEW r \in Regions PROVE RegionOwned(r)'
  BY DEF RegionInv
<1> DEFINE R == HeadsOf(index, V)
           n == pins[r].refcount
           K == Holders(r)
           W == Storers(r)
<1>1. pins \in PinsType /\ index \in IndexType /\ V \in SUBSET Keys
  BY DEF TypeOK, PinsType, IndexType
<1>2. R \in SUBSET Regions
  BY <1>1, HeadsOfType
<1>3. r \in R <=> K \cap V # {}
  BY <1>1, HeadsHeld
<1>4. pins' = Orphan(R) /\ ramFree' = (ramFree \cup Freed(R)) \ T
  BY DEF Evict, Available
<1>5. /\ pins'[r].refcount = n /\ n \in Nat
      /\ r \in Orphans' <=> r \in Orphans \/ (K \cap V # {} /\ n > 0)
      /\ r \in Freed(R) <=> K \cap V # {} /\ n = 0
  BY <1>1, <1>2, <1>3, <1>4, FreeStep
<1>6. Holders(r)' = K \ V
  BY <1>1, EvictedHolds DEF Evict, Holders
<1>7. Storers(r)' = IF r \in T THEN W \cup {x} ELSE W
  BY DEF Storers
<1>8. r \in T => r \in ramFree \cup Freed(R)
  BY NoneIsApart DEF Available
<1>9. OneOwner(r, ramFree, Orphans, n, K, W)
  BY DEF RegionInv, RegionOwned
<1> HIDE DEF R, n, K, W
<1>10. OneOwner(r, ramFree \cup Freed(R), Orphans', n, K \ V, W)
  BY SMTT(30), Z3T(30), <1>5, <1>9, OwnerDropped
<1>11. OneOwner(r, ramFree', Orphans', n, K \ V, Storers(r)')
  <2>1. CASE r \in T
    <3>1. r \in ramFree \cup Freed(R) /\ r \notin ramFree' /\ Storers(r)' = W \cup {x}
      BY <1>4, <1>7, <1>8, <2>1
    <3>2. OneOwner(r, ramFree', Orphans', n, K \ V, W \cup {x})
      BY ZenonT(30), <1>10, <3>1, OwnerTaken
    <3>. QED BY <3>1, <3>2
  <2>2. CASE r \notin T
    BY SMTT(30), <1>4, <1>5, <1>7, <1>9, <2>2, OwnerDropped
  <2>. QED BY <2>1, <2>2
<1>. QED BY <1>5, <1>6, <1>11 DEF RegionOwned

\* A store that aborts gives its region back to the pool.
LEMMA AbortRegions ==
    ASSUME TypeOK, RegionInv, NEW x \in Writers, handle[x] # None, Abort(x),
           UNCHANGED <<index, pins>>
    PROVE  RegionInv'
<1> SUFFICES ASSUME NEW r \in Regions PROVE RegionOwned(r)'
  BY DEF RegionInv
<1>1. r \in ramFree' <=> r \in ramFree \/ x \in Storers(r)
  BY NoneIsApart DEF Abort, HeldByHandle, Storers
<1>2. Storers(r)' = Storers(r) \ {x}
  BY DEF Abort, HeldByHandle, TypeOK, Storers
<1>3. Holders(r)' = Holders(r) /\ Orphans' = Orphans /\ pins' = pins
  BY DEF HeldByIndex, Holders, Orphans
<1>4. OneOwner(r, ramFree, Orphans, pins[r].refcount, Holders(r), Storers(r))
  BY DEF RegionInv, RegionOwned
<1>5. CASE x \in Storers(r)
  BY SMTT(30), Z3T(30), <1>1, <1>2, <1>3, <1>4, <1>5, OwnerReturned DEF RegionOwned
<1>6. CASE x \notin Storers(r)
  <2>1. Storers(r)' = Storers(r) /\ (r \in ramFree' <=> r \in ramFree)
    BY <1>1, <1>2, <1>6
  <2>. QED BY <1>3, <1>4, <2>1 DEF RegionOwned, OneOwner
<1>. QED BY <1>5, <1>6

\* Dropping an object frees its region, or leaves it to the last reader.
LEMMA DropRegions ==
    ASSUME TypeOK, RegionInv, NEW x \in Keys, drop_object(x), UNCHANGED handle
    PROVE  RegionInv'
<1> SUFFICES ASSUME NEW r \in Regions PROVE RegionOwned(r)'
  BY DEF RegionInv
<1> DEFINE R == HeadsOf(index, {x})
           n == pins[r].refcount
           K == Holders(r)
<1>1. pins \in PinsType /\ index \in IndexType
  BY DEF TypeOK, PinsType, IndexType
<1>2. R \in SUBSET Regions
  BY <1>1, HeadsOfType
<1>3. r \in R <=> K \cap {x} # {}
  BY <1>1, HeadsHeld
<1>4. ramFree' = ramFree \cup Freed(R) /\ pins' = Orphan(R)
  BY DEF drop_object, free_head_region
<1>5. /\ pins'[r].refcount = n /\ n \in Nat
      /\ r \in Orphans' <=> r \in Orphans \/ (K \cap {x} # {} /\ n > 0)
      /\ r \in ramFree' <=> r \in ramFree \/ (K \cap {x} # {} /\ n = 0)
  BY SMTT(30), Z3T(30), <1>1, <1>2, <1>3, <1>4, FreeStep
<1>6. Holders(r)' = K \ {x} /\ Storers(r)' = Storers(r)
  BY DEF drop_object, DropIndex, HeldByIndex, HeldByHandle, Holders, Storers
<1>7. OneOwner(r, ramFree, Orphans, n, K, Storers(r))
  BY DEF RegionInv, RegionOwned
<1> HIDE DEF R, n, K
<1>8. OneOwner(r, ramFree', Orphans', n, K \ {x}, Storers(r))
  BY ZenonT(30), <1>5, <1>7, OwnerDropped
<1>. QED BY <1>5, <1>6, <1>8 DEF RegionOwned

\* Publishing hands the store's region to the index; the replaced head and the
\* heads of the objects evicted by the bound are freed or orphaned.
LEMMA CommitRegions ==
    ASSUME TypeOK, RegionInv, NEW x \in Writers, NEW expiry \in Expiries, Commit(x, expiry)
    PROVE  RegionInv'
<1> SUFFICES ASSUME NEW r \in Regions PROVE RegionOwned(r)'
  BY DEF RegionInv
<1> DEFINE k0 == handle[x].key
           ix == [index EXCEPT ![k0] = Published(x, expiry)]
           tracked == objectPolicy \cup (IF index[k0] = None THEN {k0} ELSE {})
           n == pins[r].refcount
           K == Holders(r)
           W == Storers(r)
           Old == K \ {k0}
           Mid == {k \in Keys : ix[k] # None /\ ix[k].head = r}
<1>1. pins \in PinsType /\ index \in IndexType
  BY DEF TypeOK, PinsType, IndexType
<1>2. handle[x] \in Handle /\ k0 \in Keys /\ handle[x] # None
  <2>1. handle[x] # None
    BY DEF Commit, Complete
  <2>2. handle[x] \in Handle
    BY <2>1 DEF TypeOK
  <2>. QED BY <2>1, <2>2 DEF Handle
<1>3. Published(x, expiry) \in Meta /\ Published(x, expiry).head = handle[x].head
  BY <1>2, PublishedType DEF Published
<1>4. ix \in IndexType
  <2> HIDE DEF k0
  <2>. QED BY <1>1, <1>2, <1>3 DEF IndexType
<1>5. PICK V \in BoundVictims(ix, tracked) :
         /\ index' = DropIndex(ix, V)
         /\ free_head_region(HeadsOf(index, {k0}) \cup HeadsOf(ix, V))
  BY ZenonT(30) DEF Commit
<1>6. V \subseteq Keys
  BY SMTT(30), <1>2, BoundVictimsType DEF TypeOK
<1> DEFINE R == HeadsOf(index, {k0}) \cup HeadsOf(ix, V)
<1>7. R \in SUBSET Regions
  BY <1>1, <1>2, <1>4, <1>6, HeadsOfType
<1>8. Mid = IF x \in W THEN Old \cup {k0} ELSE Old
  <2>1. x \in W <=> handle[x].head = r
    BY <1>2 DEF Storers, HeldByHandle
  <2>2. ix[k0] # None /\ ix[k0].head = handle[x].head
    BY <1>1, <1>2, <1>3, NoneIsApart DEF IndexType
  <2>3. \A k \in Keys : k # k0 => ix[k] = index[k]
    BY <1>1 DEF IndexType
  <2> HIDE DEF ix, k0
  <2>. QED BY <1>2, <2>1, <2>2, <2>3 DEF Holders, HeldByIndex
<1>9. r \in R <=> K \cap {k0} # {} \/ Mid \cap V # {}
  <2>1. r \in HeadsOf(index, {k0}) <=> K \cap {k0} # {}
    BY <1>2, HeadsHeld
  <2>2. r \in HeadsOf(ix, V) <=> Mid \cap V # {}
    <3> HIDE DEF ix
    <3>. QED BY <1>6, NoneIsApart DEF HeadsOf, Resident
  <2>. QED BY <2>1, <2>2
<1>10. ramFree' = ramFree \cup Freed(R) /\ pins' = Orphan(R)
  BY <1>5 DEF free_head_region
<1>11. /\ pins'[r].refcount = n /\ n \in Nat
       /\ r \in Orphans' <=> r \in Orphans \/ (r \in R /\ n > 0)
       /\ r \in ramFree' <=> r \in ramFree \/ (r \in R /\ n = 0)
  <2> HIDE DEF R
  <2>. QED BY <1>1, <1>7, <1>10, FreeStep
<1>12. Holders(r)' = Mid \ V
  <2> HIDE DEF ix
  <2>. QED BY <1>5 DEF DropIndex, HeldByIndex, Holders
<1>13. Storers(r)' = W \ {x}
  BY ZenonT(30) DEF Commit, HeldByHandle, TypeOK, Storers
<1>14. OneOwner(r, ramFree, Orphans, n, K, W)
  BY DEF RegionInv, RegionOwned
<1> HIDE DEF R, k0, ix, n, K, W, Mid
<1> DEFINE F1 == IF K \cap {k0} # {} /\ n = 0 THEN ramFree \cup {r} ELSE ramFree
           O1 == IF K \cap {k0} # {} /\ n > 0 THEN Orphans \cup {r} ELSE Orphans
<1>15. /\ r \in F1 <=> r \in ramFree \/ (K \cap {k0} # {} /\ n = 0)
       /\ r \in O1 <=> r \in Orphans \/ (K \cap {k0} # {} /\ n > 0)
  OBVIOUS
<1>16. /\ r \in ramFree' <=> r \in F1 \/ (Mid \cap V # {} /\ n = 0)
       /\ r \in Orphans' <=> r \in O1 \/ (Mid \cap V # {} /\ n > 0)
  BY <1>9, <1>11, <1>15
<1> HIDE DEF F1, O1
<1>17. OneOwner(r, F1, O1, n, K \ {k0}, W)
  <2>1. n \in Nat
    BY <1>11
  <2>. QED BY ZenonT(30), <1>14, <1>15, <2>1, OwnerDropped
<1>18. OneOwner(r, F1, O1, n, Mid, W \ {x})
  <2>1. CASE x \in W
    BY ZenonT(30), <1>8, <1>17, <2>1, OwnerPublished
  <2>2. CASE x \notin W
    <3>1. W \ {x} = W /\ Mid = Old
      BY <1>8, <2>2
    <3>. QED BY <1>17, <3>1
  <2>. QED BY <2>1, <2>2
<1>19. OneOwner(r, ramFree', Orphans', n, Mid \ V, W \ {x})
  <2>1. n \in Nat
    BY <1>11
  <2>. QED BY <1>16, <1>18, <2>1, OwnerDropped
<1>. QED BY <1>11, <1>12, <1>13, <1>19 DEF RegionOwned

----------------------------------------------------------------------------
(* Pins.                                                                   *)

\* The readers that hold a region are finitely many, so they can be counted.
LEMMA PinnersFinite ==
    ASSUME NEW r
    PROVE  IsFiniteSet(Pinners(r)) /\ Cardinality(Pinners(r)) \in Nat
<1>1. Pinners(r) \subseteq Readers
  BY DEF Pinners
<1>. QED BY <1>1, StoreConfig, FS_Subset, FS_CardinalityType

\* Opening a snapshot adds its reader to the pins of the head it found.
LEMMA PinSnapshot ==
    ASSUME TypeOK, RegionInv, PinsCounted, NEW x \in Readers, NEW k \in Keys, index[k] # None,
           NEW from \in 0..index[k].size, open_snapshot(x, k, from)
    PROVE  RegionInv' /\ PinsCounted'
<1> DEFINE h == index[k].head
<1>1. index[k] \in Meta /\ h \in Regions \cup {None}
  BY DEF open_snapshot, TypeOK, Meta
<1>2. reader'[x] \in Snapshot
  BY OpenSnapshotType
<1>3. /\ reader[x] = None /\ reader'[x] # None /\ reader'[x].pin = h
      /\ \A y \in Readers : y # x => reader'[y] = reader[y]
  BY ZenonT(30), <1>2, NoneIsApart DEF open_snapshot, TypeOK
<1>4. \A r \in Regions :
         /\ pins'[r].refcount = IF r = h THEN pins[r].refcount + 1 ELSE pins[r].refcount
         /\ pins'[r].orphaned <=> pins[r].orphaned
         /\ pins[r].refcount \in Nat
  <2>1. pins' = IF h # None THEN [pins EXCEPT ![h].refcount = @ + 1] ELSE pins
    BY ZenonT(30) DEF open_snapshot
  <2>2. \A r \in Regions : pins[r].refcount \in Nat
    BY DEF TypeOK
  <2>3. CASE h = None
    BY <2>1, <2>2, <2>3, NoneIsApart
  <2>4. CASE h # None
    <3>1. h \in Regions /\ pins' = [pins EXCEPT ![h].refcount = @ + 1]
      BY <1>1, <2>1, <2>4
    <3> HIDE DEF h
    <3>. QED BY <2>2, <3>1 DEF TypeOK
  <2>. QED BY <2>3, <2>4
<1>5. \A r \in Regions : Pinners(r)' = IF r = h THEN Pinners(r) \cup {x} ELSE Pinners(r)
  BY <1>3 DEF Pinners, PinnedBy
<1>6. \A r : x \notin Pinners(r)
  BY <1>3 DEF Pinners, PinnedBy
<1>7. PinsCounted'
  <2> SUFFICES ASSUME NEW r \in Regions
               PROVE  pins'[r].refcount = Cardinality(Pinners(r)')
    BY DEF PinsCounted
  <2>1. pins[r].refcount = Cardinality(Pinners(r))
    BY DEF PinsCounted
  <2>2. Cardinality(Pinners(r) \cup {x}) = Cardinality(Pinners(r)) + 1
    BY ZenonT(30), <1>6, PinnersFinite, FS_AddElement
  <2>. QED BY ZenonT(30), <1>4, <1>5, <2>1, <2>2
<1>8. UNCHANGED <<ramFree, index, handle>>
  BY DEF open_snapshot
<1>9. ASSUME NEW r \in Regions PROVE RegionOwned(r)'
  <2>1. Holders(r)' = Holders(r) /\ Storers(r)' = Storers(r) /\ Orphans' = Orphans
    BY <1>4, <1>8 DEF Holders, Storers, HeldByIndex, HeldByHandle, Orphans
  <2>2. OneOwner(r, ramFree, Orphans, pins[r].refcount, Holders(r), Storers(r))
    BY DEF RegionInv, RegionOwned
  <2>3. r = h => Holders(r) # {}
    BY DEF Holders, HeldByIndex
  <2> HIDE DEF h
  <2>4. OneOwner(r, ramFree, Orphans, pins'[r].refcount, Holders(r), Storers(r))
    BY <1>4, <2>2, <2>3, OwnerPinned
  <2>. QED BY <1>8, <2>1, <2>4 DEF RegionOwned
<1>. QED BY <1>7, <1>9 DEF RegionInv

\* A reader that drops its pin leaves the others counted, and frees the region
\* exactly when it was the last reader of an orphan.
LEMMA UnpinSnapshot ==
    ASSUME TypeOK, RegionInv, PinsCounted, NEW x \in Readers, reader[x] # None,
           unpin_head(reader[x].pin), UNCHANGED <<index, handle>>,
           \A y \in Readers, r \in Regions : PinnedBy(y, r)' <=> y # x /\ PinnedBy(y, r)
    PROVE  RegionInv' /\ PinsCounted'
<1> DEFINE p == reader[x].pin
<1>1. p \in Regions \cup {None}
  BY DEF TypeOK, Snapshot
<1>2. \A r \in Regions : Pinners(r)' = Pinners(r) \ {x}
  BY DEF Pinners
<1>3. \A r \in Regions : x \in Pinners(r) <=> r = p
  BY DEF Pinners, PinnedBy
<1>4. \A r \in Regions :
         /\ pins[r].refcount = Cardinality(Pinners(r))
         /\ pins[r].refcount \in Nat
         /\ Cardinality(Pinners(r)') = IF r = p THEN pins[r].refcount - 1 ELSE pins[r].refcount
         /\ r = p => pins[r].refcount # 0
  <2> SUFFICES ASSUME NEW r \in Regions
               PROVE  /\ pins[r].refcount = Cardinality(Pinners(r))
                      /\ pins[r].refcount \in Nat
                      /\ Cardinality(Pinners(r)') = IF r = p THEN pins[r].refcount - 1
                                                    ELSE pins[r].refcount
                      /\ r = p => pins[r].refcount # 0
    OBVIOUS
  <2>1. pins[r].refcount = Cardinality(Pinners(r)) /\ pins[r].refcount \in Nat
    BY PinnersFinite DEF PinsCounted
  <2>2. Cardinality(Pinners(r) \ {x})
           = IF x \in Pinners(r) THEN Cardinality(Pinners(r)) - 1 ELSE Cardinality(Pinners(r))
    BY ZenonT(30), PinnersFinite, FS_RemoveElement
  <2>3. x \in Pinners(r) => Cardinality(Pinners(r)) # 0
    BY PinnersFinite, FS_EmptySet
  <2>4. Cardinality(Pinners(r)') = Cardinality(Pinners(r) \ {x})
    BY <1>2
  <2>5. x \in Pinners(r) <=> r = p
    BY <1>3
  <2> HIDE DEF p
  <2>. QED BY ZenonT(30), <2>1, <2>2, <2>3, <2>4, <2>5
<1>5. \A r \in Regions :
         /\ pins'[r].refcount = IF r = p THEN pins[r].refcount - 1 ELSE pins[r].refcount
         /\ pins'[r].orphaned <=> pins[r].orphaned /\ ~(r = p /\ pins[r].refcount = 1)
         /\ r \in ramFree' <=> r \in ramFree
                               \/ (r = p /\ pins[r].refcount = 1 /\ pins[r].orphaned)
  <2>1. CASE p = None
    BY <2>1, NoneIsApart DEF unpin_head
  <2>2. CASE p # None /\ pins[p].refcount = 1
    <3>1. /\ ramFree' = IF pins[p].orphaned THEN ramFree \cup {p} ELSE ramFree
          /\ pins' = [pins EXCEPT ![p] = [refcount |-> 0, orphaned |-> FALSE]]
      <4>1. pins[p].refcount # 0
        BY <2>2
      <4>. QED BY ZenonT(30), <2>2, <4>1 DEF unpin_head
    <3>2. \A r \in Regions :
             pins'[r] = IF r = p THEN [refcount |-> 0, orphaned |-> FALSE] ELSE pins[r]
      BY <3>1 DEF TypeOK
    <3> HIDE DEF p
    <3>3. pins[p].refcount - 1 = 0
      BY <2>2
    <3>4. ASSUME NEW r \in Regions, r = p
          PROVE  /\ pins'[r].refcount = pins[r].refcount - 1 /\ ~pins'[r].orphaned
                 /\ r \in ramFree' <=> r \in ramFree \/ pins[r].orphaned
      BY <3>1, <3>2, <3>3, <3>4
    <3>5. ASSUME NEW r \in Regions, r # p
          PROVE  pins'[r] = pins[r] /\ (r \in ramFree' <=> r \in ramFree)
      BY <3>1, <3>2, <3>5
    <3>. QED BY <2>2, <3>4, <3>5
  <2>3. CASE p # None /\ pins[p].refcount # 1
    <3>1. p \in Regions /\ pins[p].refcount # 0
      BY ZenonT(30), <1>1, <1>4, <2>3
    <3>2. ramFree' = ramFree /\ pins' = [pins EXCEPT ![p].refcount = @ - 1]
      BY <2>3, <3>1 DEF unpin_head
    <3>3. \A r \in Regions :
             /\ pins'[r].refcount = IF r = p THEN pins[r].refcount - 1 ELSE pins[r].refcount
             /\ pins'[r].orphaned = pins[r].orphaned
      BY <3>1, <3>2 DEF TypeOK
    <3>. QED BY <2>3, <3>2, <3>3
  <2>. QED BY ZenonT(30), <2>1, <2>2, <2>3
<1>6. PinsCounted'
  BY ZenonT(30), <1>4, <1>5 DEF PinsCounted
<1>7. ASSUME NEW r \in Regions PROVE RegionOwned(r)'
  <2> HIDE DEF p
  <2>1. Holders(r)' = Holders(r) /\ Storers(r)' = Storers(r)
    BY DEF Holders, Storers, HeldByIndex, HeldByHandle
  <2>2. /\ r \in Orphans' <=> r \in Orphans /\ ~(r = p /\ pins[r].refcount = 1)
        /\ r \in ramFree' <=> r \in ramFree \/ (r = p /\ pins[r].refcount = 1 /\ r \in Orphans)
    BY <1>5 DEF Orphans
  <2>3. OneOwner(r, ramFree, Orphans, pins[r].refcount, Holders(r), Storers(r))
    BY DEF RegionInv, RegionOwned
  <2>4. CASE r = p
    <3>1. pins[r].refcount \in Nat \ {0} /\ pins'[r].refcount = pins[r].refcount - 1
      BY ZenonT(30), <1>4, <1>5, <2>4
    <3>2. OneOwner(r, ramFree', Orphans', pins[r].refcount - 1, Holders(r), Storers(r))
      <4>1. /\ r \in ramFree' <=> r \in ramFree \/ (r \in Orphans /\ pins[r].refcount = 1)
            /\ r \in Orphans' <=> r \in Orphans /\ pins[r].refcount # 1
        BY <2>2, <2>4
      <4>. QED BY ZenonT(30), <2>3, <3>1, <4>1, OwnerUnpinned
    <3>. QED BY <2>1, <3>1, <3>2 DEF RegionOwned
  <2>5. CASE r # p
    <3>1. /\ pins'[r].refcount = pins[r].refcount
          /\ r \in Orphans' <=> r \in Orphans
          /\ r \in ramFree' <=> r \in ramFree
      BY <1>5, <2>2, <2>5
    <3>. QED BY <2>1, <2>3, <3>1 DEF RegionOwned, OneOwner
  <2>. QED BY <2>4, <2>5
<1>. QED BY <1>6, <1>7 DEF RegionInv

\* Freeing regions leaves every pin count alone.
LEMMA SamePins ==
    ASSUME TypeOK, PinsCounted, UNCHANGED reader, NEW R, pins' = Orphan(R) \/ pins' = pins
    PROVE  PinsCounted'
<1>1. \A r \in Regions : pins'[r].refcount = pins[r].refcount
  BY DEF TypeOK, Orphan
<1>2. \A r : Pinners(r)' = Pinners(r)
  BY DEF Pinners, PinnedBy
<1>. QED BY <1>1, <1>2 DEF PinsCounted
=============================================================================
