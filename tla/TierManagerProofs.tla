------------------------- MODULE TierManagerProofs -------------------------
(***************************************************************************)
(* Proofs about the object store of module TierManager, for every set of   *)
(* keys, regions, writers and readers and every configuration.             *)
(***************************************************************************)
EXTENDS TierManagerRegions

----------------------------------------------------------------------------
(* The inductive invariant.                                                *)

\* Once a store has written a byte, its head holds its version.
HandleWritten ==
    \A w \in Writers : handle[w] # None /\ handle[w].head # None =>
        /\ head_len(handle[w].size) > 0
        /\ handle[w].off > 0 => ramData[handle[w].head] = handle[w].ver

\* Written heads hold the version that their owner or reader expects.
HeadInv == HandleWritten /\ HeadsCurrent /\ PinnedHeadIntact

IInv == TypeOK /\ RegionInv /\ PinsCounted /\ HeadInv

----------------------------------------------------------------------------
(* What the regions hold.                                                  *)

\* A step that writes no region and pins none keeps their contents right, when
\* the heads it leaves in the index and in handles were there before.
LEMMA SameHeads ==
    ASSUME HeadInv, UNCHANGED ramData,
           \A k \in Keys : Resident(index, k)' =>
              /\ Resident(index, k)
              /\ index'[k].head = index[k].head /\ index'[k].ver = index[k].ver,
           \A w \in Writers : handle'[w] # None => handle'[w] = handle[w],
           \A x \in Readers : reader'[x] # None /\ reader'[x].pin # None =>
              /\ reader[x] # None
              /\ reader'[x].pin = reader[x].pin /\ reader'[x].ver = reader[x].ver
    PROVE  HeadInv'
<1>1. HandleWritten'
  BY DEF HeadInv, HandleWritten, head_len, Lesser
<1>2. HeadsCurrent'
  BY DEF HeadInv, HeadsCurrent
<1>3. PinnedHeadIntact'
  BY DEF HeadInv, PinnedHeadIntact
<1>. QED BY <1>1, <1>2, <1>3 DEF HeadInv

\* Evicting heads leaves the remaining ones as they were.
LEMMA EvictKeeps ==
    ASSUME TypeOK, NEW V, index' = EvictedIndex(V), NEW k \in Keys, Resident(index, k)'
    PROVE  Resident(index, k) /\ index'[k] = index[k]
<1>1. index'[k] = IF k \in EvictedObjects(V) THEN None
                  ELSE IF k \in V /\ Resident(index, k)
                  THEN [index[k] EXCEPT !.head = None] ELSE index[k]
  BY DEF EvictedIndex
<1>2. index'[k] # None /\ index'[k].head # None
  BY DEF Resident
<1>3. ~(k \in V /\ Resident(index, k))
  <2> SUFFICES ASSUME k \in V, Resident(index, k) PROVE FALSE
    OBVIOUS
  <2>1. index[k] \in Meta
    BY DEF TypeOK, Resident
  <2>2. index'[k] = [index[k] EXCEPT !.head = None]
    BY <1>1, <1>2
  <2>. QED BY <1>2, <2>1, <2>2 DEF Meta
<1>4. index'[k] = index[k]
  BY <1>1, <1>2, <1>3
<1>. QED BY <1>2, <1>4 DEF Resident

\* Reserving a region for a new store disturbs no head that is in use.
LEMMA BeginStoreHeads ==
    ASSUME TypeOK, HeadInv, NEW w \in Writers, NEW k \in Keys, NEW size \in Sizes,
           NEW cas, BeginStore(w, k, size, cas)
    PROVE  HeadInv'
<1>1. PICK V \in SUBSET policy, head \in Regions \cup {None} :
         /\ CanTake(V, size, head)
         /\ Evict(V, {head})
         /\ handle' = [handle EXCEPT ![w] =
               [key |-> k, size |-> size, ver |-> NextVersion, head |-> head, off |-> 0,
                cas |-> cas, basis |-> IF cas = 0 THEN None ELSE index[k].ver]]
  BY ZenonT(30) DEF BeginStore
<1>2. head # None => head_len(size) > 0
  <2>1. head_len(size) \in Nat
    BY TierSizesValid, StoreConfig DEF head_len, Lesser
  <2>2. head # None => head_len(size) # 0
    BY <1>1 DEF CanTake
  <2>. QED BY <2>1, <2>2
<1>3. UNCHANGED <<ramData, reader>>
  BY DEF BeginStore
<1>4. HandleWritten'
  <2> SUFFICES ASSUME NEW v \in Writers, handle'[v] # None, handle'[v].head # None
               PROVE  /\ head_len(handle'[v].size) > 0
                      /\ handle'[v].off > 0 => ramData[handle'[v].head] = handle'[v].ver
    BY <1>3 DEF HandleWritten, head_len, Lesser
  <2>1. CASE v = w
    <3>1. /\ handle'[v].size = size /\ handle'[v].head = head /\ handle'[v].off = 0
      BY <1>1, <2>1 DEF TypeOK
    <3>. QED BY SMTT(30), Z3T(30), <1>2, <3>1
  <2>2. CASE v # w
    <3>1. handle'[v] = handle[v]
      BY <1>1, <2>2 DEF TypeOK
    <3>. QED BY <3>1 DEF HeadInv, HandleWritten
  <2>. QED BY <2>1, <2>2
<1>5. HeadsCurrent'
  BY <1>1, <1>3, EvictKeeps DEF Evict, HeadInv, HeadsCurrent
<1>6. PinnedHeadIntact'
  BY <1>3 DEF HeadInv, PinnedHeadIntact
<1>. QED BY <1>4, <1>5, <1>6 DEF HeadInv

\* A store writes only into its own region, which no other store, index entry
\* or reader holds.
LEMMA WriteHeads ==
    ASSUME TypeOK, RegionInv, PinsCounted, HeadInv, NEW w \in Writers, NEW n \in Nat \ {0},
           write(w, n)
    PROVE  HeadInv'
<1> DEFINE h == handle[w].head
<1>1. /\ handle[w] \in Handle /\ handle[w] # None
      /\ handle[w].off \in Nat /\ h \in Regions \cup {None}
  BY DEF write, TypeOK, Handle
<1>2. UNCHANGED <<index, reader>>
  BY DEF write
<1>3. \A r \in Regions : ramData'[r] # ramData[r] => r = h
  BY <1>1 DEF write, TypeOK
<1>4. /\ handle'[w] # None /\ handle'[w].size = handle[w].size /\ handle'[w].head = h
      /\ handle'[w].ver = handle[w].ver
      /\ \A v \in Writers : v # w => handle'[v] = handle[v]
  <2>1. handle'[w] = [handle[w] EXCEPT !.off = @ + n]
    BY DEF write, TypeOK
  <2>2. handle'[w] \in Handle
    BY <1>1, <2>1 DEF Handle
  <2>. QED BY <1>1, <2>1, <2>2, NoneIsApart DEF write, TypeOK, Handle
<1>5. h # None => HeldByHandle(w, h)
  BY <1>1 DEF HeldByHandle
<1>6. HandleWritten'
  <2> SUFFICES ASSUME NEW v \in Writers, handle'[v] # None, handle'[v].head # None
               PROVE  /\ head_len(handle'[v].size) > 0
                      /\ handle'[v].off > 0 => ramData'[handle'[v].head] = handle'[v].ver
    BY DEF HandleWritten, head_len, Lesser
  <2>1. CASE v = w
    <3>1. h # None /\ head_len(handle[w].size) > 0
          /\ (handle[w].off > 0 => ramData[h] = handle[w].ver)
      BY <1>1, <1>4, <2>1 DEF HeadInv, HandleWritten
    <3>2. CASE handle[w].off < head_len(handle[w].size)
      <4>1. ramData' = [ramData EXCEPT ![h] = handle[w].ver]
        BY <3>1, <3>2 DEF write
      <4>. QED BY <1>1, <1>4, <2>1, <3>1, <4>1 DEF TypeOK
    <3>3. CASE ~(handle[w].off < head_len(handle[w].size))
      <4>1. ramData' = ramData
        BY <3>3 DEF write
      <4>2. handle[w].off > 0
        <5>1. handle[w].off \in Nat /\ head_len(handle[w].size) \in Nat
          BY <1>1, HeadLenType DEF Handle
        <5>. QED BY <3>1, <3>3, <5>1
      <4>. QED BY <1>4, <2>1, <3>1, <4>1, <4>2
    <3>. QED BY <3>2, <3>3
  <2>2. CASE v # w
    <3>1. handle'[v] = handle[v] /\ HeldByHandle(v, handle[v].head)
      BY <1>4, <2>2 DEF HeldByHandle
    <3>2. handle[v].head \in Regions /\ handle[v].head # h
      <4>1. handle[v].head \in Regions
        BY <3>1 DEF TypeOK, Handle
      <4>. QED BY ZenonT(30), <1>1, <1>5, <2>2, <3>1, <4>1, RegionFacts
    <3>. QED BY <1>3, <3>1, <3>2 DEF HeadInv, HandleWritten
  <2>. QED BY <2>1, <2>2
<1>7. HeadsCurrent'
  <2> SUFFICES ASSUME NEW k \in Keys, Resident(index, k)
               PROVE  ramData'[index[k].head] = index[k].ver
    BY <1>2 DEF HeadsCurrent, Resident
  <2>1. index[k].head \in Regions /\ HeldByIndex(k, index[k].head)
    BY DEF TypeOK, Resident, HeldByIndex, Meta
  <2>2. ~HeldByHandle(w, index[k].head)
    BY <2>1, RegionFacts
  <2>3. index[k].head # h
    BY <1>1, <2>1, <2>2, NoneIsApart DEF HeldByHandle
  <2>. QED BY <1>3, <2>1, <2>3 DEF HeadInv, HeadsCurrent
<1>8. PinnedHeadIntact'
  <2> SUFFICES ASSUME NEW x \in Readers, reader[x] # None, reader[x].pin # None
               PROVE  ramData'[reader[x].pin] = reader[x].ver
    BY <1>2 DEF PinnedHeadIntact
  <2> DEFINE p == reader[x].pin
  <2>1. p \in Regions /\ x \in Pinners(p)
    BY DEF TypeOK, Snapshot, Pinners, PinnedBy
  <2>2. pins[p].refcount # 0
    BY <2>1, PinnersFinite, FS_EmptySet DEF PinsCounted
  <2>3. p # h
    BY <1>5, <2>1, <2>2, RegionFacts
  <2>. QED BY <1>3, <2>1, <2>3 DEF HeadInv, PinnedHeadIntact
<1>. QED BY <1>6, <1>7, <1>8 DEF HeadInv

\* A complete store has written its head before the index names it.
LEMMA CommitHeads ==
    ASSUME TypeOK, HeadInv, NEW x \in Writers, NEW expiry \in Expiries, Commit(x, expiry)
    PROVE  HeadInv'
<1> DEFINE k0 == handle[x].key
           m == Published(x, expiry)
           ix == [index EXCEPT ![k0] = m]
<1>1. handle[x] \in Handle /\ k0 \in Keys /\ handle[x] # None /\ handle[x].off = handle[x].size
  BY ZenonT(30) DEF Commit, Complete, TypeOK, Handle
<1>2. UNCHANGED <<ramData, reader>> /\ handle' = [handle EXCEPT ![x] = None]
  BY DEF Commit
<1>3. \A k \in Keys : index'[k] # None => index'[k] = IF k = k0 THEN m ELSE index[k]
  <2> HIDE DEF m
  <2>1. PICK V : index' = DropIndex(ix, V)
    BY DEF Commit, m
  <2>. QED BY <1>1, <2>1 DEF DropIndex, TypeOK
<1>4. m.head = handle[x].head /\ m.ver = handle[x].ver
  BY DEF Published
<1>5. m.head # None => ramData[m.head] = m.ver
  <2>1. handle[x].head # None =>
           /\ head_len(handle[x].size) > 0
           /\ handle[x].off > 0 => ramData[handle[x].head] = handle[x].ver
    BY <1>1 DEF HeadInv, HandleWritten
  <2>2. head_len(handle[x].size) > 0 => handle[x].off > 0
    BY <1>1, HeadLenType DEF Handle
  <2>. QED BY <1>4, <2>1, <2>2
<1>6. HeadsCurrent'
  <2> HIDE DEF m
  <2>. QED BY <1>2, <1>3, <1>5 DEF HeadInv, HeadsCurrent, Resident
<1>7. HandleWritten'
  BY <1>2 DEF HeadInv, HandleWritten, TypeOK, head_len, Lesser
<1>8. PinnedHeadIntact'
  BY <1>2 DEF HeadInv, PinnedHeadIntact
<1>. QED BY <1>6, <1>7, <1>8 DEF HeadInv

\* A snapshot pins a head that holds the version it names.
LEMMA SnapshotHeads ==
    ASSUME TypeOK, HeadInv, NEW r \in Readers, NEW k \in Keys, index[k] # None,
           NEW from \in 0..index[k].size, open_snapshot(r, k, from)
    PROVE  HeadInv'
<1>1. UNCHANGED <<ramData, index, handle>>
  BY DEF open_snapshot
<1>2. HandleWritten' /\ HeadsCurrent'
  BY <1>1 DEF HeadInv, HandleWritten, HeadsCurrent, Resident, head_len, Lesser
<1>3. /\ reader'[r].pin = index[k].head /\ reader'[r].ver = index[k].ver
      /\ \A x \in Readers : x # r => reader'[x] = reader[x]
  BY DEF open_snapshot, TypeOK
<1>4. PinnedHeadIntact'
  <2> SUFFICES ASSUME NEW x \in Readers, reader'[x] # None, reader'[x].pin # None
               PROVE  ramData[reader'[x].pin] = reader'[x].ver
    BY <1>1 DEF PinnedHeadIntact
  <2>1. CASE x = r
    BY <1>3, <2>1 DEF HeadInv, HeadsCurrent, Resident
  <2>2. CASE x # r
    BY <1>3, <2>2 DEF HeadInv, PinnedHeadIntact
  <2>. QED BY <2>1, <2>2
<1>. QED BY <1>2, <1>4 DEF HeadInv

\* Initially every region is free.
LEMMA SafeInit == Init => IInv
<1> SUFFICES ASSUME Init PROVE IInv
  OBVIOUS
<1>1. TypeOK
  BY TypeInit
<1>2. /\ \A k \in Keys, r \in Regions : ~HeldByIndex(k, r)
      /\ \A w \in Writers, r \in Regions : ~HeldByHandle(w, r)
      /\ \A r \in Regions : pins[r].refcount = 0 /\ ~pins[r].orphaned /\ r \in ramFree
  BY DEF Init, HeldByIndex, HeldByHandle
<1>3. RegionInv
  BY <1>2 DEF RegionInv, RegionOwned, OneOwner, Orphans, Holders, Storers
<1>4. PinsCounted
  <2>1. \A r \in Regions : Pinners(r) = {}
    BY DEF Init, Pinners, PinnedBy
  <2>. QED BY <1>2, <2>1, FS_EmptySet DEF PinsCounted
<1>5. HeadInv
  BY DEF Init, HeadInv, HandleWritten, HeadsCurrent, Resident, PinnedHeadIntact
<1>. QED BY <1>1, <1>3, <1>4, <1>5 DEF IInv

\* Every step keeps one owner per region, the pin counts and the contents of
\* the heads in use.
LEMMA SafeStep == IInv /\ [Next]_vars => IInv'
<1> SUFFICES ASSUME TypeOK, RegionInv, PinsCounted, HeadInv, [Next]_vars
             PROVE  RegionInv' /\ PinsCounted' /\ HeadInv'
  BY TypeStep DEF IInv
<1> DEFINE Goal == RegionInv' /\ PinsCounted' /\ HeadInv'
<1>1. ASSUME UNCHANGED <<index, ramFree, ramData, pins, handle, reader>> PROVE Goal
  <2>1. RegionInv'
    BY <1>1, SameRegions DEF HeldByIndex, HeldByHandle
  <2>2. PinsCounted'
    BY <1>1, SamePins
  <2>3. HeadInv'
    BY <1>1, SameHeads DEF Resident
  <2>. QED BY <2>1, <2>2, <2>3
<1>2. ASSUME NEW w \in Writers, NEW k \in Keys, NEW size \in Sizes,
             BeginStoreOpenFails(w, k, size) \/ BeginStoreNoStage(w, k, size)
      PROVE  Goal
  BY <1>1, <1>2 DEF BeginStoreOpenFails, BeginStoreNoStage
<1>3. ASSUME NEW w \in Writers, NEW k \in Keys, NEW size \in Sizes,
             BeginStoreNoRam(w, k, size)
      PROVE  Goal
  <2>1. Evict(policy, {}) /\ UNCHANGED <<ramData, handle, reader>>
    BY <1>3 DEF BeginStoreNoRam
  <2>2. \A v \in Writers, r \in Regions :
           HeldByHandle(v, r)' <=> HeldByHandle(v, r) \/ (r \in {} /\ v = w)
    BY <2>1 DEF HeldByHandle
  <2>3. RegionInv'
    BY SMTT(30), Z3T(30), <2>1, <2>2, EvictRegions
  <2>4. PinsCounted'
    BY <2>1, SamePins DEF Evict
  <2>5. \A j \in Keys : Resident(index, j)' => Resident(index, j) /\ index'[j] = index[j]
    BY <2>1, EvictKeeps DEF Evict
  <2>6. HeadInv'
    BY <2>1, <2>5, SameHeads
  <2>. QED BY <2>3, <2>4, <2>6
<1>4. ASSUME NEW w \in Writers, NEW k \in Keys, NEW size \in Sizes, NEW cas \in ClientCas(k),
             BeginStore(w, k, size, cas)
      PROVE  Goal
  <2>1. PICK V \in SUBSET policy, head \in Regions \cup {None} :
           /\ CanTake(V, size, head)
           /\ Evict(V, {head})
           /\ handle' = [handle EXCEPT ![w] =
                 [key |-> k, size |-> size, ver |-> NextVersion, head |-> head, off |-> 0,
                  cas |-> cas, basis |-> IF cas = 0 THEN None ELSE index[k].ver]]
    BY ZenonT(30), <1>4 DEF BeginStore
  <2>2. handle[w] = None /\ UNCHANGED reader
    BY <1>4 DEF BeginStore
  <2> DEFINE new == [key |-> k, size |-> size, ver |-> NextVersion, head |-> head, off |-> 0,
                     cas |-> cas, basis |-> IF cas = 0 THEN None ELSE index[k].ver]
  <2>3. CanTake(V, size, head) /\ Evict(V, {head})
    BY <2>1
  <2>4. TypeOK' /\ handle'[w] = new /\ (\A v \in Writers : v # w => handle'[v] = handle[v])
    BY ZenonT(30), <1>4, <2>1, BeginStoreType DEF TypeOK
  <2>5. new # None /\ new.head = head
    <3>1. new \in Handle
      BY NewHandleType
    <3> HIDE DEF new
    <3>2. new # None
      BY <3>1, NoneIsApart
    <3>3. new.head = head
      BY DEF new
    <3>. QED BY <3>2, <3>3
  <2> HIDE DEF new
  <2>6. \A v \in Writers, r \in Regions :
           HeldByHandle(v, r)' <=> HeldByHandle(v, r) \/ (r \in {head} /\ v = w)
    <3>1. \A r \in Regions : HeldByHandle(w, r)' <=> r = head
      BY <2>4, <2>5 DEF HeldByHandle
    <3>2. \A r \in Regions : ~HeldByHandle(w, r)
      BY <2>2 DEF HeldByHandle
    <3>3. \A v \in Writers, r \in Regions : v # w => (HeldByHandle(v, r)' <=> HeldByHandle(v, r))
      BY <2>4 DEF HeldByHandle
    <3>. QED BY <3>1, <3>2, <3>3
  <2>7. {head} \ {None} \subseteq Available(V)
    BY <2>3 DEF CanTake
  <2>8. RegionInv'
    BY <2>3, <2>6, <2>7, EvictRegions
  <2>9. PinsCounted'
    <3>1. pins' = Orphan(HeadsOf(index, V)) /\ UNCHANGED reader
      BY <2>2, <2>3 DEF Evict
    <3>. QED BY <3>1, SamePins
  <2>. QED BY <1>4, <2>8, <2>9, BeginStoreHeads
<1>5. ASSUME NEW w \in Writers, NEW n \in Nat \ {0}, write(w, n) PROVE Goal
  <2>1. UNCHANGED <<ramFree, pins, index, reader>>
    BY <1>5 DEF write
  <2>2. handle[w] \in Handle /\ handle[w].off + n \in Nat
    BY SMTT(30), Z3T(30), <1>5 DEF write, TypeOK, Handle
  <2>3. handle' = [handle EXCEPT ![w] = [handle[w] EXCEPT !.off = @ + n]]
    BY <1>5 DEF write
  <2>4. [handle[w] EXCEPT !.off = @ + n] \in Handle
    BY <2>2 DEF Handle
  <2>5. handle'[w] # None /\ handle[w] # None /\ handle'[w].head = handle[w].head
    BY ZenonT(30), <2>2, <2>3, <2>4, NoneIsApart DEF TypeOK, Handle
  <2>6. \A v \in Writers, r \in Regions : HeldByHandle(v, r)' <=> HeldByHandle(v, r)
    BY <2>3, <2>5 DEF HeldByHandle, TypeOK
  <2>7. RegionInv'
    BY <2>1, <2>6, SameRegions DEF HeldByIndex
  <2>. QED BY <1>5, <2>1, <2>7, SamePins, WriteHeads
<1>6. ASSUME NEW w \in Writers,
             abort_uncommitted(w) \/ CommitCasMismatch(w) \/ CommitPublishFails(w)
      PROVE  Goal
  <2>1. handle[w] # None /\ Abort(w) /\ UNCHANGED <<index, pins, ramData, reader>>
    BY ZenonT(30), <1>6 DEF abort_uncommitted, CommitCasMismatch, CommitPublishFails, Complete
  <2>2. \A v \in Writers : handle'[v] # None => handle'[v] = handle[v]
    BY <2>1 DEF Abort, TypeOK
  <2>. QED BY <2>1, <2>2, AbortRegions, SamePins, SameHeads DEF Resident
<1>7. ASSUME NEW w \in Writers, NEW expiry \in Expiries, Commit(w, expiry) PROVE Goal
  <2>1. UNCHANGED reader /\ \E R : pins' = Orphan(R)
    BY <1>7 DEF Commit, free_head_region
  <2>. QED BY <1>7, <2>1, CommitRegions, SamePins, CommitHeads
<1>8. ASSUME NEW k \in Keys, remove(k) \/ ReapRemove(k) PROVE Goal
  <2>1. drop_object(k) /\ UNCHANGED <<handle, reader, ramData>>
    BY <1>8 DEF remove, ReapRemove
  <2>2. PinsCounted'
    BY <2>1, SamePins DEF drop_object, free_head_region
  <2>3. \A j \in Keys : Resident(index, j)' => Resident(index, j) /\ index'[j] = index[j]
    BY <2>1 DEF drop_object, DropIndex, Resident
  <2>. QED BY ZenonT(30), <2>1, <2>2, <2>3, DropRegions, SameHeads
<1>9. ASSUME NEW k \in Keys, NEW expiry \in Expiries, touch_ttl(k, expiry) PROVE Goal
  <2>1. UNCHANGED <<ramFree, ramData, pins, handle, reader>>
    BY <1>9 DEF touch_ttl
  <2>2. \A j \in Keys : /\ index'[j] # None <=> index[j] # None
                        /\ index[j] # None => index'[j].head = index[j].head
                                              /\ index'[j].ver = index[j].ver
    <3>1. index[k] \in Meta /\ expiry \in Nat /\ index[k] # None
      BY <1>9, ExpiriesType DEF touch_ttl, TypeOK
    <3>2. index' = [index EXCEPT ![k] = [index[k] EXCEPT !.expiry = expiry]]
      BY <1>9 DEF touch_ttl
    <3>3. [index[k] EXCEPT !.expiry = expiry] \in Meta
      BY <3>1 DEF Meta
    <3>. QED BY <3>1, <3>2, <3>3, NoneIsApart DEF TypeOK, Meta
  <2>3. \A j \in Keys, r \in Regions : HeldByIndex(j, r)' <=> HeldByIndex(j, r)
    BY <2>2 DEF HeldByIndex
  <2>4. RegionInv'
    BY <2>1, <2>3, SameRegions DEF HeldByHandle
  <2>. QED BY <2>1, <2>2, <2>4, SamePins, SameHeads DEF Resident
<1>10. ASSUME NEW r \in Readers, NEW k \in Keys, index[k] # None,
              NEW from \in 0..index[k].size, open_snapshot(r, k, from)
       PROVE  Goal
  BY <1>10, PinSnapshot, SnapshotHeads
<1>11. ASSUME NEW r \in Readers, SendHead(r) \/ CloseSnapshot(r) PROVE Goal
  <2>1. /\ reader[r] # None /\ unpin_head(reader[r].pin)
        /\ UNCHANGED <<index, handle, ramData>>
    BY <1>11 DEF SendHead, CloseSnapshot
  <2>2. /\ reader'[r] = None \/ reader'[r].pin = None
        /\ \A y \in Readers : y # r => reader'[y] = reader[y]
    <3>1. CASE SendHead(r)
      <4>1. reader[r] \in Snapshot
        BY <2>1 DEF TypeOK
      <4>. QED BY <3>1, <4>1 DEF SendHead, TypeOK, Snapshot
    <3>2. CASE CloseSnapshot(r)
      BY <3>2 DEF CloseSnapshot, TypeOK
    <3>. QED BY <1>11, <3>1, <3>2
  <2>3. \A y \in Readers, q \in Regions : PinnedBy(y, q)' <=> y # r /\ PinnedBy(y, q)
    BY ZenonT(30), <2>1, <2>2, NoneIsApart DEF PinnedBy
  <2>4. RegionInv' /\ PinsCounted'
    BY <2>1, <2>3, UnpinSnapshot
  <2>5. HeadInv'
    BY <2>1, <2>2, SameHeads DEF Resident
  <2>. QED BY <2>4, <2>5
<1>12. ASSUME NEW r \in Readers, plan(r) PROVE Goal
  <2>1. UNCHANGED <<index, ramFree, ramData, pins, handle>>
    BY <1>12 DEF plan
  <2>2. reader[r] \in Snapshot /\ reader[r] # None /\ reader'[r] # None
    BY ZenonT(30), <1>12, PlanType, NoneIsApart DEF plan, TypeOK
  <2>3. /\ reader'[r].pin = reader[r].pin /\ reader'[r].ver = reader[r].ver
        /\ \A y \in Readers : y # r => reader'[y] = reader[y]
    <3> DEFINE want == Lesser(IoChunk, reader[r].size - reader[r].pos)
               got == PlanVersions(reader[r], want)
    <3>1. reader' = [reader EXCEPT ![r] = [reader[r] EXCEPT !.pos = @ + want,
                                                            !.served = @ \cup got]]
      BY <1>12 DEF plan
    <3> HIDE DEF want, got
    <3>. QED BY <2>2, <3>1 DEF TypeOK, Snapshot
  <2>4. RegionInv'
    BY <2>1, SameRegions DEF HeldByIndex, HeldByHandle
  <2>5. PinsCounted'
    <3>1. \A q : Pinners(q)' = Pinners(q)
      BY <2>2, <2>3 DEF Pinners, PinnedBy
    <3>. QED BY <2>1, <3>1 DEF PinsCounted
  <2>6. HeadInv'
    BY <2>1, <2>2, <2>3, SameHeads DEF Resident
  <2>. QED BY <2>4, <2>5, <2>6
<1>13. CASE ReapScan \/ Tick \/ UNCHANGED vars
  BY <1>1, <1>13 DEF ReapScan, Tick, vars
<1>14. ASSUME NEW w \in Writers, StoreStep(w) PROVE Goal
  <2>1. handle[w] # None => 1..handle[w].size \subseteq Nat \ {0}
    BY PieceType
  <2> HIDE DEF Goal
  <2>2. CASE \E k \in Keys, size \in Sizes :
                \/ BeginStoreOpenFails(w, k, size)
                \/ BeginStoreNoStage(w, k, size)
                \/ BeginStoreNoRam(w, k, size)
                \/ \E cas \in ClientCas(k) : BeginStore(w, k, size, cas)
    BY <1>2, <1>3, <1>4, <2>2
  <2>3. CASE handle[w] # None /\ \E n \in 1..handle[w].size : write(w, n)
    BY <1>5, <2>1, <2>3
  <2>4. CASE abort_uncommitted(w) \/ CommitCasMismatch(w) \/ CommitPublishFails(w)
    BY <1>6, <2>4
  <2>5. CASE \E expiry \in Expiries : Commit(w, expiry)
    BY <1>7, <2>5
  <2>. QED BY <1>14, <2>2, <2>3, <2>4, <2>5 DEF StoreStep
<1>15. ASSUME NEW k \in Keys, KeyStep(k) PROVE Goal
  BY <1>8, <1>9, <1>15 DEF KeyStep
<1>16. ASSUME NEW r \in Readers, ReadStep(r) PROVE Goal
  BY <1>10, <1>11, <1>12, <1>16 DEF ReadStep
<1>. QED BY <1>13, <1>14, <1>15, <1>16 DEF Next

\* No region of the RAM pool ever has two owners, whatever the interleaving of
\* stores, evictions, removals and zero-copy sends: no double free, no free of
\* a head that a reader still sends.
THEOREM RegionSafety == Spec => []RegionsExclusive
<1>1. IInv => RegionsExclusive
  BY ZenonT(30), RegionFacts DEF IInv, RegionsExclusive
<1>. QED BY <1>1, SafeInit, SafeStep, PTL DEF Spec

\* No region of the RAM pool is ever lost: one that is not free is owned by an
\* object or a store, or will be freed by a reader that pins it.
THEOREM RegionConservation == Spec => []NoRegionLeak
<1>1. IInv => NoRegionLeak
  BY ZenonT(30), RegionFacts DEF IInv, NoRegionLeak
<1>. QED BY <1>1, SafeInit, SafeStep, PTL DEF Spec

\* The refcounts of pins_ are exact: every pin is dropped once.
THEOREM PinAccounting == Spec => []PinsCounted
<1>1. IInv => PinsCounted
  BY DEF IInv
<1>. QED BY <1>1, SafeInit, SafeStep, PTL DEF Spec

\* The bytes of a pinned head never change under the zero-copy send.
THEOREM PinnedHeadSafety == Spec => []PinnedHeadIntact
<1>1. IInv => PinnedHeadIntact
  BY DEF IInv, HeadInv
<1>. QED BY <1>1, SafeInit, SafeStep, PTL DEF Spec

\* The index never names a head that holds another version's bytes.
THEOREM HeadSafety == Spec => []HeadsCurrent
<1>1. IInv => HeadsCurrent
  BY DEF IInv, HeadInv
<1>. QED BY <1>1, SafeInit, SafeStep, PTL DEF Spec
=============================================================================
