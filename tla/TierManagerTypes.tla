------------------------- MODULE TierManagerTypes --------------------------
(***************************************************************************)
(* Type correctness of the object store of module TierManager, for every   *)
(* set of keys, regions, writers and readers and every configuration.      *)
(***************************************************************************)
EXTENDS TierManager, TLAPS

----------------------------------------------------------------------------
(* What the operators of the model return.                                 *)

IndexType == [Keys -> Meta \cup {None}]

PinsType == [Regions -> [refcount: Nat, orphaned: BOOLEAN]]

\* The files an object's layout names exist in the pools.
LEMMA FilesOfType == \A size : FilesOf(size) \subseteq Files
BY DEF FilesOf, Files

\* Heads of indexed objects are regions of the pool.
LEMMA HeadsOfType ==
    ASSUME NEW ix \in IndexType, NEW S \in SUBSET Keys
    PROVE  HeadsOf(ix, S) \subseteq Regions
BY DEF IndexType, HeadsOf, Resident, Meta

\* Freeing regions keeps the pool and the pin table typed.
LEMMA FreeType ==
    ASSUME pins \in PinsType, NEW R \in SUBSET Regions
    PROVE  Freed(R) \subseteq Regions /\ Orphan(R) \in PinsType
BY ZenonT(30) DEF PinsType, Freed, Orphan

\* Dropping objects keeps the index and the files typed.
LEMMA DropType ==
    ASSUME NEW ix \in IndexType, NEW lv \in [Keys -> [Files -> Version \cup {None}]], NEW V
    PROVE  /\ DropIndex(ix, V) \in IndexType
           /\ DropFiles(ix, lv, V) \in [Keys -> [Files -> Version \cup {None}]]
BY DEF IndexType, DropIndex, DropFiles

\* Evicting heads keeps the index typed.
LEMMA EvictedIndexType ==
    ASSUME index \in IndexType, NEW V
    PROVE  EvictedIndex(V) \in IndexType
BY DEF IndexType, EvictedIndex, Resident, Meta

\* Evicting heads keeps the pool, the pins, the index and the policies typed.
LEMMA EvictType ==
    ASSUME TypeOK, NEW V \in SUBSET policy, NEW T, Evict(V, T)
    PROVE  /\ ramFree' \subseteq Regions
           /\ pins' \in PinsType
           /\ index' \in IndexType
           /\ policy' \subseteq Keys
           /\ objectPolicy' \subseteq Keys
<1>1. index \in IndexType /\ pins \in PinsType /\ V \in SUBSET Keys
  BY DEF TypeOK, IndexType, PinsType
<1>2. HeadsOf(index, V) \subseteq Regions
  BY <1>1, HeadsOfType
<1>3. Freed(HeadsOf(index, V)) \subseteq Regions /\ Orphan(HeadsOf(index, V)) \in PinsType
  BY <1>1, <1>2, FreeType
<1>4. EvictedIndex(V) \in IndexType
  BY <1>1, EvictedIndexType
<1>. QED BY <1>3, <1>4 DEF Evict, Available, TypeOK

\* std::min of two lengths.
LEMMA LesserType ==
    ASSUME NEW a \in Nat, NEW b \in Nat
    PROVE  Lesser(a, b) \in Nat /\ Lesser(a, b) <= a /\ Lesser(a, b) <= b
BY DEF Lesser

\* A head is no longer than ram_head or its object.
LEMMA HeadLenType ==
    ASSUME NEW size \in Nat
    PROVE  head_len(size) \in Nat /\ head_len(size) <= RamHead /\ head_len(size) <= size
BY TierSizesValid, LesserType DEF head_len

\* A store is written in pieces of at least one block.
LEMMA PieceType ==
    ASSUME TypeOK, NEW w \in Writers, handle[w] # None
    PROVE  1..handle[w].size \subseteq Nat \ {0}
<1>1. handle[w].size \in Nat
  BY DEF TypeOK, Handle
<1>. QED BY <1>1

----------------------------------------------------------------------------
(* Placement: where the blocks of an object are.                           *)

\* Unit stripes: what a tier's n drives hold of an extent of that many blocks
\* covers the drive of each of its blocks.
LEMMA DriveUsed ==
    ASSUME NEW n \in Nat \ {0}, NEW bytes \in Nat, NEW b \in Nat, b < bytes
    PROVE  b % n < files_used(n, 1, bytes)
<1>1. Chunks(1, bytes) = bytes
  BY DEF Chunks
<1>2. b % n \in Nat /\ b % n < n
  OBVIOUS
<1>3. b < n => b % n = b
  OBVIOUS
<1>. QED BY SMTT(30), Z3T(30), <1>1, <1>2, <1>3 DEF files_used

\* Every block of an object that is longer than its head is in one of its files.
LEMMA BlockHasFile ==
    ASSUME NEW size \in Nat, RamHead < size, NEW b \in Nat, b < size, FileAt(b, size) \in Files
    PROVE  FileAt(b, size) \in FilesOf(size)
<1> DEFINE p == place(b, compute_layout(size))
<1>1. /\ SsdBytes(size) \in Nat /\ HddBytes(size) \in Nat
      /\ SsdBytes(size) + HddBytes(size) = size
  BY SMTT(30), Z3T(30), TierSizesValid DEF SsdBytes, HddBytes, RamOnly, Lesser
<1>2. \/ p.tier = "ssd" /\ p.local = b /\ b < SsdBytes(size)
      \/ p.tier = "hdd" /\ p.local = b - SsdBytes(size) /\ ~(b < SsdBytes(size))
  BY DEF place, compute_layout
<1>3. CASE p.tier = "ssd"
  <2>1. FileAt(b, size) = <<"ssd", b % SsdDrives>>
    BY <1>2, <1>3 DEF FileAt
  <2>2. b % SsdDrives \in 0..(SsdDrives - 1) /\ SsdDrives \in Nat \ {0}
    BY SMTT(30), Z3T(30), <2>1, StoreConfig DEF Files
  <2>3. b % SsdDrives < files_used(SsdDrives, 1, SsdBytes(size))
    BY <1>1, <1>2, <1>3, <2>2, DriveUsed
  <2>. QED BY SMTT(30), Z3T(30), <2>1, <2>2, <2>3 DEF FilesOf
<1>4. CASE p.tier = "hdd"
  <2> DEFINE c == b - SsdBytes(size)
  <2>1. FileAt(b, size) = <<"hdd", c % HddDrives>>
    BY <1>2, <1>4 DEF FileAt
  <2>2. c % HddDrives \in 0..(HddDrives - 1) /\ HddDrives \in Nat \ {0}
    BY SMTT(30), Z3T(30), <2>1, StoreConfig DEF Files
  <2>3. c \in Nat /\ c < HddBytes(size)
    BY SMTT(30), Z3T(30), <1>1, <1>2, <1>4
  <2>4. c % HddDrives < files_used(HddDrives, 1, HddBytes(size))
    BY <1>1, <2>2, <2>3, DriveUsed
  <2>. QED BY SMTT(30), Z3T(30), <2>1, <2>2, <2>4 DEF FilesOf
<1>. QED BY <1>2, <1>3, <1>4

----------------------------------------------------------------------------
(* Type correctness.                                                       *)

\* The initial state is well typed.
LEMMA TypeInit == Init => TypeOK
<1> SUFFICES ASSUME Init PROVE TypeOK
  OBVIOUS
<1>1. pins \in [Regions -> [refcount: Nat, orphaned: BOOLEAN]]
  BY DEF Init
<1>2. live \in [Keys -> [Files -> Version \cup {None}]]
  BY DEF Init
<1>3. stageFree \in Nat /\ storeSeq \in Nat /\ etagSeq \in Nat /\ now \in Nat
  BY StoreConfig DEF Init
<1>. QED BY ZenonT(30), <1>1, <1>2, <1>3 DEF Init, TypeOK

\* A new store's handle is well formed.
LEMMA NewHandleType ==
    ASSUME TypeOK, NEW k \in Keys, NEW size \in Sizes, NEW cas \in ClientCas(k),
           NEW head \in Regions \cup {None}
    PROVE  [key |-> k, size |-> size, ver |-> NextVersion, head |-> head, off |-> 0,
            cas |-> cas, basis |-> IF cas = 0 THEN None ELSE index[k].ver] \in Handle
<1>1. size \in Nat /\ NextVersion \in Version
  BY StoreConfig DEF TypeOK, NextVersion, Version
<1>2. index[k] # None => index[k].etag \in Nat /\ index[k].ver \in Version
  BY DEF TypeOK, Meta
<1>3. cas \in Nat /\ (IF cas = 0 THEN None ELSE index[k].ver) \in Version \cup {None}
  BY <1>2 DEF ClientCas
<1>. QED BY <1>1, <1>3 DEF Handle

\* A store that begins takes a staging buffer that is there and a well-formed handle.
LEMMA BeginStoreType ==
    ASSUME TypeOK, NEW w \in Writers, NEW k \in Keys, NEW size \in Sizes,
           NEW cas \in ClientCas(k), BeginStore(w, k, size, cas)
    PROVE  TypeOK'
<1>1. PICK V \in SUBSET policy, head \in Regions \cup {None} :
         /\ Evict(V, {head})
         /\ handle' = [handle EXCEPT ![w] =
               [key |-> k, size |-> size, ver |-> NextVersion, head |-> head, off |-> 0,
                cas |-> cas, basis |-> IF cas = 0 THEN None ELSE index[k].ver]]
  BY ZenonT(30) DEF BeginStore
<1>2. /\ ramFree' \subseteq Regions /\ pins' \in PinsType /\ index' \in IndexType
      /\ policy' \subseteq Keys /\ objectPolicy' \subseteq Keys
  BY <1>1, EvictType
<1>3. NextVersion \in Nat
  BY DEF TypeOK, NextVersion
<1>4. [key |-> k, size |-> size, ver |-> NextVersion, head |-> head, off |-> 0,
       cas |-> cas, basis |-> IF cas = 0 THEN None ELSE index[k].ver] \in Handle
  BY NewHandleType
<1>5. handle' \in [Writers -> Handle \cup {None}]
  BY <1>1, <1>4 DEF TypeOK
<1>6. scratch' \subseteq Version \X Files
  BY <1>3, FilesOfType DEF TypeOK, BeginStore, Version
<1>7. stageFree' \in Nat /\ storeSeq' \in Nat
  BY SMTT(30), <1>3 DEF BeginStore, HasStage, TypeOK
<1>. QED BY <1>2, <1>5, <1>6, <1>7 DEF TypeOK, BeginStore, IndexType, PinsType

\* An aborted store returns what it held.
LEMMA AbortType ==
    ASSUME TypeOK, NEW w \in Writers, handle[w] # None, Abort(w)
    PROVE  /\ handle' \in [Writers -> Handle \cup {None}]
           /\ ramFree' \subseteq Regions
           /\ stageFree' \in Nat
           /\ scratch' \subseteq Version \X Files
BY DEF TypeOK, Abort, Handle

\* Renaming scratch files onto live names keeps the files typed.
LEMMA RenamedType ==
    ASSUME TypeOK, NEW w \in Writers, handle[w] # None, NEW F
    PROVE  Renamed(w, F) \in [Keys -> [Files -> Version \cup {None}]]
<1>1. handle[w].key \in Keys /\ handle[w].ver \in Version
  BY DEF TypeOK, Handle
<1>. QED BY <1>1 DEF TypeOK, Renamed

\* Expiries are absolute times.
LEMMA ExpiriesType == TypeOK => Expiries \subseteq Nat
BY StoreConfig DEF TypeOK, Expiries

\* The index entry a store publishes is well formed.
LEMMA PublishedType ==
    ASSUME TypeOK, NEW w \in Writers, handle[w] # None, NEW expiry \in Expiries
    PROVE  Published(w, expiry) \in Meta
<1>1. handle[w] \in Handle /\ expiry \in Nat /\ etagSeq + 1 \in Nat
  BY ExpiriesType DEF TypeOK
<1>. QED BY <1>1 DEF Published, Meta, Handle

\* enforce_object_bound evicts tracked objects only.
LEMMA BoundVictimsType ==
    ASSUME NEW ix, NEW tracked, NEW V \in BoundVictims(ix, tracked)
    PROVE  V \subseteq tracked
BY DEF BoundVictims

\* Publishing an object keeps every variable typed.
LEMMA CommitType ==
    ASSUME TypeOK, NEW w \in Writers, NEW expiry \in Expiries, Commit(w, expiry)
    PROVE  TypeOK'
<1> DEFINE k == handle[w].key
           ix == [index EXCEPT ![k] = Published(w, expiry)]
           tracked == objectPolicy \cup (IF index[k] = None THEN {k} ELSE {})
           lv == Renamed(w, FilesOf(handle[w].size))
<1>1. handle[w] \in Handle /\ k \in Keys
  BY DEF Commit, Complete, TypeOK, Handle
<1>2. Published(w, expiry) \in Meta
  BY PublishedType DEF Commit, Complete
<1>3. ix \in IndexType /\ index \in IndexType /\ pins \in PinsType
  BY <1>1, <1>2 DEF TypeOK, IndexType, PinsType
<1>4. lv \in [Keys -> [Files -> Version \cup {None}]]
  BY RenamedType DEF Commit, Complete
<1>5. PICK V \in BoundVictims(ix, tracked) :
         /\ index' = DropIndex(ix, V)
         /\ live' = DropFiles(ix, lv, V)
         /\ policy' \subseteq policy \cup {k}
         /\ objectPolicy' = tracked \ V
         /\ free_head_region(HeadsOf(index, {k}) \cup HeadsOf(ix, V))
  BY ZenonT(30) DEF Commit
<1>6. V \subseteq tracked /\ V \subseteq Keys
  BY SMTT(30), ZenonT(30), <1>1, BoundVictimsType DEF TypeOK
<1>7. HeadsOf(index, {k}) \cup HeadsOf(ix, V) \subseteq Regions
  BY <1>1, <1>3, <1>6, HeadsOfType
<1>8. ramFree' \subseteq Regions /\ pins' \in PinsType
  BY ZenonT(30), <1>3, <1>5, <1>7, FreeType DEF free_head_region, TypeOK
<1>9. index' \in IndexType /\ live' \in [Keys -> [Files -> Version \cup {None}]]
  BY ZenonT(30), <1>3, <1>4, <1>5, DropType
<1>10. policy' \subseteq Keys /\ objectPolicy' \subseteq Keys
  BY <1>1, <1>5 DEF TypeOK
<1> HIDE DEF k, ix, tracked, lv
<1>11. /\ scratch' \subseteq scratch /\ stageFree' = stageFree + 1 /\ etagSeq' = etagSeq + 1
       /\ anyTtl' \in BOOLEAN /\ handle' = [handle EXCEPT ![w] = None]
       /\ UNCHANGED <<ramData, reader, storeSeq, reaping, now>>
  BY DEF Commit
<1>12. /\ scratch' \subseteq Version \X Files /\ stageFree' \in Nat /\ etagSeq' \in Nat
       /\ handle' \in [Writers -> Handle \cup {None}]
  BY <1>11 DEF TypeOK
<1>. QED BY <1>8, <1>9, <1>10, <1>11, <1>12 DEF TypeOK, IndexType, PinsType

\* Dropping an object keeps every variable it touches typed.
LEMMA DropObjectType ==
    ASSUME TypeOK, NEW k \in Keys, drop_object(k)
    PROVE  /\ index' \in IndexType
           /\ live' \in [Keys -> [Files -> Version \cup {None}]]
           /\ policy' \subseteq Keys /\ objectPolicy' \subseteq Keys
           /\ ramFree' \subseteq Regions /\ pins' \in PinsType
<1>1. index \in IndexType /\ pins \in PinsType
  BY DEF TypeOK, IndexType, PinsType
<1>2. HeadsOf(index, {k}) \subseteq Regions
  BY <1>1, HeadsOfType
<1>3. ramFree' \subseteq Regions /\ pins' \in PinsType
  BY ZenonT(30), <1>1, <1>2, FreeType DEF drop_object, free_head_region, TypeOK
<1>4. /\ DropIndex(index, {k}) \in IndexType
      /\ DropFiles(index, live, {k}) \in [Keys -> [Files -> Version \cup {None}]]
  BY <1>1, DropType DEF TypeOK
<1>. QED BY ZenonT(30), <1>3, <1>4 DEF drop_object, TypeOK

\* Dropping a pin never takes a refcount below zero.
LEMMA UnpinType ==
    ASSUME TypeOK, NEW p \in Regions \cup {None}, unpin_head(p)
    PROVE  ramFree' \subseteq Regions /\ pins' \in PinsType
<1>1. CASE p = None \/ pins[p].refcount = 0
  BY <1>1 DEF unpin_head, TypeOK, PinsType
<1>2. CASE p # None /\ pins[p].refcount = 1
  <2>1. /\ ramFree' \subseteq ramFree \cup {p}
        /\ pins' = [pins EXCEPT ![p] = [refcount |-> 0, orphaned |-> FALSE]]
    BY <1>2 DEF unpin_head
  <2>. QED BY <1>2, <2>1 DEF TypeOK, PinsType
<1>3. CASE p # None /\ pins[p].refcount \notin {0, 1}
  <2>1. p \in Regions /\ pins[p].refcount - 1 \in Nat
    BY <1>3 DEF TypeOK
  <2>2. [pins[p] EXCEPT !.refcount = @ - 1] \in [refcount: Nat, orphaned: BOOLEAN]
    BY <2>1 DEF TypeOK
  <2>3. ramFree' = ramFree /\ pins' = [pins EXCEPT ![p] = [pins[p] EXCEPT !.refcount = @ - 1]]
    BY <1>3 DEF unpin_head
  <2>. QED BY ZenonT(30), <2>2, <2>3 DEF TypeOK, PinsType
<1>. QED BY <1>1, <1>2, <1>3

\* Opening a snapshot yields a well-formed snapshot and counts its pin.
LEMMA OpenSnapshotType ==
    ASSUME TypeOK, NEW r \in Readers, NEW k \in Keys, index[k] # None,
           NEW from \in 0..index[k].size, open_snapshot(r, k, from)
    PROVE  /\ reader' \in [Readers -> Snapshot \cup {None}] /\ reader'[r] \in Snapshot
           /\ pins' \in PinsType
<1> DEFINE m == index[k]
           tail == m.size > (IF m.head # None THEN head_len(m.size) ELSE 0)
           fds == [f \in Files |-> IF tail /\ f \in FilesOf(m.size) THEN live[k][f] ELSE None]
<1>1. m \in Meta /\ from \in Nat
  BY SMTT(30) DEF TypeOK, Meta
<1>2. fds \in [Files -> Version \cup {None}]
  <2>1. live[k] \in [Files -> Version \cup {None}]
    BY DEF TypeOK
  <2> HIDE DEF tail
  <2>. QED BY <2>1
<1>3. [key |-> k, size |-> m.size, etag |-> m.etag, ver |-> m.ver, pin |-> m.head,
       pinned |-> m.head # None, pos |-> from, fds |-> fds, phase |-> "head", served |-> {}]
      \in Snapshot
  <2>. HIDE DEF fds
  <2>. QED BY <1>1, <1>2 DEF Snapshot, Meta
<1>4. reader' \in [Readers -> Snapshot \cup {None}] /\ reader'[r] \in Snapshot
  BY <1>3 DEF open_snapshot, TypeOK
<1>5. pins' \in PinsType
  BY SMTT(30), Z3T(30), <1>1 DEF open_snapshot, TypeOK, PinsType, Meta
<1>. QED BY <1>4, <1>5

\* Sending the head leaves a well-formed snapshot.
LEMMA SendHeadType ==
    ASSUME TypeOK, NEW r \in Readers, SendHead(r)
    PROVE  reader' \in [Readers -> Snapshot \cup {None}] /\ reader'[r] \in Snapshot
<1>1. reader[r] \in Snapshot /\ head_len(reader[r].size) \in Nat
  BY HeadLenType DEF SendHead, TypeOK, Snapshot
<1>2. reader[r].pin # None => ramData[reader[r].pin] \in Version \cup {None}
  BY <1>1 DEF TypeOK, Snapshot
<1>. QED BY ZenonT(30), <1>1, <1>2 DEF SendHead, TypeOK, Snapshot

\* A snapshot that has served more blocks is still a snapshot.
LEMMA SnapshotAdvances ==
    ASSUME NEW s \in Snapshot, NEW n \in Nat, NEW got \in SUBSET (Version \cup {None})
    PROVE  [s EXCEPT !.pos = @ + n, !.served = @ \cup got] \in Snapshot
<1>1. s.pos + n \in Nat /\ s.served \cup got \in SUBSET (Version \cup {None})
  BY DEF Snapshot
<1>. QED BY ZenonT(30), <1>1 DEF Snapshot

\* Planning a piece leaves a well-formed snapshot.
LEMMA PlanType ==
    ASSUME TypeOK, NEW r \in Readers, plan(r)
    PROVE  reader' \in [Readers -> Snapshot \cup {None}] /\ reader'[r] \in Snapshot
<1> DEFINE want == Lesser(IoChunk, reader[r].size - reader[r].pos)
           got == PlanVersions(reader[r], want)
<1>1. reader[r] \in Snapshot
  BY DEF plan, TypeOK
<1>2. want \in Nat
  BY SMTT(30), Z3T(30), <1>1, StoreConfig DEF Lesser, plan, Snapshot
<1>3. got \subseteq Version \cup {None}
  <2>1. \A f \in Files : reader[r].fds[f] \in Version \cup {None}
    BY <1>1 DEF Snapshot
  <2>2. Resident(index, reader[r].key) =>
           ramData[index[reader[r].key].head] \in Version \cup {None}
    BY <1>1 DEF TypeOK, Snapshot, Resident, Meta
  <2>3. ~Resident(index, reader[r].key) =>
           \A b \in reader[r].pos .. (reader[r].pos + want - 1) : ~(b < 0)
    BY <1>1, <1>2 DEF Snapshot
  <2> HIDE DEF want
  <2>. QED BY <2>1, <2>2, <2>3 DEF PlanVersions
<1> DEFINE s == [reader[r] EXCEPT !.pos = @ + want, !.served = @ \cup got]
<1>4. reader' = [reader EXCEPT ![r] = s]
  BY DEF plan
<1>5. s \in Snapshot
  BY ZenonT(30), <1>1, <1>2, <1>3, SnapshotAdvances
<1>. HIDE DEF s
<1>. QED BY <1>4, <1>5 DEF TypeOK

\* Every step keeps every variable typed.
LEMMA TypeStep == TypeOK /\ [Next]_vars => TypeOK'
<1> SUFFICES ASSUME TypeOK, [Next]_vars PROVE TypeOK'
  OBVIOUS
<1>1. ASSUME NEW w \in Writers, NEW k \in Keys, NEW size \in Sizes,
             BeginStoreOpenFails(w, k, size)
      PROVE  TypeOK'
  <2>1. NextVersion \in Nat
    BY DEF TypeOK, NextVersion
  <2>2. scratch' \subseteq Version \X Files
    BY <1>1, <2>1, FilesOfType DEF BeginStoreOpenFails, TypeOK, Version
  <2>. QED BY <1>1, <2>1, <2>2 DEF BeginStoreOpenFails, TypeOK
<1>2. ASSUME NEW w \in Writers, NEW k \in Keys, NEW size \in Sizes,
             BeginStoreNoStage(w, k, size)
      PROVE  TypeOK'
  BY SMTT(30), <1>2 DEF BeginStoreNoStage, TypeOK, NextVersion
<1>3. ASSUME NEW w \in Writers, NEW k \in Keys, NEW size \in Sizes,
             BeginStoreNoRam(w, k, size)
      PROVE  TypeOK'
  <2>1. Evict(policy, {})
    BY <1>3 DEF BeginStoreNoRam
  <2>2. /\ ramFree' \subseteq Regions /\ pins' \in PinsType /\ index' \in IndexType
        /\ policy' \subseteq Keys /\ objectPolicy' \subseteq Keys
    BY <2>1, EvictType
  <2>. QED BY SMTT(30), <1>3, <2>2 DEF BeginStoreNoRam, TypeOK, NextVersion, IndexType, PinsType
<1>4. ASSUME NEW w \in Writers, NEW n \in Nat, write(w, n)
      PROVE  TypeOK'
  <2>1. handle[w] \in Handle /\ handle[w].off + n \in Nat
    BY <1>4 DEF write, TypeOK, Handle
  <2>2. handle' \in [Writers -> Handle \cup {None}]
    BY ZenonT(30), <1>4, <2>1 DEF write, TypeOK, Handle
  <2>3. ramData' \in [Regions -> Version \cup {None}]
    BY <1>4, <2>1 DEF write, TypeOK, Handle
  <2>. QED BY <1>4, <2>2, <2>3 DEF write, TypeOK
<1>5. ASSUME NEW w \in Writers, abort_uncommitted(w) PROVE TypeOK'
  BY <1>5, AbortType DEF abort_uncommitted, TypeOK
<1>6. ASSUME NEW w \in Writers, CommitCasMismatch(w) PROVE TypeOK'
  BY <1>6, AbortType DEF CommitCasMismatch, Complete, TypeOK
<1>7. ASSUME NEW w \in Writers, CommitPublishFails(w) PROVE TypeOK'
  <2>1. live' \in [Keys -> [Files -> Version \cup {None}]]
    BY ZenonT(30), <1>7, RenamedType DEF CommitPublishFails, Complete
  <2>. QED BY <1>7, <2>1, AbortType DEF CommitPublishFails, Complete, TypeOK
<1>8. ASSUME NEW k \in Keys, remove(k) PROVE TypeOK'
  BY <1>8, DropObjectType DEF remove, TypeOK, IndexType, PinsType
<1>9. ASSUME NEW k \in Keys, ReapRemove(k) PROVE TypeOK'
  BY <1>9, DropObjectType DEF ReapRemove, TypeOK, IndexType, PinsType
<1>10. ASSUME NEW k \in Keys, NEW expiry \in Expiries, touch_ttl(k, expiry) PROVE TypeOK'
  <2>1. index' \in [Keys -> Meta \cup {None}]
    <3>1. index[k] \in Meta /\ expiry \in Nat
      BY <1>10, ExpiriesType DEF touch_ttl, TypeOK
    <3>2. [index[k] EXCEPT !.expiry = expiry] \in Meta
      BY <3>1 DEF Meta
    <3>3. index' = [index EXCEPT ![k] = [index[k] EXCEPT !.expiry = expiry]]
      BY <1>10 DEF touch_ttl
    <3>. QED BY <3>2, <3>3 DEF TypeOK
  <2>. QED BY <1>10, <2>1 DEF touch_ttl, TypeOK
<1>11. ASSUME NEW r \in Readers, NEW k \in Keys, index[k] # None,
              NEW from \in 0..index[k].size, open_snapshot(r, k, from)
       PROVE  TypeOK'
  BY ZenonT(30), <1>11, OpenSnapshotType DEF open_snapshot, TypeOK, PinsType
<1>12. ASSUME NEW r \in Readers, SendHead(r) PROVE TypeOK'
  <2>1. reader[r].pin \in Regions \cup {None} /\ unpin_head(reader[r].pin)
    BY <1>12 DEF SendHead, TypeOK, Snapshot
  <2>. QED BY ZenonT(30), <1>12, <2>1, SendHeadType, UnpinType DEF SendHead, TypeOK, PinsType
<1>13. ASSUME NEW r \in Readers, plan(r) PROVE TypeOK'
  BY ZenonT(30), <1>13, PlanType DEF plan, TypeOK
<1>14. ASSUME NEW r \in Readers, CloseSnapshot(r) PROVE TypeOK'
  <2>1. reader[r].pin \in Regions \cup {None} /\ unpin_head(reader[r].pin)
    BY <1>14 DEF CloseSnapshot, TypeOK, Snapshot
  <2>. QED BY <1>14, <2>1, UnpinType DEF CloseSnapshot, TypeOK, PinsType
<1>15. CASE ReapScan
  BY <1>15 DEF ReapScan, expired_keys, TypeOK
<1>16. CASE Tick
  BY SMTT(30), Z3T(30), <1>16 DEF Tick, TypeOK
<1>17. CASE UNCHANGED vars
  BY <1>17 DEF vars, TypeOK
<1>18. ASSUME NEW w \in Writers, StoreStep(w) PROVE TypeOK'
  <2>1. handle[w] # None => 1..handle[w].size \subseteq Nat
    BY PieceType
  <2>. QED BY <1>1, <1>2, <1>3, <1>4, <1>5, <1>6, <1>7, <1>18, <2>1, BeginStoreType, CommitType
           DEF StoreStep
<1>19. ASSUME NEW k \in Keys, KeyStep(k) PROVE TypeOK'
  BY <1>8, <1>9, <1>10, <1>19 DEF KeyStep
<1>20. ASSUME NEW r \in Readers, ReadStep(r) PROVE TypeOK'
  BY <1>11, <1>12, <1>13, <1>14, <1>20 DEF ReadStep
<1>. QED BY <1>15, <1>16, <1>17, <1>18, <1>19, <1>20 DEF Next

\* Every variable of the store keeps its type, whatever the sizes of the pools
\* and the number of threads: no staging buffer is handed out that is not
\* there, and no index entry, handle or snapshot is ever malformed.
THEOREM TypeCorrect == Spec => []TypeOK
BY TypeInit, TypeStep, PTL DEF Spec
=============================================================================
