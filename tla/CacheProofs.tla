---------------------------- MODULE CacheProofs ----------------------------
(***************************************************************************)
(* Proofs that the object store implements the abstract cache, that entity *)
(* tags identify contents, that compare-and-swap replaces what its client  *)
(* read, and that scratch files belong to stores in progress.  The first   *)
(* three rest on a classification of the store's steps (lemma StepKinds):  *)
(* a step publishes one object under a fresh tag, or publishes nothing and *)
(* leaves every entry that survives as it was.                             *)
(***************************************************************************)
EXTENDS TierManagerTypes

\* Entries of the index disappear or keep their tag and version.
EntryKept(k) ==
    index'[k] # None =>
        /\ index[k] # None
        /\ index'[k].etag = index[k].etag /\ index'[k].ver = index[k].ver

\* A store in progress ends, or remains the store of the same version.
HandleKept(w) ==
    handle'[w] # None =>
        /\ handle[w] # None
        /\ handle'[w].key = handle[w].key /\ handle'[w].ver = handle[w].ver
        /\ handle'[w].cas = handle[w].cas /\ handle'[w].basis = handle[w].basis

\* A store begins, with the next version and a tag the client may have read.
HandleBegun(w) ==
    /\ storeSeq' = storeSeq + 1
    /\ handle'[w].ver = storeSeq'
    /\ handle'[w].key \in Keys
    /\ LET m == index[handle'[w].key]
       IN \/ handle'[w].cas = 0
          \/ m # None /\ handle'[w].cas = m.etag /\ handle'[w].basis = m.ver
    /\ \A v \in Writers : v # w => handle'[v] = handle[v]

\* A read in progress ends, keeps its tag and version, or takes those of an
\* indexed object.
ReaderKept(x) ==
    reader'[x] # None =>
        \/ /\ reader[x] # None
           /\ reader'[x].etag = reader[x].etag /\ reader'[x].ver = reader[x].ver
        \/ \E k \in Keys : /\ index[k] # None
                           /\ reader'[x].etag = index[k].etag /\ reader'[x].ver = index[k].ver

Quiet ==
    /\ etagSeq' = etagSeq
    /\ storeSeq' \in {storeSeq, storeSeq + 1}
    /\ \A k \in Keys : EntryKept(k)
    /\ \/ \A w \in Writers : HandleKept(w)
       \/ \E w \in Writers : HandleBegun(w)
    /\ \A x \in Readers : ReaderKept(x)

Publishes(w) ==
    /\ handle[w] # None
    /\ CasHolds(w)
    /\ etagSeq' = etagSeq + 1
    /\ handle' = [handle EXCEPT ![w] = None]
    /\ UNCHANGED <<reader, storeSeq>>
    /\ \A k \in Keys :
          IF k = handle[w].key
          THEN index'[k] # None => index'[k].etag = etagSeq + 1 /\ index'[k].ver = handle[w].ver
          ELSE EntryKept(k)

----------------------------------------------------------------------------
(* The classification, action by action.                                   *)

\* Evicting heads keeps or removes entries.
LEMMA EvictEntries ==
    ASSUME TypeOK, NEW V, index' = EvictedIndex(V), NEW k \in Keys
    PROVE  EntryKept(k)
<1>1. index'[k] = IF k \in EvictedObjects(V) THEN None
                  ELSE IF k \in V /\ Resident(index, k)
                  THEN [index[k] EXCEPT !.head = None] ELSE index[k]
  BY DEF EvictedIndex
<1>2. CASE k \in V /\ Resident(index, k)
  <2>1. index[k] \in Meta /\ index[k] # None
    BY <1>2 DEF TypeOK, Resident
  <2>. QED BY <1>1, <1>2, <2>1 DEF EntryKept, Meta
<1>3. CASE ~(k \in V /\ Resident(index, k))
  BY <1>1, <1>3 DEF EntryKept
<1>. QED BY <1>2, <1>3

\* Beginning a store publishes nothing.
LEMMA BeginStoreQuiet ==
    ASSUME TypeOK, NEW w \in Writers, NEW k \in Keys, NEW size \in Sizes,
           NEW cas \in ClientCas(k), BeginStore(w, k, size, cas)
    PROVE  Quiet
<1>1. PICK V \in SUBSET policy, head \in Regions \cup {None} :
         /\ Evict(V, {head})
         /\ handle' = [handle EXCEPT ![w] =
               [key |-> k, size |-> size, ver |-> NextVersion, head |-> head, off |-> 0,
                cas |-> cas, basis |-> IF cas = 0 THEN None ELSE index[k].ver]]
  BY ZenonT(30) DEF BeginStore
<1>2. \A j \in Keys : EntryKept(j)
  BY <1>1, EvictEntries DEF Evict
<1>3. /\ handle'[w].ver = NextVersion /\ handle'[w].key = k /\ handle'[w].cas = cas
      /\ handle'[w].basis = IF cas = 0 THEN None ELSE index[k].ver
      /\ \A v \in Writers : v # w => handle'[v] = handle[v]
  BY <1>1 DEF TypeOK
<1>4. UNCHANGED <<etagSeq, reader>> /\ storeSeq' = NextVersion
  BY DEF BeginStore
<1>5. HandleBegun(w)
  BY <1>3, <1>4 DEF HandleBegun, NextVersion, ClientCas
<1>6. \A x \in Readers : ReaderKept(x)
  BY <1>4 DEF ReaderKept
<1>. QED BY <1>2, <1>4, <1>5, <1>6 DEF Quiet, NextVersion

\* A commit publishes one object under the next tag.
LEMMA CommitPublishes ==
    ASSUME TypeOK, NEW w \in Writers, NEW expiry \in Expiries, Commit(w, expiry)
    PROVE  Publishes(w)
<1> DEFINE k0 == handle[w].key
           m == Published(w, expiry)
           ix == [index EXCEPT ![k0] = m]
<1>1. handle[w] # None /\ k0 \in Keys
  BY DEF Commit, Complete, TypeOK, Handle
<1>2. \A k \in Keys : index'[k] # None => index'[k] = IF k = k0 THEN m ELSE index[k]
  <2> HIDE DEF m
  <2>1. PICK V : index' = DropIndex(ix, V)
    BY DEF Commit, m
  <2>. QED BY <1>1, <2>1 DEF DropIndex, TypeOK
<1>3. m.etag = etagSeq + 1 /\ m.ver = handle[w].ver
  BY DEF Published
<1>4. /\ CasHolds(w) /\ etagSeq' = etagSeq + 1 /\ handle' = [handle EXCEPT ![w] = None]
      /\ UNCHANGED <<reader, storeSeq>>
  BY DEF Commit
<1> HIDE DEF m
<1>. QED BY <1>1, <1>2, <1>3, <1>4 DEF Publishes, EntryKept

\* Every step of the store publishes one object or none.
LEMMA StepKinds ==
    ASSUME TypeOK, [Next]_vars
    PROVE  Quiet \/ \E w \in Writers : Publishes(w)
<1>1. ASSUME UNCHANGED <<etagSeq, index, reader>>, storeSeq' \in {storeSeq, storeSeq + 1},
             \A w \in Writers : HandleKept(w)
      PROVE  Quiet
  BY <1>1 DEF Quiet, EntryKept, ReaderKept
<1>2. ASSUME NEW w \in Writers, NEW k \in Keys, NEW size \in Sizes,
             BeginStoreOpenFails(w, k, size) \/ BeginStoreNoStage(w, k, size)
      PROVE  Quiet
  BY <1>1, <1>2 DEF BeginStoreOpenFails, BeginStoreNoStage, NextVersion, HandleKept
<1>3. ASSUME NEW w \in Writers, NEW k \in Keys, NEW size \in Sizes,
             BeginStoreNoRam(w, k, size)
      PROVE  Quiet
  <2>1. /\ index' = EvictedIndex(policy) /\ storeSeq' = storeSeq + 1
        /\ UNCHANGED <<etagSeq, handle, reader>>
    BY <1>3 DEF BeginStoreNoRam, Evict, NextVersion
  <2>. QED BY <2>1, EvictEntries DEF Quiet, HandleKept, ReaderKept
<1>4. ASSUME NEW w \in Writers, NEW n, write(w, n) PROVE Quiet
  <2>1. handle[w] \in Handle /\ handle[w] # None
    BY <1>4 DEF write, TypeOK
  <2>2. handle' = [handle EXCEPT ![w] = [handle[w] EXCEPT !.off = @ + n]]
    BY <1>4 DEF write
  <2>3. \A v \in Writers : HandleKept(v)
    BY <2>1, <2>2 DEF HandleKept, TypeOK, Handle
  <2>. QED BY <1>1, <1>4, <2>3 DEF write
<1>5. ASSUME NEW w \in Writers,
             abort_uncommitted(w) \/ CommitCasMismatch(w) \/ CommitPublishFails(w)
      PROVE  Quiet
  <2>1. Abort(w) /\ UNCHANGED <<etagSeq, index, reader, storeSeq>>
    BY <1>5 DEF abort_uncommitted, CommitCasMismatch, CommitPublishFails
  <2>2. \A v \in Writers : HandleKept(v)
    BY <2>1 DEF Abort, HandleKept, TypeOK
  <2>. QED BY <1>1, <2>1, <2>2
<1>6. ASSUME NEW k \in Keys, remove(k) \/ ReapRemove(k) PROVE Quiet
  <2>1. index' = DropIndex(index, {k}) /\ UNCHANGED <<etagSeq, handle, reader, storeSeq>>
    BY <1>6 DEF remove, ReapRemove, drop_object
  <2>. QED BY <2>1 DEF Quiet, DropIndex, EntryKept, HandleKept, ReaderKept
<1>7. ASSUME NEW k \in Keys, NEW expiry \in Expiries, touch_ttl(k, expiry) PROVE Quiet
  <2>1. index[k] \in Meta /\ index[k] # None
    BY <1>7 DEF touch_ttl, TypeOK
  <2>2. /\ index' = [index EXCEPT ![k] = [index[k] EXCEPT !.expiry = expiry]]
        /\ UNCHANGED <<etagSeq, handle, reader, storeSeq>>
    BY <1>7 DEF touch_ttl
  <2>3. \A j \in Keys : EntryKept(j)
    BY <2>1, <2>2 DEF EntryKept, TypeOK, Meta
  <2>. QED BY <2>2, <2>3 DEF Quiet, HandleKept, ReaderKept
<1>8. ASSUME NEW r \in Readers, UNCHANGED <<etagSeq, index, handle, storeSeq>>,
             \A x \in Readers : ReaderKept(x)
      PROVE  Quiet
  BY <1>8 DEF Quiet, EntryKept, HandleKept
<1>9. ASSUME NEW r \in Readers, NEW k \in Keys, NEW from, open_snapshot(r, k, from)
      PROVE  Quiet
  <2>1. \A x \in Readers : ReaderKept(x)
    BY <1>9 DEF open_snapshot, ReaderKept, TypeOK
  <2>. QED BY <1>8, <1>9, <2>1 DEF open_snapshot
<1>10. ASSUME NEW r \in Readers, SendHead(r) PROVE Quiet
  <2>1. reader[r] \in Snapshot /\ reader[r] # None
    BY <1>10 DEF SendHead, TypeOK
  <2>2. \A x \in Readers : ReaderKept(x)
    BY <1>10, <2>1 DEF SendHead, ReaderKept, TypeOK, Snapshot
  <2>. QED BY <1>8, <1>10, <2>2 DEF SendHead
<1>11. ASSUME NEW r \in Readers, plan(r) PROVE Quiet
  <2> DEFINE want == Lesser(IoChunk, reader[r].size - reader[r].pos)
             got == PlanVersions(reader[r], want)
  <2>1. reader[r] \in Snapshot /\ reader[r] # None
    BY <1>11 DEF plan, TypeOK
  <2>2. reader' = [reader EXCEPT ![r] = [reader[r] EXCEPT !.pos = @ + want,
                                                          !.served = @ \cup got]]
    BY <1>11 DEF plan
  <2> HIDE DEF want, got
  <2>3. \A x \in Readers : ReaderKept(x)
    BY <2>1, <2>2 DEF ReaderKept, TypeOK, Snapshot
  <2>. QED BY <1>8, <1>11, <2>3 DEF plan
<1>12. ASSUME NEW r \in Readers, CloseSnapshot(r) PROVE Quiet
  <2>1. \A x \in Readers : ReaderKept(x)
    BY <1>12 DEF CloseSnapshot, ReaderKept, TypeOK
  <2>. QED BY <1>8, <1>12, <2>1 DEF CloseSnapshot
<1>13. CASE ReapScan \/ Tick \/ UNCHANGED vars
  BY <1>1, <1>13 DEF ReapScan, Tick, vars, HandleKept
<1>14. ASSUME NEW w \in Writers, StoreStep(w) PROVE Quiet \/ Publishes(w)
  BY <1>2, <1>3, <1>4, <1>5, <1>14, BeginStoreQuiet, CommitPublishes DEF StoreStep
<1>15. ASSUME NEW k \in Keys, KeyStep(k) PROVE Quiet
  BY <1>6, <1>7, <1>15 DEF KeyStep
<1>16. ASSUME NEW r \in Readers, ReadStep(r) PROVE Quiet
  BY <1>9, <1>10, <1>11, <1>12, <1>16 DEF ReadStep
<1>. QED BY <1>13, <1>14, <1>15, <1>16 DEF Next

----------------------------------------------------------------------------
(* Refinement.                                                             *)

\* What a client sees of the store is a cache.
THEOREM CacheRefinement == Spec => ImplementsCache
<1> DEFINE C == [k \in Keys |-> IF index[k] = None THEN None ELSE index[k].etag]
<1>1. Init => Client!Init
  BY DEF Init, Client!Init
<1>2. TypeOK /\ [Next]_vars => [Client!Next]_(<<C, etagSeq>>)
  <2> SUFFICES ASSUME TypeOK, [Next]_vars PROVE Client!Next
    OBVIOUS
  <2> DEFINE D == {k \in Keys : index'[k] = None}
  <2>1. CASE Quiet
    <3>1. C' = Client!Without(C, D)
      BY <2>1 DEF Quiet, EntryKept, Client!Without
    <3>2. D \in SUBSET Keys /\ etagSeq' = etagSeq
      BY <2>1 DEF Quiet
    <3>. QED BY ZenonT(30), <3>1, <3>2 DEF Client!Next, Client!Lose
  <2>2. ASSUME NEW w \in Writers, Publishes(w) PROVE Client!Next
    <3>1. PICK k0 \in Keys : k0 = handle[w].key /\ etagSeq' = etagSeq + 1
      BY <2>2 DEF Publishes, TypeOK, Handle
    <3>2. \A k \in Keys : index'[k] # None =>
             IF k = k0 THEN index'[k].etag = etagSeq + 1
             ELSE index[k] # None /\ index'[k].etag = index[k].etag
      BY <2>2, <3>1 DEF Publishes, EntryKept
    <3>3. C' = Client!Without([C EXCEPT ![k0] = etagSeq + 1], D)
      BY <3>1, <3>2 DEF Client!Without
    <3>4. Client!Publish(k0)
      BY ZenonT(30), <3>1, <3>3 DEF Client!Publish
    <3>. QED BY <3>1, <3>4 DEF Client!Next
  <2>. QED BY <2>1, <2>2, StepKinds
<1>. QED BY <1>1, <1>2, TypeCorrect, PTL DEF Spec, ImplementsCache, Client!Spec

----------------------------------------------------------------------------
(* Entity tags, compare-and-swap and scratch files.                        *)

\* Tag e and version v go together in the index or in a read in progress.
Seen(e, v) ==
    \/ \E k \in Keys : index[k] # None /\ index[k].etag = e /\ index[k].ver = v
    \/ \E x \in Readers : reader[x] # None /\ reader[x].etag = e /\ reader[x].ver = v

TagsMatch ==
    \A e, v, f, u \in Nat : Seen(e, v) /\ Seen(f, u) => (e = f <=> v = u)

TagsIssued ==
    \A e, v \in Nat : Seen(e, v) => e > 0 /\ e <= etagSeq /\ v <= storeSeq

\* The version of a store in progress is its own and not yet visible.
HandleFresh ==
    \A w \in Writers : handle[w] # None =>
        /\ handle[w].ver <= storeSeq
        /\ \A e, v \in Nat : Seen(e, v) => v # handle[w].ver
        /\ \A v \in Writers : v # w /\ handle[v] # None => handle[v].ver # handle[w].ver

\* While the tag a store expects is still the key's tag, the key still has
\* the version the client read.
CasBasis ==
    \A w \in Writers : handle[w] # None /\ handle[w].cas # 0 =>
        /\ handle[w].cas <= etagSeq
        /\ LET m == index[handle[w].key]
           IN m # None /\ m.etag = handle[w].cas => m.ver = handle[w].basis

TagInv == TypeOK /\ TagsMatch /\ TagsIssued /\ HandleFresh /\ CasBasis

\* Tags and versions in view are numbers.
LEMMA SeenType ==
    ASSUME TypeOK, NEW e, NEW v, Seen(e, v)
    PROVE  e \in Nat /\ v \in Nat
BY DEF Seen, TypeOK, Meta, Snapshot, Version

\* A step that publishes nothing brings no pair of tag and version into view.
LEMMA QuietSeen ==
    ASSUME Quiet, NEW e, NEW v, Seen(e, v)'
    PROVE  Seen(e, v)
BY SMTT(30), ZenonT(30) DEF Quiet, EntryKept, ReaderKept, Seen

\* A publication brings at most one pair into view, the next tag with the
\* version of its store.
LEMMA PublishSeen ==
    ASSUME NEW w \in Writers, Publishes(w), NEW e, NEW v, Seen(e, v)'
    PROVE  Seen(e, v) \/ (e = etagSeq + 1 /\ v = handle[w].ver)
BY DEF Publishes, EntryKept, Seen

\* Steps that publish nothing keep the tags matched.
LEMMA QuietTags ==
    ASSUME TagInv, TypeOK', Quiet
    PROVE  TagInv'
<1>1. \A e, v \in Nat : Seen(e, v)' => Seen(e, v)
  BY QuietSeen
<1>2. /\ storeSeq \in Nat /\ storeSeq' \in Nat /\ storeSeq <= storeSeq'
      /\ etagSeq \in Nat /\ etagSeq' = etagSeq
  BY DEF TagInv, TypeOK, Quiet
<1>3. TagsMatch'
  BY <1>1 DEF TagInv, TagsMatch
<1>4. TagsIssued'
  BY <1>1, <1>2 DEF TagInv, TagsIssued
<1>5. \A w \in Writers : handle[w] # None =>
         /\ handle[w].ver \in Nat /\ handle[w].ver <= storeSeq
         /\ handle[w].key \in Keys
  BY DEF TagInv, HandleFresh, TypeOK, Handle, Version
<1>6. \A k \in Keys : index[k] # None => index[k].etag <= etagSeq
  <2> SUFFICES ASSUME NEW k \in Keys, index[k] # None PROVE index[k].etag <= etagSeq
    OBVIOUS
  <2>1. Seen(index[k].etag, index[k].ver) /\ index[k].etag \in Nat /\ index[k].ver \in Nat
    BY DEF Seen, TagInv, TypeOK, Meta, Version
  <2>. QED BY <2>1 DEF TagInv, TagsIssued
<1>7. CASE \A w \in Writers : HandleKept(w)
  <2>1. HandleFresh'
    BY SMTT(30), Z3T(30), <1>1, <1>2, <1>5, <1>7 DEF TagInv, HandleFresh, HandleKept
  <2>2. CasBasis'
    BY SMTT(30), <1>2, <1>5, <1>7 DEF TagInv, CasBasis, HandleKept, Quiet, EntryKept
  <2>. QED BY <1>3, <1>4, <2>1, <2>2 DEF TagInv
<1>8. ASSUME NEW x \in Writers, HandleBegun(x) PROVE TagInv'
  <2>1. HandleFresh'
    <3>1. \A e, v \in Nat : Seen(e, v)' => v <= storeSeq
      BY <1>1 DEF TagInv, TagsIssued
    <3>2. handle'[x].ver = storeSeq + 1 /\ storeSeq' = storeSeq + 1
      BY <1>8 DEF HandleBegun
    <3>3. \A v \in Writers : v # x => handle'[v] = handle[v]
      BY <1>8 DEF HandleBegun
    <3>. QED BY <1>1, <1>2, <1>5, <3>1, <3>2, <3>3 DEF TagInv, HandleFresh
  <2>2. CasBasis'
    <3> SUFFICES ASSUME NEW w \in Writers, handle'[w] # None, handle'[w].cas # 0
                 PROVE  /\ handle'[w].cas <= etagSeq
                        /\ LET m == index'[handle'[w].key]
                           IN m # None /\ m.etag = handle'[w].cas => m.ver = handle'[w].basis
      BY <1>2 DEF CasBasis
    <3>1. CASE w = x
      BY <1>6, <1>8, <3>1 DEF HandleBegun, Quiet, EntryKept
    <3>2. CASE w # x
      <4>1. handle'[w] = handle[w]
        BY <1>8, <3>2 DEF HandleBegun
      <4>. QED BY SMTT(30), <1>5, <4>1 DEF TagInv, CasBasis, Quiet, EntryKept
    <3>. QED BY <3>1, <3>2
  <2>. QED BY <1>3, <1>4, <2>1, <2>2 DEF TagInv
<1>. QED BY <1>7, <1>8 DEF Quiet

\* A publication uses a tag and a version that nothing in view has.
LEMMA PublishTags ==
    ASSUME TagInv, TypeOK', NEW x \in Writers, Publishes(x)
    PROVE  TagInv'
<1>1. \A e, v \in Nat : Seen(e, v)' => Seen(e, v) \/ (e = etagSeq + 1 /\ v = handle[x].ver)
  BY PublishSeen
<1>2. /\ etagSeq \in Nat /\ etagSeq' = etagSeq + 1 /\ storeSeq' = storeSeq
      /\ handle[x] # None /\ handle'[x] = None
      /\ \A v \in Writers : v # x => handle'[v] = handle[v]
  BY DEF TagInv, TypeOK, Publishes
<1>3. /\ handle[x].ver <= storeSeq
      /\ \A e, v \in Nat : Seen(e, v) => v # handle[x].ver /\ e <= etagSeq
  BY <1>2 DEF TagInv, HandleFresh, TagsIssued
<1>4. TagsMatch'
  BY <1>1, <1>2, <1>3 DEF TagInv, TagsMatch
<1>5. TagsIssued'
  BY SMTT(30), Z3T(30), <1>1, <1>2, <1>3 DEF TagInv, TagsIssued
<1>6. HandleFresh'
  BY SMTT(30), ZenonT(30), <1>1, <1>2 DEF TagInv, HandleFresh
<1>7. CasBasis'
  <2> SUFFICES ASSUME NEW w \in Writers, handle'[w] # None, handle'[w].cas # 0
               PROVE  /\ handle'[w].cas <= etagSeq + 1
                      /\ LET m == index'[handle'[w].key]
                         IN m # None /\ m.etag = handle'[w].cas => m.ver = handle'[w].basis
    BY <1>2 DEF CasBasis
  <2>1. handle'[w] = handle[w] /\ w # x
    BY <1>2
  <2>2. handle[w].cas \in Nat /\ handle[w].cas <= etagSeq /\ handle[w].key \in Keys
    BY <2>1 DEF TagInv, CasBasis, TypeOK, Handle
  <2>3. CASE handle[w].key = handle[x].key
    <3>1. index'[handle[w].key] # None => index'[handle[w].key].etag = etagSeq + 1
      BY <2>2, <2>3 DEF Publishes
    <3>. QED BY SMTT(30), Z3T(30), <1>2, <2>1, <2>2, <3>1
  <2>4. CASE handle[w].key # handle[x].key
    <3>1. EntryKept(handle[w].key)
      BY <2>2, <2>4 DEF Publishes, EntryKept
    <3>2. /\ handle[w] # None /\ handle[w].cas # 0
          /\ index[handle[w].key] # None /\ index[handle[w].key].etag = handle[w].cas
             => index[handle[w].key].ver = handle[w].basis
      BY <2>1 DEF TagInv, CasBasis
    <3>3. /\ handle'[w].cas = handle[w].cas /\ handle'[w].basis = handle[w].basis
          /\ handle'[w].key = handle[w].key
      BY <2>1
    <3>4. handle'[w].cas <= etagSeq + 1
      BY SMTT(30), Z3T(30), <1>2, <2>2, <3>3
    <3>5. index'[handle'[w].key] # None /\ index'[handle'[w].key].etag = handle'[w].cas
          => index'[handle'[w].key].ver = handle'[w].basis
      BY <3>1, <3>2, <3>3 DEF EntryKept
    <3>. QED BY <3>4, <3>5
  <2>. QED BY <2>3, <2>4
<1>. QED BY <1>4, <1>5, <1>6, <1>7 DEF TagInv

\* The tags stay matched.
LEMMA TagsStay == Spec => []TagInv
<1>1. Init => TagInv
  <2> SUFFICES ASSUME Init PROVE TagInv
    OBVIOUS
  <2>1. \A e, v : ~Seen(e, v)
    BY DEF Init, Seen
  <2>2. \A w \in Writers : handle[w] = None
    BY DEF Init
  <2>. QED BY <2>1, <2>2, TypeInit
           DEF TagInv, TagsMatch, TagsIssued, HandleFresh, CasBasis
<1>2. TagInv /\ [Next]_vars => TagInv'
  <2> SUFFICES ASSUME TagInv, [Next]_vars PROVE TagInv'
    OBVIOUS
  <2>1. TypeOK /\ TypeOK'
    BY TypeStep DEF TagInv
  <2>. QED BY <2>1, StepKinds, QuietTags, PublishTags
<1>. QED BY <1>1, <1>2, PTL DEF Spec

\* Two objects or reads in progress with one entity tag have the same bytes,
\* and objects with the same bytes have one tag.
THEOREM TagIdentity == Spec => []EtagIdentifies
<1>1. TagInv => EtagIdentifies
  <2> SUFFICES ASSUME TagInv PROVE EtagIdentifies
    OBVIOUS
  <2> DEFINE seen == {[etag |-> index[k].etag, ver |-> index[k].ver] : k \in Present(index)}
                     \cup {[etag |-> reader[x].etag, ver |-> reader[x].ver] :
                              x \in {y \in Readers : reader[y] # None}}
  <2>1. \A a \in seen : Seen(a.etag, a.ver) /\ a.etag \in Nat /\ a.ver \in Nat
    <3>1. \A a \in seen : Seen(a.etag, a.ver)
      BY DEF Seen, Present
    <3> HIDE DEF seen
    <3>. QED BY <3>1, SeenType DEF TagInv
  <2>2. \A a, b \in seen : a.etag = b.etag <=> a.ver = b.ver
    <3> HIDE DEF seen
    <3>. QED BY SMTT(30), ZenonT(30), <2>1 DEF TagInv, TagsMatch
  <2>. QED BY <2>2 DEF EtagIdentifies
<1>. QED BY <1>1, TagsStay, PTL

\* A compare-and-swap that succeeds replaces the very version its client read,
\* however many stores, evictions and removals of the key came in between.
THEOREM CasSafety == Spec => CasReplacesBasis
<1>1. TagInv /\ [Next]_vars =>
        [\A w \in Writers :
          handle[w] # None /\ handle[w].cas # 0 /\ etagSeq' # etagSeq /\ handle'[w] = None
          => LET old == index[handle[w].key]
             IN old # None /\ old.ver = handle[w].basis]_vars
  <2> SUFFICES ASSUME TagInv, [Next]_vars, NEW w \in Writers, handle[w] # None,
                      handle[w].cas # 0, etagSeq' # etagSeq, handle'[w] = None
               PROVE  LET old == index[handle[w].key]
                      IN old # None /\ old.ver = handle[w].basis
    OBVIOUS
  <2>1. PICK x \in Writers : Publishes(x)
    BY StepKinds DEF TagInv, Quiet
  <2>2. x = w
    BY <2>1 DEF Publishes, TagInv, TypeOK
  <2>. QED BY <2>1, <2>2 DEF Publishes, CasHolds, TagInv, CasBasis
<1>. QED BY <1>1, TagsStay, PTL DEF Spec, CasReplacesBasis

----------------------------------------------------------------------------
(* Scratch files.  They are named after the version of their store, so that *)
(* no store unlinks those of another because versions are never shared.    *)

NoOpenFails == "open" \notin IoFaults

\* A store in progress writes file f of version v.
Writing(v, f) ==
    \E w \in Writers : handle[w] # None /\ handle[w].ver = v /\ f \in FilesOf(handle[w].size)

\* ScratchOwned, file by file.
LEMMA ScratchHere ==
    ASSUME TypeOK
    PROVE  ScratchOwned <=> \A v \in Version, f \in Files : <<v, f>> \in scratch <=> Writing(v, f)
<1> DEFINE own == UNION {{handle[w].ver} \X FilesOf(handle[w].size) :
                            w \in {u \in Writers : handle[u] # None}}
<1>1. scratch \subseteq Version \X Files
  BY DEF TypeOK
<1>2. own \subseteq Version \X Files
  BY FilesOfType DEF TypeOK, Handle
<1>3. \A v \in Version, f \in Files : <<v, f>> \in own <=> Writing(v, f)
  BY DEF Writing
<1>4. ScratchOwned <=> scratch = own
  BY DEF ScratchOwned
<1> HIDE DEF own
<1>5. ASSUME \A v \in Version, f \in Files : <<v, f>> \in scratch <=> Writing(v, f)
      PROVE  scratch = own
  BY <1>1, <1>2, <1>3, <1>5
<1>. QED BY <1>3, <1>4, <1>5

\* ... and in the next state.
LEMMA ScratchNext ==
    ASSUME TypeOK'
    PROVE  ScratchOwned' <=>
              \A v \in Version, f \in Files : <<v, f>> \in scratch' <=> Writing(v, f)'
<1> DEFINE own == UNION {{handle'[w].ver} \X FilesOf(handle'[w].size) :
                            w \in {u \in Writers : handle'[u] # None}}
<1>1. scratch' \subseteq Version \X Files
  BY DEF TypeOK
<1>2. own \subseteq Version \X Files
  BY FilesOfType DEF TypeOK, Handle
<1>3. \A v \in Version, f \in Files : <<v, f>> \in own <=> Writing(v, f)'
  BY DEF Writing
<1>4. ScratchOwned' <=> scratch' = own
  BY DEF ScratchOwned
<1> HIDE DEF own
<1>5. ASSUME \A v \in Version, f \in Files : <<v, f>> \in scratch' <=> Writing(v, f)'
      PROVE  scratch' = own
  BY <1>1, <1>2, <1>3, <1>5
<1>. QED BY <1>3, <1>4, <1>5

\* A step that begins and ends no store leaves the scratch files owned.
LEMMA ScratchSame ==
    ASSUME TypeOK, TypeOK', ScratchOwned, scratch' = scratch,
           \A w \in Writers :
              /\ handle'[w] = None <=> handle[w] = None
              /\ handle'[w].ver = handle[w].ver /\ handle'[w].size = handle[w].size
    PROVE  ScratchOwned'
<1>1. \A v \in Version, f \in Files : Writing(v, f)' <=> Writing(v, f)
  BY DEF Writing
<1>. QED BY <1>1, ScratchHere, ScratchNext

\* A store that begins owns the files it creates.
LEMMA ScratchBegun ==
    ASSUME TypeOK, TypeOK', ScratchOwned, NEW w \in Writers, handle[w] = None,
           handle'[w] # None, \A u \in Writers : u # w => handle'[u] = handle[u],
           scratch' = scratch \cup ({handle'[w].ver} \X FilesOf(handle'[w].size))
    PROVE  ScratchOwned'
<1>1. \A v \in Version, f \in Files :
         Writing(v, f)' <=> \/ Writing(v, f)
                            \/ v = handle'[w].ver /\ f \in FilesOf(handle'[w].size)
  BY DEF Writing
<1>. QED BY <1>1, ScratchHere, ScratchNext

\* A store that ends takes away its own files and no other's.
LEMMA ScratchEnded ==
    ASSUME TagInv, TypeOK', ScratchOwned, NEW w \in Writers, handle[w] # None,
           handle' = [handle EXCEPT ![w] = None],
           scratch' = scratch \ ({handle[w].ver} \X FilesOf(handle[w].size))
    PROVE  ScratchOwned'
<1>1. TypeOK
  BY DEF TagInv
<1>2. handle'[w] = None /\ \A u \in Writers : u # w => handle'[u] = handle[u]
  BY <1>1 DEF TypeOK
<1>3. \A u \in Writers : u # w /\ handle[u] # None => handle[u].ver # handle[w].ver
  BY DEF TagInv, HandleFresh
<1>4. \A v \in Version, f \in Files :
         Writing(v, f)' <=> /\ Writing(v, f)
                            /\ ~(v = handle[w].ver /\ f \in FilesOf(handle[w].size))
  BY <1>2, <1>3 DEF Writing
<1>. QED BY <1>1, <1>4, ScratchHere, ScratchNext

\* Every step keeps the scratch files owned, unless one cannot be opened.
LEMMA ScratchStep ==
    ASSUME NoOpenFails, TagInv, TypeOK', ScratchOwned, [Next]_vars
    PROVE  ScratchOwned'
<1>0. TypeOK
  BY DEF TagInv
<1>1. ASSUME UNCHANGED <<scratch, handle>> PROVE ScratchOwned'
  BY <1>0, <1>1, ScratchSame
<1>2. ASSUME NEW w \in Writers, NEW k \in Keys, NEW size \in Sizes, NEW cas \in ClientCas(k),
             BeginStore(w, k, size, cas)
      PROVE  ScratchOwned'
  <2>1. PICK head \in Regions \cup {None} :
           handle' = [handle EXCEPT ![w] =
               [key |-> k, size |-> size, ver |-> NextVersion, head |-> head, off |-> 0,
                cas |-> cas, basis |-> IF cas = 0 THEN None ELSE index[k].ver]]
    BY ZenonT(30), <1>2 DEF BeginStore
  <2>2. /\ handle[w] = None
        /\ scratch' = scratch \cup ({NextVersion} \X FilesOf(size))
    BY <1>2 DEF BeginStore
  <2> DEFINE new == [key |-> k, size |-> size, ver |-> NextVersion, head |-> head, off |-> 0,
                     cas |-> cas, basis |-> IF cas = 0 THEN None ELSE index[k].ver]
  <2>3. new \in Handle
    BY <1>0, NewHandleType
  <2>4. new.ver = NextVersion /\ new.size = size
    OBVIOUS
  <2>5. handle' = [handle EXCEPT ![w] = new]
    BY <2>1
  <2> HIDE DEF new
  <2>6. handle'[w] = new /\ \A u \in Writers : u # w => handle'[u] = handle[u]
    BY <1>0, <2>5 DEF TypeOK
  <2>7. handle'[w] # None /\ handle'[w].ver = NextVersion /\ handle'[w].size = size
    BY <2>3, <2>4, <2>6, NoneIsApart
  <2>. QED BY <1>0, <2>2, <2>6, <2>7, ScratchBegun
<1>3. ASSUME NEW w \in Writers, NEW n \in Nat, write(w, n) PROVE ScratchOwned'
  <2>1. /\ scratch' = scratch /\ handle[w] # None
        /\ handle' = [handle EXCEPT ![w].off = @ + n]
    BY <1>3 DEF write
  <2>2. handle[w] \in Handle /\ handle'[w] = [handle[w] EXCEPT !.off = @ + n]
    BY <1>0, <2>1 DEF TypeOK
  <2>3. /\ handle'[w] \in Handle
        /\ handle'[w].ver = handle[w].ver /\ handle'[w].size = handle[w].size
    BY <2>2 DEF Handle
  <2>4. \A u \in Writers : u # w => handle'[u] = handle[u]
    BY <1>0, <2>1 DEF TypeOK
  <2>. QED BY <1>0, <2>1, <2>3, <2>4, NoneIsApart, ScratchSame
<1>4. ASSUME NEW w \in Writers, NEW expiry \in Expiries, Commit(w, expiry)
      PROVE  ScratchOwned'
  <2>1. /\ handle[w] # None /\ handle' = [handle EXCEPT ![w] = None]
        /\ scratch' = scratch \ ({handle[w].ver} \X FilesOf(handle[w].size))
    BY <1>4 DEF Commit, Complete
  <2>. QED BY <2>1, ScratchEnded
<1>5. ASSUME NEW w \in Writers,
             abort_uncommitted(w) \/ CommitCasMismatch(w) \/ CommitPublishFails(w)
      PROVE  ScratchOwned'
  <2>1. /\ handle[w] # None /\ handle' = [handle EXCEPT ![w] = None]
        /\ scratch' = scratch \ ({handle[w].ver} \X FilesOf(handle[w].size))
    BY <1>5 DEF abort_uncommitted, CommitCasMismatch, CommitPublishFails, Complete, Abort
  <2>. QED BY <2>1, ScratchEnded
<1>6. ASSUME NEW w \in Writers, StoreStep(w) PROVE ScratchOwned'
  <2>1. ASSUME NEW k \in Keys, NEW size \in Sizes,
               BeginStoreNoStage(w, k, size) \/ BeginStoreNoRam(w, k, size)
        PROVE  ScratchOwned'
    BY <1>1, <2>1 DEF BeginStoreNoStage, BeginStoreNoRam
  <2>2. \A k, size : ~BeginStoreOpenFails(w, k, size)
    BY DEF BeginStoreOpenFails, NoOpenFails
  <2>3. handle[w] # None => 1..handle[w].size \subseteq Nat
    BY <1>0, PieceType
  <2>. QED BY <1>2, <1>3, <1>4, <1>5, <1>6, <2>1, <2>2, <2>3 DEF StoreStep
<1>7. ASSUME NEW k \in Keys, KeyStep(k) PROVE ScratchOwned'
  BY <1>1, <1>7 DEF KeyStep, remove, ReapRemove, touch_ttl
<1>8. ASSUME NEW r \in Readers, ReadStep(r) PROVE ScratchOwned'
  BY <1>1, <1>8 DEF ReadStep, open_snapshot, SendHead, plan, CloseSnapshot
<1>9. ASSUME ReapScan \/ Tick \/ UNCHANGED vars PROVE ScratchOwned'
  BY <1>1, <1>9 DEF ReapScan, Tick, vars
<1>. QED BY <1>6, <1>7, <1>8, <1>9 DEF Next

\* When every scratch file can be opened, scratch files exist exactly for the
\* stores in progress: a store that commits, is refused, fails to publish or
\* loses its client leaves none behind and removes none of another store of
\* the same key.
THEOREM ScratchStaysOwned ==
    ASSUME NoOpenFails
    PROVE  Spec => []ScratchOwned
<1>1. Init => ScratchOwned
  BY DEF Init, ScratchOwned
<1>2. TagInv /\ TypeOK' /\ ScratchOwned /\ [Next]_vars => ScratchOwned'
  BY ScratchStep
<1>3. TagInv => TypeOK
  BY DEF TagInv
<1>. QED BY <1>1, <1>2, <1>3, TagsStay, PTL DEF Spec
=============================================================================
