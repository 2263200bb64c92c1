----------------------------- MODULE ReadProofs -----------------------------
(***************************************************************************)
(* Proofs that files are those of the indexed version, and that a read     *)
(* which pinned its head is of one version, when no rename fails.          *)
(***************************************************************************)
EXTENDS TierManagerProofs

NoRenameFails == "rename" \notin IoFaults

\* What a reader that pinned its head relies on: it sends the head first, so
\* that its tail begins past the head, and the files it opened are of its
\* version.  Without this its next plan could read another version.
SnapshotWhole(s) ==
    s # None /\ s.pinned =>
        /\ s.phase = "head" => s.pin # None
        /\ s.phase = "tail" => head_len(s.size) <= s.pos
        /\ head_len(s.size) < s.size => \A f \in FilesOf(s.size) : s.fds[f] = s.ver
        /\ s.served \subseteq {s.ver}

SnapshotsWhole == \A x \in Readers : SnapshotWhole(reader[x])

----------------------------------------------------------------------------
(* The files.                                                              *)

\* The index ix has the files lv it names.
Current(ix, lv) ==
    \A k \in Keys : ix[k] # None => \A f \in FilesOf(ix[k].size) : lv[k][f] = ix[k].ver

\* The files are current in this state.
LEMMA CurrentHere == LiveFilesCurrent <=> Current(index, live)
BY DEF LiveFilesCurrent, Current

\* ... and in the next.
LEMMA CurrentNext == LiveFilesCurrent' <=> Current(index', live')
BY DEF LiveFilesCurrent, Current

\* A step that renames and unlinks nothing keeps the files current, when the
\* objects it leaves in the index were there before.
LEMMA SameFiles ==
    ASSUME LiveFilesCurrent, live' = live,
           \A k \in Keys : index'[k] # None =>
              /\ index[k] # None
              /\ index'[k].size = index[k].size /\ index'[k].ver = index[k].ver
    PROVE  LiveFilesCurrent'
BY CurrentHere, CurrentNext DEF Current

\* Evicting heads does not change what the files are to hold.
LEMMA EvictFiles ==
    ASSUME TypeOK, LiveFilesCurrent, live' = live, NEW V, NEW T, Evict(V, T)
    PROVE  LiveFilesCurrent'
<1>1. ASSUME NEW k \in Keys, index'[k] # None
      PROVE  /\ index[k] # None
             /\ index'[k].size = index[k].size /\ index'[k].ver = index[k].ver
  <2>1. index'[k] = IF k \in EvictedObjects(V) THEN None
                    ELSE IF k \in V /\ Resident(index, k)
                    THEN [index[k] EXCEPT !.head = None] ELSE index[k]
    BY DEF Evict, EvictedIndex
  <2>2. index[k] # None /\ index[k] \in Meta
    BY <1>1, <2>1 DEF TypeOK, Resident
  <2>. QED BY <1>1, <2>1, <2>2 DEF Meta
<1>. QED BY <1>1, SameFiles

\* Dropping objects unlinks no file of another object.
LEMMA DropFilesCurrent ==
    ASSUME NEW ix, NEW lv, Current(ix, lv), NEW V
    PROVE  Current(DropIndex(ix, V), DropFiles(ix, lv, V))
<1> SUFFICES ASSUME NEW k \in Keys, DropIndex(ix, V)[k] # None,
                    NEW f \in FilesOf(DropIndex(ix, V)[k].size)
             PROVE  DropFiles(ix, lv, V)[k][f] = DropIndex(ix, V)[k].ver
  BY DEF Current
<1>1. k \notin V /\ DropIndex(ix, V)[k] = ix[k]
  BY DEF DropIndex
<1>2. f \in Files
  BY FilesOfType
<1>3. DropFiles(ix, lv, V)[k][f] = lv[k][f]
  BY <1>1, <1>2 DEF DropFiles
<1>. QED BY <1>1, <1>3 DEF Current

\* Removing one object.
LEMMA RemoveFiles ==
    ASSUME LiveFilesCurrent, NEW k \in Keys, drop_object(k)
    PROVE  LiveFilesCurrent'
BY CurrentHere, CurrentNext, DropFilesCurrent DEF drop_object

\* commit renames every file the new entry names, and then drops whole objects.
LEMMA CommitFiles ==
    ASSUME TypeOK, LiveFilesCurrent, NEW w \in Writers, NEW expiry \in Expiries,
           Commit(w, expiry)
    PROVE  LiveFilesCurrent'
<1> DEFINE k == handle[w].key
           ix == [index EXCEPT ![k] = Published(w, expiry)]
           lv == Renamed(w, FilesOf(handle[w].size))
<1>1. handle[w] # None /\ k \in Keys
  BY DEF Commit, Complete, TypeOK, Handle
<1>2. PICK V : index' = DropIndex(ix, V) /\ live' = DropFiles(ix, lv, V)
  BY DEF Commit
<1>3. Current(ix, lv)
  <2> SUFFICES ASSUME NEW j \in Keys, ix[j] # None, NEW f \in FilesOf(ix[j].size)
               PROVE  lv[j][f] = ix[j].ver
    BY DEF Current
  <2>1. f \in Files
    BY FilesOfType
  <2>2. CASE j = k
    <3>1. ix[j].size = handle[w].size /\ ix[j].ver = handle[w].ver
      BY <1>1, <2>2 DEF TypeOK, Published
    <3>2. lv[j][f] = handle[w].ver
      BY <1>1, <2>1, <2>2, <3>1 DEF TypeOK, Renamed
    <3>. QED BY <3>1, <3>2
  <2>3. CASE j # k
    <3>1. ix[j] = index[j] /\ lv[j] = live[j]
      BY <1>1, <2>3 DEF TypeOK, Renamed
    <3>. QED BY <3>1 DEF LiveFilesCurrent
  <2>. QED BY <2>2, <2>3
<1>. QED BY <1>2, <1>3, DropFilesCurrent, CurrentNext

\* Every step keeps the files current, when no rename fails.
LEMMA FilesStep ==
    ASSUME NoRenameFails, TypeOK, LiveFilesCurrent, [Next]_vars
    PROVE  LiveFilesCurrent'
<1>1. ASSUME index' = index, live' = live PROVE LiveFilesCurrent'
  BY <1>1, SameFiles
<1>2. ASSUME NEW w \in Writers, StoreStep(w) PROVE LiveFilesCurrent'
  <2>1. ASSUME NEW k \in Keys, NEW size \in Sizes,
               BeginStoreOpenFails(w, k, size) \/ BeginStoreNoStage(w, k, size)
        PROVE  LiveFilesCurrent'
    BY <1>1, <2>1 DEF BeginStoreOpenFails, BeginStoreNoStage
  <2>2. ASSUME NEW k \in Keys, NEW size \in Sizes, BeginStoreNoRam(w, k, size)
        PROVE  LiveFilesCurrent'
    BY <2>2, EvictFiles DEF BeginStoreNoRam
  <2>3. ASSUME NEW k \in Keys, NEW size \in Sizes, NEW cas \in ClientCas(k),
               BeginStore(w, k, size, cas)
        PROVE  LiveFilesCurrent'
    <3>1. live' = live /\ \E V \in SUBSET policy, head \in Regions \cup {None} : Evict(V, {head})
      BY ZenonT(30), <2>3 DEF BeginStore
    <3>. QED BY <3>1, EvictFiles
  <2>4. ASSUME NEW n, write(w, n) PROVE LiveFilesCurrent'
    BY <1>1, <2>4 DEF write
  <2>5. ASSUME abort_uncommitted(w) \/ CommitCasMismatch(w) \/ CommitPublishFails(w)
        PROVE  LiveFilesCurrent'
    BY <1>1, <2>5 DEF abort_uncommitted, CommitCasMismatch, CommitPublishFails, NoRenameFails
  <2>. QED BY <1>2, <2>1, <2>2, <2>3, <2>4, <2>5, CommitFiles DEF StoreStep
<1>3. ASSUME NEW k \in Keys, remove(k) \/ ReapRemove(k) PROVE LiveFilesCurrent'
  BY <1>3, RemoveFiles DEF remove, ReapRemove
<1>4. ASSUME NEW k \in Keys, NEW expiry \in Expiries, touch_ttl(k, expiry)
      PROVE  LiveFilesCurrent'
  <2>1. index[k] # None /\ index[k] \in Meta /\ live' = live
    BY <1>4 DEF touch_ttl, TypeOK
  <2>2. /\ index'[k].size = index[k].size /\ index'[k].ver = index[k].ver
        /\ \A j \in Keys : j # k => index'[j] = index[j]
    BY <1>4, <2>1 DEF touch_ttl, TypeOK, Meta
  <2>. QED BY <2>1, <2>2, SameFiles
<1>5. ASSUME NEW r \in Readers, ReadStep(r) PROVE LiveFilesCurrent'
  BY ZenonT(30), <1>1, <1>5 DEF ReadStep, open_snapshot, SendHead, plan, CloseSnapshot
<1>6. ASSUME ReapScan \/ Tick \/ UNCHANGED vars PROVE LiveFilesCurrent'
  BY <1>1, <1>6 DEF ReapScan, Tick, vars
<1>. QED BY <1>2, <1>3, <1>4, <1>5, <1>6 DEF Next, KeyStep

----------------------------------------------------------------------------
(* Reads.                                                                  *)

\* A plan past the head of a snapshot reads nothing but the snapshot's files,
\* whatever head the key has by then.
LEMMA PlanWhole ==
    ASSUME TypeOK, NEW s \in Snapshot, s.pinned, s.phase = "tail", SnapshotWhole(s),
           s.pos < s.size
    PROVE  PlanVersions(s, Lesser(IoChunk, s.size - s.pos)) \subseteq {s.ver}
<1> DEFINE want == Lesser(IoChunk, s.size - s.pos)
           piece == s.pos .. (s.pos + want - 1)
           m == index[s.key]
           ram_end == IF Resident(index, s.key) THEN head_len(m.size) ELSE 0
<1>0. s.key \in Keys /\ s.size \in Nat /\ s.pos \in Nat
  BY DEF Snapshot
<1>1. RamHead < s.size /\ RamHead <= s.pos /\ head_len(s.size) < s.size
  BY SMTT(30), Z3T(30), <1>0, TierSizesValid, NoneIsApart DEF SnapshotWhole, head_len, Lesser
<1>2. want \in Nat /\ s.pos + want <= s.size
  <2>1. IoChunk \in Nat /\ s.size - s.pos \in Nat
    BY <1>0, StoreConfig
  <2>2. want \in Nat /\ want <= s.size - s.pos
    BY <2>1, LesserType
  <2> HIDE DEF want
  <2>. QED BY <1>0, <2>2
<1>3. ram_end \in Nat /\ ram_end <= RamHead
  <2>1. RamHead \in Nat
    BY TierSizesValid
  <2>2. Resident(index, s.key) => m.size \in Nat
    BY <1>0 DEF TypeOK, Meta, Resident
  <2>3. CASE Resident(index, s.key)
    BY <2>2, <2>3, HeadLenType
  <2>4. CASE ~Resident(index, s.key)
    BY <2>1, <2>4
  <2>. QED BY <2>3, <2>4
<1>4. \A b \in piece : b \in Nat /\ ~(b < ram_end) /\ b < s.size
  <2> HIDE DEF want, ram_end
  <2>1. RamHead \in Nat
    BY TierSizesValid
  <2>. QED BY SMTT(30), Z3T(30), <1>0, <1>1, <1>2, <1>3, <2>1
<1>5. ASSUME NEW f \in Files, NEW b \in piece, FileAt(b, s.size) = f PROVE s.fds[f] = s.ver
  <2>1. f \in FilesOf(s.size)
    BY <1>0, <1>1, <1>4, <1>5, BlockHasFile
  <2>. QED BY <1>1, <2>1, NoneIsApart DEF SnapshotWhole
<1>6. {c \in piece : c < ram_end} = {}
  BY <1>4
<1>. QED BY <1>5, <1>6 DEF PlanVersions

\* Every step keeps the pinned snapshots whole.
LEMMA ReadStepWhole ==
    ASSUME TypeOK, LiveFilesCurrent, PinnedHeadIntact, SnapshotsWhole, [Next]_vars
    PROVE  SnapshotsWhole'
<1>1. ASSUME reader' = reader PROVE SnapshotsWhole'
  BY <1>1 DEF SnapshotsWhole
<1>2. ASSUME NEW r \in Readers, NEW s, reader' = [reader EXCEPT ![r] = s], SnapshotWhole(s)
      PROVE  SnapshotsWhole'
  <2>1. \A x \in Readers : reader'[x] = IF x = r THEN s ELSE reader[x]
    BY <1>2 DEF TypeOK
  <2>. QED BY <1>2, <2>1 DEF SnapshotsWhole
<1>3. ASSUME NEW r \in Readers, NEW k \in Keys, index[k] # None,
             NEW from \in 0..index[k].size, open_snapshot(r, k, from)
      PROVE  SnapshotsWhole'
  <2> DEFINE m == index[k]
             tail == m.size > (IF m.head # None THEN head_len(m.size) ELSE 0)
             s == [key |-> k, size |-> m.size, etag |-> m.etag, ver |-> m.ver,
                   pin |-> m.head, pinned |-> m.head # None, pos |-> from,
                   fds |-> [f \in Files |-> IF tail /\ f \in FilesOf(m.size)
                                            THEN live[k][f] ELSE None],
                   phase |-> "head", served |-> {}]
  <2>1. reader' = [reader EXCEPT ![r] = s]
    BY <1>3 DEF open_snapshot
  <2>2. m.size \in Nat /\ head_len(m.size) \in Nat
    BY <1>3, TierSizesValid DEF TypeOK, Meta, head_len, Lesser
  <2>3. ASSUME s.pinned, head_len(s.size) < s.size, NEW f \in FilesOf(s.size)
        PROVE  s.fds[f] = s.ver
    <3>1. tail /\ f \in Files
      BY <2>2, <2>3, FilesOfType
    <3>2. live[k][f] = m.ver
      BY <1>3, <2>3 DEF LiveFilesCurrent
    <3>. QED BY <2>3, <3>1, <3>2
  <2>4. /\ s.pinned = (s.pin # None) /\ s.phase = "head" /\ s.served = {}
    OBVIOUS
  <2>5. SnapshotWhole(s)
    <3> HIDE DEF s
    <3>. QED BY <2>3, <2>4 DEF SnapshotWhole
  <2>. QED BY <1>2, <2>1, <2>5
<1>4. ASSUME NEW r \in Readers, SendHead(r) PROVE SnapshotsWhole'
  <2> DEFINE s == reader[r]
             covered == s.pin # None /\ s.pos < head_len(s.size)
             t == [s EXCEPT !.phase = "tail", !.pin = None,
                            !.pos = IF covered THEN head_len(s.size) ELSE @,
                            !.served = IF covered THEN @ \cup {ramData[s.pin]} ELSE @]
  <2>1. reader' = [reader EXCEPT ![r] = t]
    BY <1>4 DEF SendHead
  <2>2. s \in Snapshot /\ s # None /\ s.phase = "head" /\ SnapshotWhole(s)
    BY <1>4 DEF SendHead, TypeOK, SnapshotsWhole
  <2>3. head_len(s.size) \in Nat /\ s.pos \in Nat
    BY <2>2, HeadLenType DEF Snapshot
  <2>4. /\ t.pinned = s.pinned /\ t.phase = "tail" /\ t.size = s.size /\ t.fds = s.fds
        /\ t.ver = s.ver
        /\ t.pos = IF covered THEN head_len(s.size) ELSE s.pos
        /\ t.served = IF covered THEN s.served \cup {ramData[s.pin]} ELSE s.served
    BY <2>2 DEF Snapshot
  <2>5. covered => ramData[s.pin] = s.ver
    BY <2>2 DEF PinnedHeadIntact
  <2>6. SnapshotWhole(t)
    <3>1. s.pinned => head_len(s.size) <= t.pos
      BY <2>2, <2>3, <2>4 DEF SnapshotWhole
    <3> HIDE DEF t
    <3>. QED BY <2>2, <2>4, <2>5, <3>1 DEF SnapshotWhole
  <2>. QED BY <1>2, <2>1, <2>6
<1>5. ASSUME NEW r \in Readers, plan(r) PROVE SnapshotsWhole'
  <2> DEFINE s == reader[r]
             want == Lesser(IoChunk, s.size - s.pos)
             t == [s EXCEPT !.pos = @ + want, !.served = @ \cup PlanVersions(s, want)]
  <2>1. reader' = [reader EXCEPT ![r] = t]
    BY <1>5 DEF plan
  <2>2. /\ s \in Snapshot /\ s # None /\ s.phase = "tail" /\ s.pos < s.size
        /\ SnapshotWhole(s)
    BY <1>5 DEF plan, TypeOK, SnapshotsWhole
  <2>3. want \in Nat /\ s.pos \in Nat /\ s.size \in Nat /\ head_len(s.size) \in Nat
    <3>1. s.pos \in Nat /\ s.size \in Nat
      BY <2>2 DEF Snapshot
    <3>2. IoChunk \in Nat /\ s.size - s.pos \in Nat
      BY <2>2, <3>1, StoreConfig
    <3>. QED BY <3>1, <3>2, LesserType, HeadLenType
  <2>4. /\ t.pinned = s.pinned /\ t.phase = "tail" /\ t.size = s.size /\ t.fds = s.fds
        /\ t.ver = s.ver /\ t.pos = s.pos + want
        /\ t.served = s.served \cup PlanVersions(s, want)
    BY <2>2 DEF Snapshot
  <2>5. s.pinned => PlanVersions(s, want) \subseteq {s.ver}
    BY <2>2, PlanWhole
  <2>6. SnapshotWhole(t)
    <3> HIDE DEF t, want
    <3>1. s.pinned => head_len(s.size) <= s.pos
      BY <2>2 DEF SnapshotWhole
    <3>2. s.pinned => head_len(s.size) <= t.pos
      BY <2>3, <2>4, <3>1
    <3>. QED BY <2>2, <2>4, <2>5, <3>2 DEF SnapshotWhole
  <2>. QED BY <1>2, <2>1, <2>6
<1>6. ASSUME NEW r \in Readers, CloseSnapshot(r) PROVE SnapshotsWhole'
  BY <1>2, <1>6 DEF CloseSnapshot, SnapshotWhole
<1>7. ASSUME NEW r \in Readers, ReadStep(r) PROVE SnapshotsWhole'
  BY <1>3, <1>4, <1>5, <1>6, <1>7 DEF ReadStep
<1>8. ASSUME NEW w \in Writers, StoreStep(w) PROVE SnapshotsWhole'
  <2>1. reader' = reader
    BY <1>8 DEF StoreStep, BeginStoreOpenFails, BeginStoreNoStage, BeginStoreNoRam, BeginStore,
                write, abort_uncommitted, CommitCasMismatch, CommitPublishFails, Commit
  <2>. QED BY <1>1, <2>1
<1>9. ASSUME NEW k \in Keys, KeyStep(k) PROVE SnapshotsWhole'
  BY <1>1, <1>9 DEF KeyStep, remove, ReapRemove, touch_ttl
<1>10. ASSUME ReapScan \/ Tick \/ UNCHANGED vars PROVE SnapshotsWhole'
  BY <1>1, <1>10 DEF ReapScan, Tick, vars
<1>. QED BY <1>7, <1>8, <1>9, <1>10 DEF Next

----------------------------------------------------------------------------
\* A new store has no file to name and no reader.
LEMMA ReadInit == Init => LiveFilesCurrent /\ SnapshotsWhole
BY DEF Init, LiveFilesCurrent, SnapshotsWhole, SnapshotWhole

\* As long as no rename fails, every file that the layout of an indexed object
\* names holds the version the index has: commit renames them all before it
\* publishes, and eviction and removal touch no other object's files.
THEOREM FilesStayCurrent ==
    ASSUME NoRenameFails
    PROVE  Spec => []LiveFilesCurrent
<1>1. LiveFilesCurrent /\ TypeOK /\ [Next]_vars => LiveFilesCurrent'
  BY FilesStep
<1>. QED BY <1>1, ReadInit, TypeCorrect, PTL DEF Spec

\* As long as no rename fails, a read whose head was pinned by open_snapshot
\* delivers bytes of one version only, whatever is stored, evicted, expired or
\* removed while it streams, and however its pieces are cut.
THEOREM PinnedReadsAreWhole ==
    ASSUME NoRenameFails
    PROVE  Spec => []PinnedReadConsistent
<1>1. TypeOK /\ LiveFilesCurrent /\ PinnedHeadIntact /\ SnapshotsWhole /\ [Next]_vars
      => SnapshotsWhole'
  BY ReadStepWhole
<1>2. SnapshotsWhole => PinnedReadConsistent
  BY DEF SnapshotsWhole, SnapshotWhole, PinnedReadConsistent
<1>. QED BY <1>1, <1>2, ReadInit, TypeCorrect, FilesStayCurrent, PinnedHeadSafety, PTL DEF Spec
=============================================================================
