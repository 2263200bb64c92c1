---------------------------- MODULE TierManager ----------------------------
(***************************************************************************)
(* The object store of storage/tier_manager.cpp: the index, the RAM head   *)
(* pool with its pins, the two eviction policies, the staging buffers, the *)
(* per-object files, copy-on-write stores and snapshot reads.              *)
(*                                                                         *)
(* Everything a function does while it holds mu_ is one step.  Work done   *)
(* without the lock is a step of its own where another thread can see it.  *)
(* Contents are abstracted to the store that produced them: store number v *)
(* writes version v, and a head region, a scratch file or a live file      *)
(* holds a version.  The order in which a policy picks victims is left     *)
(* open here; module S3Fifo gives it.                                      *)
(***************************************************************************)
EXTENDS Layout, DrivePool, Integers, FiniteSets

CONSTANTS
    Keys,          \* key digests
    Regions,       \* head regions of the RAM pool
    Writers,       \* threads that store objects
    Readers,       \* connections that stream objects
    None,          \* absent meta data, head, handle or file
    Sizes,         \* object sizes a client may store
    Ttls,          \* TTLs a client may ask for; 0 = never, < 0 = already past
    IoChunk,       \* blocks a read buffer holds (io_chunk)
    SsdDrives,     \* drives in the SSD pool, of one stripe unit per block
    HddDrives,     \* drives in the HDD pool
    MaxObjects,    \* max_objects_; 0 = unbounded
    WriteBuffers,  \* staging buffers in write_pool_
    MaxStores,     \* bound: stores begun
    MaxTime,       \* bound: clock ticks
    IoFaults       \* which file-system calls may fail: "open", "rename"

ASSUME StoreConfig ==
    /\ IsFiniteSet(Readers)
    /\ Sizes \subseteq Nat
    /\ Ttls \subseteq Int
    /\ IoChunk \in Nat \ {0}
    /\ SsdDrives \in Nat /\ HddDrives \in Nat
    /\ MaxObjects \in Nat
    /\ WriteBuffers \in Nat \ {0}
    /\ MaxStores \in Nat /\ MaxTime \in Nat
    /\ IoFaults \subseteq {"open", "rename"}

\* Digests have a fixed width and the server a fixed number of threads.
ASSUME FiniteStore == IsFiniteSet(Keys) /\ IsFiniteSet(Writers)

\* One file per drive that holds data, numbered from the key's first drive.
Files == ({"ssd"} \X (0..(SsdDrives - 1))) \cup ({"hdd"} \X (0..(HddDrives - 1)))

FilesOf(size) ==
    ({"ssd"} \X {c \in 0..(SsdDrives - 1) : c < files_used(SsdDrives, 1, SsdBytes(size))})
    \cup
    ({"hdd"} \X {c \in 0..(HddDrives - 1) : c < files_used(HddDrives, 1, HddBytes(size))})

\* The files of an object are opened and renamed SSD first, then by drive.
Before(f, g) ==
    \/ f[1] = "ssd" /\ g[1] = "hdd"
    \/ f[1] = g[1] /\ f[2] < g[2]

Version == Nat

Meta == [size: Nat, expiry: Nat, etag: Nat, head: Regions \cup {None}, ver: Version]

Handle == [key: Keys, size: Nat, ver: Version, head: Regions \cup {None},
           off: Nat, cas: Nat, basis: Version \cup {None}]

Snapshot == [key: Keys, size: Nat, etag: Nat, ver: Version,
             pin: Regions \cup {None}, pinned: BOOLEAN, pos: Nat,
             fds: [Files -> Version \cup {None}],
             phase: {"head", "tail"}, served: SUBSET (Version \cup {None})]

ASSUME NoneIsApart ==
    /\ None \notin Regions
    /\ None \notin Version
    /\ None \notin Meta
    /\ None \notin Handle
    /\ None \notin Snapshot

VARIABLES
    index,         \* the published objects
    ramFree,       \* regions the RAM pool can hand out
    ramData,       \* the version last written into each region
    pins,          \* pins_: readers sending from a region, and whether it
                   \* must be freed by the last of them
    policy,        \* keys tracked by policy_ (resident heads)
    objectPolicy,  \* keys tracked by object_policy_ (whole objects)
    stageFree,     \* staging buffers left in write_pool_
    live,          \* the version in each live file of each key
    scratch,       \* scratch files: <<version, file>>
    handle,        \* the open StoreHandle of each writer
    reader,        \* the open Snapshot of each reader
    storeSeq, etagSeq, anyTtl,
    reaping,       \* keys reap_expired() collected and has yet to remove
    now

vars == <<index, ramFree, ramData, pins, policy, objectPolicy, stageFree, live,
          scratch, handle, reader, storeSeq, etagSeq, anyTtl, reaping, now>>

is_expired(m) == m.expiry # 0 /\ m.expiry <= now

Resident(ix, k) == ix[k] # None /\ ix[k].head # None

\* The head regions of the keys in S under index ix.
HeadsOf(ix, S) == {ix[k].head : k \in {j \in S : Resident(ix, j)}}

Present(ix) == {k \in Keys : ix[k] # None}

----------------------------------------------------------------------------
Init ==
    /\ index = [k \in Keys |-> None]
    /\ ramFree = Regions
    /\ ramData = [r \in Regions |-> None]
    /\ pins = [r \in Regions |-> [refcount |-> 0, orphaned |-> FALSE]]
    /\ policy = {}
    /\ objectPolicy = {}
    /\ stageFree = WriteBuffers
    /\ live = [k \in Keys |-> [f \in Files |-> None]]
    /\ scratch = {}
    /\ handle = [w \in Writers |-> None]
    /\ reader = [r \in Readers |-> None]
    /\ storeSeq = 0
    /\ etagSeq = 0
    /\ anyTtl = FALSE
    /\ reaping = {}
    /\ now = 1

----------------------------------------------------------------------------
(* free_head_region for every region of R: a pinned region is orphaned, to *)
(* be freed by the last unpin; any other goes back to the pool.            *)

FreedIgnoringPins(R) == R

Freed(R) == {r \in R : pins[r].refcount = 0}

OrphanNone(R) == pins

Orphan(R) == [r \in Regions |-> IF r \in R /\ pins[r].refcount > 0
                                THEN [pins[r] EXCEPT !.orphaned = TRUE]
                                ELSE pins[r]]

free_head_region(R) ==
    /\ ramFree' = ramFree \cup Freed(R)
    /\ pins' = Orphan(R)

\* drop_object for every key of V: the index without V, and the files left
\* after unlinking those the dropped objects' layouts name.
DropIndex(ix, V) == [k \in Keys |-> IF k \in V THEN None ELSE ix[k]]

DropFiles(ix, lv, V) ==
    [k \in Keys |-> [f \in Files |->
        IF k \in V /\ ix[k] # None /\ f \in FilesOf(ix[k].size) THEN None
        ELSE lv[k][f]]]

\* enforce_object_bound that stops one object early.
BoundVictimsOffByOne(ix, tracked) ==
    IF MaxObjects # 0 /\ Cardinality(Present(ix)) > MaxObjects + 1
    THEN {{k} : k \in tracked} ELSE {{}}

\* The victim sets enforce_object_bound may settle on.
BoundVictims(ix, tracked) ==
    LET n == Cardinality(Present(ix))
    IN IF MaxObjects # 0 /\ n > MaxObjects
       THEN {V \in SUBSET tracked :
                Cardinality(V) = Lesser(n - MaxObjects, Cardinality(tracked))}
       ELSE {{}}

----------------------------------------------------------------------------
(* begin_store.  It opens scratch files, takes a staging buffer and        *)
(* reserves a head region.  Opening touches no shared state, so it is      *)
(* merged with the locked section that follows.                            *)

head_len(size) == Lesser(size, RamHead)

NextVersion == storeSeq + 1

HasStageUnchecked == TRUE

HasStage == stageFree > 0

\* Evicting the heads of V: a RAM-only victim leaves the index with its
\* head, a disk-backed one stays and is served from disk.
EvictedObjects(V) == {k \in V : Resident(index, k) /\ RamOnly(index[k].size)}

EvictedIndex(V) ==
    [k \in Keys |-> IF k \in EvictedObjects(V) THEN None
                    ELSE IF k \in V /\ Resident(index, k)
                    THEN [index[k] EXCEPT !.head = None]
                    ELSE index[k]]

Available(V) == ramFree \cup Freed(HeadsOf(index, V))

\* The loop evicts until an allocation succeeds or the policy is empty.  A
\* fragmented pool may refuse a request while a region is free, but never
\* when every region is: config validation keeps ram_head <= block_bytes.
CanTake(V, size, head) ==
    IF head_len(size) = 0
    THEN V = {} /\ head = None
    ELSE \/ head \in Available(V)
         \/ head = None /\ V = policy /\ Available(V) # Regions

EvictForgettingObjects(V, taken) ==
    /\ ramFree' = Available(V) \ taken
    /\ pins' = Orphan(HeadsOf(index, V))
    /\ index' = EvictedIndex(V)
    /\ policy' = policy \ V
    /\ objectPolicy' = objectPolicy

Evict(V, taken) ==
    /\ ramFree' = Available(V) \ taken
    /\ pins' = Orphan(HeadsOf(index, V))
    /\ index' = EvictedIndex(V)
    /\ policy' = policy \ V
    /\ objectPolicy' = objectPolicy \ EvictedObjects(V)

\* A scratch file cannot be created: the ones opened before it stay behind.
BeginStoreOpenFails(w, k, size) ==
    /\ "open" \in IoFaults
    /\ handle[w] = None
    /\ storeSeq < MaxStores
    /\ storeSeq' = NextVersion
    /\ \E g \in FilesOf(size) :
          scratch' = scratch \cup ({NextVersion} \X {f \in FilesOf(size) : Before(f, g)})
    /\ UNCHANGED <<index, ramFree, ramData, pins, policy, objectPolicy, stageFree,
                   live, handle, reader, etagSeq, anyTtl, reaping, now>>

\* No staging buffer: the scratch files are unlinked again (would_block).
BeginStoreNoStage(w, k, size) ==
    /\ handle[w] = None
    /\ storeSeq < MaxStores
    /\ ~HasStage
    /\ storeSeq' = NextVersion
    /\ UNCHANGED <<index, ramFree, ramData, pins, policy, objectPolicy, stageFree,
                   live, scratch, handle, reader, etagSeq, anyTtl, reaping, now>>

\* A RAM-only object that gets no region has nowhere to live (would_block);
\* the heads evicted on the way stay evicted.
BeginStoreNoRam(w, k, size) ==
    /\ handle[w] = None
    /\ storeSeq < MaxStores
    /\ HasStage
    /\ RamOnly(size) /\ head_len(size) > 0
    /\ CanTake(policy, size, None)
    /\ Evict(policy, {})
    /\ storeSeq' = NextVersion
    /\ UNCHANGED <<ramData, stageFree, live, scratch, handle, reader, etagSeq, anyTtl,
                   reaping, now>>

\* cas is the unique the client read with gets (0 for a plain store), and
\* basis the version it read it from.
BeginStore(w, k, size, cas) ==
    /\ handle[w] = None
    /\ storeSeq < MaxStores
    /\ HasStage
    /\ \E V \in SUBSET policy, head \in Regions \cup {None} :
          /\ CanTake(V, size, head)
          /\ ~(RamOnly(size) /\ head_len(size) > 0 /\ head = None)
          /\ Evict(V, {head})
          /\ handle' = [handle EXCEPT ![w] =
                [key |-> k, size |-> size, ver |-> NextVersion, head |-> head, off |-> 0,
                 cas |-> cas,
                 basis |-> IF cas = 0 THEN None ELSE index[k].ver]]
    /\ stageFree' = stageFree - 1
    /\ scratch' = scratch \cup ({NextVersion} \X FilesOf(size))
    /\ storeSeq' = NextVersion
    /\ UNCHANGED <<ramData, live, reader, etagSeq, anyTtl, reaping, now>>

----------------------------------------------------------------------------
(* StoreHandle.                                                            *)

\* write appends n blocks.  The handle's region is its own, and its scratch
\* files are named after its version.
write(w, n) ==
    /\ handle[w] # None
    /\ handle[w].off + n <= handle[w].size
    /\ handle' = [handle EXCEPT ![w].off = @ + n]
    /\ ramData' = IF handle[w].head # None /\ handle[w].off < head_len(handle[w].size)
                  THEN [ramData EXCEPT ![handle[w].head] = handle[w].ver]
                  ELSE ramData
    /\ UNCHANGED <<index, ramFree, pins, policy, objectPolicy, stageFree, live, scratch,
                   reader, storeSeq, etagSeq, anyTtl, reaping, now>>

AbortKeepingFiles(w) ==
    /\ handle' = [handle EXCEPT ![w] = None]
    /\ ramFree' = ramFree \cup ({handle[w].head} \ {None})
    /\ stageFree' = stageFree + 1
    /\ scratch' = scratch

\* abort_uncommitted: free the region and the staging buffer, unlink the
\* scratch files that are left.
Abort(w) ==
    /\ handle' = [handle EXCEPT ![w] = None]
    /\ ramFree' = ramFree \cup ({handle[w].head} \ {None})
    /\ stageFree' = stageFree + 1
    /\ scratch' = scratch \ ({handle[w].ver} \X FilesOf(handle[w].size))

\* The handle is destroyed before it commits: the client went away, sent a
\* bad body, or a disk write failed.
abort_uncommitted(w) ==
    /\ handle[w] # None
    /\ Abort(w)
    /\ UNCHANGED <<index, ramData, pins, policy, objectPolicy, live, reader, storeSeq,
                   etagSeq, anyTtl, reaping, now>>

CompleteUnchecked(w) == handle[w] # None

Complete(w) == handle[w] # None /\ handle[w].off = handle[w].size

CasHoldsIfPresent(w) ==
    handle[w].cas = 0 \/ index[handle[w].key] # None

CasHolds(w) ==
    LET old == index[handle[w].key]
    IN \/ handle[w].cas = 0
       \/ old # None /\ ~is_expired(old) /\ old.etag = handle[w].cas

\* commit refuses a compare-and-swap whose object changed; the handle then
\* aborts.
CommitCasMismatch(w) ==
    /\ Complete(w)
    /\ ~CasHolds(w)
    /\ Abort(w)
    /\ UNCHANGED <<index, ramData, pins, policy, objectPolicy, live, reader, storeSeq,
                   etagSeq, anyTtl, reaping, now>>

RenamedSsdOnly(w, F) ==
    [live EXCEPT ![handle[w].key] =
        [f \in Files |-> IF f \in F /\ f[1] = "ssd" THEN handle[w].ver ELSE @[f]]]

\* The live files of every key once the files F of w's object are renamed.
Renamed(w, F) ==
    [live EXCEPT ![handle[w].key] =
        [f \in Files |-> IF f \in F THEN handle[w].ver ELSE @[f]]]

\* A rename fails after earlier files were renamed; commit returns the error
\* and the handle aborts.
CommitPublishFails(w) ==
    /\ "rename" \in IoFaults
    /\ Complete(w)
    /\ CasHolds(w)
    /\ \E g \in FilesOf(handle[w].size) :
          live' = Renamed(w, {f \in FilesOf(handle[w].size) : Before(f, g)})
    /\ Abort(w)
    /\ UNCHANGED <<index, ramData, pins, policy, objectPolicy, reader, storeSeq, etagSeq,
                   anyTtl, reaping, now>>

\* The absolute expiries a request can carry.
Expiries == {IF ttl = 0 THEN 0 ELSE IF ttl < 0 THEN 1 ELSE now + ttl : ttl \in Ttls}

PublishedKeepingEtag(w, expiry) ==
    [size |-> handle[w].size, expiry |-> expiry,
     etag |-> IF index[handle[w].key] # None THEN index[handle[w].key].etag ELSE etagSeq + 1,
     head |-> handle[w].head, ver |-> handle[w].ver]

\* The meta data commit publishes.
Published(w, expiry) ==
    [size |-> handle[w].size, expiry |-> expiry, etag |-> etagSeq + 1,
     head |-> handle[w].head, ver |-> handle[w].ver]

\* Publish: rename the files, retire the replaced head, set the index entry,
\* track it in the policies, then enforce the object bound.
Commit(w, expiry) ==
    /\ Complete(w)
    /\ CasHolds(w)
    /\ LET k == handle[w].key
           ix == [index EXCEPT ![k] = Published(w, expiry)]
           tracked == objectPolicy \cup (IF index[k] = None THEN {k} ELSE {})
           heads == (policy \ (IF Resident(index, k) THEN {k} ELSE {}))
                    \cup (IF handle[w].head # None THEN {k} ELSE {})
       IN \E V \in BoundVictims(ix, tracked) :
             /\ index' = DropIndex(ix, V)
             /\ live' = DropFiles(ix, Renamed(w, FilesOf(handle[w].size)), V)
             /\ policy' = heads \ V
             /\ objectPolicy' = tracked \ V
             /\ free_head_region(HeadsOf(index, {k}) \cup HeadsOf(ix, V))
    /\ scratch' = scratch \ ({handle[w].ver} \X FilesOf(handle[w].size))
    /\ etagSeq' = etagSeq + 1
    /\ anyTtl' = (anyTtl \/ expiry # 0)
    /\ stageFree' = stageFree + 1
    /\ handle' = [handle EXCEPT ![w] = None]
    /\ UNCHANGED <<ramData, reader, storeSeq, reaping, now>>

----------------------------------------------------------------------------
(* Removal, expiry and the reaper thread.                                  *)

drop_object(k) ==
    /\ index' = DropIndex(index, {k})
    /\ live' = DropFiles(index, live, {k})
    /\ policy' = policy \ {k}
    /\ objectPolicy' = objectPolicy \ {k}
    /\ free_head_region(HeadsOf(index, {k}))

remove(k) ==
    /\ index[k] # None
    /\ drop_object(k)
    /\ UNCHANGED <<ramData, stageFree, scratch, handle, reader, storeSeq, etagSeq, anyTtl,
                   reaping, now>>

expired_keys == {k \in Keys : index[k] # None /\ is_expired(index[k])}

\* reap_expired collects the expired keys under the index lock only ...
ReapScan ==
    /\ anyTtl
    /\ reaping = {}
    /\ reaping' = expired_keys
    /\ UNCHANGED <<index, ramFree, ramData, pins, policy, objectPolicy, stageFree, live,
                   scratch, handle, reader, storeSeq, etagSeq, anyTtl, now>>

\* ... and then removes them one by one, whatever the index holds by then.
ReapRemove(k) ==
    /\ k \in reaping
    /\ reaping' = reaping \ {k}
    /\ drop_object(k)
    /\ UNCHANGED <<ramData, stageFree, scratch, handle, reader, storeSeq, etagSeq, anyTtl,
                   now>>

touch_ttl(k, expiry) ==
    /\ index[k] # None
    /\ index' = [index EXCEPT ![k].expiry = expiry]
    /\ anyTtl' = (anyTtl \/ expiry # 0)
    /\ UNCHANGED <<ramFree, ramData, pins, policy, objectPolicy, stageFree, live, scratch,
                   handle, reader, storeSeq, etagSeq, reaping, now>>

Tick ==
    /\ now < MaxTime
    /\ now' = now + 1
    /\ UNCHANGED <<index, ramFree, ramData, pins, policy, objectPolicy, stageFree, live,
                   scratch, handle, reader, storeSeq, etagSeq, anyTtl, reaping>>

----------------------------------------------------------------------------
(* Snapshot reads, as net/stream_loop.cpp drives them.                     *)

\* open_snapshot: meta data, open files and head pin under one lock.  The
\* read starts at block from (0, or the start of an HTTP range).
open_snapshot(r, k, from) ==
    /\ reader[r] = None
    /\ index[k] # None
    /\ ~is_expired(index[k])
    /\ LET m == index[k]
           tail == m.size > (IF m.head # None THEN head_len(m.size) ELSE 0)
       IN /\ from <= m.size
          /\ tail => \A f \in FilesOf(m.size) : live[k][f] # None
          /\ reader' = [reader EXCEPT ![r] =
                [key |-> k, size |-> m.size, etag |-> m.etag, ver |-> m.ver,
                 pin |-> m.head, pinned |-> m.head # None, pos |-> from,
                 fds |-> [f \in Files |-> IF tail /\ f \in FilesOf(m.size)
                                          THEN live[k][f] ELSE None],
                 phase |-> "head", served |-> {}]]
          /\ pins' = IF m.head # None
                     THEN [pins EXCEPT ![m.head].refcount = @ + 1]
                     ELSE pins
    /\ UNCHANGED <<index, ramFree, ramData, policy, objectPolicy, stageFree, live, scratch,
                   handle, storeSeq, etagSeq, anyTtl, reaping, now>>

unpin_head_erasing(p) ==
    IF p = None
    THEN UNCHANGED <<ramFree, pins>>
    ELSE /\ ramFree' = IF pins[p].orphaned THEN ramFree \cup {p} ELSE ramFree
         /\ pins' = [pins EXCEPT ![p] = [refcount |-> 0, orphaned |-> FALSE]]

\* unpin_head: the last reader of an orphaned region frees it.
unpin_head(p) ==
    IF p = None \/ pins[p].refcount = 0
    THEN UNCHANGED <<ramFree, pins>>
    ELSE IF pins[p].refcount = 1
    THEN /\ ramFree' = IF pins[p].orphaned THEN ramFree \cup {p} ELSE ramFree
         /\ pins' = [pins EXCEPT ![p] = [refcount |-> 0, orphaned |-> FALSE]]
    ELSE /\ ramFree' = ramFree
         /\ pins' = [pins EXCEPT ![p].refcount = @ - 1]

\* The part of the request the pinned head covers is sent straight from the
\* region; then the pin is dropped and the disk tail follows.
SendHead(r) ==
    /\ reader[r] # None
    /\ reader[r].phase = "head"
    /\ LET s == reader[r]
           covered == s.pin # None /\ s.pos < head_len(s.size)
       IN /\ reader' = [reader EXCEPT ![r] =
                [s EXCEPT !.phase = "tail", !.pin = None,
                          !.pos = IF covered THEN head_len(s.size) ELSE @,
                          !.served = IF covered THEN @ \cup {ramData[s.pin]} ELSE @]]
          /\ unpin_head(s.pin)
    /\ UNCHANGED <<index, ramData, policy, objectPolicy, stageFree, live, scratch, handle,
                   storeSeq, etagSeq, anyTtl, reaping, now>>

\* The file that holds block b of an object of the given size.
FileAt(b, size) ==
    LET p == place(b, compute_layout(size))
    IN <<p.tier, p.local % (IF p.tier = "ssd" THEN SsdDrives ELSE HddDrives)>>

PlanVersionsReopening(s, want) ==
    {live[s.key][FileAt(b, s.size)] : b \in s.pos .. (s.pos + want - 1)}

\* What ReadStream::plan delivers for the next blocks: the part below the
\* head length of whatever head the key has NOW comes from that head, the
\* rest from the files the snapshot opened.
PlanVersions(s, want) ==
    LET m == index[s.key]
        ram_end == IF Resident(index, s.key) THEN head_len(m.size) ELSE 0
        piece == s.pos .. (s.pos + want - 1)
    IN {ramData[m.head] : b \in {c \in piece : c < ram_end}}
       \cup {s.fds[f] : f \in {g \in Files : \E b \in piece : b >= ram_end /\ FileAt(b, s.size) = g}}

plan(r) ==
    /\ reader[r] # None
    /\ reader[r].phase = "tail"
    /\ reader[r].pos < reader[r].size
    /\ LET s == reader[r]
           want == Lesser(IoChunk, s.size - s.pos)
       IN reader' = [reader EXCEPT ![r] =
                        [s EXCEPT !.pos = @ + want,
                                  !.served = @ \cup PlanVersions(s, want)]]
    /\ UNCHANGED <<index, ramFree, ramData, pins, policy, objectPolicy, stageFree, live,
                   scratch, handle, storeSeq, etagSeq, anyTtl, reaping, now>>

\* The read is over: all sent, the range ended, or the connection closed.
CloseSnapshot(r) ==
    /\ reader[r] # None
    /\ reader' = [reader EXCEPT ![r] = None]
    /\ unpin_head(reader[r].pin)
    /\ UNCHANGED <<index, ramData, policy, objectPolicy, stageFree, live, scratch, handle,
                   storeSeq, etagSeq, anyTtl, reaping, now>>

----------------------------------------------------------------------------
ClientCas(k) == {0} \cup (IF index[k] # None THEN {index[k].etag} ELSE {})

StoreStep(w) ==
    \/ \E k \in Keys, size \in Sizes :
          \/ BeginStoreOpenFails(w, k, size)
          \/ BeginStoreNoStage(w, k, size)
          \/ BeginStoreNoRam(w, k, size)
          \/ \E cas \in ClientCas(k) : BeginStore(w, k, size, cas)
    \/ handle[w] # None /\ \E n \in 1..handle[w].size : write(w, n)
    \/ abort_uncommitted(w)
    \/ CommitCasMismatch(w)
    \/ CommitPublishFails(w)
    \/ \E expiry \in Expiries : Commit(w, expiry)

KeyStep(k) ==
    \/ remove(k)
    \/ ReapRemove(k)
    \/ \E expiry \in Expiries : touch_ttl(k, expiry)

ReadStep(r) ==
    \/ \E k \in Keys :
          index[k] # None /\ \E from \in 0..index[k].size : open_snapshot(r, k, from)
    \/ SendHead(r)
    \/ plan(r)
    \/ CloseSnapshot(r)

Next ==
    \/ \E w \in Writers : StoreStep(w)
    \/ \E k \in Keys : KeyStep(k)
    \/ \E r \in Readers : ReadStep(r)
    \/ ReapScan
    \/ Tick

Spec == Init /\ [][Next]_vars

----------------------------------------------------------------------------
(* Properties.                                                             *)

\* Every variable stays in its type.
TypeOK ==
    /\ index \in [Keys -> Meta \cup {None}]
    /\ ramFree \subseteq Regions
    /\ ramData \in [Regions -> Version \cup {None}]
    /\ pins \in [Regions -> [refcount: Nat, orphaned: BOOLEAN]]
    /\ policy \subseteq Keys
    /\ objectPolicy \subseteq Keys
    /\ stageFree \in Nat
    /\ live \in [Keys -> [Files -> Version \cup {None}]]
    /\ scratch \subseteq Version \X Files
    /\ handle \in [Writers -> Handle \cup {None}]
    /\ reader \in [Readers -> Snapshot \cup {None}]
    /\ storeSeq \in Nat /\ etagSeq \in Nat /\ now \in Nat
    /\ anyTtl \in BOOLEAN
    /\ reaping \subseteq Keys

HeldByIndex(k, r) == index[k] # None /\ index[k].head = r

HeldByHandle(w, r) == handle[w] # None /\ handle[w].head = r

PinnedBy(x, r) == reader[x] # None /\ reader[x].pin = r

Pinners(r) == {x \in Readers : PinnedBy(x, r)}

\* A region of the RAM pool never has two owners: it is free, the head of one
\* indexed object, the reservation of one open store, or an orphan waiting
\* for its readers.  A double free or a free of a pinned head breaks this.
RegionsExclusive ==
    \A r \in Regions :
        /\ r \in ramFree => ~pins[r].orphaned /\ pins[r].refcount = 0
        /\ r \in ramFree \/ pins[r].orphaned =>
              /\ \A k \in Keys : ~HeldByIndex(k, r)
              /\ \A w \in Writers : ~HeldByHandle(w, r)
        /\ \A k, j \in Keys : HeldByIndex(k, r) /\ HeldByIndex(j, r) => k = j
        /\ \A w, v \in Writers : HeldByHandle(w, r) /\ HeldByHandle(v, r) => w = v
        /\ \A k \in Keys, w \in Writers : ~(HeldByIndex(k, r) /\ HeldByHandle(w, r))

\* No region leaks: one that is not free has an owner, and an orphan still
\* has a reader that will free it.
NoRegionLeak ==
    \A r \in Regions :
        \/ r \in ramFree
        \/ pins[r].orphaned /\ pins[r].refcount > 0
        \/ \E k \in Keys : HeldByIndex(k, r)
        \/ \E w \in Writers : HeldByHandle(w, r)

\* pins_ counts exactly the readers that will still call unpin_head.
PinsCounted == \A r \in Regions : pins[r].refcount = Cardinality(Pinners(r))

\* The bytes under a pin do not change while a zero-copy send may read them:
\* neither eviction, replacement, removal nor the reuse of freed regions
\* reaches a pinned head.
PinnedHeadIntact ==
    \A x \in Readers : reader[x] # None /\ reader[x].pin # None =>
        ramData[reader[x].pin] = reader[x].ver

\* A read whose head was pinned by its snapshot delivers bytes of one version
\* only, whatever is stored, evicted or removed while it streams.
PinnedReadConsistent ==
    \A x \in Readers : reader[x] # None /\ reader[x].pinned =>
        reader[x].served \subseteq {reader[x].ver}

\* An indexed head holds the bytes of the version the index names.
HeadsCurrent ==
    \A k \in Keys : Resident(index, k) => ramData[index[k].head] = index[k].ver

\* Both eviction policies track exactly what they are meant to evict: the
\* head policy the resident heads, the object policy the indexed objects.
\* A key missing from its policy could never be evicted again.  And evicting a
\* head leaves no object behind that has no other copy to serve.
PoliciesExact ==
    /\ policy = {k \in Keys : Resident(index, k)}
    /\ objectPolicy = Present(index)
    /\ \A k \in Present(index) :
          RamOnly(index[k].size) /\ index[k].size > 0 => index[k].head # None

\* The object-count bound holds whenever the lock is free, and every open store
\* holds one staging buffer: none is lost on the ways a store can end.
LimitsKept ==
    /\ MaxObjects # 0 => Cardinality(Present(index)) <= MaxObjects
    /\ stageFree + Cardinality({w \in Writers : handle[w] # None}) = WriteBuffers

\* Every file the layout of an indexed object names holds the indexed version.
LiveFilesCurrent ==
    \A k \in Keys : index[k] # None =>
        \A f \in FilesOf(index[k].size) : live[k][f] = index[k].ver

\* Scratch files exist exactly for the stores in progress, so a failed upload
\* leaves none behind (ADR-0010, atomic publish).
ScratchOwned ==
    scratch = UNION {{handle[w].ver} \X FilesOf(handle[w].size) :
                        w \in {v \in Writers : handle[v] # None}}

\* Equal entity tags mean equal content, for the index and every read in
\* progress: what HTTP caches and memcache cas rely on.
EtagIdentifies ==
    LET seen == {[etag |-> index[k].etag, ver |-> index[k].ver] : k \in Present(index)}
                \cup {[etag |-> reader[x].etag, ver |-> reader[x].ver] :
                         x \in {y \in Readers : reader[y] # None}}
    IN \A a, b \in seen : a.etag = b.etag <=> a.ver = b.ver

\* A compare-and-swap store replaces the very version its client read.
CasReplacesBasis ==
    [][\A w \in Writers :
          handle[w] # None /\ handle[w].cas # 0 /\ etagSeq' # etagSeq /\ handle'[w] = None
          => LET old == index[handle[w].key]
             IN old # None /\ old.ver = handle[w].basis]_vars

Client == INSTANCE Cache WITH
    content <- [k \in Keys |-> IF index[k] = None THEN None ELSE index[k].etag],
    last <- etagSeq

\* The store implements the abstract cache: what a key shows changes only by
\* publishing fresh content or by losing content, each in one step.
ImplementsCache == Client!Spec

\* Only files named by an indexed object's layout exist ("Delete = unlink the
\* files", ADR-0009; eviction reclaims RAM, SSD and HDD together, ADR-0003).
NoStrayFiles ==
    \A k \in Keys, f \in Files :
        live[k][f] # None => index[k] # None /\ f \in FilesOf(index[k].size)

\* "captured under one lock so a concurrent copy-on-write replace can't split
\* head from body" (tier_manager.hpp): every read delivers one version only.
SnapshotConsistent ==
    \A x \in Readers : reader[x] # None => reader[x].served \subseteq {reader[x].ver}

\* reap_expired drops only objects whose TTL has passed.
ReapsOnlyExpired ==
    [][\A k \in Keys : k \in reaping /\ k \notin reaping' /\ index[k] # None
          => is_expired(index[k])]_vars

\* An expired object stays expired until it is stored again: to a client it
\* is absent.
ExpiredStaysExpired ==
    [][\A k \in Keys :
          /\ index[k] # None /\ is_expired(index[k])
          /\ index'[k] # None /\ index'[k].ver = index[k].ver
          => index'[k].expiry # 0 /\ index'[k].expiry <= now']_vars
=============================================================================
