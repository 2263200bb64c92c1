# A TLA+ model of goblin-store

goblin-store is a cache that keeps the head of every object in RAM, a prefix on
SSDs and the tail on hard disks, and serves it over memcache, HTTP and HTTPS.
These modules model its storage core, its event loop, its protocols and the life
of the process, check them with TLC on small instances, and prove the central
safety properties of the object store with TLAPS for every instance.

## The system

| Part | State | Operations | What makes it hard |
|---|---|---|---|
| Object store (`storage/tier_manager.cpp`) | index, RAM heads and their pins, two eviction policies, staging buffers, files | store (begin, write, commit, abort), remove, reap, touch, snapshot, plan, unpin | writers, readers and the reaper run on several threads; a head may be evicted while it is being sent; a store publishes several files |
| Index (`storage/index.cpp`) | sharded map from digest to meta data | lookup, set, erase, set_head, update_expiry, expired_keys | some callers use it without the store's lock |
| Layout and striping (`storage/layout.cpp`, `drive_pool.cpp`, `striped_io.cpp`) | none | where byte *b* of an object lives | block, stripe and tier boundaries; wrapping sums; completions without identity |
| Eviction (`storage/s3fifo.cpp`) | small, main and ghost queues | insert, touch, remove, evict | removed keys leave stale queue entries |
| RAM pool (`core/buffer_pool.cpp`) | buddy arenas over blocks | allocate, deallocate | splitting and coalescing |
| Event loop (`net/stream_loop.cpp`, `http/https_loop.cpp`) | connections, in-flight operations, two read lanes per GET, waiter queues | one handler per completion, waiter drains, stall sweep, graceful drain | completions in any order, closing with operations in flight, exhausted pools, handshakes |
| Memcache (`protocol/memcache`) | per-connection input, command in progress, replies | parse, admit, body, commit, get, delete, touch | pipelined requests cut anywhere, checks made before a body arrives, other connections in between |
| HTTP (`http/http_loop.cpp`, `request.cpp`, `key_derivation.cpp`) | per-connection request | GET, HEAD, ranges, conditions | boundaries of ranges, keys that two parties derive, pipelining |
| Process (`main.cpp`, `storage/pool_dir.cpp`, `http/source_loader.cpp`, `serve`) | pool directories, index, threads | prepare, wipe, open, preload, serve, stop | crashes at any point, other owners of a directory, threads to be joined |
| Hashing, statistics, options, benchmark | | | see "Not modelled" |

The event loops call the object store. The store calls the policies, the RAM
pool, the layout and the striping under its lock `mu_`. The reaper thread calls
`reap_expired`. A process serves memcache with event loops or with the older
blocking workers, and HTTP and HTTPS with event loops.

## Modules

**TierManager** models the object store. What a function does under `mu_` is one
step, because no other thread can see it half done. What it does outside the
lock is merged with that step if no other thread can tell (opening scratch files
with a fresh suffix), and is a step of its own otherwise (the reaper's scan
before its removals, each piece a read plans). Contents are abstracted to a
version, the number of the store that wrote them, so that a torn read is one
that served two versions. Sizes are in blocks. Which heads or objects a policy
evicts is left open, so the results hold for every policy. `begin_store` and
`commit` are split into one action per outcome:

| Action | Code |
|---|---|
| `BeginStoreOpenFails`, `BeginStoreNoStage`, `BeginStoreNoRam`, `BeginStore` | `begin_store` and its early returns |
| `write`, `abort_uncommitted` | `StoreHandle` |
| `CommitCasMismatch`, `CommitPublishFails`, `Commit` | `StoreHandle::commit`; an error is followed by the handle's destruction |
| `remove`, `ReapScan`, `ReapRemove`, `touch_ttl` | the same names, `reap_expired` |
| `open_snapshot`, `SendHead`, `plan`, `CloseSnapshot` | a GET as the event loop drives it |

**Cache** is the abstract specification of the store: a map from keys to
content in which a step publishes fresh content under one key, possibly losing
other entries, or loses entries. It is what a client may rely on, and it is an
abstraction, not a translation. TierManager implements it (`ImplementsCache`).

**Layout** and **DrivePool** hold the placement arithmetic as operators.
**DataPath** runs one object's bytes through staging, flushing, padding,
striped files, planning, rounded reads and completions in any order, in bytes.
**BlockingPath** adds the second way out: `stream_value`, `TierManager::read`
and `striped_read` of a blocking worker, which keeps its ring from one client to
the next.

**S3Fifo** models the eviction queues, stale entries included, and implements
**EvictionPolicy**, the contract of the interface. **BufferPool** models the
buddy allocator.

**StreamLoop** models one event loop that owns its pools, under memcache, HTTP
or HTTPS. The loop is one thread, so a handler is one step; it is written as an
operator from a loop state to the set of states it can lead to, so that handlers
compose as the calls do. What a parser finds in the input is left open, and so
is what OpenSSL answers. Values are counted in pieces of one lane. `pump_stream`
is recursive, so this module is for TLC only.

**MemcacheText** turns command lines into commands and exptimes into expiries.
**Memcache** serves connections with them, as `EventLoop::process` and
`handle_conn` do, over the abstract `Cache`, so that it rests on what the store
is proved to implement and not on how. Input arrives in any pieces. A step ends
where the thread lets go of the store, so that other connections act between an
admission and its commit, between a lookup and a removal, or between two bytes
of a value. Where such a byte comes from is taken from `plan` and from
`TierManager::read`: a pinned head and the files of a snapshot are one version,
but an event loop without a pin, and a blocking worker always, take what the key
has by then (`Sources`):

| Action | Code |
|---|---|
| `Recv`, `Flush`, `CloseOverlong` | input and output of `process` and `handle_conn` |
| `Answer`, `Delete`, `MetaDelete` and `RemoveFound`, `MetaTouch`, `Get`, `SendValue` | the commands that store nothing |
| `Admit`, `begin_store`, `Body`, `Refuse`, `Commit`, `NewCas` | a store from its line to its reply |
| `PeerGone`, `Lose`, `Tick` | the peer, eviction, the clock |

**HttpRequest** holds ranges and key derivation as operators over characters.
**Process** is the life of the process: path-prep, wipe, open, preload, serve,
threads, signals and crashes; its directories outlive it. A store is begun and
later committed or abandoned, so that a crash between leaves scratch files, and
a small value over a large one, or a failing open, leaves strays. A wipe removes
entry after entry; an entry that cannot be removed ends the start, while an
error of the walk itself ends only the walk (`WalkBreaksOff`). A blocking worker
tests the flag, polls and accepts in separate steps. **Http** adds a client of
the HTTP or HTTPS worker. The bytes of a body are those of the object found, but
within a head they may be of a later one, as in `plan`. Each behaviour of the two begins by choosing a
setup: options, what may fail, and what the client sends.

`MCTierManager`, `MCS3Fifo`, `MCStreamLoop`, `MCMemcache` and `MCHttp` add
symmetry sets, scripts and setups for TLC. `TierManagerTypes`,
`TierManagerRegions`, `TierManagerProofs`, `CacheProofs`, `PolicyProofs` and
`ReadProofs` hold the lemmas and theorems.

Operators such as `FreedIgnoringPins` or `AbortKeepingFiles` next to a
definition are faulty variants of it: each property is known to fail when the
variant takes the definition's place.

## Runs that pass

| Run | Instance | What it shows |
|---|---|---|
| StoreRace | two keys, two writers, one reader, fewer regions than heads wanted | regions have one owner and none leaks; heads and files are those of the indexed version; the policies track exactly what is resident, and a RAM-only object is indexed only with its head; scratch files belong to open stores; pinned bytes do not change, and a read that began with a pinned head is of one version |
| ObjectLimit | object bound and staging limit reached, two readers sharing heads, failing opens and renames | the bound holds and staging buffers are conserved (`LimitsKept`); pins count readers |
| Expiry | one key, two writers, TTLs, touches, reaper, compare-and-swap | entity tags identify content; compare-and-swap replaces what was read; the store implements Cache |
| Eviction | S3-FIFO | counts match the queues, residents can be found and the ghost is bounded (`QueuesConsistent`); the contract is implemented |
| HeadPool | buddy allocator | arenas are tiled; a request that fits some free buddy is served, and empty blocks return |
| GetStreams | memcache, two connections, two buffers | pieces go out in order, completions find their lane, buffers in use stay held, waiters are parked |
| HttpStreams | HTTP and HTTPS, with handshakes, polls, read errors, sweep and full queue | no buffer is lost; a socket never has two operations |
| Progress | two connections, one buffer, draining | parked GETs are served and idle connections end |
| Striping | three drives, three tiers, ranges that start at a block, failing reads of a blocking worker | every byte served is the byte stored, by either server |
| Memcache | two connections, pipelined classic and meta commands on one key, one staging buffer, both servers, failing opens, writes and publishes, peers that leave, eviction | no body is run as commands and no command is lost; replies match requests; a reply of success means published, and what is published is what was sent; a value has the length of its header, and each byte of it is in the content the header names or in a later one of the key; an object expires by the rule for zero, negative, relative and absolute TTLs, for TTLs that fit the width; compare-and-swap replaces only the content it names |
| Site | seven request scripts under three key options, plaintext and TLS; stores by memcache clients; start, crash, restart and shutdown with every failure | status, length and range of every reply and the positions of its body; a 304 is true of the bytes the client holds, also when they were read while the key was stored again; preloaded files are found at their addresses; a start is a blank slate but for a directory whose walk broke off; files of others survive; SIGTERM ends the process |

The TierManager runs and Site switch deadlock checking off, since the bounds on
stores, on the clock and on starts end their behaviours. The others check it.

### Bounds

`MaxStores` and `MaxTime` bound the store's counters. Three stores are enough
for an object, its replacement and a third store that reuses a freed region,
which is what a premature free needs to show. Regions are fewer than the stores
want, so that eviction happens. Sizes span RAM-only, SSD and HDD objects. In
StreamLoop two connections over one or two buffers are enough to park, to
compete and to use both lanes; `Pieces = 3` makes two lanes wrap. `Requests`
bounds the commands of one connection, but slots are reused by new ones. In
S3Fifo the capacity keeps the threshold `max(1, cap/10)` at 1; larger
thresholds are not explored. In BlockingPath `MaxGets = 2` lets a second value
meet what the first left on the ring.

In Memcache each client sends two or three requests; `Probed` names the one whose
input is cut everywhere and whose operations fail, so that the other's races are
explored against each of them. One staging buffer makes stores wait, and
`MaxLine = 4` lets a line be too long. In Process one worker of each kind stands
for all, one store is in progress at a time, and two starts are enough for what
a crash leaves behind. `RamHead = 1` makes objects of one byte live in RAM alone
and all others have a file in each directory.

### Fairness

`FairSpec` of StreamLoop assumes that the loop keeps turning (weak fairness of
`Tick`), that the kernel completes sends and disk reads (strong fairness, since
ticks disable them for a while; a peer that takes nothing is reset by the stall
sweep), and that a receive on a socket that `drain` shut down completes. Nothing
is assumed about what clients send. `ProcessFairness` assumes that the scheduler
runs the main thread and every thread of `serve`, that a drain ends (it is
bounded by `shutdown_grace_ms`, and what outlasts it is destroyed), that a
blocking worker's poll times out, that its command ends, and that the store of a
source file ends. It does not assume that a blocking worker's client leaves.

## Run that ends in a violation

TornRead checks a sentence of a comment against the code, and TLC finds a
behaviour that contradicts it: a GET whose head was not resident when its
snapshot was taken serves two versions when its key is stored again, because
`plan` copies from the head the key has now. `PROJECT.json` quotes the sentence.

### Known divergences

Other sentences the code does not keep. Each has its property in the module and
a configuration that makes TLC print the behaviour.

| Configuration, property | Says | Behaviour |
|---|---|---|
| LateCompletion, `CompletionsRouted` | stream_loop.hpp:82-83 "completions route by the read_lane / send_lane indices" | a read error releases both lanes while a send of one is in flight; its completion finds no lane |
| LateCompletion with `KernelBuffersHeld` | stream_loop.hpp:3-4 "a late completion can't touch freed memory" | a buffer is back in the pool while an operation uses it |
| UnalignedRange, `ServedExact` | stream_loop.cpp:258-260 "offsets are already 4 KiB-aligned" | a range that starts inside a device block makes the rounded reads of two drives overlap, and the later completion wins |
| ReapFresh, `ReapsOnlyExpired` | tier_manager.cpp:170 "Drop every object whose TTL has passed" | the reaper removes an object stored or touched after its scan |
| ReapFresh with `ExpiredStaysExpired` | event_loop.cpp:323 "an expired item counts as absent" | a touch revives an expired object |
| StrayFiles, `NoStrayFiles` | ADR-0003:24 "Whole-object eviction reclaims RAM + SSD + HDD together" | a smaller replacement leaves the files only the larger object used |
| PartialPublish, `LiveFilesCurrent` | ADR-0010:27 "never half-visible and never corrupt" | a rename that fails half way leaves mixed files under the old entry |
| ScratchLeft, `ScratchOwned` | ADR-0010:27 "its temp shards `unlink`ed" | a failing open leaves the scratch files opened before it |
| SecondChanceLost, `SecondChance` | s3fifo.cpp:90 "give accessed items a second chance" | a stale second entry evicts an accessed item in the call that cleared its mark |
| DanglingWaiter, `WaitersAreParked` | stream_loop.cpp:198 "parked conns have no in-flight op" | a swept connection handles a last receive, parks and is retired; HttpStreams, with one request per connection, does not reach it, but HTTP has it too |
| LostRetire, `ClosedRetires` | stream_loop.hpp:52 "freed once inflight hits 0" | a connection closed from a waiter drain, or by a handshake that fails inside `on_accept`, has nothing in flight and stays |
| SweepFresh, `SweepsIdleTransfers` | stream_loop.cpp:474 "whose in-flight transfer has gone idle" | a request is swept in the tick that gives it a buffer |
| Starvation, `ParkedGetResumes` | stream_loop.cpp:215-217 "always observed here. FIFO" | a parked GET waits forever while later ones are served |
| HashWrap, `ConsecutiveDrives` | drive_pool.hpp:6 "consecutive chunks -> consecutive drives" | not around the wrap of the 64-bit sum, where a chunk goes to a drive on which the object has no file (`FilesSuffice`) |
| AddRace, `AddOnlyIfAbsent` | event_loop.cpp:329 "add: only if absent" | an add replaces what another connection stored while its body came in |
| AddRace with `ReturnsOwnCas` as invariant | event_loop.cpp:138 "c = new CAS via lookup" | `ms` with `c` returns the CAS of another connection's store |
| TtlCut, `ExpiresAsAsked` | memcache's exptime; `MetaCommand::ttl` is 64 bits wide | a meta TTL beyond 32 bits is cut first and becomes another |
| BlockingMix, `ValueIsWhole` | tier_manager.hpp:180-181, of the event loop's snapshot | a blocking worker looks the key up for every chunk and mixes two values; with `Nets = {"async"}` it is the torn read of TornRead, seen by a client |
| StaleCompletion, `ServedExact` | striped_io.cpp reads a batch and waits for it | after an interrupted wait and a failed read, the next batch takes late completions of the one before for its own |
| EtagRestart, `NotModifiedIsTrue` | http_loop.cpp:14-15 "differs whenever it changes" | tags count from 1 after a restart, and a 304 confirms content the client does not hold |
| WalkError, `EveryStartIsBlank` | ADR-0013:8 "Every start is a blank slate; old object files and partials are erased" | `increment` reports its error by becoming the end iterator, so the loop ends before its check (pool_dir.cpp:54-55) and the wipe succeeds with files left |
| PrepRace, `ForeignFilesKept` | pool_dir.hpp:16-18 "we never mark a non-empty directory" | a file that appears between the check and the marker is wiped at the next start |
| BlockingShutdown, `ShutdownAlwaysCompletes` | main.cpp:91 "graceful shutdown: drain in-flight transfers, then exit" | a blocking worker does not look at the flag while a client keeps it busy |

Read from the code and not checked by a configuration: a worker of the blocking
server ends for good at an accept error other than `EINTR` (server.cpp:246-249);
an unusable certificate makes `serve` return past joinable threads, which
terminates the process (server.cpp:377); `Connection: close` is forgotten when a
request pipelined behind it says keep-alive (http_loop.cpp:123); a negative
exptime of a classic store is refused as a bad line and its body is then parsed
as commands (protocol.cpp:65); README.md:76 names commands that `parse_command`
does not know; a second process on the same directories wipes them under the
first.

## Proofs

`TierManagerTypes` and `TierManagerProofs` prove, for any sets of keys, regions,
writers and readers (finite, but for the regions) and any sizes allowed by the assumptions of `Layout`,
`DrivePool` and `TierManager`: `TypeOK`, `RegionsExclusive`, `NoRegionLeak`,
`PinsCounted`, `HeadsCurrent` and `PinnedHeadIntact`. None of these but the type
invariant is inductive alone. The inductive invariant `IInv` adds

- `RegionInv`: every region has exactly one owner (`OneOwner`). It implies
  `RegionsExclusive` and `NoRegionLeak` (lemma `RegionFacts`) and adds that the
  region of an open store has no reader, without which `write` could change
  pinned bytes, and that an orphan has a reader left, so the last unpin frees it;
- `HandleWritten`: once a store has written a block, its region holds its
  version. Without it `Commit` could index a head with old bytes.

The argument follows the life of a region: free, reserved by a store, indexed,
then free again or an orphan until its last reader leaves. Each action moves the
regions of one set along this path. The `Owner...` lemmas of `TierManagerRegions`
state each move for one region, and one lemma per action composes them.

`CacheProofs` proves that the store implements `Cache`. Lemma `StepKinds` first
shows that every step either publishes one version or is quiet, changing no tag
or version. The module then uses it to prove that equal entity tags mean equal
content, and that compare-and-swap replaces the version its client read; its
invariant `TagInv` relates the tags of index, readers and handles to the
counters. Part of it, `HandleFresh`, says that no two open stores share a
version. Scratch files are named after versions, so it also proves
`ScratchOwned`: the scratch files are exactly those of the stores in progress.
The assumption `NoOpenFails` is needed, as ScratchLeft shows (see Known divergences).

`PolicyProofs` proves `PoliciesExact`: the head policy tracks exactly the keys
with a resident head, the object policy exactly the indexed keys, and an object
that lives in RAM alone is indexed only with its head. The last part is not
inductive alone: a commit indexes what its handle holds, so the invariant
`PolicyInv` adds `HandlesHoused`, that an open store of a RAM-only object has a
region. One lemma per kind of change (evict, drop, publish, commit, remove,
touch) shows that it keeps index and policies in step, and `PolicyStep` puts
the actions together.

On top of it the module proves `LimitsKept`. `enforce_object_bound` takes its
victims from the object policy, so the bound on the index rests on that policy
tracking every indexed object: lemma `BoundEnforced` counts what is left once
the victims are dropped. For the staging buffers, each action opens or closes
at most one store and takes or returns one buffer with it.

`ReadProofs` proves `LiveFilesCurrent` and `PinnedReadConsistent` under the
assumption `NoRenameFails`. It is needed: after a rename that fails half way
the live files are of two versions (see Known divergences). The invariant
`SnapshotsWhole` says what a reader that pinned its head relies on. It sends
the head first, so its tail begins past the head length and no later head of
the key reaches into it (the torn read needs a reader without a pin), and the
files it opened are all of its version. Lemma `BlockHasFile` shows from the
arithmetic of `Layout` that every block past the head is in one of those files.

Only model-checked: StreamLoop, S3Fifo, BufferPool, DataPath, BlockingPath,
Memcache, Process and Http, and, of the store, what holds
after a failed open or rename. Liveness is outside what the prover does, as is what recursive
definitions compute for every input.

## Not modelled

- Hashing: keys are model values, and a hash is any number of its width.
- Reply texts, item flags, opaque tokens, content types and the splitting of
  header lines: no property tells them apart.
- OpenSSL, and the loading of certificates: their answers are left open.
- Options and `Config::validate`: what it guarantees are assumptions on the
  constants.
- The shards of the index: `expired_keys` and `size` visit them one by one, the
  model at once. The reaper's removals come later in both.
- The hard close at the end of `run` after the grace period, and several loops
  sharing the staging pool in StreamLoop (Memcache has the shared pool).
- `open_read` and `pin_head`, which only tests call.
- Memory mapping and locking, statistics, CPU pinning and socket options, the
  wait with a timeout of the reactor beyond when it returns, the benchmark.

## Plan

1. Proofs of the S3-FIFO and allocator invariants.
2. Memcache over TierManager in place of Cache and the choices of `Sources`.
3. The end of `run`, and two loops over one staging pool.
