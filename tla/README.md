# TLA+ models of influxdb3_core

The repository holds the core crates of InfluxDB 3. This directory models the
parts of it whose correctness depends on the order in which things happen:
threads on a shared map, nodes that replicate a cache, clients of a catalog,
tasks that delete objects, callers that share and cancel loads, policies that
evict and refresh behind their callers' backs, a log that must survive a crash,
and the controllers and servers of the parquet cache. Everything
else in the repository is listed in the inventory below with the reason why it
is not here.

Source paths in this file are relative to `src/`.

## The system and its parts

    query / ingest / compaction
      |          |              \
     wal     cache_system      iox_catalog::cache  (CachingCatalog)
    (Wal)    (CacheDriver,       |           \
              CachePolicies)     |            catalog_cache::api (QuorumCatalogCache)
                                 |              |  HTTP, three nodes
                                 |            catalog_cache::local (CatalogCache)
                        iox_catalog::mem  (ParquetFileCatalog)
                                 |
                        garbage_collector (GarbageCollector) --- object store
                                                                   |
    Kubernetes -- parquet_cache::controller       parquet_cache::server, per pod
                  (ParquetCacheController)  --->  (KeyspaceServer, ParquetCacheData)
                                         config map

| Part | Module | How it is modelled |
|---|---|---|
| Local catalog cache, `catalog_cache/src/local` | `CatalogCache` | whole |
| Quorum cache, server and client, `catalog_cache/src/api` | `QuorumCatalogCache` | whole, one key |
| What users of that cache rely on | `StrongCache` | abstract specification |
| Caching catalog, `iox_catalog/src/cache.rs` | `CachingCatalog` | on top of `StrongCache` |
| Parquet files of a partition, `iox_catalog/src/mem.rs` | `ParquetFileCatalog` | whole, with clients that read and commit later |
| Garbage collector, `garbage_collector/src` | `GarbageCollector` | whole |
| Cache driver, `cache_system/src/cache`, `cancellation_safe_future.rs` | `CacheDriver` | whole, one key |
| Cache policies, `cache_system/src/backend/policy` | `CachePolicies` | refresh, TTL and LRU on backends that share a pool |
| Write-ahead log, `wal/src` | `Wal`, `WalReplay` | whole, with failing files and crashes |
| Parquet cache controllers, `parquet_cache/src/controller` | `ParquetCacheController` | both reconcilers |
| Parquet cache server, `server/keyspace.rs`, `server/cache.rs` | `KeyspaceServer` | without the routing of object requests |
| Parquet cache server, `server/data.rs`, `server/data/` | `ParquetCacheData` | whole, with failing file operations |

The proofs are in modules of their own: `CatalogCacheProofs`, `QuorumProofs` (with
the refinement), `CachingCatalogProofs`, `CacheDriverProofs`, `CachePoliciesProofs`,
`ParquetCacheDataProofs`, `ParquetFileProofs` (on `ParquetFileCatalog` and
`GarbageCollector`) and `ServiceProofs` (on `KeyspaceServer`, `ParquetCacheController`
and `Wal`). The last two extend several modules, which is why the specification of
`GarbageCollector` is called `CollectorSpec`, and those of `KeyspaceServer`,
`ParquetCacheController` and `ParquetCacheData` `KeyspaceSpec`, `ControllerSpec` and
`DataSpec`; what such a module proves
of one specification it proves whatever the variables of the others do. `WalReplay`
holds what reads the log in order, apart from `Wal` because it needs a fold that the
proofs do not. The `MC*` modules give the constants their values. The correspondence of
every definition with its lines is the "map" of `PROJECT.json`.

The composition is by promise. `CachingCatalog` extends `StrongCache` and uses its
actions as its cache, and `QuorumCatalogCache` is proved to implement `StrongCache`
as long as no entry is evicted and no node restarts. With evictions and restarts
the core of the promise, `StrongReads`, is model-checked under the timing
assumption below. The three parquet cache modules are not composed: the
controller's pods answer anything, and a server's file changes at any time. They share
one `MC` module, `MCParquetCache`, in which one of them runs and the other two stay as
they are: as they share no state, this explores each of them completely.

### State and actions

**CatalogCache.** The state is the DashMap `map`, the limiter's counter `current`,
the `index` an observer keeps, and for every thread the step it has reached.
`insert`, `delete` and the visit of one entry by `evict_unused` take two steps. The
first changes the counter and calls the observer, the second changes the map,
because DashMap's lock between them covers the entry and not the counter. A
value's data is its length.

**QuorumCatalogCache.** One key on three nodes. A value is its generation, which
the backing catalog hands out in increasing order. `put` inserts locally, sends to
both replicas and returns with the first that answers; the request to the other
stays on the `wire` and is executed, lost or timed out later. `get` reads the local
value, asks both replicas and decides by `Decisive` or by both. `warm` lists a
replica, fetches and inserts in three steps. `EvictUnused` is the second-chance
sweep; `Crash` and `Recover` lose the node's memory. The history variables are
`acked`, the newest generation returned to anyone, and `crossed`, which operations
were under way when a node swept or went down.

**CachingCatalog.** A partition is the number of changes committed to it, a
snapshot a generation and a version. A call that changes partitions commits to the
backing catalog, then takes and puts a snapshot of each partition, at most
`Fanout` at once (`quorum_fanout`). Reads use the cache and fall back to a
snapshot. Snapshots, puts and gets fail, and a caller may drop its call anywhere.

**ParquetFileCatalog.** `files` is the Vec of rows, as a set: its order decides
only which files retention selects first, and the model allows any. Writers and
compactors plan on the list they have read and commit later with
`create_upgrade_delete`, which works on a copy and is all or nothing. A client may
not learn that its commit took effect and try it again (the gRPC client's retry).
`flag_for_delete_by_retention` and `delete_old_ids_only` run in between. The content
of a file is the set of batches it holds.

**GarbageCollector.** Five tasks: lister, checker and deleter over two bounded
channels, the remover of old rows and the flagger by retention. Beside them
writers upload and register objects, and compactors flag rows. Time is a counter.
The checker reads the age against the cutoff, asks the catalog about a batch, and
sends what is to be deleted, in separate steps.

**CacheDriver.** One key. A value is the stamp of the load or `set` that made it,
so "older" is `<`. A query is the record `RunningQuery` with the state of its future:
driven inline by the caller that started it, rescued into a task by
`CancellationSafeFuture::drop`, or over. Callers `get`, `peek` and `set`, and are
cancelled at any await; loaders panic; entries are evicted; the driver is dropped.

**CachePolicies.** A backend is a hash map with three subscribers. An operation
holds the backend's lock but takes several steps: `LruPolicy::set` charges the pool
after it has released its heap's lock, and the removals the subscribers request are
played out after that. Beside the users run a refresh worker per backend and the
clean-up loop, which locks heap after heap, selects victims across all members and
then calls back into the backends. Times are reduced to their order. `Surplus` is
what the pool's usage is off the heaps while a charge or a refund is under way.

**Wal.** Writers push operations into a buffer, the flusher swaps it out and enqueues
it, the I/O thread appends it as one entry and tells the writers. `rotate` draws an
id and creates a file before it takes the lock; `delete` takes a segment off the list
before it unlinks the file. Writes fail and leave a torn entry, fsync panics, and a
crash leaves the entry or header being written absent, torn or whole. `Readable` is
what a reader of one file gets back, and `Replay` (in `WalReplay`) that of all of them.

**ParquetCacheController.** One step per API call of the ParquetCache reconciler,
from the watched copy of the object, with a failure possible after each. The set
controller takes two steps: it reads a set, and later makes its pods what it read and
reports them. Its calls on the pods are one step with the status write, because no one
else looks at the pods before they are reported. The history variable `cut` records that
a reconcile ended after it had changed something and before its status was saved.

**KeyspaceServer.** The update task at start-up and the one of the file watcher read
the file, swap the data and notify in separate steps. `BeginWrite` leaves the file
missing or half written until `WriteFile`; an update that reads it then panics, on one of
the two `expect`s of `read_definition` (`server/keyspace.rs:310`, `:313`), and its task is
dead. A connection looks at the state, registers for the notification, declares the node
warmed and asks for the state. `missed`, `early` and `overtaken` record the races the
properties name.

**ParquetCacheData.** A miss starts a write-back: create the file, fill it, decide,
insert, add the size; or a local file is moved into place. `tokio::fs::File` returns from
a write before the bytes are written and `write_object` does not flush, so the last chunk
gets to the file in a step of its own (`Flush`), perhaps after the entry was made, or
never. Creating, writing and deleting a file fail, and the errors of deletions are
ignored. moka is external and drops entries when it will; its listener sends the key,
and subtracts the size in a second step. Three tasks delete files, insert into the
min-heap and remove from it. The heap is the sequence of its slots in the order they are
popped in, and the width of the size counter is a constant, so that wrapping is reached
with small sizes. `crossed` records objects whose write-backs, evictions and reads
overlapped, `stray` those with a file that a failed operation left, `repeats` the
insertions that found an entry.

## Runs

| Run | Bounds | What it shows |
|---|---|---|
| `catalog_cache` | 2 threads, 2 keys, lengths 0, 1, 3, generations 0..2, limit 4 | the counter is the bytes stored plus those in flight and stays within the limit; the observer mirrors the map; generations only grow |
| `quorum` | 3 nodes, 2 puts, 1 reader; one node evicts, restarts and warms itself | strong reads, and at most one stale node |
| `caching_catalog` | 2 callers, 2 partitions, 1 change of each, 2 snapshots of each | reads are current, and an update is missing from the cache only if the call that made it ended without refreshing |
| `parquet_files` | 2 clients, 4 object ids, 2 batches, clock 0..2 | data is neither lost nor doubled, removed rows stay removed |
| `gc` | 1 object, clock 0..3; with and without errors, dry run and foreign objects; shutdown | no row without its object, flagged objects stay until the cutoff, garbage is collected, and no listed object is stuck behind a full channel, whichever task has died |
| `cache_driver` | 2 callers, 3 stamps, panics | no older value replaces a younger one, reads are fresh, panics are explained, calls and loads end |
| `cache_policies` | 2 backends with a key each, sizes 1 to 3 in a pool of 2, 3 operations | the policies agree, the pool's usage is exact and returns within its limit, late refreshes are dropped and scheduled ones start |
| `wal` | 2 operations, 2 rotates at once, 2 drawn ids, 1 crash, failing files | acknowledged operations survive, in order; `rotate` returns what it closed; writers are told |
| `parquet_cache` | controller: 2 templates, one also with 1 replica, 1 edit; server: 2 connections, 3 revisions; data service: 2 objects, capacity 1, 2 write-backs, a counter of 3 bits | serving pods are kept, one pod moves at a time, a revision names one set; the last set is loaded and connections are served; entries have files and reads are whole; up to the named races and failures |
| `parquet_cache_rollout` | as above, all replica counts 2 | violation, see Findings |
| `parquet_cache_warming` | as above | violation, see Findings |
| `parquet_cache_heap` | as above | violation, see Findings |

Several properties name an exception, and the exception is part of what is shown.
For `AckedSurvive`, `ReplayInOrder`, `InstancesAreWanted`, `RevisionNamesOneSet`,
`ServerLoadsFile` (either exception), `ServerServes`, `CachedIsStored` and `ReadsAreWhole`
(overlaps, stray files and the last chunk, each by itself), `NoLostUpdate` and
`PanicsAreExplained` (a cancelled first caller) TLC finds the bad state in the run's
instance once the exception is struck out, so they are not idle. `WritersAreTold` excuses
an operation left in the buffer of a dead flusher. That takes three operations; with the
two of the run every writer is told. An instance with three operations and no crash
reaches it.

The section "Observed behaviour" says what the exceptions are.

**Why these bounds.**

- A limit of 4 does not hold two values of length 3, so reservations fail and values
  grow and shrink at the limit. Two threads meet at every lock.
- A stale read needs an old and a new value, hence two generations. The code fixes
  three nodes. One reader is enough for strong reads because what other readers
  saw is in `acked`. Evicting, restarting and warming are given to one node so that
  the run stays small.
- Retention changes two partitions with one call, so a failing refresh of one can
  leave the other; `Fanout = 2` lets both be in flight.
- Four object ids allow two writes and two compactions of them. The cutoff of 1 in a
  clock of 0..2 lets rows be removed while a plan is old.
- The pipeline's buffer of 1 makes every task wait for the next one. `ObjectCutoff`
  is above `CommitDelay`, as the code's defaults are.
- In the cache driver a cancelled caller comes back, so two callers play more than
  two. Three stamps allow a load, a `set` and a second load.
- Two backends are the least for a lock cycle with the pool. The values of the first
  key are refreshed, expire or exceed the pool, and two values together exceed it.
- Two operations are the least for an order; two calls of `rotate` may overlap, and a
  segment stays closed while another is open. One crash restarts the scan.
- One edit starts a rollout or a resize of two pods, and a rollout of two pods has a
  state in which one has moved. A second edit is beyond the run.
- Three revisions let the node join, leave and join again.
- Two write-backs of two objects at capacity 1 give overlapping write-backs of one
  object, a write-back during the eviction of the entry the other one made, and an
  eviction by event time. The three parts together have 700,698 states. Three write-backs of one object
  (10.2 million states) were checked once, with the inductive invariant of the proofs.
- The controller starts with the first of the two templates, which nothing tells apart.

**Deadlock** is checked in `catalog_cache`. The other runs have bounded clocks,
generations, stamps or operations, and stop when these are used up.

**Symmetry** is used only in runs without liveness properties.

**Fairness** is weak fairness throughout.

- `gc`: each task is scheduled by the runtime, time passes, and a cancelled task takes
  its branch of the `select!`.
- `cache_driver`: loaders end, ready tasks are polled and so are callers that were not
  cancelled.
- `cache_policies`: a thread that holds a lock goes on, workers and the clean-up loop
  are polled, time passes, loaders return. Users need not call anything.
- `wal`: the interval ticks and the I/O thread is scheduled. Nothing is assumed of
  rotations, deletions or restarts.
- `parquet_cache`: in a server, the start-up update, the watcher's loop and each
  connection are polled (`ServerFairness`). Nothing is assumed of the file, of the
  controllers or of the data service.

**Assumptions about the environment.**

- `Timely` (quorum cache): an operation is over before the second sweep of a node
  since it began, before a node that went down meanwhile is back, and a node does
  not sweep while it warms. Requests time out in seconds and sweeps are far apart.
- `CommitDelay < ObjectCutoff` (collector): a writer registers its object before the
  object is old enough to be deleted.
- Clients repeat a commit for no longer than the cutoff after which flagged rows
  are removed (parquet files). Otherwise a repeated create could bring back a row
  that was flagged and removed.

## Proofs

TLAPS proves the following for all values of the constants that meet the named
assumptions. Every safety invariant and action property that a passing run checks is a
theorem, except `ReplayInOrder`, and with `StrongReads` and `OneStaleNode` restricted as
said below.

**CatalogCacheProofs** (any finite sets of threads and keys, any sizes and limit):
`TypeOK`, `ObserverMirrors`, `WithinLimit`, `Accounting`, the action property
`GenerationsAdvance`, and that the counter is never negative. The inductive invariant
`IInv` adds `LockExclusive`, that no two threads are inside the same entry, and
`CheckedUnderLock`, that what `insert` found when it compared generations is still
so. Without the first, one thread's observer call could be undone by another's;
without the second, the comparison could be stale when the map changes.
`Accounting` compares a counter with two sums. Each operation changes one summand
when it accounts for its entry and two, which cancel out, when it changes the map.
That the counter does not wrap follows from a second sum: it is the total of the
lengths the observer has been told, and these are not negative.

**QuorumProofs** (any number of generations and readers): `TypeOK` with every timing,
eviction and restart. `StrongReads` and `OneStaleNode` when `Evicting = {}` and
`Crashing = {}`. The argument is quorum intersection in a form that survives late
requests: `Covered(acked)`, two of three nodes hold the newest returned generation or
a newer one, and stores only grow. `GetInv` says of a running get that two nodes are
`NotBehind`: what it has seen of them, or will see, is not below what had been
returned when it began. Two pairs of three nodes have one in common, so an answer
that two nodes agree on is not old. `PutInv` ties a put in flight to the store of its node.
With evictions and restarts stores no longer grow, the argument needs the timing
assumption, and the property is model-checked only (`quorum`).

The same module shows, under the same conditions, that `QuorumCatalogCache` implements
`StrongCache`. The mapping takes `acked` to the floor, the generations handed out to
those offered, and each get to its state, floor and result. The invariant `Issued`
adds to `CoreInv` that only generations that were handed out are stored, listed or
answered; then every step of the nodes is a put, its return, a get, its answer, or
a stutter.

**CachingCatalogProofs** (any partitions, callers, changes and snapshots):
`ReadsAreCurrent`, `NoLostUpdate`. A snapshot is `Covered` when any get that begins
now shows it. The invariant follows a change from the call that made it to the cache:
the partition is still to be refreshed, or in a put under way whose snapshot has the
change, or covered (`MadeIsCovered`); what was returned to anyone is covered
(`KnownIsCovered`); a read was begun when the cache covered what the read must show
(`NeedIsMet`); and every change is covered, given up or still pending with its call
(`ChangesAreTracked`). Snapshots are ordered because they are taken from a catalog
that only grows. The lemma `StepKeepsIInv` reduces each action to what it does to its
own call.

**ParquetFileProofs**, `ParquetFileCatalog` (any clients, ids, batches and cutoff):
`NoDataTwice`, `NoDataLost`, `RemovedForGood`. What makes them inductive is `PlanIsGood`, on commits
that are prepared and not yet made, or made without the client knowing: a plan whose
deletions would still be accepted holds exactly the data it deletes; one without
deletions holds data nobody else has; and a commit that may be repeated finds its row
still there (`StillThere`), so that the unique object store id refuses it. The last
is where the bound on repetition, listed above, is used.

**ParquetFileProofs**, `GarbageCollector` (any objects, cutoffs, channel and batch
sizes): `RowsHaveObjects`, `FlaggedObjectsStay`. The invariant says that what is on its way
to the deleter is `Deletable`: junk, or its row removed, or without a row and old.
Each of these is stable, the third because `CommitDelay < ObjectCutoff`; that is why
the catalog's answer may be arbitrarily old when the object is deleted.

**CacheDriverProofs** (any callers, any number of stamps): `TypeOK`,
`YoungestIsCached`, `ReadsAreFresh`, `RunningIsDriven`, `PanicsAreExplained`. The
invariant `Inv` adds:

- `Ordered`: the running query is younger than all that was ever stored, so that
  storing the value of the query whose tag is in the map is always progress.
- `Unstarted`: stamps not handed out have no query.
- `AnswersAreYoung` and `CallsAreYoung`: a query joined by a call will answer with
  something not older than what the call may expect.
- `Orphans` and `LossesExplained`: a query that is over without an answer had a
  panicking loader, or was side-loaded and cancelled.

**CachePoliciesProofs** (any finite sets of keys and backends, any values and limit):
`PoliciesAgree`, `PoolIsExact`, `OneRefreshPerKey` and the action property
`LateLoadsAreDropped`. In the middle of an operation the policies do not agree with
the backend; `Known` says that they do for every key the operation is not still
going to remove, and `IdleIsDone` that an operation that is over has none left.
`TagsAreOld` makes the tag of a new refresh task differ from all earlier ones.
`PoolIsExact` compares the pool with a sum over keys and one over members.

**ParquetCacheDataProofs** (any objects, capacity, number of write-backs and width of
the counter): `CachedIsStored`, `ReadsAreWhole`, and two statements no run checks:
`SizeIsExplained`, what the size counter counts, and `PanicIsExplained`, that the removing
task panics only when it overtakes a slot. `FilesAreOwned` says that a file, also one that
is deleted and still open, is one object's, so that write-backs of different objects
cannot spoil each other. `InTurn` is the life of an object that is not in `crossed`:
one write-back at a time, its file filled from the end of the write to the deletion, its
key with the listener or in the channel once and not while it is written (`SentOnce`); a
file that is there without one of these reasons is `stray`. Filled means whole but for
the last chunk, which `Flush` may add at any time, and which only a new opening of the
same file takes away. `OneInserts` is what `or_insert` gives, and makes each insertion add
an entry. `SizeIsExplained` is inductive as it stands, by arithmetic modulo the counter's
width. `RemovalsArePaid` bounds the removals asked of the heap by the slots in it, in the
channel and still to be sent, so that an empty heap with a removal leaves one of the
latter two.

**ServiceProofs**, `KeyspaceServer` (any connections and revisions): `WarmingIsNotSeen`,
which bounds what the violation `parquet_cache_warming` shows: Warming is told only to a
connection that had declared the node warmed before the node joined. The invariant adds
`DeclaredIsCurrent`: a connection that has declared the node warmed and not yet asked
finds it in the current set if it is in the next one, unless the node joined in between.

**ServiceProofs**, `ParquetCacheController` (any templates, replica counts and number of
edits): `OnePodAtATime`, `InstancesAreWanted` and the action property
`RevisionNamesOneSet`. There are three layers, each resting on the one before.

- `StepInv`: a status is settled, or its next set is the current one with one pod moved
  and the following revision. That has to be said of every status there is: saved, in
  the watch cache, in the config map and in the reconciler's hands, since any of them
  may become the next.
- `RevisionInv`: a copy of the object is at most one save behind it, because a save from
  an older copy is refused. What was saved since is `Outcome` of that copy, a function of
  what it holds. So two reconciles that publish under the same revision have read the
  same set and publish the same one; what a pod answered only decides whether they do.
- `LiveInv`: the sets keep the pods of the saved status until a reconcile changes them,
  and from then on those of the status that it will save. A list with pods of two sets
  is `Anchored`, that is, both sets exist and have reported: otherwise
  `remove_empty_cache_sets` could delete one of them in the middle of a rollout, and
  `migrate` could bring it back without its other pods. `cut` and the copies that are
  behind are excused, as in the property.

**ServiceProofs**, `Wal` (any number of operations, rotations, segments and crashes, with
and without failing files): `AckedSurvive`, `RotateReturnsItsWrites`. `LogInv` says where
every file stands: open, closed, new or being deleted and only one of these
(`SegmentsAreApart`), with ids below the next one (`IdsAreBounded`), so that no segment
is written to that has been closed. `AckedAreKept` puts an acknowledged operation into a
file that is neither new nor being deleted, with nothing torn before it unless the entry
stands behind the torn one of a write that failed (`IsBehindTorn`), and `OpenIsWhole` makes the next entry readable: a torn entry is in the open segment only if
its write was reported as failed, or its I/O thread is dead. `BatchInv` says that an
operation is in one batch at most and that its writer waits as long as it is there, so
that acknowledging a batch changes nothing that was acknowledged or failed before.

Each proof has one lemma or step per action and under it one per conjunct the action
disturbs. All inductive invariants were checked by TLC before they were proved.

*Sums.* The provers cannot use the library's induction theorems. What `Total` computes
is proved from a least counterexample instead: among the subsets of a finite set for
which a claim fails there is a smallest (`LeastSubset`). This gives a function that
adds up every subset (`AdditiveExists`), that `Total` is its value at the set
(`TotalIs`), and how a sum changes with its summands. The lemmas are in both
`CatalogCacheProofs` and `CachePoliciesProofs`, each about its own `Total`.

**Only model-checked:** all liveness properties (fairness and ENABLED are beyond these
provers), strong reads with evictions and restarts (stores no longer grow and the
argument needs the timing assumption), and `ReplayInOrder` of the log: `Replay` is a
fold over the segments, and what a fold computes for a log of any length takes an
induction over data that these provers cannot do. `NextSetsExist`, `WarmingIsReported`
and `RemoverFindsAnEntry` do not hold, see Findings.

## Findings

`parquet_cache_rollout`: `remove_empty_cache_sets`
(`parquet_cache/src/controller/parquet_cache_controller.rs:188`) deletes a set of
another template that reports no pods, although the status may name its pods. In
the run the template is edited before the pods of the first set are reported. The
next reconcile deletes that set, moves one pod and saves a `next` that still names a
pod of the deleted set. `check_warming_pods` fails on that set when it gets to it
(line 208), so the rollout cannot finish.

`parquet_cache_warming`: `CacheService::poll_ready` runs `prewarm` before a connection's
first request (`parquet_cache/src/server/cache.rs:76`), and `prewarm` sends
`PATCH /warmed`. The first connection to a node that is warming so ends the warming by
being let in, while `data_types/state.rs:26` says that a warming node is "not receiving
traffic" and "Can still respond to `GET /state` requests (from controller)", and
`check_warming_pods` waits until every pod reports Warming.

`parquet_cache_heap`: at capacity, `max_capacity_should_insert` asks the removing task for
an entry before the slot of the accepted object is sent to the inserting task. If the
removing task runs first, the heap is empty and
`expect("should have entry via peek")` (`parquet_cache/src/server/data/manager.rs:237`)
panics. The task is gone, and nothing is evicted by event time any more.

## Observed behaviour

These are named by the properties' exceptions or seen while modelling. None is a
run of its own.

- Quorum cache: `warm` inserts what it fetched into whatever the local cache holds by
  then (`catalog_cache/src/api/quorum.rs:194`). If the newer local entry was swept in
  the meantime, the older generation comes back and agrees with the replica that
  missed the put. `Timely` excludes this, as it does requests that outlive two sweeps.
- Caching catalog: `flag_for_delete_by_retention` collects its refreshes with
  `try_collect` (`iox_catalog/src/cache.rs:677`). The first failure drops the others,
  whose partitions keep the flagged files in their snapshots.
- Cache driver: `set` drops the last receiver of a query whose first caller was
  cancelled (`cache_system/src/cache/driver.rs:237`). That aborts the rescued load, and
  other gets that share it panic although no loader did (`PanicsAreExplained`).
- Policies: a `set` of a key whose entry has just expired is undone by the removal
  that `evict_expired` requests (`cache_system/src/backend/policy/ttl.rs:236`). A `set`
  while a refresh of the key runs may be overwritten by what the refresh loaded.
- Wal: two overlapping calls of `rotate` may install the later id first, and replay
  follows the ids (`wal/src/lib.rs:348`). Behind a failed write, later acknowledged
  entries of the segment cannot be read back.
  Once fsync has failed and the I/O thread and the flusher have panicked, operations
  in the buffer wait for ever (`wal/src/blocking/writer.rs:128`).
- Controller: `check_cooling_pods` unwraps `replica_suffixes` (line 290), which `resize`
  has set to `None` (line 318), while the set still reports its pods. The model ends
  the reconcile there.
- Keyspace: the start-up update may store an older set after the watcher's
  (`parquet_cache/src/server/keyspace.rs:141`); the server keeps it until the file changes
  again. A watcher that meets a file that is missing or half written panics
  (lines 310, 313), and no later change is seen. A connection that looks before and
  registers after the one notification waits on (line 160).
- Data service: overlapping write-backs and evictions of one object leave an entry
  without a file or a partial read. An entry is made before the last chunk is known to
  be written (`server/data/store.rs:90`), so that a read may miss it, and if that write
  fails no one learns of it. A file left by a failed `set_len` or deletion is not deleted
  unless the object is cached and evicted again. A second write-back's size is never
  subtracted (`server/data/manager.rs:106`), so `current_size` exceeds what is cached.
- `iox_catalog/src/mem.rs`: a row's id is the length of the Vec plus one, so after
  `delete_old_ids_only` a new row can get the id of an old one (line 1043), and that
  call removes more rows than it reports when more are old than its limit (line 840).
- Collector: during shutdown the checker may end with `ChannelClosed` when the deleter
  went first (`garbage_collector/src/objectstore/checker.rs:80`). When the object store
  reports an error for a missing object, a second listing of an object that is being
  deleted ends the deleter.

## Not modelled

`PROJECT.json` lists every crate. In short:

- **Not yet modelled:** the loaders of `cache_system` (two flushes of `BatchLoader` may
  meet on one batch, `loader/batch.rs:109`), the parquet cache client, `tracker`,
  `executor`, `backoff`, `sharder`, and the soft deletes and compare-and-swap of
  `iox_catalog`.
- **SQL back ends** of `iox_catalog`: their meaning is the database's.
- **Query planning and execution** (`iox_query*`, `query_functions`, `predicate`),
  **parsers and formats** (`influxdb_*`, `influxrpc_parser`, `parquet_to_line_protocol`) and
  **data structures** (`data_types`, `schema`, `mutable_batch*`, `partition`,
  `parquet_file`): transformations of values, without concurrent state.
- **Clients, servers and process set-up** (`*_client`, `service_*`, `ioxd_common`, `authz`,
  `clap_blocks`): requests are parsed and passed on.
- **Observation** (`metric*`, `trace*`, `tokio_*`, loggers), **generated code**, **tools** and
  **test support**.

## Plan

1. `BatchLoader`, `tracker` tasks and semaphore, `executor`.
2. The composition of `ParquetCacheController` with `KeyspaceServer`, so that pods answer
   what the servers do.
3. Pure operators against reference definitions: the jump hash of `sharder`, the
   delays of `backoff`.
4. Proofs: `StrongReads` with evictions under `Timely`, and the order of the log as an
   invariant on positions, without the fold.
