# A TLA+ model of CacheSystemWithFuse

The repository is a remote-file cache: a FUSE filesystem whose reads and writes
go to a block cache on disk, filled from an HTTP server. This directory holds
TLA+ modules that model it, the TLC configurations that check them on
small instances, and TLAPS proofs that hold for every instance.

Paths below are relative to the repository root.

## 1. Inventory of the system

| Component | Source | State | Operations | Interacts with |
|---|---|---|---|---|
| Thread pool | `cache/thread_pool.{h,cc,inl}` | `tasks_` FIFO, `mu_`, `cv_`, `stop_`, worker threads | `enqueue`, `worker_loop`, destructor | runs the prefetch tasks of the cache manager |
| LRU policy | `cache/policy/lru_policy.{h,cc}` | `order_` list of (id, bytes, hotness), `map_` of iterators, `capacity_` | `touch`, `remove`, `evict` | called by reads, writes, prefetch tasks (`touch`) and eviction (`evict`), with no lock of its own |
| Block store | `cache/block_store.{h,cc}`, `cache/fs_layout.h` | files `<hash>.<part>.blk`, parts of 2 GiB, in sharded directories | `read`, `write`, `delete_object` | used by the cache manager from every thread |
| Metadata store, bitmaps | `cache/policy/metadata/metadata_store.{h,cc}` | `bitmap_` in memory, files `<hash>.<part>.dmap` | `markDirtyBlock`, `flushBitmaps`, `loadBitmap` (never called) | `write` marks, `flush_all` and eviction flush |
| Metadata store, table | same files | SQLite table `metadata` | `init`, `get`, `put`, `updateAccessTime`, `markDirty`, `remove`, `allEntries`, `cleanup` | the cache manager calls only `init` |
| Cache manager | `cache/cache_manager.{h,cc}` | `entries_` (evicted flag, `last_block`), `mu_`, the plain copy of written files under `root_` | `read`, `write`, `flush_all`, `evict_until_gb`, `schedule_prefetch`, the `cache_*` entry points | everything above and the backend |
| HTTP backend | `backend/http_backend.cc`, `backend/backend.h` | `g_backend` behind `g_mtx` | `download`, `upload`, `remove`, `backend_*` | the server; one transfer at a time |
| Test server | `backend/local_server.py` | files on the server | info, list, range GET, whole PUT, create, delete, rename | the backend and the FUSE code |
| FUSE filesystem | `fuse/fuse.cc` | `cacheDirectory`, `fileRemoteDirectory`, `httpMode`, the two backends | `main`, getattr, readdir, open, create, read, write, mkdir, rmdir, unlink, statfs, release | cache manager (stores what it reads, never reads it back), backend, the kernel through libfuse |
| libfuse | `fuse/fuse_ops.{cc,h}`, `fuse/fuse*.h` | open files, lookups | dispatch of requests on several threads | the handlers |
| Time policy | `cache/policy/time_policy.{h,cc}` | time stamps | `touch`, `remove`, `evict` | nothing in the built program constructs it |

`main.cc`, `fuse/fuse_ops.*` and `cache/legacy_shims.cc` are in no Makefile
target. `fuse/fuse_ops.cc` is a copy of functions of libfuse, and `fuse/fuse*.h`
are libfuse's headers; the program links the installed library.

**What is hard.** Three kinds of threads meet in the cache manager. Reads,
writes and flushes hold `mu_` from entry to return. `evict_until_gb` takes no
lock at all. Prefetch tasks, on the pool's workers, take no lock either, except
`g_mtx` for the time of a download, and reads wait for that same lock with `mu_`
held. All three change the block store, the LRU list and the bitmaps. Downloads
and file writes fail, the process may die anywhere, and the directory is then
used again by a process that knows nothing of the old one. `cache_cleanup`
releases the manager without destroying it, so its workers outlive it. LRU keys
are half addresses, and what `evict_until_gb` throws is caught by nobody.
The pool is the only component with a careful protocol of its own (a condition
variable and a stop flag). Above the cache, libfuse runs the handlers on several
threads at once, each with an HTTP transfer of its own whose connection may be
lost at any point, and what the kernel sends next depends on the error codes it
got before. The list of hazards, each at its line, is in
`PROJECT.json`.

**What makes each component correct.**

- Thread pool: every accepted task runs exactly once, in order; no wakeup is
  lost; the destructor returns, and only after the queue is drained.
- LRU policy: list and map agree; the capacity is kept in any order of calls;
  the list is by recency; the victim is the one the score says, and touching a
  tracked block costs no other one its place.
- Block store: a cell of a file belongs to the path and offset it is filed under.
- Cache manager: a read returns the last write; writes survive eviction in the
  plain copy; after the final cleanup the bitmaps on disk name every dirty block;
  every call, eviction and prefetch ends.
- Metadata store: the bitmap files name dirty blocks only, and keep what a flush
  that succeeded has put there.
- Time policy: no block expires early, none outlives a complete sweep.
- FUSE filesystem and HTTP backend: a read returns a range of one version of the
  file; a write that succeeded has reached the server; attributes are true;
  every request is answered; the process dies in the named ways only.

## 2. Modules

| Module | What it is |
|---|---|
| `TaskQueue` | abstract specification of what the pool promises to `schedule_prefetch` |
| `ThreadPool` | the pool, step by step |
| `PoolProperties` | its properties, and the refinement mapping to `TaskQueue` |
| `ThreadPoolProofs` | theorems about it |
| `MCThreadPool` | instances for TLC |
| `LruList` | the policy's data and operations as operators |
| `LruPolicy` | the policy as a component, with its properties |
| `LruPolicyProofs` | theorems about it |
| `MCLruPolicy` | instances for TLC |
| `FileOps` | `pread`, `pwrite` and directories as functions, for all modules with files |
| `FileOpsProofs` | lemmas about them, for the proofs about files |
| `BlockStore` | an object's parts, `read`, `write`, `delete_object` as operators |
| `CacheManager` | the composition: cache manager, block store, bitmaps, LRU policy, prefetch tasks, `g_mtx`, crash and restart |
| `CacheProperties` | its properties |
| `CacheManagerProofs` | theorems about its types and about what the disk may hold |
| `CacheDataProofs` | theorems about written data: plain copy, bitmaps, reads |
| `MCCache` | instances for TLC |
| `MetadataStore` | dirty bitmaps, their files, and the SQLite table |
| `MetadataProperties`, `MetadataProofs`, `MCMetadata` | its properties, theorems about it, instances for TLC |
| `TimePolicy` | the time policy with its properties |
| `TimePolicyProofs`, `MCTimePolicy` | theorems about it, instances for TLC |
| `LocalServer` | the endpoints of `local_server.py` as operators on the remote files |
| `HttpBackend` | `download` and `upload` as transfers of several steps |
| `Libfuse` | what libfuse and the kernel make of requests and answers, as operators |
| `FuseFs` | the composition: `main`, the handlers, libfuse, the backend, the server |
| `FuseProperties`, `FuseProofs`, `MCFuse` | its properties, theorems about it, instances for TLC |

`CacheManager` composes `BlockStore` and `LruList`; `FuseFs` extends `HttpBackend`
(which extends `LocalServer`) and `Libfuse`.

Definitions marked `Mutant` are deliberately wrong variants of the definition
that follows them; each property is confirmed to fail when one of them takes its
place, so that no property holds by the shape of the model alone.

### ThreadPool

State: `mu` is the worker that holds `mu_` across several steps; `tasks`, `stop`
are `tasks_`, `stop_`; `wpc`, `cpc`, `dpc` say where each worker, caller and the
destructor are; `job` is the worker's local; `submitted`, `done` are history.

A critical section without a wait is one step, enabled while `mu` is free
(`EnqueuePush`, `DtorStop`). `cv_.wait(lock, pred)` is split where a lost wakeup
could happen: the predicate is tested with the mutex held (`WorkerSleep`), and
only `WorkerWait` releases the mutex and joins the wait set. `WorkerSpurious` is
a spurious wakeup. `EnqueueNotify` wakes one waiting worker, any one, after the
unlock. `DtorEnter` requires that no `enqueue` is running: destroying an object
with a member function running is undefined in C++.

### LruList and LruPolicy

A list is a record of the sequence `order` (most recent first) and the set `map`
of the ids in `map_`. The code stores an iterator only right after `push_front`,
so the node `map_` has for an id is the front-most one with that id (`Find`).
Hotness is a double; the code uses 0.25 and 1.0, so it is counted in quarters
and the score is an integer. `Worst` describes the victim; `Scan` is the loop of
`evict()`, and `ScanFindsWorst` checks the two against each other.

### BlockStore

A file is a sequence of cells. A cell stands for a run of bytes that is always
read and written whole. `pread` and `pwrite` are the operating system's, holes
included; they are atomic. A part that does not exist is the empty sequence,
which every caller treats alike: `read` then delivers less than a block.

### CacheManager

Threads: of the calls that take `mu_` at most one runs: a read or write is
`frame`, a `flush_all` is the flush `fl[Caller]`, and `Free` says that there is
neither. `ev` are the threads inside `evict_until_gb`, each with a flush of its own
in `fl`; `wk` are the workers inside a prefetch task. The fields of these records
are the thread's locals. The pool is the FIFO `tasks` of which any idle worker takes
the head, which is what `TaskQueue` promises and `ThreadPool` is proved to
implement.

| Action | Code in `cache/cache_manager.cc` |
|---|---|
| `Begin`, `Finish` | entry of `read` and `write` (`entry()`, the test of `evicted`), end of the loop |
| `ReadStore`, `ReadDownload`, `ReadResponse`, `ReadFill`, `ReadCopy` | one round of the loop in `read`: look in the store, take `g_mtx`, the answer or the plain copy, store it, copy, touch and schedule a prefetch |
| `WriteLoad`, `WriteStore`, `WriteMark`, `WriteTrack` | one round of the loop in `write`: merge, store, dirty bit, touch and plain copy |
| `FlushAll`, `Cleanup`, `FlushNext`, `FlushReturn` | `cache_flush_all` and `cache_cleanup`: the loop of `flush_all` over `entries_`, and the release |
| `PersistOpen`, `PersistWrite` | the steps of `flushBitmaps` in `metadata_store.cc`, for evictors and `flush_all` alike: encode and truncate; write |
| `EvictBegin`, `EvictCheck`, `EvictPop`, `EvictDelete`, `EvictFlush`, `EvictMark` | `evict_until_gb`: `used_gb`, `lru_.evict()` and the test of `evicted`, `delete_object`, `flushBitmaps`, the flag |
| `EvictDies` | the exception of `used_gb`, or a key that leads to no entry |
| `PrefetchTake` ... `PrefetchTouch` | the task of `schedule_prefetch` |
| `Crash` | the process dies and is started again on the same directory |

Data: the cell of the remote copy of `p` at offset `c` is `<<0, p, c>>`, the one
the `n`-th write puts there `<<n, p, c>>`, a hole is `Zero`, and a cell of a
buffer nobody has filled is `Junk`.

Keys. A key packs an address and a block number into 64 bits; what is left of
the address is its value modulo `Half` (2^32 in the code). `EntryAt` and `CopyAt`
are the addresses of the entries and of the copies the prefetch tasks keep; each
running task has one to itself, and a later task may get the address of an earlier
one. `Followed` is what is at the address in a key: an entry, or what was a copy,
with any path and any value of the flag, or nothing. A null pointer is skipped.
An address that is none of these, or one of a copy that is gone, may kill the
process (`EvictDies`), and so may the `filesystem_error` of `used_gb` when another
evictor deletes a file under it. Lists, maps and bitmaps broken by the
unsynchronised accesses end in `Crash`.

Cleanup. `main` calls `cache_cleanup` when `fuse_main` has returned, and with it
every handler thread (`fuse.cc:494-498`), so `Cleanup` waits for the evictors. The
tests call it from their only thread. A thread that called it while another one is
inside `evict_until_gb` would be `FlushAll`: the evictor may write its older bytes
after it, as `metadata_race` shows, and nothing is claimed about that order.

Abstractions. Paths have distinct hashes. The calls on `lru_` and `bitmap_` are
atomic. A bitmap is the set of its blocks; how bits are packed in bytes is in
`MetadataStore`, and `Overlaid` keeps of it that a write replaces whole bytes from
the start of the file. `delete_object` removes the files of an object in one step.
Shard directories are not state: the `rmdir` in `delete_object` that comes between
`ensure_shard_dirs` and `open` of a writer is a failing write. `used_gb` counts
cells, with one cell for a bitmap file. The remote copy never changes: the cache
manager does not write to the server, and other clients are left out.
`has_valid_entry` and `get_entry` only read.

### MetadataStore

`bitmap` is `bitmap_`: a vector is its size and the set of its one bits. `file`
are the `.dmap` files, sequences of bytes, a byte being the set of its one bits,
`ByteBits` of them. `fl` are the threads inside `flushBitmaps`. A flush is split
where it touches the disk: `FlushBegin`, then for each part `PersistOpen`
(encode, then `open` with `O_TRUNC`) and `PersistWrite`, which may fail or be
short, then `FlushEnd`. `Mark` and `DeleteObject` come in between, and so does
`Restart`. A file that `delete_object` removed while a flush had it open takes
the bytes to nowhere (`orphan`). `loadBitmap` is an operator: nothing calls it.

`table` are the rows and `handle` says that `db_handle_` is set. Each SQL
statement commits by itself, or fails without effect; the process may end at any
time after it (`Restart`), before or after the caller sees the result. No property
is stated about the rows: a commit is SQLite's, and no code calls `put`,
`updateAccessTime` or `markDirty`.

### TimePolicy

The clock counts `Ticks` to the second, so that cutting the age to whole seconds
is visible. `evict` takes any expired block: the loop runs in hash order.
`swept` is the time of the last answer `SIZE_MAX`.

### LocalServer and HttpBackend

The server is single-threaded (`HTTPServer`), so a request is answered in one
step on the files as they are. Answers carry what the client can see: status,
body, whether there is a `Content-Length`, and its value, which is negative for a
range behind the end of the file. A description (`/api/info`) is the sequence of
its fields, so that it can end anywhere.

A transfer goes from `sent` to `body` to `done`. `ServeGet` and `ServePut` are
the server, `Receive` and `Complete` hand the body over in pieces of `ChunkSize`
cells to `write_slice_cb`, which stops at the buffer's capacity. `LoseRequest`,
`LoseUpload` and `LoseBody` lose the connection: before the server saw the
request, while it reads or answers an upload (it then stores what has arrived),
and within a body. With a known length libcurl reports the loss; without one it
may take the end of the connection for the end of the body.

### Libfuse and FuseFs

`Libfuse` lists the operations of `struct fuse_operations`, says what is answered
where a program has no handler, and what the kernel concludes from an answer. In
`FuseFs`, `SendName`, `SendRead` and `SendWrite` are the kernel: a name is looked
up before it is used, only a name known to be absent is created, a file is read
and written between its open and its release.

| Action | Code in `fuse/fuse.cc` |
|---|---|
| `Main`, `Unmount` | `main` up to `fuse_main`, and after it |
| `Dispatch` | `openFile`, `createFile`, `getStats`, `readDirectory`, and all operations without a handler |
| `DispatchName`, `HideOpen` | `makeDirectory`, `removeDirectory`, `removeFile`; libfuse's treatment of an unlink of an open file |
| `releaseFiles` | `releaseFiles`, with a `cache_apply_eviction` that returns |
| `cacheDies` | an exception or a bad pointer in `cache_apply_eviction`, or an exception in `cache_store_file` |
| `getAttributeFile`, `readFileFile`, `readFileStore`, `writeFileFile` | the branches for `file://`; `readFile` is split before `cache_store_file` |
| `Call`, `getAttributeReturn`, `getFileInfoThrows`, `readFileReturn`, `writeFileReturn` | the branches that wait for the backend, before and after the transfer |

`path == "/"` compares pointers and is never true (`IsRootLiteral`): the root
has no special case, and `readDirectory` always returns -1. `realCachePath` and
`realFilePath` overwrite the last character of a directory that does not end in a
slash; the directory this leads to is `sibling` for the cache, which may exist and
hold the same names or not, and an empty one for the files. The cache is its
plain copy (`copies`) and the paths marked `evicted`; `releaseFiles` may mark any
of them. It may also kill the process (`cacheDies`), once a read has begun to store
what it got (`CacheInUse`): before that the policy has no key and the directory no
file that anybody deletes. A write of the operating system is atomic and complete.

## 3. What is checked

| Run | Configuration | Shows | Bounds |
|---|---|---|---|
| `pool` | `ThreadPool.cfg` | `TypeOK`, `ExactlyOnce`, `NoLostWakeup`, `NobodySleepsThroughStop`, `DrainedOnDestroy`, refinement `ImplementsTaskQueue`, `EveryTaskRuns`, `DestructorReturns` | 3 workers, 2 callers, 4 tasks, 2 spurious wakeups |
| `lru_policy` | `LruPolicy.cfg` | `MapMatchesOrder`, `CapacityBound`, `RecencyOrder`, `ScanFindsWorst`, `RetouchKeepsOthers`, `VictimIsWorst` | 3 blocks, 6 calls, capacities 0 to 3, 2 sizes, 2 hotnesses |
| `lru_victim` | `LruVictim.cfg` | `VictimIsLeastRecent` is violated | same |
| `cache_read_your_writes` | `CacheReadYourWrites.cfg` | `ReadYourWrites` without prefetching | 1 path, blocks of 2 cells, one block per part, 4 calls, one evictor, a failing download and a failing write, a crash |
| `cache_concurrency` | `CacheConcurrency.cfg` | `PlainCopyHasWrites`, `DirtyIsPersisted`, `NoForeignData`, `CallsReturn`, `EvictionEnds`, `PrefetchEnds` | 1 path, 3 blocks, two per part, 2 evictors, window 1, 3 calls, addresses that fit into a key and one that does not |
| `cache_prefetch_race` | `CachePrefetchRace.cfg` | `ReadYourWrites` is violated with prefetching | window 1, 3 calls |
| `cache_hole` | `CacheHole.cfg` | `ReadsAreTransparent` is violated | 2 calls |
| `metadata` | `Metadata.cfg` | `NoInventedDirt`, `FlushedStaysOnDisk` | 1 object of 2 parts, 3 blocks, bytes of 2 bits, one flushing thread, 5 calls, a failure, a restart |
| `metadata_race` | `MetadataRace.cfg` | `FlushedStaysOnDisk` is violated with two flushing threads | same, no failure |
| `fuse` | `Fuse.cfg` | `ReadIsSnapshot`, `AckedWriteApplied`, `AttributesAreTrue`, `CopyIsInPlace`, `Survives`, `RequestsAreAnswered` | 2 threads, 5 kinds of URL, a file, a directory and a free name, 5 requests with 2 writes, one lost connection |
| `fuse_put` | `FusePut.cfg` | `RangeWritesKeepTheRest` is violated | 1 thread, the URL of the server |
| `time_policy` | `TimePolicy.cfg` | `NeverTooEarly`, `SweepIsComplete` | 3 blocks, limits of 0 to 2 s, 2 ticks to the second, 7 ticks |

**Why the bounds are enough for the cases that matter.** A lost wakeup needs one
worker that sleeps, one that is busy and two notifications; three workers and
four tasks have room for more. With capacity at most 3 and three blocks every
case of `touch` occurs (tracked or not, full or not). The ranges the callers use
are a whole block, one that straddles a block and a part boundary, and the end of
a block, so that partly written, overlapping and multi-block writes happen; a
sequential read of two blocks starts a prefetch of the third. LRU capacity 2
makes `touch` evict. The limits ask for more than can be freed once something was
written, because the plain copy stays. Two evictors are enough for flushes that
overtake each other, for one that deletes what the other has open, and for the
death of `used_gb`; of the two addresses of copies one survives the packing and one
leads to nothing. Within three calls there is a write, an eviction and a second
one or a flush, then the cleanup, which is not counted. Three blocks in bytes of two bits give vectors that
fill a byte, that do not, and that need two. In `fuse`, five requests are a
lookup, an open and three that overlap on two threads; `ChunkSize` 2 splits a
body of three cells and a description of five fields, a write of three cells
makes the file larger than `IntMax`, and one range starts behind the end of the
file. Of the operations without a handler the instance has one that is answered
with `-ENOSYS` on a name, one on an open file, and one answered with success: the
others are dispatched alike.

Every run but `fuse` and `fuse_put` checks for deadlock: the only states that may stop are the destroyed
pool (`Gone`), the exhausted bound on calls (`Finished`, `Rest`) and the released
manager. A mount may rest for as long as nobody uses it, after the program ended
or died, and when the bound on requests is reached.

**Fairness.** `ThreadPool!Fairness`: each thread that can run does, a task
returns once started, and a mutex that is released again and again is not
withheld from one thread for ever in these finite runs; nobody has to submit,
destroy, or be woken spuriously. `CacheManager!Fairness`: the same for the call
in progress, each evictor and each worker. It includes that the backend answers:
`HttpBackend::download` sets no timeout, so this is an assumption on the server.
`FuseFs!FairSpec`: each thread of libfuse and each transfer goes on; the server
answers and TCP delivers or gives up, which the code cannot enforce since it sets
no timeout. Calls, requests, crashes and failures are never forced to happen.

### What the violated runs show

- `lru_victim`: the score knows nothing of recency and ties go to the front of
  the list, so of equally sized and equally hot blocks the most recently used is
  evicted (README.md:4 and :51 promise recency).
- `cache_prefetch_race`: the prefetch worker finds block 2 missing; a write
  stores the block; the worker stores what it downloaded over it; the next read
  returns the old remote data.
- `cache_hole`: a write to half of an uncached block makes the store hold zeros
  for the other half, as a whole block that reads trust.
- `metadata_race`: a flush encodes the bits and empties the file; a block is
  marked; a second evictor flushes the part and returns true; the first one
  writes its older bytes over the file, which no longer names the block.
- `fuse_put`: after a write of one cell at offset 3 the remote file is that cell.
  The same happens to a write that the kernel splits, and to appending.

Disagreements with the documentation that are plain from the actions and have no
run of their own:

- writes are not atomic (README.md:46; `Crash` between two `WriteStore` steps);
- a read that reaches past the end of a short block gets uninitialised bytes and
  counts them (`Copied`); after an eviction reads of the path fail until a
  restart (`Begin`), where test_read.cc:42-44 speaks of a read-through;
- no thread expires blocks and there is no heap (README.md:58-59, `TimePolicy`);
- readdir always fails, and the handlers never look a block up in the cache
  (README.md:62-63); with the mount command of README.md:38, whose URL has no
  `/api/data`, the server answers everything with 404 (`Endpoint`);
- nothing is retried (README.md:68);
- README.md:62 lists `mkdir`, `rmdir` and `unlink` as implemented, and
  test_fuse.sh:72 creates a file in the mount. `MountKeepsNames`, a theorem,
  says the opposite of the code: a lookup of a free name is answered with -1
  and not `-ENOENT`, so the kernel sends no `create` and no `mkdir` for it, and
  `rmdir` and `unlink` work in another directory. Truncating an existing file
  gives `ENOSYS`. `MountKeepsNames` is no promise a user would want kept, so no
  run checks it.

## 4. What is proved

TLAPS checks the theorems for every value of the constants that satisfies the
named assumptions. Every invariant, every action property and the refinement that
a passing run checks is also a theorem, and so is `MountKeepsNames`.

**`ThreadPoolProofs`** (assumptions: `NumThreads` and the bounds are naturals,
`NoOne` is not a worker, `Callers` is finite). The inductive invariant is
`SafeInv == TypeOK /\ LockInv /\ StopInv /\ ExactlyOnce`. `LockInv` says which
worker holds the mutex from its program counter, and that one about to sleep saw
an empty queue that is still empty. `StopInv` relates `stop` to the destructor's
position, and says that nobody is between test and wait when `stop` is raised:
this is what `DtorStop` needs the mutex for. With these, `ExactlyOnce`,
`NobodySleepsThroughStop` and `DrainedOnDestroy` follow. `NoLostWakeup` needs a
counting argument on top: each action changes the number of queued tasks, of
workers about to look and of callers about to notify by amounts that keep the
inequality; it uses the library's facts on cardinalities. The refinement
`PoolImplementsTaskQueue` maps `started` to the number of tasks taken from the
queue; each action is a step of `TaskQueue` or leaves its variables alone.

**`LruPolicyProofs`** (assumptions: capacities are naturals, sizes are bounded,
hotness is between 0.0 and 1.0). The inductive invariant `IInv` is `TypeOK`,
`MapMatchesOrder`, `CapacityBound`, `RecencyOrder`, and that every tracked block
was touched no later than `clock`, without which the front of the list would not
be the latest. `VictimExists` shows that a non-empty list has a worst node, so
that the `CHOOSE` in `VictimAt` means something; `EraseProperties` and the
well-formedness lemmas say what `Erase`, `remove`, `evict` and `PushFront` keep.
The action properties follow from `IInv` in the state before the step:
`RetouchKeepsOthers` because erasing the old node leaves room, or an empty list at
capacity 0, and `VictimIsWorst` because `Worst` speaks of the nodes and `IInv` says
that they carry what the latest touches said. `ScanFindsWorst` is about a
recursive function. `RoundKeepsWorst` shows that a round of the loop takes the
worst of the first k - 1 nodes to the worst of the first k; the function whose
values are the worst positions therefore satisfies the recursion, so that the
recursive definition denotes something, and any function that does agrees with it,
since there would be a least position where it did not (`LeastNatural`).

**`CacheManagerProofs`** (assumptions: block and part sizes are positive and a
part is a whole number of blocks, the window and the remote lengths are
naturals, there are parts for every range used and the blocks prefetched
after it, `Caller` is no evictor, and objects that exist at the same time have
different addresses, none of them null). `DiskHoldsOwnData` shows `NoForeignData` for any number of paths,
workers, evictors, calls, failures and crashes. `NoForeignData` speaks of the
disk only and is not inductive: what a step stores was put in a buffer several
steps earlier. The inductive invariant `DiskInv` therefore says of each buffer on
its way to the disk that its cells belong to the path and offset it will be
written to: of `frame.block` when the call is about to fill or to store
(`CallInv`), of a worker's `buf` when it is about to fill (`JobInv`). It also
carries the shapes of these records, and that a call is inside its range, so that
the block it is at has a part. Below it are lemmas on the arithmetic of parts and
blocks and on what `pread`, `pwrite`, `readBlock`, `write`, `download` and
`Merged` do to ownership; the step lemmas cite those.

`CacheTypeCorrect` adds to `DiskInv` the index, the bitmaps, the evictors and the
flushes (`IndexInv`, `EvictorsInv`, `FlushesInv`) and `SizeInv`: a buffer on its way to the disk is at
most a block, and since no block crosses the end of a part no part outgrows
`kMaxPartSize`.

**`CacheDataProofs`** (same assumptions) has an inductive invariant for each of
its three theorems.

- `PlainCopyIsComplete`: `PlainAll` says of each cell whose last write is the
  running call's that the plain copy has it or the call has yet to come to it
  (`ToCome`). The property itself speaks of the time between calls only.
- `DirtyBlocksAreSaved`: `DirtAll` says that written data in the store, the plain copy
  or the call's buffer has its bit in `bitmap`, or is the block the call has stored
  and not marked yet, and that a prefetch brings none (`StoreDirt`, `LocalDirt`,
  `FrameDirt`, `JobDirt`); that every path with bits is in the index,
  so that `flush_all` comes to it (`KnownInv`). `SavedInv` is about the flushes:
  an evictor has one only while it is between `flushBitmaps` and the flag
  (`FlusherInv`), so from `Cleanup` on there is none but that of `cache_cleanup`, no
  write marks anything and no file is deleted (`CalmInv`); what the cleanup has
  passed is on disk, in the bytes it is about to write or in a part it has still to
  come to (`ClosingInv`), and in the end all of it is on disk (`ReleasedInv`).
  Before the cleanup nothing is said of the files, where flushes overtake each other.
- `ReadsSeeWrites` has the hypothesis `PREFETCH_WINDOW = 0`: with prefetching the
  statement is false, which is what `cache_prefetch_race` shows. `FreshAll` says
  that the store has a whole block with the last write of every cell written
  since the object was last deleted (`FreshStore`). It follows the block of the
  call through its steps: one that is being downloaded has no such cell, so the
  fill overwrites none, and one that is about to be stored has them all
  (`FreshFrame`); and then what was copied into the answer (`FreshOut`,
  `FreshRet`). It holds across crashes.

The first two have `crashes = 0` in the property: a process killed within a write
leaves the block and not its plain copy, and one killed before a flush loses the
bits. They also ask that no file write failed, since the code looks at no result. All three rest on `FileOpsProofs`, what `pread` and `pwrite` return cell by
cell.

**`MetadataProofs`** (assumptions: a byte has at least one bit, `NoFile` is no
sequence of bytes and `NoTable` no table). `MetaInv` says of each byte sequence,
in a file or still in the buffer of a flush, that it names marked blocks only, of
each vector that its ones are marked and below its size, and that a flush that is
about to write has a file to write to or an orphan. `NoInventedDirt` and the types
follow for any number of flushers, failures and crashes.
`FlushesAreDurable` has the hypothesis `SingleFlusher`: with two the statement is
false, as `metadata_race` shows. Its `DurableInv` adds that the bytes a flush has
encoded name every block of the part that was synced before, and that what is due
is in the vectors or already written.

**`FuseProofs`** (assumptions: the URLs are of the five kinds told apart, there
are bounds, pieces of a body are not empty, requests have a length, and the
initial remote files have names that are no directories and cells that stand at
their offsets). The proof
has two layers. `NamesAll` is about types and names: the kernel believes only
names that were found and none to be absent (`KernelInv`), so nothing is created,
a request that works on a file names one that is there (`ReqInv`), and a transfer
belongs to the request of its thread and asks for what that asked for (`NetInv`).
It gives `FuseTypeCorrect` and `NamesAreKept`. `DataAll` adds the data: `seen[t]`
has the present content of the file a request is about (`SeenInv`), what was
received and what is still to come are together a body made from one of these
contents (`NetData`), the same for what a local read is about to store in the
cache (`StoreData`), and cells stand at their offsets in the copies, in local
files and in data on its way to them (`PlaceInv`; a PUT shifts a remote file).
Each property is about the last answer, so the invariant carries them for it
(`RetInv`). `Survives` needs from `NamesAll` that a mount of a server stores
nothing in the cache, so that `cacheDies` has no occasion there. The properties that fail when a connection is lost within a
description or a body without length keep that in their statements
(`faults = 0`, `faults > 0`).

**`TimePolicyProofs`** (assumptions: `Ticks` is positive, limits are naturals,
`SIZE_MAX` is no block). The invariant `IInv` adds to `TypeOK` and
`SweepIsComplete` that the recorded times are those of the last touches, and that
the block given up last was old enough then, which the clock can only confirm.
`WholeSeconds` is the arithmetic: the age in whole seconds reaches the limit
exactly when the age in ticks does.

Only model-checked: the liveness properties (`EveryTaskRuns`, `DestructorReturns`,
`CallsReturn`, `EvictionEnds`, `PrefetchEnds`, `RequestsAreAnswered`), since
ENABLED and fairness are out of the prover's reach.

## 5. Plan

1. Done: thread pool, LRU policy, block store, cache manager with the steps of its
   flushes and the packing of its keys, metadata store, time policy, HTTP backend
   with the server, FUSE filesystem; the proofs above.
2. Next: a second `cache_init` beside a manager that was released and still works.

## 6. Not modelled

- Code that no target builds: `main.cc`, `cache/legacy_shims.cc`.
- `HttpBackend::remove`, `backend_put_range` and `backend_delete`, and the
  server's list, create, delete, rename and PATCH: nothing in the program uses
  them. `findJsonNames` and the listing in `readDirectory`, which are not reached.
- Of libfuse what the program does not use: options, logging, the low-level and
  notification interfaces, buffers, passthrough; the kernel's page cache, which
  only removes requests.
- `fork()` in `fuse_main`, which leaves the pool's threads behind: the mounted
  program queues no task.
- A second manager, made by another `cache_init`, beside one that was released.
- Logging, authentication tokens, curl's internals, directory layout and hashing
  (paths have distinct hashes).
