---------------------------- MODULE CacheManager ----------------------------
(***************************************************************************)
(* cache/cache_manager.cc with the components it is built from: the block  *)
(* store, the dirty bitmaps of the metadata store, the LRU policy, the     *)
(* prefetch pool (a FIFO of tasks, see TaskQueue and ThreadPool) and the   *)
(* backend behind its global lock g_mtx.                                   *)
(*                                                                         *)
(* Threads.  read, write and flush_all hold mu_ from entry to return, so   *)
(* the calls that need mu_ are one process: a read or write (frame), or the*)
(* flush of flush_all (fl[Caller]).  Against it run the evictors (ev), each*)
(* with its own flush, and the prefetch workers (wk), neither of which     *)
(* takes mu_.  Accesses to shared files, lists and flags that the others   *)
(* can come between are steps of their own; a thread's locals are the      *)
(* fields of its record.                                                   *)
(*                                                                         *)
(* Data.  A cell of the remote copy of p at offset c is <<0, p, c>>, the   *)
(* cell the n-th call of write() puts there is <<n, p, c>>.  Junk is a     *)
(* cell of an uninitialised buffer.  Distinct paths have distinct hashes.  *)
(***************************************************************************)
EXTENDS BlockStore, LruList, FiniteSets

CONSTANTS
    Paths, Workers, Evictors,
    PREFETCH_WINDOW,
    kCacheBlocksCapacity,
    RemoteLen,     \* length in cells of each path's remote copy
    Ranges,        \* the <<offset, length>> pairs the callers use
    Limits,        \* the limits evict_until_gb is called with, in cells
    Caller,        \* the call that holds mu_, as one that flushes
    EntryAt,       \* the address of each path's CacheEntry in entries_
    CopyAt,        \* the addresses at which prefetch tasks keep their copies of one
    Half,          \* 2^32: what is left of an address in a key is its value modulo this
    Junk,
    MaxOps,        \* bound: calls
    MaxFaults,     \* bound: failing downloads ("net") and file writes ("disk")
    MaxCrashes     \* bound: crashes of the process

ASSUME WindowAssumption == PREFETCH_WINDOW \in Nat
ASSUME FaultAssumption == MaxFaults \in [{"net", "disk"} -> Nat]
ASSUME RemoteAssumption == RemoteLen \in [Paths -> Nat]

ASSUME CallerAssumption == Caller \notin Evictors

\* Objects that exist at the same time are not at the same address, and none
\* is at the null pointer; there is room for a copy per worker.
ASSUME AddressAssumption ==
    /\ EntryAt \in [Paths -> Nat \ {0}] /\ CopyAt \subseteq Nat \ {0} /\ Half \in Nat \ {0}
    /\ \A p \in Paths : EntryAt[p] \notin CopyAt
    /\ \A p, q \in Paths : p # q => EntryAt[p] # EntryAt[q]
    /\ \E at \in [Workers -> CopyAt] : \A v, w \in Workers : v # w => at[v] # at[w]

Cells == 0..((MaxPart + 1) * kMaxPartSize - 1)

\* There are parts for every range and for the blocks prefetched after it.
ASSUME RangeAssumption ==
    /\ Ranges \subseteq Nat \X Nat
    /\ \A r \in Ranges : r[1] + r[2] + (PREFETCH_WINDOW + 1) * kBlockSize \in Cells

VARIABLES
    phase,      \* "up"; "closing" and "released" in and after cache_cleanup
    entries,    \* entries_: present, evicted, last (last_block)
    bitmap,     \* bitmap_ of the metadata store, as sets of <<part, block>>
    lru,        \* lru_
    tasks,      \* queue of the prefetch pool
    gmtx,       \* g_mtx: "free" or "held"
    store,      \* disk: the parts of each object
    local,      \* disk: the plain copy under root_ that write() keeps
    dmap,       \* disk: the dirty bitmaps
    frame,      \* the call that holds mu_
    ret,        \* what the last of these calls returned
    wk,         \* the prefetch workers
    ev,         \* the evictors
    fl,         \* the flushes under way: of the evictors and of flush_all
    latest,     \* history: the last write() of each cell
    since,      \* history: number of writes when the object was last deleted
    writes, ops, faults, crashes     \* history: what has been counted

index == <<entries, bitmap, lru, tasks>>
disk == <<store, local, dmap>>
counts == <<writes, ops, faults, crashes>>
history == <<latest, since>>
vars == <<phase, index, gmtx, disk, frame, ret, wk, ev, fl, history, counts>>

NoBlock == -1                       \* last_block before the first read
NoEntry == [present |-> FALSE, evicted |-> FALSE, last |-> NoBlock]
Idle == [pc |-> "idle"]
NoFlush == [st |-> "none"]
NoRet == [op |-> "none"]
ENOENT == -2                        \* what read and write return
Failed == -1

Init ==
    /\ phase = "up"
    /\ entries = [p \in Paths |-> NoEntry]
    /\ bitmap = [p \in Paths |-> {}]
    /\ lru = EmptyList /\ tasks = <<>> /\ gmtx = "free"
    /\ store = [p \in Paths |-> NoObject]
    /\ local = [p \in Paths |-> <<>>]
    /\ dmap = [p \in Paths |-> {}]
    /\ frame = Idle /\ ret = NoRet
    /\ wk = [w \in Workers |-> Idle]
    /\ ev = [e \in Evictors |-> Idle]
    /\ fl = [f \in Evictors \cup {Caller} |-> NoFlush]
    /\ latest = [p \in Paths |-> [c \in Cells |-> 0]]
    /\ since = [p \in Paths |-> 0]
    /\ faults = [kind \in {"net", "disk"} |-> 0]
    /\ writes = 0 /\ ops = 0 /\ crashes = 0

-----------------------------------------------------------------------------
(* Blocks, keys and the calls into the other components.                   *)

Offset(blk) == blk * kBlockSize

\* The block a call is at and the chunk of it that the call is to copy.
Here == frame.off + frame.done
Blk == Here \div kBlockSize
In == Here % kBlockSize
Want == Clip(kBlockSize - In, frame.len - frame.done)

\* An LRU key packs the address of a CacheEntry and a block number into 64 bits:
\* the shift by 32 loses the upper half of the address.
Key(address, blk) == <<address % Half, blk>>

\* Hotness is 1.0 for a block in use and 0.25 for a prefetched one.
touched(address, blk, hotness) ==
    touch(lru, kCacheBlocksCapacity, Node(Key(address, blk), kBlockSize, hotness))

\* Mutant: a block that ends early counts as a whole one.
downloadWhole(p, blk) ==
    [i \in 1..(IF Offset(blk) < RemoteLen[p] THEN kBlockSize ELSE 0) |->
        IF Offset(blk) + i <= RemoteLen[p] THEN <<0, p, Offset(blk) + i - 1>> ELSE Junk]

\* What a successful download of a block delivers.
download(p, blk) ==
    [i \in 1..Clip(RemoteLen[p] - Offset(blk), kBlockSize) |-> <<0, p, Offset(blk) + i - 1>>]

Fault(kind) == faults[kind] < MaxFaults[kind] /\ faults' = [faults EXCEPT ![kind] = @ + 1]
Fine == UNCHANGED faults

\* A write to the store may fail: the disk is full, or delete_object removes
\* the directory between ensure_shard_dirs and open.  No caller looks.
StoreWrite(p, data, blk) ==
    \/ store' = [store EXCEPT ![p] = write(@, data, Offset(blk))] /\ Fine
    \/ UNCHANGED store /\ Fault("disk")

\* What used_gb() adds up, with one cell for each bitmap file.
Used ==
    Cardinality(UNION {{<<p, k>>} \X (1..Len(store[p][k])) : p \in Paths, k \in Parts})
    + Cardinality(UNION {{p} \X (1..Len(local[p])) : p \in Paths})
    + Cardinality(UNION {{p} \X {d[1] : d \in dmap[p]} : p \in Paths})

-----------------------------------------------------------------------------
(* Entering and leaving a call that takes mu_.  An evicted entry stays     *)
(* evicted: the call fails at once.                                        *)

\* mu_ is not held.
Free == frame = Idle /\ fl[Caller] = NoFlush

Result(op, p, off, n, data) == [op |-> op, p |-> p, off |-> off, n |-> n, data |-> data]

Return(n) ==
    /\ frame' = Idle
    /\ ret' = Result(frame.op, frame.p, frame.off, n, frame.out)

Begin(op, p, off, len) ==
    /\ phase = "up" /\ Free /\ ops < MaxOps
    /\ ops' = ops + 1
    /\ entries' = [entries EXCEPT ![p].present = TRUE]
    /\ IF entries[p].evicted
       THEN frame' = Idle /\ ret' = Result(op, p, off, ENOENT, <<>>)
       ELSE /\ frame' = [pc |-> op, op |-> op, p |-> p, off |-> off, len |-> len,
                         done |-> 0, block |-> <<>>, out |-> <<>>]
            /\ ret' = NoRet
    /\ writes' = IF op = "write" /\ ~entries[p].evicted THEN writes + 1 ELSE writes
    /\ UNCHANGED <<phase, bitmap, lru, tasks, gmtx, disk, wk, ev, fl, history, faults, crashes>>

\* The end of the loop over the blocks.
Finish ==
    /\ frame.pc \in {"read", "write"} /\ frame.done = frame.len
    /\ Return(frame.done)
    /\ UNCHANGED <<phase, index, gmtx, disk, wk, ev, fl, history, counts>>

-----------------------------------------------------------------------------
(* CacheManager::read                                                      *)

\* A block counts as cached when the store has all of it.
ReadStore ==
    /\ frame.pc = "read" /\ frame.done < frame.len
    /\ LET b == readBlock(store[frame.p], Offset(Blk)) IN
       frame' = [frame EXCEPT !.block = b,
                              !.pc = IF Len(b) = kBlockSize THEN "copy" ELSE "download"]
    /\ UNCHANGED <<phase, index, gmtx, disk, ret, wk, ev, fl, history, counts>>

ReadDownload ==
    /\ frame.pc = "download"
    /\ gmtx = "free" /\ gmtx' = "held"
    /\ frame' = [frame EXCEPT !.pc = "response"]
    /\ UNCHANGED <<phase, index, disk, ret, wk, ev, fl, history, counts>>

\* What a read has when the backend has answered: the bytes of the download
\* or, if it failed or was empty, those of the plain copy.
Fetched(p, blk, ok) ==
    IF ok /\ download(p, blk) # <<>> THEN download(p, blk)
    ELSE pread(local[p], kBlockSize, Offset(blk))

ReadResponse ==
    /\ frame.pc = "response"
    /\ gmtx' = "free"
    /\ \E ok \in BOOLEAN :
         LET got == Fetched(frame.p, Blk, ok) IN
         /\ IF ok THEN Fine ELSE Fault("net")
         /\ IF got # <<>>
            THEN frame' = [frame EXCEPT !.block = got, !.pc = "fill"] /\ UNCHANGED ret
            ELSE Return(IF frame.done > 0 THEN frame.done ELSE Failed)
    /\ UNCHANGED <<phase, index, disk, wk, ev, fl, history, writes, ops, crashes>>

ReadFill ==
    /\ frame.pc = "fill"
    /\ StoreWrite(frame.p, frame.block, Blk)
    /\ frame' = [frame EXCEPT !.pc = "copy"]
    /\ UNCHANGED <<phase, index, gmtx, local, dmap, ret, wk, ev, fl, history, writes, ops, crashes>>

\* The memcpy: beyond the end of a short block the buffer is uninitialised.
Copied == [i \in 1..Want |-> IF In + i <= Len(frame.block) THEN frame.block[In + i] ELSE Junk]

\* A sequential reader: the block after the one of the last read.
Sequential == entries[frame.p].last # NoBlock /\ Blk = entries[frame.p].last + 1

\* Mutant: the read goes on by what the block delivered, without end where
\* the block is short.
ReadCopyDelivered ==
    /\ frame.pc = "copy"
    /\ LET n == Clip(Len(frame.block) - In, Want) IN
         frame' = [frame EXCEPT !.pc = "read", !.block = <<>>,
                                !.out = @ \o SubSeq(Copied, 1, n), !.done = @ + n]
    /\ lru' = touched(EntryAt[frame.p], Blk, HotUnit)
    /\ entries' = [entries EXCEPT ![frame.p].last = Blk]
    /\ tasks' = IF Sequential THEN Append(tasks, [p |-> frame.p, blk |-> Blk + 1]) ELSE tasks
    /\ UNCHANGED <<phase, bitmap, gmtx, disk, ret, wk, ev, fl, history, counts>>

ReadCopy ==
    /\ frame.pc = "copy"
    /\ frame' = [frame EXCEPT !.pc = "read", !.block = <<>>,
                              !.out = @ \o Copied, !.done = @ + Want]
    /\ lru' = touched(EntryAt[frame.p], Blk, HotUnit)
    /\ entries' = [entries EXCEPT ![frame.p].last = Blk]
    /\ tasks' = IF Sequential THEN Append(tasks, [p |-> frame.p, blk |-> Blk + 1]) ELSE tasks
    /\ UNCHANGED <<phase, bitmap, gmtx, disk, ret, wk, ev, fl, history, counts>>

-----------------------------------------------------------------------------
(* CacheManager::write                                                     *)

Data(c) == <<writes, frame.p, c>>
Chunk == [i \in 1..Want |-> Data(Here + i - 1)]

\* Mutant: the rest of the block is not read back.
MergedFresh(old) ==
    [i \in 1..kBlockSize |-> IF i > In /\ i <= In + Want THEN Chunk[i - In] ELSE Zero]

\* The block that is stored: what the store has of it, zeros for the rest, and
\* the caller's chunk on top.
Merged(old) ==
    [i \in 1..kBlockSize |->
        IF i > In /\ i <= In + Want THEN Chunk[i - In]
        ELSE IF i <= Len(old) THEN old[i] ELSE Zero]

WriteLoad ==
    /\ frame.pc = "write" /\ frame.done < frame.len
    /\ frame' = [frame EXCEPT !.pc = "store",
                              !.block = Merged(readBlock(store[frame.p], Offset(Blk)))]
    /\ UNCHANGED <<phase, index, gmtx, disk, ret, wk, ev, fl, history, counts>>

WriteStore ==
    /\ frame.pc = "store"
    /\ StoreWrite(frame.p, frame.block, Blk)
    /\ latest' = [latest EXCEPT ![frame.p] =
                    [c \in Cells |-> IF c >= Here /\ c < Here + Want THEN writes ELSE @[c]]]
    /\ frame' = [frame EXCEPT !.pc = "mark"]
    /\ UNCHANGED <<phase, index, gmtx, local, dmap, ret, wk, ev, fl, since, writes, ops, crashes>>

\* markDirtyBlock
Marked(bits, blk) == bits \cup {<<PartOf(Offset(blk)), blk>>}

WriteMark ==
    /\ frame.pc = "mark"
    /\ bitmap' = [bitmap EXCEPT ![frame.p] = Marked(@, Blk)]
    /\ frame' = [frame EXCEPT !.pc = "track"]
    /\ UNCHANGED <<phase, entries, lru, tasks, gmtx, disk, ret, wk, ev, fl, history, counts>>

\* Mutant: the plain copy is written from the start of the block.
PlainAtBlock(f) == pwrite(f, Chunk, Offset(Blk))

Plain(f) == pwrite(f, Chunk, Here)

\* The touch, and the plain copy, whose failure goes unnoticed too.
WriteTrack ==
    /\ frame.pc = "track"
    /\ lru' = touched(EntryAt[frame.p], Blk, HotUnit)
    /\ \/ local' = [local EXCEPT ![frame.p] = Plain(@)] /\ Fine
       \/ UNCHANGED local /\ Fault("disk")
    /\ frame' = [frame EXCEPT !.pc = "write", !.block = <<>>, !.done = @ + Want]
    /\ UNCHANGED <<phase, entries, bitmap, tasks, gmtx, store, dmap, ret, wk, ev, fl, history,
                   writes, ops, crashes>>

-----------------------------------------------------------------------------
(* flushBitmaps and persistBitmap.  An evictor's flush runs without mu_:   *)
(* writes mark blocks and other flushes use the same files between its     *)
(* steps.                                                                  *)

BitsOf(p, k) == {b \in bitmap[p] : b[1] = k}

\* A flush of p at its start: the loop over the parts that have bits.  rest is
\* what flush_all has still to flush.
flushBitmaps(p, rest) ==
    [st |-> "open", p |-> p, todo |-> {k \in Parts : BitsOf(p, k) # {}},
     k |-> 0, bits |-> {}, rest |-> rest]

\* The part's bits are put together, then open() with O_TRUNC empties the file.
PersistOpen(f, k) ==
    /\ fl[f].st = "open" /\ k \in fl[f].todo
    /\ LET after == [fl[f] EXCEPT !.todo = fl[f].todo \ {k}] IN
       \/ /\ Fine
          /\ dmap' = [dmap EXCEPT ![fl[f].p] = {d \in @ : d[1] # k}]
          /\ fl' = [fl EXCEPT ![f] = [after EXCEPT !.st = "write", !.k = k,
                                                    !.bits = BitsOf(fl[f].p, k)]]
       \/ Fault("disk") /\ UNCHANGED dmap /\ fl' = [fl EXCEPT ![f] = after]
    /\ UNCHANGED <<phase, index, gmtx, store, local, frame, ret, wk, ev, history,
                   writes, ops, crashes>>

\* The bits in the files after a write at offset 0 of part k's file: bytes
\* beyond the last one written stay, if another flush has put some there.
Overlaid(old, k, new) ==
    new \cup {d \in old : d[1] # k \/ \A b \in new : d[2] \div 8 > b[2] \div 8}

\* ::write, into a file that delete_object may have removed after the open.
PersistWrite(f) ==
    /\ fl[f].st \in {"write", "orphan"}
    /\ fl' = [fl EXCEPT ![f] = [fl[f] EXCEPT !.st = "open", !.k = 0, !.bits = {}]]
    /\ \/ Fine /\ dmap' = IF fl[f].st = "orphan" THEN dmap
                         ELSE [dmap EXCEPT ![fl[f].p] = Overlaid(@, fl[f].k, fl[f].bits)]
       \/ Fault("disk") /\ UNCHANGED dmap
    /\ UNCHANGED <<phase, index, gmtx, store, local, frame, ret, wk, ev, history,
                   writes, ops, crashes>>

-----------------------------------------------------------------------------
(* flush_all and cache_cleanup.  main calls cache_cleanup when fuse_main   *)
(* has returned with all its handler threads (fuse.cc:494-498): Cleanup.   *)
(* g_cache.release() gives the manager up without destroying it, so the    *)
(* prefetch pool goes on, and for threads that are still in the manager a  *)
(* cache_cleanup by another one is a flush_all like any other: FlushAll.   *)

\* Mutant: entries that were evicted are left out.
flush_allValid ==
    [st |-> "open", p |-> "none", todo |-> {}, k |-> 0, bits |-> {},
     rest |-> {p \in Paths : entries[p].present /\ ~entries[p].evicted}]

\* The loop over entries_ at its start.
flush_all ==
    [st |-> "open", p |-> "none", todo |-> {}, k |-> 0, bits |-> {},
     rest |-> {p \in Paths : entries[p].present}]

FlushAll ==
    /\ phase = "up" /\ Free /\ ops < MaxOps
    /\ ops' = ops + 1
    /\ fl' = [fl EXCEPT ![Caller] = flush_all]
    /\ ret' = NoRet
    /\ UNCHANGED <<phase, index, gmtx, disk, frame, wk, ev, history, writes, faults, crashes>>

Cleanup ==
    /\ phase = "up" /\ Free /\ \A e \in Evictors : ev[e] = Idle
    /\ phase' = "closing"
    /\ fl' = [fl EXCEPT ![Caller] = flush_all]
    /\ ret' = NoRet
    /\ UNCHANGED <<index, gmtx, disk, frame, wk, ev, history, counts>>

FlushNext(p) ==
    /\ fl[Caller].st = "open" /\ fl[Caller].todo = {} /\ p \in fl[Caller].rest
    /\ fl' = [fl EXCEPT ![Caller] = flushBitmaps(p, fl[Caller].rest \ {p})]
    /\ UNCHANGED <<phase, index, gmtx, disk, frame, ret, wk, ev, history, counts>>

\* The end of the loop; in cache_cleanup, the release.
FlushReturn ==
    /\ fl[Caller].st = "open" /\ fl[Caller].todo = {} /\ fl[Caller].rest = {}
    /\ fl' = [fl EXCEPT ![Caller] = NoFlush]
    /\ phase' = IF phase = "closing" THEN "released" ELSE phase
    /\ UNCHANGED <<index, gmtx, disk, frame, ret, wk, ev, history, counts>>

-----------------------------------------------------------------------------
(* evict_until_gb                                                          *)

EvictBegin(e, n) ==
    /\ phase = "up" /\ ev[e] = Idle /\ ops < MaxOps
    /\ ops' = ops + 1
    /\ ev' = [ev EXCEPT ![e] = [pc |-> "check", limit |-> n, ref |-> "none", p |-> "none"]]
    /\ UNCHANGED <<phase, index, gmtx, disk, frame, ret, wk, fl, history, writes, faults, crashes>>

EvictCheck(e) ==
    /\ ev[e].pc = "check"
    /\ ev' = [ev EXCEPT ![e] = IF Used > @.limit THEN [@ EXCEPT !.pc = "pop"] ELSE Idle]
    /\ UNCHANGED <<phase, index, gmtx, disk, frame, ret, wk, fl, history, counts>>

\* What is at the address a key leads to, as <<kind, path, evicted flag>>: an
\* entry of entries_, or what was a prefetch task's copy, whose memory may by
\* now be that of another task's copy.  A null pointer is skipped like an
\* evicted entry.  For any other address there is nothing to go on with.
Followed(address) ==
    {<<"entry", p, entries[p].evicted>> : p \in {q \in Paths : entries[q].present /\ EntryAt[q] = address}}
    \cup (IF address \in CopyAt THEN {"copy"} \X Paths \X BOOLEAN ELSE {})
    \cup (IF address = 0 THEN {<<"none", "none", TRUE>>} ELSE {})

\* Mutant: an empty policy does not end the loop.
EvictPopGoesOn(e) ==
    /\ ev[e].pc = "pop"
    /\ lru' = evict(lru)
    /\ IF lru.order = <<>>
       THEN ev' = [ev EXCEPT ![e].pc = "check"]
       ELSE \E t \in Followed(Victim(lru)[1]) :
              ev' = [ev EXCEPT ![e] =
                       IF t[3] THEN [@ EXCEPT !.pc = "check"]
                       ELSE [@ EXCEPT !.pc = "delete", !.ref = t[1], !.p = t[2]]]
    /\ UNCHANGED <<phase, entries, bitmap, tasks, gmtx, disk, frame, ret, wk, fl, history, counts>>

\* lru_.evict() and the test of ce->evicted.
EvictPop(e) ==
    /\ ev[e].pc = "pop"
    /\ lru' = evict(lru)
    /\ IF lru.order = <<>>
       THEN ev' = [ev EXCEPT ![e] = Idle]
       ELSE \E t \in Followed(Victim(lru)[1]) :
              ev' = [ev EXCEPT ![e] =
                       IF t[3] THEN [@ EXCEPT !.pc = "check"]
                       ELSE [@ EXCEPT !.pc = "delete", !.ref = t[1], !.p = t[2]]]
    /\ UNCHANGED <<phase, entries, bitmap, tasks, gmtx, disk, frame, ret, wk, fl, history, counts>>

\* delete_object removes every file of the object, its bitmaps included; a
\* flush that has one of these open writes to a file without a name.
EvictDelete(e) ==
    /\ ev[e].pc = "delete"
    /\ store' = [store EXCEPT ![ev[e].p] = NoObject]
    /\ dmap' = [dmap EXCEPT ![ev[e].p] = {}]
    /\ fl' = [f \in DOMAIN fl |-> IF fl[f].st = "write" /\ fl[f].p = ev[e].p
                                  THEN [fl[f] EXCEPT !.st = "orphan"] ELSE fl[f]]
    /\ since' = [since EXCEPT ![ev[e].p] = writes]
    /\ ev' = [ev EXCEPT ![e].pc = "flush"]
    /\ UNCHANGED <<phase, index, gmtx, local, frame, ret, wk, latest, counts>>

EvictFlush(e) ==
    /\ ev[e].pc = "flush"
    /\ fl' = [fl EXCEPT ![e] = flushBitmaps(ev[e].p, {})]
    /\ ev' = [ev EXCEPT ![e].pc = "mark"]
    /\ UNCHANGED <<phase, index, gmtx, disk, frame, ret, wk, history, counts>>

\* When the flush is over, the flag: of the entry, or of the task's copy.
EvictMark(e) ==
    /\ ev[e].pc = "mark" /\ fl[e].st = "open" /\ fl[e].todo = {}
    /\ fl' = [fl EXCEPT ![e] = NoFlush]
    /\ entries' = IF ev[e].ref = "entry" THEN [entries EXCEPT ![ev[e].p].evicted = TRUE] ELSE entries
    /\ ev' = [ev EXCEPT ![e] = [@ EXCEPT !.pc = "check", !.ref = "none", !.p = "none"]]
    /\ UNCHANGED <<phase, bitmap, lru, tasks, gmtx, disk, frame, ret, wk, history, counts>>

-----------------------------------------------------------------------------
(* The process dies and is started again with cache_init on the same       *)
(* directory: the disk stays, everything else is new.                      *)

Restarted ==
    /\ crashes' = crashes + 1
    /\ phase' = "up"
    /\ entries' = [p \in Paths |-> NoEntry]
    /\ bitmap' = [p \in Paths |-> {}]
    /\ lru' = EmptyList /\ tasks' = <<>> /\ gmtx' = "free"
    /\ frame' = Idle /\ ret' = NoRet
    /\ wk' = [w \in Workers |-> Idle]
    /\ ev' = [e \in Evictors |-> Idle]
    /\ fl' = [f \in Evictors \cup {Caller} |-> NoFlush]
    /\ UNCHANGED <<disk, history, writes, ops, faults>>

\* Anywhere; also from the races on lru_ and bitmap_.
Crash == crashes < MaxCrashes /\ Restarted

\* In evict_until_gb: used_gb meets a file that another evictor has just
\* deleted, and nobody catches its filesystem_error; or a key that lost half of
\* its address, or leads to a copy that is gone, is dereferenced.
EvictDies(e) ==
    /\ \/ ev[e].pc = "check" /\ \E d \in Evictors \ {e} : ev[d].pc = "delete"
       \/ /\ ev[e].pc = "pop" /\ lru.order # <<>>
          /\ Victim(lru)[1] # 0
          /\ \A p \in Paths : Victim(lru)[1] = EntryAt[p] => ~entries[p].present
    /\ Restarted

-----------------------------------------------------------------------------
(* schedule_prefetch: the task, run by a worker without mu_                *)

PrefetchTake(w) ==
    /\ wk[w] = Idle /\ tasks # <<>>
    /\ tasks' = Tail(tasks)
    /\ \E a \in CopyAt :
         /\ \A v \in Workers : wk[v] # Idle => wk[v].at # a
         /\ wk' = [wk EXCEPT ![w] = [pc |-> "check", p |-> Head(tasks).p, blk |-> Head(tasks).blk,
                                     left |-> PREFETCH_WINDOW, buf |-> <<>>, at |-> a]]
    /\ UNCHANGED <<phase, entries, bitmap, lru, gmtx, disk, frame, ret, ev, fl, history, counts>>

\* Mutant: the block is not counted.
AdvanceUncounted(w) ==
    wk' = [wk EXCEPT ![w] = [@ EXCEPT !.pc = "check", !.buf = <<>>]]

\* Go on with the next block of the window, or end.
Advance(w) ==
    wk' = [wk EXCEPT ![w] = [@ EXCEPT !.pc = "check", !.blk = wk[w].blk + 1,
                                      !.left = wk[w].left - 1, !.buf = <<>>]]

PrefetchDone(w) ==
    /\ wk[w].pc = "check" /\ wk[w].left = 0
    /\ wk' = [wk EXCEPT ![w] = Idle]
    /\ UNCHANGED <<phase, index, gmtx, disk, frame, ret, ev, fl, history, counts>>

PrefetchCheck(w) ==
    /\ wk[w].pc = "check" /\ wk[w].left > 0
    /\ IF Len(readBlock(store[wk[w].p], Offset(wk[w].blk))) = kBlockSize
       THEN Advance(w)
       ELSE wk' = [wk EXCEPT ![w].pc = "download"]
    /\ UNCHANGED <<phase, index, gmtx, disk, frame, ret, ev, fl, history, counts>>

PrefetchDownload(w) ==
    /\ wk[w].pc = "download"
    /\ gmtx = "free" /\ gmtx' = "held"
    /\ wk' = [wk EXCEPT ![w].pc = "response"]
    /\ UNCHANGED <<phase, index, disk, frame, ret, ev, fl, history, counts>>

PrefetchResponse(w) ==
    /\ wk[w].pc = "response"
    /\ gmtx' = "free"
    /\ \E ok \in BOOLEAN :
         LET got == download(wk[w].p, wk[w].blk) IN
         /\ IF ok THEN Fine ELSE Fault("net")
         /\ IF ok /\ got # <<>>
            THEN wk' = [wk EXCEPT ![w] = [@ EXCEPT !.pc = "fill", !.buf = got]]
            ELSE Advance(w)
    /\ UNCHANGED <<phase, index, disk, frame, ret, ev, fl, history, writes, ops, crashes>>

PrefetchFill(w) ==
    /\ wk[w].pc = "fill"
    /\ StoreWrite(wk[w].p, wk[w].buf, wk[w].blk)
    /\ wk' = [wk EXCEPT ![w].pc = "touch"]
    /\ UNCHANGED <<phase, index, gmtx, local, dmap, frame, ret, ev, fl, history, writes, ops, crashes>>

PrefetchTouch(w) ==
    /\ wk[w].pc = "touch"
    /\ lru' = touched(wk[w].at, wk[w].blk, 1)
    /\ Advance(w)
    /\ UNCHANGED <<phase, entries, bitmap, tasks, gmtx, disk, frame, ret, ev, fl, history, counts>>

-----------------------------------------------------------------------------
Quiet ==
    /\ Free /\ tasks = <<>>
    /\ \A w \in Workers : wk[w] = Idle
    /\ \A e \in Evictors : ev[e] = Idle

\* Nothing is left to do: any other state without a step is a deadlock.
Rest == Quiet /\ (phase = "released" \/ ops = MaxOps) /\ UNCHANGED vars

-----------------------------------------------------------------------------
CallStep ==
    \/ Finish
    \/ ReadStore \/ ReadDownload \/ ReadResponse \/ ReadFill \/ ReadCopy
    \/ WriteLoad \/ WriteStore \/ WriteMark \/ WriteTrack

FlushLoop == FlushReturn \/ \E p \in Paths : FlushNext(p)

FlushStep(f) == PersistWrite(f) \/ \E k \in Parts : PersistOpen(f, k)

EvictStep(e) ==
    \/ EvictCheck(e) \/ EvictPop(e) \/ EvictDelete(e) \/ EvictFlush(e) \/ EvictMark(e)

PrefetchStep(w) ==
    \/ PrefetchTake(w) \/ PrefetchDone(w) \/ PrefetchCheck(w) \/ PrefetchDownload(w)
    \/ PrefetchResponse(w) \/ PrefetchFill(w) \/ PrefetchTouch(w)

Next ==
    \/ \E op \in {"read", "write"}, p \in Paths, r \in Ranges : Begin(op, p, r[1], r[2])
    \/ CallStep
    \/ FlushAll \/ Cleanup \/ FlushLoop
    \/ \E e \in Evictors, n \in Limits : EvictBegin(e, n)
    \/ \E e \in Evictors : EvictStep(e) \/ EvictDies(e)
    \/ \E f \in Evictors \cup {Caller} : FlushStep(f)
    \/ \E w \in Workers : PrefetchStep(w)
    \/ Crash \/ Rest

Spec == Init /\ [][Next]_vars

\* A thread that can go on does, and the backend answers in the end: curl is
\* given no timeout, so this is an assumption on the server.  Whoever waits for
\* g_mtx gets it because only finitely many downloads are asked for.
Fairness ==
    /\ WF_vars(CallStep \/ FlushLoop \/ FlushStep(Caller))
    /\ \A e \in Evictors : WF_vars(EvictStep(e) \/ FlushStep(e) \/ EvictDies(e))
    /\ \A w \in Workers : WF_vars(PrefetchStep(w))

FairSpec == Spec /\ Fairness
=============================================================================
