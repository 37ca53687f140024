--------------------------- MODULE CacheProperties ---------------------------
(***************************************************************************)
(* What must hold of cache/cache_manager.cc and the components below it.   *)
(***************************************************************************)
EXTENDS CacheManager

CellAt(k, i) == k * kMaxPartSize + i - 1

\* Type invariant of the cache: the index, the disk and the call frame that the
\* CacheManager's operations assign.
TypeOK ==
    /\ phase \in {"up", "closing", "released"}
    /\ \A p \in Paths : /\ entries[p].present \in BOOLEAN /\ entries[p].evicted \in BOOLEAN
                        /\ entries[p].last \in Nat \cup {NoBlock}
                        /\ bitmap[p] \subseteq Parts \X Nat /\ dmap[p] \subseteq Parts \X Nat
                        /\ \A k \in Parts : Len(store[p][k]) <= kMaxPartSize
    /\ gmtx \in {"free", "held"}
    /\ frame.pc \in {"idle", "read", "download", "response", "fill", "copy",
                     "write", "store", "mark", "track"}
    /\ \A w \in Workers : wk[w].pc \in {"idle", "check", "download", "response", "fill", "touch"}
    /\ \A e \in Evictors : ev[e].pc \in {"idle", "check", "pop", "delete", "flush", "mark"}
    /\ \A f \in Evictors \cup {Caller} : fl[f].st \in {"none", "open", "write", "orphan"}
    /\ writes \in Nat

Own(p, c) == {Zero} \cup {<<n, p, c>> : n \in 0..writes}

(* Whatever reads, writes, prefetches, evictions, failures and crashes are *)
(* mixed, a cell on disk, in the block store or in the plain copy, is a    *)
(* hole or holds data of its own path and offset: parts and offsets are    *)
(* never mixed up (block_store.cc:45-46, 62-63) and the uninitialised tail *)
(* of a buffer is never stored (cache_manager.cc:107, 203).                *)
NoForeignData ==
    \A p \in Paths :
        /\ \A k \in Parts : \A i \in 1..Len(store[p][k]) : store[p][k][i] \in Own(p, CellAt(k, i))
        /\ \A i \in 1..Len(local[p]) : local[p][i] \in Own(p, i - 1)

(* As long as no file write failed, a read returns what the last write of  *)
(* each cell put there, until the object is evicted, across restarts too   *)
(* (cache_manager.cc:94, 143-146; README.md:40, "Operate on /tmp/mnt just  *)
(* like a local directory").  It takes the read-modify-write of partly     *)
(* written blocks, and no write may be overtaken by an older fill.         *)
ReadYourWrites ==
    (ret.op = "read" /\ faults["disk"] = 0) =>
        \A i \in 1..Len(ret.data) :
            LET n == latest[ret.p][ret.off + i - 1] IN
            n > since[ret.p] => ret.data[i] = <<n, ret.p, ret.off + i - 1>>

(* Eviction never costs written data its plain copy: between calls, as long*)
(* as no file write failed and the process was not killed within a write,  *)
(* the file under root_ has the last write of every cell, also after the   *)
(* object was evicted (cache_manager.cc:152-153; test_eviction.cc:38-45).  *)
PlainCopyHasWrites ==
    (frame = Idle /\ faults["disk"] = 0 /\ crashes = 0) =>
        \A p \in Paths, c \in Cells :
            latest[p][c] > 0 => /\ c < Len(local[p])
                                /\ local[p][c + 1] = <<latest[p][c], p, c>>

(* After the cache_cleanup with which main ends, when its handler threads  *)
(* have returned (fuse.cc:494-498), the bitmaps on disk name every stored  *)
(* block that holds written data (cache_manager.cc:148, 163, 179): also of *)
(* an object that was deleted under a running write, of one whose bitmap   *)
(* files an eviction removed with it, and where earlier flushes of the same*)
(* part overtook each other (metadata_store.cc:222-231).  A crash loses the*)
(* bitmaps that were not flushed and a failing disk those that were: a     *)
(* process that met one is left out.                                       *)
DirtyIsPersisted ==
    (phase = "released" /\ crashes = 0 /\ faults["disk"] = 0) =>
        \A p \in Paths, k \in Parts : \A i \in 1..Len(store[p][k]) :
            (store[p][k][i] # Zero /\ store[p][k][i][1] > 0)
                => <<k, CellAt(k, i) \div kBlockSize>> \in dmap[p]

(* Every call that takes mu_ returns, whatever holds g_mtx meanwhile.      *)
CallsReturn == []<>Free

(* evict_until_gb ends even if the limit cannot be reached because nothing *)
(* that is left in the policy can be deleted (cache_manager.cc:173-177).   *)
EvictionEnds == \A e \in Evictors : []<>(ev[e] = Idle)

(* Every scheduled prefetch is taken up and ends.                          *)
PrefetchEnds == []<>(tasks = <<>> /\ \A w \in Workers : wk[w] = Idle)

-----------------------------------------------------------------------------
(* Statements of the documents and tests that the code does not keep.      *)

(* README.md:63, "Transparently maps filesystem calls into cache lookups or*)
(* HTTP fetches": a cell nobody wrote reads as the remote copy has it.     *)
ReadsAreTransparent ==
    ret.op = "read" =>
        \A i \in 1..Len(ret.data) :
            LET c == ret.off + i - 1 IN
            (c < RemoteLen[ret.p] /\ latest[ret.p][c] = 0) => ret.data[i] = <<0, ret.p, c>>
=============================================================================
