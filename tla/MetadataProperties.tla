------------------------- MODULE MetadataProperties --------------------------
(***************************************************************************)
(* What must hold of cache/policy/metadata/metadata_store.cc.              *)
(***************************************************************************)
EXTENDS MetadataStore

BitVec == [size : 0..(MaxBlock + 1), ones : SUBSET Blocks]
Byte == SUBSET (0..(ByteBits - 1))

\* Type invariant of the metadata store: bit vectors no longer than the part,
\* files of whole bytes, the table and its rows, what flushes are doing.
TypeOK ==
    /\ bitmap \in [Objects -> [Parts -> BitVec]]
    /\ \A o \in Objects, k \in Parts : file[o][k] = NoFile \/ file[o][k] \in Seq(Byte)
    /\ \A f \in Flushers : fl[f].pc \in {"idle", "open", "write", "orphan"}
    /\ handle \in BOOLEAN
    /\ table = NoTable \/ table \in [Paths -> CacheMetadata \cup {NoRow}]
    /\ marked \in [Objects -> SUBSET (Parts \X Blocks)]
    /\ synced \in [Objects -> SUBSET (Parts \X Blocks)]

(* The bitmap files never name a block that was not marked, whatever       *)
(* flushes, failures and crashes come together, not after a short write    *)
(* either (metadata_store.cc:222-230), and neither would loadBitmap.       *)
NoInventedDirt ==
    \A o \in Objects, k \in Parts :
        \A b \in Named(file[o][k]) \cup loadBitmap(file[o][k]).ones : <<k, b>> \in marked[o]

(* A block that was marked when a flush which returned true began stays    *)
(* named on disk, over restarts too, until a later process flushes the     *)
(* same part; a crash inside a later flush, or a write that fails in it,   *)
(* costs at most the bits of the one part whose file it had truncated      *)
(* (metadata_store.cc:227-232).                                            *)
FlushedStaysOnDisk ==
    \A o \in Objects : \A d \in synced[o] :
        \/ d[2] \in Named(file[o][d[1]])
        \/ \E f \in Flushers : fl[f].pc = "write" /\ fl[f].o = o /\ fl[f].k = d[1]
=============================================================================
