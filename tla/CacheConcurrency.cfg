SPECIFICATION FairSpec
CONSTANTS
    p1 = p1
    w1 = w1
    e1 = e1
    e2 = e2
    c1 = c1
    Zero = Zero
    Junk = Junk
    Paths <- OnePath
    Workers <- OneWorker
    Evictors <- TwoEvictors
    PREFETCH_WINDOW = 1
    kBlockSize = 2
    kMaxPartSize = 4
    MaxPart = 2
    kCacheBlocksCapacity = 2
    RemoteLen <- Len5
    Ranges <- StreamRanges
    Caller = c1
    EntryAt <- EntryBelow
    CopyAt <- CopiesAnywhere
    Half = 8
    Limits = {3}
    MaxOps = 3
    MaxFaults <- NoFaults
    MaxCrashes = 0
INVARIANTS
    PlainCopyHasWrites
    DirtyIsPersisted
    NoForeignData
PROPERTIES
    CallsReturn
    EvictionEnds
    PrefetchEnds
