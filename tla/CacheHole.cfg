SPECIFICATION Spec
CONSTANTS
    p1 = p1
    w1 = w1
    e1 = e1
    e2 = e2
    c1 = c1
    Zero = Zero
    Junk = Junk
    Paths <- OnePath
    Workers <- OneWorker
    Evictors <- OneEvictor
    PREFETCH_WINDOW = 0
    kBlockSize = 2
    kMaxPartSize = 2
    MaxPart = 3
    kCacheBlocksCapacity = 2
    RemoteLen <- Len4
    Ranges <- SmallRanges
    Caller = c1
    EntryAt <- EntryBelow
    CopyAt <- CopyBelow
    Half = 8
    Limits = {}
    MaxOps = 2
    MaxFaults <- NoFaults
    MaxCrashes = 0
INVARIANT
    ReadsAreTransparent
