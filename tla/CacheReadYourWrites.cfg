SPECIFICATION Spec
CONSTANTS
    p1 = p1
    w1 = w1
    e1 = e1
    e2 = e2
    c1 = c1
    Zero = Zero
    Junk = Junk
    Paths <- OnePath
    Workers <- OneWorker
    Evictors <- OneEvictor
    PREFETCH_WINDOW = 0
    kBlockSize = 2
    kMaxPartSize = 2
    MaxPart = 3
    kCacheBlocksCapacity = 1
    RemoteLen <- Len3
    Ranges <- SmallRanges
    Caller = c1
    EntryAt <- EntryBelow
    CopyAt <- CopyBelow
    Half = 8
    Limits = {0}
    MaxOps = 4
    MaxFaults <- AnyFault
    MaxCrashes = 1
INVARIANTS
    TypeOK
    ReadYourWrites
