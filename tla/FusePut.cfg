SPECIFICATION Spec
CONSTANTS
    Zero = Zero
    Names <- FileNames
    Dirs <- FileDirs
    Threads = {t1}
    ChunkSize = 2
    MaxFaults = 0
    Urls <- ServerUrl
    InitFiles <- OneFile
    Ops <- SomeOps
    Ranges <- TwoRanges
    IntMax = 2
    MaxWrites = 2
    MaxRequests = 5
INVARIANTS
    RangeWritesKeepTheRest
CHECK_DEADLOCK FALSE
