SPECIFICATION FairSpec
CONSTANTS
    Zero = Zero
    Names <- FileNames
    Dirs <- FileDirs
    Threads = {t1, t2}
    ChunkSize = 2
    MaxFaults = 1
    Urls <- AllUrls
    InitFiles <- OneFile
    Ops <- SomeOps
    Ranges <- TwoRanges
    IntMax = 2
    MaxWrites = 2
    MaxRequests = 5
INVARIANTS
    TypeOK
    ReadIsSnapshot
    AckedWriteApplied
    AttributesAreTrue
    CopyIsInPlace
    Survives
PROPERTIES
    RequestsAreAnswered
CHECK_DEADLOCK FALSE
