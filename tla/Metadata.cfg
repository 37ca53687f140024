SPECIFICATION Spec
CONSTANTS
    o1 = o1
    p1 = p1
    f1 = f1
    f2 = f2
    Objects <- OneObject
    Parts = {0, 1}
    MaxBlock = 2
    ByteBits = 2
    Flushers <- OneFlusher
    Paths <- OnePath
    Contents = {1, 2}
    NoFile = NoFile
    NoTable = NoTable
    MaxOps = 5
    MaxFaults = 1
    MaxCrashes = 1
INVARIANTS
    TypeOK
    NoInventedDirt
    FlushedStaysOnDisk
