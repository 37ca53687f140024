SPECIFICATION FairSpec
CONSTANTS
    c1 = c1
    c2 = c2
    Callers <- MCCallers
    NoOne = NoOne
    NumThreads = 3
    MaxTasks = 4
    MaxSpurious = 2
INVARIANTS
    TypeOK
    ExactlyOnce
    NoLostWakeup
    NobodySleepsThroughStop
    DrainedOnDestroy
PROPERTIES
    ImplementsTaskQueue
    EveryTaskRuns
    DestructorReturns
