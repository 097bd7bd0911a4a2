SPECIFICATION FairSpec
CONSTANTS
    Tasks = {t1, t2, t3, t4}
    NoTask = NoTask
    MaxCalls = 4
INVARIANTS
    TypeOK
    MutualExclusion
    NestingBalanced
PROPERTIES
    ImplementsReentrantLock
    WaitersProceed
