SPECIFICATION FairSpec
CONSTANTS
    NULL = NULL
    Handlers = {h1, h2}
    Subs <- MCSubs
    Period <- MCPeriod
    Duration <- MCDuration
INVARIANTS
    TypeOK
    NoEventAfterUnsubscribe
    DurationHonoured
    NoFreedRecordUsed
PROPERTIES
    CallsReturn
    DurationEnds
