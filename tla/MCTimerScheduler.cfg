SPECIFICATION FairSpec
CONSTANTS
    Owners = {o1}
    Tasks = {k1}
    Timers = {"once", "per"}
    Periodic = {"per"}
    Intervals <- MCIntervals
    Wrap = 5
    Skews = {0, 3}
    CallSkews = {0}
    NULL = NULL
INVARIANTS
    TypeOK
    QueueSound
    StateFollowsCalls
PROPERTIES
    NeverEarly
    DueTimersFire
    StoppedTasksEnd
\* After AnscTsoRemove nobody uses the scheduler any more.
CHECK_DEADLOCK FALSE
