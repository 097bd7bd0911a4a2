SPECIFICATION FairSpec
CONSTANTS
    Owners = {o1}
    Tasks = {k1}
    Timers = {"once", "per"}
    Periodic = {"per"}
    Intervals <- MCIntervals
    Wrap = 5
    Skews = {0, 3}
    CallSkews = {0, 3}
    NULL = NULL
PROPERTY
    NoInvokeAfterStop
CHECK_DEADLOCK FALSE
