SPECIFICATION Spec
CONSTANTS
    Params <- MCParams
    Objs = {"o1", "o2"}
    Values = {0, 1}
    ObjOf <- MCObjOf
    BulkObjs = {}
    NoValue = NoValue
    Writers = {"acs", "snmp"}
    UI = "ui"
    SNMP = "snmp"
    AccessList <- MCAcsSnmp
    Monitored = {}
    Notified = {"c"}
    Unreadable = {}
    Refused = {}
    Lengthy <- MCNestLengthy
    Sessions = {0}
    Requests <- MCNestRequests
    CommitFlags = {TRUE, FALSE}
    MaxVars = 4
    MaxObjs = 2
    Overrun = FALSE
    CommitMayFail = TRUE
    Inside = {"set"}
    MaxDepth = 2
INVARIANT
    WorkClean
PROPERTY
    UnaskedOnlyIfSpoilt
