SPECIFICATION Spec
CONSTANTS
    Params <- MCParams
    Objs = {"o1", "o2"}
    Values = {0, 1}
    ObjOf <- MCObjOf
    BulkObjs = {"o2"}
    NoValue = NoValue
    Writers = {"ui", "acs"}
    UI = "ui"
    SNMP = "acs"
    AccessList <- MCUiAcs
    Monitored = {"b"}
    Notified = {"b", "c"}
    Unreadable = {}
    Refused <- MCAllRefused
    Lengthy <- MCAllLengthy
    Sessions = {0, 7}
    Requests <- MCAllRequests
    CommitFlags = {TRUE, FALSE}
    MaxVars = 3
    MaxObjs = 3
    Overrun = TRUE
    CommitMayFail = FALSE
    Inside = {"set", "own", "stage", "commit", "rollback"}
    MaxDepth = 2
INVARIANTS
    TypeOK
    Bookkeeping
