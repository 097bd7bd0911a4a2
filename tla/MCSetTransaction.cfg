SPECIFICATION Spec
CONSTANTS
    Params <- MCParams
    Objs = {"o1", "o2"}
    Values = {0, 1}
    ObjOf <- MCObjOf
    BulkObjs = {"o2"}
    NoValue = NoValue
    Writers = {"acs", "snmp"}
    UI = "acs"
    SNMP = "snmp"
    AccessList <- MCAcsSnmp
    Monitored = {}
    Notified = {"a", "c"}
    Unreadable = {"c"}
    Refused <- MCRefused
    Lengthy <- MCLengthy
    Sessions = {0}
    Requests <- MCRequests
    CommitFlags = {TRUE, FALSE}
    MaxVars = 3
    MaxObjs = 2
    Overrun = TRUE
    CommitMayFail = FALSE
    Inside = {}
    MaxDepth = 1
INVARIANT
    RecordsClean
PROPERTY
    AppliedOnSuccess
