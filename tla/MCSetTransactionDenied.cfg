SPECIFICATION Spec
CONSTANTS
    Params <- MCParams
    Objs = {"o1", "o2"}
    Values = {0, 1}
    ObjOf <- MCObjOf
    BulkObjs = {}
    NoValue = NoValue
    Writers = {"ui", "acs"}
    UI = "ui"
    SNMP = "snmp"
    AccessList <- MCUiAcs
    Monitored = {"b"}
    Notified = {}
    Unreadable = {}
    Refused = {}
    Lengthy = {}
    Sessions = {0}
    Requests <- MCDeniedRequests
    CommitFlags = {TRUE}
    MaxVars = 3
    MaxObjs = 2
    Overrun = FALSE
    CommitMayFail = FALSE
    Inside = {}
    MaxDepth = 1
PROPERTY
    NothingUnasked
