SPECIFICATION Spec

CONSTANTS
    Comps = {"local", "remote"}
    Names <- MCNames
    InvalidNames = {"x"}
    Requests <- MCRequests
    Objs = {"Dev", "Obj"}
    Under <- MCUnder
    Prefix <- MCPrefix
    SubsysPrefix = "eRT."
    MaxDepth = 3
    Width = 4
    None = "none"
    Freed = "freed"

INVARIANTS
    TypeOK
    IndexMatchesQueues
    CountExact

PROPERTY DirectoryKept
