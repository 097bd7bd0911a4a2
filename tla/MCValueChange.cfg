SPECIFICATION Spec
CONSTANTS
    NULL = NULL
    w = w  f = f  g = g  a = a  b = b  c = c
    Handlers = {h1, h2}
    Pollers = {t1, t2}
    Recs = {r1, r2, r3}
    Subs <- MCSubs
    Key <- MCKey
    Wild <- MCWild
    Params <- MCParams
    Match <- MCMatch
    Values = {a, b, c}
    Filter <- MCFilter
INVARIANTS
    TypeOK
    SinglePoller
    PollsWhileRecords
    NoDuplicateRecords
    NoDanglingRecord
    RecordsMatchSubs
    ListenerInStep
SYMMETRY MCSymmetry
