SPECIFICATION FairSpec
CONSTANTS
    NULL = NULL
    w = w  f = f  g = g  a = a  b = b  c = c
    Handlers = {h1}
    Pollers = {t1}
    Recs = {r1, r2}
    Subs <- LiveSubs
    Key <- LiveKey
    Wild <- MCWild
    Params <- MCParams
    Match <- LiveMatch
    Values = {a, b}
    Filter <- LiveFilter
PROPERTIES
    CallsReturn
    ReadChangesPublished
