SPECIFICATION Spec
CONSTANTS
    Subs <- MCSubs
    Interval <- MCInterval
    Timed <- MCTimed
    Wild <- MCWild
    Key <- MCKey
    Listeners <- MCListeners
    Listener <- MCListener
INVARIANTS
    TypeOK
    FileMatchesTable
    PromisesKept
    
