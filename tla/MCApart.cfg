CONSTANTS
    e1 = e1
    e2 = e2
    p1 = p1
    p2 = p2
    w1 = w1
    w2 = w2
    w3 = w3
    None = None
    Signal <- MCSignals
    Event <- MCEvents
    Item <- OneItem
    Limit <- MCLimit
    DefaultLimit = 1
    Process <- MCProcess
    Session <- MCSession
    processOf <- MCProcessOf
    Kinds <- Everything
SPECIFICATION ApartSpec
INVARIANTS
    TypeOK
    References
    OnePassAtATime
PROPERTIES
    KeepsPromise
    ThreadLockIsReleased
