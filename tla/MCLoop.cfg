CONSTANTS
    e1 = e1
    t1 = t1
    None = None
    Signal <- MCSignal
    Event <- MCEvent
    Item <- MCItem
    Limit <- MCLimit
    DefaultLimit = 1
    Jobs <- MCJobs
    Scans <- MCScans
    interval <- MCInterval
    Thread <- MCThread
    Loop = TRUE
    MaxItems = 1
    MaxReturns = 2
    MaxOutages = 1
SPECIFICATION LoopSpec
PROPERTIES
    LoopDrains
