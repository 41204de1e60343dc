CONSTANTS
    Process <- MCProcess
    Thread <- MCThread
    processOf <- MCProcessOf
    Address <- MCAddress
    Spot <- MCSpot
    Candidates <- MCCandidates
    Google = TRUE
    Nominatim = TRUE
    MinInterval = 2
    Backoff = 1
    MaxLookups = 3
    None = None
SPECIFICATION FairSpec
INVARIANTS
    TypeOK
    OutagesAreNotCached
    StringsResolvedOnce
PROPERTIES
    SpacedCalls
    EveryLookupEnds
