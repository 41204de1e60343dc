CONSTANTS
    Ground <- MCGround
    Spot <- OneSpot
    Radius <- SmallAndLarge
    MaxRadius = 9
    CellSize = 2
    Tolerance = 3
    City <- OneCity
    Stale = 1
    Keep = 1
    MaxTime = 3
    MaxRunning = 1
    MaxRescans = 0
    None = None
SPECIFICATION Spec
INVARIANTS
    FreshIsRecent
