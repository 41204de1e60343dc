CONSTANTS
    Ground <- MCGround
    Spot <- OneSpot
    Radius <- OneRadius
    MaxRadius = 9
    CellSize = 2
    Tolerance = 3
    City <- OneCity
    Stale = 1
    Keep = 1
    MaxTime = 3
    MaxRunning = 1
    MaxRescans = 2
    None = None
SPECIFICATION Spec
PROPERTIES
    RescansOnlyVisited
