CONSTANTS
    Ground <- MCGround
    Spot <- MCSpot
    Radius <- MCRadius
    MaxRadius = 8
    CellSize = 2
    Tolerance = 3
    City <- OneCity
    Stale = 0
    Keep = 0
    MaxTime = 1
    MaxRunning = 2
    MaxRescans = 1
    None = None
    Document <- MCDocument
    Format <- MCFormat
    Lists <- MCLists
    Listing <- MCListing
    Published <- MCPublished
    TextHits <- MCTextHits
    ConfiguredUrls <- MCConfiguredUrls
    NearbyFeeds <- MCNearbyFeeds
    Answers <- MCAnswers
    Mocks = TRUE
    Job <- MCJob
    GeoSources <- MCGeoSources
    MaxRequests = 2
    s1 = s1
    s2 = s2
    Creator <- Sessions
    Ask <- MCAsk
    Organizer = {"host"}
    GenericName = {"lagos"}
    Ratio <- MCRatio
    Fuzzy = 82
    SamePlace = 2
    GenericPlace = 0
    CityAt <- MCCityAt
    PinOf <- MCPinOf
    MaxVenues = 2
    Thread <- Sessions
    Request <- MCRequest
    IsGlobal = {"lagos", "accra"}
    ApiKeySet = TRUE
    PublicRead = TRUE
    Limit = 2
    Window = 2
    MaxKeys = 2
    MaxWait = 1
    Client <- Sessions
    GoogleKey = TRUE
    PhotonEnabled = TRUE
    DownTime = 1
    Snapshot = {"lagos"}
    Newer = {"accra"}
    DirectoryTerm = 2
    Origin = {"site"}
    TokenTtl = 1
    LeastTtl = 3
    Margin = 1
    MaxLockWait = 1
    Visitor = {"v1", "v2"}
    LocateTerm = 1
    MaxLocated = 1
    SignalRow = {"signal"}
    EventRow = {"event"}
    Writer <- Sessions
    Process = {"api"}
    ProcessOf <- MCProcessOf
    Headings = 1
    Bodies = 1
    Enabled = TRUE
    MaxOpen = 1
    Story <- MCStory
    Words <- MCWords
    Cosine <- MCCosine
    Venue = {"hall", "park"}
    VenueSamePlace = 0
    Nearest = 1
    Link = 55
    Review = 35
    SameTime = 12
    SamePoint = 1
    VetoTime = 72
    VetoPlace = 50
    CandidateWindow = 336
    MaxEvents = 2
SPECIFICATION ServicesSpec
SYMMETRY Alike
INVARIANTS
    FreshWasScanned
    ServicesTypeOK
    CompletedRunsKeepEveryEvent
    FinishedRunsCount
    OneRowPerEvent
    EventsFitTheirVenue
    ScansPerWindow
    DirectoryAskedOncePerTerm
    TokensOutlastTheMargin
    VectorsFitTheirText
PROPERTIES
    ScanMakesFresh
    RescanCoversCity
    NoBetterMatch
