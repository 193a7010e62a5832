\* Does a crawl end beside a crawler that may stop at any step?
CONSTANTS
    Paths = {"root", "dir", ".loop"}
    NoPath = NoPath
    MaxRuns = 2
    Crawlers = {"walker", "other"}
    Nobody = Nobody
    MaxVisits = 4
    Faults = {"stat", "iterator", "hidden_link"}
    Walker = "walker"
    TreeRoot = "root"
    Parent <- MCParent
    Kind <- MCKind
    HiddenNames <- MCHiddenNames
    Sealable = {}
    Follow = FALSE
    IncludeHidden = FALSE
    WalkFaults = {}
    OtherRoots = {"root"}
    OtherVisits = 0
SPECIFICATION FairSessionSpec

PROPERTY WalkerEnds
CHECK_DEADLOCK FALSE
