\* A crawl of a small tree that changes, beside another crawler.
CONSTANTS
    Paths = {"root", "dir", "dir/file"}
    NoPath = NoPath
    MaxRuns = 2
    Crawlers = {"walker", "other"}
    Nobody = Nobody
    MaxVisits = 4
    Faults = {"stat", "iterator", "hidden_link", "kill"}
    Walker = "walker"
    TreeRoot = "root"
    Parent <- MCParent
    Kind <- MCKind
    HiddenNames <- MCHiddenNames
    Sealable = {"dir"}
    Follow = FALSE
    IncludeHidden = FALSE
    WalkFaults = {"read"}
    OtherRoots = {"root", "dir"}
    OtherVisits = 0
SPECIFICATION SessionSpec
INVARIANTS
    CatalogIsComplete
    RunRowTellsTheWalk

CHECK_DEADLOCK FALSE
