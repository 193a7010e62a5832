\* A tree that changes during the crawl, with a hidden directory, a link that is
\* followed and a hidden link that cannot be resolved.
CONSTANTS
    Nodes = {"root", ".dir", ".dir/file", "link", "link/file", ".loop"}
    Root = "root"
    Parent <- MCParent
    Kind <- MCKind
    HiddenNames <- MCHiddenNames
    Sealable = {"root", "link"}
    None = None
    Follow = TRUE
    IncludeHidden = FALSE
    Faults = {"record", "open", "read"}
SPECIFICATION FairSpec
INVARIANTS
    TypeOK
    FinishedWalkIsClosed
    HiddenStaysOut
    CountsMatchRows
PROPERTY CrawlEnds
CHECK_DEADLOCK FALSE
