\* A directory is removed while the crawl goes on.
CONSTANTS
    Nodes = {"root", "dir", "dir/file", "file"}
    Root = "root"
    Parent <- MCParent
    Kind <- MCKind
    HiddenNames <- MCHiddenNames
    Sealable = {}
    None = None
    Follow = FALSE
    IncludeHidden = FALSE
    Faults = {}
SPECIFICATION Spec
INVARIANT FailuresDoNotStopTheScan
CHECK_DEADLOCK FALSE
