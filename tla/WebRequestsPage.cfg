\* One server beside the crawlers: what a page is made of.
CONSTANTS
    Paths = {p1, p2}
    MaxRuns = 2
    Servers = {s1}
    Configurations = {sound}
    Valid = {sound}
    NoConfiguration = NoConfiguration
    RecentLimit = 1
    LogDepth = 1
SPECIFICATION Spec
INVARIANTS
    HomePageReadsForward
    MissingTablesShowAtOnce
CHECK_DEADLOCK FALSE
