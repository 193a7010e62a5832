\* Two crawls of two paths, with every fault.
CONSTANTS
    Paths = {p1, p2}
    NoPath = NoPath
    MaxRuns = 2
    Crawlers = {c1, c2}
    Nobody = Nobody
    MaxVisits = 1
    Faults = {"connect", "io", "stat", "iterator", "hidden_link", "kill"}
SPECIFICATION Spec
INVARIANTS
    TypeOK
    ReferentialIntegrity
    IdentifiersUnshared
    RowsWithinAccessibleCount
    SuccessIsRecorded
PROPERTIES
    FinishedRunsAreFrozen
    ImplementsLedger
    ImplementsView
CHECK_DEADLOCK FALSE
