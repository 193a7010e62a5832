\* Two crawls, no faults: is a successful exit recorded?
CONSTANTS
    Paths = {p1, p2}
    NoPath = NoPath
    MaxRuns = 2
    Crawlers = {c1, c2}
    Nobody = Nobody
    MaxVisits = 1
    Faults = {}
SPECIFICATION Spec
INVARIANT SuccessfulExitLeavesFinishedRun
CHECK_DEADLOCK FALSE
