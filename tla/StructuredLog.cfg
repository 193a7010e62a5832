\* Two crawlers that log to one path.
CONSTANTS
    Crawlers = {c1, c2}
    MaxLines = 2
    MaxRotations = 1
    Faults = {"unwritable", "full", "kill"}
SPECIFICATION Spec
INVARIANTS
    TypeOK
    LogFollowsItsCrawler
    TornOnlyBetweenCrawlers
CHECK_DEADLOCK FALSE
