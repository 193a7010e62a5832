\* Every way to type up to four arguments.
CONSTANTS
    Words = {"path", ""}
    Empty = ""
    MaxArguments = 4
SPECIFICATION Spec
INVARIANTS
    TypeOK
    CrawlRunsAsTyped
    RefusalIsDeserved
CHECK_DEADLOCK FALSE
