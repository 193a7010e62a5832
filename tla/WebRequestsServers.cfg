\* Two servers that share the configuration file and the log directories, which
\* are two levels deep; the catalog stays empty.
CONSTANTS
    Paths = {}
    MaxRuns = 0
    Servers = {s1, s2}
    Configurations = {sound, unsound}
    Valid = {sound}
    NoConfiguration = NoConfiguration
    RecentLimit = 1
    LogDepth = 2
SPECIFICATION Spec
INVARIANTS
    TypeOK
    ConfigurationWasValidated
PROPERTY DirectoryRaceIsHarmless
CHECK_DEADLOCK FALSE
