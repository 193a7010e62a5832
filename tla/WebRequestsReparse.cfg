\* Two servers and the configuration file they share.
CONSTANTS
    Paths = {}
    MaxRuns = 0
    Servers = {s1, s2}
    Configurations = {sound, unsound}
    Valid = {sound}
    NoConfiguration = NoConfiguration
    RecentLimit = 1
    LogDepth = 2
SPECIFICATION Spec
INVARIANT ValidatedConfigurationIsUsed
CHECK_DEADLOCK FALSE
