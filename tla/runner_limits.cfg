CONSTANTS
    Suites <- LimitSuites
    MaxActs = 1
    Timeout = 1
    FullStats = FALSE
    LateBoot = FALSE
    NbWorkers = 2
    FailFast = FALSE
    IgnoreWarnings = FALSE
SPECIFICATION FairSpec
INVARIANTS
    AbortCause
    ActiveWorkers
PROPERTIES
    VerdictFinal
    Termination
