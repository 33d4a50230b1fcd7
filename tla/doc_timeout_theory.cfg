CONSTANTS
    Suites <- TheoryLimit
    MaxActs = 1
    Timeout = 0
    FullStats = FALSE
    LateBoot = FALSE
    NbWorkers = 1
    FailFast = FALSE
    IgnoreWarnings = FALSE
SPECIFICATION Spec
INVARIANTS
    TimeoutReported
