CONSTANTS
    Suites <- MixedSuites
    MaxActs = 1
    Timeout = 0
    FullStats = FALSE
    LateBoot = FALSE
    NbWorkers = 2
    FailFast = FALSE
    IgnoreWarnings = FALSE
SPECIFICATION Spec
INVARIANTS
    OneVerdict
    Accounting
    Complete
    HookOrder
    NoSilentLoss
PROPERTIES
    ImplementsPool
