CONSTANTS
    Suites <- TheorySuites
    MaxActs = 1
    Timeout = 0
    FullStats = TRUE
    LateBoot = FALSE
    NbWorkers = 2
    FailFast = TRUE
    IgnoreWarnings = FALSE
SPECIFICATION Spec
INVARIANTS
    TypeOK
    NoWorkerRefused
    EveryCombination
    DataPointsInRange
PROPERTIES
    NoSpawnAfterFailure
