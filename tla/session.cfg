CONSTANTS
    Unset = Unset
    NoPath = NoPath
    Sessions <- SomeSessions
    Standard <- Terminals
    Selects <- SomeSelects
    Endings <- AllEndings
    Processors = 2
    Dirs = {"dir"}
    Files <- SomeFiles
SPECIFICATION SessionSpec
INVARIANTS
    Registered
    Precedence
    Delivered
    NothingReplaced
    ReportsAgree
    ExitStatus
    FailureVisible
