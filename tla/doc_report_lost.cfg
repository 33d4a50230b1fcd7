CONSTANTS
    Unset = Unset
    NoPath = NoPath
    Sessions <- FailFastSessions
    Standard <- Terminals
    Selects <- SomeSelects
    Endings <- AllEndings
    Processors = 2
    Dirs = {"dir"}
    Files <- SomeFiles
SPECIFICATION SessionSpec
INVARIANTS
    ReportWritten
