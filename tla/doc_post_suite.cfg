CONSTANTS
    Unset = Unset
    NoPath = NoPath
    Sessions <- ParallelSessions
    Standard <- Terminals
    Selects <- SomeSelects
    Endings <- AllEndings
    Processors = 2
    Dirs = {"dir"}
    Files <- SomeFiles
SPECIFICATION SessionSpec
INVARIANTS
    PostSuiteLast
