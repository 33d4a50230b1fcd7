CONSTANTS
    None = None
    Process <- SomeProcs
    Thread <- SomeThreads
    proc <- SomeProc
    Calls <- SomeCalls
    Worker = {"worker"}
    Extern = {"extern"}
    Version <- Versions
    MaxResends = 2
SPECIFICATION FairSpec
INVARIANTS
    AckIsMine
    Counted
PROPERTIES
    Served
CHECK_DEADLOCK FALSE
