CONSTANTS
    Byte = {"a", "b"}
    Uninit = "?"
    MaxSize = 4
    FirstRegion = 2
    SizeMax = 15
    Writes <- SomeWrites
    Counts <- SomeCounts
    Offsets <- SomeOffsets
    Block = 3
    Capacity = 4
    NbFds = 7
    NbPipes = 4
    MaxPrints = 2
    Texts <- SomeTexts
SPECIFICATION RedirectSpec
INVARIANTS
    InBounds
    EndsMatch
    OutputKept
    VerdictTrue
PROPERTIES
    ImplementsByteFile
    CallsReturn
