SPECIFICATION FairSpec
CONSTANTS
    MaxUnacked = 2
    FirstChunkRows = 1
    ChunkRows = 2
    PageRows = 3
    MaxRows = 5
    ServerRows = 6
INVARIANTS
    Backpressure
    ReleasedBeforeTerminal
    TerminalIsLast
    ResultIsTrue
PROPERTIES
    ExecutionEnds
    DeliveryKept
CHECK_DEADLOCK FALSE
