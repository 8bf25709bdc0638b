\* A connection both applications have finished with: violated.
SPECIFICATION FairSpec
CONSTANTS
    MaxSend <- OneUpTwoDown
    ChunkSize = 1
    HdrCells = 1
    BodyCells = 1
    WireCap = 1
    LocalCap = 1
    GpuSides = {}
PROPERTY BothShutEnds
CHECK_DEADLOCK FALSE
