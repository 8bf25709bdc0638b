\* Safety, refinement and progress of the tunnel, with every failure it
\* handles; only the target service is sure to read.
SPECIFICATION OneReaderSpec
CONSTANTS
    MaxSend <- OneUpTwoDown
    ChunkSize = 2
    HdrCells = 2
    BodyCells = 1
    WireCap = 2
    LocalCap = 1
    GpuSides = {"serve"}
INVARIANTS
    TypeOK
    Integrity
    FramingInSync
    CleanEof
    StreamInv
PROPERTIES
    PipeSpec
    RequestsGetThrough
    EndIsNoticed
\* Applications may stop sending and reading for good.
CHECK_DEADLOCK FALSE
