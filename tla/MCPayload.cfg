\* Payload protection: mixed back ends, damaged frames, mistyped keys.
SPECIFICATION Spec
CONSTANTS
    KeyBytes = 2
    Keys <- TwoKeys
    Typos <- Mistyped
    Lengths = {3, 4}
    Word = 2
    MacBlock = 4
    StreamBlock = 4
    GpuWorks = {"a", "b"}
    MaxFrames = 2
CHECK_DEADLOCK FALSE
INVARIANTS
    TypeOK
    GeneratedKeyWorks
    TamperRejected
    Interoperates
    KeystreamOnce
