CONSTANTS
    MaxFrames = 1
    MaxLen = 1
    BufLength = 2
    Base = 1
    MaxUse = 6
    W = 4
    NsPerMs = 2
    BytesPerMb = 2
    LimitCPU = 1
    LimitNet = 1
    RunTime = 1
    Faults = {"stats"}
    AfterReturn = "reads"
SPECIFICATION Spec
CHECK_DEADLOCK FALSE
INVARIANT ConsumedIsReal
