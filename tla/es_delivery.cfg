CONSTANTS
    MaxFrames = 2
    MaxLen = 3
    BufLength = 2
    Base = 0
    MaxUse = 0
    W = 4
    NsPerMs = 2
    BytesPerMb = 2
    LimitCPU = 1
    LimitNet = 1
    RunTime = 1
    Faults = {"stream"}
    AfterReturn = "closes"
SPECIFICATION Spec
CHECK_DEADLOCK FALSE
INVARIANTS TypeOK CompleteOnExit DeliveredInOrder AtMostOneLateChunk
PROPERTIES ExecuteReturns StreamerEnds
