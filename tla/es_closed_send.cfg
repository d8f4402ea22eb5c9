CONSTANTS
    MaxFrames = 1
    MaxLen = 1
    BufLength = 2
    Base = 0
    MaxUse = 0
    W = 4
    NsPerMs = 2
    BytesPerMb = 2
    LimitCPU = 1
    LimitNet = 1
    RunTime = 1
    Faults = {}
    AfterReturn = "closes"
SPECIFICATION Spec
CHECK_DEADLOCK FALSE
INVARIANT NoSendOnClosed
