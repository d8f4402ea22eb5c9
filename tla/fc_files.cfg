CONSTANTS
    Calls = {g1, g2}
    Retries = 2
    Faults = {"db", "timeout", "get", "disk", "copy"}
    MaxCrashes = 1
SPECIFICATION FileSpec
CHECK_DEADLOCK FALSE
INVARIANTS RecordedFileIsWhole BodyIsWhole
PROPERTIES FullStaysFull BackgroundEnds
