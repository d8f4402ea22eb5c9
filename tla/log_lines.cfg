CONSTANTS
    Requests = {r1}
    HandlerRecords = {x}
    ServiceRecords = {v1}
    LogLevels <- SomeLevels
    MinLevel = 0
SPECIFICATION Spec
CHECK_DEADLOCK FALSE
INVARIANTS LinesAsPromised PanicsAreWritten
