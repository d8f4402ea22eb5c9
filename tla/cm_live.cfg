CONSTANTS
    Containers = {c1}
    Calls = {e1, e2}
    StopCalls = {s1}
    Faults = {"create", "start", "inspect", "ready", "killCreate", "killStart", "killInspect", "kill"}
    UseDuringCreate = FALSE
    MaxCrashes = 0
SPECIFICATION FairSpec
CHECK_DEADLOCK FALSE
PROPERTIES BusyIsReleased StopRemoves ImplementsFairPool
