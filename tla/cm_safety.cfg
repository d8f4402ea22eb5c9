CONSTANTS
    Containers = {c1}
    Calls = {e1, e2, e3}
    StopCalls = {s1}
    Faults <- NoKillFaults
    UseDuringCreate = FALSE
    MaxCrashes = 1
SPECIFICATION Spec
CHECK_DEADLOCK FALSE
SYMMETRY Symmetry
INVARIANTS ExclusiveExec IdleIsSwept KillIsolation
PROPERTIES ForgetsOnlyRemoved ImplementsPool
