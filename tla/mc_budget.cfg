CONSTANTS
    Keys = {k1, k2, k3}
    Values = {v1, v2}
    MaxSize = 110
    KeepFirst = 1
    MaxNow = 3
    MaxUse = 2
SPECIFICATION Spec
SYMMETRY Symmetry
CHECK_DEADLOCK FALSE
INVARIANT WithinBudget
PROPERTIES UpdateEvictsNothing EvictsOneOldRecord
