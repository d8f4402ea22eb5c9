CONSTANTS
    Instances = {i1, i2}
    Skipping = {i2}
    Tree <- SmallTree
    Names = {1, 2, 3}
    Objects = 2
    c1 = c1
    c2 = c2
    c3 = c3
    Contents = {c1, c2, c3}
    Releases <- TwoReleases
    Retries = 2
    Faults = {"connect", "query", "exec", "begin", "commit", "dir", "readdir", "read", "crash"}
SPECIFICATION Spec
CHECK_DEADLOCK FALSE
INVARIANTS RecordsTheLatest AppliesInOrder DoneIsMigrated OnceIfAlone
PROPERTY MigrationEnds
