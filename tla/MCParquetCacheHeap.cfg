CONSTANTS
    a = a
    b = b
    CacheSpec <- MCTwoSizes
    MaxEdits = 1
    Conn = {c1, c2}
    MaxRevision = 3
    Object = {1, 2}
    Capacity = 1
    MaxWriteBacks = 2
    U64 = 8
SPECIFICATION MCSpec
INVARIANTS RemoverFindsAnEntry
CHECK_DEADLOCK FALSE
