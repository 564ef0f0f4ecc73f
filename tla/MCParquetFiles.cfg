SPECIFICATION Spec
CONSTANTS
    ObjectStoreId = {o1, o2, o3, o4}
    Batch = {b1, b2}
    Client = {c1, c2}
    MaxTime = 2
    Cutoff = 1
    MaxSelected = 2
    NoTime = NoTime
SYMMETRY Symmetry
INVARIANTS NoDataTwice NoDataLost RemovedForGood
CHECK_DEADLOCK FALSE
