SPECIFICATION FairSpec
CONSTANTS
    Object = {o1}
    MaxClock = 3
    ObjectCutoff = 1
    FileCutoff = 1
    CommitDelay = 0
    Buffer = 1
    BatchSize = 2
INVARIANTS RowsHaveObjects FlaggedObjectsStay
PROPERTIES GarbageIsCollected ListingEnds
CHECK_DEADLOCK FALSE
