CONSTANTS
    Key = {"k1", "k2"}
    Member = {"m1", "m2"}
    Owner <- MCOwner
    Value <- MCValue
    Limit = 2
    MaxOps = 3
SPECIFICATION FairSpec
INVARIANTS PoliciesAgree PoolIsExact OneRefreshPerKey
PROPERTIES LateLoadsAreDropped PoolConverges RefreshesStart
CHECK_DEADLOCK FALSE
