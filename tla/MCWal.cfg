SPECIFICATION Spec
CONSTANTS
    MaxOp = 2
    MaxRotating = 2
    MaxSegment = 2
    MaxCrashes = 1
    Failing = TRUE
INVARIANTS AckedSurvive ReplayInOrder RotateReturnsItsWrites
PROPERTIES WritersAreTold
CHECK_DEADLOCK FALSE
