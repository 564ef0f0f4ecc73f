SPECIFICATION Spec
CONSTANTS
    Client = {c1, c2}
    Key <- MCKey
    MaxVersion = 1
    MaxSnaps = 2
    Generation <- MCGeneration
    Fanout = 2
    Failing = TRUE
SYMMETRY Symmetry
INVARIANTS ReadsAreCurrent NoLostUpdate
CHECK_DEADLOCK FALSE
