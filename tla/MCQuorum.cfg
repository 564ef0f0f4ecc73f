SPECIFICATION Spec
CONSTANTS
    n1 = n1
    n2 = n2
    n3 = n3
    r1 = r1
    Nobody = Nobody
    Node <- MCNode
    Reader <- OneReader
    MaxGen = 2
    Reading <- NodeOne
    Evicting <- NodeOne
    Crashing <- NodeOne
    Warming <- NodeOne
    Timely = TRUE
SYMMETRY OneSymmetry
INVARIANTS StrongReads OneStaleNode
CHECK_DEADLOCK FALSE
