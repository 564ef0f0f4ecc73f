SPECIFICATION Spec
CONSTANTS
    k1 = k1
    k2 = k2
    t1 = t1
    t2 = t2
    Keys <- MCKeys
    Threads <- MCThreads
    Sizes <- MCSizes
    Gens <- MCGens
    Limit = 4
    Vacant = Vacant
SYMMETRY Symmetry
INVARIANTS Accounting WithinLimit ObserverMirrors
PROPERTIES GenerationsAdvance
