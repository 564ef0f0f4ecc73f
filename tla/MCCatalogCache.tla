--------------------------- MODULE MCCatalogCache ---------------------------
(* Two threads on two keys; the limit is below the total size of the values. *)
EXTENDS CatalogCache, TLC

CONSTANTS k1, k2, t1, t2

MCKeys == {k1, k2}
MCThreads == {t1, t2}
MCSizes == {0, 1, 3}
MCGens == 0..2

\* Keys and threads are interchangeable.
Symmetry == Permutations(MCKeys) \cup Permutations(MCThreads)
=============================================================================
