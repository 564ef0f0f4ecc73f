------------------------- MODULE MCCachingCatalog ---------------------------
(* The caching catalog with two callers and two partitions. *)
EXTENDS CachingCatalog, TLC

MCKey == {1, 2}
MCGeneration == 1 .. MaxSnaps
Symmetry == Permutations(Client)
=============================================================================
