------------------------ MODULE MCQuorumCatalogCache ------------------------
(* Three nodes and one reader; one node reads, evicts, restarts and warms.  *)
EXTENDS QuorumCatalogCache, TLC

CONSTANTS n1, n2, n3, r1

MCNode == {n1, n2, n3}
OneReader == {r1}
NodeOne == {n1}

OneSymmetry == Permutations({n2, n3})
=============================================================================
