----------------------- MODULE MCParquetFileCatalog -------------------------
(* Writers and compactors of one partition. *)
EXTENDS ParquetFileCatalog, TLC

Symmetry == Permutations(ObjectStoreId) \cup Permutations(Client) \cup Permutations(Batch)
=============================================================================
