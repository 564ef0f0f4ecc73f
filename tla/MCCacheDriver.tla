--------------------------- MODULE MCCacheDriver ---------------------------
(* CacheDriver with a few callers of one key. *)
EXTENDS CacheDriver
=============================================================================
