----------------------- MODULE MCGarbageCollector ---------------------------
(* The garbage collector with few objects. *)
EXTENDS GarbageCollector
=============================================================================
