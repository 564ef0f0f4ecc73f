--------------------------- MODULE MCCachePolicies ---------------------------
(***************************************************************************)
(* Two backends with a key each.  The values of the first are refreshed,   *)
(* or expire, or do not fit in the pool; together they exceed the pool.    *)
(***************************************************************************)
EXTENDS CachePolicies

MCOwner == [k \in Key |-> IF k = "k1" THEN "m1" ELSE "m2"]

Small == [size |-> 1, ttl |-> "some", refresh |-> TRUE]
Big == [size |-> 2, ttl |-> "never", refresh |-> FALSE]
Huge == [size |-> 3, ttl |-> "zero", refresh |-> TRUE]

MCValue == [k \in Key |-> IF k = "k1" THEN {Small, Big, Huge} ELSE {Big}]
=============================================================================
