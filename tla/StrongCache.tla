---------------------------- MODULE StrongCache -----------------------------
(***************************************************************************)
(* What the replicated catalog cache promises to its users, the quality    *)
(* catalog_cache/src/lib.rs calls strongly consistent.                     *)
(*                                                                         *)
(* Values are identified by their generation.  A get that hits returns a   *)
(* generation that was given to `put` and that is not older than any       *)
(* generation a put or get of the key had returned before the get began.   *)
(* A get may always miss, because entries are evicted, and fail.  A put    *)
(* that fails, or whose caller is gone, may still become visible.          *)
(***************************************************************************)
EXTENDS Integers

CONSTANTS
    Key,       \* cache keys
    Client,    \* callers of `get`, one call at a time each
    Generation \* the generations that are put

VARIABLES
    floor,     \* the highest generation returned for each key, 0 if none
    offered,   \* the generations given to `put` for each key
    reads      \* the current or last get of each client

cacheVars == <<floor, offered, reads>>

Miss == 0
Error == -2
NoRead == [pc |-> "idle", floor |-> 0, result |-> Miss]

CacheInit ==
    /\ floor = [k \in Key |-> 0]
    /\ offered = [k \in Key |-> {}]
    /\ reads = [c \in Client |-> NoRead]

RaiseFloor(k, g) == floor' = [floor EXCEPT ![k] = IF g > @ THEN g ELSE @]

\* A put of generation g begins, or returns Ok.
CachePut(k, g) ==
    /\ offered' = [offered EXCEPT ![k] = @ \cup {g}]
    /\ UNCHANGED <<floor, reads>>

CachePutOk(k, g) ==
    /\ g \in offered[k]
    /\ RaiseFloor(k, g)
    /\ UNCHANGED <<offered, reads>>

\* A get begins, returns a value, misses or fails.
CacheGet(c, k) ==
    /\ reads[c].pc # "run"
    /\ reads' = [reads EXCEPT ![c] = [pc |-> "run", floor |-> floor[k], result |-> Miss]]
    /\ UNCHANGED <<floor, offered>>

Respond(c, r) ==
    reads' = [reads EXCEPT ![c] = [pc |-> "done", floor |-> @.floor, result |-> r]]

CacheHit(c, k, g) ==
    /\ reads[c].pc = "run"
    /\ g \in offered[k]
    /\ g >= reads[c].floor
    /\ Respond(c, g)
    /\ RaiseFloor(k, g)
    /\ UNCHANGED offered

CacheMiss(c) ==
    /\ reads[c].pc = "run"
    /\ Respond(c, Miss)
    /\ UNCHANGED <<floor, offered>>

CacheError(c) ==
    /\ reads[c].pc = "run"
    /\ Respond(c, Error)
    /\ UNCHANGED <<floor, offered>>

\* The client leaves its get, or forgets the result.
CacheDrop(c) ==
    /\ reads' = [reads EXCEPT ![c] = NoRead]
    /\ UNCHANGED <<floor, offered>>

CacheNext ==
    \/ \E k \in Key, g \in Generation : CachePut(k, g) \/ CachePutOk(k, g)
    \/ \E c \in Client :
        \/ \E k \in Key : CacheGet(c, k) \/ \E g \in Generation : CacheHit(c, k, g)
        \/ CacheMiss(c) \/ CacheError(c) \/ CacheDrop(c)

CacheSpec == CacheInit /\ [][CacheNext]_cacheVars
=============================================================================
