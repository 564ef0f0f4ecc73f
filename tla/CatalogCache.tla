---------------------------- MODULE CatalogCache ----------------------------
(***************************************************************************)
(* One node's in-memory catalog cache: catalog_cache/src/local.            *)
(*                                                                         *)
(* `CatalogCache` is a concurrent Not-Recently-Used map from keys to       *)
(* values.  A value carries a generation; an insert only ever replaces an  *)
(* older generation.  A `MemoryLimiter` counts the stored bytes and an     *)
(* observer mirrors the content in a secondary index.                      *)
(*                                                                         *)
(* A thread holds the DashMap lock of the entry it changes, but the        *)
(* limiter is one atomic counter for all entries, so that the steps of     *)
(* operations on different keys interleave: memory is reserved before an   *)
(* insert becomes visible and freed before a removal does.                 *)
(***************************************************************************)
EXTENDS Integers, FiniteSets, FiniteSetsExt

CONSTANTS
    Keys,      \* cache keys
    Threads,   \* threads that call the cache
    Sizes,     \* lengths of `data` of the values that are inserted
    Gens,      \* generations of the values that are inserted
    Limit,     \* `MemoryLimiter::limit`
    Vacant     \* no entry for a key

ASSUME FiniteAssumption == IsFiniteSet(Keys) /\ IsFiniteSet(Threads)
ASSUME SizesAssumption == Sizes \subseteq Nat
ASSUME GensAssumption == Gens \subseteq Nat
ASSUME LimitAssumption == Limit \in Nat

\* A `CacheValue`, with `data` abstracted to its length.
CacheValue == [generation : Gens, len : Sizes]

\* A `CacheEntry`: a value and its NRU flag.
CacheEntry == [value : CacheValue, used : BOOLEAN]

ASSUME VacantAssumption == Vacant \notin CacheEntry \cup CacheValue \cup Keys

VARIABLES
    map,       \* `CatalogCache::map`
    current,   \* `MemoryLimiter::current`
    index,     \* what the observer has been told: the value of every key
    pc,        \* what each thread is doing
    key,       \* the entry a thread has locked between two of its steps
    val,       \* the value a thread is inserting
    todo       \* the entries a thread's `evict_unused` has still to visit

vars == <<map, current, index, pc, key, val, todo>>

Idle == "idle"

Init ==
    /\ map = [k \in Keys |-> Vacant]
    /\ current = 0
    /\ index = [k \in Keys |-> Vacant]
    /\ pc = [t \in Threads |-> Idle]
    /\ key = [t \in Threads |-> Vacant]
    /\ val = [t \in Threads |-> Vacant]
    /\ todo = [t \in Threads |-> {}]

\* The entry of k is write-locked by a thread between two of its steps.
Locked(k) == \E t \in Threads : key[t] = k

DataLen(k) == IF map[k] = Vacant THEN 0 ELSE map[k].value.len

-----------------------------------------------------------------------------
(* MemoryLimiter *)

\* Mutant of Reserve: the room beside `current` is not checked.
ReserveUnchecked(size) == size <= Limit /\ current' = current + size

\* `reserve`: `checked_sub` fails when the request alone exceeds the limit,
\* and the compare-and-swap fails when it does not fit beside `current`.
Reserve(size) ==
    /\ size <= Limit
    /\ current <= Limit - size
    /\ current' = current + size

\* `free`
Free(size) == current' = current - size

-----------------------------------------------------------------------------
(* Operations *)

\* `get`: marks the entry as used.  A miss changes nothing.
Get(k) ==
    /\ ~Locked(k)
    /\ map[k] # Vacant
    /\ map' = [map EXCEPT ![k].used = TRUE]
    /\ UNCHANGED <<current, index, pc, key, val, todo>>

\* Mutant of Account: the length of the entry that is replaced is forgotten.
AccountWhole(k, v) == Reserve(v.len)

\* The limiter part of `insert`.  An insert that replaces an entry accounts
\* for the difference of the lengths.
Account(k, v) ==
    IF map[k] # Vacant /\ v.len <= DataLen(k)
    THEN Free(DataLen(k) - v.len)
    ELSE Reserve(v.len - DataLen(k))

\* Mutant of InsertReserve: the generation is checked without the entry's lock.
InsertUnlocked(t, k, v) ==
    /\ pc[t] = Idle
    /\ map[k] # Vacant => v.generation > map[k].value.generation
    /\ Account(k, v)
    /\ pc' = [pc EXCEPT ![t] = "insert"]
    /\ key' = [key EXCEPT ![t] = k]
    /\ val' = [val EXCEPT ![t] = v]
    /\ index' = [index EXCEPT ![k] = v]
    /\ UNCHANGED <<map, todo>>

\* `insert`, up to the map: the entry is locked, the generation is newer, the
\* memory is accounted for and the observer is told.  An older or equal
\* generation returns Ok(false) and a failed reservation returns the error;
\* both change nothing.
InsertReserve(t, k, v) ==
    /\ pc[t] = Idle
    /\ ~Locked(k)
    /\ map[k] # Vacant => v.generation > map[k].value.generation
    /\ Account(k, v)
    /\ pc' = [pc EXCEPT ![t] = "insert"]
    /\ key' = [key EXCEPT ![t] = k]
    /\ val' = [val EXCEPT ![t] = v]
    /\ index' = [index EXCEPT ![k] = v]
    /\ UNCHANGED <<map, todo>>

\* `insert`: the entry enters the map, marked as used, and is unlocked.
InsertCommit(t) ==
    /\ pc[t] = "insert"
    /\ map' = [map EXCEPT ![key[t]] = [value |-> val[t], used |-> TRUE]]
    /\ pc' = [pc EXCEPT ![t] = Idle]
    /\ val' = [val EXCEPT ![t] = Vacant]
    /\ key' = [key EXCEPT ![t] = Vacant]
    /\ UNCHANGED <<current, index, todo>>

\* `delete`, up to the map.
DeleteFree(t, k) ==
    /\ pc[t] = Idle
    /\ ~Locked(k)
    /\ map[k] # Vacant
    /\ index' = [index EXCEPT ![k] = Vacant]
    /\ Free(DataLen(k))
    /\ pc' = [pc EXCEPT ![t] = "delete"]
    /\ key' = [key EXCEPT ![t] = k]
    /\ UNCHANGED <<map, val, todo>>

\* `delete`: the entry leaves the map and the lock is released.
DeleteRemove(t) ==
    /\ pc[t] = "delete"
    /\ map' = [map EXCEPT ![key[t]] = Vacant]
    /\ pc' = [pc EXCEPT ![t] = Idle]
    /\ key' = [key EXCEPT ![t] = Vacant]
    /\ UNCHANGED <<current, index, val, todo>>

\* `evict_unused` begins: `retain` visits the entries one after the other.
EvictStart(t) ==
    /\ pc[t] = Idle
    /\ pc' = [pc EXCEPT ![t] = "sweep"]
    /\ todo' = [todo EXCEPT ![t] = Keys]
    /\ UNCHANGED <<map, current, index, key, val>>

\* `evict_unused` visits an entry that was used: the flag is cleared and the
\* entry is retained.  There is nothing to do for a key without entry.
EvictRetain(t, k) ==
    /\ pc[t] = "sweep"
    /\ k \in todo[t]
    /\ ~Locked(k)
    /\ map[k] # Vacant => map[k].used
    /\ map' = IF map[k] = Vacant THEN map ELSE [map EXCEPT ![k].used = FALSE]
    /\ todo' = [todo EXCEPT ![t] = @ \ {k}]
    /\ UNCHANGED <<current, index, pc, key, val>>

\* Mutant of EvictFree: the observer is not told.
EvictSilently(t, k) ==
    /\ pc[t] = "sweep"
    /\ k \in todo[t]
    /\ ~Locked(k)
    /\ map[k] # Vacant
    /\ ~map[k].used
    /\ Free(DataLen(k))
    /\ pc' = [pc EXCEPT ![t] = "evict"]
    /\ key' = [key EXCEPT ![t] = k]
    /\ todo' = [todo EXCEPT ![t] = @ \ {k}]
    /\ UNCHANGED <<map, index, val>>

\* `evict_unused` visits an unused entry: it tells the observer and frees the
\* memory while `retain` holds the lock.
EvictFree(t, k) ==
    /\ pc[t] = "sweep"
    /\ k \in todo[t]
    /\ ~Locked(k)
    /\ map[k] # Vacant
    /\ ~map[k].used
    /\ index' = [index EXCEPT ![k] = Vacant]
    /\ Free(DataLen(k))
    /\ pc' = [pc EXCEPT ![t] = "evict"]
    /\ key' = [key EXCEPT ![t] = k]
    /\ todo' = [todo EXCEPT ![t] = @ \ {k}]
    /\ UNCHANGED <<map, val>>

\* `retain` drops the entry and goes on with the next one.
EvictRemove(t) ==
    /\ pc[t] = "evict"
    /\ map' = [map EXCEPT ![key[t]] = Vacant]
    /\ pc' = [pc EXCEPT ![t] = "sweep"]
    /\ key' = [key EXCEPT ![t] = Vacant]
    /\ UNCHANGED <<current, index, val, todo>>

EvictDone(t) ==
    /\ pc[t] = "sweep"
    /\ todo[t] = {}
    /\ pc' = [pc EXCEPT ![t] = Idle]
    /\ UNCHANGED <<map, current, index, key, val, todo>>

Next ==
    \/ \E k \in Keys : Get(k)
    \/ \E t \in Threads :
        \/ \E k \in Keys, v \in CacheValue : InsertReserve(t, k, v)
        \/ InsertCommit(t)
        \/ \E k \in Keys : DeleteFree(t, k)
        \/ DeleteRemove(t)
        \/ EvictStart(t)
        \/ \E k \in Keys : EvictRetain(t, k)
        \/ \E k \in Keys : EvictFree(t, k)
        \/ EvictRemove(t)
        \/ EvictDone(t)

Spec == Init /\ [][Next]_vars

-----------------------------------------------------------------------------
(* Properties *)

\* Type invariant: a thread holds an entry's lock, and a value, exactly while
\* it is in the middle of changing the entry.
TypeOK ==
    /\ map \in [Keys -> CacheEntry \cup {Vacant}]
    /\ current \in Int
    /\ index \in [Keys -> CacheValue \cup {Vacant}]
    /\ pc \in [Threads -> {Idle, "insert", "delete", "sweep", "evict"}]
    /\ key \in [Threads -> Keys \cup {Vacant}]
    /\ val \in [Threads -> CacheValue \cup {Vacant}]
    /\ todo \in [Threads -> SUBSET Keys]
    /\ \A t \in Threads : /\ key[t] = Vacant <=> pc[t] \in {Idle, "sweep"}
                          /\ val[t] = Vacant <=> pc[t] # "insert"

\* What the operation of thread t has accounted for with the limiter but not
\* yet done to the map.
Pending(t) ==
    CASE pc[t] = "insert" -> val[t].len - DataLen(key[t])
      [] pc[t] \in {"delete", "evict"} -> -DataLen(key[t])
      [] OTHER -> 0

Total(f, S) == MapThenSumSet(LAMBDA x : f[x], S)

Stored == Total([k \in Keys |-> DataLen(k)], Keys)

InFlight == Total([t \in Threads |-> Pending(t)], Threads)

\* The limiter's counter is exactly the bytes stored in the map, corrected by
\* the operations in flight: no interleaving of `insert` (growing or
\* shrinking a value), `delete` and `evict_unused` leaks or double-frees
\* memory, nor wraps the counter in the unchecked `fetch_sub` of `free`
\* (local/mod.rs, local/limit.rs).
Accounting == current = Stored + InFlight

\* No interleaving of reservations takes the counter above the limit.
WithinLimit == current <= Limit

\* The observer's index is the map, except for the entries an operation has
\* locked, where it is what the map is about to become: the calls of
\* `insert` and `evict` on the observer are neither lost nor reordered with
\* the changes of the map.
ObserverMirrors ==
    /\ \A k \in Keys :
        ~Locked(k) => index[k] = IF map[k] = Vacant THEN Vacant ELSE map[k].value
    /\ \A t \in Threads :
        key[t] # Vacant => index[key[t]] = val[t]

\* No two threads are inside an operation on the same entry.
LockExclusive ==
    \A s, t \in Threads : s # t /\ key[s] = key[t] => key[s] = Vacant

\* An entry that stays in the map never goes back to an older generation, and
\* its value changes only together with its generation, even when the insert
\* was checked before other threads touched the entry.
GenerationsAdvance ==
    [][\A k \in Keys :
        map[k] # Vacant /\ map'[k] # Vacant /\ map'[k].value # map[k].value
            => map'[k].value.generation > map[k].value.generation]_vars
=============================================================================
