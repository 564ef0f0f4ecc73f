------------------------- MODULE CatalogCacheProofs -------------------------
(***************************************************************************)
(* Proofs about module CatalogCache, for any number of keys and threads,   *)
(* any sizes, generations and limit, as long as keys and threads are       *)
(* finitely many.                                                          *)
(***************************************************************************)
EXTENDS CatalogCache, FiniteSetTheorems, TLAPS

\* What a thread checked under the entry's lock still holds when it changes
\* the map: an insert is newer than the entry it replaces, and a removal
\* finds its entry.
CheckedUnderLock ==
    \A t \in Threads :
        /\ pc[t] = "insert" /\ map[key[t]] # Vacant
              => val[t].generation > map[key[t]].value.generation
        /\ pc[t] \in {"delete", "evict"} => map[key[t]] # Vacant

\* The inductive invariant.
IInv == TypeOK /\ LockExclusive /\ CheckedUnderLock /\ ObserverMirrors /\ WithinLimit

USE SizesAssumption, GensAssumption, LimitAssumption, VacantAssumption

\* The invariant holds for the empty cache.
LEMMA InitIInv == Init => IInv
BY DEF Init, IInv, TypeOK, LockExclusive, CheckedUnderLock, ObserverMirrors,
       WithinLimit, Locked, Idle

\* The step of Next, one case per action.
LEMMA NextCases ==
    ASSUME Next,
           NEW G,
           \A k \in Keys : Get(k) => G,
           \A t \in Threads, k \in Keys, v \in CacheValue : InsertReserve(t, k, v) => G,
           \A t \in Threads : InsertCommit(t) => G,
           \A t \in Threads, k \in Keys : DeleteFree(t, k) => G,
           \A t \in Threads : DeleteRemove(t) => G,
           \A t \in Threads : EvictStart(t) => G,
           \A t \in Threads, k \in Keys : EvictRetain(t, k) => G,
           \A t \in Threads, k \in Keys : EvictFree(t, k) => G,
           \A t \in Threads : EvictRemove(t) => G,
           \A t \in Threads : EvictDone(t) => G
    PROVE  G
BY Zenon DEF Next

\* Lengths are natural numbers, and accounting for an insert keeps the counter
\* an integer within the limit.
LEMMA DataLenNat ==
    ASSUME TypeOK, NEW k \in Keys
    PROVE  DataLen(k) \in Nat
BY Zenon DEF TypeOK, DataLen, CacheEntry, CacheValue

LEMMA MarkedEntry ==
    ASSUME NEW e \in CacheEntry, NEW b \in BOOLEAN
    PROVE  /\ [e EXCEPT !.used = b] \in CacheEntry
           /\ [e EXCEPT !.used = b].value = e.value
BY Zenon DEF CacheEntry

LEMMA MarkedMap ==
    ASSUME TypeOK, NEW k \in Keys, map[k] # Vacant, NEW b \in BOOLEAN
    PROVE  [map EXCEPT ![k].used = b] \in [Keys -> CacheEntry \cup {Vacant}]
<1> DEFINE e == [map[k] EXCEPT !.used = b]
<1>1. e \in CacheEntry
  BY MarkedEntry DEF TypeOK
<1>2. [map EXCEPT ![k].used = b] = [map EXCEPT ![k] = e]
  BY Zenon
<1> HIDE DEF e
<1>3. QED
  BY <1>1, <1>2, Zenon DEF TypeOK

LEMMA AccountBounded ==
    ASSUME TypeOK, WithinLimit, NEW k \in Keys, NEW v \in CacheValue, Account(k, v)
    PROVE  current' \in Int /\ WithinLimit'
<1>1. DataLen(k) \in Nat /\ v.len \in Nat
  BY DataLenNat, Zenon DEF CacheValue
<1>2. QED
  BY <1>1 DEF TypeOK, WithinLimit, Account, Free, Reserve

LEMMA FreeBounded ==
    ASSUME TypeOK, WithinLimit, NEW k \in Keys, Free(DataLen(k))
    PROVE  current' \in Int /\ WithinLimit'
BY DataLenNat DEF TypeOK, WithinLimit, Free

\* Type correctness and the counter's upper bound are preserved.
LEMMA TypeStep == IInv /\ [Next]_vars => TypeOK' /\ WithinLimit'
<1> SUFFICES ASSUME IInv, [Next]_vars PROVE TypeOK' /\ WithinLimit'
  BY Zenon
<1> DEFINE G == TypeOK' /\ WithinLimit'
<1>0. TypeOK /\ WithinLimit /\ CheckedUnderLock
  BY Zenon DEF IInv
<1>1. ASSUME NEW k \in Keys, Get(k) PROVE G
  <2>1. map' \in [Keys -> CacheEntry \cup {Vacant}]
    BY <1>0, <1>1, MarkedMap, Zenon DEF Get
  <2>2. UNCHANGED <<current, index, pc, key, val, todo>>
    BY <1>1, Zenon DEF Get
  <2>3. QED
    BY <1>0, <2>1, <2>2, Zenon DEF TypeOK, WithinLimit
<1>2. ASSUME NEW t \in Threads, NEW k \in Keys, NEW v \in CacheValue, InsertReserve(t, k, v)
      PROVE  G
  <2>1. current' \in Int /\ WithinLimit'
    BY <1>0, <1>2, AccountBounded, Zenon DEF InsertReserve
  <2>2. QED
    BY <1>0, <1>2, <2>1, Zenon DEF InsertReserve, TypeOK, Idle
<1>3. ASSUME NEW t \in Threads, InsertCommit(t) PROVE G
  BY <1>0, <1>3, Zenon DEF InsertCommit, TypeOK, WithinLimit, Idle, CacheEntry
<1>4. ASSUME NEW t \in Threads, NEW k \in Keys, DeleteFree(t, k) PROVE G
  <2>1. current' \in Int /\ WithinLimit'
    BY <1>0, <1>4, FreeBounded, Zenon DEF DeleteFree
  <2>2. QED
    BY <1>0, <1>4, <2>1, Zenon DEF DeleteFree, TypeOK, Idle
<1>5. ASSUME NEW t \in Threads, DeleteRemove(t) PROVE G
  BY <1>0, <1>5, Zenon DEF DeleteRemove, TypeOK, WithinLimit, Idle
<1>6. ASSUME NEW t \in Threads, EvictStart(t) PROVE G
  BY <1>0, <1>6, Zenon DEF EvictStart, TypeOK, WithinLimit, Idle
<1>7. ASSUME NEW t \in Threads, NEW k \in Keys, EvictRetain(t, k) PROVE G
  <2>1. map' \in [Keys -> CacheEntry \cup {Vacant}]
    BY <1>0, <1>7, MarkedMap, Zenon DEF EvictRetain, TypeOK
  <2>2. UNCHANGED <<current, index, pc, key, val>> /\ todo' \in [Threads -> SUBSET Keys]
    BY <1>0, <1>7, Zenon DEF EvictRetain, TypeOK
  <2>3. QED
    BY <1>0, <2>1, <2>2, Zenon DEF TypeOK, WithinLimit
<1>8. ASSUME NEW t \in Threads, NEW k \in Keys, EvictFree(t, k) PROVE G
  <2>1. current' \in Int /\ WithinLimit'
    BY <1>0, <1>8, FreeBounded, Zenon DEF EvictFree
  <2>2. QED
    BY <1>0, <1>8, <2>1, Zenon DEF EvictFree, TypeOK, Idle
<1>9. ASSUME NEW t \in Threads, EvictRemove(t) PROVE G
  BY <1>0, <1>9, Zenon DEF EvictRemove, TypeOK, WithinLimit, Idle
<1>10. ASSUME NEW t \in Threads, EvictDone(t) PROVE G
  BY <1>0, <1>10, Zenon DEF EvictDone, TypeOK, WithinLimit, Idle
<1>11. CASE UNCHANGED vars
  BY <1>0, <1>11, Zenon DEF vars, TypeOK, WithinLimit
<1>12. ASSUME Next PROVE G
  <2> HIDE DEF G
  <2> QED
    BY <1>12, <1>1, <1>2, <1>3, <1>4, <1>5, <1>6, <1>7, <1>8, <1>9, <1>10, NextCases, Zenon
<1> QED
  BY <1>11, <1>12, Zenon

\* Mutual exclusion on an entry is preserved.
LEMMA LockStep == IInv /\ [Next]_vars => LockExclusive'
<1> SUFFICES ASSUME IInv, [Next]_vars PROVE LockExclusive'
  BY Zenon
<1> DEFINE G == LockExclusive'
<1>0. TypeOK /\ LockExclusive /\ CheckedUnderLock /\ ObserverMirrors
  BY Zenon DEF IInv
<1>1. ASSUME NEW k \in Keys, Get(k) PROVE G
  BY <1>0, <1>1, MarkedEntry, Zenon DEF Get, TypeOK, LockExclusive, Locked, Idle
<1>2. ASSUME NEW t \in Threads, NEW k \in Keys, NEW v \in CacheValue, InsertReserve(t, k, v)
      PROVE  G
  BY <1>0, <1>2, Zenon DEF InsertReserve, TypeOK, LockExclusive, Locked, Idle
<1>3. ASSUME NEW t \in Threads, InsertCommit(t) PROVE G
  BY <1>0, <1>3, Zenon DEF InsertCommit, TypeOK, LockExclusive, Locked, Idle
<1>4. ASSUME NEW t \in Threads, NEW k \in Keys, DeleteFree(t, k) PROVE G
  BY <1>0, <1>4, Zenon DEF DeleteFree, TypeOK, LockExclusive, Locked, Idle
<1>5. ASSUME NEW t \in Threads, DeleteRemove(t) PROVE G
  BY <1>0, <1>5, Zenon DEF DeleteRemove, TypeOK, LockExclusive, Locked, Idle
<1>6. ASSUME NEW t \in Threads, EvictStart(t) PROVE G
  BY <1>0, <1>6, Zenon DEF EvictStart, TypeOK, LockExclusive, Locked, Idle
<1>7. ASSUME NEW t \in Threads, NEW k \in Keys, EvictRetain(t, k) PROVE G
  BY <1>0, <1>7, MarkedEntry, Zenon DEF EvictRetain, TypeOK, LockExclusive, Locked, Idle
<1>8. ASSUME NEW t \in Threads, NEW k \in Keys, EvictFree(t, k) PROVE G
  BY <1>0, <1>8, Zenon DEF EvictFree, TypeOK, LockExclusive, Locked, Idle
<1>9. ASSUME NEW t \in Threads, EvictRemove(t) PROVE G
  BY <1>0, <1>9, Zenon DEF EvictRemove, TypeOK, LockExclusive, Locked, Idle
<1>10. ASSUME NEW t \in Threads, EvictDone(t) PROVE G
  BY <1>0, <1>10, Zenon DEF EvictDone, TypeOK, LockExclusive, Locked, Idle
<1>11. CASE UNCHANGED vars
  BY <1>0, <1>11, Zenon DEF vars, TypeOK, LockExclusive, Locked, Idle
<1>12. ASSUME Next PROVE G
  <2> HIDE DEF G
  <2> QED
    BY <1>12, <1>1, <1>2, <1>3, <1>4, <1>5, <1>6, <1>7, <1>8, <1>9, <1>10, NextCases, Zenon
<1> QED
  BY <1>11, <1>12, Zenon

\* What was checked under the lock is preserved.
LEMMA CheckedStep == IInv /\ [Next]_vars => CheckedUnderLock'
<1> SUFFICES ASSUME IInv, [Next]_vars PROVE CheckedUnderLock'
  BY Zenon
<1> DEFINE G == CheckedUnderLock'
<1>0. TypeOK /\ LockExclusive /\ CheckedUnderLock /\ ObserverMirrors
  BY Zenon DEF IInv
<1>1. ASSUME NEW k \in Keys, Get(k) PROVE G
  BY <1>0, <1>1, MarkedEntry DEF Get, TypeOK, LockExclusive, CheckedUnderLock, Locked, Idle
<1>2. ASSUME NEW t \in Threads, NEW k \in Keys, NEW v \in CacheValue, InsertReserve(t, k, v)
      PROVE  G
  BY <1>0, <1>2, ZenonT(30) DEF InsertReserve, TypeOK, LockExclusive, CheckedUnderLock, Locked, Idle
<1>3. ASSUME NEW t \in Threads, InsertCommit(t) PROVE G
  BY <1>0, <1>3 DEF InsertCommit, TypeOK, LockExclusive, CheckedUnderLock, Locked, Idle
<1>4. ASSUME NEW t \in Threads, NEW k \in Keys, DeleteFree(t, k) PROVE G
  BY <1>0, <1>4, Zenon DEF DeleteFree, TypeOK, LockExclusive, CheckedUnderLock, Locked, Idle
<1>5. ASSUME NEW t \in Threads, DeleteRemove(t) PROVE G
  BY <1>0, <1>5 DEF DeleteRemove, TypeOK, LockExclusive, CheckedUnderLock, Locked, Idle
<1>6. ASSUME NEW t \in Threads, EvictStart(t) PROVE G
  BY <1>0, <1>6, Zenon DEF EvictStart, TypeOK, LockExclusive, CheckedUnderLock, Locked, Idle
<1>7. ASSUME NEW t \in Threads, NEW k \in Keys, EvictRetain(t, k) PROVE G
  BY <1>0, <1>7, MarkedEntry DEF EvictRetain, TypeOK, LockExclusive, CheckedUnderLock, Locked, Idle
<1>8. ASSUME NEW t \in Threads, NEW k \in Keys, EvictFree(t, k) PROVE G
  BY <1>0, <1>8, Zenon DEF EvictFree, TypeOK, LockExclusive, CheckedUnderLock, Locked, Idle
<1>9. ASSUME NEW t \in Threads, EvictRemove(t) PROVE G
  BY <1>0, <1>9 DEF EvictRemove, TypeOK, LockExclusive, CheckedUnderLock, Locked, Idle
<1>10. ASSUME NEW t \in Threads, EvictDone(t) PROVE G
  BY <1>0, <1>10, Zenon DEF EvictDone, TypeOK, LockExclusive, CheckedUnderLock, Locked, Idle
<1>11. CASE UNCHANGED vars
  BY <1>0, <1>11, Zenon DEF vars, TypeOK, LockExclusive, CheckedUnderLock, Locked, Idle
<1>12. ASSUME Next PROVE G
  <2> HIDE DEF G
  <2> QED
    BY <1>12, <1>1, <1>2, <1>3, <1>4, <1>5, <1>6, <1>7, <1>8, <1>9, <1>10, NextCases, Zenon
<1> QED
  BY <1>11, <1>12, Zenon

\* The observer's index is preserved.
LEMMA ObserverStep == IInv /\ [Next]_vars => ObserverMirrors'
<1> SUFFICES ASSUME IInv, [Next]_vars PROVE ObserverMirrors'
  BY Zenon
<1> DEFINE G == ObserverMirrors'
<1>0. TypeOK /\ LockExclusive /\ CheckedUnderLock /\ ObserverMirrors
  BY Zenon DEF IInv
<1>1. ASSUME NEW k \in Keys, Get(k) PROVE G
  <2>1. map[k] \in CacheEntry
    BY <1>0, <1>1, Zenon DEF Get, TypeOK
  <2>2. map'[k] \in CacheEntry /\ map'[k].value = map[k].value
    BY <1>0, <1>1, <2>1, MarkedEntry, Zenon DEF Get, TypeOK
  <2>3. map'[k] # Vacant /\ \A j \in Keys \ {k} : map'[j] = map[j]
    BY <1>0, <1>1, <2>2, Zenon DEF Get, TypeOK
  <2>4. UNCHANGED <<index, key, val>>
    BY <1>1, Zenon DEF Get
  <2>5. QED
    BY <1>0, <1>1, <2>2, <2>3, <2>4 DEF Get, ObserverMirrors, Locked
<1>2. ASSUME NEW t \in Threads, NEW k \in Keys, NEW v \in CacheValue, InsertReserve(t, k, v)
      PROVE  G
  BY <1>0, <1>2 DEF InsertReserve, TypeOK, LockExclusive, ObserverMirrors, Locked, Idle
<1>3. ASSUME NEW t \in Threads, InsertCommit(t) PROVE G
  <2> DEFINE k == key[t]
             e == [value |-> val[t], used |-> TRUE]
  <2>1. k \in Keys /\ val[t] \in CacheValue /\ index[k] = val[t]
    BY <1>0, <1>3 DEF InsertCommit, TypeOK, ObserverMirrors, Idle
  <2>a. e \in CacheEntry /\ e.value = val[t]
    BY <2>1, Zenon DEF CacheEntry
  <2> HIDE DEF e
  <2>2. e \in CacheEntry /\ e # Vacant /\ e.value = val[t]
    BY <2>a, Zenon
  <2>3. map' = [map EXCEPT ![k] = e] /\ UNCHANGED index
    BY <1>3, Zenon DEF InsertCommit, e
  <2>4. key' = [key EXCEPT ![t] = Vacant] /\ val' = [val EXCEPT ![t] = Vacant]
    BY <1>3, Zenon DEF InsertCommit
  <2>5. map'[k] # Vacant /\ index'[k] = map'[k].value
    BY <1>0, <2>1, <2>2, <2>3, Zenon DEF TypeOK
  <2>6. \A j \in Keys \ {k} : map'[j] = map[j] /\ (Locked(j) => Locked(j)')
    BY <1>0, <2>1, <2>3, <2>4, Zenon DEF TypeOK, Locked
  <2>7. \A u \in Threads : key'[u] # Vacant => u # t /\ key'[u] = key[u] /\ val'[u] = val[u]
    BY <1>0, <2>4, Zenon DEF TypeOK
  <2> HIDE DEF k
  <2>8. QED
    BY <1>0, <2>3, <2>5, <2>6, <2>7 DEF ObserverMirrors
<1>4. ASSUME NEW t \in Threads, NEW k \in Keys, DeleteFree(t, k) PROVE G
  BY <1>0, <1>4 DEF DeleteFree, TypeOK, LockExclusive, ObserverMirrors, Locked, Idle
<1>5. ASSUME NEW t \in Threads, DeleteRemove(t) PROVE G
  BY <1>0, <1>5, ZenonT(30) DEF DeleteRemove, TypeOK, LockExclusive, ObserverMirrors, Locked, Idle
<1>6. ASSUME NEW t \in Threads, EvictStart(t) PROVE G
  BY <1>0, <1>6, Zenon DEF EvictStart, TypeOK, LockExclusive, ObserverMirrors, Locked, Idle
<1>7. ASSUME NEW t \in Threads, NEW k \in Keys, EvictRetain(t, k) PROVE G
  <2>1. UNCHANGED <<index, key, val>>
    BY <1>7, Zenon DEF EvictRetain
  <2>2. CASE map[k] = Vacant
    BY <1>0, <1>7, <2>1, <2>2 DEF EvictRetain, ObserverMirrors, Locked
  <2>3. CASE map[k] # Vacant
    <3>1. map[k] \in CacheEntry
      BY <1>0, <2>3, Zenon DEF TypeOK
    <3>2. map'[k] \in CacheEntry /\ map'[k].value = map[k].value
      BY <1>0, <1>7, <2>3, <3>1, MarkedEntry, Zenon DEF EvictRetain, TypeOK
    <3>3. map'[k] # Vacant /\ \A j \in Keys \ {k} : map'[j] = map[j]
      BY <1>0, <1>7, <2>3, <3>2, Zenon DEF EvictRetain, TypeOK
    <3>4. QED
      BY <1>0, <2>1, <2>3, <3>2, <3>3, Zenon DEF ObserverMirrors, Locked
  <2>4. QED
    BY <2>2, <2>3, Zenon
<1>8. ASSUME NEW t \in Threads, NEW k \in Keys, EvictFree(t, k) PROVE G
  BY <1>0, <1>8 DEF EvictFree, TypeOK, LockExclusive, ObserverMirrors, Locked, Idle
<1>9. ASSUME NEW t \in Threads, EvictRemove(t) PROVE G
  BY <1>0, <1>9, ZenonT(30) DEF EvictRemove, TypeOK, LockExclusive, ObserverMirrors, Locked, Idle
<1>10. ASSUME NEW t \in Threads, EvictDone(t) PROVE G
  BY <1>0, <1>10, Zenon DEF EvictDone, TypeOK, LockExclusive, ObserverMirrors, Locked, Idle
<1>11. CASE UNCHANGED vars
  BY <1>0, <1>11, Zenon DEF vars, TypeOK, LockExclusive, ObserverMirrors, Locked, Idle
<1>12. ASSUME Next PROVE G
  <2> HIDE DEF G
  <2> QED
    BY <1>12, <1>1, <1>2, <1>3, <1>4, <1>5, <1>6, <1>7, <1>8, <1>9, <1>10, NextCases, Zenon
<1> QED
  BY <1>11, <1>12, Zenon

\* A step changes an entry's value only to a newer generation.
LEMMA GenerationStep ==
    ASSUME IInv, [Next]_vars, NEW j \in Keys,
           map[j] # Vacant, map'[j] # Vacant, map'[j].value # map[j].value
    PROVE  map'[j].value.generation > map[j].value.generation
<1> DEFINE G == map'[j].value # map[j].value
                    => map'[j].value.generation > map[j].value.generation
<1>0. TypeOK /\ CheckedUnderLock
  BY Zenon DEF IInv
<1>a. map[j] \in CacheEntry
  BY <1>0, Zenon DEF TypeOK
<1>1. ASSUME NEW k \in Keys, Get(k) PROVE G
  BY <1>0, <1>a, <1>1, MarkedEntry, Zenon DEF Get, TypeOK
<1>2. ASSUME NEW t \in Threads, NEW k \in Keys, NEW v \in CacheValue, InsertReserve(t, k, v)
      PROVE  G
  BY <1>2, Zenon DEF InsertReserve
<1>3. ASSUME NEW t \in Threads, InsertCommit(t) PROVE G
  BY <1>0, <1>3, Zenon DEF InsertCommit, TypeOK, CheckedUnderLock
<1>4. ASSUME NEW t \in Threads, NEW k \in Keys, DeleteFree(t, k) PROVE G
  BY <1>4, Zenon DEF DeleteFree
<1>5. ASSUME NEW t \in Threads, DeleteRemove(t) PROVE G
  BY <1>0, <1>5, Zenon DEF DeleteRemove, TypeOK
<1>6. ASSUME NEW t \in Threads, EvictStart(t) PROVE G
  BY <1>6, Zenon DEF EvictStart
<1>7. ASSUME NEW t \in Threads, NEW k \in Keys, EvictRetain(t, k) PROVE G
  BY <1>0, <1>a, <1>7, MarkedEntry, Zenon DEF EvictRetain, TypeOK
<1>8. ASSUME NEW t \in Threads, NEW k \in Keys, EvictFree(t, k) PROVE G
  BY <1>8, Zenon DEF EvictFree
<1>9. ASSUME NEW t \in Threads, EvictRemove(t) PROVE G
  BY <1>0, <1>9, Zenon DEF EvictRemove, TypeOK
<1>10. ASSUME NEW t \in Threads, EvictDone(t) PROVE G
  BY <1>10, Zenon DEF EvictDone
<1>11. CASE UNCHANGED vars
  BY <1>11, Zenon DEF vars
<1>12. ASSUME Next PROVE G
  <2> HIDE DEF G
  <2> QED
    BY <1>12, <1>1, <1>2, <1>3, <1>4, <1>5, <1>6, <1>7, <1>8, <1>9, <1>10, NextCases, Zenon
<1> QED
  BY <1>11, <1>12, Zenon

-----------------------------------------------------------------------------
(* Sums, as in CachePoliciesProofs: a function that gives the sum of every *)
(* subset of a finite set exists, and Total is its value.                  *)

\* The sums of the subsets of a set.
Additive(f, g, S) ==
    /\ g \in [SUBSET S -> Int]
    /\ g[{}] = 0
    /\ \A T \in SUBSET S : \A x \in T : g[T] = f[x] + g[T \ {x}]

\* A property of subsets that fails has a least set where it fails.
LEMMA LeastSubset ==
    ASSUME NEW S, IsFiniteSet(S), NEW B \in SUBSET SUBSET S, NEW T \in B
    PROVE  \E W \in B : \A x \in W : W \ {x} \notin B
<1> DEFINE R == StrictSubsetOrdering(S)
<1>1. IsWellFoundedOn(R, FiniteSubsetsOf(S))
  BY FS_StrictSubsetOrderingWellFounded, Zenon
<1>3. B \subseteq FiniteSubsetsOf(S)
  BY FS_Subset, Zenon DEF FiniteSubsetsOf
<1> HIDE DEF R
<1>4. PICK W \in B : \A V \in B : ~(<<V, W>> \in R)
  BY <1>1, <1>3, WFMin, Zenon
<1>5. ASSUME NEW x \in W, W \ {x} \in B PROVE FALSE
  BY <1>4, <1>5, Zenon DEF R, StrictSubsetOrdering
<1> QED  BY <1>5, Zenon

LEMMA AdditiveExists ==
    ASSUME NEW S, IsFiniteSet(S), NEW f, \A x \in S : f[x] \in Int
    PROVE  \E g : Additive(f, g, S)
<1> DEFINE Bad == {W \in SUBSET S : ~\E g : Additive(f, g, W)}
<1> SUFFICES ASSUME S \in Bad PROVE FALSE
  BY Zenon
<1>1. PICK W \in Bad : \A w \in W : W \ {w} \notin Bad
  BY LeastSubset, Zenon
<1>2. CASE W = {}
  <2>1. SUBSET W = {{}}
    BY <1>2, Zenon
  <2>2. Additive(f, [T \in SUBSET W |-> 0], W)
    BY <1>2, <2>1 DEF Additive
  <2> QED  BY <2>2, Zenon
<1>3. CASE W # {}
  <2>1. PICK w \in W : TRUE
    BY <1>3, Zenon
  <2> DEFINE V == W \ {w}
  <2>2. PICK h : Additive(f, h, V)
    BY <1>1, Zenon
  <2>3. /\ h \in [SUBSET V -> Int]
        /\ h[{}] = 0
        /\ \A T \in SUBSET V : \A x \in T : h[T] = f[x] + h[T \ {x}]
    BY <2>2, Zenon DEF Additive
  <2> DEFINE g == [T \in SUBSET W |-> h[T \ {w}] + (IF w \in T THEN f[w] ELSE 0)]
  <2>4. \A T \in SUBSET W : T \ {w} \in SUBSET V /\ h[T \ {w}] \in Int
    BY <2>3, Zenon
  <2>5. f[w] \in Int /\ \A x \in W : f[x] \in Int
    BY Zenon
  <2>6. g \in [SUBSET W -> Int]
    <3>1. ASSUME NEW T \in SUBSET W
          PROVE  h[T \ {w}] + (IF w \in T THEN f[w] ELSE 0) \in Int
      <4>1. h[T \ {w}] \in Int
        BY <2>4, Zenon
      <4>2. (IF w \in T THEN f[w] ELSE 0) \in Int
        BY <2>5
      <4> QED  BY ONLY <4>1, <4>2
    <3> QED  BY <3>1, Zenon
  <2>7. g[{}] = 0
    <3>1. {} \in SUBSET W /\ {} \ {w} = {}
      BY Zenon
    <3> QED  BY <2>3, <3>1
  <2>8. ASSUME NEW T \in SUBSET W, NEW x \in T
        PROVE  g[T] = f[x] + g[T \ {x}]
    <3>1. T \ {x} \in SUBSET W
      BY Zenon
    <3>2. CASE x = w
      <4>1. g[T] = h[T \ {w}] + f[w]
        BY <3>2, Zenon
      <4>2. (T \ {w}) \ {w} = T \ {w}
        BY Zenon
      <4>3. g[T \ {w}] = h[T \ {w}]
        <5>1. g[T \ {w}] = h[(T \ {w}) \ {w}] + 0
          BY <3>1, <3>2, Zenon
        <5>2. h[T \ {w}] \in Int
          BY <2>4, Zenon
        <5>3. g[T \ {w}] = h[T \ {w}] + 0
          BY <4>2, <5>1, Zenon
        <5> QED  BY ONLY <5>2, <5>3
      <4>4. h[T \ {w}] \in Int
        BY <2>4, Zenon
      <4> HIDE DEF g
      <4> QED  BY <2>5, <3>2, <4>1, <4>3, <4>4
    <3>3. CASE x # w
      <4> DEFINE U == T \ {w}
      <4>1. U \in SUBSET V /\ x \in U
        BY <3>3, Zenon
      <4>2. h[U] = f[x] + h[U \ {x}]
        BY <2>3, <4>1, Zenon
      <4>3. U \ {x} = (T \ {x}) \ {w}
        BY Zenon
      <4>4. w \in T <=> w \in T \ {x}
        BY <3>3, Zenon
      <4>5. g[T \ {x}] = h[U \ {x}] + (IF w \in T THEN f[w] ELSE 0)
        BY <3>1, <4>3, <4>4, Zenon
      <4>6. h[U \ {x}] \in Int /\ f[x] \in Int
        BY <2>4, <2>5, <3>1, <4>3, Zenon
      <4>7. g[T] = h[U] + (IF w \in T THEN f[w] ELSE 0)
        BY Zenon
      <4> HIDE DEF g, U
      <4> QED  BY <2>5, <4>2, <4>5, <4>6, <4>7
    <3> QED  BY <3>2, <3>3, Zenon
  <2> HIDE DEF g
  <2>9. Additive(f, g, W)
    BY <2>6, <2>7, <2>8, Zenon DEF Additive
  <2> QED  BY <2>9, Zenon
<1> QED  BY <1>2, <1>3, Zenon

LEMMA TotalIs ==
    ASSUME NEW S, IsFiniteSet(S), NEW f, \A x \in S : f[x] \in Int, NEW g, Additive(f, g, S)
    PROVE  Total(f, S) = g[S]
<1> DEFINE Ch(s) == CHOOSE x \in s : TRUE
           Body(h) == [s \in SUBSET S |-> IF s = {} THEN 0 ELSE f[Ch(s)] + h[s \ {Ch(s)}]]
           F == CHOOSE h : h = Body(h)
<1>1. Total(f, S) = F[S]
  BY Zenon DEF Total, MapThenSumSet, MapThenFoldSet
<1>2. ASSUME NEW s \in SUBSET S, s # {} PROVE Ch(s) \in s
  BY <1>2, Zenon
<1> HIDE DEF Ch
<1>3. g = Body(g)
  <2>1. g \in [SUBSET S -> Int]
    BY Zenon DEF Additive
  <2>2. ASSUME NEW s \in SUBSET S
        PROVE  g[s] = IF s = {} THEN 0 ELSE f[Ch(s)] + g[s \ {Ch(s)}]
    BY <1>2, Zenon DEF Additive
  <2> QED  BY <2>1, <2>2, Zenon
<1>4. F = Body(F)
  BY <1>3, Zenon
<1> HIDE DEF F
<1>5. \A s \in SUBSET S : F[s] = IF s = {} THEN 0 ELSE f[Ch(s)] + F[s \ {Ch(s)}]
  BY <1>4, Zenon
<1> DEFINE Bad == {s \in SUBSET S : F[s] # g[s]}
<1> SUFFICES ASSUME S \in Bad PROVE FALSE
  BY <1>1, Zenon
<1>6. PICK W \in Bad : \A w \in W : W \ {w} \notin Bad
  BY LeastSubset, Zenon
<1>7. CASE W = {}
  BY <1>5, <1>7, Zenon DEF Additive
<1>8. CASE W # {}
  <2>1. Ch(W) \in W
    BY <1>2, <1>8, Zenon
  <2>2. F[W \ {Ch(W)}] = g[W \ {Ch(W)}]
    BY <1>6, <2>1, Zenon
  <2>3. g[W] = f[Ch(W)] + g[W \ {Ch(W)}]
    BY <2>1, Zenon DEF Additive
  <2> QED  BY <1>5, <1>8, <2>2, <2>3, Zenon
<1> QED  BY <1>7, <1>8, Zenon

LEMMA TotalIsInt ==
    ASSUME NEW S, IsFiniteSet(S), NEW f, \A x \in S : f[x] \in Int
    PROVE  Total(f, S) \in Int
<1>1. PICK g : Additive(f, g, S)
  BY AdditiveExists, Zenon
<1>2. Total(f, S) = g[S]
  BY <1>1, TotalIs, Zenon
<1>3. g[S] \in Int
  BY <1>1, Zenon DEF Additive
<1> QED  BY <1>2, <1>3, Zenon

\* The value of one element changes.
LEMMA TotalAtOne ==
    ASSUME NEW S, IsFiniteSet(S), NEW f, \A y \in S : f[y] \in Int, NEW x \in S,
           NEW h, h[x] \in Int, \A y \in S \ {x} : h[y] = f[y]
    PROVE  Total(h, S) = Total(f, S) + (h[x] - f[x])
<1>1. PICK g : Additive(f, g, S)
  BY AdditiveExists, Zenon
<1>2. /\ g \in [SUBSET S -> Int]
      /\ g[{}] = 0
      /\ \A T \in SUBSET S : \A y \in T : g[T] = f[y] + g[T \ {y}]
  BY <1>1, Zenon DEF Additive
<1> DEFINE d == h[x] - f[x]
           e == [T \in SUBSET S |-> g[T] + (IF x \in T THEN d ELSE 0)]
<1>3. d \in Int /\ f[x] \in Int /\ h[x] = f[x] + d
  OBVIOUS
<1> HIDE DEF d
<1>4. e \in [SUBSET S -> Int] /\ e[{}] = 0
  <2>1. \A T \in SUBSET S : g[T] + (IF x \in T THEN d ELSE 0) \in Int
    BY <1>2, <1>3
  <2> QED  BY <1>2, <2>1
<1>5. ASSUME NEW T \in SUBSET S, NEW y \in T
      PROVE  e[T] = h[y] + e[T \ {y}]
  <2>1. T \ {y} \in SUBSET S /\ g[T] \in Int /\ g[T \ {y}] \in Int /\ f[y] \in Int
    BY <1>2, Zenon
  <2>2. g[T] = f[y] + g[T \ {y}]
    BY <1>2, Zenon
  <2>3. CASE y = x
    <3>1. e[T] = g[T] + d /\ e[T \ {y}] = g[T \ {y}] + 0 /\ h[y] = f[y] + d
      BY <1>3, <2>1, <2>3, Zenon
    <3> HIDE DEF e
    <3> QED  BY <1>3, <2>1, <2>2, <3>1
  <2>4. CASE y # x
    <3> DEFINE i == IF x \in T THEN d ELSE 0
    <3>1. e[T] = g[T] + i /\ e[T \ {y}] = g[T \ {y}] + i /\ h[y] = f[y] /\ i \in Int
      BY <1>3, <2>1, <2>4
    <3> HIDE DEF e, i
    <3> QED  BY <2>1, <2>2, <3>1
  <2> QED  BY <2>3, <2>4, Zenon
<1>6. e[S] = g[S] + d
  BY Zenon
<1> HIDE DEF e
<1>7. Additive(h, e, S)
  BY <1>4, <1>5, Zenon DEF Additive
<1>8. \A y \in S : h[y] \in Int
  BY Zenon
<1>9. Total(h, S) = e[S] /\ Total(f, S) = g[S]
  BY <1>1, <1>7, <1>8, TotalIs, Zenon
<1> QED  BY <1>6, <1>9, Zenon DEF d

\* A function that is zero, and one that is nowhere negative.
LEMMA TotalOfZero ==
    ASSUME NEW S, IsFiniteSet(S), NEW f, \A x \in S : f[x] = 0
    PROVE  Total(f, S) = 0
<1> DEFINE g == [T \in SUBSET S |-> 0]
<1>1. Additive(f, g, S)
  BY DEF Additive
<1> QED  BY <1>1, TotalIs

LEMMA TotalIsNat ==
    ASSUME NEW S, IsFiniteSet(S), NEW f, \A x \in S : f[x] \in Nat
    PROVE  Total(f, S) \in Nat
<1>1. PICK g : Additive(f, g, S)
  BY AdditiveExists
<1> DEFINE Bad == {T \in SUBSET S : g[T] \notin Nat}
<1> SUFFICES ASSUME S \in Bad PROVE FALSE
  BY <1>1, TotalIs
<1>2. PICK W \in Bad : \A w \in W : W \ {w} \notin Bad
  BY LeastSubset, Zenon
<1>3. PICK w \in W : TRUE
  <2>1. g[{}] \in Nat
    BY <1>1 DEF Additive
  <2> QED  BY <2>1, Zenon
<1>4. g[W] = f[w] + g[W \ {w}] /\ W \ {w} \in SUBSET S /\ W \ {w} \notin Bad
  BY <1>1, <1>2, Zenon DEF Additive
<1>5. g[W \ {w}] \in Nat /\ f[w] \in Nat
  BY <1>4, Zenon
<1>6. g[W] \in Nat
  BY ONLY <1>4, <1>5
<1> QED  BY <1>2, <1>6, Zenon

-----------------------------------------------------------------------------
(* The counter.                                                            *)

\* The length that the entry of k has once the operation that has locked it is
\* over: that of the observer's value.
IndexLen(k) == IF index[k] = Vacant THEN 0 ELSE index[k].len

Indexed == Total([k \in Keys |-> IndexLen(k)], Keys)

LEMMA IndexLenNat ==
    ASSUME TypeOK, NEW k \in Keys
    PROVE  IndexLen(k) \in Nat
BY Zenon DEF TypeOK, IndexLen, CacheValue

LEMMA PendingInt ==
    ASSUME TypeOK, NEW t \in Threads
    PROVE  Pending(t) \in Int
<1>1. key[t] # Vacant => DataLen(key[t]) \in Nat
  BY DataLenNat, Zenon DEF TypeOK
<1>2. val[t] # Vacant => val[t].len \in Nat
  BY Zenon DEF TypeOK, CacheValue
<1>3. CASE pc[t] = "insert"
  <2>1. Pending(t) = val[t].len - DataLen(key[t])
    BY <1>3, Zenon DEF Pending
  <2>2. key[t] # Vacant /\ val[t] # Vacant
    BY <1>3, Zenon DEF TypeOK, Idle
  <2> QED  BY <1>1, <1>2, <2>1, <2>2
<1>4. CASE pc[t] \in {"delete", "evict"}
  <2>1. Pending(t) = -DataLen(key[t])
    BY <1>4, Zenon DEF Pending
  <2>2. key[t] # Vacant
    BY <1>4, Zenon DEF TypeOK, Idle
  <2> QED  BY <1>1, <2>1, <2>2
<1>5. CASE pc[t] \notin {"insert", "delete", "evict"}
  BY <1>5 DEF Pending
<1> QED  BY <1>3, <1>4, <1>5, Zenon

\* What is stored and what a thread still has to do change by as much as the
\* counter.
LEMMA AccountingStep ==
    ASSUME TypeOK, TypeOK', Accounting, NEW k \in Keys, NEW t \in Threads,
           \A j \in Keys \ {k} : DataLen(j)' = DataLen(j),
           \A s \in Threads \ {t} : Pending(s)' = Pending(s), Pending(t)' \in Int,
           current' - current = (DataLen(k)' - DataLen(k)) + (Pending(t)' - Pending(t))
    PROVE  Accounting'
<1> DEFINE f == [j \in Keys |-> DataLen(j)]
           h == [j \in Keys |-> DataLen(j)']
           p == [s \in Threads |-> Pending(s)]
           q == [s \in Threads |-> Pending(s)']
<1>1. \A j \in Keys : f[j] \in Int /\ h[j] \in Int
  <2>1. \A j \in Keys : DataLen(j) \in Nat
    BY DataLenNat, Zenon
  <2>2. ASSUME NEW j \in Keys PROVE DataLen(j)' \in Nat
    <3>1. map'[j] \in CacheEntry \cup {Vacant}
      BY Zenon DEF TypeOK
    <3>2. map'[j] = Vacant \/ map'[j].value.len \in Nat
      BY <3>1, Zenon DEF CacheEntry, CacheValue
    <3> QED  BY <3>2, Zenon DEF DataLen
  <2> QED  BY <2>1, <2>2
<1>2. \A s \in Threads : p[s] \in Int /\ q[s] \in Int
  BY PendingInt, Zenon
<1>3. /\ \A j \in Keys \ {k} : h[j] = f[j]
      /\ \A s \in Threads \ {t} : q[s] = p[s]
  BY Zenon
<1>4. current' - current = (h[k] - f[k]) + (q[t] - p[t])
  BY Zenon
<1>5. /\ Stored = Total(f, Keys) /\ InFlight = Total(p, Threads)
      /\ Stored' = Total(h, Keys) /\ InFlight' = Total(q, Threads)
  BY Zenon DEF Stored, InFlight
<1> HIDE DEF f, h, p, q
<1>6. Total(h, Keys) = Total(f, Keys) + (h[k] - f[k]) /\ Total(f, Keys) \in Int
  BY <1>1, <1>3, FiniteAssumption, TotalAtOne, TotalIsInt
<1>7. Total(q, Threads) = Total(p, Threads) + (q[t] - p[t]) /\ Total(p, Threads) \in Int
  BY <1>2, <1>3, FiniteAssumption, TotalAtOne, TotalIsInt
<1>8. current \in Int /\ current' \in Int
  BY Zenon DEF TypeOK
<1> QED  BY <1>1, <1>2, <1>4, <1>5, <1>6, <1>7, <1>8 DEF Accounting

\* The sum that the observer could form changes by as much.
LEMMA IndexedStep ==
    ASSUME TypeOK, current = Indexed, NEW k \in Keys, NEW n \in Nat,
           IndexLen(k)' = n, \A j \in Keys \ {k} : IndexLen(j)' = IndexLen(j),
           current' - current = n - IndexLen(k), current' \in Int
    PROVE  current' = Indexed'
<1> DEFINE f == [j \in Keys |-> IndexLen(j)]
           h == [j \in Keys |-> IndexLen(j)']
<1>1. \A j \in Keys : f[j] \in Int /\ h[j] \in Int
  BY IndexLenNat
<1>2. h[k] = n /\ f[k] = IndexLen(k) /\ \A j \in Keys \ {k} : h[j] = f[j]
  BY Zenon
<1>3. Indexed = Total(f, Keys) /\ Indexed' = Total(h, Keys)
  BY Zenon DEF Indexed
<1> HIDE DEF f, h
<1>4. Total(h, Keys) = Total(f, Keys) + (h[k] - f[k])
  BY <1>1, <1>2, FiniteAssumption, TotalAtOne
<1>5. current \in Int
  BY Zenon DEF TypeOK
<1> QED  BY <1>1, <1>2, <1>3, <1>4, <1>5

\* A thread that takes no step owes what it owed, as long as the entry it has
\* locked keeps its length.
LEMMA PendingStays ==
    ASSUME TypeOK, NEW s \in Threads, pc'[s] = pc[s], key'[s] = key[s], val'[s] = val[s],
           \A j \in Keys : key[s] = j => DataLen(j)' = DataLen(j)
    PROVE  Pending(s)' = Pending(s)
<1>1. CASE pc[s] \in {"insert", "delete", "evict"}
  <2>1. PICK j \in Keys : key[s] = j
    BY <1>1, Zenon DEF TypeOK, Idle
  <2>2. DataLen(j)' = DataLen(j)
    BY <2>1, Zenon
  <2>3. (IF map'[j] = Vacant THEN 0 ELSE map'[j].value.len) = DataLen(j)
    BY <2>2, Zenon DEF DataLen
  <2> QED  BY <1>1, <2>1, <2>3, Zenon DEF Pending, DataLen
<1>2. CASE pc[s] \notin {"insert", "delete", "evict"}
  BY <1>2, Zenon DEF Pending
<1> QED  BY <1>1, <1>2, Zenon

\* Steps that change no length and neither the counter nor the index.
LEMMA NoneCounted ==
    ASSUME TypeOK, Accounting, current = Indexed, UNCHANGED <<current, index>>,
           \A j \in Keys : DataLen(j)' = DataLen(j),
           \A s \in Threads : Pending(s)' = Pending(s)
    PROVE  Accounting' /\ current' = Indexed'
<1>1. Stored' = Stored /\ InFlight' = InFlight
  BY Zenon DEF Stored, InFlight
<1>2. \A j \in Keys : IndexLen(j)' = IndexLen(j)
  BY Zenon DEF IndexLen
<1>3. Indexed' = Indexed
  BY <1>2, Zenon DEF Indexed
<1> QED  BY <1>1, <1>3, Zenon DEF Accounting

\* Thread t locks the entry of k, accounts for its new length n and tells the
\* observer.
LEMMA BeginCounts ==
    ASSUME IInv, TypeOK', Accounting, current = Indexed,
           NEW t \in Threads, NEW k \in Keys, NEW x, NEW n \in Nat,
           pc[t] \in {Idle, "sweep"}, ~Locked(k), map' = map,
           \A s \in Threads \ {t} : pc'[s] = pc[s] /\ key'[s] = key[s] /\ val'[s] = val[s],
           index' = [index EXCEPT ![k] = x], IndexLen(k)' = n,
           current' = current + (n - DataLen(k)), Pending(t)' = n - DataLen(k)
    PROVE  Accounting' /\ current' = Indexed'
<1>1. TypeOK /\ current \in Int /\ DataLen(k) \in Nat /\ current' \in Int
  BY DataLenNat, Zenon DEF IInv, TypeOK
<1>2. \A j \in Keys : DataLen(j)' = DataLen(j)
  BY Zenon DEF DataLen
<1>3. \A s \in Threads \ {t} : Pending(s)' = Pending(s)
  BY <1>1, <1>2, PendingStays, Zenon
<1>4. Pending(t) = 0
  BY Zenon DEF Pending, Idle
<1>5. IndexLen(k) = DataLen(k)
  <2>1. index[k] = IF map[k] = Vacant THEN Vacant ELSE map[k].value
    BY Zenon DEF IInv, ObserverMirrors
  <2>2. map[k] # Vacant => map[k].value # Vacant
    BY <1>1, VacantAssumption DEF TypeOK, CacheEntry
  <2> QED  BY <2>1, <2>2, Zenon DEF IndexLen, DataLen
<1>6. \A j \in Keys \ {k} : IndexLen(j)' = IndexLen(j)
  BY <1>1, Zenon DEF TypeOK, IndexLen
<1>7. /\ current' - current = (DataLen(k)' - DataLen(k)) + (Pending(t)' - Pending(t))
      /\ Pending(t)' \in Int
      /\ current' - current = n - IndexLen(k)
  BY <1>1, <1>2, <1>4, <1>5
<1>8. Accounting'
  BY <1>1, <1>2, <1>3, <1>7, AccountingStep, Zenon
<1>9. current' = Indexed'
  BY <1>1, <1>6, <1>7, IndexedStep, Zenon
<1> QED  BY <1>8, <1>9, Zenon

\* Thread t changes the entry of k, which it has locked, to its new length n.
LEMMA EndCounts ==
    ASSUME IInv, TypeOK', Accounting, current = Indexed,
           NEW t \in Threads, NEW k \in Keys, NEW e, NEW n \in Nat,
           key[t] = k, map' = [map EXCEPT ![k] = e], DataLen(k)' = n,
           \A s \in Threads \ {t} : pc'[s] = pc[s] /\ key'[s] = key[s] /\ val'[s] = val[s],
           UNCHANGED <<current, index>>,
           Pending(t) = n - DataLen(k), pc'[t] \in {Idle, "sweep"}
    PROVE  Accounting' /\ current' = Indexed'
<1>1. TypeOK /\ current \in Int /\ DataLen(k) \in Nat /\ map \in [Keys -> CacheEntry \cup {Vacant}]
  BY DataLenNat, Zenon DEF IInv, TypeOK
<1>2. \A j \in Keys \ {k} : DataLen(j)' = DataLen(j)
  BY <1>1, Zenon DEF DataLen
<1>3. \A s \in Threads \ {t} : key[s] # k
  BY VacantAssumption, Zenon DEF IInv, LockExclusive
<1>4. \A s \in Threads \ {t} : Pending(s)' = Pending(s)
  BY <1>1, <1>2, <1>3, PendingStays, Zenon
<1>5. Pending(t)' = 0
  BY Zenon DEF Pending, Idle
<1>6. current' - current = (DataLen(k)' - DataLen(k)) + (Pending(t)' - Pending(t))
  BY <1>1, <1>5
<1>7. Accounting'
  BY <1>1, <1>2, <1>4, <1>5, <1>6, AccountingStep
<1>8. \A j \in Keys : IndexLen(j)' = IndexLen(j)
  BY Zenon DEF IndexLen
<1>9. Indexed' = Indexed
  BY <1>8, Zenon DEF Indexed
<1> QED  BY <1>7, <1>9, Zenon

\* The counter goes with the lengths, in every step.
LEMMA CounterStep ==
    ASSUME IInv, TypeOK', Accounting, current = Indexed, [Next]_vars
    PROVE  Accounting' /\ current' = Indexed'
<1> DEFINE G == Accounting' /\ current' = Indexed'
<1>0. /\ TypeOK /\ CheckedUnderLock /\ current \in Int
      /\ map \in [Keys -> CacheEntry \cup {Vacant}]
      /\ pc \in [Threads -> {Idle, "insert", "delete", "sweep", "evict"}]
      /\ key \in [Threads -> Keys \cup {Vacant}]
      /\ val \in [Threads -> CacheValue \cup {Vacant}]
      /\ index \in [Keys -> CacheValue \cup {Vacant}]
  BY Zenon DEF IInv, TypeOK
<1>a. ASSUME NEW k \in Keys, map[k] # Vacant, NEW b \in BOOLEAN, map' = [map EXCEPT ![k].used = b],
             UNCHANGED <<current, index, pc, key, val>>
      PROVE  G
  <2> DEFINE e == [map[k] EXCEPT !.used = b]
  <2>1. e.value = map[k].value /\ e \in CacheEntry /\ map' = [map EXCEPT ![k] = e]
    BY <1>0, <1>a, MarkedEntry
  <2>2. e # Vacant
    BY <2>1, VacantAssumption, Zenon
  <2> HIDE DEF e
  <2>3. ASSUME NEW j \in Keys PROVE DataLen(j)' = DataLen(j)
    BY <1>0, <1>a, <2>1, <2>2, Zenon DEF DataLen
  <2>4. \A s \in Threads : Pending(s)' = Pending(s)
    BY <1>0, <1>a, <2>3, PendingStays, Zenon
  <2> QED  BY <1>0, <1>a, <2>3, <2>4, NoneCounted, Zenon
<1>b. ASSUME UNCHANGED <<map, current, index, key, val>>,
             \A s \in Threads : Pending(s)' = Pending(s)
      PROVE  G
  <2>1. \A j \in Keys : DataLen(j)' = DataLen(j)
    BY <1>b, Zenon DEF DataLen
  <2> QED  BY <1>0, <1>b, <2>1, NoneCounted, Zenon
<1>1. ASSUME NEW k \in Keys, Get(k) PROVE G
  BY <1>1, <1>a, Zenon DEF Get
<1>2. ASSUME NEW t \in Threads, NEW k \in Keys, NEW v \in CacheValue, InsertReserve(t, k, v)
      PROVE  G
  <2>1. /\ pc[t] = Idle /\ ~Locked(k) /\ map' = map /\ Account(k, v)
        /\ pc' = [pc EXCEPT ![t] = "insert"] /\ key' = [key EXCEPT ![t] = k]
        /\ val' = [val EXCEPT ![t] = v] /\ index' = [index EXCEPT ![k] = v]
    BY <1>2, Zenon DEF InsertReserve
  <2>2. DataLen(k) \in Nat /\ v.len \in Nat /\ v # Vacant
    BY <1>0, DataLenNat, VacantAssumption, Zenon DEF CacheValue
  <2>3. current' = current + (v.len - DataLen(k))
    BY <1>0, <2>1, <2>2 DEF Account, Free, Reserve
  <2>4. IndexLen(k)' = v.len
    BY <1>0, <2>1, <2>2, Zenon DEF IndexLen
  <2>5. /\ \A s \in Threads \ {t} : pc'[s] = pc[s] /\ key'[s] = key[s] /\ val'[s] = val[s]
        /\ pc'[t] = "insert" /\ key'[t] = k /\ val'[t] = v
    BY <1>0, <2>1, Zenon
  <2>6. Pending(t)' = v.len - DataLen(k)
    BY <2>1, <2>5 DEF Pending, DataLen
  <2> QED  BY <2>1, <2>2, <2>3, <2>4, <2>5, <2>6, BeginCounts, Zenon
<1>3. ASSUME NEW t \in Threads, InsertCommit(t) PROVE G
  <2>1. PICK k \in Keys, v \in CacheValue : key[t] = k /\ val[t] = v
    BY <1>0, <1>3 DEF InsertCommit, TypeOK, Idle
  <2> DEFINE e == [value |-> v, used |-> TRUE]
  <2>2. /\ pc[t] = "insert" /\ map' = [map EXCEPT ![k] = e] /\ pc' = [pc EXCEPT ![t] = Idle]
        /\ val' = [val EXCEPT ![t] = Vacant] /\ key' = [key EXCEPT ![t] = Vacant]
        /\ UNCHANGED <<current, index>>
    BY <1>3, <2>1, Zenon DEF InsertCommit
  <2>3. e \in CacheEntry /\ e # Vacant /\ e.value.len = v.len /\ v.len \in Nat
    <3>1. e \in CacheEntry
      BY Zenon DEF CacheEntry
    <3>2. v.len \in Nat
      BY SizesAssumption, Zenon DEF CacheValue
    <3> QED  BY <3>1, <3>2, VacantAssumption, Zenon
  <2> HIDE DEF e
  <2>4. DataLen(k)' = v.len
    BY <1>0, <2>2, <2>3, Zenon DEF DataLen
  <2>5. /\ \A s \in Threads \ {t} : pc'[s] = pc[s] /\ key'[s] = key[s] /\ val'[s] = val[s]
        /\ pc'[t] = Idle
    BY <1>0, <2>2, Zenon
  <2>6. Pending(t) = v.len - DataLen(k)
    BY <2>1, <2>2, Zenon DEF Pending
  <2> QED  BY <2>1, <2>2, <2>3, <2>4, <2>5, <2>6, EndCounts, Zenon
<1>c. ASSUME NEW t \in Threads, NEW k \in Keys, pc[t] \in {Idle, "sweep"}, ~Locked(k), map[k] # Vacant,
             index' = [index EXCEPT ![k] = Vacant], Free(DataLen(k)), map' = map, val' = val,
             NEW p \in {"delete", "evict"}, pc' = [pc EXCEPT ![t] = p], key' = [key EXCEPT ![t] = k]
      PROVE  G
  <2>1. DataLen(k) \in Nat
    BY <1>0, DataLenNat, Zenon
  <2>2. current' = current + (0 - DataLen(k))
    BY <1>0, <1>c, <2>1 DEF Free
  <2>3. IndexLen(k)' = 0
    BY <1>0, <1>c, Zenon DEF IndexLen
  <2>4. /\ \A s \in Threads \ {t} : pc'[s] = pc[s] /\ key'[s] = key[s] /\ val'[s] = val[s]
        /\ pc'[t] = p /\ key'[t] = k
    BY <1>0, <1>c, Zenon
  <2>5. Pending(t)' = 0 - DataLen(k)
    <3>1. Pending(t)' = -DataLen(k)
      BY <1>c, <2>4 DEF Pending, DataLen
    <3> QED  BY <2>1, <3>1
  <2>6. 0 \in Nat
    BY Zenon
  <2> QED  BY <1>c, <2>2, <2>3, <2>4, <2>5, <2>6, BeginCounts, Zenon
<1>4. ASSUME NEW t \in Threads, NEW k \in Keys, DeleteFree(t, k) PROVE G
  BY <1>4, <1>c, Zenon DEF DeleteFree
<1>d. ASSUME NEW t \in Threads, pc[t] \in {"delete", "evict"}, map' = [map EXCEPT ![key[t]] = Vacant],
             NEW p \in {Idle, "sweep"}, pc' = [pc EXCEPT ![t] = p], key' = [key EXCEPT ![t] = Vacant],
             UNCHANGED <<current, index, val>>
      PROVE  G
  <2>1. PICK k \in Keys : key[t] = k
    BY <1>0, <1>d DEF TypeOK, Idle
  <2>2. map' = [map EXCEPT ![k] = Vacant] /\ DataLen(k) \in Nat
    BY <1>0, <1>d, <2>1, DataLenNat, Zenon
  <2>3. DataLen(k)' = 0
    BY <1>0, <2>2, Zenon DEF DataLen
  <2>4. /\ \A s \in Threads \ {t} : pc'[s] = pc[s] /\ key'[s] = key[s] /\ val'[s] = val[s]
        /\ pc'[t] \in {Idle, "sweep"}
    BY <1>0, <1>d, Zenon
  <2>5. Pending(t) = 0 - DataLen(k)
    <3>1. Pending(t) = -DataLen(k)
      BY <1>d, <2>1, Zenon DEF Pending
    <3> QED  BY <2>2, <3>1
  <2>6. 0 \in Nat /\ UNCHANGED <<current, index>>
    BY <1>d, Zenon
  <2> QED  BY <2>1, <2>2, <2>3, <2>4, <2>5, <2>6, EndCounts, Zenon
<1>5. ASSUME NEW t \in Threads, DeleteRemove(t) PROVE G
  BY <1>5, <1>d, Zenon DEF DeleteRemove
<1>6. ASSUME NEW t \in Threads, EvictStart(t) PROVE G
  <2>1. \A s \in Threads : Pending(s)' = Pending(s)
    BY <1>0, <1>6, Zenon DEF EvictStart, Pending, DataLen, Idle
  <2> QED  BY <1>6, <1>b, <2>1, Zenon DEF EvictStart
<1>7. ASSUME NEW t \in Threads, NEW k \in Keys, EvictRetain(t, k) PROVE G
  <2>1. CASE map[k] = Vacant
    <3>1. UNCHANGED <<map, current, index, pc, key, val>>
      BY <1>7, <2>1, Zenon DEF EvictRetain
    <3>2. \A s \in Threads : Pending(s)' = Pending(s)
      BY <3>1, Zenon DEF Pending, DataLen
    <3> QED  BY <1>b, <3>1, <3>2, Zenon
  <2>2. CASE map[k] # Vacant
    BY <1>7, <1>a, <2>2, Zenon DEF EvictRetain
  <2> QED  BY <2>1, <2>2, Zenon
<1>8. ASSUME NEW t \in Threads, NEW k \in Keys, EvictFree(t, k) PROVE G
  BY <1>8, <1>c, Zenon DEF EvictFree
<1>9. ASSUME NEW t \in Threads, EvictRemove(t) PROVE G
  BY <1>9, <1>d, Zenon DEF EvictRemove
<1>10. ASSUME NEW t \in Threads, EvictDone(t) PROVE G
  <2>1. \A s \in Threads : Pending(s)' = Pending(s)
    BY <1>0, <1>10, Zenon DEF EvictDone, Pending, DataLen, Idle
  <2> QED  BY <1>10, <1>b, <2>1, Zenon DEF EvictDone
<1>11. CASE UNCHANGED vars
  <2>1. UNCHANGED <<map, current, index, pc, key, val>>
    BY <1>11, Zenon DEF vars
  <2>2. \A s \in Threads : Pending(s)' = Pending(s)
    BY <2>1, Zenon DEF Pending, DataLen
  <2> QED  BY <1>b, <2>1, <2>2, Zenon
<1>12. ASSUME Next PROVE G
  <2> HIDE DEF G
  <2> QED
    BY <1>12, <1>1, <1>2, <1>3, <1>4, <1>5, <1>6, <1>7, <1>8, <1>9, <1>10, NextCases, Zenon
<1> QED
  BY <1>11, <1>12, Zenon

-----------------------------------------------------------------------------

\* The invariant is inductive.
LEMMA Inductive == Spec => []IInv
<1>1. IInv /\ [Next]_vars => IInv'
  BY TypeStep, LockStep, CheckedStep, ObserverStep, Zenon DEF IInv
<1>2. QED
  BY InitIInv, <1>1, PTL DEF Spec

\* Type correctness: a thread holds a lock and a value exactly while it is in
\* the middle of `insert`, `delete` or the eviction of an entry.
THEOREM TypeCorrect == Spec => []TypeOK
<1>1. IInv => TypeOK
  BY Zenon DEF IInv
<1>2. QED
  BY Inductive, <1>1, PTL

\* The observer of the cache sees every change of the map, in order, whatever
\* the threads that call `insert`, `delete` and `evict_unused` do.
THEOREM ObserverCorrect == Spec => []ObserverMirrors
<1>1. IInv => ObserverMirrors
  BY Zenon DEF IInv
<1>2. QED
  BY Inductive, <1>1, PTL

\* The limiter's counter never exceeds the limit.
THEOREM LimitRespected == Spec => []WithinLimit
<1>1. IInv => WithinLimit
  BY Zenon DEF IInv
<1>2. QED
  BY Inductive, <1>1, PTL

\* The sum of the lengths, and what the threads still owe it.
LEMMA Counted == Spec => [](Accounting /\ current = Indexed)
<1>1. Init => Accounting /\ current = Indexed
  <2> SUFFICES ASSUME Init PROVE Accounting /\ current = Indexed
    BY Zenon
  <2>1. /\ \A k \in Keys : DataLen(k) = 0 /\ IndexLen(k) = 0
        /\ \A t \in Threads : Pending(t) = 0
    BY Zenon DEF Init, DataLen, IndexLen, Pending, Idle
  <2> DEFINE f == [k \in Keys |-> DataLen(k)]
             g == [k \in Keys |-> IndexLen(k)]
             p == [t \in Threads |-> Pending(t)]
  <2>2. /\ \A k \in Keys : f[k] = 0 /\ g[k] = 0
        /\ \A t \in Threads : p[t] = 0
        /\ Stored = Total(f, Keys) /\ Indexed = Total(g, Keys) /\ InFlight = Total(p, Threads)
    BY <2>1, Zenon DEF Stored, Indexed, InFlight
  <2> HIDE DEF f, g, p
  <2>3. Stored = 0 /\ Indexed = 0 /\ InFlight = 0
    BY <2>2, FiniteAssumption, TotalOfZero, Zenon
  <2>4. current = 0
    BY Zenon DEF Init
  <2> QED  BY <2>3, <2>4 DEF Accounting
<1>2. IInv /\ IInv' /\ (Accounting /\ current = Indexed) /\ [Next]_vars
         => (Accounting /\ current = Indexed)'
  BY CounterStep, Zenon DEF IInv
<1>3. QED
  BY Inductive, <1>1, <1>2, PTL DEF Spec

\* No interleaving of `insert`, `delete` and `evict_unused` leaks or frees twice
\* any of the limiter's bytes, for any number of threads and keys.
THEOREM NothingLeaks == Spec => []Accounting
<1>1. (Accounting /\ current = Indexed) => Accounting
  BY Zenon
<1>2. QED
  BY Counted, <1>1, PTL

\* The unchecked `fetch_sub` of `free` never takes the counter below zero: it is
\* the sum of the lengths that the observer knows.
THEOREM CounterNeverWraps == Spec => [](current >= 0)
<1>1. IInv /\ (Accounting /\ current = Indexed) => current >= 0
  <2> SUFFICES ASSUME IInv, current = Indexed PROVE current >= 0
    BY Zenon
  <2> DEFINE g == [k \in Keys |-> IndexLen(k)]
  <2>1. (\A k \in Keys : g[k] \in Nat) /\ Indexed = Total(g, Keys)
    BY IndexLenNat, Zenon DEF Indexed, IInv
  <2> HIDE DEF g
  <2>2. Indexed \in Nat
    BY <2>1, FiniteAssumption, TotalIsNat, Zenon
  <2> QED  BY <2>2
<1>2. QED
  BY Inductive, Counted, <1>1, PTL

\* The generation of an entry only grows while the entry stays in the map,
\* although `insert` compares generations and changes the map in two steps.
THEOREM GenerationsCorrect == Spec => GenerationsAdvance
<1> DEFINE A == \A k \in Keys :
                  map[k] # Vacant /\ map'[k] # Vacant /\ map'[k].value # map[k].value
                      => map'[k].value.generation > map[k].value.generation
<1>1. IInv /\ [Next]_vars => [A]_vars
  BY GenerationStep, Zenon
<1>2. QED
  BY Inductive, <1>1, PTL DEF Spec, GenerationsAdvance
=============================================================================
