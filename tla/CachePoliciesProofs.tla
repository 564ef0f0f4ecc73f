------------------------ MODULE CachePoliciesProofs -------------------------
(***************************************************************************)
(* Proofs about module CachePolicies, for any finite sets of keys and      *)
(* backends, any values and any limit.                                     *)
(***************************************************************************)
EXTENDS CachePolicies, FiniteSetTheorems, TLAPS

-----------------------------------------------------------------------------
(* Sums.  A function that gives the sum of every subset of a finite set is *)
(* shown to exist, by looking at a least subset that has none; Total is    *)
(* that function, in whatever order it adds.                               *)

\* The sums of the subsets of a set.
Additive(f, g, S) ==
    /\ g \in [SUBSET S -> Int]
    /\ g[{}] = 0
    /\ \A T \in SUBSET S : \A x \in T : g[T] = f[x] + g[T \ {x}]

\* A property of subsets that fails has a least set where it fails.
LEMMA LeastSubset ==
    ASSUME NEW S, IsFiniteSet(S), NEW B \in SUBSET SUBSET S, NEW T \in B
    PROVE  \E W \in B : \A x \in W : W \ {x} \notin B
<1> DEFINE R == StrictSubsetOrdering(S)
<1>1. IsWellFoundedOn(R, FiniteSubsetsOf(S))
  BY FS_StrictSubsetOrderingWellFounded, Zenon
<1>3. B \subseteq FiniteSubsetsOf(S)
  BY FS_Subset, Zenon DEF FiniteSubsetsOf
<1> HIDE DEF R
<1>4. PICK W \in B : \A V \in B : ~(<<V, W>> \in R)
  BY <1>1, <1>3, WFMin, Zenon
<1>5. ASSUME NEW x \in W, W \ {x} \in B PROVE FALSE
  BY <1>4, <1>5, Zenon DEF R, StrictSubsetOrdering
<1> QED  BY <1>5, Zenon

LEMMA AdditiveExists ==
    ASSUME NEW S, IsFiniteSet(S), NEW f, \A x \in S : f[x] \in Int
    PROVE  \E g : Additive(f, g, S)
<1> DEFINE Bad == {W \in SUBSET S : ~\E g : Additive(f, g, W)}
<1> SUFFICES ASSUME S \in Bad PROVE FALSE
  BY Zenon
<1>1. PICK W \in Bad : \A w \in W : W \ {w} \notin Bad
  BY LeastSubset, Zenon
<1>2. CASE W = {}
  <2>1. SUBSET W = {{}}
    BY <1>2, Zenon
  <2>2. Additive(f, [T \in SUBSET W |-> 0], W)
    BY <1>2, <2>1 DEF Additive
  <2> QED  BY <2>2, Zenon
<1>3. CASE W # {}
  <2>1. PICK w \in W : TRUE
    BY <1>3, Zenon
  <2> DEFINE V == W \ {w}
  <2>2. PICK h : Additive(f, h, V)
    BY <1>1, Zenon
  <2>3. /\ h \in [SUBSET V -> Int]
        /\ h[{}] = 0
        /\ \A T \in SUBSET V : \A x \in T : h[T] = f[x] + h[T \ {x}]
    BY <2>2, Zenon DEF Additive
  <2> DEFINE g == [T \in SUBSET W |-> h[T \ {w}] + (IF w \in T THEN f[w] ELSE 0)]
  <2>4. \A T \in SUBSET W : T \ {w} \in SUBSET V /\ h[T \ {w}] \in Int
    BY <2>3, Zenon
  <2>5. f[w] \in Int /\ \A x \in W : f[x] \in Int
    BY Zenon
  <2>6. g \in [SUBSET W -> Int]
    <3>1. ASSUME NEW T \in SUBSET W
          PROVE  h[T \ {w}] + (IF w \in T THEN f[w] ELSE 0) \in Int
      <4>1. h[T \ {w}] \in Int
        BY <2>4, Zenon
      <4>2. (IF w \in T THEN f[w] ELSE 0) \in Int
        BY <2>5
      <4> QED  BY ONLY <4>1, <4>2
    <3> QED  BY <3>1, Zenon
  <2>7. g[{}] = 0
    <3>1. {} \in SUBSET W /\ {} \ {w} = {}
      BY Zenon
    <3> QED  BY <2>3, <3>1
  <2>8. ASSUME NEW T \in SUBSET W, NEW x \in T
        PROVE  g[T] = f[x] + g[T \ {x}]
    <3>1. T \ {x} \in SUBSET W
      BY Zenon
    <3>2. CASE x = w
      <4>1. g[T] = h[T \ {w}] + f[w]
        BY <3>2, Zenon
      <4>2. (T \ {w}) \ {w} = T \ {w}
        BY Zenon
      <4>3. g[T \ {w}] = h[T \ {w}]
        <5>1. g[T \ {w}] = h[(T \ {w}) \ {w}] + 0
          BY <3>1, <3>2, Zenon
        <5>2. h[T \ {w}] \in Int
          BY <2>4, Zenon
        <5>3. g[T \ {w}] = h[T \ {w}] + 0
          BY <4>2, <5>1, Zenon
        <5> QED  BY ONLY <5>2, <5>3
      <4>4. h[T \ {w}] \in Int
        BY <2>4, Zenon
      <4> HIDE DEF g
      <4> QED  BY <2>5, <3>2, <4>1, <4>3, <4>4
    <3>3. CASE x # w
      <4> DEFINE U == T \ {w}
      <4>1. U \in SUBSET V /\ x \in U
        BY <3>3, Zenon
      <4>2. h[U] = f[x] + h[U \ {x}]
        BY <2>3, <4>1, Zenon
      <4>3. U \ {x} = (T \ {x}) \ {w}
        BY Zenon
      <4>4. w \in T <=> w \in T \ {x}
        BY <3>3, Zenon
      <4>5. g[T \ {x}] = h[U \ {x}] + (IF w \in T THEN f[w] ELSE 0)
        BY <3>1, <4>3, <4>4, Zenon
      <4>6. h[U \ {x}] \in Int /\ f[x] \in Int
        BY <2>4, <2>5, <3>1, <4>3, Zenon
      <4>7. g[T] = h[U] + (IF w \in T THEN f[w] ELSE 0)
        BY Zenon
      <4> HIDE DEF g, U
      <4> QED  BY <2>5, <4>2, <4>5, <4>6, <4>7
    <3> QED  BY <3>2, <3>3, Zenon
  <2> HIDE DEF g
  <2>9. Additive(f, g, W)
    BY <2>6, <2>7, <2>8, Zenon DEF Additive
  <2> QED  BY <2>9, Zenon
<1> QED  BY <1>2, <1>3, Zenon

LEMMA TotalIs ==
    ASSUME NEW S, IsFiniteSet(S), NEW f, \A x \in S : f[x] \in Int, NEW g, Additive(f, g, S)
    PROVE  Total(f, S) = g[S]
<1> DEFINE Ch(s) == CHOOSE x \in s : TRUE
           Body(h) == [s \in SUBSET S |-> IF s = {} THEN 0 ELSE f[Ch(s)] + h[s \ {Ch(s)}]]
           F == CHOOSE h : h = Body(h)
<1>1. Total(f, S) = F[S]
  BY Zenon DEF Total, MapThenSumSet, MapThenFoldSet
<1>2. ASSUME NEW s \in SUBSET S, s # {} PROVE Ch(s) \in s
  BY <1>2, Zenon
<1> HIDE DEF Ch
<1>3. g = Body(g)
  <2>1. g \in [SUBSET S -> Int]
    BY Zenon DEF Additive
  <2>2. ASSUME NEW s \in SUBSET S
        PROVE  g[s] = IF s = {} THEN 0 ELSE f[Ch(s)] + g[s \ {Ch(s)}]
    BY <1>2, Zenon DEF Additive
  <2> QED  BY <2>1, <2>2, Zenon
<1>4. F = Body(F)
  BY <1>3, Zenon
<1> HIDE DEF F
<1>5. \A s \in SUBSET S : F[s] = IF s = {} THEN 0 ELSE f[Ch(s)] + F[s \ {Ch(s)}]
  BY <1>4, Zenon
<1> DEFINE Bad == {s \in SUBSET S : F[s] # g[s]}
<1> SUFFICES ASSUME S \in Bad PROVE FALSE
  BY <1>1, Zenon
<1>6. PICK W \in Bad : \A w \in W : W \ {w} \notin Bad
  BY LeastSubset, Zenon
<1>7. CASE W = {}
  BY <1>5, <1>7, Zenon DEF Additive
<1>8. CASE W # {}
  <2>1. Ch(W) \in W
    BY <1>2, <1>8, Zenon
  <2>2. F[W \ {Ch(W)}] = g[W \ {Ch(W)}]
    BY <1>6, <2>1, Zenon
  <2>3. g[W] = f[Ch(W)] + g[W \ {Ch(W)}]
    BY <2>1, Zenon DEF Additive
  <2> QED  BY <1>5, <1>8, <2>2, <2>3, Zenon
<1> QED  BY <1>7, <1>8, Zenon

\* ... and of each of its subsets.
LEMMA TotalOfPart ==
    ASSUME NEW S, IsFiniteSet(S), NEW f, \A x \in S : f[x] \in Int, NEW g, Additive(f, g, S),
           NEW T \in SUBSET S
    PROVE  Total(f, T) = g[T] /\ g[T] \in Int
<1> DEFINE h == [V \in SUBSET T |-> g[V]]
<1>1. IsFiniteSet(T)
  BY FS_Subset, Zenon
<1>2. SUBSET T \subseteq SUBSET S
  BY Zenon
<1>3. Additive(f, h, T)
  <2>1. h \in [SUBSET T -> Int] /\ h[{}] = 0
    BY <1>2, Zenon DEF Additive
  <2>2. ASSUME NEW V \in SUBSET T, NEW x \in V
        PROVE  h[V] = f[x] + h[V \ {x}]
    <3>1. V \in SUBSET S /\ V \ {x} \in SUBSET T
      BY Zenon
    <3> QED  BY <3>1, Zenon DEF Additive
  <2> HIDE DEF h
  <2> QED  BY <2>1, <2>2, Zenon DEF Additive
<1>4. h[T] = g[T] /\ g[T] \in Int
  BY Zenon DEF Additive
<1> HIDE DEF h
<1>5. \A x \in T : f[x] \in Int
  BY Zenon
<1> QED  BY <1>1, <1>3, <1>4, <1>5, TotalIs, Zenon

LEMMA TotalType ==
    ASSUME NEW S, IsFiniteSet(S), NEW f, \A x \in S : f[x] \in Int
    PROVE  Total(f, S) \in Int
<1>1. PICK g : Additive(f, g, S)
  BY AdditiveExists, Zenon
<1> QED  BY <1>1, TotalOfPart

\* The sum of numbers is one.
LEMMA TotalIsNat ==
    ASSUME NEW S, IsFiniteSet(S), NEW f, \A x \in S : f[x] \in Nat
    PROVE  Total(f, S) \in Nat
<1>1. PICK g : Additive(f, g, S)
  BY AdditiveExists
<1>2. Total(f, S) = g[S]
  BY <1>1, TotalOfPart
<1> DEFINE Bad == {T \in SUBSET S : g[T] \notin Nat}
<1> SUFFICES ASSUME S \in Bad PROVE FALSE
  BY <1>2, Zenon
<1>3. PICK W \in Bad : \A w \in W : W \ {w} \notin Bad
  BY LeastSubset, Zenon
<1>4. W # {}
  <2>1. g[{}] \in Nat
    BY <1>1 DEF Additive
  <2> QED  BY <2>1, Zenon
<1>5. PICK w \in W : TRUE
  BY <1>4, Zenon
<1>6. g[W] = f[w] + g[W \ {w}] /\ g[W \ {w}] \in Nat /\ f[w] \in Nat
  <2>1. g[W] = f[w] + g[W \ {w}]
    BY <1>1, Zenon DEF Additive
  <2>2. W \ {w} \in SUBSET S /\ W \ {w} \notin Bad
    BY <1>3, Zenon
  <2> QED  BY <2>1, <2>2, Zenon
<1>7. g[W] \in Nat
  BY ONLY <1>6
<1> QED  BY <1>3, <1>7, Zenon

\* A sum in two parts.
LEMMA TotalSplit ==
    ASSUME NEW S, IsFiniteSet(S), NEW f, \A x \in S : f[x] \in Int, NEW T \in SUBSET S
    PROVE  Total(f, S) = Total(f, T) + Total(f, S \ T)
<1>1. PICK g : Additive(f, g, S)
  BY AdditiveExists, Zenon
<1>2. Total(f, S) = g[S] /\ Total(f, T) = g[T] /\ Total(f, S \ T) = g[S \ T]
  BY <1>1, TotalOfPart
<1> DEFINE h == [V \in SUBSET S |-> g[V \cap T] + g[V \ T]]
<1>3. /\ g \in [SUBSET S -> Int]
      /\ g[{}] = 0
      /\ \A V \in SUBSET S : \A x \in V : g[V] = f[x] + g[V \ {x}]
  BY <1>1, Zenon DEF Additive
<1>4. \A V \in SUBSET S : g[V \cap T] \in Int /\ g[V \ T] \in Int
  BY <1>3, Zenon
<1>5. h \in [SUBSET S -> Int]
  <2>1. ASSUME NEW V \in SUBSET S PROVE g[V \cap T] + g[V \ T] \in Int
    <3>1. g[V \cap T] \in Int /\ g[V \ T] \in Int
      BY <1>4, Zenon
    <3> QED  BY ONLY <3>1
  <2> QED  BY <2>1, Zenon
<1>6. h[{}] = 0
  <2>1. {} \cap T = {} /\ {} \ T = {}
    BY Zenon
  <2> QED  BY <1>3, <2>1
<1>7. ASSUME NEW V \in SUBSET S, NEW x \in V
      PROVE  h[V] = f[x] + h[V \ {x}]
  <2> DEFINE A == V \cap T
             B == V \ T
             W == V \ {x}
  <2>1. h[V] = g[A] + g[B] /\ h[W] = g[W \cap T] + g[W \ T]
    BY Zenon
  <2>2. g[A] \in Int /\ g[B] \in Int /\ g[W \cap T] \in Int /\ g[W \ T] \in Int /\ f[x] \in Int
    BY <1>4, Zenon
  <2>3. CASE x \in T
    <3>1. W \cap T = A \ {x} /\ W \ T = B /\ A \in SUBSET S /\ x \in A
      BY <2>3, Zenon
    <3>2. g[A] = f[x] + g[A \ {x}]
      BY <1>3, <3>1, Zenon
    <3>3. g[A] = f[x] + g[W \cap T] /\ g[B] = g[W \ T]
      BY <3>1, <3>2, Zenon
    <3> QED  BY ONLY <2>1, <2>2, <3>3
  <2>4. CASE x \notin T
    <3>1. W \cap T = A /\ W \ T = B \ {x} /\ B \in SUBSET S /\ x \in B
      BY <2>4, Zenon
    <3>2. g[B] = f[x] + g[B \ {x}]
      BY <1>3, <3>1, Zenon
    <3>3. g[A] = g[W \cap T] /\ g[B] = f[x] + g[W \ T]
      BY <3>1, <3>2, Zenon
    <3> QED  BY ONLY <2>1, <2>2, <3>3
  <2> QED  BY <2>3, <2>4, Zenon
<1>8. h[S] = g[T] + g[S \ T]
  <2>1. S \cap T = T
    BY Zenon
  <2> QED  BY <2>1, Zenon
<1> HIDE DEF h
<1>9. Additive(f, h, S)
  BY <1>5, <1>6, <1>7, Zenon DEF Additive
<1>10. Total(f, S) = h[S]
  BY <1>9, TotalIs, Zenon
<1> QED  BY <1>2, <1>8, <1>10, Zenon

\* Sums of functions that agree.
LEMMA TotalSame ==
    ASSUME NEW S, IsFiniteSet(S), NEW f, NEW h,
           \A x \in S : f[x] \in Int /\ h[x] = f[x]
    PROVE  Total(h, S) = Total(f, S)
<1>1. PICK g : Additive(f, g, S)
  BY AdditiveExists, Zenon
<1>2. Additive(h, g, S)
  BY <1>1, Zenon DEF Additive
<1> QED  BY <1>1, <1>2, TotalIs, Zenon

\* A function that is zero.
LEMMA TotalOfZero ==
    ASSUME NEW S, IsFiniteSet(S), NEW f, \A x \in S : f[x] = 0
    PROVE  Total(f, S) = 0
<1> DEFINE g == [T \in SUBSET S |-> 0]
<1>1. Additive(f, g, S)
  BY DEF Additive
<1> QED  BY <1>1, TotalIs

\* One element.
LEMMA TotalOfOne ==
    ASSUME NEW x, NEW f, f[x] \in Int
    PROVE  Total(f, {x}) = f[x]
<1>1. IsFiniteSet({x})
  BY FS_Singleton, Zenon
<1>2. PICK g : Additive(f, g, {x})
  BY <1>1, AdditiveExists, Zenon
<1>3. {x} \ {x} = {} /\ {x} \in SUBSET {x}
  BY Zenon
<1>4. g[{x}] = f[x] + g[{x} \ {x}] /\ g[{}] = 0
  BY <1>2, <1>3, Zenon DEF Additive
<1>5. g[{x}] = f[x] + 0
  BY <1>3, <1>4, Zenon
<1>6. Total(f, {x}) = g[{x}]
  BY <1>1, <1>2, TotalIs, Zenon
<1>7. f[x] + 0 = f[x]
  OBVIOUS
<1> QED  BY <1>5, <1>6, <1>7, Zenon

\* The values of the elements of T change.
LEMMA TotalChange ==
    ASSUME NEW S, IsFiniteSet(S), NEW f, \A x \in S : f[x] \in Int, NEW T \in SUBSET S,
           NEW h, \A x \in S : h[x] \in Int, \A x \in S \ T : h[x] = f[x]
    PROVE  /\ Total(h, S) = Total(f, S) - Total(f, T) + Total(h, T)
           /\ Total(f, S) \in Int /\ Total(f, T) \in Int /\ Total(h, T) \in Int
<1>1. IsFiniteSet(T) /\ IsFiniteSet(S \ T)
  BY FS_Subset, Zenon
<1>2. Total(h, S \ T) = Total(f, S \ T)
  BY <1>1, TotalSame, Zenon
<1>3. /\ Total(f, S) = Total(f, T) + Total(f, S \ T)
      /\ Total(h, S) = Total(h, T) + Total(h, S \ T)
  BY TotalSplit, Zenon
<1>4. Total(f, S) \in Int /\ Total(f, T) \in Int /\ Total(h, T) \in Int /\ Total(f, S \ T) \in Int
  BY <1>1, TotalType, Zenon
<1> QED  BY ONLY <1>2, <1>3, <1>4

-----------------------------------------------------------------------------
(* The inductive invariant.                                                *)

Tag == Nat \ {0}

Timing == {NoTiming} \cup [tag : Tag, at : {"later", "due", "running"}]

Operation == [pc : {"idle", "add", "settle", "drop", "gone"}, owed : Nat, todo : SUBSET Key]

Finishing == [pc : {"finish"}, k : Key, tag : Tag]

TypeOK ==
    /\ inner \in [Key -> Attributes \cup {NoValue}]
    /\ timing \in [Key -> Timing]
    /\ expiry \in [Key -> {"none", "later", "due"}]
    /\ heap \in [Key -> Nat]
    /\ current \in Int
    /\ op \in [Member -> Operation]
    /\ worker \in [Member -> [pc : {"top", "armed", "parked", "gone"}] \cup Finishing]
    /\ tasks \in [Key -> SUBSET Tag]
    /\ ops \in Nat

\* The policies know the entry of k, unless its removal is still to come.
Known(k) ==
    \/ k \in op[Owner[k]].todo
    \/ /\ heap[k] = inner[k].size
       /\ inner[k] = NoValue => timing[k] = NoTiming /\ expiry[k] = "none"

\* An operation that holds no lock has nothing to remove.
IdleIsDone == \A m \in Member : op[m].pc \notin {"add", "settle"} => op[m].todo = {}

\* Tags are those of operations that have begun; the worker finishes a refresh
\* of its own backend, one whose task is over.
TagsAreOld ==
    /\ \A k \in Key : /\ timing[k].tag <= ops
                      /\ \A tag \in tasks[k] : tag <= ops
    /\ \A m \in Member : worker[m].pc = "finish" =>
          /\ Owner[worker[m].k] = m
          /\ worker[m].tag <= ops
          /\ worker[m].tag \notin tasks[worker[m].k]

IInv ==
    /\ TypeOK
    /\ \A k \in Key : Known(k)
    /\ IdleIsDone
    /\ TagsAreOld
    /\ OneRefreshPerKey
    /\ PoolIsExact

-----------------------------------------------------------------------------
(* The usage of the pool.                                                  *)

LEMMA ForgetUsage ==
    ASSUME heap \in [Key -> Nat], NEW S \in SUBSET Key, heap' = Without(heap, S, 0)
    PROVE  /\ heap' \in [Key -> Nat]
           /\ Total(heap', Key) = Total(heap, Key) - Total(heap, S)
           /\ Total(heap, Key) \in Int /\ Total(heap, S) \in Nat
<1>1. IsFiniteSet(Key) /\ IsFiniteSet(S)
  BY PoliciesAssumption, FS_Subset, Zenon
<1>2. /\ heap' \in [Key -> Nat]
      /\ \A k \in Key : heap'[k] = IF k \in S THEN 0 ELSE heap[k]
  BY Zenon DEF Without
<1>3. /\ \A k \in Key : heap[k] \in Int /\ heap'[k] \in Int
      /\ \A k \in Key \ S : heap'[k] = heap[k]
      /\ \A k \in S : heap'[k] = 0 /\ heap[k] \in Nat
  BY <1>2
<1>4. Total(heap', S) = 0
  BY <1>1, <1>3, TotalOfZero, Zenon
<1>5. /\ Total(heap', Key) = Total(heap, Key) - Total(heap, S) + Total(heap', S)
      /\ Total(heap, Key) \in Int /\ Total(heap, S) \in Int
  BY <1>1, <1>3, TotalChange
<1>6. Total(heap, S) \in Nat
  BY <1>1, <1>3, TotalIsNat, Zenon
<1>7. Total(heap', Key) = Total(heap, Key) - Total(heap, S)
  BY ONLY <1>4, <1>5
<1> QED  BY <1>2, <1>5, <1>6, <1>7, Zenon

LEMMA SetUsage ==
    ASSUME heap \in [Key -> Nat], NEW k \in Key, NEW n \in Nat, heap' = [heap EXCEPT ![k] = n]
    PROVE  /\ Total(heap', Key) = Total(heap, Key) - heap[k] + n
           /\ Total(heap, Key) \in Int
<1>1. IsFiniteSet(Key)
  BY PoliciesAssumption, Zenon
<1>2. heap' \in [Key -> Nat] /\ heap'[k] = n /\ \A j \in Key \ {k} : heap'[j] = heap[j]
  BY Zenon
<1>3. /\ \A j \in Key : heap[j] \in Int /\ heap'[j] \in Int
      /\ \A j \in Key \ {k} : heap'[j] = heap[j]
      /\ {k} \in SUBSET Key
  BY <1>2
<1>4. /\ Total(heap', Key) = Total(heap, Key) - Total(heap, {k}) + Total(heap', {k})
      /\ Total(heap, Key) \in Int
  BY ONLY <1>1, <1>3, TotalChange
<1>5. Total(heap, {k}) = heap[k] /\ Total(heap', {k}) = n
  BY <1>2, <1>3, TotalOfOne, Zenon
<1> QED  BY <1>4, <1>5, Zenon

SurplusOf(o) ==
    CASE o.pc = "add" -> -o.owed
      [] o.pc = "drop" -> o.owed
      [] OTHER -> 0

LEMMA SurplusType ==
    ASSUME NEW o \in Operation
    PROVE  SurplusOf(o) \in Int
BY DEF Operation, SurplusOf

LEMMA SurplusChange ==
    ASSUME op \in [Member -> Operation], NEW m \in Member, NEW o \in Operation,
           op' = [op EXCEPT ![m] = o]
    PROVE  /\ Total(Surplus', Member) = Total(Surplus, Member) - SurplusOf(op[m]) + SurplusOf(o)
           /\ Total(Surplus, Member) \in Int
<1>1. IsFiniteSet(Member)
  BY PoliciesAssumption, Zenon
<1>2. op' \in [Member -> Operation] /\ op'[m] = o /\ \A n \in Member \ {m} : op'[n] = op[n]
  BY Zenon
<1>3. \A n \in Member : Surplus[n] = SurplusOf(op[n]) /\ Surplus'[n] = SurplusOf(op'[n])
  BY Zenon DEF Surplus, SurplusOf
<1>4. \A n \in Member : Surplus[n] \in Int /\ Surplus'[n] \in Int
  BY <1>2, <1>3, SurplusType, ZenonT(30)
<1>5. \A n \in Member \ {m} : Surplus'[n] = Surplus[n]
  BY <1>2, <1>3, Zenon
<1>6. /\ Total(Surplus', Member)
            = Total(Surplus, Member) - Total(Surplus, {m}) + Total(Surplus', {m})
      /\ Total(Surplus, Member) \in Int
  BY <1>1, <1>4, <1>5, TotalChange
<1>7. Total(Surplus, {m}) = SurplusOf(op[m]) /\ Total(Surplus', {m}) = SurplusOf(o)
  BY <1>2, <1>3, <1>4, TotalOfOne, ZenonT(30)
<1> QED  BY <1>6, <1>7, Zenon

\* What the pool is charged for an operation and its entries goes together.
LEMMA PoolStep ==
    ASSUME IInv, NEW m \in Member, NEW o \in Operation, op' = [op EXCEPT ![m] = o],
           NEW d \in Int, Total(heap', Key) = Total(heap, Key) + d, Total(heap, Key) \in Int,
           current' = current + d + SurplusOf(o) - SurplusOf(op[m])
    PROVE  PoolIsExact' /\ current' \in Int
<1>1. op \in [Member -> Operation] /\ op[m] \in Operation /\ current \in Int
  BY Zenon DEF IInv, TypeOK
<1>2. /\ Total(Surplus', Member) = Total(Surplus, Member) - SurplusOf(op[m]) + SurplusOf(o)
      /\ Total(Surplus, Member) \in Int
  BY <1>1, SurplusChange, Zenon
<1>3. current = Total(heap, Key) + Total(Surplus, Member)
  BY Zenon DEF IInv, PoolIsExact, Usage
<1>4. SurplusOf(op[m]) \in Int /\ SurplusOf(o) \in Int
  BY <1>1, SurplusType, Zenon
<1>5. current' = Total(heap', Key) + Total(Surplus', Member) /\ current' \in Int
  BY ONLY <1>1, <1>2, <1>3, <1>4, d \in Int, Total(heap', Key) = Total(heap, Key) + d,
          Total(heap, Key) \in Int, current' = current + d + SurplusOf(o) - SurplusOf(op[m])
<1> QED  BY <1>5, Zenon DEF PoolIsExact, Usage

\* What an operation has left, and that it is not charged for what it removes.
LEMMA RestIs ==
    ASSUME NEW n \in Nat, NEW S \in SUBSET Key
    PROVE  /\ Rest(n, S) \in Operation
           /\ SurplusOf(Rest(n, S)) = -n
           /\ Rest(n, S).todo = S
           /\ Rest(n, S).pc \in {"idle", "add", "settle"}
           /\ Rest(n, S).pc = "idle" => S = {}
<1>1. Rest(n, S).pc = (IF n > 0 THEN "add" ELSE IF S # {} THEN "settle" ELSE "idle")
  BY Zenon DEF Rest
<1>2. Rest(n, S).owed = n /\ Rest(n, S).todo = S /\ Rest(n, S) \in Operation
  BY Zenon DEF Rest, Operation
<1> QED  BY <1>1, <1>2 DEF SurplusOf

-----------------------------------------------------------------------------
(* Entries are removed.                                                    *)

LEMMA NoValueIs == NoValue.size = 0 /\ NoTiming.tag = 0 /\ NoTiming.at = "none"
BY Zenon DEF NoValue, NoTiming

LEMMA TimingIs ==
    ASSUME NEW t \in Timing
    PROVE  /\ t = NoTiming <=> t.at = "none"
           /\ t = NoTiming <=> t.tag = 0
           /\ t.tag \in Nat
           /\ t # NoTiming => t = [tag |-> t.tag, at |-> t.at] /\ t.tag \in Tag
BY DEF Timing, NoTiming, Tag

\* No entry gets a tag.
LEMMA TagsStay ==
    ASSUME IInv, \A k \in Key : timing'[k].tag \in {0, timing[k].tag},
           UNCHANGED <<worker, tasks>>, ops' \in Nat, ops <= ops'
    PROVE  TagsAreOld'
<1>1. timing \in [Key -> Timing] /\ ops \in Nat
  BY Zenon DEF IInv, TypeOK
<1>2. ASSUME NEW k \in Key PROVE timing'[k].tag <= ops' /\ \A tag \in tasks'[k] : tag <= ops'
  <2>1. timing[k].tag \in Nat /\ tasks[k] \subseteq Nat
    BY <1>1, TimingIs, Zenon DEF IInv, TypeOK, Tag
  <2>2. timing[k].tag <= ops /\ \A tag \in tasks[k] : tag <= ops
    BY Zenon DEF IInv, TagsAreOld
  <2> QED  BY <1>1, <2>1, <2>2
<1>3. ASSUME NEW m \in Member, worker'[m].pc = "finish"
      PROVE  /\ Owner[worker'[m].k] = m
             /\ worker'[m].tag <= ops'
             /\ worker'[m].tag \notin tasks'[worker'[m].k]
  <2>1. worker[m] \in Finishing
    BY <1>3, Zenon DEF IInv, TypeOK
  <2>2. worker[m].tag \in Nat
    BY <2>1, Zenon DEF Finishing, Tag
  <2> QED  BY <1>1, <1>3, <2>2 DEF IInv, TagsAreOld
<1> QED  BY <1>2, <1>3, Zenon DEF TagsAreOld

LEMMA ForgetKnown ==
    ASSUME IInv, NEW S \in SUBSET Key, Forget(S), NEW m \in Member, NEW X \in SUBSET KeysOf(m),
           NEW o, op' = [op EXCEPT ![m] = o], X \subseteq o.todo,
           op[m].todo \subseteq S \cup o.todo,
           expiry' = Without(expiry, S \cup X, "none"), NEW j \in Key
    PROVE  Known(j)'
<1>1. /\ inner'[j] = IF j \in S THEN NoValue ELSE inner[j]
      /\ timing'[j] = IF j \in S THEN NoTiming ELSE timing[j]
      /\ heap'[j] = IF j \in S THEN 0 ELSE heap[j]
      /\ expiry'[j] = IF j \in S \cup X THEN "none" ELSE expiry[j]
  BY Zenon DEF Forget, Without
<1>2. Known(j) /\ Owner[j] \in Member /\ op \in [Member -> Operation]
  BY PoliciesAssumption, Zenon DEF IInv, TypeOK
<1>3. op'[m] = o /\ (Owner[j] # m => op'[Owner[j]] = op[Owner[j]])
  BY <1>2, Zenon
<1>4. CASE j \in S
  BY <1>1, <1>4, NoValueIs, Zenon DEF Known
<1>5. CASE j \notin S /\ Owner[j] # m
  <2>1. j \notin X
    BY <1>5, Zenon DEF KeysOf
  <2> QED  BY <1>1, <1>2, <1>3, <1>5, <2>1, Zenon DEF Known
<1>6. CASE j \notin S /\ Owner[j] = m
  BY <1>1, <1>2, <1>3, <1>6, Zenon DEF Known
<1> QED  BY <1>4, <1>5, <1>6, Zenon

LEMMA ForgetIInv ==
    ASSUME IInv, NEW S \in SUBSET Key, Forget(S), NEW m \in Member, NEW X \in SUBSET KeysOf(m),
           NEW o \in Operation, op' = [op EXCEPT ![m] = o], X \subseteq o.todo,
           op[m].todo \subseteq S \cup o.todo,
           SurplusOf(o) = SurplusOf(op[m]), o.pc \notin {"add", "settle"} => o.todo = {},
           expiry' = Without(expiry, S \cup X, "none"),
           UNCHANGED <<worker, tasks>>, ops' \in Nat, ops <= ops'
    PROVE  IInv'
<1>1. \A j \in Key : Known(j)'
  BY ForgetKnown, Zenon
<1>2. PoolIsExact' /\ current' \in Int /\ heap' \in [Key -> Nat]
  <2> DEFINE d == -Total(heap, S)
  <2>1. heap \in [Key -> Nat] /\ heap' = Without(heap, S, 0) /\ current' = current - Total(heap, S)
    BY Zenon DEF IInv, TypeOK, Forget, Usage
  <2>2. /\ heap' \in [Key -> Nat]
        /\ Total(heap', Key) = Total(heap, Key) - Total(heap, S)
        /\ Total(heap, Key) \in Int /\ Total(heap, S) \in Nat
    BY <2>1, ForgetUsage, Zenon
  <2>3. d \in Int /\ Total(heap', Key) = Total(heap, Key) + d
    BY <2>2
  <2>4. SurplusOf(o) \in Int /\ current \in Int
    BY SurplusType, Zenon DEF IInv, TypeOK
  <2>5. current' = current + d + SurplusOf(o) - SurplusOf(op[m])
    BY <2>1, <2>2, <2>4
  <2> HIDE DEF d
  <2> QED  BY <2>2, <2>3, <2>5, PoolStep, Zenon
<1>3. /\ timing' \in [Key -> Timing]
      /\ \A k \in Key : timing'[k] = NoTiming \/ timing'[k] = timing[k]
  BY Zenon DEF IInv, TypeOK, Forget, Without, Timing
<1>4. TypeOK'
  <2>1. inner' \in [Key -> Attributes \cup {NoValue}]
    BY Zenon DEF IInv, TypeOK, Forget, Without
  <2>2. expiry' \in [Key -> {"none", "later", "due"}]
    BY Zenon DEF IInv, TypeOK, Without
  <2>3. op' \in [Member -> Operation]
    BY Zenon DEF IInv, TypeOK
  <2> QED  BY <1>2, <1>3, <2>1, <2>2, <2>3, Zenon DEF IInv, TypeOK
<1>5. IdleIsDone'
  BY Zenon DEF IInv, IdleIsDone, TypeOK
<1>6. TagsAreOld'
  <2>1. \A k \in Key : timing'[k].tag \in {0, timing[k].tag}
    BY <1>3, NoValueIs, Zenon
  <2> QED  BY <2>1, TagsStay, Zenon
<1>7. OneRefreshPerKey'
  BY <1>3, ZenonT(30) DEF IInv, OneRefreshPerKey
<1> QED  BY <1>1, <1>2, <1>4, <1>5, <1>6, <1>7, Zenon DEF IInv

LEMMA ExpiredAre ==
    ASSUME NEW m
    PROVE  Expired(m) \in SUBSET KeysOf(m) /\ KeysOf(m) \in SUBSET Key
BY Zenon DEF Expired, KeysOf

LEMMA RemoveIInv ==
    ASSUME IInv, NEW k \in Key, Remove(k)
    PROVE  IInv'
<1> DEFINE m == Owner[k]
           out == Expired(m) \ {k}
           o == Rest(0, out)
<1>1. m \in Member /\ op[m].pc = "idle" /\ op[m] \in Operation /\ ops \in Nat
  BY PoliciesAssumption, Zenon DEF Remove, Begins, Free, IInv, TypeOK
<1>2. op[m].todo = {} /\ SurplusOf(op[m]) = 0
  BY <1>1, Zenon DEF IInv, IdleIsDone, SurplusOf
<1>3. out \in SUBSET KeysOf(m) /\ out \in SUBSET Key /\ {k} \in SUBSET Key
  BY ExpiredAre, Zenon
<1>4. /\ Forget({k})
      /\ expiry' = Without(expiry, out \cup {k}, "none")
      /\ op' = [op EXCEPT ![m] = o]
      /\ UNCHANGED <<worker, tasks>> /\ ops' = ops + 1
  BY Zenon DEF Remove, Begins
<1> HIDE DEF out
<1>5. /\ o \in Operation /\ SurplusOf(o) = 0 /\ o.todo = out
      /\ o.pc \notin {"add", "settle"} => o.todo = {}
  BY <1>3, RestIs
<1>6. ops' \in Nat /\ ops <= ops'
  BY <1>1, <1>4
<1>7. out \subseteq o.todo /\ op[m].todo \subseteq {k} \cup o.todo /\ SurplusOf(o) = SurplusOf(op[m])
  BY <1>2, <1>5, Zenon
<1>8. expiry' = Without(expiry, {k} \cup out, "none")
  <2>1. out \cup {k} = {k} \cup out
    BY Zenon
  <2> QED  BY <1>4, <2>1, Zenon
<1> HIDE DEF o, m
<1> QED  BY <1>1, <1>3, <1>4, <1>5, <1>6, <1>7, <1>8, ForgetIInv, Zenon

LEMMA SettleIInv ==
    ASSUME IInv, NEW m \in Member, Settle(m)
    PROVE  IInv'
<1>1. op[m].pc = "settle" /\ op[m] \in Operation /\ ops \in Nat
  BY Zenon DEF Settle, IInv, TypeOK
<1>2. op[m].todo \in SUBSET Key /\ SurplusOf(op[m]) = 0
  BY <1>1, Zenon DEF Operation, SurplusOf
<1>3. /\ Idle \in Operation /\ Idle.todo = {} /\ SurplusOf(Idle) = 0
  BY Zenon DEF Idle, Operation, SurplusOf
<1>4. op[m].todo \cup {} = op[m].todo /\ {} \in SUBSET KeysOf(m)
  BY Zenon
<1>5. /\ Forget(op[m].todo)
      /\ expiry' = Without(expiry, op[m].todo \cup {}, "none")
      /\ op' = [op EXCEPT ![m] = Idle]
      /\ UNCHANGED <<worker, tasks>> /\ ops' \in Nat /\ ops <= ops'
  BY <1>1, <1>4 DEF Settle
<1> QED  BY <1>2, <1>3, <1>4, <1>5, ForgetIInv, Zenon

LEMMA RemoveKeysIInv ==
    ASSUME IInv, NEW m \in Member, RemoveKeys(m)
    PROVE  IInv'
<1> DEFINE out == (loop.victims \cap KeysOf(m)) \cup Expired(m)
<1>1. op' = op /\ worker' = worker /\ tasks' = tasks /\ ops' = ops
  BY Zenon DEF RemoveKeys
<1>2. CASE Alive(m)
  <2>1. /\ op[m].pc = "idle" /\ Forget(out) /\ expiry' = Without(expiry, out, "none")
    BY <1>2, Zenon DEF RemoveKeys
  <2>2. out \in SUBSET Key /\ {} \in SUBSET KeysOf(m)
    BY ExpiredAre, Zenon
  <2> HIDE DEF out
  <2>3. op[m] \in Operation /\ ops \in Nat /\ op' = [op EXCEPT ![m] = op[m]] /\ op[m].todo = {}
    BY <1>1, <2>1, Zenon DEF IInv, TypeOK, IdleIsDone
  <2>4. expiry' = Without(expiry, out \cup {}, "none")
    <3>1. out \cup {} = out
      BY Zenon
    <3> QED  BY <2>1, <3>1, Zenon
  <2>5. /\ {} \subseteq op[m].todo /\ op[m].todo \subseteq out \cup op[m].todo
        /\ op[m].pc \notin {"add", "settle"} => op[m].todo = {}
        /\ ops' \in Nat /\ ops <= ops'
    BY <1>1, <2>3
  <2> QED  BY <1>1, <2>1, <2>2, <2>3, <2>4, <2>5, ForgetIInv, Zenon
<1>3. CASE ~Alive(m)
  <2>1. UNCHANGED <<inner, timing, expiry, heap, current>>
    BY <1>3, Zenon DEF RemoveKeys
  <2> QED  BY <1>1, <2>1, ZenonT(30) DEF IInv, TypeOK, Known, IdleIsDone, TagsAreOld, OneRefreshPerKey,
                             PoolIsExact, Usage, Surplus
<1> QED  BY <1>2, <1>3, Zenon

\* A policy is dropped: what is given back to the pool later is a surplus.
LEMMA DropIInv ==
    ASSUME IInv, NEW m \in Member, Drop(m)
    PROVE  IInv'
<1> DEFINE S == KeysOf(m)
           o == [pc |-> "drop", owed |-> Total(heap, S), todo |-> {}]
<1>1. /\ op[m].pc = "idle" /\ op[m].todo = {} /\ op[m] \in Operation /\ SurplusOf(op[m]) = 0
      /\ S \in SUBSET Key /\ heap \in [Key -> Nat] /\ current \in Int /\ op \in [Member -> Operation]
  BY Zenon DEF Drop, IInv, TypeOK, IdleIsDone, SurplusOf, KeysOf
<1>2. /\ inner' = Without(inner, S, NoValue) /\ timing' = Without(timing, S, NoTiming)
      /\ expiry' = Without(expiry, S, "none") /\ heap' = Without(heap, S, 0)
      /\ tasks' = Without(tasks, S, {}) /\ op' = [op EXCEPT ![m] = o]
      /\ worker' = [worker EXCEPT ![m] = WorkerAt("gone")]
      /\ current' = current /\ ops' = ops
  BY Zenon DEF Drop, Usage
<1>3. /\ heap' \in [Key -> Nat]
      /\ Total(heap', Key) = Total(heap, Key) - Total(heap, S)
      /\ Total(heap, Key) \in Int /\ Total(heap, S) \in Nat
  BY <1>1, <1>2, ForgetUsage, Zenon
<1>4. o \in Operation /\ SurplusOf(o) = Total(heap, S) /\ o.todo = {}
  BY <1>3, Zenon DEF Operation, SurplusOf
<1>5. PoolIsExact' /\ current' \in Int
  <2> DEFINE d == -Total(heap, S)
  <2>1. d \in Int /\ Total(heap', Key) = Total(heap, Key) + d
    BY <1>3
  <2>2. current' = current + d + SurplusOf(o) - SurplusOf(op[m])
    BY <1>1, <1>2, <1>3, <1>4
  <2> HIDE DEF d, o, S
  <2> QED  BY <1>1, <1>2, <1>3, <1>4, <2>1, <2>2, PoolStep, ZenonT(30)
<1>6. \A j \in Key : Known(j)'
  <2> SUFFICES ASSUME NEW j \in Key PROVE Known(j)'
    BY Zenon
  <2>1. /\ inner'[j] = IF j \in S THEN NoValue ELSE inner[j]
        /\ timing'[j] = IF j \in S THEN NoTiming ELSE timing[j]
        /\ heap'[j] = IF j \in S THEN 0 ELSE heap[j]
        /\ expiry'[j] = IF j \in S THEN "none" ELSE expiry[j]
    BY <1>2, ZenonT(30) DEF Without
  <2>2. Known(j) /\ Owner[j] \in Member
    BY PoliciesAssumption, Zenon DEF IInv
  <2>3. CASE Owner[j] = m
    BY <2>1, <2>3, NoValueIs, ZenonT(30) DEF Known, KeysOf
  <2>4. CASE Owner[j] # m
    BY <1>1, <1>2, <2>1, <2>2, <2>4, ZenonT(30) DEF Known, KeysOf
  <2> QED  BY <2>3, <2>4, Zenon
<1>7. /\ \A k \in Key : (timing'[k] = NoTiming /\ tasks'[k] = {} /\ Owner[k] = m)
                        \/ (timing'[k] = timing[k] /\ tasks'[k] = tasks[k] /\ Owner[k] # m)
      /\ worker'[m] = [pc |-> "gone"] /\ \A n \in Member \ {m} : worker'[n] = worker[n]
  BY <1>2, Zenon DEF Without, KeysOf, WorkerAt, IInv, TypeOK
<1>8. TypeOK'
  <2>1. inner' \in [Key -> Attributes \cup {NoValue}] /\ timing' \in [Key -> Timing]
    BY <1>2, Zenon DEF IInv, TypeOK, Without, Timing
  <2>2. expiry' \in [Key -> {"none", "later", "due"}] /\ tasks' \in [Key -> SUBSET Tag]
    BY <1>2, Zenon DEF IInv, TypeOK, Without
  <2>3. op' \in [Member -> Operation]
    BY <1>1, <1>2, <1>4, Zenon
  <2>4. worker' \in [Member -> [pc : {"top", "armed", "parked", "gone"}] \cup Finishing]
    BY <1>2, Zenon DEF IInv, TypeOK, WorkerAt
  <2>5. ops' \in Nat
    BY <1>2, Zenon DEF IInv, TypeOK
  <2> QED  BY <1>3, <1>5, <2>1, <2>2, <2>3, <2>4, <2>5, Zenon DEF TypeOK
<1>9. IdleIsDone'
  BY <1>1, <1>2, <1>4, Zenon DEF IInv, IdleIsDone
<1>10. TagsAreOld'
  <2>1. ASSUME NEW k \in Key PROVE timing'[k].tag <= ops' /\ \A tag \in tasks'[k] : tag <= ops'
    BY <1>2, <1>7, NoValueIs DEF IInv, TypeOK, TagsAreOld
  <2>2. ASSUME NEW n \in Member, worker'[n].pc = "finish"
        PROVE  /\ Owner[worker'[n].k] = n
               /\ worker'[n].tag <= ops'
               /\ worker'[n].tag \notin tasks'[worker'[n].k]
    <3>1. n # m /\ worker'[n] = worker[n] /\ worker[n] \in Finishing
      BY <1>7, <2>2 DEF IInv, TypeOK
    <3>2. worker[n].k \in Key
      BY <3>1, Zenon DEF Finishing
    <3> QED  BY <1>2, <1>7, <2>2, <3>1, <3>2 DEF IInv, TagsAreOld
  <2> QED  BY <2>1, <2>2, Zenon DEF TagsAreOld
<1>11. OneRefreshPerKey'
  BY <1>7, PoliciesAssumption DEF IInv, OneRefreshPerKey
<1> QED  BY <1>5, <1>6, <1>8, <1>9, <1>10, <1>11, Zenon DEF IInv

\* A step of an operation that leaves the entries alone.
LEMMA ChargeIInv ==
    ASSUME IInv, NEW m \in Member, NEW o \in Operation, op' = [op EXCEPT ![m] = o],
           o.todo = op[m].todo, o.pc \notin {"add", "settle"} => o.todo = {},
           current' = current + SurplusOf(o) - SurplusOf(op[m]),
           UNCHANGED <<inner, timing, expiry, heap, worker, tasks, ops>>
    PROVE  IInv'
<1>1. op[m] \in Operation /\ op \in [Member -> Operation] /\ current \in Int /\ heap \in [Key -> Nat]
  BY Zenon DEF IInv, TypeOK
<1>2. SurplusOf(o) \in Int /\ SurplusOf(op[m]) \in Int /\ Total(heap, Key) \in Int
  BY <1>1, SurplusType, PoliciesAssumption, TotalType
<1>3. PoolIsExact' /\ current' \in Int
  <2>1. Total(heap', Key) = Total(heap, Key) + 0 /\ current' = current + 0 + SurplusOf(o) - SurplusOf(op[m])
    BY <1>1, <1>2
  <2>2. 0 \in Int
    OBVIOUS
  <2> QED  BY <1>1, <1>2, <2>1, <2>2, PoolStep, ZenonT(30)
<1>4. \A j \in Key : op'[Owner[j]].todo = op[Owner[j]].todo
  BY <1>1, PoliciesAssumption, Zenon
<1>5. \A j \in Key : Known(j)'
  BY <1>4, Zenon DEF IInv, Known
<1>6. IdleIsDone'
  BY <1>1, Zenon DEF IInv, IdleIsDone
<1>7. TypeOK'
  BY <1>1, <1>3, Zenon DEF IInv, TypeOK
<1> QED  BY <1>3, <1>5, <1>6, <1>7, ZenonT(30) DEF IInv, TagsAreOld, OneRefreshPerKey

LEMMA AddIInv ==
    ASSUME IInv, NEW m \in Member, Add(m)
    PROVE  IInv'
<1> DEFINE o == Rest(0, op[m].todo)
<1>1. op[m].pc = "add" /\ op[m] \in Operation /\ current \in Int
  BY Zenon DEF Add, IInv, TypeOK
<1>2. op[m].todo \in SUBSET Key /\ SurplusOf(op[m]) = -op[m].owed /\ op[m].owed \in Nat
  BY <1>1, Zenon DEF Operation, SurplusOf
<1>3. /\ o \in Operation /\ SurplusOf(o) = 0 /\ o.todo = op[m].todo
      /\ o.pc \notin {"add", "settle"} => o.todo = {}
  BY <1>2, RestIs
<1>4. /\ op' = [op EXCEPT ![m] = o] /\ current' = current + op[m].owed
      /\ UNCHANGED <<inner, timing, expiry, heap, worker, tasks, ops>>
  BY Zenon DEF Add
<1>5. current' = current + SurplusOf(o) - SurplusOf(op[m])
  BY <1>1, <1>2, <1>3, <1>4
<1> HIDE DEF o
<1> QED  BY <1>3, <1>4, <1>5, ChargeIInv, ZenonT(30)

LEMMA DroppedIInv ==
    ASSUME IInv, NEW m \in Member, Dropped(m)
    PROVE  IInv'
<1> DEFINE o == [pc |-> "gone", owed |-> 0, todo |-> {}]
<1>1. op[m].pc = "drop" /\ op[m] \in Operation /\ current \in Int /\ op[m].todo = {}
  BY Zenon DEF Dropped, IInv, TypeOK, IdleIsDone
<1>2. SurplusOf(op[m]) = op[m].owed /\ op[m].owed \in Nat
  BY <1>1, Zenon DEF Operation, SurplusOf
<1>3. o \in Operation /\ SurplusOf(o) = 0 /\ o.todo = {}
  BY Zenon DEF Operation, SurplusOf
<1>4. /\ op' = [op EXCEPT ![m] = o] /\ current' = current - op[m].owed
      /\ UNCHANGED <<inner, timing, expiry, heap, worker, tasks, ops>>
  <2>1. [Idle EXCEPT !.pc = "gone"] = o
    BY DEF Idle
  <2> QED  BY <2>1, ZenonT(30) DEF Dropped
<1>5. current' = current + SurplusOf(o) - SurplusOf(op[m])
  BY <1>1, <1>2, <1>3, <1>4
<1> HIDE DEF o
<1> QED  BY <1>1, <1>3, <1>4, <1>5, ChargeIInv, ZenonT(30)

-----------------------------------------------------------------------------
(* Refreshes are scheduled, started and finished.                          *)

LEMMA TimingAt ==
    ASSUME timing \in [Key -> Timing], NEW k \in Key, timing[k] # NoTiming,
           NEW a \in {"later", "due", "running"}, timing' = [timing EXCEPT ![k].at = a]
    PROVE  /\ timing' \in [Key -> Timing]
           /\ timing'[k] = [tag |-> timing[k].tag, at |-> a] /\ timing'[k] # NoTiming
           /\ \A j \in Key \ {k} : timing'[j] = timing[j]
<1>1. timing[k] = [tag |-> timing[k].tag, at |-> timing[k].at] /\ timing[k].tag \in Tag
  BY TimingIs, Zenon
<1>2. timing'[k] = [timing[k] EXCEPT !.at = a] /\ \A j \in Key \ {k} : timing'[j] = timing[j]
  BY Zenon
<1>3. timing'[k] = [tag |-> timing[k].tag, at |-> a]
  BY <1>1, <1>2, Zenon
<1>4. timing'[k] \in Timing /\ timing'[k] # NoTiming
  BY <1>1, <1>3, Zenon DEF Timing, NoTiming, Tag
<1> QED  BY <1>2, <1>3, <1>4, Zenon

\* The entries stay as they are.
LEMMA RefreshIInv ==
    ASSUME IInv, UNCHANGED <<inner, expiry, heap, current, op, ops>>,
           timing' \in [Key -> Timing],
           \A k \in Key : timing[k] = NoTiming => timing'[k] = NoTiming,
           worker' \in [Member -> [pc : {"top", "armed", "parked", "gone"}] \cup Finishing],
           tasks' \in [Key -> SUBSET Tag],
           TagsAreOld', OneRefreshPerKey'
    PROVE  IInv'
<1>1. TypeOK'
  BY Zenon DEF IInv, TypeOK
<1>2. \A k \in Key : Known(k)'
  BY Zenon DEF IInv, Known
<1> QED  BY <1>1, <1>2, Zenon DEF IInv, IdleIsDone, PoolIsExact, Usage, Surplus

\* The worker goes to a place where it finishes nothing.
LEMMA GotoIs ==
    ASSUME IInv, NEW m \in Member, NEW pc \in {"top", "armed", "parked"}, Goto(m, pc)
    PROVE  /\ worker' \in [Member -> [pc : {"top", "armed", "parked", "gone"}] \cup Finishing]
           /\ worker'[m] = [pc |-> pc] /\ \A n \in Member \ {m} : worker'[n] = worker[n]
BY Zenon DEF IInv, TypeOK, Goto, WorkerAt

LEMMA ArmIInv ==
    ASSUME IInv, NEW m \in Member, Arm(m) \/ Wake(m)
    PROVE  IInv'
<1>1. /\ UNCHANGED <<inner, timing, expiry, heap, current, op, tasks, ops>>
      /\ worker[m].pc \in {"top", "armed", "parked"}
  BY Zenon DEF Arm, Wake, In
<1>2. PICK pc \in {"top", "armed", "parked"} : Goto(m, pc)
  BY Zenon DEF Arm, Wake
<1>3. /\ worker' \in [Member -> [pc : {"top", "armed", "parked", "gone"}] \cup Finishing]
      /\ worker'[m] = [pc |-> pc] /\ \A n \in Member \ {m} : worker'[n] = worker[n]
  BY <1>2, GotoIs, Zenon
<1>4. TagsAreOld'
  BY <1>1, <1>3 DEF IInv, TagsAreOld
<1>5. OneRefreshPerKey'
  BY <1>1, <1>3, PoliciesAssumption DEF IInv, OneRefreshPerKey
<1>6. timing' \in [Key -> Timing] /\ tasks' \in [Key -> SUBSET Tag]
  BY <1>1, Zenon DEF IInv, TypeOK
<1> QED  BY <1>1, <1>3, <1>4, <1>5, <1>6, RefreshIInv, Zenon

LEMMA StartRefreshIInv ==
    ASSUME IInv, NEW k \in Key, StartRefresh(k)
    PROVE  IInv'
<1> DEFINE m == Owner[k]
           t == timing[k].tag
<1>1. /\ m \in Member /\ timing \in [Key -> Timing] /\ tasks \in [Key -> SUBSET Tag]
      /\ worker[m].pc = "armed" /\ timing[k].at = "due"
      /\ timing' = [timing EXCEPT ![k].at = "running"]
      /\ tasks' = [tasks EXCEPT ![k] = tasks[k] \cup {t}] /\ Goto(m, "top")
      /\ UNCHANGED <<inner, expiry, heap, current, op, ops>>
  BY PoliciesAssumption, ZenonT(30) DEF StartRefresh, In, IInv, TypeOK
<1>2. timing[k] # NoTiming /\ t \in Tag /\ t <= ops
  BY <1>1, TimingIs, Zenon DEF IInv, TagsAreOld
<1>3. /\ timing' \in [Key -> Timing]
      /\ timing'[k] = [tag |-> t, at |-> "running"] /\ timing'[k] # NoTiming
      /\ \A j \in Key \ {k} : timing'[j] = timing[j]
  BY <1>1, <1>2, TimingAt, ZenonT(30)
<1>4. /\ worker' \in [Member -> [pc : {"top", "armed", "parked", "gone"}] \cup Finishing]
      /\ worker'[m] = [pc |-> "top"] /\ \A n \in Member \ {m} : worker'[n] = worker[n]
  BY <1>1, GotoIs, Zenon
<1>5. /\ tasks' \in [Key -> SUBSET Tag]
      /\ tasks'[k] = tasks[k] \cup {t} /\ \A j \in Key \ {k} : tasks'[j] = tasks[j]
  BY <1>1, <1>2, Zenon
<1> HIDE DEF m, t
<1>6. TagsAreOld'
  <2>1. ASSUME NEW j \in Key PROVE timing'[j].tag <= ops' /\ \A tag \in tasks'[j] : tag <= ops'
    <3>1. CASE j = k
      BY <1>1, <1>2, <1>3, <1>5, <3>1 DEF IInv, TagsAreOld
    <3>2. CASE j # k
      BY <1>1, <1>3, <1>5, <3>2, ZenonT(30) DEF IInv, TagsAreOld
    <3> QED  BY <3>1, <3>2, Zenon
  <2>2. ASSUME NEW n \in Member, worker'[n].pc = "finish"
        PROVE  /\ Owner[worker'[n].k] = n
               /\ worker'[n].tag <= ops'
               /\ worker'[n].tag \notin tasks'[worker'[n].k]
    <3>1. n # m /\ worker'[n] = worker[n] /\ worker[n] \in Finishing
      BY <1>4, <2>2 DEF IInv, TypeOK
    <3>2. worker[n].k \in Key /\ Owner[worker[n].k] = n
      BY <2>2, <3>1, ZenonT(30) DEF Finishing, IInv, TagsAreOld
    <3>3. worker[n].k # k
      BY <3>1, <3>2, Zenon DEF m
    <3> QED  BY <1>1, <1>5, <2>2, <3>1, <3>2, <3>3 DEF IInv, TagsAreOld
  <2> QED  BY <2>1, <2>2, Zenon DEF TagsAreOld
<1>7. OneRefreshPerKey'
  <2> SUFFICES ASSUME NEW j \in Key, timing'[j] # NoTiming
               PROVE  timing'[j].at = "running" <=>
                         \/ timing'[j].tag \in tasks'[j]
                         \/ worker'[Owner[j]] = [pc |-> "finish", k |-> j, tag |-> timing'[j].tag]
    BY Zenon DEF OneRefreshPerKey
  <2>1. CASE j = k
    BY <1>3, <1>5, <2>1
  <2>2. CASE j # k /\ Owner[j] # m
    BY <1>3, <1>4, <1>5, <2>2, PoliciesAssumption DEF IInv, OneRefreshPerKey
  <2>3. CASE j # k /\ Owner[j] = m
    <3>1. \A tag : /\ worker[m] # [pc |-> "finish", k |-> j, tag |-> tag]
                   /\ worker'[m] # [pc |-> "finish", k |-> j, tag |-> tag]
      BY <1>1, <1>4
    <3>2. timing'[j] = timing[j] /\ tasks'[j] = tasks[j]
      BY <1>3, <1>5, <2>3, Zenon
    <3> QED  BY <2>3, <3>1, <3>2, ZenonT(30) DEF IInv, OneRefreshPerKey
  <2> QED  BY <2>1, <2>2, <2>3, Zenon
<1> QED  BY <1>1, <1>2, <1>3, <1>4, <1>5, <1>6, <1>7, RefreshIInv, ZenonT(30)

LEMMA EndRefreshIInv ==
    ASSUME IInv, NEW k \in Key, NEW t, EndRefresh(k, t)
    PROVE  IInv'
<1> DEFINE m == Owner[k]
<1>1. /\ m \in Member /\ timing \in [Key -> Timing] /\ tasks \in [Key -> SUBSET Tag]
      /\ worker[m].pc \in {"armed", "parked"} /\ timing[k].tag # t
      /\ tasks' = [tasks EXCEPT ![k] = tasks[k] \ {t}] /\ Goto(m, "top")
      /\ UNCHANGED <<inner, timing, expiry, heap, current, op, ops>>
  BY PoliciesAssumption, ZenonT(30) DEF EndRefresh, Cancelled, In, IInv, TypeOK
<1>2. /\ worker' \in [Member -> [pc : {"top", "armed", "parked", "gone"}] \cup Finishing]
      /\ worker'[m] = [pc |-> "top"] /\ \A n \in Member \ {m} : worker'[n] = worker[n]
  BY <1>1, GotoIs, Zenon
<1>3. /\ tasks' \in [Key -> SUBSET Tag]
      /\ tasks'[k] = tasks[k] \ {t} /\ \A j \in Key \ {k} : tasks'[j] = tasks[j]
  BY <1>1, Zenon
<1> HIDE DEF m
<1>4. TagsAreOld'
  <2>1. ASSUME NEW j \in Key PROVE timing'[j].tag <= ops' /\ \A tag \in tasks'[j] : tag <= ops'
    BY <1>1, <1>3, ZenonT(30) DEF IInv, TagsAreOld
  <2>2. ASSUME NEW n \in Member, worker'[n].pc = "finish"
        PROVE  /\ Owner[worker'[n].k] = n
               /\ worker'[n].tag <= ops'
               /\ worker'[n].tag \notin tasks'[worker'[n].k]
    <3>1. n # m /\ worker'[n] = worker[n] /\ worker[n] \in Finishing
      BY <1>2, <2>2 DEF IInv, TypeOK
    <3>2. worker[n].k \in Key
      BY <3>1, Zenon DEF Finishing
    <3> QED  BY <1>1, <1>3, <2>2, <3>1, <3>2, ZenonT(30) DEF IInv, TagsAreOld
  <2> QED  BY <2>1, <2>2, Zenon DEF TagsAreOld
<1>5. OneRefreshPerKey'
  <2> SUFFICES ASSUME NEW j \in Key, timing'[j] # NoTiming
               PROVE  timing'[j].at = "running" <=>
                         \/ timing'[j].tag \in tasks'[j]
                         \/ worker'[Owner[j]] = [pc |-> "finish", k |-> j, tag |-> timing'[j].tag]
    BY Zenon DEF OneRefreshPerKey
  <2>1. timing'[j] = timing[j] /\ (timing[j].tag \in tasks'[j] <=> timing[j].tag \in tasks[j])
    BY <1>1, <1>3, Zenon
  <2>2. CASE Owner[j] # m
    BY <1>2, <2>1, <2>2, PoliciesAssumption, ZenonT(30) DEF IInv, OneRefreshPerKey
  <2>3. CASE Owner[j] = m
    <3>1. \A tag : /\ worker[m] # [pc |-> "finish", k |-> j, tag |-> tag]
                   /\ worker'[m] # [pc |-> "finish", k |-> j, tag |-> tag]
      BY <1>1, <1>2
    <3> QED  BY <2>1, <2>3, <3>1, ZenonT(30) DEF IInv, OneRefreshPerKey
  <2> QED  BY <2>2, <2>3, Zenon
<1>6. timing' \in [Key -> Timing] /\ \A j \in Key : timing[j] = NoTiming => timing'[j] = NoTiming
  BY <1>1, Zenon
<1> QED  BY <1>1, <1>2, <1>3, <1>4, <1>5, <1>6, RefreshIInv, ZenonT(30)

LEMMA FinishRefreshIInv ==
    ASSUME IInv, NEW m \in Member, FinishRefresh(m)
    PROVE  IInv'
<1> DEFINE k == worker[m].k
           t == worker[m].tag
<1>1. /\ timing \in [Key -> Timing] /\ tasks \in [Key -> SUBSET Tag]
      /\ worker[m].pc = "finish" /\ worker[m] \in Finishing /\ Goto(m, "top")
      /\ timing' = IF timing[k].tag # t THEN timing ELSE [timing EXCEPT ![k].at = "later"]
      /\ UNCHANGED <<inner, expiry, heap, current, op, tasks, ops>>
  BY Zenon DEF FinishRefresh, Cancelled, In, IInv, TypeOK
<1>2. /\ k \in Key /\ t \in Tag /\ Owner[k] = m /\ t \notin tasks[k]
      /\ worker[m] = [pc |-> "finish", k |-> k, tag |-> t]
  BY <1>1, Zenon DEF Finishing, IInv, TagsAreOld
<1>3. /\ worker' \in [Member -> [pc : {"top", "armed", "parked", "gone"}] \cup Finishing]
      /\ worker'[m] = [pc |-> "top"] /\ \A n \in Member \ {m} : worker'[n] = worker[n]
  BY <1>1, GotoIs, ZenonT(30)
<1> HIDE DEF k, t
<1>4. /\ timing' \in [Key -> Timing]
      /\ \A j \in Key \ {k} : timing'[j] = timing[j]
      /\ timing[k].tag # t => timing'[k] = timing[k]
      /\ timing[k].tag = t => timing[k] # NoTiming /\ timing'[k] = [tag |-> t, at |-> "later"]
  <2>1. CASE timing[k].tag # t
    BY <1>1, <2>1, ZenonT(30)
  <2>2. CASE timing[k].tag = t
    <3>1. timing[k] # NoTiming
      BY <1>2, <2>2, NoValueIs, Zenon DEF Tag
    <3>2. timing' = [timing EXCEPT ![k].at = "later"]
      BY <1>1, <2>2, ZenonT(30)
    <3> QED  BY <1>1, <1>2, <2>2, <3>1, <3>2, TimingAt, ZenonT(30)
  <2> QED  BY <2>1, <2>2, Zenon
<1>5. \A j \in Key : timing'[j].tag = timing[j].tag /\ (timing[j] = NoTiming => timing'[j] = NoTiming)
  BY <1>2, <1>4
<1>6. TagsAreOld'
  <2>1. ASSUME NEW j \in Key PROVE timing'[j].tag <= ops' /\ \A tag \in tasks'[j] : tag <= ops'
    BY <1>1, <1>5, ZenonT(30) DEF IInv, TagsAreOld
  <2>2. ASSUME NEW n \in Member, worker'[n].pc = "finish"
        PROVE  /\ Owner[worker'[n].k] = n
               /\ worker'[n].tag <= ops'
               /\ worker'[n].tag \notin tasks'[worker'[n].k]
    <3>1. n # m /\ worker'[n] = worker[n]
      BY <1>3, <2>2
    <3> QED  BY <1>1, <2>2, <3>1, ZenonT(30) DEF IInv, TagsAreOld
  <2> QED  BY <2>1, <2>2, ZenonT(30) DEF TagsAreOld
<1>7. OneRefreshPerKey'
  <2> SUFFICES ASSUME NEW j \in Key, timing'[j] # NoTiming
               PROVE  timing'[j].at = "running" <=>
                         \/ timing'[j].tag \in tasks'[j]
                         \/ worker'[Owner[j]] = [pc |-> "finish", k |-> j, tag |-> timing'[j].tag]
    BY Zenon DEF OneRefreshPerKey
  <2>1. CASE Owner[j] # m
    BY <1>1, <1>2, <1>3, <1>4, <2>1, PoliciesAssumption DEF IInv, OneRefreshPerKey
  <2>2. CASE Owner[j] = m
    <3>1. worker'[m] # [pc |-> "finish", k |-> j, tag |-> timing'[j].tag]
      BY <1>3
    <3>2. CASE j = k /\ timing[k].tag = t
      BY <1>1, <1>2, <1>4, <2>2, <3>1, <3>2
    <3>3. CASE ~(j = k /\ timing[k].tag = t)
      <4>1. timing'[j] = timing[j]
        BY <1>4, <3>3, Zenon
      <4>2. worker[m] # [pc |-> "finish", k |-> j, tag |-> timing[j].tag]
        BY <1>2, <3>3
      <4> QED  BY <1>1, <2>2, <3>1, <4>1, <4>2, ZenonT(30) DEF IInv, OneRefreshPerKey
    <3> QED  BY <3>2, <3>3, ZenonT(30)
  <2> QED  BY <2>1, <2>2, Zenon
<1>8. tasks' \in [Key -> SUBSET Tag]
  BY <1>1, Zenon
<1> QED  BY <1>1, <1>3, <1>4, <1>5, <1>6, <1>7, <1>8, RefreshIInv, ZenonT(30)

\* The instant of a refresh changes, not whether it is running.
LEMMA ScheduleIs ==
    ASSUME IInv, NEW k \in Key, timing[k].at \in {"later", "due"}, NEW a \in {"later", "due"},
           timing' = [timing EXCEPT ![k].at = a], UNCHANGED <<worker, tasks>>,
           ops' \in Nat, ops <= ops'
    PROVE  /\ timing' \in [Key -> Timing]
           /\ \A j \in Key : timing[j] = NoTiming <=> timing'[j] = NoTiming
           /\ TagsAreOld' /\ OneRefreshPerKey'
<1>1. timing \in [Key -> Timing] /\ timing[k] # NoTiming /\ ops \in Nat
  BY TimingIs, ZenonT(30) DEF IInv, TypeOK, NoTiming
<1>2. /\ timing' \in [Key -> Timing]
      /\ timing'[k] = [tag |-> timing[k].tag, at |-> a] /\ timing'[k] # NoTiming
      /\ \A j \in Key \ {k} : timing'[j] = timing[j]
  BY <1>1, TimingAt, ZenonT(30)
<1>3. \A j \in Key : /\ timing'[j].tag = timing[j].tag
                     /\ timing'[j].at = "running" <=> timing[j].at = "running"
                     /\ timing[j] = NoTiming <=> timing'[j] = NoTiming
  BY <1>1, <1>2, ZenonT(30)
<1>4. OneRefreshPerKey'
  BY <1>3 DEF IInv, OneRefreshPerKey
<1>5. TagsAreOld'
  BY <1>3, TagsStay, Zenon
<1> QED  BY <1>2, <1>3, <1>4, <1>5, ZenonT(30)

LEMMA ElapseIInv ==
    ASSUME IInv, NEW k \in Key, Elapse(k)
    PROVE  IInv'
<1>1. CASE /\ timing[k].at = "later" /\ timing' = [timing EXCEPT ![k].at = "due"]
           /\ UNCHANGED <<inner, expiry, heap, current, op, worker, tasks, ops>>
  <2>1. UNCHANGED <<inner, expiry, heap, current, op, worker, tasks, ops>>
    BY <1>1, Zenon
  <2>2. /\ ops \in Nat /\ ops <= ops' /\ ops' \in Nat /\ tasks' \in [Key -> SUBSET Tag]
        /\ worker' \in [Member -> [pc : {"top", "armed", "parked", "gone"}] \cup Finishing]
    BY <2>1 DEF IInv, TypeOK
  <2>3. /\ timing' \in [Key -> Timing]
        /\ \A j \in Key : timing[j] = NoTiming <=> timing'[j] = NoTiming
        /\ TagsAreOld' /\ OneRefreshPerKey'
    BY <1>1, <2>1, <2>2, ScheduleIs, ZenonT(30)
  <2> QED  BY <2>1, <2>2, <2>3, RefreshIInv, Zenon
<1>2. CASE /\ expiry[k] = "later" /\ expiry' = [expiry EXCEPT ![k] = "due"]
           /\ UNCHANGED <<inner, timing, heap, current, op, worker, tasks, ops>>
  <2>1. /\ expiry' \in [Key -> {"none", "later", "due"}]
        /\ \A j \in Key : expiry[j] = "none" => expiry'[j] = "none"
    BY <1>2, Zenon DEF IInv, TypeOK
  <2>2. TypeOK'
    BY <1>2, <2>1, Zenon DEF IInv, TypeOK
  <2>3. \A j \in Key : Known(j)'
    BY <1>2, <2>1, ZenonT(30) DEF IInv, Known
  <2> QED  BY <1>2, <2>2, <2>3, ZenonT(30) DEF IInv, IdleIsDone, TagsAreOld, OneRefreshPerKey, PoolIsExact,
                                   Usage, Surplus
<1> QED  BY <1>1, <1>2, Zenon DEF Elapse

-----------------------------------------------------------------------------
(* The operations that do not only remove.                                 *)

LEMMA GetIInv ==
    ASSUME IInv, NEW k \in Key, Get(k)
    PROVE  IInv'
<1> DEFINE m == Owner[k]
           out == Expired(m)
           o == Rest(0, out)
<1>1. /\ m \in Member /\ op[m].pc = "idle" /\ op[m] \in Operation /\ op[m].todo = {}
      /\ op \in [Member -> Operation] /\ current \in Int /\ heap \in [Key -> Nat] /\ ops \in Nat
      /\ timing \in [Key -> Timing]
  BY PoliciesAssumption, ZenonT(30) DEF Get, Begins, Free, IInv, TypeOK, IdleIsDone
<1>2. /\ timing' = IF timing[k].at \in {"later", "due"} THEN [timing EXCEPT ![k].at = "later"]
                   ELSE timing
      /\ expiry' = Without(expiry, out, "none") /\ op' = [op EXCEPT ![m] = o]
      /\ UNCHANGED <<inner, heap, current, worker, tasks>> /\ ops' = ops + 1
  BY ZenonT(30) DEF Get, Begins
<1>3. out \in SUBSET KeysOf(m) /\ out \in SUBSET Key
  BY ExpiredAre, Zenon
<1> HIDE DEF out
<1>4. /\ o \in Operation /\ SurplusOf(o) = 0 /\ o.todo = out /\ SurplusOf(op[m]) = 0
      /\ o.pc \notin {"add", "settle"} => o.todo = {}
  BY <1>1, <1>3, RestIs DEF SurplusOf
<1> HIDE DEF o
<1>5. ops' \in Nat /\ ops <= ops'
  BY <1>1, <1>2
<1>6. /\ timing' \in [Key -> Timing]
      /\ \A j \in Key : timing[j] = NoTiming <=> timing'[j] = NoTiming
      /\ TagsAreOld' /\ OneRefreshPerKey'
  <2>1. CASE timing[k].at \in {"later", "due"}
    BY <1>2, <1>5, <2>1, ScheduleIs, ZenonT(30)
  <2>2. CASE timing[k].at \notin {"later", "due"}
    <3>1. timing' = timing /\ \A j \in Key : timing'[j].tag \in {0, timing[j].tag}
      BY <1>2, <2>2, ZenonT(30)
    <3>2. TagsAreOld'
      BY <1>2, <1>5, <3>1, TagsStay, ZenonT(30)
    <3> QED  BY <1>1, <1>2, <3>1, <3>2 DEF IInv, OneRefreshPerKey
  <2> QED  BY <2>1, <2>2, ZenonT(30)
<1>7. PoolIsExact' /\ current' \in Int
  <2>1. Total(heap, Key) \in Int
    BY <1>1, PoliciesAssumption, TotalType
  <2>2. /\ Total(heap', Key) = Total(heap, Key) + 0 /\ 0 \in Int
        /\ current' = current + 0 + SurplusOf(o) - SurplusOf(op[m])
    BY <1>1, <1>2, <1>4, <2>1
  <2> QED  BY <1>1, <1>2, <1>4, <2>1, <2>2, PoolStep, ZenonT(30)
<1>8. \A j \in Key : Known(j)'
  <2> SUFFICES ASSUME NEW j \in Key PROVE Known(j)'
    BY Zenon
  <2>1. expiry'[j] = IF j \in out THEN "none" ELSE expiry[j]
    BY <1>2, Zenon DEF Without
  <2>2. Known(j) /\ Owner[j] \in Member
    BY PoliciesAssumption, Zenon DEF IInv
  <2>3. CASE Owner[j] = m
    <3>1. op'[Owner[j]].todo = out /\ j \notin op[Owner[j]].todo
      BY <1>1, <1>2, <1>4, <2>3, ZenonT(30)
    <3> QED  BY <1>2, <1>6, <2>1, <2>2, <3>1, ZenonT(30) DEF Known
  <2>4. CASE Owner[j] # m
    <3>1. j \notin out
      BY <1>3, <2>4, ZenonT(30) DEF KeysOf
    <3> QED  BY <1>1, <1>2, <1>6, <2>1, <2>2, <2>4, <3>1, ZenonT(30) DEF Known
  <2> QED  BY <2>3, <2>4, ZenonT(30)
<1>9. TypeOK'
  <2>1. expiry' \in [Key -> {"none", "later", "due"}] /\ op' \in [Member -> Operation]
    BY <1>1, <1>2, <1>4, Zenon DEF IInv, TypeOK, Without
  <2> QED  BY <1>2, <1>5, <1>6, <1>7, <2>1, ZenonT(30) DEF IInv, TypeOK
<1>10. IdleIsDone'
  BY <1>1, <1>2, <1>4, Zenon DEF IInv, IdleIsDone
<1> QED  BY <1>6, <1>7, <1>8, <1>9, <1>10, ZenonT(30) DEF IInv

LEMMA PutTiming ==
    ASSUME timing \in [Key -> Timing], NEW k \in Key, NEW v, NEW tag \in Tag, RefreshOnSet(k, v, tag)
    PROVE  /\ timing' \in [Key -> Timing]
           /\ \A j \in Key \ {k} : timing'[j] = timing[j]
           /\ \/ timing'[k] = NoTiming
              \/ timing'[k] = timing[k]
              \/ timing[k] = NoTiming /\ timing'[k] = [tag |-> tag, at |-> "later"]
<1>1. NoTiming \in Timing /\ [tag |-> tag, at |-> "later"] \in Timing
  BY Zenon DEF Timing
<1> QED  BY <1>1, Zenon DEF RefreshOnSet

\* What a set does to the entries: LruPolicy owes the charge of the new value,
\* and a value it refuses is still to be removed.
LEMMA PutEntries ==
    ASSUME IInv, NEW k \in Key, NEW v \in Value[k], NEW tag \in Tag, op[Owner[k]].pc = "idle",
           Put(k, v, tag)
    PROVE  /\ inner' \in [Key -> Attributes \cup {NoValue}]
           /\ expiry' \in [Key -> {"none", "later", "due"}]
           /\ heap' \in [Key -> Nat] /\ op' \in [Member -> Operation]
           /\ PoolIsExact' /\ current' \in Int
           /\ IdleIsDone'
           /\ \A j \in Key : Known(j)'
<1> DEFINE m == Owner[k]
           large == v.size > Limit
           out == Expired(m) \cup IF large \/ v.ttl = "zero" THEN {k} ELSE {}
           n == IF large THEN 0 ELSE v.size
           o == Rest(n, out)
<1>1. /\ m \in Member /\ op[m].pc = "idle" /\ op[m] \in Operation /\ op[m].todo = {}
      /\ op \in [Member -> Operation] /\ current \in Int /\ heap \in [Key -> Nat]
      /\ timing \in [Key -> Timing]
  BY PoliciesAssumption, Zenon DEF IInv, TypeOK, IdleIsDone
<1>2. v \in Attributes /\ v.size \in Nat /\ v.size > 0 /\ v # NoValue /\ n \in Nat
  <2>1. v \in Attributes
    BY PoliciesAssumption, Zenon
  <2>2. v.size \in Nat \ {0}
    BY <2>1, Zenon DEF Attributes
  <2> QED  BY <2>1, <2>2, NoValueIs
<1>3. /\ inner' = [inner EXCEPT ![k] = v] /\ RefreshOnSet(k, v, tag)
      /\ expiry' = [Without(expiry, out, "none") EXCEPT ![k] = Expiry(v)]
      /\ heap' = IF large THEN heap ELSE [heap EXCEPT ![k] = v.size]
      /\ current' = IF large THEN current ELSE current - heap[k]
      /\ op' = [op EXCEPT ![m] = o]
  BY Zenon DEF Put
<1>4. out \in SUBSET KeysOf(m) /\ out \in SUBSET Key /\ (large => k \in out)
  BY ExpiredAre, Zenon DEF KeysOf
<1> HIDE DEF out
<1>5. /\ o \in Operation /\ SurplusOf(o) = -n /\ o.todo = out /\ SurplusOf(op[m]) = 0
      /\ o.pc \notin {"add", "settle"} => o.todo = {}
  <2>1. SurplusOf(op[m]) = 0
    BY <1>1, Zenon DEF SurplusOf
  <2> HIDE DEF n
  <2> QED  BY <1>2, <1>4, <2>1, RestIs, ZenonT(30)
<1> HIDE DEF o
<1>6. PoolIsExact' /\ current' \in Int /\ heap' \in [Key -> Nat]
  <2>1. Total(heap, Key) \in Int
    BY <1>1, PoliciesAssumption, TotalType
  <2>2. CASE large
    <3>1. /\ Total(heap', Key) = Total(heap, Key) + 0 /\ 0 \in Int /\ heap' = heap
          /\ current' = current + 0 + SurplusOf(o) - SurplusOf(op[m])
      BY <1>1, <1>3, <1>5, <2>1, <2>2
    <3> QED  BY <1>1, <1>3, <1>5, <2>1, <3>1, PoolStep, ZenonT(30)
  <2>3. CASE ~large
    <3> DEFINE d == v.size - heap[k]
    <3>1. heap' = [heap EXCEPT ![k] = v.size] /\ current' = current - heap[k] /\ n = v.size
      BY <1>3, <2>3, ZenonT(30)
    <3>2. heap[k] \in Nat /\ heap' \in [Key -> Nat]
      BY <1>1, <1>2, <3>1, ZenonT(30)
    <3>3. Total(heap', Key) = Total(heap, Key) - heap[k] + v.size
      BY <1>1, <1>2, <3>1, SetUsage, ZenonT(30)
    <3>4. d \in Int /\ Total(heap', Key) = Total(heap, Key) + d
      BY <1>2, <2>1, <3>2, <3>3
    <3>5. current' = current + d + SurplusOf(o) - SurplusOf(op[m])
      BY <1>1, <1>2, <1>5, <3>1, <3>2
    <3> HIDE DEF d
    <3> QED  BY <1>1, <1>3, <1>5, <2>1, <3>2, <3>4, <3>5, PoolStep, ZenonT(30)
  <2> QED  BY <2>2, <2>3, ZenonT(30)
<1>7. \A j \in Key \ {k} : timing'[j] = timing[j]
  BY <1>1, <1>3, PutTiming, ZenonT(30)
<1>8. \A j \in Key : Known(j)'
  <2> SUFFICES ASSUME NEW j \in Key PROVE Known(j)'
    BY Zenon
  <2>1. CASE j = k
    <3>1. inner'[k] = v /\ op'[m].todo = out /\ (~large => heap'[k] = v.size)
      BY <1>1, <1>3, <1>5, ZenonT(30) DEF IInv, TypeOK
    <3> QED  BY <1>2, <1>4, <2>1, <3>1, ZenonT(30) DEF Known
  <2>2. CASE j # k
    <3>1. /\ inner'[j] = inner[j] /\ heap'[j] = heap[j] /\ timing'[j] = timing[j]
          /\ expiry'[j] = IF j \in out THEN "none" ELSE expiry[j]
      BY <1>1, <1>3, <1>7, <2>2, ZenonT(30) DEF IInv, TypeOK, Without
    <3>2. Known(j) /\ Owner[j] \in Member
      BY PoliciesAssumption, Zenon DEF IInv
    <3>3. CASE Owner[j] = m
      <4>1. op'[Owner[j]].todo = out /\ j \notin op[Owner[j]].todo
        BY <1>1, <1>3, <1>5, <3>3, ZenonT(30)
      <4> QED  BY <3>1, <3>2, <4>1, ZenonT(30) DEF Known
    <3>4. CASE Owner[j] # m
      <4>1. j \notin out
        BY <1>4, <3>4, Zenon DEF KeysOf
      <4>2. op'[Owner[j]] = op[Owner[j]]
        BY <1>3, <3>2, <3>4
      <4> QED  BY <3>1, <3>2, <4>1, <4>2, ZenonT(30) DEF Known
    <3> QED  BY <3>3, <3>4, ZenonT(30)
  <2> QED  BY <2>1, <2>2, Zenon
<1>9. inner' \in [Key -> Attributes \cup {NoValue}]
  BY <1>2, <1>3, Zenon DEF IInv, TypeOK
<1>10. expiry' \in [Key -> {"none", "later", "due"}]
  <2>1. Expiry(v) \in {"none", "later", "due"}
    BY <1>2, ZenonT(30) DEF Expiry, Attributes
  <2> QED  BY <1>3, <2>1, Zenon DEF IInv, TypeOK, Without
<1>11. op' \in [Member -> Operation] /\ IdleIsDone'
  BY <1>1, <1>3, <1>5, ZenonT(30) DEF IInv, IdleIsDone
<1> QED  BY <1>6, <1>8, <1>9, <1>10, <1>11, Zenon

LEMMA SetIInv ==
    ASSUME IInv, NEW k \in Key, NEW v \in Value[k], Set(k, v)
    PROVE  IInv'
<1>1. /\ op[Owner[k]].pc = "idle" /\ ops \in Nat /\ ops' = ops + 1 /\ Put(k, v, ops')
      /\ UNCHANGED <<worker, tasks>> /\ timing \in [Key -> Timing]
  BY Zenon DEF Set, Begins, Free, IInv, TypeOK
<1>2. ops' \in Tag /\ ops < ops' /\ ops' \in Nat
  BY <1>1 DEF Tag
<1>3. /\ inner' \in [Key -> Attributes \cup {NoValue}]
      /\ expiry' \in [Key -> {"none", "later", "due"}]
      /\ heap' \in [Key -> Nat] /\ op' \in [Member -> Operation]
      /\ PoolIsExact' /\ current' \in Int
      /\ IdleIsDone'
      /\ \A j \in Key : Known(j)'
  BY <1>1, <1>2, PutEntries, ZenonT(30)
<1>4. /\ timing' \in [Key -> Timing]
      /\ \A j \in Key \ {k} : timing'[j] = timing[j]
      /\ \/ timing'[k] = NoTiming
         \/ timing'[k] = timing[k]
         \/ timing[k] = NoTiming /\ timing'[k] = [tag |-> ops', at |-> "later"]
  BY <1>1, <1>2, PutTiming, Zenon DEF Put
<1>5. TypeOK'
  BY <1>1, <1>2, <1>3, <1>4, ZenonT(30) DEF IInv, TypeOK
\* No refresh has the tag of this operation yet.
<1>6. ASSUME NEW j \in Key
      PROVE  ops' \notin tasks[j] /\ \A m \in Member : worker[m] # [pc |-> "finish", k |-> j, tag |-> ops']
  <2>1. \A tag \in tasks[j] : tag \in Nat /\ tag <= ops
    BY Zenon DEF IInv, TypeOK, Tag, TagsAreOld
  <2>2. ASSUME NEW m \in Member, worker[m] = [pc |-> "finish", k |-> j, tag |-> ops'] PROVE FALSE
    <3>1. worker[m].pc = "finish" /\ worker[m].tag = ops'
      BY <2>2
    <3>2. worker[m].tag <= ops
      BY <3>1, Zenon DEF IInv, TagsAreOld
    <3> QED  BY <1>1, <1>2, <3>1, <3>2
  <2> QED  BY <1>1, <1>2, <2>1, <2>2
<1>7. TagsAreOld'
  <2>1. ASSUME NEW j \in Key PROVE timing'[j].tag <= ops' /\ \A tag \in tasks'[j] : tag <= ops'
    <3>1. /\ timing[j].tag \in Nat /\ tasks[j] \subseteq Nat
          /\ timing[j].tag <= ops /\ \A tag \in tasks[j] : tag <= ops
      BY <1>1, TimingIs, ZenonT(30) DEF IInv, TypeOK, Tag, TagsAreOld
    <3>2. timing'[j].tag \in {0, timing[j].tag, ops'}
      BY <1>4, NoValueIs
    <3> QED  BY <1>1, <1>2, <3>1, <3>2
  <2>2. ASSUME NEW m \in Member, worker'[m].pc = "finish"
        PROVE  /\ Owner[worker'[m].k] = m
               /\ worker'[m].tag <= ops'
               /\ worker'[m].tag \notin tasks'[worker'[m].k]
    <3>1. worker[m] \in Finishing
      BY <1>1, <2>2, Zenon DEF IInv, TypeOK
    <3>2. worker[m].tag \in Nat
      BY <3>1, Zenon DEF Finishing, Tag
    <3> QED  BY <1>1, <2>2, <3>2 DEF IInv, TagsAreOld
  <2> QED  BY <2>1, <2>2, Zenon DEF TagsAreOld
<1>8. OneRefreshPerKey'
  <2> SUFFICES ASSUME NEW j \in Key, timing'[j] # NoTiming
               PROVE  timing'[j].at = "running" <=>
                         \/ timing'[j].tag \in tasks'[j]
                         \/ worker'[Owner[j]] = [pc |-> "finish", k |-> j, tag |-> timing'[j].tag]
    BY Zenon DEF OneRefreshPerKey
  <2>1. CASE timing'[j] = timing[j]
    BY <1>1, <2>1, ZenonT(30) DEF IInv, OneRefreshPerKey
  <2>2. CASE timing'[j] = [tag |-> ops', at |-> "later"]
    BY <1>1, <1>6, <2>2, PoliciesAssumption
  <2> QED  BY <1>4, <2>1, <2>2, Zenon
<1> QED  BY <1>3, <1>5, <1>7, <1>8, ZenonT(30) DEF IInv

LEMMA StoreRefreshIInv ==
    ASSUME IInv, NEW k \in Key, NEW t, NEW v \in Value[k], StoreRefresh(k, t, v)
    PROVE  IInv' /\ inner[k] # NoValue
<1> DEFINE m == Owner[k]
           w == [pc |-> "finish", k |-> k, tag |-> t]
<1>1. /\ m \in Member /\ op[m].pc = "idle" /\ timing \in [Key -> Timing] /\ ops' = ops /\ ops \in Nat
      /\ tasks \in [Key -> SUBSET Tag] /\ worker[m].pc \in {"armed", "parked"}
      /\ t \in tasks[k] /\ timing[k].tag = t /\ Put(k, v, t)
      /\ tasks' = [tasks EXCEPT ![k] = tasks[k] \ {t}] /\ worker' = [worker EXCEPT ![m] = w]
  BY PoliciesAssumption, ZenonT(30) DEF StoreRefresh, In, Free, Cancelled, IInv, TypeOK
\* The refresh is that of the table's entry, hence there is one.
<1>2. t \in Tag /\ timing[k] # NoTiming /\ t <= ops
  BY <1>1, NoValueIs, ZenonT(30) DEF Tag, IInv, TagsAreOld
<1>3. inner[k] # NoValue
  <2>1. Known(k) /\ op[m].todo = {}
    BY <1>1, ZenonT(30) DEF IInv, IdleIsDone
  <2> QED  BY <1>2, <2>1, Zenon DEF Known
<1>4. /\ inner' \in [Key -> Attributes \cup {NoValue}]
      /\ expiry' \in [Key -> {"none", "later", "due"}]
      /\ heap' \in [Key -> Nat] /\ op' \in [Member -> Operation]
      /\ PoolIsExact' /\ current' \in Int
      /\ IdleIsDone'
      /\ \A j \in Key : Known(j)'
  BY <1>1, <1>2, PutEntries, ZenonT(30)
<1>5. /\ timing' \in [Key -> Timing]
      /\ \A j \in Key : timing'[j] \in {NoTiming, timing[j]}
  <2>1. RefreshOnSet(k, v, t)
    BY <1>1, Zenon DEF Put
  <2> QED  BY <1>1, <1>2, <2>1, PutTiming, ZenonT(30)
<1>6. /\ tasks' \in [Key -> SUBSET Tag]
      /\ tasks'[k] = tasks[k] \ {t} /\ \A j \in Key \ {k} : tasks'[j] = tasks[j]
  BY <1>1, Zenon
<1>7. /\ worker' \in [Member -> [pc : {"top", "armed", "parked", "gone"}] \cup Finishing]
      /\ worker'[m] = w /\ \A n \in Member \ {m} : worker'[n] = worker[n]
  <2>1. w \in Finishing
    BY <1>2, ZenonT(30) DEF Finishing
  <2> QED  BY <1>1, <2>1, Zenon DEF IInv, TypeOK
<1>8. TypeOK'
  BY <1>1, <1>4, <1>5, <1>6, <1>7, ZenonT(30) DEF TypeOK
<1>9. TagsAreOld'
  <2>1. ASSUME NEW j \in Key PROVE timing'[j].tag <= ops' /\ \A tag \in tasks'[j] : tag <= ops'
    <3>1. /\ timing[j].tag <= ops /\ \A tag \in tasks[j] : tag <= ops
      BY Zenon DEF IInv, TagsAreOld
    <3>2. tasks'[j] \subseteq tasks[j] /\ timing'[j].tag \in {0, timing[j].tag}
      BY <1>5, <1>6, NoValueIs, Zenon
    <3> QED  BY <1>1, <3>1, <3>2
  <2>2. ASSUME NEW n \in Member, worker'[n].pc = "finish"
        PROVE  /\ Owner[worker'[n].k] = n
               /\ worker'[n].tag <= ops'
               /\ worker'[n].tag \notin tasks'[worker'[n].k]
    <3>1. CASE n = m
      BY <1>1, <1>2, <1>6, <1>7, <3>1, ZenonT(30)
    <3>2. CASE n # m
      <4>1. worker'[n] = worker[n] /\ worker[n] \in Finishing
        BY <1>7, <2>2, <3>2, Zenon DEF IInv, TypeOK
      <4>2. worker[n].k \in Key
        BY <4>1, Zenon DEF Finishing
      <4>3. tasks'[worker[n].k] \subseteq tasks[worker[n].k]
        BY <1>6, <4>2, Zenon
      <4> QED  BY <1>1, <2>2, <4>1, <4>3, ZenonT(30) DEF IInv, TagsAreOld
    <3> QED  BY <3>1, <3>2, Zenon
  <2> QED  BY <2>1, <2>2, Zenon DEF TagsAreOld
<1>10. OneRefreshPerKey'
  <2> SUFFICES ASSUME NEW j \in Key, timing'[j] # NoTiming
               PROVE  timing'[j].at = "running" <=>
                         \/ timing'[j].tag \in tasks'[j]
                         \/ worker'[Owner[j]] = [pc |-> "finish", k |-> j, tag |-> timing'[j].tag]
    BY Zenon DEF OneRefreshPerKey
  <2>1. timing'[j] = timing[j] /\ timing[j] # NoTiming
    BY <1>5, Zenon
  <2>2. CASE j = k
    <3>1. timing[k].at = "running"
      BY <1>1, <1>2, Zenon DEF IInv, OneRefreshPerKey
    <3> QED  BY <1>1, <1>7, <2>1, <2>2, <3>1, ZenonT(30)
  <2>3. CASE j # k /\ Owner[j] # m
    BY <1>6, <1>7, <2>1, <2>3, PoliciesAssumption, ZenonT(30) DEF IInv, OneRefreshPerKey
  <2>4. CASE j # k /\ Owner[j] = m
    <3>1. \A tag : /\ worker[m] # [pc |-> "finish", k |-> j, tag |-> tag]
                   /\ worker'[m] # [pc |-> "finish", k |-> j, tag |-> tag]
      BY <1>1, <1>7, <2>4
    <3>2. tasks'[j] = tasks[j]
      BY <1>6, <2>4, Zenon
    <3> QED  BY <2>1, <2>4, <3>1, <3>2, ZenonT(30) DEF IInv, OneRefreshPerKey
  <2> QED  BY <2>2, <2>3, <2>4, Zenon
<1> QED  BY <1>3, <1>4, <1>8, <1>9, <1>10, ZenonT(30) DEF IInv

-----------------------------------------------------------------------------
(* The theorems.                                                           *)

LEMMA InitIInv ==
    ASSUME Init
    PROVE  IInv
<1>1. TypeOK
  BY DEF Init, TypeOK, Timing, Operation, Idle, WorkerAt
<1>2. /\ \A k \in Key : /\ inner[k] = NoValue /\ timing[k] = NoTiming /\ expiry[k] = "none"
                        /\ heap[k] = 0 /\ tasks[k] = {}
      /\ \A m \in Member : op[m] = Idle /\ worker[m] = [pc |-> "top"]
      /\ current = 0 /\ ops = 0
  BY Zenon DEF Init, WorkerAt
<1>3. PoolIsExact
  <2>1. \A m \in Member : Surplus[m] = 0
    BY <1>2 DEF Surplus, Idle
  <2>2. Total(heap, Key) = 0 /\ Total(Surplus, Member) = 0
    BY <1>2, <2>1, PoliciesAssumption, TotalOfZero, Zenon
  <2> QED  BY <1>2, <2>2 DEF PoolIsExact, Usage
<1>4. \A k \in Key : Known(k)
  BY <1>2, NoValueIs, Zenon DEF Known
<1>5. IdleIsDone
  BY <1>2 DEF IdleIsDone, Idle
<1>6. TagsAreOld /\ OneRefreshPerKey
  BY <1>2, NoValueIs DEF TagsAreOld, OneRefreshPerKey
<1> QED  BY <1>1, <1>3, <1>4, <1>5, <1>6, Zenon DEF IInv

\* The clean-up loop, but for its removals, changes nothing else.
LEMMA OthersIInv ==
    ASSUME IInv, UNCHANGED others
    PROVE  IInv'
BY Zenon DEF others, IInv, TypeOK, Known, IdleIsDone, TagsAreOld, OneRefreshPerKey, PoolIsExact, Usage,
       Surplus

LEMMA NextIInv ==
    ASSUME IInv, [Next]_vars
    PROVE  IInv'
<1>1. ASSUME NEW k \in Key, Get(k) PROVE IInv'
  BY <1>1, GetIInv, Zenon
<1>2. ASSUME NEW k \in Key, NEW v \in Value[k], Set(k, v) PROVE IInv'
  BY <1>2, SetIInv, Zenon
<1>3. ASSUME NEW k \in Key, Remove(k) PROVE IInv'
  BY <1>3, RemoveIInv, Zenon
<1>4. ASSUME NEW k \in Key, Elapse(k) PROVE IInv'
  BY <1>4, ElapseIInv, Zenon
<1>5. ASSUME NEW k \in Key, Complete(k) PROVE IInv'
  BY <1>5, EndRefreshIInv, StoreRefreshIInv, Zenon DEF Complete
<1>6. ASSUME NEW m \in Member, Drop(m) PROVE IInv'
  BY <1>6, DropIInv, Zenon
<1>7. ASSUME NEW m \in Member, Finish(m) PROVE IInv'
  BY <1>7, AddIInv, SettleIInv, DroppedIInv, Zenon DEF Finish
<1>8. ASSUME NEW m \in Member, Work(m) PROVE IInv'
  BY <1>8, ArmIInv, FinishRefreshIInv, StartRefreshIInv, Zenon DEF Work, KeysOf
<1>9. ASSUME CleanUp PROVE IInv'
  <2>1. CASE ReadCurrent \/ Notified \/ SelectVictims \/ \E m \in Member : LockHeap(m)
    BY <2>1, OthersIInv, Zenon DEF ReadCurrent, Notified, SelectVictims, LockHeap
  <2> QED  BY <1>9, <2>1, RemoveKeysIInv, Zenon DEF CleanUp
<1>10. CASE UNCHANGED vars
  BY <1>10, OthersIInv, Zenon DEF vars, others
<1> QED  BY <1>1, <1>2, <1>3, <1>4, <1>5, <1>6, <1>7, <1>8, <1>9, <1>10, ZenonT(30) DEF Next

\* The inductive invariant of the backends, their policies and the pool.
THEOREM InvariantHolds == Spec => []IInv
<1>1. Init => IInv
  BY InitIInv, Zenon
<1>2. IInv /\ [Next]_vars => IInv'
  BY NextIInv, Zenon
<1> QED  BY <1>1, <1>2, PTL DEF Spec

\* Whatever the subscribers requested while an operation ran, RefreshPolicy,
\* TtlPolicy and LruPolicy know exactly what the backend holds when it is over.
THEOREM PoliciesKnowTheBackend == Spec => []PoliciesAgree
<1>1. IInv => PoliciesAgree
  <2> SUFFICES ASSUME IInv, NEW k \in Key, op[Owner[k]].pc = "idle"
               PROVE  /\ heap[k] = inner[k].size
                      /\ inner[k] = NoValue => timing[k] = NoTiming /\ expiry[k] = "none"
    BY Zenon DEF PoliciesAgree
  <2>1. Known(k) /\ op[Owner[k]].todo = {}
    BY PoliciesAssumption, Zenon DEF IInv, IdleIsDone
  <2> QED  BY <2>1, Zenon DEF Known
<1> QED  BY <1>1, InvariantHolds, PTL

\* The usage that ResourcePool keeps is the sum of the sizes in the heaps of all
\* the LRU policies, up to the charges and refunds that are under way.
THEOREM UsageIsExact == Spec => []PoolIsExact
<1>1. IInv => PoolIsExact
  BY Zenon DEF IInv
<1> QED  BY <1>1, InvariantHolds, PTL

\* RefreshPolicy never loads a key twice at a time for one entry of its table,
\* and an entry that says it is running has a task or a result.
THEOREM RefreshesAreUnique == Spec => []OneRefreshPerKey
<1>1. IInv => OneRefreshPerKey
  BY Zenon DEF IInv
<1> QED  BY <1>1, InvariantHolds, PTL

\* A refresh task only ever replaces an entry; it does not bring one back that
\* was removed, evicted or had expired while it was loading.
THEOREM RefreshesReplace == Spec => LateLoadsAreDropped
<1> DEFINE Replaces == \A k \in Key : LET w == worker[Owner[k]]
                                      IN  w' # w /\ w'.pc = "finish" /\ w'.k = k => inner[k] # NoValue
<1>1. IInv /\ [Next]_vars => [Replaces]_vars
  <2> SUFFICES ASSUME IInv, Next, NEW k \in Key, worker'[Owner[k]] # worker[Owner[k]],
                      worker'[Owner[k]].pc = "finish", worker'[Owner[k]].k = k
               PROVE  inner[k] # NoValue
    BY Zenon
  <2>0. Owner[k] \in Member /\ worker' # worker
    BY PoliciesAssumption, Zenon
  <2>1. ASSUME NEW m \in Member, NEW pc, pc # "finish", worker' = [worker EXCEPT ![m] = [pc |-> pc]]
        PROVE  FALSE
    <3>1. worker'[m] = [pc |-> pc] /\ \A n \in Member \ {m} : worker'[n] = worker[n]
      BY <2>1, Zenon DEF IInv, TypeOK
    <3> QED  BY <2>0, <2>1, <3>1
  <2>2. ASSUME NEW j \in Key, Get(j) \/ Remove(j) \/ Elapse(j) \/ \E v \in Value[j] : Set(j, v)
        PROVE  FALSE
    BY <2>0, <2>2, ZenonT(30) DEF Get, Remove, Elapse, Set, Begins
  <2>3. ASSUME NEW j \in Key, NEW t, EndRefresh(j, t) PROVE FALSE
    BY <2>1, <2>3, PoliciesAssumption, Zenon DEF EndRefresh, Goto, WorkerAt
  <2>4. ASSUME NEW j \in Key, NEW t, NEW v \in Value[j], StoreRefresh(j, t, v) PROVE inner[k] # NoValue
    <3>1. Owner[j] \in Member /\ worker' = [worker EXCEPT ![Owner[j]] = [pc |-> "finish", k |-> j, tag |-> t]]
      BY <2>4, PoliciesAssumption, ZenonT(30) DEF StoreRefresh
    <3>2. Owner[k] = Owner[j]
      BY <2>0, <3>1, ZenonT(30) DEF IInv, TypeOK
    <3>3. worker'[Owner[j]].k = j
      BY <3>1, Zenon DEF IInv, TypeOK
    <3> QED  BY <2>4, <3>2, <3>3, StoreRefreshIInv, ZenonT(30)
  <2>5. ASSUME NEW m \in Member, Drop(m) \/ Work(m) PROVE FALSE
    <3>1. CASE Drop(m)
      BY <2>1, <3>1, Zenon DEF Drop, WorkerAt
    <3>2. CASE Arm(m) \/ Wake(m) \/ FinishRefresh(m)
      <4>1. PICK pc \in {"top", "armed", "parked"} : worker' = [worker EXCEPT ![m] = [pc |-> pc]]
        BY <3>2, Zenon DEF Arm, Wake, FinishRefresh, Goto, WorkerAt
      <4> QED  BY <2>1, <4>1, Zenon
    <3>3. CASE \E j \in KeysOf(m) : StartRefresh(j)
      <4>1. PICK j \in Key : StartRefresh(j)
        BY <3>3, Zenon DEF KeysOf
      <4> QED  BY <2>1, <4>1, PoliciesAssumption, Zenon DEF StartRefresh, Goto, WorkerAt
    <3> QED  BY <2>5, <3>1, <3>2, <3>3, ZenonT(30) DEF Work
  <2>6. ASSUME NEW m \in Member, Finish(m) PROVE FALSE
    BY <2>0, <2>6, Zenon DEF Finish, Add, Settle, Dropped
  <2>7. ASSUME CleanUp PROVE FALSE
    BY <2>0, <2>7, ZenonT(30) DEF CleanUp, ReadCurrent, Notified, LockHeap, SelectVictims, RemoveKeys, others
  <2> QED  BY <2>2, <2>3, <2>4, <2>5, <2>6, <2>7, ZenonT(30) DEF Next, Complete
<1> QED  BY <1>1, InvariantHolds, PTL DEF Spec, LateLoadsAreDropped

=============================================================================
