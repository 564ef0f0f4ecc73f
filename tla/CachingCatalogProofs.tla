------------------------ MODULE CachingCatalogProofs ------------------------
(***************************************************************************)
(* Proofs about module CachingCatalog, for any number of partitions,       *)
(* callers, changes and snapshots.                                         *)
(***************************************************************************)
EXTENDS CachingCatalog, TLAPS

Call == [op : {"none", "change", "get"}, pc : {"idle", "refresh", "read", "backoff"},
         todo : SUBSET Partition, flight : SUBSET (Partition \X Generation),
         made : [Partition -> Nat], need : [Partition -> Nat]]

With(op, pc, todo, flight, made, need) ==
    [op |-> op, pc |-> pc, todo |-> todo, flight |-> flight, made |-> made, need |-> need]

TypeOK ==
    /\ floor \in [Key -> Nat]
    /\ offered \in [Key -> SUBSET Nat]
    /\ reads \in [Client -> [pc : {"idle", "run", "done"}, floor : Nat, result : Int]]
    /\ version \in [Partition -> Nat]
    /\ snaps \in [Partition -> Seq(Nat)]
    /\ calls \in [Caller -> Call]
    /\ known \in [Partition -> Nat]
    /\ lost \in [Partition -> SUBSET Nat]

-----------------------------------------------------------------------------
(* The inductive invariant.                                                *)

\* A later snapshot of a partition has all that an earlier one has, and none has
\* more than the backing catalog; only generations that were snapshots are in
\* the cache or on the way to it.
SnapsAreOrdered ==
    \A p \in Partition :
        /\ \A i, j \in 1 .. Len(snaps[p]) : i <= j => snaps[p][i] <= snaps[p][j]
        /\ \A i \in 1 .. Len(snaps[p]) : snaps[p][i] <= version[p]
        /\ floor[p] <= Len(snaps[p])
        /\ offered[p] \subseteq 1 .. Len(snaps[p])

\* The snapshot g of p has the change that made version v.
Shows(p, g, v) == g \in 1 .. Len(snaps[p]) /\ v <= snaps[p][g]

\* Whatever a get of p that begins now returns has the change v.
Covered(p, v) == Shows(p, floor[p], v)

\* What was returned to a caller is covered.
KnownIsCovered ==
    \A p \in Partition :
        /\ known[p] <= version[p]
        /\ known[p] # 0 => Covered(p, known[p])

\* What a call has changed, or found, is covered once the call has refreshed the
\* partition; until then the partition is still to do, or in a snapshot that
\* has the change.
MadeOf(c) ==
    \A p \in Partition :
        /\ calls[c].made[p] <= version[p]
        /\ calls[c].made[p] # 0 =>
              \/ p \in calls[c].todo
              \/ \E g \in Generation :
                    <<p, g>> \in calls[c].flight /\ Shows(p, g, calls[c].made[p])
              \/ Covered(p, calls[c].made[p])

MadeIsCovered == \A c \in Caller : MadeOf(c)

\* What a read must show: nothing of other partitions than its own, and not more
\* than what is known; the cache was asked when it covered it, a snapshot is
\* taken after it was known, and in the end it has found it.
Reading(c, p) ==
    /\ calls[c] = With("get", calls[c].pc, {p}, {}, None, [None EXCEPT ![p] = calls[c].need[p]])
    /\ reads[c].pc = "run" /\ calls[c].need[p] # 0 => Shows(p, reads[c].floor, calls[c].need[p])

NeedOf(c) ==
    /\ calls[c].pc \in {"read", "backoff"} => \E p \in Partition : Reading(c, p)
    /\ \A p \in Partition :
          /\ calls[c].need[p] <= known[p]
          /\ calls[c].need[p] # 0 => calls[c].op = "get"
          /\ \A g \in Generation :
                <<p, g>> \in calls[c].flight => Shows(p, g, calls[c].need[p])
          /\ calls[c].pc = "refresh" =>
                calls[c].need[p] <= calls[c].made[p] \/ p \in Unrefreshed(c)

NeedIsMet == \A c \in Caller : NeedOf(c)

\* Every change of a partition is covered, or its call has given up, or is still
\* about to refresh the partition.
Pending(c, p, v) ==
    /\ calls[c].op = "change"
    /\ calls[c].pc = "refresh"
    /\ calls[c].made[p] = v
    /\ p \in Unrefreshed(c)

Tracked(p, v) ==
    \/ v \in lost[p]
    \/ Covered(p, v)
    \/ \E c \in Caller : Pending(c, p, v)

ChangesAreTracked == \A p \in Partition : \A v \in 1 .. version[p] : Tracked(p, v)

IInv ==
    /\ TypeOK
    /\ SnapsAreOrdered
    /\ KnownIsCovered
    /\ MadeIsCovered
    /\ NeedIsMet
    /\ ChangesAreTracked

USE DEF Partition, Caller

-----------------------------------------------------------------------------
(* Floors only rise and snapshots are only added.                          *)

Grows ==
    \A p \in Partition :
        /\ floor[p] <= floor'[p]
        /\ Len(snaps[p]) <= Len(snaps'[p])
        /\ \A i \in 1 .. Len(snaps[p]) : snaps'[p][i] = snaps[p][i]

\* An element of a sequence.
LEMMA ElementOfSeq ==
    ASSUME NEW S, NEW s \in Seq(S), NEW i \in 1 .. Len(s)
    PROVE  s[i] \in S
OBVIOUS

\* A snapshot keeps showing what it shows.
LEMMA ShowsStays ==
    ASSUME TypeOK, TypeOK', Grows, NEW p \in Partition, NEW g, NEW v, Shows(p, g, v)
    PROVE  g \in 1 .. Len(snaps'[p]) /\ v <= snaps'[p][g]
<1>1. Len(snaps[p]) \in Nat /\ Len(snaps'[p]) \in Nat
  BY DEF TypeOK
<1>2. g \in 1 .. Len(snaps[p]) /\ v <= snaps[p][g]
  BY Zenon DEF Shows
<1>3. Len(snaps[p]) <= Len(snaps'[p]) /\ snaps'[p][g] = snaps[p][g]
  BY <1>2, Zenon DEF Grows
<1> QED  BY <1>1, <1>2, <1>3

\* What is covered stays covered.
LEMMA CoveredStays ==
    ASSUME TypeOK, TypeOK', SnapsAreOrdered', Grows, NEW p \in Partition, NEW v \in Nat,
           Covered(p, v)
    PROVE  Covered(p, v)'
<1> DEFINE s == snaps'[p]
           f == floor[p]
           h == floor'[p]
<1>1. s \in Seq(Nat) /\ Len(s) \in Nat /\ f \in Nat /\ h \in Nat
  BY DEF TypeOK
<1>2. f \in 1 .. Len(s) /\ v <= s[f]
  BY ShowsStays, Zenon DEF Covered
<1>3. f <= h /\ h <= Len(s)
  BY Zenon DEF Grows, SnapsAreOrdered
<1>4. h \in 1 .. Len(s)
  BY <1>1, <1>2, <1>3
<1>5. s[f] <= s[h]
  BY <1>2, <1>3, <1>4, Zenon DEF SnapsAreOrdered
<1>6. s[f] \in Nat /\ s[h] \in Nat
  BY <1>1, <1>2, <1>4, ElementOfSeq, Zenon
<1>7. v <= s[h]
  BY <1>2, <1>5, <1>6
<1> QED  BY <1>4, <1>7, Zenon DEF Covered, Shows

-----------------------------------------------------------------------------
(* Types.                                                                  *)

\* The calls that the steps of a call leave.
LEMMA CallSnapshot ==
    ASSUME NEW r \in Call, NEW T, NEW F
    PROVE  [r EXCEPT !.todo = T, !.flight = F] = With(r.op, r.pc, T, F, r.made, r.need)
<1>1. [r EXCEPT !.todo = T, !.flight = F] = [[r EXCEPT !.todo = T] EXCEPT !.flight = F]
  BY Zenon
<1>2. [r EXCEPT !.todo = T] = With(r.op, r.pc, T, r.flight, r.made, r.need)
  BY DEF Call, With
<1>3. [With(r.op, r.pc, T, r.flight, r.made, r.need) EXCEPT !.flight = F]
        = With(r.op, r.pc, T, F, r.made, r.need)
  BY DEF With
<1> QED  BY <1>1, <1>2, <1>3, Zenon

LEMMA CallDone ==
    ASSUME NEW r \in Call, NEW F, NEW m
    PROVE  [r EXCEPT !.flight = F, !.made = m] = With(r.op, r.pc, r.todo, F, m, r.need)
<1>1. [r EXCEPT !.flight = F, !.made = m] = [[r EXCEPT !.flight = F] EXCEPT !.made = m]
  BY Zenon
<1>2. [r EXCEPT !.flight = F] = With(r.op, r.pc, r.todo, F, r.made, r.need)
  BY DEF Call, With
<1>3. [With(r.op, r.pc, r.todo, F, r.made, r.need) EXCEPT !.made = m]
        = With(r.op, r.pc, r.todo, F, m, r.need)
  BY DEF With
<1> QED  BY <1>1, <1>2, <1>3, Zenon

LEMMA CallHit ==
    ASSUME NEW r \in Call, NEW m
    PROVE  [r EXCEPT !.pc = "refresh", !.todo = {}, !.made = m]
             = With(r.op, "refresh", {}, r.flight, m, r.need)
<1>1. [r EXCEPT !.pc = "refresh", !.todo = {}, !.made = m]
        = [[[r EXCEPT !.pc = "refresh"] EXCEPT !.todo = {}] EXCEPT !.made = m]
  BY Zenon
<1>2. [r EXCEPT !.pc = "refresh"] = With(r.op, "refresh", r.todo, r.flight, r.made, r.need)
  BY DEF Call, With
<1>3. [With(r.op, "refresh", r.todo, r.flight, r.made, r.need) EXCEPT !.todo = {}]
        = With(r.op, "refresh", {}, r.flight, r.made, r.need)
  BY DEF With
<1>4. [With(r.op, "refresh", {}, r.flight, r.made, r.need) EXCEPT !.made = m]
        = With(r.op, "refresh", {}, r.flight, m, r.need)
  BY DEF With
<1> QED  BY <1>1, <1>2, <1>3, <1>4, Zenon

LEMMA CallPc ==
    ASSUME NEW r \in Call, NEW x
    PROVE  [r EXCEPT !.pc = x] = With(r.op, x, r.todo, r.flight, r.made, r.need)
BY DEF Call, With

LEMMA CallType ==
    ASSUME NEW op \in {"none", "change", "get"},
           NEW pc \in {"idle", "refresh", "read", "backoff"},
           NEW T \in SUBSET Partition, NEW F \in SUBSET (Partition \X Generation),
           NEW m \in [Partition -> Nat], NEW n \in [Partition -> Nat]
    PROVE  /\ With(op, pc, T, F, m, n) \in Call
           /\ With(op, pc, T, F, m, n).op = op
           /\ With(op, pc, T, F, m, n).pc = pc
           /\ With(op, pc, T, F, m, n).todo = T
           /\ With(op, pc, T, F, m, n).flight = F
           /\ With(op, pc, T, F, m, n).made = m
           /\ With(op, pc, T, F, m, n).need = n
BY Zenon DEF With, Call

\* The calls after a step of caller c that leaves it in call r.
LEMMA CallsAfter ==
    ASSUME calls \in [Caller -> Call], NEW c \in Caller, NEW r \in Call,
           calls' = [calls EXCEPT ![c] = r]
    PROVE  /\ calls' \in [Caller -> Call]
           /\ calls'[c] = r
           /\ \A d \in Caller \ {c} : calls'[d] = calls[d]
BY Zenon

\* The fields of a call.
LEMMA CallFields ==
    ASSUME NEW r \in Call
    PROVE  /\ r.op \in {"none", "change", "get"}
           /\ r.pc \in {"idle", "refresh", "read", "backoff"}
           /\ r.todo \in SUBSET Partition
           /\ r.flight \in SUBSET (Partition \X Generation)
           /\ r.made \in [Partition -> Nat]
           /\ r.need \in [Partition -> Nat]
BY Zenon DEF Call

\* The partitions a call has not refreshed.
LEMMA UnrefreshedAre ==
    ASSUME NEW T, NEW F \in SUBSET (Partition \X Generation), NEW q
    PROVE  q \in T \cup {f[1] : f \in F} <=>
             q \in T \/ \E h \in Generation : <<q, h>> \in F
<1>1. ASSUME NEW f \in F PROVE f[1] \in Partition /\ f[2] \in Generation /\ f = <<f[1], f[2]>>
  OBVIOUS
<1>2. ASSUME NEW h, <<q, h>> \in F PROVE q \in {f[1] : f \in F}
  <2>1. <<q, h>>[1] = q
    BY Zenon
  <2> QED  BY <1>2, <2>1, Zenon
<1> QED  BY <1>1, <1>2, ZenonT(30)

-----------------------------------------------------------------------------
(* What a step of one caller leaves true of the others.                    *)

\* The step is one of caller c: nothing that was stored or returned goes back.
StepOf(c) ==
    /\ Grows
    /\ \A d \in Caller \ {c} : calls'[d] = calls[d] /\ reads'[d] = reads[d]
    /\ \A p \in Partition :
          /\ version[p] <= version'[p]
          /\ known[p] <= known'[p]
          /\ lost[p] \subseteq lost'[p]

LEMMA MadeStays ==
    ASSUME TypeOK, TypeOK', SnapsAreOrdered', NEW c \in Caller, StepOf(c),
           NEW d \in Caller, calls'[d] = calls[d], MadeOf(d)
    PROVE  MadeOf(d)'
<1> SUFFICES ASSUME NEW p \in Partition
             PROVE  /\ calls[d].made[p] <= version'[p]
                    /\ calls[d].made[p] # 0 =>
                          \/ p \in calls[d].todo
                          \/ \E g \in Generation :
                                <<p, g>> \in calls[d].flight /\ Shows(p, g, calls[d].made[p])'
                          \/ Covered(p, calls[d].made[p])'
  BY Zenon DEF MadeOf
<1> DEFINE m == calls[d].made[p]
<1>1. m \in Nat /\ version[p] \in Nat /\ version'[p] \in Nat
  BY CallFields DEF TypeOK
<1>2. m <= version'[p]
  <2>1. m <= version[p] /\ version[p] <= version'[p]
    BY Zenon DEF MadeOf, StepOf
  <2> QED  BY <1>1, <2>1
<1>3. ASSUME NEW g \in Generation, <<p, g>> \in calls[d].flight, Shows(p, g, m)
      PROVE  Shows(p, g, calls[d].made[p])'
  BY <1>3, ShowsStays, Zenon DEF Shows, StepOf
<1>4. ASSUME Covered(p, m)
      PROVE  Covered(p, calls[d].made[p])'
  BY <1>1, <1>4, CoveredStays, Zenon DEF Covered, Shows, StepOf
<1> QED  BY <1>2, <1>3, <1>4, Zenon DEF MadeOf

LEMMA NeedStays ==
    ASSUME TypeOK, TypeOK', NEW c \in Caller, StepOf(c),
           NEW d \in Caller, calls'[d] = calls[d], reads'[d] = reads[d], NeedOf(d)
    PROVE  NeedOf(d)'
<1>1. ASSUME NEW p \in Partition, Reading(d, p)
      PROVE  Reading(d, p)'
  BY <1>1, ShowsStays, Zenon DEF Reading, Shows, StepOf
<1>2. ASSUME NEW p \in Partition
      PROVE  calls'[d].need[p] <= known'[p]
  <2>1. calls[d].need[p] \in Nat /\ known[p] \in Nat /\ known'[p] \in Nat
    BY CallFields DEF TypeOK
  <2>2. calls[d].need[p] <= known[p] /\ known[p] <= known'[p]
    BY Zenon DEF NeedOf, StepOf
  <2> QED  BY <2>1, <2>2
<1>3. ASSUME NEW p \in Partition, NEW g \in Generation, <<p, g>> \in calls[d].flight
      PROVE  Shows(p, g, calls[d].need[p])'
  BY <1>3, ShowsStays, Zenon DEF NeedOf, Shows, StepOf
<1>4. Unrefreshed(d)' = Unrefreshed(d)
  BY Zenon DEF Unrefreshed
<1> QED  BY <1>1, <1>2, <1>3, <1>4, Zenon DEF NeedOf

LEMMA KnownStays ==
    ASSUME TypeOK, TypeOK', SnapsAreOrdered', NEW c \in Caller, StepOf(c),
           KnownIsCovered, known' = known
    PROVE  KnownIsCovered'
<1> SUFFICES ASSUME NEW p \in Partition
             PROVE  /\ known[p] <= version'[p]
                    /\ known[p] # 0 => Covered(p, known[p])'
  BY Zenon DEF KnownIsCovered
<1>1. known[p] \in Nat /\ version[p] \in Nat /\ version'[p] \in Nat
  BY Zenon DEF TypeOK
<1>2. known[p] <= version[p] /\ version[p] <= version'[p]
  BY Zenon DEF KnownIsCovered, StepOf
<1>3. ASSUME known[p] # 0
      PROVE  Covered(p, known[p])'
  BY <1>1, <1>3, CoveredStays, Zenon DEF KnownIsCovered, Covered, Shows, StepOf
<1> QED  BY <1>1, <1>2, <1>3

\* What a step of caller c has to show for the invariant: what it does to c's own
\* call, and to the changes of which c's call still had a partition to refresh.
LEMMA StepKeepsIInv ==
    ASSUME IInv, TypeOK', SnapsAreOrdered', NEW c \in Caller, StepOf(c),
           KnownIsCovered', MadeOf(c)', NeedOf(c)',
           \A p \in Partition : \A v \in 1 .. version[p] : Pending(c, p, v) => Tracked(p, v)',
           \A p \in Partition : \A v \in version[p] + 1 .. version'[p] : Tracked(p, v)'
    PROVE  IInv'
<1>1. MadeIsCovered'
  <2> SUFFICES ASSUME NEW d \in Caller PROVE MadeOf(d)'
    BY Zenon DEF MadeIsCovered
  <2>1. CASE d # c
    BY <2>1, MadeStays, Zenon DEF IInv, MadeIsCovered, StepOf
  <2> QED  BY <2>1, Zenon
<1>2. NeedIsMet'
  <2> SUFFICES ASSUME NEW d \in Caller PROVE NeedOf(d)'
    BY Zenon DEF NeedIsMet
  <2>1. CASE d # c
    BY <2>1, NeedStays, Zenon DEF IInv, NeedIsMet, StepOf
  <2> QED  BY <2>1, Zenon
<1>3. ChangesAreTracked'
  <2> SUFFICES ASSUME NEW p \in Partition, NEW v \in 1 .. version'[p]
               PROVE  Tracked(p, v)'
    BY Zenon DEF ChangesAreTracked
  <2>1. version[p] \in Nat /\ version'[p] \in Nat /\ v \in Nat
    BY DEF TypeOK, IInv
  <2>2. CASE v \in version[p] + 1 .. version'[p]
    BY <2>2, Zenon
  <2>3. CASE v \in 1 .. version[p]
    <3>1. Tracked(p, v)
      BY <2>3, Zenon DEF IInv, ChangesAreTracked
    <3>2. CASE v \in lost[p]
      BY <3>2, Zenon DEF StepOf, Tracked
    <3>3. CASE Covered(p, v)
      BY <2>1, <3>3, CoveredStays, Zenon DEF StepOf, IInv, Tracked
    <3>4. ASSUME NEW d \in Caller, d # c, Pending(d, p, v)
          PROVE  Pending(d, p, v)'
      BY <3>4, Zenon DEF StepOf, Pending, Unrefreshed
    <3>5. CASE \E d \in Caller : Pending(d, p, v)
      BY <2>3, <3>4, <3>5, Zenon DEF Tracked
    <3> QED  BY <3>1, <3>2, <3>3, <3>5, Zenon DEF Tracked
  <2> QED  BY <2>1, <2>2, <2>3
<1> QED  BY <1>1, <1>2, <1>3, Zenon DEF IInv

-----------------------------------------------------------------------------
(* The steps of a call.                                                    *)

\* A change of the partitions of S: the caller has them all to refresh.
LEMMA ChangeStep ==
    ASSUME IInv, NEW c \in Caller, NEW S \in SUBSET Partition, Commit(c, S),
           calls' = [calls EXCEPT ![c] = Refreshing(S, S)]
    PROVE  IInv'
<1> DEFINE m == [p \in Partition |-> IF p \in S THEN version[p] + 1 ELSE 0]
<1>1. TypeOK
  BY Zenon DEF IInv
<1>2. Refreshing(S, S) = With("change", "refresh", S, {}, m, None)
  BY Zenon DEF Refreshing, With
<1>3. m \in [Partition -> Nat] /\ None \in [Partition -> Nat]
  BY <1>1 DEF TypeOK, None
<1> HIDE DEF m
<1>4. With("change", "refresh", S, {}, m, None) \in Call
  BY <1>3, CallType
<1>5. calls' = [calls EXCEPT ![c] = With("change", "refresh", S, {}, m, None)]
  BY <1>2, Zenon
<1>6. /\ calls' \in [Caller -> Call]
      /\ calls'[c] = With("change", "refresh", S, {}, m, None)
      /\ \A d \in Caller \ {c} : calls'[d] = calls[d]
  BY <1>1, <1>4, <1>5, CallsAfter, Zenon DEF TypeOK
<1>7. /\ calls'[c].op = "change" /\ calls'[c].pc = "refresh" /\ calls'[c].todo = S
      /\ calls'[c].flight = {} /\ calls'[c].made = m /\ calls'[c].need = None
  BY <1>3, <1>6, CallType
<1>8. /\ version' = [p \in Partition |-> IF p \in S THEN version[p] + 1 ELSE version[p]]
      /\ UNCHANGED <<floor, offered, reads, snaps, known, lost>>
  BY Zenon DEF Commit, cacheVars
<1>9. TypeOK'
  BY <1>1, <1>6, <1>8 DEF TypeOK
<1>10. \A p \in Partition : version[p] <= version'[p] /\ m[p] <= version'[p]
  BY <1>1, <1>8 DEF TypeOK, m
<1>11. SnapsAreOrdered'
  <2> SUFFICES ASSUME NEW p \in Partition, NEW i \in 1 .. Len(snaps[p])
               PROVE  snaps[p][i] <= version'[p]
    BY <1>8, Zenon DEF SnapsAreOrdered, IInv
  <2>1. snaps[p][i] \in Nat /\ version[p] \in Nat /\ version'[p] \in Nat
    BY <1>1, <1>9, ElementOfSeq, Zenon DEF TypeOK
  <2> QED  BY <1>10, <2>1 DEF SnapsAreOrdered, IInv
<1>12. StepOf(c)
  BY <1>1, <1>6, <1>8, <1>10 DEF StepOf, Grows, TypeOK
<1>13. KnownIsCovered'
  BY <1>1, <1>8, <1>9, <1>11, <1>12, KnownStays, Zenon DEF IInv
<1>14. MadeOf(c)'
  BY <1>7, <1>10, Zenon DEF MadeOf, m
<1>15. NeedOf(c)'
  BY <1>1, <1>3, <1>7, <1>8 DEF NeedOf, None, TypeOK
<1>16. \A p \in Partition : \A v \in 1 .. version[p] : ~Pending(c, p, v)
  BY Zenon DEF Pending, Commit, Busy
<1>17. ASSUME NEW p \in Partition, NEW v \in version[p] + 1 .. version'[p]
       PROVE  Tracked(p, v)'
  <2>1. p \in S /\ v = m[p]
    BY <1>1, <1>8 DEF TypeOK, m
  <2> QED  BY <1>7, <2>1, Zenon DEF Tracked, Pending, Unrefreshed
<1> QED  BY <1>9, <1>11, <1>12, <1>13, <1>14, <1>15, <1>16, <1>17, StepKeepsIInv, Zenon

\* A snapshot is taken and on its way to the cache.
LEMMA SnapshotStep ==
    ASSUME IInv, NEW c \in Caller, NEW p \in Partition, RefreshSnapshot(c, p)
    PROVE  IInv'
<1> DEFINE r == calls[c]
           g == Len(snaps[p]) + 1
           T == r.todo \ {p}
           F == r.flight \cup {<<p, g>>}
           r1 == With(r.op, r.pc, T, F, r.made, r.need)
<1>1. TypeOK /\ SnapsAreOrdered /\ KnownIsCovered /\ MadeOf(c) /\ NeedOf(c)
  BY Zenon DEF IInv, MadeIsCovered, NeedIsMet
<1>2. /\ r \in Call /\ snaps[p] \in Seq(Nat) /\ Len(snaps[p]) \in Nat /\ version[p] \in Nat
  BY <1>1 DEF TypeOK
<1>3. g \in Generation /\ r.pc = "refresh" /\ p \in r.todo
  BY <1>2, CatalogAssumption DEF RefreshSnapshot, Startable
<1>4. calls' = [calls EXCEPT ![c] = r1]
  <2>1. calls' = [calls EXCEPT ![c] = [r EXCEPT !.todo = T, !.flight = F]]
    BY Zenon DEF RefreshSnapshot
  <2> QED  BY <1>2, <2>1, CallSnapshot, Zenon
<1>5. /\ snaps' = [snaps EXCEPT ![p] = Append(snaps[p], version[p])]
      /\ offered' = [offered EXCEPT ![p] = offered[p] \cup {g}]
      /\ UNCHANGED <<floor, reads, version, known, lost>>
  BY Zenon DEF RefreshSnapshot, CachePut
<1>6. T \in SUBSET Partition /\ F \in SUBSET (Partition \X Generation)
  BY <1>2, <1>3, CallFields
<1> HIDE DEF T, F
<1>7. /\ r1 \in Call /\ r1.op = r.op /\ r1.pc = r.pc /\ r1.todo = T /\ r1.flight = F
      /\ r1.made = r.made /\ r1.need = r.need
  <2>1. /\ r.op \in {"none", "change", "get"} /\ r.pc \in {"idle", "refresh", "read", "backoff"}
        /\ r.made \in [Partition -> Nat] /\ r.need \in [Partition -> Nat]
    BY <1>2, CallFields, Zenon
  <2> QED  BY <1>6, <2>1, CallType
<1>8. calls' \in [Caller -> Call] /\ calls'[c] = r1 /\ \A d \in Caller \ {c} : calls'[d] = calls[d]
  BY <1>1, <1>4, <1>7, CallsAfter, Zenon DEF TypeOK
<1> HIDE DEF r1
<1>9. snaps' \in [Partition -> Seq(Nat)]
  BY <1>1, <1>2, <1>5 DEF TypeOK
<1>10. offered' \in [Key -> SUBSET Nat]
  BY <1>1, <1>2, <1>5 DEF TypeOK
<1>11. TypeOK'
  BY <1>1, <1>5, <1>8, <1>9, <1>10, Zenon DEF TypeOK
<1>12. /\ Len(snaps'[p]) = g /\ snaps'[p][g] = version[p]
       /\ \A i \in 1 .. Len(snaps[p]) : snaps'[p][i] = snaps[p][i]
       /\ \A q \in Partition \ {p} : snaps'[q] = snaps[q]
  <2>1. snaps'[p] = Append(snaps[p], version[p]) /\ \A q \in Partition \ {p} : snaps'[q] = snaps[q]
    BY <1>1, <1>5, Zenon DEF TypeOK
  <2> QED  BY <1>2, <2>1
<1>13. SnapsAreOrdered'
  <2> SUFFICES ASSUME NEW q \in Partition
               PROVE  /\ \A i, j \in 1 .. Len(snaps'[q]) : i <= j => snaps'[q][i] <= snaps'[q][j]
                      /\ \A i \in 1 .. Len(snaps'[q]) : snaps'[q][i] <= version[q]
                      /\ floor[q] <= Len(snaps'[q])
                      /\ offered'[q] \subseteq 1 .. Len(snaps'[q])
    BY <1>5, Zenon DEF SnapsAreOrdered
  <2>1. CASE q # p
    BY <1>1, <1>5, <1>12, <2>1, ZenonT(30) DEF SnapsAreOrdered, TypeOK
  <2>2. CASE q = p
    <3>1. \A i \in 1 .. g : i = g \/ i \in 1 .. Len(snaps[p])
      BY <1>2
    <3>2. \A i \in 1 .. g : snaps'[p][i] <= version[p]
      BY <1>1, <1>2, <1>12, <3>1 DEF SnapsAreOrdered
    <3>3. ASSUME NEW i \in 1 .. g, NEW j \in 1 .. g, i <= j
          PROVE  snaps'[p][i] <= snaps'[p][j]
      <4>1. CASE j = g
        BY <1>12, <3>2, <4>1, Zenon
      <4>2. CASE j # g
        <5>1. j \in 1 .. Len(snaps[p]) /\ i \in 1 .. Len(snaps[p])
          BY <1>2, <3>3, <4>2
        <5> QED  BY <1>1, <1>12, <3>3, <5>1, Zenon DEF SnapsAreOrdered
      <4> QED  BY <4>1, <4>2, Zenon
    <3>4. floor[p] <= g /\ offered'[p] \subseteq 1 .. g
      BY <1>1, <1>2, <1>5 DEF SnapsAreOrdered, TypeOK
    <3> QED  BY <1>12, <2>2, <3>2, <3>3, <3>4, Zenon
  <2> QED  BY <2>1, <2>2, Zenon
<1>14. StepOf(c)
  BY <1>1, <1>2, <1>5, <1>8, <1>12 DEF StepOf, Grows, TypeOK
<1>15. KnownIsCovered'
  BY <1>1, <1>5, <1>11, <1>13, <1>14, KnownStays, Zenon
<1>16. g \in 1 .. Len(snaps'[p]) /\ <<p, g>> \in F
  BY <1>2, <1>12 DEF F
<1>17. ASSUME NEW q \in Unrefreshed(c)
       PROVE  q \in Unrefreshed(c)'
  <2>1. q \in r.todo \/ \E h \in Generation : <<q, h>> \in r.flight
    BY <1>2, CallFields, UnrefreshedAre, Zenon DEF Unrefreshed
  <2>2. q \in T \/ \E h \in Generation : <<q, h>> \in F
    BY <1>3, <1>16, <2>1, Zenon DEF T, F
  <2> QED  BY <1>6, <1>7, <1>8, <2>2, UnrefreshedAre, Zenon DEF Unrefreshed
<1>18. MadeOf(c)'
  <2> SUFFICES ASSUME NEW q \in Partition
               PROVE  /\ r.made[q] <= version[q]
                      /\ r.made[q] # 0 =>
                            \/ q \in T
                            \/ \E h \in Generation :
                                  <<q, h>> \in F /\ h \in 1 .. Len(snaps'[q]) /\ r.made[q] <= snaps'[q][h]
                            \/ Covered(q, r.made[q])'
    BY <1>5, <1>7, <1>8, Zenon DEF MadeOf, Shows
  <2>1. r.made[q] \in Nat /\ r.made[q] <= version[q]
    BY <1>1, <1>2, CallFields, Zenon DEF MadeOf
  <2>2. CASE q = p
    BY <1>3, <1>12, <1>16, <2>1, <2>2, Zenon
  <2>3. CASE q # p /\ q \in r.todo
    BY <2>1, <2>3, Zenon DEF T
  <2>4. ASSUME NEW h \in Generation, <<q, h>> \in r.flight, Shows(q, h, r.made[q])
        PROVE  <<q, h>> \in F /\ h \in 1 .. Len(snaps'[q]) /\ r.made[q] <= snaps'[q][h]
    BY <1>1, <1>11, <1>14, <2>4, ShowsStays, Zenon DEF F, StepOf
  <2>5. ASSUME Covered(q, r.made[q])
        PROVE  Covered(q, r.made[q])'
    <3>1. calls'[c].made[q] = r.made[q]
      BY <1>7, <1>8, Zenon
    <3> QED  BY <1>1, <1>11, <1>13, <1>14, <2>1, <2>5, <3>1, CoveredStays, Zenon DEF StepOf, Covered, Shows
  <2> QED  BY <1>1, <2>1, <2>2, <2>3, <2>4, <2>5, Zenon DEF MadeOf
<1>19. NeedOf(c)'
  <2> SUFFICES ASSUME NEW q \in Partition
               PROVE  /\ r.need[q] <= known[q]
                      /\ r.need[q] # 0 => r.op = "get"
                      /\ \A h \in Generation : <<q, h>> \in F =>
                            h \in 1 .. Len(snaps'[q]) /\ r.need[q] <= snaps'[q][h]
                      /\ r.need[q] <= r.made[q] \/ q \in Unrefreshed(c)'
    BY <1>3, <1>5, <1>7, <1>8, Zenon DEF NeedOf, Shows
  <2>1. r.need[q] \in Nat /\ known[q] \in Nat /\ version[q] \in Nat
    BY <1>1, <1>2, CallFields DEF TypeOK
  <2>2. r.need[q] <= known[q] /\ known[q] <= version[q]
    BY <1>1, Zenon DEF NeedOf, KnownIsCovered
  <2>3. ASSUME NEW h \in Generation, <<q, h>> \in F
        PROVE  h \in 1 .. Len(snaps'[q]) /\ r.need[q] <= snaps'[q][h]
    <3>1. CASE <<q, h>> \in r.flight
      BY <1>1, <1>11, <1>14, <3>1, ShowsStays, Zenon DEF NeedOf, StepOf
    <3>2. CASE q = p /\ h = g
      BY <1>12, <1>16, <2>1, <2>2, <3>2
    <3> QED  BY <2>3, <3>1, <3>2, Zenon DEF F
  <2>4. q \in Unrefreshed(c) => q \in Unrefreshed(c)'
    BY <1>17, Zenon
  <2> QED  BY <1>1, <1>3, <2>2, <2>3, <2>4, Zenon DEF NeedOf
<1>20. ASSUME NEW q \in Partition, NEW v \in 1 .. version[q], Pending(c, q, v)
       PROVE  Tracked(q, v)'
  BY <1>7, <1>8, <1>17, <1>20, Zenon DEF Tracked, Pending
<1>21. \A q \in Partition : version[q] + 1 .. version'[q] = {}
  BY <1>1, <1>5 DEF TypeOK
<1> QED  BY <1>11, <1>13, <1>14, <1>15, <1>18, <1>19, <1>20, <1>21, StepKeepsIInv, Zenon

\* A generation is returned: what its snapshot shows is covered from then on.
LEMMA RaisedFloor ==
    ASSUME TypeOK, SnapsAreOrdered, NEW p \in Partition, NEW g \in offered[p],
           RaiseFloor(p, g), UNCHANGED <<snaps, version, offered>>
    PROVE  /\ g \in 1 .. Len(snaps[p]) /\ snaps[p][g] \in Nat /\ snaps[p][g] <= version[p]
           /\ floor' \in [Key -> Nat]
           /\ Grows
           /\ SnapsAreOrdered'
           /\ \A v \in Nat : v <= snaps[p][g] => Covered(p, v)'
<1>1. /\ g \in 1 .. Len(snaps[p]) /\ snaps[p] \in Seq(Nat) /\ Len(snaps[p]) \in Nat
      /\ floor[p] \in Nat /\ floor[p] <= Len(snaps[p])
  BY DEF TypeOK, SnapsAreOrdered
<1>2. snaps[p][g] \in Nat /\ snaps[p][g] <= version[p]
  BY <1>1, ElementOfSeq, Zenon DEF SnapsAreOrdered
<1>3. /\ floor' \in [Key -> Nat]
      /\ floor'[p] = (IF g > floor[p] THEN g ELSE floor[p])
      /\ \A q \in Partition \ {p} : floor'[q] = floor[q]
  BY <1>1, Zenon DEF RaiseFloor, TypeOK
<1>4. floor'[p] \in 1 .. Len(snaps[p]) /\ g <= floor'[p] /\ floor[p] <= floor'[p]
  BY <1>1, <1>3
<1>5. Grows
  <2> SUFFICES ASSUME NEW q \in Partition
               PROVE  floor[q] <= floor'[q] /\ Len(snaps[q]) <= Len(snaps[q])
    BY Zenon DEF Grows
  <2>1. floor[q] \in Nat /\ Len(snaps[q]) \in Nat
    BY DEF TypeOK
  <2> QED  BY <1>3, <1>4, <2>1
<1>6. SnapsAreOrdered'
  BY <1>3, <1>4 DEF SnapsAreOrdered
<1>7. snaps[p][g] <= snaps[p][floor'[p]] /\ snaps[p][floor'[p]] \in Nat
  BY <1>1, <1>4, ElementOfSeq, Zenon DEF SnapsAreOrdered
<1>8. ASSUME NEW v \in Nat, v <= snaps[p][g]
      PROVE  Covered(p, v)'
  <2>1. v <= snaps[p][floor'[p]]
    BY <1>2, <1>7, <1>8
  <2> QED  BY <1>4, <2>1, Zenon DEF Covered, Shows
<1> QED  BY <1>1, <1>2, <1>3, <1>5, <1>6, <1>8, Zenon

\* A refresh has returned.
LEMMA DoneStep ==
    ASSUME IInv, NEW c \in Caller, NEW p \in Partition, NEW g \in Generation,
           RefreshDone(c, p, g)
    PROVE  IInv'
<1> DEFINE r == calls[c]
           F == r.flight \ {<<p, g>>}
           m == IF r.op = "get" THEN [r.made EXCEPT ![p] = snaps[p][g]] ELSE r.made
           r1 == With(r.op, r.pc, r.todo, F, m, r.need)
<1>1. TypeOK /\ SnapsAreOrdered /\ KnownIsCovered /\ MadeOf(c) /\ NeedOf(c)
  BY Zenon DEF IInv, MadeIsCovered, NeedIsMet
<1>2. r \in Call
  BY <1>1, Zenon DEF TypeOK
<1>3. /\ r.op \in {"none", "change", "get"} /\ r.pc \in {"idle", "refresh", "read", "backoff"}
      /\ r.todo \in SUBSET Partition /\ r.flight \in SUBSET (Partition \X Generation)
      /\ r.made \in [Partition -> Nat] /\ r.need \in [Partition -> Nat]
  BY <1>2, CallFields, Zenon
<1>4. /\ r.pc = "refresh" /\ <<p, g>> \in r.flight
      /\ g \in offered[p] /\ RaiseFloor(p, g)
      /\ offered' = offered /\ reads' = reads /\ version' = version /\ snaps' = snaps
      /\ known' = known /\ lost' = lost
      /\ calls' = [calls EXCEPT ![c] = [r EXCEPT !.flight = F, !.made = m]]
  BY Zenon DEF RefreshDone, CachePutOk
<1>5. /\ snaps[p][g] \in Nat /\ snaps[p][g] <= version[p] /\ g \in 1 .. Len(snaps[p])
      /\ floor' \in [Key -> Nat] /\ Grows /\ SnapsAreOrdered'
      /\ \A v \in Nat : v <= snaps[p][g] => Covered(p, v)'
  BY <1>1, <1>4, RaisedFloor, Zenon
<1>6. calls' = [calls EXCEPT ![c] = r1]
  BY <1>2, <1>4, CallDone, ZenonT(30)
<1>7. m \in [Partition -> Nat] /\ F \in SUBSET (Partition \X Generation)
  BY <1>3, <1>5, Zenon
<1>8. /\ \A q \in Partition : m[q] = r.made[q] \/ (q = p /\ m[q] = snaps[p][g])
      /\ r.op = "get" => m[p] = snaps[p][g]
      /\ r.op # "get" => m = r.made
  <2>1. CASE r.op = "get"
    <3>1. m = [r.made EXCEPT ![p] = snaps[p][g]]
      BY <2>1, Zenon
    <3> HIDE DEF m
    <3> QED  BY <1>3, <2>1, <3>1, Zenon
  <2>2. CASE r.op # "get"
    <3>1. m = r.made
      BY <2>2, Zenon
    <3> HIDE DEF m
    <3> QED  BY <2>2, <3>1, Zenon
  <2> QED  BY <2>1, <2>2, Zenon
<1>9. \A q, h : <<q, h>> \in r.flight => <<q, h>> \in F \/ (q = p /\ h = g)
  BY Zenon
<1>10. \A q, h : <<q, h>> \in F => <<q, h>> \in r.flight
  BY Zenon
<1> HIDE DEF m, F
<1>11. /\ r1 \in Call /\ r1.op = r.op /\ r1.pc = r.pc /\ r1.todo = r.todo /\ r1.flight = F
       /\ r1.made = m /\ r1.need = r.need
  BY <1>3, <1>7, CallType
<1>12. calls' \in [Caller -> Call] /\ calls'[c] = r1 /\ \A d \in Caller \ {c} : calls'[d] = calls[d]
  BY <1>1, <1>6, <1>11, CallsAfter, Zenon DEF TypeOK
<1> HIDE DEF r1
<1>13. TypeOK'
  BY <1>1, <1>4, <1>5, <1>12, Zenon DEF TypeOK
<1>14. StepOf(c)
  <2>1. \A q \in Partition : version[q] \in Nat /\ known[q] \in Nat
    BY <1>1, Zenon DEF TypeOK
  <2> QED  BY <1>4, <1>5, <1>12, <2>1 DEF StepOf
<1>15. KnownIsCovered'
  BY <1>1, <1>4, <1>5, <1>13, <1>14, KnownStays, Zenon
<1>16. ASSUME NEW q \in Partition, NEW v \in Nat, Covered(q, v)
       PROVE  Covered(q, v)'
  BY <1>1, <1>5, <1>13, <1>16, CoveredStays, Zenon
<1>17. MadeOf(c)'
  <2> SUFFICES ASSUME NEW q \in Partition
               PROVE  /\ m[q] <= version[q]
                      /\ m[q] # 0 =>
                            \/ q \in r.todo
                            \/ \E h \in Generation :
                                  <<q, h>> \in F /\ h \in 1 .. Len(snaps[q]) /\ m[q] <= snaps[q][h]
                            \/ Covered(q, calls[c].made[q])'
    BY <1>4, <1>11, <1>12, ZenonT(30) DEF MadeOf, Shows
  <2>1. m[q] = calls'[c].made[q] /\ m[q] \in Nat
    BY <1>7, <1>11, <1>12, Zenon
  <2>2. ASSUME NEW v \in Nat, v = m[q], Covered(q, v)'
        PROVE  Covered(q, calls[c].made[q])'
    BY <2>1, <2>2, Zenon DEF Covered, Shows
  <2>3. CASE q = p /\ m[q] = snaps[p][g]
    <3>1. \A v \in Nat : v = m[q] => Covered(q, v)'
      BY <1>5, <2>3
    <3> QED  BY <1>4, <1>5, <2>1, <2>2, <2>3, <3>1, Zenon
  <2>4. CASE m[q] = r.made[q]
    <3>1. r.made[q] <= version[q]
      BY <1>1, Zenon DEF MadeOf
    <3>2. ASSUME NEW h \in Generation, <<q, h>> \in r.flight, Shows(q, h, r.made[q])
          PROVE  \/ <<q, h>> \in F /\ h \in 1 .. Len(snaps[q]) /\ m[q] <= snaps[q][h]
                 \/ Covered(q, calls[c].made[q])'
      <4>1. CASE <<q, h>> \in F
        BY <2>4, <3>2, <4>1, Zenon DEF Shows
      <4>2. CASE q = p /\ h = g
        BY <1>5, <2>1, <2>2, <2>4, <3>2, <4>2, Zenon DEF Shows
      <4> QED  BY <1>9, <3>2, <4>1, <4>2, Zenon
    <3>3. ASSUME Covered(q, r.made[q])
          PROVE  Covered(q, calls[c].made[q])'
      BY <1>16, <2>1, <2>2, <2>4, <3>3, Zenon DEF Covered, Shows
    <3> QED  BY <1>1, <2>4, <3>1, <3>2, <3>3, Zenon DEF MadeOf
  <2> QED  BY <1>8, <2>3, <2>4, ZenonT(30)
<1>18. ASSUME NEW q \in Unrefreshed(c), q # p \/ p \in r.todo \/ \E h \in Generation \ {g} : <<p, h>> \in r.flight
       PROVE  q \in Unrefreshed(c)'
  <2>1. q \in r.todo \/ \E h \in Generation : <<q, h>> \in r.flight
    BY <1>3, UnrefreshedAre, ZenonT(30) DEF Unrefreshed
  <2>2. q \in r.todo \/ \E h \in Generation : <<q, h>> \in F
    BY <1>9, <1>18, <2>1, Zenon
  <2> QED  BY <1>7, <1>11, <1>12, <2>2, UnrefreshedAre, ZenonT(30) DEF Unrefreshed
<1>19. NeedOf(c)'
  <2> SUFFICES ASSUME NEW q \in Partition
               PROVE  /\ r.need[q] <= known[q]
                      /\ r.need[q] # 0 => r.op = "get"
                      /\ \A h \in Generation : <<q, h>> \in F =>
                            h \in 1 .. Len(snaps[q]) /\ r.need[q] <= snaps[q][h]
                      /\ r.need[q] <= m[q] \/ q \in Unrefreshed(c)'
    BY <1>4, <1>11, <1>12 DEF NeedOf, Shows
  <2>1. /\ r.need[q] <= known[q]
        /\ r.need[q] # 0 => r.op = "get"
        /\ \A h \in Generation : <<q, h>> \in r.flight => Shows(q, h, r.need[q])
        /\ r.need[q] <= r.made[q] \/ q \in Unrefreshed(c)
    BY <1>1, <1>4, Zenon DEF NeedOf
  <2>2. \A h \in Generation : <<q, h>> \in F => h \in 1 .. Len(snaps[q]) /\ r.need[q] <= snaps[q][h]
    BY <1>10, <2>1, Zenon DEF Shows
  <2>3. CASE q # p
    BY <1>8, <1>18, <2>1, <2>2, <2>3, Zenon
  <2>4. CASE q = p /\ r.op = "get"
    BY <1>4, <1>8, <2>1, <2>2, <2>4, Zenon DEF Shows
  <2>5. CASE q = p /\ r.op # "get"
    BY <1>3, <1>8, <2>1, <2>2, <2>5
  <2> QED  BY <2>3, <2>4, <2>5, Zenon
<1>20. ASSUME NEW q \in Partition, NEW v \in 1 .. version[q], Pending(c, q, v)
       PROVE  Tracked(q, v)'
  <2>1. r.op = "change" /\ m = r.made /\ m[q] = v /\ v \in Nat /\ v # 0
    BY <1>1, <1>8, <1>20 DEF Pending, TypeOK
  <2>2. CASE q # p \/ p \in r.todo \/ \E h \in Generation \ {g} : <<p, h>> \in r.flight
    <3>1. q \in Unrefreshed(c)'
      BY <1>18, <1>20, <2>2, Zenon DEF Pending
    <3> QED  BY <1>4, <1>11, <1>12, <2>1, <3>1, Zenon DEF Tracked, Pending
  <2>3. CASE q = p /\ p \notin r.todo /\ ~\E h \in Generation \ {g} : <<p, h>> \in r.flight
    <3>1. Shows(p, g, v) \/ Covered(p, v)
      BY <1>1, <2>1, <2>3, Zenon DEF MadeOf
    <3>2. Covered(q, v)'
      BY <1>5, <1>16, <2>1, <2>3, <3>1, Zenon DEF Shows
    <3> QED  BY <3>2, Zenon DEF Tracked
  <2> QED  BY <2>2, <2>3, Zenon
<1>21. \A q \in Partition : version[q] + 1 .. version'[q] = {}
  BY <1>1, <1>4 DEF TypeOK
<1> QED  BY <1>5, <1>13, <1>14, <1>15, <1>17, <1>19, <1>20, <1>21, StepKeepsIInv, Zenon

\* The caller is in no call any more: nothing is asked of it.
LEMMA CallOver ==
    ASSUME calls \in [Caller -> Call], NEW c \in Caller, version' \in [Partition -> Nat],
           known' \in [Partition -> Nat], calls' = [calls EXCEPT ![c] = NoCall]
    PROVE  /\ calls' \in [Caller -> Call]
           /\ \A d \in Caller \ {c} : calls'[d] = calls[d]
           /\ MadeOf(c)' /\ NeedOf(c)'
<1>1. NoCall = With("none", "idle", {}, {}, None, None)
  BY Zenon DEF NoCall, With
<1>2. None \in [Partition -> Nat] /\ \A p \in Partition : None[p] = 0
  BY Zenon DEF None
<1>3. /\ NoCall \in Call /\ NoCall.op = "none" /\ NoCall.pc = "idle" /\ NoCall.flight = {}
      /\ NoCall.made = None /\ NoCall.need = None
  BY <1>1, <1>2, CallType
<1>4. calls' \in [Caller -> Call] /\ calls'[c] = NoCall /\ \A d \in Caller \ {c} : calls'[d] = calls[d]
  BY <1>3, CallsAfter, Zenon
<1>5. MadeOf(c)'
  BY <1>2, <1>3, <1>4 DEF MadeOf
<1>6. NeedOf(c)'
  BY <1>2, <1>3, <1>4 DEF NeedOf
<1> QED  BY <1>4, <1>5, <1>6, Zenon

\* A get is dropped, or its result forgotten.
LEMMA Dropped ==
    ASSUME TypeOK, NEW c \in Caller, CacheDrop(c)
    PROVE  /\ reads' \in [Client -> [pc : {"idle", "run", "done"}, floor : Nat, result : Int]]
           /\ \A d \in Caller \ {c} : reads'[d] = reads[d]
           /\ floor' = floor /\ offered' = offered
BY DEF TypeOK, CacheDrop, NoRead, Miss

\* The call ends without refreshing the partitions of U.
LEMMA GiveUpStep ==
    ASSUME IInv, NEW c \in Caller, NEW U, GiveUp(c, U), CacheDrop(c),
           UNCHANGED <<version, snaps, known>>,
           \A p \in Partition : calls[c].pc = "refresh" /\ p \in Unrefreshed(c) => p \in U
    PROVE  IInv'
<1>1. TypeOK /\ SnapsAreOrdered /\ KnownIsCovered /\ calls[c] \in Call
  BY Zenon DEF IInv, TypeOK
<1>2. /\ version' = version /\ snaps' = snaps /\ known' = known
      /\ version \in [Partition -> Nat] /\ known \in [Partition -> Nat]
      /\ calls \in [Caller -> Call] /\ calls[c].made \in [Partition -> Nat]
  BY <1>1, CallFields, Zenon DEF TypeOK
<1>3. /\ calls' \in [Caller -> Call] /\ MadeOf(c)' /\ NeedOf(c)'
      /\ \A d \in Caller \ {c} : calls'[d] = calls[d]
  BY <1>2, CallOver, ZenonT(30) DEF GiveUp
<1>4. lost' = [p \in Partition |-> IF p \in U THEN lost[p] \cup ({calls[c].made[p]} \ {0}) ELSE lost[p]]
  BY Zenon DEF GiveUp
<1>5. /\ lost' \in [Partition -> SUBSET Nat]
      /\ \A p \in Partition : lost[p] \subseteq lost'[p]
      /\ \A p \in Partition : p \in U /\ calls[c].made[p] # 0 => calls[c].made[p] \in lost'[p]
  BY <1>1, <1>2, <1>4, ZenonT(30) DEF TypeOK
<1>6. TypeOK'
  BY <1>1, <1>2, <1>3, <1>5, Dropped, Zenon DEF TypeOK
<1>7. SnapsAreOrdered'
  BY <1>1, <1>2, Dropped, Zenon DEF SnapsAreOrdered
<1>8. StepOf(c)
  <2>1. \A q \in Partition : /\ version[q] \in Nat /\ known[q] \in Nat /\ floor[q] \in Nat
                             /\ Len(snaps[q]) \in Nat
    BY <1>1 DEF TypeOK
  <2> QED  BY <1>1, <1>2, <1>3, <1>5, <2>1, Dropped DEF StepOf, Grows
<1>9. KnownIsCovered'
  BY <1>1, <1>2, <1>6, <1>7, <1>8, KnownStays, Zenon
<1>10. ASSUME NEW p \in Partition, NEW v \in 1 .. version[p], Pending(c, p, v)
       PROVE  Tracked(p, v)'
  <2>1. v # 0
    BY <1>2
  <2> QED  BY <1>5, <1>10, <2>1, Zenon DEF Pending, Tracked
<1>11. \A q \in Partition : version[q] + 1 .. version'[q] = {}
  BY <1>2
<1> QED  BY <1>3, <1>6, <1>7, <1>8, <1>9, <1>10, <1>11, StepKeepsIInv, Zenon

\* The call returns Ok: what it has made is known, and covered.
LEMMA ReturnStep ==
    ASSUME IInv, NEW c \in Caller, Return(c)
    PROVE  IInv'
<1> DEFINE r == calls[c]
<1>1. TypeOK /\ SnapsAreOrdered /\ KnownIsCovered /\ MadeOf(c) /\ r \in Call
  BY Zenon DEF IInv, TypeOK, MadeIsCovered
<1>2. /\ version' = version /\ snaps' = snaps /\ lost' = lost
      /\ version \in [Partition -> Nat] /\ known \in [Partition -> Nat]
      /\ calls \in [Caller -> Call] /\ r.made \in [Partition -> Nat]
      /\ r.flight \in SUBSET (Partition \X Generation)
      /\ CacheDrop(c)
  BY <1>1, CallFields, Zenon DEF TypeOK, Return
<1>3. /\ known' \in [Partition -> Nat]
      /\ \A p \in Partition : known[p] <= known'[p] /\ known'[p] \in {known[p], r.made[p]}
  BY <1>2 DEF Return
<1>4. /\ calls' \in [Caller -> Call] /\ MadeOf(c)' /\ NeedOf(c)'
      /\ \A d \in Caller \ {c} : calls'[d] = calls[d]
  BY <1>2, <1>3, CallOver, ZenonT(30) DEF Return
<1>5. TypeOK'
  BY <1>1, <1>2, <1>3, <1>4, Dropped, Zenon DEF TypeOK
<1>6. SnapsAreOrdered'
  BY <1>1, <1>2, Dropped, Zenon DEF SnapsAreOrdered
<1>7. StepOf(c)
  <2>1. \A q \in Partition : version[q] \in Nat /\ floor[q] \in Nat /\ Len(snaps[q]) \in Nat
    BY <1>1 DEF TypeOK
  <2> QED  BY <1>1, <1>2, <1>3, <1>4, <2>1, Dropped DEF StepOf, Grows
<1>8. \A p \in Partition : p \notin Unrefreshed(c)
  BY Zenon DEF Return, Complete
<1>9. \A p \in Partition : p \notin r.todo /\ ~\E h \in Generation : <<p, h>> \in r.flight
  BY <1>2, <1>8, UnrefreshedAre, ZenonT(30) DEF Unrefreshed
<1>10. KnownIsCovered'
  <2> SUFFICES ASSUME NEW p \in Partition
               PROVE  /\ known'[p] <= version[p]
                      /\ known'[p] # 0 => floor[p] \in 1 .. Len(snaps[p]) /\ known'[p] <= snaps[p][floor[p]]
    BY <1>1, <1>2, Dropped, Zenon DEF KnownIsCovered, Covered, Shows
  <2>1. CASE known'[p] = known[p]
    BY <1>1, <2>1, Zenon DEF KnownIsCovered, Covered, Shows
  <2>2. CASE known'[p] = r.made[p]
    BY <1>1, <1>9, <2>2, Zenon DEF MadeOf, Covered, Shows
  <2> QED  BY <1>3, <2>1, <2>2, Zenon
<1>11. \A p \in Partition : \A v \in 1 .. version[p] : ~Pending(c, p, v)
  BY <1>8, Zenon DEF Pending
<1>12. \A q \in Partition : version[q] + 1 .. version'[q] = {}
  BY <1>2
<1> QED  BY <1>4, <1>5, <1>6, <1>7, <1>10, <1>11, <1>12, StepKeepsIInv, Zenon

\* A get begins, for the first time or after a quorum error.
LEMMA Begun ==
    ASSUME TypeOK, NEW c \in Caller, NEW p \in Partition, CacheGet(c, p)
    PROVE  /\ reads' \in [Client -> [pc : {"idle", "run", "done"}, floor : Nat, result : Int]]
           /\ \A d \in Caller \ {c} : reads'[d] = reads[d]
           /\ reads'[c].floor = floor[p]
           /\ floor' = floor /\ offered' = offered
<1>1. floor[p] \in Nat
  BY Zenon DEF TypeOK
<1>2. [pc |-> "run", floor |-> floor[p], result |-> Miss]
        \in [pc : {"idle", "run", "done"}, floor : Nat, result : Int]
  BY <1>1 DEF Miss
<1> QED  BY <1>1, <1>2, Zenon DEF TypeOK, CacheGet

\* A get has an answer.
LEMMA Answered ==
    ASSUME TypeOK, NEW c \in Caller, NEW x \in Int, Respond(c, x)
    PROVE  /\ reads' \in [Client -> [pc : {"idle", "run", "done"}, floor : Nat, result : Int]]
           /\ \A d \in Caller \ {c} : reads'[d] = reads[d]
           /\ reads'[c].pc = "done"
<1>1. reads[c].floor \in Nat
  BY Zenon DEF TypeOK
<1>2. [pc |-> "done", floor |-> reads[c].floor, result |-> x]
        \in [pc : {"idle", "run", "done"}, floor : Nat, result : Int]
  BY <1>1, Zenon
<1> QED  BY <1>1, <1>2, Zenon DEF TypeOK, Respond

\* What a call that reads partition p consists of.
LEMMA ReadingIs ==
    ASSUME NEW c \in Caller, NEW p \in Partition, calls[c] \in Call,
           calls[c].pc \in {"read", "backoff"}, Reading(c, p)
    PROVE  /\ calls[c].op = "get" /\ calls[c].todo = {p} /\ calls[c].flight = {}
           /\ calls[c].made = None
           /\ calls[c].need = [None EXCEPT ![p] = calls[c].need[p]]
           /\ \A q \in Partition \ {p} : calls[c].need[q] = 0
<1> DEFINE n == [None EXCEPT ![p] = calls[c].need[p]]
           r == With("get", calls[c].pc, {p}, {}, None, n)
<1>1. None \in [Partition -> Nat] /\ calls[c].need[p] \in Nat
  BY CallFields, Zenon DEF None
<1>2. n \in [Partition -> Nat] /\ \A q \in Partition \ {p} : n[q] = 0
  BY <1>1, Zenon DEF None
<1> HIDE DEF n
<1>3. r.op = "get" /\ r.todo = {p} /\ r.flight = {} /\ r.made = None /\ r.need = n
  BY <1>1, <1>2, CallType
<1>4. calls[c] = r
  BY Zenon DEF Reading, n
<1> HIDE DEF r
<1>5. /\ calls[c].op = "get" /\ calls[c].todo = {p} /\ calls[c].flight = {}
      /\ calls[c].made = None /\ calls[c].need = n
  BY <1>3, <1>4, Zenon
<1> QED  BY <1>2, <1>5, ZenonT(30) DEF n

\* A step of a read that changes nothing but its own call.
LEMMA ReadStep ==
    ASSUME IInv, NEW c \in Caller, NEW r \in Call, calls' = [calls EXCEPT ![c] = r],
           reads' \in [Client -> [pc : {"idle", "run", "done"}, floor : Nat, result : Int]],
           \A d \in Caller \ {c} : reads'[d] = reads[d],
           UNCHANGED <<floor, offered, version, snaps, known, lost>>,
           calls[c].pc # "refresh", r.made = None, NeedOf(c)'
    PROVE  IInv'
<1>1. TypeOK /\ SnapsAreOrdered /\ KnownIsCovered
  BY Zenon DEF IInv
<1>2. calls' \in [Caller -> Call] /\ calls'[c] = r /\ \A d \in Caller \ {c} : calls'[d] = calls[d]
  BY <1>1, CallsAfter, Zenon DEF TypeOK
<1>3. TypeOK'
  BY <1>1, <1>2, Zenon DEF TypeOK
<1>4. SnapsAreOrdered'
  BY <1>1, Zenon DEF SnapsAreOrdered
<1>5. \A q \in Partition : /\ version[q] \in Nat /\ known[q] \in Nat /\ floor[q] \in Nat
                           /\ Len(snaps[q]) \in Nat
  BY <1>1 DEF TypeOK
<1>6. StepOf(c)
  BY <1>2, <1>5 DEF StepOf, Grows
<1>7. KnownIsCovered'
  BY <1>1, <1>3, <1>4, <1>6, KnownStays, Zenon
<1>8. MadeOf(c)'
  BY <1>2, <1>5 DEF MadeOf, None
<1>9. \A p \in Partition : \A v \in 1 .. version[p] : ~Pending(c, p, v)
  BY Zenon DEF Pending
<1>10. \A q \in Partition : version[q] + 1 .. version'[q] = {}
  BY <1>5
<1> QED  BY <1>3, <1>4, <1>6, <1>7, <1>8, <1>9, <1>10, StepKeepsIInv, Zenon

\* What is known of a partition shows in the generation a get must at least return.
LEMMA KnownShows ==
    ASSUME TypeOK, SnapsAreOrdered, KnownIsCovered, NEW p \in Partition,
           NEW n \in Nat, n # 0, n <= known[p]
    PROVE  floor[p] \in 1 .. Len(snaps[p]) /\ n <= snaps[p][floor[p]]
<1>1. known[p] \in Nat /\ known[p] # 0
  BY DEF TypeOK
<1>2. floor[p] \in 1 .. Len(snaps[p]) /\ known[p] <= snaps[p][floor[p]]
  BY <1>1, Zenon DEF KnownIsCovered, Covered, Shows
<1>3. snaps[p][floor[p]] \in Nat
  BY <1>2, ElementOfSeq, Zenon DEF TypeOK
<1> QED  BY <1>1, <1>2, <1>3

\* A read begins.
LEMMA GetStep ==
    ASSUME IInv, NEW c \in Caller, NEW p \in Partition, GetPartition(c, p)
    PROVE  IInv'
<1> DEFINE n == [None EXCEPT ![p] = known[p]]
           r == With("get", "read", {p}, {}, None, n)
<1>1. TypeOK /\ SnapsAreOrdered /\ KnownIsCovered /\ known \in [Partition -> Nat]
  BY Zenon DEF IInv, TypeOK
<1>2. None \in [Partition -> Nat] /\ n \in [Partition -> Nat]
  BY <1>1, Zenon DEF None
<1>3. n[p] = known[p] /\ \A q \in Partition \ {p} : n[q] = 0
  BY <1>1, Zenon DEF None
<1>4. calls' = [calls EXCEPT ![c] = r]
  BY Zenon DEF GetPartition, With
<1>5. [None EXCEPT ![p] = n[p]] = n
  BY <1>3, ZenonT(30)
<1> HIDE DEF n
<1>6. /\ r \in Call /\ r.op = "get" /\ r.pc = "read" /\ r.todo = {p} /\ r.flight = {}
      /\ r.made = None /\ r.need = n
  BY <1>2, CallType
<1>7. calls'[c] = r
  BY <1>1, <1>4, <1>6, CallsAfter, Zenon DEF TypeOK
<1>8. /\ CacheGet(c, p)
      /\ version' = version /\ snaps' = snaps /\ known' = known /\ lost' = lost
      /\ calls[c].pc = "idle"
  BY Zenon DEF GetPartition, Busy
<1>9. /\ reads' \in [Client -> [pc : {"idle", "run", "done"}, floor : Nat, result : Int]]
      /\ \A d \in Caller \ {c} : reads'[d] = reads[d]
      /\ reads'[c].floor = floor[p] /\ floor' = floor /\ offered' = offered
  BY <1>1, <1>8, Begun, Zenon
<1>10. Reading(c, p)'
  <2>1. calls'[c] = With("get", calls'[c].pc, {p}, {}, None, [None EXCEPT ![p] = calls'[c].need[p]])
    BY <1>5, <1>6, <1>7, ZenonT(30)
  <2>2. calls'[c].need[p] = known[p]
    BY <1>3, <1>6, <1>7, Zenon
  <2>3. known[p] # 0 => floor[p] \in 1 .. Len(snaps[p]) /\ known[p] <= snaps[p][floor[p]]
    BY <1>1, Zenon DEF KnownIsCovered, Covered, Shows
  <2> QED  BY <1>8, <1>9, <2>1, <2>2, <2>3, Zenon DEF Reading, Shows
<1> HIDE DEF r
<1>11. NeedOf(c)'
  <2>1. ASSUME NEW q \in Partition PROVE n[q] <= known[q]
    <3>1. known[q] \in Nat
      BY <1>1, Zenon
    <3> QED  BY <1>3, <3>1
  <2> QED  BY <1>6, <1>7, <1>8, <1>10, <2>1, Zenon DEF NeedOf
<1> QED  BY <1>4, <1>6, <1>8, <1>9, <1>11, ReadStep, ZenonT(30)

\* A read is answered without a value, or asks again.
LEMMA ReadGoesOn ==
    ASSUME IInv, NEW c \in Caller, calls[c].pc \in {"read", "backoff"},
           \/ GetMisses(c)
           \/ QuorumError(c)
           \/ \E p \in Partition : GetAgain(c, p)
    PROVE  IInv'
<1>1. TypeOK /\ SnapsAreOrdered /\ KnownIsCovered /\ NeedOf(c) /\ calls[c] \in Call
  BY Zenon DEF IInv, TypeOK, NeedIsMet
<1>2. PICK p \in Partition : Reading(c, p)
  BY <1>1, Zenon DEF NeedOf
<1> DEFINE n == calls[c].need
<1>3. /\ calls[c].op = "get" /\ calls[c].todo = {p} /\ calls[c].flight = {} /\ calls[c].made = None
      /\ n = [None EXCEPT ![p] = n[p]] /\ \A q \in Partition \ {p} : n[q] = 0
  BY <1>1, <1>2, ReadingIs, Zenon
<1>4. n \in [Partition -> Nat] /\ None \in [Partition -> Nat]
  BY <1>1, CallFields, Zenon DEF None
<1>5. /\ version' = version /\ snaps' = snaps /\ known' = known /\ lost' = lost
  BY Zenon DEF GetMisses, QuorumError, GetAgain
<1>6. \A q \in Partition : n[q] <= known[q]
  BY <1>1, Zenon DEF NeedOf
<1>7. ASSUME NEW x \in {"refresh", "read", "backoff"}, calls' = [calls EXCEPT ![c].pc = x],
             reads' \in [Client -> [pc : {"idle", "run", "done"}, floor : Nat, result : Int]],
             \A d \in Caller \ {c} : reads'[d] = reads[d],
             floor' = floor, offered' = offered,
             x = "backoff" => reads'[c].pc = "done",
             x = "read" => reads'[c].floor = floor[p]
      PROVE  IInv'
  <2> DEFINE r == With("get", x, {p}, {}, None, n)
  <2>1. /\ r \in Call /\ r.op = "get" /\ r.pc = x /\ r.todo = {p} /\ r.flight = {}
        /\ r.made = None /\ r.need = n
    BY <1>4, CallType
  <2>2. [calls[c] EXCEPT !.pc = x] = r
    <3>1. [calls[c] EXCEPT !.pc = x]
            = With(calls[c].op, x, calls[c].todo, calls[c].flight, calls[c].made, n)
      BY <1>1, CallPc, Zenon
    <3> QED  BY <1>3, <3>1, Zenon
  <2>3. calls' = [calls EXCEPT ![c] = r]
    <3>1. calls' = [calls EXCEPT ![c] = [calls[c] EXCEPT !.pc = x]]
      BY <1>7, Zenon
    <3> QED  BY <2>2, <3>1, ZenonT(30)
  <2>4. calls'[c] = r
    BY <1>1, <2>1, <2>3, CallsAfter, Zenon DEF TypeOK
  <2>5. calls'[c] = With("get", calls'[c].pc, {p}, {}, None, [None EXCEPT ![p] = calls'[c].need[p]])
    BY <1>3, <2>1, <2>4, ZenonT(30)
  <2> HIDE DEF r
  <2>6. CASE x = "refresh"
    <3>1. p \in Unrefreshed(c)'
      BY <2>1, <2>4, Zenon DEF Unrefreshed
    <3>2. ASSUME NEW q \in Partition PROVE n[q] <= None[q] \/ q = p
      <4>1. None[q] = 0
        BY Zenon DEF None
      <4> QED  BY <1>3, <4>1
    <3>3. NeedOf(c)'
      BY <1>5, <1>6, <2>1, <2>4, <2>6, <3>1, <3>2, Zenon DEF NeedOf
    <3> QED  BY <1>5, <1>7, <2>1, <2>3, <3>3, ReadStep, ZenonT(30)
  <2>7. CASE x = "backoff"
    <3>1. Reading(c, p)'
      BY <1>7, <2>5, <2>7, Zenon DEF Reading
    <3>2. NeedOf(c)'
      BY <1>5, <1>6, <2>1, <2>4, <2>7, <3>1, Zenon DEF NeedOf
    <3> QED  BY <1>5, <1>7, <2>1, <2>3, <3>2, ReadStep, ZenonT(30)
  <2>8. CASE x = "read"
    <3>1. n[p] # 0 => floor[p] \in 1 .. Len(snaps[p]) /\ n[p] <= snaps[p][floor[p]]
      BY <1>1, <1>4, <1>6, KnownShows, Zenon
    <3>2. Reading(c, p)'
      BY <1>5, <1>7, <2>1, <2>4, <2>5, <2>8, <3>1, Zenon DEF Reading, Shows
    <3>3. NeedOf(c)'
      BY <1>5, <1>6, <2>1, <2>4, <2>8, <3>2, Zenon DEF NeedOf
    <3> QED  BY <1>5, <1>7, <2>1, <2>3, <3>3, ReadStep, ZenonT(30)
  <2> QED  BY <2>6, <2>7, <2>8, Zenon
<1>8. CASE GetMisses(c)
  BY <1>1, <1>7, <1>8, Answered DEF GetMisses, CacheMiss, Miss
<1>9. CASE QuorumError(c)
  BY <1>1, <1>7, <1>9, Answered DEF QuorumError, CacheError, Error
<1>10. ASSUME NEW q \in Partition, GetAgain(c, q)
       PROVE  IInv'
  BY <1>1, <1>3, <1>7, <1>10, Begun DEF GetAgain
<1> QED  BY <1>8, <1>9, <1>10, Zenon

\* A read finds generation g in the cache.
LEMMA HitStep ==
    ASSUME IInv, NEW c \in Caller, NEW p \in Partition, NEW g \in Generation, Hit(c, p, g)
    PROVE  IInv'
<1> DEFINE n == calls[c].need
           m == [None EXCEPT ![p] = snaps[p][g]]
           r == With("get", "refresh", {}, {}, m, n)
<1>1. /\ TypeOK /\ SnapsAreOrdered /\ KnownIsCovered /\ NeedOf(c) /\ calls[c] \in Call
      /\ reads[c].floor \in Nat
  BY Zenon DEF IInv, TypeOK, NeedIsMet
<1>2. /\ calls[c].pc = "read" /\ p \in calls[c].todo /\ reads[c].pc = "run"
      /\ g \in offered[p] /\ reads[c].floor <= g /\ Respond(c, g) /\ RaiseFloor(p, g)
      /\ offered' = offered /\ version' = version /\ snaps' = snaps
      /\ known' = known /\ lost' = lost
      /\ calls' = [calls EXCEPT ![c] = [calls[c] EXCEPT !.pc = "refresh", !.todo = {}, !.made = m]]
  BY <1>1, CatalogAssumption, Zenon DEF Hit, CacheHit
<1>3. PICK o \in Partition : Reading(c, o)
  BY <1>1, <1>2, Zenon DEF NeedOf
<1>4. /\ calls[c].op = "get" /\ calls[c].todo = {o} /\ calls[c].flight = {}
      /\ \A q \in Partition \ {o} : n[q] = 0
  BY <1>1, <1>2, <1>3, ReadingIs, ZenonT(30)
<1>5. o = p
  BY <1>2, <1>4, Zenon
<1>6. /\ snaps[p][g] \in Nat /\ snaps[p][g] <= version[p] /\ g \in 1 .. Len(snaps[p])
      /\ floor' \in [Key -> Nat] /\ Grows /\ SnapsAreOrdered'
      /\ \A v \in Nat : v <= snaps[p][g] => Covered(p, v)'
  BY <1>1, <1>2, RaisedFloor, Zenon
<1>7. None \in [Partition -> Nat] /\ n \in [Partition -> Nat]
  BY <1>1, CallFields, Zenon DEF None
<1>8. m \in [Partition -> Nat] /\ m[p] = snaps[p][g] /\ \A q \in Partition \ {p} : m[q] = 0
  BY <1>6, <1>7, Zenon DEF None
<1> HIDE DEF m
<1>9. /\ r \in Call /\ r.op = "get" /\ r.pc = "refresh" /\ r.todo = {} /\ r.flight = {}
      /\ r.made = m /\ r.need = n
  BY <1>7, <1>8, CallType
<1>10. calls' = [calls EXCEPT ![c] = r]
  <2>1. [calls[c] EXCEPT !.pc = "refresh", !.todo = {}, !.made = m]
          = With(calls[c].op, "refresh", {}, calls[c].flight, m, n)
    BY <1>1, CallHit, ZenonT(30)
  <2> QED  BY <1>2, <1>4, <2>1, ZenonT(30)
<1> HIDE DEF r
<1>11. calls' \in [Caller -> Call] /\ calls'[c] = r /\ \A d \in Caller \ {c} : calls'[d] = calls[d]
  BY <1>1, <1>9, <1>10, CallsAfter, ZenonT(30) DEF TypeOK
<1>12. g \in Int
  BY CatalogAssumption
<1>13. TypeOK'
  BY <1>1, <1>2, <1>6, <1>11, <1>12, Answered, ZenonT(30) DEF TypeOK
<1>14. StepOf(c)
  <2>1. \A q \in Partition : version[q] \in Nat /\ known[q] \in Nat
    BY <1>1, Zenon DEF TypeOK
  <2> QED  BY <1>1, <1>2, <1>6, <1>11, <1>12, <2>1, Answered DEF StepOf
<1>15. KnownIsCovered'
  BY <1>1, <1>2, <1>6, <1>13, <1>14, KnownStays, Zenon
<1>16. MadeOf(c)'
  <2> SUFFICES ASSUME NEW q \in Partition
               PROVE  m[q] <= version[q] /\ (m[q] # 0 => Covered(q, calls[c].made[q])')
    BY <1>2, <1>9, <1>11, Zenon DEF MadeOf
  <2>1. version[q] \in Nat /\ calls'[c].made[q] = m[q]
    BY <1>1, <1>9, <1>11, Zenon DEF TypeOK
  <2>2. CASE q # p
    BY <1>8, <2>1, <2>2
  <2>3. CASE q = p
    <3>1. ASSUME NEW v \in Nat, v = m[q] PROVE Covered(q, v)'
      BY <1>6, <1>8, <2>3, <3>1
    <3> QED  BY <1>6, <1>8, <2>1, <2>3, <3>1, Zenon DEF Covered, Shows
  <2> QED  BY <2>2, <2>3, Zenon
<1>17. n[p] <= snaps[p][g]
  <2>1. CASE n[p] # 0
    <3>1. reads[c].floor \in 1 .. Len(snaps[p]) /\ n[p] <= snaps[p][reads[c].floor]
      BY <1>2, <1>3, <1>5, <2>1, Zenon DEF Reading, Shows
    <3>2. snaps[p][reads[c].floor] <= snaps[p][g]
      BY <1>1, <1>2, <1>6, <3>1, Zenon DEF SnapsAreOrdered
    <3>3. snaps[p][reads[c].floor] \in Nat /\ n[p] \in Nat
      BY <1>1, <1>7, <3>1, ElementOfSeq, ZenonT(30) DEF TypeOK
    <3> QED  BY <1>6, <3>1, <3>2, <3>3
  <2>2. CASE n[p] = 0
    BY <1>6, <2>2
  <2> QED  BY <2>1, <2>2, Zenon
<1>18. NeedOf(c)'
  <2>1. ASSUME NEW q \in Partition PROVE n[q] <= m[q] /\ n[q] <= known[q]
    <3>1. n[q] <= known[q]
      BY <1>1, Zenon DEF NeedOf
    <3> QED  BY <1>4, <1>5, <1>8, <1>17, <3>1
  <2> QED  BY <1>2, <1>9, <1>11, <2>1, ZenonT(30) DEF NeedOf
<1>19. \A q \in Partition : \A v \in 1 .. version[q] : ~Pending(c, q, v)
  BY <1>2, Zenon DEF Pending
<1>20. \A q \in Partition : version[q] + 1 .. version'[q] = {}
  BY <1>1, <1>2 DEF TypeOK
<1> QED  BY <1>6, <1>13, <1>14, <1>15, <1>16, <1>18, <1>19, <1>20, StepKeepsIInv, Zenon

-----------------------------------------------------------------------------
(* The theorems.                                                           *)

LEMMA InitIInv == Init => IInv
<1> SUFFICES ASSUME Init PROVE IInv
  BY Zenon
<1> USE DEF Init, CacheInit
<1>1. None \in [Partition -> Nat] /\ \A p \in Partition : None[p] = 0
  BY Zenon DEF None
<1>2. /\ NoCall \in Call /\ NoCall.op = "none" /\ NoCall.pc = "idle" /\ NoCall.flight = {}
      /\ NoCall.made = None /\ NoCall.need = None
  BY <1>1, ZenonT(30) DEF NoCall, Call
<1>3. NoRead \in [pc : {"idle", "run", "done"}, floor : Nat, result : Int]
  BY DEF NoRead, Miss
<1>4. TypeOK
  BY <1>1, <1>2, <1>3 DEF TypeOK
<1>5. SnapsAreOrdered
  <2>1. \A p \in Partition : snaps[p] = << >> /\ floor[p] = 0 /\ offered[p] = {}
    BY Zenon
  <2>2. ASSUME NEW p \in Partition
        PROVE  1 .. Len(snaps[p]) = {} /\ floor[p] <= Len(snaps[p]) /\ offered[p] = {}
    <3>1. snaps[p] = << >> /\ floor[p] = 0 /\ offered[p] = {}
      BY <2>1, Zenon
    <3> QED  BY ONLY <3>1
  <2> HIDE DEF Init, CacheInit
  <2> QED  BY <2>2, ZenonT(30) DEF SnapsAreOrdered
<1>6. \A p \in Partition : known[p] = 0 /\ version[p] = 0
  BY <1>1, ZenonT(30)
<1>7. KnownIsCovered /\ MadeIsCovered
  <2>1. KnownIsCovered
    <3> SUFFICES ASSUME NEW p \in Partition
                 PROVE  known[p] <= version[p] /\ known[p] = 0
      BY ZenonT(30) DEF KnownIsCovered
    <3>1. known[p] = 0 /\ version[p] = 0
      BY <1>6, Zenon
    <3> QED  BY ONLY <3>1
  <2>2. ASSUME NEW c \in Caller, NEW p \in Partition
        PROVE  calls[c].made[p] = 0
    BY <1>1, <1>2, Zenon
  <2> QED  BY <1>6, <2>1, <2>2 DEF MadeIsCovered, MadeOf
<1>8. NeedIsMet
  BY <1>1, <1>2 DEF NeedIsMet, NeedOf
<1>9. ChangesAreTracked
  BY <1>1 DEF ChangesAreTracked
<1> QED  BY <1>4, <1>5, <1>6, <1>7, <1>8, <1>9, Zenon DEF IInv

LEMMA NextIInv == IInv /\ [Next]_vars => IInv'
<1> SUFFICES ASSUME IInv, [Next]_vars PROVE IInv'
  BY Zenon
<1>1. ASSUME NEW c \in Caller, NEW p \in Partition, ChangePartition(c, p)
      PROVE  IInv'
  BY <1>1, ChangeStep, ZenonT(30) DEF ChangePartition
<1>2. ASSUME NEW c \in Caller, NEW S \in SUBSET Partition, FlagForDeleteByRetention(c, S)
      PROVE  IInv'
  BY <1>2, ChangeStep, ZenonT(30) DEF FlagForDeleteByRetention
<1>3. ASSUME NEW c \in Caller, NEW p \in Partition, RefreshFails(c, p)
      PROVE  IInv'
  BY <1>3, GiveUpStep, Zenon DEF RefreshFails
<1>4. ASSUME NEW c \in Caller, GetFails(c)
      PROVE  IInv'
  BY <1>4, GiveUpStep, Zenon DEF GetFails
<1>5. ASSUME NEW c \in Caller, Drop(c)
      PROVE  IInv'
  BY <1>5, GiveUpStep, Zenon DEF Drop
<1>6. ASSUME NEW c \in Caller, GetMisses(c) \/ QuorumError(c) \/ \E p \in Partition : GetAgain(c, p)
      PROVE  IInv'
  BY <1>6, ReadGoesOn, Zenon DEF GetMisses, QuorumError, GetAgain
<1>7. CASE UNCHANGED vars
  <2> USE <1>7 DEF vars
  <2>1. TypeOK' /\ SnapsAreOrdered'
    BY Zenon DEF IInv, TypeOK, SnapsAreOrdered
  <2>2. KnownIsCovered' /\ MadeIsCovered'
    BY ZenonT(30) DEF IInv, KnownIsCovered, MadeIsCovered, MadeOf, Covered, Shows
  <2>3. NeedIsMet'
    BY ZenonT(30) DEF IInv, NeedIsMet, NeedOf, Reading, Shows, Unrefreshed
  <2>4. ChangesAreTracked'
    BY DEF IInv, ChangesAreTracked, Tracked, Pending, Covered, Shows, Unrefreshed
  <2> QED  BY <2>1, <2>2, <2>3, <2>4, Zenon DEF IInv
<1>8. ASSUME NEW c \in Caller, Step(c)
      PROVE  IInv'
  BY <1>3, <1>4, <1>6, <1>8, SnapshotStep, DoneStep, ReturnStep, HitStep, Zenon DEF Step
<1> QED
  BY <1>1, <1>2, <1>5, <1>7, <1>8, GetStep, Zenon
  DEF Next, CasSortKey, RecordSkippedCompaction, DeleteSkippedCompactions, CreateUpgradeDelete

\* The invariant holds in every reachable state.
THEOREM InvariantHolds == Spec => []IInv
BY InitIInv, NextIInv, PTL DEF Spec

\* What the invariant says of a read that is about to return.
LEMMA IInvReads == IInv => ReadsAreCurrent
<1> SUFFICES ASSUME IInv, NEW c \in Caller, NEW p \in Partition, Complete(c)
             PROVE  calls[c].need[p] <= calls[c].made[p]
  BY Zenon DEF ReadsAreCurrent
<1> QED  BY Zenon DEF IInv, NeedIsMet, NeedOf, Complete

\* What it says of the cache when no call is running.
LEMMA IInvUpdates == IInv => NoLostUpdate
<1> SUFFICES ASSUME IInv, \A c \in Caller : ~Busy(c), NEW p \in Partition, floor[p] # 0,
                    NEW v \in CachedVersion(p) + 1 .. version[p]
             PROVE  v \in lost[p]
  BY Zenon DEF NoLostUpdate
<1>1. TypeOK /\ SnapsAreOrdered
  BY Zenon DEF IInv
<1>2. floor[p] \in 1 .. Len(snaps[p])
  BY <1>1 DEF TypeOK, SnapsAreOrdered
<1>3. CachedVersion(p) \in Nat /\ CachedVersion(p) = snaps[p][floor[p]] /\ version[p] \in Nat
  BY <1>1, <1>2, ElementOfSeq, Zenon DEF TypeOK, CachedVersion
<1>4. v \in 1 .. version[p] /\ ~(v <= snaps[p][floor[p]])
  BY <1>3
<1>5. Tracked(p, v) /\ ~Covered(p, v)
  BY <1>4, Zenon DEF IInv, ChangesAreTracked, Covered, Shows
<1>6. \A c \in Caller : ~Pending(c, p, v)
  BY Zenon DEF Pending, Busy
<1> QED  BY <1>5, <1>6, Zenon DEF Tracked

\* get_partition returns, from the cache or after a miss, every change whose
\* call had returned Ok and all that a read had returned when it began.
THEOREM ReadsShowWhatIsKnown == Spec => []ReadsAreCurrent
BY InvariantHolds, IInvReads, PTL

\* No update is lost: when no call is running, the cache lacks a change only if
\* the call that made it ended without refreshing the partition.
THEOREM NoUpdateIsLost == Spec => []NoLostUpdate
BY InvariantHolds, IInvUpdates, PTL
=============================================================================
