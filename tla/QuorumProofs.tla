---------------------------- MODULE QuorumProofs ----------------------------
(***************************************************************************)
(* Proofs about module QuorumCatalogCache, for any number of generations   *)
(* and readers.  Last, that it implements StrongCache, the promise module  *)
(* CachingCatalog relies on, for one key.                                  *)
(***************************************************************************)
EXTENDS QuorumCatalogCache, TLAPS

USE MaxGenAssumption DEF None, Waiting, Failed

\* The step of Next, one case per action.
LEMMA NextCases ==
    ASSUME Next,
           NEW G,
           \A n \in Node : PutBegin(n) => G,
           \A g \in Gen : PutLocal(g) => G,
           \A g \in Gen : PutLocalFails(g) => G,
           \A g \in Gen, n \in Node : ServePut(g, n) => G,
           \A g \in Gen, n \in Node : ServePutFails(g, n) => G,
           \A g \in Gen, n \in Node : LosePut(g, n) => G,
           \A g \in Gen, n \in Node : TimeoutPut(g, n) => G,
           \A c \in Reader, n \in Node : GetStart(c, n) => G,
           \A c \in Reader, n \in Node : ServeGet(c, n) => G,
           \A c \in Reader, n \in Node : FailGet(c, n) => G,
           \A c \in Reader, n \in Node : GetByOne(c, n) => G,
           \A c \in Reader : GetByBoth(c) => G,
           \A n, m \in Node : WarmList(n, m) => G,
           \A n, m \in Node : WarmFetch(n, m) => G,
           \A n \in Node : WarmInsert(n) => G,
           \A n \in Node : WarmSkip(n) => G,
           \A n \in Node : EvictUnused(n) => G,
           \A n \in Node : Crash(n) => G,
           \A n \in Node : Recover(n) => G
    PROVE  G
<1>1. CASE \E n \in Node : PutBegin(n)
  BY <1>1, Zenon
<1>2. CASE \E g \in Gen : PutStep(g)
  BY <1>2, Zenon DEF PutStep
<1>3. CASE \E c \in Reader : GetStep(c)
  BY <1>3, Zenon DEF GetStep
<1>4. CASE \E n \in Node : WarmStep(n)
  BY <1>4, Zenon DEF WarmStep
<1>5. CASE \E n \in Node : EvictUnused(n) \/ Crash(n) \/ Recover(n)
  BY <1>5, Zenon
<1>6. QED
  BY <1>1, <1>2, <1>3, <1>4, <1>5, Zenon DEF Next

-----------------------------------------------------------------------------
(* Type correctness *)

\* The empty records are well typed.
LEMMA EmptyRecords ==
    /\ NoPut \in PutState /\ PutDone \in PutState
    /\ NoPut.node = Nobody /\ NoPut.pc = "none"
    /\ PutDone.node = Nobody /\ PutDone.pc = "done"
    /\ NoGet \in GetState /\ NoGet.node = Nobody /\ NoGet.pc = "idle"
    /\ NoWarm \in WarmState
BY Zenon DEF NoPut, PutDone, NoGet, NoWarm, PutState, GetState, WarmState, Answer

LEMMA InitType == Init => TypeOK
BY EmptyRecords DEF Init, TypeOK

\* The two ways in which the local caches change are well typed.
LEMMA InsertType ==
    ASSUME TypeOK, NEW n \in Node, NEW g \in Gen, Insert(n, g)
    PROVE  store' \in [Node -> {None} \cup Gen] /\ used' \in [Node -> BOOLEAN]
BY Zenon DEF TypeOK, Insert

LEMMA TouchType ==
    ASSUME TypeOK, NEW n \in Node, Touch(n)
    PROVE  used' \in [Node -> BOOLEAN]
BY Zenon DEF TypeOK, Touch

\* The history of crossed operations is well typed.
LEMMA ForgetType == TypeOK /\ Forget => crossed' \subseteq Ops \X Node
BY Zenon DEF TypeOK, Forget

LEMMA CrossType ==
    ASSUME TypeOK, NEW n \in Node, Cross(n)
    PROVE  crossed' \subseteq Ops \X Node
<1>1. Live \subseteq Ops
  BY Zenon DEF Live, Ops
<1>2. QED
  BY <1>1, Zenon DEF TypeOK, Cross

\* The conjuncts of TypeOK about the calls.
PutsOK == /\ puts \in [Gen -> PutState]
          /\ \A g \in Gen : puts[g].node # Nobody <=> puts[g].pc \in {"begun", "run"}
GetsOK == /\ gets \in [Reader -> GetState]
          /\ \A c \in Reader : gets[c].node # Nobody <=> gets[c].pc = "run"

\* Replacing the record of a call by a well-typed one.
LEMMA PutReplaced ==
    ASSUME TypeOK, NEW g \in Gen, NEW p \in PutState,
           p.node # Nobody <=> p.pc \in {"begun", "run"},
           puts' = [puts EXCEPT ![g] = p]
    PROVE  PutsOK'
BY Zenon DEF TypeOK, PutsOK

LEMMA GetReplaced ==
    ASSUME TypeOK, NEW c \in Reader, NEW q \in GetState,
           q.node # Nobody <=> q.pc = "run",
           gets' = [gets EXCEPT ![c] = q]
    PROVE  GetsOK'
BY Zenon DEF TypeOK, GetsOK

LEMMA AnswerType ==
    ASSUME TypeOK, NEW c \in Reader, NEW n \in Node, NEW a \in Answer,
           gets' = [gets EXCEPT ![c].resp[n] = a]
    PROVE  GetsOK'
<1> DEFINE q == [gets[c] EXCEPT !.resp[n] = a]
<1>1. q \in GetState /\ q.node = gets[c].node /\ q.pc = gets[c].pc
  BY ZenonT(30) DEF TypeOK, GetState
<1>2. gets' = [gets EXCEPT ![c] = q]
  BY Zenon
<1>3. q.node # Nobody <=> q.pc = "run"
  BY <1>1, Zenon DEF TypeOK
<1> HIDE DEF q
<1>4. QED
  BY <1>1, <1>2, <1>3, GetReplaced, Zenon

LEMMA ReturnType ==
    ASSUME TypeOK, NEW c \in Reader, NEW r \in {Failed, None} \cup Gen, Return(c, r)
    PROVE  GetsOK'
<1> DEFINE q == [NoGet EXCEPT !.pc = "done", !.floor = gets[c].floor, !.result = r]
<1>1. q \in GetState /\ q.node = Nobody /\ q.pc = "done"
  BY Zenon DEF NoGet, GetState, TypeOK, Answer
<1>2. gets' = [gets EXCEPT ![c] = q]
  BY Zenon DEF Return
<1>3. Nobody \notin Node
  BY NodeAssumption, Zenon
<1> HIDE DEF q
<1>4. QED
  BY <1>1, <1>2, GetReplaced, Zenon

LEMMA ReturnValueType ==
    ASSUME TypeOK, NEW c \in Reader, gets[c].pc = "run", NEW r \in Gen, ReturnValue(c, r)
    PROVE  /\ GetsOK'
           /\ store' \in [Node -> {None} \cup Gen] /\ used' \in [Node -> BOOLEAN]
           /\ acked' \in {None} \cup Gen
<1>1. gets[c].node \in Node
  BY Zenon DEF TypeOK, GetState
<1>2. GetsOK'
  BY ReturnType, Zenon DEF ReturnValue
<1>3. store' \in [Node -> {None} \cup Gen] /\ used' \in [Node -> BOOLEAN]
  <2>1. CASE Insert(gets[c].node, r)
    BY <1>1, <2>1, InsertType, Zenon
  <2>2. CASE UNCHANGED <<store, used>>
    BY <2>2, Zenon DEF TypeOK
  <2>3. QED
    BY <2>1, <2>2, Zenon DEF ReturnValue, InsertFails
<1>4. acked' \in {None} \cup Gen
  BY Zenon DEF ReturnValue, TypeOK
<1>5. QED
  BY <1>2, <1>3, <1>4, Zenon

LEMMA LearnType ==
    ASSUME TypeOK, NEW g \in Gen, NEW n \in Node, NEW o \in {"ok", "err"}, Learn(g, n, o)
    PROVE  PutsOK' /\ acked' \in {None} \cup Gen
<1>1. CASE puts[g].pc = "run" /\ puts[g].reply[n] = "wait"
  <2> DEFINE reply == [puts[g].reply EXCEPT ![n] = o]
             p == [puts[g] EXCEPT !.reply = reply]
  <2>1. acked' \in {None} \cup Gen
    BY <1>1, Zenon DEF Learn, TypeOK
  <2>2. CASE puts' = [puts EXCEPT ![g] = PutDone]
    BY <2>1, <2>2, EmptyRecords, PutReplaced, Zenon
  <2>3. CASE o = "err" /\ puts' = [puts EXCEPT ![g] = p]
    <3>1. p \in PutState /\ p.node = puts[g].node /\ p.pc = puts[g].pc
      BY <2>3, ZenonT(30) DEF TypeOK, PutState
    <3>2. p.node # Nobody <=> p.pc \in {"begun", "run"}
      BY <3>1, Zenon DEF TypeOK
    <3> HIDE DEF p
    <3>3. QED
      BY <2>1, <2>3, <3>1, <3>2, PutReplaced, Zenon
  <2>4. QED
    BY <1>1, <2>2, <2>3, Zenon DEF Learn
<1>2. CASE ~(puts[g].pc = "run" /\ puts[g].reply[n] = "wait")
  BY <1>2, Zenon DEF Learn, TypeOK, PutsOK
<1>3. QED
  BY <1>1, <1>2, Zenon

\* Every step preserves the type invariant.
LEMMA TypeStep == TypeOK /\ [Next]_vars => TypeOK'
<1> SUFFICES ASSUME TypeOK, [Next]_vars PROVE TypeOK'
  BY Zenon
<1> USE DEF TypeOK, PutsOK, GetsOK
<1> DEFINE G == TypeOK'
<1>1. ASSUME NEW n \in Node, PutBegin(n) PROVE G
  <2> DEFINE p == [NoPut EXCEPT !.pc = "begun", !.node = n]
  <2>1. p \in PutState /\ p.node = n /\ p.pc = "begun"
    BY Zenon DEF NoPut, PutState
  <2>2. gen + 1 \in Gen
    BY <1>1 DEF PutBegin, Gen
  <2>3. n # Nobody
    BY NodeAssumption, Zenon
  <2>4. puts' = [puts EXCEPT ![gen + 1] = p]
    BY <1>1, Zenon DEF PutBegin
  <2> HIDE DEF p
  <2>5. PutsOK'
    BY <2>1, <2>2, <2>3, <2>4, PutReplaced, Zenon
  <2>6. QED
    BY <1>1, <2>2, <2>5 DEF PutBegin, Gen
<1>2. ASSUME NEW g \in Gen, PutLocal(g) PROVE G
  <2> DEFINE p == [puts[g] EXCEPT !.pc = "run"]
  <2>1. puts[g].node \in Node
    BY <1>2, Zenon DEF PutLocal, PutState
  <2>2. p \in PutState /\ p.node = puts[g].node /\ p.pc = "run"
    BY Zenon DEF PutState
  <2>3. puts' = [puts EXCEPT ![g] = p]
    BY <1>2, Zenon DEF PutLocal
  <2>4. puts[g].node # Nobody
    BY <2>1, NodeAssumption, Zenon
  <2> HIDE DEF p
  <2>5. PutsOK'
    BY <2>2, <2>3, <2>4, PutReplaced, Zenon
  <2>6. store' \in [Node -> {None} \cup Gen] /\ used' \in [Node -> BOOLEAN]
    BY <1>2, <2>1, InsertType, Zenon DEF PutLocal
  <2>7. wire' \subseteq Gen \X Node
    BY <1>2, Zenon DEF PutLocal, Replicas
  <2>8. QED
    BY <1>2, <2>5, <2>6, <2>7, Zenon DEF PutLocal
<1>3. ASSUME NEW g \in Gen, PutLocalFails(g) PROVE G
  <2>1. PutsOK'
    BY <1>3, EmptyRecords, PutReplaced, Zenon DEF PutLocalFails
  <2>2. QED
    BY <1>3, <2>1, ForgetType, Zenon DEF PutLocalFails, InsertFails
<1>4. ASSUME NEW g \in Gen, NEW n \in Node, ServePut(g, n) PROVE G
  <2>1. PutsOK' /\ acked' \in {None} \cup Gen
    BY <1>4, LearnType DEF ServePut
  <2>2. store' \in [Node -> {None} \cup Gen] /\ used' \in [Node -> BOOLEAN]
    BY <1>4, InsertType, Zenon DEF ServePut
  <2>3. QED
    BY <1>4, <2>1, <2>2, ForgetType, Zenon DEF ServePut
<1>5. ASSUME NEW g \in Gen, NEW n \in Node, ServePutFails(g, n) PROVE G
  <2>1. PutsOK' /\ acked' \in {None} \cup Gen
    BY <1>5, LearnType, Zenon DEF ServePutFails
  <2>2. QED
    BY <1>5, <2>1, ForgetType, Zenon DEF ServePutFails, InsertFails
<1>6. ASSUME NEW g \in Gen, NEW n \in Node, LosePut(g, n) PROVE G
  <2>1. PutsOK' /\ acked' \in {None} \cup Gen
    BY <1>6, LearnType, Zenon DEF LosePut
  <2>2. QED
    BY <1>6, <2>1, ForgetType, Zenon DEF LosePut
<1>7. ASSUME NEW g \in Gen, NEW n \in Node, TimeoutPut(g, n) PROVE G
  <2>1. PutsOK' /\ acked' \in {None} \cup Gen
    BY <1>7, LearnType, Zenon DEF TimeoutPut
  <2>2. QED
    BY <1>7, <2>1, ForgetType, Zenon DEF TimeoutPut
<1>8. ASSUME NEW c \in Reader, NEW n \in Node, GetStart(c, n) PROVE G
  <2> DEFINE q == [NoGet EXCEPT !.pc = "run", !.node = n, !.local = store[n], !.floor = acked]
  <2>1. q \in GetState /\ q.node = n /\ q.pc = "run"
    BY Zenon DEF NoGet, GetState, Answer
  <2>2. n # Nobody
    BY NodeAssumption, Zenon
  <2>3. gets' = [gets EXCEPT ![c] = q]
    BY <1>8, Zenon DEF GetStart
  <2> HIDE DEF q
  <2>4. GetsOK'
    BY <2>1, <2>2, <2>3, GetReplaced, Zenon
  <2>5. QED
    BY <1>8, <2>4, TouchType, Zenon DEF GetStart
<1>9. ASSUME NEW c \in Reader, NEW n \in Node, ServeGet(c, n) PROVE G
  <2>1. PICK a \in {store[n], Failed} : gets' = [gets EXCEPT ![c].resp[n] = a]
    BY <1>9, Zenon DEF ServeGet
  <2>2. a \in Answer
    BY <2>1 DEF Answer
  <2>3. GetsOK'
    BY <2>1, <2>2, AnswerType, Zenon
  <2>4. QED
    BY <1>9, <2>3, TouchType, Zenon DEF ServeGet
<1>10. ASSUME NEW c \in Reader, NEW n \in Node, FailGet(c, n) PROVE G
  <2>1. Failed \in Answer
    BY Zenon DEF Answer
  <2>2. GetsOK'
    BY <1>10, <2>1, AnswerType, Zenon DEF FailGet
  <2>3. QED
    BY <1>10, <2>2, Zenon DEF FailGet
<1>11. ASSUME NEW c \in Reader, NEW n \in Node, GetByOne(c, n) PROVE G
  <2>1. gets[c].pc = "run" /\ Decisive(gets[c].local, gets[c].resp[n])
    BY <1>11, Zenon DEF GetByOne
  <2>2. /\ GetsOK' /\ acked' \in {None} \cup Gen
        /\ store' \in [Node -> {None} \cup Gen] /\ used' \in [Node -> BOOLEAN]
    <3>1. CASE gets[c].resp[n] = None
      BY <1>11, <3>1, ReturnType, Zenon DEF GetByOne
    <3>2. CASE gets[c].resp[n] # None
      <4>1. gets[c].resp[n] \in Gen
        BY <2>1, <3>2, Zenon DEF Decisive
      <4>2. ReturnValue(c, gets[c].resp[n])
        BY <1>11, <3>2, Zenon DEF GetByOne
      <4>3. QED
        BY <2>1, <4>1, <4>2, ReturnValueType, Zenon
    <3>3. QED
      BY <3>1, <3>2, Zenon
  <2>3. QED
    BY <1>11, <2>2, ForgetType, Zenon DEF GetByOne
<1>12. ASSUME NEW c \in Reader, GetByBoth(c) PROVE G
  <2>1. gets[c].pc = "run"
    BY <1>12, Zenon DEF GetByBoth
  <2>2. /\ GetsOK' /\ acked' \in {None} \cup Gen
        /\ store' \in [Node -> {None} \cup Gen] /\ used' \in [Node -> BOOLEAN]
    <3>1. CASE (Return(c, None) \/ Return(c, Failed)) /\ UNCHANGED <<store, used, acked>>
      BY <3>1, ReturnType, Zenon
    <3>2. CASE \E r \in Gen : ReturnValue(c, r)
      BY <2>1, <3>2, ReturnValueType, Zenon
    <3>3. QED
      BY <1>12, <3>1, <3>2, Zenon DEF GetByBoth
  <2>3. QED
    BY <1>12, <2>2, ForgetType, Zenon DEF GetByBoth
<1>13. ASSUME NEW n \in Node, NEW m \in Node, WarmList(n, m) PROVE G
  BY <1>13, Zenon DEF WarmList, WarmState
<1>14. ASSUME NEW n \in Node, NEW m \in Node, WarmFetch(n, m) PROVE G
  BY <1>14 DEF WarmFetch, WarmState
<1>15. ASSUME NEW n \in Node, WarmInsert(n) PROVE G
  <2>1. CASE warms[n].gen \in Gen
    BY <1>15, <2>1, InsertType, ForgetType, EmptyRecords, Zenon DEF WarmInsert
  <2>2. CASE warms[n].gen = None
    <3>1. store[n] \in Int /\ ~(0 > store[n])
      BY DEF Gen
    <3>2. Insert(n, 0)
      BY <1>15, <2>2, Zenon DEF WarmInsert
    <3>3. store' = [store EXCEPT ![n] = store[n]] /\ used' = [used EXCEPT ![n] = used[n]]
      BY <3>1, <3>2, Zenon DEF Insert
    <3>4. UNCHANGED <<store, used>>
      BY <3>3, Zenon
    <3>5. QED
      BY <1>15, <3>4, ForgetType, EmptyRecords, Zenon DEF WarmInsert
  <2>3. QED
    BY <2>1, <2>2, Zenon DEF WarmState
<1>16. ASSUME NEW n \in Node, WarmSkip(n) PROVE G
  BY <1>16, ForgetType, EmptyRecords, Zenon DEF WarmSkip
<1>17. ASSUME NEW n \in Node, EvictUnused(n) PROVE G
  <2>1. store' \in [Node -> {None} \cup Gen] /\ used' \in [Node -> BOOLEAN]
    BY <1>17, Zenon DEF EvictUnused
  <2>2. QED
    BY <1>17, <2>1, CrossType, Zenon DEF EvictUnused
<1>18. ASSUME NEW n \in Node, Crash(n) PROVE G
  <2>1. store' \in [Node -> {None} \cup Gen] /\ used' \in [Node -> BOOLEAN]
    BY <1>18, Zenon DEF Crash
  <2>2. PutsOK'
    BY <1>18, EmptyRecords, Zenon DEF Crash
  <2>3. GetsOK'
    BY <1>18, EmptyRecords, Zenon DEF Crash
  <2>4. warms' \in [Node -> WarmState]
    BY <1>18, EmptyRecords, Zenon DEF Crash
  <2>5. QED
    BY <1>18, <2>1, <2>2, <2>3, <2>4, CrossType, Zenon DEF Crash
<1>19. ASSUME NEW n \in Node, Recover(n) PROVE G
  BY <1>19, Zenon DEF Recover
<1>20. CASE UNCHANGED vars
  BY <1>20, Zenon DEF vars
<1>21. ASSUME Next PROVE G
  <2> HIDE DEF G
  <2> QED
    BY Zenon, <1>21, <1>1, <1>2, <1>3, <1>4, <1>5, <1>6, <1>7, <1>8, <1>9, <1>10, <1>11, <1>12,
       <1>13, <1>14, <1>15, <1>16, <1>17, <1>18, <1>19, NextCases
<1> QED
  BY <1>20, <1>21, Zenon

\* Type correctness, with evictions, restarts and every timing: a call has a
\* node exactly while it is under way.
THEOREM TypeCorrect == Spec => []TypeOK
BY InitType, TypeStep, PTL DEF Spec

-----------------------------------------------------------------------------
(* Strong consistency while no entry is lost *)

\* Two nodes hold generation v or a newer one.
Covered(v) == \E m, n \in Node : m # n /\ store[m] >= v /\ store[n] >= v

\* What is known of a put: its node has the value before it is sent, and it is
\* sent to the other nodes only; the generations beyond gen are unused.
PutInv ==
    /\ \A g \in Gen : puts[g].pc # "none" => g <= gen
    /\ \A g \in Gen : puts[g].pc = "run" => store[puts[g].node] >= g
    /\ \A g \in Gen, n \in Node : <<g, n>> \in wire =>
          puts[g].pc \in {"run", "done"} /\ n # puts[g].node

\* What get c has seen of node n is not ahead of the node.
Seen(c) ==
    /\ gets[c].local <= store[gets[c].node]
    /\ \A n \in Node : gets[c].resp[n] <= store[n]

\* Nothing get c has seen of node n is older than the call's floor.
NotBehind(c, n) ==
    /\ store[n] >= gets[c].floor
    /\ n = gets[c].node => gets[c].local >= gets[c].floor
    /\ n # gets[c].node /\ gets[c].resp[n] >= None => gets[c].resp[n] >= gets[c].floor

\* A running get has, or will have, at most one answer below its floor.
GetInv ==
    \A c \in Reader : gets[c].pc = "run" =>
        Seen(c) /\ \E m, n \in Node : m # n /\ NotBehind(c, m) /\ NotBehind(c, n)

\* The inductive invariant.
CoreInv == TypeOK /\ down = {} /\ Covered(acked) /\ PutInv /\ GetInv /\ StrongReads

\* Among three nodes, two pairs have a node in common.
LEMMA PairsMeet ==
    ASSUME NEW x \in Node, NEW y \in Node, x # y,
           NEW m \in Node, NEW n \in Node, m # n
    PROVE  m \in {x, y} \/ n \in {x, y}
BY NodeAssumption

\* `CatalogCache::insert` never lowers a generation.
LEMMA InsertGrows ==
    ASSUME TypeOK, NEW n \in Node, NEW g \in {None} \cup Gen, Insert(n, g)
    PROVE  /\ \A m \in Node : store'[m] \in Int /\ store'[m] >= store[m]
           /\ store'[n] >= g
BY DEF TypeOK, Insert, Gen

\* Hence no step does, as long as nothing is evicted and no node restarts.
LEMMA StoreGrows ==
    ASSUME TypeOK, down = {}, [Next]_vars, Evicting = {}, Crashing = {}
    PROVE  /\ \A m \in Node : store'[m] \in Int /\ store[m] \in Int /\ store'[m] >= store[m]
           /\ down' = {}
<1> DEFINE Same == store' = store /\ down' = down
           Ins == down' = down /\ \E n \in Node, g \in {None} \cup Gen : Insert(n, g)
           G == Same \/ Ins
<1>1. ASSUME NEW n \in Node, PutBegin(n) PROVE G
  BY <1>1, Zenon DEF PutBegin
<1>2. ASSUME NEW g \in Gen, PutLocal(g) PROVE G
  <2>1. puts[g].node \in Node
    BY <1>2, Zenon DEF PutLocal, PutState, TypeOK
  <2>2. QED
    BY <1>2, <2>1, Zenon DEF PutLocal
<1>3. ASSUME NEW g \in Gen, PutLocalFails(g) PROVE G
  BY <1>3, Zenon DEF PutLocalFails, InsertFails
<1>4. ASSUME NEW g \in Gen, NEW n \in Node, ServePut(g, n) PROVE G
  BY <1>4, Zenon DEF ServePut
<1>5. ASSUME NEW g \in Gen, NEW n \in Node, ServePutFails(g, n) PROVE G
  BY <1>5, Zenon DEF ServePutFails, InsertFails
<1>6. ASSUME NEW g \in Gen, NEW n \in Node, LosePut(g, n) PROVE G
  BY <1>6, Zenon DEF LosePut
<1>7. ASSUME NEW g \in Gen, NEW n \in Node, TimeoutPut(g, n) PROVE G
  BY <1>7, Zenon DEF TimeoutPut
<1>8. ASSUME NEW c \in Reader, NEW n \in Node, GetStart(c, n) PROVE G
  BY <1>8, Zenon DEF GetStart
<1>9. ASSUME NEW c \in Reader, NEW n \in Node, ServeGet(c, n) PROVE G
  BY <1>9, Zenon DEF ServeGet
<1>10. ASSUME NEW c \in Reader, NEW n \in Node, FailGet(c, n) PROVE G
  BY <1>10, Zenon DEF FailGet
<1>a. ASSUME NEW c \in Reader, gets[c].pc = "run", NEW r \in Gen, ReturnValue(c, r)
      PROVE  store' = store \/ \E n \in Node, g \in {None} \cup Gen : Insert(n, g)
  <2>1. gets[c].node \in Node
    BY <1>a, Zenon DEF TypeOK, GetState
  <2>2. QED
    BY <1>a, <2>1, Zenon DEF ReturnValue, InsertFails
<1>11. ASSUME NEW c \in Reader, NEW n \in Node, GetByOne(c, n) PROVE G
  <2>1. gets[c].resp[n] # None => gets[c].resp[n] \in Gen
    BY <1>11, Zenon DEF GetByOne, Decisive
  <2>2. QED
    BY <1>11, <1>a, <2>1, Zenon DEF GetByOne
<1>12. ASSUME NEW c \in Reader, GetByBoth(c) PROVE G
  BY <1>12, <1>a, Zenon DEF GetByBoth
<1>13. ASSUME NEW n \in Node, NEW m \in Node, WarmList(n, m) PROVE G
  BY <1>13, Zenon DEF WarmList
<1>14. ASSUME NEW n \in Node, NEW m \in Node, WarmFetch(n, m) PROVE G
  BY <1>14, Zenon DEF WarmFetch
<1>15. ASSUME NEW n \in Node, WarmInsert(n) PROVE G
  <2>1. warms[n].gen \in {None} \cup Gen
    BY Zenon DEF WarmState, TypeOK
  <2>2. QED
    BY <1>15, <2>1, Zenon DEF WarmInsert
<1>16. ASSUME NEW n \in Node, WarmSkip(n) PROVE G
  BY <1>16, Zenon DEF WarmSkip
<1>17. ASSUME NEW n \in Node, EvictUnused(n) PROVE G
  BY <1>17, Zenon DEF EvictUnused
<1>18. ASSUME NEW n \in Node, Crash(n) PROVE G
  BY <1>18, Zenon DEF Crash
<1>19. ASSUME NEW n \in Node, Recover(n) PROVE G
  BY <1>19, Zenon DEF Recover
<1>20. ASSUME UNCHANGED vars PROVE G
  BY <1>20, Zenon DEF vars
<1>21. ASSUME Next PROVE G
  <2> HIDE DEF G
  <2> QED
    BY Zenon, <1>21, <1>1, <1>2, <1>3, <1>4, <1>5, <1>6, <1>7, <1>8, <1>9, <1>10, <1>11, <1>12,
       <1>13, <1>14, <1>15, <1>16, <1>17, <1>18, <1>19, NextCases
<1>22. G
  BY <1>20, <1>21, Zenon
<1>23. \A m \in Node : store[m] \in Int
  BY DEF TypeOK, Gen
<1> QED
  BY <1>22, <1>23, InsertGrows

\* What a returning get returns: at least the floor, and held by two nodes.
LEMMA OneAnswer ==
    ASSUME CoreInv, NEW c \in Reader, gets[c].pc = "run", NEW n \in Replicas(gets[c].node),
           gets[c].resp[n] \in Gen, Decisive(gets[c].local, gets[c].resp[n])
    PROVE  /\ gets[c].resp[n] >= gets[c].floor
           /\ store[n] >= gets[c].resp[n]
           /\ gets[c].local >= gets[c].resp[n] => store[gets[c].node] >= gets[c].resp[n]
<1> DEFINE s == gets[c].node
           l == gets[c].local
           r == gets[c].resp[n]
           f == gets[c].floor
<1>1. s \in Node /\ n \in Node /\ n # s /\ l \in Int /\ r \in Int /\ f \in Int /\ r > 0
  BY DEF CoreInv, TypeOK, GetState, Replicas, Gen
<1>2. l <= r
  BY <1>1 DEF Decisive
<1>3. Seen(c)
  BY Zenon DEF CoreInv, GetInv
<1>4. PICK x, y \in Node : x # y /\ NotBehind(c, x) /\ NotBehind(c, y)
  BY Zenon DEF CoreInv, GetInv
<1>5. x \in {s, n} \/ y \in {s, n}
  BY <1>1, <1>4, PairsMeet, Zenon
<1>6. r >= f
  BY <1>1, <1>2, <1>4, <1>5 DEF NotBehind
<1>7. store[n] \in Int /\ store[s] \in Int
  BY <1>1 DEF CoreInv, TypeOK, Gen
<1>8. QED
  BY <1>1, <1>3, <1>6, <1>7 DEF Seen

LEMMA TwoAnswers ==
    ASSUME CoreInv, NEW c \in Reader, gets[c].pc = "run", NEW r \in Gen,
           {gets[c].resp[n] : n \in Replicas(gets[c].node)} = {r}
    PROVE  r >= gets[c].floor /\ Covered(r)
<1> DEFINE s == gets[c].node
           f == gets[c].floor
<1>1. s \in Node /\ f \in Int /\ r \in Int /\ r > 0
  BY DEF CoreInv, TypeOK, GetState, Gen
<1>2. \A n \in Node : n # s => gets[c].resp[n] = r
  BY Zenon DEF Replicas
<1>3. PICK x, y \in Node : x # y /\ NotBehind(c, x) /\ NotBehind(c, y)
  BY Zenon DEF CoreInv, GetInv
<1>4. r >= f
  BY <1>1, <1>2, <1>3 DEF NotBehind
<1>5. PICK m, n \in Node : m # n /\ m # s /\ n # s
  BY <1>1, NodeAssumption, Zenon
<1>6. store[m] >= r /\ store[n] >= r
  BY <1>2, <1>5, Zenon DEF CoreInv, GetInv, Seen
<1>7. QED
  BY <1>4, <1>5, <1>6, Zenon DEF Covered

\* How a step that does not lower any generation carries the parts over.
Grows == \A m \in Node : store'[m] \in Int /\ store[m] \in Int /\ store'[m] >= store[m]

LEMMA CoveredGrows ==
    ASSUME Grows, NEW v \in Int, Covered(v)
    PROVE  \E m, n \in Node : m # n /\ store'[m] >= v /\ store'[n] >= v
<1>1. PICK m, n \in Node : m # n /\ store[m] >= v /\ store[n] >= v
  BY Zenon DEF Covered
<1>2. store'[m] >= v /\ store'[n] >= v
  BY <1>1 DEF Grows
<1>3. QED
  BY <1>1, <1>2, Zenon

LEMMA AckedKept ==
    ASSUME Grows, acked \in Int, Covered(acked), acked' = acked
    PROVE  Covered(acked)'
BY CoveredGrows, Zenon DEF Covered

LEMMA GetKept ==
    ASSUME CoreInv, Grows, NEW c \in Reader, gets[c].pc = "run", gets'[c] = gets[c]
    PROVE  /\ Seen(c)'
           /\ \E m, n \in Node : m # n /\ NotBehind(c, m)' /\ NotBehind(c, n)'
<1>1. Seen(c) /\ \E m, n \in Node : m # n /\ NotBehind(c, m) /\ NotBehind(c, n)
  BY Zenon DEF CoreInv, GetInv
<1>2. /\ gets[c].node \in Node /\ gets[c].floor \in Int /\ gets[c].local \in Int
      /\ \A n \in Node : gets[c].resp[n] \in Int
  <2>1. gets[c] \in GetState /\ gets[c].node # Nobody
    BY Zenon DEF CoreInv, TypeOK
  <2> QED  BY <2>1 DEF GetState, Answer, Gen
<1>3. Seen(c)'
  BY <1>1, <1>2 DEF Seen, Grows
<1>4. \A n \in Node : NotBehind(c, n) => NotBehind(c, n)'
  BY <1>2 DEF NotBehind, Grows
<1>5. QED
  BY <1>1, <1>3, <1>4, Zenon

LEMMA GetsKept ==
    ASSUME CoreInv, Grows, UNCHANGED gets
    PROVE  GetInv' /\ StrongReads'
<1>1. GetInv'
  BY GetKept, Zenon DEF GetInv
<1>2. QED
  BY <1>1, Zenon DEF CoreInv, StrongReads

\* A get begins, and a replica answers it or fails to.
LEMMA GetBegun ==
    ASSUME CoreInv, Grows, UNCHANGED store, NEW c \in Reader, NEW n \in Node,
           NEW q \in GetState,
           q.pc = "run" /\ q.node = n /\ q.local = store[n] /\ q.floor = acked,
           \A m \in Node : q.resp[m] = -1,
           gets' = [gets EXCEPT ![c] = q]
    PROVE  GetInv' /\ StrongReads'
<1>2. gets'[c] = q /\ \A d \in Reader \ {c} : gets'[d] = gets[d]
  BY Zenon DEF CoreInv, TypeOK
<1>3. \A m \in Node : store[m] \in Int /\ store[m] >= 0
  BY DEF CoreInv, TypeOK, Gen
<1>4. Seen(c)'
  BY <1>2, <1>3 DEF Seen
<1>5. PICK x, y \in Node : x # y /\ store[x] >= acked /\ store[y] >= acked
  BY Zenon DEF CoreInv, Covered
<1>6. NotBehind(c, x)' /\ NotBehind(c, y)'
  BY <1>2, <1>5 DEF NotBehind
<1>7. GetInv'
  BY <1>2, <1>4, <1>5, <1>6, GetKept, Zenon DEF GetInv
<1>8. StrongReads'
  BY <1>2, Zenon DEF CoreInv, StrongReads
<1>9. QED
  BY <1>7, <1>8, Zenon

LEMMA GetAnswered ==
    ASSUME CoreInv, Grows, UNCHANGED store, NEW c \in Reader, gets[c].pc = "run",
           NEW n \in Replicas(gets[c].node), NEW a \in {store[n], Failed},
           gets' = [gets EXCEPT ![c].resp[n] = a]
    PROVE  GetInv' /\ StrongReads'
<1> DEFINE q == [gets[c] EXCEPT !.resp[n] = a]
<1>1. /\ q.pc = "run" /\ q.node = gets[c].node /\ q.local = gets[c].local
      /\ q.floor = gets[c].floor /\ q.resp[n] = a
      /\ \A m \in Node \ {n} : q.resp[m] = gets[c].resp[m]
  BY DEF CoreInv, TypeOK, GetState, Replicas
<1>2. gets' = [gets EXCEPT ![c] = q]
  BY Zenon
<1> HIDE DEF q
<1>3. gets'[c] = q /\ \A d \in Reader \ {c} : gets'[d] = gets[d]
  BY <1>2, Zenon DEF CoreInv, TypeOK
<1>4. n \in Node /\ \A m \in Node : store[m] \in Int /\ store[m] >= 0
  BY DEF CoreInv, TypeOK, Replicas, Gen
<1>5. Seen(c) /\ \E x, y \in Node : x # y /\ NotBehind(c, x) /\ NotBehind(c, y)
  BY Zenon DEF CoreInv, GetInv
<1>6. Seen(c)'
  BY <1>1, <1>3, <1>4, <1>5 DEF Seen
<1>7. ASSUME NEW m \in Node, NotBehind(c, m) PROVE NotBehind(c, m)'
  BY <1>1, <1>3, <1>4, <1>7 DEF NotBehind
<1>8. GetInv'
  BY <1>3, <1>5, <1>6, <1>7, GetKept, Zenon DEF GetInv
<1>9. StrongReads'
  BY <1>1, <1>3, ZenonT(30) DEF CoreInv, StrongReads
<1>10. QED
  BY <1>8, <1>9, Zenon

\* The only calls that change are those of reader c, which is not running
\* after the step.
LEMMA GetReturned ==
    ASSUME CoreInv, Grows, NEW c \in Reader, gets[c].pc = "run",
           NEW r \in {Failed, None} \cup Gen, Return(c, r),
           r \in Gen => r >= gets[c].floor
    PROVE  GetInv' /\ StrongReads'
<1> DEFINE q == [NoGet EXCEPT !.pc = "done", !.floor = gets[c].floor, !.result = r]
<1>1. q.pc = "done" /\ q.floor = gets[c].floor /\ q.result = r
  BY Zenon DEF NoGet
<1>2. gets' = [gets EXCEPT ![c] = q]
  BY Zenon DEF Return
<1> HIDE DEF q
<1>3. gets'[c] = q /\ \A d \in Reader \ {c} : gets'[d] = gets[d]
  BY <1>2, Zenon DEF CoreInv, TypeOK
<1>4. GetInv'
  BY <1>1, <1>3, GetKept, Zenon DEF GetInv
<1>5. StrongReads'
  BY <1>1, <1>3, Zenon DEF CoreInv, StrongReads
<1>6. QED
  BY <1>4, <1>5, Zenon

LEMMA RunningPut ==
    ASSUME TypeOK, NEW g \in Gen, puts[g].pc \in {"begun", "run"}
    PROVE  puts[g].node \in Node /\ g \in Int
<1>1. puts[g] \in PutState /\ puts[g].node # Nobody
  BY Zenon DEF TypeOK
<1>2. QED
  BY <1>1 DEF PutState, Gen

LEMMA PutsKept ==
    ASSUME CoreInv, Grows, UNCHANGED <<gen, puts, wire>>
    PROVE  PutInv'
<1>1. \A g \in Gen : puts[g].pc = "run" => puts[g].node \in Node /\ g \in Int
  BY RunningPut, Zenon DEF CoreInv
<1>2. \A g \in Gen : puts'[g].pc = "run" => store'[puts'[g].node] >= g
  BY <1>1 DEF CoreInv, PutInv, Grows
<1>3. QED
  BY <1>2, Zenon DEF CoreInv, PutInv

\* A put whose request to n is answered or given up.
LEMMA PutLearns ==
    ASSUME CoreInv, Grows, NEW g \in Gen, NEW n \in Node, NEW o \in {"ok", "err"},
           Learn(g, n, o), UNCHANGED gen, wire' \subseteq wire, <<g, n>> \in wire,
           o = "ok" => store'[n] >= g
    PROVE  PutInv' /\ Covered(acked)'
<1>1. \A h \in Gen : puts[h].pc = "run" => puts[h].node \in Node /\ h \in Int
  BY RunningPut, Zenon DEF CoreInv
<1>2. \A h \in Gen : \/ puts'[h] = puts[h]
                     \/ puts'[h] = PutDone
                     \/ /\ puts'[h].pc = puts[h].pc
                        /\ puts'[h].node = puts[h].node
  BY DEF Learn, CoreInv, TypeOK, PutState
<1>3. puts[g].pc \in {"run", "done"} /\ n # puts[g].node
  BY Zenon DEF CoreInv, PutInv
<1>4. PutDone.pc = "done" /\ PutDone.node = Nobody /\ Nobody \notin Node
  BY EmptyRecords, NodeAssumption, Zenon
<1>5. PutInv'
  <2>1. ASSUME NEW h \in Gen, puts'[h].pc = "run"
        PROVE  store'[puts'[h].node] >= h
    <3>1. puts[h].pc = "run" /\ puts'[h].node = puts[h].node
      BY <1>2, <1>4, <2>1, Zenon
    <3>2. QED
      BY <1>1, <3>1 DEF CoreInv, PutInv, Grows
  <2>2. ASSUME NEW h \in Gen, NEW m \in Node, <<h, m>> \in wire'
        PROVE  puts'[h].pc \in {"run", "done"} /\ m # puts'[h].node
    <3>1. puts[h].pc \in {"run", "done"} /\ m # puts[h].node
      BY <2>2, Zenon DEF CoreInv, PutInv
    <3>2. QED
      BY <1>2, <1>4, <3>1, Zenon
  <2>3. ASSUME NEW h \in Gen, puts'[h].pc # "none" PROVE h <= gen'
    <3>1. puts[h].pc # "none"
      BY <1>2, <1>3, <2>3, Zenon DEF Learn, CoreInv, TypeOK
    <3>2. QED
      BY <3>1, Zenon DEF CoreInv, PutInv
  <2>4. QED
    BY <2>1, <2>2, <2>3, Zenon DEF PutInv
<1>6. acked \in Int /\ Covered(acked)
  BY DEF CoreInv, TypeOK, Gen
<1>7. CASE acked' = acked
  BY <1>5, <1>6, <1>7, AckedKept, Zenon
<1>8. CASE acked' # acked
  <2>1. acked' = g /\ o = "ok" /\ puts[g].pc = "run"
    BY <1>8, Zenon DEF Learn
  <2>2. store'[puts[g].node] >= g /\ store'[n] >= g
    BY <1>1, <2>1 DEF CoreInv, PutInv, Grows
  <2>3. Covered(acked)'
    BY <1>1, <1>3, <2>1, <2>2, Zenon DEF Covered
  <2>4. QED
    BY <1>5, <2>3, Zenon
<1>9. QED
  BY <1>7, <1>8, Zenon

\* The value a get returns is held by two nodes after it has been written to
\* the local cache.
LEMMA ValueReturned ==
    ASSUME CoreInv, Grows, NEW c \in Reader, gets[c].pc = "run",
           NEW r \in Gen, ReturnValue(c, r), r >= gets[c].floor,
           \/ Covered(r)
           \/ \E n \in Replicas(gets[c].node) :
                 /\ store[n] >= r
                 /\ gets[c].local >= r => store[gets[c].node] >= r
    PROVE  GetInv' /\ StrongReads' /\ Covered(acked)'
<1> DEFINE s == gets[c].node
<1>1. s \in Node /\ gets[c].local \in Int /\ r \in Int /\ acked \in Int /\ Covered(acked)
  BY DEF CoreInv, TypeOK, GetState, Gen
<1>2. GetInv' /\ StrongReads'
  <2>1. Failed \notin Gen
    BY DEF Gen
  <2>2. QED
    BY <2>1, GetReturned, Zenon DEF ReturnValue
<1>3. CASE acked' = acked
  BY <1>1, <1>2, <1>3, AckedKept, Zenon
<1>4. CASE acked' # acked
  <2>1. acked' = r /\ (gets[c].local < r => Insert(s, r))
    BY <1>4, Zenon DEF ReturnValue
  <2>2. CASE Covered(r)
    <3>1. \E m, n \in Node : m # n /\ store'[m] >= r /\ store'[n] >= r
      BY <1>1, <2>2, CoveredGrows, Zenon
    <3>2. QED
      BY <1>2, <2>1, <3>1, Zenon DEF Covered
  <2>3. ASSUME NEW n \in Replicas(s), store[n] >= r, gets[c].local >= r => store[s] >= r
        PROVE  Covered(acked)'
    <3>1. n \in Node /\ n # s
      BY Zenon DEF Replicas
    <3>2. store'[n] >= r
      BY <1>1, <2>3, <3>1 DEF Grows
    <3>3. store'[s] >= r
      <4>1. CASE gets[c].local < r
        BY <1>1, <2>1, <4>1, InsertGrows, Zenon DEF CoreInv
      <4>2. CASE gets[c].local >= r
        BY <1>1, <2>3, <4>2 DEF Grows
      <4>3. QED
        BY <1>1, <4>1, <4>2
    <3>4. QED
      BY <1>1, <2>1, <3>1, <3>2, <3>3, Zenon DEF Covered
  <2>4. QED
    BY <1>2, <2>2, <2>3, Zenon
<1>5. QED
  BY <1>3, <1>4, Zenon

\* Every step preserves the invariant while nothing is lost.
LEMMA CoreStep ==
    ASSUME CoreInv, [Next]_vars, Evicting = {}, Crashing = {}
    PROVE  CoreInv'
<1> DEFINE G == Covered(acked)' /\ PutInv' /\ GetInv' /\ StrongReads'
<1>a. TypeOK /\ down = {} /\ Covered(acked) /\ PutInv /\ GetInv /\ StrongReads
  BY Zenon DEF CoreInv
<1>b. TypeOK' /\ down' = {} /\ Grows
  BY <1>a, TypeStep, StoreGrows, Zenon DEF Grows
<1>c. acked \in Int
  BY <1>a DEF TypeOK, Gen
<1>d. ASSUME UNCHANGED <<gen, puts, wire, gets, acked>> PROVE G
  BY <1>a, <1>b, <1>c, <1>d, AckedKept, PutsKept, GetsKept, Zenon
<1>e. ASSUME UNCHANGED <<gen, puts, wire>> PROVE PutInv'
  BY <1>b, <1>e, PutsKept, Zenon
<1>1. ASSUME NEW n \in Node, PutBegin(n) PROVE G
  <2> DEFINE p == [NoPut EXCEPT !.pc = "begun", !.node = n]
  <2>1. p.pc = "begun"
    BY Zenon DEF NoPut
  <2>2. puts' = [puts EXCEPT ![gen + 1] = p] /\ UNCHANGED <<store, wire, gets, acked>>
    BY <1>1, Zenon DEF PutBegin
  <2> HIDE DEF p
  <2>3. gen \in Int /\ gen' = gen + 1 /\ gen + 1 \in Gen
    BY <1>1, <1>a DEF PutBegin, TypeOK, Gen
  <2>4. puts'[gen + 1] = p /\ \A g \in Gen \ {gen + 1} : puts'[g] = puts[g]
    BY <1>a, <2>2, <2>3, Zenon DEF TypeOK
  <2>5. puts[gen + 1].pc = "none"
    BY <1>a, <2>3 DEF PutInv, Gen
  <2>6. PutInv'
    <3>1. \A g \in Gen : puts'[g].pc # "none" => g <= gen'
      BY <1>a, <2>3, <2>4 DEF PutInv, Gen
    <3>2. \A g \in Gen : puts'[g].pc = "run" => store'[puts'[g].node] >= g
      BY <1>a, <2>1, <2>2, <2>4, ZenonT(30) DEF PutInv
    <3>3. \A g \in Gen, m \in Node : <<g, m>> \in wire' =>
              puts'[g].pc \in {"run", "done"} /\ m # puts'[g].node
      BY <1>a, <2>2, <2>4, <2>5, Zenon DEF PutInv
    <3>4. QED
      BY <3>1, <3>2, <3>3, Zenon DEF PutInv
  <2>7. GetInv' /\ StrongReads' /\ Covered(acked)'
    BY <1>a, <1>b, <1>c, <2>2, AckedKept, GetsKept, Zenon
  <2>8. QED
    BY <2>6, <2>7, Zenon
<1>2. ASSUME NEW g \in Gen, PutLocal(g) PROVE G
  <2> DEFINE s == puts[g].node
             p == [puts[g] EXCEPT !.pc = "run"]
  <2>1. p.pc = "run" /\ p.node = s /\ s \in Node /\ puts[g].pc = "begun"
    BY <1>2, <1>a, RunningPut, Zenon DEF PutLocal, TypeOK, PutState
  <2>2. puts' = [puts EXCEPT ![g] = p] /\ UNCHANGED <<gen, gets, acked>>
    BY <1>2, Zenon DEF PutLocal
  <2> HIDE DEF p
  <2>3. puts'[g] = p /\ \A h \in Gen \ {g} : puts'[h] = puts[h]
    BY <1>a, <2>2, Zenon DEF TypeOK
  <2>4. store'[s] >= g
    BY <1>2, <1>a, <2>1, InsertGrows, Zenon DEF PutLocal
  <2>5. PutInv'
    <3>1. \A h \in Gen : puts'[h].pc # "none" => h <= gen'
      BY <1>a, <2>1, <2>2, <2>3, Zenon DEF PutInv
    <3>2. ASSUME NEW h \in Gen, puts'[h].pc = "run" PROVE store'[puts'[h].node] >= h
      <4>1. CASE h = g
        BY <2>1, <2>3, <2>4, <4>1, Zenon
      <4>2. CASE h # g
        <5>1. puts[h].pc = "run" /\ puts[h].node \in Node /\ h \in Int
          BY <1>a, <2>3, <3>2, <4>2, RunningPut, Zenon
        <5>2. QED
          BY <1>a, <1>b, <2>3, <4>2, <5>1 DEF PutInv, Grows
      <4>3. QED
        BY <4>1, <4>2, Zenon
    <3>3. ASSUME NEW h \in Gen, NEW m \in Node, <<h, m>> \in wire'
          PROVE  puts'[h].pc \in {"run", "done"} /\ m # puts'[h].node
      <4>1. CASE <<h, m>> \in wire
        BY <1>a, <2>1, <2>3, <4>1, Zenon DEF PutInv
      <4>2. CASE h = g /\ m # s
        BY <2>1, <2>3, <4>2, Zenon
      <4>3. QED
        BY <1>2, <3>3, <4>1, <4>2, Zenon DEF PutLocal, Replicas
    <3>4. QED
      BY <3>1, <3>2, <3>3, Zenon DEF PutInv
  <2>6. GetInv' /\ StrongReads' /\ Covered(acked)'
    BY <1>a, <1>b, <1>c, <2>2, AckedKept, GetsKept, Zenon
  <2>7. QED
    BY <2>5, <2>6, Zenon
<1>3. ASSUME NEW g \in Gen, PutLocalFails(g) PROVE G
  <2>1. puts' = [puts EXCEPT ![g] = PutDone] /\ UNCHANGED <<store, gen, wire, gets, acked>>
    BY <1>3, Zenon DEF PutLocalFails, InsertFails
  <2>2. puts'[g] = PutDone /\ \A h \in Gen \ {g} : puts'[h] = puts[h]
    BY <1>a, <2>1, Zenon DEF TypeOK
  <2>3. PutDone.pc = "done" /\ PutDone.node = Nobody /\ Nobody \notin Node /\ puts[g].pc = "begun"
    BY <1>3, EmptyRecords, NodeAssumption, Zenon DEF PutLocalFails
  <2>4. PutInv'
    BY <1>a, <2>1, <2>2, <2>3, ZenonT(30) DEF PutInv
  <2>5. GetInv' /\ StrongReads' /\ Covered(acked)'
    BY <1>a, <1>b, <1>c, <2>1, AckedKept, GetsKept, Zenon
  <2>6. QED
    BY <2>4, <2>5, Zenon
<1>4. ASSUME NEW g \in Gen, NEW n \in Node, ServePut(g, n) PROVE G
  <2>1. store'[n] >= g
    BY <1>4, <1>a, InsertGrows, Zenon DEF ServePut
  <2>2. PutInv' /\ Covered(acked)'
    BY <1>4, <1>b, <2>1, PutLearns, Zenon DEF ServePut
  <2>3. QED
    BY <1>4, <1>b, <2>2, GetsKept, Zenon DEF ServePut
<1>5. ASSUME NEW g \in Gen, NEW n \in Node, ServePutFails(g, n) PROVE G
  <2>1. PutInv' /\ Covered(acked)'
    BY <1>5, <1>b, PutLearns, Zenon DEF ServePutFails
  <2>2. QED
    BY <1>5, <1>b, <2>1, GetsKept, Zenon DEF ServePutFails
<1>6. ASSUME NEW g \in Gen, NEW n \in Node, LosePut(g, n) PROVE G
  <2>1. PutInv' /\ Covered(acked)'
    BY <1>6, <1>b, PutLearns, Zenon DEF LosePut
  <2>2. QED
    BY <1>6, <1>b, <2>1, GetsKept, Zenon DEF LosePut
<1>7. ASSUME NEW g \in Gen, NEW n \in Node, TimeoutPut(g, n) PROVE G
  <2>1. PutInv' /\ Covered(acked)'
    BY <1>7, <1>b, PutLearns, Zenon DEF TimeoutPut
  <2>2. QED
    BY <1>7, <1>b, <2>1, GetsKept, Zenon DEF TimeoutPut
<1>8. ASSUME NEW c \in Reader, NEW n \in Node, GetStart(c, n) PROVE G
  <2>1. UNCHANGED <<store, gen, puts, wire, acked>>
    BY <1>8, Zenon DEF GetStart
  <2> DEFINE q == [NoGet EXCEPT !.pc = "run", !.node = n, !.local = store[n], !.floor = acked]
  <2>a. /\ q \in GetState
        /\ q.pc = "run" /\ q.node = n /\ q.local = store[n] /\ q.floor = acked
        /\ \A m \in Node : q.resp[m] = -1
    BY <1>a, Zenon DEF NoGet, GetState, TypeOK, Answer
  <2>b. gets' = [gets EXCEPT ![c] = q]
    BY <1>8, Zenon DEF GetStart
  <2> HIDE DEF q
  <2>2. GetInv' /\ StrongReads'
    BY <1>b, <2>1, <2>a, <2>b, GetBegun, ZenonT(30)
  <2>3. QED
    BY <1>a, <1>b, <1>c, <1>e, <2>1, <2>2, AckedKept, Zenon
<1>9. ASSUME NEW c \in Reader, NEW n \in Node, ServeGet(c, n) PROVE G
  <2>1. UNCHANGED <<store, gen, puts, wire, acked>>
    BY <1>9, Zenon DEF ServeGet
  <2>a. PICK a \in {store[n], Failed} : gets' = [gets EXCEPT ![c].resp[n] = a]
    BY <1>9, ZenonT(30) DEF ServeGet
  <2>b. gets[c].pc = "run" /\ n \in Replicas(gets[c].node)
    BY <1>9, Zenon DEF ServeGet
  <2>2. GetInv' /\ StrongReads'
    BY <1>b, <2>1, <2>a, <2>b, GetAnswered, ZenonT(30)
  <2>3. QED
    BY <1>a, <1>b, <1>c, <1>e, <2>1, <2>2, AckedKept, Zenon
<1>10. ASSUME NEW c \in Reader, NEW n \in Node, FailGet(c, n) PROVE G
  <2>1. UNCHANGED <<store, gen, puts, wire, acked>>
    BY <1>10, Zenon DEF FailGet
  <2>2. GetInv' /\ StrongReads'
    BY <1>10, <1>b, <2>1, GetAnswered, ZenonT(30) DEF FailGet
  <2>3. QED
    BY <1>a, <1>b, <1>c, <1>e, <2>1, <2>2, AckedKept, Zenon
<1>f. None \notin Gen /\ Failed \notin Gen
  BY DEF Gen
<1>11. ASSUME NEW c \in Reader, NEW n \in Node, GetByOne(c, n) PROVE G
  <2> DEFINE r == gets[c].resp[n]
  <2>1. /\ gets[c].pc = "run" /\ n \in Replicas(gets[c].node) /\ Decisive(gets[c].local, r)
        /\ UNCHANGED <<gen, puts, wire>>
    BY <1>11, Zenon DEF GetByOne
  <2>2. CASE r = None
    <3>1. Return(c, None) /\ UNCHANGED acked
      BY <1>11, <2>2, ZenonT(30) DEF GetByOne
    <3>2. GetInv' /\ StrongReads'
      BY <1>b, <1>f, <2>1, <3>1, GetReturned, Zenon
    <3>3. QED
      BY <1>a, <1>b, <1>c, <1>e, <2>1, <3>1, <3>2, AckedKept, ZenonT(30)
  <2>3. CASE r # None
    <3>1. ReturnValue(c, r) /\ r \in Gen
      BY <1>11, <2>1, <2>3, ZenonT(30) DEF GetByOne, Decisive
    <3>2. r >= gets[c].floor /\ store[n] >= r /\ (gets[c].local >= r => store[gets[c].node] >= r)
      BY <2>1, <3>1, OneAnswer, Zenon
    <3> HIDE DEF r
    <3>3. GetInv' /\ StrongReads' /\ Covered(acked)'
      BY <1>b, <2>1, <3>1, <3>2, ValueReturned, Zenon
    <3>4. QED
      BY <1>e, <2>1, <3>3, Zenon
  <2>4. QED
    BY <2>2, <2>3, Zenon
<1>12. ASSUME NEW c \in Reader, GetByBoth(c) PROVE G
  <2> DEFINE A == {gets[c].resp[n] : n \in Replicas(gets[c].node)}
  <2>1. gets[c].pc = "run" /\ UNCHANGED <<gen, puts, wire>>
    BY <1>12, Zenon DEF GetByBoth
  <2>2. ASSUME NEW v \in {None, Failed}, Return(c, v), UNCHANGED acked PROVE G
    <3>1. GetInv' /\ StrongReads'
      BY <1>b, <1>f, <2>1, <2>2, GetReturned, Zenon
    <3>2. QED
      BY <1>a, <1>b, <1>c, <1>e, <2>1, <2>2, <3>1, AckedKept, Zenon
  <2>3. ASSUME NEW r \in Gen, A = {r}, ReturnValue(c, r) PROVE G
    <3>1. r >= gets[c].floor /\ Covered(r)
      BY <2>1, <2>3, TwoAnswers, Zenon
    <3>2. GetInv' /\ StrongReads' /\ Covered(acked)'
      BY <1>b, <2>1, <2>3, <3>1, ValueReturned, Zenon
    <3>3. QED
      BY <1>e, <2>1, <3>2, Zenon
  <2>4. \/ (Return(c, None) \/ Return(c, Failed)) /\ UNCHANGED acked
        \/ \E r \in Gen : A = {r} /\ ReturnValue(c, r)
    BY <1>12, Zenon DEF GetByBoth
  <2> HIDE DEF G, A
  <2>5. QED
    BY <2>2, <2>3, <2>4, Zenon
<1>13. ASSUME NEW n \in Node, NEW m \in Node, WarmList(n, m) PROVE G
  BY <1>13, <1>d, Zenon DEF WarmList
<1>14. ASSUME NEW n \in Node, NEW m \in Node, WarmFetch(n, m) PROVE G
  BY <1>14, <1>d, Zenon DEF WarmFetch
<1>15. ASSUME NEW n \in Node, WarmInsert(n) PROVE G
  BY <1>15, <1>d, Zenon DEF WarmInsert
<1>16. ASSUME NEW n \in Node, WarmSkip(n) PROVE G
  BY <1>16, <1>d, Zenon DEF WarmSkip
<1>17. ASSUME NEW n \in Node, EvictUnused(n) PROVE G
  BY <1>17, Zenon DEF EvictUnused
<1>18. ASSUME NEW n \in Node, Crash(n) PROVE G
  BY <1>18, Zenon DEF Crash
<1>19. ASSUME NEW n \in Node, Recover(n) PROVE G
  BY <1>19, <1>a, Zenon DEF Recover
<1>20. ASSUME UNCHANGED vars PROVE G
  BY <1>20, <1>d, Zenon DEF vars
<1>21. ASSUME Next PROVE G
  <2> HIDE DEF G
  <2> QED
    BY Zenon, <1>21, <1>1, <1>2, <1>3, <1>4, <1>5, <1>6, <1>7, <1>8, <1>9, <1>10, <1>11, <1>12,
       <1>13, <1>14, <1>15, <1>16, <1>17, <1>18, <1>19, NextCases
<1> QED
  BY <1>b, <1>20, <1>21, Zenon DEF CoreInv

LEMMA InitCore == Init => CoreInv
<1> SUFFICES ASSUME Init PROVE CoreInv
  BY Zenon
<1>1. TypeOK
  BY InitType, Zenon
<1>2. Covered(acked)
  BY NodeAssumption DEF Init, Covered
<1>3. PutInv
  BY EmptyRecords, Zenon DEF Init, PutInv
<1>4. GetInv /\ StrongReads
  BY EmptyRecords, Zenon DEF Init, GetInv, StrongReads
<1>5. QED
  BY <1>1, <1>2, <1>3, <1>4, Zenon DEF Init, CoreInv

\* Strong consistency: as long as no entry is evicted and no node restarts, a
\* get never returns a value that is older than one a put or get had returned
\* on any node before it started, however many puts, gets and `warm`s are
\* under way and whatever requests and answers are lost or late.
THEOREM StronglyConsistent ==
    ASSUME Evicting = {}, Crashing = {}
    PROVE  Spec => []StrongReads
<1>1. CoreInv /\ [Next]_vars => CoreInv'
  BY CoreStep, Zenon
<1>2. CoreInv => StrongReads
  BY Zenon DEF CoreInv
<1>3. QED
  BY InitCore, <1>1, <1>2, PTL DEF Spec

\* Under the same conditions at most one node is behind.
THEOREM OneNodeBehind ==
    ASSUME Evicting = {}, Crashing = {}
    PROVE  Spec => []OneStaleNode
<1>1. CoreInv /\ [Next]_vars => CoreInv'
  BY CoreStep, Zenon
<1>2. CoreInv => OneStaleNode
  <2> SUFFICES ASSUME CoreInv, NEW m \in Node, NEW n \in Node,
                      store[m] < acked, store[n] < acked, m # n
               PROVE  FALSE
    BY Zenon DEF OneStaleNode
  <2>1. PICK x, y \in Node : x # y /\ store[x] >= acked /\ store[y] >= acked
    BY Zenon DEF CoreInv, Covered
  <2>2. x \in {m, n} \/ y \in {m, n}
    BY <2>1, PairsMeet, Zenon
  <2>3. acked \in Int /\ store[m] \in Int /\ store[n] \in Int
    BY DEF CoreInv, TypeOK, Gen
  <2>4. QED
    BY <2>1, <2>2, <2>3
<1>3. QED
  BY InitCore, <1>1, <1>2, PTL DEF Spec

-----------------------------------------------------------------------------
(***************************************************************************)
(* The refinement.                                                         *)
(***************************************************************************)
TheKey == "key"

\* What a caller sees of the quorum cache: the highest generation returned, the
\* generations handed out, and the state and result of each get.
Floor == [k \in {TheKey} |-> acked]
Offered == [k \in {TheKey} |-> 1 .. gen]
Visible(q) == [pc |-> q.pc, floor |-> q.floor, result |-> q.result]
Reads == [c \in Reader |-> Visible(gets[c])]

Abstract == INSTANCE StrongCache WITH
    Key <- {TheKey},
    Client <- Reader,
    Generation <- Gen,
    floor <- Floor,
    offered <- Offered,
    reads <- Reads

-----------------------------------------------------------------------------
(* Only generations that were handed out are stored, listed or answered.   *)

Issued ==
    /\ \A n \in Node : store[n] <= gen
    /\ \A n \in Node : warms[n].gen <= gen
    /\ \A c \in Reader, n \in Node : gets[c].resp[n] <= gen

\* Every step preserves it.
LEMMA IssuedStep ==
    ASSUME CoreInv, Issued, [Next]_vars, Evicting = {}, Crashing = {}
    PROVE  Issued'
<1> USE DEF Gen
<1>a. TypeOK /\ PutInv /\ gen \in Int
  BY DEF CoreInv, TypeOK
<1>b. \A n \in Node : store[n] \in Int
  BY <1>a DEF TypeOK
<1>c. ASSUME UNCHANGED <<store, gen, warms, gets>> PROVE Issued'
  BY <1>c, Zenon DEF Issued
<1>d. ASSUME NEW n \in Node, NEW g \in {None} \cup Gen, g <= gen, Insert(n, g), gen' = gen
      PROVE  \A m \in Node : store'[m] <= gen'
  BY <1>a, <1>b, <1>d, Zenon DEF Insert, TypeOK, Issued
<1>e. ASSUME NEW c \in Reader, NEW r, Return(c, r), gen' = gen
      PROVE  \A d \in Reader, n \in Node : gets'[d].resp[n] <= gen'
  <2>1. \A n \in Node : NoGet.resp[n] = Waiting
    BY Zenon DEF NoGet
  <2>2. gets'[c].resp = NoGet.resp /\ \A d \in Reader \ {c} : gets'[d] = gets[d]
    BY <1>a, <1>e, Zenon DEF Return, TypeOK, NoGet
  <2>3. 0 <= gen
    BY <1>a DEF TypeOK
  <2>4. QED
    BY <1>a, <1>e, <2>1, <2>2, <2>3 DEF Issued
<1>f. ASSUME NEW c \in Reader, gets[c].pc = "run", NEW r \in Gen, r <= gen, ReturnValue(c, r),
             UNCHANGED <<gen, warms>>
      PROVE  Issued'
  <2>1. gets[c].node \in Node
    BY <1>a, <1>f, Zenon DEF TypeOK, GetState
  <2>2. \A m \in Node : store'[m] <= gen'
    BY <1>d, <1>f, <2>1, Zenon DEF ReturnValue, InsertFails, Issued
  <2>3. \A d \in Reader, n \in Node : gets'[d].resp[n] <= gen'
    BY <1>e, <1>f, Zenon DEF ReturnValue
  <2>4. QED
    BY <1>f, <2>2, <2>3, Zenon DEF Issued
<1>1. ASSUME NEW n \in Node, PutBegin(n) PROVE Issued'
  <2>1. UNCHANGED <<store, warms, gets>> /\ gen' = gen + 1
    BY <1>1, Zenon DEF PutBegin
  <2>2. \A m \in Node : warms[m].gen \in Int
    <3>1. warms \in [Node -> WarmState]
      BY <1>a, Zenon DEF TypeOK
    <3>2. QED
      BY <3>1 DEF WarmState
  <2>3. \A c \in Reader, m \in Node : gets[c].resp[m] \in Int
    <3>1. gets \in [Reader -> GetState]
      BY <1>a, Zenon DEF TypeOK
    <3>2. \A c \in Reader : gets[c].resp \in [Node -> Answer]
      BY <3>1, Zenon DEF GetState
    <3>3. Answer \subseteq Int
      BY DEF Answer
    <3>4. QED
      BY <3>2, <3>3, ZenonT(30)
  <2>4. QED
    BY <1>a, <1>b, <2>1, <2>2, <2>3 DEF Issued
<1>2. ASSUME NEW g \in Gen, PutLocal(g) PROVE Issued'
  <2>1. puts[g].node \in Node /\ g <= gen
    BY <1>a, <1>2, RunningPut, Zenon DEF PutLocal, PutInv
  <2>2. QED
    BY <1>2, <1>d, <2>1, Zenon DEF PutLocal, Issued
<1>3. ASSUME NEW g \in Gen, PutLocalFails(g) PROVE Issued'
  BY <1>3, <1>c, Zenon DEF PutLocalFails, InsertFails
<1>4. ASSUME NEW g \in Gen, NEW n \in Node, ServePut(g, n) PROVE Issued'
  <2>1. g <= gen
    BY <1>a, <1>4, Zenon DEF ServePut, PutInv
  <2>2. QED
    BY <1>4, <1>d, <2>1, Zenon DEF ServePut, Issued
<1>5. ASSUME NEW g \in Gen, NEW n \in Node, ServePutFails(g, n) PROVE Issued'
  BY <1>5, <1>c, Zenon DEF ServePutFails, InsertFails
<1>6. ASSUME NEW g \in Gen, NEW n \in Node, LosePut(g, n) PROVE Issued'
  BY <1>6, <1>c, Zenon DEF LosePut
<1>7. ASSUME NEW g \in Gen, NEW n \in Node, TimeoutPut(g, n) PROVE Issued'
  BY <1>7, <1>c, Zenon DEF TimeoutPut
<1>8. ASSUME NEW c \in Reader, NEW n \in Node, GetStart(c, n) PROVE Issued'
  <2>1. gets'[c].resp = NoGet.resp /\ \A d \in Reader \ {c} : gets'[d] = gets[d]
    BY <1>a, <1>8, Zenon DEF GetStart, TypeOK, NoGet
  <2>2. UNCHANGED <<store, gen, warms>>
    BY <1>8, Zenon DEF GetStart
  <2>3. 0 <= gen /\ \A m \in Node : NoGet.resp[m] = Waiting
    BY <1>a DEF TypeOK, NoGet
  <2>4. QED
    BY <1>a, <2>1, <2>2, <2>3 DEF Issued
<1>g. ASSUME NEW c \in Reader, NEW n \in Node, NEW a \in Int, a <= gen,
             gets' = [gets EXCEPT ![c].resp[n] = a], UNCHANGED <<store, gen, warms>>
      PROVE  Issued'
  <2>1. /\ \A d \in Reader \ {c} : gets'[d] = gets[d]
        /\ \A m \in Node : gets'[c].resp[m] = IF m = n THEN a ELSE gets[c].resp[m]
    BY <1>a, <1>g, Zenon DEF TypeOK, GetState
  <2>2. QED
    BY <1>g, <2>1 DEF Issued
<1>9. ASSUME NEW c \in Reader, NEW n \in Node, ServeGet(c, n) PROVE Issued'
  <2>1. PICK a \in {store[n], Failed} : gets' = [gets EXCEPT ![c].resp[n] = a]
    BY <1>9, ZenonT(30) DEF ServeGet
  <2>2. a \in Int /\ a <= gen
    BY <1>a, <1>b, <2>1 DEF Issued, TypeOK
  <2>3. QED
    BY <1>9, <1>g, <2>1, <2>2, ZenonT(30) DEF ServeGet
<1>10. ASSUME NEW c \in Reader, NEW n \in Node, FailGet(c, n) PROVE Issued'
  <2>1. Failed \in Int /\ Failed <= gen
    BY <1>a DEF TypeOK
  <2>2. QED
    BY <1>10, <1>g, <2>1, ZenonT(30) DEF FailGet
<1>11. ASSUME NEW c \in Reader, NEW n \in Node, GetByOne(c, n) PROVE Issued'
  <2>1. gets[c].pc = "run" /\ UNCHANGED <<gen, warms>> /\ gets[c].resp[n] <= gen
    BY <1>11, Zenon DEF GetByOne, Issued
  <2>2. CASE gets[c].resp[n] = None
    BY <1>11, <1>e, <2>1, <2>2, ZenonT(30) DEF GetByOne, Issued
  <2>3. CASE gets[c].resp[n] # None
    BY <1>11, <1>f, <2>1, <2>3, ZenonT(30) DEF GetByOne, Decisive
  <2>4. QED
    BY <2>2, <2>3, Zenon
<1>12. ASSUME NEW c \in Reader, GetByBoth(c) PROVE Issued'
  <2>1. gets[c].pc = "run" /\ UNCHANGED <<gen, warms>>
    BY <1>12, Zenon DEF GetByBoth
  <2>2. CASE \E v \in {None, Failed} : Return(c, v) /\ UNCHANGED store
    BY <1>e, <2>1, <2>2, Zenon DEF Issued
  <2>3. ASSUME NEW r \in Gen, {gets[c].resp[n] : n \in Replicas(gets[c].node)} = {r},
               ReturnValue(c, r)
        PROVE  Issued'
    <3>1. PICK n \in Node : gets[c].resp[n] = r
      BY <2>3, Zenon DEF Replicas
    <3>2. QED
      BY <1>f, <2>1, <2>3, <3>1, Zenon DEF Issued
  <2>4. QED
    BY <1>12, <2>2, <2>3, Zenon DEF GetByBoth
<1>13. ASSUME NEW n \in Node, NEW m \in Node, WarmList(n, m) PROVE Issued'
  <2>1. /\ UNCHANGED <<store, gen, gets>>
        /\ warms' = [warms EXCEPT ![n] = [pc |-> "listed", peer |-> m, gen |-> store[m]]]
    BY <1>13, Zenon DEF WarmList
  <2>2. QED
    BY <1>a, <2>1, Zenon DEF Issued, TypeOK
<1>14. ASSUME NEW n \in Node, NEW m \in Node, WarmFetch(n, m) PROVE Issued'
  <2>1. UNCHANGED <<store, gen, gets>> /\ warms' = [warms EXCEPT ![n].pc = "fetched"]
    BY <1>14, Zenon DEF WarmFetch
  <2>2. \A k \in Node : warms'[k].gen = warms[k].gen
    BY <1>a, <2>1, ZenonT(30) DEF TypeOK, WarmState
  <2>3. QED
    BY <2>1, <2>2, Zenon DEF Issued
<1>h. ASSUME NEW n \in Node, warms' = [warms EXCEPT ![n] = NoWarm], gen' = gen
      PROVE  \A m \in Node : warms'[m].gen <= gen'
  <2>1. NoWarm.gen = 0 /\ 0 <= gen
    BY <1>a DEF NoWarm, TypeOK
  <2>2. QED
    BY <1>a, <1>h, <2>1, Zenon DEF Issued, TypeOK
<1>15. ASSUME NEW n \in Node, WarmInsert(n) PROVE Issued'
  <2>1. warms[n].gen \in {None} \cup Gen /\ warms[n].gen <= gen
    BY <1>a, Zenon DEF TypeOK, WarmState, Issued
  <2>2. QED
    BY <1>15, <1>d, <1>h, <2>1, ZenonT(30) DEF WarmInsert, Issued
<1>16. ASSUME NEW n \in Node, WarmSkip(n) PROVE Issued'
  BY <1>16, <1>h, ZenonT(30) DEF WarmSkip, Issued
<1>17. ASSUME NEW n \in Node, EvictUnused(n) PROVE Issued'
  BY <1>17, Zenon DEF EvictUnused
<1>18. ASSUME NEW n \in Node, Crash(n) PROVE Issued'
  BY <1>18, ZenonT(30) DEF Crash
<1>19. ASSUME NEW n \in Node, Recover(n) PROVE Issued'
  BY <1>19, <1>c, Zenon DEF Recover
<1>20. ASSUME UNCHANGED vars PROVE Issued'
  BY <1>20, <1>c, Zenon DEF vars
<1>21. ASSUME Next PROVE Issued'
  BY <1>21, <1>1, <1>2, <1>3, <1>4, <1>5, <1>6, <1>7, <1>8, <1>9, <1>10, <1>11, <1>12,
     <1>13, <1>14, <1>15, <1>16, <1>17, <1>18, <1>19, NextCases, Zenon
<1> QED
  BY <1>20, <1>21, Zenon

-----------------------------------------------------------------------------
(* Every step is a step of StrongCache, or one that no caller sees.        *)

\* A step that changes nothing a caller sees.
LEMMA Unseen ==
    ASSUME UNCHANGED <<gen, acked>>, Reads' = Reads
    PROVE  UNCHANGED Abstract!cacheVars
BY Zenon DEF Abstract!cacheVars, Floor, Offered

\* How the visible part of a get follows its record.
LEMMA ReadReplaced ==
    ASSUME TypeOK, NEW c \in Reader, NEW q, gets' = [gets EXCEPT ![c] = q]
    PROVE  Reads' = [Reads EXCEPT ![c] = Visible(q)]
BY ZenonT(30) DEF Reads, TypeOK

\* The outcome of a replica's put, seen by the caller if it is a success.
LEMMA LearnMaps ==
    ASSUME CoreInv, NEW g \in Gen, NEW n \in Node, NEW o \in {"ok", "err"},
           Learn(g, n, o), UNCHANGED <<gen, gets>>
    PROVE  Abstract!CacheNext \/ UNCHANGED Abstract!cacheVars
<1>1. Reads' = Reads
  BY Zenon DEF Reads
<1>2. CASE acked' = acked
  BY <1>1, <1>2, Unseen, Zenon
<1>3. CASE acked' # acked
  <2>1. acked' = g /\ g > acked /\ puts[g].pc = "run"
    BY <1>3, Zenon DEF Learn
  <2>2. g \in 1 .. gen
    BY <2>1 DEF CoreInv, TypeOK, PutInv, Gen
  <2>3. Abstract!CachePutOk(TheKey, g)
    BY <1>1, <2>1, <2>2, Zenon DEF Abstract!CachePutOk, Abstract!RaiseFloor, Floor, Offered
  <2>4. QED
    BY <2>3, Zenon DEF Abstract!CacheNext
<1>4. QED
  BY <1>2, <1>3, Zenon

\* How a get that returns looks to its caller.
LEMMA ReturnMaps ==
    ASSUME TypeOK, NEW c \in Reader, gets[c].pc = "run", NEW r, Return(c, r)
    PROVE  Reads[c].pc = "run" /\ Reads[c].floor = gets[c].floor /\ Abstract!Respond(c, r)
<1> DEFINE q == [NoGet EXCEPT !.pc = "done", !.floor = gets[c].floor, !.result = r]
<1>1. Visible(q) = [pc |-> "done", floor |-> gets[c].floor, result |-> r]
  BY Zenon DEF Visible, NoGet
<1>2. gets' = [gets EXCEPT ![c] = q]
  BY Zenon DEF Return
<1> HIDE DEF q
<1>3. Reads' = [Reads EXCEPT ![c] = Visible(q)]
  BY <1>2, ReadReplaced, ZenonT(30)
<1>4. Reads[c] = [pc |-> "run", floor |-> gets[c].floor, result |-> gets[c].result]
  BY Zenon DEF Reads, Visible
<1>5. QED
  BY <1>1, <1>3, <1>4 DEF Abstract!Respond

\* A miss or an error.
LEMMA FailureMaps ==
    ASSUME CoreInv, NEW c \in Reader, gets[c].pc = "run", NEW v \in {None, Failed},
           Return(c, v), UNCHANGED <<gen, acked>>
    PROVE  Abstract!CacheNext
<1>1. Reads[c].pc = "run" /\ Abstract!Respond(c, v)
  BY ReturnMaps, Zenon DEF CoreInv
<1>2. UNCHANGED <<Floor, Offered>>
  BY Zenon DEF Floor, Offered
<1>3. Abstract!CacheMiss(c) \/ Abstract!CacheError(c)
  BY <1>1, <1>2, Zenon DEF Abstract!CacheMiss, Abstract!CacheError, Abstract!Miss, Abstract!Error
<1>4. QED
  BY <1>3, Zenon DEF Abstract!CacheNext

\* A value, which is offered and not below the floor, or an error of the local
\* cache in its place.
LEMMA ValueMaps ==
    ASSUME CoreInv, NEW c \in Reader, gets[c].pc = "run", NEW r \in Gen, r <= gen,
           r >= gets[c].floor, ReturnValue(c, r), UNCHANGED gen
    PROVE  Abstract!CacheNext
<1>1. CASE Return(c, Failed) /\ UNCHANGED acked
  BY <1>1, FailureMaps, Zenon
<1>2. CASE Return(c, r) /\ acked' = IF r > acked THEN r ELSE acked
  <2>1. /\ Reads[c].pc = "run" /\ Reads[c].floor = gets[c].floor
        /\ Abstract!Respond(c, r)
    BY <1>2, ReturnMaps, Zenon DEF CoreInv
  <2>2. r \in 1 .. gen
    BY DEF CoreInv, TypeOK, Gen
  <2>3. Abstract!RaiseFloor(TheKey, r) /\ UNCHANGED Offered
    BY <1>2, Zenon DEF Abstract!RaiseFloor, Floor, Offered
  <2>4. Abstract!CacheHit(c, TheKey, r)
    BY <2>1, <2>2, <2>3, Zenon DEF Abstract!CacheHit, Offered
  <2>5. QED
    BY <2>4, Zenon DEF Abstract!CacheNext
<1>3. QED
  BY <1>1, <1>2, Zenon DEF ReturnValue

\* The step of the refinement, one case per action.
LEMMA StepMaps ==
    ASSUME CoreInv, Issued, [Next]_vars, Evicting = {}, Crashing = {}
    PROVE  Abstract!CacheNext \/ UNCHANGED Abstract!cacheVars
<1> DEFINE G == Abstract!CacheNext \/ UNCHANGED Abstract!cacheVars
<1>a. TypeOK
  BY Zenon DEF CoreInv
<1>b. ASSUME UNCHANGED <<gen, acked, gets>> PROVE G
  BY <1>b, Unseen, Zenon DEF Reads
<1>1. ASSUME NEW n \in Node, PutBegin(n) PROVE G
  <2>1. Reads' = Reads /\ UNCHANGED Floor
    BY <1>1, Zenon DEF PutBegin, Reads, Floor
  <2>2. gen \in Int /\ gen >= 0 /\ gen + 1 \in Gen /\ gen' = gen + 1
    BY <1>1, <1>a DEF PutBegin, TypeOK, Gen
  <2>3. 1 .. gen' = (1 .. gen) \cup {gen + 1}
    BY <2>2
  <2>4. Abstract!CachePut(TheKey, gen + 1)
    BY <2>1, <2>3, ZenonT(30) DEF Abstract!CachePut, Offered
  <2>5. QED
    BY <2>2, <2>4, Zenon DEF Abstract!CacheNext
<1>2. ASSUME NEW g \in Gen, PutLocal(g) PROVE G
  BY <1>2, <1>b, Zenon DEF PutLocal
<1>3. ASSUME NEW g \in Gen, PutLocalFails(g) PROVE G
  BY <1>3, <1>b, Zenon DEF PutLocalFails
<1>4. ASSUME NEW g \in Gen, NEW n \in Node, ServePut(g, n) PROVE G
  BY <1>4, LearnMaps, Zenon DEF ServePut
<1>5. ASSUME NEW g \in Gen, NEW n \in Node, ServePutFails(g, n) PROVE G
  BY <1>5, LearnMaps, Zenon DEF ServePutFails
<1>6. ASSUME NEW g \in Gen, NEW n \in Node, LosePut(g, n) PROVE G
  BY <1>6, LearnMaps, Zenon DEF LosePut
<1>7. ASSUME NEW g \in Gen, NEW n \in Node, TimeoutPut(g, n) PROVE G
  BY <1>7, LearnMaps, Zenon DEF TimeoutPut
<1>8. ASSUME NEW c \in Reader, NEW n \in Node, GetStart(c, n) PROVE G
  <2> DEFINE q == [NoGet EXCEPT !.pc = "run", !.node = n, !.local = store[n], !.floor = acked]
  <2>1. Visible(q) = [pc |-> "run", floor |-> acked, result |-> 0]
    BY Zenon DEF Visible, NoGet
  <2>2. gets' = [gets EXCEPT ![c] = q] /\ gets[c].pc # "run" /\ UNCHANGED <<gen, acked>>
    BY <1>8, Zenon DEF GetStart
  <2> HIDE DEF q
  <2>3. Reads' = [Reads EXCEPT ![c] = Visible(q)]
    BY <1>a, <2>2, ReadReplaced, ZenonT(30)
  <2>4. Reads[c].pc # "run" /\ UNCHANGED <<Floor, Offered>> /\ Floor[TheKey] = acked
    BY <2>2, Zenon DEF Reads, Visible, Floor, Offered
  <2>5. Abstract!CacheGet(c, TheKey)
    BY <2>1, <2>3, <2>4, Zenon DEF Abstract!CacheGet, Abstract!Miss
  <2>6. QED
    BY <2>5, Zenon DEF Abstract!CacheNext
<1>c. ASSUME NEW c \in Reader, NEW n \in Node, NEW a, UNCHANGED <<gen, acked>>,
             gets' = [gets EXCEPT ![c].resp[n] = a]
      PROVE  G
  <2> DEFINE q == [gets[c] EXCEPT !.resp[n] = a]
  <2>1. Visible(q) = Visible(gets[c])
    BY <1>a, Zenon DEF Visible, TypeOK, GetState
  <2>2. gets' = [gets EXCEPT ![c] = q]
    BY <1>c, Zenon
  <2> HIDE DEF q
  <2>3. Reads' = [Reads EXCEPT ![c] = Visible(gets[c])]
    BY <1>a, <2>1, <2>2, ReadReplaced, ZenonT(30)
  <2>4. Reads' = Reads
    BY <2>3, ZenonT(30) DEF Reads
  <2>5. QED
    BY <1>c, <2>4, Unseen, Zenon
<1>9. ASSUME NEW c \in Reader, NEW n \in Node, ServeGet(c, n) PROVE G
  BY <1>9, <1>c, ZenonT(30) DEF ServeGet
<1>10. ASSUME NEW c \in Reader, NEW n \in Node, FailGet(c, n) PROVE G
  BY <1>10, <1>c, ZenonT(30) DEF FailGet
<1>11. ASSUME NEW c \in Reader, NEW n \in Node, GetByOne(c, n) PROVE G
  <2> DEFINE r == gets[c].resp[n]
  <2>1. /\ gets[c].pc = "run" /\ n \in Replicas(gets[c].node) /\ Decisive(gets[c].local, r)
        /\ gen' = gen
    BY <1>11, Zenon DEF GetByOne
  <2>2. CASE r = None
    BY <1>11, <2>1, <2>2, FailureMaps, Zenon DEF GetByOne
  <2>3. CASE r # None
    <3>1. ReturnValue(c, r) /\ r \in Gen
      BY <1>11, <2>1, <2>3, ZenonT(30) DEF GetByOne, Decisive
    <3>2. r >= gets[c].floor
      BY <2>1, <3>1, OneAnswer, Zenon
    <3>3. r <= gen
      BY Zenon DEF Issued
    <3> HIDE DEF r
    <3>4. QED
      BY <2>1, <3>1, <3>2, <3>3, ValueMaps, Zenon
  <2>4. QED
    BY <2>2, <2>3, Zenon
<1>12. ASSUME NEW c \in Reader, GetByBoth(c) PROVE G
  <2> DEFINE A == {gets[c].resp[n] : n \in Replicas(gets[c].node)}
  <2>1. gets[c].pc = "run" /\ gen' = gen
    BY <1>12, Zenon DEF GetByBoth
  <2>2. CASE \E v \in {None, Failed} : Return(c, v) /\ UNCHANGED acked
    BY <2>1, <2>2, FailureMaps, Zenon
  <2>3. ASSUME NEW r \in Gen, A = {r}, ReturnValue(c, r) PROVE G
    <3>1. r >= gets[c].floor
      BY <2>1, <2>3, TwoAnswers, Zenon
    <3>2. PICK n \in Node : gets[c].resp[n] = r
      BY <2>3, Zenon DEF Replicas
    <3>3. r <= gen
      BY <3>2, Zenon DEF Issued
    <3>4. QED
      BY <2>1, <2>3, <3>1, <3>3, ValueMaps, Zenon
  <2>4. QED
    BY <1>12, <2>2, <2>3, Zenon DEF GetByBoth
<1>13. ASSUME NEW n \in Node, NEW m \in Node, WarmList(n, m) PROVE G
  BY <1>13, <1>b, Zenon DEF WarmList
<1>14. ASSUME NEW n \in Node, NEW m \in Node, WarmFetch(n, m) PROVE G
  BY <1>14, <1>b, Zenon DEF WarmFetch
<1>15. ASSUME NEW n \in Node, WarmInsert(n) PROVE G
  BY <1>15, <1>b, Zenon DEF WarmInsert
<1>16. ASSUME NEW n \in Node, WarmSkip(n) PROVE G
  BY <1>16, <1>b, Zenon DEF WarmSkip
<1>17. ASSUME NEW n \in Node, EvictUnused(n) PROVE G
  BY <1>17, Zenon DEF EvictUnused
<1>18. ASSUME NEW n \in Node, Crash(n) PROVE G
  BY <1>18, Zenon DEF Crash
<1>19. ASSUME NEW n \in Node, Recover(n) PROVE G
  BY <1>19, <1>b, Zenon DEF Recover
<1>20. ASSUME UNCHANGED vars PROVE G
  BY <1>20, <1>b, Zenon DEF vars
<1>21. ASSUME Next PROVE G
  <2> HIDE DEF G
  <2> QED
    BY Zenon, <1>21, <1>1, <1>2, <1>3, <1>4, <1>5, <1>6, <1>7, <1>8, <1>9, <1>10, <1>11, <1>12,
       <1>13, <1>14, <1>15, <1>16, <1>17, <1>18, <1>19, NextCases
<1> QED
  BY <1>20, <1>21, Zenon

\* The initial states of the refinement.
LEMMA InitMaps == Init => Issued /\ Abstract!CacheInit
<1> SUFFICES ASSUME Init PROVE Issued /\ Abstract!CacheInit
  BY Zenon
<1>1. Issued
  BY DEF Init, Issued, NoWarm, NoGet
<1>2. Floor = [k \in {TheKey} |-> 0] /\ Offered = [k \in {TheKey} |-> {}]
  BY DEF Init, Floor, Offered
<1>3. Reads = [c \in Reader |-> [pc |-> "idle", floor |-> 0, result |-> 0]]
  BY Zenon DEF Init, Reads, Visible, NoGet
<1>4. QED
  BY <1>1, <1>2, <1>3, Zenon DEF Abstract!CacheInit, Abstract!NoRead, Abstract!Miss

\* The quorum cache keeps the promise the caching catalog builds on: as long as
\* no entry is evicted and no node restarts, every step of put, get and `warm`
\* is a step of StrongCache or one that no caller sees.
THEOREM ImplementsStrongCache ==
    ASSUME Evicting = {}, Crashing = {}
    PROVE  Spec => Abstract!CacheSpec
<1>1. Init => CoreInv /\ Issued /\ Abstract!CacheInit
  BY InitCore, InitMaps, Zenon
<1>2. CoreInv /\ Issued /\ [Next]_vars => (CoreInv /\ Issued)'
  BY CoreStep, IssuedStep, Zenon
<1>3. CoreInv /\ Issued /\ [Next]_vars => [Abstract!CacheNext]_(Abstract!cacheVars)
  BY StepMaps, Zenon
<1>4. QED
  BY <1>1, <1>2, <1>3, PTL DEF Spec, Abstract!CacheSpec
=============================================================================
