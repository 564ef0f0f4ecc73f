----------------------------- MODULE ServiceProofs ---------------------------
(***************************************************************************)
(* Proofs about three services: KeyspaceServer, for any number of          *)
(* connections and revisions; ParquetCacheController, for any templates,   *)
(* replica counts and number of edits; and Wal, for any number of          *)
(* operations, segments, crashes and calls of rotate.                      *)
(***************************************************************************)
EXTENDS KeyspaceServer, ParquetCacheController, Wal, WellFoundedInduction, TLAPS

(***************************************************************************)
(* KeyspaceServer.                                                         *)
(***************************************************************************)
Instances == [revision : Nat, own : BOOLEAN]

KeyspaceTypes ==
    /\ {file, current, next} \subseteq Instances
    /\ read \in [Task -> Instances]
    /\ conn \in [Conn -> {"new", "checked", "waiting", "ready", "woken", "call", "done"}]
    /\ answer \in [Conn -> {"none", "pending", "warming", "running", "cooling"}]

\* A connection that has declared the node warmed and not yet asked finds it in
\* the current instance set if it is in the next, unless it is an early one.
DeclaredIsCurrent ==
    \A c \in Conn : conn[c] = "call" /\ c \notin early => (next.own => current.own)

KeyspaceInv == KeyspaceTypes /\ DeclaredIsCurrent /\ WarmingIsNotSeen

\* A server starts without instance sets and without connections.
LEMMA KeyspaceInitInv == KeyspaceInit => KeyspaceInv
<1> SUFFICES ASSUME KeyspaceInit PROVE KeyspaceInv
  BY Zenon
<1>1. file \in Instances /\ NoInstances \in Instances
  BY KeyspaceAssumption DEF KeyspaceInit, InstanceSet, Instances, NoInstances
<1>2. KeyspaceTypes
  BY <1>1, Zenon DEF KeyspaceInit, KeyspaceTypes
<1>3. DeclaredIsCurrent /\ WarmingIsNotSeen
  BY Zenon DEF KeyspaceInit, DeclaredIsCurrent, WarmingIsNotSeen
<1> QED  BY <1>2, <1>3, Zenon DEF KeyspaceInv

\* What the steps leave of connections, answers and instance sets.
LEMMA KeyspaceTypesStep ==
    ASSUME KeyspaceTypes, KeyspaceNext
    PROVE  KeyspaceTypes'
<1>0. NoInstances \in Instances
  BY Zenon DEF Instances, NoInstances
<1>1. CASE WriteFile
  BY <1>1 DEF WriteFile, KeyspaceTypes, Instances
<1>2. CASE BeginWrite \/ Notified
  BY <1>2, Zenon DEF BeginWrite, Notified, KeyspaceTypes
<1>3. ASSUME NEW t \in Task, Update(t) PROVE KeyspaceTypes'
  <2>1. CASE Read(t)
    BY <2>1, Zenon DEF Read, KeyspaceTypes
  <2>2. CASE Swap(t)
    BY <2>2 DEF Swap, KeyspaceTypes
  <2>3. CASE Notify(t)
    BY <1>0, <2>3, Zenon DEF Notify, KeyspaceTypes
  <2> QED  BY <1>3, <2>1, <2>2, <2>3, Zenon DEF Update
<1>4. ASSUME NEW c \in Conn, Serve(c) PROVE KeyspaceTypes'
  <2>1. CASE PollReady(c) \/ Register(c) \/ Prewarm(c)
    BY <2>1, Zenon DEF PollReady, Register, Prewarm, KeyspaceTypes
  <2>2. CASE GetState(c)
    <3>1. State \in {"pending", "warming", "running", "cooling"}
      BY Zenon DEF State
    <3> QED  BY <2>2, <3>1, Zenon DEF GetState, KeyspaceTypes
  <2> QED  BY <1>4, <2>1, <2>2, Zenon DEF Serve
<1> QED  BY <1>1, <1>2, <1>3, <1>4, Zenon DEF KeyspaceNext

\* Changes and reads of the file and steps of the connections keep the invariant.
LEMMA KeyspaceNextInv == KeyspaceInv /\ [KeyspaceNext]_keyspaceVars => KeyspaceInv'
<1> SUFFICES ASSUME KeyspaceInv, [KeyspaceNext]_keyspaceVars PROVE KeyspaceInv'
  BY Zenon
<1> USE DEF KeyspaceInv
<1>1. CASE UNCHANGED keyspaceVars
  BY <1>1, Zenon DEF keyspaceVars, KeyspaceTypes, DeclaredIsCurrent, WarmingIsNotSeen
<1>2. ASSUME BeginWrite \/ WriteFile \/ Notified \/ \E t \in Task : Read(t)
      PROVE  DeclaredIsCurrent' /\ WarmingIsNotSeen'
  BY <1>2, Zenon DEF BeginWrite, WriteFile, Notified, Read, DeclaredIsCurrent, WarmingIsNotSeen
<1>3. ASSUME NEW t \in Task, Swap(t) PROVE DeclaredIsCurrent' /\ WarmingIsNotSeen'
  <2>1. UNCHANGED <<conn, answer>> /\ early \subseteq early'
    BY <1>3, Zenon DEF Swap
  <2>2. CASE UNCHANGED <<current, next, early>>
    BY <2>1, <2>2, Zenon DEF DeclaredIsCurrent, WarmingIsNotSeen
  <2>3. CASE /\ current' = next /\ next' = read[t]
             /\ early' = early \cup {c \in Conn : conn[c] = "call" /\ ~next.own /\ read[t].own}
    BY <2>1, <2>3, Zenon DEF DeclaredIsCurrent, WarmingIsNotSeen
  <2> QED  BY <1>3, <2>2, <2>3, Zenon DEF Swap
<1>4. ASSUME NEW t \in Task, Notify(t) PROVE DeclaredIsCurrent' /\ WarmingIsNotSeen'
  <2>1. \A c \in Conn : conn'[c] = "call" => conn[c] = "call"
    BY <1>4, Zenon DEF Notify, KeyspaceTypes
  <2> QED  BY <1>4, <2>1, Zenon DEF Notify, DeclaredIsCurrent, WarmingIsNotSeen
<1>5. ASSUME NEW c \in Conn, PollReady(c) \/ Register(c)
      PROVE  DeclaredIsCurrent' /\ WarmingIsNotSeen'
  <2>1. \A d \in Conn : conn'[d] = "call" => conn[d] = "call"
    BY <1>5, Zenon DEF PollReady, Register, KeyspaceTypes
  <2> QED  BY <1>5, <2>1, Zenon DEF PollReady, Register, DeclaredIsCurrent, WarmingIsNotSeen
\* prewarm makes next current, for every connection.
<1>6. ASSUME NEW c \in Conn, Prewarm(c) PROVE DeclaredIsCurrent' /\ WarmingIsNotSeen'
  BY <1>6, Zenon DEF Prewarm, DeclaredIsCurrent, WarmingIsNotSeen
\* The state is warming only when next names the node and current does not.
<1>7. ASSUME NEW c \in Conn, GetState(c) PROVE DeclaredIsCurrent' /\ WarmingIsNotSeen'
  <2>1. State = "warming" => next.own /\ ~current.own
    BY Zenon DEF State
  <2>2. \A d \in Conn : /\ conn'[d] = "call" => conn[d] = "call"
                        /\ answer'[d] = IF d = c THEN State ELSE answer[d]
    BY <1>7, Zenon DEF GetState, KeyspaceTypes
  <2>3. conn[c] = "call" /\ UNCHANGED <<current, next, early>>
    BY <1>7, Zenon DEF GetState
  <2>4. DeclaredIsCurrent'
    BY <2>2, <2>3, Zenon DEF DeclaredIsCurrent
  <2>5. WarmingIsNotSeen'
    BY <2>1, <2>2, <2>3, Zenon DEF DeclaredIsCurrent, WarmingIsNotSeen
  <2> QED  BY <2>4, <2>5, Zenon
<1>8. CASE KeyspaceNext
  <2>1. KeyspaceTypes'
    BY <1>8, KeyspaceTypesStep, Zenon
  <2>2. DeclaredIsCurrent' /\ WarmingIsNotSeen'
    BY <1>2, <1>3, <1>4, <1>5, <1>6, <1>7, <1>8, Zenon DEF KeyspaceNext, Update, Serve
  <2> QED  BY <2>1, <2>2, Zenon
<1> QED  BY <1>1, <1>8, Zenon

\* A server that reports Warming was declared warmed before the node joined, for
\* any number of connections: check_warming_pods can hardly ever see the report
\* it waits for.
THEOREM WarmingIsHardlySeen == KeyspaceSpec => []WarmingIsNotSeen
<1>1. KeyspaceInv => WarmingIsNotSeen
  BY Zenon DEF KeyspaceInv
<1> QED  BY <1>1, KeyspaceInitInv, KeyspaceNextInv, PTL DEF KeyspaceSpec

(***************************************************************************)
(* Least and greatest numbers.                                             *)
(***************************************************************************)
\* Every nonempty set of numbers has a least element.
LEMMA Least ==
    ASSUME NEW B \in SUBSET Nat, NEW b \in B
    PROVE  \E n \in B : \A m \in Nat : m < n => m \notin B
<1> DEFINE R == OpToRel(<, Nat)
<1>1. R = {p \in Nat \X Nat : p[1] < p[2]}
  BY Zenon DEF OpToRel
<1>2. IsWellFoundedOn(R, Nat)
  BY NatLessThanWellFounded, Zenon
<1> HIDE DEF R
<1>3. PICK n \in B : \A m \in B : ~(<<m, n>> \in R)
  BY <1>2, WFMin, Zenon
<1>4. ASSUME NEW m \in Nat, m < n PROVE m \notin B
  BY <1>1, <1>3, <1>4, Zenon
<1> QED  BY <1>4, Zenon

\* Min is a least element.
LEMMA MinIsLeast ==
    ASSUME NEW B \in SUBSET Nat, B # {}
    PROVE  Min(B) \in B /\ \A m \in B : Min(B) <= m
<1>1. PICK n \in B : \A m \in Nat : m < n => m \notin B
  BY Least, Zenon
<1>2. \A m \in B : n <= m
  BY <1>1
<1> QED  BY <1>2, Zenon DEF Min

\* A bounded set of numbers has a greatest element.
LEMMA MaxIsGreatest ==
    ASSUME NEW B \in SUBSET Nat, B # {}, NEW n \in Nat, \A m \in B : m <= n
    PROVE  Max(B) \in B /\ \A m \in B : m <= Max(B)
<1> DEFINE C == {n - m : m \in B}
<1>1. C \in SUBSET Nat /\ C # {}
  <2>1. \A m \in B : n - m \in Nat
    OBVIOUS
  <2> QED  BY <2>1, Zenon
<1>2. PICK c \in C : \A d \in Nat : d < c => d \notin C
  BY ONLY Zenon, <1>1, Least
<1>3. PICK x \in B : c = n - x
  BY Zenon
<1>4. \A m \in B : x >= m
  <2> SUFFICES ASSUME NEW m \in B, m > x PROVE FALSE
    OBVIOUS
  <2>1. n - m \in C /\ n - m \in Nat /\ n - m < c
    BY <1>3
  <2> QED  BY <1>2, <2>1, Zenon
<1>5. Max(B) \in B /\ \A m \in B : Max(B) >= m
  BY <1>4, Zenon DEF Max
<1> QED  BY <1>5, Zenon

(***************************************************************************)
(* ParquetCacheController.                                                 *)
(***************************************************************************)
InstanceList == [revision : Nat, instances : Seq(Pod)]

CacheStatus == [current : InstanceList, next : InstanceList]

CacheObject == [spec : CacheSpec, status : CacheStatus, edits : Nat]

Reconciling == [step : {"warm", "cool", "clear", "migrate", "publish", "save"},
                object : CacheObject, read : CacheObject, empty : SUBSET Hash]

\* Next is current, or current with one pod replaced.
OneStep(status) ==
    \/ status.next = status.current
    \/ /\ status.next.revision = status.current.revision + 1
       /\ \E i \in DOMAIN status.current.instances, h \in Hash :
             status.next.instances = [status.current.instances EXCEPT ![i].set = h]

ControllerTypes ==
    /\ {pc, seen} \subseteq CacheObject
    /\ cm \in CacheStatus \cup {NoMap}
    /\ ctl \in Reconciling \cup {Idle}

\* Every status, saved, seen, published or worked on, is one step; past the
\* warming check nothing is under way any more.
StatusesAreSteps ==
    /\ OneStep(pc.status) /\ OneStep(seen.status)
    /\ cm # NoMap => OneStep(cm)
    /\ ctl # Idle => OneStep(ctl.object.status)
    /\ ctl.step \in {"cool", "clear", "migrate"} =>
          ctl.object.status.current = ctl.object.status.next

StepInv == ControllerTypes /\ StatusesAreSteps

\* An idle controller and a missing config map are told from real ones.
LEMMA StepNames ==
    /\ Idle.step = "idle"
    /\ Idle \notin Reconciling
    /\ NoMap \notin CacheStatus
    /\ ctl \in Reconciling => ctl # Idle /\ ctl.step # "idle"
<1>1. Idle.step = "idle" /\ \A c \in Reconciling : c.step # "idle"
  BY Zenon DEF Idle, Reconciling
<1>2. \A st \in CacheStatus : DOMAIN st = {"current", "next"}
  BY Zenon DEF CacheStatus
<1>3. DOMAIN NoMap = {"map"}
  BY Zenon DEF NoMap
<1> QED  BY <1>1, <1>2, <1>3, Zenon

\* What is known of a reconcile that is at a step.
LEMMA Working ==
    ASSUME ControllerTypes, NEW step \in {"warm", "cool", "clear", "migrate", "publish", "save"},
           At(step)
    PROVE  /\ ctl \in Reconciling /\ ctl # Idle
           /\ Status \in CacheStatus /\ HashOf(ctl.object) \in Hash
           /\ ctl = [step |-> ctl.step, object |-> ctl.object, read |-> ctl.read,
                     empty |-> ctl.empty]
           /\ ctl.object = [spec |-> ctl.object.spec, status |-> Status, edits |-> ctl.object.edits]
           /\ Status = [current |-> Status.current, next |-> Status.next]
<1>1. ctl \in Reconciling /\ ctl # Idle
  BY StepNames, Zenon DEF ControllerTypes, At
<1>2. Status \in CacheStatus /\ HashOf(ctl.object) \in Hash
  BY <1>1, Zenon DEF Reconciling, CacheObject, Status, HashOf, Hash
<1>3. ctl = [step |-> ctl.step, object |-> ctl.object, read |-> ctl.read, empty |-> ctl.empty]
  BY <1>1, Zenon DEF Reconciling
<1>4. ctl.object = [spec |-> ctl.object.spec, status |-> Status, edits |-> ctl.object.edits]
  BY <1>1, Zenon DEF Reconciling, CacheObject, Status
<1>5. Status = [current |-> Status.current, next |-> Status.next]
  BY <1>2, Zenon DEF CacheStatus
<1> QED  BY <1>1, <1>2, <1>3, <1>4, <1>5, Zenon

\* A reconcile that goes to another step with another status.
LEMMA Moves ==
    ASSUME ControllerTypes, ctl \in Reconciling,
           NEW step \in {"warm", "cool", "clear", "migrate", "publish", "save"},
           NEW status \in CacheStatus,
           ctl' = [ctl EXCEPT !.step = step, !.object = [ctl.object EXCEPT !.status = status]]
    PROVE  /\ ctl' \in Reconciling /\ ctl'.step = step /\ ctl' # Idle
           /\ ctl'.object.status = status /\ ctl'.object.spec = ctl.object.spec
           /\ ctl'.read = ctl.read /\ ctl'.empty = ctl.empty
<1>1. [ctl.object EXCEPT !.status = status] \in CacheObject
  BY Zenon DEF Reconciling, CacheObject
<1>2. ctl' \in Reconciling /\ ctl'.step = step
  BY <1>1, Zenon DEF Reconciling
<1>3. ctl'.object.status = status /\ ctl'.object.spec = ctl.object.spec
  BY Zenon DEF Reconciling, CacheObject
<1>4. ctl'.read = ctl.read /\ ctl'.empty = ctl.empty
  BY Zenon DEF Reconciling
<1>5. ctl' # Idle
  BY <1>2, StepNames, Zenon
<1> QED  BY <1>2, <1>3, <1>4, <1>5, Zenon

\* A reconcile that only goes to another step keeps its object.
LEMMA Goes ==
    ASSUME ctl \in Reconciling,
           NEW step \in {"warm", "cool", "clear", "migrate", "publish", "save"},
           Goto(step)
    PROVE  /\ ctl' \in Reconciling /\ ctl'.step = step /\ ctl' # Idle
           /\ ctl'.object = ctl.object /\ ctl'.read = ctl.read /\ ctl'.empty = ctl.empty
<1>1. /\ ctl' \in Reconciling /\ ctl'.step = step
      /\ ctl'.object = ctl.object /\ ctl'.read = ctl.read /\ ctl'.empty = ctl.empty
  BY Zenon DEF Goto, Reconciling
<1> QED  BY <1>1, StepNames, Zenon

\* Steps that leave the object under work alone, or end the reconcile.
LEMMA SameStatus ==
    ASSUME StepInv, UNCHANGED <<pc, seen, cm>>,
           \/ ctl' = Idle
           \/ UNCHANGED ctl
           \/ /\ ctl' \in Reconciling /\ ctl \in Reconciling /\ ctl'.object = ctl.object
              /\ ctl'.step \in {"cool", "clear", "migrate"} =>
                    ctl.step \in {"cool", "clear", "migrate"}
    PROVE  StepInv'
<1>1. ControllerTypes'
  BY Zenon DEF StepInv, ControllerTypes
<1>2. StatusesAreSteps'
  BY StepNames, Zenon DEF StepInv, StatusesAreSteps
<1> QED  BY <1>1, <1>2, Zenon DEF StepInv

\* The object under work gets a status that is a step.
LEMMA NewStatus ==
    ASSUME StepInv, UNCHANGED <<pc, seen, cm>>, ctl' \in Reconciling, ctl' # Idle,
           OneStep(ctl'.object.status),
           ctl'.step \in {"cool", "clear", "migrate"} =>
              ctl'.object.status.current = ctl'.object.status.next
    PROVE  StepInv'
<1>1. ControllerTypes'
  BY Zenon DEF StepInv, ControllerTypes
<1>2. StatusesAreSteps'
  BY Zenon DEF StepInv, StatusesAreSteps
<1> QED  BY <1>1, <1>2, Zenon DEF StepInv

\* check_warming_pods: next becomes current, or nothing changes.
LEMMA WarmingIs ==
    ASSUME ControllerTypes, CheckWarmingPods
    PROVE  /\ ctl \in Reconciling /\ ctl.step = "warm"
           /\ \/ /\ Status.current.revision = Status.next.revision \/ FirstStop = 0
                 /\ ctl' \in Reconciling /\ ctl'.step = "cool" /\ ctl' # Idle
                 /\ ctl'.object.status = [current |-> Status.next, next |-> Status.next]
                 /\ ctl'.object.spec = ctl.object.spec /\ ctl'.read = ctl.read
              \/ /\ ctl' \in Reconciling /\ ctl'.step = "publish" /\ ctl' # Idle
                 /\ ctl'.object = ctl.object /\ ctl'.read = ctl.read
              \/ ctl' = Idle
<1>1. /\ ctl \in Reconciling /\ ctl.step = "warm" /\ Status \in CacheStatus
      /\ ctl.object \in CacheObject
  BY Working, Zenon DEF CheckWarmingPods, At, Reconciling
<1>2. CASE /\ Status.current.revision = Status.next.revision \/ FirstStop = 0
           /\ ctl' = [ctl EXCEPT !.step = "cool", !.object.status.current = Status.next]
  <2> DEFINE st == [current |-> Status.next, next |-> Status.next]
  <2>1. st \in CacheStatus
    BY <1>1, Zenon DEF CacheStatus
  <2>2. ctl' = [ctl EXCEPT !.step = "cool", !.object = [ctl.object EXCEPT !.status = st]]
    <3>1. [Status EXCEPT !.current = Status.next] = st
      BY <1>1 DEF CacheStatus
    <3>2. ctl' = [ctl EXCEPT !.step = "cool", !.object =
                    [ctl.object EXCEPT !.status = [Status EXCEPT !.current = Status.next]]]
      BY <1>1, <1>2, Zenon DEF Reconciling, Status
    <3> QED  BY <3>1, <3>2, Zenon
  <2> HIDE DEF st
  <2>3. /\ ctl' \in Reconciling /\ ctl'.step = "cool" /\ ctl' # Idle
        /\ ctl'.object.status = st
        /\ ctl'.object.spec = ctl.object.spec /\ ctl'.read = ctl.read
    BY <1>1, <2>1, <2>2, Moves, Zenon
  <2> QED  BY <1>1, <1>2, <2>3, Zenon DEF st
<1>3. CASE Goto("publish")
  BY <1>1, <1>3, Goes, Zenon
<1>4. CASE ctl' = Idle
  BY <1>1, <1>4, Zenon
<1> QED  BY <1>2, <1>3, <1>4, Zenon DEF CheckWarmingPods

\* check_warming_pods keeps every status a step.
LEMMA CheckWarmingStep ==
    ASSUME StepInv, CheckWarmingPods
    PROVE  StepInv'
<1>1. /\ UNCHANGED <<pc, seen, cm>> /\ ControllerTypes
  BY Zenon DEF CheckWarmingPods, StepInv
<1>2. CASE /\ ctl' \in Reconciling /\ ctl'.step = "cool" /\ ctl' # Idle
           /\ ctl'.object.status = [current |-> Status.next, next |-> Status.next]
  BY <1>1, <1>2, NewStatus DEF OneStep
<1>3. CASE /\ ctl \in Reconciling
           /\ ctl' \in Reconciling /\ ctl'.step = "publish" /\ ctl'.object = ctl.object
  BY <1>1, <1>3, SameStatus, Zenon
<1>4. CASE ctl' = Idle
  BY <1>1, <1>4, SameStatus, Zenon
<1> QED  BY <1>1, <1>2, <1>3, <1>4, WarmingIs, Zenon

\* First finds one of the positions, or there are none.
LEMMA FirstIs ==
    ASSUME NEW S, NEW s \in Seq(S), NEW I \in SUBSET DOMAIN s
    PROVE  \/ First(I) = 0 /\ I = {}
           \/ First(I) \in I /\ First(I) # 0
<1>1. I \in SUBSET Nat /\ 0 \notin I
  OBVIOUS
<1>2. CASE I = {}
  <2>1. First(I) = 0
    BY ONLY Zenon, <1>2 DEF First
  <2> QED  BY <1>2, <2>1, Zenon
<1>3. CASE I # {}
  <2>1. Min(I) \in I
    BY <1>1, <1>3, MinIsLeast, Zenon
  <2> QED  BY <1>1, <1>3, <2>1, Zenon DEF First
<1> QED  BY <1>2, <1>3, Zenon

\* The pod that takes over suffix for set h.
Added(h, suffix) ==
    sets' = [sets EXCEPT ![h].exists = TRUE, ![h].listed = TRUE, ![h].want = @ \cup {suffix}]

\* migrate: one pod of the current instance set is replaced in next.
LEMMA MigrateIs ==
    ASSUME StepInv, Migrate
    PROVE  LET h == HashOf(ctl.object)
               old == Status.current.instances
           IN  /\ ctl \in Reconciling /\ ctl.step = "migrate" /\ h \in Hash
               /\ Status \in CacheStatus /\ Status.current = Status.next
               /\ ctl' \in Reconciling /\ ctl'.step = "publish" /\ ctl' # Idle
               /\ ctl'.read = ctl.read /\ ctl'.object.spec = ctl.object.spec
               /\ \/ ctl'.object = ctl.object /\ UNCHANGED sets
                  \/ \E i \in DOMAIN old :
                        /\ old[i].set # h /\ i = First({j \in DOMAIN old : old[j].set # h})
                        /\ ctl'.object.status.current = Status.current
                        /\ ctl'.object.status.next =
                              [revision |-> Status.current.revision + 1,
                               instances |-> [old EXCEPT ![i].set = h]]
                        /\ Added(h, old[i].suffix)
<1> DEFINE h == HashOf(ctl.object)
           old == Status.current.instances
           I == {j \in DOMAIN old : old[j].set # h}
           i == First(I)
           suffix == old[i].suffix
           new == [revision |-> Status.current.revision + 1,
                   instances |-> [Status.next.instances EXCEPT
                                    ![i] = [set |-> h, suffix |-> suffix]]]
<1>1. /\ ctl \in Reconciling /\ ctl.step = "migrate" /\ h \in Hash /\ Status \in CacheStatus
      /\ ControllerTypes /\ Status.current = Status.next
  BY Working, Zenon DEF Migrate, At, StepInv, StatusesAreSteps, Status
<1>2. old \in Seq(Pod) /\ Status.current \in InstanceList /\ Status.current.revision \in Nat
  BY <1>1, Zenon DEF CacheStatus, InstanceList
<1>3. CASE i = 0
  <2>1. Goto("publish") /\ UNCHANGED sets
    BY <1>3, Zenon DEF Migrate
  <2> QED  BY <1>1, <2>1, Goes, Zenon
<1>4. CASE i # 0
  <2>1. i \in DOMAIN old /\ old[i].set # h
    <3>1. I \in SUBSET DOMAIN old
      BY Zenon
    <3>2. i \in I
      BY <1>2, <1>4, <3>1, FirstIs, Zenon
    <3> QED  BY <3>2, Zenon
  <2>2. /\ Added(h, suffix)
        /\ ctl' = [ctl EXCEPT !.step = "publish", !.object.status.next =
                     [revision |-> Status.current.revision + 1,
                      instances |-> [@.instances EXCEPT ![i] = [set |-> h, suffix |-> suffix]]]]
    BY <1>4, Zenon DEF Migrate, Added
  <2>0. i = First({j \in DOMAIN old : old[j].set # h})
    BY Zenon
  <2> HIDE DEF I, i
  <2>3. old[i] \in Pod
    BY <1>2, <2>1
  <2>4. [set |-> h, suffix |-> suffix] = [old[i] EXCEPT !.set = h]
    BY <2>3 DEF Pod
  <2>5. [set |-> h, suffix |-> suffix] \in Pod
    BY <1>1, <2>3, Zenon DEF Pod
  <2>6. new.instances = [old EXCEPT ![i].set = h] /\ new.instances \in Seq(Pod)
    <3>1. new.instances = [old EXCEPT ![i] = [set |-> h, suffix |-> suffix]]
      BY <1>1, Zenon
    <3>2. [old EXCEPT ![i] = [set |-> h, suffix |-> suffix]] \in Seq(Pod)
      BY ONLY <1>2, <2>1, <2>5
    <3> QED  BY <2>4, <3>1, <3>2, Zenon
  <2>7. new \in InstanceList /\ new.revision = Status.current.revision + 1
    BY <1>2, <2>6 DEF InstanceList
  <2>8. ctl' = [ctl EXCEPT !.step = "publish", !.object =
                  [ctl.object EXCEPT !.status = [Status EXCEPT !.next = new]]]
    BY <1>1, <2>2, Zenon DEF Reconciling, Status
  <2>9. [Status EXCEPT !.next = new] = [current |-> Status.current, next |-> new]
    BY <1>1 DEF CacheStatus
  <2>10. [current |-> Status.current, next |-> new] \in CacheStatus
    BY <1>2, <2>7, Zenon DEF CacheStatus
  <2> HIDE DEF new
  <2>11. /\ ctl' \in Reconciling /\ ctl'.step = "publish" /\ ctl' # Idle /\ ctl'.read = ctl.read
         /\ ctl'.object.spec = ctl.object.spec
         /\ ctl'.object.status = [current |-> Status.current, next |-> new]
    BY <1>1, <2>8, <2>9, <2>10, Moves, Zenon
  <2>12. new = [revision |-> Status.current.revision + 1, instances |-> [old EXCEPT ![i].set = h]]
    BY <2>6, <2>7, Zenon DEF InstanceList
  <2>13. /\ ctl'.object.status.current = Status.current
         /\ ctl'.object.status.next = [revision |-> Status.current.revision + 1,
                                       instances |-> [old EXCEPT ![i].set = h]]
    BY <2>11, <2>12
  <2> QED  BY <1>1, <2>0, <2>1, <2>2, <2>11, <2>13, Zenon
<1> QED  BY <1>3, <1>4, Zenon

\* Replacing one pod under the following revision is a step.
LEMMA ReplacedIsStep ==
    ASSUME NEW status, NEW i \in DOMAIN status.current.instances, NEW h \in Hash,
           status.next = [revision |-> status.current.revision + 1,
                          instances |-> [status.current.instances EXCEPT ![i].set = h]]
    PROVE  OneStep(status)
<1>1. status.next.revision = status.current.revision + 1
  OBVIOUS
<1>2. status.next.instances = [status.current.instances EXCEPT ![i].set = h]
  <2> DEFINE new == [status.current.instances EXCEPT ![i].set = h]
  <2>1. status.next = [revision |-> status.current.revision + 1, instances |-> new]
    BY Zenon
  <2> HIDE DEF new
  <2>2. status.next.instances = new
    BY ONLY <2>1
  <2> QED  BY ONLY <2>2, Zenon DEF new
<1> QED  BY <1>1, <1>2, Zenon DEF OneStep

\* migrate makes a step of a status that has none under way.
LEMMA MigrateStep ==
    ASSUME StepInv, Migrate
    PROVE  StepInv'
<1>1. UNCHANGED <<pc, seen, cm>>
  BY Zenon DEF Migrate
<1>2. CASE /\ ctl'.object = ctl.object /\ ctl' \in Reconciling /\ ctl \in Reconciling
           /\ ctl'.step = "publish"
  BY <1>1, <1>2, SameStatus, Zenon
<1>3. ASSUME ctl' \in Reconciling, ctl' # Idle, ctl'.step = "publish", HashOf(ctl.object) \in Hash,
             ctl'.object.status.current = Status.current,
             NEW i \in DOMAIN Status.current.instances,
             ctl'.object.status.next =
                [revision |-> Status.current.revision + 1,
                 instances |-> [Status.current.instances EXCEPT ![i].set = HashOf(ctl.object)]]
      PROVE  StepInv'
  <2>1. OneStep(ctl'.object.status)
    BY <1>3, ReplacedIsStep, Zenon
  <2> QED  BY <1>1, <1>3, <2>1, NewStatus, Zenon
<1> QED  BY <1>2, <1>3, MigrateIs, Zenon

\* check_cooling_pods goes on to one of three steps with the same object.
LEMMA CoolingIs ==
    ASSUME ControllerTypes, CheckCoolingPods
    PROVE  /\ ctl \in Reconciling /\ ctl.step = "cool"
           /\ ctl' \in Reconciling /\ ctl' # Idle /\ ctl'.step \in {"publish", "clear", "migrate"}
           /\ ctl'.object = ctl.object /\ ctl'.read = ctl.read
           /\ ctl'.step = "clear" => Len(Status.current.instances) # ctl.object.spec.replicas
           /\ ctl'.step = "migrate" => Len(Status.current.instances) = ctl.object.spec.replicas
<1>1. ctl \in Reconciling /\ ctl.step = "cool"
  BY Working, Zenon DEF CheckCoolingPods, At
<1>2. PICK step \in {"publish", "clear", "migrate"} :
          /\ Goto(step)
          /\ step = "clear" => Len(Status.current.instances) # ctl.object.spec.replicas
          /\ step = "migrate" => Len(Status.current.instances) = ctl.object.spec.replicas
  <2>1. PICK waiting \in Waiting :
            Goto(CASE waiting # {} -> "publish"
                   [] Len(Status.current.instances) # ctl.object.spec.replicas -> "clear"
                   [] OTHER -> "migrate")
    BY Zenon DEF CheckCoolingPods
  <2> DEFINE step == CASE waiting # {} -> "publish"
                       [] Len(Status.current.instances) # ctl.object.spec.replicas -> "clear"
                       [] OTHER -> "migrate"
  <2>2. /\ step \in {"publish", "clear", "migrate"}
        /\ step = "clear" => Len(Status.current.instances) # ctl.object.spec.replicas
        /\ step = "migrate" => Len(Status.current.instances) = ctl.object.spec.replicas
    BY Zenon
  <2>3. Goto(step)
    BY <2>1, Zenon
  <2> HIDE DEF step
  <2> QED  BY <2>2, <2>3, Zenon
<1> QED  BY <1>1, <1>2, Goes, Zenon

\* resize: every instance is a pod of the wanted set.
LEMMA FillIs ==
    ASSUME ControllerTypes, ResizeFill
    PROVE  LET h == HashOf(ctl.object)
               filled == [i \in 1 .. h.replicas |-> [set |-> h, suffix |-> i - 1]]
           IN  /\ ctl \in Reconciling /\ ctl.step = "clear" /\ h \in Hash
               /\ ctl' \in Reconciling /\ ctl'.step = "publish" /\ ctl' # Idle
               /\ ctl'.read = ctl.read /\ ctl'.object.spec = ctl.object.spec
               /\ ctl'.object.status.current = ctl'.object.status.next
               /\ ctl'.object.status.current =
                     [revision |-> Status.next.revision + 1, instances |-> filled]
               /\ sets' = [sets EXCEPT ![h].exists = TRUE, ![h].listed = TRUE,
                                       ![h].want = 0 .. h.replicas - 1]
<1> DEFINE h == HashOf(ctl.object)
           filled == [i \in 1 .. h.replicas |-> [set |-> h, suffix |-> i - 1]]
           list == [revision |-> Status.next.revision + 1, instances |-> filled]
           st == [current |-> list, next |-> list]
<1>1. /\ ctl \in Reconciling /\ ctl.step = "clear" /\ h \in Hash /\ Status \in CacheStatus
      /\ ctl.object.spec = h /\ ctl.object \in CacheObject
  BY Working, Zenon DEF ResizeFill, At, HashOf, Reconciling
<1>2. /\ ctl' = [ctl EXCEPT !.step = "publish", !.object.status = st]
      /\ sets' = [sets EXCEPT ![h].exists = TRUE, ![h].listed = TRUE,
                              ![h].want = 0 .. h.replicas - 1]
  BY <1>1, Zenon DEF ResizeFill
<1>3. st \in CacheStatus
  <2>1. h.replicas \in Nat
    BY <1>1, ControllerAssumption, Zenon DEF Hash
  <2>2. ASSUME NEW i \in 1 .. h.replicas PROVE [set |-> h, suffix |-> i - 1] \in Pod
    <3>1. i - 1 \in 0 .. h.replicas - 1
      BY ONLY <2>1, <2>2
    <3>2. i - 1 \in Suffix
      BY <1>1, <3>1, Zenon DEF Suffix
    <3> QED  BY <1>1, <3>2, Zenon DEF Pod
  <2>3. filled \in Seq(Pod)
    <3> HIDE DEF h
    <3> QED  BY <2>1, <2>2
  <2>4. Status.next.revision + 1 \in Nat
    BY <1>1 DEF CacheStatus, InstanceList
  <2>5. list \in InstanceList
    <3> HIDE DEF filled
    <3> QED  BY <2>3, <2>4, Zenon DEF InstanceList
  <2> HIDE DEF list
  <2> QED  BY <2>5, Zenon DEF CacheStatus
<1> HIDE DEF st
<1>4. ctl' = [ctl EXCEPT !.step = "publish", !.object = [ctl.object EXCEPT !.status = st]]
  BY <1>1, <1>2, Zenon DEF Reconciling
<1>5. /\ ctl' \in Reconciling /\ ctl'.step = "publish" /\ ctl' # Idle /\ ctl'.read = ctl.read
      /\ ctl'.object.spec = ctl.object.spec
      /\ ctl'.object.status = st
  BY <1>1, <1>3, <1>4, Moves, Zenon
<1>6. ctl'.object.status.current = list /\ ctl'.object.status.next = list
  <2> HIDE DEF list
  <2> QED  BY <1>5 DEF st
<1> QED  BY <1>1, <1>2, <1>5, <1>6, Zenon

\* A reconcile starts from the copy in the watch cache.
LEMMA StartIs ==
    ASSUME ControllerTypes, Start
    PROVE  /\ ctl = Idle
           /\ ctl' \in Reconciling /\ ctl' # Idle /\ ctl'.step = "warm"
           /\ ctl'.object = seen /\ ctl'.read = seen
           /\ ctl'.empty = {h \in Hash : /\ sets[h].exists
                                         /\ h # HashOf(seen)
                                         /\ DOMAIN sets[h].report = {}}
<1> DEFINE empty == {h \in Hash : /\ sets[h].exists
                                  /\ h # HashOf(seen)
                                  /\ DOMAIN sets[h].report = {}}
<1>1. ctl' = [step |-> "warm", object |-> seen, read |-> seen, empty |-> empty]
  BY Zenon DEF Start
<1>2. empty \in SUBSET Hash
  BY Zenon
<1> HIDE DEF empty
<1>3. ctl' \in Reconciling
  BY <1>1, <1>2, Zenon DEF Reconciling, ControllerTypes
<1>4. ctl'.step = "warm" /\ ctl'.object = seen /\ ctl'.read = seen /\ ctl'.empty = empty
  BY ONLY Zenon, <1>1
<1>5. ctl = Idle
  BY StepNames, Zenon DEF Start, At, ControllerTypes
<1>6. ctl' # Idle
  BY <1>3, StepNames, Zenon
<1> QED  BY <1>3, <1>4, <1>5, <1>6, Zenon DEF empty

\* Deleting an empty set keeps the object of the reconcile.
LEMMA RemoveIs ==
    ASSUME ControllerTypes, NEW h \in Hash, RemoveEmptyCacheSet(h)
    PROVE  /\ ctl \in Reconciling /\ ctl.step = "warm" /\ h \in ctl.empty
           /\ ctl' \in Reconciling /\ ctl' # Idle /\ ctl'.step = "warm"
           /\ ctl'.object = ctl.object /\ ctl'.read = ctl.read /\ ctl'.empty = ctl.empty \ {h}
<1>1. ctl \in Reconciling /\ ctl.step = "warm" /\ h \in ctl.empty
  BY Working, Zenon DEF RemoveEmptyCacheSet, At
<1>2. ctl' = [ctl EXCEPT !.empty = @ \ {h}]
  BY Zenon DEF RemoveEmptyCacheSet
<1>3. /\ ctl' \in Reconciling /\ ctl'.step = "warm"
      /\ ctl'.object = ctl.object /\ ctl'.read = ctl.read /\ ctl'.empty = ctl.empty \ {h}
  BY ONLY Zenon, <1>1, <1>2 DEF Reconciling
<1> QED  BY <1>1, <1>3, StepNames, Zenon

\* An edit keeps the status and counts up.
LEMMA EditIs ==
    ASSUME pc \in CacheObject, Edit
    PROVE  /\ pc' \in CacheObject /\ pc'.status = pc.status /\ pc'.edits = pc.edits + 1
           /\ UNCHANGED <<seen, cm, sets, ctl, cut>>
<1>1. PICK s \in CacheSpec : pc' = [pc EXCEPT !.spec = s, !.edits = @ + 1]
  BY Zenon DEF Edit
<1>2. pc' \in CacheObject /\ pc'.status = pc.status /\ pc'.edits = pc.edits + 1
  <2>1. pc' = [spec |-> s, status |-> pc.status, edits |-> pc.edits + 1]
    BY <1>1, Zenon DEF CacheObject
  <2>2. pc.status \in CacheStatus /\ pc.edits + 1 \in Nat
    BY DEF CacheObject
  <2> QED  BY ONLY Zenon, <1>1, <2>1, <2>2 DEF CacheObject
<1> QED  BY <1>2, Zenon DEF Edit

\* A save puts the status worked on into the object that was read.
LEMMA SaveIs ==
    ASSUME ControllerTypes, SaveStatus
    PROVE  /\ ctl \in Reconciling /\ ctl.step = "save" /\ ctl' = Idle /\ pc = ctl.read
           /\ pc' \in CacheObject /\ pc'.status = Status /\ pc'.edits = pc.edits
           /\ UNCHANGED <<seen, cm, sets, cut>>
<1>1. ctl \in Reconciling /\ ctl.step = "save" /\ Status \in CacheStatus
  BY Working, Zenon DEF SaveStatus, At
<1>2. pc' \in CacheObject /\ pc'.status = Status /\ pc'.edits = pc.edits
  BY <1>1, Zenon DEF SaveStatus, ControllerTypes, CacheObject
<1> QED  BY <1>1, <1>2, Zenon DEF SaveStatus

\* publish copies the status worked on to the config map.
LEMMA PublishIs ==
    ASSUME ControllerTypes, Publish
    PROVE  /\ ctl \in Reconciling /\ ctl.step = "publish" /\ ctl # Idle
           /\ cm' = Status /\ cm' \in CacheStatus
           /\ ctl' \in Reconciling /\ ctl'.step = "save" /\ ctl' # Idle
           /\ ctl'.object = ctl.object /\ ctl'.read = ctl.read
<1>1. ctl \in Reconciling /\ ctl.step = "publish" /\ Status \in CacheStatus
  BY Working, Zenon DEF Publish, At
<1>2. Goto("save") /\ cm' = Status
  BY Zenon DEF Publish
<1> QED  BY <1>1, <1>2, Goes, StepNames, Zenon

\* A new cache has no instances in either set.
LEMMA StepInvInit ==
    ASSUME ControllerInit
    PROVE  StepInv
<1>1. PICK s \in CacheSpec : pc = [spec |-> s,
                 status |-> [current |-> EmptyInstances, next |-> EmptyInstances],
                 edits |-> 0]
  BY Zenon DEF ControllerInit
<1>2. EmptyInstances \in InstanceList
  BY DEF EmptyInstances, InstanceList
<1>3. pc \in CacheObject /\ pc.status.next = pc.status.current
  <2> DEFINE status == [current |-> EmptyInstances, next |-> EmptyInstances]
  <2>1. status \in CacheStatus /\ status.next = status.current
    BY <1>2, Zenon DEF CacheStatus
  <2> HIDE DEF status
  <2>2. pc = [spec |-> s, status |-> status, edits |-> 0]
    BY <1>1, Zenon DEF status
  <2> QED  BY <2>1, <2>2, Zenon DEF CacheObject
<1>4. seen = pc /\ cm = NoMap /\ ctl = Idle
  BY Zenon DEF ControllerInit
<1>5. ctl.step \notin {"cool", "clear", "migrate"}
  BY <1>4, StepNames, Zenon
<1> QED  BY <1>3, <1>4, <1>5, Zenon DEF StepInv, ControllerTypes, StatusesAreSteps, OneStep

\* The config map is created from a status that is a step.
LEMMA StartStep ==
    ASSUME StepInv, Start
    PROVE  StepInv'
<1>1. ControllerTypes /\ StatusesAreSteps /\ UNCHANGED <<pc, seen>>
  BY Zenon DEF StepInv, Start
<1>2. /\ ctl' \in Reconciling /\ ctl' # Idle /\ ctl'.step = "warm" /\ ctl'.object = seen
  BY <1>1, StartIs, Zenon
<1>3. seen.status \in CacheStatus
  BY <1>1, Zenon DEF ControllerTypes, CacheObject
<1>4. CASE cm' = seen.status
  <2>1. ControllerTypes'
    BY <1>1, <1>2, <1>3, <1>4, Zenon DEF ControllerTypes
  <2>2. StatusesAreSteps'
    BY <1>1, <1>2, <1>4, Zenon DEF StatusesAreSteps
  <2> QED  BY <2>1, <2>2, Zenon DEF StepInv
<1>5. CASE cm' = cm
  <2>1. ControllerTypes'
    BY <1>1, <1>2, <1>5, Zenon DEF ControllerTypes
  <2>2. StatusesAreSteps'
    BY <1>1, <1>2, <1>5, Zenon DEF StatusesAreSteps
  <2> QED  BY <2>1, <2>2, Zenon DEF StepInv
<1> QED  BY <1>4, <1>5, Zenon DEF Start

\* Each API call of a reconcile keeps every status a step.
LEMMA ReconcileStep ==
    ASSUME StepInv, Reconcile
    PROVE  StepInv'
<1>0. ControllerTypes /\ StatusesAreSteps
  BY Zenon DEF StepInv
<1>1. CASE CheckCoolingPods
  <2>1. UNCHANGED <<pc, seen, cm>>
    BY <1>1, Zenon DEF CheckCoolingPods
  <2> QED  BY <1>0, <1>1, <2>1, CoolingIs, SameStatus, Zenon
<1>2. CASE CheckCoolingFails
  BY <1>2, SameStatus, Zenon DEF CheckCoolingFails
<1>3. ASSUME NEW h \in Hash, RemoveEmptyCacheSet(h) PROVE StepInv'
  <2>1. UNCHANGED <<pc, seen, cm>>
    BY <1>3, Zenon DEF RemoveEmptyCacheSet
  <2> QED  BY <1>0, <1>3, <2>1, RemoveIs, SameStatus, Zenon
<1>4. ASSUME NEW h \in Hash, ResizeClear(h) PROVE StepInv'
  BY <1>4, SameStatus, Zenon DEF ResizeClear
<1>5. CASE ResizeFill
  <2>1. UNCHANGED <<pc, seen, cm>>
    BY <1>5, Zenon DEF ResizeFill
  <2>2. /\ ctl' \in Reconciling /\ ctl' # Idle
        /\ ctl'.object.status.current = ctl'.object.status.next
    BY <1>0, <1>5, FillIs, Zenon
  <2> QED  BY <2>1, <2>2, NewStatus, Zenon DEF OneStep
<1>6. CASE Publish
  <2>1. UNCHANGED <<pc, seen>>
    BY <1>6, Zenon DEF Publish
  <2>2. /\ ctl # Idle /\ cm' = Status /\ cm' \in CacheStatus
        /\ ctl' \in Reconciling /\ ctl'.step = "save" /\ ctl'.object = ctl.object
    BY <1>0, <1>6, PublishIs, Zenon
  <2>3. ControllerTypes'
    BY <1>0, <2>1, <2>2, Zenon DEF ControllerTypes
  <2>4. StatusesAreSteps'
    BY <1>0, <2>1, <2>2, Zenon DEF StatusesAreSteps, Status
  <2> QED  BY <2>3, <2>4, Zenon DEF StepInv
<1>7. CASE SaveStatus
  <2>1. /\ ctl \in Reconciling /\ ctl' = Idle /\ pc' \in CacheObject /\ pc'.status = Status
        /\ UNCHANGED <<seen, cm>>
    BY <1>0, <1>7, SaveIs, Zenon
  <2>2. ctl # Idle /\ ctl'.step = "idle"
    BY <2>1, StepNames, Zenon
  <2>3. ControllerTypes'
    BY <1>0, <2>1, Zenon DEF ControllerTypes
  <2>4. StatusesAreSteps'
    BY <1>0, <2>1, <2>2, Zenon DEF StatusesAreSteps, Status
  <2> QED  BY <2>3, <2>4, Zenon DEF StepInv
<1>8. CASE SaveConflicts
  BY <1>8, SameStatus, Zenon DEF SaveConflicts
<1> QED  BY <1>1, <1>2, <1>3, <1>4, <1>5, <1>6, <1>7, <1>8,
            StartStep, CheckWarmingStep, MigrateStep, Zenon DEF Reconcile

\* So do edits, the watch, failures and the set controllers.
LEMMA StepInvNext ==
    ASSUME StepInv, [ControllerNext]_controllerVars
    PROVE  StepInv'
<1>0. ControllerTypes /\ StatusesAreSteps
  BY Zenon DEF StepInv
<1>1. CASE Edit
  <2>1. /\ pc' \in CacheObject /\ pc'.status = pc.status
        /\ UNCHANGED <<seen, cm, ctl>>
    BY <1>0, <1>1, EditIs, Zenon DEF ControllerTypes
  <2>2. ControllerTypes'
    BY <1>0, <2>1, Zenon DEF ControllerTypes
  <2>3. StatusesAreSteps'
    BY <1>0, <2>1, Zenon DEF StatusesAreSteps
  <2> QED  BY <2>2, <2>3, Zenon DEF StepInv
<1>2. CASE Watch
  <2>1. ControllerTypes'
    BY <1>0, <1>2, Zenon DEF ControllerTypes, Watch
  <2>2. StatusesAreSteps'
    BY <1>0, <1>2, Zenon DEF StatusesAreSteps, Watch
  <2> QED  BY <2>1, <2>2, Zenon DEF StepInv
<1>3. CASE Fail
  BY <1>3, SameStatus, Zenon DEF Fail
<1>4. ASSUME NEW h \in Hash, SetReconcile(h) PROVE StepInv'
  BY <1>4, SameStatus, Zenon DEF SetReconcile, SetStart, SetFinish
<1>5. CASE CollectPods
  BY <1>5, SameStatus, Zenon DEF CollectPods
<1>6. CASE UNCHANGED controllerVars
  BY <1>6, SameStatus, Zenon DEF controllerVars
<1> QED  BY <1>1, <1>2, <1>3, <1>4, <1>5, <1>6, ReconcileStep, Zenon DEF ControllerNext

\* Every status, saved, cached, published or worked on, is at most one pod away
\* from being settled, whatever copy a reconcile starts from.
THEOREM StatusesStaySteps == ControllerSpec => []StepInv
BY StepInvInit, StepInvNext, PTL DEF ControllerSpec

\* Every config map that the controller ever publishes moves at most one pod of
\* the key space: next is current, or current with one instance of another set
\* replaced by the pod of the same suffix, under the following revision.
THEOREM RolloutMovesOnePod == ControllerSpec => []OnePodAtATime
<1>1. StepInv => OnePodAtATime
  BY Zenon DEF StepInv, StatusesAreSteps, OneStep, OnePodAtATime
<1> QED  BY <1>1, StatusesStaySteps, PTL

(***************************************************************************)
(* What a reconcile can make of the object it read: it keeps next, or the  *)
(* one list that follows from the spec it read.                            *)
(***************************************************************************)
Filled(h) == [i \in 1 .. h.replicas |-> [set |-> h, suffix |-> i - 1]]

Moved(list, h) == [list EXCEPT ![First({j \in DOMAIN list : list[j].set # h})].set = h]

Outcome(object) ==
    [revision |-> object.status.next.revision + 1,
     instances |-> IF Len(object.status.next.instances) # object.spec.replicas
                   THEN Filled(object.spec)
                   ELSE Moved(object.status.next.instances, object.spec)]

Follows(object, list) == list = object.status.next \/ list = Outcome(object)

Behind(object) == object.edits <= pc.edits /\ Follows(object, pc.status.next)

Progress(c) ==
    /\ c.object.spec = c.read.spec
    /\ Follows(c.read, c.object.status.next)
    /\ c.step \in {"warm", "cool", "clear", "migrate"} => c.object.status.next = c.read.status.next
    /\ c.step = "clear" => Len(c.object.status.next.instances) # c.object.spec.replicas
    /\ c.step = "migrate" => Len(c.object.status.next.instances) = c.object.spec.replicas

\* A copy of the object is at most one save behind, and if the reconcile's is
\* not then the watch cache's is not either.
RevisionInv ==
    /\ Behind(seen)
    /\ ctl # Idle => /\ Behind(ctl.read)
                     /\ pc = ctl.read => seen = ctl.read
                     /\ Progress(ctl)

\* What follows from one object under one revision is one list.
LEMMA FollowsOneWay ==
    ASSUME NEW object \in CacheObject, NEW l1, NEW l2, Follows(object, l1), Follows(object, l2),
           l1.revision = l2.revision
    PROVE  l1 = l2
<1>1. object.status.next.revision \in Nat
  BY Zenon DEF CacheObject, CacheStatus, InstanceList
<1>2. Outcome(object).revision = object.status.next.revision + 1
  BY Zenon DEF Outcome
<1>3. Outcome(object).revision # object.status.next.revision
  BY ONLY <1>1, <1>2
<1> QED  BY ONLY <1>3, Follows(object, l1), Follows(object, l2), l1.revision = l2.revision
         DEF Follows

\* At first the copy in the watch cache is the object.
LEMMA RevisionInvInit ==
    ASSUME ControllerInit
    PROVE  RevisionInv
<1>1. seen = pc /\ ctl = Idle /\ pc \in CacheObject
  BY StepInvInit, Zenon DEF ControllerInit, StepInv, ControllerTypes
<1>2. pc.edits <= pc.edits
  BY <1>1 DEF CacheObject
<1> QED  BY <1>1, <1>2, Zenon DEF RevisionInv, Behind, Follows

\* A step of the reconcile.
LEMMA Progresses ==
    ASSUME RevisionInv, UNCHANGED <<pc, seen>>,
           \/ ctl' = Idle
           \/ UNCHANGED ctl
           \/ ctl # Idle /\ ctl'.read = ctl.read /\ Progress(ctl')
    PROVE  RevisionInv'
<1>1. Behind(seen)' /\ (ctl # Idle /\ ctl'.read = ctl.read => Behind(ctl.read)')
  BY Zenon DEF RevisionInv, Behind
<1>2. CASE ctl' = Idle
  BY <1>1, <1>2, Zenon DEF RevisionInv
<1>3. CASE UNCHANGED ctl
  BY <1>1, <1>3, Zenon DEF RevisionInv
<1>4. CASE ctl # Idle /\ ctl'.read = ctl.read /\ Progress(ctl')
  BY <1>1, <1>4, Zenon DEF RevisionInv
<1> QED  BY <1>2, <1>3, <1>4, Zenon

\* A reconcile makes of the object it read nothing but what follows from it.
LEMMA ReconcileRevision ==
    ASSUME StepInv, RevisionInv, Reconcile
    PROVE  RevisionInv'
<1>0. ControllerTypes /\ StatusesAreSteps
  BY Zenon DEF StepInv
<1>1. CASE Start
  <2>1. UNCHANGED <<pc, seen>>
    BY <1>1, Zenon DEF Start
  <2>2. ctl'.object = seen /\ ctl'.read = seen /\ ctl'.step = "warm"
    BY <1>0, <1>1, StartIs, Zenon
  <2>3. Progress(ctl')
    BY <2>2, Zenon DEF Progress, Follows
  <2>4. Behind(seen)' /\ Behind(ctl.read)'
    BY <2>1, <2>2, Zenon DEF RevisionInv, Behind
  <2> QED  BY <2>1, <2>2, <2>3, <2>4, Zenon DEF RevisionInv
<1>2. CASE CheckWarmingPods
  <2>1. UNCHANGED <<pc, seen>>
    BY <1>2, Zenon DEF CheckWarmingPods
  <2>2. ctl \in Reconciling /\ ctl.step = "warm" /\ ctl # Idle
    BY <1>0, <1>2, WarmingIs, StepNames, Zenon
  <2>3. Progress(ctl)
    BY <2>2, Zenon DEF RevisionInv
  <2>4. CASE /\ ctl'.step = "cool"
             /\ ctl'.object.status = [current |-> Status.next, next |-> Status.next]
             /\ ctl'.object.spec = ctl.object.spec /\ ctl'.read = ctl.read
    <3>1. ctl'.object.status.next = ctl.object.status.next
      BY <2>4 DEF Status
    <3>2. Progress(ctl')
      BY <2>2, <2>3, <2>4, <3>1, Zenon DEF Progress
    <3> QED  BY <2>1, <2>2, <2>4, <3>2, Progresses, Zenon
  <2>5. CASE ctl'.step = "publish" /\ ctl'.object = ctl.object /\ ctl'.read = ctl.read
    <3>1. Progress(ctl')
      BY <2>3, <2>5, Zenon DEF Progress
    <3> QED  BY <2>1, <2>2, <2>5, <3>1, Progresses, Zenon
  <2>6. CASE ctl' = Idle
    BY <2>1, <2>6, Progresses, Zenon
  <2> QED  BY <1>0, <1>2, <2>4, <2>5, <2>6, WarmingIs, Zenon
<1>3. CASE CheckCoolingPods
  <2>1. UNCHANGED <<pc, seen>>
    BY <1>3, Zenon DEF CheckCoolingPods
  <2>2. /\ ctl \in Reconciling /\ ctl.step = "cool" /\ ctl # Idle
        /\ ctl'.step \in {"publish", "clear", "migrate"}
        /\ ctl'.object = ctl.object /\ ctl'.read = ctl.read
        /\ ctl'.step = "clear" => Len(Status.current.instances) # ctl.object.spec.replicas
        /\ ctl'.step = "migrate" => Len(Status.current.instances) = ctl.object.spec.replicas
    BY <1>0, <1>3, CoolingIs, StepNames, Zenon
  <2>3. Progress(ctl) /\ Status.current = ctl.object.status.next
    BY <1>0, <2>2, Zenon DEF RevisionInv, StatusesAreSteps, Status
  <2>4. Progress(ctl')
    BY <2>2, <2>3, Zenon DEF Progress
  <2> QED  BY <2>1, <2>2, <2>4, Progresses, Zenon
<1>4. CASE CheckCoolingFails
  BY <1>4, Progresses, Zenon DEF CheckCoolingFails
<1>5. ASSUME NEW h \in Hash, RemoveEmptyCacheSet(h) PROVE RevisionInv'
  <2>1. UNCHANGED <<pc, seen>>
    BY <1>5, Zenon DEF RemoveEmptyCacheSet
  <2>2. /\ ctl \in Reconciling /\ ctl.step = "warm" /\ ctl # Idle /\ ctl'.step = "warm"
        /\ ctl'.object = ctl.object /\ ctl'.read = ctl.read
    BY <1>0, <1>5, RemoveIs, StepNames, Zenon
  <2>3. Progress(ctl')
    BY <2>2, Zenon DEF RevisionInv, Progress
  <2> QED  BY <2>1, <2>2, <2>3, Progresses, Zenon
<1>6. ASSUME NEW h \in Hash, ResizeClear(h) PROVE RevisionInv'
  BY <1>6, Progresses, Zenon DEF ResizeClear
<1>7. CASE ResizeFill
  <2>1. UNCHANGED <<pc, seen>>
    BY <1>7, Zenon DEF ResizeFill
  <2>2. /\ ctl \in Reconciling /\ ctl.step = "clear" /\ ctl # Idle /\ ctl'.step = "publish"
        /\ ctl'.object.spec = ctl.object.spec /\ ctl'.read = ctl.read
        /\ ctl'.object.status.next =
              [revision |-> Status.next.revision + 1, instances |-> Filled(ctl.object.spec)]
    BY <1>0, <1>7, FillIs, StepNames, Zenon DEF Filled, HashOf
  <2>3. /\ Progress(ctl) /\ Status.next = ctl.read.status.next
        /\ Len(ctl.read.status.next.instances) # ctl.read.spec.replicas
        /\ ctl.object.spec = ctl.read.spec
    BY <2>2, Zenon DEF RevisionInv, Progress, Status
  <2>4. ctl'.object.status.next = Outcome(ctl'.read)
    BY <2>2, <2>3, Zenon DEF Outcome
  <2>5. Progress(ctl')
    BY <2>2, <2>3, <2>4, Zenon DEF Progress, Follows
  <2> QED  BY <2>1, <2>2, <2>5, Progresses, Zenon
<1>8. CASE Migrate
  <2>1. UNCHANGED <<pc, seen>>
    BY <1>8, Zenon DEF Migrate
  <2>2. /\ ctl \in Reconciling /\ ctl.step = "migrate" /\ ctl # Idle /\ ctl'.step = "publish"
        /\ ctl'.object.spec = ctl.object.spec /\ ctl'.read = ctl.read
        /\ Status.current = Status.next
    BY <1>8, MigrateIs, StepNames, Zenon
  <2>3. /\ Progress(ctl) /\ Status.next = ctl.read.status.next
        /\ Len(ctl.read.status.next.instances) = ctl.read.spec.replicas
        /\ ctl.object.spec = ctl.read.spec
    BY <2>2, Zenon DEF RevisionInv, Progress, Status
  <2>4. CASE ctl'.object = ctl.object
    <3>1. Progress(ctl')
      BY <2>2, <2>3, <2>4, Zenon DEF Progress
    <3> QED  BY <2>1, <2>2, <3>1, Progresses, Zenon
  <2>5. CASE ctl'.object.status.next =
                [revision |-> Status.current.revision + 1,
                 instances |-> Moved(Status.current.instances, HashOf(ctl.object))]
    <3>1. ctl'.object.status.next = Outcome(ctl'.read)
      BY <2>2, <2>3, <2>5, Zenon DEF Outcome, HashOf
    <3>2. Progress(ctl')
      BY <2>2, <2>3, <3>1, Zenon DEF Progress, Follows
    <3> QED  BY <2>1, <2>2, <3>2, Progresses, Zenon
  <2> QED  BY <1>8, <2>4, <2>5, MigrateIs, Zenon DEF Moved
<1>9. CASE Publish
  <2>1. UNCHANGED <<pc, seen>>
    BY <1>9, Zenon DEF Publish
  <2>2. /\ ctl # Idle /\ ctl'.step = "save"
        /\ ctl'.object = ctl.object /\ ctl'.read = ctl.read
    BY <1>0, <1>9, PublishIs, Zenon
  <2>3. Progress(ctl')
    BY <2>2, Zenon DEF RevisionInv, Progress
  <2> QED  BY <2>1, <2>2, <2>3, Progresses, Zenon
<1>10. CASE SaveStatus
  <2>1. /\ ctl \in Reconciling /\ ctl # Idle /\ ctl' = Idle /\ pc = ctl.read
        /\ pc'.status = ctl.object.status /\ pc'.edits = pc.edits /\ UNCHANGED seen
    BY <1>0, <1>10, SaveIs, StepNames, Zenon DEF Status
  <2>2. seen = ctl.read /\ Follows(ctl.read, ctl.object.status.next) /\ seen.edits <= pc.edits
    BY <2>1, Zenon DEF RevisionInv, Progress, Behind
  <2> QED  BY <2>1, <2>2, Zenon DEF RevisionInv, Behind
<1>11. CASE SaveConflicts
  BY <1>11, Progresses, Zenon DEF SaveConflicts
<1> QED  BY <1>1, <1>2, <1>3, <1>4, <1>5, <1>6, <1>7, <1>8, <1>9, <1>10, <1>11, Zenon DEF Reconcile

\* An edit leaves copies behind, the watch catches up.
LEMMA RevisionInvNext ==
    ASSUME StepInv, RevisionInv, [ControllerNext]_controllerVars
    PROVE  RevisionInv'
<1>0. ControllerTypes /\ StatusesAreSteps
  BY Zenon DEF StepInv
<1>1. CASE Edit
  <2>1. /\ pc' \in CacheObject /\ pc'.status = pc.status /\ pc'.edits = pc.edits + 1
        /\ UNCHANGED <<seen, ctl>> /\ pc.edits \in Nat /\ seen.edits \in Nat
    BY <1>0, <1>1, EditIs, Zenon DEF ControllerTypes, CacheObject
  <2>2. Behind(seen)'
    BY <2>1 DEF RevisionInv, Behind
  <2>3. CASE ctl # Idle
    <3>1. ctl.read.edits \in Nat
      BY <1>0, <2>3, Zenon DEF ControllerTypes, Reconciling, CacheObject
    <3>2. Behind(ctl.read) /\ Progress(ctl)
      BY <2>3, Zenon DEF RevisionInv
    <3>3. Behind(ctl.read)' /\ pc' # ctl'.read
      BY <2>1, <3>1, <3>2 DEF Behind
    <3> QED  BY <2>1, <2>2, <3>2, <3>3, Zenon DEF RevisionInv
  <2> QED  BY <2>1, <2>2, <2>3, Zenon DEF RevisionInv
<1>2. CASE Watch
  <2>1. seen' = pc /\ UNCHANGED <<pc, ctl>>
    BY <1>2, Zenon DEF Watch
  <2>2. pc.edits <= pc.edits
    BY <1>0 DEF ControllerTypes, CacheObject
  <2>3. Behind(seen)'
    BY <2>1, <2>2, Zenon DEF Behind, Follows
  <2> QED  BY <2>1, <2>3, Zenon DEF RevisionInv, Behind
<1>3. CASE Fail
  BY <1>3, Progresses, Zenon DEF Fail
<1>4. ASSUME NEW h \in Hash, SetReconcile(h) PROVE RevisionInv'
  BY <1>4, Progresses, Zenon DEF SetReconcile, SetStart, SetFinish
<1>5. CASE CollectPods
  BY <1>5, Progresses, Zenon DEF CollectPods
<1>6. CASE UNCHANGED controllerVars
  BY <1>6, Progresses, Zenon DEF controllerVars
<1> QED  BY <1>1, <1>2, <1>3, <1>4, <1>5, <1>6, ReconcileRevision, Zenon DEF ControllerNext

\* A copy is never more than one save behind the object, and what was saved since
\* then is what follows from the copy.
THEOREM CopiesAreBehind == ControllerSpec => []RevisionInv
BY StatusesStaySteps, RevisionInvInit, RevisionInvNext, PTL DEF ControllerSpec

\* A published revision is never reused for another instance set, however old
\* the copy a reconcile starts from and wherever earlier ones failed, as long as
\* the saved status is the published one: two reconciles that give an instance
\* set the same revision read the same object and made the same of it.
THEOREM RevisionIsAName == ControllerSpec => RevisionNamesOneSet
<1> DEFINE Named == cm # NoMap /\ cm'.next.revision = cm.next.revision
                       => cm'.next = cm.next \/ pc.status.next # cm.next
<1>1. StepInv /\ RevisionInv /\ [ControllerNext]_controllerVars => [Named]_controllerVars
  <2> SUFFICES ASSUME StepInv, RevisionInv, ControllerNext, cm # NoMap,
                      cm'.next.revision = cm.next.revision, pc.status.next = cm.next
               PROVE  cm'.next = cm.next
    BY Zenon
  <2>1. CASE Publish
    <3>1. /\ ctl # Idle /\ cm' = ctl.object.status /\ ctl.read \in CacheObject
      BY <2>1, PublishIs, Zenon DEF StepInv, Status, Reconciling
    <3>2. Follows(ctl.read, cm.next) /\ Follows(ctl.read, cm'.next)
      BY <3>1, Zenon DEF RevisionInv, Behind, Progress
    <3> QED  BY <3>1, <3>2, FollowsOneWay, Zenon
  <2>2. CASE cm' = cm
    BY <2>2, Zenon
  <2> QED  BY <2>1, <2>2, Zenon DEF ControllerNext, Edit, Watch, Fail, SetReconcile, SetStart,
              SetFinish, CollectPods, Reconcile, Start, CheckWarmingPods, CheckCoolingPods,
              CheckCoolingFails, RemoveEmptyCacheSet, ResizeClear, ResizeFill, Migrate,
              SaveStatus, SaveConflicts
<1> QED  BY <1>1, StatusesStaySteps, CopiesAreBehind, PTL DEF ControllerSpec, RevisionNamesOneSet

(***************************************************************************)
(* Which pods the sets are told to have, as a function of the sets.        *)
(***************************************************************************)
SetsForm(s) ==
    s = [h \in Hash |-> [want |-> s[h].want, listed |-> s[h].listed,
                         report |-> s[h].report, exists |-> s[h].exists]]

Wanted(s, p) == p.suffix \in s[p.set].want \/ ~s[p.set].exists

\* A pod of a set that exists, has it and has reported.
Anchor(s, p) == s[p.set].exists /\ p.suffix \in s[p.set].want /\ DOMAIN s[p.set].report # {}

Live(status) == Range(status.current.instances) \cup Range(status.next.instances)

Mixed(list) == \E p, q \in Range(list.instances) : p.set # q.set

Anchored(s, list) == Mixed(list) => \A p \in Range(list.instances) : Anchor(s, p)

Kept(s, status) ==
    /\ \A p \in Live(status) : Wanted(s, p)
    /\ Anchored(s, status.current)

\* Until a reconcile begins to change the sets they keep the saved status.
SavedIsKept == ~cut /\ ctl.step \in {"idle", "warm", "cool"} => Kept(sets, pc.status)

WarmOnesStay ==
    ctl.step = "warm" =>
        /\ ctl.object = ctl.read
        /\ ~cut /\ Mixed(pc.status.current) =>
              \A p \in Range(pc.status.current.instances) : p.set \notin ctl.empty

\* From then on they keep the one that it will save, unless it works on a copy
\* that is behind.
WorkedOnIsKept ==
    ~cut /\ pc = ctl.read /\ ctl.step \in {"cool", "migrate", "publish", "save"} =>
        Kept(sets, ctl.object.status)

LiveInv == SetsForm(sets) /\ SavedIsKept /\ WarmOnesStay /\ WorkedOnIsKept

\* The instances of a list are pods of the sets.
LEMMA PodsOf ==
    ASSUME NEW list \in InstanceList, NEW p \in Range(list.instances)
    PROVE  p \in Pod /\ p.set \in Hash /\ p = [set |-> p.set, suffix |-> p.suffix]
<1>1. list.instances \in Seq(Pod)
  BY Zenon DEF InstanceList
<1>2. p \in Pod
  BY <1>1 DEF Range
<1> QED  BY <1>2, Zenon DEF Pod

\* So are the live pods of a status.
LEMMA LiveAre ==
    ASSUME NEW status \in CacheStatus, NEW p \in Live(status)
    PROVE  p \in Pod /\ p.set \in Hash /\ p = [set |-> p.set, suffix |-> p.suffix]
<1>1. status.current \in InstanceList /\ status.next \in InstanceList
  BY Zenon DEF CacheStatus
<1> QED  BY <1>1, PodsOf, Zenon DEF Live

\* Sets that change without losing what a status lives on still keep it.
LEMMA KeptMoves ==
    ASSUME NEW s, NEW t, NEW status, Kept(s, status),
           \A p \in Live(status) : Wanted(s, p) => Wanted(t, p),
           Mixed(status.current) =>
              \A p \in Range(status.current.instances) : Anchor(s, p) => Anchor(t, p)
    PROVE  Kept(t, status)
BY Zenon DEF Kept, Anchored

\* The sets stay and the reconcile ends or keeps its object.
LEMMA SetsStay ==
    ASSUME LiveInv, UNCHANGED <<pc, sets>>, ~cut' => ~cut,
           \/ UNCHANGED ctl
           \/ ctl' = Idle /\ (ctl.step \in {"idle", "warm", "cool"} \/ cut')
    PROVE  LiveInv'
<1>1. CASE UNCHANGED ctl
  BY <1>1, Zenon DEF LiveInv, SavedIsKept, WarmOnesStay, WorkedOnIsKept
<1>2. CASE ctl' = Idle /\ (ctl.step \in {"idle", "warm", "cool"} \/ cut')
  <2>1. ctl'.step = "idle"
    BY <1>2, StepNames, Zenon
  <2>2. ctl'.step \notin {"warm", "cool", "migrate", "publish", "save"}
    BY <2>1, Zenon
  <2>3. SavedIsKept'
    BY <1>2, Zenon DEF LiveInv, SavedIsKept
  <2>4. WarmOnesStay' /\ WorkedOnIsKept'
    BY <2>2, Zenon DEF WarmOnesStay, WorkedOnIsKept
  <2>5. SetsForm(sets)'
    BY Zenon DEF LiveInv
  <2> QED  BY <2>3, <2>4, <2>5, Zenon DEF LiveInv
<1> QED  BY <1>1, <1>2, Zenon

\* At first there are no sets and no instances.
LEMMA LiveInvInit ==
    ASSUME ControllerInit
    PROVE  LiveInv
<1>1. sets = [h \in Hash |-> NoSet] /\ ctl = Idle
  BY Zenon DEF ControllerInit
<1>2. SetsForm(sets)
  BY <1>1, Zenon DEF SetsForm, NoSet
<1>3. pc.status = [current |-> EmptyInstances, next |-> EmptyInstances]
  BY DEF ControllerInit
<1>4. Live(pc.status) = {} /\ Range(pc.status.current.instances) = {}
  BY <1>3 DEF Live, Range, EmptyInstances
<1>5. Kept(sets, pc.status)
  BY <1>4, Zenon DEF Kept, Anchored
<1>6. ctl.step = "idle"
  BY <1>1, StepNames, Zenon
<1>7. WarmOnesStay /\ WorkedOnIsKept
  BY <1>6, Zenon DEF WarmOnesStay, WorkedOnIsKept
<1> QED  BY <1>2, <1>5, <1>7, Zenon DEF LiveInv, SavedIsKept

\* The sets listed as empty hold no pod of a mixed current list.
LEMMA StartLive ==
    ASSUME StepInv, LiveInv, Start
    PROVE  LiveInv'
<1>1. /\ ctl = Idle /\ ctl'.step = "warm" /\ ctl'.object = ctl'.read
      /\ ctl'.empty = {h \in Hash : /\ sets[h].exists
                                    /\ h # HashOf(seen)
                                    /\ DOMAIN sets[h].report = {}}
      /\ UNCHANGED <<pc, sets, cut>>
  <2>1. ControllerTypes /\ UNCHANGED <<pc, sets, cut>>
    BY Zenon DEF StepInv, Start
  <2> QED  BY <2>1, StartIs, Zenon
<1>2. ctl.step = "idle"
  BY <1>1, StepNames, Zenon
<1>3. ~cut => Kept(sets, pc.status)
  BY <1>2, Zenon DEF LiveInv, SavedIsKept
<1>4. SetsForm(sets)' /\ SavedIsKept'
  BY <1>1, <1>3, Zenon DEF LiveInv, SavedIsKept
<1>5. WarmOnesStay'
  <2> SUFFICES ASSUME ~cut, Mixed(pc.status.current), NEW p \in Range(pc.status.current.instances)
               PROVE  p.set \notin ctl'.empty
    BY <1>1, Zenon DEF WarmOnesStay
  <2>1. DOMAIN sets[p.set].report # {}
    BY <1>3, Zenon DEF Kept, Anchored, Anchor
  <2> QED  BY <1>1, <2>1, Zenon
<1>6. WorkedOnIsKept'
  BY <1>1, Zenon DEF WorkedOnIsKept
<1> QED  BY <1>4, <1>5, <1>6, Zenon DEF LiveInv

\* Deleting an empty set takes away no pod that a mixed current list needs.
LEMMA RemoveLive ==
    ASSUME StepInv, LiveInv, NEW h \in Hash, RemoveEmptyCacheSet(h)
    PROVE  LiveInv'
<1>1. /\ ctl.step = "warm" /\ h \in ctl.empty /\ ctl'.step = "warm"
      /\ ctl'.object = ctl.object /\ ctl'.read = ctl.read /\ ctl'.empty = ctl.empty \ {h}
  BY RemoveIs, Zenon DEF StepInv
<1>2. sets' = [sets EXCEPT ![h] = NoSet] /\ UNCHANGED <<pc, cut>>
  BY Zenon DEF RemoveEmptyCacheSet
<1>3. SetsForm(sets) /\ SavedIsKept /\ WarmOnesStay
  BY Zenon DEF LiveInv
<1>4. SetsForm(sets') /\ ~sets'[h].exists /\ \A g \in Hash \ {h} : sets'[g] = sets[g]
  BY <1>2, <1>3, Zenon DEF SetsForm, NoSet
<1>5. ASSUME ~cut PROVE Kept(sets', pc.status)
  <2>1. Kept(sets, pc.status) /\ pc.status \in CacheStatus
    BY <1>1, <1>3, <1>5, Zenon DEF SavedIsKept, StepInv, ControllerTypes, CacheObject
  <2>2. ASSUME NEW p \in Live(pc.status), Wanted(sets, p) PROVE Wanted(sets', p)
    <3>1. p.set \in Hash
      BY <2>1, LiveAre, Zenon
    <3> QED  BY <1>4, <2>2, <3>1, Zenon DEF Wanted
  <2>3. ASSUME Mixed(pc.status.current), NEW p \in Range(pc.status.current.instances),
               Anchor(sets, p)
        PROVE  Anchor(sets', p)
    <3>1. p.set \in Hash /\ p.set # h
      BY <1>1, <1>3, <1>5, <2>1, <2>3, LiveAre, Zenon DEF WarmOnesStay, Live
    <3> QED  BY <1>4, <2>3, <3>1, Zenon DEF Anchor
  <2> QED  BY <2>1, <2>2, <2>3, KeptMoves, Zenon
<1>6. SavedIsKept'
  BY <1>2, <1>5, Zenon DEF SavedIsKept
<1>7. WarmOnesStay'
  BY <1>1, <1>2, <1>3, Zenon DEF WarmOnesStay
<1>8. WorkedOnIsKept'
  BY <1>1, Zenon DEF WorkedOnIsKept
<1> QED  BY <1>4, <1>6, <1>7, <1>8, Zenon DEF LiveInv

\* The warming check lets next take over only if no pod moves, or every pod of
\* it is reported by a set that exists.
LEMMA WarmedIsAnchored ==
    ASSUME StepInv, ctl \in Reconciling, Kept(sets, Status),
           Status.current.revision = Status.next.revision \/ FirstStop = 0
    PROVE  Anchored(sets, Status.next)
<1>1. Status \in CacheStatus /\ OneStep(Status)
  BY StepNames, Zenon DEF StepInv, StatusesAreSteps, Status, Reconciling, CacheObject
<1>2. CASE Status.next = Status.current
  BY <1>2, Zenon DEF Kept
<1>3. CASE Status.next # Status.current /\ FirstStop = 0
  <2>1. Status.next.instances \in Seq(Pod)
    BY <1>1, Zenon DEF CacheStatus, InstanceList
  <2>2. {i \in DOMAIN Status.next.instances : Stops(i)} = {}
    <3> DEFINE I == {i \in DOMAIN Status.next.instances : Stops(i)}
    <3>1. I \in SUBSET DOMAIN Status.next.instances /\ First(I) = 0
      BY <1>3, Zenon DEF FirstStop
    <3> HIDE DEF I
    <3>2. I = {}
      BY <2>1, <3>1, FirstIs, Zenon
    <3> QED  BY <3>2, Zenon DEF I
  <2>3. ASSUME NEW p \in Range(Status.next.instances) PROVE Anchor(sets, p)
    <3>1. PICK i \in DOMAIN Status.next.instances : p = Status.next.instances[i]
      BY Zenon DEF Range
    <3>2. sets[p.set].exists /\ IsWarming(p)
      BY <2>2, <3>1, Zenon DEF Stops
    <3>3. PICK x \in DOMAIN sets[p.set].report : p = [set |-> p.set, suffix |-> x]
      BY <3>2, Zenon DEF IsWarming, Reported
    <3>4. Wanted(sets, p)
      BY Zenon DEF Kept, Live
    <3> QED  BY <3>2, <3>3, <3>4, Zenon DEF Anchor, Wanted
  <2> QED  BY <2>3, Zenon DEF Anchored
<1>4. CASE Status.next # Status.current /\ Status.current.revision = Status.next.revision
  <2>1. Status.current.revision \in Nat /\ Status.next.revision = Status.current.revision + 1
    BY <1>1, <1>4, Zenon DEF OneStep, CacheStatus, InstanceList
  <2> QED  BY ONLY <1>4, <2>1
<1> QED  BY <1>2, <1>3, <1>4, Zenon

\* The warming check hands the cooling check a status that is kept.
LEMMA WarmingLive ==
    ASSUME StepInv, LiveInv, CheckWarmingPods
    PROVE  LiveInv'
<1>1. UNCHANGED <<pc, sets, cut>> /\ ControllerTypes
  BY Zenon DEF CheckWarmingPods, StepInv
<1>2. ctl \in Reconciling /\ ctl.step = "warm" /\ ctl.object = ctl.read
  BY <1>1, WarmingIs, Zenon DEF LiveInv, WarmOnesStay
<1>3. ~cut => Kept(sets, pc.status)
  BY <1>2, Zenon DEF LiveInv, SavedIsKept
<1>4. SetsForm(sets)' /\ SavedIsKept'
  BY <1>1, <1>3, Zenon DEF LiveInv, SavedIsKept
<1>5. CASE /\ Status.current.revision = Status.next.revision \/ FirstStop = 0
           /\ ctl'.step = "cool" /\ ctl'.read = ctl.read
           /\ ctl'.object.status = [current |-> Status.next, next |-> Status.next]
  <2>1. WarmOnesStay'
    BY <1>5, Zenon DEF WarmOnesStay
  <2>2. ASSUME ~cut, pc = ctl.read PROVE Kept(sets, ctl'.object.status)
    <3>1. Kept(sets, Status)
      BY <1>2, <1>3, <2>2, Zenon DEF Status
    <3>2. Anchored(sets, Status.next)
      BY <1>2, <1>5, <3>1, WarmedIsAnchored, Zenon
    <3>3. ctl'.object.status.current = Status.next /\ ctl'.object.status.next = Status.next
      BY <1>5
    <3> QED  BY <3>1, <3>2, <3>3, Zenon DEF Kept, Live
  <2>3. WorkedOnIsKept'
    BY <1>1, <1>5, <2>2, Zenon DEF WorkedOnIsKept
  <2> QED  BY <1>4, <2>1, <2>3, Zenon DEF LiveInv
<1>6. CASE ctl'.step = "publish" /\ ctl'.object = ctl.object /\ ctl'.read = ctl.read
  <2>1. WarmOnesStay'
    BY <1>6, Zenon DEF WarmOnesStay
  <2>2. WorkedOnIsKept'
    BY <1>1, <1>2, <1>3, <1>6, Zenon DEF WorkedOnIsKept
  <2> QED  BY <1>4, <2>1, <2>2, Zenon DEF LiveInv
<1>7. CASE ctl' = Idle
  BY <1>1, <1>2, <1>7, SetsStay, Zenon
<1> QED  BY <1>1, <1>5, <1>6, <1>7, WarmingIs, Zenon

\* Taking pods away changes nothing but the suffixes wanted.
LEMMA UnwantForm ==
    ASSUME NEW gone, SetsForm(sets), Unwant(gone)
    PROVE  /\ SetsForm(sets')
           /\ \A h \in Hash : /\ sets'[h].exists = sets[h].exists
                              /\ sets'[h].report = sets[h].report
                              /\ sets'[h].want =
                                    sets[h].want \ {p.suffix : p \in {q \in gone : q.set = h}}
<1>1. ASSUME NEW h \in Hash
      PROVE  sets'[h] = [want |-> sets[h].want \ {p.suffix : p \in {q \in gone : q.set = h}},
                         listed |-> sets[h].listed, report |-> sets[h].report,
                         exists |-> sets[h].exists]
  <2> DEFINE lost == {p.suffix : p \in {q \in gone : q.set = h}}
  <2>1. sets'[h] = [sets[h] EXCEPT !.want = @ \ lost]
    BY Zenon DEF Unwant
  <2>2. sets[h] = [want |-> sets[h].want, listed |-> sets[h].listed,
                   report |-> sets[h].report, exists |-> sets[h].exists]
    BY Zenon DEF SetsForm
  <2> HIDE DEF lost
  <2>3. sets'[h] = [want |-> sets[h].want \ lost, listed |-> sets[h].listed,
                    report |-> sets[h].report, exists |-> sets[h].exists]
    BY ONLY Zenon, <2>1, <2>2
  <2> QED  BY <2>3, Zenon DEF lost
<1>2. ASSUME NEW h \in Hash
      PROVE  /\ sets'[h].exists = sets[h].exists
             /\ sets'[h].report = sets[h].report
             /\ sets'[h].want = sets[h].want \ {p.suffix : p \in {q \in gone : q.set = h}}
             /\ sets'[h] = [want |-> sets'[h].want, listed |-> sets'[h].listed,
                            report |-> sets'[h].report, exists |-> sets'[h].exists]
  <2> DEFINE lost == sets[h].want \ {p.suffix : p \in {q \in gone : q.set = h}}
  <2>1. sets'[h] = [want |-> lost, listed |-> sets[h].listed, report |-> sets[h].report,
                    exists |-> sets[h].exists]
    BY <1>1, Zenon
  <2> HIDE DEF lost
  <2>2. /\ sets'[h].exists = sets[h].exists
        /\ sets'[h].report = sets[h].report
        /\ sets'[h].want = lost
        /\ sets'[h].listed = sets[h].listed
    BY ONLY <2>1
  <2> QED  BY <2>1, <2>2, Zenon DEF lost
<1>3. sets' = [h \in Hash |-> sets'[h]]
  BY Zenon DEF Unwant
<1>4. SetsForm(sets')
  BY <1>2, <1>3, Zenon DEF SetsForm
<1> QED  BY <1>2, <1>4, Zenon

\* No live pod is among those that the cooling check takes away.
LEMMA UnwantKeeps ==
    ASSUME NEW gone \in SUBSET CoolingPods, SetsForm(sets), Unwant(gone),
           Status \in CacheStatus, Kept(sets, Status)
    PROVE  Kept(sets', Status)
<1>1. ASSUME NEW p \in Live(Status)
      PROVE  /\ p.set \in Hash
             /\ p.suffix \notin {q.suffix : q \in {r \in gone : r.set = p.set}}
  <2>1. p.set \in Hash /\ p = [set |-> p.set, suffix |-> p.suffix]
    BY LiveAre, Zenon
  <2>2. ASSUME NEW q \in gone, q.set = p.set, p.suffix = q.suffix PROVE FALSE
    <3>1. q \notin LivePods /\ q \in UNION {Reported(h) : h \in Hash \ {HashOf(ctl.object)}}
      BY Zenon DEF CoolingPods
    <3>2. PICK h \in Hash : q \in Reported(h)
      BY <3>1, Zenon
    <3>3. PICK x : q = [set |-> h, suffix |-> x]
      BY <3>2, Zenon DEF Reported
    <3>4. q = p
      BY ONLY Zenon, <2>1, <2>2, <3>3
    <3> QED  BY <3>1, <3>4, Zenon DEF Live, LivePods
  <2> QED  BY <2>1, <2>2, Zenon
<1>2. /\ SetsForm(sets')
      /\ \A h \in Hash : /\ sets'[h].exists = sets[h].exists
                         /\ sets'[h].report = sets[h].report
                         /\ sets'[h].want =
                               sets[h].want \ {p.suffix : p \in {q \in gone : q.set = h}}
  BY UnwantForm, Zenon
<1>3. ASSUME NEW p \in Live(Status), Wanted(sets, p) PROVE Wanted(sets', p)
  BY <1>1, <1>2, <1>3, Zenon DEF Wanted
<1>4. ASSUME NEW p \in Range(Status.current.instances), Anchor(sets, p) PROVE Anchor(sets', p)
  <2>1. p \in Live(Status)
    BY Zenon DEF Live
  <2> QED  BY <1>1, <1>2, <1>4, <2>1, Zenon DEF Anchor
<1> QED  BY <1>3, <1>4, KeptMoves, Zenon

\* The cooling check keeps the status that will be saved.
LEMMA CoolingLive ==
    ASSUME StepInv, LiveInv, CheckCoolingPods
    PROVE  LiveInv'
<1>1. UNCHANGED <<pc, cut>> /\ ControllerTypes /\ SetsForm(sets)
  BY Zenon DEF CheckCoolingPods, StepInv, LiveInv
<1>2. /\ ctl.step = "cool" /\ ctl'.step \in {"publish", "clear", "migrate"}
      /\ ctl'.object = ctl.object /\ ctl'.read = ctl.read
  BY <1>1, CoolingIs, Zenon
<1>3. PICK gone \in SUBSET CoolingPods : Unwant(gone)
  BY Zenon DEF CheckCoolingPods
<1>4. SetsForm(sets')
  BY <1>1, <1>3, UnwantForm, Zenon
<1>5. Status \in CacheStatus
  BY <1>1, Working, Zenon DEF CheckCoolingPods
<1>6. SavedIsKept' /\ WarmOnesStay'
  BY <1>2, Zenon DEF SavedIsKept, WarmOnesStay
<1>7. ASSUME ~cut, pc = ctl.read PROVE Kept(sets', ctl.object.status)
  <2>1. Kept(sets, Status)
    BY <1>2, <1>7, Zenon DEF LiveInv, WorkedOnIsKept, Status
  <2>2. Kept(sets', Status)
    BY <1>1, <1>3, <1>5, <2>1, UnwantKeeps, Zenon
  <2> QED  BY <2>2, Zenon DEF Status
<1>8. WorkedOnIsKept'
  BY <1>1, <1>2, <1>7, Zenon DEF WorkedOnIsKept
<1> QED  BY <1>4, <1>6, <1>8, Zenon DEF LiveInv

\* A cooling check that fails before it took away a pod keeps the saved one.
LEMMA CoolingFailsLive ==
    ASSUME StepInv, LiveInv, CheckCoolingFails
    PROVE  LiveInv'
<1>1. PICK gone : Unwant(gone) /\ cut' = (cut \/ gone # {})
  BY Zenon DEF CheckCoolingFails
<1>2. ctl' = Idle /\ ctl.step = "cool" /\ UNCHANGED pc /\ SetsForm(sets)
  BY Zenon DEF CheckCoolingFails, At, LiveInv
<1>3. ctl'.step = "idle"
  BY <1>2, StepNames, Zenon
<1>4. SetsForm(sets')
  BY <1>1, <1>2, UnwantForm, Zenon
<1>5. ASSUME ~cut' PROVE Kept(sets', pc.status)
  <2>1. ~cut /\ gone = {}
    BY <1>1, <1>5, Zenon
  <2>2. Kept(sets, pc.status) /\ pc.status \in CacheStatus
    BY <1>2, <2>1, Zenon DEF LiveInv, SavedIsKept, StepInv, ControllerTypes, CacheObject
  <2>3. \A h \in Hash : /\ sets'[h].exists = sets[h].exists
                        /\ sets'[h].report = sets[h].report
                        /\ sets'[h].want = sets[h].want
    <3>1. ASSUME NEW h \in Hash
          PROVE  sets[h].want \ {p.suffix : p \in {q \in gone : q.set = h}} = sets[h].want
      BY <2>1, Zenon
    <3> QED  BY <1>1, <1>2, <3>1, UnwantForm, Zenon
  <2>4. ASSUME NEW p \in Live(pc.status)
        PROVE  (Wanted(sets, p) => Wanted(sets', p)) /\ (Anchor(sets, p) => Anchor(sets', p))
    <3>1. p.set \in Hash
      BY <2>2, LiveAre, Zenon
    <3> QED  BY <2>3, <3>1, Zenon DEF Wanted, Anchor
  <2>5. Range(pc.status.current.instances) \subseteq Live(pc.status)
    BY Zenon DEF Live
  <2> QED  BY <2>2, <2>4, <2>5, KeptMoves, Zenon
<1>6. SavedIsKept'
  BY <1>2, <1>5, Zenon DEF SavedIsKept
<1>7. WarmOnesStay' /\ WorkedOnIsKept'
  BY <1>3, Zenon DEF WarmOnesStay, WorkedOnIsKept
<1> QED  BY <1>4, <1>6, <1>7, Zenon DEF LiveInv

\* Changing one set keeps the form of all.
LEMMA SetChanges ==
    ASSUME SetsForm(sets), NEW h \in Hash, sets' = [g \in Hash |-> sets'[g]],
           sets'[h] = [want |-> sets'[h].want, listed |-> sets'[h].listed,
                       report |-> sets'[h].report, exists |-> sets'[h].exists],
           \A g \in Hash \ {h} : sets'[g] = sets[g]
    PROVE  SetsForm(sets')
<1>1. ASSUME NEW g \in Hash
      PROVE  sets'[g] = [want |-> sets'[g].want, listed |-> sets'[g].listed,
                         report |-> sets'[g].report, exists |-> sets'[g].exists]
  <2>1. CASE g = h
    BY <2>1, Zenon
  <2>2. CASE g # h
    BY <2>2, Zenon DEF SetsForm
  <2> QED  BY <2>1, <2>2, Zenon
<1> QED  BY <1>1, Zenon DEF SetsForm

IsSet(r) == r = [want |-> r.want, listed |-> r.listed, report |-> r.report, exists |-> r.exists]

\* Changing one field of a set keeps its form and the other fields.
LEMMA FieldChanges ==
    ASSUME NEW r, IsSet(r), NEW x
    PROVE  /\ IsSet([r EXCEPT !.want = x]) /\ IsSet([r EXCEPT !.listed = x])
           /\ IsSet([r EXCEPT !.exists = x])
           /\ [r EXCEPT !.want = x].want = x /\ [r EXCEPT !.want = x].report = r.report
           /\ [r EXCEPT !.want = x].exists = r.exists
           /\ [r EXCEPT !.listed = x].report = r.report
           /\ [r EXCEPT !.listed = x].exists = r.exists
           /\ [r EXCEPT !.exists = x].exists = x /\ [r EXCEPT !.exists = x].report = r.report
BY DEF IsSet

\* The ways in which a step changes some fields of a set.
LEMMA SetGets ==
    ASSUME SetsForm(sets), NEW h \in Hash, NEW want,
           sets' = [sets EXCEPT ![h].exists = TRUE, ![h].listed = TRUE, ![h].want = want]
    PROVE  /\ SetsForm(sets')
           /\ sets'[h].want = want /\ sets'[h].report = sets[h].report /\ sets'[h].exists
           /\ \A g \in Hash \ {h} : sets'[g] = sets[g]
<1> DEFINE a == [sets[h] EXCEPT !.exists = TRUE]
           b == [a EXCEPT !.listed = TRUE]
           new == [b EXCEPT !.want = want]
<1>1. DOMAIN sets = Hash /\ IsSet(sets[h])
  BY Zenon DEF SetsForm, IsSet
<1>2. sets' = [sets EXCEPT ![h] = new]
  BY <1>1, Zenon
<1>3. IsSet(a) /\ a.report = sets[h].report /\ a.exists = TRUE
  BY <1>1, FieldChanges, Zenon
<1> HIDE DEF a
<1>4. IsSet(b) /\ b.report = a.report /\ b.exists = a.exists
  BY <1>3, FieldChanges, Zenon
<1> HIDE DEF b
<1>5. IsSet(new) /\ new.want = want /\ new.report = b.report /\ new.exists = b.exists
  <2>1. IsSet(new)
    BY ONLY <1>4, FieldChanges, Zenon
  <2>2. new.want = want
    BY ONLY Zenon, <1>4 DEF IsSet
  <2>3. new.report = b.report
    BY ONLY <1>4, FieldChanges, Zenon
  <2>4. new.exists = b.exists
    BY ONLY <1>4, FieldChanges, Zenon
  <2> QED  BY <2>1, <2>2, <2>3, <2>4, Zenon
<1> HIDE DEF new
<1>6. /\ sets' = [g \in Hash |-> sets'[g]] /\ sets'[h] = new
      /\ \A g \in Hash \ {h} : sets'[g] = sets[g]
  BY <1>1, <1>2, Zenon
<1>7. SetsForm(sets')
  BY <1>5, <1>6, SetChanges, Zenon DEF IsSet
<1> QED  BY <1>3, <1>4, <1>5, <1>6, <1>7, Zenon

\* A status write of the set controller changes the reports alone.
LEMMA SetReports ==
    ASSUME SetsForm(sets), NEW h \in Hash, NEW report, sets' = [sets EXCEPT ![h].report = report]
    PROVE  /\ SetsForm(sets')
           /\ sets'[h].want = sets[h].want /\ sets'[h].report = report
           /\ sets'[h].exists = sets[h].exists
           /\ \A g \in Hash \ {h} : sets'[g] = sets[g]
<1> DEFINE new == [sets[h] EXCEPT !.report = report]
<1>1. /\ DOMAIN sets = Hash
      /\ sets[h] = [want |-> sets[h].want, listed |-> sets[h].listed,
                    report |-> sets[h].report, exists |-> sets[h].exists]
  BY Zenon DEF SetsForm
<1>2. sets' = [sets EXCEPT ![h] = new]
  BY <1>1, Zenon
<1>3. new = [want |-> sets[h].want, listed |-> sets[h].listed, report |-> report,
             exists |-> sets[h].exists]
  BY <1>1
<1> HIDE DEF new
<1>4. /\ new.want = sets[h].want /\ new.report = report /\ new.exists = sets[h].exists
      /\ new = [want |-> new.want, listed |-> new.listed, report |-> new.report,
                exists |-> new.exists]
  BY ONLY Zenon, <1>3
<1>5. /\ sets' = [g \in Hash |-> sets'[g]] /\ sets'[h] = new
      /\ \A g \in Hash \ {h} : sets'[g] = sets[g]
  BY <1>1, <1>2, Zenon
<1> QED  BY <1>4, <1>5, SetChanges, Zenon

\* While a resize clears the sets no status is claimed to be kept.
LEMMA ClearLive ==
    ASSUME StepInv, LiveInv, NEW h \in Hash, ResizeClear(h)
    PROVE  LiveInv'
<1> DEFINE a == [sets[h] EXCEPT !.want = {}]
           new == [a EXCEPT !.listed = FALSE]
<1>1. ctl.step = "clear" /\ UNCHANGED ctl /\ SetsForm(sets)
  BY Zenon DEF ResizeClear, At, LiveInv
<1>2. DOMAIN sets = Hash /\ IsSet(sets[h])
  BY <1>1, Zenon DEF SetsForm, IsSet
<1>3. sets' = [sets EXCEPT ![h] = new]
  BY <1>2, Zenon DEF ResizeClear
<1>4. IsSet(a)
  BY <1>2, FieldChanges, Zenon
<1> HIDE DEF a
<1>5. IsSet(new)
  BY <1>4, FieldChanges, Zenon
<1> HIDE DEF new
<1>6. /\ sets' = [g \in Hash |-> sets'[g]] /\ sets'[h] = new
      /\ \A g \in Hash \ {h} : sets'[g] = sets[g]
  BY <1>2, <1>3, Zenon
<1>7. SetsForm(sets')
  BY <1>1, <1>5, <1>6, SetChanges, Zenon DEF IsSet
<1>8. SavedIsKept' /\ WarmOnesStay' /\ WorkedOnIsKept'
  BY <1>1, Zenon DEF SavedIsKept, WarmOnesStay, WorkedOnIsKept
<1> QED  BY <1>7, <1>8, Zenon DEF LiveInv

\* A resize ends with a status whose pods its one set is told to have.
LEMMA FillLive ==
    ASSUME StepInv, LiveInv, ResizeFill
    PROVE  LiveInv'
<1> DEFINE h == HashOf(ctl.object)
<1>1. /\ h \in Hash /\ ctl'.step = "publish"
      /\ ctl'.object.status.current = ctl'.object.status.next
      /\ ctl'.object.status.current =
            [revision |-> Status.next.revision + 1,
             instances |-> [i \in 1 .. h.replicas |-> [set |-> h, suffix |-> i - 1]]]
      /\ sets' = [sets EXCEPT ![h].exists = TRUE, ![h].listed = TRUE,
                              ![h].want = 0 .. h.replicas - 1]
  BY FillIs, Zenon DEF StepInv
<1>2. h.replicas \in Nat
  BY <1>1, ControllerAssumption, Zenon DEF Hash
<1> HIDE DEF h
<1>3. SetsForm(sets') /\ sets'[h].want = 0 .. h.replicas - 1
  BY <1>1, SetGets, Zenon DEF LiveInv
<1>4. ASSUME NEW p \in Range(ctl'.object.status.current.instances)
      PROVE  p.set = h /\ p.suffix \in 0 .. h.replicas - 1
  <2> DEFINE list == [i \in 1 .. h.replicas |-> [set |-> h, suffix |-> i - 1]]
  <2>1. ctl'.object.status.current.instances = list
    <3> HIDE DEF list
    <3> QED  BY <1>1 DEF list
  <2>2. PICK i \in 1 .. h.replicas : p = [set |-> h, suffix |-> i - 1]
    <3>1. PICK i \in DOMAIN list : p = list[i]
      BY <2>1, Zenon DEF Range
    <3> QED  BY <3>1, Zenon
  <2> QED  BY ONLY <1>2, <2>2
<1>5. Kept(sets', ctl'.object.status)
  <2>1. \A p \in Live(ctl'.object.status) : Wanted(sets', p)
    BY <1>1, <1>3, <1>4, Zenon DEF Live, Wanted
  <2>2. ~Mixed(ctl'.object.status.current)
    BY <1>4, Zenon DEF Mixed
  <2> QED  BY <2>1, <2>2, Zenon DEF Kept, Anchored
<1>6. SavedIsKept' /\ WarmOnesStay'
  BY <1>1, Zenon DEF SavedIsKept, WarmOnesStay
<1>7. WorkedOnIsKept'
  BY <1>5, Zenon DEF WorkedOnIsKept
<1> QED  BY <1>3, <1>6, <1>7, Zenon DEF LiveInv

\* A pod joins set h: what was anchored stays so, and all that was wanted too,
\* but for a pod of h that was wanted because h did not exist.
LEMMA AddedKeeps ==
    ASSUME SetsForm(sets), NEW h \in Hash, NEW suffix, Added(h, suffix), NEW p, p.set \in Hash
    PROVE  /\ SetsForm(sets')
           /\ suffix \in sets'[h].want
           /\ Anchor(sets, p) => Anchor(sets', p) /\ Wanted(sets', p)
           /\ Wanted(sets, p) /\ p.set # h => Wanted(sets', p)
<1>1. /\ SetsForm(sets')
      /\ sets'[h].want = sets[h].want \cup {suffix}
      /\ sets'[h].report = sets[h].report /\ sets'[h].exists
      /\ \A g \in Hash \ {h} : sets'[g] = sets[g]
  <2>1. sets' = [sets EXCEPT ![h].exists = TRUE, ![h].listed = TRUE,
                             ![h].want = sets[h].want \cup {suffix}]
    <3>1. DOMAIN sets = Hash /\ IsSet(sets[h])
      BY Zenon DEF SetsForm, IsSet
    <3> QED  BY <3>1, Zenon DEF Added, IsSet
  <2> QED  BY <2>1, SetGets, Zenon
<1>2. CASE p.set = h
  BY <1>1, <1>2, Zenon DEF Anchor, Wanted
<1>3. CASE p.set # h
  BY <1>1, <1>3, Zenon DEF Anchor, Wanted
<1> QED  BY <1>1, <1>2, <1>3, Zenon

\* The list that migrate makes holds the new pod and pods of the old list.
LEMMA ReplacedPods ==
    ASSUME NEW old \in Seq(Pod), NEW i \in DOMAIN old, NEW h,
           NEW p \in Range([old EXCEPT ![i].set = h])
    PROVE  \/ p.set = h /\ p.suffix = old[i].suffix
           \/ p \in Range(old)
<1> DEFINE new == [old EXCEPT ![i].set = h]
<1>1. PICK j \in DOMAIN new : p = new[j]
  BY Zenon DEF Range
<1>2. j \in DOMAIN old
  BY <1>1, Zenon
<1>3. CASE j = i
  <2>1. p = [old[i] EXCEPT !.set = h] /\ old[i] \in Pod
    BY <1>1, <1>3
  <2> QED  BY ONLY Zenon, <2>1 DEF Pod
<1>4. CASE j # i
  <2>1. p = old[j]
    BY <1>1, <1>2, <1>4, Zenon
  <2> QED  BY <1>2, <2>1, Zenon DEF Range
<1> QED  BY <1>3, <1>4, Zenon

\* migrate keeps both lists: the set that gains a pod either existed or had none
\* in the current list.
LEMMA MigrateLive ==
    ASSUME StepInv, LiveInv, Migrate
    PROVE  LiveInv'
<1> DEFINE h == HashOf(ctl.object)
           old == Status.current.instances
<1>1. /\ ctl.step = "migrate" /\ h \in Hash
      /\ Status \in CacheStatus /\ Status.current = Status.next
      /\ ctl'.step = "publish" /\ ctl'.read = ctl.read
  BY MigrateIs, Zenon
<1>2. UNCHANGED <<pc, cut>> /\ SetsForm(sets)
  BY Zenon DEF Migrate, LiveInv
<1>3. ~cut /\ pc = ctl.read => Kept(sets, Status)
  BY <1>1, Zenon DEF LiveInv, WorkedOnIsKept, Status
<1>4. SavedIsKept' /\ WarmOnesStay'
  BY <1>1, Zenon DEF SavedIsKept, WarmOnesStay
<1>5. CASE ctl'.object = ctl.object /\ UNCHANGED sets
  <2>1. WorkedOnIsKept'
    BY <1>1, <1>2, <1>3, <1>5, Zenon DEF WorkedOnIsKept, Status
  <2> QED  BY <1>2, <1>4, <1>5, <2>1, Zenon DEF LiveInv
<1>6. ASSUME NEW i \in DOMAIN old, old[i].set # h,
             ctl'.object.status.current = Status.current,
             ctl'.object.status.next = [revision |-> Status.current.revision + 1,
                                        instances |-> [old EXCEPT ![i].set = h]],
             Added(h, old[i].suffix)
      PROVE  LiveInv'
  <2>1. Status.current \in InstanceList /\ old \in Seq(Pod)
    BY <1>1, Zenon DEF CacheStatus, InstanceList
  <2>2. ctl'.object.status.next.instances = [old EXCEPT ![i].set = h]
    <3> DEFINE new == [old EXCEPT ![i].set = h]
    <3>1. ctl'.object.status.next = [revision |-> Status.current.revision + 1, instances |-> new]
      BY <1>6, Zenon
    <3> HIDE DEF new
    <3>2. ctl'.object.status.next.instances = new
      BY ONLY <3>1
    <3> QED  BY <3>2, Zenon DEF new
  <2>3. old[i] \in Range(old)
    BY Zenon DEF Range
  <2>4. SetsForm(sets') /\ old[i].suffix \in sets'[h].want
    <3>1. old[i].set \in Hash
      BY <2>1, <2>3, PodsOf, Zenon
    <3> HIDE DEF h, old
    <3> QED  BY <1>1, <1>2, <1>6, <3>1, AddedKeeps, Zenon
  <2>5. ASSUME ~cut, pc = ctl.read PROVE Kept(sets', ctl'.object.status)
    <3>1. Kept(sets, Status)
      BY <1>3, <2>5, Zenon
    <3>2. ASSUME NEW p \in Range(old) PROVE Wanted(sets', p)
      <4>1. p.set \in Hash /\ Wanted(sets, p)
        BY <2>1, <3>1, PodsOf, Zenon DEF Kept, Live
      <4>2. CASE p.set = h
        <5>1. Mixed(Status.current)
          BY <1>6, <2>3, <4>2, Zenon DEF Mixed
        <5>2. Anchor(sets, p)
          BY <3>1, <5>1, Zenon DEF Kept, Anchored
        <5> HIDE DEF h
        <5> QED  BY <1>1, <1>2, <1>6, <4>1, <5>2, AddedKeeps, Zenon
      <4>3. CASE p.set # h
        <5> HIDE DEF h
        <5> QED  BY <1>1, <1>2, <1>6, <4>1, <4>3, AddedKeeps, Zenon
      <4> QED  BY <4>2, <4>3, Zenon
    <3>3. ASSUME NEW p \in Range(ctl'.object.status.next.instances) PROVE Wanted(sets', p)
      <4>1. \/ p.set = h /\ p.suffix = old[i].suffix
            \/ p \in Range(old)
        BY <2>1, <2>2, ReplacedPods, Zenon
      <4> QED  BY <2>4, <3>2, <4>1, Zenon DEF Wanted
    <3>4. Anchored(sets', Status.current)
      <4> SUFFICES ASSUME Mixed(Status.current), NEW p \in Range(old) PROVE Anchor(sets', p)
        BY Zenon DEF Anchored
      <4>1. p.set \in Hash /\ Anchor(sets, p)
        BY <2>1, <3>1, PodsOf, Zenon DEF Kept, Anchored
      <4> HIDE DEF h
      <4> QED  BY <1>1, <1>2, <1>6, <4>1, AddedKeeps, Zenon
    <3> QED  BY <1>6, <3>2, <3>3, <3>4, Zenon DEF Kept, Live
  <2>6. WorkedOnIsKept'
    BY <1>1, <1>2, <2>5, Zenon DEF WorkedOnIsKept
  <2> QED  BY <1>4, <2>4, <2>6, Zenon DEF LiveInv
<1> QED  BY <1>5, <1>6, MigrateIs, Zenon

\* A report covers the pods wanted, so what was anchored stays so.
LEMMA SetFinishLive ==
    ASSUME StepInv, LiveInv, NEW h \in Hash, SetFinish(h)
    PROVE  LiveInv'
<1>1. UNCHANGED <<pc, ctl, cut>> /\ SetsForm(sets)
  BY Zenon DEF SetFinish, LiveInv
<1>2. CASE UNCHANGED sets
  BY <1>1, <1>2, SetsStay, Zenon
<1>3. ASSUME NEW r, DOMAIN r = sets[h].want, sets' = [sets EXCEPT ![h].report = r]
      PROVE  LiveInv'
  <2>1. /\ SetsForm(sets')
        /\ sets'[h].want = sets[h].want /\ sets'[h].report = r
        /\ sets'[h].exists = sets[h].exists
        /\ \A g \in Hash \ {h} : sets'[g] = sets[g]
    BY <1>1, <1>3, SetReports, Zenon
  <2>2. ASSUME NEW status \in CacheStatus, Kept(sets, status) PROVE Kept(sets', status)
    <3>1. ASSUME NEW p \in Live(status)
          PROVE  (Wanted(sets, p) => Wanted(sets', p)) /\ (Anchor(sets, p) => Anchor(sets', p))
      <4>1. p.set \in Hash
        BY LiveAre, Zenon
      <4>2. CASE p.set = h
        BY <1>3, <2>1, <4>2, Zenon DEF Wanted, Anchor
      <4>3. CASE p.set # h
        BY <2>1, <4>1, <4>3, Zenon DEF Wanted, Anchor
      <4> QED  BY <4>2, <4>3, Zenon
    <3>2. Range(status.current.instances) \subseteq Live(status)
      BY Zenon DEF Live
    <3> QED  BY <2>2, <3>1, <3>2, KeptMoves, Zenon
  <2>3. pc.status \in CacheStatus
    BY Zenon DEF StepInv, ControllerTypes, CacheObject
  <2>4. SavedIsKept' /\ WarmOnesStay'
    BY <1>1, <2>2, <2>3, Zenon DEF LiveInv, SavedIsKept, WarmOnesStay
  <2>5. ctl.step \in {"cool", "migrate", "publish", "save"} => ctl.object.status \in CacheStatus
    BY Working, Zenon DEF StepInv, Status, At
  <2>6. WorkedOnIsKept'
    BY <1>1, <2>2, <2>5, Zenon DEF LiveInv, WorkedOnIsKept
  <2> QED  BY <2>1, <2>4, <2>6, Zenon DEF LiveInv
<1>4. ASSUME NEW r \in [setCtl[h].want -> Report], sets[h].want = setCtl[h].want
      PROVE  DOMAIN r = sets[h].want
  BY <1>4, Zenon
<1> QED  BY <1>2, <1>3, <1>4, Zenon DEF SetFinish

\* Every step keeps the live pods.
LEMMA LiveInvNext ==
    ASSUME StepInv, RevisionInv, LiveInv, [ControllerNext]_controllerVars
    PROVE  LiveInv'
<1>0. ControllerTypes
  BY Zenon DEF StepInv
<1>1. CASE Edit
  <2>1. /\ pc'.status = pc.status /\ pc'.edits = pc.edits + 1 /\ pc.edits \in Nat
        /\ UNCHANGED <<sets, ctl, cut>>
    BY <1>0, <1>1, EditIs, Zenon DEF ControllerTypes, CacheObject
  <2>2. SetsForm(sets)' /\ SavedIsKept' /\ WarmOnesStay'
    BY <2>1, Zenon DEF LiveInv, SavedIsKept, WarmOnesStay
  <2>3. CASE ctl = Idle
    <3>1. ctl'.step = "idle"
      BY <2>1, <2>3, StepNames, Zenon
    <3>2. WorkedOnIsKept'
      BY <3>1, Zenon DEF WorkedOnIsKept
    <3> QED  BY <2>2, <3>2, Zenon DEF LiveInv
  <2>4. CASE ctl # Idle
    <3>1. ctl.read.edits \in Nat /\ ctl.read.edits <= pc.edits
      BY <1>0, <2>4, Zenon DEF ControllerTypes, Reconciling, CacheObject, RevisionInv, Behind
    <3>2. pc' # ctl'.read
      BY <2>1, <3>1
    <3>3. WorkedOnIsKept'
      BY <3>2, Zenon DEF WorkedOnIsKept
    <3> QED  BY <2>2, <3>3, Zenon DEF LiveInv
  <2> QED  BY <2>3, <2>4, Zenon
<1>2. CASE Watch
  BY <1>2, SetsStay, Zenon DEF Watch
<1>3. CASE Fail
  <2>1. UNCHANGED <<pc, sets>> /\ ctl' = Idle
    BY <1>3, Zenon DEF Fail
  <2>2. (~cut' => ~cut) /\ (ctl.step \in {"idle", "warm", "cool"} \/ cut')
    BY <1>3, Zenon DEF Fail, At
  <2> QED  BY <2>1, <2>2, SetsStay, Zenon
<1>4. ASSUME NEW h \in Hash, SetStart(h) PROVE LiveInv'
  BY <1>4, SetsStay, Zenon DEF SetStart
<1>5. CASE CollectPods
  BY <1>5, SetsStay, Zenon DEF CollectPods
<1>6. CASE UNCHANGED controllerVars
  BY <1>6, SetsStay, Zenon DEF controllerVars
<1>7. CASE Publish
  <2>1. /\ ctl.step = "publish" /\ ctl'.step = "save"
        /\ ctl'.object = ctl.object /\ ctl'.read = ctl.read /\ UNCHANGED <<pc, sets, cut>>
    BY <1>0, <1>7, PublishIs, Zenon DEF Publish
  <2>2. SavedIsKept' /\ WarmOnesStay'
    BY <2>1, Zenon DEF SavedIsKept, WarmOnesStay
  <2>3. WorkedOnIsKept' /\ SetsForm(sets)'
    BY <2>1, Zenon DEF LiveInv, WorkedOnIsKept
  <2> QED  BY <2>2, <2>3, Zenon DEF LiveInv
<1>8. CASE SaveStatus
  <2>1. /\ ctl.step = "save" /\ ctl' = Idle /\ pc = ctl.read
        /\ pc'.status = ctl.object.status /\ UNCHANGED <<sets, cut>>
    BY <1>0, <1>8, SaveIs, Zenon DEF Status
  <2>2. ctl'.step = "idle"
    BY <2>1, StepNames, Zenon
  <2>3. SavedIsKept' /\ SetsForm(sets)'
    BY <2>1, Zenon DEF LiveInv, SavedIsKept, WorkedOnIsKept
  <2>4. WarmOnesStay' /\ WorkedOnIsKept'
    BY <2>2, Zenon DEF WarmOnesStay, WorkedOnIsKept
  <2> QED  BY <2>3, <2>4, Zenon DEF LiveInv
<1>9. CASE SaveConflicts
  BY <1>9, SetsStay, Zenon DEF SaveConflicts
<1> QED  BY <1>1, <1>2, <1>3, <1>4, <1>5, <1>6, <1>7, <1>8, <1>9,
            StartLive, RemoveLive, WarmingLive, CoolingLive, CoolingFailsLive, ClearLive, FillLive,
            MigrateLive, SetFinishLive, Zenon
         DEF ControllerNext, Reconcile, SetReconcile

\* The sets keep the pods of the saved status until a reconcile changes them, and
\* from then on those of the status it will save.
THEOREM LivePodsAreKept == ControllerSpec => []LiveInv
BY StatusesStaySteps, CopiesAreBehind, LiveInvInit, LiveInvNext, PTL DEF ControllerSpec

\* Between reconciles, unless one was cut short after it had changed the sets,
\* every pod that the saved status gives the key space to is one its set is told
\* to have, or its set was deleted: neither check_cooling_pods nor resize nor
\* migrate takes away a pod that serves or is about to.
THEOREM ServingPodsAreWanted == ControllerSpec => []InstancesAreWanted
<1>1. LiveInv => InstancesAreWanted
  BY Zenon DEF LiveInv, SavedIsKept, Kept, Live, Wanted, InstancesAreWanted, At
<1> QED  BY <1>1, LivePodsAreKept, PTL

(***************************************************************************)
(* Wal.                                                                    *)
(***************************************************************************)
LogTypes ==
    /\ files \in SUBSET Id
    /\ content \in [Id -> Seq(Seq(Op))]
    /\ up \in BOOLEAN
    /\ crashes \in Nat /\ crashes <= MaxCrashes
    /\ nextId \in Nat
    /\ open \in Id
    /\ told \in [Op -> {"unwritten", "waiting", "ok", "err", "closed"}]
    /\ seg \in [Op -> Id \cup {None}]
    /\ deleted \in SUBSET {o \in Op : told[o] = "ok"}

\* The ids in use stay within Id, and the next one is unused.
IdsAreBounded ==
    IF up THEN nextId <= MaxSegment + 1 + 2 * crashes /\ \A i \in files : i < nextId
          ELSE crashes > 0 /\ \A i \in files : i < MaxSegment + 2 * crashes

\* The segments in memory are files, and each is in one state.
SegmentsAreApart ==
    IF up THEN /\ {open} \cup closed \cup fresh \cup deleting \subseteq files
               /\ open \notin closed \cup fresh \cup deleting
               /\ fresh \cap (closed \cup deleting) = {}
               /\ closed \cap deleting = {}
          ELSE fresh = {} /\ deleting = {} /\ openIds = {} /\ io = "running"

Acked == {o \in Op : told[o] = "ok"} \ deleted

\* The segments to which a write has failed.
Spoiled == {i \in Id : \E p \in Op : told[p] = "err" /\ seg[p] = i}

\* Operation o is in one of the entries, with no torn entry before it.
IsIn(o, entries) ==
    \E k \in DOMAIN entries : /\ o \in Range(entries[k])
                              /\ \A j \in 1 .. k : entries[j] # Torn

\* What is acknowledged is in a file that is neither new nor being deleted, and
\* only a torn entry that was reported is before it.
AckedAreKept ==
    \A o \in Acked : /\ seg[o] \in files \ (fresh \cup deleting)
                     /\ IsIn(o, content[seg[o]]) \/ (seg[o] \in Spoiled /\ IsBehindTorn(o, content[seg[o]]))

\* The segments that are or will be written to have no torn entry, unless the
\* write that left it was reported.
OpenIsWhole ==
    /\ up /\ io = "running" => \/ \A k \in DOMAIN content[open] : content[open][k] # Torn
                               \/ open \in Spoiled
    /\ \A i \in fresh : content[i] = << >>

LogInv ==
    /\ LogTypes
    /\ IdsAreBounded
    /\ SegmentsAreApart
    /\ AckedAreKept
    /\ OpenIsWhole
    /\ RotateReturnsItsWrites

BatchTypes ==
    /\ buffer \in Seq(Op) /\ sending \in Seq(Op) /\ writing \in Seq(Op)
    /\ queue = << >> \/ \E batch \in Seq(Op) : queue = <<batch>>
    /\ io \in {"running", "dead"}

\* An operation is in one batch at most, and as long as it is there its writer
\* waits; only a batch the flusher could not enqueue is known to be lost.
BatchesAreApart ==
    /\ Range(buffer) \cap (Range(sending) \cup Queued \cup Range(writing)) = {}
    /\ Range(sending) \cap (Queued \cup Range(writing)) = {}
    /\ Queued \cap Range(writing) = {}
    /\ \A o \in Range(buffer) \cup Queued \cup Range(writing) : told[o] = "waiting"
    /\ \A o \in Range(sending) : told[o] = "waiting" \/ (io = "dead" /\ told[o] = "closed")
    /\ io = "dead" => writing = << >> /\ queue = << >>
    /\ ~up => writing = << >> /\ queue = << >> /\ sending = << >> /\ buffer = << >>

BatchInv == BatchTypes /\ BatchesAreApart

-----------------------------------------------------------------------------
(* Entries, numbers and sets of operations.                                *)

\* The bounds are numbers.
LEMMA WalConstants ==
    /\ MaxOp \in Nat /\ MaxSegment \in Nat /\ MaxCrashes \in Nat
    /\ Id \subseteq Nat
    /\ \A n \in Nat : n <= MaxSegment + 1 + 2 * MaxCrashes => n \in Id
BY WalAssumption DEF Id

\* The elements of a sequence and of one with an element appended.
LEMMA SetOfSeq ==
    ASSUME NEW S, NEW s \in Seq(S)
    PROVE  /\ Range(s) \subseteq S
           /\ s # << >> => Range(s) # {}
           /\ \A x : Range(Append(s, x)) = Range(s) \cup {x}
<1>1. Range(s) \subseteq S
  BY DEF Range
<1>2. ASSUME s # << >> PROVE Range(s) # {}
  <2>1. 1 \in DOMAIN s
    BY <1>2
  <2> QED  BY <2>1, Zenon DEF Range
<1>3. ASSUME NEW x PROVE Range(Append(s, x)) = Range(s) \cup {x}
  BY DEF Range
<1> QED  BY <1>1, <1>2, <1>3, Zenon

\* An empty sequence has no elements.
LEMMA EmptySet == Range(<< >>) = {}
BY DEF Range

\* What an empty queue and a queue of one batch hold.
LEMMA QueuedIs ==
    ASSUME NEW q
    PROVE  /\ q = << >> => UNION {Range(b) : b \in Range(q)} = {}
           /\ \A b : q = <<b>> => UNION {Range(c) : c \in Range(q)} = Range(b)
<1>1. \A b : Range(<<b>>) = {b}
  BY DEF Range
<1> QED  BY <1>1, EmptySet

\* An entry more changes nothing for what is there, ...
LEMMA InAppended ==
    ASSUME NEW s \in Seq(Seq(Op)), NEW e, NEW o, IsIn(o, s)
    PROVE  IsIn(o, Append(s, e))
<1>1. PICK k \in DOMAIN s : o \in Range(s[k]) /\ \A j \in 1 .. k : s[j] # Torn
  BY Zenon DEF IsIn
<1>2. /\ k \in DOMAIN Append(s, e)
      /\ \A j \in 1 .. k : Append(s, e)[j] = s[j]
      /\ k \in 1 .. k
  OBVIOUS
<1> QED  BY <1>1, <1>2, Zenon DEF IsIn

\* ... and is read if no entry before it is torn.
LEMMA InAtEnd ==
    ASSUME NEW s \in Seq(Seq(Op)), \A k \in DOMAIN s : s[k] # Torn,
           NEW e \in Seq(Op), NEW o \in Range(e)
    PROVE  IsIn(o, Append(s, e))
<1> DEFINE k == Len(s) + 1
           t == Append(s, e)
<1>1. k \in DOMAIN t /\ t[k] = e /\ \A j \in 1 .. k : j # k => t[j] = s[j] /\ j \in DOMAIN s
  OBVIOUS
<1>2. e # Torn
  BY EmptySet, Zenon DEF Torn
<1> HIDE DEF k, t
<1>3. \A j \in 1 .. k : t[j] # Torn
  BY <1>1, <1>2, Zenon
<1>4. IsIn(o, t)
  BY <1>1, <1>3, Zenon DEF IsIn
<1> QED  BY <1>4, Zenon DEF t

\* What is behind a torn entry stays behind it, ...
LEMMA BehindAppended ==
    ASSUME NEW s \in Seq(Seq(Op)), NEW e, NEW o, IsBehindTorn(o, s)
    PROVE  IsBehindTorn(o, Append(s, e))
<1>1. PICK k \in DOMAIN s : o \in Range(s[k]) /\ \E j \in 1 .. (k - 1) : s[j] = Torn
  BY Zenon DEF IsBehindTorn
<1>2. /\ k \in DOMAIN Append(s, e) /\ Append(s, e)[k] = s[k]
      /\ \A j \in 1 .. (k - 1) : Append(s, e)[j] = s[j]
  OBVIOUS
<1> QED  BY <1>1, <1>2, Zenon DEF IsBehindTorn

\* ... and an entry appended after a torn one is behind it.
LEMMA BehindAtEnd ==
    ASSUME NEW s \in Seq(Seq(Op)), NEW t \in DOMAIN s, s[t] = Torn,
           NEW e \in Seq(Op), NEW o \in Range(e)
    PROVE  IsBehindTorn(o, Append(s, e))
<1> DEFINE k == Len(s) + 1
<1>1. /\ k \in DOMAIN Append(s, e) /\ Append(s, e)[k] = e
      /\ t \in 1 .. (k - 1) /\ Append(s, e)[t] = s[t]
  OBVIOUS
<1> HIDE DEF k
<1> QED  BY <1>1, Zenon DEF IsBehindTorn

\* An operation in an entry with no torn entry before it is read back.
LEMMA InIsReadBack ==
    ASSUME LogTypes, NEW i \in files, NEW o, IsIn(o, content[i])
    PROVE  IsReadBack(o)
<1> DEFINE s == content[i]
           bad == {k \in DOMAIN s : s[k] = Torn}
           n == IF bad = {} THEN Len(s) ELSE Min(bad) - 1
<1>1. s \in Seq(Seq(Op))
  BY Zenon DEF LogTypes
<1>2. PICK k \in DOMAIN s : o \in Range(s[k]) /\ \A j \in 1 .. k : s[j] # Torn
  BY Zenon DEF IsIn
<1>3. n \in Nat /\ k <= n /\ n <= Len(s)
  <2>1. CASE bad = {}
    <3>1. n = Len(s)
      BY <2>1, Zenon
    <3>2. k \in 1 .. Len(s) /\ Len(s) \in Nat
      BY ONLY <1>1, k \in DOMAIN s
    <3> HIDE DEF n
    <3> QED  BY ONLY <3>1, <3>2
  <2>2. CASE bad # {}
    <3>1. bad \in SUBSET Nat
      BY <1>1
    <3>2. Min(bad) \in bad
      BY <2>2, <3>1, MinIsLeast, Zenon
    <3>3. Min(bad) \in 1 .. Len(s) /\ s[Min(bad)] = Torn
      BY <1>1, <3>2
    <3>4. k \in Nat /\ Min(bad) \notin 1 .. k
      <4>1. k \in Nat
        BY <1>1
      <4> QED  BY <1>2, <3>3, <4>1, Zenon
    <3> HIDE DEF bad, s
    <3> QED  BY <1>1, <2>2, <3>3, <3>4
  <2> QED  BY <2>1, <2>2, Zenon
<1>4. Readable(i) = SubSeq(s, 1, n)
  BY Zenon DEF Readable
<1> HIDE DEF n, s, bad
<1>5. k \in DOMAIN SubSeq(s, 1, n) /\ SubSeq(s, 1, n)[k] = s[k]
  BY <1>1, <1>3
<1> QED  BY <1>2, <1>4, <1>5, Zenon DEF IsReadBack

-----------------------------------------------------------------------------
(* The batches.                                                            *)

\* Telling the operations of a set, and what it leaves.
LEMMA Told ==
    ASSUME LogTypes, NEW S, NEW what, Tell(S, what)
    PROVE  \A o \in Op : told'[o] = IF o \in S THEN what ELSE told[o]
BY Zenon DEF Tell

\* The batches are sets of operations.
LEMMA BatchSets ==
    ASSUME BatchTypes
    PROVE  /\ Range(buffer) \subseteq Op /\ Range(sending) \subseteq Op
           /\ Range(writing) \subseteq Op /\ Queued \subseteq Op
<1>1. Range(buffer) \subseteq Op /\ Range(sending) \subseteq Op /\ Range(writing) \subseteq Op
  BY SetOfSeq, Zenon DEF BatchTypes
<1>2. CASE queue = << >>
  BY <1>1, <1>2, QueuedIs, Zenon DEF Queued
<1>3. ASSUME NEW batch \in Seq(Op), queue = <<batch>> PROVE Queued \subseteq Op
  <2>1. Queued = Range(batch)
    BY <1>3, QueuedIs, Zenon DEF Queued
  <2> QED  BY <2>1, SetOfSeq, Zenon
<1> QED  BY <1>1, <1>2, <1>3, Zenon DEF BatchTypes

\* A new operation is in no batch but the buffer.
LEMMA WriteOpBatches ==
    ASSUME BatchInv, LogTypes, NEW o \in Op, WriteOp(o)
    PROVE  BatchInv'
<1> USE DEF WriteOp, BatchInv
<1>1. /\ buffer \in Seq(Op) /\ buffer' = Append(buffer, o)
      /\ UNCHANGED <<sending, queue, writing, io, up>>
  BY Zenon DEF BatchTypes
<1>2. BatchTypes'
  BY <1>1 DEF BatchTypes
<1>3. Range(buffer') = Range(buffer) \cup {o} /\ Queued' = Queued
  BY <1>1, SetOfSeq, Zenon DEF Queued
<1>4. /\ told[o] = "unwritten" /\ told'[o] = "waiting"
      /\ \A p \in Op : p # o => told'[p] = told[p]
  BY Zenon DEF LogTypes
<1>5. o \notin Range(buffer) \cup Range(sending) \cup Queued \cup Range(writing)
  BY <1>4, Zenon DEF BatchesAreApart
<1>6. BatchesAreApart'
  BY <1>1, <1>3, <1>4, <1>5, BatchSets DEF BatchesAreApart
<1> QED  BY <1>2, <1>6, Zenon

\* A flush moves the buffer to the batch being sent.
LEMMA FlushBatches ==
    ASSUME BatchInv, Flush
    PROVE  BatchInv'
<1> USE DEF Flush, BatchInv
<1>1. /\ sending = << >> /\ sending' = buffer /\ buffer' = << >>
      /\ UNCHANGED <<queue, writing, io, up, told>> /\ up
  BY Zenon DEF Flush
<1>2. BatchTypes'
  BY <1>1, Zenon DEF BatchTypes
<1>3. /\ Queued' = Queued /\ Range(sending') = Range(buffer)
      /\ Range(buffer') = {} /\ Range(sending) = {}
  BY <1>1, EmptySet, Zenon DEF Queued
<1>4. BatchesAreApart'
  BY <1>1, <1>3 DEF BatchesAreApart
<1> QED  BY <1>2, <1>4, Zenon

\* The batch being sent goes to the end of the queue.
LEMMA EnqueueBatches ==
    ASSUME BatchInv, LogTypes, Enqueue
    PROVE  BatchInv'
<1> USE DEF BatchInv
<1>1. CASE /\ io = "running" /\ Len(queue) < FlushQueueDepth
           /\ queue' = Append(queue, sending) /\ sending' = << >> /\ UNCHANGED told
  <2>1. UNCHANGED <<buffer, writing, io, up>> /\ up
    BY Zenon DEF Enqueue
  <2>2. queue = << >>
    <3>1. ASSUME NEW batch, queue = <<batch>> PROVE FALSE
      BY <1>1, <3>1 DEF FlushQueueDepth
    <3> QED  BY <3>1, Zenon DEF BatchTypes
  <2>3. queue' = <<sending>>
    BY <1>1, <2>2
  <2>4. BatchTypes'
    BY <1>1, <2>1, <2>3 DEF BatchTypes
  <2>5. Queued = {} /\ Queued' = Range(sending) /\ Range(sending') = {}
    BY <1>1, <2>2, <2>3, QueuedIs, EmptySet, Zenon DEF Queued
  <2>6. BatchesAreApart'
    BY <1>1, <2>1, <2>5, Zenon DEF BatchesAreApart
  <2> QED  BY <2>4, <2>6, Zenon
<1>2. CASE io = "dead" /\ Tell(Range(sending), "closed") /\ UNCHANGED <<queue, sending>>
  <2>1. UNCHANGED <<buffer, writing, io, up>> /\ up
    BY Zenon DEF Enqueue
  <2>2. BatchTypes'
    BY <1>2, <2>1, Zenon DEF BatchTypes
  <2>3. \A o \in Op : told'[o] = IF o \in Range(sending) THEN "closed" ELSE told[o]
    BY <1>2, Told, Zenon
  <2>4. Queued' = Queued
    BY <1>2, Zenon DEF Queued
  <2>5. BatchesAreApart'
    BY <1>2, <2>1, <2>3, <2>4, BatchSets, Zenon DEF BatchesAreApart
  <2> QED  BY <2>2, <2>5, Zenon
<1> QED  BY <1>1, <1>2, Zenon DEF Enqueue

\* The I/O thread takes the first batch of the queue.
LEMMA ReceiveBatches ==
    ASSUME BatchInv, Receive
    PROVE  BatchInv'
<1> USE DEF BatchInv
<1>1. /\ writing = << >> /\ writing' = Head(queue) /\ queue' = Tail(queue) /\ queue # << >>
      /\ UNCHANGED <<buffer, sending, io, up, told>> /\ up /\ io = "running"
  BY Zenon DEF Receive
<1>2. PICK batch \in Seq(Op) : queue = <<batch>>
  BY <1>1, Zenon DEF BatchTypes
<1>3. writing' = batch /\ queue' = << >>
  BY <1>1, <1>2
<1>4. BatchTypes'
  BY <1>1, <1>3, Zenon DEF BatchTypes
<1>5. Queued = Range(batch) /\ Queued' = {} /\ Range(writing') = Range(batch) /\ Range(writing) = {}
  BY <1>1, <1>2, <1>3, QueuedIs, EmptySet, Zenon DEF Queued
<1>6. BatchesAreApart'
  BY <1>1, <1>5, Zenon DEF BatchesAreApart
<1> QED  BY <1>4, <1>6, Zenon

\* A batch is written, or fails to be.
LEMMA WriteBatches ==
    ASSUME BatchInv, LogTypes, NEW what, Tell(Range(writing), what), writing' = << >>, up,
           UNCHANGED <<buffer, sending, queue, io, up>>
    PROVE  BatchInv'
<1> USE DEF BatchInv
<1>1. BatchTypes'
  BY DEF BatchTypes
<1>2. Queued' = Queued /\ Range(writing') = {}
  BY EmptySet, Zenon DEF Queued
<1>3. \A o \in Op : told'[o] = IF o \in Range(writing) THEN what ELSE told[o]
  BY Told, Zenon
<1>4. BatchesAreApart'
  BY <1>2, <1>3, BatchSets, Zenon DEF BatchesAreApart
<1> QED  BY <1>1, <1>4, Zenon

\* When a sync panics the batch being written and those queued get an outcome.
LEMMA SyncPanicsBatches ==
    ASSUME BatchInv, LogTypes, SyncPanics
    PROVE  BatchInv'
<1> USE DEF BatchInv
<1>1. /\ writing' = << >> /\ queue' = << >> /\ io' = "dead"
      /\ UNCHANGED <<buffer, sending, up>> /\ up
      /\ Tell(Range(writing) \cup Queued, "closed")
  BY Zenon DEF SyncPanics
<1>2. BatchTypes'
  BY <1>1 DEF BatchTypes
<1>3. Queued' = {} /\ Range(writing') = {}
  BY <1>1, QueuedIs, EmptySet, Zenon DEF Queued
<1>4. \A o \in Op : told'[o] = IF o \in Range(writing) \cup Queued THEN "closed" ELSE told[o]
  BY <1>1, Told, Zenon
<1>5. BatchesAreApart'
  BY <1>1, <1>3, <1>4, BatchSets, Zenon DEF BatchesAreApart
<1> QED  BY <1>2, <1>5, Zenon

\* A crash empties all batches.
LEMMA CrashBatches ==
    ASSUME BatchTypes, buffer' = << >>, sending' = << >>, queue' = << >>, writing' = << >>,
           io' = "running"
    PROVE  BatchInv'
<1>1. BatchTypes'
  BY DEF BatchTypes
<1>2. Range(buffer') = {} /\ Range(sending') = {} /\ Range(writing') = {} /\ Queued' = {}
  BY EmptySet, QueuedIs, Zenon DEF Queued
<1>3. BatchesAreApart'
  BY <1>2, Zenon DEF BatchesAreApart
<1> QED  BY <1>1, <1>3, Zenon DEF BatchInv

\* Steps of rotate and delete leave the batches alone.
LEMMA SameBatches ==
    ASSUME BatchInv, UNCHANGED <<buffer, sending, queue, writing, io, told>>, up' = up \/ up'
    PROVE  BatchInv'
<1>1. BatchTypes'
  BY Zenon DEF BatchInv, BatchTypes
<1>2. Queued' = Queued
  BY Zenon DEF Queued
<1>3. BatchesAreApart'
  BY <1>2, Zenon DEF BatchInv, BatchesAreApart
<1> QED  BY <1>1, <1>3, Zenon DEF BatchInv

-----------------------------------------------------------------------------
(* The segments: steps of writers, flusher and I/O thread.                 *)

ToldWhat == {"unwritten", "waiting", "ok", "err", "closed"}

\* Acknowledgements and failed writes, and where they are, are what they were.
SameOutcomes ==
    \A o \in Op : /\ told'[o] = "ok" <=> told[o] = "ok"
                  /\ told'[o] = "err" <=> told[o] = "err"
                  /\ told[o] \in {"ok", "err"} => seg'[o] = seg[o]

\* Steps that tell no outcome and delete nothing acknowledge and spoil nothing.
LEMMA Outcomes ==
    ASSUME SameOutcomes, UNCHANGED deleted, LogTypes
    PROVE  /\ Acked' = Acked /\ Spoiled' = Spoiled
           /\ \A o \in Acked : seg'[o] = seg[o]
           /\ deleted' \in SUBSET {o \in Op : told'[o] = "ok"}
<1>1. Acked' = Acked
  BY Zenon DEF SameOutcomes, Acked
<1>2. Spoiled' = Spoiled
  BY Zenon DEF SameOutcomes, Spoiled
<1>3. \A o \in Acked : seg'[o] = seg[o]
  BY Zenon DEF SameOutcomes, Acked
<1>4. deleted' \in SUBSET {o \in Op : told'[o] = "ok"}
  BY Zenon DEF SameOutcomes, LogTypes
<1> QED  BY <1>1, <1>2, <1>3, <1>4, Zenon

\* Steps that only move batches.
LEMMA QuietLog ==
    ASSUME LogInv, SameOutcomes, told' \in [Op -> ToldWhat],
           UNCHANGED <<files, content, up, crashes, nextId, closed, open, openIds, io, fresh,
                       deleting, seg, deleted>>
    PROVE  LogInv'
<1> USE DEF LogInv
<1>1. /\ Acked' = Acked /\ Spoiled' = Spoiled
      /\ deleted' \in SUBSET {o \in Op : told'[o] = "ok"}
  BY Outcomes, Zenon
<1>2. LogTypes'
  BY <1>1, Zenon DEF LogTypes, ToldWhat
<1>3. IdsAreBounded' /\ SegmentsAreApart'
  BY Zenon DEF IdsAreBounded, SegmentsAreApart
<1>4. AckedAreKept' /\ OpenIsWhole'
  BY <1>1, Zenon DEF AckedAreKept, OpenIsWhole
<1>5. RotateReturnsItsWrites'
  BY <1>1, Zenon DEF RotateReturnsItsWrites, AckedIn, Acked
<1> QED  BY <1>2, <1>3, <1>4, <1>5, Zenon

\* What an append to the open segment, of whatever entry, keeps.
Appended(e) == content' \in {content, [content EXCEPT ![open] = Append(@, e)]}

\* What could be read back of a segment can be after an append.
LEMMA AppendKeeps ==
    ASSUME LogTypes, NEW e \in Seq(Op), Appended(e)
    PROVE  /\ content' \in [Id -> Seq(Seq(Op))]
           /\ \A i \in Id : i # open => content'[i] = content[i]
           /\ content'[open] \in {content[open], Append(content[open], e)}
           /\ \A i \in Id, o \in Op :
                  /\ IsIn(o, content[i]) => IsIn(o, content'[i])
                  /\ IsBehindTorn(o, content[i]) => IsBehindTorn(o, content'[i])
<1>1. \A i \in Id : content[i] \in Seq(Seq(Op))
  BY Zenon DEF LogTypes
<1>2. open \in Id /\ Append(content[open], e) \in Seq(Seq(Op))
  BY <1>1 DEF LogTypes
<1>3. /\ content' \in [Id -> Seq(Seq(Op))]
      /\ \A i \in Id : i # open => content'[i] = content[i]
      /\ content'[open] \in {content[open], Append(content[open], e)}
  BY <1>2, Zenon DEF Appended, LogTypes
<1>4. ASSUME NEW i \in Id, NEW o \in Op, IsIn(o, content[i]) PROVE IsIn(o, content'[i])
  <2>1. content'[i] \in {content[i], Append(content[i], e)}
    BY <1>3, Zenon
  <2>2. IsIn(o, Append(content[i], e))
    BY <1>1, <1>4, InAppended, Zenon
  <2> QED  BY <1>4, <2>1, <2>2, Zenon
<1>5. ASSUME NEW i \in Id, NEW o \in Op, IsBehindTorn(o, content[i])
      PROVE  IsBehindTorn(o, content'[i])
  <2>1. content'[i] \in {content[i], Append(content[i], e)}
    BY <1>3, Zenon
  <2>2. IsBehindTorn(o, Append(content[i], e))
    BY <1>1, <1>5, BehindAppended, Zenon
  <2> QED  BY <1>5, <2>1, <2>2, Zenon
<1> QED  BY <1>3, <1>4, <1>5, Zenon

\* An interrupted append: nobody is told that it was written.
LEMMA InterruptedKeeps ==
    ASSUME LogInv, NEW e \in Seq(Op), Appended(e), SameOutcomes, UNCHANGED <<files, deleted>>,
           fresh' \in {fresh, {}}, deleting' \in {deleting, {}}
    PROVE  AckedAreKept'
<1>1. /\ Acked' = Acked /\ Spoiled' = Spoiled
      /\ \A o \in Acked : seg'[o] = seg[o]
  BY Outcomes, Zenon DEF LogInv
<1>2. \A i \in Id, o \in Op :
          /\ IsIn(o, content[i]) => IsIn(o, content'[i])
          /\ IsBehindTorn(o, content[i]) => IsBehindTorn(o, content'[i])
  BY AppendKeeps, Zenon DEF LogInv
<1>3. files \subseteq Id /\ Acked \subseteq Op
  BY Zenon DEF LogInv, LogTypes, Acked
<1> SUFFICES ASSUME NEW o \in Acked
             PROVE  /\ seg[o] \in files \ (fresh' \cup deleting')
                    /\ IsIn(o, content'[seg[o]]) \/ (seg[o] \in Spoiled /\ IsBehindTorn(o, content'[seg[o]]))
  BY <1>1, Zenon DEF AckedAreKept
<1>4. /\ seg[o] \in files \ (fresh \cup deleting)
      /\ IsIn(o, content[seg[o]]) \/ (seg[o] \in Spoiled /\ IsBehindTorn(o, content[seg[o]]))
  BY Zenon DEF LogInv, AckedAreKept
<1> QED  BY <1>2, <1>3, <1>4, Zenon

\* The operations being written wait for their outcome and are not acknowledged.
LEMMA WritingFacts ==
    ASSUME LogInv, BatchInv, up, writing # << >>
    PROVE  /\ writing \in Seq(Op) /\ Range(writing) \subseteq Op /\ Range(writing) # {}
           /\ \A o \in Range(writing) : told[o] = "waiting" /\ o \notin deleted /\ o \notin Acked
           /\ io = "running"
           /\ open \in files \ (fresh \cup deleting) /\ open \in Id
<1>1. writing \in Seq(Op) /\ Range(writing) \subseteq Op /\ Range(writing) # {}
  BY SetOfSeq, Zenon DEF BatchInv, BatchTypes
<1>2. \A o \in Range(writing) : told[o] = "waiting"
  BY Zenon DEF BatchInv, BatchesAreApart
<1>3. \A o \in Range(writing) : o \notin deleted /\ o \notin Acked
  BY <1>2, Zenon DEF LogInv, LogTypes, Acked
<1>4. io = "running"
  BY Zenon DEF BatchInv, BatchTypes, BatchesAreApart
<1>5. open \in files \ (fresh \cup deleting) /\ open \in Id
  BY Zenon DEF LogInv, SegmentsAreApart, LogTypes
<1> QED  BY <1>1, <1>2, <1>3, <1>4, <1>5, Zenon

\* A write that succeeds puts its operations where a restart finds them.
LEMMA WriteLog ==
    ASSUME LogInv, BatchInv, Write
    PROVE  LogInv'
<1> DEFINE W == Range(writing)
<1>1. /\ writing \in Seq(Op) /\ W \subseteq Op /\ W # {}
      /\ \A o \in W : told[o] = "waiting" /\ o \notin deleted /\ o \notin Acked
      /\ io = "running"
      /\ open \in files \ (fresh \cup deleting) /\ open \in Id
  BY WritingFacts, Zenon DEF Write
<1>2. /\ UNCHANGED <<files, up, crashes, nextId, closed, open, io, fresh, deleting, deleted>> /\ up
      /\ content' = [content EXCEPT ![open] = Append(@, writing)]
      /\ openIds' = openIds \cup W /\ Appended(writing) /\ writing # << >>
  BY Zenon DEF Write, Appended
<1>3. \A o \in Op : /\ told'[o] = IF o \in W THEN "ok" ELSE told[o]
                    /\ seg'[o] = IF o \in W THEN open ELSE seg[o]
  BY Told, Zenon DEF Write, Place, LogInv
<1> HIDE DEF W
<1>4. Acked' = Acked \cup W
  BY <1>1, <1>2, <1>3, Zenon DEF Acked
<1>5. Spoiled' = Spoiled
  BY <1>1, <1>3, Zenon DEF Spoiled
<1>6. /\ content' \in [Id -> Seq(Seq(Op))]
      /\ \A i \in Id : i # open => content'[i] = content[i]
      /\ \A i \in Id, o \in Op :
             /\ IsIn(o, content[i]) => IsIn(o, content'[i])
             /\ IsBehindTorn(o, content[i]) => IsBehindTorn(o, content'[i])
  BY <1>1, <1>2, AppendKeeps, Zenon DEF LogInv
<1>7. /\ content[open] \in Seq(Seq(Op)) /\ content'[open] = Append(content[open], writing)
      /\ writing # Torn
  BY <1>1, <1>2, Zenon DEF LogInv, LogTypes, Torn
<1>8. (\A k \in DOMAIN content[open] : content[open][k] # Torn) \/ open \in Spoiled
  BY <1>1, <1>2, Zenon DEF LogInv, OpenIsWhole
<1>9. LogTypes'
  <2>1. told' \in [Op -> ToldWhat] /\ seg' \in [Op -> Id \cup {None}]
    BY <1>1, Zenon DEF Write, Tell, Place, LogInv, LogTypes, ToldWhat
  <2>2. deleted' \in SUBSET {o \in Op : told'[o] = "ok"}
    BY <1>1, <1>2, <1>3, Zenon DEF LogInv, LogTypes
  <2> QED  BY <1>2, <1>6, <2>1, <2>2, Zenon DEF LogInv, LogTypes, ToldWhat
<1>10. IdsAreBounded' /\ SegmentsAreApart'
  BY <1>2, Zenon DEF LogInv, IdsAreBounded, SegmentsAreApart
<1>11. AckedAreKept'
  <2> SUFFICES ASSUME NEW o \in Acked \cup W
               PROVE  /\ seg'[o] \in files \ (fresh \cup deleting)
                      /\ IsIn(o, content'[seg'[o]]) \/ (seg'[o] \in Spoiled /\ IsBehindTorn(o, content'[seg'[o]]))
    BY <1>2, <1>4, <1>5, Zenon DEF AckedAreKept
  <2>1. CASE o \in W
    <3>1. seg'[o] = open
      BY <1>1, <1>3, <2>1, Zenon
    <3>2. CASE \A k \in DOMAIN content[open] : content[open][k] # Torn
      <4>1. IsIn(o, Append(content[open], writing))
        BY <1>1, <1>7, <2>1, <3>2, InAtEnd, Zenon DEF W
      <4> QED  BY <1>1, <1>7, <3>1, <4>1, Zenon
    <3>3. CASE ~\A k \in DOMAIN content[open] : content[open][k] # Torn
      <4>1. PICK t \in DOMAIN content[open] : content[open][t] = Torn
        BY <3>3, Zenon
      <4>2. IsBehindTorn(o, Append(content[open], writing))
        BY <1>1, <1>7, <2>1, <4>1, BehindAtEnd, Zenon DEF W
      <4> QED  BY <1>1, <1>7, <1>8, <3>1, <3>3, <4>2, Zenon
    <3> QED  BY <3>2, <3>3, Zenon
  <2>2. CASE o \in Acked
    <3>1. o \in Op /\ seg'[o] = seg[o]
      BY <1>1, <1>3, <2>2, Zenon DEF Acked
    <3>2. /\ seg[o] \in files \ (fresh \cup deleting) /\ seg[o] \in Id
          /\ IsIn(o, content[seg[o]]) \/ (seg[o] \in Spoiled /\ IsBehindTorn(o, content[seg[o]]))
      BY <2>2, Zenon DEF LogInv, LogTypes, AckedAreKept
    <3> QED  BY <1>6, <3>1, <3>2, Zenon
  <2> QED  BY <2>1, <2>2, Zenon
<1>12. OpenIsWhole'
  <2>1. (\A k \in DOMAIN content'[open] : content'[open][k] # Torn) \/ open \in Spoiled
    BY <1>7, <1>8
  <2>2. \A i \in fresh : i \in Id /\ i # open /\ content[i] = << >>
    BY <1>1, <1>2, Zenon DEF LogInv, LogTypes, SegmentsAreApart, OpenIsWhole
  <2> QED  BY <1>2, <1>5, <1>6, <2>1, <2>2, Zenon DEF OpenIsWhole
<1>13. RotateReturnsItsWrites'
  <2>1. openIds = AckedIn(open)
    BY <1>2, Zenon DEF LogInv, RotateReturnsItsWrites
  <2>2. AckedIn(open)' = AckedIn(open) \cup W
    BY <1>1, <1>2, <1>3, Zenon DEF AckedIn
  <2> QED  BY <1>2, <2>1, <2>2, Zenon DEF RotateReturnsItsWrites
<1> QED  BY <1>9, <1>10, <1>11, <1>12, <1>13, Zenon DEF LogInv

\* A failed write spoils its segment; what was acknowledged before stays.
LEMMA WriteFailsLog ==
    ASSUME LogInv, BatchInv, WriteFails
    PROVE  LogInv'
<1> DEFINE W == Range(writing)
<1>1. /\ W \subseteq Op /\ W # {}
      /\ \A o \in W : told[o] = "waiting" /\ o \notin deleted /\ o \notin Acked
      /\ open \in files \ (fresh \cup deleting) /\ open \in Id
  BY WritingFacts, Zenon DEF WriteFails
<1>2. /\ UNCHANGED <<files, up, crashes, nextId, closed, open,
                     openIds, io, fresh, deleting, deleted>>
      /\ Appended(Torn) /\ Torn \in Seq(Op) /\ up
  BY DEF WriteFails, Appended, segments, Torn
<1>3. \A o \in Op : /\ told'[o] = IF o \in W THEN "err" ELSE told[o]
                    /\ seg'[o] = IF o \in W THEN open ELSE seg[o]
  BY Told, Zenon DEF WriteFails, Place, LogInv
<1> HIDE DEF W
<1>4. Acked' = Acked /\ \A o \in Acked : o \in Op /\ seg'[o] = seg[o]
  BY <1>1, <1>2, <1>3, Zenon DEF Acked
<1>5. Spoiled' = Spoiled \cup {open}
  <2>1. open \in Spoiled'
    BY <1>1, <1>3, Zenon DEF Spoiled
  <2> QED  BY <1>1, <1>3, <2>1, Zenon DEF Spoiled
<1>6. /\ content' \in [Id -> Seq(Seq(Op))]
      /\ \A i \in Id : i # open => content'[i] = content[i]
      /\ \A i \in Id, o \in Op :
             /\ IsIn(o, content[i]) => IsIn(o, content'[i])
             /\ IsBehindTorn(o, content[i]) => IsBehindTorn(o, content'[i])
  BY <1>2, AppendKeeps, Zenon DEF LogInv
<1>7. LogTypes'
  <2>1. told' \in [Op -> ToldWhat] /\ seg' \in [Op -> Id \cup {None}]
    BY <1>1, Zenon DEF WriteFails, Tell, Place, LogInv, LogTypes, ToldWhat
  <2>2. deleted' \in SUBSET {o \in Op : told'[o] = "ok"}
    BY <1>1, <1>2, <1>3, Zenon DEF LogInv, LogTypes
  <2> QED  BY <1>2, <1>6, <2>1, <2>2, Zenon DEF LogInv, LogTypes, ToldWhat
<1>8. IdsAreBounded' /\ SegmentsAreApart'
  BY <1>2, Zenon DEF LogInv, IdsAreBounded, SegmentsAreApart
<1>9. AckedAreKept'
  <2> SUFFICES ASSUME NEW o \in Acked
               PROVE  /\ seg[o] \in files \ (fresh \cup deleting)
                      /\ IsIn(o, content'[seg[o]]) \/ (seg[o] \in Spoiled /\ IsBehindTorn(o, content'[seg[o]]))
    BY <1>2, <1>4, <1>5, Zenon DEF AckedAreKept
  <2>1. /\ seg[o] \in files \ (fresh \cup deleting) /\ seg[o] \in Id
        /\ IsIn(o, content[seg[o]]) \/ (seg[o] \in Spoiled /\ IsBehindTorn(o, content[seg[o]]))
    BY Zenon DEF LogInv, LogTypes, AckedAreKept
  <2> QED  BY <1>4, <1>6, <2>1, Zenon
<1>10. OpenIsWhole'
  <2>1. \A i \in fresh : i \in Id /\ i # open /\ content[i] = << >>
    BY <1>1, <1>2, Zenon DEF LogInv, LogTypes, SegmentsAreApart, OpenIsWhole
  <2> QED  BY <1>2, <1>5, <1>6, <2>1, Zenon DEF OpenIsWhole
<1>11. RotateReturnsItsWrites'
  <2>1. AckedIn(open)' = AckedIn(open)
    BY <1>1, <1>2, <1>3, Zenon DEF AckedIn
  <2> QED  BY <1>2, <2>1, Zenon DEF LogInv, RotateReturnsItsWrites
<1> QED  BY <1>7, <1>8, <1>9, <1>10, <1>11, Zenon DEF LogInv

\* An interrupted write appends some entry or nothing.
LEMMA InterruptedIs ==
    ASSUME BatchInv, Interrupted(writing)
    PROVE  \E e \in Seq(Op) : Appended(e)
<1>1. Torn \in Seq(Op) /\ writing \in Seq(Op)
  BY DEF Torn, BatchInv, BatchTypes
<1> QED  BY <1>1, Zenon DEF Interrupted, Appended

\* A sync that panics acknowledges nothing.
LEMMA SyncPanicsLog ==
    ASSUME LogInv, BatchInv, SyncPanics
    PROVE  LogInv'
<1>1. /\ UNCHANGED <<files, up, crashes, nextId, closed, open,
                     openIds, fresh, deleting, seg, deleted>>
      /\ Interrupted(writing) /\ Tell(Range(writing) \cup Queued, "closed") /\ io' = "dead" /\ up
  BY Zenon DEF SyncPanics, segments, history
<1>2. \A o \in Op : told'[o] = IF o \in Range(writing) \cup Queued THEN "closed" ELSE told[o]
  BY <1>1, Told, Zenon DEF LogInv
<1>3. SameOutcomes
  <2>1. \A o \in Range(writing) \cup Queued : told[o] = "waiting"
    BY Zenon DEF BatchInv, BatchesAreApart
  <2> QED  BY <1>1, <1>2, <2>1, Zenon DEF SameOutcomes
<1>4. PICK e \in Seq(Op) : Appended(e)
  BY <1>1, InterruptedIs, Zenon
<1>5. /\ Acked' = Acked /\ deleted' \in SUBSET {o \in Op : told'[o] = "ok"}
  BY <1>1, <1>3, Outcomes, Zenon DEF LogInv
<1>6. /\ content' \in [Id -> Seq(Seq(Op))]
      /\ \A i \in Id : i # open => content'[i] = content[i]
  BY <1>4, AppendKeeps, Zenon DEF LogInv
<1>7. LogTypes'
  <2>1. told' \in [Op -> ToldWhat]
    BY <1>1, Zenon DEF Tell, LogInv, LogTypes, ToldWhat
  <2> QED  BY <1>1, <1>5, <1>6, <2>1, Zenon DEF LogInv, LogTypes, ToldWhat
<1>8. IdsAreBounded' /\ SegmentsAreApart'
  BY <1>1, Zenon DEF LogInv, IdsAreBounded, SegmentsAreApart
<1>9. AckedAreKept'
  BY <1>1, <1>3, <1>4, InterruptedKeeps, Zenon
<1>10. OpenIsWhole'
  <2>1. \A i \in fresh : i \in Id /\ i # open /\ content[i] = << >>
    BY <1>1, Zenon DEF LogInv, LogTypes, SegmentsAreApart, OpenIsWhole
  <2>2. io' # "running"
    BY <1>1, Zenon
  <2> QED  BY <1>1, <1>6, <2>1, <2>2, Zenon DEF OpenIsWhole
<1>11. RotateReturnsItsWrites'
  BY <1>1, <1>5, Zenon DEF LogInv, RotateReturnsItsWrites, AckedIn, Acked
<1> QED  BY <1>7, <1>8, <1>9, <1>10, <1>11, Zenon DEF LogInv

-----------------------------------------------------------------------------
(* The segments: crash and restart, rotate and delete.                     *)

\* The next id is that of no file.
LEMMA NextIdIsNew ==
    ASSUME LogInv, up
    PROVE  nextId \in Id \ files
<1>1. /\ nextId \in Nat /\ nextId <= MaxSegment + 1 + 2 * crashes
      /\ crashes \in Nat /\ crashes <= MaxCrashes /\ files \subseteq Id
      /\ \A i \in files : i < nextId
  BY Zenon DEF LogInv, LogTypes, IdsAreBounded
<1>2. nextId <= MaxSegment + 1 + 2 * MaxCrashes
  BY <1>1, WalConstants
<1> QED  BY <1>1, <1>2, WalConstants

\* A new file, whatever it holds, takes nothing from what is acknowledged.
LEMMA NewFileKeeps ==
    ASSUME LogInv, SameOutcomes, UNCHANGED deleted, NEW n \in Id \ files, NEW s,
           files' = files \cup {n}, content' = [content EXCEPT ![n] = s],
           fresh' \cup deleting' \subseteq fresh \cup deleting \cup {n}
    PROVE  /\ AckedAreKept'
           /\ \A i \in Id : content'[i] = IF i = n THEN s ELSE content[i]
           /\ s \in Seq(Seq(Op)) => content' \in [Id -> Seq(Seq(Op))]
<1>1. /\ Acked' = Acked /\ Spoiled' = Spoiled
      /\ \A o \in Acked : seg'[o] = seg[o]
  BY Outcomes, Zenon DEF LogInv
<1>2. /\ \A i \in Id : content'[i] = IF i = n THEN s ELSE content[i]
      /\ s \in Seq(Seq(Op)) => content' \in [Id -> Seq(Seq(Op))]
  BY Zenon DEF LogInv, LogTypes
<1>3. ASSUME NEW o \in Acked
      PROVE  /\ seg[o] \in files' \ (fresh' \cup deleting')
             /\ IsIn(o, content'[seg[o]]) \/ (seg[o] \in Spoiled /\ IsBehindTorn(o, content'[seg[o]]))
  <2>1. /\ seg[o] \in files \ (fresh \cup deleting) /\ seg[o] \in Id
        /\ IsIn(o, content[seg[o]]) \/ (seg[o] \in Spoiled /\ IsBehindTorn(o, content[seg[o]]))
    BY Zenon DEF LogInv, LogTypes, AckedAreKept
  <2>2. seg[o] # n
    BY <2>1, Zenon
  <2>3. content'[seg[o]] = content[seg[o]]
    BY <1>2, <2>1, <2>2, Zenon
  <2>4. seg[o] \in files' \ (fresh' \cup deleting')
    BY ONLY Zenon, <2>1, <2>2, files' = files \cup {n},
            fresh' \cup deleting' \subseteq fresh \cup deleting \cup {n}
  <2> QED  BY <2>1, <2>3, <2>4, Zenon
<1>4. AckedAreKept'
  BY <1>1, <1>3, Zenon DEF AckedAreKept
<1> QED  BY <1>2, <1>4, Zenon

\* A crash takes nothing from the segments that was synced.
LEMMA CrashLog ==
    ASSUME LogInv, BatchInv, Crash
    PROVE  LogInv'
<1>1. /\ up /\ up' = FALSE /\ crashes < MaxCrashes /\ crashes' = crashes + 1
      /\ fresh' = {} /\ deleting' = {} /\ openIds' = {} /\ io' = "running"
      /\ open' = 0 /\ nextId' = 0 /\ UNCHANGED <<seg, deleted>>
      /\ told' = [o \in Op |-> IF told[o] = "waiting" THEN "closed" ELSE told[o]]
  BY Zenon DEF Crash, history
<1>2. SameOutcomes /\ told' \in [Op -> ToldWhat]
  BY <1>1, Zenon DEF SameOutcomes, LogInv, LogTypes, ToldWhat
<1>3. nextId \in Id \ files
  BY <1>1, NextIdIsNew, Zenon
<1>4. /\ files' \in SUBSET (files \cup {nextId})
      /\ content' \in [Id -> Seq(Seq(Op))]
      /\ AckedAreKept'
  <2>1. CASE Interrupted(writing) /\ UNCHANGED files
    <3>1. PICK e \in Seq(Op) : Appended(e)
      BY <2>1, InterruptedIs, Zenon
    <3>2. content' \in [Id -> Seq(Seq(Op))]
      BY <3>1, AppendKeeps, Zenon DEF LogInv
    <3>3. AckedAreKept'
      BY <1>1, <1>2, <2>1, <3>1, InterruptedKeeps, Zenon
    <3> QED  BY <2>1, <3>2, <3>3, Zenon
  <2>2. CASE files' = files \cup {nextId} /\ content' = [content EXCEPT ![nextId] = <<Torn>>]
    <3>1. <<Torn>> \in Seq(Seq(Op))
      BY DEF Torn
    <3>2. fresh' \cup deleting' \subseteq fresh \cup deleting \cup {nextId}
      BY <1>1, Zenon
    <3>3. AckedAreKept' /\ (<<Torn>> \in Seq(Seq(Op)) => content' \in [Id -> Seq(Seq(Op))])
      BY <1>1, <1>2, <1>3, <2>2, <3>2, NewFileKeeps, Zenon
    <3> QED  BY <2>2, <3>1, <3>3, Zenon
  <2> QED  BY <2>1, <2>2, Zenon DEF Crash
<1>5. deleted' \in SUBSET {o \in Op : told'[o] = "ok"}
  BY <1>1, <1>2, Outcomes, Zenon DEF LogInv
<1>6. LogTypes'
  <2>1. 0 \in Id /\ 0 \in Nat
    BY WalConstants
  <2>2. crashes' \in Nat /\ crashes' <= MaxCrashes
    BY <1>1, WalConstants DEF LogInv, LogTypes
  <2>3. files' \in SUBSET Id
    BY <1>3, <1>4, Zenon DEF LogInv, LogTypes
  <2> QED  BY <1>1, <1>2, <1>4, <1>5, <2>1, <2>2, <2>3, Zenon DEF LogInv, LogTypes, ToldWhat
<1>7. IdsAreBounded'
  <2>1. /\ crashes \in Nat /\ nextId \in Nat /\ nextId <= MaxSegment + 1 + 2 * crashes
        /\ files \subseteq Nat /\ \A i \in files : i < nextId
    BY <1>1, WalConstants, Zenon DEF LogInv, LogTypes, IdsAreBounded
  <2>2. crashes' > 0 /\ \A i \in files \cup {nextId} : i < MaxSegment + 2 * crashes'
    BY ONLY <1>1, <2>1, WalConstants
  <2> QED  BY <1>1, <1>4, <2>2, Zenon DEF IdsAreBounded
<1>8. SegmentsAreApart' /\ OpenIsWhole' /\ RotateReturnsItsWrites'
  BY <1>1, Zenon DEF SegmentsAreApart, OpenIsWhole, RotateReturnsItsWrites
<1> QED  BY <1>4, <1>6, <1>7, <1>8, Zenon DEF LogInv

\* Wal::new: every file is closed, the open segment is a new one.
LEMMA RestartLog ==
    ASSUME LogInv, Restart
    PROVE  LogInv'
<1> DEFINE id == IF files = {} THEN 0 ELSE Max(files) + 1
<1>1. /\ ~up /\ up' = TRUE /\ open' = id /\ nextId' = id + 1 /\ files' = files \cup {id}
      /\ content' = [content EXCEPT ![id] = << >>] /\ closed' = files
      /\ UNCHANGED <<crashes, io, openIds, fresh, deleting, told, seg, deleted>>
  BY Zenon DEF Restart, history
<1>2. /\ files \subseteq Id /\ crashes \in Nat /\ crashes <= MaxCrashes /\ crashes > 0
      /\ \A i \in files : i < MaxSegment + 2 * crashes
      /\ fresh = {} /\ deleting = {} /\ openIds = {} /\ io = "running"
  BY <1>1, Zenon DEF LogInv, LogTypes, IdsAreBounded, SegmentsAreApart
<1>3. id \in Nat /\ id <= MaxSegment + 2 * crashes /\ \A i \in files : i < id
  <2>1. CASE files = {}
    BY <1>2, <2>1, WalConstants
  <2>2. CASE files # {}
    <3>1. files \in SUBSET Nat /\ MaxSegment + 2 * crashes \in Nat
      BY <1>2, WalConstants
    <3>2. \A i \in files : i <= MaxSegment + 2 * crashes
      BY <1>2, <3>1
    <3>3. Max(files) \in files /\ \A i \in files : i <= Max(files)
      BY <2>2, <3>1, <3>2, MaxIsGreatest, Zenon
    <3>4. Max(files) \in Nat /\ Max(files) < MaxSegment + 2 * crashes
      BY <1>2, <3>1, <3>3, Zenon
    <3>5. id = Max(files) + 1
      BY <2>2, Zenon
    <3> HIDE DEF id
    <3> QED  BY ONLY <3>1, <3>3, <3>4, <3>5
  <2> QED  BY <2>1, <2>2, Zenon
<1> HIDE DEF id
<1>4. id \in Id \ files
  <2>1. id <= MaxSegment + 1 + 2 * MaxCrashes
    BY ONLY <1>2, <1>3, WalConstants
  <2> QED  BY <1>3, <2>1, WalConstants
<1>5. SameOutcomes
  BY <1>1, Zenon DEF SameOutcomes
<1>6. /\ AckedAreKept'
      /\ \A i \in Id : content'[i] = IF i = id THEN << >> ELSE content[i]
      /\ content' \in [Id -> Seq(Seq(Op))]
  <2>1. fresh' \cup deleting' \subseteq fresh \cup deleting \cup {id} /\ << >> \in Seq(Seq(Op))
    BY <1>1
  <2> QED  BY <1>1, <1>4, <1>5, <2>1, NewFileKeeps, Zenon
<1>7. LogTypes'
  BY <1>1, <1>3, <1>4, <1>6 DEF LogInv, LogTypes
<1>8. IdsAreBounded'
  <2>1. id + 1 <= MaxSegment + 1 + 2 * crashes /\ \A i \in files \cup {id} : i < id + 1
    BY ONLY <1>2, <1>3, WalConstants
  <2> QED  BY <1>1, <2>1, Zenon DEF IdsAreBounded
<1>9. SegmentsAreApart'
  BY <1>1, <1>2, <1>4, Zenon DEF SegmentsAreApart
<1>10. OpenIsWhole'
  <2>1. content'[open'] = << >> /\ fresh' = {}
    BY <1>1, <1>2, <1>4, <1>6, Zenon
  <2> QED  BY <2>1 DEF OpenIsWhole
<1>11. RotateReturnsItsWrites'
  <2>1. \A o \in Acked : seg[o] # id
    BY <1>4, Zenon DEF LogInv, AckedAreKept
  <2>2. AckedIn(open)' = {}
    BY <1>1, <2>1, Zenon DEF AckedIn, Acked
  <2> QED  BY <1>1, <1>2, <2>2, Zenon DEF RotateReturnsItsWrites
<1> QED  BY <1>6, <1>7, <1>8, <1>9, <1>10, <1>11, Zenon DEF LogInv

\* rotate creates an empty segment under a new id.
LEMMA RotateCreateLog ==
    ASSUME LogInv, RotateCreate
    PROVE  LogInv'
<1>1. /\ up /\ nextId <= MaxSegment /\ nextId' = nextId + 1 /\ files' = files \cup {nextId}
      /\ content' = [content EXCEPT ![nextId] = << >>] /\ fresh' = fresh \cup {nextId}
      /\ UNCHANGED <<up, crashes, closed, open, openIds, io, deleting, told, seg, deleted>>
  BY Zenon DEF RotateCreate, segments
<1>2. nextId \in Id \ files
  BY <1>1, NextIdIsNew, Zenon
<1>3. SameOutcomes
  BY <1>1, Zenon DEF SameOutcomes
<1>4. /\ AckedAreKept'
      /\ \A i \in Id : content'[i] = IF i = nextId THEN << >> ELSE content[i]
      /\ content' \in [Id -> Seq(Seq(Op))]
  <2>1. fresh' \cup deleting' \subseteq fresh \cup deleting \cup {nextId} /\ << >> \in Seq(Seq(Op))
    BY <1>1
  <2> QED  BY <1>1, <1>2, <1>3, <2>1, NewFileKeeps, Zenon
<1>5. LogTypes'
  BY <1>1, <1>2, <1>4 DEF LogInv, LogTypes
<1>6. IdsAreBounded'
  <2>1. /\ crashes \in Nat /\ nextId \in Nat /\ files \subseteq Nat /\ \A i \in files : i < nextId
    BY <1>1, WalConstants, Zenon DEF LogInv, LogTypes, IdsAreBounded
  <2>2. /\ nextId + 1 <= MaxSegment + 1 + 2 * crashes
        /\ \A i \in files \cup {nextId} : i < nextId + 1
    BY ONLY <1>1, <2>1, WalConstants
  <2> QED  BY <1>1, <2>2, Zenon DEF IdsAreBounded
<1>7. open \in files /\ open # nextId /\ fresh \subseteq files /\ fresh \subseteq Id /\ open \in Id
  BY <1>1, <1>2, Zenon DEF LogInv, SegmentsAreApart, LogTypes
<1>8. SegmentsAreApart'
  BY <1>1, <1>2, Zenon DEF LogInv, SegmentsAreApart
<1>9. OpenIsWhole'
  <2>1. Spoiled' = Spoiled
    BY <1>1, Zenon DEF Spoiled
  <2>2. content'[open] = content[open] /\ \A i \in fresh' : content'[i] = << >>
    <3>1. content'[open] = content[open] /\ content'[nextId] = << >>
      BY <1>2, <1>4, <1>7, Zenon
    <3>2. \A i \in fresh : i # nextId => content'[i] = << >>
      BY <1>4, <1>7, Zenon DEF LogInv, OpenIsWhole
    <3> QED  BY <1>1, <3>1, <3>2, Zenon
  <2> QED  BY <1>1, <2>1, <2>2, Zenon DEF LogInv, OpenIsWhole
<1>10. RotateReturnsItsWrites'
  BY <1>1, Zenon DEF LogInv, RotateReturnsItsWrites, AckedIn
<1> QED  BY <1>4, <1>5, <1>6, <1>8, <1>9, <1>10, ZenonT(30) DEF LogInv

\* A rotate that fails leaves at most a file without a header.
LEMMA RotateFailsLog ==
    ASSUME LogInv, RotateFails
    PROVE  LogInv'
<1>1. /\ up /\ nextId <= MaxSegment /\ nextId' = nextId + 1
      /\ UNCHANGED <<up, crashes, closed, open, openIds, io, fresh, deleting, told, seg, deleted>>
      /\ \/ files' = files \cup {nextId} /\ content' = [content EXCEPT ![nextId] = <<Torn>>]
         \/ UNCHANGED <<files, content>>
  BY Zenon DEF RotateFails, segments, history, disk
<1>2. nextId \in Id \ files
  BY <1>1, NextIdIsNew, Zenon
<1>3. SameOutcomes
  BY <1>1, Zenon DEF SameOutcomes
<1>4. /\ AckedAreKept' /\ content' \in [Id -> Seq(Seq(Op))]
      /\ \A i \in files : content'[i] = content[i]
      /\ files \subseteq files' /\ files' \subseteq files \cup {nextId}
  <2>1. CASE files' = files \cup {nextId} /\ content' = [content EXCEPT ![nextId] = <<Torn>>]
    <3>1. <<Torn>> \in Seq(Seq(Op)) /\ files \subseteq Id /\ nextId \notin files
      BY <1>2 DEF Torn, LogInv, LogTypes
    <3>2. fresh' \cup deleting' \subseteq fresh \cup deleting \cup {nextId}
      BY <1>1, Zenon
    <3>3. /\ AckedAreKept' /\ content' \in [Id -> Seq(Seq(Op))]
          /\ \A i \in Id : content'[i] = IF i = nextId THEN <<Torn>> ELSE content[i]
      BY <1>1, <1>2, <1>3, <2>1, <3>1, <3>2, NewFileKeeps, ZenonT(30)
    <3> QED  BY <2>1, <3>1, <3>3, Zenon
  <2>2. CASE UNCHANGED <<files, content>>
    <3>1. Acked' = Acked /\ Spoiled' = Spoiled
      BY <1>1, Zenon DEF Acked, Spoiled
    <3> QED  BY <1>1, <2>2, <3>1, Zenon DEF LogInv, LogTypes, AckedAreKept
  <2> QED  BY <1>1, <2>1, <2>2, Zenon
<1>5. LogTypes'
  BY <1>1, <1>2, <1>4 DEF LogInv, LogTypes
<1>6. IdsAreBounded'
  <2>1. /\ crashes \in Nat /\ nextId \in Nat /\ files \subseteq Nat /\ \A i \in files : i < nextId
    BY <1>1, WalConstants, Zenon DEF LogInv, LogTypes, IdsAreBounded
  <2>2. /\ nextId + 1 <= MaxSegment + 1 + 2 * crashes
        /\ \A i \in files \cup {nextId} : i < nextId + 1
    BY ONLY <1>1, <2>1, WalConstants
  <2> QED  BY <1>1, <1>4, <2>2, Zenon DEF IdsAreBounded
<1>7. SegmentsAreApart'
  BY <1>1, <1>4, Zenon DEF LogInv, SegmentsAreApart
<1>8. OpenIsWhole'
  <2>1. Spoiled' = Spoiled /\ open \in files /\ fresh \subseteq files
    BY <1>1, Zenon DEF Spoiled, LogInv, SegmentsAreApart
  <2> QED  BY <1>1, <1>4, <2>1, Zenon DEF LogInv, OpenIsWhole
<1>9. RotateReturnsItsWrites'
  BY <1>1, Zenon DEF LogInv, RotateReturnsItsWrites, AckedIn
<1> QED  BY <1>4, <1>5, <1>6, <1>7, <1>8, <1>9, Zenon DEF LogInv

\* rotate closes the open segment and goes on with the new one.
LEMMA RotateInstallLog ==
    ASSUME LogInv, NEW n \in Id, RotateInstall(n)
    PROVE  LogInv'
<1>1. /\ up /\ n \in fresh /\ open' = n /\ openIds' = {} /\ closed' = closed \cup {open}
      /\ fresh' = fresh \ {n}
      /\ UNCHANGED <<files, content, up, crashes, nextId, io, deleting, told, seg, deleted>>
  BY Zenon DEF RotateInstall, disk
<1>2. Acked' = Acked /\ Spoiled' = Spoiled
  BY <1>1, Zenon DEF Acked, Spoiled
<1>3. LogTypes' /\ IdsAreBounded'
  BY <1>1, Zenon DEF LogInv, LogTypes, IdsAreBounded
<1>4. SegmentsAreApart'
  BY <1>1, ZenonT(30) DEF LogInv, SegmentsAreApart
<1>5. AckedAreKept'
  BY <1>1, <1>2, Zenon DEF LogInv, AckedAreKept
<1>6. OpenIsWhole'
  <2>1. content[n] = << >>
    BY <1>1, Zenon DEF LogInv, OpenIsWhole
  <2>2. \A k \in DOMAIN content[n] : content[n][k] # Torn
    BY <2>1
  <2> QED  BY <1>1, <1>2, <2>2, Zenon DEF LogInv, OpenIsWhole
<1>7. RotateReturnsItsWrites'
  <2>1. \A o \in Acked : seg[o] # n
    BY <1>1, Zenon DEF LogInv, AckedAreKept
  <2>2. AckedIn(open)' = {}
    BY <1>1, <2>1, Zenon DEF AckedIn, Acked
  <2> QED  BY <1>1, <2>2, Zenon DEF RotateReturnsItsWrites
<1> QED  BY <1>3, <1>4, <1>5, <1>6, <1>7, Zenon DEF LogInv

\* What delete is called for was acknowledged and is given up.
LEMMA DeleteLog ==
    ASSUME LogInv, NEW n \in Id, Delete(n)
    PROVE  LogInv'
<1>1. /\ up /\ n \in closed /\ closed' = closed \ {n} /\ deleting' = deleting \cup {n}
      /\ deleted' = deleted \cup AckedIn(n)
      /\ UNCHANGED <<files, content, up, crashes, nextId, open, openIds, io, fresh, told, seg>>
  BY Zenon DEF Delete, disk
<1>2. Acked' = {o \in Acked : seg[o] # n} /\ Spoiled' = Spoiled
  BY <1>1, Zenon DEF Acked, Spoiled, AckedIn
<1>3. LogTypes' /\ IdsAreBounded'
  <2>1. deleted' \in SUBSET {o \in Op : told'[o] = "ok"}
    BY <1>1, Zenon DEF LogInv, LogTypes, AckedIn
  <2> QED  BY <1>1, <2>1, Zenon DEF LogInv, LogTypes, IdsAreBounded
<1>4. SegmentsAreApart'
  BY <1>1, Zenon DEF LogInv, SegmentsAreApart
<1>5. AckedAreKept'
  BY <1>1, <1>2, Zenon DEF LogInv, AckedAreKept
<1>6. OpenIsWhole'
  BY <1>1, <1>2, Zenon DEF LogInv, OpenIsWhole
<1>7. RotateReturnsItsWrites'
  <2>1. open # n
    BY <1>1, Zenon DEF LogInv, SegmentsAreApart
  <2>2. AckedIn(open)' = AckedIn(open)
    BY <1>1, <2>1, Zenon DEF AckedIn
  <2> QED  BY <1>1, <2>2, Zenon DEF LogInv, RotateReturnsItsWrites
<1> QED  BY <1>3, <1>4, <1>5, <1>6, <1>7, Zenon DEF LogInv

\* Removing the file takes away only what was given up.
LEMMA UnlinkLog ==
    ASSUME LogInv, NEW n \in Id, Unlink(n)
    PROVE  LogInv'
<1>1. /\ up /\ n \in deleting /\ deleting' = deleting \ {n}
      /\ UNCHANGED <<up, crashes, nextId, closed, open, openIds, io, fresh, told, seg, deleted>>
      /\ \/ files' = files \ {n} /\ content' = [content EXCEPT ![n] = << >>]
         \/ UNCHANGED <<files, content>>
  BY Zenon DEF Unlink, segments, history, disk
<1>2. Acked' = Acked /\ Spoiled' = Spoiled
  BY <1>1, Zenon DEF Acked, Spoiled
<1>3. /\ files \ {n} \subseteq files' /\ files' \subseteq files
      /\ content' \in [Id -> Seq(Seq(Op))] /\ \A i \in Id : i # n => content'[i] = content[i]
  <2>1. << >> \in Seq(Seq(Op))
    OBVIOUS
  <2> QED  BY <1>1, <2>1, Zenon DEF LogInv, LogTypes
<1>4. LogTypes'
  BY <1>1, <1>3, Zenon DEF LogInv, LogTypes
<1>5. IdsAreBounded'
  BY <1>1, <1>3, Zenon DEF LogInv, IdsAreBounded
<1>6. SegmentsAreApart'
  BY <1>1, <1>3, Zenon DEF LogInv, SegmentsAreApart
<1>7. AckedAreKept'
  <2> SUFFICES ASSUME NEW o \in Acked
               PROVE  /\ seg[o] \in files' \ (fresh \cup deleting')
                      /\ IsIn(o, content'[seg[o]]) \/ (seg[o] \in Spoiled /\ IsBehindTorn(o, content'[seg[o]]))
    BY <1>1, <1>2, Zenon DEF AckedAreKept
  <2>1. /\ seg[o] \in files \ (fresh \cup deleting) /\ seg[o] \in Id /\ seg[o] # n
        /\ IsIn(o, content[seg[o]]) \/ (seg[o] \in Spoiled /\ IsBehindTorn(o, content[seg[o]]))
    BY <1>1, Zenon DEF LogInv, LogTypes, AckedAreKept
  <2>2. content'[seg[o]] = content[seg[o]]
    BY <1>3, <2>1, Zenon
  <2>3. seg[o] \in files' \ (fresh \cup deleting')
    BY <1>1, <1>3, <2>1, Zenon
  <2> QED  BY <2>1, <2>2, <2>3, Zenon
<1>8. OpenIsWhole'
  <2>1. open \in Id /\ open # n /\ fresh \subseteq Id /\ n \notin fresh
    BY <1>1, Zenon DEF LogInv, LogTypes, SegmentsAreApart
  <2> QED  BY <1>1, <1>2, <1>3, <2>1, Zenon DEF LogInv, OpenIsWhole
<1>9. RotateReturnsItsWrites'
  BY <1>1, Zenon DEF LogInv, RotateReturnsItsWrites, AckedIn
<1> QED  BY <1>4, <1>5, <1>6, <1>7, <1>8, <1>9, Zenon DEF LogInv

-----------------------------------------------------------------------------
(* The theorems about the log.                                             *)

\* A new log has one segment with nothing in it.
LEMMA WalInit == Init => LogInv /\ BatchInv
<1> SUFFICES ASSUME Init PROVE LogInv /\ BatchInv
  BY Zenon
<1> USE DEF Init
<1>1. 0 \in Id /\ 1 \in Nat /\ 0 \in Nat /\ 0 <= MaxCrashes /\ 1 <= MaxSegment + 1 + 2 * 0
  BY WalConstants
<1>2. Acked = {} /\ {o \in Op : told[o] = "ok"} = {}
  BY Zenon DEF Acked
<1>3. LogTypes
  <2>1. content \in [Id -> Seq(Seq(Op))]
    OBVIOUS
  <2>2. told \in [Op -> ToldWhat] /\ seg \in [Op -> Id \cup {None}]
    BY Zenon DEF ToldWhat
  <2> QED  BY <1>1, <2>1, <2>2, Zenon DEF LogTypes, ToldWhat
<1>4. IdsAreBounded
  <2>1. 0 < 1
    OBVIOUS
  <2> QED  BY <1>1, <2>1, Zenon DEF IdsAreBounded
<1>5. SegmentsAreApart /\ AckedAreKept /\ OpenIsWhole
  BY <1>1, <1>2 DEF SegmentsAreApart, AckedAreKept, OpenIsWhole
<1>6. RotateReturnsItsWrites
  BY Zenon DEF RotateReturnsItsWrites, AckedIn
<1>7. BatchTypes
  BY DEF BatchTypes
<1>8. BatchesAreApart
  <2>1. Range(buffer) = {} /\ Range(sending) = {} /\ Range(writing) = {} /\ Queued = {}
    BY EmptySet, QueuedIs, Zenon DEF Queued
  <2> QED  BY <2>1, Zenon DEF BatchesAreApart
<1> QED  BY <1>3, <1>4, <1>5, <1>6, <1>7, <1>8, ZenonT(30) DEF LogInv, BatchInv

\* The steps of the writers and the flusher, and the one that receives a batch.
LEMMA QuietStep ==
    ASSUME LogInv, BatchInv, (\E o \in Op : WriteOp(o)) \/ Flusher \/ Receive
    PROVE  LogInv' /\ BatchInv'
<1>1. ASSUME NEW o \in Op, WriteOp(o) PROVE LogInv' /\ BatchInv'
  <2>1. told' \in [Op -> ToldWhat] /\ SameOutcomes
    BY <1>1, Zenon DEF WriteOp, history, LogInv, LogTypes, ToldWhat, SameOutcomes
  <2>2. LogInv'
    BY <1>1, <2>1, QuietLog, Zenon DEF WriteOp, disk, segments, history
  <2> QED  BY <1>1, <2>2, WriteOpBatches, Zenon DEF LogInv
<1>2. CASE Flush \/ Receive
  <2>1. told' \in [Op -> ToldWhat] /\ SameOutcomes
    BY <1>2, Zenon DEF Flush, Receive, history, LogInv, LogTypes, ToldWhat, SameOutcomes
  <2>2. LogInv'
    BY <1>2, <2>1, QuietLog, Zenon DEF Flush, Receive, disk, segments, history
  <2> QED  BY <1>2, <2>2, FlushBatches, ReceiveBatches, Zenon
<1>3. CASE Enqueue
  <2>1. \/ UNCHANGED told
        \/ Tell(Range(sending), "closed")
    BY <1>3, Zenon DEF Enqueue
  <2>2. told' \in [Op -> ToldWhat]
    BY <2>1, Zenon DEF Tell, LogInv, LogTypes, ToldWhat
  <2>3. SameOutcomes
    <3>1. seg' = seg
      BY <1>3, Zenon DEF Enqueue, history
    <3>2. CASE UNCHANGED told
      BY <3>1, <3>2, Zenon DEF SameOutcomes
    <3>3. CASE Tell(Range(sending), "closed")
      <4>1. \A o \in Op : told'[o] = IF o \in Range(sending) THEN "closed" ELSE told[o]
        BY <3>3, Told, Zenon DEF LogInv
      <4>2. \A o \in Range(sending) : told[o] \in {"waiting", "closed"}
        BY Zenon DEF BatchInv, BatchesAreApart
      <4> QED  BY <3>1, <4>1, <4>2, Zenon DEF SameOutcomes
    <3> QED  BY <2>1, <3>2, <3>3, Zenon
  <2>4. LogInv'
    BY <1>3, <2>2, <2>3, QuietLog, Zenon DEF Enqueue, disk, segments, history
  <2> QED  BY <1>3, <2>4, EnqueueBatches, Zenon DEF LogInv
<1> QED  BY <1>1, <1>2, <1>3, Zenon DEF Flusher

\* Every step keeps the log and the batches consistent.
LEMMA WalNext == LogInv /\ BatchInv /\ [Next]_vars => LogInv' /\ BatchInv'
<1> SUFFICES ASSUME LogInv, BatchInv, [Next]_vars PROVE LogInv' /\ BatchInv'
  BY Zenon
<1>1. CASE (\E o \in Op : WriteOp(o)) \/ Flusher \/ Receive
  BY <1>1, QuietStep, Zenon
<1>2. CASE Write
  BY <1>2, WriteLog, WriteBatches, Zenon DEF Write, LogInv
<1>3. CASE WriteFails
  BY <1>3, WriteFailsLog, WriteBatches, Zenon DEF WriteFails, LogInv
<1>4. CASE SyncPanics
  BY <1>4, SyncPanicsLog, SyncPanicsBatches, Zenon DEF LogInv
<1>5. CASE Crash
  BY <1>5, CrashLog, CrashBatches, Zenon DEF Crash, BatchInv
<1>6. CASE Restart
  BY <1>6, RestartLog, SameBatches, Zenon DEF Restart, batches
<1>7. CASE RotateCreate \/ RotateFails
  BY <1>7, RotateCreateLog, RotateFailsLog, SameBatches, Zenon
     DEF RotateCreate, RotateFails, batches
<1>8. ASSUME NEW n \in Id, RotateInstall(n) \/ Delete(n) \/ Unlink(n)
      PROVE  LogInv' /\ BatchInv'
  <2>1. LogInv'
    BY <1>8, RotateInstallLog, DeleteLog, UnlinkLog, Zenon
  <2>2. BatchInv'
    BY <1>8, SameBatches, Zenon DEF RotateInstall, Delete, Unlink, batches
  <2> QED  BY <2>1, <2>2, Zenon
<1>9. CASE UNCHANGED vars
  <2>1. LogInv'
    <3>1. told' \in [Op -> ToldWhat] /\ SameOutcomes
      BY <1>9, Zenon DEF vars, LogInv, LogTypes, ToldWhat, SameOutcomes
    <3> QED  BY <1>9, <3>1, QuietLog, Zenon DEF vars
  <2> QED  BY <1>9, <2>1, SameBatches, Zenon DEF vars
<1> QED
  BY <1>1, <1>2, <1>3, <1>4, <1>5, <1>6, <1>7, <1>8, <1>9, Zenon DEF Next, IoThread

\* The log and the batches are consistent in every reachable state.
THEOREM LogIsConsistent == Spec => [](LogInv /\ BatchInv)
BY WalInit, WalNext, PTL DEF Spec

\* What the invariant keeps is what is read back.
LEMMA KeptSurvive == LogInv => AckedSurvive
<1> SUFFICES ASSUME LogInv, NEW o \in Op, told[o] = "ok", o \notin deleted
             PROVE  \/ IsReadBack(o)
                    \/ /\ seg[o] \in files /\ IsBehindTorn(o, content[seg[o]])
                       /\ \E p \in Op : told[p] = "err" /\ seg[p] = seg[o]
  BY Zenon DEF AckedSurvive
<1>1. seg[o] \in files /\ (IsIn(o, content[seg[o]]) \/ (seg[o] \in Spoiled /\ IsBehindTorn(o, content[seg[o]])))
  BY Zenon DEF LogInv, AckedAreKept, Acked
<1>2. CASE IsIn(o, content[seg[o]])
  BY <1>1, <1>2, InIsReadBack, Zenon DEF LogInv
<1>3. CASE seg[o] \in Spoiled /\ IsBehindTorn(o, content[seg[o]])
  BY <1>1, <1>3, Zenon DEF Spoiled
<1> QED  BY <1>1, <1>2, <1>3, Zenon

\* An acknowledged operation is read back until its segment is deleted, whatever
\* the order of writes, rotations, deletions and crashes, unless it is behind the
\* torn entry of a write to the same segment that failed and was reported.
THEOREM AcknowledgedIsDurable == Spec => []AckedSurvive
BY LogIsConsistent, KeptSurvive, PTL

\* rotate returns the operations acknowledged in the segment it closes.
THEOREM RotateIsExact == Spec => []RotateReturnsItsWrites
<1>1. LogInv => RotateReturnsItsWrites
  BY Zenon DEF LogInv
<1> QED  BY <1>1, LogIsConsistent, PTL
=============================================================================
