----------------------- MODULE ParquetCacheController -----------------------
(***************************************************************************)
(* The two Kubernetes controllers of the parquet cache                     *)
(* (src/parquet_cache/src/controller).  A ParquetCache names a pod         *)
(* template and a replica count.  Its controller keeps ParquetCacheSets,   *)
(* one per template hash, and publishes in a config map which pods own the *)
(* key space now (current) and after the step under way (next).  The       *)
(* ParquetCacheSet controller creates and deletes the pods of one set and  *)
(* records what each reports.                                              *)
(*                                                                         *)
(* A reconcile is a sequence of API calls.  In that of a ParquetCache each *)
(* call that changes something is a step, and it may fail between two of   *)
(* them.  In that of a ParquetCacheSet only reading the set is a step of   *)
(* its own: the calls that follow concern the pods of that set, which      *)
(* nothing else reads, and are one step with the status write.  The object *)
(* a reconcile works on is the watch cache's copy, which may be old; the   *)
(* API server refuses a status write made from an old copy.  What a pod    *)
(* answers to GET /state is left open here: any answer at any time.        *)
(***************************************************************************)
EXTENDS Naturals, Sequences, FiniteSets, FiniteSetsExt

CONSTANTS
    CacheSpec,    \* what the user may ask for: a pod template and a replica count
    MaxEdits      \* bound: edits of the ParquetCache by the user

ASSUME ControllerAssumption ==
    /\ \A s \in CacheSpec : DOMAIN s = {"template", "replicas"} /\ s.replicas \in Nat
    /\ MaxEdits \in Nat

(***************************************************************************)
(* The hash of the set template covers the template and the replica count, *)
(* so it is the spec, and names the ParquetCacheSet.  A pod is its set and *)
(* a suffix.                                                               *)
(***************************************************************************)
Hash == CacheSpec

Suffix == UNION {0 .. h.replicas - 1 : h \in Hash}

Pod == [set : Hash, suffix : Suffix]

VARIABLES
    pc,       \* the ParquetCache in the API server: spec, status, edit count
    seen,     \* the watch cache's copy of it
    cm,       \* the config map: a status, or NoMap
    sets,     \* sets[h]: NoSet, or the suffixes wanted, if listed, and the reported pods
    pods,     \* the pods that exist
    ctl,      \* the reconcile under way: its step, its object, the object it read
    setCtl,   \* setCtl[h]: the reconcile of set h: its step and what it read
    cut       \* history: a reconcile that had changed the sets ended unsaved

controllerVars == <<pc, seen, cm, sets, pods, ctl, setCtl, cut>>

NoMap == [map |-> FALSE]

NoSet == [want |-> {}, listed |-> FALSE, report |-> <<>>, exists |-> FALSE]

Idle == [step |-> "idle"]

EmptyInstances == [revision |-> 0, instances |-> <<>>]

(***************************************************************************)
(* What the set controller records of a pod: that it is Running and        *)
(* Warming, or anything else.                                              *)
(***************************************************************************)
Report == {"warming", "other"}

HashOf(object) == object.spec

Reported(h) == {[set |-> h, suffix |-> s] : s \in DOMAIN sets[h].report}

IsWarming(p) == p \in Reported(p.set) /\ sets[p.set].report[p.suffix] = "warming"

ControllerInit ==
    \E s \in CacheSpec :
        /\ pc = [spec |-> s,
                 status |-> [current |-> EmptyInstances, next |-> EmptyInstances],
                 edits |-> 0]
        /\ seen = pc
        /\ cm = NoMap
        /\ sets = [h \in Hash |-> NoSet]
        /\ pods = {}
        /\ ctl = Idle
        /\ setCtl = [h \in Hash |-> Idle]
        /\ cut = FALSE

-----------------------------------------------------------------------------
(***************************************************************************)
(* The user edits the spec; the watch delivers the object to the cache.    *)
(***************************************************************************)
Edit ==
    /\ pc.edits < MaxEdits
    /\ \E s \in CacheSpec \ {pc.spec} :
          pc' = [pc EXCEPT !.spec = s, !.edits = @ + 1]
    /\ UNCHANGED <<seen, cm, sets, pods, ctl, setCtl, cut>>

Watch ==
    /\ seen # pc
    /\ seen' = pc
    /\ UNCHANGED <<pc, cm, sets, pods, ctl, setCtl, cut>>

-----------------------------------------------------------------------------
(***************************************************************************)
(* ParquetCacheController::reconcile.                                      *)
(***************************************************************************)
At(step) == ctl.step = step

Goto(step) == ctl' = [ctl EXCEPT !.step = step]

\* A reconcile starts from the cached object; the config map is created if
\* there is none.  remove_empty_cache_sets lists the sets that are not of the
\* wanted template and report no pods, ...
Start ==
    /\ At("idle")
    /\ ctl' = [step |-> "warm", object |-> seen, read |-> seen,
               empty |-> {h \in Hash : /\ sets[h].exists
                                       /\ h # HashOf(seen)
                                       /\ DOMAIN sets[h].report = {}}]
    /\ cm' = IF cm = NoMap THEN seen.status ELSE cm
    /\ UNCHANGED <<pc, seen, sets, pods, setCtl, cut>>

\* ... and deletes them one by one.
RemoveEmptyCacheSet(h) ==
    /\ At("warm")
    /\ h \in ctl.empty
    /\ ctl' = [ctl EXCEPT !.empty = @ \ {h}]
    /\ sets' = [sets EXCEPT ![h] = NoSet]
    /\ UNCHANGED <<pc, seen, cm, pods, setCtl, cut>>

Status == ctl.object.status

\* The first of some positions, 0 if there are none.
First(positions) == IF positions = {} THEN 0 ELSE Min(positions)

\* check_warming_pods visits the instances of next in order.  It stops at the
\* first whose set is missing, with an error, or that is not reported Running
\* and Warming.
Stops(i) ==
    LET p == Status.next.instances[i]
    IN  ~sets[p.set].exists \/ ~IsWarming(p)

FirstStop == First({i \in DOMAIN Status.next.instances : Stops(i)})

CheckWarmingPods ==
    /\ At("warm")
    /\ ctl.empty = {}
    /\ IF Status.current.revision = Status.next.revision \/ FirstStop = 0
       THEN ctl' = [ctl EXCEPT !.step = "cool",
                               !.object.status.current = Status.next]
       ELSE IF sets[Status.next.instances[FirstStop].set].exists
            THEN Goto("publish")
            ELSE ctl' = Idle
    /\ UNCHANGED <<pc, seen, cm, sets, pods, setCtl, cut>>

\* check_cooling_pods: the pods of other templates that are in neither
\* instance set lose their suffix, unless the current pod of that suffix is
\* reported with a state that changed too recently.
LivePods == Range(Status.current.instances) \cup Range(Status.next.instances)

CoolingPods ==
    {p \in UNION {Reported(h) : h \in Hash \ {HashOf(ctl.object)}} :
        p \notin LivePods}

Replacement(suffix) ==
    {p \in Range(Status.current.instances) : p.suffix = suffix /\ p \in Reported(p.set)}

\* Two pods of one suffix wait for the same replacement.
Waiting == {w \in SUBSET {p \in CoolingPods : Replacement(p.suffix) # {}} :
               \A p, q \in CoolingPods : p.suffix = q.suffix => (p \in w <=> q \in w)}

Unwant(gone) ==
    sets' = [h \in Hash |->
                [sets[h] EXCEPT !.want = @ \ {p.suffix : p \in {q \in gone : q.set = h}}]]

CheckCoolingPods ==
    /\ At("cool")
    /\ \E waiting \in Waiting :
        /\ \A p \in CoolingPods \ waiting : sets[p.set].listed
        /\ Unwant(CoolingPods \ waiting)
        /\ Goto(CASE waiting # {} -> "publish"
                  [] Len(Status.current.instances) # ctl.object.spec.replicas -> "clear"
                  [] OTHER -> "migrate")
    /\ UNCHANGED <<pc, seen, cm, pods, setCtl, cut>>

\* The check ends after some of the pods: a call fails, or a pod is of a set
\* that resize has cleared, whose list of suffixes is unwrapped.
CheckCoolingFails ==
    /\ At("cool")
    /\ \E waiting \in Waiting :
          \E gone \in SUBSET {p \in CoolingPods \ waiting : sets[p.set].listed} :
             /\ gone # CoolingPods \ waiting
             /\ Unwant(gone)
             /\ cut' = (cut \/ gone # {})
    /\ ctl' = Idle
    /\ UNCHANGED <<pc, seen, cm, pods, setCtl>>

\* resize: every other set is told to have no pods, one by one, ...
ResizeClear(h) ==
    /\ At("clear")
    /\ h # HashOf(ctl.object) /\ sets[h].listed
    /\ sets' = [sets EXCEPT ![h].want = {}, ![h].listed = FALSE]
    /\ UNCHANGED <<pc, seen, cm, pods, ctl, setCtl, cut>>

\* ... the wanted one to have them all, and it takes over at once.
ResizeFill ==
    /\ At("clear")
    /\ \A h \in Hash \ {HashOf(ctl.object)} : ~sets[h].listed
    /\ LET h == HashOf(ctl.object)
           n == ctl.object.spec.replicas
           filled == [revision |-> Status.next.revision + 1,
                      instances |-> [i \in 1 .. n |-> [set |-> h, suffix |-> i - 1]]]
       IN  /\ sets' = [sets EXCEPT ![h].exists = TRUE, ![h].listed = TRUE,
                                   ![h].want = 0 .. n - 1]
           /\ ctl' = [ctl EXCEPT !.step = "publish",
                         !.object.status = [current |-> filled, next |-> filled]]
    /\ UNCHANGED <<pc, seen, cm, pods, setCtl, cut>>

\* migrate that keeps the revision of the instance set it changes.
MigrateKeepsRevision ==
    /\ At("migrate")
    /\ LET h == HashOf(ctl.object)
           i == First({j \in DOMAIN Status.current.instances :
                          Status.current.instances[j].set # h})
           suffix == Status.current.instances[i].suffix
       IN  IF i = 0
           THEN Goto("publish") /\ UNCHANGED sets
           ELSE /\ sets' = [sets EXCEPT ![h].exists = TRUE, ![h].listed = TRUE,
                                        ![h].want = @ \cup {suffix}]
                /\ ctl' = [ctl EXCEPT !.step = "publish",
                      !.object.status.next.instances[i] = [set |-> h, suffix |-> suffix]]
    /\ UNCHANGED <<pc, seen, cm, pods, setCtl, cut>>

\* migrate that leaves the set without a pod for the suffix.
MigrateWithoutPod ==
    /\ At("migrate")
    /\ LET h == HashOf(ctl.object)
           i == First({j \in DOMAIN Status.current.instances :
                          Status.current.instances[j].set # h})
           suffix == Status.current.instances[i].suffix
       IN  IF i = 0
           THEN Goto("publish") /\ UNCHANGED sets
           ELSE /\ sets' = [sets EXCEPT ![h].exists = TRUE, ![h].listed = TRUE]
                /\ ctl' = [ctl EXCEPT !.step = "publish",
                      !.object.status.next =
                         [revision |-> Status.current.revision + 1,
                          instances |-> [@.instances EXCEPT ![i] =
                                            [set |-> h, suffix |-> suffix]]]]
    /\ UNCHANGED <<pc, seen, cm, pods, setCtl, cut>>

\* migrate that replaces every instance of another template at once.
MigrateAll ==
    /\ At("migrate")
    /\ LET h == HashOf(ctl.object)
           old == Status.current.instances
       IN  /\ sets' = [sets EXCEPT ![h].exists = TRUE, ![h].listed = TRUE,
                                   ![h].want = @ \cup {p.suffix : p \in Range(old)}]
           /\ ctl' = [ctl EXCEPT !.step = "publish",
                 !.object.status.next =
                    [revision |-> Status.current.revision + 1,
                     instances |-> [i \in DOMAIN old |-> [old[i] EXCEPT !.set = h]]]]
    /\ UNCHANGED <<pc, seen, cm, pods, setCtl, cut>>

\* migrate: the first instance of another template is replaced in next by the
\* pod of the wanted set with its suffix.
Migrate ==
    /\ At("migrate")
    /\ LET h == HashOf(ctl.object)
           i == First({j \in DOMAIN Status.current.instances :
                          Status.current.instances[j].set # h})
           suffix == Status.current.instances[i].suffix
       IN  IF i = 0
           THEN Goto("publish") /\ UNCHANGED sets
           ELSE /\ sets' = [sets EXCEPT ![h].exists = TRUE, ![h].listed = TRUE,
                                        ![h].want = @ \cup {suffix}]
                /\ ctl' = [ctl EXCEPT !.step = "publish",
                      !.object.status.next =
                         [revision |-> Status.current.revision + 1,
                          instances |-> [@.instances EXCEPT ![i] =
                                            [set |-> h, suffix |-> suffix]]]]
    /\ UNCHANGED <<pc, seen, cm, pods, setCtl, cut>>

\* The config map is replaced whatever its version, ...
Publish ==
    /\ At("publish")
    /\ cm' = Status
    /\ Goto("save")
    /\ UNCHANGED <<pc, seen, sets, pods, setCtl, cut>>

\* ... the status only if the object is still the one that was read.
SaveStatus ==
    /\ At("save")
    /\ pc = ctl.read
    /\ pc' = [pc EXCEPT !.status = Status]
    /\ ctl' = Idle
    /\ UNCHANGED <<seen, cm, sets, pods, setCtl, cut>>

SaveConflicts ==
    /\ At("save")
    /\ pc # ctl.read
    /\ ctl' = Idle
    /\ cut' = TRUE
    /\ UNCHANGED <<pc, seen, cm, sets, pods, setCtl>>

\* An API call fails or the controller is restarted.
Fail ==
    /\ ~At("idle")
    /\ ctl' = Idle
    /\ cut' = (cut \/ ~(At("warm") \/ At("cool")))
    /\ UNCHANGED <<pc, seen, cm, sets, pods, setCtl>>

-----------------------------------------------------------------------------
(***************************************************************************)
(* ParquetCacheSetController::reconcile of set h.                          *)
(***************************************************************************)
SetStart(h) ==
    /\ setCtl[h] = Idle
    /\ sets[h].exists
    /\ setCtl' = [setCtl EXCEPT ![h] = [step |-> "pods", want |-> sets[h].want]]
    /\ UNCHANGED <<pc, seen, cm, sets, pods, ctl, cut>>

\* delete_removed, create_missing, update_status and the status write, whose
\* many calls are one step here.  The write is lost if a pod cannot be asked, and
\* refused if the set changed since it was read.
SetFinish(h) ==
    /\ setCtl[h] # Idle
    /\ pods' = {p \in pods : p.set # h}
                  \cup {[set |-> h, suffix |-> s] : s \in setCtl[h].want}
    /\ \/ /\ sets[h].exists /\ sets[h].want = setCtl[h].want
          /\ \E r \in [setCtl[h].want -> Report] :
                sets' = [sets EXCEPT ![h].report = r]
       \/ UNCHANGED sets
    /\ setCtl' = [setCtl EXCEPT ![h] = Idle]
    /\ UNCHANGED <<pc, seen, cm, ctl, cut>>

\* Kubernetes deletes the pods whose owner is gone.
CollectPods ==
    /\ \E p \in pods : ~sets[p.set].exists
    /\ pods' = {p \in pods : sets[p.set].exists}
    /\ UNCHANGED <<pc, seen, cm, sets, ctl, setCtl, cut>>

Reconcile ==
    \/ Start
    \/ CheckWarmingPods
    \/ CheckCoolingPods
    \/ CheckCoolingFails
    \/ \E h \in Hash : RemoveEmptyCacheSet(h) \/ ResizeClear(h)
    \/ ResizeFill
    \/ Migrate
    \/ Publish
    \/ SaveStatus
    \/ SaveConflicts

SetReconcile(h) == SetStart(h) \/ SetFinish(h)

ControllerNext ==
    \/ Edit
    \/ Watch
    \/ Reconcile
    \/ Fail
    \/ \E h \in Hash : SetReconcile(h)
    \/ CollectPods

ControllerSpec == ControllerInit /\ [][ControllerNext]_controllerVars

-----------------------------------------------------------------------------
\* The revision of an instance set identifies it: a server that already has the
\* revision keeps what it has (keyspace.rs, update).  So the config map never
\* passes to another set under the same revision, unless the status write that
\* should have followed the first was lost.
RevisionNamesOneSet ==
    [][cm # NoMap /\ cm'.next.revision = cm.next.revision
          => cm'.next = cm.next \/ pc.status.next # cm.next]_controllerVars

\* Between reconciles, as long as none was cut short, every pod the saved status
\* gives the key space to is one its set is told to have: neither the cooling
\* check nor a resize takes away a pod that serves or is about to.  The
\* exception is a set deleted before it reported a pod.
InstancesAreWanted ==
    At("idle") /\ ~cut =>
        \A p \in Range(pc.status.current.instances) \cup Range(pc.status.next.instances) :
            p.suffix \in sets[p.set].want \/ ~sets[p.set].exists

\* A rollout replaces one pod at a time: next is current, or current with one
\* instance replaced by a pod of the same suffix under the following revision.
OnePodAtATime ==
    cm # NoMap =>
        \/ cm.next = cm.current
        \/ /\ cm.next.revision = cm.current.revision + 1
           /\ \E i \in DOMAIN cm.current.instances, h \in Hash :
                 cm.next.instances =
                    [cm.current.instances EXCEPT ![i].set = h]

\* A set that an instance of an unfinished step belongs to exists: while it does
\* not, check_warming_pods fails and no reconcile gets further.
NextSetsExist ==
    pc.status.current.revision # pc.status.next.revision =>
        \A p \in Range(pc.status.next.instances) : sets[p.set].exists
=============================================================================
