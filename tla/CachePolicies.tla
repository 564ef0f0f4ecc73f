--------------------------- MODULE CachePolicies ---------------------------
(***************************************************************************)
(* The policies of `cache_system`: backends whose entries are refreshed by *)
(* a background worker, expire, and share one resource pool that evicts    *)
(* the least recently used entries of all of them.                         *)
(*                                                                         *)
(* A backend (a member of the pool) is a hash map with the subscribers     *)
(* RefreshPolicy, TtlPolicy and LruPolicy, in that order.  Its operations  *)
(* run under the backend's lock, one at a time, but not in one step:       *)
(* `LruPolicy::set` charges the pool after it released the lock of its     *)
(* heap, and the removals that the subscribers request are played out      *)
(* after that.  The other processes are the refresh worker of each         *)
(* backend, the clean-up loop of the pool, and the passing of time.        *)
(*                                                                         *)
(* Times are reduced to their order: an instant is still to come ("later") *)
(* or has come ("due"), and last-used times are a sequence of keys.  The   *)
(* back-off of a refresh has no deadline, so it always names an instant.   *)
(***************************************************************************)
EXTENDS Integers, Sequences, FiniteSets, FiniteSetsExt

CONSTANTS Key,      \* the cached keys
          Member,   \* the backends, by their pool member ID
          Owner,    \* [Key -> Member], the backend of each key
          Value,    \* [Key -> values], by what the policies make of them
          Limit,    \* the limit of the resource pool
          MaxOps    \* bound on the operations of the users

\* What the providers and the estimator say of a key's value.
Attributes == [size : Nat \ {0}, ttl : {"never", "zero", "some"}, refresh : BOOLEAN]

ASSUME PoliciesAssumption ==
    /\ IsFiniteSet(Key) /\ IsFiniteSet(Member)
    /\ Owner \in [Key -> Member]
    /\ Value \in [Key -> SUBSET Attributes]
    /\ Limit \in Nat
    /\ MaxOps \in Nat

VARIABLES inner,    \* [Key -> value], the hash maps of the backends
          timing,   \* [Key -> RefreshState]: its tag, and when it is refreshed
          expiry,   \* [Key -> instant], the expiration heap of the TTL policies
          heap,     \* [Key -> size], the last-used heaps of the LRU policies
          recency,  \* the keys of these heaps, the least recently used first
          current,  \* the resource usage of the pool
          change,   \* the permit of the pool's change_notify
          loop,     \* the clean-up loop
          op,       \* [Member -> the operation that holds the backend's lock]
          worker,   \* [Member -> the refresh worker]
          permit,   \* [Member -> the permit of timings_changed]
          tasks,    \* [Key -> the tags of the refreshes that are loading]
          ops       \* operations the users have started

vars == <<inner, timing, expiry, heap, recency, current, change, loop, op,
          worker, permit, tasks, ops>>

NoValue == [size |-> 0, ttl |-> "never", refresh |-> FALSE]
NoTiming == [tag |-> 0, at |-> "none"]

\* pc: "idle" (the lock is free), "add" (owes the pool a charge), "settle"
\* (removals requested by subscribers are to do), "drop" (the policy is
\* dropped and its usage still to be given back), "gone".
Idle == [pc |-> "idle", owed |-> 0, todo |-> {}]

\* The worker is at the "top" of its loop, in its select ("armed" with the
\* sleep for the next refresh, or "parked" without one), has stored the result
\* of the refresh `tag` of key k ("finish"), or was aborted ("gone").
WorkerAt(pc) == [pc |-> pc]

\* pc: "read", "sleep", "lock" (it takes the heaps' locks one by one) and
\* "remove" (it has victims to remove).
Sleeping == [pc |-> "sleep", cur |-> 0, members |-> {}, held |-> {}, victims |-> {}]

Init ==
    /\ inner = [k \in Key |-> NoValue]
    /\ timing = [k \in Key |-> NoTiming]
    /\ expiry = [k \in Key |-> "none"]
    /\ heap = [k \in Key |-> 0]
    /\ recency = <<>>
    /\ current = 0
    /\ change = FALSE
    /\ loop = Sleeping
    /\ op = [m \in Member |-> Idle]
    /\ worker = [m \in Member |-> WorkerAt("top")]
    /\ permit = [m \in Member |-> FALSE]
    /\ tasks = [k \in Key |-> {}]
    /\ ops = 0

----------------------------------------------------------------------------
KeysOf(m) == {k \in Key : Owner[k] = m}
Alive(m) == op[m].pc \notin {"drop", "gone"}
Total(f, S) == MapThenSumSet(LAMBDA x : f[x], S)
Usage(S) == Total(heap, S)

\* The lock of the backend of k and that of its heap are free.
Free(k) == op[Owner[k]].pc = "idle" /\ Owner[k] \notin loop.held

\* TtlPolicy::evict_expired pops these and requests their removal.
Expired(m) == {k \in KeysOf(m) : expiry[k] = "due"}

Without(f, S, none) == [k \in Key |-> IF k \in S THEN none ELSE f[k]]

\* The keys S are removed from the backend, and the subscribers are told:
\* the refresh state is dropped, which cancels its task; the TTL and the LRU
\* policies forget the key, and the latter gives its usage back to the pool.
Forget(S) ==
    /\ inner' = Without(inner, S, NoValue)
    /\ timing' = Without(timing, S, NoTiming)
    /\ heap' = Without(heap, S, 0)
    /\ recency' = SelectSeq(recency, LAMBDA k : k \notin S)
    /\ current' = current - Usage(S)

\* What is left of an operation: the charge it owes, then the removals.
Rest(owed, todo) ==
    [pc |-> IF owed > 0 THEN "add" ELSE IF todo # {} THEN "settle" ELSE "idle",
     owed |-> owed, todo |-> todo]

\* The worker is not told of a new key.
RefreshOnSetSilently(k, v, tag) ==
    /\ timing' = IF ~v.refresh THEN [timing EXCEPT ![k] = NoTiming]
                 ELSE IF timing[k] = NoTiming
                      THEN [timing EXCEPT ![k] = [tag |-> tag, at |-> "later"]]
                      ELSE timing
    /\ UNCHANGED permit

\* The subscribers' `set`: RefreshPolicy knows the key, and keeps its timing,
\* or gives it the tag `tag`; a value it is not to refresh it forgets.
RefreshOnSet(k, v, tag) ==
    IF v.refresh
    THEN /\ timing' = IF timing[k] = NoTiming
                      THEN [timing EXCEPT ![k] = [tag |-> tag, at |-> "later"]]
                      ELSE timing
         /\ permit' = [permit EXCEPT ![Owner[k]] = TRUE]
    ELSE timing' = [timing EXCEPT ![k] = NoTiming] /\ UNCHANGED permit

Expiry(v) ==
    CASE v.ttl = "never" -> "none"
      [] v.ttl = "zero" -> "due"
      [] v.ttl = "some" -> "later"

\* A value larger than the pool is not charged, and stays.
PutKeepsLarge(k, v, tag) ==
    LET large == v.size > Limit
        out == Expired(Owner[k]) \cup IF v.ttl = "zero" /\ ~large THEN {k} ELSE {}
    IN  /\ inner' = [inner EXCEPT ![k] = v]
        /\ RefreshOnSet(k, v, tag)
        /\ expiry' = [Without(expiry, out, "none") EXCEPT ![k] = Expiry(v)]
        /\ heap' = IF large THEN heap ELSE [heap EXCEPT ![k] = v.size]
        /\ recency' = IF large \/ heap[k] > 0 THEN recency ELSE Append(recency, k)
        /\ current' = IF large THEN current ELSE current - heap[k]
        /\ op' = [op EXCEPT ![Owner[k]] = Rest(IF large THEN 0 ELSE v.size, out)]

\* The usage of the value that is replaced is not given back.
PutKeepsUsage(k, v, tag) ==
    LET large == v.size > Limit
        out == Expired(Owner[k]) \cup IF large \/ v.ttl = "zero" THEN {k} ELSE {}
    IN  /\ inner' = [inner EXCEPT ![k] = v]
        /\ RefreshOnSet(k, v, tag)
        /\ expiry' = [Without(expiry, out, "none") EXCEPT ![k] = Expiry(v)]
        /\ heap' = IF large THEN heap ELSE [heap EXCEPT ![k] = v.size]
        /\ recency' = IF large \/ heap[k] > 0 THEN recency ELSE Append(recency, k)
        /\ op' = [op EXCEPT ![Owner[k]] = Rest(IF large THEN 0 ELSE v.size, out)]
        /\ UNCHANGED current

\* TtlPolicy requests the removal of what has expired, and of a value that does
\* not live; LruPolicy that of a value larger than the pool, and moves any other
\* to its heap, where a known key keeps its place.
Put(k, v, tag) ==
    LET large == v.size > Limit
        out == Expired(Owner[k]) \cup IF large \/ v.ttl = "zero" THEN {k} ELSE {}
    IN  /\ inner' = [inner EXCEPT ![k] = v]
        /\ RefreshOnSet(k, v, tag)
        /\ expiry' = [Without(expiry, out, "none") EXCEPT ![k] = Expiry(v)]
        /\ heap' = IF large THEN heap ELSE [heap EXCEPT ![k] = v.size]
        /\ recency' = IF large \/ heap[k] > 0 THEN recency ELSE Append(recency, k)
        /\ current' = IF large THEN current ELSE current - heap[k]
        /\ op' = [op EXCEPT ![Owner[k]] = Rest(IF large THEN 0 ELSE v.size, out)]

----------------------------------------------------------------------------
(***************************************************************************)
(* The operations of the users.                                            *)
(***************************************************************************)
Begins(k) ==
    /\ Free(k)
    /\ ops < MaxOps
    /\ ops' = ops + 1
    /\ UNCHANGED <<change, loop, worker, tasks>>

\* A get schedules a refresh although one is running.
GetSchedules(k) ==
    /\ Begins(k)
    /\ LET m == Owner[k]
           out == Expired(m)
           known == timing[k] # NoTiming
       IN  /\ timing' = IF known THEN [timing EXCEPT ![k].at = "later"] ELSE timing
           /\ permit' = [permit EXCEPT ![m] = @ \/ known]
           /\ expiry' = Without(expiry, out, "none")
           /\ recency' = IF heap[k] > 0
                         THEN Append(SelectSeq(recency, LAMBDA x : x # k), k)
                         ELSE recency
           /\ op' = [op EXCEPT ![m] = Rest(0, out)]
    /\ UNCHANGED <<inner, heap, current>>

\* A get postpones the next refresh and makes the key the last used one.
Get(k) ==
    /\ Begins(k)
    /\ LET m == Owner[k]
           out == Expired(m)
           waits == timing[k].at \in {"later", "due"}
       IN  /\ timing' = IF waits THEN [timing EXCEPT ![k].at = "later"] ELSE timing
           /\ permit' = [permit EXCEPT ![m] = @ \/ waits]
           /\ expiry' = Without(expiry, out, "none")
           /\ recency' = IF heap[k] > 0
                         THEN Append(SelectSeq(recency, LAMBDA x : x # k), k)
                         ELSE recency
           /\ op' = [op EXCEPT ![m] = Rest(0, out)]
    /\ UNCHANGED <<inner, heap, current>>

Set(k, v) ==
    /\ Begins(k)
    /\ Put(k, v, ops')

\* `remove`, and `remove_if` of a value that fits the predicate.
Remove(k) ==
    /\ Begins(k)
    /\ LET out == Expired(Owner[k]) \ {k}
       IN  /\ Forget({k})
           /\ expiry' = Without(expiry, out \cup {k}, "none")
           /\ op' = [op EXCEPT ![Owner[k]] = Rest(0, out)]
    /\ UNCHANGED permit

\* ResourcePool::add.
Add(m) ==
    /\ op[m].pc = "add"
    /\ current' = current + op[m].owed
    /\ change' = (change \/ current' > Limit)
    /\ op' = [op EXCEPT ![m] = Rest(0, op[m].todo)]
    /\ UNCHANGED <<inner, timing, expiry, heap, recency, loop, worker, permit, tasks, ops>>

\* perform_changes goes on with the removals that were requested.
Settle(m) ==
    /\ op[m].pc = "settle"
    /\ m \notin loop.held
    /\ Forget(op[m].todo)
    /\ expiry' = Without(expiry, op[m].todo, "none")
    /\ op' = [op EXCEPT ![m] = Idle]
    /\ UNCHANGED <<change, loop, worker, permit, tasks, ops>>

\* The user drops the backend: LruPolicy::drop empties the heap, and then
\* gives its usage back; the refresh worker is aborted.
Drop(m) ==
    /\ op[m].pc = "idle"
    /\ m \notin loop.held
    /\ LET S == KeysOf(m)
       IN  /\ inner' = Without(inner, S, NoValue)
           /\ timing' = Without(timing, S, NoTiming)
           /\ expiry' = Without(expiry, S, "none")
           /\ heap' = Without(heap, S, 0)
           /\ recency' = SelectSeq(recency, LAMBDA k : k \notin S)
           /\ tasks' = Without(tasks, S, {})
           /\ op' = [op EXCEPT ![m] = [pc |-> "drop", owed |-> Usage(S), todo |-> {}]]
    /\ worker' = [worker EXCEPT ![m] = WorkerAt("gone")]
    /\ permit' = [permit EXCEPT ![m] = FALSE]
    /\ UNCHANGED <<current, change, loop, ops>>

Dropped(m) ==
    /\ op[m].pc = "drop"
    /\ current' = current - op[m].owed
    /\ op' = [op EXCEPT ![m] = [Idle EXCEPT !.pc = "gone"]]
    /\ UNCHANGED <<inner, timing, expiry, heap, recency, change, loop, worker, permit,
                   tasks, ops>>

----------------------------------------------------------------------------
(***************************************************************************)
(* The refresh worker of a backend.  At the top of its loop it arms the    *)
(* sleep until the next refresh is due, if there is one, and then waits.   *)
(***************************************************************************)
In(m, pcs) == worker[m].pc \in pcs
Goto(m, pc) == worker' = [worker EXCEPT ![m] = WorkerAt(pc)]

Arm(m) ==
    /\ In(m, {"top"})
    /\ Goto(m, IF \E k \in KeysOf(m) : timing[k].at \in {"later", "due"}
               THEN "armed" ELSE "parked")
    /\ UNCHANGED <<inner, timing, expiry, heap, recency, current, change, loop, op,
                   permit, tasks, ops>>

\* timings_changed has been notified.
Wake(m) ==
    /\ In(m, {"armed", "parked"})
    /\ permit[m]
    /\ permit' = [permit EXCEPT ![m] = FALSE]
    /\ Goto(m, "top")
    /\ UNCHANGED <<inner, timing, expiry, heap, recency, current, change, loop, op,
                   tasks, ops>>

\* The sleep is over, and a refresh is due: it starts to load.
StartRefresh(k) ==
    /\ In(Owner[k], {"armed"})
    /\ timing[k].at = "due"
    /\ timing' = [timing EXCEPT ![k].at = "running"]
    /\ tasks' = [tasks EXCEPT ![k] = @ \cup {timing[k].tag}]
    /\ Goto(Owner[k], "top")
    /\ UNCHANGED <<inner, expiry, heap, recency, current, change, loop, op, permit, ops>>

\* The task of a refresh state that was dropped is cancelled.
Cancelled(k, tag) == timing[k].tag # tag

\* A cancelled task ends without effect.  Any other sets the value it loaded,
\* like a user, when it has the backend's lock.
EndRefresh(k, tag) ==
    /\ In(Owner[k], {"armed", "parked"})
    /\ tag \in tasks[k]
    /\ Cancelled(k, tag)
    /\ tasks' = [tasks EXCEPT ![k] = @ \ {tag}]
    /\ Goto(Owner[k], "top")
    /\ UNCHANGED <<inner, timing, expiry, heap, recency, current, change, loop, op,
                   permit, ops>>

\* The cancellation is not checked under the backend's lock.
StoreAnyRefresh(k, tag, v) ==
    /\ In(Owner[k], {"armed", "parked"})
    /\ tag \in tasks[k]
    /\ Free(k)
    /\ Put(k, v, tag)
    /\ tasks' = [tasks EXCEPT ![k] = @ \ {tag}]
    /\ worker' = [worker EXCEPT ![Owner[k]] = [pc |-> "finish", k |-> k, tag |-> tag]]
    /\ UNCHANGED <<change, loop, ops>>

StoreRefresh(k, tag, v) ==
    /\ In(Owner[k], {"armed", "parked"})
    /\ tag \in tasks[k]
    /\ Free(k)
    /\ ~Cancelled(k, tag)
    /\ Put(k, v, tag)
    /\ tasks' = [tasks EXCEPT ![k] = @ \ {tag}]
    /\ worker' = [worker EXCEPT ![Owner[k]] = [pc |-> "finish", k |-> k, tag |-> tag]]
    /\ UNCHANGED <<change, loop, ops>>

\* The worker schedules the next refresh of the key, unless the entry in the
\* table is another by now.
FinishRefresh(m) ==
    /\ In(m, {"finish"})
    /\ op[m].pc = "idle"
    /\ LET k == worker[m].k
       IN  timing' = IF Cancelled(k, worker[m].tag) THEN timing
                     ELSE [timing EXCEPT ![k].at = "later"]
    /\ Goto(m, "top")
    /\ UNCHANGED <<inner, expiry, heap, recency, current, change, loop, op, permit,
                   tasks, ops>>

----------------------------------------------------------------------------
(***************************************************************************)
(* clean_up_loop.                                                          *)
(***************************************************************************)
others == <<inner, timing, expiry, heap, recency, current, op, worker, permit, tasks, ops>>

ReadCurrent ==
    /\ loop.pc = "read"
    /\ loop' = IF current <= Limit THEN Sleeping
               ELSE LET ms == {m \in Member : Alive(m)}
                    IN  [loop EXCEPT !.pc = IF ms = {} THEN "read" ELSE "lock",
                                     !.cur = current, !.members = ms]
    /\ UNCHANGED <<change, others>>

Notified ==
    /\ loop.pc = "sleep"
    /\ change
    /\ change' = FALSE
    /\ loop' = [loop EXCEPT !.pc = "read"]
    /\ UNCHANGED others

\* could_remove: the candidates of a member come with the lock of its heap.
LockHeap(m) ==
    /\ loop.pc = "lock"
    /\ m \in loop.members \ loop.held
    /\ loop' = [loop EXCEPT !.held = @ \cup {m}]
    /\ UNCHANGED <<change, others>>

\* The iterators over the candidates, and with them the locks, live too long.
SelectHoldsLocks ==
    LET First(n) == {recency[i] : i \in 1 .. n}
        n == CHOOSE x \in 0 .. Len(recency) :
                /\ loop.cur - Usage(First(x)) <= Limit \/ x = Len(recency)
                /\ \A y \in 0 .. x - 1 : loop.cur - Usage(First(y)) > Limit
    IN  /\ loop.pc = "lock"
        /\ loop.held = loop.members
        /\ loop' = [loop EXCEPT !.pc = IF n = 0 THEN "read" ELSE "remove",
                                !.victims = First(n)]
        /\ UNCHANGED <<change, others>>

\* The least recently used entries of all the members, until what was read
\* minus their usage is within the limit.  Then the locks are released.
SelectVictims ==
    LET First(n) == {recency[i] : i \in 1 .. n}
        n == CHOOSE x \in 0 .. Len(recency) :
                /\ loop.cur - Usage(First(x)) <= Limit \/ x = Len(recency)
                /\ \A y \in 0 .. x - 1 : loop.cur - Usage(First(y)) > Limit
    IN  /\ loop.pc = "lock"
        /\ loop.held = loop.members
        /\ loop' = [Sleeping EXCEPT !.pc = IF n = 0 THEN "read" ELSE "remove",
                                    !.victims = First(n)]
        /\ UNCHANGED <<change, others>>

\* remove_keys of one member; a backend that is gone is passed over.
RemoveKeys(m) ==
    LET mine == loop.victims \cap KeysOf(m)
        out == mine \cup Expired(m)
        left == loop.victims \ mine
    IN  /\ loop.pc = "remove"
        /\ mine # {}
        /\ IF Alive(m)
           THEN /\ op[m].pc = "idle"
                /\ Forget(out)
                /\ expiry' = Without(expiry, out, "none")
           ELSE UNCHANGED <<inner, timing, expiry, heap, recency, current>>
        /\ loop' = [loop EXCEPT !.pc = IF left = {} THEN "read" ELSE "remove",
                                !.victims = left]
        /\ UNCHANGED <<change, op, worker, permit, tasks, ops>>

----------------------------------------------------------------------------
\* Time passes.
Elapse(k) ==
    \/ /\ timing[k].at = "later"
       /\ timing' = [timing EXCEPT ![k].at = "due"]
       /\ UNCHANGED <<inner, expiry, heap, recency, current, change, loop, op, worker,
                      permit, tasks, ops>>
    \/ /\ expiry[k] = "later"
       /\ expiry' = [expiry EXCEPT ![k] = "due"]
       /\ UNCHANGED <<inner, timing, heap, recency, current, change, loop, op, worker,
                      permit, tasks, ops>>

Finish(m) == Add(m) \/ Settle(m) \/ Dropped(m)

Work(m) ==
    \/ Arm(m)
    \/ Wake(m)
    \/ FinishRefresh(m)
    \/ \E k \in KeysOf(m) : StartRefresh(k)

Complete(k) ==
    \E tag \in tasks[k] :
        EndRefresh(k, tag) \/ \E v \in Value[k] : StoreRefresh(k, tag, v)

CleanUp ==
    \/ ReadCurrent
    \/ Notified
    \/ \E m \in Member : LockHeap(m) \/ RemoveKeys(m)
    \/ SelectVictims

Next ==
    \/ \E k \in Key : \/ Get(k)
                      \/ \E v \in Value[k] : Set(k, v)
                      \/ Remove(k)
                      \/ Elapse(k)
                      \/ Complete(k)
    \/ \E m \in Member : Drop(m) \/ Finish(m) \/ Work(m)
    \/ CleanUp

Spec == Init /\ [][Next]_vars

(***************************************************************************)
(* The runtime polls the tasks that are ready, a thread that holds a lock  *)
(* goes on, time passes, and a loader returns.                             *)
(***************************************************************************)
FairSpec ==
    /\ Spec
    /\ WF_vars(CleanUp)
    /\ \A m \in Member : WF_vars(Finish(m)) /\ WF_vars(Work(m))
    /\ \A k \in Key : WF_vars(Elapse(k)) /\ WF_vars(Complete(k))

----------------------------------------------------------------------------
\* Whenever no operation is under way in a backend, its policies know what it
\* holds: the LRU policy has exactly its keys, with their sizes, and the other
\* two have no timer for a key that is not there.
PoliciesAgree ==
    \A k \in Key : op[Owner[k]].pc = "idle" =>
        /\ heap[k] = inner[k].size
        /\ inner[k] = NoValue => timing[k] = NoTiming /\ expiry[k] = "none"

\* What the pool holds for a member beyond its entries.
Surplus == [m \in Member |-> CASE op[m].pc = "add" -> -op[m].owed
                               [] op[m].pc = "drop" -> op[m].owed
                               [] OTHER -> 0]

\* The usage of the pool is that of the entries, but for the charges that are
\* still owed and the entries of a dropped policy that are still to be given
\* back.  In particular `checked_sub` never fails.
PoolIsExact == current = Usage(Key) + Total(Surplus, Member)

\* A key has one refresh under way at most, and none that its table entry does
\* not know of, or that its entry waits for in vain.
OneRefreshPerKey ==
    \A k \in Key : timing[k] # NoTiming =>
        (timing[k].at = "running" <=>
            \/ timing[k].tag \in tasks[k]
            \/ worker[Owner[k]] = [pc |-> "finish", k |-> k, tag |-> timing[k].tag])

\* A refresh that loaded for too long does not bring an entry back: what it
\* stores replaces an entry.
LateLoadsAreDropped ==
    [][\A k \in Key :
          LET w == worker[Owner[k]]
          IN  w' # w /\ w'.pc = "finish" /\ w'.k = k => inner[k] # NoValue]_vars

\* The pool comes back within its limit: no notification of the clean-up loop
\* is lost, and the locks it takes never close a circle.
PoolConverges == current > Limit ~> current <= Limit

\* A refresh that is scheduled starts in the end, unless the entry goes:
\* no change of the table escapes the worker.
RefreshesStart ==
    \A k \in Key : timing[k].at \in {"later", "due"} ~> timing[k].at \in {"running", "none"}
=============================================================================
