----------------------------- MODULE CacheDriver -----------------------------
(***************************************************************************)
(* cache_system::cache::driver::CacheDriver: the cache in front of a       *)
(* storage backend and an asynchronous loader, and the                     *)
(* CancellationSafeFuture its loads run in.                                *)
(*                                                                         *)
(* One key is modelled: queries of different keys share only the lock and  *)
(* the tag counter.  A value is identified by the moment it came into      *)
(* being: the value a query loads is the query's tag, the value a set()    *)
(* brings is a number of the same counter.  A larger stamp is a younger    *)
(* value, and 0 is "no value".  Each critical section of the state mutex   *)
(* is one action, and so is what a future does between two points where it *)
(* can be suspended, cancelled or aborted.                                 *)
(***************************************************************************)
EXTENDS Naturals

CONSTANTS Caller,    \* the tasks that call get, peek and set
          MaxStamp,  \* bound on queries started plus values side-loaded
          Panicking  \* whether the loader may panic

ASSUME DriverAssumption == /\ MaxStamp \in Nat \ {0}
                           /\ Panicking \in BOOLEAN

VARIABLES cached,   \* CacheState::cached_entries, for the key: a stamp or 0
          running,  \* CacheState::running_queries: the running query's tag or 0
          clock,    \* tag_counter, shared with the values set() brings
          queries,  \* per tag: the future, its channels and its join handle
          callers,  \* per task: the call it is in
          closed,   \* the driver was dropped
          newest    \* history: the youngest value ever stored

vars == <<cached, running, clock, queries, callers, closed, newest>>

Stamp == 1 .. MaxStamp

\* `run`: who drives the future: the caller that started it ("inline"), the
\* task that rescued it ("task"), nobody any more ("over").  `stage`: loading;
\* spinning on yield_now for the side-loaded value; or past submit() with only
\* tx_main.send left in the same poll.  `side`: what rx_set holds.  `out`: what
\* the shared receiver resolves to, 0 while pending.  `marks`: the join handle's
\* abort() was called ("aborted"); and, as history, the loader panicked or the
\* caller that started the query was cancelled.
Pending == 0
Dropped == MaxStamp + 1
Query == [run : {"none", "inline", "task", "over"},
          stage : {"loading", "spinning", "sending"},
          side : Stamp \cup {0}, out : Stamp \cup {Pending, Dropped},
          marks : SUBSET {"aborted", "panicked", "cancelled"}]
NoQuery == [run |-> "none", stage |-> "loading", side |-> 0, out |-> Pending,
            marks |-> {}]

\* `floor`: history, the youngest value stored when the call began.
\* `got`: the value the call returned, Dropped if it panicked on a dead sender.
Call == [pc : {"idle", "drive", "wait", "set", "done"}, tag : Stamp \cup {0},
         floor : Stamp \cup {0}, got : Stamp \cup {0, Dropped}]
NoCall == [pc |-> "idle", tag |-> 0, floor |-> 0, got |-> 0]

TypeOK ==
  /\ cached \in Stamp \cup {0}
  /\ running \in Stamp \cup {0}
  /\ clock \in Stamp \cup {0}
  /\ queries \in [Stamp -> Query]
  /\ callers \in [Caller -> Call]
  /\ closed \in BOOLEAN
  /\ newest \in Stamp \cup {0}

Init ==
  /\ cached = 0 /\ running = 0 /\ clock = 0 /\ newest = 0
  /\ queries = [t \in Stamp |-> NoQuery]
  /\ callers = [c \in Caller |-> NoCall]
  /\ closed = FALSE

\* The caller that started query t is still there to drive it.
Drives(c, t) == callers[c].pc = "drive" /\ callers[c].tag = t

\* Somebody polls the future of query t.
Alive(t) == \/ queries[t].run = "task"
            \/ queries[t].run = "inline" /\ \E c \in Caller : Drives(c, t)

\* Mutant of Store: the backend keeps an entry it already has.
StoreIfAbsent(v) ==
  /\ cached' = IF cached = 0 THEN v ELSE cached
  /\ newest' = IF v > newest THEN v ELSE newest

\* cached_entries.set: the backend holds v from now on.
Store(v) ==
  /\ cached' = v
  /\ newest' = IF v > newest THEN v ELSE newest

KeepStore == UNCHANGED <<cached, newest>>

\* Query t changes to q.
Becomes(t, q) == queries' = [queries EXCEPT ![t] = q]

-----------------------------------------------------------------------------
(* get_with_status and peek_with_status, up to the end of their lock scope. *)

Calls(c) == callers[c].pc = "idle" /\ ~closed

Enter(c, pc, t, got) ==
  callers' = [callers EXCEPT
    ![c] = [pc |-> pc, tag |-> t, floor |-> newest, got |-> got]]

\* The entry is in the backend.
Hit(c) ==
  /\ Calls(c) /\ cached # 0
  /\ Enter(c, "done", 0, cached)
  /\ KeepStore /\ UNCHANGED <<running, clock, queries, closed>>

\* A query is running: await a clone of its receiver.
Join(c) ==
  /\ Calls(c) /\ cached = 0 /\ running # 0
  /\ Enter(c, "wait", running, 0)
  /\ KeepStore /\ UNCHANGED <<running, clock, queries, closed>>

\* start_new_query: a fresh tag, a future driven by the caller itself, and an
\* entry of running_queries that holds the join handle's receiver.
StartNewQuery(c) ==
  LET t == clock + 1 IN
  /\ Calls(c) /\ cached = 0 /\ running = 0
  /\ t \in Stamp
  /\ clock' = t
  /\ running' = t
  /\ Becomes(t, [queries[t] EXCEPT !.run = "inline"])
  /\ Enter(c, "drive", t, 0)
  /\ KeepStore /\ UNCHANGED closed

Get(c) == Hit(c) \/ Join(c) \/ StartNewQuery(c)

\* peek never starts a query; with neither entry nor query it returns None.
Peek(c) == Hit(c) \/ Join(c)

-----------------------------------------------------------------------------
(* The future of a query.                                                  *)

\* Mutant of InCharge: ResultSubmitter::finalize does not compare the tags.
InChargeAnyTag(t) == running # 0

\* The tags agree: running_queries still holds this very query.
InCharge(t) == running = t

\* The loader answers, and submit() runs under the lock: the query in charge
\* of the key leaves running_queries and stores the value; a query that was
\* side-loaded in the meantime stores nothing and spins.
Submit(t) ==
  /\ Alive(t) /\ queries[t].stage = "loading"
  /\ IF InCharge(t)
     THEN /\ running' = 0
          /\ Store(t)
          /\ Becomes(t, [queries[t] EXCEPT !.stage = "sending"])
     ELSE /\ Becomes(t, [queries[t] EXCEPT !.stage = "spinning"])
          /\ KeepStore /\ UNCHANGED running
  /\ UNCHANGED <<clock, callers, closed>>

\* The future is over and the shared receiver resolves to v.
Finish(t, v) == Becomes(t, [queries[t] EXCEPT !.run = "over", !.out = v])

\* tx_main.send: the loaded value goes to everyone who waits.
Send(t) ==
  /\ Alive(t) /\ queries[t].stage = "sending"
  /\ Finish(t, t)
  /\ KeepStore /\ UNCHANGED <<running, clock, callers, closed>>

\* select_biased! takes the side-loaded value, whatever the loader does.  A
\* poll that is under way when abort() is called still gets that far.
SideLoaded(t) ==
  /\ Alive(t) /\ queries[t].stage # "sending"
  /\ queries[t].side # 0
  /\ Finish(t, queries[t].side)
  /\ KeepStore /\ UNCHANGED <<running, clock, callers, closed>>

\* ResultSubmitter::drop on the way out of a future that did not submit.
DropSubmitter(t) == running' = IF InCharge(t) THEN 0 ELSE running

\* The loader panics: unwinding drops the submitter and tx_main.
LoaderPanics(t) ==
  /\ Panicking
  /\ Alive(t) /\ queries[t].stage = "loading"
  /\ DropSubmitter(t)
  /\ Becomes(t, [queries[t] EXCEPT !.run = "over", !.out = Dropped,
                                   !.marks = @ \cup {"panicked"}])
  /\ KeepStore /\ UNCHANGED <<clock, callers, closed>>

\* tokio drops an aborted task's future at its next suspension.
AbortTask(t) ==
  /\ queries[t].run = "task" /\ "aborted" \in queries[t].marks
  /\ queries[t].stage # "sending"
  /\ DropSubmitter(t)
  /\ Finish(t, Dropped)
  /\ KeepStore /\ UNCHANGED <<clock, callers, closed>>

-----------------------------------------------------------------------------
(* The callers after their lock scope.                                     *)

\* The shared receiver resolved: retrieve_from_shared returns the value, or
\* panics on a dropped sender; set() returns either way.
Return(c) ==
  LET t == callers[c].tag IN
  /\ callers[c].pc \in {"drive", "wait", "set"}
  /\ queries[t].run = "over"
  /\ callers' = [callers EXCEPT ![c] = [callers[c] EXCEPT !.pc = "done",
       !.got = IF callers[c].pc = "set" THEN 0 ELSE queries[t].out]]
  /\ KeepStore /\ UNCHANGED <<running, clock, queries, closed>>

Leave(c) ==
  /\ callers[c].pc = "done"
  /\ callers' = [callers EXCEPT ![c] = NoCall]
  /\ KeepStore /\ UNCHANGED <<running, clock, queries, closed>>

\* Mutant of Rescue: the future is dropped with its caller.
NoRescue(t) == Becomes(t, [queries[t] EXCEPT !.run = "over", !.out = Dropped,
                                             !.marks = @ \cup {"cancelled"}])

\* Mutant of Rescue: the future is kept, but no task polls it.
RescueUnpolled(t) == Becomes(t, [queries[t] EXCEPT !.marks = @ \cup {"cancelled"}])

\* CancellationSafeFuture::drop spawns the future as long as someone else, the
\* entry of running_queries, holds the join handle's receiver.
Rescue(t) == Becomes(t, [queries[t] EXCEPT !.run = "task",
                                           !.marks = @ \cup {"cancelled"}])

\* A caller is dropped while it waits.  If it was driving the query, the
\* future is rescued, or dropped with tx_main when nobody holds the receiver.
Cancel(c) ==
  LET t == callers[c].tag IN
  /\ callers[c].pc \in {"drive", "wait", "set"}
  /\ callers[c].pc = "drive" => queries[t].stage # "sending"
  /\ callers' = [callers EXCEPT ![c] = NoCall]
  /\ \/ /\ callers[c].pc # "drive" \/ queries[t].run = "over"
        /\ UNCHANGED queries
     \/ /\ callers[c].pc = "drive" /\ queries[t].run # "over"
        /\ IF InCharge(t)
           THEN Rescue(t)
           ELSE Becomes(t, [queries[t] EXCEPT !.run = "over", !.out = Dropped,
                                              !.marks = @ \cup {"cancelled"}])
  /\ KeepStore /\ UNCHANGED <<running, clock, closed>>

\* ReceiverInner::drop aborts the task the slot holds a handle of, if any.
Aborts(t) == IF queries[t].run = "task" THEN queries[t].marks \cup {"aborted"}
             ELSE queries[t].marks

\* Mutant of TakeQuery: the value is stored but not sent to the query.
TakeQueryUnsent(t, v) ==
  Becomes(t, [queries[t] EXCEPT !.marks = Aborts(t)])

\* What is left of a RunningQuery taken out of the map by set(): its `set`
\* sender delivered v, and its join handle's receiver is dropped, which aborts
\* the task if the future had been rescued.
TakeQuery(t, v) ==
  Becomes(t, [queries[t] EXCEPT !.side = v, !.marks = Aborts(t)])

\* set: take the running query out of the map, hand it the value, store the
\* value, all under one lock; then wait for the query to end.
Set(c) ==
  LET v == clock + 1 IN
  /\ Calls(c)
  /\ v \in Stamp
  /\ clock' = v
  /\ Store(v)
  /\ running' = 0
  /\ IF running # 0
     THEN /\ TakeQuery(running, v)
          /\ Enter(c, "set", running, 0)
     ELSE /\ Enter(c, "done", 0, 0)
          /\ UNCHANGED queries
  /\ UNCHANGED closed

\* CacheDriver::drop drains running_queries, dropping senders and handles.  No
\* call is in flight, since each holds a reference to the driver.
DropDriver ==
  /\ ~closed
  /\ \A c \in Caller : callers[c].pc = "idle"
  /\ closed' = TRUE
  /\ running' = 0
  /\ IF running = 0 THEN UNCHANGED queries
     ELSE Becomes(running, [queries[running] EXCEPT !.marks = Aborts(running)])
  /\ KeepStore /\ UNCHANGED <<clock, callers>>

\* A policy of the backend removes the entry (LRU, TTL, remove_if).
Evict ==
  /\ cached # 0
  /\ cached' = 0
  /\ UNCHANGED <<running, clock, queries, callers, closed, newest>>

-----------------------------------------------------------------------------
Future(t) == Submit(t) \/ Send(t) \/ SideLoaded(t) \/ LoaderPanics(t) \/ AbortTask(t)

Next ==
  \/ \E c \in Caller : Get(c) \/ Peek(c) \/ Set(c)
                       \/ Return(c) \/ Leave(c) \/ Cancel(c)
  \/ \E t \in Stamp : Future(t)
  \/ Evict
  \/ DropDriver

Spec == Init /\ [][Next]_vars

\* Loads end, the runtime polls every task that is ready, and a caller that
\* is not cancelled is polled when its receiver resolves.
Fairness == /\ \A t \in Stamp : WF_vars(Future(t))
            /\ \A c \in Caller : WF_vars(Return(c))

FairSpec == Spec /\ Fairness

-----------------------------------------------------------------------------
(* Properties.                                                             *)

\* What the backend holds is the youngest value ever stored: a load never
\* overwrites the value of a set() that came after the load began, even when
\* the entry was evicted and a new query for the key was started in between
\* (the comparison of tags in ResultSubmitter::finalize).
YoungestIsCached == cached # 0 => cached = newest

\* A call never returns a value older than one stored before the call began,
\* whether it found the entry, joined a query or drove one itself.
ReadsAreFresh ==
  \A c \in Caller : callers[c].got \in Stamp => callers[c].got >= callers[c].floor

\* Whoever finds a query in running_queries may wait for it: its future is
\* still driven by a caller or by a task that no one has aborted, and it has
\* not been answered yet (ResultSubmitter::drop, the rescue of cancelled calls).
RunningIsDriven ==
  running # 0 =>
    /\ Alive(running)
    /\ queries[running].stage = "loading" /\ queries[running].side = 0
    /\ "aborted" \notin queries[running].marks

\* A call panics on a dead sender only if the loader panicked, or if the query
\* was side-loaded by a set() and the call that started it was cancelled.
PanicsAreExplained ==
  \A c \in Caller : callers[c].got = Dropped =>
    LET q == queries[callers[c].tag] IN
    "panicked" \in q.marks \/ ("cancelled" \in q.marks /\ q.side # 0)

\* Every call ends, and every query ends: a waiter is never left with a
\* receiver that nobody resolves, a cancelled load still runs to its end, and
\* no task outlives the driver.
CallsEnd == \A c \in Caller :
  callers[c].pc \in {"drive", "wait", "set"} ~> callers[c].pc \in {"done", "idle"}
LoadsEnd == \A t \in Stamp : queries[t].run = "inline" ~> queries[t].run = "over"
=============================================================================
