-------------------------- MODULE CacheDriverProofs --------------------------
(***************************************************************************)
(* Proofs about module CacheDriver, for any number of callers, queries and *)
(* side-loaded values.                                                     *)
(***************************************************************************)
EXTENDS CacheDriver, TLAPS

USE DriverAssumption DEF Stamp, Pending, Dropped

\* Stamps order the values: nothing is younger than the clock, the entry of
\* the backend is the youngest value stored, and the running query is younger
\* still, so that storing its value is always progress.
Ordered ==
  /\ newest <= clock /\ running <= clock
  /\ cached # 0 => cached = newest
  /\ running # 0 => running > newest

\* A query that was not started has nothing in its record.
Unstarted == \A t \in Stamp : t > clock => queries[t] = NoQuery

\* What a query hands out is at least as young as the query.
AnswersAreYoung == \A t \in Stamp :
  /\ queries[t].side # 0 => queries[t].side >= t
  /\ queries[t].out \in Stamp => queries[t].out >= t

\* A waiting call has a query, and one that reads waits for a query younger
\* than all that was stored when the call began.
CallsAreYoung == \A c \in Caller :
  /\ callers[c].tag <= clock
  /\ callers[c].pc \in {"drive", "wait", "set"} => callers[c].tag \in Stamp
  /\ callers[c].pc \in {"drive", "wait"} => callers[c].floor <= callers[c].tag

\* A query that lost its place in running_queries before it was through was
\* side-loaded; only rescued queries are aborted, and those were cancelled.
Orphans ==
  /\ \A c \in Caller : callers[c].pc = "drive" =>
       LET t == callers[c].tag IN
       \/ queries[t].run = "over" \/ queries[t].stage = "sending"
       \/ running = t \/ queries[t].side # 0
  /\ \A t \in Stamp :
       /\ queries[t].run = "task" => "cancelled" \in queries[t].marks
       /\ "aborted" \in queries[t].marks => queries[t].side # 0 \/ closed

Explained(q) == "panicked" \in q.marks \/ ("cancelled" \in q.marks /\ q.side # 0)

\* A sender is dropped for a reason, and nobody is left to see the ones that
\* were dropped with the driver.
LossesExplained ==
  /\ \A t \in Stamp : queries[t].out = Dropped => Explained(queries[t]) \/ closed
  /\ \A c \in Caller : callers[c].pc = "idle" => callers[c].got = 0
  /\ closed => \A c \in Caller : callers[c].pc = "idle"
  /\ \A c \in Caller : callers[c].got = Dropped =>
       callers[c].tag \in Stamp /\ Explained(queries[callers[c].tag])

Inv == /\ TypeOK /\ Ordered /\ Unstarted /\ AnswersAreYoung /\ CallsAreYoung
       /\ ReadsAreFresh /\ RunningIsDriven /\ Orphans /\ LossesExplained

-----------------------------------------------------------------------------
\* The step of Next, one case per action.
LEMMA NextCases ==
    ASSUME Next,
           NEW G,
           \A c \in Caller : Hit(c) => G,
           \A c \in Caller : Join(c) => G,
           \A c \in Caller : StartNewQuery(c) => G,
           \A c \in Caller : Set(c) => G,
           \A c \in Caller : Return(c) => G,
           \A c \in Caller : Leave(c) => G,
           \A c \in Caller : Cancel(c) => G,
           \A t \in Stamp : Submit(t) => G,
           \A t \in Stamp : Send(t) => G,
           \A t \in Stamp : SideLoaded(t) => G,
           \A t \in Stamp : LoaderPanics(t) => G,
           \A t \in Stamp : AbortTask(t) => G,
           Evict => G,
           DropDriver => G
    PROVE  G
BY Zenon DEF Next, Get, Peek, Future

-----------------------------------------------------------------------------
(* The records of queries and calls. *)

LEMMA EmptyRecords == NoQuery \in Query /\ NoCall \in Call
BY DEF NoQuery, NoCall, Query, Call

\* The changes an action makes to a query give a query.
LEMMA QueryUpdates ==
    ASSUME NEW q \in Query, NEW v \in Stamp \cup {Pending, Dropped}, NEW w \in Stamp,
           NEW m \in SUBSET {"aborted", "panicked", "cancelled"}
    PROVE  /\ [q EXCEPT !.run = "inline"] \in Query
           /\ [q EXCEPT !.stage = "sending"] \in Query
           /\ [q EXCEPT !.stage = "spinning"] \in Query
           /\ [q EXCEPT !.run = "over", !.out = v] \in Query
           /\ [q EXCEPT !.run = "over", !.out = v, !.marks = m] \in Query
           /\ [q EXCEPT !.run = "task", !.marks = m] \in Query
           /\ [q EXCEPT !.side = w, !.marks = m] \in Query
           /\ [q EXCEPT !.marks = m] \in Query
BY Zenon DEF Query

LEMMA MarksType ==
    ASSUME TypeOK, NEW t \in Stamp, NEW a \in {"aborted", "panicked", "cancelled"}
    PROVE  /\ queries[t].marks \cup {a} \in SUBSET {"aborted", "panicked", "cancelled"}
           /\ Aborts(t) \in SUBSET {"aborted", "panicked", "cancelled"}
BY DEF TypeOK, Query, Aborts

LEMMA BecomesType ==
    ASSUME TypeOK, NEW t \in Stamp, NEW q \in Query, Becomes(t, q)
    PROVE  queries' \in [Stamp -> Query]
BY DEF TypeOK, Becomes

LEMMA EnterType ==
    ASSUME TypeOK, NEW c \in Caller, NEW pc \in {"drive", "wait", "set", "done"},
           NEW t \in Stamp \cup {0}, NEW v \in Stamp \cup {0}, Enter(c, pc, t, v)
    PROVE  callers' \in [Caller -> Call]
BY DEF TypeOK, Enter, Call

LEMMA StoreType ==
    ASSUME TypeOK, NEW v \in Stamp, Store(v)
    PROVE  cached' \in Stamp \cup {0} /\ newest' \in Stamp \cup {0}
BY DEF TypeOK, Store

\* What set() does to the records.
SetEffects(c) ==
  /\ clock' = clock + 1 /\ clock' \in Stamp /\ running' = 0
  /\ cached' = clock' /\ newest' \in {clock', newest}
  /\ closed' = closed /\ ~closed
  /\ \A d \in Caller : d # c => callers'[d] = callers[d]
  /\ callers'[c].floor = newest /\ callers'[c].got = 0
  /\ callers'[c].tag = running
  /\ callers'[c].pc = IF running = 0 THEN "done" ELSE "set"
  /\ \A u \in Stamp : u # running => queries'[u] = queries[u]
  /\ running # 0 =>
       /\ queries'[running].run = queries[running].run
       /\ queries'[running].stage = queries[running].stage
       /\ queries'[running].out = queries[running].out
       /\ queries'[running].side = clock'
       /\ queries'[running].marks = Aborts(running)

LEMMA SetEffect ==
    ASSUME TypeOK, NEW c \in Caller, Set(c)
    PROVE  SetEffects(c)
<1> USE DEF SetEffects
<1>1. CASE running = 0
  BY <1>1 DEF TypeOK, Call, Set, Calls, Enter, Store
<1>2. CASE running # 0
  <2>1. running \in Stamp /\ queries[running] \in Query
    BY <1>2 DEF TypeOK
  <2>2. queries' = [queries EXCEPT ![running] =
           [queries[running] EXCEPT !.side = clock + 1, !.marks = Aborts(running)]]
    BY <1>2 DEF Set, TakeQuery, Becomes
  <2>3. /\ queries'[running] =
             [queries[running] EXCEPT !.side = clock + 1, !.marks = Aborts(running)]
        /\ \A u \in Stamp : u # running => queries'[u] = queries[u]
    BY <2>1, <2>2 DEF TypeOK
  <2>4. /\ queries'[running].run = queries[running].run
        /\ queries'[running].stage = queries[running].stage
        /\ queries'[running].out = queries[running].out
        /\ queries'[running].side = clock + 1
        /\ queries'[running].marks = Aborts(running)
    BY <2>1, <2>3 DEF Query
  <2>5. QED
    BY <1>2, <2>3, <2>4 DEF TypeOK, Call, Set, Calls, Enter, Store
<1>3. QED
  BY <1>1, <1>2

\* What the cancellation of a call does to the records.
CancelEffects(c, t) ==
  /\ UNCHANGED <<cached, newest, running, clock, closed>>
  /\ callers[c].pc \in {"drive", "wait", "set"}
  /\ callers'[c] = NoCall
  /\ \A d \in Caller : d # c => callers'[d] = callers[d]
  /\ \A u \in Stamp : u # t => queries'[u] = queries[u]
  /\ queries'[t].side = queries[t].side
  /\ queries'[t].stage = queries[t].stage
  /\ \/ queries' = queries /\ (callers[c].pc # "drive" \/ queries[t].run = "over")
     \/ /\ callers[c].pc = "drive" /\ queries[t].run # "over" /\ running = t
        /\ queries'[t].run = "task" /\ queries'[t].out = queries[t].out
        /\ queries'[t].marks = queries[t].marks \cup {"cancelled"}
     \/ /\ callers[c].pc = "drive" /\ queries[t].run # "over" /\ running # t
        /\ queries[t].stage # "sending"
        /\ queries'[t].run = "over" /\ queries'[t].out = Dropped
        /\ queries'[t].marks = queries[t].marks \cup {"cancelled"}

LEMMA CancelEffect ==
    ASSUME TypeOK, NEW c \in Caller, Cancel(c), NEW t \in Stamp, t = callers[c].tag
    PROVE  CancelEffects(c, t)
<1> USE DEF CancelEffects
<1>1. queries[t] \in Query
  BY DEF TypeOK
<1>2. /\ UNCHANGED <<cached, newest, running, clock, closed>>
      /\ callers[c].pc \in {"drive", "wait", "set"}
      /\ callers'[c] = NoCall
      /\ \A d \in Caller : d # c => callers'[d] = callers[d]
  BY DEF TypeOK, Cancel, KeepStore
<1>3. CASE callers[c].pc # "drive" \/ queries[t].run = "over"
  BY <1>2, <1>3, Zenon DEF Cancel
<1>4. CASE callers[c].pc = "drive" /\ queries[t].run # "over" /\ running = t
  <2>1. queries' = [queries EXCEPT ![t] =
           [queries[t] EXCEPT !.run = "task",
                              !.marks = queries[t].marks \cup {"cancelled"}]]
    BY <1>4 DEF Cancel, Rescue, Becomes, InCharge
  <2>2. QED
    BY <1>1, <1>2, <1>4, <2>1 DEF TypeOK, Query
<1>5. CASE callers[c].pc = "drive" /\ queries[t].run # "over" /\ running # t
  <2>1. queries' = [queries EXCEPT ![t] = [queries[t] EXCEPT !.run = "over",
           !.out = Dropped, !.marks = queries[t].marks \cup {"cancelled"}]]
    BY <1>5 DEF Cancel, Becomes, InCharge
  <2>2. queries[t].stage # "sending"
    BY <1>5 DEF Cancel
  <2>3. QED
    BY <1>1, <1>2, <1>5, <2>1, <2>2 DEF TypeOK, Query
<1>6. QED
  BY <1>3, <1>4, <1>5, Zenon

\* What submit() does to the records.
SubmitEffects(t) ==
  /\ UNCHANGED <<clock, callers, closed>>
  /\ queries[t].stage = "loading"
  /\ running' = IF running = t THEN 0 ELSE running
  /\ \A u \in Stamp : u # t => queries'[u] = queries[u]
  /\ queries'[t].stage = IF running = t THEN "sending" ELSE "spinning"
  /\ queries'[t].run = queries[t].run /\ queries'[t].side = queries[t].side
  /\ queries'[t].out = queries[t].out /\ queries'[t].marks = queries[t].marks

LEMMA SubmitEffect ==
    ASSUME TypeOK, NEW t \in Stamp, Submit(t)
    PROVE  SubmitEffects(t)
<1> USE DEF SubmitEffects
<1>1. queries[t] \in Query
  BY DEF TypeOK
<1>2. CASE running = t
  <2>1. queries' = [queries EXCEPT ![t] = [queries[t] EXCEPT !.stage = "sending"]]
    BY <1>2 DEF Submit, InCharge, Becomes
  <2>2. QED
    BY <1>1, <1>2, <2>1 DEF TypeOK, Query, Submit, InCharge
<1>3. CASE running # t
  <2>1. queries' = [queries EXCEPT ![t] = [queries[t] EXCEPT !.stage = "spinning"]]
    BY <1>3 DEF Submit, InCharge, Becomes
  <2>2. QED
    BY <1>1, <1>3, <2>1 DEF TypeOK, Query, Submit, InCharge
<1>4. QED
  BY <1>2, <1>3

\* What dropping the driver does to the queries.
DropEffects(u) ==
  /\ queries'[u].run = queries[u].run /\ queries'[u].stage = queries[u].stage
  /\ queries'[u].side = queries[u].side /\ queries'[u].out = queries[u].out
  /\ queries'[u].marks \in {queries[u].marks, queries[u].marks \cup {"aborted"}}

LEMMA DropEffect ==
    ASSUME TypeOK, DropDriver, NEW u \in Stamp
    PROVE  DropEffects(u)
<1> USE DEF DropEffects
<1>1. queries[u] \in Query
  BY DEF TypeOK
<1>2. CASE queries'[u] = queries[u]
  BY <1>1, <1>2
<1>3. CASE queries'[u] # queries[u]
  <2>1. queries' = [queries EXCEPT ![running] =
                      [queries[running] EXCEPT !.marks = Aborts(running)]]
    BY <1>3 DEF DropDriver, Becomes
  <2>2. u = running /\ queries'[u] = [queries[u] EXCEPT !.marks = Aborts(u)]
    BY <1>3, <2>1 DEF TypeOK
  <2>3. Aborts(u) \in {queries[u].marks, queries[u].marks \cup {"aborted"}}
    BY DEF Aborts
  <2>4. QED
    BY <1>1, <2>2, <2>3 DEF Query
<1>4. QED
  BY <1>2, <1>3

LEMMA CallReturns ==
    ASSUME NEW r \in Call, NEW v \in Stamp \cup {0, Dropped}
    PROVE  [r EXCEPT !.pc = "done", !.got = v] \in Call
BY Zenon DEF Call

\* A step that changes one call, and neither the queries nor the driver.
LEMMA QuietStep ==
    ASSUME LossesExplained, UNCHANGED <<queries, closed>>, NEW c \in Caller,
           \A d \in Caller : d # c => callers'[d] = callers[d],
           closed => callers'[c].pc = "idle",
           callers'[c].pc = "idle" => callers'[c].got = 0,
           callers'[c].got = Dropped =>
             callers'[c].tag \in Stamp /\ Explained(queries[callers'[c].tag])
    PROVE  LossesExplained'
<1>1. ASSUME NEW d \in Caller
      PROVE  /\ callers'[d].pc = "idle" => callers'[d].got = 0
             /\ closed' => callers'[d].pc = "idle"
             /\ callers'[d].got = Dropped =>
                  callers'[d].tag \in Stamp /\ Explained(queries'[callers'[d].tag])
  <2>1. CASE d = c
    BY <2>1
  <2>2. CASE d # c
    BY <2>2 DEF LossesExplained
  <2>3. QED
    BY <2>1, <2>2
<1>2. QED
  BY <1>1 DEF LossesExplained

LEMMA InitInv == Init => Inv
<1> SUFFICES ASSUME Init PROVE Inv
  OBVIOUS
<1> USE DEF Init
<1>1. TypeOK
  BY EmptyRecords, Zenon DEF TypeOK
<1>2. Ordered /\ Unstarted
  BY DEF Ordered, Unstarted
<1>3. AnswersAreYoung /\ CallsAreYoung /\ ReadsAreFresh
  BY DEF AnswersAreYoung, CallsAreYoung, ReadsAreFresh, NoQuery, NoCall
<1>4. RunningIsDriven /\ Orphans /\ LossesExplained
  BY DEF RunningIsDriven, Orphans, LossesExplained, Explained, NoQuery, NoCall
<1>5. QED
  BY <1>1, <1>2, <1>3, <1>4 DEF Inv

-----------------------------------------------------------------------------
(* Each conjunct of the invariant is kept by every action. *)

\* The types.
LEMMA TypeStep ==
    ASSUME TypeOK, CallsAreYoung, [Next]_vars
    PROVE  TypeOK'
<1> USE DEF TypeOK
<1>1. ASSUME NEW c \in Caller, Hit(c) PROVE TypeOK'
  BY <1>1 DEF Hit, Calls, Enter, KeepStore, Call
<1>2. ASSUME NEW c \in Caller, Join(c) PROVE TypeOK'
  BY <1>2 DEF Join, Calls, Enter, KeepStore, Call
<1>3. ASSUME NEW c \in Caller, StartNewQuery(c) PROVE TypeOK'
  <2>1. queries' \in [Stamp -> Query]
    BY <1>3, QueryUpdates, MarksType, BecomesType, Zenon DEF StartNewQuery
  <2>2. QED
    BY <1>3, <2>1 DEF StartNewQuery, Calls, Enter, KeepStore, Call
<1>4. ASSUME NEW c \in Caller, Set(c) PROVE TypeOK'
  <2>1. callers' \in [Caller -> Call]
    BY <1>4, EnterType DEF Set
  <2>2. queries' \in [Stamp -> Query]
    BY <1>4, QueryUpdates, MarksType, BecomesType, Zenon DEF Set, TakeQuery
  <2>3. cached' \in Stamp \cup {0} /\ newest' \in Stamp \cup {0}
    BY <1>4, StoreType DEF Set
  <2>4. QED
    BY <1>4, <2>1, <2>2, <2>3 DEF Set
<1>5. ASSUME NEW c \in Caller, Return(c) PROVE TypeOK'
  <2>1. queries[callers[c].tag].out \in Stamp \cup {Pending, Dropped}
    BY <1>5 DEF Return, CallsAreYoung, Query
  <2> DEFINE v == IF callers[c].pc = "set" THEN 0 ELSE queries[callers[c].tag].out
             r == [callers[c] EXCEPT !.pc = "done", !.got = v]
  <2>2. callers[c] \in Call /\ v \in Stamp \cup {0, Dropped}
    BY <2>1
  <2>3. r \in Call
    BY <2>2, CallReturns, Zenon
  <2>4. callers' = [callers EXCEPT ![c] = r]
    BY <1>5 DEF Return
  <2> HIDE DEF v, r
  <2>5. callers' \in [Caller -> Call]
    BY <2>3, <2>4
  <2>6. QED
    BY <1>5, <2>5 DEF Return, KeepStore
<1>6. ASSUME NEW c \in Caller, Leave(c) PROVE TypeOK'
  BY <1>6, EmptyRecords DEF Leave, KeepStore
<1>7. ASSUME NEW c \in Caller, Cancel(c) PROVE TypeOK'
  <2>1. queries' \in [Stamp -> Query]
    <3>1. CASE UNCHANGED queries
      BY <3>1
    <3>2. CASE ~UNCHANGED queries
      <4>1. callers[c].tag \in Stamp /\ queries[callers[c].tag] \in Query
        BY <1>7 DEF Cancel, CallsAreYoung
      <4> DEFINE t == callers[c].tag
                 m == queries[t].marks \cup {"cancelled"}
                 q1 == [queries[t] EXCEPT !.run = "task", !.marks = m]
                 q2 == [queries[t] EXCEPT !.run = "over", !.out = Dropped, !.marks = m]
      <4>2. q1 \in Query /\ q2 \in Query
        BY <4>1, MarksType, QueryUpdates, Zenon
      <4>3. Becomes(t, q1) \/ Becomes(t, q2)
        BY <1>7, <3>2 DEF Cancel, Rescue
      <4>4. QED
        BY <4>1, <4>2, <4>3, BecomesType
    <3>3. QED
      BY <3>1, <3>2
  <2>2. QED
    BY <1>7, <2>1, EmptyRecords DEF Cancel, KeepStore
<1>8. ASSUME NEW t \in Stamp, Submit(t) PROVE TypeOK'
  <2>1. queries' \in [Stamp -> Query]
    BY <1>8, QueryUpdates, MarksType, BecomesType, Zenon DEF Submit
  <2>2. QED
    BY <1>8, <2>1 DEF Submit, Store, KeepStore
<1>9. ASSUME NEW t \in Stamp, Send(t) PROVE TypeOK'
  <2>1. queries' \in [Stamp -> Query]
    BY <1>9, QueryUpdates, MarksType, BecomesType, Zenon DEF Send, Finish
  <2>2. QED
    BY <1>9, <2>1 DEF Send, KeepStore
<1>10. ASSUME NEW t \in Stamp, SideLoaded(t) PROVE TypeOK'
  <2>1. queries[t].side \in Stamp
    BY <1>10 DEF SideLoaded, Query
  <2>2. queries' \in [Stamp -> Query]
    BY <1>10, <2>1, QueryUpdates, MarksType, BecomesType, Zenon DEF SideLoaded, Finish
  <2>3. QED
    BY <1>10, <2>2 DEF SideLoaded, KeepStore
<1>11. ASSUME NEW t \in Stamp, LoaderPanics(t) PROVE TypeOK'
  <2>1. queries' \in [Stamp -> Query]
    BY <1>11, QueryUpdates, MarksType, BecomesType, Zenon DEF LoaderPanics
  <2>2. QED
    BY <1>11, <2>1 DEF LoaderPanics, DropSubmitter, KeepStore
<1>12. ASSUME NEW t \in Stamp, AbortTask(t) PROVE TypeOK'
  <2>1. queries' \in [Stamp -> Query]
    BY <1>12, QueryUpdates, MarksType, BecomesType, Zenon DEF AbortTask, Finish
  <2>2. QED
    BY <1>12, <2>1 DEF AbortTask, DropSubmitter, KeepStore
<1>13. ASSUME Evict PROVE TypeOK'
  BY <1>13 DEF Evict
<1>14. ASSUME DropDriver PROVE TypeOK'
  <2>1. queries' \in [Stamp -> Query]
    BY <1>14, QueryUpdates, MarksType, BecomesType, Zenon DEF DropDriver
  <2>2. QED
    BY <1>14, <2>1 DEF DropDriver, KeepStore
<1>15. CASE UNCHANGED vars
  BY <1>15 DEF vars
<1>16. QED
  <2>1. CASE Next
    BY <2>1, NextCases, <1>1, <1>2, <1>3, <1>4, <1>5, <1>6, <1>7,
       <1>8, <1>9, <1>10, <1>11, <1>12, <1>13, <1>14
  <2>2. QED
    BY <2>1, <1>15

\* The order of the values.
LEMMA OrderedStep ==
    ASSUME TypeOK, Ordered, [Next]_vars
    PROVE  Ordered'
<1> USE DEF Ordered, TypeOK
<1>1. ASSUME NEW c \in Caller, Hit(c) PROVE Ordered'
  BY <1>1 DEF Hit, Calls, Enter, KeepStore
<1>2. ASSUME NEW c \in Caller, Join(c) PROVE Ordered'
  BY <1>2 DEF Join, Calls, Enter, KeepStore
<1>3. ASSUME NEW c \in Caller, StartNewQuery(c) PROVE Ordered'
  BY <1>3 DEF StartNewQuery, Calls, Enter, KeepStore, Becomes
<1>4. ASSUME NEW c \in Caller, Set(c) PROVE Ordered'
  BY <1>4 DEF Set, Calls, Enter, Store, TakeQuery, Aborts, Becomes
<1>5. ASSUME NEW c \in Caller, Return(c) PROVE Ordered'
  BY <1>5 DEF Return, KeepStore
<1>6. ASSUME NEW c \in Caller, Leave(c) PROVE Ordered'
  BY <1>6 DEF Leave, KeepStore, NoCall
<1>7. ASSUME NEW c \in Caller, Cancel(c) PROVE Ordered'
  BY <1>7 DEF Cancel, KeepStore, NoCall, Rescue, InCharge, Becomes
<1>8. ASSUME NEW t \in Stamp, Submit(t) PROVE Ordered'
  BY <1>8 DEF Submit, Store, KeepStore, InCharge, Becomes
<1>9. ASSUME NEW t \in Stamp, Send(t) PROVE Ordered'
  BY <1>9 DEF Send, Finish, KeepStore, Becomes
<1>10. ASSUME NEW t \in Stamp, SideLoaded(t) PROVE Ordered'
  BY <1>10 DEF SideLoaded, Finish, KeepStore, Becomes
<1>11. ASSUME NEW t \in Stamp, LoaderPanics(t) PROVE Ordered'
  BY <1>11 DEF LoaderPanics, DropSubmitter, InCharge, KeepStore, Becomes
<1>12. ASSUME NEW t \in Stamp, AbortTask(t) PROVE Ordered'
  BY <1>12 DEF AbortTask, DropSubmitter, InCharge, Finish, KeepStore, Becomes
<1>13. ASSUME Evict PROVE Ordered'
  BY <1>13 DEF Evict
<1>14. ASSUME DropDriver PROVE Ordered'
  BY <1>14 DEF DropDriver, KeepStore, Aborts, Becomes
<1>15. CASE UNCHANGED vars
  BY <1>15 DEF vars
<1>16. QED
  <2>1. CASE Next
    BY <2>1, NextCases, <1>1, <1>2, <1>3, <1>4, <1>5, <1>6, <1>7,
       <1>8, <1>9, <1>10, <1>11, <1>12, <1>13, <1>14
  <2>2. QED
    BY <2>1, <1>15

\* The records of queries not yet started.
LEMMA UnstartedStep ==
    ASSUME TypeOK, Ordered, CallsAreYoung, Unstarted, [Next]_vars
    PROVE  Unstarted'
<1> USE DEF Ordered, TypeOK, Unstarted, CallsAreYoung
<1>1. ASSUME NEW c \in Caller, Hit(c) PROVE Unstarted'
  BY <1>1 DEF Hit, Calls, Enter, KeepStore
<1>2. ASSUME NEW c \in Caller, Join(c) PROVE Unstarted'
  BY <1>2 DEF Join, Calls, Enter, KeepStore
<1>3. ASSUME NEW c \in Caller, StartNewQuery(c) PROVE Unstarted'
  BY <1>3 DEF StartNewQuery, Calls, Enter, KeepStore, Becomes
<1>4. ASSUME NEW c \in Caller, Set(c) PROVE Unstarted'
  BY <1>4 DEF Set, Calls, Enter, Store, TakeQuery, Aborts, Becomes
<1>5. ASSUME NEW c \in Caller, Return(c) PROVE Unstarted'
  BY <1>5 DEF Return, KeepStore
<1>6. ASSUME NEW c \in Caller, Leave(c) PROVE Unstarted'
  BY <1>6 DEF Leave, KeepStore
<1>7. ASSUME NEW c \in Caller, Cancel(c) PROVE Unstarted'
  BY <1>7 DEF Cancel, KeepStore, Rescue, InCharge, Becomes
<1>8. ASSUME NEW t \in Stamp, Submit(t) PROVE Unstarted'
  <2>1. t <= clock
    BY <1>8 DEF Submit, Alive, NoQuery
  <2>2. QED
    BY <1>8, <2>1 DEF Submit, Store, KeepStore, InCharge, Becomes
<1>9. ASSUME NEW t \in Stamp, Send(t) PROVE Unstarted'
  <2>1. t <= clock
    BY <1>9 DEF Send, Alive, NoQuery
  <2>2. QED
    BY <1>9, <2>1 DEF Send, Finish, KeepStore, Becomes
<1>10. ASSUME NEW t \in Stamp, SideLoaded(t) PROVE Unstarted'
  <2>1. t <= clock
    BY <1>10 DEF SideLoaded, Alive, NoQuery
  <2>2. QED
    BY <1>10, <2>1 DEF SideLoaded, Finish, KeepStore, Becomes
<1>11. ASSUME NEW t \in Stamp, LoaderPanics(t) PROVE Unstarted'
  <2>1. t <= clock
    BY <1>11 DEF LoaderPanics, Alive, NoQuery
  <2>2. QED
    BY <1>11, <2>1 DEF LoaderPanics, DropSubmitter, InCharge, KeepStore, Becomes
<1>12. ASSUME NEW t \in Stamp, AbortTask(t) PROVE Unstarted'
  <2>1. t <= clock
    BY <1>12 DEF AbortTask, NoQuery
  <2>2. QED
    BY <1>12, <2>1 DEF AbortTask, DropSubmitter, InCharge, Finish, KeepStore, Becomes
<1>13. ASSUME Evict PROVE Unstarted'
  BY <1>13 DEF Evict
<1>14. ASSUME DropDriver PROVE Unstarted'
  BY <1>14 DEF DropDriver, KeepStore, Aborts, Becomes
<1>15. CASE UNCHANGED vars
  BY <1>15 DEF vars
<1>16. QED
  <2>1. CASE Next
    BY <2>1, NextCases, <1>1, <1>2, <1>3, <1>4, <1>5, <1>6, <1>7,
       <1>8, <1>9, <1>10, <1>11, <1>12, <1>13, <1>14
  <2>2. QED
    BY <2>1, <1>15

\* The age of the answers.
LEMMA AnswersStep ==
    ASSUME TypeOK, Ordered, CallsAreYoung, AnswersAreYoung, [Next]_vars
    PROVE  AnswersAreYoung'
<1> USE DEF Ordered, TypeOK, AnswersAreYoung, CallsAreYoung, Query
<1>1. ASSUME NEW c \in Caller, Hit(c) PROVE AnswersAreYoung'
  BY <1>1 DEF Hit, Calls, Enter, KeepStore
<1>2. ASSUME NEW c \in Caller, Join(c) PROVE AnswersAreYoung'
  BY <1>2 DEF Join, Calls, Enter, KeepStore
<1>3. ASSUME NEW c \in Caller, StartNewQuery(c) PROVE AnswersAreYoung'
  BY <1>3 DEF StartNewQuery, Calls, Enter, KeepStore, Becomes
<1>4. ASSUME NEW c \in Caller, Set(c) PROVE AnswersAreYoung'
  <2> HIDE DEF Query
  <2>0. SetEffects(c)
    BY <1>4, SetEffect
  <2>1. QED
    BY <2>0 DEF SetEffects
<1>5. ASSUME NEW c \in Caller, Return(c) PROVE AnswersAreYoung'
  BY <1>5 DEF Return, KeepStore
<1>6. ASSUME NEW c \in Caller, Leave(c) PROVE AnswersAreYoung'
  BY <1>6 DEF Leave, KeepStore, NoCall
<1>7. ASSUME NEW c \in Caller, Cancel(c) PROVE AnswersAreYoung'
  <2> HIDE DEF TypeOK, Ordered, Query, CallsAreYoung
  <2>t. PICK t \in Stamp : t = callers[c].tag
    BY <1>7 DEF Cancel, CallsAreYoung
  <2>0. CancelEffects(c, t)
    BY <1>7, <2>t, CancelEffect
  <2>1. QED
    BY <2>0 DEF CancelEffects
<1>8. ASSUME NEW t \in Stamp, Submit(t) PROVE AnswersAreYoung'
  <2> HIDE DEF TypeOK, Ordered, Query, CallsAreYoung
  <2>0. SubmitEffects(t)
    BY <1>8, SubmitEffect
  <2>1. QED
    BY <2>0 DEF SubmitEffects
<1>9. ASSUME NEW t \in Stamp, Send(t) PROVE AnswersAreYoung'
  BY <1>9 DEF Send, Finish, KeepStore, Becomes
<1>10. ASSUME NEW t \in Stamp, SideLoaded(t) PROVE AnswersAreYoung'
  BY <1>10 DEF SideLoaded, Finish, KeepStore, Becomes
<1>11. ASSUME NEW t \in Stamp, LoaderPanics(t) PROVE AnswersAreYoung'
  BY <1>11 DEF LoaderPanics, DropSubmitter, InCharge, KeepStore, Becomes
<1>12. ASSUME NEW t \in Stamp, AbortTask(t) PROVE AnswersAreYoung'
  BY <1>12 DEF AbortTask, DropSubmitter, InCharge, Finish, KeepStore, Becomes
<1>13. ASSUME Evict PROVE AnswersAreYoung'
  BY <1>13 DEF Evict
<1>14. ASSUME DropDriver PROVE AnswersAreYoung'
  <2> HIDE DEF TypeOK, Ordered, Query, CallsAreYoung
  <2>0. \A u \in Stamp : DropEffects(u)
    BY <1>14, DropEffect
  <2>1. QED
    BY <2>0 DEF DropEffects
<1>15. CASE UNCHANGED vars
  BY <1>15 DEF vars
<1>16. QED
  <2>1. CASE Next
    BY Zenon, <2>1, NextCases, <1>1, <1>2, <1>3, <1>4, <1>5, <1>6, <1>7,
       <1>8, <1>9, <1>10, <1>11, <1>12, <1>13, <1>14
  <2>2. QED
    BY <2>1, <1>15

\* The queries that calls wait for.
LEMMA CallsStep ==
    ASSUME TypeOK, Ordered, CallsAreYoung, [Next]_vars
    PROVE  CallsAreYoung'
<1> USE DEF Ordered, TypeOK, CallsAreYoung, Call
<1>1. ASSUME NEW c \in Caller, Hit(c) PROVE CallsAreYoung'
  BY <1>1 DEF Hit, Calls, Enter, KeepStore
<1>2. ASSUME NEW c \in Caller, Join(c) PROVE CallsAreYoung'
  BY <1>2 DEF Join, Calls, Enter, KeepStore
<1>3. ASSUME NEW c \in Caller, StartNewQuery(c) PROVE CallsAreYoung'
  BY <1>3 DEF StartNewQuery, Calls, Enter, KeepStore, Becomes
<1>4. ASSUME NEW c \in Caller, Set(c) PROVE CallsAreYoung'
  <2> HIDE DEF Query
  <2>0. SetEffects(c)
    BY <1>4, SetEffect
  <2>1. QED
    BY <2>0 DEF SetEffects
<1>5. ASSUME NEW c \in Caller, Return(c) PROVE CallsAreYoung'
  BY <1>5 DEF Return, KeepStore
<1>6. ASSUME NEW c \in Caller, Leave(c) PROVE CallsAreYoung'
  BY <1>6 DEF Leave, KeepStore, NoCall
<1>7. ASSUME NEW c \in Caller, Cancel(c) PROVE CallsAreYoung'
  BY <1>7 DEF Cancel, KeepStore, NoCall, Rescue, InCharge, Becomes
<1>8. ASSUME NEW t \in Stamp, Submit(t) PROVE CallsAreYoung'
  BY <1>8 DEF Submit, Store, KeepStore, InCharge, Becomes
<1>9. ASSUME NEW t \in Stamp, Send(t) PROVE CallsAreYoung'
  BY <1>9 DEF Send, Finish, KeepStore, Becomes
<1>10. ASSUME NEW t \in Stamp, SideLoaded(t) PROVE CallsAreYoung'
  BY <1>10 DEF SideLoaded, Finish, KeepStore, Becomes
<1>11. ASSUME NEW t \in Stamp, LoaderPanics(t) PROVE CallsAreYoung'
  BY <1>11 DEF LoaderPanics, DropSubmitter, InCharge, KeepStore, Becomes
<1>12. ASSUME NEW t \in Stamp, AbortTask(t) PROVE CallsAreYoung'
  BY <1>12 DEF AbortTask, DropSubmitter, InCharge, Finish, KeepStore, Becomes
<1>13. ASSUME Evict PROVE CallsAreYoung'
  BY <1>13 DEF Evict
<1>14. ASSUME DropDriver PROVE CallsAreYoung'
  BY <1>14 DEF DropDriver, KeepStore, Aborts, Becomes
<1>15. CASE UNCHANGED vars
  BY <1>15 DEF vars
<1>16. QED
  <2>1. CASE Next
    BY Zenon, <2>1, NextCases, <1>1, <1>2, <1>3, <1>4, <1>5, <1>6, <1>7,
       <1>8, <1>9, <1>10, <1>11, <1>12, <1>13, <1>14
  <2>2. QED
    BY <2>1, <1>15

\* The freshness of reads.
LEMMA ReadsStep ==
    ASSUME TypeOK, Ordered, AnswersAreYoung, CallsAreYoung, ReadsAreFresh, [Next]_vars
    PROVE  ReadsAreFresh'
<1> USE DEF Ordered, TypeOK, AnswersAreYoung, CallsAreYoung, ReadsAreFresh, Call, Query
<1>1. ASSUME NEW c \in Caller, Hit(c) PROVE ReadsAreFresh'
  BY <1>1 DEF Hit, Calls, Enter, KeepStore
<1>2. ASSUME NEW c \in Caller, Join(c) PROVE ReadsAreFresh'
  BY <1>2 DEF Join, Calls, Enter, KeepStore
<1>3. ASSUME NEW c \in Caller, StartNewQuery(c) PROVE ReadsAreFresh'
  BY <1>3 DEF StartNewQuery, Calls, Enter, KeepStore, Becomes
<1>4. ASSUME NEW c \in Caller, Set(c) PROVE ReadsAreFresh'
  <2> HIDE DEF TypeOK, Ordered, AnswersAreYoung, CallsAreYoung, Call, Query
  <2>0. SetEffects(c)
    BY <1>4, SetEffect
  <2>1. ASSUME NEW d \in Caller, callers'[d].got \in Stamp
        PROVE  callers'[d].got >= callers'[d].floor
    <3>1. d # c
      BY <2>0, <2>1 DEF SetEffects
    <3>2. QED
      BY <2>0, <2>1, <3>1 DEF SetEffects
  <2>2. QED
    BY <2>1
<1>5. ASSUME NEW c \in Caller, Return(c) PROVE ReadsAreFresh'
  BY <1>5 DEF Return, KeepStore
<1>6. ASSUME NEW c \in Caller, Leave(c) PROVE ReadsAreFresh'
  BY <1>6 DEF Leave, KeepStore, NoCall
<1>7. ASSUME NEW c \in Caller, Cancel(c) PROVE ReadsAreFresh'
  BY <1>7 DEF Cancel, KeepStore, NoCall, Rescue, InCharge, Becomes
<1>8. ASSUME NEW t \in Stamp, Submit(t) PROVE ReadsAreFresh'
  BY <1>8 DEF Submit, Store, KeepStore, InCharge, Becomes
<1>9. ASSUME NEW t \in Stamp, Send(t) PROVE ReadsAreFresh'
  BY <1>9 DEF Send, Finish, KeepStore, Becomes
<1>10. ASSUME NEW t \in Stamp, SideLoaded(t) PROVE ReadsAreFresh'
  BY <1>10 DEF SideLoaded, Finish, KeepStore, Becomes
<1>11. ASSUME NEW t \in Stamp, LoaderPanics(t) PROVE ReadsAreFresh'
  BY <1>11 DEF LoaderPanics, DropSubmitter, InCharge, KeepStore, Becomes
<1>12. ASSUME NEW t \in Stamp, AbortTask(t) PROVE ReadsAreFresh'
  BY <1>12 DEF AbortTask, DropSubmitter, InCharge, Finish, KeepStore, Becomes
<1>13. ASSUME Evict PROVE ReadsAreFresh'
  BY <1>13 DEF Evict
<1>14. ASSUME DropDriver PROVE ReadsAreFresh'
  BY <1>14 DEF DropDriver, KeepStore, Aborts, Becomes
<1>15. CASE UNCHANGED vars
  BY <1>15 DEF vars
<1>16. QED
  <2>1. CASE Next
    BY Zenon, <2>1, NextCases, <1>1, <1>2, <1>3, <1>4, <1>5, <1>6, <1>7,
       <1>8, <1>9, <1>10, <1>11, <1>12, <1>13, <1>14
  <2>2. QED
    BY <2>1, <1>15

\* Somebody drives the running query.
LEMMA RunningStep ==
    ASSUME TypeOK, Ordered, CallsAreYoung, Unstarted, RunningIsDriven, [Next]_vars
    PROVE  RunningIsDriven'
<1> USE DEF Ordered, TypeOK, CallsAreYoung, Unstarted, RunningIsDriven,
            Alive, Drives, NoQuery, Call, Query
<1>1. ASSUME NEW c \in Caller, Hit(c) PROVE RunningIsDriven'
  BY <1>1 DEF Hit, Calls, Enter, KeepStore
<1>2. ASSUME NEW c \in Caller, Join(c) PROVE RunningIsDriven'
  BY <1>2 DEF Join, Calls, Enter, KeepStore
<1>3. ASSUME NEW c \in Caller, StartNewQuery(c) PROVE RunningIsDriven'
  BY <1>3 DEF StartNewQuery, Calls, Enter, KeepStore, Becomes
<1>4. ASSUME NEW c \in Caller, Set(c) PROVE RunningIsDriven'
  BY <1>4 DEF Set, Calls, Enter, Store, TakeQuery, Aborts, Becomes
<1>5. ASSUME NEW c \in Caller, Return(c) PROVE RunningIsDriven'
  BY <1>5 DEF Return, KeepStore
<1>6. ASSUME NEW c \in Caller, Leave(c) PROVE RunningIsDriven'
  BY <1>6 DEF Leave, KeepStore, NoCall
<1>7. ASSUME NEW c \in Caller, Cancel(c) PROVE RunningIsDriven'
  <2> HIDE DEF TypeOK, Ordered, CallsAreYoung, Unstarted, NoQuery, Call,
               Query, RunningIsDriven, Alive
  <2>t. PICK t \in Stamp : t = callers[c].tag
    BY <1>7 DEF Cancel, CallsAreYoung
  <2>0. CancelEffects(c, t)
    BY <1>7, <2>t, CancelEffect
  <2>1. CASE running = 0
    BY <2>0, <2>1 DEF CancelEffects, RunningIsDriven
  <2>2. CASE running # 0 /\ callers[c].pc = "drive" /\ running = t
    <3>1. queries[t].run # "over"
      BY <2>2 DEF RunningIsDriven, Alive
    <3>2. /\ running' = t /\ queries'[t].run = "task" /\ queries'[t].stage = queries[t].stage
          /\ queries'[t].side = queries[t].side
          /\ queries'[t].marks = queries[t].marks \cup {"cancelled"}
      BY <2>0, <2>2, <3>1 DEF CancelEffects
    <3>3. QED
      BY <2>2, <3>2 DEF RunningIsDriven, Alive
  <2>3. CASE running # 0 /\ ~(callers[c].pc = "drive" /\ running = t)
    <3>1. running' = running /\ queries'[running] = queries[running]
      BY <2>0, <2>3 DEF CancelEffects, TypeOK
    <3>2. \A d \in Caller : Drives(d, running) => d # c /\ callers'[d] = callers[d]
      BY <2>0, <2>t, <2>3, Zenon DEF CancelEffects
    <3>3. Alive(running)'
      BY <2>3, <3>1, <3>2 DEF RunningIsDriven, Alive
    <3>4. QED
      BY <2>3, <3>1, <3>3 DEF RunningIsDriven
  <2>4. QED
    BY <2>1, <2>2, <2>3
<1>8. ASSUME NEW t \in Stamp, Submit(t) PROVE RunningIsDriven'
  BY <1>8 DEF Submit, Store, KeepStore, InCharge, Becomes
<1>9. ASSUME NEW t \in Stamp, Send(t) PROVE RunningIsDriven'
  BY <1>9 DEF Send, Finish, KeepStore, Becomes
<1>10. ASSUME NEW t \in Stamp, SideLoaded(t) PROVE RunningIsDriven'
  BY <1>10 DEF SideLoaded, Finish, KeepStore, Becomes
<1>11. ASSUME NEW t \in Stamp, LoaderPanics(t) PROVE RunningIsDriven'
  BY <1>11 DEF LoaderPanics, DropSubmitter, InCharge, KeepStore, Becomes
<1>12. ASSUME NEW t \in Stamp, AbortTask(t) PROVE RunningIsDriven'
  BY <1>12 DEF AbortTask, DropSubmitter, InCharge, Finish, KeepStore, Becomes
<1>13. ASSUME Evict PROVE RunningIsDriven'
  BY <1>13 DEF Evict
<1>14. ASSUME DropDriver PROVE RunningIsDriven'
  BY <1>14 DEF DropDriver, KeepStore, Aborts, Becomes
<1>15. CASE UNCHANGED vars
  BY <1>15 DEF vars
<1>16. QED
  <2>1. CASE Next
    BY Zenon, <2>1, NextCases, <1>1, <1>2, <1>3, <1>4, <1>5, <1>6, <1>7,
       <1>8, <1>9, <1>10, <1>11, <1>12, <1>13, <1>14
  <2>2. QED
    BY <2>1, <1>15

\* Queries without a place in running_queries.
LEMMA OrphansStep ==
    ASSUME TypeOK, CallsAreYoung, Unstarted, Orphans, [Next]_vars
    PROVE  Orphans'
<1> USE DEF TypeOK, CallsAreYoung, Unstarted, Orphans, Call, Query
<1>1. ASSUME NEW c \in Caller, Hit(c) PROVE Orphans'
  BY <1>1 DEF Hit, Calls, Enter, KeepStore
<1>2. ASSUME NEW c \in Caller, Join(c) PROVE Orphans'
  BY <1>2, Zenon DEF Join, Calls, Enter, KeepStore
<1>3. ASSUME NEW c \in Caller, StartNewQuery(c) PROVE Orphans'
  BY <1>3 DEF StartNewQuery, Calls, Enter, KeepStore, Becomes
<1>4. ASSUME NEW c \in Caller, Set(c) PROVE Orphans'
  <2> HIDE DEF TypeOK, Query, Call, Unstarted, CallsAreYoung, Orphans
  <2>0. SetEffects(c)
    BY <1>4, SetEffect
  <2>1. ASSUME NEW d \in Caller, callers'[d].pc = "drive", NEW u, u = callers'[d].tag
        PROVE  \/ queries'[u].run = "over" \/ queries'[u].stage = "sending"
               \/ running' = u \/ queries'[u].side # 0
    <3>1. d # c /\ callers'[d] = callers[d]
      BY <2>0, <2>1 DEF SetEffects
    <3>2. u \in Stamp
      BY <2>1, <3>1 DEF CallsAreYoung
    <3>3. CASE u = running
      BY <2>0, <2>1, <3>1, <3>2, <3>3 DEF SetEffects, Orphans
    <3>4. CASE u # running
      BY <2>0, <2>1, <3>1, <3>2, <3>4 DEF SetEffects, Orphans
    <3>5. QED
      BY <3>3, <3>4
  <2>2. ASSUME NEW u \in Stamp
        PROVE  /\ queries'[u].run = "task" => "cancelled" \in queries'[u].marks
               /\ "aborted" \in queries'[u].marks => queries'[u].side # 0 \/ closed'
    <3>1. CASE u = running
      BY <2>0, <3>1 DEF SetEffects, Orphans, Aborts
    <3>2. CASE u # running
      BY <2>0, <3>2, Zenon DEF SetEffects, Orphans
    <3>3. QED
      BY <3>1, <3>2
  <2>3. QED
    BY <2>1, <2>2 DEF Orphans
<1>5. ASSUME NEW c \in Caller, Return(c) PROVE Orphans'
  BY <1>5 DEF Return, KeepStore
<1>6. ASSUME NEW c \in Caller, Leave(c) PROVE Orphans'
  BY <1>6, Zenon DEF Leave, KeepStore, NoCall
<1>7. ASSUME NEW c \in Caller, Cancel(c) PROVE Orphans'
  <2> HIDE DEF TypeOK, Query, Call, Unstarted, CallsAreYoung, Orphans
  <2>t. PICK t \in Stamp : t = callers[c].tag
    BY <1>7 DEF Cancel, CallsAreYoung
  <2>0. CancelEffects(c, t)
    BY <1>7, <2>t, CancelEffect
  <2>1. ASSUME NEW d \in Caller, callers'[d].pc = "drive", NEW u, u = callers'[d].tag
        PROVE  \/ queries'[u].run = "over" \/ queries'[u].stage = "sending"
               \/ running' = u \/ queries'[u].side # 0
    <3>1. d # c /\ callers'[d] = callers[d]
      <4>1. callers'[c].pc = "idle"
        BY <2>0 DEF CancelEffects, NoCall
      <4>2. QED
        BY <2>0, <2>1, <4>1 DEF CancelEffects
    <3>2. u \in Stamp
      BY <2>1, <3>1 DEF CallsAreYoung
    <3>3. CASE u = t
      <4>1. /\ queries'[u].side = queries[u].side /\ queries'[u].stage = queries[u].stage
            /\ running' = running
            /\ queries'[u].run = queries[u].run \/ queries'[u].run = "over" \/ running = u
        BY <2>0, <3>3, Zenon DEF CancelEffects
      <4>2. QED
        BY <2>1, <3>1, <4>1, Zenon DEF Orphans
    <3>4. CASE u # t
      <4>1. queries'[u] = queries[u] /\ running' = running
        BY <2>0, <3>2, <3>4 DEF CancelEffects
      <4>2. QED
        BY <2>1, <3>1, <4>1 DEF Orphans
    <3>5. QED
      BY <3>3, <3>4
  <2>2. ASSUME NEW u \in Stamp
        PROVE  /\ queries'[u].run = "task" => "cancelled" \in queries'[u].marks
               /\ "aborted" \in queries'[u].marks => queries'[u].side # 0 \/ closed'
    <3>1. CASE u = t
      BY <2>0, <2>t, <3>1, Zenon DEF CancelEffects, Orphans
    <3>2. CASE u # t
      BY <2>0, <2>t, <3>2, Zenon DEF CancelEffects, Orphans
    <3>3. QED
      BY <3>1, <3>2
  <2>3. QED
    BY <2>1, <2>2, Zenon DEF Orphans
<1>8. ASSUME NEW t \in Stamp, Submit(t) PROVE Orphans'
  <2> HIDE DEF TypeOK, Query, Call, Unstarted, CallsAreYoung, Orphans
  <2>0. SubmitEffects(t)
    BY <1>8, SubmitEffect
  <2>1. ASSUME NEW d \in Caller, callers'[d].pc = "drive", NEW u, u = callers'[d].tag
        PROVE  \/ queries'[u].run = "over" \/ queries'[u].stage = "sending"
               \/ running' = u \/ queries'[u].side # 0
    <3>1. d \in Caller /\ callers'[d] = callers[d]
      BY <2>0, <2>1 DEF SubmitEffects
    <3>2. u \in Stamp
      BY <2>1, <3>1 DEF CallsAreYoung
    <3>3. CASE u = t
      <4>1. /\ queries'[u].side = queries[u].side /\ queries'[u].run = queries[u].run
            /\ queries[u].stage # "sending"
            /\ running = u \/ running' = running
            /\ running = u => queries'[u].stage = "sending"
        BY <2>0, <3>3 DEF SubmitEffects
      <4>2. QED
        BY <2>1, <3>1, <4>1 DEF Orphans
    <3>4. CASE u # t
      BY <2>0, <2>1, <3>1, <3>2, <3>4 DEF SubmitEffects, Orphans
    <3>5. QED
      BY <3>3, <3>4
  <2>2. ASSUME NEW u \in Stamp
        PROVE  /\ queries'[u].run = "task" => "cancelled" \in queries'[u].marks
               /\ "aborted" \in queries'[u].marks => queries'[u].side # 0 \/ closed'
    <3>1. CASE u = t
      BY <2>0, <3>1 DEF SubmitEffects, Orphans
    <3>2. CASE u # t
      BY <2>0, <3>2 DEF SubmitEffects, Orphans
    <3>3. QED
      BY <3>1, <3>2
  <2>3. QED
    BY <2>1, <2>2 DEF Orphans
<1>9. ASSUME NEW t \in Stamp, Send(t) PROVE Orphans'
  BY <1>9 DEF Send, Finish, KeepStore, Becomes
<1>10. ASSUME NEW t \in Stamp, SideLoaded(t) PROVE Orphans'
  BY <1>10 DEF SideLoaded, Finish, KeepStore, Becomes
<1>11. ASSUME NEW t \in Stamp, LoaderPanics(t) PROVE Orphans'
  BY <1>11 DEF LoaderPanics, DropSubmitter, InCharge, KeepStore, Becomes
<1>12. ASSUME NEW t \in Stamp, AbortTask(t) PROVE Orphans'
  BY <1>12 DEF AbortTask, DropSubmitter, InCharge, Finish, KeepStore, Becomes
<1>13. ASSUME Evict PROVE Orphans'
  BY <1>13, Zenon DEF Evict
<1>14. ASSUME DropDriver PROVE Orphans'
  <2> HIDE DEF TypeOK, Query, Call, Unstarted, CallsAreYoung, Orphans
  <2>0. \A u \in Stamp : DropEffects(u)
    BY <1>14, DropEffect
  <2>1. closed' /\ \A c \in Caller : callers'[c].pc = "idle"
    BY <1>14 DEF DropDriver
  <2>2. QED
    BY <2>0, <2>1 DEF DropEffects, Orphans
<1>15. CASE UNCHANGED vars
  BY <1>15 DEF vars
<1>16. QED
  <2>1. CASE Next
    BY ZenonT(30), <2>1, NextCases, <1>1, <1>2, <1>3, <1>4, <1>5, <1>6, <1>7,
       <1>8, <1>9, <1>10, <1>11, <1>12, <1>13, <1>14
  <2>2. QED
    BY <2>1, <1>15, Zenon

\* The reasons why senders are dropped.
LEMMA LossesStep ==
    ASSUME TypeOK, CallsAreYoung, Unstarted, Orphans, LossesExplained, [Next]_vars
    PROVE  LossesExplained'
<1> USE DEF TypeOK, CallsAreYoung, Unstarted, Orphans, LossesExplained, Call, Query
<1>1. ASSUME NEW c \in Caller, Hit(c) PROVE LossesExplained'
  <2> HIDE DEF Orphans, LossesExplained, Unstarted, Query
  <2>1. /\ UNCHANGED <<queries, closed>>
        /\ \A d \in Caller : d # c => callers'[d] = callers[d]
    BY <1>1 DEF Hit, Calls, Enter
  <2>2. /\ closed => callers'[c].pc = "idle"
        /\ callers'[c].pc = "idle" => callers'[c].got = 0
        /\ callers'[c].got # Dropped
    BY <1>1 DEF Hit, Calls, Enter
  <2>3. QED
    BY <2>1, <2>2, QuietStep
<1>2. ASSUME NEW c \in Caller, Join(c) PROVE LossesExplained'
  <2> HIDE DEF Orphans, LossesExplained, Unstarted, Query
  <2>1. /\ UNCHANGED <<queries, closed>>
        /\ \A d \in Caller : d # c => callers'[d] = callers[d]
    BY <1>2 DEF Join, Calls, Enter
  <2>2. /\ closed => callers'[c].pc = "idle"
        /\ callers'[c].pc = "idle" => callers'[c].got = 0
        /\ callers'[c].got # Dropped
    BY <1>2 DEF Join, Calls, Enter
  <2>3. QED
    BY <2>1, <2>2, QuietStep
<1>3. ASSUME NEW c \in Caller, StartNewQuery(c) PROVE LossesExplained'
  BY <1>3 DEF StartNewQuery, Calls, Enter, KeepStore, Becomes, Explained
<1>4. ASSUME NEW c \in Caller, Set(c) PROVE LossesExplained'
  <2> HIDE DEF TypeOK, Query, Call, Unstarted, CallsAreYoung, Orphans,
               LossesExplained, Explained
  <2>0. SetEffects(c)
    BY <1>4, SetEffect
  <2>1. \A u \in Stamp : Explained(queries[u]) => Explained(queries'[u])
    <3>1. ASSUME NEW u \in Stamp
          PROVE  /\ queries[u].marks \subseteq queries'[u].marks
                 /\ queries[u].side # 0 => queries'[u].side # 0
      <4>1. CASE u = running
        BY <2>0, <4>1 DEF SetEffects, Aborts
      <4>2. CASE u # running
        BY <2>0, <4>2 DEF SetEffects
      <4>3. QED
        BY <4>1, <4>2
    <3>2. QED
      BY <3>1 DEF Explained
  <2>2. ASSUME NEW u \in Stamp, queries'[u].out = Dropped
        PROVE  Explained(queries'[u]) \/ closed'
    <3>1. queries[u].out = Dropped => Explained(queries[u]) \/ closed
      BY DEF LossesExplained
    <3>2. QED
      BY <2>0, <2>1, <2>2, <3>1 DEF SetEffects
  <2>3. ASSUME NEW d \in Caller
        PROVE  /\ callers'[d].pc = "idle" => callers'[d].got = 0
               /\ closed' => callers'[d].pc = "idle"
               /\ callers'[d].got = Dropped =>
                    callers'[d].tag \in Stamp /\ Explained(queries'[callers'[d].tag])
    <3>1. CASE d = c
      BY <2>0, <3>1 DEF SetEffects
    <3>2. CASE d # c
      <4>1. callers'[d] = callers[d] /\ closed' = closed
        BY <2>0, <3>2 DEF SetEffects
      <4>2. QED
        BY <4>1, <2>1 DEF LossesExplained
    <3>3. QED
      BY <3>1, <3>2
  <2>4. QED
    BY <2>2, <2>3 DEF LossesExplained
<1>5. ASSUME NEW c \in Caller, Return(c) PROVE LossesExplained'
  <2> HIDE DEF Orphans, Unstarted, Query
  <2>1. /\ UNCHANGED <<queries, closed>>
        /\ \A d \in Caller : d # c => callers'[d] = callers[d]
        /\ callers[c].pc # "idle"
    BY <1>5 DEF Return
  <2>2. callers[c].tag \in Stamp
    BY <1>5 DEF Return
  <2>3. /\ callers'[c].pc = "done" /\ callers'[c].tag = callers[c].tag
        /\ callers'[c].got = Dropped => queries[callers[c].tag].out = Dropped
    BY <1>5 DEF Return
  <2>4. ~closed
    BY <2>1
  <2>5. callers'[c].got = Dropped =>
          callers'[c].tag \in Stamp /\ Explained(queries[callers'[c].tag])
    BY <2>2, <2>3, <2>4
  <2> HIDE DEF LossesExplained
  <2>6. QED
    BY <2>1, <2>3, <2>4, <2>5, QuietStep
<1>6. ASSUME NEW c \in Caller, Leave(c) PROVE LossesExplained'
  <2> HIDE DEF Orphans, LossesExplained, Unstarted, Query
  <2>1. /\ UNCHANGED <<queries, closed>>
        /\ \A d \in Caller : d # c => callers'[d] = callers[d]
    BY <1>6 DEF Leave, NoCall
  <2>2. /\ closed => callers'[c].pc = "idle"
        /\ callers'[c].pc = "idle" => callers'[c].got = 0
        /\ callers'[c].got # Dropped
    BY <1>6 DEF Leave, NoCall
  <2>3. QED
    BY <2>1, <2>2, QuietStep
<1>7. ASSUME NEW c \in Caller, Cancel(c) PROVE LossesExplained'
  <2> HIDE DEF TypeOK, Query, Call, Unstarted, CallsAreYoung, Orphans,
               LossesExplained, Explained
  <2>t. PICK t \in Stamp : t = callers[c].tag
    BY <1>7 DEF Cancel, CallsAreYoung
  <2>0. CancelEffects(c, t)
    BY <1>7, <2>t, CancelEffect
  <2>1. \A u \in Stamp : Explained(queries[u]) => Explained(queries'[u])
    BY <2>0, <2>t, Zenon DEF CancelEffects, Explained
  <2>2. ASSUME NEW u \in Stamp, queries'[u].out = Dropped
        PROVE  Explained(queries'[u]) \/ closed'
    <3>1. queries[u].out = Dropped => Explained(queries[u]) \/ closed
      BY DEF LossesExplained
    <3>2. CASE queries'[u].out = queries[u].out
      BY <2>0, <2>1, <2>2, <3>1, <3>2 DEF CancelEffects
    <3>3. CASE queries'[u].out # queries[u].out
      <4>1. /\ u = t /\ callers[c].pc = "drive" /\ queries[t].run # "over" /\ running # t
            /\ queries[t].stage # "sending" /\ queries'[t].side = queries[t].side
            /\ "cancelled" \in queries'[t].marks
        BY <2>0, <3>3 DEF CancelEffects
      <4>2. queries[t].side # 0
        BY <2>t, <4>1, Zenon DEF Orphans
      <4>3. QED
        BY <4>1, <4>2 DEF Explained
    <3>4. QED
      BY <3>2, <3>3
  <2>3. ASSUME NEW d \in Caller
        PROVE  /\ callers'[d].pc = "idle" => callers'[d].got = 0
               /\ closed' => callers'[d].pc = "idle"
               /\ callers'[d].got = Dropped =>
                    callers'[d].tag \in Stamp /\ Explained(queries'[callers'[d].tag])
    <3>1. CASE d = c
      BY <2>0, <3>1 DEF CancelEffects, NoCall
    <3>2. CASE d # c
      <4>1. callers'[d] = callers[d] /\ closed' = closed
        BY <2>0, <3>2 DEF CancelEffects
      <4>2. QED
        BY <4>1, <2>1, Zenon DEF LossesExplained
    <3>3. QED
      BY <3>1, <3>2
  <2>4. QED
    BY <2>2, <2>3, Zenon DEF LossesExplained
<1>8. ASSUME NEW t \in Stamp, Submit(t) PROVE LossesExplained'
  <2> HIDE DEF TypeOK, Query, Call, Unstarted, CallsAreYoung, Orphans,
               LossesExplained, Explained
  <2>0. SubmitEffects(t)
    BY <1>8, SubmitEffect
  <2>1. \A u \in Stamp : /\ Explained(queries[u]) => Explained(queries'[u])
                       /\ queries'[u].out = queries[u].out
    BY <2>0 DEF SubmitEffects, Explained
  <2>2. callers' = callers /\ closed' = closed
    BY <2>0 DEF SubmitEffects
  <2>3. QED
    BY <2>1, <2>2, Zenon DEF LossesExplained
<1>9. ASSUME NEW t \in Stamp, Send(t) PROVE LossesExplained'
  BY <1>9 DEF Send, Finish, KeepStore, Becomes, Explained
<1>10. ASSUME NEW t \in Stamp, SideLoaded(t) PROVE LossesExplained'
  BY <1>10 DEF SideLoaded, Finish, KeepStore, Becomes, Explained
<1>11. ASSUME NEW t \in Stamp, LoaderPanics(t) PROVE LossesExplained'
  BY <1>11 DEF LoaderPanics, DropSubmitter, InCharge, KeepStore, Becomes, Explained
<1>12. ASSUME NEW t \in Stamp, AbortTask(t) PROVE LossesExplained'
  BY <1>12 DEF AbortTask, DropSubmitter, InCharge, Finish, KeepStore, Becomes, Explained
<1>13. ASSUME Evict PROVE LossesExplained'
  BY <1>13, Zenon DEF Evict
<1>14. ASSUME DropDriver PROVE LossesExplained'
  BY <1>14 DEF DropDriver, KeepStore, Aborts, Becomes, Explained
<1>15. CASE UNCHANGED vars
  BY <1>15, Zenon DEF vars
<1>16. QED
  <2>1. CASE Next
    BY ZenonT(30), <2>1, NextCases, <1>1, <1>2, <1>3, <1>4, <1>5, <1>6, <1>7,
       <1>8, <1>9, <1>10, <1>11, <1>12, <1>13, <1>14
  <2>2. QED
    BY <2>1, <1>15, Zenon

-----------------------------------------------------------------------------
LEMMA InvStep == Inv /\ [Next]_vars => Inv'
BY TypeStep, OrderedStep, UnstartedStep, AnswersStep, CallsStep, ReadsStep,
   RunningStep, OrphansStep, LossesStep DEF Inv

LEMMA InvHolds == Spec => []Inv
BY InitInv, InvStep, PTL DEF Spec

\* Every reachable state of the driver, its queries and its callers is well
\* typed: tags, channels and results stay in their ranges.
THEOREM TypeCorrect == Spec => []TypeOK
<1>1. Inv => TypeOK
  BY DEF Inv
<1>2. QED
  BY <1>1, InvHolds, PTL

\* ResultSubmitter::finalize never lets an older load replace a younger value.
THEOREM YoungestStays == Spec => []YoungestIsCached
<1>1. Inv => YoungestIsCached
  BY DEF Inv, Ordered, YoungestIsCached
<1>2. QED
  BY <1>1, InvHolds, PTL

\* get() and peek() never return a value older than what was stored when they
\* were called.
THEOREM FreshReads == Spec => []ReadsAreFresh
<1>1. Inv => ReadsAreFresh
  BY DEF Inv
<1>2. QED
  BY <1>1, InvHolds, PTL

\* A query found in running_queries always has somebody who drives it.
THEOREM RunningDriven == Spec => []RunningIsDriven
<1>1. Inv => RunningIsDriven
  BY DEF Inv
<1>2. QED
  BY <1>1, InvHolds, PTL

\* get() panics on a dropped sender for no other reason than a loader's panic,
\* or a set() on a query whose first caller was cancelled.
THEOREM PanicsExplained == Spec => []PanicsAreExplained
<1>1. Inv => PanicsAreExplained
  BY DEF Inv, LossesExplained, Explained, PanicsAreExplained
<1>2. QED
  BY <1>1, InvHolds, PTL
=============================================================================
