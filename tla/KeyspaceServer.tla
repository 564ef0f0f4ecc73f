---------------------------- MODULE KeyspaceServer ----------------------------
(***************************************************************************)
(* The outer two layers of a parquet cache server                          *)
(* (src/parquet_cache/src/server: cache.rs over keyspace.rs).  The server  *)
(* loads the instance set that owns the key space from a file, at start-up *)
(* and whenever a file watcher reports a change.  A connection is a clone  *)
(* of the service: it waits in poll_ready until an instance set that names *)
(* this node is loaded, then declares the node warmed, then asks for its   *)
(* state.                                                                  *)
(*                                                                         *)
(* The runtime has several threads: the two update tasks and the           *)
(* connections interleave between any two accesses to what they share.     *)
(***************************************************************************)
EXTENDS Naturals, FiniteSets

CONSTANTS
    Conn,         \* connections
    MaxRevision   \* bound: revisions of the instance set written to the file

ASSUME KeyspaceAssumption == MaxRevision \in Nat \ {0}

Task == {"startup", "watcher"}

(***************************************************************************)
(* An instance set is its revision and whether it names this node.         *)
(***************************************************************************)
InstanceSet == [revision : 1 .. MaxRevision, own : BOOLEAN]

NoInstances == [revision |-> 0, own |-> FALSE]

VARIABLES
    file,     \* the instance set in the config map file
    torn,     \* the file is missing or half written
    changed,  \* the watcher's stored notification
    current,  \* KeyspaceVersion.current, or NoInstances
    next,     \* KeyspaceVersion.next, or NoInstances
    task,     \* task[t]: where update t is
    read,     \* read[t]: the instance set it read
    pending,  \* pending[t]: its swap replaced a Pending version
    conn,     \* conn[c]: where connection c is
    answer,   \* answer[c]: the state it was told, or "none"
    early,    \* history: connections declared warmed before the node (re)joined
    missed,   \* history: connections that registered after their notification
    overtaken \* history: next is from the start-up update, which found a newer one

keyspaceVars == <<file, torn, changed, current, next, task, read, pending, conn, answer,
                  early, missed, overtaken>>

(***************************************************************************)
(* InstanceState::from(&KeyspaceVersion).                                  *)
(***************************************************************************)
State ==
    CASE next = NoInstances \/ (current = NoInstances /\ ~next.own) -> "pending"
      [] next.own /\ ~current.own -> "warming"
      [] next.own /\ current.own -> "running"
      [] OTHER -> "cooling"

Ready == State # "pending"

KeyspaceInit ==
    /\ file \in {s \in InstanceSet : s.revision = 1}
    /\ torn = FALSE
    /\ changed = FALSE
    /\ current = NoInstances
    /\ next = NoInstances
    /\ task = [t \in Task |-> IF t = "startup" THEN "read" ELSE "idle"]
    /\ read = [t \in Task |-> NoInstances]
    /\ pending = [t \in Task |-> FALSE]
    /\ conn = [c \in Conn |-> "new"]
    /\ answer = [c \in Conn |-> "none"]
    /\ early = {}
    /\ missed = {}
    /\ overtaken = FALSE

-----------------------------------------------------------------------------
(***************************************************************************)
(* The controller's config map reaches the file, at once or by way of a    *)
(* file that cannot be read; the watcher is notified either way.           *)
(***************************************************************************)
BeginWrite ==
    /\ file.revision < MaxRevision
    /\ torn' = TRUE
    /\ changed' = TRUE
    /\ UNCHANGED <<file, current, next, task, read, pending, conn, answer, early,
                   missed, overtaken>>

\* The watcher's callback wakes a loop that waits, and leaves no permit.
WriteFileNotifiesWaiters ==
    /\ file.revision < MaxRevision
    /\ \E own \in BOOLEAN :
          file' = [revision |-> file.revision + 1, own |-> own]
    /\ torn' = FALSE
    /\ changed' = (task["watcher"] = "idle")
    /\ UNCHANGED <<current, next, task, read, pending, conn, answer, early,
                   missed, overtaken>>

WriteFile ==
    /\ file.revision < MaxRevision
    /\ \E own \in BOOLEAN :
          file' = [revision |-> file.revision + 1, own |-> own]
    /\ torn' = FALSE
    /\ changed' = TRUE
    /\ UNCHANGED <<current, next, task, read, pending, conn, answer, early,
                   missed, overtaken>>

\* The watcher's loop takes the notification.
Notified ==
    /\ task["watcher"] = "idle"
    /\ changed
    /\ changed' = FALSE
    /\ task' = [task EXCEPT !["watcher"] = "read"]
    /\ UNCHANGED <<file, torn, current, next, read, pending, conn, answer, early,
                   missed, overtaken>>

\* Keyspace::update reads the file, and panics if it cannot: the start-up task, or
\* the watcher's loop, is then gone, ...
Read(t) ==
    /\ task[t] = "read"
    /\ IF torn
       THEN /\ task' = [task EXCEPT ![t] = "dead"]
            /\ UNCHANGED read
       ELSE /\ read' = [read EXCEPT ![t] = file]
            /\ task' = [task EXCEPT ![t] = "swap"]
    /\ UNCHANGED <<file, torn, changed, current, next, pending, conn, answer, early,
                   missed, overtaken>>

\* ... swaps the data unless next already has the revision that was read, ...
Swap(t) ==
    /\ task[t] = "swap"
    /\ IF next # NoInstances /\ next.revision = read[t].revision
       THEN UNCHANGED <<current, next, early, overtaken>>
       ELSE /\ current' = next
            /\ next' = read[t]
            /\ early' = early \cup
                  {c \in Conn : conn[c] = "call" /\ ~next.own /\ read[t].own}
            /\ overtaken' = (t = "startup" /\ read[t].revision < next.revision)
    /\ pending' = [pending EXCEPT ![t] = ~Ready]
    /\ task' = [task EXCEPT ![t] = "notify"]
    /\ UNCHANGED <<file, torn, changed, read, conn, answer, missed>>

\* One waiting connection is woken.
NotifyOne(t) ==
    /\ task[t] = "notify"
    /\ IF pending[t] /\ Ready
       THEN /\ \E c \in Conn :
                 conn' = [conn EXCEPT ![c] = IF @ = "waiting" THEN "woken" ELSE @]
            /\ missed' = missed \cup {c \in Conn : conn[c] = "checked"}
       ELSE UNCHANGED <<conn, missed>>
    /\ task' = [task EXCEPT ![t] = IF t = "startup" THEN "ended" ELSE "idle"]
    /\ read' = [read EXCEPT ![t] = NoInstances]
    /\ pending' = [pending EXCEPT ![t] = FALSE]
    /\ UNCHANGED <<file, torn, changed, current, next, answer, early, overtaken>>

\* ... and wakes the connections that wait if that made the node ready.
Notify(t) ==
    /\ task[t] = "notify"
    /\ IF pending[t] /\ Ready
       THEN /\ conn' = [c \in Conn |-> IF conn[c] = "waiting" THEN "woken" ELSE conn[c]]
            /\ missed' = missed \cup {c \in Conn : conn[c] = "checked"}
       ELSE UNCHANGED <<conn, missed>>
    /\ task' = [task EXCEPT ![t] = IF t = "startup" THEN "ended" ELSE "idle"]
    /\ read' = [read EXCEPT ![t] = NoInstances]
    /\ pending' = [pending EXCEPT ![t] = FALSE]
    /\ UNCHANGED <<file, torn, changed, current, next, answer, early, overtaken>>

-----------------------------------------------------------------------------
(***************************************************************************)
(* poll_ready of a connection.  It looks whether the node is ready; if not *)
(* it polls its notification, which registers it as a waiter only now.     *)
(***************************************************************************)
PollReady(c) ==
    /\ conn[c] = "new"
    /\ conn' = [conn EXCEPT ![c] = IF Ready THEN "ready" ELSE "checked"]
    /\ UNCHANGED <<file, torn, changed, current, next, task, read, pending, answer,
                   early, missed, overtaken>>

Register(c) ==
    /\ conn[c] = "checked"
    /\ conn' = [conn EXCEPT ![c] = "waiting"]
    /\ UNCHANGED <<file, torn, changed, current, next, task, read, pending, answer,
                   early, missed, overtaken>>

\* CacheService::poll_ready: on a fresh clone, prewarm sends PATCH /warmed,
\* which makes next current too.
Prewarm(c) ==
    /\ conn[c] \in {"ready", "woken"}
    /\ current' = next
    /\ conn' = [conn EXCEPT ![c] = "call"]
    /\ UNCHANGED <<file, torn, changed, next, task, read, pending, answer, early,
                   missed, overtaken>>

\* GET /state.
GetState(c) ==
    /\ conn[c] = "call"
    /\ answer' = [answer EXCEPT ![c] = State]
    /\ conn' = [conn EXCEPT ![c] = "done"]
    /\ UNCHANGED <<file, torn, changed, current, next, task, read, pending, early,
                   missed, overtaken>>

Update(t) == Read(t) \/ Swap(t) \/ Notify(t)

Serve(c) == PollReady(c) \/ Register(c) \/ Prewarm(c) \/ GetState(c)

KeyspaceNext ==
    \/ BeginWrite
    \/ WriteFile
    \/ Notified
    \/ \E t \in Task : Update(t)
    \/ \E c \in Conn : Serve(c)

KeyspaceSpec == KeyspaceInit /\ [][KeyspaceNext]_keyspaceVars

-----------------------------------------------------------------------------
\* The node ends up with the instance set that is in the file, unless the watcher
\* met a file it could not read, and panicked, or the set it last stored is an older
\* one that the start-up update had read: nothing makes the server read the file
\* again.
FileIsLoaded == <>[](next = file \/ task["watcher"] = "dead" \/ overtaken)

\* Every connection to a node that is in the key space is served in the end,
\* unless the one notification fell between its look and its registration.
ConnectionsAreServed ==
    \A c \in Conn :
        <>[](~Ready \/ conn[c] = "done" \/ c \in missed)

\* A node that is warming can be asked for its state, and says so: letting a
\* connection in does not end the warming.  It is the report of this state that the
\* controller's check_warming_pods waits for.
WarmingIsReported ==
    [][\A c \in Conn :
          conn[c] # "call" /\ conn'[c] = "call" /\ State = "warming"
              => State' = "warming"]_keyspaceVars

\* A node is reported warming only if it joined the key space between a
\* connection's two steps: the connection that asks has itself declared the node
\* warmed.
WarmingIsNotSeen ==
    \A c \in Conn : answer[c] = "warming" => c \in early
=============================================================================
