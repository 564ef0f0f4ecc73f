------------------------- MODULE QuorumCatalogCache -------------------------
(***************************************************************************)
(* The replicated catalog cache: catalog_cache/src/api.                    *)
(*                                                                         *)
(* Every node keeps a local `CatalogCache`, serves it over HTTP and reads  *)
(* and writes it together with the caches of two replicas.  The module     *)
(* follows one key.  A value is identified by its generation, which the    *)
(* backing catalog hands out in increasing order, one per snapshot.        *)
(*                                                                         *)
(* A put is inserted locally and then sent to both replicas; it succeeds   *)
(* with the first replica that answers.  A get compares the local value,   *)
(* read before anything is sent, with the answers of the replicas.         *)
(* Requests and answers are lost, and a request whose client gave up after *)
(* RESOURCE_REQUEST_TIMEOUT may still be executed later.  Entries vanish   *)
(* by Not-Recently-Used eviction and when a node restarts.                 *)
(***************************************************************************)
EXTENDS Integers

CONSTANTS
    Node,      \* the three nodes
    Reader,    \* callers of `QuorumCatalogCache::get`, one call at a time each
    MaxGen,    \* bound: number of generations handed out
    Reading,   \* the nodes on which `get` is called
    Evicting,  \* the nodes whose `evict_unused` is called
    Crashing,  \* the nodes that restart
    Warming,   \* the nodes that call `warm`
    Timely,    \* no operation outlives an eviction period or a restart
    Nobody     \* no node

ASSUME NodeAssumption ==
    /\ \E a, b, c \in Node : Node = {a, b, c} /\ a # b /\ b # c /\ a # c
    /\ Nobody \notin Node
ASSUME MaxGenAssumption == MaxGen \in Nat
ASSUME RolesAssumption == /\ Reading \subseteq Node
                          /\ Evicting \subseteq Node
                          /\ Crashing \subseteq Node
                          /\ Warming \subseteq Node
ASSUME TimelyAssumption == Timely \in BOOLEAN

Gen == 1 .. MaxGen         \* generations
None == 0                  \* no value for the key
Waiting == -1              \* no answer yet
Failed == -2               \* a `ClientError`, or a call that returned an error
Answer == {Waiting, Failed, None} \cup Gen

VARIABLES
    store,     \* the generation in each node's local cache
    used,      \* `CacheEntry::used` of that entry
    down,      \* the nodes that are restarting
    gen,       \* the generations handed out so far
    puts,      \* the put of each generation: its node and its task's replies
    wire,      \* the put requests that are not executed or lost yet
    gets,      \* the current or last call of each reader
    warms,     \* the current `warm` of each node
    acked,     \* history: the highest generation a put or get has returned
    crossed    \* history: which operations were under way when which node
               \* ran `evict_unused` or went down

vars == <<store, used, down, gen, puts, wire, gets, warms, acked, crossed>>

Replicas(n) == Node \ {n}

NoPut == [pc |-> "none", node |-> Nobody, reply |-> [n \in Node |-> "wait"]]
PutDone == [NoPut EXCEPT !.pc = "done"]
NoGet == [pc |-> "idle", node |-> Nobody, local |-> None, floor |-> None,
          resp |-> [n \in Node |-> Waiting], result |-> None]
NoWarm == [pc |-> "idle", peer |-> Nobody, gen |-> None]

Init ==
    /\ store = [n \in Node |-> None]
    /\ used = [n \in Node |-> FALSE]
    /\ down = {}
    /\ gen = 0
    /\ puts = [g \in Gen |-> NoPut]
    /\ wire = {}
    /\ gets = [c \in Reader |-> NoGet]
    /\ warms = [n \in Node |-> NoWarm]
    /\ acked = None
    /\ crossed = {}

-----------------------------------------------------------------------------
(* The local cache, as module CatalogCache has it, for one key *)

\* `CatalogCache::insert`: skipped unless the generation is newer.
Insert(n, g) ==
    /\ store' = [store EXCEPT ![n] = IF g > @ THEN g ELSE @]
    /\ used' = [used EXCEPT ![n] = IF g > store[n] THEN TRUE ELSE @]

\* `CatalogCache::insert` that has to grow the cache and hits the limit.
InsertFails(n, g) ==
    /\ g > store[n]
    /\ UNCHANGED <<store, used>>

\* `CatalogCache::get` marks the entry as used.
Touch(n) == used' = [used EXCEPT ![n] = store[n] # None]

-----------------------------------------------------------------------------
(* Operations that are under way *)

Ops == ({"put"} \X Gen) \cup ({"get"} \X Reader) \cup ({"warm"} \X Node)

PutLive(g) == puts[g].pc \in {"begun", "run"} \/ \E n \in Node : <<g, n>> \in wire
GetLive(c) == gets[c].pc = "run"
WarmLive(n) == warms[n].pc # "idle"

IsLive(op) ==
    \/ op[1] = "put" /\ PutLive(op[2])
    \/ op[1] = "get" /\ GetLive(op[2])
    \/ op[1] = "warm" /\ WarmLive(op[2])

Live == {op \in Ops : IsLive(op)}

\* An operation may have ended.
Forget == crossed' = {x \in crossed : IsLive(x[1])'}

\* Node n loses data while these operations are under way.
Cross(n) == crossed' = {x \in crossed \cup (Live \X {n}) : IsLive(x[1])'}

\* The timing that makes the cache consistent: an operation is over before
\* the second pass of `evict_unused` on a node since it began, and before a
\* node that was up when it began is back after a restart, and a node does not
\* evict while it warms itself.
InTime(n) == Timely => \A x \in crossed : x[2] = n => ~IsLive(x[1])

-----------------------------------------------------------------------------
(* put *)

\* The caller on node n takes a snapshot of the backing catalog, which hands
\* out the next generation.
PutBegin(n) ==
    /\ n \notin down
    /\ gen < MaxGen
    /\ gen' = gen + 1
    /\ puts' = [puts EXCEPT ![gen + 1] = [NoPut EXCEPT !.pc = "begun", !.node = n]]
    /\ UNCHANGED <<store, used, down, wire, gets, warms, acked, crossed>>

\* Mutant of PutLocal: the put counts as returned before a replica has it.
PutLocalAcks(g) ==
    /\ puts[g].pc = "begun"
    /\ Insert(puts[g].node, g)
    /\ puts' = [puts EXCEPT ![g].pc = "run"]
    /\ wire' = wire \cup ({g} \X Replicas(puts[g].node))
    /\ acked' = g
    /\ UNCHANGED <<down, gen, gets, warms, crossed>>

\* `put` inserts locally and spawns the task that sends to both replicas.
PutLocal(g) ==
    /\ puts[g].pc = "begun"
    /\ Insert(puts[g].node, g)
    /\ puts' = [puts EXCEPT ![g].pc = "run"]
    /\ wire' = wire \cup ({g} \X Replicas(puts[g].node))
    /\ UNCHANGED <<down, gen, gets, warms, acked, crossed>>

\* `put` returns the error of the local cache before anything is sent.
PutLocalFails(g) ==
    /\ puts[g].pc = "begun"
    /\ InsertFails(puts[g].node, g)
    /\ puts' = [puts EXCEPT ![g] = PutDone]
    /\ UNCHANGED <<down, gen, wire, gets, warms, acked>>
    /\ Forget

\* The task of put g learns the outcome of the request to n.  `put` returns Ok
\* with the first success, while the task goes on to replicate to the other
\* node, and returns `NoRemote` when both requests have failed.  The time an
\* answer takes is not modelled: a put that returns later promises less.
Learn(g, n, outcome) ==
    IF puts[g].pc = "run" /\ puts[g].reply[n] = "wait"
    THEN LET reply == [puts[g].reply EXCEPT ![n] = outcome]
             over == outcome = "ok" \/ \A m \in Replicas(puts[g].node) : reply[m] = "err"
         IN  /\ puts' = [puts EXCEPT ![g] = IF over THEN PutDone ELSE [@ EXCEPT !.reply = reply]]
             /\ acked' = IF outcome = "ok" /\ g > acked THEN g ELSE acked
    ELSE UNCHANGED <<puts, acked>>

\* The server on n executes PUT: 200 or 304, both of which the client takes
\* for a success, or the answer is lost.
ServePut(g, n) ==
    /\ <<g, n>> \in wire
    /\ n \notin down
    /\ wire' = wire \ {<<g, n>>}
    /\ Insert(n, g)
    /\ \E outcome \in {"ok", "err"} : Learn(g, n, outcome)
    /\ UNCHANGED <<down, gen, gets, warms>>
    /\ Forget

\* The server on n answers PUT with 500 because its cache is full.
ServePutFails(g, n) ==
    /\ <<g, n>> \in wire
    /\ n \notin down
    /\ wire' = wire \ {<<g, n>>}
    /\ InsertFails(n, g)
    /\ Learn(g, n, "err")
    /\ UNCHANGED <<down, gen, gets, warms>>
    /\ Forget

\* The request is lost, or dropped when the task is cancelled.
LosePut(g, n) ==
    /\ <<g, n>> \in wire
    /\ wire' = wire \ {<<g, n>>}
    /\ Learn(g, n, "err")
    /\ UNCHANGED <<store, used, down, gen, gets, warms>>
    /\ Forget

\* The client times out; the request may still be executed later.
TimeoutPut(g, n) ==
    /\ <<g, n>> \in wire
    /\ puts[g].pc = "run"
    /\ puts[g].reply[n] = "wait"
    /\ Learn(g, n, "err")
    /\ UNCHANGED <<store, used, down, gen, wire, gets, warms>>
    /\ Forget

-----------------------------------------------------------------------------
(* get *)

\* `get` reads the local cache and asks both replicas.
GetStart(c, n) ==
    /\ gets[c].pc # "run"
    /\ n \in Reading \ down
    /\ gets' = [gets EXCEPT ![c] = [NoGet EXCEPT !.pc = "run", !.node = n,
                                    !.local = store[n], !.floor = acked]]
    /\ Touch(n)
    /\ UNCHANGED <<store, down, gen, puts, wire, warms, acked, crossed>>

\* The server on n executes GET; the answer reaches the reader or is lost.
ServeGet(c, n) ==
    /\ gets[c].pc = "run"
    /\ n \in Replicas(gets[c].node)
    /\ gets[c].resp[n] = Waiting
    /\ n \notin down
    /\ \E answer \in {store[n], Failed} : gets' = [gets EXCEPT ![c].resp[n] = answer]
    /\ Touch(n)
    /\ UNCHANGED <<store, down, gen, puts, wire, warms, acked, crossed>>

\* The request is not executed, or not before the client times out.
FailGet(c, n) ==
    /\ gets[c].pc = "run"
    /\ n \in Replicas(gets[c].node)
    /\ gets[c].resp[n] = Waiting
    /\ gets' = [gets EXCEPT ![c].resp[n] = Failed]
    /\ UNCHANGED <<store, used, down, gen, puts, wire, warms, acked, crossed>>

\* Mutant of Decisive: the generations are not compared.
DecisiveAny(l, r) == (l = None /\ r = None) \/ (l # None /\ r \in Gen)

\* The answer r decides the call together with the local value alone: neither
\* has the key, or both have it and the replica is not behind.
Decisive(l, r) == (l = None /\ r = None) \/ (l # None /\ r \in Gen /\ l <= r)

\* The call returns r.
Return(c, r) ==
    gets' = [gets EXCEPT ![c] = [NoGet EXCEPT !.pc = "done", !.floor = gets[c].floor,
                                 !.result = r]]

\* The call returns generation r, after writing it to the local cache if the
\* local value the call started from was older.  A full local cache turns the
\* result into an error.
ReturnValue(c, r) ==
    LET n == gets[c].node IN
    \/ /\ IF gets[c].local < r THEN Insert(n, r) ELSE UNCHANGED <<store, used>>
       /\ Return(c, r)
       /\ acked' = IF r > acked THEN r ELSE acked
    \/ /\ gets[c].local < r
       /\ InsertFails(n, r)
       /\ Return(c, Failed)
       /\ UNCHANGED acked

\* The answer of n is decisive.  It does not matter whether it is the first
\* or the second to arrive: the first one is passed over only if it is not.
GetByOne(c, n) ==
    /\ gets[c].pc = "run"
    /\ n \in Replicas(gets[c].node)
    /\ Decisive(gets[c].local, gets[c].resp[n])
    /\ IF gets[c].resp[n] = None
       THEN Return(c, None) /\ UNCHANGED <<store, used, acked>>
       ELSE ReturnValue(c, gets[c].resp[n])
    /\ UNCHANGED <<down, gen, puts, wire, warms>>
    /\ Forget

\* Both answers are there and neither is decisive: the replicas agree with
\* each other, or there is no quorum.
GetByBoth(c) ==
    LET R == Replicas(gets[c].node)
        A == {gets[c].resp[n] : n \in R}
    IN
    /\ gets[c].pc = "run"
    /\ \A a \in A : a # Waiting /\ ~Decisive(gets[c].local, a)
    /\ \/ A = {None} /\ Return(c, None) /\ UNCHANGED <<store, used, acked>>
       \/ \E r \in Gen : A = {r} /\ ReturnValue(c, r)
       \/ /\ \A a \in {None} \cup Gen : A # {a}
          /\ Return(c, Failed)
          /\ UNCHANGED <<store, used, acked>>
    /\ UNCHANGED <<down, gen, puts, wire, warms>>
    /\ Forget

-----------------------------------------------------------------------------
(* warm *)

\* `warm` lists the generations of one replica.
WarmList(n, peer) ==
    /\ n \in Warming \ down
    /\ warms[n].pc = "idle"
    /\ peer \in Replicas(n) \ down
    /\ store[peer] # None
    /\ warms' = [warms EXCEPT ![n] = [pc |-> "listed", peer |-> peer, gen |-> store[peer]]]
    /\ UNCHANGED <<store, used, down, gen, puts, wire, gets, acked, crossed>>

\* `warm` lists the values of the other replica; only a value of the same
\* generation that is small enough to be inlined is kept.
WarmFetch(n, peer) ==
    /\ warms[n].pc = "listed"
    /\ peer \in Replicas(n) \ (down \cup {warms[n].peer})
    /\ store[peer] = warms[n].gen
    /\ warms' = [warms EXCEPT ![n].pc = "fetched"]
    /\ UNCHANGED <<store, used, down, gen, puts, wire, gets, acked, crossed>>

\* `warm` inserts the value it has fetched.
WarmInsert(n) ==
    /\ warms[n].pc = "fetched"
    /\ Insert(n, warms[n].gen)
    /\ warms' = [warms EXCEPT ![n] = NoWarm]
    /\ UNCHANGED <<down, gen, puts, wire, gets, acked>>
    /\ Forget

\* `warm` ends without inserting: a replica cannot be listed, the generations
\* differ, the value is not inlined, or the local cache is full.
WarmSkip(n) ==
    /\ warms[n].pc # "idle"
    /\ warms' = [warms EXCEPT ![n] = NoWarm]
    /\ UNCHANGED <<store, used, down, gen, puts, wire, gets, acked>>
    /\ Forget

-----------------------------------------------------------------------------
(* Loss of entries *)

\* A pass of `evict_unused` on n.
EvictUnused(n) ==
    /\ n \in Evicting \ down
    /\ store[n] # None
    /\ InTime(n)
    /\ Timely => ~WarmLive(n)
    /\ used' = [used EXCEPT ![n] = FALSE]
    /\ store' = IF used[n] THEN store ELSE [store EXCEPT ![n] = None]
    /\ UNCHANGED <<down, gen, puts, wire, gets, warms, acked>>
    /\ Cross(n)

\* Node n goes down: its cache is empty and its calls are gone.
Crash(n) ==
    /\ n \in Crashing \ down
    /\ down' = down \cup {n}
    /\ store' = [store EXCEPT ![n] = None]
    /\ used' = [used EXCEPT ![n] = FALSE]
    /\ puts' = [g \in Gen |-> IF puts[g].node = n THEN PutDone ELSE puts[g]]
    /\ gets' = [c \in Reader |-> IF gets[c].node = n THEN NoGet ELSE gets[c]]
    /\ warms' = [warms EXCEPT ![n] = NoWarm]
    /\ UNCHANGED <<gen, wire, acked>>
    /\ Cross(n)

\* Node n is back, with an empty cache.
Recover(n) ==
    /\ n \in down
    /\ InTime(n)
    /\ down' = down \ {n}
    /\ UNCHANGED <<store, used, gen, puts, wire, gets, warms, acked, crossed>>

-----------------------------------------------------------------------------

PutStep(g) ==
    \/ PutLocal(g) \/ PutLocalFails(g)
    \/ \E n \in Node :
        ServePut(g, n) \/ ServePutFails(g, n) \/ LosePut(g, n) \/ TimeoutPut(g, n)

GetStep(c) ==
    \/ GetByBoth(c)
    \/ \E n \in Node : GetStart(c, n) \/ ServeGet(c, n) \/ FailGet(c, n) \/ GetByOne(c, n)

WarmStep(n) ==
    \/ WarmInsert(n) \/ WarmSkip(n)
    \/ \E peer \in Node : WarmList(n, peer) \/ WarmFetch(n, peer)

Next ==
    \/ \E n \in Node : PutBegin(n)
    \/ \E g \in Gen : PutStep(g)
    \/ \E c \in Reader : GetStep(c)
    \/ \E n \in Node : WarmStep(n)
    \/ \E n \in Node : EvictUnused(n) \/ Crash(n) \/ Recover(n)

Spec == Init /\ [][Next]_vars

-----------------------------------------------------------------------------
(* Properties *)

PutState == [pc : {"none", "begun", "run", "done"}, node : Node \cup {Nobody},
             reply : [Node -> {"wait", "err"}]]
GetState == [pc : {"idle", "run", "done"}, node : Node \cup {Nobody},
             local : {None} \cup Gen, floor : {None} \cup Gen,
             resp : [Node -> Answer], result : {Failed, None} \cup Gen]
WarmState == [pc : {"idle", "listed", "fetched"}, peer : Node \cup {Nobody},
              gen : {None} \cup Gen]

\* Type invariant: a call has a node exactly while it is under way.
TypeOK ==
    /\ store \in [Node -> {None} \cup Gen]
    /\ used \in [Node -> BOOLEAN]
    /\ down \subseteq Node
    /\ gen \in 0 .. MaxGen
    /\ puts \in [Gen -> PutState]
    /\ wire \subseteq Gen \X Node
    /\ gets \in [Reader -> GetState]
    /\ warms \in [Node -> WarmState]
    /\ acked \in {None} \cup Gen
    /\ crossed \subseteq Ops \X Node
    /\ \A g \in Gen : puts[g].node # Nobody <=> puts[g].pc \in {"begun", "run"}
    /\ \A c \in Reader : gets[c].node # Nobody <=> gets[c].pc = "run"

\* Strong consistency: a get that returns a value returns one that is at
\* least as new as every value a put or get had returned, on any node, before
\* it started.  (A get that returns None or an error makes its caller ask the
\* backing catalog or try again.)
StrongReads ==
    \A c \in Reader :
        gets[c].pc = "done" /\ gets[c].result \in Gen => gets[c].result >= gets[c].floor

\* Behind the strong consistency: at most one node holds a value that is older
\* than what a call has returned, so that no two nodes ever agree on it.
OneStaleNode ==
    \A m, n \in Node :
        /\ store[m] # None /\ store[m] < acked
        /\ store[n] # None /\ store[n] < acked
        => m = n
=============================================================================
