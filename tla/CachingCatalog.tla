--------------------------- MODULE CachingCatalog ---------------------------
(***************************************************************************)
(* The caching catalog of iox_catalog/src/cache.rs: partition snapshots    *)
(* of a backing catalog are kept in the replicated cache, whose promise is *)
(* the module StrongCache.  A partition's contents are abstracted to the   *)
(* number of changes committed to it, its version; a snapshot is a         *)
(* generation number and the version it was taken at.                      *)
(*                                                                         *)
(* A call that changes partitions first commits to the backing catalog,    *)
(* then takes a snapshot of each changed partition and puts it into the    *)
(* cache.  These are separate steps, so calls of several callers, on       *)
(* several nodes, interleave between them.                                 *)
(***************************************************************************)
EXTENDS StrongCache, Sequences, FiniteSets

CONSTANTS
    MaxVersion,    \* bound on the changes made to a partition
    MaxSnaps,      \* bound on the snapshots taken of a partition
    Fanout,        \* quorum_fanout: refreshes of a call that run at once
    Failing        \* whether snapshots, puts and gets may fail and callers may leave

Partition == Key
Caller == Client

ASSUME CatalogAssumption ==
    /\ Key \subseteq Nat
    /\ MaxVersion \in Nat
    /\ MaxSnaps \in Nat
    /\ Fanout \in Nat \ {0}
    /\ Failing \in BOOLEAN
    /\ Generation = 1 .. MaxSnaps

VARIABLES
    version,   \* backing catalog: changes committed to each partition
    snaps,     \* backing catalog: version of the g-th snapshot of each partition
    calls,     \* the call each caller is in, or its last one
    known,     \* history: highest version of each partition that a call returned
    lost       \* history: changes of a partition whose call ended without refreshing it

vars == <<floor, offered, reads, version, snaps, calls, known, lost>>

\* A call: todo are the partitions still to refresh and flight the refreshes
\* that run, as pairs of partition and generation.  made holds the version that
\* a change committed, or a read found, of each partition concerned, or 0;
\* need is the version known of a partition when its read began.
None == [p \in Partition |-> 0]
NoCall == [op |-> "none", pc |-> "idle", todo |-> {}, flight |-> {},
           made |-> None, need |-> None]

Busy(c) == calls[c].pc # "idle"

Init ==
    /\ CacheInit
    /\ version = None
    /\ snaps = [p \in Partition |-> << >>]
    /\ calls = [c \in Caller |-> NoCall]
    /\ known = None
    /\ lost = [p \in Partition |-> {}]

-----------------------------------------------------------------------------
(* Calls that change partitions: the backing catalog commits the change.   *)

Commit(c, S) ==
    /\ ~Busy(c)
    /\ \A p \in S : version[p] < MaxVersion
    /\ version' = [p \in Partition |-> IF p \in S THEN version[p] + 1 ELSE version[p]]
    /\ UNCHANGED <<cacheVars, snaps, known, lost>>

Refreshing(S, T) ==
    [op |-> "change", pc |-> "refresh", todo |-> T, flight |-> {},
     made |-> [p \in Partition |-> IF p \in S THEN version[p] + 1 ELSE 0], need |-> None]

\* A change of one partition.  An error of the backing catalog is returned
\* before anything is changed or refreshed.
ChangePartition(c, p) ==
    /\ Commit(c, {p})
    /\ calls' = [calls EXCEPT ![c] = Refreshing({p}, {p})]

CasSortKey(c, p) == ChangePartition(c, p)
RecordSkippedCompaction(c, p) == ChangePartition(c, p)
DeleteSkippedCompactions(c, p) == ChangePartition(c, p)
CreateUpgradeDelete(c, p) == ChangePartition(c, p)

\* The lost update the code's comment warns of: only cached partitions are refreshed.
RetentionOfCached(c, S) ==
    /\ Commit(c, S)
    /\ calls' = [calls EXCEPT ![c] = Refreshing(S, {p \in S : floor[p] # 0})]

\* flag_for_delete_by_retention flags the expired files of any number of
\* partitions and goes on with the partitions it has changed.
FlagForDeleteByRetention(c, S) ==
    /\ Commit(c, S)
    /\ calls' = [calls EXCEPT ![c] = Refreshing(S, S)]

-----------------------------------------------------------------------------
(* refresh_partition: take a snapshot, put it into the cache.              *)

\* Refreshes start in ascending order of partitions, at most Fanout at once.
Startable(c, p) ==
    /\ calls[c].pc = "refresh"
    /\ p \in calls[c].todo
    /\ \A q \in calls[c].todo : p <= q
    /\ Cardinality(calls[c].flight) < Fanout
    /\ Len(snaps[p]) < MaxSnaps

\* The backing catalog counts its snapshots of a partition, in one transaction
\* with reading it; the snapshot then goes into a put with that generation.
RefreshSnapshot(c, p) ==
    LET g == Len(snaps[p]) + 1
        k == calls[c]
    IN  /\ Startable(c, p)
        /\ snaps' = [snaps EXCEPT ![p] = Append(@, version[p])]
        /\ CachePut(p, g)
        /\ calls' = [calls EXCEPT ![c] =
                        [k EXCEPT !.todo = k.todo \ {p}, !.flight = k.flight \cup {<<p, g>>}]]
        /\ UNCHANGED <<version, known, lost>>

\* The put returns Ok.
RefreshDone(c, p, g) ==
    LET k == calls[c]
        found == IF k.op = "get" THEN [k.made EXCEPT ![p] = snaps[p][g]] ELSE k.made
    IN  /\ k.pc = "refresh"
        /\ <<p, g>> \in k.flight
        /\ CachePutOk(p, g)
        /\ calls' = [calls EXCEPT ![c] =
                        [k EXCEPT !.flight = k.flight \ {<<p, g>>}, !.made = found]]
        /\ UNCHANGED <<version, snaps, known, lost>>

Unrefreshed(c) == calls[c].todo \cup {f[1] : f \in calls[c].flight}

\* The call ends without refreshing the partitions of U.
GiveUp(c, U) ==
    /\ calls' = [calls EXCEPT ![c] = NoCall]
    /\ lost' = [p \in Partition |->
                    IF p \in U THEN lost[p] \cup ({calls[c].made[p]} \ {0}) ELSE lost[p]]

\* The error is logged and the call goes on without the partition.
RefreshErrorIgnored(c, p) ==
    /\ Failing
    /\ calls[c].pc = "refresh"
    /\ Startable(c, p)
    /\ calls' = [calls EXCEPT ![c].todo = @ \ {p}]
    /\ UNCHANGED <<cacheVars, version, snaps, known, lost>>

\* A snapshot or a put fails: `?` and try_collect return the error at once and
\* drop the other refreshes of the call, those in flight and those to come.
RefreshFails(c, p) ==
    /\ Failing
    /\ calls[c].pc = "refresh"
    /\ \/ p \in {f[1] : f \in calls[c].flight}
       \/ Startable(c, p)
    /\ GiveUp(c, Unrefreshed(c))
    /\ CacheDrop(c)
    /\ UNCHANGED <<version, snaps, known>>

\* The call has nothing left to refresh and returns Ok.
Complete(c) == calls[c].pc = "refresh" /\ Unrefreshed(c) = {}

Return(c) ==
    /\ Complete(c)
    /\ calls' = [calls EXCEPT ![c] = NoCall]
    /\ known' = [p \in Partition |->
                    IF calls[c].made[p] > known[p] THEN calls[c].made[p] ELSE known[p]]
    /\ CacheDrop(c)
    /\ UNCHANGED <<version, snaps, lost>>

-----------------------------------------------------------------------------
(* get_partition: read the cache, on a miss refresh the partition.         *)

GetPartition(c, p) ==
    /\ ~Busy(c)
    /\ CacheGet(c, p)
    /\ calls' = [calls EXCEPT ![c] =
                    [op |-> "get", pc |-> "read", todo |-> {p}, flight |-> {},
                     made |-> None, need |-> [None EXCEPT ![p] = known[p]]]]
    /\ UNCHANGED <<version, snaps, known, lost>>

Hit(c, p, g) ==
    /\ calls[c].pc = "read"
    /\ p \in calls[c].todo
    /\ CacheHit(c, p, g)
    /\ calls' = [calls EXCEPT ![c] =
                    [calls[c] EXCEPT !.pc = "refresh", !.todo = {},
                                     !.made = [None EXCEPT ![p] = snaps[p][g]]]]
    /\ UNCHANGED <<version, snaps, known, lost>>

GetMisses(c) ==
    /\ calls[c].pc = "read"
    /\ CacheMiss(c)
    /\ calls' = [calls EXCEPT ![c].pc = "refresh"]
    /\ UNCHANGED <<version, snaps, known, lost>>

\* The nodes disagree: get_quorum waits and asks again, without limit.
QuorumError(c) ==
    /\ calls[c].pc = "read"
    /\ CacheError(c)
    /\ calls' = [calls EXCEPT ![c].pc = "backoff"]
    /\ UNCHANGED <<version, snaps, known, lost>>

GetAgain(c, p) ==
    /\ calls[c].pc = "backoff"
    /\ p \in calls[c].todo
    /\ CacheGet(c, p)
    /\ calls' = [calls EXCEPT ![c].pc = "read"]
    /\ UNCHANGED <<version, snaps, known, lost>>

\* Any other error of the cache is returned.
GetFails(c) ==
    /\ Failing
    /\ calls[c].pc = "read"
    /\ CacheDrop(c)
    /\ GiveUp(c, {})
    /\ UNCHANGED <<version, snaps, known>>

\* The caller drops its call, or its node crashes.
Drop(c) ==
    /\ Failing
    /\ Busy(c)
    /\ CacheDrop(c)
    /\ GiveUp(c, Unrefreshed(c))
    /\ UNCHANGED <<version, snaps, known>>

-----------------------------------------------------------------------------
Step(c) ==
    \/ \E p \in Partition :
        \/ RefreshSnapshot(c, p) \/ RefreshFails(c, p) \/ GetAgain(c, p)
        \/ \E g \in Generation : RefreshDone(c, p, g) \/ Hit(c, p, g)
    \/ Return(c) \/ GetMisses(c) \/ QuorumError(c) \/ GetFails(c)

Next ==
    \E c \in Caller :
        \/ \E p \in Partition :
            \/ CasSortKey(c, p) \/ RecordSkippedCompaction(c, p)
            \/ DeleteSkippedCompactions(c, p) \/ CreateUpgradeDelete(c, p)
            \/ GetPartition(c, p)
        \/ \E S \in SUBSET Partition : FlagForDeleteByRetention(c, S)
        \/ Step(c)
        \/ Drop(c)

Spec == Init /\ [][Next]_vars

-----------------------------------------------------------------------------
(* Properties.                                                             *)

\* get_partition and snapshot: a read that returns, from the cache or after a
\* miss, shows every change whose call had returned Ok, and everything any
\* read had returned, when the read began.
ReadsAreCurrent ==
    \A c \in Caller, p \in Partition :
        Complete(c) => calls[c].need[p] <= calls[c].made[p]

CachedVersion(p) == snaps[p][floor[p]]

\* flag_for_delete_by_retention's "lost update" and its like: when no call is
\* running, what the cache answers lacks a committed change of the partition
\* only if the call that made the change ended without refreshing it.
NoLostUpdate ==
    (\A c \in Caller : ~Busy(c)) =>
        \A p \in Partition :
            floor[p] # 0 => CachedVersion(p) + 1 .. version[p] \subseteq lost[p]
=============================================================================
