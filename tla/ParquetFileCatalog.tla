------------------------ MODULE ParquetFileCatalog --------------------------
(***************************************************************************)
(* The parquet files of a partition in the catalog, as kept by the         *)
(* in-memory catalog (iox_catalog/src/mem.rs), and the clients that commit *)
(* to them: writers that register a new file, and compactors that read the *)
(* list of active files and later replace some of them by one file, and    *)
(* upgrade the level of others.  Between reading and committing the list   *)
(* changes under the client: other clients commit, files are flagged by    *)
(* retention, and flagged rows are removed.                                *)
(*                                                                         *)
(* What is in a file is abstracted to the set of batches it holds.  The    *)
(* rows are a set: nothing depends on their order in the Vec, and the      *)
(* clients name them by object store id.                                   *)
(***************************************************************************)
EXTENDS Integers, FiniteSets

CONSTANTS
    ObjectStoreId,   \* object store ids (UUIDs)
    Batch,           \* what is written
    Client,          \* writers and compactors, each with one commit at a time
    MaxTime,         \* bound on the clock
    Cutoff,          \* age at which flagged rows are removed
    MaxSelected,     \* MAX_PARQUET_FILES_SELECTED_ONCE_FOR_RETENTION
    NoTime           \* a file that is not flagged, to_delete = None

ASSUME CatalogAssumption ==
    /\ MaxTime \in Nat
    /\ Cutoff \in Nat
    /\ MaxSelected \in Nat \ {0}
    /\ NoTime \notin Nat

VARIABLES
    now,        \* time_provider.now()
    files,      \* MemCollections::parquet_files
    plans,      \* the commit each client prepares
    used,       \* history: object store ids drawn by clients
    written,    \* history: batches whose commit took effect
    expired,    \* history: batches flagged by retention
    removed     \* history: object store ids whose rows were removed

vars == <<now, files, plans, used, written, expired, removed>>

Level == 0 .. 1
Row == [object_store_id : ObjectStoreId, level : Level,
        to_delete : Nat \cup {NoTime}, data : SUBSET Batch]

\* A commit: the files to delete and to upgrade, the file to create, and, when
\* the client has tried and does not know the outcome, the time of the attempt.
Planned(D, U, C) == [pc |-> "planned", delete |-> D, upgrade |-> U, create |-> C, since |-> NoTime]
Idle == [pc |-> "idle", delete |-> {}, upgrade |-> {}, create |-> {}, since |-> NoTime]

Init ==
    /\ now = 0
    /\ files = {}
    /\ plans = [c \in Client |-> Idle]
    /\ used = {}
    /\ written = {}
    /\ expired = {}
    /\ removed = {}

IdsOf(rows) == {r.object_store_id : r \in rows}

\* list_by_partition_not_to_delete_batch and exists_by_object_store_id_batch
Active(fs) == {r \in fs : r.to_delete = NoTime}
Exists(ids) == ids \cap IdsOf(files)

-----------------------------------------------------------------------------
(* create_upgrade_delete.  Each helper yields the set of the collection it *)
(* returns: no element when it fails.                                      *)

FlagRow(r, ids) == IF r.object_store_id \in ids THEN [r EXCEPT !.to_delete = now] ELSE r
Flagged(fs, ids) == {FlagRow(r, ids) : r \in fs}

\* A helper that does not look whether the files are flagged already.
FlagAgain(fs, ids) == {g \in {Flagged(fs, ids)} : ids \subseteq IdsOf(fs)}

\* flag_for_delete, for each file to delete: a file that does not exist or is
\* flagged already is an error.
FlagForDelete(fs, ids) == {g \in {Flagged(fs, ids)} : ids \subseteq IdsOf(Active(fs))}

UpgradeRow(r, ids) == IF r.object_store_id \in ids THEN [r EXCEPT !.level = 1] ELSE r
Upgraded(fs, ids) == {UpgradeRow(r, ids) : r \in fs}

\* update_compaction_level: all files must exist and not be flagged.
UpdateCompactionLevel(fs, ids) ==
    {g \in {Upgraded(fs, ids)} : ids \subseteq IdsOf(Active(fs))}

NewRow(f) == [object_store_id |-> f.object_store_id, level |-> 0,
              to_delete |-> NoTime, data |-> f.data]

\* create_parquet_file, for the file to create, if there is one: its object
\* store id must not exist.
CreateParquetFile(fs, new) ==
    {g \in {fs \cup {NewRow(f) : f \in new}} : IdsOf(new) \cap IdsOf(fs) = {}}

\* What the helpers, in this order, make of the collections.
CreateUpgradeDelete(D, U, C) ==
    UNION {UNION {CreateParquetFile(u, C) : u \in UpdateCompactionLevel(f, U)} :
               f \in FlagForDelete(files, D)}

-----------------------------------------------------------------------------
(* Clients.                                                                *)

\* A writer has uploaded a file, and is going to register it.
PlanWrite(c, o, b) ==
    /\ plans[c].pc = "idle"
    /\ o \notin used
    /\ b \notin written
    /\ \A d \in Client : \A f \in plans[d].create : b \notin f.data
    /\ plans' = [plans EXCEPT ![c] = Planned({}, {}, {[object_store_id |-> o, data |-> {b}]})]
    /\ used' = used \cup {o}
    /\ UNCHANGED <<now, files, written, expired, removed>>

\* A compactor has read the active files, has written what the files of R hold
\* to a new file, and is going to replace them by it; it upgrades those of U.
PlanCompact(c, o, R, U) ==
    /\ plans[c].pc = "idle"
    /\ o \notin used
    /\ R # {} /\ R \cap U = {}
    /\ plans' = [plans EXCEPT ![c] =
                    Planned(IdsOf(R), IdsOf(U),
                            {[object_store_id |-> o, data |-> UNION {r.data : r \in R}]})]
    /\ used' = used \cup {o}
    /\ UNCHANGED <<now, files, written, expired, removed>>

\* A client that gives up on an error of its commit.
Forgets(c) == plans' = [plans EXCEPT ![c] = Idle]

\* A commit without the copy: what was flagged before the error stays flagged.
CommitUnstaged(c) ==
    LET p == plans[c]
        done == CreateUpgradeDelete(p.delete, p.upgrade, p.create)
    IN  /\ p.pc = "planned"
        /\ done = {}
        /\ \E f \in FlagForDelete(files, p.delete) : files' = f
        /\ Forgets(c)
        /\ UNCHANGED <<now, used, written, expired, removed>>

\* The commit fails: the copy of the collections is dropped.
CommitFails(c) ==
    LET p == plans[c]
    IN  /\ p.pc = "planned"
        /\ CreateUpgradeDelete(p.delete, p.upgrade, p.create) = {}
        /\ Forgets(c)
        /\ UNCHANGED <<now, files, used, written, expired, removed>>

\* The commit takes effect.  The client may not learn of it, and try again.
Commit(c) ==
    LET p == plans[c]
    IN  /\ p.pc = "planned"
        /\ \E f \in CreateUpgradeDelete(p.delete, p.upgrade, p.create) : files' = f
        /\ \/ Forgets(c)
           \/ p.since = NoTime /\ plans' = [plans EXCEPT ![c].since = now]
        /\ written' = written \cup UNION {f.data : f \in p.create}
        /\ UNCHANGED <<now, used, expired, removed>>

-----------------------------------------------------------------------------
(* Retention and removal, called by the garbage collector.                 *)

\* flag_for_delete_by_retention flags files that hold only expired data, at
\* most MaxSelected at a time.  Which files those are depends on their times.
FlagForDeleteByRetention(R) ==
    /\ R # {} /\ Cardinality(R) <= MaxSelected
    /\ files' = Flagged(files, IdsOf(R))
    /\ expired' = expired \cup UNION {r.data : r \in R}
    /\ UNCHANGED <<now, plans, used, written, removed>>

OldRow(r) == r.to_delete # NoTime /\ r.to_delete < now - Cutoff

\* A removal that does not wait for the cutoff.
DeleteFlagged ==
    /\ files' = Active(files)
    /\ files' # files
    /\ removed' = removed \cup IdsOf(files \ Active(files))
    /\ UNCHANGED <<now, plans, used, written, expired>>

\* delete_old_ids_only removes all rows flagged before the cutoff.
DeleteOldIdsOnly ==
    LET old == {r \in files : OldRow(r)}
    IN  /\ old # {}
        /\ files' = files \ old
        /\ removed' = removed \cup IdsOf(old)
        /\ UNCHANGED <<now, plans, used, written, expired>>

\* Time passes.  Clients repeat a commit for no longer than Cutoff, days by default.
Tick ==
    /\ now < MaxTime
    /\ \A c \in Client : plans[c].since # NoTime => now < plans[c].since + Cutoff
    /\ now' = now + 1
    /\ UNCHANGED <<files, plans, used, written, expired, removed>>

Next ==
    \/ \E c \in Client :
        \/ \E o \in ObjectStoreId :
            \/ \E b \in Batch : PlanWrite(c, o, b)
            \/ \E R, U \in SUBSET Active(files) : PlanCompact(c, o, R, U)
        \/ Commit(c)
        \/ CommitFails(c)
    \/ \E R \in SUBSET Active(files) : FlagForDeleteByRetention(R)
    \/ DeleteOldIdsOnly
    \/ Tick

Spec == Init /\ [][Next]_vars

-----------------------------------------------------------------------------
(* Properties.                                                             *)

Holding(b) == {r \in Active(files) : b \in r.data}

\* create_upgrade_delete: a compactor that plans on an old list of files, or
\* repeats a commit, never makes the data of a file visible twice.
NoDataTwice == \A b \in Batch : Cardinality(Holding(b)) <= 1

\* ... and no written data disappears from the active files, whatever commits
\* fail, other than by retention.
NoDataLost == \A b \in written \ expired : Holding(b) # {}

\* A row removed by delete_old_ids_only does not come back.
RemovedForGood == removed \cap IdsOf(files) = {}
=============================================================================
