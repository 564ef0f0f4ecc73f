------------------------- MODULE GarbageCollector ---------------------------
(***************************************************************************)
(* The garbage collector (garbage_collector/src): five tasks that delete   *)
(* objects without a catalog row from the object store, remove catalog     *)
(* rows flagged for deletion long enough ago, and flag rows by retention.  *)
(* Lister, checker and deleter are a pipeline over two bounded channels;   *)
(* writers, who upload an object first and register it in the catalog      *)
(* later, and compactors, who flag rows, run beside them.                  *)
(***************************************************************************)
EXTENDS Integers, Sequences, FiniteSets

CONSTANTS
    Object,            \* locations in the object store
    MaxClock,          \* bound on the clock
    ObjectCutoff,      \* objectstore_cutoff
    FileCutoff,        \* parquetfile_cutoff
    CommitDelay,       \* a writer registers its object within this time
    Buffer,            \* BUFFER_SIZE of the two channels
    BatchSize          \* CATALOG_BATCH_SIZE

ASSUME CollectorAssumption ==
    /\ {MaxClock, ObjectCutoff, FileCutoff, CommitDelay} \subseteq Nat
    /\ CommitDelay < ObjectCutoff
    /\ {Buffer, BatchSize} \subseteq Nat \ {0}

VARIABLES
    dryRun,      \* dry_run, from the configuration
    failing,     \* whether the catalog and the object store may return errors
    junk,        \* the objects that are not <uuid>.parquet
    clock,       \* the current time
    store,       \* object store: "never", "present" or "gone"
    mtime,       \* last_modified of each object
    row,         \* catalog row: "none", "active", "flagged" or "removed"
    flaggedAt,   \* to_delete of each row
    listing,     \* lister: the objects of the current listing still to send
    found,       \* channel from lister to checker
    batch,       \* checker: the batch it fills, or works on
    doomed,      \* checker: the result of should_delete still to send
    checking,    \* checker: "receive", "query" or "send"
    condemned,   \* channel from checker to deleter
    tasks,       \* state of each task: "running", "ok" or "err"
    shutdown     \* the CancellationToken

config == <<dryRun, failing, junk>>
catalog == <<row, flaggedAt>>
objects == <<store, mtime>>
checker == <<batch, doomed, checking>>
collectorVars ==
    <<dryRun, failing, junk, clock, store, mtime, row, flaggedAt, listing, found, batch, doomed,
      checking, condemned, tasks, shutdown>>

Task == {"lister", "checker", "deleter", "remover", "flagger"}
Runs(t) == tasks[t] = "running"
Ends(t, result) == tasks' = [tasks EXCEPT ![t] = result]

CollectorInit ==
    /\ dryRun \in BOOLEAN
    /\ failing \in BOOLEAN
    /\ junk \in SUBSET Object
    /\ clock = 0
    /\ store = [o \in Object |-> "never"]
    /\ mtime = [o \in Object |-> 0]
    /\ row = [o \in Object |-> "none"]
    /\ flaggedAt = [o \in Object |-> 0]
    /\ listing = {}
    /\ found = << >>
    /\ batch = << >>
    /\ doomed = << >>
    /\ checking = "receive"
    /\ condemned = << >>
    /\ tasks = [t \in Task |-> "running"]
    /\ shutdown = FALSE

-----------------------------------------------------------------------------
(* Writers, compactors and time.                                           *)

Upload(o) ==
    /\ store[o] = "never"
    /\ store' = [store EXCEPT ![o] = "present"]
    /\ mtime' = [mtime EXCEPT ![o] = clock]
    /\ UNCHANGED <<config, clock, catalog, listing, found, checker, condemned, tasks, shutdown>>

Register(o) ==
    /\ store[o] # "never" /\ o \notin junk
    /\ row[o] = "none"
    /\ clock <= mtime[o] + CommitDelay
    /\ row' = [row EXCEPT ![o] = "active"]
    /\ UNCHANGED <<config, clock, objects, flaggedAt, listing, found, checker, condemned, tasks, shutdown>>

Flag(R) ==
    /\ row' = [o \in Object |-> IF o \in R THEN "flagged" ELSE row[o]]
    /\ flaggedAt' = [o \in Object |-> IF o \in R THEN clock ELSE flaggedAt[o]]

Compact(o) ==
    /\ row[o] = "active"
    /\ Flag({o})
    /\ UNCHANGED <<config, clock, objects, listing, found, checker, condemned, tasks, shutdown>>

ClockTicks ==
    /\ clock < MaxClock
    /\ clock' = clock + 1
    /\ UNCHANGED <<config, catalog, objects, listing, found, checker, condemned, tasks, shutdown>>

-----------------------------------------------------------------------------
(* Retention flagger and parquet file deleter.  An error ends the task.    *)

FlagByRetention(R) ==
    /\ Runs("flagger")
    /\ ~dryRun
    /\ R # {}
    /\ \A o \in R : row[o] = "active"
    /\ Flag(R)
    /\ UNCHANGED <<config, clock, objects, listing, found, checker, condemned, tasks, shutdown>>

RowIsOld(o) == row[o] = "flagged" /\ flaggedAt[o] < clock - FileCutoff

\* A remover that does not wait for the cutoff.
RemoveFlagged ==
    /\ Runs("remover")
    /\ row' = [o \in Object |-> IF row[o] = "flagged" THEN "removed" ELSE row[o]]
    /\ row' # row
    /\ UNCHANGED <<config, clock, objects, flaggedAt, listing, found, checker, condemned, tasks, shutdown>>

\* delete_old_ids_only: the rows flagged before the cutoff.
RemoveRows ==
    /\ Runs("remover")
    /\ row' = [o \in Object |-> IF RowIsOld(o) THEN "removed" ELSE row[o]]
    /\ row' # row
    /\ UNCHANGED <<config, clock, objects, flaggedAt, listing, found, checker, condemned, tasks, shutdown>>

\* An error of the catalog ends the task.
CatalogTaskFails(t) ==
    /\ failing
    /\ t \in {"remover", "flagger"}
    /\ Runs(t)
    /\ t = "flagger" => ~dryRun
    /\ Ends(t, "err")
    /\ UNCHANGED <<config, clock, catalog, objects, listing, found, checker, condemned, shutdown>>
-----------------------------------------------------------------------------
(* Lister: list the store, send what is listed, sleep, list again.         *)

List ==
    /\ Runs("lister")
    /\ listing = {}
    /\ listing' = {o \in Object : store[o] = "present"}
    /\ listing' # {}
    /\ UNCHANGED <<config, clock, catalog, objects, found, checker, condemned, tasks, shutdown>>

\* Sending waits for room in the channel; when the checker is gone it fails,
\* and the lister leaves the listing and goes on.
ListSend(o) ==
    /\ Runs("lister")
    /\ o \in listing
    /\ \/ /\ Runs("checker") /\ Len(found) < Buffer
          /\ found' = Append(found, o)
          /\ listing' = listing \ {o}
       \/ /\ ~Runs("checker")
          /\ listing' = {}
          /\ UNCHANGED found
    /\ UNCHANGED <<config, clock, catalog, objects, checker, condemned, tasks, shutdown>>

ListFails ==
    /\ failing
    /\ Runs("lister")
    /\ listing # {}
    /\ listing' = {}
    /\ UNCHANGED <<config, clock, catalog, objects, found, checker, condemned, tasks, shutdown>>

-----------------------------------------------------------------------------
(* Checker: collect a batch, drop what is too new, ask the catalog which   *)
(* of the rest exist, send the others to the deleter.                      *)

Receive ==
    /\ Runs("checker")
    /\ checking = "receive" /\ Len(batch) < BatchSize
    /\ found # << >>
    /\ batch' = Append(batch, Head(found))
    /\ found' = Tail(found)
    /\ UNCHANGED <<config, clock, catalog, objects, listing, doomed, checking, condemned, tasks, shutdown>>

\* An age that is compared wrongly.
TooOld(o) == mtime[o] < clock - ObjectCutoff

OldEnough(o) == mtime[o] <= clock - ObjectCutoff

\* The elements of s that are in T, in their order.
Kept(s, T) ==
    LET kept[i \in 0 .. Len(s)] ==
            IF i = 0 THEN << >>
            ELSE IF s[i] \in T THEN Append(kept[i - 1], s[i]) ELSE kept[i - 1]
    IN  kept[Len(s)]

\* The batch is full, or nothing was received for RECEIVE_TIMEOUT: the cutoff
\* is computed and the age of the objects compared with it.
CheckAge ==
    /\ Runs("checker")
    /\ checking = "receive"
    /\ Len(batch) = BatchSize \/ (found = << >> /\ batch # << >>)
    /\ batch' = Kept(batch, {o \in Object : OldEnough(o)})
    /\ checking' = "query"
    /\ UNCHANGED <<config, clock, catalog, objects, listing, found, doomed, condemned, tasks, shutdown>>

NotInCatalog(o) == o \notin junk /\ row[o] \in {"none", "removed"}

\* A failed query is taken for an empty answer.
QueryErrorIsAbsence ==
    /\ Runs("checker")
    /\ checking = "query"
    /\ \/ doomed' = Kept(batch, junk) \o Kept(batch, {o \in Object : NotInCatalog(o)})
       \/ failing /\ doomed' = Kept(batch, junk) \o Kept(batch, Object \ junk)
    /\ batch' = << >>
    /\ checking' = "send"
    /\ UNCHANGED <<config, clock, catalog, objects, listing, found, condemned, tasks, shutdown>>

\* should_delete yields the junk, then what is not in the catalog.  The query,
\* exists_by_object_store_id_batch, knows every row, flagged ones included; when
\* it fails, all that was asked for is assumed to exist.
Query ==
    /\ Runs("checker")
    /\ checking = "query"
    /\ \/ doomed' = Kept(batch, junk) \o Kept(batch, {o \in Object : NotInCatalog(o)})
       \/ failing /\ doomed' = Kept(batch, junk)
    /\ batch' = << >>
    /\ checking' = "send"
    /\ UNCHANGED <<config, clock, catalog, objects, listing, found, condemned, tasks, shutdown>>

\* A checker that waits for room although the deleter is gone.
CheckerWaits ==
    /\ Runs("checker")
    /\ checking = "send" /\ doomed # << >>
    /\ Len(condemned) < Buffer
    /\ Runs("deleter")
    /\ condemned' = Append(condemned, Head(doomed))
    /\ doomed' = Tail(doomed)
    /\ UNCHANGED <<config, clock, catalog, objects, listing, found, batch, checking, tasks, shutdown>>

\* Sending fails, and ends the checker, when the deleter is gone.
CheckerSend ==
    /\ Runs("checker")
    /\ checking = "send" /\ doomed # << >>
    /\ \/ /\ Runs("deleter") /\ Len(condemned) < Buffer
          /\ condemned' = Append(condemned, Head(doomed))
          /\ doomed' = Tail(doomed)
          /\ UNCHANGED <<found, tasks>>
       \/ /\ ~Runs("deleter")
          /\ Ends("checker", "err")
          /\ found' = << >> /\ doomed' = << >>
          /\ UNCHANGED condemned
    /\ UNCHANGED <<config, clock, catalog, objects, listing, batch, checking, shutdown>>

\* All is sent, the next batch begins.
CheckerNext ==
    /\ Runs("checker")
    /\ checking = "send" /\ doomed = << >>
    /\ checking' = "receive"
    /\ UNCHANGED <<config, clock, catalog, objects, listing, found, batch, doomed, condemned, tasks, shutdown>>

\* The lister is gone and the channel is drained.
CheckerClosed ==
    /\ Runs("checker")
    /\ checking = "receive" /\ found = << >> /\ ~Runs("lister")
    /\ Len(batch) < BatchSize
    /\ Ends("checker", "err")
    /\ batch' = << >>
    /\ UNCHANGED <<config, clock, catalog, objects, listing, found, doomed, checking, condemned, shutdown>>

-----------------------------------------------------------------------------
(* Deleter: delete the objects of a stream; the first error ends it.       *)

DeleterEnds(result) ==
    /\ Ends("deleter", result)
    /\ condemned' = << >>

Delete ==
    /\ Runs("deleter")
    /\ condemned # << >>
    /\ LET o == Head(condemned)
       IN  \/ /\ dryRun
              /\ condemned' = Tail(condemned)
              /\ UNCHANGED <<store, tasks>>
           \/ /\ ~dryRun
              /\ store' = [store EXCEPT ![o] = "gone"]
              /\ condemned' = Tail(condemned)
              /\ UNCHANGED tasks
           \/ /\ ~dryRun
              /\ failing
              /\ DeleterEnds("err")
              /\ UNCHANGED store
    /\ UNCHANGED <<config, clock, catalog, mtime, listing, found, checker, shutdown>>

DeleterClosed ==
    /\ Runs("deleter")
    /\ condemned = << >> /\ ~Runs("checker")
    /\ DeleterEnds("ok")
    /\ UNCHANGED <<config, clock, catalog, objects, listing, found, checker, shutdown>>

-----------------------------------------------------------------------------
(* Shutdown: every task has a branch that ends it once it is cancelled.    *)

Shutdown ==
    /\ ~shutdown
    /\ shutdown' = TRUE
    /\ UNCHANGED <<config, clock, catalog, objects, listing, found, checker, condemned, tasks>>

Cancelled(t) ==
    /\ shutdown
    /\ Runs(t)
    /\ Ends(t, "ok")
    /\ listing' = IF t = "lister" THEN {} ELSE listing
    /\ found' = IF t = "checker" THEN << >> ELSE found
    /\ batch' = IF t = "checker" THEN << >> ELSE batch
    /\ doomed' = IF t = "checker" THEN << >> ELSE doomed
    /\ condemned' = IF t = "deleter" THEN << >> ELSE condemned
    /\ UNCHANGED <<config, clock, catalog, objects, checking, shutdown>>

-----------------------------------------------------------------------------
Pipeline ==
    \/ List \/ (\E o \in Object : ListSend(o))
    \/ Receive \/ CheckAge \/ Query \/ CheckerSend \/ CheckerNext \/ CheckerClosed
    \/ Delete \/ DeleterClosed

CollectorNext ==
    \/ \E o \in Object : Upload(o) \/ Register(o) \/ Compact(o)
    \/ ClockTicks
    \/ \E R \in SUBSET Object : FlagByRetention(R)
    \/ RemoveRows
    \/ \E t \in Task : CatalogTaskFails(t) \/ Cancelled(t)
    \/ ListFails
    \/ Pipeline
    \/ Shutdown

CollectorSpec == CollectorInit /\ [][CollectorNext]_collectorVars

\* Every task is scheduled by the runtime, and time passes.
Fairness ==
    /\ WF_collectorVars(List \/ \E o \in Object : ListSend(o))
    /\ WF_collectorVars(Receive \/ CheckAge \/ Query \/ CheckerSend \/ CheckerNext \/ CheckerClosed)
    /\ WF_collectorVars(Delete \/ DeleterClosed)
    /\ WF_collectorVars(RemoveRows)
    /\ WF_collectorVars(ClockTicks)

FairSpec == CollectorSpec /\ Fairness

-----------------------------------------------------------------------------
(* Properties.                                                             *)

\* The checker and deleter: an object whose row is in the catalog, flagged or
\* not, is in the object store, although the catalog is asked long before the
\* object is deleted and rows are registered after their object is uploaded.
RowsHaveObjects ==
    \A o \in Object : row[o] \in {"active", "flagged"} => store[o] = "present"

\* parquetfile_cutoff: a query that planned on a file before the file was
\* flagged can read its object for that long.
FlaggedObjectsStay ==
    \A o \in Object :
        row[o] \in {"flagged", "removed"} /\ clock <= flaggedAt[o] + FileCutoff
            => store[o] = "present"

\* objectstore_cutoff: an object that is old enough and not, or no longer, in the
\* catalog is deleted, unless the collector is stopped or calls fail.
Garbage(o) ==
    /\ store[o] = "present"
    /\ row[o] \in {"none", "removed"}
    /\ mtime[o] + ObjectCutoff <= MaxClock
GarbageIsCollected ==
    ~dryRun /\ ~failing =>
        \A o \in Object : Garbage(o) ~> (~Garbage(o) \/ shutdown)

\* BUFFER_SIZE, os_lister, os_checker, os_deleter: a full channel never stops the
\* collector for good.  Every listed object is passed on or given up, also when the
\* deleter has died and the channels before it are full.
ListingEnds == \A o \in Object : o \in listing ~> o \notin listing
=============================================================================
