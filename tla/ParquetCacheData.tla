--------------------------- MODULE ParquetCacheData ---------------------------
(***************************************************************************)
(* The inner layer of a parquet cache server                               *)
(* (src/parquet_cache/src/server/data.rs, data/).  A request for an object *)
(* that is not cached starts a write-back, which copies the object from    *)
(* the object store to a local file and then enters it in the cache        *)
(* manager.  The manager's cache, the moka library, drops entries when it  *)
(* will; its listener hands the key to a task that deletes the file.  The  *)
(* manager counts the bytes it holds, and when they would exceed the       *)
(* capacity a second task drops the entry with the oldest events.          *)
(*                                                                         *)
(* Write-backs, requests and the tasks run on different threads, and any   *)
(* file operation may fail.  Every object has size 1; an object is its     *)
(* event time.                                                             *)
(***************************************************************************)
EXTENDS Integers, Sequences, FiniteSets

CONSTANTS
    Object,         \* the objects, each named by its max_time
    Capacity,       \* PolicyConfig.max_capacity
    MaxWriteBacks,  \* bound: write-backs started
    U64             \* the modulus of current_size, 2^64 in the code

ASSUME DataAssumption ==
    /\ Object \subseteq Nat \ {0}
    /\ Capacity \in Nat
    /\ MaxWriteBacks \in Nat
    /\ U64 \in Nat \ {0}

WriteBack == 1 .. MaxWriteBacks

VARIABLES
    entry,     \* the keys in the moka cache
    size,      \* CacheManager.current_size
    local,     \* local[o]: the local file of o, named by the write-back that
               \* created it, or NoFile
    whole,     \* the files whose contents are complete
    unflushed, \* the files whose last chunk is handed to the runtime: it is still
               \* being written, or was lost
    truncator, \* truncator[f]: the last write-back that opened file f for writing
    job,       \* job[w]: what write-back w does: an object, a step, its file
    started,   \* write-backs started
    leaving,   \* the keys dropped by moka whose listener has not yet sent them
    due,       \* the listeners that have sent their key and not yet subtracted
    evicted,   \* the channel to the deleting task
    reader,    \* the GET /object in progress, or NoJob
    slots,     \* the channel to the heap's inserting task
    heap,      \* the slots in the min-heap, in the order they are popped in
    removals,  \* messages in the channel to the heap's removing task
    oldest,    \* current_min
    remover,   \* "runs" or "panicked"
    repeats,   \* history: insertions that found an entry
    crossed,   \* history: objects written back while written or deleted, or evicted
               \* while written or between a request's lookup and its read
    stray      \* history: objects with a file that an operation that failed left

dataVars == <<entry, size, local, whole, unflushed, truncator, job, started, leaving, due,
              evicted, reader, slots, heap, removals, oldest, remover, repeats, crossed, stray>>

contents == <<whole, unflushed, truncator>>

files == <<local, contents, stray>>

eviction == <<leaving, due, evicted>>

recency == <<slots, heap, removals, oldest, remover>>

NoFile == 0

NoJob == [step |-> "idle"]

DataInit ==
    /\ entry = {}
    /\ size = 0
    /\ local = [o \in Object |-> NoFile]
    /\ whole = {}
    /\ unflushed = {}
    /\ truncator = [f \in WriteBack |-> f]
    /\ job = [w \in WriteBack |-> NoJob]
    /\ started = 0
    /\ leaving = {}
    /\ due = 0
    /\ evicted = <<>>
    /\ reader = NoJob
    /\ slots = <<>>
    /\ heap = <<>>
    /\ removals = 0
    /\ oldest = 0
    /\ remover = "runs"
    /\ repeats = 0
    /\ crossed = {}
    /\ stray = {}

-----------------------------------------------------------------------------
(***************************************************************************)
(* Requests.                                                               *)
(***************************************************************************)
Writing(o) == \E w \in WriteBack : job[w] # NoJob /\ job[w].object = o

Looked(o) == reader.step = "open" /\ reader.object = o

Deleting(o) == o \in leaving \/ \E i \in DOMAIN evicted : evicted[i] = o

\* A GET or a write hint for an object that is not in the cache: write_back.
Miss(o) ==
    /\ o \notin entry
    /\ started < MaxWriteBacks
    /\ started' = started + 1
    /\ job' = [job EXCEPT ![started'] = [step |-> "create", object |-> o]]
    /\ crossed' = crossed \cup IF Writing(o) \/ Deleting(o) THEN {o} ELSE {}
    /\ UNCHANGED <<entry, size, files, eviction, reader, recency, repeats>>

\* A GET /object for one that is: the file is opened, ...
Hit(o) ==
    /\ o \in entry
    /\ reader = NoJob
    /\ reader' = [step |-> "open", object |-> o]
    /\ UNCHANGED <<entry, size, files, job, started, eviction, recency, repeats, crossed>>

\* ... or the read fails if it is not there, ...
Open ==
    /\ reader.step = "open"
    /\ reader' = IF local[reader.object] = NoFile THEN NoJob
                 ELSE [step |-> "read", object |-> reader.object,
                       file |-> local[reader.object]]
    /\ UNCHANGED <<entry, size, files, job, started, eviction, recency, repeats, crossed>>

\* ... and its contents are sent.
ReadStream ==
    /\ reader.step = "read"
    /\ reader' = NoJob
    /\ UNCHANGED <<entry, size, files, job, started, eviction, recency, repeats, crossed>>

-----------------------------------------------------------------------------
(***************************************************************************)
(* write_back.  The object store hands out a stream or a local file.       *)
(***************************************************************************)
\* File::create makes the file, or truncates the one that is there.
Opened(w) == IF local[job[w].object] = NoFile THEN w ELSE local[job[w].object]

OpenForWriting(w) ==
    /\ local' = [local EXCEPT ![job[w].object] = Opened(w)]
    /\ whole' = whole \ {Opened(w)}
    /\ unflushed' = unflushed \ {Opened(w)}
    /\ truncator' = [truncator EXCEPT ![Opened(w)] = w]

\* The entry is made before the file is written.
CreateEnters(w) ==
    /\ job[w].step = "create"
    /\ OpenForWriting(w)
    /\ job' = [job EXCEPT ![w] =
                  [step |-> "write", object |-> job[w].object, file |-> Opened(w)]]
    /\ entry' = entry \cup {job[w].object}
    /\ UNCHANGED <<size, stray, started, eviction, reader, recency, repeats, crossed>>

\* AsyncStoreObject::new.
Create(w) ==
    /\ job[w].step = "create"
    /\ OpenForWriting(w)
    /\ job' = [job EXCEPT ![w] =
                  [step |-> "write", object |-> job[w].object, file |-> Opened(w)]]
    /\ UNCHANGED <<entry, size, stray, started, eviction, reader, recency, repeats, crossed>>

\* The object cannot be had or has another size, the directory or the file cannot
\* be made, the file not moved; or set_len fails, and what was created stays.
CreateFails(w) ==
    /\ job[w].step = "create"
    /\ \/ UNCHANGED files
       \/ OpenForWriting(w) /\ stray' = stray \cup {job[w].object}
    /\ job' = [job EXCEPT ![w] = NoJob]
    /\ UNCHANGED <<entry, size, started, eviction, reader, recency, repeats, crossed>>

\* A file is moved into place.
MoveFileToCache(w) ==
    /\ job[w].step = "create"
    /\ local' = [local EXCEPT ![job[w].object] = w]
    /\ whole' = whole \cup {w}
    /\ job' = [job EXCEPT ![w] = [step |-> "insert", object |-> job[w].object]]
    /\ UNCHANGED <<entry, size, unflushed, truncator, stray, started, eviction, reader,
                   recency, repeats, crossed>>

\* A stream is written.  write_object returns when the last chunk is handed to the
\* runtime: nothing waits for it, ...
Write(w) ==
    /\ job[w].step = "write"
    /\ unflushed' = unflushed \cup {f \in {job[w].file} : truncator[f] = w}
    /\ job' = [job EXCEPT ![w] = [step |-> "insert", object |-> job[w].object]]
    /\ UNCHANGED <<entry, size, local, whole, truncator, stray, started, eviction, reader,
                   recency, repeats, crossed>>

\* ... and it gets to the file some time later, or never if that fails.
Flush(f) ==
    /\ f \in unflushed
    /\ unflushed' = unflushed \ {f}
    /\ whole' = whole \cup {f}
    /\ UNCHANGED <<entry, size, local, truncator, stray, job, started, eviction, reader,
                   recency, repeats, crossed>>

\* remove_file, whose errors are ignored.
Remove(o) ==
    \/ /\ local' = [local EXCEPT ![o] = NoFile]
       /\ UNCHANGED stray
    \/ /\ local[o] # NoFile
       /\ stray' = stray \cup {o}
       /\ UNCHANGED local

\* An earlier chunk, or the stream, fails: whatever file is there is deleted.
WriteFails(w) ==
    /\ job[w].step = "write"
    /\ Remove(job[w].object)
    /\ job' = [job EXCEPT ![w] = NoJob]
    /\ UNCHANGED <<entry, size, contents, started, eviction, reader, recency, repeats, crossed>>

\* Unless there is an entry, should_insert decides on a new one: at capacity, an
\* object older than the oldest is refused, and any other has the removing task
\* drop the oldest.  or_insert serialises this by object.
Full == (size + 1) % U64 > Capacity

Accepts(o) == ~Full \/ oldest <= o

ShouldInsert(w) ==
    /\ job[w].step = "insert"
    /\ LET o == job[w].object
           there == o \in entry
           step == IF there THEN "add" ELSE IF Accepts(o) THEN "slot" ELSE "refused"
       IN  /\ \A v \in WriteBack :
                 job[v].step \in {"slot", "refused"} => job[v].object # o
           /\ job' = [job EXCEPT ![w].step = step]
           /\ repeats' = IF there THEN repeats + 1 ELSE repeats
           /\ removals' = IF step = "slot" /\ Full THEN removals + 1 ELSE removals
    /\ UNCHANGED <<entry, size, files, started, eviction, reader, slots, heap, oldest,
                   remover, crossed>>

\* The entry is made, and a slot for an accepted one sent to the inserting task.
\* A refused one expires at once, which Evict allows.
Insert(w) ==
    /\ job[w].step \in {"slot", "refused"}
    /\ LET o == job[w].object
       IN  /\ entry' = entry \cup {o}
           /\ slots' = IF job[w].step = "slot" THEN Append(slots, o) ELSE slots
    /\ job' = [job EXCEPT ![w].step = "add"]
    /\ UNCHANGED <<size, files, started, eviction, reader, heap, removals, oldest, remover,
                   repeats, crossed>>

\* The size is added, whether or not there was an entry.
Add(w) ==
    /\ job[w].step = "add"
    /\ size' = (size + 1) % U64
    /\ job' = [job EXCEPT ![w] = NoJob]
    /\ UNCHANGED <<entry, files, started, eviction, reader, recency, repeats, crossed>>

-----------------------------------------------------------------------------
(***************************************************************************)
(* moka drops an entry, because it expired, for want of room or because    *)
(* the removing task invalidated it: when it does is the library's affair. *)
(* It runs the listener once at a time for a key.                          *)
(***************************************************************************)
\* The listener is not called.
EvictSilently(o) ==
    /\ o \in entry \ leaving
    /\ entry' = entry \ {o}
    /\ crossed' = crossed \cup IF Writing(o) \/ Looked(o) THEN {o} ELSE {}
    /\ UNCHANGED <<size, files, job, started, eviction, reader, recency, repeats>>

Evict(o) ==
    /\ o \in entry \ leaving
    /\ entry' = entry \ {o}
    /\ leaving' = leaving \cup {o}
    /\ crossed' = crossed \cup IF Writing(o) \/ Looked(o) THEN {o} ELSE {}
    /\ UNCHANGED <<size, files, job, started, due, evicted, reader, recency, repeats>>

\* The listener sends the key.  The channel is not bounded, and is closed only
\* with the deleting task, which ends when the manager is gone: send does not fail.
SendEvicted(o) ==
    /\ o \in leaving
    /\ leaving' = leaving \ {o}
    /\ evicted' = Append(evicted, o)
    /\ due' = due + 1
    /\ UNCHANGED <<entry, size, files, job, started, reader, recency, repeats, crossed>>

\* Then it subtracts the size.
Subtract ==
    /\ due > 0
    /\ due' = due - 1
    /\ size' = (size - 1) % U64
    /\ UNCHANGED <<entry, files, job, started, leaving, evicted, reader, recency, repeats,
                   crossed>>

\* The deleting task.
Delete ==
    /\ evicted # <<>>
    /\ evicted' = Tail(evicted)
    /\ Remove(Head(evicted))
    /\ UNCHANGED <<entry, size, contents, job, started, leaving, due, reader, recency,
                   repeats, crossed>>

\* BinaryHeap::push, with the Ord of Slot.
Push(h, o) ==
    LET n == Cardinality({i \in 1 .. Len(h) : h[i] <= o})
    IN  SubSeq(h, 1, n) \o <<o>> \o SubSeq(h, n + 1, Len(h))

\* The heap's two tasks.  The second panics when the heap is empty.
HeapInsert ==
    /\ slots # <<>>
    /\ slots' = Tail(slots)
    /\ heap' = Push(heap, Head(slots))
    /\ UNCHANGED <<entry, size, files, job, started, eviction, reader, removals, oldest,
                   remover, repeats, crossed>>

HeapRemove ==
    /\ remover = "runs"
    /\ removals > 0
    /\ removals' = removals - 1
    /\ IF heap = <<>>
       THEN /\ remover' = "panicked"
            /\ UNCHANGED <<heap, oldest>>
       ELSE /\ heap' = Tail(heap)
            /\ oldest' = IF heap' = <<>> THEN oldest ELSE Head(heap')
            /\ UNCHANGED remover
    /\ UNCHANGED <<entry, size, files, job, started, eviction, reader, slots, repeats,
                   crossed>>

DataNext ==
    \/ \E o \in Object : Miss(o) \/ Hit(o) \/ Evict(o) \/ SendEvicted(o)
    \/ Open
    \/ ReadStream
    \/ \E w \in WriteBack :
          \/ Create(w) \/ CreateFails(w) \/ MoveFileToCache(w)
          \/ Write(w) \/ WriteFails(w) \/ Flush(w)
          \/ ShouldInsert(w) \/ Insert(w) \/ Add(w)
    \/ Subtract
    \/ Delete
    \/ HeapInsert
    \/ HeapRemove

DataSpec == DataInit /\ [][DataNext]_dataVars

-----------------------------------------------------------------------------
\* The files that are complete, but perhaps for their last chunk.
Filled == whole \cup unflushed

\* Once nothing is being written or deleted for an object, an entry has its file,
\* complete but perhaps for the last chunk, and a file has its entry, unless an
\* operation that failed left it: nothing else will ever delete it.  Objects are
\* excepted whose write-backs overlapped, or of which one overlapped an eviction.
CachedIsStored ==
    \A o \in Object \ crossed :
        ~Writing(o) /\ ~Deleting(o) =>
            /\ o \in entry => local[o] \in Filled
            /\ local[o] # NoFile => o \in entry \/ o \in stray

\* What GET /object sends is the whole object, but perhaps for the last chunk, if
\* none of these overlaps and failures befell the object.
ReadsAreWhole ==
    reader.step = "read" /\ reader.object \notin crossed \cup stray
        => reader.file \in Filled

\* The removing task finds an entry in the heap whenever it is asked to remove
\* one, "should have entry via peek".
RemoverFindsAnEntry == remover # "panicked"

\* current_size counts what is cached, plus what listeners still have to subtract,
\* less what write-backs between their entry and their addition still have to add,
\* and counts again each object that was already there when a second write-back
\* came to insert it: that share is never subtracted.
SizeIsExplained ==
    (size + Cardinality({w \in WriteBack : job[w].step = "add"})) % U64
        = (Cardinality(entry) + Cardinality(leaving) + due + repeats) % U64

\* The removing task panics only if it overtook the slot of an accepted object:
\* one that is in the channel to the inserting task, or that the write-back that
\* asked for the removal has yet to send.
PanicIsExplained ==
    [][remover' # remover =>
          \/ slots # <<>>
          \/ \E w \in WriteBack : job[w].step = "slot"]_dataVars
=============================================================================
