------------------------------- MODULE Wal ----------------------------------
(***************************************************************************)
(* The write-ahead log (wal/src).  Writers push operations into a buffer   *)
(* and wait on its channel; a flusher task swaps the buffer out on every   *)
(* tick and hands it to an I/O thread, which appends it as one entry to    *)
(* the open segment file and tells the writers.  rotate and delete are     *)
(* called from other threads at any time.  A crash loses the memory and    *)
(* leaves the entry being written absent, torn or whole; Wal::new scans    *)
(* the files that are left.                                                *)
(***************************************************************************)
EXTENDS Integers, Sequences, FiniteSets, FiniteSetsExt

CONSTANTS
    MaxOp,         \* bound on the operations written
    MaxRotating,   \* bound on the calls of rotate in progress at once
    MaxSegment,    \* bound on the ids that rotate draws
    MaxCrashes,    \* bound on crashes
    Failing        \* whether file operations may fail

ASSUME WalAssumption ==
    /\ {MaxOp, MaxRotating, MaxSegment, MaxCrashes} \subseteq Nat
    /\ Failing \in BOOLEAN

VARIABLES
    files,       \* ids of the segment files in the directory
    content,     \* the entries of each segment file
    up,          \* whether the process runs
    crashes,     \* number of crashes so far
    nextId,      \* next_id_source
    closed,      \* closed_segments
    open,        \* id of open_segment
    openIds,     \* open_segment_ids
    buffer,      \* ops of the WalBuffer
    sending,     \* the buffer the flusher has swapped out and not yet enqueued
    queue,       \* the channel to the I/O thread
    writing,     \* the batch the I/O thread has received
    io,          \* I/O thread: "running" or "dead"
    fresh,       \* segments that calls of rotate have created and not yet installed
    deleting,    \* segments taken off closed_segments whose file is not removed yet
    told,        \* what each writer knows of its operation
    seg,         \* history: the segment an operation was written to
    acks,        \* history: acknowledged operations, in order
    deleted,     \* history: acknowledged operations of segments given to delete
    overlapped   \* history: two calls of rotate were in progress at once

disk == <<files, content>>
segments == <<closed, open, openIds>>
batches == <<buffer, sending, queue, writing>>
history == <<seg, acks, deleted, overlapped>>
vars == <<files, content, up, crashes, nextId, closed, open, openIds, buffer, sending, queue,
          writing, io, fresh, deleting, told, seg, acks, deleted, overlapped>>

\* Operations are named in the order write_op pushes them.
Op == 1 .. MaxOp
\* rotate draws ids up to MaxSegment; a crash adds a file with a torn header
\* and the restart another segment.
Id == 0 .. (MaxSegment + 1 + 2 * MaxCrashes)
None == -1
\* An entry is the sequence of its operations, which is never empty; an entry,
\* or a file header, that was not written completely is Torn.
Torn == << >>
FlushQueueDepth == 1

Tell(ops, what) == told' = [o \in Op |-> IF o \in ops THEN what ELSE told[o]]
Place(ops, id) == seg' = [o \in Op |-> IF o \in Range(ops) THEN id ELSE seg[o]]

Init ==
    /\ files = {0}
    /\ content = [i \in Id |-> << >>]
    /\ up = TRUE
    /\ crashes = 0
    /\ nextId = 1
    /\ closed = {} /\ open = 0 /\ openIds = {}
    /\ buffer = << >> /\ sending = << >> /\ queue = << >> /\ writing = << >>
    /\ io = "running"
    /\ fresh = {}
    /\ deleting = {}
    /\ told = [o \in Op |-> "unwritten"]
    /\ seg = [o \in Op |-> None]
    /\ acks = << >>
    /\ deleted = {}
    /\ overlapped = FALSE

-----------------------------------------------------------------------------
(* Writers, the flusher and the I/O thread.                                *)

WriteOp(o) ==
    /\ up
    /\ told[o] = "unwritten"
    /\ \A p \in Op : p < o => told[p] # "unwritten"
    /\ told' = [told EXCEPT ![o] = "waiting"]
    /\ buffer' = Append(buffer, o)
    /\ UNCHANGED <<disk, up, crashes, nextId, segments, sending, queue, writing, io, fresh,
                   deleting, history>>

\* A tick of the flusher: an empty buffer is left alone.
Flush ==
    /\ up
    /\ sending = << >> /\ buffer # << >>
    /\ sending' = buffer /\ buffer' = << >>
    /\ UNCHANGED <<disk, up, crashes, nextId, segments, queue, writing, io, fresh, deleting,
                   told, history>>

\* enqueue_batch waits for room.  When the I/O thread is dead it panics: the
\* flusher task ends, still "sending", and the channel of the batch is closed.
Enqueue ==
    /\ up
    /\ sending # << >>
    /\ \/ /\ io = "running" /\ Len(queue) < FlushQueueDepth
          /\ queue' = Append(queue, sending)
          /\ sending' = << >>
          /\ UNCHANGED told
       \/ /\ io = "dead"
          /\ \E o \in Range(sending) : told[o] = "waiting"
          /\ Tell(Range(sending), "closed")
          /\ UNCHANGED <<queue, sending>>
    /\ UNCHANGED <<disk, up, crashes, nextId, segments, buffer, writing, io, fresh, deleting,
                   history>>

Receive ==
    /\ up
    /\ io = "running"
    /\ writing = << >> /\ queue # << >>
    /\ writing' = Head(queue) /\ queue' = Tail(queue)
    /\ UNCHANGED <<disk, up, crashes, nextId, segments, buffer, sending, io, fresh, deleting,
                   told, history>>

\* Under the lock on the segments: the entry is appended and synced, the
\* writers are told, the sequence numbers join those of the segment.
Write ==
    /\ up
    /\ writing # << >>
    /\ content' = [content EXCEPT ![open] = Append(@, writing)]
    /\ Tell(Range(writing), "ok")
    /\ Place(writing, open)
    /\ acks' = acks \o writing
    /\ openIds' = openIds \union Range(writing)
    /\ writing' = << >>
    /\ UNCHANGED <<files, up, crashes, nextId, closed, open, buffer, sending, queue, io, fresh,
                   deleting, deleted, overlapped>>

\* The writers are not told of a failed write.
WriteFailsSilently ==
    /\ up
    /\ Failing
    /\ writing # << >>
    /\ content' \in {content, [content EXCEPT ![open] = Append(@, Torn)]}
    /\ Place(writing, open)
    /\ writing' = << >>
    /\ UNCHANGED <<files, up, crashes, nextId, segments, buffer, sending, queue, io, fresh,
                   deleting, told, acks, deleted, overlapped>>

\* write_all fails, after none or some of the entry is in the file.
WriteFails ==
    /\ up
    /\ Failing
    /\ writing # << >>
    /\ content' \in {content, [content EXCEPT ![open] = Append(@, Torn)]}
    /\ Tell(Range(writing), "err")
    /\ Place(writing, open)
    /\ writing' = << >>
    /\ UNCHANGED <<files, up, crashes, nextId, segments, buffer, sending, queue, io, fresh,
                   deleting, acks, deleted, overlapped>>

\* What an interrupted append may leave in the open segment.
Interrupted(batch) ==
    content' \in {content} \union
        IF batch = << >> THEN {}
        ELSE {[content EXCEPT ![open] = Append(@, e)] : e \in {Torn, batch}}

Queued == UNION {Range(batch) : batch \in Range(queue)}

\* sync_all fails: the I/O thread panics, and drops its batch and its queue.
SyncPanics ==
    /\ up
    /\ Failing
    /\ writing # << >>
    /\ Interrupted(writing)
    /\ Tell(Range(writing) \union Queued, "closed")
    /\ io' = "dead"
    /\ writing' = << >> /\ queue' = << >>
    /\ UNCHANGED <<files, up, crashes, nextId, segments, buffer, sending, fresh, deleting,
                   history>>

-----------------------------------------------------------------------------
(* rotate and delete.                                                      *)

\* new_in_directory, before the lock is taken.
RotateCreate ==
    /\ up
    /\ Cardinality(fresh) < MaxRotating
    /\ nextId <= MaxSegment
    /\ nextId' = nextId + 1
    /\ files' = files \union {nextId}
    /\ content' = [content EXCEPT ![nextId] = << >>]
    /\ fresh' = fresh \union {nextId}
    /\ overlapped' = (overlapped \/ fresh # {})
    /\ UNCHANGED <<up, crashes, segments, batches, io, deleting, told, seg, acks,
                   deleted>>

\* new_in_directory fails: the id is used up, the file may be there without a header.
RotateFails ==
    /\ up
    /\ Failing
    /\ Cardinality(fresh) < MaxRotating
    /\ nextId <= MaxSegment
    /\ nextId' = nextId + 1
    /\ \/ /\ files' = files \union {nextId}
          /\ content' = [content EXCEPT ![nextId] = <<Torn>>]
       \/ UNCHANGED disk
    /\ UNCHANGED <<up, crashes, segments, batches, io, fresh, deleting, told, history>>

\* The set of the closed segment is copied, not taken.
InstallKeepsIds(i) ==
    /\ up
    /\ i \in fresh
    /\ open' = i
    /\ closed' = closed \union {open}
    /\ fresh' = fresh \ {i}
    /\ UNCHANGED <<disk, up, crashes, nextId, openIds, batches, io, deleting, told, seg, acks,
                   deleted, overlapped>>

\* Under the lock: the new segment replaces the open one, whose set is taken.
RotateInstall(i) ==
    /\ up
    /\ i \in fresh
    /\ open' = i
    /\ openIds' = {}
    /\ closed' = closed \union {open}
    /\ fresh' = fresh \ {i}
    /\ UNCHANGED <<disk, up, crashes, nextId, batches, io, deleting, told, seg, acks, deleted,
                   overlapped>>

\* Ops acknowledged in the current incarnation of segment i.
AckedIn(i) == {o \in Op : told[o] = "ok" /\ seg[o] = i} \ deleted

Delete(i) ==
    /\ up
    /\ i \in closed
    /\ closed' = closed \ {i}
    /\ deleting' = deleting \union {i}
    /\ deleted' = deleted \union AckedIn(i)
    /\ UNCHANGED <<disk, up, crashes, nextId, open, openIds, batches, io, fresh, told, seg,
                   acks, overlapped>>

\* remove_file, which may fail: the file stays until the next start finds it.
Unlink(i) ==
    /\ up
    /\ i \in deleting
    /\ deleting' = deleting \ {i}
    /\ \/ /\ files' = files \ {i}
          /\ content' = [content EXCEPT ![i] = << >>]
       \/ Failing /\ UNCHANGED disk
    /\ UNCHANGED <<up, crashes, nextId, segments, batches, io, fresh, told, history>>

-----------------------------------------------------------------------------
(* Crash and restart.                                                      *)

\* The memory is lost; an entry, or the header of a new segment, may have been
\* in the middle of being written.
Crash ==
    /\ up
    /\ crashes < MaxCrashes
    /\ crashes' = crashes + 1
    /\ up' = FALSE
    /\ \/ Interrupted(writing) /\ UNCHANGED files
       \/ /\ Cardinality(fresh) < MaxRotating
          /\ files' = files \union {nextId}
          /\ content' = [content EXCEPT ![nextId] = <<Torn>>]
    /\ told' = [o \in Op |-> IF told[o] = "waiting" THEN "closed" ELSE told[o]]
    /\ closed' = {} /\ openIds' = {} /\ deleting' = {}
    /\ buffer' = << >> /\ sending' = << >> /\ queue' = << >> /\ writing' = << >>
    /\ fresh' = {} /\ open' = 0 /\ nextId' = 0 /\ io' = "running"
    /\ UNCHANGED history

\* Wal::new that goes on with the last segment instead of opening a new one.
RestartReuses ==
    /\ ~up
    /\ up' = TRUE
    /\ files # {}
    /\ closed' = files \ {Max(files)}
    /\ open' = Max(files)
    /\ nextId' = Max(files) + 1
    /\ UNCHANGED <<disk, crashes, io, openIds, batches, fresh, deleting, told, history>>

\* Wal::new that takes the number of files for the next id.
RestartCounts ==
    /\ ~up
    /\ up' = TRUE
    /\ LET id == Cardinality(files)
       IN  /\ open' = id
           /\ nextId' = id + 1
           /\ files' = files \union {id}
           /\ content' = IF id \in files THEN content ELSE [content EXCEPT ![id] = << >>]
           /\ closed' = files
    /\ UNCHANGED <<crashes, io, openIds, batches, fresh, deleting, told, history>>

\* Wal::new: every file found is a closed segment, the next id follows the last.
Restart ==
    /\ ~up
    /\ up' = TRUE
    /\ LET id == IF files = {} THEN 0 ELSE Max(files) + 1
       IN  /\ open' = id
           /\ nextId' = id + 1
           /\ files' = files \union {id}
           /\ content' = [content EXCEPT ![id] = << >>]
           /\ closed' = files
    /\ UNCHANGED <<crashes, io, openIds, batches, fresh, deleting, told, history>>

-----------------------------------------------------------------------------
Flusher == Flush \/ Enqueue
IoThread == Receive \/ Write \/ WriteFails \/ SyncPanics

Next ==
    \/ \E o \in Op : WriteOp(o)
    \/ Flusher
    \/ IoThread
    \/ RotateCreate \/ RotateFails
    \/ \E i \in Id : RotateInstall(i) \/ Delete(i) \/ Unlink(i)
    \/ Crash \/ Restart

\* The interval ticks, and the runtime and the I/O thread are scheduled.
Fairness == WF_vars(Flusher) /\ WF_vars(IoThread)

Spec == Init /\ [][Next]_vars /\ Fairness

-----------------------------------------------------------------------------
(* Reading the log back: in each segment the entries up to the first that  *)
(* cannot be read.                                                         *)

Readable(i) ==
    LET bad == {k \in DOMAIN content[i] : content[i][k] = Torn}
    IN  SubSeq(content[i], 1, IF bad = {} THEN Len(content[i]) ELSE Min(bad) - 1)

\* In whatever order; module WalReplay has the order.
IsReadBack(o) ==
    \E i \in files : \E k \in DOMAIN Readable(i) : o \in Range(Readable(i)[k])

\* An entry that holds o comes after a torn one, and is not reached.
IsBehindTorn(o, entries) ==
    \E k \in DOMAIN entries : /\ o \in Range(entries[k])
                              /\ \E j \in 1 .. (k - 1) : entries[j] = Torn

-----------------------------------------------------------------------------
(* Properties.                                                             *)

\* Wal::write_op, OpenSegmentFileWriter::write: whatever crashes, an operation
\* that was acknowledged is read back until its segment is deleted, unless it is
\* behind the torn entry of an earlier write to the same segment, which failed and
\* was reported.
AckedSurvive ==
    \A o \in Op : told[o] = "ok" /\ o \notin deleted =>
        \/ IsReadBack(o)
        \/ /\ seg[o] \in files /\ IsBehindTorn(o, content[seg[o]])
           /\ \E p \in Op : told[p] = "err" /\ seg[p] = seg[o]

\* Wal::rotate, WriterIoThread::run: the set that rotate takes and returns is
\* that of the operations acknowledged in the segment it closes.
RotateReturnsItsWrites == up => openIds = AckedIn(open)

\* WalBuffer, WriterIoThread: every writer is told the result, or sees its
\* channel closed, also when the I/O thread panics; unless its operation is in
\* the buffer when the flusher, that thread being dead, panics in turn, or later.
WritersAreTold ==
    \A o \in Op : told[o] = "waiting" ~>
        \/ told[o] # "waiting"
        \/ io = "dead" /\ sending # << >> /\ o \in Range(buffer)
=============================================================================
