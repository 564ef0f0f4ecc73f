----------------------------- MODULE WalReplay ------------------------------
(***************************************************************************)
(* The write-ahead log read back from the first segment to the last, and   *)
(* the order in which that finds the operations.                           *)
(***************************************************************************)
EXTENDS Wal, SequencesExt

ReplayFrom(log, i) == IF i \in files THEN log \o FlattenSeq(Readable(i)) ELSE log
Replay == FoldLeft(ReplayFrom, << >>, [k \in 1 .. Cardinality(Id) |-> k - 1])

\* Wal::new, Wal::rotate ("ordered by ID, which is the order they were written
\* in"): operations are read back in the order they were acknowledged in,
\* unless two calls of rotate overlapped.
ReplayInOrder ==
    ~overlapped =>
        LET kept(o) == o \in Range(acks)
            log == SelectSeq(Replay, kept)
            read(o) == o \in Range(log)
        IN  log = SelectSeq(acks, read)
=============================================================================
