------------------------------ MODULE MCWal ---------------------------------
(* The write-ahead log with few operations and segments. *)
EXTENDS WalReplay
=============================================================================
