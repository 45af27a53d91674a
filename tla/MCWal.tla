------------------------------- MODULE MCWal -------------------------------
(* Model-checking instance of Wal. *)
EXTENDS Wal
=============================================================================
