------------------------------- MODULE MCWal -------------------------------
(* TLC instance of Wal: page images are model values. *)
EXTENDS Wal
=============================================================================
