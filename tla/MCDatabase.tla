----------------------------- MODULE MCDatabase -----------------------------
(* TLC instance of Database: contents are model values. *)
EXTENDS Database
=============================================================================
