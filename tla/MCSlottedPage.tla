--------------------------- MODULE MCSlottedPage ---------------------------
(* TLC instance of SlottedPage: a page of a few bytes. *)
EXTENDS SlottedPage
=============================================================================
