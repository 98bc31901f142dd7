---------------------------- MODULE MCBufferPool ----------------------------
(* TLC instance of BufferPool: contents, pages and handles are model values. *)
EXTENDS BufferPool, TLC

Symmetry == Permutations(Page) \cup Permutations(Handle)
=============================================================================
