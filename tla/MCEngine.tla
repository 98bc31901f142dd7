------------------------------- MODULE MCEngine -----------------------------
(* TLC instance of Engine: every text of up to three characters. *)
EXTENDS Engine

Characters == {0, 1, 2, Other}

UpToThree == UNION {[1..n -> Characters] : n \in 0..3}
=============================================================================
