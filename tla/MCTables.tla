------------------------------ MODULE MCTables ------------------------------
EXTENDS Tables, TLC

\* One item fills a page, or two records a data page.
Small == [k \in Kinds |-> 1]
Wide  == [k \in Kinds |-> IF k = "data" THEN 2 ELSE 1]
Symmetry == Permutations(Name)
=============================================================================
