----------------------------- MODULE MCBenchmark ----------------------------
(* TLC instance of Benchmark: configurations with a wide and with a narrow *)
(* dead band, with steps up to the largest word, without steps down, with  *)
(* pages of two units and an explicit maximum, and one that is not valid.  *)
EXTENDS Benchmark

Wide == [shrink |-> 75, grow |-> 50, fraction |-> 60, page |-> 1,
         min |-> 1, max |-> 0, down |-> 2, up |-> 1]

Tunings ==
    {Wide,
     [Wide EXCEPT !.shrink = 60, !.max = 5, !.down = 3, !.up = 3],
     [Wide EXCEPT !.fraction = 100, !.down = 1, !.up = MaxWord],
     [Wide EXCEPT !.page = 2, !.min = 2, !.max = 3],
     [Wide EXCEPT !.down = 0],
     [Wide EXCEPT !.grow = 75]}

Memory == -4..8
=============================================================================
