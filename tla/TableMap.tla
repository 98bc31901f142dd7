------------------------------ MODULE TableMap ------------------------------
(***************************************************************************)
(* What the tables of a database promise, with no page in sight: a table   *)
(* stores records under record ids.  An id  belongs to one table, stays    *)
(* with its record and is not given out again while the process lives.     *)
(* Nothing promises that an insert survives a crash before its pages are   *)
(* flushed; but what a restart finds in a table was once stored in that    *)
(* very table under that very id.                                          *)
(*                                                                         *)
(* Tables implements this specification (module Tables, TableMapOK).       *)
(***************************************************************************)
EXTENDS Naturals

CONSTANTS Name, Id, Rec,
          Deleted          \* what a deleted record's id stands for

VARIABLES up,              \* a process serves the tables
          names,           \* the tables there are
          rows,            \* every <<n, id, r>>: r is stored in table n under id
          past             \* every <<n, id, r>> ever stored

vars == <<up, names, rows, past>>

Init == up = FALSE /\ names = {} /\ rows = {} /\ past = {}

Start == /\ ~up
         /\ up' = TRUE
         /\ UNCHANGED past
         /\ names' \subseteq Name
         /\ rows' \subseteq {t \in past : t[1] \in names'}

Stop == /\ up
        /\ up' = FALSE
        /\ UNCHANGED past
        /\ names' = {}
        /\ rows' = {}

CreateTable(n) == /\ up
                  /\ UNCHANGED <<up, past>>
                  /\ n \notin names
                  /\ names' = names \cup {n}
                  /\ UNCHANGED rows

Insert(n, id, r) == /\ up
                    /\ past' = past \cup {<<n, id, r>>}
                    /\ n \in names
                    /\ \A t \in rows : t[2] # id
                    /\ rows' = rows \cup {<<n, id, r>>}
                    /\ UNCHANGED <<up, names>>

Rewrite(n, id, r) == /\ up
                     /\ past' = past \cup {<<n, id, r>>}
                     /\ \E old \in rows : /\ old[1] = n /\ old[2] = id /\ old[3] # Deleted
                                          /\ rows' = (rows \ {old}) \cup {<<n, id, r>>}
                     /\ UNCHANGED <<up, names>>

Next == \/ Start
        \/ Stop
        \/ \E n \in Name : CreateTable(n)
        \/ \E n \in Name, id \in Id, r \in Rec : Insert(n, id, r)
        \/ \E n \in Name, id \in Id, r \in Rec \cup {Deleted} : Rewrite(n, id, r)

Spec == Init /\ [][Next]_vars
=============================================================================
