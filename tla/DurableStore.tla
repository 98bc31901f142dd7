---------------------------- MODULE DurableStore ----------------------------
(***************************************************************************)
(* What a database promises about process crashes, with no log in sight.   *)
(*                                                                         *)
(* `store` is what survives: the pages of the database as a restart will   *)
(* see them.  It comes into being whole, grows at its end, and a page in it*)
(* is replaced by nothing but the content the running process had for that *)
(* page.  A restart sees exactly the store.                                *)
(*                                                                         *)
(* Database implements this specification (module Database, DurableOK;     *)
(* proved in RecoveryProofs).                                              *)
(***************************************************************************)
EXTENDS Naturals, Sequences

CONSTANTS Value,       \* contents of a page in use
          Header,      \* the header page
          InitImage,   \* a page as its owner initialises it
          Blank,       \* a page just allocated
          Torn         \* a page whose first content was not written whole

VARIABLES store,       \* store[p]: durable content of page p; <<>> before creation
          up,          \* a process serves the database
          view         \* view[p]: content of page p for that process

vars == <<store, up, view>>

Init == store = <<>> /\ up = FALSE /\ view = <<>>

Create == /\ store = <<>>
          /\ store' = <<Header, InitImage>>
          /\ UNCHANGED <<up, view>>

Start == /\ ~up
         /\ store # <<>>
         /\ up' = TRUE
         /\ view' = store
         /\ UNCHANGED store

\* Only a page its owner has initialised is ever modified.
Modify(p, v) == /\ up
                /\ view[p] \in Value
                /\ view' = [view EXCEPT ![p] = v]
                /\ UNCHANGED <<store, up>>

Persisted(p) == [store EXCEPT ![p] = view[p]]

Persist(p) == /\ up
              /\ store' = Persisted(p)
              /\ UNCHANGED <<up, view>>

Extend == /\ up
          /\ store' = Append(store, Blank)
          /\ view' = Append(view, Blank)
          /\ UNCHANGED up

\* The last page, still blank, gets its first content.
First(c) == [store EXCEPT ![Len(store)] = c]

Initialise(c) == /\ up
                 /\ store[Len(store)] = Blank
                 /\ store' = First(c)
                 /\ view' = [view EXCEPT ![Len(view)] = c]
                 /\ UNCHANGED up

\* The process ends, by Close, by exit or by a crash: the one write it was
\* making takes effect or does not.
Stop == /\ up
        /\ up' = FALSE
        /\ view' = <<>>
        /\ \/ UNCHANGED store
           \/ \E p \in DOMAIN store : store' = Persisted(p)
           \/ store[Len(store)] = Blank /\ store' = First(Torn)

Next == \/ Create
        \/ Start
        \/ \E p \in DOMAIN view, v \in Value : Modify(p, v)
        \/ \E p \in DOMAIN view : Persist(p)
        \/ Extend
        \/ \E c \in {InitImage, Torn} : Initialise(c)
        \/ Stop

Spec == Init /\ [][Next]_vars
=============================================================================
