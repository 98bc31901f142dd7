------------------------------ MODULE PageView ------------------------------
(***************************************************************************)
(* What the buffer pool promises its callers, with no frame in sight.      *)
(*                                                                         *)
(* Every allocated page has one current content, and a Handle that was     *)
(* given a page keeps standing for that very page until its owner gives it *)
(* up.  Content changes only when the owner of a Handle writes through it: *)
(* eviction, write-back, resizing and failed I/O are invisible.            *)
(*                                                                         *)
(* BufferPool implements this specification (module BufferPool, PageViewOK;*)
(* proved in BufferPoolProofs).                                            *)
(***************************************************************************)
CONSTANTS Page,         \* page ids
          Value,        \* contents a page can have
          Handle,       \* Handle objects of the callers
          Unallocated,  \* content of a page the file does not hold yet
          NoPage        \* an empty Handle

VARIABLES contents,     \* contents[p]: what a reader of page p sees
          holds         \* holds[h]: the page Handle h pins, or NoPage

vars == <<contents, holds>>

Init == /\ contents \in [Page -> Value \cup {Unallocated}]
        /\ holds = [h \in Handle |-> NoPage]

\* A page comes into being with its first content.
Allocate(p, v) == /\ contents[p] = Unallocated
                  /\ contents' = [contents EXCEPT ![p] = v]
                  /\ UNCHANGED holds

\* Handle h now stands for the allocated page p.
Acquire(h, p) == /\ contents[p] # Unallocated
                 /\ holds' = [holds EXCEPT ![h] = p]
                 /\ UNCHANGED contents

\* Handle h is emptied: by its owner, or by a Fetch into it that failed.
Release(h) == /\ holds' = [holds EXCEPT ![h] = NoPage]
              /\ UNCHANGED contents

\* The page of src moves to dst; what dst stood for is given up.
Transfer(dst, src) ==
    /\ holds' = [holds EXCEPT ![dst] = holds[src], ![src] = NoPage]
    /\ UNCHANGED contents

\* The owner of h writes its page.
Write(h, v) == /\ holds[h] # NoPage
               /\ contents' = [contents EXCEPT ![holds[h]] = v]
               /\ UNCHANGED holds

Next == \/ \E p \in Page, v \in Value : Allocate(p, v)
        \/ \E h \in Handle, p \in Page : Acquire(h, p)
        \/ \E h \in Handle : Release(h)
        \/ \E dst, src \in Handle : dst # src /\ Transfer(dst, src)
        \/ \E h \in Handle, v \in Value : Write(h, v)

Spec == Init /\ [][Next]_vars
=============================================================================
