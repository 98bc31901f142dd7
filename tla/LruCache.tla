------------------------------ MODULE LruCache ------------------------------
(***************************************************************************)
(* Least-recently-used replacement as its textbook description: the        *)
(* resident pages form one list, least recent first; an access moves its   *)
(* page to the end; a page leaves the list only to make room, and then it  *)
(* is the earliest page of the list that no Handle pins.  There are no     *)
(* stamps, no clock and no frames here.                                    *)
(*                                                                         *)
(* BufferPool implements this specification for every position of its      *)
(* 64-bit access clock, the renumbering at its end included (module        *)
(* BufferPool, LruOK).                                                     *)
(***************************************************************************)
EXTENDS Integers, Sequences, FiniteSets

CONSTANTS Page, Handle, NoPage,
          MaxCapacity       \* largest capacity asked for

VARIABLES order,            \* resident pages, least recently used first
          limit,            \* capacity()
          holds             \* holds[h]: the page Handle h pins, or NoPage

vars == <<order, limit, holds>>

Resident == {order[k] : k \in DOMAIN order}

Without(seq, S) == SelectSeq(seq, LAMBDA p : p \notin S)

\* The pages of the list that no Handle of `held` pins, in list order.
Evictable(held) == Without(order, {held[h] : h \in Handle})

Init == /\ order = <<>>
        /\ limit \in 1..MaxCapacity
        /\ holds = [h \in Handle |-> NoPage]

\* Fetch first drops what its output Handle pinned, so the page h gave up may
\* itself be the victim.
Hit(h, p) == /\ holds' = [holds EXCEPT ![h] = p]
             /\ p \in Resident
             /\ order' = Append(Without(order, {p}), p)
             /\ UNCHANGED limit

Load(h, p) == /\ holds' = [holds EXCEPT ![h] = p]
              /\ p \notin Resident
              /\ Len(order) < limit
              /\ order' = Append(order, p)
              /\ UNCHANGED limit

Replace(h, p) ==
    LET candidates == Evictable([holds EXCEPT ![h] = NoPage])
    IN  /\ holds' = [holds EXCEPT ![h] = p]
        /\ p \notin Resident
        /\ Len(order) >= limit
        /\ candidates # <<>>
        /\ order' = Append(Without(order, {Head(candidates)}), p)
        /\ UNCHANGED limit

\* Unpin, or a Fetch that failed: no page moves.
Release(h) == /\ holds' = [holds EXCEPT ![h] = NoPage]
              /\ UNCHANGED <<order, limit>>

Transfer(dst, src) ==
    /\ holds' = [holds EXCEPT ![dst] = holds[src], ![src] = NoPage]
    /\ UNCHANGED <<order, limit>>

Grow(n) == /\ n > limit
           /\ limit' = n
           /\ UNCHANGED <<order, holds>>

Shrink(n) ==
    LET candidates == Evictable(holds)
        excess     == IF Len(order) > n THEN Len(order) - n ELSE 0
    IN  /\ n < limit
        /\ Len(candidates) >= excess
        /\ order' = Without(order, {candidates[k] : k \in 1..excess})
        /\ limit' = n
        /\ UNCHANGED holds

Next == \/ \E h \in Handle, p \in Page : Hit(h, p) \/ Load(h, p) \/ Replace(h, p)
        \/ \E h \in Handle : Release(h)
        \/ \E dst, src \in Handle : dst # src /\ Transfer(dst, src)
        \/ \E n \in 1..MaxCapacity : Grow(n) \/ Shrink(n)

Spec == Init /\ [][Next]_vars
=============================================================================
