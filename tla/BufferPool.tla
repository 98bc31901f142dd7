----------------------------- MODULE BufferPool -----------------------------
(***************************************************************************)
(* The page buffer pool of src/src/db/buffer/buffer_pool.cpp over a page   *)
(* file that can fail.                                                     *)
(*                                                                         *)
(* A frame is an index (the code's index plus one).  The fields of struct  *)
(* Frame are functions of the index: `held` is page.id() with in_use folded*)
(* in (NoPage when the frame is free), `data` the page bytes, `dirty` the  *)
(* set of frames whose page is marked dirty.  Indices above nframes, where *)
(* the deque ends, carry the value of a default-constructed Frame.         *)
(*                                                                         *)
(* One call of the pool is one step: the pool is used by one thread.  The  *)
(* I/O it makes inside the call may fail wherever the code checks a Status;*)
(* a failed page write may leave the page torn in the file.  A call that   *)
(* only returns an error and changes nothing (Unpin on an empty Handle,    *)
(* FlushPage of an absent page, Resize to 0 or to the present capacity, a  *)
(* shrink with too few unpinned pages, an allocation failure in Resize) is *)
(* a stuttering step.                                                      *)
(***************************************************************************)
EXTENDS Integers, FiniteSets

CONSTANTS Page,         \* page ids
          Value,        \* page contents
          Blank,        \* the zeroed content of a page just allocated
          Handle,       \* Handle objects of the callers
          MaxCapacity,  \* bound on the capacities asked for
          MaxClock,     \* the largest value of the access clock (2^64 - 1)
          Unallocated, Torn, NoPage, NoValue

\* The clock outruns the frames by far: after renumbering there is room to go on.
ASSUME CapacityAssumption ==
    /\ MaxCapacity \in Nat \ {0}
    /\ MaxClock \in Nat
    /\ MaxClock > MaxCapacity

ASSUME ContentAssumption ==
    /\ Blank \in Value
    /\ Unallocated \notin Value \cup {Torn}
    /\ Torn \notin Value
    /\ NoPage \notin Page
    /\ IsFiniteSet(Handle)

Frame   == 1..MaxCapacity
NoFrame == 0

VARIABLES held,       \* held[i]: id of the page in frame i, NoPage when free
          data,       \* data[i]: bytes of that page
          dirty,      \* frames whose page is marked dirty
          pin_count,  \* pin_count[i]
          last_used,  \* last_used[i]: access-clock stamp
          nframes,    \* frames_.size()
          capacity,   \* capacity_
          clock,      \* access_clock_
          handles,    \* handles[h]: frame_ of Handle h, NoFrame when empty
          disk        \* disk[p]: page p in the file behind PageStorage

frameVars == <<held, data, dirty, pin_count, last_used, nframes>>
vars == <<held, data, dirty, pin_count, last_used, nframes, capacity, clock,
          handles, disk>>

TypeOK ==
    /\ held \in [Frame -> Page \cup {NoPage}]
    /\ data \in [Frame -> Value \cup {Torn, NoValue}]
    /\ dirty \in SUBSET Frame
    /\ pin_count \in [Frame -> Nat]
    /\ last_used \in [Frame -> 0..MaxClock]
    /\ nframes \in Frame
    /\ capacity \in Frame
    /\ clock \in 0..MaxClock
    /\ handles \in [Handle -> Frame \cup {NoFrame}]
    /\ disk \in [Page -> Value \cup {Torn, Unallocated}]

-----------------------------------------------------------------------------
InUse    == {i \in Frame : held[i] # NoPage}
size     == Cardinality(InUse)
Unpinned == {i \in InUse : pin_count[i] = 0}

\* Mutant: the scan stops at the capacity, where a shrunk pool may still hold
\* pages in the frames above it.
FindFrameToCapacity(p) ==
    IF \E i \in 1..capacity : held[i] = p
    THEN CHOOSE i \in 1..capacity : held[i] = p ELSE NoFrame

\* The first frame that holds p, as the scan finds it.
FindFrame(p) ==
    IF \E i \in Frame : held[i] = p
    THEN CHOOSE i \in Frame : held[i] = p /\ \A j \in Frame : held[j] = p => i <= j
    ELSE NoFrame

Resident(p) == FindFrame(p) # NoFrame

\* Victim order: by stamp, ties by index.
Older(i, j) == \/ last_used[i] < last_used[j]
               \/ last_used[i] = last_used[j] /\ i < j

\* RenumberClock: a frame's stamp becomes its position in recency order.
Rank(S, i)    == Cardinality({j \in S : last_used[j] <= last_used[i]})
Renumbered(S) == [i \in Frame |-> IF i \in S THEN Rank(S, i) ELSE last_used[i]]

\* Mutant: the clock sticks at its largest value.
TouchSaturating(S, f) ==
    LET t == IF clock = MaxClock THEN MaxClock ELSE clock + 1 IN
    /\ clock' = t
    /\ last_used' = [last_used EXCEPT ![f] = t]

\* NextTimestamp, used to stamp frame f while S is the set of frames in use.
Touch(S, f) ==
    IF clock = MaxClock
    THEN /\ clock' = Cardinality(S) + 1
         /\ last_used' = [Renumbered(S) EXCEPT ![f] = Cardinality(S) + 1]
    ELSE /\ clock' = clock + 1
         /\ last_used' = [last_used EXCEPT ![f] = clock + 1]

\* UnpinFrame: the pin counts after Handle value f lets go.
UnpinFrame(f) ==
    [i \in Frame |-> IF i = f /\ pin_count[i] > 0 THEN pin_count[i] - 1
                                                  ELSE pin_count[i]]

\* FlushFrame on the frames of W, all successful: the file afterwards.
Source(W, p) == {i \in W \cap dirty : held[i] = p}
WriteBack(W) ==
    [p \in Page |-> IF Source(W, p) = {} THEN disk[p]
                    ELSE data[CHOOSE i \in Source(W, p) : TRUE]]

\* The file after a failed FlushFrame(f): the log refused the record, or the
\* page write failed with or without damaging the page.
FailedWrites(file, f) == {file, [file EXCEPT ![held[f]] = Torn]}

-----------------------------------------------------------------------------
Init ==
    /\ held = [i \in Frame |-> NoPage]
    /\ data = [i \in Frame |-> NoValue]
    /\ dirty = {}
    /\ pin_count = [i \in Frame |-> 0]
    /\ last_used = [i \in Frame |-> 0]
    /\ capacity \in Frame
    /\ nframes = capacity
    /\ clock = 0
    /\ handles = [h \in Handle |-> NoFrame]
    /\ disk \in [Page -> {Blank, Unallocated}]

\* PageStorage::AllocatePage, called by the access methods beside the pool.
AllocatePage(p) ==
    /\ disk[p] = Unallocated
    /\ disk' = [disk EXCEPT ![p] = Blank]
    /\ UNCHANGED <<frameVars, capacity, clock, handles>>

\* The page is resident: pin it and stamp it.
FetchHit(h, p) ==
    LET f == FindFrame(p) IN
    /\ Resident(p)
    /\ pin_count' = [UnpinFrame(handles[h]) EXCEPT ![f] = @ + 1]
    /\ Touch(InUse, f)
    /\ handles' = [handles EXCEPT ![h] = f]
    /\ UNCHANGED <<held, data, dirty, nframes, capacity, disk>>

Readable(p) == ~Resident(p) /\ disk[p] # Unallocated

\* Mutant: any free frame of the deque will do, whatever the capacity.
HasRoomInDeque == \E i \in 1..nframes : held[i] = NoPage

FreeFrames == {i \in 1..nframes : held[i] = NoPage}
HasRoom == size < capacity /\ FreeFrames # {}

\* The frame f now holds p as read from the file, pinned once by h.
Install(h, p, f, pins) ==
    /\ held' = [held EXCEPT ![f] = p]
    /\ data' = [data EXCEPT ![f] = disk[p]]
    /\ dirty' = dirty \ {f}
    /\ pin_count' = [pins EXCEPT ![f] = 1]
    /\ Touch(InUse, f)
    /\ handles' = [handles EXCEPT ![h] = f]
    /\ UNCHANGED <<nframes, capacity>>

\* Below capacity: the first free frame takes the page.
FetchLoad(h, p) ==
    /\ Readable(p)
    /\ HasRoom
    /\ \E f \in FreeFrames :
         /\ \A j \in FreeFrames : f <= j
         /\ Install(h, p, f, UnpinFrame(handles[h]))
    /\ UNCHANGED disk

\* AcquireFrame's scan, given the pin counts.  The scan starts from the
\* largest stamp and compares with '<', so it never takes a frame that bears
\* the largest stamp itself.
Candidates(pins) == {i \in InUse : pins[i] = 0 /\ last_used[i] < MaxClock}
\* Mutant: the most recently used page is taken.
IsVictimNewest(f, pins) ==
    /\ f \in Candidates(pins)
    /\ \A j \in Candidates(pins) \ {f} : Older(j, f)

IsVictim(f, pins) ==
    /\ f \in Candidates(pins)
    /\ \A j \in Candidates(pins) \ {f} : Older(f, j)

\* Mutant: the victim is dropped without being written back.
FetchReplaceNoFlush(h, p) ==
    LET pins == UnpinFrame(handles[h]) IN
    /\ Readable(p)
    /\ ~HasRoom
    /\ \E f \in Frame : IsVictim(f, pins) /\ Install(h, p, f, pins)
    /\ UNCHANGED disk

\* At capacity: the victim is written back if dirty and its frame reused.
FetchReplace(h, p) ==
    LET pins == UnpinFrame(handles[h]) IN
    /\ Readable(p)
    /\ ~HasRoom
    /\ \E f \in Frame :
         /\ IsVictim(f, pins)
         /\ Install(h, p, f, pins)
         /\ disk' = WriteBack({f})

\* Every failing Fetch has emptied its output Handle first.
FetchFails(h) ==
    /\ pin_count' = UnpinFrame(handles[h])
    /\ handles' = [handles EXCEPT ![h] = NoFrame]
    /\ UNCHANGED <<held, data, dirty, last_used, nframes, capacity, clock>>

\* kNotFound from storage for an unallocated id, or a read error.
FetchUnreadable(h, p) ==
    /\ ~Resident(p)
    /\ FetchFails(h)
    /\ UNCHANGED disk

FetchFull(h, p) ==
    /\ Readable(p)
    /\ ~HasRoom
    /\ Candidates(UnpinFrame(handles[h])) = {}
    /\ FetchFails(h)
    /\ UNCHANGED disk

FetchFlushFails(h, p) ==
    /\ Readable(p)
    /\ ~HasRoom
    /\ \E f \in dirty :
         /\ IsVictim(f, UnpinFrame(handles[h]))
         /\ disk' \in FailedWrites(disk, f)
    /\ FetchFails(h)

\* A caller writes its page and marks it dirty.
Modify(h, v) ==
    /\ handles[h] # NoFrame
    /\ data' = [data EXCEPT ![handles[h]] = v]
    /\ dirty' = dirty \cup {handles[h]}
    /\ UNCHANGED <<held, pin_count, last_used, nframes, capacity, clock,
                   handles, disk>>

\* Handle::Unpin, and the destructor of a Handle that is not empty.
Unpin(h) ==
    /\ handles[h] # NoFrame
    /\ pin_count' = UnpinFrame(handles[h])
    /\ handles' = [handles EXCEPT ![h] = NoFrame]
    /\ UNCHANGED <<held, data, dirty, last_used, nframes, capacity, clock, disk>>

\* Mutant: the destination's own pin is forgotten.
MoveAssignLeak(dst, src) ==
    /\ dst # src
    /\ handles' = [handles EXCEPT ![dst] = handles[src], ![src] = NoFrame]
    /\ UNCHANGED <<held, data, dirty, pin_count, last_used, nframes, capacity,
                   clock, disk>>

\* Move assignment; move construction is the case of an empty destination.
MoveAssign(dst, src) ==
    /\ dst # src
    /\ pin_count' = UnpinFrame(handles[dst])
    /\ handles' = [handles EXCEPT ![dst] = handles[src], ![src] = NoFrame]
    /\ UNCHANGED <<held, data, dirty, last_used, nframes, capacity, clock,
                   disk>>

\* Mutant: the dirty mark goes although the page was not written.
FlushPageForgets(p) ==
    LET f == FindFrame(p) IN
    /\ Resident(p)
    /\ \/ disk' = WriteBack({f})
       \/ f \in dirty /\ disk' \in FailedWrites(disk, f)
    /\ dirty' = dirty \ {f}
    /\ UNCHANGED <<held, data, pin_count, last_used, nframes, capacity, clock,
                   handles>>

FlushPage(p) ==
    LET f == FindFrame(p) IN
    /\ Resident(p)
    /\ \/ /\ disk' = WriteBack({f})
          /\ dirty' = dirty \ {f}
       \/ /\ f \in dirty
          /\ disk' \in FailedWrites(disk, f)
          /\ UNCHANGED dirty
    /\ UNCHANGED <<held, data, pin_count, last_used, nframes, capacity, clock,
                   handles>>

\* Every dirty frame is tried: `failed` are the frames whose flush failed,
\* `torn` those of them whose page was damaged in the file.
FlushAll ==
    \E failed \in SUBSET dirty : \E torn \in SUBSET failed :
        /\ disk' = [p \in Page |-> IF \E i \in torn : held[i] = p THEN Torn
                                   ELSE WriteBack(dirty \ failed)[p]]
        /\ dirty' = failed
        /\ UNCHANGED <<held, data, pin_count, last_used, nframes, capacity,
                       clock, handles>>

\* Mutant: the capacity grows and the deque does not.
GrowNoFrames(n) ==
    /\ n > capacity
    /\ capacity' = n
    /\ UNCHANGED <<held, data, dirty, pin_count, last_used, nframes, clock,
                   handles, disk>>

Grow(n) ==
    /\ n > capacity
    /\ nframes' = IF n > nframes THEN n ELSE nframes
    /\ capacity' = n
    /\ UNCHANGED <<held, data, dirty, pin_count, last_used, clock, handles, disk>>

Needed(n) == IF size > n THEN size - n ELSE 0

\* V: the pages a shrink to n evicts, least recently used unpinned first.
ShrinkVictims(n, V) ==
    /\ Cardinality(V) = Needed(n)
    /\ \A i \in V : \A j \in Unpinned \ V : Older(i, j)

\* TrimFreeFrames leaves m frames of which `used` are in use.
TrimFreeFrames(m, n, used) ==
    /\ \A i \in used : i <= m
    /\ m = n \/ m \in used

Shrink(n) ==
    /\ n \in 1..(capacity - 1)
    /\ \E V \in SUBSET Unpinned :
         /\ ShrinkVictims(n, V)
         /\ disk' = WriteBack(V)
         /\ held' = [i \in Frame |-> IF i \in V THEN NoPage ELSE held[i]]
         /\ data' = [i \in Frame |-> IF i \in V THEN NoValue ELSE data[i]]
         /\ dirty' = dirty \ V
         /\ last_used' = [i \in Frame |-> IF i \in V THEN 0 ELSE last_used[i]]
         /\ \E m \in n..nframes : /\ TrimFreeFrames(m, n, InUse \ V)
                                  /\ nframes' = m
    /\ capacity' = n
    /\ UNCHANGED <<pin_count, clock, handles>>

\* The flush of victim f fails; the victims ranked before f are clean by then.
ShrinkFlushFails(n) ==
    /\ n \in 1..(capacity - 1)
    /\ \E V \in SUBSET Unpinned : \E f \in V \cap dirty :
         LET flushed == {i \in V : Older(i, f)} IN
         /\ ShrinkVictims(n, V)
         /\ disk' \in FailedWrites(WriteBack(flushed), f)
         /\ dirty' = dirty \ flushed
    /\ UNCHANGED <<held, data, pin_count, last_used, nframes, capacity, clock,
                   handles>>

Fetch(h, p) == \/ FetchHit(h, p)
               \/ FetchLoad(h, p)
               \/ FetchReplace(h, p)
               \/ FetchUnreadable(h, p)
               \/ FetchFull(h, p)
               \/ FetchFlushFails(h, p)

Resize(n) == \/ Grow(n)
             \/ Shrink(n)
             \/ ShrinkFlushFails(n)

Next == \/ \E p \in Page : AllocatePage(p)
        \/ \E h \in Handle, p \in Page : Fetch(h, p)
        \/ \E h \in Handle, v \in Value : Modify(h, v)
        \/ \E h \in Handle : Unpin(h)
        \/ \E dst, src \in Handle : MoveAssign(dst, src)
        \/ \E p \in Page : FlushPage(p)
        \/ FlushAll
        \/ \E n \in Frame : Resize(n)

Spec == Init /\ [][Next]_vars
-----------------------------------------------------------------------------
(* Safety *)

\* Resize and the lookup of free frames rest on these bounds: the residents fit
\* the logical capacity, also after a shrink that could not move the survivors
\* of high indices, and the deque never ends below the capacity or below a
\* frame in use (AcquireFrame's comment relies on the first, FindFrame's scan
\* on the second).
ResidentsFit ==
    /\ size <= capacity
    /\ capacity <= nframes
    /\ \A i \in InUse : i <= nframes

\* A page is cached at most once, so two Handles on one page share one copy.
NoDuplicatePages == \A i, j \in InUse : held[i] = held[j] => i = j

Holders(i) == {h \in Handle : handles[h] = i}

\* "exactly one guard owns each pin": through hits, moves, failed fetches and
\* resizes the pin count of a frame is the number of Handles on it, and no
\* Handle is left on a free frame.
PinsMatchHandles ==
    \A i \in Frame :
        /\ pin_count[i] = Cardinality(Holders(i))
        /\ pin_count[i] > 0 => i \in InUse

\* Whatever was torn or never written in the file is still in memory and still
\* dirty: a page that is not resident is intact in the file, and a clean
\* resident page equals its copy in the file.
FileCurrent ==
    /\ \A p \in Page : disk[p] = Torn => \E i \in dirty : held[i] = p
    /\ \A i \in InUse \ dirty : disk[held[i]] = data[i]
    /\ \A i \in InUse : data[i] \in Value /\ disk[held[i]] # Unallocated
    /\ dirty \subseteq InUse

\* The stamps of the resident pages order them strictly and never run ahead of
\* the clock, across renumbering too: recency is a total order.
StampsOrdered ==
    /\ \A i, j \in InUse : last_used[i] = last_used[j] => i = j
    /\ \A i \in InUse : last_used[i] \in 1..clock

HeldBy(h) == IF handles[h] = NoFrame THEN NoPage ELSE held[handles[h]]

\* kBufferFull is the callers' doing: a Fetch answers it only when the other
\* Handles hold as many different pages as the capacity last asked for,
\* whatever moves, failed fetches and resizes went before.  One page fewer is
\* enough when the access clock is at its end, since the scan of AcquireFrame
\* passes over the page that bears the largest stamp.
FullMeansHeld ==
    [][\A h \in Handle, p \in Page :
          FetchFull(h, p) =>
              Cardinality({HeldBy(g) : g \in Handle \ {h}} \ {NoPage}) >=
                  IF clock = MaxClock THEN capacity - 1 ELSE capacity]_vars

-----------------------------------------------------------------------------
(* Refinement *)

\* What a reader of each page sees, and the page each Handle stands for.
Contents == [p \in Page |-> IF Resident(p) THEN data[FindFrame(p)] ELSE disk[p]]
Holds    == [h \in Handle |-> HeldBy(h)]

View == INSTANCE PageView WITH contents <- Contents, holds <- Holds

\* No eviction, flush, resize or I/O failure changes what a caller reads or
\* which page its Handle stands for: the pool implements PageView.
PageViewOK == View!Spec

Lru == INSTANCE LruCache WITH
           order <- [k \in 1..size |->
                        held[CHOOSE i \in InUse : Rank(InUse, i) = k]],
           limit <- capacity,
           holds <- Holds

\* Replacement is true LRU over unpinned pages, for fetches and shrinks alike,
\* and stays so when the clock is renumbered: the pool implements LruCache.
LruOK == Lru!Spec
=============================================================================
