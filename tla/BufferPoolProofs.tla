-------------------------- MODULE BufferPoolProofs --------------------------
(***************************************************************************)
(* Theorems about BufferPool for every capacity, clock width, page set and *)
(* set of Handles.                                                         *)
(***************************************************************************)
EXTENDS BufferPool, FiniteSetTheorems, TLAPS

\* The inductive invariant.  No part is inductive alone: NoDuplicatePages makes
\* FindFrame a function of the page, which FileCurrent needs; FileCurrent rules
\* out reading a torn page, which TypeOK needs; PinsMatchHandles keeps victims
\* away from Handles; StampsOrdered keeps the renumbered clock in range.
IInv == /\ TypeOK
        /\ ResidentsFit
        /\ NoDuplicatePages
        /\ PinsMatchHandles
        /\ FileCurrent
        /\ StampsOrdered

-----------------------------------------------------------------------------
(* Lemmas about the operators of the model *)

\* The frames in use are finitely many, no more than there are frames.
LEMMA InUseFinite ==
  ASSUME NEW S \in SUBSET Frame
  PROVE  /\ IsFiniteSet(S)
         /\ Cardinality(S) \in Nat
         /\ Cardinality(S) <= MaxCapacity
<1>1. IsFiniteSet(Frame) /\ Cardinality(Frame) = MaxCapacity
  BY FS_Interval, CapacityAssumption DEF Frame
<1>2. QED
  BY <1>1, FS_Subset, FS_CardinalityType, CapacityAssumption

\* A free frame is a frame, and holds no page.
LEMMA FreeFramesFree ==
  ASSUME nframes \in Frame, NEW f \in FreeFrames
  PROVE  f \in Frame /\ f \notin InUse
<1>1. f \in 1..nframes /\ held[f] = NoPage
  BY DEF FreeFrames
<1>2. f \in Frame
  BY <1>1, CapacityAssumption DEF Frame
<1>3. QED
  BY <1>1, <1>2 DEF InUse

\* FindFrame finds the frame of a resident page.
LEMMA FindFrameHit ==
  ASSUME NoDuplicatePages, NEW p \in Page, NEW i \in Frame, held[i] = p
  PROVE  FindFrame(p) = i
<1>1. \A j \in Frame : held[j] = p => j = i
  BY ContentAssumption DEF NoDuplicatePages, InUse
<1> DEFINE P(k) == held[k] = p /\ \A j \in Frame : held[j] = p => k <= j
<1>2. P(i)
  BY <1>1, CapacityAssumption DEF Frame
<1>3. \A k \in Frame : P(k) => k = i
  BY <1>1
<1>4. (CHOOSE k \in Frame : P(k)) = i
  BY <1>2, <1>3
<1>5. QED
  BY <1>4 DEF FindFrame

\* FindFrame returns a frame that holds the page, or finds none.
LEMMA FindFrameSpec ==
  ASSUME NoDuplicatePages, NEW p \in Page
  PROVE  /\ Resident(p) <=> \E i \in Frame : held[i] = p
         /\ Resident(p) => FindFrame(p) \in InUse /\ held[FindFrame(p)] = p
<1>1. CASE \E i \in Frame : held[i] = p
  <2>1. PICK i \in Frame : held[i] = p
    BY <1>1
  <2>2. FindFrame(p) = i
    BY <2>1, FindFrameHit
  <2>3. QED
    BY <2>1, <2>2, ContentAssumption, CapacityAssumption
    DEF Resident, NoFrame, Frame, InUse
<1>2. CASE ~ \E i \in Frame : held[i] = p
  BY <1>2 DEF Resident, FindFrame
<1>3. QED
  BY <1>1, <1>2

\* What a write-back of the frames W leaves in the file for page p.
LEMMA WriteBackSpec ==
  ASSUME NoDuplicatePages, NEW W \in SUBSET Frame, NEW p \in Page
  PROVE  /\ \A i \in W \cap dirty : held[i] = p => WriteBack(W)[p] = data[i]
         /\ (\A i \in W \cap dirty : held[i] # p) => WriteBack(W)[p] = disk[p]
<1>1. ASSUME NEW i \in W \cap dirty, held[i] = p
      PROVE  WriteBack(W)[p] = data[i]
  <2>1. Source(W, p) = {i}
    BY <1>1, ContentAssumption DEF Source, NoDuplicatePages, InUse
  <2>2. (CHOOSE k \in Source(W, p) : TRUE) = i
    BY <2>1
  <2>3. QED
    BY <2>1, <2>2 DEF WriteBack
<1>2. ASSUME \A i \in W \cap dirty : held[i] # p
      PROVE  WriteBack(W)[p] = disk[p]
  <2>1. Source(W, p) = {}
    BY <1>2 DEF Source
  <2>2. QED
    BY <2>1 DEF WriteBack
<1>3. QED
  BY <1>1, <1>2

\* A write-back stores contents of frames and nothing else.
LEMMA WriteBackType ==
  ASSUME TypeOK, FileCurrent, NoDuplicatePages, NEW W \in SUBSET Frame
  PROVE  WriteBack(W) \in [Page -> Value \cup {Torn, Unallocated}]
<1>1. ASSUME NEW p \in Page
      PROVE  WriteBack(W)[p] \in Value \cup {Torn, Unallocated}
  <2>1. CASE \E i \in W \cap dirty : held[i] = p
    <3>1. PICK i \in W \cap dirty : held[i] = p
      BY <2>1
    <3>2. data[i] \in Value
      BY <3>1 DEF FileCurrent
    <3>3. QED
      BY <3>1, <3>2, WriteBackSpec
  <2>2. CASE \A i \in W \cap dirty : held[i] # p
    BY <2>2, WriteBackSpec DEF TypeOK
  <2>3. QED
    BY <2>1, <2>2
<1>2. QED
  BY <1>1 DEF WriteBack

\* Ranks number the members of S from 1, and follow the stamps.
LEMMA RankSpec ==
  ASSUME TypeOK, NEW S \in SUBSET Frame, NEW i \in S
  PROVE  /\ Rank(S, i) \in 1..Cardinality(S)
         /\ \A j \in S : last_used[i] < last_used[j] => Rank(S, i) < Rank(S, j)
<1> DEFINE Upto(k) == {j \in S : last_used[j] <= last_used[k]}
<1>0. \A k \in S : last_used[k] \in Nat
  BY CapacityAssumption DEF TypeOK
<1>1. \A k \in S : /\ Upto(k) \in SUBSET S
                   /\ IsFiniteSet(Upto(k))
                   /\ Cardinality(Upto(k)) \in Nat
                   /\ Cardinality(Upto(k)) <= Cardinality(S)
  BY InUseFinite, FS_Subset
<1>2. Upto(i) # {}
  BY <1>0
<1>3. Cardinality(Upto(i)) > 0
  <2> HIDE DEF Upto
  <2>1. Cardinality(Upto(i)) # 0
    BY <1>1, <1>2, FS_EmptySet
  <2>2. QED
    BY <1>1, <2>1
<1>4. ASSUME NEW j \in S, last_used[i] < last_used[j]
      PROVE  Cardinality(Upto(i)) < Cardinality(Upto(j))
  <2>1. Upto(i) \subseteq Upto(j) /\ j \in Upto(j) /\ j \notin Upto(i)
    BY <1>0, <1>4
  <2>2. Upto(i) # Upto(j)
    BY <2>1
  <2>3. QED
    BY <1>1, <2>1, <2>2, FS_Subset
<1>5. QED
  BY <1>1, <1>3, <1>4, InUseFinite DEF Rank

\* Stamping frame f, by the running clock or after renumbering, keeps recency a
\* strict order in which f is now the most recent.
LEMMA TouchSpec ==
  ASSUME TypeOK, StampsOrdered, NEW f \in Frame, Touch(InUse, f),
         InUse' = InUse \cup {f}
  PROVE  /\ StampsOrdered'
         /\ clock' \in 0..MaxClock
         /\ last_used' \in [Frame -> 0..MaxClock]
<1> DEFINE n == Cardinality(InUse)
<1>0. /\ InUse \in SUBSET Frame
      /\ MaxClock \in Nat
      /\ clock \in 0..MaxClock
      /\ last_used \in [Frame -> 0..MaxClock]
  BY CapacityAssumption DEF InUse, TypeOK
<1>1. n \in Nat /\ n + 1 <= MaxClock
  BY <1>0, InUseFinite, CapacityAssumption
<1>2. CASE clock = MaxClock
  <2>1. /\ clock' = n + 1
        /\ last_used' = [Renumbered(InUse) EXCEPT ![f] = n + 1]
    BY <1>2 DEF Touch
  <2>2. \A i \in InUse : Rank(InUse, i) \in 1..n
    BY <1>0, RankSpec
  <2>3. \A i, j \in InUse : Rank(InUse, i) = Rank(InUse, j) => i = j
    <3>1. SUFFICES ASSUME NEW i \in InUse, NEW j \in InUse, i # j
                   PROVE  Rank(InUse, i) # Rank(InUse, j)
      OBVIOUS
    <3>2. last_used[i] < last_used[j] \/ last_used[j] < last_used[i]
      BY <1>0, <3>1 DEF StampsOrdered
    <3>3. QED
      BY <1>0, <1>1, <2>2, <3>2, RankSpec
  <2>4. \A i \in Frame : last_used'[i] = IF i = f THEN n + 1
                           ELSE IF i \in InUse THEN Rank(InUse, i) ELSE last_used[i]
    BY <2>1 DEF Renumbered
  <2>5. last_used' \in [Frame -> 0..MaxClock]
    <3>1. \A i \in Frame : last_used'[i] \in 0..MaxClock
      BY <1>0, <1>1, <2>2, <2>4
    <3>2. QED
      BY <2>1, <3>1 DEF Renumbered
  <2>6. \A i \in InUse \cup {f} :
            last_used'[i] = IF i = f THEN n + 1 ELSE Rank(InUse, i)
    BY <1>0, <2>4
  <2>7. \A i \in InUse \cup {f} : last_used'[i] \in 1..(n + 1)
    BY <1>1, <2>2, <2>6
  <2>8. \A i, j \in InUse \cup {f} : last_used'[i] = last_used'[j] => i = j
    BY <1>1, <2>2, <2>3, <2>6
  <2>9. QED
    BY <1>1, <2>1, <2>5, <2>7, <2>8 DEF StampsOrdered
<1>3. CASE clock # MaxClock
  <2>1. clock' = clock + 1 /\ last_used' = [last_used EXCEPT ![f] = clock + 1]
    BY <1>3 DEF Touch
  <2>2. QED
    BY <1>0, <1>3, <2>1 DEF StampsOrdered
<1>4. QED
  BY <1>2, <1>3

\* The Handles other than h on frame i.
Others(h, i) == {g \in Handle \ {h} : handles[g] = i}

\* Once h has let go, a frame's pins are those of the other Handles.
LEMMA ReleasedPins ==
  ASSUME TypeOK, PinsMatchHandles, NEW h \in Handle, NEW i \in Frame
  PROVE  /\ IsFiniteSet(Others(h, i))
         /\ Cardinality(Others(h, i)) \in Nat
         /\ UnpinFrame(handles[h])[i] = Cardinality(Others(h, i))
         /\ UnpinFrame(handles[h])[i] <= pin_count[i]
<1> DEFINE All == Holders(i)
<1>1. IsFiniteSet(All) /\ IsFiniteSet(Others(h, i))
  BY FS_Subset, ContentAssumption DEF Others, Holders
<1>2. /\ Cardinality(All) \in Nat
      /\ Cardinality(Others(h, i)) \in Nat
      /\ pin_count[i] = Cardinality(All)
  BY <1>1, FS_CardinalityType DEF PinsMatchHandles
<1>3. Others(h, i) = All \ {h}
  BY DEF Others, Holders
<1>4. Cardinality(Others(h, i)) = IF h \in All THEN pin_count[i] - 1 ELSE pin_count[i]
  BY <1>1, <1>2, <1>3, FS_RemoveElement
<1>5. h \in All <=> handles[h] = i
  BY DEF Holders
<1>6. h \in All => pin_count[i] > 0
  BY <1>1, <1>2, FS_EmptySet
<1>7. QED
  BY <1>1, <1>2, <1>4, <1>5, <1>6 DEF UnpinFrame

\* Pointing h at frame f (or nowhere) adds h to the pins of f alone.
LEMMA RepinnedPins ==
  ASSUME TypeOK, PinsMatchHandles, NEW h \in Handle, NEW f \in Frame \cup {NoFrame},
         handles' = [handles EXCEPT ![h] = f], NEW i \in Frame
  PROVE  Cardinality(Holders(i)') =
            UnpinFrame(handles[h])[i] + (IF i = f THEN 1 ELSE 0)
<1> DEFINE New == Holders(i)'
<1>1. /\ IsFiniteSet(Others(h, i))
      /\ Cardinality(Others(h, i)) \in Nat
      /\ UnpinFrame(handles[h])[i] = Cardinality(Others(h, i))
  BY ReleasedPins
<1>2. h \notin Others(h, i)
  BY DEF Others
<1>3. CASE i = f
  <2>1. New = Others(h, i) \cup {h}
    BY <1>3 DEF Others, TypeOK, Holders
  <2>2. Cardinality(Others(h, i) \cup {h}) = Cardinality(Others(h, i)) + 1
    BY <1>1, <1>2, FS_AddElement
  <2>3. Cardinality(New) = Cardinality(Others(h, i)) + 1
    BY <2>1, <2>2
  <2>4. QED
    BY <1>1, <1>3, <2>3
<1>4. CASE i # f
  <2>1. New = Others(h, i)
    BY <1>4 DEF Others, TypeOK, Holders
  <2>2. Cardinality(New) = Cardinality(Others(h, i))
    BY <2>1
  <2>3. QED
    BY <1>1, <1>4, <2>2
<1>5. QED
  BY <1>3, <1>4

-----------------------------------------------------------------------------
(* Each action preserves the invariant *)

\* A page allocated beside the pool is not resident, so no frame is affected.
LEMMA AllocatePageInv ==
  ASSUME IInv, NEW p \in Page, AllocatePage(p)
  PROVE  IInv'
BY ContentAssumption
   DEF IInv, AllocatePage, frameVars, TypeOK, ResidentsFit, NoDuplicatePages,
       PinsMatchHandles, Holders, FileCurrent, StampsOrdered, InUse, size

\* Writing through a Handle changes a frame that is in use, and marks it dirty.
LEMMA ModifyInv ==
  ASSUME IInv, NEW h \in Handle, NEW v \in Value, Modify(h, v)
  PROVE  IInv'
<1> USE DEF IInv
<1>0. handles[h] \in InUse
  <2>1. handles[h] \in Frame
    BY DEF Modify, TypeOK
  <2>2. Holders(handles[h]) # {}
    BY DEF Holders
  <2>3. IsFiniteSet(Holders(handles[h]))
    BY FS_Subset, ContentAssumption DEF Holders
  <2>4. pin_count[handles[h]] > 0
    BY <2>1, <2>2, <2>3, FS_EmptySet DEF PinsMatchHandles, TypeOK
  <2>5. QED
    BY <2>1, <2>4 DEF PinsMatchHandles
<1>1. TypeOK'
  BY <1>0 DEF Modify, TypeOK, InUse
<1>2. FileCurrent'
  BY <1>0 DEF Modify, TypeOK, FileCurrent, InUse
<1>3. ResidentsFit' /\ NoDuplicatePages' /\ PinsMatchHandles' /\ StampsOrdered'
  BY DEF Modify, ResidentsFit, NoDuplicatePages, PinsMatchHandles, Holders,
         StampsOrdered, InUse, size
<1>4. QED
  BY <1>1, <1>2, <1>3

\* A step that writes back the frames of W and damages the pages of the dirty
\* frames `torn`, which it did not flush, keeps the file recoverable from memory.
LEMMA FlushStep ==
  ASSUME IInv, NEW W \in SUBSET Frame, NEW torn \in SUBSET (dirty \ W),
         disk' = [p \in Page |-> IF \E i \in torn : held[i] = p THEN Torn
                                 ELSE WriteBack(W)[p]],
         dirty' = dirty \ W, UNCHANGED <<held, data>>
  PROVE  /\ FileCurrent'
         /\ disk' \in [Page -> Value \cup {Torn, Unallocated}]
         /\ dirty' \in SUBSET Frame
<1> USE DEF IInv
<1>1. WriteBack(W) \in [Page -> Value \cup {Torn, Unallocated}]
  BY WriteBackType
<1>2. disk' \in [Page -> Value \cup {Torn, Unallocated}]
  BY <1>1
<1>3. ASSUME NEW p \in Page, disk'[p] = Torn
      PROVE  \E i \in dirty' : held'[i] = p
  <2>1. CASE \E i \in torn : held[i] = p
    BY <2>1
  <2>2. CASE ~ \E i \in torn : held[i] = p
    <3>1. WriteBack(W)[p] = Torn
      BY <1>3, <2>2
    <3>2. \A i \in W \cap dirty : held[i] # p
      BY <3>1, WriteBackSpec, ContentAssumption DEF FileCurrent
    <3>3. disk[p] = Torn
      BY <3>1, <3>2, WriteBackSpec
    <3>4. PICK i \in dirty : held[i] = p
      BY <3>3 DEF FileCurrent
    <3>5. QED
      BY <3>2, <3>4
  <2>3. QED
    BY <2>1, <2>2
<1>4. ASSUME NEW i \in InUse \ dirty'
      PROVE  disk'[held[i]] = data[i]
  <2>1. i \in Frame /\ held[i] \in Page
    BY DEF InUse, TypeOK
  <2>2. ~ \E j \in torn : held[j] = held[i]
    BY <1>4, <2>1 DEF NoDuplicatePages, InUse, TypeOK
  <2>3. disk'[held[i]] = WriteBack(W)[held[i]]
    BY <2>1, <2>2
  <2>4. CASE i \in dirty
    BY <1>4, <2>1, <2>3, <2>4, WriteBackSpec
  <2>5. CASE i \notin dirty
    <3>1. \A j \in W \cap dirty : held[j] # held[i]
      BY <2>1, <2>5, <1>4 DEF NoDuplicatePages, InUse
    <3>2. disk[held[i]] = data[i]
      BY <1>4, <2>5 DEF FileCurrent
    <3>3. QED
      BY <2>1, <2>3, <3>1, <3>2, WriteBackSpec
  <2>6. QED
    BY <2>4, <2>5
<1>5. ASSUME NEW i \in InUse
      PROVE  disk'[held[i]] # Unallocated
  <2>1. held[i] \in Page /\ disk[held[i]] # Unallocated
    BY DEF InUse, TypeOK, FileCurrent
  <2>2. WriteBack(W)[held[i]] # Unallocated
    <3>1. CASE \E j \in W \cap dirty : held[j] = held[i]
      <4>1. PICK j \in W \cap dirty : held[j] = held[i]
        BY <3>1
      <4>2. data[j] \in Value
        BY <4>1 DEF FileCurrent
      <4>3. QED
        BY <2>1, <4>1, <4>2, WriteBackSpec, ContentAssumption
    <3>2. CASE \A j \in W \cap dirty : held[j] # held[i]
      BY <2>1, <3>2, WriteBackSpec
    <3>3. QED
      BY <3>1, <3>2
  <2>3. QED
    BY <2>1, <2>2, ContentAssumption
<1>6. InUse' = InUse
  BY DEF InUse
<1>7. FileCurrent'
  BY <1>3, <1>4, <1>5, <1>6 DEF FileCurrent
<1>8. QED
  BY <1>2, <1>7 DEF TypeOK

\* A failed flush of the dirty frame f, after the frames of W were flushed, has
\* the form FlushStep speaks of.
LEMMA FailedFlushForm ==
  ASSUME IInv, NEW W \in SUBSET Frame, NEW f \in dirty, f \notin W,
         disk' \in FailedWrites(WriteBack(W), f)
  PROVE  \E torn \in SUBSET (dirty \ W) :
            disk' = [p \in Page |-> IF \E i \in torn : held[i] = p THEN Torn
                                    ELSE WriteBack(W)[p]]
<1> USE DEF IInv
<1>1. WriteBack(W) \in [Page -> Value \cup {Torn, Unallocated}]
  BY WriteBackType
<1>2. CASE disk' = WriteBack(W)
  <2>1. disk' = [p \in Page |-> IF \E i \in {} : held[i] = p THEN Torn
                                ELSE WriteBack(W)[p]]
    BY <1>1, <1>2
  <2>2. {} \in SUBSET (dirty \ W)
    OBVIOUS
  <2>3. QED
    BY <2>1, <2>2
<1>3. CASE disk' = [WriteBack(W) EXCEPT ![held[f]] = Torn]
  <2>1. disk' = [p \in Page |-> IF \E i \in {f} : held[i] = p THEN Torn
                                ELSE WriteBack(W)[p]]
    BY <1>1, <1>3
  <2>2. {f} \in SUBSET (dirty \ W)
    OBVIOUS
  <2>3. QED
    BY <2>1, <2>2
<1>4. QED
  BY <1>2, <1>3 DEF FailedWrites

\* Flushing no frame leaves the file as it is.
LEMMA WriteBackNone ==
  ASSUME TypeOK
  PROVE  WriteBack({}) = disk
BY DEF WriteBack, Source, TypeOK

\* A step that only flushes keeps what does not speak of the file.
LEMMA SameFrames ==
  ASSUME IInv, UNCHANGED <<held, data, pin_count, last_used, nframes, capacity,
                           clock, handles>>,
         FileCurrent', disk' \in [Page -> Value \cup {Torn, Unallocated}],
         dirty' \in SUBSET Frame
  PROVE  IInv'
<1> USE DEF IInv
<1>1. InUse' = InUse
  BY DEF InUse
<1>2. TypeOK'
  BY DEF TypeOK
<1>3. ResidentsFit' /\ NoDuplicatePages'
  BY <1>1 DEF ResidentsFit, NoDuplicatePages, size
<1>4. PinsMatchHandles'
  BY <1>1 DEF PinsMatchHandles, Holders
<1>5. StampsOrdered'
  BY <1>1 DEF StampsOrdered
<1>6. QED
  BY <1>2, <1>3, <1>4, <1>5

\* FlushPage, successful or not, keeps the invariant.
LEMMA FlushPageInv ==
  ASSUME IInv, NEW p \in Page, FlushPage(p)
  PROVE  IInv'
<1> USE DEF IInv
<1> DEFINE f == FindFrame(p)
<1>1. f \in InUse /\ f \in Frame
  BY FindFrameSpec DEF FlushPage, InUse
<1>2. FileCurrent' /\ disk' \in [Page -> Value \cup {Torn, Unallocated}]
                  /\ dirty' \in SUBSET Frame
  <2>1. CASE disk' = WriteBack({f}) /\ dirty' = dirty \ {f}
    <3>1. disk' = [q \in Page |-> IF \E i \in {} : held[i] = q THEN Torn
                                  ELSE WriteBack({f})[q]]
      BY <1>1, <2>1, WriteBackType
    <3>2. UNCHANGED <<held, data>>
      BY DEF FlushPage
    <3>3. {f} \in SUBSET Frame /\ {} \in SUBSET (dirty \ {f})
      BY <1>1
    <3>4. QED
      BY <2>1, <3>1, <3>2, <3>3, FlushStep
  <2>2. CASE f \in dirty /\ disk' \in FailedWrites(disk, f) /\ UNCHANGED dirty
    <3>1. disk' \in FailedWrites(WriteBack({}), f)
      BY <2>2, WriteBackNone
    <3>2. PICK torn \in SUBSET (dirty \ {}) :
            disk' = [q \in Page |-> IF \E i \in torn : held[i] = q THEN Torn
                                    ELSE WriteBack({})[q]]
      BY <2>2, <3>1, FailedFlushForm
    <3>3. UNCHANGED <<held, data>> /\ dirty' = dirty \ {}
      BY <2>2 DEF FlushPage
    <3>4. QED
      BY <3>2, <3>3, FlushStep
  <2>3. QED
    BY <2>1, <2>2 DEF FlushPage
<1>3. QED
  BY <1>2, SameFrames DEF FlushPage

\* FlushAll keeps the invariant, whichever of its flushes fail.
LEMMA FlushAllInv ==
  ASSUME IInv, FlushAll
  PROVE  IInv'
<1> USE DEF IInv
<1>0. PICK failed \in SUBSET dirty : \E torn \in SUBSET failed :
        /\ disk' = [p \in Page |-> IF \E i \in torn : held[i] = p THEN Torn
                                   ELSE WriteBack(dirty \ failed)[p]]
        /\ dirty' = failed
        /\ UNCHANGED <<held, data, pin_count, last_used, nframes, capacity,
                       clock, handles>>
  BY DEF FlushAll
<1>1. PICK torn \in SUBSET failed :
        /\ disk' = [p \in Page |-> IF \E i \in torn : held[i] = p THEN Torn
                                   ELSE WriteBack(dirty \ failed)[p]]
        /\ dirty' = failed
        /\ UNCHANGED <<held, data, pin_count, last_used, nframes, capacity,
                       clock, handles>>
  BY <1>0
<1>2. /\ dirty \ failed \in SUBSET Frame
      /\ torn \in SUBSET (dirty \ (dirty \ failed))
      /\ dirty' = dirty \ (dirty \ failed)
  BY <1>1 DEF TypeOK
<1>3. FileCurrent' /\ disk' \in [Page -> Value \cup {Torn, Unallocated}]
                  /\ dirty' \in SUBSET Frame
  BY <1>1, <1>2, FlushStep
<1>4. QED
  BY <1>1, <1>3, SameFrames

\* A shrink stopped by a failed flush keeps the invariant: the victims flushed
\* before are clean and still resident.
LEMMA ShrinkFlushFailsInv ==
  ASSUME IInv, NEW n \in Frame, ShrinkFlushFails(n)
  PROVE  IInv'
<1> USE DEF IInv
<1>0. PICK V \in SUBSET Unpinned : \E f \in V \cap dirty :
        /\ disk' \in FailedWrites(WriteBack({i \in V : Older(i, f)}), f)
        /\ dirty' = dirty \ {i \in V : Older(i, f)}
  BY DEF ShrinkFlushFails
<1>1. PICK f \in V \cap dirty :
        /\ disk' \in FailedWrites(WriteBack({i \in V : Older(i, f)}), f)
        /\ dirty' = dirty \ {i \in V : Older(i, f)}
  BY <1>0
<1> DEFINE W == {i \in V : Older(i, f)}
<1>2. W \in SUBSET Frame /\ f \notin W
  <2>1. V \in SUBSET Frame /\ f \in Frame
    BY DEF Unpinned, InUse
  <2>2. ~ Older(f, f)
    BY <2>1, CapacityAssumption DEF Older, TypeOK, Frame
  <2>3. QED
    BY <2>1, <2>2
<1>3. PICK torn \in SUBSET (dirty \ W) :
        disk' = [p \in Page |-> IF \E i \in torn : held[i] = p THEN Torn
                                ELSE WriteBack(W)[p]]
  BY <1>1, <1>2, FailedFlushForm
<1>4. UNCHANGED <<held, data, pin_count, last_used, nframes, capacity, clock,
                  handles>>
  BY DEF ShrinkFlushFails
<1>5. FileCurrent' /\ disk' \in [Page -> Value \cup {Torn, Unallocated}]
                  /\ dirty' \in SUBSET Frame
  BY <1>1, <1>2, <1>3, <1>4, FlushStep
<1>6. QED
  BY <1>4, <1>5, SameFrames

\* Unpinning never makes a count negative and never adds a pin.
LEMMA UnpinType ==
  ASSUME TypeOK, NEW f
  PROVE  UnpinFrame(f) \in [Frame -> Nat]
BY DEF UnpinFrame, TypeOK

\* A Handle let go, by its owner or by a failed Fetch.
LEMMA ReleaseKeepsPins ==
  ASSUME IInv, NEW h \in Handle,
         pin_count' = UnpinFrame(handles[h]),
         handles' = [handles EXCEPT ![h] = NoFrame],
         UNCHANGED <<held, data, last_used, nframes, capacity, clock>>
  PROVE  /\ PinsMatchHandles' /\ ResidentsFit' /\ NoDuplicatePages' /\ StampsOrdered'
         /\ pin_count' \in [Frame -> Nat]
         /\ handles' \in [Handle -> Frame \cup {NoFrame}]
<1> USE DEF IInv
<1>1. InUse' = InUse
  BY DEF InUse
<1>2. ASSUME NEW i \in Frame
      PROVE  /\ pin_count'[i] = Cardinality(Holders(i)')
             /\ pin_count'[i] > 0 => i \in InUse'
  <2>1. i # NoFrame
    BY CapacityAssumption DEF Frame, NoFrame
  <2>2. /\ UnpinFrame(handles[h])[i] \in Nat
        /\ UnpinFrame(handles[h])[i] <= pin_count[i]
    BY ReleasedPins, UnpinType
  <2>3. Cardinality(Holders(i)') = UnpinFrame(handles[h])[i]
    <3>1. NoFrame \in Frame \cup {NoFrame}
      OBVIOUS
    <3>2. Cardinality(Holders(i)') =
             UnpinFrame(handles[h])[i] + (IF i = NoFrame THEN 1 ELSE 0)
      BY <3>1, RepinnedPins
    <3>3. QED
      BY <2>1, <2>2, <3>2
  <2>4. QED
    BY <1>1, <2>2, <2>3 DEF PinsMatchHandles, TypeOK
<1>3. PinsMatchHandles'
  BY <1>2 DEF PinsMatchHandles
<1>4. ResidentsFit' /\ NoDuplicatePages' /\ StampsOrdered'
  BY <1>1 DEF ResidentsFit, NoDuplicatePages, StampsOrdered, size
<1>5. QED
  BY <1>3, <1>4, UnpinType DEF TypeOK

\* Letting go without any I/O.
LEMMA ReleaseInv ==
  ASSUME IInv, NEW h \in Handle,
         pin_count' = UnpinFrame(handles[h]),
         handles' = [handles EXCEPT ![h] = NoFrame],
         UNCHANGED <<held, data, dirty, last_used, nframes, capacity, clock, disk>>
  PROVE  IInv'
<1> USE DEF IInv
<1>1. PinsMatchHandles' /\ ResidentsFit' /\ NoDuplicatePages' /\ StampsOrdered'
      /\ pin_count' \in [Frame -> Nat]
      /\ handles' \in [Handle -> Frame \cup {NoFrame}]
  BY ReleaseKeepsPins
<1>2. TypeOK'
  BY <1>1 DEF TypeOK
<1>3. FileCurrent'
  BY DEF FileCurrent, InUse
<1>4. QED
  BY <1>1, <1>2, <1>3

\* A Fetch stopped by the failed flush of its victim keeps the invariant: the
\* victim stays resident and dirty.
LEMMA FetchFlushFailsInv ==
  ASSUME IInv, NEW h \in Handle, NEW p \in Page, FetchFlushFails(h, p)
  PROVE  IInv'
<1> USE DEF IInv
<1>1. PICK f \in dirty : disk' \in FailedWrites(disk, f)
  BY DEF FetchFlushFails
<1>2. disk' \in FailedWrites(WriteBack({}), f)
  BY <1>1, WriteBackNone
<1>3. PICK torn \in SUBSET (dirty \ {}) :
        disk' = [q \in Page |-> IF \E i \in torn : held[i] = q THEN Torn
                                ELSE WriteBack({})[q]]
  BY <1>1, <1>2, FailedFlushForm
<1>4. UNCHANGED <<held, data>> /\ dirty' = dirty \ {}
  BY DEF FetchFlushFails, FetchFails
<1>5. FileCurrent' /\ disk' \in [Page -> Value \cup {Torn, Unallocated}]
                  /\ dirty' \in SUBSET Frame
  BY <1>3, <1>4, FlushStep
<1>6. PinsMatchHandles' /\ ResidentsFit' /\ NoDuplicatePages' /\ StampsOrdered'
      /\ pin_count' \in [Frame -> Nat]
      /\ handles' \in [Handle -> Frame \cup {NoFrame}]
  BY ReleaseKeepsPins DEF FetchFlushFails, FetchFails
<1>7. TypeOK'
  BY <1>5, <1>6 DEF TypeOK, FetchFlushFails, FetchFails
<1>8. QED
  BY <1>5, <1>6, <1>7

\* A move hands the pin of its source over and gives up that of its destination.
LEMMA MoveAssignInv ==
  ASSUME IInv, NEW dst \in Handle, NEW src \in Handle, MoveAssign(dst, src)
  PROVE  IInv'
<1> USE DEF IInv
<1>1. InUse' = InUse
  BY DEF InUse, MoveAssign
<1>2. ASSUME NEW i \in Frame
      PROVE  /\ pin_count'[i] = Cardinality(Holders(i)')
             /\ pin_count'[i] > 0 => i \in InUse'
  <2> DEFINE Rest == {g \in Handle \ {dst, src} : handles[g] = i}
             New  == Holders(i)'
  <2>1. i # NoFrame /\ dst # src
    BY CapacityAssumption DEF Frame, NoFrame, MoveAssign
  <2>2. IsFiniteSet(Rest) /\ Cardinality(Rest) \in Nat
    BY FS_Subset, FS_CardinalityType, ContentAssumption
  <2>3. /\ pin_count'[i] = Cardinality(Others(dst, i))
        /\ pin_count'[i] \in Nat
        /\ pin_count'[i] <= pin_count[i]
    BY ReleasedPins DEF MoveAssign
  <2>4. Cardinality(New) = Cardinality(Others(dst, i))
    <3>1. CASE handles[src] = i
      <4>1. New = Rest \cup {dst}
        BY <2>1, <3>1 DEF MoveAssign, TypeOK, Holders
      <4>2. Others(dst, i) = Rest \cup {src}
        BY <2>1, <3>1 DEF Others
      <4>3. dst \notin Rest /\ src \notin Rest
        OBVIOUS
      <4>4. /\ Cardinality(Rest \cup {dst}) = Cardinality(Rest) + 1
            /\ Cardinality(Rest \cup {src}) = Cardinality(Rest) + 1
        <5> HIDE DEF Rest
        <5>1. QED
          BY <2>2, <4>3, FS_AddElement
      <4>5. QED
        BY <4>1, <4>2, <4>4
    <3>2. CASE handles[src] # i
      <4>1. New = Rest
        BY <2>1, <3>2 DEF MoveAssign, TypeOK, Holders
      <4>2. Others(dst, i) = Rest
        BY <2>1, <3>2 DEF Others
      <4>3. QED
        BY <4>1, <4>2
    <3>3. QED
      BY <3>1, <3>2
  <2>5. QED
    BY <1>1, <2>3, <2>4 DEF PinsMatchHandles, TypeOK
<1>3. PinsMatchHandles'
  BY <1>2 DEF PinsMatchHandles
<1>4. TypeOK'
  BY UnpinType DEF TypeOK, MoveAssign
<1>5. ResidentsFit' /\ NoDuplicatePages' /\ StampsOrdered'
  BY <1>1 DEF ResidentsFit, NoDuplicatePages, StampsOrdered, size, MoveAssign
<1>6. FileCurrent'
  BY <1>1 DEF FileCurrent, MoveAssign
<1>7. QED
  BY <1>3, <1>4, <1>5, <1>6

\* Growing adds free frames at the end of the deque.
LEMMA GrowInv ==
  ASSUME IInv, NEW n \in Frame, Grow(n)
  PROVE  IInv'
<1> USE DEF IInv
<1>1. InUse' = InUse
  BY DEF InUse, Grow
<1>2. TypeOK'
  BY DEF TypeOK, Grow
<1>3. ResidentsFit'
  <2>1. size \in Nat /\ size' = size
    BY <1>1, InUseFinite DEF size, InUse
  <2>2. QED
    BY <1>1, <2>1, CapacityAssumption DEF ResidentsFit, Grow, TypeOK, Frame, InUse
<1>4. NoDuplicatePages' /\ StampsOrdered' /\ PinsMatchHandles' /\ FileCurrent'
  BY <1>1 DEF NoDuplicatePages, StampsOrdered, PinsMatchHandles, Holders,
              FileCurrent, Grow
<1>5. QED
  BY <1>2, <1>3, <1>4

\* A hit adds a pin and a stamp.
LEMMA FetchHitInv ==
  ASSUME IInv, NEW h \in Handle, NEW p \in Page, FetchHit(h, p)
  PROVE  IInv'
<1> USE DEF IInv
<1> DEFINE f == FindFrame(p)
           pins == UnpinFrame(handles[h])
<1>1. f \in InUse /\ f \in Frame
  BY FindFrameSpec DEF FetchHit, InUse
<1>2. InUse' = InUse /\ InUse' = InUse \cup {f}
  BY <1>1 DEF InUse, FetchHit
<1>3. /\ StampsOrdered'
      /\ clock' \in 0..MaxClock
      /\ last_used' \in [Frame -> 0..MaxClock]
  BY <1>1, <1>2, TouchSpec DEF FetchHit
<1>4. pins \in [Frame -> Nat] /\ pin_count' = [pins EXCEPT ![f] = @ + 1]
  BY UnpinType DEF FetchHit
<1>5. TypeOK'
  BY <1>1, <1>3, <1>4 DEF TypeOK, FetchHit
<1>6. ASSUME NEW i \in Frame
      PROVE  /\ pin_count'[i] = Cardinality(Holders(i)')
             /\ pin_count'[i] > 0 => i \in InUse'
  <2>1. f \in Frame \cup {NoFrame} /\ handles' = [handles EXCEPT ![h] = f]
    BY <1>1 DEF FetchHit
  <2>2. Cardinality(Holders(i)') = pins[i] + (IF i = f THEN 1 ELSE 0)
    BY <2>1, RepinnedPins
  <2>3. pins[i] \in Nat /\ pins[i] <= pin_count[i]
    BY <1>4, ReleasedPins
  <2> HIDE DEF pins, f
  <2>4. pin_count'[i] = pins[i] + (IF i = f THEN 1 ELSE 0)
    BY <1>1, <1>4, <2>3
  <2>5. QED
    BY <1>1, <1>2, <2>2, <2>3, <2>4 DEF PinsMatchHandles, TypeOK
<1>7. PinsMatchHandles'
  BY <1>6 DEF PinsMatchHandles
<1>8. ResidentsFit' /\ NoDuplicatePages' /\ FileCurrent'
  BY <1>2 DEF ResidentsFit, NoDuplicatePages, FileCurrent, size, FetchHit
<1>9. QED
  BY <1>3, <1>5, <1>7, <1>8

\* Installing p in the unpinned frame f: all but the file.
LEMMA InstallKeeps ==
  ASSUME IInv, NEW h \in Handle, NEW p \in Page, NEW f \in Frame,
         ~ Resident(p), disk[p] # Unallocated,
         UnpinFrame(handles[h])[f] = 0,
         Install(h, p, f, UnpinFrame(handles[h]))
  PROVE  /\ InUse' = InUse \cup {f}
         /\ disk[p] \in Value
         /\ held' = [held EXCEPT ![f] = p]
         /\ data' = [data EXCEPT ![f] = disk[p]]
         /\ dirty' = dirty \ {f}
         /\ disk' \in [Page -> Value \cup {Torn, Unallocated}] => TypeOK'
         /\ NoDuplicatePages' /\ PinsMatchHandles' /\ StampsOrdered'
<1> USE DEF IInv
<1> DEFINE pins == UnpinFrame(handles[h])
<1>1. \A i \in Frame : held[i] # p
  BY FindFrameSpec
<1>2. disk[p] \in Value
  BY <1>1 DEF FileCurrent, TypeOK
<1>3. InUse' = InUse \cup {f}
  BY ContentAssumption DEF InUse, Install, TypeOK
<1>4. /\ StampsOrdered'
      /\ clock' \in 0..MaxClock
      /\ last_used' \in [Frame -> 0..MaxClock]
  BY <1>3, TouchSpec DEF Install
<1>5. pins \in [Frame -> Nat] /\ pin_count' = [pins EXCEPT ![f] = 1]
  BY UnpinType DEF Install
<1>6. disk' \in [Page -> Value \cup {Torn, Unallocated}] => TypeOK'
  <2>1. pin_count' \in [Frame -> Nat]
    BY <1>5
  <2>2. /\ held' \in [Frame -> Page \cup {NoPage}]
        /\ data' \in [Frame -> Value \cup {Torn, NoValue}]
        /\ dirty' \in SUBSET Frame
    BY <1>2 DEF TypeOK, Install
  <2>3. /\ handles' \in [Handle -> Frame \cup {NoFrame}]
        /\ nframes' \in Frame /\ capacity' \in Frame
    BY DEF TypeOK, Install
  <2>4. QED
    BY <1>4, <2>1, <2>2, <2>3 DEF TypeOK
<1>7. NoDuplicatePages'
  BY <1>1, <1>3, ContentAssumption DEF NoDuplicatePages, Install, TypeOK, InUse
<1>8. ASSUME NEW i \in Frame
      PROVE  /\ pin_count'[i] = Cardinality(Holders(i)')
             /\ pin_count'[i] > 0 => i \in InUse'
  <2>1. f \in Frame \cup {NoFrame} /\ handles' = [handles EXCEPT ![h] = f]
    BY DEF Install
  <2>2. Cardinality(Holders(i)') = pins[i] + (IF i = f THEN 1 ELSE 0)
    BY <2>1, RepinnedPins
  <2>3. pins[i] \in Nat /\ pins[i] <= pin_count[i] /\ pins[f] = 0
    BY <1>5, ReleasedPins
  <2> HIDE DEF pins
  <2>4. pin_count'[i] = pins[i] + (IF i = f THEN 1 ELSE 0)
    BY <1>5, <2>3
  <2>5. QED
    BY <1>3, <2>2, <2>3, <2>4 DEF PinsMatchHandles, TypeOK
<1>9. PinsMatchHandles'
  BY <1>8 DEF PinsMatchHandles
<1>10. QED
  BY <1>2, <1>3, <1>4, <1>6, <1>7, <1>9 DEF Install

\* A page read into a free frame keeps the residents within the capacity.
LEMMA FetchLoadInv ==
  ASSUME IInv, NEW h \in Handle, NEW p \in Page, FetchLoad(h, p)
  PROVE  IInv'
<1> USE DEF IInv
<1>1. PICK f \in FreeFrames : Install(h, p, f, UnpinFrame(handles[h]))
  BY DEF FetchLoad
<1>2. f \in Frame /\ f \notin InUse /\ f <= nframes
  BY CapacityAssumption DEF FreeFrames, InUse, TypeOK, Frame
<1>3. UnpinFrame(handles[h])[f] = 0
  <2>1. pin_count[f] = 0
    BY <1>2 DEF PinsMatchHandles, TypeOK
  <2>2. QED
    BY <1>2, <2>1, ReleasedPins, UnpinType
<1>4. ~ Resident(p) /\ disk[p] # Unallocated /\ disk' = disk
  BY DEF FetchLoad, Readable
<1>5. /\ InUse' = InUse \cup {f}
      /\ disk[p] \in Value
      /\ held' = [held EXCEPT ![f] = p]
      /\ data' = [data EXCEPT ![f] = disk[p]]
      /\ dirty' = dirty \ {f}
      /\ TypeOK'
      /\ NoDuplicatePages' /\ PinsMatchHandles' /\ StampsOrdered'
  BY <1>1, <1>2, <1>3, <1>4, InstallKeeps DEF TypeOK
<1>6. ResidentsFit'
  <2>1. InUse \in SUBSET Frame
    BY DEF InUse
  <2>2. size' = size + 1
    BY <1>2, <1>5, <2>1, InUseFinite, FS_AddElement DEF size
  <2>3. size \in Nat /\ size < capacity /\ capacity' = capacity /\ nframes' = nframes
    BY <1>1, <2>1, InUseFinite DEF FetchLoad, HasRoom, Install, size
  <2>4. QED
    BY <1>2, <1>5, <2>2, <2>3, CapacityAssumption DEF ResidentsFit, TypeOK, Frame
<1>7. FileCurrent'
  <2>1. \A i \in InUse : held'[i] = held[i] /\ data'[i] = data[i]
    BY <1>2, <1>5 DEF InUse, TypeOK
  <2>2. held'[f] = p /\ data'[f] = disk[p]
    BY <1>2, <1>5 DEF TypeOK
  <2>3. dirty' = dirty
    BY <1>2, <1>5 DEF FileCurrent
  <2>4. QED
    BY <1>4, <1>5, <2>1, <2>2, <2>3 DEF FileCurrent
<1>8. QED
  BY <1>5, <1>6, <1>7

\* A page read into the frame of a victim that was written back first.
LEMMA FetchReplaceInv ==
  ASSUME IInv, NEW h \in Handle, NEW p \in Page, FetchReplace(h, p)
  PROVE  IInv'
<1> USE DEF IInv
<1>1. PICK f \in Frame : /\ IsVictim(f, UnpinFrame(handles[h]))
                         /\ Install(h, p, f, UnpinFrame(handles[h]))
                         /\ disk' = WriteBack({f})
  BY DEF FetchReplace
<1>2. f \in InUse /\ UnpinFrame(handles[h])[f] = 0
  BY <1>1 DEF IsVictim, Candidates
<1>3. ~ Resident(p) /\ disk[p] # Unallocated
  BY DEF FetchReplace, Readable
<1>4. disk' \in [Page -> Value \cup {Torn, Unallocated}]
  BY <1>1, WriteBackType
<1>5. /\ InUse' = InUse
      /\ disk[p] \in Value
      /\ held' = [held EXCEPT ![f] = p]
      /\ data' = [data EXCEPT ![f] = disk[p]]
      /\ dirty' = dirty \ {f}
      /\ TypeOK'
      /\ NoDuplicatePages' /\ PinsMatchHandles' /\ StampsOrdered'
  <2>1. InUse \cup {f} = InUse
    BY <1>2
  <2>2. QED
    BY <1>1, <1>2, <1>3, <1>4, <2>1, InstallKeeps
<1>6. ResidentsFit'
  BY <1>1, <1>5 DEF ResidentsFit, size, Install
<1>7. FileCurrent'
  <2>0. \A i \in Frame : held[i] # p
    BY <1>3, FindFrameSpec
  <2>1. \A i \in InUse \ {f} : /\ held'[i] = held[i] /\ data'[i] = data[i]
                               /\ held[i] \in Page /\ held[i] # held[f]
    BY <1>2, <1>5 DEF InUse, TypeOK, NoDuplicatePages
  <2>2. held'[f] = p /\ data'[f] = disk[p]
    BY <1>5 DEF TypeOK
  <2>3. \A q \in Page : q # held[f] => disk'[q] = disk[q]
    BY <1>1, WriteBackSpec
  <2>4. disk'[p] = disk[p]
    BY <2>0, <2>3
  <2>5. ASSUME NEW q \in Page, disk'[q] = Torn
        PROVE  \E i \in dirty' : held'[i] = q
    <3>1. q # held[f]
      <4>1. SUFFICES ASSUME q = held[f] PROVE FALSE
        OBVIOUS
      <4>2. CASE f \in dirty
        <5>1. disk'[q] = data[f]
          BY <1>1, <4>1, <4>2, WriteBackSpec
        <5>2. QED
          BY <1>2, <2>5, <5>1, ContentAssumption DEF FileCurrent
      <4>3. CASE f \notin dirty
        <5>1. disk'[q] = disk[q]
          BY <1>1, <4>3, WriteBackSpec
        <5>2. PICK i \in dirty : held[i] = q
          BY <2>5, <5>1 DEF FileCurrent
        <5>3. QED
          BY <1>2, <4>1, <4>3, <5>2 DEF FileCurrent, NoDuplicatePages
      <4>4. QED
        BY <4>2, <4>3
    <3>2. PICK i \in dirty : held[i] = q
      BY <2>3, <2>5, <3>1 DEF FileCurrent
    <3>3. i \in InUse \ {f} /\ i \in dirty'
      BY <1>5, <3>1, <3>2 DEF FileCurrent
    <3>4. QED
      BY <2>1, <3>2, <3>3
  <2>6. ASSUME NEW i \in InUse \ dirty'
        PROVE  disk'[held'[i]] = data'[i]
    <3>1. CASE i = f
      BY <2>2, <2>4, <3>1
    <3>2. CASE i # f
      <4>1. disk[held[i]] = data[i]
        BY <1>5, <2>6, <3>2 DEF FileCurrent
      <4>2. QED
        BY <2>1, <2>3, <3>2, <4>1
    <3>3. QED
      BY <3>1, <3>2
  <2>7. ASSUME NEW i \in InUse
        PROVE  data'[i] \in Value /\ disk'[held'[i]] # Unallocated
    <3>1. CASE i = f
      BY <1>3, <1>5, <2>2, <2>4, <3>1
    <3>2. CASE i # f
      BY <2>1, <2>3, <3>2 DEF FileCurrent
    <3>3. QED
      BY <3>1, <3>2
  <2>8. QED
    BY <1>5, <2>5, <2>6, <2>7 DEF FileCurrent
<1>8. QED
  BY <1>5, <1>6, <1>7

\* A shrink drops only unpinned pages, each written back if it was dirty.
LEMMA ShrinkInv ==
  ASSUME IInv, NEW n \in Frame, Shrink(n)
  PROVE  IInv'
<1> USE DEF IInv
<1>1. PICK V \in SUBSET Unpinned :
         /\ ShrinkVictims(n, V)
         /\ disk' = WriteBack(V)
         /\ held' = [i \in Frame |-> IF i \in V THEN NoPage ELSE held[i]]
         /\ data' = [i \in Frame |-> IF i \in V THEN NoValue ELSE data[i]]
         /\ dirty' = dirty \ V
         /\ last_used' = [i \in Frame |-> IF i \in V THEN 0 ELSE last_used[i]]
         /\ \E m \in n..nframes : /\ TrimFreeFrames(m, n, InUse \ V)
                                  /\ nframes' = m
  BY DEF Shrink
<1>2. /\ V \in SUBSET InUse /\ InUse \in SUBSET Frame /\ V \in SUBSET Frame
      /\ \A i \in V : pin_count[i] = 0
  BY DEF Unpinned, InUse
<1>3. InUse' = InUse \ V
  BY <1>1, <1>2 DEF InUse
<1>4. /\ \A i \in InUse \ V : /\ held'[i] = held[i] /\ data'[i] = data[i]
                              /\ last_used'[i] = last_used[i]
  BY <1>1, <1>2
<1>5. UNCHANGED <<pin_count, clock, handles>> /\ capacity' = n
  BY DEF Shrink
<1>6. nframes' \in n..nframes /\ \A i \in InUse \ V : i <= nframes'
  BY <1>1 DEF TrimFreeFrames
<1>7. disk' \in [Page -> Value \cup {Torn, Unallocated}]
  BY <1>1, <1>2, WriteBackType
<1>8. TypeOK'
  <2>1. nframes' \in Frame
    BY <1>6, CapacityAssumption DEF TypeOK, Frame
  <2>2. /\ held' \in [Frame -> Page \cup {NoPage}]
        /\ data' \in [Frame -> Value \cup {Torn, NoValue}]
    BY <1>1 DEF TypeOK
  <2>3. last_used' \in [Frame -> 0..MaxClock]
    BY <1>1, CapacityAssumption DEF TypeOK
  <2>4. QED
    BY <1>1, <1>5, <1>7, <2>1, <2>2, <2>3 DEF TypeOK
<1>9. ResidentsFit'
  <2>1. /\ size \in Nat /\ Cardinality(V) \in Nat
        /\ IsFiniteSet(InUse) /\ IsFiniteSet(V)
    BY <1>2, InUseFinite DEF size
  <2>2. size' = size - Cardinality(V)
    <3>1. InUse \cap V = V
      BY <1>2
    <3>2. Cardinality(InUse \ V) = Cardinality(InUse) - Cardinality(InUse \cap V)
      BY <2>1, FS_Difference
    <3>3. QED
      BY <1>3, <3>1, <3>2 DEF size
  <2>3. Cardinality(V) = Needed(n)
    BY <1>1 DEF ShrinkVictims
  <2>4. size' <= n
    BY <2>1, <2>2, <2>3, CapacityAssumption DEF Needed, Frame
  <2>5. QED
    BY <1>3, <1>5, <1>6, <2>4 DEF ResidentsFit
<1>10. NoDuplicatePages'
  BY <1>3, <1>4 DEF NoDuplicatePages
<1>11. PinsMatchHandles'
  <2>1. \A i \in Frame : pin_count[i] > 0 => i \in InUse \ V
    BY <1>2 DEF PinsMatchHandles
  <2>2. QED
    BY <1>3, <1>5, <2>1 DEF PinsMatchHandles, Holders
<1>12. StampsOrdered'
  BY <1>3, <1>4, <1>5 DEF StampsOrdered
<1>13. FileCurrent'
  <2>1. ASSUME NEW q \in Page, disk'[q] = Torn
        PROVE  \E i \in dirty' : held'[i] = q
    <3>1. \A i \in V \cap dirty : held[i] # q
      BY <1>1, <1>2, <2>1, WriteBackSpec, ContentAssumption DEF FileCurrent
    <3>2. disk[q] = Torn
      BY <1>1, <1>2, <2>1, <3>1, WriteBackSpec
    <3>3. PICK i \in dirty : held[i] = q
      BY <3>2 DEF FileCurrent
    <3>4. i \in InUse \ V /\ i \in dirty'
      BY <1>1, <3>1, <3>3 DEF FileCurrent
    <3>5. QED
      BY <1>4, <3>3, <3>4
  <2>2. ASSUME NEW i \in InUse \ V
        PROVE  disk'[held[i]] = disk[held[i]]
    <3>1. held[i] \in Page
      BY DEF InUse, TypeOK
    <3>2. \A j \in V \cap dirty : held[j] # held[i]
      BY <1>2 DEF NoDuplicatePages
    <3>3. QED
      BY <1>1, <1>2, <3>1, <3>2, WriteBackSpec
  <2>3. ASSUME NEW i \in InUse' \ dirty'
        PROVE  disk'[held'[i]] = data'[i]
    BY <1>1, <1>3, <1>4, <2>2, <2>3 DEF FileCurrent
  <2>4. ASSUME NEW i \in InUse'
        PROVE  data'[i] \in Value /\ disk'[held'[i]] # Unallocated
    BY <1>3, <1>4, <2>2, <2>4 DEF FileCurrent
  <2>5. dirty' \subseteq InUse'
    BY <1>1, <1>3 DEF FileCurrent
  <2>6. QED
    BY <2>1, <2>3, <2>4, <2>5 DEF FileCurrent
<1>14. QED
  BY <1>8, <1>9, <1>10, <1>11, <1>12, <1>13

-----------------------------------------------------------------------------
(* The invariant *)

\* An empty pool satisfies the invariant.
LEMMA InitInv == Init => IInv
<1>1. SUFFICES ASSUME Init PROVE IInv
  OBVIOUS
<1>2. TypeOK
  BY <1>1, ContentAssumption, CapacityAssumption DEF Init, TypeOK
<1>3. InUse = {}
  BY <1>1 DEF Init, InUse
<1>4. ResidentsFit
  BY <1>1, <1>3, FS_EmptySet, CapacityAssumption DEF Init, ResidentsFit, size, Frame
<1>5. NoDuplicatePages /\ StampsOrdered
  BY <1>3 DEF NoDuplicatePages, StampsOrdered
<1>6. PinsMatchHandles
  <2>1. \A i \in Frame : Holders(i) = {} /\ pin_count[i] = 0
    BY <1>1, CapacityAssumption DEF Init, Holders, NoFrame, Frame
  <2>2. QED
    BY <2>1, FS_EmptySet DEF PinsMatchHandles
<1>7. FileCurrent
  BY <1>1, <1>3, ContentAssumption DEF Init, FileCurrent
<1>8. QED
  BY <1>2, <1>4, <1>5, <1>6, <1>7 DEF IInv

\* Every step keeps the invariant.
LEMMA NextInv == IInv /\ [Next]_vars => IInv'
<1>1. SUFFICES ASSUME IInv, [Next]_vars PROVE IInv'
  OBVIOUS
<1>2. ASSUME NEW h \in Handle, NEW p \in Page, Fetch(h, p)
      PROVE  IInv'
  <2>1. CASE FetchHit(h, p)
    BY <1>1, <2>1, FetchHitInv
  <2>2. CASE FetchLoad(h, p)
    BY <1>1, <2>2, FetchLoadInv
  <2>3. CASE FetchReplace(h, p)
    BY <1>1, <2>3, FetchReplaceInv
  <2>4. CASE FetchUnreadable(h, p)
    BY <1>1, <2>4, ReleaseInv DEF FetchUnreadable, FetchFails
  <2>5. CASE FetchFull(h, p)
    BY <1>1, <2>5, ReleaseInv DEF FetchFull, FetchFails
  <2>6. CASE FetchFlushFails(h, p)
    BY <1>1, <2>6, FetchFlushFailsInv
  <2>7. QED
    BY <1>2, <2>1, <2>2, <2>3, <2>4, <2>5, <2>6 DEF Fetch
<1>3. ASSUME NEW n \in Frame, Resize(n)
      PROVE  IInv'
  BY <1>1, <1>3, GrowInv, ShrinkInv, ShrinkFlushFailsInv DEF Resize
<1>4. ASSUME NEW h \in Handle, Unpin(h)
      PROVE  IInv'
  BY <1>1, <1>4, ReleaseInv DEF Unpin
<1>5. CASE UNCHANGED vars
  <2>1. InUse' = InUse
    BY <1>5 DEF InUse, vars
  <2>2. TypeOK' /\ FileCurrent'
    BY <1>1, <1>5, <2>1 DEF IInv, vars, TypeOK, FileCurrent
  <2>3. QED
    BY <1>1, <1>5, <2>2, SameFrames DEF vars, TypeOK
<1>6. QED
  BY <1>1, <1>2, <1>3, <1>4, <1>5, AllocatePageInv, ModifyInv, MoveAssignInv,
     FlushPageInv, FlushAllInv DEF Next

\* Every reachable state of the pool satisfies the inductive invariant.
THEOREM Invariance == Spec => []IInv
  BY InitInv, NextInv, PTL DEF Spec

\* Type correctness; in particular the stamps stay within the 64-bit clock for
\* ever, because renumbering leaves room above the frames in use.
THEOREM TypeCorrect == Spec => []TypeOK
<1>1. IInv => TypeOK
  BY DEF IInv
<1>2. QED
  BY <1>1, Invariance, PTL

\* Resident pages fit the capacity and the deque covers capacity and residents,
\* through any sequence of fetches and resizes.
THEOREM PoolFits == Spec => []ResidentsFit
<1>1. IInv => ResidentsFit
  BY DEF IInv
<1>2. QED
  BY <1>1, Invariance, PTL

\* Pins and Handles correspond one to one for any number of Handles.
THEOREM PinsBalanced == Spec => []PinsMatchHandles
<1>1. IInv => PinsMatchHandles
  BY DEF IInv
<1>2. QED
  BY <1>1, Invariance, PTL

\* No page is ever cached twice, whatever was evicted, moved or resized.
THEOREM PagesUnique == Spec => []NoDuplicatePages
<1>1. IInv => NoDuplicatePages
  BY DEF IInv
<1>2. QED
  BY <1>1, Invariance, PTL

\* No failed or torn write ever costs a page that is not still dirty in memory.
THEOREM NothingLost == Spec => []FileCurrent
<1>1. IInv => FileCurrent
  BY DEF IInv
<1>2. QED
  BY <1>1, Invariance, PTL

\* Recency is a strict order of the resident pages, renumbering included.
THEOREM RecencyTotal == Spec => []StampsOrdered
<1>1. IInv => StampsOrdered
  BY DEF IInv
<1>2. QED
  BY <1>1, Invariance, PTL

\* The frames that other Handles than h are on.
Occupied(h) == {i \in InUse : Others(h, i) # {}}

\* The other Handles hold one page per frame they are on.
LEMMA HeldPerFrame ==
  ASSUME IInv, NEW h \in Handle
  PROVE  LET H == {HeldBy(g) : g \in Handle \ {h}} \ {NoPage}
         IN  Cardinality(H) \in Nat /\ Cardinality(Occupied(h)) <= Cardinality(H)
<1> USE DEF IInv
<1> DEFINE T == Handle \ {h}
           All == {HeldBy(g) : g \in T}
           H == All \ {NoPage}
           f == [i \in Occupied(h) |-> held[i]]
<1>1. IsFiniteSet(H)
  <2>1. IsFiniteSet(T)
    BY FS_Subset, ContentAssumption
  <2> DEFINE hb == [g \in T |-> HeldBy(g)]
  <2>2. hb \in Surjection(T, All)
    BY DEF Surjection
  <2>3. IsFiniteSet(All)
    <3> HIDE DEF T, All, hb
    <3>1. QED
      BY <2>1, <2>2, FS_Surjection
  <2>4. QED
    <3> HIDE DEF All
    <3>1. QED
      BY <2>3, FS_RemoveElement
<1>2. \A i \in Occupied(h) : f[i] \in H
  <2>1. SUFFICES ASSUME NEW i \in Occupied(h) PROVE held[i] \in H
    OBVIOUS
  <2>2. PICK g \in Handle \ {h} : handles[g] = i
    BY DEF Occupied, Others
  <2>3. i \in Frame /\ held[i] # NoPage
    BY DEF Occupied, InUse
  <2>4. HeldBy(g) = held[i]
    BY <2>2, <2>3, CapacityAssumption DEF HeldBy, NoFrame, Frame
  <2>5. QED
    BY <2>2, <2>3, <2>4
<1>3. \A i, j \in Occupied(h) : f[i] = f[j] => i = j
  BY DEF Occupied, NoDuplicatePages
<1>4. f \in Injection(Occupied(h), H)
  <2> HIDE DEF H
  <2>1. QED
    BY <1>2, <1>3 DEF Injection, IsInjective
<1>5. QED
  <2> HIDE DEF H, f
  <2>1. Cardinality(H) \in Nat /\ Cardinality(Occupied(h)) <= Cardinality(H)
    BY <1>1, <1>4, FS_Injection, FS_CardinalityType
  <2>2. QED
    BY <2>1 DEF H

\* A pool without room has at least as many residents as its capacity: the
\* deque does not end below the capacity, so running out of free frames means
\* the same as running out of capacity.
LEMMA NoRoomMeansFull ==
  ASSUME IInv, ~HasRoom
  PROVE  capacity <= Cardinality(InUse) /\ Cardinality(InUse) \in Nat
<1> USE DEF IInv
<1>1. InUse \in SUBSET Frame
  BY DEF InUse
<1>2. IsFiniteSet(InUse) /\ Cardinality(InUse) \in Nat
  BY <1>1, InUseFinite
<1>3. CASE size >= capacity
  BY <1>2, <1>3 DEF size, TypeOK, Frame
<1>4. CASE FreeFrames = {}
  <2>1. 1..nframes \in SUBSET InUse
    <3>1. 1..nframes \in SUBSET Frame
      BY CapacityAssumption DEF TypeOK, Frame
    <3>2. \A i \in 1..nframes : held[i] # NoPage
      BY <1>4 DEF FreeFrames
    <3>3. QED
      BY <3>1, <3>2 DEF InUse
  <2>2. Cardinality(1..nframes) = nframes
    BY FS_Interval, CapacityAssumption DEF TypeOK, Frame
  <2>3. nframes <= Cardinality(InUse)
    BY <1>2, <2>1, <2>2, FS_Subset
  <2>4. QED
    BY <1>2, <2>3, CapacityAssumption DEF ResidentsFit, TypeOK, Frame
<1>5. QED
  BY <1>2, <1>3, <1>4, CapacityAssumption DEF HasRoom, size, TypeOK, Frame

\* A Fetch answers kBufferFull only when the other Handles hold as many
\* different pages as the capacity, one fewer when the clock is at its end.
\* The three facts it rests on come from elsewhere in the invariant: a frame is
\* pinned by Handles alone, no page is in two frames, and at most one resident
\* bears the last stamp.
THEOREM FullOnlyHeld == Spec => FullMeansHeld
<1>1. ASSUME IInv, NEW h \in Handle, NEW p \in Page, FetchFull(h, p)
      PROVE  Cardinality({HeldBy(g) : g \in Handle \ {h}} \ {NoPage}) >=
                IF clock = MaxClock THEN capacity - 1 ELSE capacity
  <2> USE <1>1 DEF IInv
  <2> DEFINE Last == InUse \ Occupied(h)
  <2>1. capacity <= Cardinality(InUse) /\ Cardinality(InUse) \in Nat
    BY NoRoomMeansFull DEF FetchFull
  <2>2. InUse \in SUBSET Frame /\ Occupied(h) \in SUBSET InUse
    BY DEF InUse, Occupied
  <2>3. ASSUME NEW i \in Last
        PROVE  last_used[i] = MaxClock /\ clock = MaxClock
    <3>1. i \in Frame /\ i \in InUse /\ Others(h, i) = {}
      BY <2>2, <2>3 DEF Occupied
    <3>2. UnpinFrame(handles[h])[i] = 0
      BY <3>1, ReleasedPins, FS_EmptySet
    <3>3. ~(last_used[i] < MaxClock)
      BY <3>1, <3>2 DEF FetchFull, Candidates
    <3>4. last_used[i] \in 1..clock /\ clock \in 0..MaxClock
      BY <3>1 DEF StampsOrdered, TypeOK
    <3>5. QED
      BY <3>3, <3>4, CapacityAssumption
  <2>4. \A i, j \in Last : i = j
    BY <2>2, <2>3 DEF StampsOrdered
  <2>5. IsFiniteSet(InUse) /\ IsFiniteSet(Occupied(h)) /\ Cardinality(Occupied(h)) \in Nat
    BY <2>2, InUseFinite
  <2>6. Cardinality(Occupied(h)) >=
            IF clock = MaxClock THEN Cardinality(InUse) - 1 ELSE Cardinality(InUse)
    <3>1. CASE Last = {}
      <4>1. Occupied(h) = InUse
        BY <2>2, <3>1
      <4>2. QED
        BY <2>1, <4>1
    <3>2. CASE Last # {}
      <4>1. PICK i : i \in Last
        BY <3>2
      <4>2. Occupied(h) = InUse \ {i} /\ i \in InUse
        BY <2>2, <2>4, <4>1
      <4>3. Cardinality(InUse \ {i}) = Cardinality(InUse) - 1
        BY <2>5, <4>2, FS_RemoveElement
      <4>4. clock = MaxClock
        BY <2>3, <4>1
      <4>5. QED
        BY <2>1, <4>2, <4>3, <4>4
    <3>3. QED
      BY <3>1, <3>2
  <2> DEFINE K == Cardinality({HeldBy(g) : g \in Handle \ {h}} \ {NoPage})
  <2>7. K \in Nat /\ Cardinality(Occupied(h)) <= K
    BY HeldPerFrame
  <2>8. capacity \in Nat
    BY CapacityAssumption DEF TypeOK, Frame
  <2>9. K >= IF clock = MaxClock THEN capacity - 1 ELSE capacity
    <3> HIDE DEF K
    <3>1. QED
      BY <2>1, <2>5, <2>6, <2>7, <2>8
  <2>10. QED
    BY <2>9
<1>2. IInv /\ [Next]_vars =>
        [\A h \in Handle, p \in Page :
            FetchFull(h, p) =>
              Cardinality({HeldBy(g) : g \in Handle \ {h}} \ {NoPage}) >=
                  IF clock = MaxClock THEN capacity - 1 ELSE capacity]_vars
  BY <1>1
<1>3. QED
  BY <1>2, Invariance, PTL DEF Spec, FullMeansHeld

-----------------------------------------------------------------------------
(* The pool implements PageView *)

\* The view in terms of frames: memory where the page is resident, else the file.
ViewOf == /\ \A i \in InUse : Contents[held[i]] = data[i]
          /\ \A p \in Page : (\A i \in Frame : held[i] # p) => Contents[p] = disk[p]
          /\ \A h \in Handle : /\ handles[h] = NoFrame => Holds[h] = NoPage
                              /\ handles[h] # NoFrame =>
                                    handles[h] \in InUse /\ Holds[h] = held[handles[h]]

\* Contents and Holds in terms of frames.
LEMMA ViewLemma == IInv => ViewOf
<1>1. SUFFICES ASSUME IInv PROVE ViewOf
  OBVIOUS
<1> USE <1>1 DEF IInv
<1>2. ASSUME NEW i \in InUse
      PROVE  Contents[held[i]] = data[i]
  <2>1. held[i] \in Page /\ i \in Frame
    BY DEF InUse, TypeOK
  <2>2. FindFrame(held[i]) = i /\ Resident(held[i])
    BY <2>1, FindFrameHit, FindFrameSpec
  <2>3. QED
    BY <2>1, <2>2 DEF Contents
<1>3. ASSUME NEW p \in Page, \A i \in Frame : held[i] # p
      PROVE  Contents[p] = disk[p]
  BY <1>3, FindFrameSpec DEF Contents
<1>4. ASSUME NEW h \in Handle, handles[h] # NoFrame
      PROVE  handles[h] \in InUse
  <2>1. handles[h] \in Frame
    BY <1>4 DEF TypeOK
  <2>2. Holders(handles[h]) # {} /\ IsFiniteSet(Holders(handles[h]))
    BY FS_Subset, ContentAssumption DEF Holders
  <2>3. pin_count[handles[h]] > 0
    BY <2>1, <2>2, FS_EmptySet DEF PinsMatchHandles, TypeOK
  <2>4. QED
    BY <2>1, <2>3 DEF PinsMatchHandles
<1>5. QED
  BY <1>2, <1>3, <1>4 DEF ViewOf, Holds, HeldBy

\* The same after a step.
LEMMA ViewLemmaPrime == IInv' => ViewOf'
  BY ViewLemma, PTL

\* Writes to pages that are resident do not show.
LEMMA SameContents ==
  ASSUME IInv, IInv', UNCHANGED <<held, data>>,
         \A p \in Page : (\A i \in Frame : held[i] # p) => disk'[p] = disk[p]
  PROVE  Contents' = Contents
<1>1. ViewOf /\ ViewOf'
  BY ViewLemma, ViewLemmaPrime
<1>2. InUse' = InUse
  BY DEF InUse
<1>3. ASSUME NEW p \in Page
      PROVE  Contents'[p] = Contents[p]
  <2>1. CASE \E i \in Frame : held[i] = p
    <3>1. PICK i \in Frame : held[i] = p
      BY <2>1
    <3>2. i \in InUse
      BY <3>1, ContentAssumption DEF InUse
    <3>3. QED
      BY <1>1, <1>2, <3>1, <3>2 DEF ViewOf
  <2>2. CASE \A i \in Frame : held[i] # p
    BY <1>1, <2>2 DEF ViewOf
  <2>3. QED
    BY <2>1, <2>2
<1>4. QED
  BY <1>3 DEF Contents

\* A write-back or a failed flush reaches resident pages only.
LEMMA FlushesAreLocal ==
  ASSUME IInv, NEW W \in SUBSET Frame, NEW f \in Frame, NEW p \in Page,
         \A i \in Frame : held[i] # p
  PROVE  /\ WriteBack(W)[p] = disk[p]
         /\ \A file \in FailedWrites(WriteBack(W), f) : file[p] = disk[p]
<1> USE DEF IInv
<1>1. WriteBack(W)[p] = disk[p]
  BY WriteBackSpec
<1>2. WriteBack(W) \in [Page -> Value \cup {Torn, Unallocated}]
  BY WriteBackType
<1>3. QED
  BY <1>1, <1>2 DEF FailedWrites

\* Flushing, wherever it happens, is invisible.
LEMMA FlushHidden ==
  ASSUME IInv, IInv', UNCHANGED <<held, data>>,
         \/ \E p \in Page : FlushPage(p)
         \/ FlushAll
         \/ \E n \in Frame : ShrinkFlushFails(n)
         \/ \E h \in Handle, p \in Page : FetchFlushFails(h, p)
  PROVE  Contents' = Contents
<1> USE DEF IInv
<1>0. dirty \in SUBSET Frame /\ WriteBack({}) = disk
  BY WriteBackNone DEF TypeOK
<1>1. SUFFICES ASSUME NEW q \in Page, \A i \in Frame : held[i] # q
               PROVE  disk'[q] = disk[q]
  BY SameContents
<1>2. ASSUME NEW p \in Page, FlushPage(p)
      PROVE  disk'[q] = disk[q]
  <2>1. FindFrame(p) \in Frame
    BY <1>2, FindFrameSpec DEF FlushPage, InUse
  <2>2. \/ disk' = WriteBack({FindFrame(p)})
        \/ disk' \in FailedWrites(WriteBack({}), FindFrame(p))
    BY <1>0, <1>2 DEF FlushPage
  <2>3. QED
    BY <1>1, <2>1, <2>2, FlushesAreLocal
<1>3. ASSUME FlushAll
      PROVE  disk'[q] = disk[q]
  <2>1. PICK failed \in SUBSET dirty : \E torn \in SUBSET failed :
          disk' = [p \in Page |-> IF \E i \in torn : held[i] = p THEN Torn
                                  ELSE WriteBack(dirty \ failed)[p]]
    BY <1>3 DEF FlushAll
  <2>2. disk'[q] = WriteBack(dirty \ failed)[q]
    BY <1>0, <1>1, <2>1
  <2>3. 1 \in Frame /\ dirty \ failed \in SUBSET Frame
    BY <1>0, CapacityAssumption DEF Frame
  <2>4. QED
    BY <1>1, <2>2, <2>3, FlushesAreLocal
<1>4. ASSUME NEW n \in Frame, ShrinkFlushFails(n)
      PROVE  disk'[q] = disk[q]
  <2>1. PICK V \in SUBSET Unpinned : \E f \in V \cap dirty :
          disk' \in FailedWrites(WriteBack({i \in V : Older(i, f)}), f)
    BY <1>4 DEF ShrinkFlushFails
  <2>2. PICK f \in V \cap dirty :
          disk' \in FailedWrites(WriteBack({i \in V : Older(i, f)}), f)
    BY <2>1
  <2>3. {i \in V : Older(i, f)} \in SUBSET Frame /\ f \in Frame
    BY DEF Unpinned, InUse
  <2>4. QED
    BY <1>1, <2>2, <2>3, FlushesAreLocal
<1>5. ASSUME NEW h \in Handle, NEW p \in Page, FetchFlushFails(h, p)
      PROVE  disk'[q] = disk[q]
  <2>1. PICK f \in dirty : disk' \in FailedWrites(WriteBack({}), f)
    BY <1>0, <1>5 DEF FetchFlushFails
  <2>2. QED
    BY <1>0, <1>1, <2>1, FlushesAreLocal
<1>6. QED
  BY <1>2, <1>3, <1>4, <1>5

\* What a Handle stands for moves with the Handle and with nothing else.
LEMMA HoldsMoves ==
  ASSUME IInv, UNCHANGED held, NEW h \in Handle, NEW f \in Frame \cup {NoFrame},
         handles' = [handles EXCEPT ![h] = f]
  PROVE  Holds' = [Holds EXCEPT ![h] = IF f = NoFrame THEN NoPage ELSE held[f]]
BY DEF IInv, TypeOK, Holds, HeldBy

\* Bringing p into frame f by evicting what f held, or into a free frame.
LEMMA InstallHidden ==
  ASSUME IInv, IInv', NEW h \in Handle, NEW p \in Page,
         FetchLoad(h, p) \/ FetchReplace(h, p)
  PROVE  /\ Contents' = Contents
         /\ Holds' = [Holds EXCEPT ![h] = p]
         /\ Contents[p] # Unallocated
<1> USE DEF IInv
<1>0. ViewOf /\ ViewOf'
  BY ViewLemma, ViewLemmaPrime
<1>1. ~ Resident(p) /\ disk[p] # Unallocated
  BY DEF FetchLoad, FetchReplace, Readable
<1>2. \A i \in Frame : held[i] # p
  BY <1>1, FindFrameSpec
<1>3. PICK f \in Frame : /\ Install(h, p, f, UnpinFrame(handles[h]))
                         /\ UnpinFrame(handles[h])[f] = 0
                         /\ disk' = IF f \in InUse THEN WriteBack({f}) ELSE disk
  <2>1. CASE FetchLoad(h, p)
    <3>1. PICK f \in FreeFrames : Install(h, p, f, UnpinFrame(handles[h]))
      BY <2>1 DEF FetchLoad
    <3>2. f \in Frame /\ f \notin InUse
      BY FreeFramesFree DEF TypeOK
    <3>3. UnpinFrame(handles[h])[f] = 0
      <4>1. pin_count[f] = 0
        BY <3>2 DEF PinsMatchHandles, TypeOK
      <4>2. QED
        BY <3>2, <4>1, ReleasedPins, UnpinType
    <3>4. QED
      BY <2>1, <3>1, <3>2, <3>3 DEF FetchLoad
  <2>2. CASE FetchReplace(h, p)
    BY <2>2 DEF FetchReplace, IsVictim, Candidates
  <2>3. QED
    BY <2>1, <2>2
<1>4. /\ held' = [held EXCEPT ![f] = p]
      /\ data' = [data EXCEPT ![f] = disk[p]]
      /\ handles' = [handles EXCEPT ![h] = f]
  BY <1>3 DEF Install
<1>5. ASSUME NEW q \in Page
      PROVE  Contents'[q] = Contents[q]
  <2>1. CASE q = p
    <3>1. f \in InUse' /\ held'[f] = p /\ data'[f] = disk[p]
      BY <1>4, ContentAssumption DEF InUse, TypeOK
    <3>2. Contents'[q] = disk[p]
      BY <1>0, <2>1, <3>1 DEF ViewOf
    <3>3. QED
      BY <1>0, <1>2, <2>1, <3>2 DEF ViewOf
  <2>2. CASE q # p /\ f \in InUse /\ held[f] = q
    <3>1. \A i \in Frame : held'[i] # q
      BY <1>4, <2>2 DEF NoDuplicatePages, InUse, TypeOK
    <3>2. Contents'[q] = disk'[q] /\ Contents[q] = data[f]
      BY <1>0, <2>2, <3>1 DEF ViewOf
    <3>3. disk' = WriteBack({f})
      BY <1>3, <2>2
    <3>4. disk'[q] = data[f]
      <4>1. CASE f \in dirty
        BY <2>2, <3>3, <4>1, WriteBackSpec
      <4>2. CASE f \notin dirty
        BY <2>2, <3>3, <4>2, WriteBackSpec DEF FileCurrent
      <4>3. QED
        BY <4>1, <4>2
    <3>5. QED
      BY <3>2, <3>4
  <2>3. CASE q # p /\ ~(f \in InUse /\ held[f] = q)
    <3>0. held[f] # q
      BY <2>3, ContentAssumption DEF InUse
    <3>1. disk'[q] = disk[q]
      BY <1>3, <3>0, WriteBackSpec
    <3>2. CASE \E i \in Frame : held[i] = q
      <4>1. PICK i \in Frame : held[i] = q
        BY <3>2
      <4>2. i \in InUse /\ i # f
        BY <3>0, <4>1, ContentAssumption DEF InUse
      <4>3. held'[i] = q /\ data'[i] = data[i] /\ i \in InUse'
        BY <1>4, <4>1, <4>2, ContentAssumption DEF InUse, TypeOK
      <4>4. QED
        BY <1>0, <4>1, <4>2, <4>3 DEF ViewOf
    <3>3. CASE \A i \in Frame : held[i] # q
      <4>1. \A i \in Frame : held'[i] # q
        BY <1>4, <2>3, <3>3 DEF TypeOK
      <4>2. QED
        BY <1>0, <3>1, <3>3, <4>1 DEF ViewOf
    <3>4. QED
      BY <3>2, <3>3
  <2>4. QED
    BY <2>1, <2>2, <2>3
<1>6. Contents' = Contents
  BY <1>5 DEF Contents
<1>7. Contents[p] # Unallocated
  BY <1>0, <1>1, <1>2 DEF ViewOf
<1>8. Holds' = [Holds EXCEPT ![h] = p]
  <2>1. ASSUME NEW g \in Handle, g # h
        PROVE  HeldBy(g)' = HeldBy(g)
    <3>1. handles'[g] = handles[g]
      BY <1>4, <2>1 DEF TypeOK
    <3>2. handles[g] # f
      <4>1. f # NoFrame /\ Cardinality(Others(h, f)) = 0 /\ IsFiniteSet(Others(h, f))
        BY <1>3, ReleasedPins, CapacityAssumption DEF NoFrame, Frame
      <4>2. Others(h, f) = {}
        BY <4>1, FS_EmptySet
      <4>3. QED
        BY <2>1, <4>2 DEF Others
    <3>3. QED
      BY <1>4, <3>1, <3>2 DEF HeldBy, TypeOK
  <2>2. HeldBy(h)' = p
    BY <1>4, CapacityAssumption DEF HeldBy, NoFrame, Frame, TypeOK
  <2>3. QED
    BY <2>1, <2>2 DEF Holds
<1>9. QED
  BY <1>6, <1>7, <1>8

\* A shrink changes neither the contents a caller sees nor what it holds.
LEMMA ShrinkHidden ==
  ASSUME IInv, IInv', NEW n \in Frame, Shrink(n)
  PROVE  Contents' = Contents /\ Holds' = Holds
<1> USE DEF IInv
<1>0. ViewOf /\ ViewOf'
  BY ViewLemma, ViewLemmaPrime
<1>1. PICK V \in SUBSET Unpinned :
         /\ disk' = WriteBack(V)
         /\ held' = [i \in Frame |-> IF i \in V THEN NoPage ELSE held[i]]
         /\ data' = [i \in Frame |-> IF i \in V THEN NoValue ELSE data[i]]
  BY DEF Shrink
<1>2. /\ V \in SUBSET InUse /\ InUse \in SUBSET Frame /\ V \in SUBSET Frame
      /\ \A i \in V : pin_count[i] = 0
  BY DEF Unpinned, InUse
<1>3. InUse' = InUse \ V
  BY <1>1, <1>2 DEF InUse
<1>4. ASSUME NEW q \in Page
      PROVE  Contents'[q] = Contents[q]
  <2>1. CASE \E i \in V : held[i] = q
    <3>1. PICK i \in V : held[i] = q
      BY <2>1
    <3>2. \A j \in Frame : held'[j] # q
      BY <1>1, <1>2, <3>1, ContentAssumption DEF NoDuplicatePages, InUse
    <3>3. Contents'[q] = disk'[q] /\ Contents[q] = data[i]
      BY <1>0, <1>2, <3>1, <3>2 DEF ViewOf
    <3>4. disk'[q] = data[i]
      <4>1. CASE i \in dirty
        BY <1>1, <1>2, <3>1, <4>1, WriteBackSpec
      <4>2. CASE i \notin dirty
        <5>1. \A j \in V \cap dirty : held[j] # q
          BY <1>2, <3>1, <4>2 DEF NoDuplicatePages
        <5>2. disk'[q] = disk[q]
          BY <1>1, <1>2, <5>1, WriteBackSpec
        <5>3. QED
          BY <1>2, <3>1, <4>2, <5>2 DEF FileCurrent
      <4>3. QED
        BY <4>1, <4>2
    <3>5. QED
      BY <3>3, <3>4
  <2>2. CASE \A i \in V : held[i] # q
    <3>1. disk'[q] = disk[q]
      BY <1>1, <1>2, <2>2, WriteBackSpec
    <3>2. CASE \E i \in Frame : held[i] = q
      <4>1. PICK i \in Frame : held[i] = q
        BY <3>2
      <4>2. i \in InUse /\ i \notin V
        BY <2>2, <4>1, ContentAssumption DEF InUse
      <4>3. held'[i] = q /\ data'[i] = data[i] /\ i \in InUse'
        BY <1>1, <1>3, <4>1, <4>2
      <4>4. QED
        BY <1>0, <4>1, <4>2, <4>3 DEF ViewOf
    <3>3. CASE \A i \in Frame : held[i] # q
      <4>1. \A i \in Frame : held'[i] # q
        BY <1>1, <3>3, ContentAssumption
      <4>2. QED
        BY <1>0, <3>1, <3>3, <4>1 DEF ViewOf
    <3>4. QED
      BY <3>2, <3>3
  <2>3. QED
    BY <2>1, <2>2
<1>5. ASSUME NEW h \in Handle
      PROVE  HeldBy(h)' = HeldBy(h)
  <2>1. handles' = handles
    BY DEF Shrink
  <2>2. CASE handles[h] = NoFrame
    BY <2>1, <2>2 DEF HeldBy
  <2>3. CASE handles[h] # NoFrame
    <3>1. handles[h] \in InUse /\ handles'[h] \in InUse'
      BY <1>0, <2>1, <2>3 DEF ViewOf
    <3>2. held'[handles[h]] = held[handles[h]]
      BY <1>1, <1>2, <1>3, <2>1, <3>1
    <3>3. QED
      BY <2>1, <2>3, <3>2 DEF HeldBy
  <2>4. QED
    BY <2>2, <2>3
<1>6. QED
  BY <1>4, <1>5 DEF Contents, Holds

\* One step of the pool is one step of PageView or none.
LEMMA ViewStep == IInv /\ IInv' /\ [Next]_vars => [View!Next]_View!vars
<1>1. SUFFICES ASSUME IInv, IInv', [Next]_vars
               PROVE  View!Next \/ (Contents' = Contents /\ Holds' = Holds)
  BY DEF View!vars
<1>2. ViewOf /\ ViewOf'
  BY <1>1, ViewLemma, ViewLemmaPrime
<1> USE <1>1
<1>3. ASSUME NEW p \in Page, AllocatePage(p)
      PROVE  View!Next
  <2>1. \A i \in Frame : held[i] # p
    BY <1>3, ContentAssumption DEF AllocatePage, IInv, FileCurrent, InUse
  <2>2. Contents[p] = Unallocated
    BY <1>2, <1>3, <2>1 DEF ViewOf, AllocatePage
  <2>3. Resident(p)' = Resident(p) /\ ~ Resident(p)
    BY <1>3, <2>1, FindFrameSpec
    DEF AllocatePage, frameVars, IInv, Resident, FindFrame
  <2>4. \A q \in Page : Resident(q)' = Resident(q) /\ FindFrame(q)' = FindFrame(q)
    BY <1>3 DEF AllocatePage, frameVars, Resident, FindFrame
  <2>5. data' = data /\ disk' = [disk EXCEPT ![p] = Blank] /\ disk \in [Page -> Value \cup {Torn, Unallocated}]
    BY <1>3 DEF AllocatePage, frameVars, IInv, TypeOK
  <2>6. Contents' = [Contents EXCEPT ![p] = Blank]
    BY <2>3, <2>4, <2>5 DEF Contents
  <2>7. Holds' = Holds
    BY <1>3 DEF AllocatePage, frameVars, Holds, HeldBy
  <2>8. View!Allocate(p, Blank)
    BY <2>2, <2>6, <2>7 DEF View!Allocate
  <2>9. QED
    BY <2>8, ContentAssumption DEF View!Next
<1>4. ASSUME NEW h \in Handle, Contents' = Contents, UNCHANGED held,
             handles' = [handles EXCEPT ![h] = NoFrame]
      PROVE  View!Next
  <2>1. Holds' = [Holds EXCEPT ![h] = NoPage]
    BY <1>4, HoldsMoves
  <2>2. View!Release(h)
    BY <1>4, <2>1 DEF View!Release
  <2>3. QED
    BY <2>2 DEF View!Next
<1>5. ASSUME UNCHANGED <<held, data, disk>>
      PROVE  Contents' = Contents
  BY <1>5, SameContents
<1>6. ASSUME NEW h \in Handle, NEW p \in Page, Fetch(h, p)
      PROVE  View!Next
  <2>1. CASE FetchHit(h, p)
    <3>1. FindFrame(p) \in InUse /\ FindFrame(p) \in Frame /\ held[FindFrame(p)] = p
      BY <2>1, FindFrameSpec DEF FetchHit, InUse, IInv
    <3>2. Contents' = Contents
      BY <1>5, <2>1 DEF FetchHit
    <3>3. FindFrame(p) # NoFrame
      BY <2>1 DEF FetchHit, Resident
    <3>4. Holds' = [Holds EXCEPT ![h] = p]
      BY <2>1, <3>1, <3>3, HoldsMoves DEF FetchHit
    <3>5. Contents[p] # Unallocated
      BY <1>2, <3>1, ContentAssumption DEF ViewOf, IInv, FileCurrent
    <3>6. View!Acquire(h, p)
      BY <3>2, <3>4, <3>5 DEF View!Acquire
    <3>7. QED
      BY <3>6 DEF View!Next
  <2>2. CASE FetchLoad(h, p) \/ FetchReplace(h, p)
    <3>1. View!Acquire(h, p)
      BY <2>2, InstallHidden DEF View!Acquire
    <3>2. QED
      BY <3>1 DEF View!Next
  <2>3. CASE FetchUnreadable(h, p) \/ FetchFull(h, p)
    BY <1>4, <1>5, <2>3 DEF FetchUnreadable, FetchFull, FetchFails
  <2>4. CASE FetchFlushFails(h, p)
    <3>1. UNCHANGED <<held, data>> /\ handles' = [handles EXCEPT ![h] = NoFrame]
      BY <2>4 DEF FetchFlushFails, FetchFails
    <3>2. Contents' = Contents
      BY <2>4, <3>1, FlushHidden
    <3>3. QED
      BY <1>4, <3>1, <3>2
  <2>5. QED
    BY <1>6, <2>1, <2>2, <2>3, <2>4 DEF Fetch
<1>7. ASSUME NEW h \in Handle, NEW v \in Value, Modify(h, v)
      PROVE  View!Next
  <2> DEFINE f == handles[h]
  <2>1. f \in InUse /\ f \in Frame /\ Holds[h] = held[f] /\ held[f] \in Page
    BY <1>2, <1>7 DEF Modify, ViewOf, InUse, IInv, TypeOK
  <2>2. held' = held /\ data' = [data EXCEPT ![f] = v] /\ disk' = disk /\ handles' = handles
    BY <1>7 DEF Modify
  <2>3. \A q \in Page : Resident(q)' = Resident(q) /\ FindFrame(q)' = FindFrame(q)
    BY <2>2 DEF Resident, FindFrame
  <2>4. FindFrame(held[f]) = f /\ Resident(held[f])
    BY <2>1, FindFrameHit, FindFrameSpec DEF IInv
  <2>5. \A q \in Page : q # held[f] /\ Resident(q) =>
            FindFrame(q) # f /\ FindFrame(q) \in Frame
    BY FindFrameSpec DEF IInv, InUse
  <2>6. Contents' = [Contents EXCEPT ![held[f]] = v]
    <3>1. data \in [Frame -> Value \cup {Torn, NoValue}]
      BY DEF IInv, TypeOK
    <3> HIDE DEF f
    <3>2. \A q \in Page : Contents'[q] = IF q = held[f] THEN v ELSE Contents[q]
      BY <2>1, <2>2, <2>3, <2>4, <2>5, <3>1 DEF Contents
    <3>3. QED
      BY <3>2 DEF Contents
  <2>7. Holds' = Holds
    BY <2>2 DEF Holds, HeldBy
  <2>8. Holds[h] # NoPage
    BY <2>1, ContentAssumption
  <2>9. View!Write(h, v)
    BY <2>1, <2>6, <2>7, <2>8 DEF View!Write
  <2>10. QED
    BY <2>9 DEF View!Next
<1>8. ASSUME NEW h \in Handle, Unpin(h)
      PROVE  View!Next
  BY <1>4, <1>5, <1>8 DEF Unpin
<1>9. ASSUME NEW dst \in Handle, NEW src \in Handle, MoveAssign(dst, src)
      PROVE  View!Next
  <2>1. Contents' = Contents
    BY <1>5, <1>9 DEF MoveAssign
  <2>2. Holds' = [Holds EXCEPT ![dst] = Holds[src], ![src] = NoPage]
    BY <1>9 DEF MoveAssign, Holds, HeldBy, IInv, TypeOK
  <2>3. View!Transfer(dst, src) /\ dst # src
    BY <1>9, <2>1, <2>2 DEF View!Transfer, MoveAssign
  <2>4. QED
    BY <2>3 DEF View!Next
<1>10. ASSUME (\E p \in Page : FlushPage(p)) \/ FlushAll
       PROVE  Contents' = Contents /\ Holds' = Holds
  <2>1. UNCHANGED <<held, data, handles>>
    BY <1>10 DEF FlushPage, FlushAll
  <2>2. QED
    BY <1>10, <2>1, FlushHidden DEF Holds, HeldBy
<1>11. ASSUME NEW n \in Frame, Resize(n)
       PROVE  Contents' = Contents /\ Holds' = Holds
  <2>1. CASE Grow(n)
    BY <1>5, <2>1 DEF Grow, Holds, HeldBy
  <2>2. CASE Shrink(n)
    BY <2>2, ShrinkHidden
  <2>3. CASE ShrinkFlushFails(n)
    <3>1. UNCHANGED <<held, data, handles>>
      BY <2>3 DEF ShrinkFlushFails
    <3>2. QED
      BY <2>3, <3>1, FlushHidden DEF Holds, HeldBy
  <2>4. QED
    BY <1>11, <2>1, <2>2, <2>3 DEF Resize
<1>12. CASE UNCHANGED vars
  BY <1>5, <1>12 DEF vars, Holds, HeldBy
<1>13. QED
  BY <1>3, <1>6, <1>7, <1>8, <1>9, <1>10, <1>11, <1>12 DEF Next

\* The pool is transparent: for every capacity, every sequence of resizes and
\* every pattern of I/O failures, callers see one content per page, changed by
\* their own writes only, and a Handle never changes the page it stands for.
THEOREM PoolIsTransparent == Spec => PageViewOK
<1>1. Init => View!Init
  <2>1. SUFFICES ASSUME Init PROVE View!Init
    OBVIOUS
  <2>2. \A p \in Page : ~ Resident(p)
    BY <2>1, ContentAssumption DEF Init, Resident, FindFrame
  <2>3. Contents \in [Page -> Value \cup {Unallocated}]
    BY <2>1, <2>2, ContentAssumption DEF Init, Contents
  <2>4. Holds = [h \in Handle |-> NoPage]
    BY <2>1 DEF Init, Holds, HeldBy
  <2>5. QED
    BY <2>3, <2>4 DEF View!Init
<1>2. QED
  BY <1>1, Invariance, ViewStep, PTL DEF Spec, PageViewOK, View!Spec
=============================================================================
