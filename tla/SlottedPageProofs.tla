------------------------- MODULE SlottedPageProofs -------------------------
(***************************************************************************)
(* Proofs about SlottedPage for every page size, header size and entry     *)
(* size.                                                                   *)
(*                                                                         *)
(* Intact is inductive together with TypeOK.  The page implements SlotMap  *)
(* because a write goes only to bytes no other live record covers: the free*)
(* region (Validate puts every record above it) or the record's own bytes  *)
(* (the last conjunct of Intact keeps the neighbours out).                 *)
(***************************************************************************)
EXTENDS SlottedPage, SequenceTheorems, WellFoundedInduction, TLAPS

IInv == TypeOK /\ Intact

\* One more directory entry takes SlotEntrySize more bytes.
LEMMA OneMoreEntry ==
    ASSUME NEW n \in Nat, NEW c \in Nat
    PROVE  (n + 1) * c = n * c + c /\ n * c \in Nat
  OBVIOUS

\* A record is a sequence of 1 to MaxRecordSize bytes.
LEMMA DataFacts ==
    ASSUME NEW data \in Data
    PROVE  /\ data \in Seq(Byte)
           /\ Len(data) \in 1..MaxRecordSize
           /\ data \in [1..Len(data) -> Byte]
  <1>1. PICK n \in 1..MaxRecordSize : data \in [1..n -> Byte]
    BY DEF Data
  <1>2. n \in Nat
    BY <1>1, SizeAssumption DEF MaxRecordSize
  <1>3. data \in Seq(Byte) /\ Len(data) = n
    BY <1>1, <1>2
  <1> QED
    BY <1>1, <1>3

\* A sequence with one more element.
LEMMA AppendFacts ==
    ASSUME NEW S, NEW q \in Seq(S), NEW x \in S
    PROVE  /\ Append(q, x) \in Seq(S)
           /\ Len(Append(q, x)) = Len(q) + 1
           /\ \A i \in 1..Len(q) : Append(q, x)[i] = q[i]
           /\ Append(q, x)[Len(q) + 1] = x
  OBVIOUS

\* Append as a function.
LEMMA AppendIs ==
    ASSUME NEW S, NEW q \in Seq(S), NEW x \in S
    PROVE  Append(q, x) = [i \in 1..(Len(q) + 1) |-> IF i = Len(q) + 1 THEN x ELSE q[i]]
  <1>1. Append(q, x) \in [1..(Len(q) + 1) -> S] /\ Len(q) \in Nat
    BY AppendFacts, LenProperties
  <1>2. \A i \in 1..(Len(q) + 1) :
          Append(q, x)[i] = IF i = Len(q) + 1 THEN x ELSE q[i]
    BY <1>1, AppendFacts
  <1> QED
    BY <1>1, <1>2

\* Replacing an element keeps the others.
LEMMA ExceptFacts ==
    ASSUME NEW S, NEW q \in Seq(S), NEW i \in 1..Len(q), NEW x \in S
    PROVE  /\ [q EXCEPT ![i] = x] \in Seq(S)
           /\ Len([q EXCEPT ![i] = x]) = Len(q)
           /\ \A j \in 1..Len(q) : j # i => [q EXCEPT ![i] = x][j] = q[j]
           /\ [q EXCEPT ![i] = x][i] = x
  OBVIOUS

\* The directory columns, typed.
LEMMA Columns ==
    ASSUME IInv
    PROVE  /\ offset \in Seq(0..PageSize)
           /\ length \in Seq(0..MaxRecordSize)
           /\ Len(offset) = slot_count
           /\ Len(length) = slot_count
  BY DEF IInv, TypeOK, slot_count

\* What every operation may assume about the page it is given.
LEMMA PageFacts ==
    ASSUME IInv
    PROVE  /\ slot_count \in Nat
           /\ free_start \in HeaderSize..PageSize
           /\ free_end \in free_start..PageSize
           /\ \A s \in Live : /\ s \in 1..slot_count
                              /\ length[s] \in 1..MaxRecordSize
                              /\ offset[s] \in free_end..PageSize
                              /\ offset[s] + length[s] \in free_end..PageSize
  <1>1. /\ slot_count \in Nat
        /\ \A s \in 1..slot_count : /\ offset[s] \in 0..PageSize
                                    /\ length[s] \in 0..MaxRecordSize
    <2>1. /\ offset \in Seq(0..PageSize) /\ Len(offset) = slot_count
          /\ length \in Seq(0..MaxRecordSize) /\ Len(length) = slot_count
      BY Columns
    <2>2. \A s \in 1..Len(offset) : offset[s] \in 0..PageSize
      BY <2>1, ElementOfSeq
    <2>3. \A s \in 1..Len(length) : length[s] \in 0..MaxRecordSize
      BY <2>1, ElementOfSeq
    <2>4. slot_count \in Nat
      BY <2>1, LenProperties
    <2> QED
      BY <2>1, <2>2, <2>3, <2>4
  <1>2. slot_count * SlotEntrySize \in Nat
    BY <1>1, OneMoreEntry, SizeAssumption
  <1>3. /\ free_start \in HeaderSize..PageSize
        /\ free_end \in free_start..PageSize
    BY <1>2, SizeAssumption DEF IInv, Intact, TypeOK, Validate, DirEnd
  <1>4. \A s \in Live : s \in 1..slot_count /\ length[s] # 0
    BY DEF Live
  <1> QED
    BY <1>1, <1>3, <1>4, SizeAssumption DEF IInv, Intact, Validate, MaxRecordSize

\* Copying keeps the bytes outside the destination and sets those inside.
LEMMA CopyFacts ==
    ASSUME IInv, NEW data \in Data, NEW at \in HeaderSize..PageSize,
           at + Len(data) <= PageSize
    PROVE  /\ Copied(at, data) \in [Offset -> Byte]
           /\ \A o \in Offset : o < at \/ at + Len(data) <= o
                                    => Copied(at, data)[o] = bytes[o]
           /\ \A i \in 1..Len(data) : Copied(at, data)[at + i - 1] = data[i]
  <1>1. Len(data) \in Nat /\ data \in [1..Len(data) -> Byte]
    BY DataFacts, SizeAssumption DEF MaxRecordSize
  <1>2. bytes \in [Offset -> Byte]
    BY DEF IInv, TypeOK
  <1> QED
    BY <1>1, <1>2, SizeAssumption DEF Copied, Offset

\* An empty page satisfies the invariant.
LEMMA InitInv == Init => IInv
  <1> SUFFICES ASSUME Init PROVE IInv
    OBVIOUS
  <1>1. slot_count = 0 /\ Live = {}
    BY DEF Init, Live, slot_count
  <1>2. DirEnd = HeaderSize
    BY <1>1, SizeAssumption DEF DirEnd
  <1> QED
    BY <1>1, <1>2, SizeAssumption DEF Init, IInv, TypeOK, Intact, Validate

\* Insert keeps the invariant: the record and its entry both come out of the
\* free region.
LEMMA InsertInv ==
    ASSUME IInv, NEW data \in Data, Insert(data)
    PROVE  IInv'
  <1> DEFINE at == free_end - Len(data)
             n  == slot_count + 1
  <1>1. Len(data) \in 1..MaxRecordSize /\ Len(data) \in Nat
    BY DataFacts, SizeAssumption DEF MaxRecordSize
  <1>2. at \in (free_start + SlotEntrySize)..PageSize /\ at + Len(data) = free_end
    BY <1>1, PageFacts, SizeAssumption, SMTT(30) DEF Insert
  <1>3. at \in 0..PageSize /\ Len(data) \in 0..MaxRecordSize
    BY <1>1, <1>2, PageFacts, SizeAssumption DEF MaxRecordSize
  <1>4. /\ offset' \in Seq(0..PageSize)
        /\ length' \in Seq(0..MaxRecordSize)
        /\ Len(offset') = n
        /\ slot_count' = n
        /\ \A s \in 1..slot_count : offset'[s] = offset[s] /\ length'[s] = length[s]
        /\ offset'[n] = at
        /\ length'[n] = Len(data)
    BY <1>3, AppendFacts, Columns DEF Insert, slot_count
  <1>5. bytes' \in [Offset -> Byte]
    BY <1>1, <1>2, CopyFacts, PageFacts, SizeAssumption, SMTT(30) DEF Insert
  <1>6. DirEnd' = DirEnd + SlotEntrySize
    BY <1>4, OneMoreEntry, PageFacts, SizeAssumption, SMTT(30) DEF DirEnd
  <1>7. /\ free_start' = free_start + SlotEntrySize
        /\ free_start' = DirEnd'
        /\ free_end' = at
    BY <1>6 DEF Insert, IInv, Intact
  <1>8. TypeOK'
    <2>1. free_start' \in 0..PageSize /\ free_end' \in 0..PageSize
      BY <1>2, <1>7, PageFacts, SizeAssumption
    <2> QED
      BY <1>4, <1>5, <2>1 DEF TypeOK, slot_count
  <1>9. Live' = Live \cup {n} /\ n \notin Live
    BY <1>1, <1>4, PageFacts DEF Live
  <1> HIDE DEF n, at
  <1>10. \A s \in Live : /\ offset'[s] = offset[s]
                         /\ length'[s] = length[s]
                         /\ s # n
    BY <1>4, <1>9, PageFacts
  <1>11. Validate'
    <2>1. DirEnd' <= PageSize /\ DirEnd' <= free_start' /\ free_start' <= free_end'
          /\ free_end' <= PageSize
      BY <1>2, <1>7, PageFacts, SizeAssumption
    <2>2. \A s \in Live' : /\ free_end' <= offset'[s]
                           /\ offset'[s] + length'[s] <= PageSize
      <3>1. \A s \in Live : /\ free_end' <= offset'[s]
                            /\ offset'[s] + length'[s] <= PageSize
        BY <1>1, <1>2, <1>7, <1>10, PageFacts
      <3>2. free_end' <= offset'[n] /\ offset'[n] + length'[n] <= PageSize
        BY <1>2, <1>4, <1>7, PageFacts
      <3> QED
        BY <1>9, <3>1, <3>2
    <2> QED
      BY <2>1, <2>2 DEF Validate
  <1>12. \A r, s \in Live' : r = s \/ Below(r, s)' \/ Below(s, r)'
    <2>1. \A r, s \in Live : r = s \/ Below(r, s)' \/ Below(s, r)'
      BY <1>10 DEF Below, IInv, Intact
    <2>2. \A s \in Live : offset'[n] + length'[n] <= offset'[s]
      BY <1>2, <1>4, <1>10, PageFacts, SMTT(30)
    <2>3. \A r, s \in Live' : r = s \/ offset'[r] + length'[r] <= offset'[s]
                                    \/ offset'[s] + length'[s] <= offset'[r]
      BY <1>9, <2>1, <2>2 DEF Below
    <2> QED
      BY <2>3 DEF Below
  <1> QED
    BY <1>7, <1>8, <1>11, <1>12 DEF IInv, Intact

\* A shorter record in place keeps the invariant: its bytes are a part of the
\* ones it had.
LEMMA UpdateInPlaceInv ==
    ASSUME IInv, NEW s \in Live, NEW data \in Data, UpdateInPlace(s, data)
    PROVE  IInv'
  <1>1. Len(data) \in 1..length[s] /\ Len(data) \in 0..MaxRecordSize
    BY DataFacts, PageFacts, SizeAssumption DEF MaxRecordSize, UpdateInPlace
  <1>2. /\ length' \in Seq(0..MaxRecordSize)
        /\ slot_count' = slot_count
        /\ \A r \in 1..slot_count : r # s => length'[r] = length[r]
        /\ length'[s] = Len(data)
        /\ UNCHANGED <<offset, free_start, free_end>>
    BY <1>1, ExceptFacts, Columns, PageFacts DEF UpdateInPlace, slot_count
  <1>3. bytes' \in [Offset -> Byte]
    BY <1>1, CopyFacts, PageFacts, SizeAssumption, SMTT(30) DEF UpdateInPlace
  <1>4. TypeOK'
    BY <1>2, <1>3, Columns DEF TypeOK, IInv, slot_count
  <1>5. Live' = Live /\ DirEnd' = DirEnd
    BY <1>1, <1>2, PageFacts, SMTT(30) DEF Live, DirEnd
  <1>6. \A r \in Live : length'[r] <= length[r] /\ length'[r] \in Nat
    <2> SUFFICES ASSUME NEW r \in Live
                 PROVE  length'[r] <= length[r] /\ length'[r] \in Nat
      OBVIOUS
    <2>1. r \in 1..slot_count /\ length[r] \in Nat /\ length[s] \in Nat
      BY PageFacts, SizeAssumption DEF MaxRecordSize
    <2>2. CASE r = s
      BY <1>1, <1>2, <2>1, <2>2
    <2>3. CASE r # s
      BY <1>2, <2>1, <2>3
    <2> QED
      BY <2>2, <2>3
  <1>7. Validate'
    <2>1. \A r \in Live : /\ offset[r] \in Nat /\ length[r] \in Nat
                          /\ free_end <= offset[r]
                          /\ offset[r] + length[r] <= PageSize
      BY PageFacts, SizeAssumption DEF MaxRecordSize
    <2>2. \A r \in Live' : /\ free_end' <= offset'[r]
                           /\ offset'[r] + length'[r] <= PageSize
      BY <1>2, <1>5, <1>6, <2>1, SizeAssumption
    <2> QED
      BY <1>2, <1>5, <2>2 DEF Validate, IInv, Intact
  <1>8. \A q, r \in Live' : q = r \/ Below(q, r)' \/ Below(r, q)'
    <2>1. \A q, r \in Live : Below(q, r) => Below(q, r)'
      <3>1. \A r \in Live : offset[r] \in Nat /\ length[r] \in Nat
        BY PageFacts, SizeAssumption DEF MaxRecordSize
      <3> QED
        BY <1>2, <1>6, <3>1 DEF Below
    <2> QED
      BY <1>5, <2>1 DEF IInv, Intact
  <1> QED
    BY <1>2, <1>4, <1>5, <1>7, <1>8 DEF IInv, Intact

\* A longer record moves to the free region and keeps the invariant.
LEMMA UpdateRelocateInv ==
    ASSUME IInv, NEW s \in Live, NEW data \in Data, UpdateRelocate(s, data)
    PROVE  IInv'
  <1> DEFINE at == free_end - Len(data)
  <1>1. Len(data) \in 1..MaxRecordSize /\ Len(data) \in Nat
    BY DataFacts, SizeAssumption DEF MaxRecordSize
  <1>2. at \in free_start..PageSize /\ at + Len(data) = free_end
    BY <1>1, PageFacts, SizeAssumption DEF UpdateRelocate
  <1>3. at \in 0..PageSize /\ Len(data) \in 0..MaxRecordSize
    BY <1>1, <1>2, PageFacts, SizeAssumption DEF MaxRecordSize
  <1>4. /\ offset' \in Seq(0..PageSize)
        /\ length' \in Seq(0..MaxRecordSize)
        /\ Len(offset') = slot_count
        /\ slot_count' = slot_count
        /\ \A r \in 1..slot_count :
              r # s => offset'[r] = offset[r] /\ length'[r] = length[r]
        /\ offset'[s] = at
        /\ length'[s] = Len(data)
    BY <1>3, ExceptFacts, Columns, PageFacts DEF UpdateRelocate, slot_count
  <1>5. bytes' \in [Offset -> Byte]
    BY <1>1, <1>2, CopyFacts, PageFacts, SizeAssumption DEF UpdateRelocate
  <1>6. free_end' = at /\ free_start' = free_start
    BY DEF UpdateRelocate
  <1>7. TypeOK'
    BY <1>3, <1>4, <1>5, <1>6 DEF TypeOK, IInv, slot_count
  <1>8. Live' = Live /\ DirEnd' = DirEnd
    BY <1>1, <1>4, PageFacts, SMTT(30) DEF Live, DirEnd
  <1> HIDE DEF at
  <1>9. Validate'
    <2>1. DirEnd' <= PageSize /\ DirEnd' <= free_start' /\ free_start' <= free_end'
          /\ free_end' <= PageSize
      BY <1>2, <1>6, <1>8, PageFacts, SizeAssumption DEF IInv, Intact
    <2>2. \A r \in Live' : /\ free_end' <= offset'[r]
                           /\ offset'[r] + length'[r] <= PageSize
      <3>1. \A r \in Live : r # s => /\ free_end' <= offset'[r]
                                     /\ offset'[r] + length'[r] <= PageSize
        BY <1>1, <1>2, <1>4, <1>6, PageFacts
      <3>2. free_end' <= offset'[s] /\ offset'[s] + length'[s] <= PageSize
        BY <1>2, <1>4, <1>6, PageFacts
      <3> QED
        BY <1>8, <3>1, <3>2
    <2> QED
      BY <2>1, <2>2 DEF Validate
  <1>10. \A q, r \in Live' : q = r \/ Below(q, r)' \/ Below(r, q)'
    <2>1. \A r \in Live : r # s => Below(s, r)'
      BY <1>2, <1>4, PageFacts DEF Below
    <2>2. \A q, r \in Live : q # s /\ r # s /\ Below(q, r) => Below(q, r)'
      BY <1>4, PageFacts DEF Below
    <2> QED
      BY <1>8, <2>1, <2>2 DEF IInv, Intact
  <1> QED
    BY <1>6, <1>7, <1>8, <1>9, <1>10 DEF IInv, Intact

\* A tombstone keeps the invariant: one live record less.
LEMMA DeleteInv ==
    ASSUME IInv, NEW s \in Live, Delete(s)
    PROVE  IInv'
  <1>1. 0 \in 0..PageSize /\ 0 \in 0..MaxRecordSize
    BY SizeAssumption DEF MaxRecordSize
  <1>2. /\ offset' \in Seq(0..PageSize)
        /\ length' \in Seq(0..MaxRecordSize)
        /\ Len(offset') = slot_count
        /\ slot_count' = slot_count
        /\ \A r \in 1..slot_count :
              r # s => offset'[r] = offset[r] /\ length'[r] = length[r]
        /\ length'[s] = 0
        /\ UNCHANGED <<free_start, free_end, bytes>>
    BY <1>1, ExceptFacts, Columns, PageFacts DEF Delete, slot_count
  <1>3. TypeOK'
    BY <1>2 DEF TypeOK, IInv, slot_count
  <1>4. Live' = Live \ {s} /\ DirEnd' = DirEnd
    BY <1>2, PageFacts DEF Live, DirEnd
  <1>5. \A r \in Live' : r \in Live /\ offset'[r] = offset[r] /\ length'[r] = length[r]
    BY <1>2, <1>4, PageFacts
  <1>6. Validate'
    BY <1>2, <1>4, <1>5 DEF Validate, IInv, Intact
  <1>7. \A q, r \in Live' : q = r \/ Below(q, r)' \/ Below(r, q)'
    BY <1>5 DEF Below, IInv, Intact
  <1> QED
    BY <1>2, <1>3, <1>4, <1>6, <1>7 DEF IInv, Intact

\* What Compact does to the directory, in terms of the new end of the free
\* region.
LEMMA CompactFacts ==
    ASSUME IInv, NEW end \in free_start..PageSize, NEW at \in [Live -> end..PageSize],
           Packed(at, end),
           offset' = [s \in 1..slot_count |-> IF s \in Live THEN at[s] ELSE offset[s]],
           UNCHANGED length
    PROVE  /\ offset' \in Seq(0..PageSize)
           /\ Len(offset') = slot_count
           /\ slot_count' = slot_count
           /\ Live' = Live
           /\ \A s \in Live : /\ offset'[s] = at[s]
                              /\ at[s] \in end..PageSize
                              /\ at[s] + length[s] <= PageSize
           /\ \A r, s \in Live : r < s => at[s] + length[s] <= at[r]
  <1>1. end \in 0..PageSize /\ end..PageSize \subseteq 0..PageSize
    BY PageFacts, SizeAssumption
  <1>2. slot_count \in Nat /\ Live \subseteq 1..slot_count
    BY PageFacts DEF Live
  <1>3. \A s \in 1..slot_count : offset[s] \in 0..PageSize
    BY Columns, ElementOfSeq
  <1>4. offset' \in [1..slot_count -> 0..PageSize]
    BY <1>1, <1>2, <1>3
  <1>5. offset' \in Seq(0..PageSize) /\ Len(offset') = slot_count
    BY <1>2, <1>4
  <1>6. slot_count' = slot_count /\ Live' = Live
    BY DEF slot_count, Live
  <1>7. \A s \in Live : offset'[s] = at[s] /\ at[s] \in end..PageSize
    BY <1>2
  <1>8. \A s \in Live : at[s] + length[s] <= PageSize
    BY DEF Packed
  <1>9. \A r, s \in Live : r < s => at[s] + length[s] <= at[r]
    BY DEF Packed
  <1> QED
    BY <1>5, <1>6, <1>7, <1>8, <1>9

\* The moved bytes are bytes of the page.
LEMMA MovedTyped ==
    ASSUME IInv, NEW end \in free_start..PageSize, NEW at \in [Live -> end..PageSize],
           NEW o \in Offset
    PROVE  Moved(at, end, o) \in Byte
  <1> DEFINE here == {s \in Live : o \in at[s]..(at[s] + length[s] - 1)}
  <1>1. bytes \in [Offset -> Byte] /\ Zero \in Byte
    BY SizeAssumption DEF IInv, TypeOK
  <1>2. CASE here # {}
    <2>1. PICK s \in here : s = CHOOSE t \in here : TRUE
      BY <1>2
    <2>2. /\ s \in Live
          /\ length[s] \in Nat /\ offset[s] \in Nat /\ at[s] \in Nat /\ o \in Nat
          /\ at[s] <= o /\ o <= at[s] + length[s] - 1
          /\ HeaderSize <= offset[s] /\ offset[s] + length[s] <= PageSize
      <3>1. s \in Live /\ o \in at[s]..(at[s] + length[s] - 1)
        BY <2>1
      <3>2. at[s] \in end..PageSize
        BY <3>1
      <3> QED
        BY <3>1, <3>2, PageFacts, SizeAssumption DEF Offset, MaxRecordSize
    <2>3. offset[s] + o - at[s] \in Offset
      BY <2>2, SizeAssumption DEF Offset
    <2>4. Moved(at, end, o) = bytes[offset[s] + o - at[s]]
      BY <1>2, <2>1 DEF Moved
    <2> QED
      BY <1>1, <2>3, <2>4
  <1>3. CASE here = {}
    BY <1>1, <1>3 DEF Moved
  <1> QED
    BY <1>2, <1>3

\* Compact keeps the invariant: in slot order the records lie one below the
\* other.
LEMMA CompactInv ==
    ASSUME IInv, Compact
    PROVE  IInv'
  <1>1. PICK end \in free_start..PageSize : \E at \in [Live -> end..PageSize] :
          /\ Packed(at, end)
          /\ offset' = [s \in 1..slot_count |-> IF s \in Live THEN at[s] ELSE offset[s]]
          /\ bytes' = [o \in Offset |-> Moved(at, end, o)]
          /\ free_end' = end
    BY DEF Compact
  <1>2. PICK at \in [Live -> end..PageSize] :
          /\ Packed(at, end)
          /\ offset' = [s \in 1..slot_count |-> IF s \in Live THEN at[s] ELSE offset[s]]
          /\ bytes' = [o \in Offset |-> Moved(at, end, o)]
          /\ free_end' = end
    BY <1>1
  <1>3. UNCHANGED <<length, free_start>>
    BY DEF Compact
  <1>4. /\ offset' \in Seq(0..PageSize)
        /\ Len(offset') = slot_count
        /\ slot_count' = slot_count
        /\ Live' = Live
        /\ \A s \in Live : /\ offset'[s] = at[s]
                           /\ at[s] \in end..PageSize
                           /\ at[s] + length[s] <= PageSize
        /\ \A r, s \in Live : r < s => at[s] + length[s] <= at[r]
    BY <1>2, <1>3, CompactFacts
  <1>5. bytes' \in [Offset -> Byte]
    BY <1>2, MovedTyped
  <1>6. DirEnd' = DirEnd
    BY <1>4 DEF DirEnd
  <1>7. TypeOK'
    BY <1>2, <1>3, <1>4, <1>5, PageFacts, SizeAssumption
    DEF TypeOK, IInv, slot_count
  <1>8. Validate'
    <2>1. DirEnd' <= PageSize /\ DirEnd' <= free_start' /\ free_start' <= free_end'
          /\ free_end' <= PageSize
      BY <1>2, <1>3, <1>6, PageFacts, SizeAssumption DEF IInv, Intact
    <2>2. free_end' = end /\ end \in Nat
      BY <1>2, PageFacts, SizeAssumption
    <2>3. \A s \in Live' : free_end' <= offset'[s] /\ offset'[s] + length'[s] <= PageSize
      BY <1>3, <1>4, <2>2, SizeAssumption
    <2> QED
      BY <2>1, <2>3 DEF Validate
  <1>9. \A r, s \in Live' : r = s \/ Below(r, s)' \/ Below(s, r)'
    <2>1. \A r, s \in Live : r = s \/ r < s \/ s < r
      BY PageFacts
    <2> QED
      BY <1>3, <1>4, <2>1 DEF Below
  <1> QED
    BY <1>3, <1>6, <1>7, <1>8, <1>9 DEF IInv, Intact

\* Every step keeps the invariant.
LEMMA NextInv == IInv /\ [Next]_vars => IInv'
  <1> SUFFICES ASSUME IInv, [Next]_vars PROVE IInv'
    OBVIOUS
  <1>1. ASSUME NEW data \in Data, Insert(data) PROVE IInv'
    BY <1>1, InsertInv
  <1>2. ASSUME NEW s \in Live, NEW data \in Data, Update(s, data) PROVE IInv'
    BY <1>2, UpdateInPlaceInv, UpdateRelocateInv DEF Update
  <1>3. ASSUME NEW s \in Live, Delete(s) PROVE IInv'
    BY <1>3, DeleteInv
  <1>4. CASE Compact
    BY <1>4, CompactInv
  <1>5. CASE UNCHANGED vars
    <2>1. Live' = Live /\ DirEnd' = DirEnd
      BY <1>5 DEF vars, Live, DirEnd, slot_count
    <2> QED
      BY <1>5, <2>1 DEF vars, IInv, TypeOK, Intact, Validate, Below
  <1> QED
    BY <1>1, <1>2, <1>3, <1>4, <1>5 DEF Next

\* The inductive invariant holds in every reachable state.
THEOREM Invariance == Spec => []IInv
  BY InitInv, NextInv, PTL DEF Spec

\* The fields of a slotted page keep their types.
THEOREM TypeCorrect == Spec => []TypeOK
  <1>1. IInv => TypeOK
    BY DEF IInv
  <1> QED
    BY <1>1, Invariance, PTL

\* Every page the operations produce passes Validate, its directory is dense and
\* no byte belongs to two live records (slotted_page.h, "Invariants maintained
\* by every successful mutation").
THEOREM LayoutSound == Spec => []Intact
  <1>1. IInv => Intact
    BY DEF IInv
  <1> QED
    BY <1>1, Invariance, PTL

-----------------------------------------------------------------------------
(* Compaction leaves no gap *)

\* A set of numbers that is not empty has a least element.
LEMMA LeastElement ==
    ASSUME NEW T \in SUBSET Nat, T # {}
    PROVE  \E x \in T : \A y \in T : x <= y
  <1>1. \E x \in T : \A y \in T : ~(<<y, x>> \in OpToRel(<, Nat))
    BY NatLessThanWellFounded, WFMin, Zenon
  <1>2. \E x \in T : \A y \in T : ~(y < x)
    BY <1>1, Zenon DEF OpToRel
  <1>3. \A x, y \in T : ~(y < x) => x <= y
    OBVIOUS
  <1> QED
    BY <1>2, <1>3, Zenon

\* Of the packed records that begin at or below an offset, the one with the
\* least slot id reaches past it: it ends where the record before it begins.
LEMMA PackedCovers ==
    ASSUME IInv, NEW end \in free_start..PageSize, NEW at \in [Live -> end..PageSize],
           Packed(at, end), NEW o \in Offset, o >= end
    PROVE  \E s \in Live : at[s] <= o /\ o < at[s] + length[s]
  <1> DEFINE Low == {s \in Live : at[s] <= o}
  <1>1. end \in Nat /\ PageSize \in Nat /\ o \in Nat /\ o < PageSize /\ Live \subseteq Nat
    BY PageFacts, SizeAssumption DEF Offset, Live
  <1>2. \A s \in Live : at[s] \in Nat /\ length[s] \in Nat
    BY <1>1, PageFacts
  <1>3. Low # {}
    BY <1>1 DEF Packed
  <1>4. PICK s \in Low : \A r \in Low : s <= r
    BY <1>1, <1>3, LeastElement
  <1>5. \A r \in Live : r < s => ~(at[r] <= o)
    BY <1>1, <1>4
  <1>6. at[s] + length[s] = PageSize \/ \E r \in Live : r < s /\ at[s] + length[s] = at[r]
    BY <1>4 DEF Packed
  <1>7. o < at[s] + length[s]
    BY <1>1, <1>2, <1>5, <1>6
  <1> QED
    BY <1>4, <1>7

\* After Compact every byte above the free region belongs to a live record, for
\* every page and record size.
THEOREM CompactReclaims == Spec => Reclaims
  <1>1. ASSUME IInv, Compact
        PROVE  (\A o \in Offset : o >= free_end => \E s \in Live : Covers(s, o))'
    <2>1. PICK end \in free_start..PageSize : \E at \in [Live -> end..PageSize] :
            /\ Packed(at, end)
            /\ offset' = [s \in 1..slot_count |-> IF s \in Live THEN at[s] ELSE offset[s]]
            /\ free_end' = end
      BY <1>1 DEF Compact
    <2>2. PICK at \in [Live -> end..PageSize] :
            /\ Packed(at, end)
            /\ offset' = [s \in 1..slot_count |-> IF s \in Live THEN at[s] ELSE offset[s]]
            /\ free_end' = end
      BY <2>1
    <2>3. UNCHANGED length
      BY <1>1 DEF Compact
    <2>4. Live' = Live /\ \A s \in Live : offset'[s] = at[s] /\ length[s] \in Nat
                                          /\ at[s] \in Nat
      BY <1>1, <2>2, <2>3, CompactFacts, PageFacts, SizeAssumption
    <2>5. SUFFICES ASSUME NEW o \in Offset, o >= end
                   PROVE  \E s \in Live : o \in at[s]..(at[s] + length[s] - 1)
      BY <2>2, <2>3, <2>4 DEF Covers
    <2>6. PICK s \in Live : at[s] <= o /\ o < at[s] + length[s]
      BY <1>1, <2>2, <2>5, PackedCovers
    <2>7. o \in Int
      BY SizeAssumption DEF Offset
    <2> QED
      BY <2>4, <2>6, <2>7
  <1>2. IInv /\ [Next]_vars =>
          [Compact => (\A o \in Offset : o >= free_end => \E s \in Live : Covers(s, o))']_vars
    BY <1>1
  <1> QED
    BY <1>2, Invariance, PTL DEF Spec, Reclaims

-----------------------------------------------------------------------------
(* Refinement *)

\* What Read returns is a record, and the slot list is a sequence of records
\* and deletion marks.
LEMMA RecordsTyped ==
    ASSUME IInv
    PROVE  /\ \A s \in Live : Read(s) \in Data
           /\ Records \in Seq(Data \cup {Deleted})
           /\ Len(Records) = slot_count
           /\ \A s \in Live : Records[s] = Read(s)
           /\ \A s \in (1..slot_count) \ Live : Records[s] = Deleted
  <1>1. \A s \in Live : Read(s) \in Data
    <2> SUFFICES ASSUME NEW s \in Live PROVE Read(s) \in Data
      OBVIOUS
    <2>1. /\ length[s] \in 1..MaxRecordSize
          /\ length[s] \in Nat /\ offset[s] \in Nat
          /\ HeaderSize <= offset[s] /\ offset[s] + length[s] <= PageSize
      BY PageFacts, SizeAssumption DEF MaxRecordSize
    <2>2. \A i \in 1..length[s] : offset[s] + i - 1 \in Offset
      BY <2>1, SizeAssumption DEF Offset
    <2>3. Read(s) \in [1..length[s] -> Byte]
      BY <2>2 DEF Read, IInv, TypeOK
    <2> QED
      BY <2>1, <2>3 DEF Data
  <1>2. Live \subseteq 1..slot_count /\ slot_count \in Nat
    BY PageFacts
  <1>3. Records \in [1..slot_count -> Data \cup {Deleted}]
    BY <1>1, <1>2 DEF Records
  <1>4. Records \in Seq(Data \cup {Deleted}) /\ Len(Records) = slot_count
    BY <1>2, <1>3
  <1> QED
    BY <1>1, <1>2, <1>4 DEF Records

\* A record whose bytes and length a step leaves alone reads the same.
LEMMA ReadKept ==
    ASSUME NEW s, length'[s] = length[s],
           \A i \in 1..length[s] : bytes'[offset'[s] + i - 1] = bytes[offset[s] + i - 1]
    PROVE  Read(s)' = Read(s)
  BY DEF Read

\* A record just copied to the place its entry names reads as it was given.
LEMMA ReadCopied ==
    ASSUME IInv, NEW s, NEW data \in Data, NEW at \in HeaderSize..PageSize,
           at + Len(data) <= PageSize, bytes' = Copied(at, data),
           offset'[s] = at, length'[s] = Len(data)
    PROVE  Read(s)' = data
  <1>1. Read(s)' = [i \in 1..Len(data) |-> bytes'[at + i - 1]]
    BY DEF Read
  <1>2. \A i \in 1..Len(data) : bytes'[at + i - 1] = data[i]
    BY CopyFacts
  <1>3. data \in [1..Len(data) -> Byte]
    BY DataFacts
  <1> QED
    BY <1>1, <1>2, <1>3

\* Copying below or above a record leaves it as it is.
LEMMA ReadUntouched ==
    ASSUME IInv, NEW s \in Live, NEW data \in Data, NEW at \in HeaderSize..PageSize,
           at + Len(data) <= PageSize, bytes' = Copied(at, data),
           offset'[s] = offset[s], length'[s] = length[s],
           at + Len(data) <= offset[s] \/ offset[s] + length[s] <= at
    PROVE  Read(s)' = Read(s)
  <1>1. Len(data) \in Nat
    BY DataFacts, SizeAssumption DEF MaxRecordSize
  <1>2. /\ length[s] \in Nat /\ offset[s] \in Nat
        /\ HeaderSize <= offset[s] /\ offset[s] + length[s] <= PageSize
    BY PageFacts, SizeAssumption DEF MaxRecordSize
  <1>3. ASSUME NEW i \in 1..length[s]
        PROVE  bytes'[offset'[s] + i - 1] = bytes[offset[s] + i - 1]
    <2>1. offset[s] + i - 1 \in Offset
      BY <1>2, SizeAssumption DEF Offset
    <2>2. offset[s] + i - 1 < at \/ at + Len(data) <= offset[s] + i - 1
      BY <1>1, <1>2, SizeAssumption
    <2> QED
      BY <2>1, <2>2, CopyFacts
  <1> QED
    BY <1>3, ReadKept

\* Insert appends to the slot list.
LEMMA InsertRefines ==
    ASSUME IInv, NEW data \in Data, Insert(data)
    PROVE  Records' = Append(Records, data)
  <1> DEFINE at == free_end - Len(data)
             n  == slot_count + 1
  <1>1. Len(data) \in 1..MaxRecordSize /\ Len(data) \in Nat
    BY DataFacts, SizeAssumption DEF MaxRecordSize
  <1>2. /\ at \in HeaderSize..PageSize
        /\ at + Len(data) = free_end
        /\ at + Len(data) <= PageSize
        /\ at \in 0..PageSize /\ Len(data) \in 0..MaxRecordSize
    BY <1>1, PageFacts, SizeAssumption, SMTT(30) DEF Insert, MaxRecordSize
  <1>3. /\ slot_count' = n
        /\ \A s \in 1..slot_count : offset'[s] = offset[s] /\ length'[s] = length[s]
        /\ offset'[n] = at
        /\ length'[n] = Len(data)
    BY <1>2, AppendFacts, Columns DEF Insert, slot_count
  <1>4. bytes' = Copied(at, data) /\ slot_count \in Nat
    BY PageFacts DEF Insert
  <1>5. Live' = Live \cup {n} /\ n \notin Live /\ Live \subseteq 1..slot_count
    BY <1>1, <1>3, PageFacts DEF Live
  <1> HIDE DEF at, n
  <1>6. \A s \in Live : Read(s)' = Read(s)
    BY <1>2, <1>3, <1>4, PageFacts, ReadUntouched, SMTT(30)
  <1>7. [i \in 1..length'[n] |-> bytes'[offset'[n] + i - 1]] = data
    <2>1. \A s : s = n => Read(s)' = data
      BY <1>2, <1>3, <1>4, ReadCopied
    <2> QED
      BY <2>1 DEF Read
  <1>8. Records' = [s \in 1..n |-> IF s = n THEN data ELSE Records[s]]
    <2>1. Records' = [s \in 1..n |-> IF s \in Live' THEN Read(s)' ELSE Deleted]
      BY <1>3 DEF Records
    <2>2. ASSUME NEW s \in 1..n
          PROVE  (IF s \in Live' THEN Read(s)' ELSE Deleted)
                     = (IF s = n THEN data ELSE Records[s])
      <3>1. CASE s = n
        BY <1>5, <1>7, <3>1 DEF Read
      <3>2. CASE s # n
        <4>1. s \in 1..slot_count
          BY <1>4, <3>2 DEF n
        <4> QED
          BY <1>5, <1>6, <3>2, <4>1, RecordsTyped
      <3> QED
        BY <3>1, <3>2
    <2> QED
      BY <2>1, <2>2
  <1>9. Records \in Seq(Data \cup {Deleted}) /\ Len(Records) = slot_count
    BY RecordsTyped
  <1>10. Append(Records, data) = [s \in 1..n |-> IF s = n THEN data ELSE Records[s]]
    BY <1>9, AppendIs DEF n
  <1> QED
    BY <1>8, <1>10

\* An update of slot s, in place or relocated, replaces one element.
LEMMA UpdateListed ==
    ASSUME IInv, NEW s \in Live, NEW data \in Data,
           slot_count' = slot_count, Live' = Live, Read(s)' = data,
           \A r \in Live : r # s => Read(r)' = Read(r)
    PROVE  Records' = [Records EXCEPT ![s] = data]
  <1>1. Records' = [r \in 1..slot_count |-> IF r \in Live THEN Read(r)' ELSE Deleted]
    BY DEF Records
  <1>2. Records = [r \in 1..slot_count |-> IF r \in Live THEN Read(r) ELSE Deleted]
    BY DEF Records
  <1>3. s \in 1..slot_count
    BY PageFacts
  <1> DEFINE F == [r \in 1..slot_count |-> IF r \in Live THEN Read(r) ELSE Deleted]
             G == [r \in 1..slot_count |-> IF r \in Live THEN Read(r)' ELSE Deleted]
  <1>4. \A r \in 1..slot_count : G[r] = IF r = s THEN data ELSE F[r]
    OBVIOUS
  <1>5. G = [F EXCEPT ![s] = data]
    BY <1>3, <1>4
  <1> QED
    BY <1>1, <1>2, <1>5

\* An update in place replaces its element and spares the neighbours.
LEMMA UpdateInPlaceRefines ==
    ASSUME IInv, NEW s \in Live, NEW data \in Data, UpdateInPlace(s, data)
    PROVE  Records' = [Records EXCEPT ![s] = data]
  <1>1. Len(data) \in 1..length[s] /\ Len(data) \in Nat
        /\ Len(data) \in 0..MaxRecordSize
    BY DataFacts, PageFacts, SizeAssumption DEF MaxRecordSize, UpdateInPlace
  <1>2. /\ slot_count' = slot_count
        /\ \A r \in 1..slot_count : r # s => length'[r] = length[r]
        /\ length'[s] = Len(data)
        /\ UNCHANGED offset
        /\ bytes' = Copied(offset[s], data)
    BY <1>1, ExceptFacts, Columns, PageFacts DEF UpdateInPlace, slot_count
  <1>3. Live' = Live
    BY <1>1, <1>2, PageFacts, SMTT(30) DEF Live
  <1>4. offset[s] \in HeaderSize..PageSize /\ offset[s] + Len(data) <= PageSize
    BY <1>1, PageFacts, SizeAssumption DEF MaxRecordSize
  <1>5. Read(s)' = data
    BY <1>2, <1>4, ReadCopied
  <1>6. ASSUME NEW r \in Live, r # s PROVE Read(r)' = Read(r)
    <2>1. Below(r, s) \/ Below(s, r)
      BY <1>6 DEF IInv, Intact
    <2>2. offset[s] + Len(data) <= offset[r] \/ offset[r] + length[r] <= offset[s]
      <3>1. /\ offset[s] \in Nat /\ length[s] \in Nat
            /\ offset[r] \in Nat /\ length[r] \in Nat
        BY PageFacts, SizeAssumption DEF MaxRecordSize
      <3> QED
        BY <1>1, <2>1, <3>1 DEF Below
    <2>3. offset'[r] = offset[r] /\ length'[r] = length[r]
      BY <1>2, <1>6, PageFacts
    <2> QED
      BY <1>2, <1>4, <2>2, <2>3, ReadUntouched
  <1> QED
    BY <1>2, <1>3, <1>5, <1>6, UpdateListed

\* A relocating update replaces its element: it writes only the free region.
LEMMA UpdateRelocateRefines ==
    ASSUME IInv, NEW s \in Live, NEW data \in Data, UpdateRelocate(s, data)
    PROVE  Records' = [Records EXCEPT ![s] = data]
  <1> DEFINE at == free_end - Len(data)
  <1>1. Len(data) \in 1..MaxRecordSize /\ Len(data) \in Nat
    BY DataFacts, SizeAssumption DEF MaxRecordSize
  <1>2. /\ at \in HeaderSize..PageSize
        /\ at + Len(data) = free_end
        /\ at + Len(data) <= PageSize
        /\ at \in 0..PageSize /\ Len(data) \in 0..MaxRecordSize
    BY <1>1, PageFacts, SizeAssumption, SMTT(30) DEF UpdateRelocate, MaxRecordSize
  <1>3. /\ slot_count' = slot_count
        /\ \A r \in 1..slot_count :
              r # s => offset'[r] = offset[r] /\ length'[r] = length[r]
        /\ offset'[s] = at
        /\ length'[s] = Len(data)
        /\ bytes' = Copied(at, data)
    BY <1>2, ExceptFacts, Columns, PageFacts DEF UpdateRelocate, slot_count
  <1>4. Live' = Live
    BY <1>1, <1>3, PageFacts DEF Live
  <1> HIDE DEF at
  <1>5. Read(s)' = data
    BY <1>2, <1>3, ReadCopied
  <1>6. ASSUME NEW r \in Live, r # s PROVE Read(r)' = Read(r)
    <2>1. offset'[r] = offset[r] /\ length'[r] = length[r]
      BY <1>3, <1>6, PageFacts
    <2>2. at + Len(data) <= offset[r]
      BY <1>2, PageFacts
    <2> QED
      BY <1>2, <1>3, <2>1, <2>2, ReadUntouched
  <1> QED
    BY <1>3, <1>4, <1>5, <1>6, UpdateListed

\* A tombstone marks its element deleted.
LEMMA DeleteRefines ==
    ASSUME IInv, NEW s \in Live, Delete(s)
    PROVE  Records' = [Records EXCEPT ![s] = Deleted]
  <1>1. 0 \in 0..PageSize /\ 0 \in 0..MaxRecordSize
    BY SizeAssumption DEF MaxRecordSize
  <1>2. /\ slot_count' = slot_count
        /\ \A r \in 1..slot_count :
              r # s => offset'[r] = offset[r] /\ length'[r] = length[r]
        /\ length'[s] = 0
        /\ bytes' = bytes
    BY <1>1, ExceptFacts, Columns, PageFacts DEF Delete, slot_count
  <1>3. Live' = Live \ {s} /\ Live \subseteq 1..slot_count
    BY <1>2, PageFacts DEF Live
  <1>4. \A r \in Live : r # s => Read(r)' = Read(r)
    BY <1>2, <1>3 DEF Read
  <1> DEFINE F == [r \in 1..slot_count |-> IF r \in Live THEN Read(r) ELSE Deleted]
             G == [r \in 1..slot_count |-> IF r \in Live' THEN Read(r)' ELSE Deleted]
  <1>5. \A r \in 1..slot_count : G[r] = IF r = s THEN Deleted ELSE F[r]
    BY <1>3, <1>4
  <1>6. G = [F EXCEPT ![s] = Deleted]
    BY <1>3, <1>5
  <1>7. Records' = G /\ Records = F
    BY <1>2 DEF Records
  <1> QED
    BY <1>6, <1>7

\* The byte at the i-th place of the moved record s is its i-th byte: no other
\* record has moved there.
LEMMA MovedByte ==
    ASSUME IInv, NEW end \in free_start..PageSize, NEW at \in [Live -> end..PageSize],
           Packed(at, end), NEW s \in Live, NEW i \in 1..length[s]
    PROVE  Moved(at, end, at[s] + i - 1) = bytes[offset[s] + i - 1]
  <1> DEFINE o == at[s] + i - 1
             here == {r \in Live : o \in at[r]..(at[r] + length[r] - 1)}
  <1>1. \A r \in Live : /\ at[r] \in Nat /\ length[r] \in Nat
                        /\ offset[r] \in Nat /\ r \in Nat
    BY PageFacts, SizeAssumption DEF MaxRecordSize
  <1>2. \A q, r \in Live : q < r => at[r] + length[r] <= at[q]
    BY DEF Packed
  <1>3. s \in here
    BY <1>1
  <1>4. ASSUME NEW r \in here PROVE r = s
    <2>1. r \in Live /\ at[r] <= o /\ o <= at[r] + length[r] - 1 /\ o \in Int
      BY <1>1
    <2>2. ~(r < s)
      BY <1>1, <1>2, <2>1
    <2>3. ~(s < r)
      BY <1>1, <1>2, <2>1
    <2> QED
      BY <1>1, <2>1, <2>2, <2>3
  <1>5. here # {} /\ (CHOOSE r \in here : TRUE) = s
    BY <1>3, <1>4
  <1>6. Moved(at, end, o) = bytes[offset[s] + o - at[s]]
    BY <1>5 DEF Moved
  <1>7. offset[s] + o - at[s] = offset[s] + i - 1
    BY <1>1
  <1> QED
    BY <1>6, <1>7

\* Compact changes no record.
LEMMA CompactRefines ==
    ASSUME IInv, Compact
    PROVE  Records' = Records
  <1>1. PICK end \in free_start..PageSize : \E at \in [Live -> end..PageSize] :
          /\ Packed(at, end)
          /\ offset' = [s \in 1..slot_count |-> IF s \in Live THEN at[s] ELSE offset[s]]
          /\ bytes' = [o \in Offset |-> Moved(at, end, o)]
    BY DEF Compact
  <1>2. PICK at \in [Live -> end..PageSize] :
          /\ Packed(at, end)
          /\ offset' = [s \in 1..slot_count |-> IF s \in Live THEN at[s] ELSE offset[s]]
          /\ bytes' = [o \in Offset |-> Moved(at, end, o)]
    BY <1>1
  <1>3. UNCHANGED length
    BY DEF Compact
  <1>4. /\ slot_count' = slot_count
        /\ Live' = Live
        /\ \A s \in Live : /\ offset'[s] = at[s]
                           /\ at[s] \in end..PageSize
                           /\ at[s] + length[s] <= PageSize
    BY <1>2, <1>3, CompactFacts
  <1>5. ASSUME NEW s \in Live PROVE Read(s)' = Read(s)
    <2>1. length'[s] = length[s] /\ offset'[s] = at[s]
      BY <1>3, <1>4
    <2>2. /\ at[s] \in Nat /\ length[s] \in Nat /\ HeaderSize <= at[s]
          /\ at[s] + length[s] <= PageSize
      BY <1>4, PageFacts, SizeAssumption DEF MaxRecordSize
    <2>3. ASSUME NEW i \in 1..length[s]
          PROVE  bytes'[offset'[s] + i - 1] = bytes[offset[s] + i - 1]
      <3>1. at[s] + i - 1 \in Offset
        BY <2>2, SizeAssumption DEF Offset
      <3>2. Moved(at, end, at[s] + i - 1) = bytes[offset[s] + i - 1]
        BY <1>2, MovedByte
      <3>3. bytes'[at[s] + i - 1] = Moved(at, end, at[s] + i - 1)
        BY <1>2, <3>1
      <3> QED
        BY <2>1, <3>2, <3>3
    <2> QED
      BY <2>1, <2>3, ReadKept
  <1> QED
    BY <1>4, <1>5 DEF Records

\* An empty page is an empty list.
LEMMA InitRefines == Init => Map!Init
  <1> SUFFICES ASSUME Init PROVE Records = <<>>
    BY DEF Map!Init
  <1>1. slot_count = 0
    BY DEF Init, slot_count
  <1> QED
    BY <1>1 DEF Records

\* Every step of the page is a step of the list or leaves the list alone.
LEMMA NextRefines == IInv /\ [Next]_vars => [Map!Next]_Records
  <1> SUFFICES ASSUME IInv, [Next]_vars PROVE [Map!Next]_Records
    OBVIOUS
  <1>0. \A s \in Live : s \in DOMAIN Records /\ Records[s] # Deleted
    <2>1. Live \subseteq 1..slot_count /\ DOMAIN Records = 1..slot_count
      BY PageFacts DEF Records
    <2> QED
      BY <2>1, RecordsTyped, DeletedAssumption
  <1>1. ASSUME NEW data \in Data, Insert(data) PROVE Map!Next
    BY <1>1, InsertRefines DEF Map!Next, Map!Insert
  <1>2. ASSUME NEW s \in Live, NEW data \in Data, Update(s, data) PROVE Map!Next
    <2>1. Records' = [Records EXCEPT ![s] = data]
      BY <1>2, UpdateInPlaceRefines, UpdateRelocateRefines DEF Update
    <2> QED
      BY <1>0, <2>1 DEF Map!Next, Map!Update
  <1>3. ASSUME NEW s \in Live, Delete(s) PROVE Map!Next
    BY <1>0, <1>3, DeleteRefines DEF Map!Next, Map!Delete
  <1>4. CASE Compact
    BY <1>4, CompactRefines
  <1>5. CASE UNCHANGED vars
    BY <1>5 DEF vars, Records, Read, Live, slot_count
  <1> QED
    BY <1>1, <1>2, <1>3, <1>4, <1>5 DEF Next

\* Slot ids are stable and records are never damaged, for every page size: the
\* page implements SlotMap.
THEOREM PageIsSlotMap == Spec => SlotMapOK
  <1>1. Init => Map!Init
    BY InitRefines
  <1>2. IInv /\ [Next]_vars => [Map!Next]_Records
    BY NextRefines
  <1> QED
    BY <1>1, <1>2, Invariance, PTL DEF Spec, SlotMapOK, Map!Spec

=============================================================================
