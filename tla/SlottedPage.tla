---------------------------- MODULE SlottedPage ----------------------------
(***************************************************************************)
(* The slotted record page of src/src/db/record/slotted_page.cpp.          *)
(*                                                                         *)
(* The header (HeaderSize bytes) is followed by the slot directory, which  *)
(* grows upwards to free_start; records are packed downwards from the end  *)
(* of the page to free_end.  Offsets are the code's.  Slot s of the model  *)
(* is the code's slot s - 1; offset and length are the two columns of the  *)
(* directory, and a length of 0 is a tombstone.  `bytes` holds the page    *)
(* from HeaderSize on; the directory's own bytes are not kept there.       *)
(*                                                                         *)
(* The sizes are constants: nothing depends on a page of 4096 bytes, and a *)
(* page is far below 2^16 bytes, so no 16-bit field can overflow.          *)
(***************************************************************************)
EXTENDS Integers, Sequences, FiniteSets

CONSTANTS PageSize, HeaderSize, SlotEntrySize,
          Byte,          \* values of a byte of a record
          Zero,          \* the zero byte
          Deleted        \* what a deleted slot holds

ASSUME SizeAssumption ==
    /\ PageSize \in Nat
    /\ HeaderSize \in Nat \ {0}
    /\ SlotEntrySize \in Nat \ {0}
    /\ HeaderSize + SlotEntrySize < PageSize
    /\ Zero \in Byte

MaxRecordSize == PageSize - HeaderSize - SlotEntrySize
Offset        == HeaderSize..(PageSize - 1)
Data          == UNION {[1..n -> Byte] : n \in 1..MaxRecordSize}

ASSUME DeletedAssumption == Deleted \notin Data

VARIABLES offset,       \* offset[s] in the slot directory
          length,       \* length[s] in the slot directory
          free_start,   \* free_start
          free_end,     \* free_end
          bytes         \* bytes[o]: the byte at offset o

vars == <<offset, length, free_start, free_end, bytes>>

TypeOK ==
    /\ offset \in Seq(0..PageSize)
    /\ length \in Seq(0..MaxRecordSize)
    /\ Len(offset) = Len(length)
    /\ free_start \in 0..PageSize
    /\ free_end \in 0..PageSize
    /\ bytes \in [Offset -> Byte]

-----------------------------------------------------------------------------
slot_count == Len(length)
Live       == {s \in 1..slot_count : length[s] # 0}

DirEnd == HeaderSize + slot_count * SlotEntrySize

\* Every operation starts with this test and refuses a page that fails it.
Validate ==
    /\ DirEnd <= PageSize
    /\ DirEnd <= free_start
    /\ free_start <= free_end
    /\ free_end <= PageSize
    /\ \A s \in Live : /\ free_end <= offset[s]
                       /\ offset[s] + length[s] <= PageSize

\* memcpy(d + at, data, Len(data)).
Copied(at, data) ==
    [o \in Offset |-> IF o \in at..(at + Len(data) - 1) THEN data[o - at + 1]
                                                        ELSE bytes[o]]

\* Read: the bytes a directory entry describes.
Read(s) == [i \in 1..length[s] |-> bytes[offset[s] + i - 1]]

-----------------------------------------------------------------------------
Init ==
    /\ offset = <<>>
    /\ length = <<>>
    /\ free_start = HeaderSize
    /\ free_end = PageSize
    /\ bytes = [o \in Offset |-> Zero]

\* Mutant: the room for the new directory entry is not counted.
InsertNoEntry(data) ==
    LET at == free_end - Len(data) IN
    /\ Validate
    /\ Len(data) <= free_end - free_start
    /\ bytes' = Copied(at, data)
    /\ offset' = Append(offset, at)
    /\ length' = Append(length, Len(data))
    /\ free_start' = free_start + SlotEntrySize
    /\ free_end' = at

Insert(data) ==
    LET at == free_end - Len(data) IN
    /\ Validate
    /\ SlotEntrySize + Len(data) <= free_end - free_start
    /\ bytes' = Copied(at, data)
    /\ offset' = Append(offset, at)
    /\ length' = Append(length, Len(data))
    /\ free_start' = free_start + SlotEntrySize
    /\ free_end' = at

\* Not longer than before: in place.
UpdateInPlace(s, data) ==
    /\ Validate
    /\ s \in Live
    /\ Len(data) <= length[s]
    /\ bytes' = Copied(offset[s], data)
    /\ length' = [length EXCEPT ![s] = Len(data)]
    /\ UNCHANGED <<offset, free_start, free_end>>

\* Mutant: a longer record is written where the shorter one was.
UpdateRelocateOver(s, data) ==
    /\ Validate
    /\ s \in Live
    /\ Len(data) > length[s]
    /\ offset[s] + Len(data) <= PageSize
    /\ bytes' = Copied(offset[s], data)
    /\ length' = [length EXCEPT ![s] = Len(data)]
    /\ UNCHANGED <<offset, free_start, free_end>>

\* Longer: to the end of the free region, or kBufferFull.
UpdateRelocate(s, data) ==
    LET at == free_end - Len(data) IN
    /\ Validate
    /\ s \in Live
    /\ Len(data) > length[s]
    /\ Len(data) <= free_end - free_start
    /\ bytes' = Copied(at, data)
    /\ offset' = [offset EXCEPT ![s] = at]
    /\ length' = [length EXCEPT ![s] = Len(data)]
    /\ free_end' = at
    /\ UNCHANGED free_start

Update(s, data) == UpdateInPlace(s, data) \/ UpdateRelocate(s, data)

Delete(s) ==
    /\ Validate
    /\ s \in Live
    /\ offset' = [offset EXCEPT ![s] = 0]
    /\ length' = [length EXCEPT ![s] = 0]
    /\ UNCHANGED <<free_start, free_end, bytes>>

\* Mutant: gaps are left between the records.
PackedLow(at, end) ==
    /\ \A s \in Live : \A r \in Live : r < s => at[s] + length[s] <= at[r]
    /\ \A s \in Live : at[s] + length[s] <= PageSize
    /\ \A s \in Live : end <= at[s]

\* Packed(at, end): the live records, in slot order, lie back to back below the
\* end of the page, the record of slot s at at[s], the lowest one at `end`.
Packed(at, end) ==
    /\ \A s \in Live :
         LET before == {r \in Live : r < s} IN
         /\ at[s] + length[s] \in {PageSize} \cup {at[r] : r \in before}
         /\ at[s] + length[s] <= PageSize
         /\ \A r \in before : at[s] + length[s] <= at[r]
    /\ \A s \in Live : end <= at[s]
    /\ end = PageSize \/ \E s \in Live : at[s] = end

\* The byte at offset o once the records have moved: that of the record which
\* is there now, and zero in the free region.
Moved(at, end, o) ==
    LET here == {s \in Live : o \in at[s]..(at[s] + length[s] - 1)} IN
    IF here # {} THEN LET s == CHOOSE s \in here : TRUE
                      IN bytes[offset[s] + o - at[s]]
    ELSE IF o \in free_start..(end - 1) THEN Zero
    ELSE bytes[o]

\* The live bytes fit above the directory, which the code tests before it moves
\* anything; the reclaimed region is zeroed.
Compact ==
    /\ Validate
    /\ \E end \in free_start..PageSize : \E at \in [Live -> end..PageSize] :
         /\ Packed(at, end)
         /\ offset' = [s \in 1..slot_count |->
                         IF s \in Live THEN at[s] ELSE offset[s]]
         /\ bytes' = [o \in Offset |-> Moved(at, end, o)]
         /\ free_end' = end
    /\ UNCHANGED <<length, free_start>>

Next == \/ \E data \in Data : Insert(data)
        \/ \E s \in Live, data \in Data : Update(s, data)
        \/ \E s \in Live : Delete(s)
        \/ Compact

Spec == Init /\ [][Next]_vars
-----------------------------------------------------------------------------
Below(r, s)  == offset[r] + length[r] <= offset[s]
Covers(s, o) == o \in offset[s]..(offset[s] + length[s] - 1)

\* "Invariants maintained by every successful mutation": the page always passes
\* Validate, and beyond what Validate can see the directory leaves no gap below
\* free_start and no byte belongs to two live records, so that no update in
\* place and no compaction can damage a neighbour.
Intact ==
    /\ Validate
    /\ free_start = DirEnd
    /\ \A r, s \in Live : r = s \/ Below(r, s) \/ Below(s, r)

Records == [s \in 1..slot_count |-> IF s \in Live THEN Read(s) ELSE Deleted]

Map == INSTANCE SlotMap WITH records <- Records

\* Through inserts, relocating updates, tombstones and compaction a slot id
\* keeps denoting its own record, byte for byte: the page implements SlotMap.
SlotMapOK == Map!Spec

\* Compact reclaims everything: afterwards every byte above the free region
\* belongs to a live record, so a refusal that follows it is for want of space.
Reclaims ==
    [][Compact => (\A o \in Offset : o >= free_end => \E s \in Live : Covers(s, o))']_vars
=============================================================================
