------------------------------ MODULE SlotMap ------------------------------
(***************************************************************************)
(* What a slotted page promises, with no offset in sight: a growing list of*)
(* records.  A slot id is a position in the list and stays with its record *)
(* for good; a deleted slot is never used again.  Whether a record fits is *)
(* left open: an operation that is refused changes nothing.                *)
(*                                                                         *)
(* SlottedPage implements this specification (SlotMapOK; proved in         *)
(* SlottedPageProofs).                                                     *)
(***************************************************************************)
EXTENDS Sequences

CONSTANTS Data,      \* the records: non-empty sequences of bytes
          Deleted    \* what a deleted slot holds

VARIABLE records     \* records[s]: the record in slot s, or Deleted

Init == records = <<>>

Insert(d) == records' = Append(records, d)

Update(s, d) == /\ records[s] # Deleted
                /\ records' = [records EXCEPT ![s] = d]

Delete(s) == /\ records[s] # Deleted
             /\ records' = [records EXCEPT ![s] = Deleted]

Next == \/ \E d \in Data : Insert(d)
        \/ \E s \in DOMAIN records, d \in Data : Update(s, d)
        \/ \E s \in DOMAIN records : Delete(s)

Spec == Init /\ [][Next]_records
=============================================================================
