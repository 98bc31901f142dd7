--------------------------- MODULE DatabaseProofs ---------------------------
(***************************************************************************)
(* Proofs about Database for any number of pages, any contents and any     *)
(* combination of failures, and before them proofs about its log (Wal) for *)
(* any pages, images and number of records, with any number of records in  *)
(* the buffer.                                                             *)
(*                                                                         *)
(* Numbered is not inductive: that an append takes the number after the    *)
(* last record needs next_lsn to count the records of file and buffer, as  *)
(* long as the file is clean and the stream has not failed.  After a       *)
(* failure or behind a fragment next_lsn means nothing, and nothing of what*)
(* is appended then is readable.                                           *)
(*                                                                         *)
(* Every step of the database is a step of its log (one lemma for each) or *)
(* leaves it alone, except for the creation of a database, which drops the *)
(* log it finds.  That is safe because no log is open then, and allowed    *)
(* because there is no database: DInv says where in the code that is so,   *)
(* and that a page on its way to the log is dirty.                         *)
(***************************************************************************)
EXTENDS Database, SequenceTheorems, TLAPS

-----------------------------------------------------------------------------
(* The log *)

Log == [recs : Seq(Record), tail : {"clean", "torn", "garbage"}]

\* The records s carry the numbers after n.
NumberedFrom(s, n) == \A i \in 1..Len(s) : s[i].lsn = n + i

WInv ==
    /\ WalTypeOK
    /\ NumberedFrom(wal.recs, 0)
    /\ wal.tail = "clean" => NumberedFrom(pending, Len(wal.recs))
    /\ open /\ ~failed /\ wal.tail = "clean"
          => next_lsn = Len(wal.recs) + Len(pending) + 1
    /\ AckedReadable
    /\ ~open => ~failed
    /\ ~open \/ failed => pending = <<>>

\* A sequence is a prefix of itself and of every continuation.
LEMMA PrefixOfConcat ==
    ASSUME NEW S, NEW s \in Seq(S), NEW t \in Seq(S)
    PROVE  IsPrefix(s, s) /\ IsPrefix(s, s \o t)
  <1>1. /\ s \o t \in Seq(S)
        /\ Len(s \o t) = Len(s) + Len(t)
        /\ \A i \in 1..Len(s) : (s \o t)[i] = s[i]
        /\ Len(s) \in Nat /\ Len(t) \in Nat
    BY ConcatProperties, LenProperties
  <1>2. SubSeq(s \o t, 1, Len(s)) = SubSeq(s, 1, Len(s))
    BY <1>1
  <1> QED
    BY <1>1, <1>2 DEF IsPrefix

\* Numbering goes on across a concatenation.
LEMMA NumberedConcat ==
    ASSUME NEW s \in Seq(Record), NEW t \in Seq(Record),
           NumberedFrom(s, 0), NumberedFrom(t, Len(s))
    PROVE  s \o t \in Seq(Record) /\ NumberedFrom(s \o t, 0)
  <1>1. s \o t \in Seq(Record) /\ Len(s \o t) = Len(s) + Len(t)
    BY ConcatProperties
  <1>2. ASSUME NEW i \in 1..Len(s \o t) PROVE (s \o t)[i].lsn = i
    <2>1. CASE i <= Len(s)
      BY <1>1, <2>1, ConcatProperties, LenProperties DEF NumberedFrom
    <2>2. CASE i > Len(s)
      <3>1. i - Len(s) \in 1..Len(t)
        BY <1>1, <2>2, LenProperties
      <3>2. (s \o t)[i] = t[i - Len(s)]
        BY <1>1, <2>2, ConcatProperties, LenProperties
      <3> QED
        BY <3>1, <3>2, LenProperties DEF NumberedFrom
    <2> QED
      BY <2>1, <2>2, LenProperties
  <1> QED
    BY <1>1, <1>2 DEF NumberedFrom

\* Writing whole records keeps what is readable, and its numbering.
LEMMA PutFacts ==
    ASSUME NEW f \in Log, NEW s \in Seq(Record),
           NumberedFrom(f.recs, 0),
           f.tail = "clean" => NumberedFrom(s, Len(f.recs))
    PROVE  /\ Put(f, s) \in Log
           /\ NumberedFrom(Put(f, s).recs, 0)
           /\ IsPrefix(f.recs, Put(f, s).recs)
           /\ Put(f, s).tail = "clean" =>
                 /\ f.tail = "clean"
                 /\ Len(Put(f, s).recs) = Len(f.recs) + Len(s)
  <1>0. f.recs \in Seq(Record) /\ Len(f.recs) \in Nat /\ Len(s) \in Nat
    BY LenProperties DEF Log
  <1>1. CASE s = <<>>
    BY <1>0, <1>1, PrefixOfConcat DEF Put
  <1>2. CASE s # <<>> /\ f.tail = "clean"
    <2>1. f.recs \o s \in Seq(Record) /\ NumberedFrom(f.recs \o s, 0)
      BY <1>0, <1>2, NumberedConcat
    <2>2. Put(f, s) = [f EXCEPT !.recs = f.recs \o s]
      BY <1>2 DEF Put
    <2>3. Put(f, s).recs = f.recs \o s /\ Put(f, s) \in Log
      BY <2>1, <2>2 DEF Log
    <2>4. Len(f.recs \o s) = Len(f.recs) + Len(s)
      BY <1>0, ConcatProperties
    <2> QED
      BY <1>0, <1>2, <2>1, <2>3, <2>4, PrefixOfConcat
  <1>3. CASE s # <<>> /\ f.tail # "clean"
    <2>1. Put(f, s) = [f EXCEPT !.tail = "garbage"]
      BY <1>3 DEF Put
    <2>2. Put(f, s) \in Log /\ Put(f, s).recs = f.recs /\ Put(f, s).tail = "garbage"
      BY <2>1 DEF Log
    <2> QED
      BY <1>0, <2>2, PrefixOfConcat
  <1> QED
    BY <1>1, <1>2, <1>3

\* Part of a record at the end makes nothing unreadable.
LEMMA FragmentFacts ==
    ASSUME NEW f \in Log, NEW g \in Fragments(f)
    PROVE  g \in Log /\ g.recs = f.recs /\ g.tail # "clean"
  <1>1. f.tail \in {"clean", "torn", "garbage"}
    BY DEF Log
  <1>2. \E t \in {"torn", "garbage"} : g = [f EXCEPT !.tail = t]
    BY <1>1 DEF Fragments
  <1> QED
    BY <1>2 DEF Log

\* Nor does writing that stops at some byte.
LEMMA CutFacts ==
    ASSUME NEW f \in Log, NEW s \in Seq(Record), NEW g \in Cut(f, s),
           NumberedFrom(f.recs, 0),
           f.tail = "clean" => NumberedFrom(s, Len(f.recs))
    PROVE  /\ g \in Log
           /\ NumberedFrom(g.recs, 0)
           /\ IsPrefix(f.recs, g.recs)
           /\ g.tail = "clean" => f.tail = "clean" /\ Len(g.recs) >= Len(f.recs)
  <1>1. PICK t \in Prefixes(s) : g = Put(f, t) \/ g \in Fragments(Put(f, t))
    BY DEF Cut
  <1>2. PICK l \in 0..Len(s) : t = SubSeq(s, 1, l)
    BY <1>1 DEF Prefixes
  <1>3. t \in Seq(Record) /\ Len(t) = l /\ \A i \in 1..l : t[i] = s[i]
    BY <1>2, SubSeqProperties, LenProperties
  <1>4. f.tail = "clean" => NumberedFrom(t, Len(f.recs))
    BY <1>3, LenProperties DEF NumberedFrom
  <1>5. /\ Put(f, t) \in Log
        /\ NumberedFrom(Put(f, t).recs, 0)
        /\ IsPrefix(f.recs, Put(f, t).recs)
        /\ Put(f, t).tail = "clean" =>
              f.tail = "clean" /\ Len(Put(f, t).recs) = Len(f.recs) + Len(t)
    BY <1>3, <1>4, PutFacts
  <1>6. Len(t) \in Nat /\ Len(f.recs) \in Nat
    BY <1>3, LenProperties DEF Log
  <1>7. CASE g = Put(f, t)
    BY <1>5, <1>6, <1>7
  <1>8. CASE g \in Fragments(Put(f, t))
    BY <1>5, <1>8, FragmentFacts
  <1> QED
    BY <1>1, <1>7, <1>8

-----------------------------------------------------------------------------
(* One lemma for each action; module Database is made of the same actions. *)

LEMMA NextNumber ==
    ASSUME NEW n \in Nat, NEW m \in Nat
    PROVE  n + (m + 1) = n + m + 1 /\ n + (m + 1) + 1 = n + m + 1 + 1
  OBVIOUS

LEMMA LsnBound == MaxLsn \in Nat /\ MaxLsn # 0
  BY WalAssumption

\* What the file holds is readable behind every step but Reset.
Grows == IsPrefix(wal.recs, wal'.recs)

LEMMA WInvFacts ==
    ASSUME WInv
    PROVE  /\ wal \in Log
           /\ wal.recs \in Seq(Record) /\ Len(wal.recs) \in Nat
           /\ pending \in Seq(Record) /\ Len(pending) \in Nat
           /\ next_lsn \in 1..(MaxLsn + 1) /\ durable_lsn \in 0..MaxLsn
           /\ MaxLsn \in Nat
  BY WalAssumption, LenProperties DEF WInv, WalTypeOK, Log

\* The file numbers its records from 1, so that it has at most MaxLsn.
LEMMA LastLsnFacts ==
    ASSUME WInv
    PROVE  LastLsn(wal) = Len(wal.recs) /\ Len(wal.recs) <= MaxLsn
  <1>1. CASE wal.recs = <<>>
    BY <1>1, WInvFacts DEF LastLsn
  <1>2. CASE wal.recs # <<>>
    <2>1. Len(wal.recs) \in 1..Len(wal.recs)
      BY <1>2, WInvFacts, EmptySeq
    <2>2. wal.recs[Len(wal.recs)] \in Record
      BY <2>1, WInvFacts, ElementOfSeq
    <2>3. wal.recs[Len(wal.recs)].lsn = Len(wal.recs)
      BY <2>1, WInvFacts DEF WInv, NumberedFrom
    <2> QED
      BY <1>2, <2>2, <2>3, WInvFacts DEF LastLsn, Last, Record
  <1> QED
    BY <1>1, <1>2

\* A record that is appended bears the next number.
LEMMA RecordFacts ==
    ASSUME WInv, NEW p \in Page, NEW v \in Value, next_lsn <= MaxLsn, open, ~failed
    PROVE  LET r == [lsn |-> next_lsn, page |-> p, image |-> v] IN
           /\ Append(pending, r) \in Seq(Record)
           /\ Len(Append(pending, r)) = Len(pending) + 1
           /\ wal.tail = "clean" => NumberedFrom(Append(pending, r), Len(wal.recs))
  <1> DEFINE r == [lsn |-> next_lsn, page |-> p, image |-> v]
             a == Append(pending, r)
  <1>1. r \in Record /\ r.lsn = next_lsn
    BY WInvFacts DEF Record
  <1> HIDE DEF r
  <1>2. a \in Seq(Record) /\ Len(a) = Len(pending) + 1
    BY <1>1, WInvFacts, AppendProperties
  <1>3. \A i \in 1..Len(a) : a[i] = IF i = Len(pending) + 1 THEN r ELSE pending[i]
    BY <1>1, <1>2, WInvFacts, AppendProperties
  <1> HIDE DEF a
  <1>4. ASSUME wal.tail = "clean" PROVE NumberedFrom(a, Len(wal.recs))
    <2>1. NumberedFrom(pending, Len(wal.recs)) /\ next_lsn = Len(wal.recs) + Len(pending) + 1
      BY <1>4 DEF WInv
    <2> SUFFICES ASSUME NEW i \in 1..Len(a) PROVE a[i].lsn = Len(wal.recs) + i
      BY DEF NumberedFrom
    <2>2. CASE i = Len(pending) + 1
      <3>1. a[i] = r
        BY <1>3, <2>2
      <3>2. a[i].lsn = Len(wal.recs) + Len(pending) + 1
        BY <1>1, <2>1, <3>1
      <3>3. Len(wal.recs) \in Nat /\ Len(pending) \in Nat
        BY WInvFacts
      <3> QED
        BY <2>2, <3>2, <3>3, NextNumber, Zenon
    <2>3. CASE i # Len(pending) + 1
      <3>1. i \in 1..Len(pending)
        BY <1>2, <2>3, WInvFacts
      <3> QED
        BY <1>3, <2>1, <2>3, <3>1 DEF NumberedFrom
    <2> QED
      BY <2>2, <2>3
  <1> QED
    BY <1>2, <1>4 DEF r, a

LEMMA EmptyFacts ==
    /\ EmptyLog \in Log
    /\ EmptyLog.recs = <<>> /\ EmptyLog.tail = "clean"
    /\ <<>> \in Seq(Record) /\ Len(<<>>) = 0
    /\ \A n : NumberedFrom(<<>>, n)
  <1>1. <<>> \in Seq(Record) /\ Len(<<>>) = 0
    BY EmptySeq
  <1>2. \A n : NumberedFrom(<<>>, n)
    BY <1>1 DEF NumberedFrom
  <1> QED
    BY <1>1, <1>2 DEF EmptyLog, Log

LEMMA InitLemma == WalInit => WInv
  <1> SUFFICES ASSUME WalInit PROVE WInv
    OBVIOUS
  <1>1. wal \in Log /\ wal.recs = <<>> /\ pending \in Seq(Record) /\ Len(pending) = 0
    BY EmptyFacts DEF WalInit
  <1>2. failed \in BOOLEAN /\ open \in BOOLEAN
    BY DEF WalInit
  <1>3. next_lsn \in 1..(MaxLsn + 1) /\ durable_lsn \in 0..MaxLsn
    <2>1. next_lsn = 1 /\ durable_lsn = 0
      BY DEF WalInit
    <2> QED
      BY <2>1, LsnBound
  <1>4. NumberedFrom(wal.recs, 0) /\ NumberedFrom(pending, Len(wal.recs))
    BY EmptyFacts DEF WalInit
  <1> QED
    BY <1>1, <1>2, <1>3, <1>4 DEF WalInit, WInv, WalTypeOK, Log, AckedReadable

LEMMA OpenLemma == ASSUME WInv, WalOpen PROVE WInv' /\ Grows
  <1>1. wal' = wal /\ pending' = pending /\ failed' = failed /\ open' = TRUE
        /\ next_lsn' = Len(wal.recs) + 1 /\ durable_lsn' = Len(wal.recs)
        /\ pending = <<>> /\ ~failed
    BY LastLsnFacts DEF WalOpen, WInv
  <1>2. WalTypeOK'
    <2>1. wal' \in Log /\ pending' \in Seq(Record)
      BY <1>1, WInvFacts
    <2>2. next_lsn' \in 1..(MaxLsn + 1) /\ durable_lsn' \in 0..MaxLsn
      BY <1>1, WInvFacts, LastLsnFacts
    <2>3. failed' \in BOOLEAN /\ open' \in BOOLEAN
      BY DEF WInv, WalTypeOK, WalOpen
    <2> QED
      BY <2>1, <2>2, <2>3 DEF WalTypeOK, Log
  <1> QED
    BY <1>1, <1>2, WInvFacts, EmptyFacts, PrefixOfConcat
       DEF WInv, AckedReadable, NumberedFrom, Grows

LEMMA AppendLemma ==
    ASSUME WInv, NEW p \in Page, NEW v \in Value, AppendPageImage(p, v)
    PROVE  WInv' /\ Grows
  <1> DEFINE a == Append(pending, [lsn |-> next_lsn, page |-> p, image |-> v])
  <1>1. /\ a \in Seq(Record) /\ Len(a) = Len(pending) + 1
        /\ wal.tail = "clean" => NumberedFrom(a, Len(wal.recs))
    BY RecordFacts DEF AppendPageImage
  <1>2. wal' = wal /\ pending' = a /\ failed' = failed /\ open' = open
        /\ next_lsn' = next_lsn + 1 /\ durable_lsn' = durable_lsn
        /\ open /\ ~failed /\ next_lsn <= MaxLsn
    BY DEF AppendPageImage
  <1> HIDE DEF a
  <1>3. WalTypeOK'
    BY <1>1, <1>2, WInvFacts DEF WInv, WalTypeOK
  <1>4. (NumberedFrom(wal.recs, 0))'
    BY <1>2 DEF WInv
  <1>5. (wal.tail = "clean" => NumberedFrom(pending, Len(wal.recs)))'
    BY <1>1, <1>2
  <1>6. ASSUME wal'.tail = "clean" PROVE next_lsn' = Len(wal'.recs) + Len(pending') + 1
    <2>1. next_lsn = Len(wal.recs) + Len(pending) + 1
      BY <1>2, <1>6 DEF WInv
    <2>2. next_lsn' = next_lsn + 1 /\ Len(pending') = Len(pending) + 1 /\ wal' = wal
      BY <1>1, <1>2
    <2>3. Len(wal.recs) \in Nat /\ Len(pending) \in Nat
      BY WInvFacts
    <2> QED
      BY <2>1, <2>2, <2>3, NextNumber, Zenon
  <1>7. AckedReadable' /\ Grows
    BY <1>2, WInvFacts, PrefixOfConcat DEF WInv, AckedReadable, Grows
  <1> QED
    BY <1>2, <1>3, <1>4, <1>5, <1>6, <1>7 DEF WInv

\* The writing of s, which goes on with the numbers of the file, stops.
LEMMA StreamFailsLemma ==
    ASSUME WInv, NEW s \in Seq(Record), StreamFails(s),
           wal.tail = "clean" => NumberedFrom(s, Len(wal.recs)),
           UNCHANGED <<open, next_lsn, durable_lsn>>
    PROVE  WInv' /\ Grows
  <1>1. wal' \in Cut(wal, s) /\ open /\ failed' = TRUE /\ pending' = <<>>
    BY DEF StreamFails
  <1>2. /\ wal' \in Log
        /\ NumberedFrom(wal'.recs, 0)
        /\ IsPrefix(wal.recs, wal'.recs)
        /\ wal'.tail = "clean" => wal.tail = "clean" /\ Len(wal'.recs) >= Len(wal.recs)
    BY <1>1, WInvFacts, CutFacts DEF WInv
  <1>3. WalTypeOK'
    BY <1>1, <1>2, EmptyFacts DEF WInv, WalTypeOK, Log
  <1>4. AckedReadable'
    <2>1. Len(wal'.recs) \in Nat
      BY <1>2, LenProperties DEF Log
    <2> QED
      BY <1>1, <1>2, <2>1, WInvFacts DEF WInv, AckedReadable
  <1> QED
    BY <1>1, <1>2, <1>3, <1>4, EmptyFacts DEF WInv, Grows

LEMMA AppendFailsLemma ==
    ASSUME WInv, NEW p \in Page, NEW v \in Value, AppendFails(p, v)
    PROVE  WInv' /\ Grows
  <1>1. open /\ ~failed /\ next_lsn <= MaxLsn
    BY DEF AppendFails, StreamFails
  <1> QED
    BY <1>1, RecordFacts, StreamFailsLemma DEF AppendFails

LEMMA FlushLemma == ASSUME WInv, Flush PROVE WInv' /\ Grows
  <1>1. wal' = Put(wal, pending) /\ pending' = <<>> /\ durable_lsn' = next_lsn - 1
        /\ failed' = failed /\ open' = open /\ next_lsn' = next_lsn /\ open /\ ~failed
    BY DEF Flush
  <1>2. /\ wal' \in Log
        /\ NumberedFrom(wal'.recs, 0)
        /\ IsPrefix(wal.recs, wal'.recs)
        /\ wal'.tail = "clean" =>
              wal.tail = "clean" /\ Len(wal'.recs) = Len(wal.recs) + Len(pending)
    BY <1>1, WInvFacts, PutFacts DEF WInv
  <1>3. WalTypeOK'
    BY <1>1, <1>2, EmptyFacts, WInvFacts DEF WInv, WalTypeOK, Log
  <1>4. wal'.tail = "clean" => next_lsn = Len(wal'.recs) + 1
    BY <1>1, <1>2 DEF WInv
  <1>5. AckedReadable'
    <2>1. Len(wal'.recs) \in Nat
      BY <1>2, LenProperties DEF Log
    <2> QED
      BY <1>1, <1>4, <2>1, WInvFacts DEF AckedReadable
  <1>6. (wal.tail = "clean" => NumberedFrom(pending, Len(wal.recs)))'
    BY <1>1, EmptyFacts
  <1>7. Len(pending') = 0 /\ Len(wal'.recs) \in Nat
    BY <1>1, <1>2, EmptyFacts, LenProperties DEF Log
  <1>8. (wal.tail = "clean" => next_lsn = Len(wal.recs) + Len(pending) + 1)'
    BY <1>1, <1>4, <1>7, WInvFacts
  <1> QED
    BY <1>1, <1>2, <1>3, <1>5, <1>6, <1>8 DEF WInv, Grows

LEMMA FlushFailsLemma == ASSUME WInv, FlushFails PROVE WInv' /\ Grows
  BY WInvFacts, StreamFailsLemma DEF WInv, FlushFails

\* Closing the file, in whatever state the stream is.
LEMMA AfterCloseFacts ==
    ASSUME WInv, NEW g \in AfterClose(wal)
    PROVE  /\ g \in Log
           /\ NumberedFrom(g.recs, 0)
           /\ IsPrefix(wal.recs, g.recs)
           /\ g.tail = "clean" => wal.tail = "clean" /\ Len(g.recs) >= Len(wal.recs)
  <1>1. CASE ~failed
    BY <1>1, WInvFacts, PutFacts DEF WInv, AfterClose
  <1>2. CASE failed
    <2>1. CASE g = wal
      BY <2>1, WInvFacts, PrefixOfConcat DEF WInv
    <2>2. CASE g \in Fragments(wal)
      BY <2>2, WInvFacts, FragmentFacts, PrefixOfConcat DEF WInv
    <2> QED
      BY <1>2, <2>1, <2>2 DEF AfterClose
  <1> QED
    BY <1>1, <1>2

\* A log without its object satisfies the invariant.
LEMMA NoStreamLemma ==
    ASSUME wal' \in Log, NumberedFrom(wal'.recs, 0), NoStream
    PROVE  WInv'
  <1>1. failed' \in BOOLEAN /\ open' \in BOOLEAN /\ ~open' /\ ~failed'
    BY DEF NoStream
  <1>2. next_lsn' \in 1..(MaxLsn + 1) /\ durable_lsn' \in 0..MaxLsn
    <2>1. next_lsn' = 1 /\ durable_lsn' = 0
      BY DEF NoStream
    <2> QED
      BY <2>1, LsnBound
  <1>3. pending' \in Seq(Record) /\ pending' = <<>> /\ NumberedFrom(pending', Len(wal'.recs))
    BY EmptyFacts DEF NoStream
  <1> QED
    BY <1>1, <1>2, <1>3 DEF WInv, WalTypeOK, Log, AckedReadable

LEMMA CloseLemma == ASSUME WInv, WalClose PROVE WInv' /\ Grows
  BY AfterCloseFacts, NoStreamLemma DEF WalClose, Grows

LEMMA CrashLemma == ASSUME WInv, WalCrash PROVE WInv' /\ Grows
  BY WInvFacts, CutFacts, NoStreamLemma DEF WInv, WalCrash, Grows

LEMMA ResetLemma == ASSUME WInv, WalReset PROVE WInv' /\ wal' = EmptyLog /\ open
  <1>1. failed' \in BOOLEAN /\ open' \in BOOLEAN /\ open' /\ ~failed' /\ open
    BY DEF WalReset
  <1>2. next_lsn' \in 1..(MaxLsn + 1) /\ durable_lsn' \in 0..MaxLsn
    <2>1. next_lsn' = 1 /\ durable_lsn' = 0
      BY DEF WalReset
    <2> QED
      BY <2>1, LsnBound
  <1>3. wal' \in Log /\ pending' \in Seq(Record) /\ wal' = EmptyLog
    BY EmptyFacts DEF WalReset
  <1>4. NumberedFrom(wal'.recs, 0) /\ NumberedFrom(pending', Len(wal'.recs))
    BY EmptyFacts DEF WalReset
  <1>5. Len(wal'.recs) = 0 /\ Len(pending') = 0 /\ next_lsn' = 1 /\ durable_lsn' = 0
    BY EmptyFacts DEF WalReset
  <1>6. next_lsn' = Len(wal'.recs) + Len(pending') + 1 /\ durable_lsn' <= Len(wal'.recs)
    BY <1>5
  <1> QED
    BY <1>1, <1>2, <1>3, <1>4, <1>6 DEF WInv, WalTypeOK, Log, AckedReadable

LEMMA ResetFailsLemma == ASSUME WInv, ResetFails PROVE WInv' /\ Grows
  <1>1. wal' \in AfterClose(wal) /\ pending' = <<>> /\ failed' = TRUE /\ open
        /\ UNCHANGED <<open, next_lsn, durable_lsn>>
    BY DEF ResetFails
  <1>2. /\ wal' \in Log
        /\ NumberedFrom(wal'.recs, 0)
        /\ IsPrefix(wal.recs, wal'.recs)
        /\ wal'.tail = "clean" => wal.tail = "clean" /\ Len(wal'.recs) >= Len(wal.recs)
    BY <1>1, AfterCloseFacts
  <1>3. WalTypeOK'
    BY <1>1, <1>2, EmptyFacts DEF WInv, WalTypeOK, Log
  <1>4. AckedReadable'
    <2>1. Len(wal'.recs) \in Nat
      BY <1>2, LenProperties DEF Log
    <2> QED
      BY <1>1, <1>2, <2>1, WInvFacts DEF WInv, AckedReadable
  <1> QED
    BY <1>1, <1>2, <1>3, <1>4, EmptyFacts DEF WInv, Grows

LEMMA StutterLemma == ASSUME WInv, UNCHANGED walVars PROVE WInv' /\ Grows
  <1>1. WInv'
    BY DEF walVars, WInv, WalTypeOK, AckedReadable
  <1> QED
    BY <1>1, WInvFacts, PrefixOfConcat DEF walVars, Grows

-----------------------------------------------------------------------------
LEMMA NextLemma ==
    ASSUME WInv, WalNext
    PROVE  WInv' /\ (Grows \/ (wal' = EmptyLog /\ open))
  <1>1. CASE WalOpen
    BY <1>1, OpenLemma
  <1>2. CASE \E p \in Page, v \in Value : AppendPageImage(p, v) \/ AppendFails(p, v)
    BY <1>2, AppendLemma, AppendFailsLemma
  <1>3. CASE Flush
    BY <1>3, FlushLemma
  <1>4. CASE FlushFails
    BY <1>4, FlushFailsLemma
  <1>5. CASE WalClose
    BY <1>5, CloseLemma
  <1>6. CASE WalReset
    BY <1>6, ResetLemma
  <1>7. CASE ResetFails
    BY <1>7, ResetFailsLemma
  <1>8. CASE WalCrash
    BY <1>8, CrashLemma
  <1> QED
    BY <1>1, <1>2, <1>3, <1>4, <1>5, <1>6, <1>7, <1>8 DEF WalNext

\* The inductive invariant of the log, for any page images and any number of
\* records, buffered or not, through failures at any byte and crashes.
THEOREM Invariance == WalSpec => []WInv
  <1>1. WInv /\ [WalNext]_walVars => WInv'
    BY NextLemma, StutterLemma
  <1> QED
    BY <1>1, InitLemma, PTL DEF WalSpec

\* The log's state is well typed: sequence numbers stay in range.
THEOREM TypeCorrect == WalSpec => []WalTypeOK
  BY Invariance, PTL DEF WInv

\* WInv numbers file and buffer separately; together they are Numbered.
LEMMA NumberedFromWInv == WInv => Numbered
  <1> SUFFICES ASSUME WInv PROVE Numbered
    OBVIOUS
  <1>1. \A i \in 1..Len(wal.recs) : wal.recs[i].lsn = i
    BY WInvFacts DEF WInv, NumberedFrom
  <1>2. ASSUME wal.tail = "clean"
        PROVE  \A i \in 1..Len(wal.recs \o pending) : (wal.recs \o pending)[i].lsn = i
    <2>1. NumberedFrom(wal.recs \o pending, 0)
      BY <1>2, WInvFacts, NumberedConcat DEF WInv
    <2>2. Len(wal.recs \o pending) \in Nat
      BY WInvFacts, ConcatProperties
    <2> QED
      BY <2>1, <2>2 DEF NumberedFrom
  <1> QED
    BY <1>1, <1>2 DEF Numbered

\* The records of the log, in the file and behind them in the buffer, count up
\* from 1 without a gap, whatever failed in between: Scan never rejects a log
\* for its numbering and Open continues where the file ends.
THEOREM LogNumbered == WalSpec => []Numbered
  BY Invariance, NumberedFromWInv, PTL

\* What Flush has reported durable is readable in the file, also when several
\* records were buffered and the stream failed between them.
THEOREM AcknowledgedReadable == WalSpec => []AckedReadable
  BY Invariance, PTL DEF WInv

\* Only Reset takes a readable record out of the log.
THEOREM NothingRewritten == WalSpec => LogOnlyGrows
  <1>1. WInv /\ [WalNext]_walVars
          => [IsPrefix(wal.recs, wal'.recs) \/ (wal' = EmptyLog /\ open)]_walVars
    BY NextLemma DEF Grows
  <1> QED
    BY <1>1, Invariance, PTL DEF WalSpec, LogOnlyGrows

-----------------------------------------------------------------------------
(* The database *)

ClosedPc == {"down", "open_storage", "open_wal"} \cup BuildPc
FlushPc  == {"append", "sync", "write"}

\* What the places in the code say of the files, the log and the flush at hand.
Control ==
    /\ pc \in ClosedPc => ~open
    /\ pc \in BuildPc => Fresh
    /\ pc \in BuildPc \ {"create_temp"} => tmp \in Seq(Content)
    /\ pc \in OpenPc \cup UpPc => db \in Seq(Content)
    /\ pc = "next" => todo \subseteq Dirty
    /\ pc \in FlushPc => cur \in Dirty /\ todo \subseteq Dirty \ {cur}

\* DatabaseTypeOK without the log.
LocalType ==
    /\ db \in Seq(Content) \cup {NoFile}
    /\ tmp \in Seq(Content) \cup {NoFile}
    /\ ragged \in BOOLEAN
    /\ pc \in {"down"} \cup BuildPc \cup OpenPc \cup UpPc
    /\ k \in 1..(MaxLsn + 1)
    /\ mem \in [Page -> Value \cup {Clean}]
    /\ job \in {"serve", "close", "exit"}
    /\ todo \in SUBSET Page
    /\ cur \in Page
    /\ erred \in BOOLEAN

DInv == WInv /\ LocalType /\ Control

LEMMA DInvTyped == DInv => DatabaseTypeOK
  BY DEF DInv, DatabaseTypeOK, LocalType, WInv

LEMMA FunctionIsSeq ==
    ASSUME NEW S, NEW n \in Nat, NEW t \in [1..n -> S]
    PROVE  t \in Seq(S)
  OBVIOUS

\* Replacing a page keeps a file a file.
LEMMA PageReplaced ==
    ASSUME NEW S, NEW s \in Seq(S), NEW i, NEW x \in S
    PROVE  [s EXCEPT ![i] = x] \in Seq(S)
  <1>1. s \in [1..Len(s) -> S] /\ Len(s) \in Nat
    BY LenProperties
  <1>2. [s EXCEPT ![i] = x] \in [1..Len(s) -> S]
    BY <1>1
  <1>3. QED
    BY <1>1, <1>2, FunctionIsSeq

LEMMA ContentFacts ==
    /\ Header \in Content /\ Blank \in Content /\ Torn \in Content
    /\ InitImage \in Content /\ Value \subseteq Content
    /\ Clean \notin Value
    /\ 1 \in Page
  <1>1. 1 \in Page
    <2>1. MaxPage \in Nat /\ MaxPage # 0
      BY WalAssumption
    <2> QED
      BY <2>1 DEF Page
  <1>2. InitImage \in Value /\ Clean \notin Value
    BY DatabaseAssumption
  <1> QED
    BY <1>1, <1>2 DEF Content

\* The images that creation builds.
LEMMA ImageFacts ==
    /\ <<>> \in Seq(Content)
    /\ <<Blank>> \in Seq(Content)
    /\ <<Blank, Blank>> \in Seq(Content)
    /\ <<Blank, InitImage>> \in Seq(Content)
    /\ <<Header, InitImage>> \in Seq(Content)
  BY ContentFacts, EmptySeq

\* A dirty page holds a value.
LEMMA DirtyFacts ==
    ASSUME LocalType, NEW p \in Dirty
    PROVE  p \in Page /\ mem[p] \in Value
  BY DEF LocalType, Dirty

\* A file that is absent or empty.
LEMMA FreshFile ==
    ASSUME NEW f \in {NoFile, <<>>}
    PROVE  f \in Seq(Content) \cup {NoFile}
  BY ImageFacts

\* The log that is there before the first start has at most one record.
LEMMA FirstLog == Init => wal \in Log /\ NumberedFrom(wal.recs, 0)
  <1> SUFFICES ASSUME Init PROVE wal \in Log /\ NumberedFrom(wal.recs, 0)
    OBVIOUS
  <1>1. PICK s \in {<<>>} \cup {<<[lsn |-> 1, page |-> p, image |-> v]>> :
                                   p \in Page, v \in Value},
             t \in {"clean", "torn", "garbage"} :
               wal = [recs |-> s, tail |-> t]
    BY DEF Init
  <1>2. s \in Seq(Record) /\ NumberedFrom(s, 0)
    <2>1. CASE s = <<>>
      BY <2>1, EmptyFacts
    <2>2. CASE s # <<>>
      <3>1. PICK p \in Page, v \in Value : s = <<[lsn |-> 1, page |-> p, image |-> v]>>
        BY <2>2
      <3>2. [lsn |-> 1, page |-> p, image |-> v] \in Record
        BY LsnBound DEF Record
      <3>3. Len(s) = 1 /\ s[1].lsn = 1 /\ s \in Seq(Record)
        BY <3>1, <3>2
      <3> QED
        BY <3>3 DEF NumberedFrom
    <2> QED
      BY <2>1, <2>2
  <1> QED
    BY <1>1, <1>2 DEF Log

LEMMA DatabaseInit == Init => DInv
  <1> SUFFICES ASSUME Init PROVE DInv
    OBVIOUS
  <1>1. WInv
    <2>1. pending \in Seq(Record) /\ pending = <<>> /\ NumberedFrom(pending, Len(wal.recs))
      BY EmptyFacts DEF Init
    <2>2. open \in BOOLEAN /\ ~open
      BY DEF Init
    <2>3. failed \in BOOLEAN /\ ~failed
      BY DEF Init
    <2>4. next_lsn = 1 /\ durable_lsn = 0
      BY DEF Init
    <2>5. next_lsn \in 1..(MaxLsn + 1) /\ durable_lsn \in 0..MaxLsn
      BY <2>4, LsnBound
    <2> QED
      BY <2>1, <2>2, <2>3, <2>5, FirstLog DEF WInv, WalTypeOK, Log, AckedReadable
  <1>2. LocalType
    <2>1. db \in Seq(Content) \cup {NoFile} /\ tmp \in Seq(Content) \cup {NoFile}
      <3>1. db \in {NoFile, <<>>} /\ tmp \in {NoFile, <<>>}
        BY DEF Init
      <3> QED
        BY <3>1, FreshFile, Zenon
    <2>2. ragged \in BOOLEAN
      BY DEF Init
    <2>3. erred \in BOOLEAN
      BY DEF Init
    <2>4. /\ pc \in {"down"} \cup BuildPc \cup OpenPc \cup UpPc
          /\ job \in {"serve", "close", "exit"}
      BY DEF Init
    <2>5. mem \in [Page -> Value \cup {Clean}] /\ todo \in SUBSET Page /\ cur \in Page
      BY ContentFacts DEF Init
    <2>6. k = 1
      BY DEF Init
    <2>7. k \in 1..(MaxLsn + 1)
      BY <2>6, LsnBound
    <2> QED
      BY <2>1, <2>2, <2>3, <2>4, <2>5, <2>7 DEF LocalType
  <1>3. Control
    BY DEF Init, Control, ClosedPc, BuildPc, OpenPc, UpPc, FlushPc
  <1> QED
    BY <1>1, <1>2, <1>3 DEF DInv

-----------------------------------------------------------------------------
(* The log *)

\* What a step may do to the log.
Kept == Grows \/ (wal' = EmptyLog /\ (open \/ Fresh))

LEMMA OpenFailsLog == ASSUME WInv, OpenFails PROVE WInv' /\ Kept
  BY CloseLemma, StutterLemma DEF OpenFails, Kept

\* Dropping the log at the path of a new database.
LEMMA DropLemma ==
    ASSUME WInv, ~open, wal' = EmptyLog, UNCHANGED streamVars
    PROVE  WInv'
  <1>1. ~failed /\ pending = <<>>
    BY DEF WInv
  <1>2. wal' \in Log /\ NumberedFrom(wal'.recs, 0) /\ NumberedFrom(pending', Len(wal'.recs))
    BY <1>1, EmptyFacts DEF streamVars
  <1>3. WalTypeOK'
    BY <1>2 DEF WInv, WalTypeOK, streamVars, Log
  <1> QED
    BY <1>1, <1>2, <1>3 DEF WInv, AckedReadable, streamVars

LEMMA CreationLog == ASSUME DInv, Creation PROVE WInv' /\ Kept
  <1> USE DEF DInv, Kept
  <1>1. CASE DropStaleWal
    <2>1. pc = "drop_wal" /\ wal' = EmptyLog /\ UNCHANGED streamVars
      BY <1>1 DEF DropStaleWal
    <2>2. ~open /\ Fresh
      BY <2>1 DEF Control, ClosedPc, BuildPc
    <2> QED
      BY <2>1, <2>2, DropLemma
  <1>2. CASE ~DropStaleWal
    <2>1. UNCHANGED walVars
      BY <1>2 DEF Creation, CreateTemp, AllocateHeader, AllocateCatalog, InitCatalogPage,
                  WriteHeader, Build, RemovePlaceholder, Publish
    <2> QED
      BY <2>1, StutterLemma
  <1> QED
    BY <1>1, <1>2

LEMMA OpeningLog == ASSUME DInv, Opening PROVE WInv' /\ Kept
  <1>0. WInv
    BY DEF DInv
  <1>1. CASE UNCHANGED walVars
    BY <1>0, <1>1, StutterLemma DEF Kept
  <1>2. CASE OpenFails
    BY <1>0, <1>2, OpenFailsLog
  <1>3. CASE WalOpen
    BY <1>0, <1>3, OpenLemma DEF Kept
  <1>4. CASE WalReset
    BY <1>0, <1>4, ResetLemma DEF Kept
  <1>5. UNCHANGED walVars \/ OpenFails \/ WalOpen \/ WalReset
    BY DEF Opening, BeginOpen, OpenStorage, OpenWal, ReadHeader, Replay, RecoveryDone,
           Checkpoint, OpenExecutor
  <1> QED
    BY <1>1, <1>2, <1>3, <1>4, <1>5

\* The page that is flushed has an image to log.
LEMMA Flushing ==
    ASSUME DInv, pc \in FlushPc
    PROVE  cur \in Page /\ mem[cur] \in Value
  BY DirtyFacts DEF DInv, Control

LEMMA ServiceLog == ASSUME DInv, Service PROVE WInv' /\ Kept
  <1>0. WInv
    BY DEF DInv
  <1>1. CASE UNCHANGED walVars
    BY <1>0, <1>1, StutterLemma DEF Kept
  <1>2. CASE LogAppend
    <2>1. cur \in Page /\ mem[cur] \in Value
      BY <1>2, Flushing DEF LogAppend, FlushPc
    <2>2. \/ AppendPageImage(cur, mem[cur])
          \/ AppendFails(cur, mem[cur])
          \/ UNCHANGED walVars
      BY <1>2 DEF LogAppend
    <2> QED
      BY <1>0, <2>1, <2>2, AppendLemma, AppendFailsLemma, StutterLemma DEF Kept
  <1>3. CASE LogFlush
    BY <1>0, <1>3, FlushLemma, FlushFailsLemma DEF LogFlush, Kept
  <1>4. CASE WalClose
    BY <1>0, <1>4, CloseLemma DEF Kept
  <1>5. CASE WalReset
    BY <1>0, <1>5, ResetLemma DEF Kept
  <1>6. CASE ResetFails
    BY <1>0, <1>6, ResetFailsLemma DEF Kept
  <1>7. \/ UNCHANGED walVars \/ LogAppend \/ LogFlush
        \/ WalClose \/ WalReset \/ ResetFails
    <2>1. FlushDone => UNCHANGED walVars \/ WalClose
      <3>1. job \in {"serve", "close", "exit"}
        BY DEF DInv, LocalType
      <3> QED
        BY <3>1 DEF FlushDone, DestroyWal
    <2>2. ResetLog => UNCHANGED walVars \/ WalReset \/ ResetFails
      BY DEF ResetLog
    <2>3. CloseWal => WalClose
      BY DEF CloseWal
    <2> QED
      BY <2>1, <2>2, <2>3
         DEF Service, Modify, AllocatePage, InitPage, BeginFlush, BeginFlushAll,
             FlushNext, WritePage
  <1> QED
    BY <1>1, <1>2, <1>3, <1>4, <1>5, <1>6, <1>7

LEMMA FaultLog == ASSUME DInv, Fault PROVE WInv' /\ Kept
  <1>0. WInv
    BY DEF DInv
  <1>1. CASE BuildFails \/ AllocatePageFails
    BY <1>0, <1>1, StutterLemma DEF BuildFails, AllocatePageFails, Kept
  <1>2. CASE OpenErrs \/ ReplayFails
    BY <1>0, <1>2, OpenFailsLog DEF OpenErrs, ReplayFails
  <1>3. CASE Crash
    BY <1>0, <1>3, CrashLemma DEF Crash, Kept
  <1> QED
    BY <1>1, <1>2, <1>3 DEF Fault

LEMMA NextLog == ASSUME DInv, Next PROVE WInv' /\ Kept
  BY CreationLog, OpeningLog, ServiceLog, FaultLog DEF Next, Work

-----------------------------------------------------------------------------
(* The files and the control *)

Local == LocalType /\ Control

FilesTyped ==
    /\ db \in Seq(Content) \cup {NoFile}
    /\ tmp \in Seq(Content) \cup {NoFile}
    /\ ragged \in BOOLEAN

\* No object, no open log.
LEMMA DiscardedLocal ==
    ASSUME Discarded, ~open', FilesTyped'
    PROVE  Local'
  <1>1. k' \in 1..(MaxLsn + 1)
    <2>1. k' = 1
      BY DEF Discarded
    <2> QED
      BY <2>1, LsnBound
  <1>2. erred' \in BOOLEAN
    BY DEF Discarded
  <1>3. mem' \in [Page -> Value \cup {Clean}] /\ todo' \in SUBSET Page /\ cur' \in Page
    BY ContentFacts DEF Discarded
  <1>4. pc' = "down" /\ job' = "serve"
    BY DEF Discarded
  <1>5. LocalType'
    BY <1>1, <1>2, <1>3, <1>4 DEF LocalType, FilesTyped
  <1>6. Control'
    BY <1>4 DEF Control, ClosedPc, BuildPc, OpenPc, UpPc, FlushPc
  <1> QED
    BY <1>5, <1>6 DEF Local

LEMMA OpenFailsLocal ==
    ASSUME LocalType, OpenFails, db' \in Seq(Content) \cup {NoFile}
    PROVE  Local'
  <1>1. ~open'
    BY DEF OpenFails, WalClose, NoStream, walVars
  <1>2. FilesTyped'
    BY DEF OpenFails, LocalType, FilesTyped
  <1> QED
    BY <1>1, <1>2, DiscardedLocal DEF OpenFails

\* The step goes to another place of the code; neither the pool nor the flush
\* changes.
LEMMA MovesLocal ==
    ASSUME LocalType, UNCHANGED memVars, FilesTyped',
           pc' \in {"down"} \cup BuildPc \cup OpenPc \cup (UpPc \ ({"next"} \cup FlushPc)),
           pc' \in ClosedPc => ~open',
           pc' \in BuildPc => Fresh',
           pc' \in BuildPc \ {"create_temp"} => tmp' \in Seq(Content),
           pc' \in OpenPc \cup UpPc => db' \in Seq(Content)
    PROVE  Local'
  <1>1. LocalType'
    BY DEF LocalType, FilesTyped, memVars
  <1>2. pc' # "next" /\ pc' \notin FlushPc
    BY DEF BuildPc, OpenPc, UpPc, FlushPc
  <1>3. Control'
    BY <1>2 DEF Control
  <1> QED
    BY <1>1, <1>3 DEF Local

LEMMA CreationLocal == ASSUME DInv, Creation PROVE Local'
  <1>0. LocalType /\ Control
    BY DEF DInv
  <1>1. ASSUME NEW from \in BuildPc, NEW to \in BuildPc, NEW image \in Seq(Content),
               Build(from, to, image)
        PROVE  Local'
    <2>1. pc = from /\ pc' = to /\ tmp' = image /\ UNCHANGED <<walVars, db, ragged, memVars>>
      BY <1>1 DEF Build
    <2>2. ~open' /\ Fresh'
      BY <1>0, <2>1 DEF Control, ClosedPc, walVars, Fresh
    <2>3. pc' \notin OpenPc \cup UpPc
      BY <2>1 DEF BuildPc, OpenPc, UpPc
    <2>4. FilesTyped'
      BY <1>0, <2>1 DEF LocalType, FilesTyped
    <2> QED
      BY <1>0, <2>1, <2>2, <2>3, <2>4, MovesLocal
  <1>2. CASE CreateTemp \/ AllocateHeader \/ AllocateCatalog \/ InitCatalogPage \/ WriteHeader
    <2>1. {"create_temp", "header_page", "catalog_page", "init_catalog", "header", "drop_wal"} \subseteq BuildPc
      BY DEF BuildPc
    <2> QED
      BY <1>1, <1>2, <2>1, ImageFacts
         DEF CreateTemp, AllocateHeader, AllocateCatalog, InitCatalogPage, WriteHeader
  <1>3. CASE DropStaleWal
    <2>1. /\ pc = "drop_wal" /\ pc' = "replace"
          /\ UNCHANGED <<streamVars, fileVars, memVars>>
      BY <1>3 DEF DropStaleWal
    <2>2. ~open' /\ Fresh' /\ tmp' \in Seq(Content)
      BY <1>0, <2>1 DEF Control, ClosedPc, BuildPc, streamVars, fileVars, Fresh
    <2>3. FilesTyped'
      BY <1>0, <2>1 DEF LocalType, FilesTyped, fileVars
    <2>4. pc' \in BuildPc /\ pc' \notin OpenPc \cup UpPc
      BY <2>1 DEF BuildPc, OpenPc, UpPc
    <2> QED
      BY <1>0, <2>1, <2>2, <2>3, <2>4, MovesLocal
  <1>4. CASE RemovePlaceholder
    <2>1. /\ pc = "replace" /\ pc' = "publish" /\ db' = NoFile
          /\ UNCHANGED <<walVars, tmp, ragged, memVars>>
      BY <1>4 DEF RemovePlaceholder
    <2>2. ~open' /\ Fresh' /\ tmp' \in Seq(Content)
      BY <1>0, <2>1 DEF Control, ClosedPc, BuildPc, walVars, Fresh
    <2>3. FilesTyped'
      BY <1>0, <2>1 DEF LocalType, FilesTyped
    <2>4. pc' \in BuildPc /\ pc' \notin OpenPc \cup UpPc
      BY <2>1 DEF BuildPc, OpenPc, UpPc
    <2> QED
      BY <1>0, <2>1, <2>2, <2>3, <2>4, MovesLocal
  <1>5. CASE Publish
    <2>1. /\ pc = "publish" /\ pc' = "open_storage" /\ db' = tmp /\ tmp' = NoFile
          /\ UNCHANGED <<walVars, ragged, memVars>>
      BY <1>5 DEF Publish
    <2>2. ~open' /\ db' \in Seq(Content)
      BY <1>0, <2>1 DEF Control, ClosedPc, BuildPc, walVars
    <2>3. FilesTyped'
      BY <1>0, <2>1, <2>2 DEF LocalType, FilesTyped
    <2>4. pc' \in OpenPc /\ pc' \notin BuildPc
      BY <2>1 DEF BuildPc, OpenPc
    <2> QED
      BY <1>0, <2>1, <2>2, <2>3, <2>4, MovesLocal
  <1> QED
    BY <1>2, <1>3, <1>4, <1>5 DEF Creation

\* The step changes the position of the replay, and perhaps a page.
LEMMA CountsLocal ==
    ASSUME LocalType, pc' \in {"replay", "checkpoint"}, k' \in 1..(MaxLsn + 1),
           db' \in Seq(Content), UNCHANGED <<tmp, ragged, mem, job, todo, cur, erred>>
    PROVE  Local'
  <1>1. LocalType'
    BY DEF LocalType, OpenPc
  <1>2. Control'
    BY DEF Control, ClosedPc, BuildPc, OpenPc, UpPc, FlushPc
  <1> QED
    BY <1>1, <1>2 DEF Local

\* A record that is replayed puts a value into the file.
LEMMA ReplayLocal ==
    ASSUME DInv, Replay, ~(OpenFails /\ UNCHANGED db)
    PROVE  Local'
  <1>0. LocalType /\ Control /\ WInv
    BY DEF DInv
  <1>1. /\ pc = "replay" /\ pc' = pc
        /\ k <= Len(wal.recs)
        /\ db' = [db EXCEPT ![wal.recs[k].page] = wal.recs[k].image]
        /\ k' = k + 1
        /\ UNCHANGED <<tmp, ragged, mem, job, todo, cur, erred>>
    BY DEF Replay
  <1>2. k \in 1..(MaxLsn + 1) /\ Len(wal.recs) \in Nat /\ Len(wal.recs) <= MaxLsn
    BY <1>0, WInvFacts, LastLsnFacts DEF LocalType
  <1>3. k \in 1..Len(wal.recs) /\ k' \in 1..(MaxLsn + 1)
    BY <1>1, <1>2, LsnBound
  <1>4. wal.recs[k] \in Record
    BY <1>0, <1>3, WInvFacts, ElementOfSeq
  <1>5. wal.recs[k].image \in Content
    BY <1>4, ContentFacts DEF Record
  <1>6. db \in Seq(Content)
    BY <1>0, <1>1 DEF Control, OpenPc
  <1>7. db' \in Seq(Content)
    BY <1>1, <1>5, <1>6, PageReplaced
  <1> QED
    BY <1>0, <1>1, <1>3, <1>7, CountsLocal

LEMMA RecoveryDoneLocal == ASSUME DInv, RecoveryDone PROVE Local'
  <1>0. LocalType /\ Control
    BY DEF DInv
  <1>1. /\ pc = "replay" /\ pc' = "checkpoint" /\ k' = 1
        /\ UNCHANGED <<db, tmp, ragged, mem, job, todo, cur, erred>>
    BY DEF RecoveryDone, fileVars
  <1>2. k' \in 1..(MaxLsn + 1)
    BY <1>1, LsnBound
  <1>3. db' \in Seq(Content)
    BY <1>0, <1>1 DEF Control, OpenPc
  <1> QED
    BY <1>0, <1>1, <1>2, <1>3, CountsLocal

LEMMA OpeningLocal == ASSUME DInv, Opening PROVE Local'
  <1>0. LocalType /\ Control /\ WInv
    BY DEF DInv
  <1>1. CASE OpenFails /\ UNCHANGED db
    <2>1. db' \in Seq(Content) \cup {NoFile}
      BY <1>0, <1>1 DEF LocalType
    <2> QED
      BY <1>0, <1>1, <2>1, OpenFailsLocal
  <1>2. CASE BeginOpen
    <2>1. /\ pc = "down" /\ tmp' = NoFile
          /\ pc' = IF Fresh THEN "create_temp" ELSE "open_storage"
          /\ UNCHANGED <<walVars, db, ragged, memVars>>
      BY <1>2 DEF BeginOpen
    <2>2. ~open' /\ (Fresh' <=> Fresh)
      BY <1>0, <2>1 DEF Control, ClosedPc, walVars, Fresh
    <2>3. FilesTyped'
      BY <1>0, <2>1 DEF LocalType, FilesTyped
    <2>4. ~Fresh => db' \in Seq(Content)
      BY <1>0, <2>1 DEF LocalType, Fresh
    <2>5. /\ Fresh => pc' = "create_temp"
          /\ ~Fresh => pc' = "open_storage"
      BY <2>1
    <2>6. CASE Fresh
      <3>1. pc' \in BuildPc /\ pc' \notin OpenPc \cup UpPc
        BY <2>5, <2>6 DEF BuildPc, OpenPc, UpPc
      <3> QED
        BY <1>0, <2>1, <2>2, <2>3, <2>5, <2>6, <3>1, MovesLocal
    <2>7. CASE ~Fresh
      <3>1. pc' \in OpenPc /\ pc' \notin BuildPc
        BY <2>5, <2>7 DEF BuildPc, OpenPc
      <3> QED
        BY <1>0, <2>1, <2>2, <2>3, <2>4, <2>7, <3>1, MovesLocal
    <2> QED
      BY <2>6, <2>7
  <1>3. ASSUME pc \in OpenPc, UNCHANGED <<db, tmp, ragged>>, UNCHANGED memVars,
               pc' \in OpenPc \cup {"serving"}, pc' \in ClosedPc => ~open'
        PROVE  Local'
    <2>1. FilesTyped' /\ db' \in Seq(Content)
      BY <1>0, <1>3 DEF LocalType, FilesTyped, Control
    <2>2. /\ pc' \notin BuildPc
          /\ pc' \in OpenPc \cup (UpPc \ ({"next"} \cup FlushPc))
      BY <1>3 DEF BuildPc, OpenPc, UpPc, FlushPc
    <2> QED
      BY <1>0, <1>3, <2>1, <2>2, MovesLocal
  <1>4. CASE ~(OpenFails /\ UNCHANGED db) /\ OpenStorage
    <2>1. /\ pc = "open_storage" /\ pc' = "open_wal"
          /\ UNCHANGED <<walVars, db, tmp, ragged, memVars>>
      BY <1>4 DEF OpenStorage
    <2>2. ~open'
      BY <1>0, <2>1 DEF Control, ClosedPc, walVars
    <2> QED
      BY <1>3, <2>1, <2>2 DEF OpenPc
  <1>5. CASE ~(OpenFails /\ UNCHANGED db)
             /\ (OpenWal \/ ReadHeader \/ Checkpoint \/ OpenExecutor)
    <2>1. /\ pc \in OpenPc
          /\ pc' \in {"read_header", "replay", "open_executor", "serving"}
          /\ UNCHANGED <<db, tmp, ragged>>
          /\ UNCHANGED memVars
      BY <1>5 DEF OpenWal, ReadHeader, Checkpoint, OpenExecutor, OpenPc, fileVars
    <2>2. pc' \in OpenPc \cup {"serving"} /\ pc' \notin ClosedPc
      BY <2>1 DEF OpenPc, ClosedPc, BuildPc
    <2> QED
      BY <1>3, <2>1, <2>2
  <1>6. CASE ~(OpenFails /\ UNCHANGED db) /\ Replay
    BY <1>6, ReplayLocal
  <1>7. CASE RecoveryDone
    BY <1>7, RecoveryDoneLocal
  <1> QED
    BY <1>1, <1>2, <1>4, <1>5, <1>6, <1>7 DEF Opening

\* A step of an open database that stays open: what it has to keep.
LEMMA UpLocal ==
    ASSUME LocalType, FilesTyped', pc' \in UpPc, db' \in Seq(Content), k' = k,
           mem' \in [Page -> Value \cup {Clean}], job' \in {"serve", "close", "exit"},
           todo' \in SUBSET Page, cur' \in Page, erred' \in BOOLEAN,
           pc' = "next" => todo' \subseteq Dirty',
           pc' \in FlushPc => cur' \in Dirty' /\ todo' \subseteq Dirty' \ {cur'}
    PROVE  Local'
  <1>1. LocalType'
    BY DEF LocalType, FilesTyped
  <1>2. pc' \notin ClosedPc /\ pc' \notin BuildPc
    BY DEF ClosedPc, BuildPc, UpPc
  <1>3. Control'
    BY <1>2 DEF Control
  <1> QED
    BY <1>1, <1>3 DEF Local

LEMMA UpFacts ==
    ASSUME DInv, pc \in UpPc
    PROVE  /\ LocalType /\ Control /\ WInv
           /\ db \in Seq(Content)
           /\ FilesTyped
           /\ mem \in [Page -> Value \cup {Clean}]
           /\ job \in {"serve", "close", "exit"}
           /\ todo \in SUBSET Page
           /\ cur \in Page
           /\ erred \in BOOLEAN
  BY DEF DInv, LocalType, Control, FilesTyped

\* The place in the code changes and the pool and the job do not.
LEMMA RestLocal ==
    ASSUME DInv, pc \in UpPc, UNCHANGED <<tmp, ragged, memVars>>, db' \in Seq(Content),
           pc' \in UpPc \ ({"next"} \cup FlushPc)
    PROVE  Local'
  <1>1. FilesTyped'
    BY UpFacts DEF FilesTyped
  <1>2. pc' \notin BuildPc /\ pc' \notin ClosedPc
    BY DEF BuildPc, ClosedPc, UpPc
  <1> QED
    BY <1>1, <1>2, UpFacts, MovesLocal

LEMMA ModifyLocal ==
    ASSUME DInv, NEW p \in Page, NEW v \in Value, Modify(p, v)
    PROVE  Local'
  <1>1. /\ pc = "serving" /\ pc' = pc /\ k' = k
        /\ mem' = [mem EXCEPT ![p] = v]
        /\ UNCHANGED <<db, tmp, ragged, job, todo, cur, erred>>
    BY DEF Modify, fileVars
  <1>2. pc \in UpPc /\ pc # "next" /\ pc \notin FlushPc
    BY <1>1 DEF UpPc, FlushPc
  <1>3. FilesTyped' /\ mem' \in [Page -> Value \cup {Clean}] /\ erred' \in BOOLEAN
    BY <1>1, <1>2, UpFacts DEF FilesTyped
  <1> QED
    BY <1>1, <1>2, <1>3, UpFacts, UpLocal

LEMMA AllocateLocal == ASSUME DInv, AllocatePage \/ InitPage PROVE Local'
  <1>1. /\ pc \in {"serving", "init_page"} /\ pc' \in {"serving", "init_page"}
        /\ UNCHANGED <<tmp, ragged, memVars>>
    BY DEF AllocatePage, InitPage
  <1>2. pc \in UpPc /\ pc' \in UpPc \ ({"next"} \cup FlushPc)
    BY <1>1 DEF UpPc, FlushPc
  <1>3. db \in Seq(Content)
    BY <1>2, UpFacts
  <1>4. db' \in Seq(Content)
    <2>1. CASE AllocatePage
      <3>1. db' = Append(db, Blank) /\ Blank \in Content
        BY <2>1, ContentFacts DEF AllocatePage
      <3> QED
        BY <1>3, <3>1, AppendProperties
    <2>2. CASE InitPage
      <3>1. \/ db' = db
            \/ db' = [db EXCEPT ![Len(db)] = InitImage]
            \/ db' = [db EXCEPT ![Len(db)] = Torn]
        BY <2>2 DEF InitPage
      <3> QED
        BY <1>3, <3>1, ContentFacts, PageReplaced
    <2> QED
      BY <2>1, <2>2
  <1> QED
    BY <1>1, <1>2, <1>4, RestLocal

\* A job begins.
LEMMA BeginLocal ==
    ASSUME DInv, (\E p \in Page : BeginFlush(p))
                 \/ (\E why \in {"close", "exit"} : BeginFlushAll(why))
    PROVE  Local'
  <1>1. /\ pc \in UpPc /\ pc' = "next"
        /\ UNCHANGED <<db, tmp, ragged, k, mem, cur>>
    BY DEF BeginFlush, BeginFlushAll, UpPc, fileVars
  <1>2. todo' \subseteq Dirty /\ job' \in {"serve", "close", "exit"}
    BY DEF BeginFlush, BeginFlushAll
  <1>3. erred' \in BOOLEAN
    <2>1. erred' = erred \/ erred' = FALSE
      BY DEF BeginFlush, BeginFlushAll
    <2> QED
      BY <1>1, <2>1, UpFacts
  <1>4. Dirty' = Dirty /\ Dirty \subseteq Page
    BY <1>1 DEF Dirty
  <1>5. FilesTyped' /\ db' \in Seq(Content) /\ pc' \in UpPc /\ pc' \notin FlushPc
    BY <1>1, UpFacts DEF FilesTyped, UpPc, FlushPc
  <1>6. mem' \in [Page -> Value \cup {Clean}] /\ cur' \in Page
    BY <1>1, UpFacts
  <1> QED
    BY <1>1, <1>2, <1>3, <1>4, <1>5, <1>6, UpFacts, UpLocal

\* The next page of a job, or its next step for the page at hand.
LEMMA FlushNextLocal == ASSUME DInv, FlushNext PROVE Local'
  <1>1. /\ pc = "next" /\ pc' = "append"
        /\ UNCHANGED <<db, tmp, ragged, k, mem, job, erred>>
    BY DEF FlushNext, fileVars
  <1>2. cur' \in todo /\ todo' = todo \ {cur'}
    BY DEF FlushNext
  <1>3. pc \in UpPc /\ pc' \in UpPc /\ pc' # "next"
    BY <1>1 DEF UpPc
  <1>4. todo \subseteq Dirty /\ Dirty' = Dirty
    BY <1>1, <1>3, UpFacts DEF Control, Dirty
  <1>5. FilesTyped' /\ db' \in Seq(Content) /\ erred' \in BOOLEAN
    BY <1>1, <1>3, UpFacts DEF FilesTyped
  <1>6. todo' \in SUBSET Page /\ cur' \in Page
    BY <1>2, <1>3, UpFacts
  <1>7. mem' \in [Page -> Value \cup {Clean}] /\ job' \in {"serve", "close", "exit"}
    BY <1>1, <1>3, UpFacts
  <1> QED
    BY <1>1, <1>2, <1>3, <1>4, <1>5, <1>6, <1>7, UpFacts, UpLocal

\* FlushFrame goes on with its page, or gives it up and leaves it dirty.
LEMMA FrameLocal ==
    ASSUME DInv, pc \in FlushPc, db' \in Seq(Content),
           \/ pc' \in FlushPc /\ UNCHANGED <<tmp, ragged, memVars>>
           \/ FlushFrameFails
    PROVE  Local'
  <1>1. pc \in UpPc /\ UNCHANGED <<tmp, ragged, k, mem, job, todo, cur>>
    BY DEF FlushFrameFails, memVars, FlushPc, UpPc
  <1>2. pc' \in FlushPc \cup {"next"}
    BY DEF FlushFrameFails
  <1>3. erred' \in BOOLEAN
    <2>1. erred' = erred \/ erred' = TRUE
      BY DEF FlushFrameFails, memVars
    <2> QED
      BY <1>1, <2>1, UpFacts
  <1>4. cur \in Dirty /\ todo \subseteq Dirty \ {cur} /\ Dirty' = Dirty
    BY <1>1, UpFacts DEF Control, Dirty
  <1>5. FilesTyped' /\ pc' \in UpPc
    BY <1>1, <1>2, UpFacts DEF FilesTyped, FlushPc, UpPc
  <1>6. /\ mem' \in [Page -> Value \cup {Clean}] /\ job' \in {"serve", "close", "exit"}
        /\ todo' \in SUBSET Page /\ cur' \in Page
    BY <1>1, UpFacts
  <1> QED
    BY <1>1, <1>3, <1>4, <1>5, <1>6, UpFacts, UpLocal

LEMMA LogStepLocal == ASSUME DInv, LogAppend \/ LogFlush PROVE Local'
  <1>1. /\ pc \in FlushPc
        /\ UNCHANGED db
        /\ \/ pc' \in FlushPc /\ UNCHANGED <<tmp, ragged, memVars>>
           \/ FlushFrameFails
    BY DEF LogAppend, LogFlush, FlushPc, fileVars
  <1>2. db' \in Seq(Content)
    BY <1>1, UpFacts DEF FlushPc, UpPc
  <1> QED
    BY <1>1, <1>2, FrameLocal

LEMMA WritePageLocal == ASSUME DInv, WritePage PROVE Local'
  <1>1. pc = "write" /\ pc \in FlushPc /\ pc \in UpPc
    BY DEF WritePage, FlushPc, UpPc
  <1>2. db \in Seq(Content) /\ cur \in Page /\ mem[cur] \in Content /\ Torn \in Content
    BY <1>1, UpFacts, Flushing, ContentFacts
  <1>3. CASE FlushFrameFails
    <2>1. db' = db \/ db' = [db EXCEPT ![cur] = Torn] \/ db' = [db EXCEPT ![cur] = mem[cur]]
      BY DEF WritePage
    <2>2. db' \in Seq(Content)
      BY <1>2, <2>1, PageReplaced
    <2> QED
      BY <1>1, <1>3, <2>2, FrameLocal
  <1>4. CASE ~FlushFrameFails
    <2>1. /\ db' = [db EXCEPT ![cur] = mem[cur]]
          /\ mem' = [mem EXCEPT ![cur] = Clean]
          /\ pc' = "next"
          /\ UNCHANGED <<tmp, ragged, k, job, todo, cur, erred>>
      BY <1>4 DEF WritePage
    <2>2. db' \in Seq(Content)
      BY <1>2, <2>1, PageReplaced
    <2>3. mem' \in [Page -> Value \cup {Clean}]
      BY <1>1, <2>1, UpFacts
    <2>4. todo \subseteq Dirty \ {cur}
      BY <1>1, UpFacts DEF Control
    <2>5. todo' \subseteq Dirty'
      BY <1>1, <2>1, <2>4, UpFacts DEF Dirty
    <2>6. FilesTyped' /\ pc' \in UpPc /\ pc' \notin FlushPc
      BY <1>1, <2>1, <2>2, UpFacts DEF FilesTyped, UpPc, FlushPc
    <2>7. job' \in {"serve", "close", "exit"} /\ todo' \in SUBSET Page /\ cur' \in Page
      BY <1>1, <2>1, UpFacts
    <2>8. erred' \in BOOLEAN
      BY <1>1, <2>1, UpFacts
    <2> QED
      BY <1>1, <2>1, <2>2, <2>3, <2>5, <2>6, <2>7, <2>8, UpFacts, UpLocal
  <1> QED
    BY <1>3, <1>4

\* The object goes, and its log with it.
LEMMA DestroyLocal ==
    ASSUME LocalType, Discarded, WalClose \/ (~open /\ UNCHANGED walVars), UNCHANGED fileVars
    PROVE  Local'
  <1>1. ~open'
    BY DEF WalClose, NoStream, walVars
  <1>2. FilesTyped'
    BY DEF LocalType, FilesTyped, fileVars
  <1> QED
    BY <1>1, <1>2, DiscardedLocal

LEMMA FlushDoneLocal == ASSUME DInv, FlushDone PROVE Local'
  <1>1. pc = "next" /\ pc \in UpPc /\ UNCHANGED <<db, tmp, ragged>>
    BY DEF FlushDone, UpPc, fileVars
  <1>2. CASE job = "serve"
    <2>1. pc' = "serving" /\ UNCHANGED <<k, mem, job, todo, cur>>
      BY <1>2 DEF FlushDone
    <2>2. erred' \in BOOLEAN
      BY <1>2 DEF FlushDone
    <2>3. FilesTyped' /\ db' \in Seq(Content)
      BY <1>1, UpFacts DEF FilesTyped
    <2>4. pc' \in UpPc /\ pc' # "next" /\ pc' \notin FlushPc
      BY <2>1 DEF UpPc, FlushPc
    <2>5. /\ mem' \in [Page -> Value \cup {Clean}] /\ job' \in {"serve", "close", "exit"}
          /\ todo' \in SUBSET Page /\ cur' \in Page
      BY <1>1, <2>1, UpFacts
    <2> QED
      BY <1>1, <2>1, <2>2, <2>3, <2>4, <2>5, UpFacts, UpLocal
  <1>3. CASE job = "close"
    <2>1. pc' \in {"half_closed", "reset"} /\ UNCHANGED memVars
      BY <1>3 DEF FlushDone
    <2>2. pc' \in UpPc \ ({"next"} \cup FlushPc)
      BY <2>1 DEF UpPc, FlushPc
    <2>3. db' \in Seq(Content)
      BY <1>1, UpFacts
    <2> QED
      BY <1>1, <2>1, <2>2, <2>3, RestLocal
  <1>4. CASE job = "exit"
    <2>1. Discarded /\ (WalClose \/ (~open /\ UNCHANGED walVars)) /\ UNCHANGED fileVars
      BY <1>4 DEF FlushDone, DestroyWal
    <2> QED
      BY <1>1, <2>1, UpFacts, DestroyLocal
  <1> QED
    BY <1>1, <1>2, <1>3, <1>4, UpFacts

LEMMA ClosingLocal == ASSUME DInv, ResetLog \/ CloseWal PROVE Local'
  <1>1. pc \in UpPc /\ UNCHANGED <<db, tmp, ragged>>
    BY DEF ResetLog, CloseWal, UpPc, fileVars
  <1>2. CASE Discarded
    <2>1. pc' = "down"
      BY <1>2 DEF Discarded
    <2>2. CloseWal
      BY <2>1 DEF ResetLog
    <2> QED
      BY <1>1, <1>2, <2>2, UpFacts, DestroyLocal DEF CloseWal
  <1>3. CASE ~Discarded
    <2>1. pc' \in {"close_wal", "half_closed"} /\ UNCHANGED memVars
      BY <1>3 DEF ResetLog, CloseWal
    <2>2. pc' \in UpPc \ ({"next"} \cup FlushPc)
      BY <2>1 DEF UpPc, FlushPc
    <2>3. db' \in Seq(Content)
      BY <1>1, UpFacts
    <2> QED
      BY <1>1, <2>1, <2>2, <2>3, RestLocal
  <1> QED
    BY <1>2, <1>3

LEMMA ServiceLocal == ASSUME DInv, Service PROVE Local'
  BY ModifyLocal, AllocateLocal, BeginLocal, FlushNextLocal, LogStepLocal,
     WritePageLocal, FlushDoneLocal, ClosingLocal DEF Service

\* A page that is torn when its writing stops is still a page.
LEMMA FaultLocal == ASSUME DInv, Fault PROVE Local'
  <1>0. LocalType /\ Control /\ WInv
    BY DEF DInv
  <1>1. CASE BuildFails
    <2>1. /\ pc \in BuildPc /\ pc' = "down" /\ tmp' = NoFile
          /\ UNCHANGED <<walVars, db, ragged, memVars>>
      BY <1>1 DEF BuildFails
    <2>2. ~open'
      BY <1>0, <2>1 DEF Control, ClosedPc, walVars
    <2>3. FilesTyped'
      BY <1>0, <2>1 DEF LocalType, FilesTyped
    <2>4. pc' \notin BuildPc \cup OpenPc \cup UpPc
      BY <2>1 DEF BuildPc, OpenPc, UpPc
    <2> QED
      BY <1>0, <2>1, <2>2, <2>3, <2>4, MovesLocal
  <1>2. CASE OpenErrs
    <2>1. OpenFails /\ db' = db
      BY <1>2 DEF OpenErrs
    <2>2. db' \in Seq(Content) \cup {NoFile}
      BY <1>0, <2>1 DEF LocalType
    <2> QED
      BY <1>0, <2>1, <2>2, OpenFailsLocal
  <1>3. CASE ReplayFails
    <2>1. /\ OpenFails /\ pc = "replay"
          /\ db' = db \/ db' = [db EXCEPT ![wal.recs[k].page] = Torn]
      BY <1>3 DEF ReplayFails
    <2>2. db \in Seq(Content)
      BY <1>0, <2>1 DEF Control, OpenPc
    <2>3. db' \in Seq(Content)
      BY <2>1, <2>2, ContentFacts, PageReplaced
    <2> QED
      BY <1>0, <2>1, <2>3, OpenFailsLocal
  <1>4. CASE AllocatePageFails
    <2>1. pc = "serving" /\ pc' = pc /\ UNCHANGED <<db, tmp, memVars>>
      BY <1>4 DEF AllocatePageFails
    <2>2. pc \in UpPc /\ pc' \notin BuildPc \cup ClosedPc
      BY <2>1 DEF UpPc, BuildPc, ClosedPc
    <2>3. ragged' \in BOOLEAN
      BY <1>4 DEF AllocatePageFails
    <2>4. FilesTyped' /\ db' \in Seq(Content)
      BY <2>1, <2>2, <2>3, UpFacts DEF FilesTyped
    <2>5. pc' \in UpPc \ ({"next"} \cup FlushPc)
      BY <2>1 DEF UpPc, FlushPc
    <2> QED
      BY <1>0, <2>1, <2>2, <2>4, <2>5, MovesLocal
  <1>5. CASE Crash
    <2>1. Discarded /\ WalCrash /\ UNCHANGED <<tmp, ragged>>
      BY <1>5 DEF Crash
    <2>2. ~open'
      BY <2>1 DEF WalCrash, NoStream
    <2>3. db' = db \/ \E p \in InFlight : db' = [db EXCEPT ![p] = Torn]
      BY <1>5 DEF Crash
    <2>4. InFlight # {} => db \in Seq(Content)
      BY <1>0 DEF InFlight, Control, OpenPc, UpPc
    <2>5. db' \in Seq(Content) \cup {NoFile}
      <3>1. CASE db' = db
        BY <1>0, <3>1 DEF LocalType
      <3>2. CASE \E p \in InFlight : db' = [db EXCEPT ![p] = Torn]
        <4>1. db \in Seq(Content)
          BY <2>4, <3>2
        <4> QED
          BY <3>2, <4>1, ContentFacts, PageReplaced
      <3> QED
        BY <2>3, <3>1, <3>2
    <2>6. FilesTyped'
      BY <1>0, <2>1, <2>5 DEF LocalType, FilesTyped
    <2> QED
      BY <2>1, <2>2, <2>6, DiscardedLocal
  <1> QED
    BY <1>1, <1>2, <1>3, <1>4, <1>5 DEF Fault

LEMMA NextLocal == ASSUME DInv, Next PROVE Local'
  BY CreationLocal, OpeningLocal, ServiceLocal, FaultLocal DEF Next, Work

LEMMA StutterLocal == ASSUME DInv, UNCHANGED vars PROVE Local'
  <1>1. LocalType /\ Control
    BY DEF DInv
  <1> QED
    BY <1>1 DEF vars, walVars, fileVars, memVars, LocalType, Control, Local, Fresh, Dirty

-----------------------------------------------------------------------------
LEMMA DatabaseStep == ASSUME DInv, [Next]_vars PROVE DInv' /\ (Kept \/ UNCHANGED walVars)
  <1>0. ASSUME WInv', Local' PROVE DInv'
    BY <1>0 DEF Local, DInv
  <1>1. CASE Next
    BY <1>0, <1>1, NextLog, NextLocal
  <1>2. CASE UNCHANGED vars
    <2>1. UNCHANGED walVars
      BY <1>2 DEF vars
    <2>2. WInv'
      BY <2>1, StutterLemma DEF DInv
    <2> QED
      BY <1>0, <1>2, <2>1, <2>2, StutterLocal
  <1> QED
    BY <1>1, <1>2

\* The inductive invariant of the database.
THEOREM DatabaseInvariance == Spec => []DInv
  <1>1. DInv /\ [Next]_vars => DInv'
    BY DatabaseStep
  <1> QED
    BY <1>1, DatabaseInit, PTL DEF Spec

\* Through creation, recovery, flushes, closing, failures and crashes the files,
\* the pool and the flush at hand are well typed: a page that is logged is one
\* that holds a value, and replay never runs past the records.
THEOREM DatabaseTypeCorrect == Spec => []DatabaseTypeOK
  BY DatabaseInvariance, DInvTyped, PTL

\* In the log of a database, too, the records count up from 1 without a gap:
\* recovery never rejects it for its numbering.
THEOREM DatabaseLogNumbered == Spec => []Numbered
  BY DatabaseInvariance, NumberedFromWInv, PTL DEF DInv

\* A page image that BeforePageWrite has reported durable is readable.
THEOREM DatabaseAckedReadable == Spec => []AckedReadable
  <1>1. DInv => AckedReadable
    BY DEF DInv, WInv
  <1> QED
    BY <1>1, DatabaseInvariance, PTL

\* Whatever fails, records leave the log of a database only by Reset, and only
\* the creation of a database discards a log that it finds.
THEOREM DatabaseLogKept == Spec => LogKept
  <1>1. DInv /\ [Next]_vars
          => [\/ IsPrefix(wal.recs, wal'.recs)
              \/ wal' = EmptyLog /\ (open \/ Fresh)]_walVars
    BY DatabaseStep DEF Kept, Grows
  <1> QED
    BY <1>1, DatabaseInvariance, PTL DEF Spec, LogKept
=============================================================================
