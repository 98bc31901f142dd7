-------------------------------- MODULE Wal --------------------------------
(***************************************************************************)
(* The write-ahead log of src/src/db/wal/wal.cpp: one file of page images, *)
(* written through a buffered stream, read back by Scan and Recover.       *)
(*                                                                         *)
(* The log file is the sequence of the records a reader accepts from its   *)
(* start, and its tail: what comes after them.                             *)
(*   "clean"    nothing: the file ends after the last record               *)
(*   "torn"     an incomplete record, which ends the log (kEnd, truncated) *)
(*   "garbage"  the bytes of a complete record that is not valid (kCorrupt)*)
(* Bytes written behind an incomplete record are read as its missing part. *)
(* Once they complete it, it fails its magic, length or checksum test:     *)
(* there is no way back from "garbage" except truncation.                  *)
(*                                                                         *)
(* Durable means handed to the operating system: a crash is the death of   *)
(* the process.  What the stream still buffers may have reached the file   *)
(* up to any byte.                                                         *)
(***************************************************************************)
EXTENDS Integers, Sequences, SequencesExt

CONSTANTS MaxPage,   \* page ids are 1..MaxPage (the code's id plus one)
          Value,     \* page images
          MaxLsn,    \* bound on the sequence numbers
          Faults     \* the kinds of failure that may happen

ASSUME WalAssumption ==
    /\ MaxPage \in Nat \ {0}
    /\ MaxLsn \in Nat \ {0}
    /\ Faults \subseteq {"crash", "log_write", "page_write", "extend", "files"}

Page   == 1..MaxPage
Record == [lsn : 1..MaxLsn, page : Page, image : Value]

VARIABLES wal,          \* the log file: [recs, tail]
          pending,      \* whole records still in the stream's buffer
          failed,       \* the stream has failed: it accepts nothing more
          open,         \* open_
          next_lsn,     \* next_lsn_
          durable_lsn   \* durable_lsn_

streamVars == <<pending, failed, open, next_lsn, durable_lsn>>
walVars    == <<wal, pending, failed, open, next_lsn, durable_lsn>>

EmptyLog == [recs |-> <<>>, tail |-> "clean"]

WalTypeOK ==
    /\ wal \in [recs : Seq(Record), tail : {"clean", "torn", "garbage"}]
    /\ pending \in Seq(Record)
    /\ failed \in BOOLEAN
    /\ open \in BOOLEAN
    /\ next_lsn \in 1..(MaxLsn + 1)
    /\ durable_lsn \in 0..MaxLsn

-----------------------------------------------------------------------------
\* The file f after the whole records s were written at its end.
Put(f, s) ==
    IF s = <<>> THEN f
    ELSE IF f.tail = "clean" THEN [f EXCEPT !.recs = @ \o s]
    ELSE [f EXCEPT !.tail = "garbage"]

\* The file f after part of a record was written at its end.
Fragments(f) ==
    {[f EXCEPT !.tail = t] :
        t \in CASE f.tail = "clean"   -> {"torn"}
                [] f.tail = "torn"    -> {"torn", "garbage"}
                [] f.tail = "garbage" -> {"garbage"}}

\* The file f when the writing of s stopped at some byte.
Cut(f, s) ==
    UNION {{Put(f, t)} \cup (IF t = s THEN {} ELSE Fragments(Put(f, t))) :
               t \in Prefixes(s)}

\* ReadRecord, run to the end of the log: does it find only valid records and
\* possibly an incomplete one, with increasing sequence numbers?
Valid(f) ==
    /\ f.tail # "garbage"
    /\ \A i, j \in 1..Len(f.recs) : i < j => f.recs[i].lsn < f.recs[j].lsn

LastLsn(f) == IF f.recs = <<>> THEN 0 ELSE Last(f.recs).lsn

\* A Wal object that is gone.
NoStream ==
    /\ open' = FALSE
    /\ pending' = <<>>
    /\ failed' = FALSE
    /\ next_lsn' = 1
    /\ durable_lsn' = 0

-----------------------------------------------------------------------------
WalInit ==
    /\ wal = EmptyLog
    /\ pending = <<>>
    /\ failed = FALSE
    /\ open = FALSE
    /\ next_lsn = 1
    /\ durable_lsn = 0

\* Mutant: the file is opened with trunc.
WalOpenTrunc ==
    /\ ~open
    /\ Valid(wal)
    /\ wal' = EmptyLog
    /\ open' = TRUE
    /\ next_lsn' = 1
    /\ durable_lsn' = 0
    /\ UNCHANGED <<pending, failed>>

\* Wal::Open: the stream is in append mode, so writing goes to the end of the
\* file, behind an incomplete record if there is one.  A corrupt log is
\* refused and nothing changes.
WalOpen ==
    /\ ~open
    /\ Valid(wal)
    /\ open' = TRUE
    /\ next_lsn' = LastLsn(wal) + 1
    /\ durable_lsn' = LastLsn(wal)
    /\ UNCHANGED <<wal, pending, failed>>

AppendPageImage(p, v) ==
    /\ open
    /\ ~failed
    /\ next_lsn <= MaxLsn
    /\ pending' = Append(pending, [lsn |-> next_lsn, page |-> p, image |-> v])
    /\ next_lsn' = next_lsn + 1
    /\ UNCHANGED <<wal, failed, open, durable_lsn>>

\* The stream meets an error while it writes s; it stays failed.
StreamFails(s) ==
    /\ "log_write" \in Faults
    /\ open
    /\ ~failed
    /\ wal' \in Cut(wal, s) \ {Put(wal, s)}
    /\ failed' = TRUE
    /\ pending' = <<>>

\* The sequence number is not consumed.
AppendFails(p, v) ==
    /\ next_lsn <= MaxLsn
    /\ StreamFails(Append(pending, [lsn |-> next_lsn, page |-> p, image |-> v]))
    /\ UNCHANGED <<open, next_lsn, durable_lsn>>

\* Mutant: the number of the next record is reported durable.
FlushOffByOne ==
    /\ open
    /\ ~failed
    /\ wal' = Put(wal, pending)
    /\ pending' = <<>>
    /\ durable_lsn' = next_lsn
    /\ UNCHANGED <<failed, open, next_lsn>>

Flush ==
    /\ open
    /\ ~failed
    /\ wal' = Put(wal, pending)
    /\ pending' = <<>>
    /\ durable_lsn' = next_lsn - 1
    /\ UNCHANGED <<failed, open, next_lsn>>

FlushFails ==
    /\ pending # <<>>
    /\ StreamFails(pending)
    /\ UNCHANGED <<open, next_lsn, durable_lsn>>

\* What closing the file adds to it.  A failed stream still buffers the header
\* of the record it could not write, and closing tries to write it once more.
AfterClose(f) ==
    IF failed THEN {f} \cup Fragments(f) ELSE {Put(f, pending)}

\* Wal::Close, and the destructor of an open log.
WalClose ==
    /\ open
    /\ wal' \in AfterClose(wal)
    /\ NoStream

\* Mutant: numbering goes on in the emptied log.
WalResetGoesOn ==
    /\ open
    /\ wal' = EmptyLog
    /\ pending' = <<>>
    /\ failed' = FALSE
    /\ UNCHANGED <<open, next_lsn, durable_lsn>>

\* Close truncates nothing; Reset reopens with trunc, which also clears the
\* stream's failure.
WalReset ==
    /\ open
    /\ wal' = EmptyLog
    /\ pending' = <<>>
    /\ failed' = FALSE
    /\ next_lsn' = 1
    /\ durable_lsn' = 0
    /\ UNCHANGED open

\* The file is closed and cannot be reopened.
ResetFails ==
    /\ "log_write" \in Faults
    /\ open
    /\ wal' \in AfterClose(wal)
    /\ pending' = <<>>
    /\ failed' = TRUE
    /\ UNCHANGED <<open, next_lsn, durable_lsn>>

WalCrash ==
    /\ wal' \in Cut(wal, pending)
    /\ NoStream

WalNext == \/ WalOpen
           \/ \E p \in Page, v \in Value : \/ AppendPageImage(p, v)
                                           \/ AppendFails(p, v)
           \/ Flush
           \/ FlushFails
           \/ WalClose
           \/ WalReset
           \/ ResetFails
           \/ "crash" \in Faults /\ open /\ WalCrash

WalSpec == WalInit /\ [][WalNext]_walVars
-----------------------------------------------------------------------------
\* The sequence numbers of the file, and of the records behind them in the
\* buffer, count up from 1 without a gap, whatever failed in between: Scan never
\* rejects a log for its numbering, and Open continues where the file ends.
Numbered ==
    LET s == wal.recs \o pending IN
    /\ wal.tail = "clean" => \A i \in 1..Len(s) : s[i].lsn = i
    /\ \A i \in 1..Len(wal.recs) : wal.recs[i].lsn = i

\* A record that Flush has reported durable is readable in the file, as long
\* as the log holds nothing but valid records.
AckedReadable == open /\ wal.tail = "clean" => durable_lsn <= Len(wal.recs)

\* Only Reset takes a readable record out of the log; neither a crash nor a
\* failed append or flush rewrites what is there.
LogOnlyGrows ==
    [][\/ IsPrefix(wal.recs, wal'.recs)
       \/ wal' = EmptyLog /\ open]_walVars

\* "an incomplete trailing record is accepted and the next append resumes after
\* the last valid record" (include/db/wal.h, Open): what is flushed is readable
\* behind the records that were readable before.
AppendResumes == [][Flush => wal'.recs = wal.recs \o pending]_walVars
=============================================================================
