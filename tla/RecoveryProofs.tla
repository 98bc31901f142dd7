--------------------------- MODULE RecoveryProofs ---------------------------
(***************************************************************************)
(* Open refuses only damage, a Close that succeeds keeps everything, and   *)
(* the database implements DurableStore, proved for any number of pages,   *)
(* any contents and any combination of failures.                           *)
(*                                                                         *)
(* OpenRefusesOnlyDamage speaks of three places of Open; what makes it true*)
(* happens long before, in the runs that came to an end.  RInv follows the *)
(* header, the pages that are logged and the catalog root through them: a  *)
(* page of the file that is not a value has an image in the log (or the log*)
(* is damaged), the image is there before the page is written, and the log *)
(* is emptied only when no page depends on it.                             *)
(*                                                                         *)
(* The refinement needs to know in addition where the file itself has the  *)
(* durable content (Settled): during recovery, in the pages no record of   *)
(* the rest of the log is about; in service, in the pages that are not     *)
(* dirty; and that a page is written or torn only under its own image.     *)
(***************************************************************************)
EXTENDS DatabaseProofs, WellFoundedInduction

\* The pages that the records s hold images of.
PagesOf(s) == {s[i].page : i \in 1..Len(s)}

\* A whole image is published with an empty log.
Created ==
    /\ pc \in {"drop_wal", "replace", "publish"} => tmp = <<Header, InitImage>>
    /\ pc \in {"replace", "publish"} => wal = EmptyLog

\* What holds of the file of a database at any time.
Whole ==
    ~Fresh => /\ Len(db) >= 2 /\ Len(db) <= MaxPage
              /\ db[1] = Header
              /\ PagesOf(wal.recs) \subseteq 2..Len(db)
              /\ PagesOf(pending) \subseteq 2..Len(db)
              /\ \/ db[2] \in Value
                 \/ 2 \in PagesOf(wal.recs)
                 \/ wal.tail = "garbage"

\* Open, step by step.
Opened ==
    /\ pc \in OpenPc \cup UpPc => ~Fresh
    /\ pc # "replay" => k = 1
    /\ pc \in {"read_header", "replay", "checkpoint", "open_executor"}
          => wal.tail # "garbage"
    /\ pc = "replay" => \/ db[2] \in Value
                        \/ \E i \in k..Len(wal.recs) : wal.recs[i].page = 2
    /\ pc \in {"checkpoint", "open_executor"} => db[2] \in Value

\* The pool of a database in service.
Pooled ==
    /\ pc \notin UpPc => Dirty = {}
    /\ ~Fresh => Dirty \subseteq 2..Len(db)
    /\ pc \in UpPc => db[2] \in Value \/ 2 \in Dirty
    /\ pc = "init_page" => Len(db) >= 3

\* A page that is written is logged; a Close without error leaves none.
Flushed ==
    /\ pc = "sync" => cur \in PagesOf(pending)
    /\ pc = "write" => cur \in PagesOf(wal.recs) \/ wal.tail = "garbage"
    /\ pc = "next" /\ job = "close" /\ ~erred => Dirty \subseteq todo
    /\ pc \in FlushPc /\ job = "close" /\ ~erred => Dirty \subseteq todo \cup {cur}
    /\ pc \in {"reset", "close_wal"} => Dirty = {}
    /\ pc = "close_wal" => wal = EmptyLog /\ pending = <<>> /\ ~failed

RInv == Created /\ Whole /\ Opened /\ Pooled /\ Flushed

-----------------------------------------------------------------------------
(* The pages in the log *)

\* What the log holds images of, after a step that may log the pages P.
LogMoves(P) ==
    /\ PagesOf(wal.recs) \subseteq PagesOf(wal'.recs)
    /\ wal.tail = "garbage" => wal'.tail = "garbage"
    /\ PagesOf(wal'.recs) \subseteq PagesOf(wal.recs) \cup PagesOf(pending) \cup P
    /\ PagesOf(pending') \subseteq PagesOf(pending) \cup P

LEMMA EmptyPages == PagesOf(<<>>) = {}
  BY EmptySeq DEF PagesOf

LEMMA ConcatPages ==
    ASSUME NEW s \in Seq(Record), NEW t \in Seq(Record)
    PROVE  PagesOf(s \o t) = PagesOf(s) \cup PagesOf(t)
  <1>1. /\ Len(s \o t) = Len(s) + Len(t) /\ Len(s) \in Nat /\ Len(t) \in Nat
        /\ \A i \in 1..(Len(s) + Len(t)) :
              (s \o t)[i] = IF i <= Len(s) THEN s[i] ELSE t[i - Len(s)]
    BY ConcatProperties, LenProperties
  <1>2. ASSUME NEW i \in 1..(Len(s) + Len(t))
        PROVE  (s \o t)[i].page \in PagesOf(s) \cup PagesOf(t)
    <2>1. CASE i <= Len(s)
      BY <1>1, <2>1 DEF PagesOf
    <2>2. CASE ~(i <= Len(s))
      <3>1. i - Len(s) \in 1..Len(t) /\ (s \o t)[i] = t[i - Len(s)]
        BY <1>1, <2>2
      <3> QED
        BY <3>1 DEF PagesOf
    <2> QED
      BY <2>1, <2>2
  <1>3. ASSUME NEW i \in 1..Len(s) PROVE s[i].page \in PagesOf(s \o t)
    <2>1. i \in 1..(Len(s) + Len(t)) /\ (s \o t)[i] = s[i]
      BY <1>1
    <2> QED
      BY <1>1, <2>1 DEF PagesOf
  <1>4. ASSUME NEW i \in 1..Len(t) PROVE t[i].page \in PagesOf(s \o t)
    <2>1. Len(s) + i \in 1..(Len(s) + Len(t)) /\ (s \o t)[Len(s) + i] = t[i]
      BY <1>1
    <2> QED
      BY <1>1, <2>1 DEF PagesOf
  <1>5. PagesOf(s \o t) \subseteq PagesOf(s) \cup PagesOf(t)
    BY <1>1, <1>2 DEF PagesOf
  <1>6. PagesOf(s) \subseteq PagesOf(s \o t)
    BY <1>3 DEF PagesOf
  <1>7. PagesOf(t) \subseteq PagesOf(s \o t)
    BY <1>4 DEF PagesOf
  <1> QED
    BY <1>5, <1>6, <1>7

LEMMA AppendPages ==
    ASSUME NEW s \in Seq(Record), NEW r \in Record
    PROVE  PagesOf(Append(s, r)) = PagesOf(s) \cup {r.page}
  <1>1. Append(s, r) = s \o <<r>> /\ <<r>> \in Seq(Record)
    BY AppendIsConcat
  <1>2. PagesOf(<<r>>) = {r.page}
    <2>1. Len(<<r>>) = 1 /\ <<r>>[1] = r
      OBVIOUS
    <2>2. 1..Len(<<r>>) = {1}
      BY <2>1
    <2> QED
      BY <2>1, <2>2 DEF PagesOf
  <1> QED
    BY <1>1, <1>2, ConcatPages

LEMMA PutPages ==
    ASSUME NEW f \in Log, NEW s \in Seq(Record)
    PROVE  /\ PagesOf(f.recs) \subseteq PagesOf(Put(f, s).recs)
           /\ PagesOf(Put(f, s).recs) \subseteq PagesOf(f.recs) \cup PagesOf(s)
           /\ f.tail = "garbage" => Put(f, s).tail = "garbage"
           /\ PagesOf(s) \subseteq PagesOf(Put(f, s).recs) \/ Put(f, s).tail = "garbage"
           /\ Put(f, s) \in Log
  <1>0. f.recs \in Seq(Record) /\ f \in [recs : Seq(Record), tail : {"clean", "torn", "garbage"}]
    BY DEF Log
  <1>1. CASE s = <<>>
    BY <1>1, EmptyPages DEF Put
  <1>2. CASE s # <<>> /\ f.tail = "clean"
    <2>1. Put(f, s) = [f EXCEPT !.recs = f.recs \o s]
      BY <1>2 DEF Put
    <2>2. Put(f, s).recs = f.recs \o s /\ Put(f, s).tail = "clean"
      BY <1>0, <1>2, <2>1
    <2>3. f.recs \o s \in Seq(Record)
      BY <1>0, ConcatProperties
    <2>4. Put(f, s) \in Log
      BY <1>0, <2>1, <2>3 DEF Log
    <2> QED
      BY <1>0, <1>2, <2>2, <2>4, ConcatPages
  <1>3. CASE s # <<>> /\ f.tail # "clean"
    <2>1. Put(f, s) = [f EXCEPT !.tail = "garbage"]
      BY <1>3 DEF Put
    <2>2. Put(f, s).recs = f.recs /\ Put(f, s).tail = "garbage" /\ Put(f, s) \in Log
      BY <1>0, <2>1 DEF Log
    <2> QED
      BY <2>2
  <1> QED
    BY <1>1, <1>2, <1>3

LEMMA FragmentPages ==
    ASSUME NEW f \in Log, NEW g \in Fragments(f)
    PROVE  g.recs = f.recs /\ (f.tail = "garbage" => g.tail = "garbage")
  <1>1. f.tail = "garbage" => g = [f EXCEPT !.tail = "garbage"]
    BY DEF Fragments
  <1> QED
    BY <1>1, FragmentFacts DEF Log

LEMMA CutPages ==
    ASSUME NEW f \in Log, NEW s \in Seq(Record), NEW g \in Cut(f, s)
    PROVE  /\ PagesOf(f.recs) \subseteq PagesOf(g.recs)
           /\ PagesOf(g.recs) \subseteq PagesOf(f.recs) \cup PagesOf(s)
           /\ f.tail = "garbage" => g.tail = "garbage"
  <1>1. PICK t \in Prefixes(s) : g = Put(f, t) \/ g \in Fragments(Put(f, t))
    BY DEF Cut
  <1>2. PICK l \in 0..Len(s) : t = SubSeq(s, 1, l)
    BY <1>1 DEF Prefixes
  <1>3. t \in Seq(Record) /\ Len(t) = l /\ \A i \in 1..l : t[i] = s[i]
    BY <1>2, SubSeqProperties, LenProperties
  <1>4. PagesOf(t) \subseteq PagesOf(s)
    <2>1. \A i \in 1..l : i \in 1..Len(s)
      BY <1>2, LenProperties
    <2> QED
      BY <1>3, <2>1 DEF PagesOf
  <1>5. /\ PagesOf(f.recs) \subseteq PagesOf(Put(f, t).recs)
        /\ PagesOf(Put(f, t).recs) \subseteq PagesOf(f.recs) \cup PagesOf(t)
        /\ f.tail = "garbage" => Put(f, t).tail = "garbage"
        /\ Put(f, t) \in Log
    BY <1>3, PutPages
  <1>6. CASE g = Put(f, t)
    BY <1>4, <1>5, <1>6
  <1>7. CASE g \in Fragments(Put(f, t))
    <2>1. g.recs = Put(f, t).recs /\ (Put(f, t).tail = "garbage" => g.tail = "garbage")
      BY <1>5, <1>7, FragmentPages
    <2> QED
      BY <1>4, <1>5, <2>1
  <1> QED
    BY <1>1, <1>6, <1>7

LEMMA SameMoves ==
    ASSUME wal' = wal, pending' = pending
    PROVE  LogMoves({})
  BY DEF LogMoves

\* A step that ends the stream or its buffer at some byte.
LEMMA StopMoves ==
    ASSUME WInv, WalCrash \/ WalClose \/ ResetFails \/ FlushFails
    PROVE  LogMoves({})
  <1>1. pending' = <<>>
    BY DEF WalCrash, WalClose, ResetFails, FlushFails, StreamFails, NoStream
  <1>2. CASE wal' \in Cut(wal, pending)
    BY <1>1, <1>2, WInvFacts, CutPages, EmptyPages DEF LogMoves
  <1>3. CASE wal' \in AfterClose(wal)
    <2>1. CASE wal' = wal
      BY <1>1, <2>1, EmptyPages DEF LogMoves
    <2>2. CASE wal' = Put(wal, pending)
      BY <1>1, <2>2, WInvFacts, PutPages, EmptyPages DEF LogMoves
    <2>3. CASE wal' \in Fragments(wal)
      BY <1>1, <2>3, WInvFacts, FragmentPages, EmptyPages DEF LogMoves
    <2> QED
      BY <1>3, <2>1, <2>2, <2>3 DEF AfterClose
  <1>4. wal' \in Cut(wal, pending) \/ wal' \in AfterClose(wal)
    BY DEF WalCrash, WalClose, ResetFails, FlushFails, StreamFails
  <1> QED
    BY <1>2, <1>3, <1>4

LEMMA FlushMoves ==
    ASSUME WInv, Flush
    PROVE  /\ LogMoves({})
           /\ PagesOf(pending) \subseteq PagesOf(wal'.recs) \/ wal'.tail = "garbage"
  <1>1. wal' = Put(wal, pending) /\ pending' = <<>>
    BY DEF Flush
  <1> QED
    BY <1>1, WInvFacts, PutPages, EmptyPages DEF LogMoves

LEMMA AppendMoves ==
    ASSUME WInv, NEW p \in Page, NEW v \in Value,
           AppendPageImage(p, v) \/ AppendFails(p, v)
    PROVE  LogMoves({p}) /\ (AppendPageImage(p, v) => p \in PagesOf(pending'))
  <1> DEFINE r == [lsn |-> next_lsn, page |-> p, image |-> v]
  <1>1. next_lsn <= MaxLsn
    BY DEF AppendPageImage, AppendFails
  <1>2. r \in Record /\ r.page = p
    BY <1>1, WInvFacts DEF Record
  <1>3. /\ PagesOf(Append(pending, r)) = PagesOf(pending) \cup {p}
        /\ Append(pending, r) \in Seq(Record)
    BY <1>2, WInvFacts, AppendPages, AppendProperties
  <1>4. CASE AppendPageImage(p, v)
    <2>1. pending' = Append(pending, r) /\ wal' = wal
      BY <1>4 DEF AppendPageImage
    <2> QED
      BY <1>3, <2>1 DEF LogMoves
  <1>5. CASE AppendFails(p, v) /\ ~AppendPageImage(p, v)
    <2>1. wal' \in Cut(wal, Append(pending, r)) /\ pending' = <<>>
      BY <1>5 DEF AppendFails, StreamFails
    <2> HIDE DEF r
    <2>2. /\ PagesOf(wal.recs) \subseteq PagesOf(wal'.recs)
          /\ PagesOf(wal'.recs) \subseteq PagesOf(wal.recs) \cup PagesOf(Append(pending, r))
          /\ wal.tail = "garbage" => wal'.tail = "garbage"
      BY <1>3, <2>1, WInvFacts, CutPages
    <2> QED
      BY <1>3, <1>5, <2>1, <2>2, EmptyPages DEF LogMoves
  <1> QED
    BY <1>4, <1>5

-----------------------------------------------------------------------------
(* The file *)

LEMMA NotFresh == ASSUME NEW f \in Seq(Content), Len(f) >= 2 PROVE f \notin {NoFile, <<>>}
  <1>1. f # NoFile
    BY DatabaseAssumption
  <1>2. f # <<>>
    BY EmptySeq
  <1> QED
    BY <1>1, <1>2

LEMMA WholeFacts ==
    ASSUME DInv, Whole, ~Fresh
    PROVE  /\ db \in Seq(Content) /\ Len(db) \in Nat /\ Len(db) >= 2 /\ db[1] = Header
           /\ Len(db) <= MaxPage
  BY LenProperties DEF DInv, LocalType, Whole, Fresh

\* A step that logs pages of the file and leaves the header and the catalog root
\* alone, or has an image of the latter in the log.
LEMMA WholeKept ==
    ASSUME DInv, Whole, ~Fresh, NEW P, LogMoves(P), P \subseteq 2..Len(db),
           db' \in Seq(Content), Len(db') >= Len(db), db'[1] = db[1],
           Len(db') = Len(db) \/ Len(db') <= MaxPage,
           \/ db'[2] = db[2]
           \/ db'[2] \in Value
           \/ 2 \in PagesOf(wal.recs)
           \/ wal.tail = "garbage"
    PROVE  Whole' /\ ~Fresh'
  <1>1. /\ Len(db) \in Nat /\ Len(db') \in Nat /\ Len(db') >= 2 /\ db'[1] = Header
        /\ Len(db') <= MaxPage
    BY WholeFacts, LenProperties
  <1>2. ~Fresh'
    BY <1>1, NotFresh DEF Fresh
  <1>3. 2..Len(db) \subseteq 2..Len(db')
    BY <1>1
  <1>4. PagesOf(wal'.recs) \cup PagesOf(pending') \subseteq 2..Len(db)
    BY DEF Whole, LogMoves
  <1>5. db'[2] \in Value \/ 2 \in PagesOf(wal'.recs) \/ wal'.tail = "garbage"
    BY DEF Whole, LogMoves
  <1> QED
    BY <1>1, <1>2, <1>3, <1>4, <1>5 DEF Whole

\* Writing page p of the file changes no other page and not its length.
LEMMA WrittenPage ==
    ASSUME NEW f \in Seq(Content), NEW p, NEW x \in Content
    PROVE  LET g == [f EXCEPT ![p] = x] IN
           /\ g \in Seq(Content) /\ Len(g) = Len(f)
           /\ \A q \in 1..Len(f) : q # p => g[q] = f[q]
           /\ p \in 1..Len(f) => g[p] = x
  <1> DEFINE g == [f EXCEPT ![p] = x]
  <1>1. f \in [1..Len(f) -> Content] /\ Len(f) \in Nat /\ g \in Seq(Content)
    BY LenProperties, PageReplaced
  <1>2. DOMAIN g = 1..Len(f) /\ DOMAIN g = 1..Len(g) /\ Len(g) \in Nat
    BY <1>1, LenProperties
  <1>3. Len(g) = Len(f)
    BY <1>1, <1>2
  <1> QED
    BY <1>1, <1>3

\* The file is the same, or there is still none.
LEMMA WholeSame ==
    ASSUME DInv, Whole, UNCHANGED db, LogMoves({})
    PROVE  Whole'
  <1>1. CASE Fresh
    BY <1>1 DEF Fresh, Whole
  <1>2. CASE ~Fresh
    BY <1>2, WholeFacts, WholeKept
  <1> QED
    BY <1>1, <1>2

\* The log is emptied when the catalog root is in the file.
LEMMA WholeReset ==
    ASSUME DInv, Whole, ~Fresh, db[2] \in Value, UNCHANGED db, WalReset
    PROVE  Whole' /\ ~Fresh'
  <1>1. wal'.recs = <<>> /\ pending' = <<>>
    BY EmptyFacts DEF WalReset
  <1>2. Len(db') >= 2 /\ Len(db') <= MaxPage /\ db'[1] = Header /\ ~Fresh'
    BY WholeFacts DEF Fresh
  <1> QED
    BY <1>1, <1>2, EmptyPages DEF Whole

\* The pages that have an image in the log.
LEMMA LoggedPage ==
    ASSUME DInv, Whole, ~Fresh, NEW i \in 1..Len(wal.recs)
    PROVE  /\ wal.recs[i].page \in PagesOf(wal.recs)
           /\ wal.recs[i].page \in 2..Len(db)
           /\ wal.recs[i].image \in Value
  <1>1. wal.recs[i].page \in PagesOf(wal.recs)
    BY DEF PagesOf
  <1>2. wal.recs[i] \in Record
    BY WInvFacts, ElementOfSeq DEF DInv
  <1>3. wal.recs[i].page \in 2..Len(db)
    BY <1>1 DEF Whole
  <1> QED
    BY <1>1, <1>2, <1>3 DEF Record

-----------------------------------------------------------------------------
LEMMA RecoveryInit == Init => RInv
  <1> SUFFICES ASSUME Init PROVE RInv
    OBVIOUS
  <1>1. pc = "down" /\ k = 1 /\ Fresh /\ Dirty = {}
    BY DEF Init, Fresh, Dirty
  <1>2. Created /\ Whole /\ Flushed
    BY <1>1 DEF Created, Whole, Flushed, FlushPc
  <1>3. Opened /\ Pooled
    BY <1>1 DEF Opened, Pooled, OpenPc, UpPc
  <1> QED
    BY <1>2, <1>3 DEF RInv

\* Without a Database object only the files matter.
LEMMA DiscardedKept == ASSUME Discarded, Whole' PROVE RInv'
  <1>1. pc' = "down" /\ k' = 1 /\ Dirty' = {}
    BY DEF Discarded, Dirty
  <1>2. Created' /\ Flushed'
    BY <1>1 DEF Created, Flushed, FlushPc
  <1>3. Opened' /\ Pooled'
    BY <1>1 DEF Opened, Pooled, OpenPc, UpPc
  <1> QED
    BY <1>2, <1>3 DEF RInv

LEMMA OpenFailsMoves == ASSUME DInv, OpenFails PROVE LogMoves({})
  BY StopMoves, SameMoves DEF OpenFails, DInv, walVars

LEMMA OpenFailsKept == ASSUME DInv, RInv, OpenFails, UNCHANGED db PROVE RInv'
  BY OpenFailsMoves, WholeSame, DiscardedKept DEF OpenFails, RInv

\* No file is published yet.
LEMMA StillBuilding ==
    ASSUME DInv, RInv, pc \in {"down"} \cup BuildPc, pc' \in {"down"} \cup BuildPc,
           UNCHANGED memVars, Fresh', Created'
    PROVE  RInv'
  <1>1. pc \notin UpPc /\ pc' \notin UpPc /\ pc' \notin OpenPc /\ pc # "replay"
    BY DEF BuildPc, UpPc, OpenPc
  <1>2. k' = 1 /\ Dirty' = {}
    BY <1>1 DEF RInv, Opened, Pooled, memVars, Dirty
  <1>3. Whole' /\ Opened' /\ Pooled'
    BY <1>1, <1>2 DEF Whole, Opened, OpenPc, Pooled, UpPc
  <1>4. Flushed'
    BY <1>1 DEF Flushed, UpPc, FlushPc
  <1> QED
    BY <1>3, <1>4 DEF RInv

LEMMA CreationKept == ASSUME DInv, RInv, Creation PROVE RInv'
  <1>0. pc \in BuildPc => Fresh /\ ~open
    BY DEF DInv, Control, ClosedPc
  <1>1. ASSUME NEW from \in BuildPc, NEW to \in BuildPc, NEW image,
               Build(from, to, image), to \notin {"replace", "publish"},
               to = "drop_wal" => image = <<Header, InitImage>>
        PROVE  RInv'
    <2>1. /\ pc = from /\ pc' = to /\ tmp' = image
          /\ UNCHANGED <<db, memVars>>
      BY <1>1 DEF Build
    <2>2. Fresh'
      BY <1>0, <1>1, <2>1 DEF Fresh
    <2>3. Created'
      BY <1>1, <2>1 DEF Created
    <2> QED
      BY <1>1, <2>1, <2>2, <2>3, StillBuilding
  <1>2. CASE CreateTemp \/ AllocateHeader \/ AllocateCatalog \/ InitCatalogPage \/ WriteHeader
    <2>1. {"create_temp", "header_page", "catalog_page", "init_catalog", "header",
           "drop_wal"} \subseteq BuildPc
      BY DEF BuildPc
    <2> QED
      BY <1>1, <1>2, <2>1
         DEF CreateTemp, AllocateHeader, AllocateCatalog, InitCatalogPage, WriteHeader
  <1>3. CASE DropStaleWal \/ RemovePlaceholder
    <2>1. /\ pc \in BuildPc /\ pc' \in {"replace", "publish"} /\ pc' \in BuildPc
          /\ UNCHANGED <<tmp, memVars>>
          /\ db' = db \/ db' = NoFile
      BY <1>3 DEF DropStaleWal, RemovePlaceholder, BuildPc, fileVars
    <2>2. Fresh'
      BY <1>0, <2>1 DEF Fresh
    <2>3. wal' = EmptyLog /\ tmp = <<Header, InitImage>>
      BY <1>3 DEF DropStaleWal, RemovePlaceholder, RInv, Created, walVars
    <2>4. Created'
      BY <2>1, <2>3 DEF Created
    <2> QED
      BY <2>1, <2>2, <2>4, StillBuilding
  <1>4. CASE Publish
    <2>1. /\ pc = "publish" /\ pc' = "open_storage" /\ db' = tmp
          /\ UNCHANGED <<walVars, memVars>>
      BY <1>4 DEF Publish
    <2>2. db' = <<Header, InitImage>> /\ wal' = EmptyLog
      BY <2>1 DEF RInv, Created, walVars
    <2>3. pending' = <<>> /\ wal'.recs = <<>>
      BY <1>0, <2>1, <2>2, EmptyFacts DEF BuildPc, DInv, WInv, walVars
    <2>4. /\ db' \in Seq(Content) /\ Len(db') >= 2 /\ Len(db') <= MaxPage
          /\ db'[1] = Header /\ db'[2] \in Value
      <3>1. InitImage \in Value /\ MaxPage >= 2
        BY DatabaseAssumption
      <3> QED
        BY <2>2, <3>1, ImageFacts
    <2>5. Whole' /\ ~Fresh'
      BY <2>3, <2>4, EmptyPages, NotFresh DEF Whole, Fresh
    <2>6. pc \notin UpPc /\ pc # "replay"
      BY <2>1 DEF UpPc
    <2>7. k' = 1 /\ Dirty' = {}
      BY <2>1, <2>6 DEF RInv, Opened, Pooled, memVars, Dirty
    <2>8. Created' /\ Opened'
      BY <2>1, <2>5, <2>7 DEF Created, Opened
    <2>9. Pooled' /\ Flushed'
      BY <2>1, <2>7 DEF Pooled, Flushed, UpPc, FlushPc
    <2> QED
      BY <2>5, <2>8, <2>9 DEF RInv
  <1> QED
    BY <1>2, <1>3, <1>4 DEF Creation

\* Open goes on: the pool is still empty.
LEMMA StillOpening ==
    ASSUME DInv, RInv, pc \in {"down"} \cup OpenPc, pc' \in OpenPc,
           UNCHANGED mem, Whole', Opened'
    PROVE  RInv'
  <1>1. pc \notin UpPc /\ pc' \notin UpPc /\ pc' \notin BuildPc
    BY DEF BuildPc, UpPc, OpenPc
  <1>2. Dirty' = {}
    BY <1>1 DEF RInv, Pooled, Dirty
  <1>3. Created' /\ Flushed'
    BY <1>1 DEF Created, BuildPc, Flushed, UpPc, FlushPc
  <1>4. Pooled'
    BY <1>1, <1>2 DEF Pooled, UpPc
  <1> QED
    BY <1>3, <1>4 DEF RInv

LEMMA BeginOpenKept == ASSUME DInv, RInv, BeginOpen PROVE RInv'
  <1>1. pc = "down" /\ UNCHANGED <<walVars, db, memVars>> /\ (Fresh' <=> Fresh)
    BY DEF BeginOpen, Fresh
  <1>2. CASE Fresh
    <2>1. pc' = "create_temp" /\ pc' \in BuildPc
      BY <1>2 DEF BeginOpen, BuildPc
    <2>2. Created'
      BY <2>1 DEF Created
    <2> QED
      BY <1>1, <1>2, <2>1, <2>2, StillBuilding
  <1>3. CASE ~Fresh
    <2>1. pc' = "open_storage" /\ pc' \in OpenPc
      BY <1>3 DEF BeginOpen, OpenPc
    <2>2. Whole'
      BY <1>1, SameMoves, WholeSame DEF RInv, walVars
    <2>3. Opened'
      BY <1>1, <1>3, <2>1 DEF RInv, Opened, memVars
    <2> QED
      BY <1>1, <2>1, <2>2, <2>3, StillOpening DEF memVars
  <1> QED
    BY <1>2, <1>3

\* One record is replayed: its page is in the file, and the catalog root is a
\* value from its last image on.
LEMMA ReplayKept ==
    ASSUME DInv, RInv, Replay, ~(OpenFails /\ UNCHANGED db)
    PROVE  RInv'
  <1>0. ~Fresh /\ Whole /\ pc = "replay" /\ pc \in OpenPc
    BY DEF Replay, RInv, Opened, OpenPc
  <1> DEFINE r == wal.recs[k]
  <1>1. /\ pc' = pc /\ k <= Len(wal.recs) /\ k' = k + 1
        /\ db' = [db EXCEPT ![r.page] = r.image]
        /\ UNCHANGED <<walVars, mem>>
    BY DEF Replay
  <1>2. k \in Nat /\ k >= 1 /\ Len(wal.recs) \in Nat
    <2>1. k \in 1..(MaxLsn + 1)
      BY DEF DInv, LocalType
    <2> QED
      BY <2>1, LsnBound, WInvFacts DEF DInv
  <1>3. k \in 1..Len(wal.recs)
    BY <1>1, <1>2
  <1>4. r.page \in 2..Len(db) /\ r.image \in Value
    BY <1>0, <1>3, LoggedPage
  <1> HIDE DEF r
  <1>5. db \in Seq(Content) /\ Len(db) \in Nat /\ Len(db) >= 2
    BY <1>0, WholeFacts
  <1>6. r.image \in Content
    BY <1>4, ContentFacts
  <1>7. /\ db' \in Seq(Content) /\ Len(db') = Len(db)
        /\ \A q \in 1..Len(db) : q # r.page => db'[q] = db[q]
        /\ r.page \in 1..Len(db) => db'[r.page] = r.image
    BY <1>1, <1>5, <1>6, WrittenPage
  <1>8. db'[1] = db[1] /\ (r.page # 2 => db'[2] = db[2]) /\ (r.page = 2 => db'[2] \in Value)
    BY <1>4, <1>5, <1>7
  <1>9. Whole' /\ ~Fresh'
    <2>1. LogMoves({})
      BY <1>1, SameMoves DEF walVars
    <2> QED
      BY <1>0, <1>5, <1>7, <1>8, <2>1, WholeKept
  <1>10. db'[2] \in Value \/ \E i \in k'..Len(wal'.recs) : wal'.recs[i].page = 2
    <2>1. CASE r.page = 2 \/ db[2] \in Value
      BY <1>8, <2>1
    <2>2. CASE r.page # 2 /\ db[2] \notin Value
      <3>1. PICK i \in k..Len(wal.recs) : wal.recs[i].page = 2
        BY <1>0, <2>2 DEF RInv, Opened
      <3>2. i # k
        BY <2>2, <3>1 DEF r
      <3>3. i \in k'..Len(wal.recs)
        BY <1>1, <1>2, <3>2
      <3> QED
        BY <1>1, <3>1, <3>3 DEF walVars
    <2> QED
      BY <2>1, <2>2
  <1>11. wal'.tail # "garbage"
    BY <1>0, <1>1 DEF RInv, Opened, walVars
  <1>12. Opened'
    BY <1>0, <1>1, <1>9, <1>10, <1>11 DEF Opened
  <1> QED
    BY <1>0, <1>1, <1>9, <1>12, StillOpening

LEMMA OpeningKept == ASSUME DInv, RInv, Opening PROVE RInv'
  <1>1. CASE OpenFails /\ UNCHANGED db
    BY <1>1, OpenFailsKept
  <1>2. CASE BeginOpen
    BY <1>2, BeginOpenKept
  <1>3. CASE Replay /\ ~(OpenFails /\ UNCHANGED db)
    BY <1>3, ReplayKept
  <1>4. ASSUME pc \in OpenPc PROVE ~Fresh /\ Whole /\ (pc # "replay" => k = 1)
    BY <1>4 DEF RInv, Opened
  <1>5. ASSUME pc \in OpenPc, UNCHANGED db, wal' = wal, pending' = pending
        PROVE  Whole' /\ ~Fresh'
    BY <1>4, <1>5, SameMoves, WholeSame DEF Fresh
  <1>6. CASE OpenStorage /\ ~(OpenFails /\ UNCHANGED db)
    <2>1. /\ pc = "open_storage" /\ pc' = "open_wal" /\ pc \in OpenPc /\ pc' \in OpenPc
          /\ UNCHANGED <<walVars, db, memVars>>
      BY <1>6 DEF OpenStorage, OpenPc
    <2>2. Whole' /\ ~Fresh'
      BY <1>5, <2>1 DEF walVars
    <2>3. Opened'
      BY <1>4, <2>1, <2>2 DEF Opened, memVars
    <2> QED
      BY <2>1, <2>2, <2>3, StillOpening DEF memVars
  <1>7. CASE OpenWal /\ ~(OpenFails /\ UNCHANGED db)
    <2>1. /\ pc = "open_wal" /\ pc' = "read_header" /\ pc \in OpenPc /\ pc' \in OpenPc
          /\ Valid(wal) /\ WalOpen
          /\ UNCHANGED <<db, memVars>>
      BY <1>7 DEF OpenWal, OpenPc
    <2>2. wal' = wal /\ pending' = pending /\ wal.tail # "garbage"
      BY <2>1 DEF Valid, WalOpen
    <2>3. Whole' /\ ~Fresh'
      BY <1>5, <2>1, <2>2
    <2>4. Opened'
      BY <1>4, <2>1, <2>2, <2>3 DEF Opened, memVars
    <2> QED
      BY <2>1, <2>3, <2>4, StillOpening DEF memVars
  <1>8. CASE ReadHeader /\ ~(OpenFails /\ UNCHANGED db)
    <2>1. /\ pc = "read_header" /\ pc' = "replay" /\ pc \in OpenPc /\ pc' \in OpenPc
          /\ UNCHANGED <<walVars, db, memVars>>
      BY <1>8 DEF ReadHeader, OpenPc
    <2>2. Whole' /\ ~Fresh'
      BY <1>5, <2>1 DEF walVars
    <2>3. wal.tail # "garbage" /\ k = 1 /\ ~Fresh /\ Whole
      BY <1>4, <2>1 DEF RInv, Opened
    <2>4. db[2] \in Value \/ \E i \in k..Len(wal.recs) : wal.recs[i].page = 2
      BY <2>3 DEF Whole, PagesOf
    <2>5. Opened'
      BY <2>1, <2>2, <2>3, <2>4 DEF Opened, walVars, memVars
    <2> QED
      BY <2>1, <2>2, <2>5, StillOpening DEF memVars
  <1>9. CASE RecoveryDone
    <2>1. /\ pc = "replay" /\ pc' = "checkpoint" /\ pc \in OpenPc /\ pc' \in OpenPc
          /\ k = Len(wal.recs) + 1 /\ k' = 1
          /\ UNCHANGED <<walVars, db, mem>>
      BY <1>9 DEF RecoveryDone, OpenPc, fileVars
    <2>2. Whole' /\ ~Fresh'
      BY <1>5, <2>1 DEF walVars
    <2>3. db[2] \in Value /\ wal.tail # "garbage"
      <3>1. Len(wal.recs) \in Nat
        BY WInvFacts DEF DInv
      <3>2. k..Len(wal.recs) = {}
        BY <2>1, <3>1
      <3> QED
        BY <2>1, <3>2 DEF RInv, Opened
    <2>4. Opened'
      BY <2>1, <2>2, <2>3 DEF Opened, walVars
    <2> QED
      BY <2>1, <2>2, <2>4, StillOpening
  <1>10. CASE Checkpoint
    <2>1. /\ pc = "checkpoint" /\ pc' = "open_executor" /\ pc \in OpenPc /\ pc' \in OpenPc
          /\ WalReset /\ UNCHANGED <<db, memVars>>
      BY <1>10 DEF Checkpoint, OpenPc, fileVars
    <2>2. db[2] \in Value /\ ~Fresh /\ Whole /\ k = 1
      BY <1>4, <2>1 DEF RInv, Opened
    <2>3. Whole' /\ ~Fresh' /\ wal'.tail = "clean"
      BY <2>1, <2>2, WholeReset, EmptyFacts DEF WalReset
    <2>4. Opened'
      BY <2>1, <2>2, <2>3 DEF Opened, memVars
    <2> QED
      BY <2>1, <2>3, <2>4, StillOpening DEF memVars
  <1>11. CASE OpenExecutor /\ ~(OpenFails /\ UNCHANGED db)
    <2>1. /\ pc = "open_executor" /\ pc' = "serving" /\ pc \in OpenPc /\ pc \notin UpPc
          /\ db[2] \in Value
          /\ UNCHANGED <<walVars, db, memVars>>
      BY <1>11 DEF OpenExecutor, OpenPc, UpPc
    <2>2. Whole' /\ ~Fresh'
      BY <1>5, <2>1 DEF walVars
    <2>3. Dirty' = {} /\ k' = 1
      BY <1>4, <2>1 DEF RInv, Pooled, memVars, Dirty
    <2>4. Created' /\ Opened'
      BY <2>1, <2>2, <2>3 DEF Created, Opened
    <2>5. Pooled' /\ Flushed'
      BY <2>1, <2>3 DEF Pooled, Flushed, FlushPc
    <2> QED
      BY <2>2, <2>4, <2>5 DEF RInv
  <1> QED
    BY <1>1, <1>2, <1>3, <1>6, <1>7, <1>8, <1>9, <1>10, <1>11 DEF Opening

-----------------------------------------------------------------------------
(* Service *)

LEMMA InService ==
    ASSUME DInv, RInv, pc \in UpPc
    PROVE  /\ ~Fresh /\ Whole /\ WInv /\ k = 1
           /\ db \in Seq(Content) /\ Len(db) \in Nat /\ Len(db) >= 2 /\ db[1] = Header
           /\ Dirty \subseteq 2..Len(db)
           /\ db[2] \in Value \/ 2 \in Dirty
  <1>1. ~Fresh /\ Whole /\ WInv
    BY DEF RInv, Opened, DInv
  <1>2. k = 1
    BY DEF RInv, Opened, UpPc
  <1>3. Dirty \subseteq 2..Len(db) /\ (db[2] \in Value \/ 2 \in Dirty)
    BY <1>1 DEF RInv, Pooled
  <1> QED
    BY <1>1, <1>2, <1>3, WholeFacts

\* A database that stays in service.
LEMMA StillUp ==
    ASSUME DInv, RInv, pc \in UpPc, pc' \in UpPc, k' = k, Whole' /\ ~Fresh',
           Dirty' \subseteq 2..Len(db'), db'[2] \in Value \/ 2 \in Dirty',
           pc' = "init_page" => Len(db') >= 3, Flushed'
    PROVE  RInv'
  <1>1. pc' \notin OpenPc /\ pc' \notin BuildPc
    BY DEF UpPc, OpenPc, BuildPc
  <1>2. Created' /\ Opened'
    BY <1>1, InService DEF Created, BuildPc, Opened, OpenPc
  <1>3. Pooled'
    BY DEF Pooled
  <1> QED
    BY <1>2, <1>3 DEF RInv

\* Neither the file nor the pool changes.
LEMMA OnlyLog ==
    ASSUME DInv, RInv, pc \in UpPc, pc' \in UpPc \ {"init_page"}, UNCHANGED <<db, k, mem>>,
           NEW P, LogMoves(P), P \subseteq 2..Len(db), Flushed'
    PROVE  RInv'
  <1>1. Whole' /\ ~Fresh'
    <2>1. ~Fresh /\ Whole /\ db' = db /\ db' \in Seq(Content) /\ Len(db') >= Len(db)
      BY InService
    <2> QED
      BY <2>1, WholeKept
  <1>2. Dirty' = Dirty
    BY DEF Dirty
  <1> QED
    BY <1>1, <1>2, InService, StillUp

LEMMA ModifyKept ==
    ASSUME DInv, RInv, NEW p \in Page, NEW v \in Value, Modify(p, v)
    PROVE  RInv'
  <1>1. /\ pc = "serving" /\ pc' = pc /\ p \in DOMAIN db /\ Visible(p) \in Value
        /\ mem' = [mem EXCEPT ![p] = v]
        /\ UNCHANGED <<walVars, db, k>>
    BY DEF Modify, fileVars
  <1>2. pc \in UpPc /\ pc' # "init_page"
    BY <1>1 DEF UpPc
  <1>3. mem \in [Page -> Value \cup {Clean}] /\ Clean \notin Value
    BY ContentFacts DEF DInv, LocalType
  <1>4. p # 1
    <2>1. 1 \notin Dirty
      BY <1>2, InService
    <2>2. mem[1] = Clean
      BY <2>1, ContentFacts DEF Dirty
    <2>3. Visible(1) = Header
      BY <1>2, <2>2, InService DEF Visible
    <2>4. Header \notin Value
      BY DatabaseAssumption
    <2> QED
      BY <1>1, <2>3, <2>4
  <1>5. p \in 2..Len(db)
    BY <1>1, <1>2, <1>4, InService, LenProperties
  <1>6. Dirty' = Dirty \cup {p}
    BY <1>1, <1>3 DEF Dirty
  <1>7. Whole' /\ ~Fresh'
    <2>1. Whole'
      BY <1>1, <1>2, InService, SameMoves, WholeSame DEF walVars
    <2> QED
      BY <1>1, <1>2, <2>1, InService DEF Fresh
  <1>8. Flushed'
    BY <1>1 DEF Flushed, FlushPc
  <1> QED
    BY <1>1, <1>2, <1>5, <1>6, <1>7, <1>8, InService, StillUp

LEMMA AllocateKept == ASSUME DInv, RInv, AllocatePage PROVE RInv'
  <1>1. /\ pc = "serving" /\ pc' = "init_page" /\ db' = Append(db, Blank)
        /\ Len(db) < MaxPage
        /\ UNCHANGED <<walVars, memVars>>
    BY DEF AllocatePage
  <1>2. pc \in UpPc /\ pc' \in UpPc
    BY <1>1 DEF UpPc
  <1>3. /\ db' \in Seq(Content) /\ Len(db') = Len(db) + 1
        /\ \A i \in 1..Len(db) : db'[i] = db[i]
    BY <1>1, <1>2, InService, ContentFacts, AppendProperties
  <1>4. /\ Len(db') >= Len(db) /\ Len(db') >= 3 /\ Len(db') <= MaxPage /\ db'[1] = db[1] /\ db'[2] = db[2]
        /\ 2..Len(db) \subseteq 2..Len(db')
    <2>1. MaxPage \in Nat
      BY WalAssumption
    <2> QED
      BY <1>1, <1>2, <1>3, <2>1, InService
  <1>5. Whole' /\ ~Fresh'
    <2>1. LogMoves({})
      BY <1>1, SameMoves DEF walVars
    <2> QED
      BY <1>2, <1>3, <1>4, <2>1, InService, WholeKept
  <1>6. Dirty' = Dirty /\ k' = k
    BY <1>1 DEF Dirty, memVars
  <1>7. Flushed'
    BY <1>1 DEF Flushed, FlushPc
  <1> QED
    BY <1>2, <1>4, <1>5, <1>6, <1>7, InService, StillUp

\* Writing page p in service or in recovery, whole or in part.
LEMMA PageWrite ==
    ASSUME DInv, Whole, ~Fresh, NEW p \in 2..Len(db), NEW x \in Content,
           db' = [db EXCEPT ![p] = x], LogMoves({}),
           p = 2 => x \in Value \/ 2 \in PagesOf(wal.recs) \/ wal.tail = "garbage"
    PROVE  /\ Whole' /\ ~Fresh'
           /\ Len(db') = Len(db) /\ db'[1] = db[1] /\ db'[p] = x
           /\ p # 2 => db'[2] = db[2]
  <1>1. db \in Seq(Content) /\ Len(db) \in Nat /\ Len(db) >= 2
    BY WholeFacts
  <1>2. /\ db' \in Seq(Content) /\ Len(db') = Len(db)
        /\ \A q \in 1..Len(db) : q # p => db'[q] = db[q]
        /\ p \in 1..Len(db) => db'[p] = x
    BY <1>1, WrittenPage
  <1>3. db'[1] = db[1] /\ db'[p] = x /\ (p # 2 => db'[2] = db[2]) /\ Len(db') >= Len(db)
    BY <1>1, <1>2
  <1>4. Whole' /\ ~Fresh'
    BY <1>2, <1>3, WholeKept
  <1> QED
    BY <1>2, <1>3, <1>4

LEMMA InitPageKept == ASSUME DInv, RInv, InitPage PROVE RInv'
  <1>1. pc = "init_page" /\ pc' = "serving" /\ UNCHANGED <<walVars, memVars>>
    BY DEF InitPage
  <1>2. pc \in UpPc /\ pc' \in UpPc
    BY <1>1 DEF UpPc
  <1>3. Len(db) \in 3..Len(db) /\ Len(db) \in 2..Len(db)
    BY <1>1, <1>2, InService DEF RInv, Pooled
  <1>4. LogMoves({}) /\ Dirty' = Dirty /\ k' = k
    BY <1>1, SameMoves DEF walVars, memVars, Dirty
  <1>5. Flushed'
    BY <1>1 DEF Flushed, FlushPc
  <1>6. CASE db' = db
    BY <1>1, <1>2, <1>4, <1>5, <1>6, OnlyLog DEF memVars
  <1>7. ASSUME NEW x \in Content, db' = [db EXCEPT ![Len(db)] = x] PROVE RInv'
    <2>1. Whole' /\ ~Fresh' /\ Len(db') = Len(db) /\ db'[2] = db[2]
      <3>1. Len(db) # 2
        BY <1>3
      <3> QED
        BY <1>2, <1>3, <1>4, <1>7, <3>1, InService, PageWrite
    <2> QED
      BY <1>1, <1>2, <1>4, <1>5, <2>1, InService, StillUp
  <1> QED
    BY <1>6, <1>7, ContentFacts DEF InitPage

LEMMA BeginKept ==
    ASSUME DInv, RInv, (\E p \in Page : BeginFlush(p))
                       \/ (\E why \in {"close", "exit"} : BeginFlushAll(why))
    PROVE  RInv'
  <1>1. /\ pc \in {"serving", "half_closed"} /\ pc' = "next"
        /\ UNCHANGED <<walVars, db, k, mem>>
        /\ job' = "serve" \/ todo' = Dirty
    BY DEF BeginFlush, BeginFlushAll, fileVars
  <1>2. pc \in UpPc /\ pc' \in UpPc \ {"init_page"}
    BY <1>1 DEF UpPc
  <1>3. LogMoves({}) /\ Dirty' = Dirty
    BY <1>1, SameMoves DEF walVars, Dirty
  <1>4. Flushed'
    BY <1>1, <1>3 DEF Flushed, FlushPc
  <1> QED
    BY <1>1, <1>2, <1>3, <1>4, OnlyLog

LEMMA FlushNextKept == ASSUME DInv, RInv, FlushNext PROVE RInv'
  <1>1. /\ pc = "next" /\ pc' = "append"
        /\ UNCHANGED <<walVars, db, k, mem, job, erred>>
        /\ todo' = todo \ {cur'} /\ cur' \in todo
    BY DEF FlushNext, fileVars
  <1>2. pc \in UpPc /\ pc' \in UpPc \ {"init_page"}
    BY <1>1 DEF UpPc
  <1>3. LogMoves({}) /\ Dirty' = Dirty
    BY <1>1, SameMoves DEF walVars, Dirty
  <1>4. job = "close" /\ ~erred => Dirty \subseteq todo
    BY <1>1 DEF RInv, Flushed
  <1>5. Flushed'
    BY <1>1, <1>3, <1>4 DEF Flushed
  <1> QED
    BY <1>1, <1>2, <1>3, <1>5, OnlyLog

\* FlushFrame gives up: from now on the job has an error.
LEMMA FrameFailsKept ==
    ASSUME DInv, RInv, pc \in FlushPc, FlushFrameFails, UNCHANGED db,
           NEW P, LogMoves(P), P \subseteq 2..Len(db)
    PROVE  RInv'
  <1>1. pc' = "next" /\ erred' /\ UNCHANGED <<k, mem>>
    BY DEF FlushFrameFails
  <1>2. pc \in UpPc /\ pc' \in UpPc \ {"init_page"}
    BY <1>1 DEF UpPc, FlushPc
  <1>3. Flushed'
    BY <1>1 DEF Flushed, FlushPc
  <1> QED
    BY <1>1, <1>2, <1>3, OnlyLog

LEMMA LogAppendKept == ASSUME DInv, RInv, LogAppend PROVE RInv'
  <1>1. pc = "append" /\ pc \in FlushPc /\ pc \in UpPc
    BY DEF LogAppend, FlushPc, UpPc
  <1>2. cur \in Page /\ mem[cur] \in Value /\ cur \in Dirty /\ WInv
    BY <1>1, Flushing DEF DInv, Control
  <1>3. {cur} \subseteq 2..Len(db)
    BY <1>1, <1>2, InService
  <1>4. CASE AppendPageImage(cur, mem[cur]) /\ pc' = "sync" /\ UNCHANGED <<fileVars, memVars>>
    <2>1. LogMoves({cur}) /\ cur \in PagesOf(pending')
      BY <1>2, <1>4, AppendMoves
    <2>2. UNCHANGED <<db, k, mem, job, todo, cur, erred>> /\ Dirty' = Dirty
      BY <1>4 DEF fileVars, memVars, Dirty
    <2>3. job = "close" /\ ~erred => Dirty \subseteq todo \cup {cur}
      BY <1>1 DEF RInv, Flushed
    <2>4. Flushed'
      BY <1>4, <2>1, <2>2, <2>3 DEF Flushed
    <2>5. pc' \in UpPc \ {"init_page"}
      BY <1>4 DEF UpPc
    <2> QED
      BY <1>1, <1>3, <2>1, <2>2, <2>4, <2>5, OnlyLog
  <1>5. CASE AppendFails(cur, mem[cur]) /\ FlushFrameFails /\ UNCHANGED db
    <2>1. LogMoves({cur})
      BY <1>2, <1>5, AppendMoves
    <2> QED
      BY <1>1, <1>3, <1>5, <2>1, FrameFailsKept
  <1>6. CASE UNCHANGED walVars /\ FlushFrameFails /\ UNCHANGED db
    <2>1. LogMoves({})
      BY <1>6, SameMoves DEF walVars
    <2> QED
      BY <1>1, <1>6, <2>1, FrameFailsKept
  <1> QED
    BY <1>4, <1>5, <1>6 DEF LogAppend

LEMMA LogFlushKept == ASSUME DInv, RInv, LogFlush PROVE RInv'
  <1>1. pc = "sync" /\ pc \in FlushPc /\ pc \in UpPc /\ WInv
    BY DEF LogFlush, FlushPc, UpPc, DInv
  <1>2. CASE Flush /\ pc' = "write" /\ UNCHANGED <<fileVars, memVars>>
    <2>1. /\ LogMoves({})
          /\ PagesOf(pending) \subseteq PagesOf(wal'.recs) \/ wal'.tail = "garbage"
      BY <1>1, <1>2, FlushMoves
    <2>2. UNCHANGED <<db, k, mem, job, todo, cur, erred>> /\ Dirty' = Dirty
      BY <1>2 DEF fileVars, memVars, Dirty
    <2>3. /\ job = "close" /\ ~erred => Dirty \subseteq todo \cup {cur}
          /\ cur \in PagesOf(pending)
      BY <1>1 DEF RInv, Flushed
    <2>4. Flushed'
      BY <1>2, <2>1, <2>2, <2>3 DEF Flushed
    <2>5. pc' \in UpPc \ {"init_page"}
      BY <1>2 DEF UpPc
    <2> QED
      BY <1>1, <2>1, <2>2, <2>4, <2>5, OnlyLog
  <1>3. CASE FlushFails /\ FlushFrameFails /\ UNCHANGED db
    <2>1. LogMoves({})
      BY <1>1, <1>3, StopMoves
    <2> QED
      BY <1>1, <1>3, <2>1, FrameFailsKept
  <1> QED
    BY <1>2, <1>3 DEF LogFlush

\* The page is logged when it is written: torn, it is repaired from the log.
LEMMA WritePageKept == ASSUME DInv, RInv, WritePage PROVE RInv'
  <1>1. pc = "write" /\ pc \in FlushPc /\ pc \in UpPc /\ UNCHANGED walVars
    BY DEF WritePage, FlushPc, UpPc
  <1>2. cur \in Page /\ mem[cur] \in Value /\ cur \in Dirty
    BY <1>1, Flushing DEF DInv, Control
  <1>3. /\ cur \in 2..Len(db) /\ mem[cur] \in Content /\ Torn \in Content
        /\ LogMoves({})
    BY <1>1, <1>2, InService, ContentFacts, SameMoves DEF walVars
  <1>4. cur \in PagesOf(wal.recs) \/ wal.tail = "garbage"
    BY <1>1 DEF RInv, Flushed
  <1>5. CASE UNCHANGED db /\ FlushFrameFails
    BY <1>1, <1>3, <1>5, FrameFailsKept
  <1>6. CASE db' = [db EXCEPT ![cur] = Torn] /\ FlushFrameFails
    <2>1. pc' = "next" /\ erred' /\ UNCHANGED <<k, mem>>
      BY <1>6 DEF FlushFrameFails
    <2>2. /\ Whole' /\ ~Fresh' /\ Len(db') = Len(db)
          /\ cur # 2 => db'[2] = db[2]
      BY <1>1, <1>3, <1>4, <1>6, InService, PageWrite
    <2>3. Flushed' /\ Dirty' = Dirty /\ pc' \in UpPc
      BY <2>1 DEF Flushed, FlushPc, Dirty, UpPc
    <2>4. db'[2] \in Value \/ 2 \in Dirty'
      BY <1>1, <1>2, <2>2, <2>3, InService
    <2> QED
      BY <1>1, <2>1, <2>2, <2>3, <2>4, InService, StillUp
  <1>7. CASE /\ db' = [db EXCEPT ![cur] = mem[cur]]
             /\ mem' = [mem EXCEPT ![cur] = Clean]
             /\ pc' = "next"
             /\ UNCHANGED <<tmp, ragged, k, job, todo, cur, erred>>
    <2>1. /\ Whole' /\ ~Fresh' /\ Len(db') = Len(db) /\ db'[cur] = mem[cur]
          /\ cur # 2 => db'[2] = db[2]
      BY <1>1, <1>2, <1>3, <1>7, InService, PageWrite
    <2>2. mem \in [Page -> Value \cup {Clean}]
      BY DEF DInv, LocalType
    <2>3. Dirty' = Dirty \ {cur}
      BY <1>2, <1>7, <2>2 DEF Dirty
    <2>4. job = "close" /\ ~erred => Dirty \subseteq todo \cup {cur}
      BY <1>1 DEF RInv, Flushed
    <2>5. Flushed' /\ pc' \in UpPc
      BY <1>7, <2>3, <2>4 DEF Flushed, FlushPc, UpPc
    <2>6. db'[2] \in Value \/ 2 \in Dirty'
      BY <1>1, <1>2, <2>1, <2>3, InService
    <2> QED
      BY <1>1, <1>7, <2>1, <2>3, <2>5, <2>6, InService, StillUp
  <1> QED
    BY <1>5, <1>6, <1>7 DEF WritePage

\* The object goes and leaves the file as it is.
LEMMA DestroyKept ==
    ASSUME DInv, RInv, Discarded, UNCHANGED db, WalClose \/ UNCHANGED walVars
    PROVE  RInv'
  <1>1. LogMoves({})
    BY StopMoves, SameMoves DEF DInv, walVars
  <1> QED
    BY <1>1, WholeSame, DiscardedKept DEF RInv

LEMMA FlushDoneKept == ASSUME DInv, RInv, FlushDone PROVE RInv'
  <1>1. pc = "next" /\ pc \in UpPc /\ todo = {} /\ UNCHANGED db
    BY DEF FlushDone, UpPc, fileVars
  <1>2. job \in {"serve", "close", "exit"}
    BY DEF DInv, LocalType
  <1>3. CASE job = "serve"
    <2>1. pc' = "serving" /\ UNCHANGED <<walVars, k, mem>>
      BY <1>3 DEF FlushDone
    <2>2. LogMoves({}) /\ pc' \in UpPc \ {"init_page"} /\ Flushed'
      BY <2>1, SameMoves DEF walVars, UpPc, Flushed, FlushPc
    <2> QED
      BY <1>1, <2>1, <2>2, OnlyLog
  <1>4. CASE job = "close"
    <2>1. UNCHANGED <<walVars, k, mem>> /\ pc' = IF erred THEN "half_closed" ELSE "reset"
      BY <1>4 DEF FlushDone, memVars
    <2>2. ~erred => Dirty = {}
      BY <1>1, <1>4 DEF RInv, Flushed
    <2>3. Dirty' = Dirty
      BY <2>1 DEF Dirty
    <2>4. pc' = "half_closed" \/ (pc' = "reset" /\ Dirty' = {})
      BY <2>1, <2>2, <2>3
    <2>5. LogMoves({}) /\ pc' \in UpPc \ {"init_page"} /\ Flushed'
      BY <2>1, <2>4, SameMoves DEF walVars, UpPc, Flushed, FlushPc
    <2> QED
      BY <1>1, <2>1, <2>5, OnlyLog
  <1>5. CASE job = "exit"
    <2>1. Discarded /\ (WalClose \/ UNCHANGED walVars)
      BY <1>5 DEF FlushDone, DestroyWal
    <2> QED
      BY <1>1, <2>1, DestroyKept
  <1> QED
    BY <1>2, <1>3, <1>4, <1>5

\* Close empties the log only when every page, the catalog root too, is written.
LEMMA ClosingKept == ASSUME DInv, RInv, ResetLog \/ CloseWal PROVE RInv'
  <1>1. pc \in {"reset", "close_wal"} /\ pc \in UpPc /\ UNCHANGED db /\ WInv
    BY DEF ResetLog, CloseWal, UpPc, fileVars, DInv
  <1>2. Dirty = {} /\ db[2] \in Value
    <2>1. Dirty = {}
      BY <1>1 DEF RInv, Flushed
    <2> QED
      BY <1>1, <2>1, InService
  <1>3. CASE WalReset /\ pc' = "close_wal" /\ UNCHANGED memVars
    <2>1. Whole' /\ ~Fresh'
      BY <1>1, <1>2, <1>3, InService, WholeReset
    <2>2. Dirty' = {} /\ k' = k
      BY <1>2, <1>3 DEF Dirty, memVars
    <2>3. wal' = EmptyLog /\ pending' = <<>> /\ ~failed'
      BY <1>3 DEF WalReset
    <2>4. pc' \in UpPc /\ pc' # "init_page" /\ Flushed'
      BY <1>3, <2>2, <2>3 DEF UpPc, Flushed, FlushPc
    <2> QED
      BY <1>1, <1>2, <2>1, <2>2, <2>4, StillUp
  <1>4. CASE Discarded /\ WalClose
    BY <1>1, <1>4, DestroyKept
  <1>5. CASE /\ pc' = "half_closed" /\ UNCHANGED memVars
             /\ ResetFails \/ WalClose \/ UNCHANGED walVars
    <2>1. LogMoves({})
      BY <1>1, <1>5, StopMoves, SameMoves DEF walVars
    <2>2. pc' \in UpPc \ {"init_page"} /\ Flushed' /\ UNCHANGED <<k, mem>>
      BY <1>5 DEF UpPc, Flushed, FlushPc, memVars
    <2> QED
      BY <1>1, <2>1, <2>2, OnlyLog
  <1> QED
    BY <1>3, <1>4, <1>5 DEF ResetLog, CloseWal

LEMMA ServiceKept == ASSUME DInv, RInv, Service PROVE RInv'
  BY ModifyKept, AllocateKept, InitPageKept, BeginKept, FlushNextKept, LogAppendKept,
     LogFlushKept, WritePageKept, FlushDoneKept, ClosingKept DEF Service

-----------------------------------------------------------------------------
(* Failures *)

\* A page torn in recovery is repaired by the next one.
LEMMA ReplayFailsKept == ASSUME DInv, RInv, ReplayFails PROVE RInv'
  <1>1. /\ pc = "replay" /\ k <= Len(wal.recs) /\ OpenFails
        /\ db' = db \/ db' = [db EXCEPT ![wal.recs[k].page] = Torn]
    BY DEF ReplayFails
  <1>2. ~Fresh /\ Whole /\ LogMoves({})
    BY <1>1, OpenFailsMoves DEF RInv, Opened, OpenPc
  <1>3. CASE db' = db
    BY <1>1, <1>3, OpenFailsKept
  <1>4. CASE db' = [db EXCEPT ![wal.recs[k].page] = Torn]
    <2>1. k \in 1..Len(wal.recs)
      <3>1. k \in 1..(MaxLsn + 1)
        BY DEF DInv, LocalType
      <3> QED
        BY <1>1, <3>1, LsnBound, WInvFacts DEF DInv
    <2>2. wal.recs[k].page \in PagesOf(wal.recs) /\ wal.recs[k].page \in 2..Len(db)
      BY <1>2, <2>1, LoggedPage
    <2>3. Whole'
      BY <1>2, <1>4, <2>2, ContentFacts, PageWrite
    <2> QED
      BY <1>1, <2>3, DiscardedKept DEF OpenFails
  <1> QED
    BY <1>1, <1>3, <1>4

\* A page that a crash can tear is not the header; if it is the catalog root, the
\* log has an image of it.
LEMMA InFlightFacts ==
    ASSUME DInv, RInv, NEW p \in InFlight
    PROVE  /\ ~Fresh /\ p \in 2..Len(db)
           /\ p = 2 => 2 \in PagesOf(wal.recs) \/ wal.tail = "garbage"
  <1>1. CASE pc = "write"
    <2>1. p = cur
      BY <1>1 DEF InFlight
    <2>2. cur \in Dirty /\ pc \in UpPc
      BY <1>1 DEF DInv, Control, FlushPc, UpPc
    <2>3. cur \in PagesOf(wal.recs) \/ wal.tail = "garbage"
      BY <1>1 DEF RInv, Flushed
    <2> QED
      BY <2>1, <2>2, <2>3, InService
  <1>2. CASE pc = "init_page"
    <2>1. p = Len(db) /\ pc \in UpPc
      BY <1>2 DEF InFlight, UpPc
    <2>2. Len(db) >= 3 /\ Len(db) \in Nat /\ ~Fresh
      BY <1>2, <2>1, InService DEF RInv, Pooled
    <2> QED
      BY <2>1, <2>2
  <1>3. CASE pc = "replay"
    <2>1. k <= Len(wal.recs) /\ p = wal.recs[k].page
      BY <1>3 DEF InFlight
    <2>2. k \in 1..Len(wal.recs)
      <3>1. k \in 1..(MaxLsn + 1)
        BY DEF DInv, LocalType
      <3> QED
        BY <2>1, <3>1, LsnBound, WInvFacts DEF DInv
    <2>3. ~Fresh /\ Whole
      BY <1>3 DEF RInv, Opened, OpenPc
    <2> QED
      BY <2>1, <2>2, <2>3, LoggedPage
  <1>4. pc \in {"write", "init_page", "replay"}
    BY DEF InFlight
  <1> QED
    BY <1>1, <1>2, <1>3, <1>4

LEMMA CrashKept == ASSUME DInv, RInv, Crash PROVE RInv'
  <1>1. Discarded /\ WalCrash
    BY DEF Crash
  <1>2. LogMoves({}) /\ Whole
    BY <1>1, StopMoves DEF DInv, RInv
  <1>3. CASE db' = db
    BY <1>1, <1>2, <1>3, WholeSame, DiscardedKept
  <1>4. ASSUME NEW p \in InFlight, db' = [db EXCEPT ![p] = Torn] PROVE RInv'
    <2>1. Whole'
      BY <1>2, <1>4, InFlightFacts, ContentFacts, PageWrite
    <2> QED
      BY <1>1, <2>1, DiscardedKept
  <1> QED
    BY <1>3, <1>4 DEF Crash

LEMMA FaultKept == ASSUME DInv, RInv, Fault PROVE RInv'
  <1>1. CASE BuildFails
    <2>1. pc \in BuildPc /\ pc' = "down" /\ UNCHANGED <<db, memVars>>
      BY <1>1 DEF BuildFails
    <2>2. Fresh' /\ Created'
      BY <2>1 DEF DInv, Control, Fresh, Created
    <2> QED
      BY <2>1, <2>2, StillBuilding
  <1>2. CASE OpenErrs
    BY <1>2, OpenFailsKept DEF OpenErrs
  <1>3. CASE AllocatePageFails
    <2>1. pc = "serving" /\ pc' = pc /\ UNCHANGED <<walVars, db, memVars>>
      BY <1>3 DEF AllocatePageFails
    <2>2. /\ LogMoves({}) /\ pc \in UpPc /\ pc' \in UpPc \ {"init_page"} /\ Flushed'
          /\ UNCHANGED <<k, mem>>
      BY <2>1, SameMoves DEF walVars, UpPc, Flushed, FlushPc, memVars
    <2> QED
      BY <2>1, <2>2, OnlyLog
  <1> QED
    BY <1>1, <1>2, <1>3, ReplayFailsKept, CrashKept DEF Fault

LEMMA RecoveryStep == ASSUME DInv, RInv, [Next]_vars PROVE RInv'
  <1>1. CASE Next
    BY <1>1, CreationKept, OpeningKept, ServiceKept, FaultKept DEF Next, Work
  <1>2. CASE UNCHANGED vars
    BY <1>2 DEF vars, walVars, fileVars, memVars, RInv, Created, Whole, Opened, Pooled,
                Flushed, Fresh, Dirty, PagesOf
  <1> QED
    BY <1>1, <1>2

\* The header, the logged pages and the catalog root through every run.
THEOREM RecoveryInvariance == Spec => [](DInv /\ RInv)
  <1>1. Init => DInv /\ RInv
    BY DatabaseInit, RecoveryInit
  <1>2. DInv /\ RInv /\ [Next]_vars => (DInv /\ RInv)'
    BY DatabaseStep, RecoveryStep
  <1> QED
    BY <1>1, <1>2, PTL DEF Spec

\* Open finds the header, a page for every record and a catalog root it can load
\* after any sequence of crashes and failed writes, however many pages there are
\* and however often recovery itself was interrupted: it refuses only a file that
\* ends inside a page and a log with a corrupt record.
THEOREM OnlyDamageRefused == Spec => []OpenRefusesOnlyDamage
  <1>1. ASSUME DInv, RInv PROVE OpenRefusesOnlyDamage
    <2>1. pc = "read_header" => db[1] = Header
      BY <1>1 DEF RInv, Opened, OpenPc, Whole
    <2>2. ASSUME pc = "replay", NEW i \in k..Len(wal.recs)
          PROVE  wal.recs[i].page \in DOMAIN db
      <3>1. ~Fresh /\ Whole
        BY <1>1, <2>2 DEF RInv, Opened, OpenPc
      <3>2. k \in 1..(MaxLsn + 1) /\ Len(wal.recs) \in Nat
        BY <1>1, WInvFacts DEF DInv, LocalType
      <3>3. i \in 1..Len(wal.recs)
        BY <3>2, LsnBound
      <3>4. wal.recs[i].page \in 2..Len(db)
        BY <1>1, <3>1, <3>3, LoggedPage
      <3> QED
        BY <1>1, <3>1, <3>4, WholeFacts, LenProperties
    <2>3. pc = "open_executor" => db[2] \in Value
      BY <1>1 DEF RInv, Opened
    <2> QED
      BY <2>1, <2>2, <2>3 DEF OpenRefusesOnlyDamage
  <1> QED
    BY <1>1, RecoveryInvariance, PTL

\* Whatever failed before, a Close that succeeds leaves every page as it was last
\* modified, in the file and with nothing in the log that could replace it.
THEOREM CloseIsDurable == Spec => CloseKeepsAll
  <1>1. ASSUME DInv, RInv, CloseWal, pc' = "down", NEW p \in DOMAIN db
        PROVE  Durable(p)' = Visible(p)
    <2>1. pc = "close_wal" /\ pc \in UpPc /\ db' = db /\ wal' \in AfterClose(wal)
      BY <1>1 DEF CloseWal, UpPc, WalClose, fileVars
    <2>2. Dirty = {} /\ wal = EmptyLog /\ pending = <<>> /\ ~failed
      BY <1>1, <2>1 DEF RInv, Flushed
    <2>3. wal' = EmptyLog
      BY <2>1, <2>2 DEF AfterClose, Put
    <2>4. Logged(p)' = {}
      <3>1. Len(wal'.recs) = 0
        BY <2>3, EmptyFacts
      <3> QED
        BY <3>1 DEF Logged
    <2>5. p \in Page
      <3>1. db \in Seq(Content) /\ Len(db) \in Nat /\ Len(db) <= MaxPage /\ DOMAIN db = 1..Len(db)
        BY <1>1, <2>1, InService, WholeFacts, LenProperties
      <3>2. MaxPage \in Nat
        BY WalAssumption
      <3> QED
        BY <1>1, <3>1, <3>2 DEF Page
    <2>6. mem[p] = Clean
      BY <2>2, <2>5 DEF Dirty
    <2> QED
      BY <2>1, <2>4, <2>6 DEF Durable, Visible
  <1>2. DInv /\ RInv /\ [Next]_vars
          => [CloseWal /\ pc' = "down" =>
                 \A p \in DOMAIN db : Durable(p)' = Visible(p)]_vars
    BY <1>1
  <1> QED
    BY <1>2, RecoveryInvariance, PTL DEF Spec, CloseKeepsAll

-----------------------------------------------------------------------------
(* The durable store *)

Pages == 1..Len(db)

\* The stream buffers at most the image of the page at hand, and a log that is in
\* use ends inside a record only when its stream has failed.
Streamed ==
    /\ pc # "sync" => pending = <<>>
    /\ pc = "sync" => \E r \in Record : /\ pending = <<r>>
                                        /\ r.page = cur /\ r.image = mem[cur]
    /\ pc \in {"sync", "write"} => ~failed
    /\ pc \in UpPc /\ ~failed => wal.tail = "clean"

\* Where the file itself has the durable content.
Settled ==
    /\ pc = "replay" => \A p \in Pages :
                            Logged(p) \cap (k..Len(wal.recs)) = {} => db[p] = Durable(p)
    /\ pc = "checkpoint" => \A p \in Pages : db[p] = Durable(p)
    /\ pc = "open_executor" => wal = EmptyLog
    /\ pc \in UpPc => \A p \in Pages \ Dirty : db[p] = Durable(p)
    /\ pc = "write" => Logged(cur) # {} /\ Durable(cur) = mem[cur]
    /\ pc = "init_page" => /\ Len(db) \notin Dirty
                           /\ Logged(Len(db)) = {}
                           /\ db[Len(db)] = Blank

SInv == Streamed /\ Settled

-----------------------------------------------------------------------------
(* The last image of a page *)

At(s, p)       == {i \in 1..Len(s) : s[i].page = p}
LastAt(s, p)   == CHOOSE i \in At(s, p) : \A j \in At(s, p) : j <= i
Image(s, p, c) == IF At(s, p) = {} THEN c ELSE s[LastAt(s, p)].image

LEMMA DurableIs ==
    ASSUME NEW p
    PROVE  /\ Durable(p) = Image(wal.recs, p, db[p])
           /\ Logged(p) = At(wal.recs, p)
           /\ Durable(p)' = Image(wal'.recs, p, db'[p])
           /\ Logged(p)' = At(wal'.recs, p)
  BY DEF Durable, Logged, Image, LastAt, At

\* A set of numbers that is not empty has a least element.
LEMMA LeastElement ==
    ASSUME NEW T \in SUBSET Nat, T # {}
    PROVE  \E x \in T : \A y \in T : x <= y
  <1>1. \E x \in T : \A y \in T : ~(<<y, x>> \in OpToRel(<, Nat))
    BY NatLessThanWellFounded, WFMin, Zenon
  <1>2. \E x \in T : \A y \in T : ~(y < x)
    BY <1>1, Zenon DEF OpToRel
  <1>3. \A x, y \in T : ~(y < x) => x <= y
    OBVIOUS
  <1> QED
    BY <1>2, <1>3, Zenon

\* There is a last record among those of a page.
LEMMA LastExists ==
    ASSUME NEW s \in Seq(Record), NEW p, At(s, p) # {}
    PROVE  /\ LastAt(s, p) \in At(s, p)
           /\ \A j \in At(s, p) : j <= LastAt(s, p)
  <1> DEFINE T == {Len(s) - i : i \in At(s, p)}
  <1>1. Len(s) \in Nat /\ \A i \in At(s, p) : i \in Nat /\ i <= Len(s)
    BY LenProperties DEF At
  <1>2. T \in SUBSET Nat /\ T # {}
    BY <1>1
  <1>3. PICK x \in T : \A y \in T : x <= y
    <2> HIDE DEF T
    <2> QED
      BY <1>2, LeastElement
  <1>4. PICK i \in At(s, p) : x = Len(s) - i
    BY <1>3
  <1>5. ASSUME NEW j \in At(s, p) PROVE j <= i
    <2>1. Len(s) - i <= Len(s) - j
      BY <1>3, <1>4
    <2> QED
      BY <1>1, <2>1
  <1> QED
    BY <1>4, <1>5 DEF LastAt

LEMMA ImageLast ==
    ASSUME NEW s \in Seq(Record), NEW p, NEW c, NEW i \in At(s, p),
           \A j \in At(s, p) : j <= i
    PROVE  Image(s, p, c) = s[i].image
  <1>1. LastAt(s, p) \in At(s, p) /\ i <= LastAt(s, p) /\ LastAt(s, p) <= i
    BY LastExists
  <1>2. LastAt(s, p) = i
    BY <1>1 DEF At
  <1> QED
    BY <1>2 DEF Image

LEMMA ImageEmpty == ASSUME NEW p, NEW c PROVE Image(<<>>, p, c) = c
  <1>1. At(<<>>, p) = {}
    BY EmptySeq DEF At
  <1> QED
    BY <1>1 DEF Image

\* A record behind the others.
LEMMA AtAppend ==
    ASSUME NEW s \in Seq(Record), NEW r \in Record, NEW p
    PROVE  At(Append(s, r), p) =
               IF p = r.page THEN At(s, p) \cup {Len(s) + 1} ELSE At(s, p)
  <1> DEFINE t == Append(s, r)
  <1>1. /\ t \in Seq(Record) /\ Len(t) = Len(s) + 1 /\ Len(s) \in Nat
        /\ t[Len(s) + 1] = r
        /\ \A i \in 1..Len(s) : t[i] = s[i]
    BY AppendProperties, LenProperties
  <1> HIDE DEF t
  <1>2. At(t, p) = IF p = r.page THEN At(s, p) \cup {Len(s) + 1} ELSE At(s, p)
    BY <1>1 DEF At
  <1> QED
    BY <1>2 DEF t

\* It is the last image of its page and of no other.
LEMMA ImageAppend ==
    ASSUME NEW s \in Seq(Record), NEW r \in Record, NEW p, NEW c
    PROVE  Image(Append(s, r), p, c) = IF p = r.page THEN r.image ELSE Image(s, p, c)
  <1> DEFINE t == Append(s, r)
  <1>1. /\ t \in Seq(Record) /\ Len(t) = Len(s) + 1 /\ Len(s) \in Nat
        /\ t[Len(s) + 1] = r
        /\ \A i \in 1..Len(s) : t[i] = s[i]
        /\ At(t, p) = IF p = r.page THEN At(s, p) \cup {Len(s) + 1} ELSE At(s, p)
    BY AppendProperties, LenProperties, AtAppend
  <1> HIDE DEF t
  <1>2. CASE p = r.page
    <2>1. /\ Len(s) + 1 \in At(t, p)
          /\ \A j \in At(t, p) : j <= Len(s) + 1
      BY <1>1, <1>2 DEF At
    <2>2. Image(t, p, c) = t[Len(s) + 1].image
      BY <1>1, <2>1, ImageLast
    <2> QED
      BY <1>1, <1>2, <2>2 DEF t
  <1>3. CASE p # r.page
    <2>1. At(s, p) # {} => LastAt(s, p) \in 1..Len(s) /\ LastAt(t, p) = LastAt(s, p)
      BY <1>1, <1>3, LastExists DEF LastAt, At
    <2>2. Image(t, p, c) = Image(s, p, c)
      BY <1>1, <1>3, <2>1 DEF Image
    <2> QED
      BY <1>3, <2>2 DEF t
  <1> QED
    BY <1>2, <1>3

-----------------------------------------------------------------------------
(* The log in service *)

\* Writing one record, whole or in part.
LEMMA CutOne ==
    ASSUME NEW f \in Log, NEW r \in Record, NEW g \in Cut(f, <<r>>)
    PROVE  \/ g.recs = f.recs
           \/ g.recs = Append(f.recs, r) /\ g = Put(f, <<r>>)
  <1>0. f.recs \in Seq(Record) /\ <<r>> \in Seq(Record) /\ Len(<<r>>) = 1
    BY DEF Log
  <1>1. PICK t \in Prefixes(<<r>>) :
            g = Put(f, t) \/ (t # <<r>> /\ g \in Fragments(Put(f, t)))
    BY DEF Cut
  <1>2. PICK l \in 0..Len(<<r>>) : t = SubSeq(<<r>>, 1, l)
    BY <1>1 DEF Prefixes
  <1>3. t = <<>> \/ t = <<r>>
    <2>1. Len(t) = l /\ t \in Seq(Record) /\ \A i \in 1..l : t[i] = <<r>>[i]
      BY <1>0, <1>2, SubSeqProperties
    <2>2. CASE l = 0
      BY <2>1, <2>2, EmptySeq
    <2>3. CASE l = 1
      <3>1. t[1] = r
        BY <2>1, <2>3
      <3> QED
        BY <2>1, <2>3, <3>1
    <2> QED
      BY <1>0, <1>2, <2>2, <2>3
  <1>4. CASE t = <<>>
    <2>1. Put(f, t) = f
      BY <1>4 DEF Put
    <2> QED
      BY <1>1, <2>1, FragmentFacts
  <1>5. CASE t = <<r>>
    <2>1. g = Put(f, <<r>>) /\ <<r>> # <<>>
      BY <1>1, <1>5
    <2>2. CASE f.tail = "clean"
      <3>1. g = [f EXCEPT !.recs = f.recs \o <<r>>]
        BY <2>1, <2>2 DEF Put
      <3>2. g.recs = f.recs \o <<r>>
        BY <3>1 DEF Log
      <3> QED
        BY <1>0, <2>1, <3>2, AppendIsConcat
    <2>3. CASE f.tail # "clean"
      BY <2>1, <2>3 DEF Put, Log
    <2> QED
      BY <2>2, <2>3
  <1> QED
    BY <1>3, <1>4, <1>5

\* With nothing buffered, what ends or breaks the stream leaves the records alone.
LEMMA RecordsStay ==
    ASSUME WInv, pending = <<>>,
           \/ WalCrash \/ WalClose \/ ResetFails \/ UNCHANGED walVars
           \/ \E p \in Page, v \in Value : AppendFails(p, v)
    PROVE  wal'.recs = wal.recs /\ pending' = <<>>
  <1>0. wal \in Log
    BY WInvFacts
  <1>1. CASE WalCrash
    <2>1. PICK t \in Prefixes(<<>>) :
              wal' = Put(wal, t) \/ (t # <<>> /\ wal' \in Fragments(Put(wal, t)))
      BY <1>1 DEF WalCrash, Cut
    <2>2. PICK l \in 0..Len(<<>>) : t = SubSeq(<<>>, 1, l)
      BY <2>1 DEF Prefixes
    <2>3. t = <<>>
      BY <2>2, EmptySeq
    <2> QED
      BY <1>1, <2>1, <2>3 DEF Put, WalCrash, NoStream
  <1>2. CASE WalClose \/ ResetFails
    <2>1. wal' = wal \/ wal' \in Fragments(wal)
      BY <1>2 DEF WalClose, ResetFails, AfterClose, Put
    <2> QED
      BY <1>0, <1>2, <2>1, FragmentFacts DEF WalClose, ResetFails, NoStream
  <1>3. CASE UNCHANGED walVars
    BY <1>3 DEF walVars
  <1>4. ASSUME NEW p \in Page, NEW v \in Value, AppendFails(p, v)
        PROVE  wal'.recs = wal.recs /\ pending' = <<>>
    <2> DEFINE r == [lsn |-> next_lsn, page |-> p, image |-> v]
    <2>1. next_lsn <= MaxLsn /\ pending' = <<>>
      BY <1>4 DEF AppendFails, StreamFails
    <2>2. r \in Record
      BY <2>1, WInvFacts DEF Record
    <2>3. Append(pending, r) = <<r>>
      BY <2>2
    <2>4. wal' \in Cut(wal, <<r>>) /\ wal' # Put(wal, <<r>>)
      BY <1>4, <2>3 DEF AppendFails, StreamFails
    <2> HIDE DEF r
    <2> QED
      BY <1>0, <2>1, <2>2, <2>4, CutOne
  <1> QED
    BY <1>1, <1>2, <1>3, <1>4

\* A page image that is flushed is appended to the records, or none of it is read.
LEMMA ImageWritten ==
    ASSUME WInv, NEW r \in Record, pending = <<r>>, WalCrash \/ Flush \/ FlushFails
    PROVE  /\ pending' = <<>>
           /\ wal'.recs \in {wal.recs, Append(wal.recs, r)}
           /\ Flush /\ wal.tail = "clean" =>
                 wal'.recs = Append(wal.recs, r) /\ wal'.tail = "clean"
  <1>0. wal \in Log
    BY WInvFacts
  <1>1. CASE (WalCrash \/ FlushFails) /\ ~Flush
    <2>1. wal' \in Cut(wal, <<r>>) /\ pending' = <<>>
      BY <1>1 DEF WalCrash, FlushFails, StreamFails, NoStream
    <2> QED
      BY <1>0, <1>1, <2>1, CutOne
  <1>2. CASE Flush
    <2>1. wal' = Put(wal, <<r>>) /\ pending' = <<>>
      BY <1>2 DEF Flush
    <2>2. CASE wal.tail = "clean"
      <3>1. wal' = [wal EXCEPT !.recs = wal.recs \o <<r>>]
        BY <2>1, <2>2 DEF Put
      <3>2. wal'.recs = wal.recs \o <<r>> /\ wal'.tail = "clean"
        BY <1>0, <2>2, <3>1 DEF Log
      <3>3. wal.recs \in Seq(Record)
        BY <1>0 DEF Log
      <3> QED
        BY <2>1, <3>2, <3>3, AppendIsConcat
    <2>3. CASE wal.tail # "clean"
      <3>1. wal'.recs = wal.recs
        BY <1>0, <2>1, <2>3 DEF Put, Log
      <3> QED
        BY <2>1, <2>3, <3>1
    <2> QED
      BY <2>2, <2>3
  <1> QED
    BY <1>1, <1>2

-----------------------------------------------------------------------------
(* The steps of the abstract store *)

Same == Store' = Store /\ View' = View /\ (pc' \in UpPc <=> pc \in UpPc)

Refines == Same \/ Abstract!Next

LEMMA IsCreate ==
    ASSUME Store = <<>>, Store' = <<Header, InitImage>>, View' = View,
           pc \notin UpPc, pc' \notin UpPc
    PROVE  Refines
  <1>1. Abstract!Create
    BY DEF Abstract!Create
  <1> QED
    BY <1>1 DEF Refines, Abstract!Next

LEMMA IsStart ==
    ASSUME pc \notin UpPc, pc' \in UpPc, Store # <<>>, Store' = Store, View' = Store
    PROVE  Refines
  <1>1. Abstract!Start
    BY DEF Abstract!Start
  <1> QED
    BY <1>1 DEF Refines, Abstract!Next

LEMMA IsModify ==
    ASSUME pc \in UpPc, pc' \in UpPc, NEW p \in DOMAIN View, NEW v \in Value,
           View[p] \in Value, View' = [View EXCEPT ![p] = v], Store' = Store
    PROVE  Refines
  <1>1. Abstract!Modify(p, v)
    BY DEF Abstract!Modify
  <1> QED
    BY <1>1 DEF Refines, Abstract!Next

LEMMA IsPersist ==
    ASSUME pc \in UpPc, pc' \in UpPc, NEW p \in DOMAIN View,
           Store' = [Store EXCEPT ![p] = View[p]], View' = View
    PROVE  Refines
  <1>1. Abstract!Persist(p)
    BY DEF Abstract!Persist, Abstract!Persisted
  <1> QED
    BY <1>1 DEF Refines, Abstract!Next

LEMMA IsExtend ==
    ASSUME pc \in UpPc, pc' \in UpPc, Store' = Append(Store, Blank),
           View' = Append(View, Blank)
    PROVE  Refines
  <1>1. Abstract!Extend
    BY DEF Abstract!Extend
  <1> QED
    BY <1>1 DEF Refines, Abstract!Next

LEMMA IsInitialise ==
    ASSUME pc \in UpPc, pc' \in UpPc, NEW c \in {InitImage, Torn},
           Store[Len(Store)] = Blank, Store' = [Store EXCEPT ![Len(Store)] = c],
           View' = [View EXCEPT ![Len(View)] = c]
    PROVE  Refines
  <1>1. Abstract!Initialise(c)
    BY DEF Abstract!Initialise, Abstract!First
  <1> QED
    BY <1>1 DEF Refines, Abstract!Next

LEMMA IsStop ==
    ASSUME pc \in UpPc, pc' \notin UpPc,
           \/ Store' = Store
           \/ \E p \in DOMAIN Store : Store' = [Store EXCEPT ![p] = View[p]]
           \/ Store[Len(Store)] = Blank /\ Store' = [Store EXCEPT ![Len(Store)] = Torn]
    PROVE  Refines
  <1>1. View' = <<>>
    BY DEF View
  <1>2. Abstract!Stop
    BY <1>1 DEF Abstract!Stop, Abstract!Persisted, Abstract!First
  <1> QED
    BY <1>2 DEF Refines, Abstract!Next

-----------------------------------------------------------------------------
(* What a step does to the store and the view *)

LEMMA FileFacts ==
    ASSUME DInv, RInv, ~Fresh
    PROVE  /\ db \in Seq(Content) /\ Len(db) \in Nat /\ Len(db) >= 2
           /\ DOMAIN db = Pages /\ Pages \subseteq Page
           /\ wal.recs \in Seq(Record) /\ WInv
           /\ mem \in [Page -> Value \cup {Clean}] /\ Clean \notin Value
  <1>1. db \in Seq(Content) /\ Len(db) \in Nat /\ Len(db) >= 2 /\ Len(db) <= MaxPage
    BY WholeFacts DEF RInv
  <1>2. MaxPage \in Nat
    BY WalAssumption
  <1>3. Pages \subseteq Page
    BY <1>1, <1>2 DEF Pages, Page
  <1>4. DOMAIN db = Pages
    BY <1>1, LenProperties DEF Pages
  <1>5. WInv /\ wal.recs \in Seq(Record)
    BY WInvFacts DEF DInv, Log
  <1>6. mem \in [Page -> Value \cup {Clean}] /\ Clean \notin Value
    BY ContentFacts DEF DInv, LocalType
  <1> QED
    BY <1>1, <1>3, <1>4, <1>5, <1>6

LEMMA StoreIs ==
    /\ Fresh => Store = <<>>
    /\ ~Fresh => Store = [p \in Pages |-> Durable(p)]
    /\ pc \in UpPc => View = [p \in Pages |-> Visible(p)]
    /\ pc \notin UpPc => View = <<>>
  BY DEF Store, View, Pages

LEMMA StoreLength ==
    ASSUME DInv, RInv, ~Fresh
    PROVE  /\ DOMAIN Store = Pages /\ Len(Store) = Len(db) /\ Store # <<>>
           /\ pc \in UpPc => DOMAIN View = Pages /\ Len(View) = Len(db)
  <1>1. /\ Store = [p \in 1..Len(db) |-> Durable(p)]
        /\ pc \in UpPc => View = [p \in 1..Len(db) |-> Visible(p)]
        /\ Len(db) \in Nat /\ Len(db) >= 2
    BY StoreIs, FileFacts DEF Pages
  <1>2. Len(Store) = Len(db) /\ (pc \in UpPc => Len(View) = Len(db))
    BY <1>1
  <1>3. Store # <<>>
    BY <1>1, <1>2
  <1> QED
    BY <1>1, <1>2, <1>3 DEF Pages

\* Neither the records nor a page that is not logged change.
LEMMA StoreSame ==
    ASSUME ~Fresh, ~Fresh', Len(db') = Len(db), wal'.recs = wal.recs,
           \A p \in Pages : db'[p] = db[p] \/ Logged(p) # {}
    PROVE  /\ Store' = Store /\ Pages' = Pages
           /\ \A p \in Pages : Durable(p)' = Durable(p) /\ Logged(p)' = Logged(p)
  <1>1. Pages' = Pages
    BY DEF Pages
  <1>2. ASSUME NEW p \in Pages
        PROVE  Durable(p)' = Durable(p) /\ Logged(p)' = Logged(p)
    <2>1. Logged(p)' = Logged(p)
      BY DurableIs
    <2>2. CASE Logged(p) = {}
      BY <2>1, <2>2, DurableIs
    <2>3. CASE Logged(p) # {}
      BY <2>1, <2>3, DurableIs DEF Image
    <2> QED
      BY <2>1, <2>2, <2>3
  <1> QED
    BY <1>1, <1>2 DEF Store, Pages

\* One more record.
LEMMA StorePut ==
    ASSUME DInv, RInv, ~Fresh, ~Fresh', db' = db, NEW r \in Record, r.page \in Pages,
           wal'.recs = Append(wal.recs, r)
    PROVE  /\ Store' = [Store EXCEPT ![r.page] = r.image] /\ Pages' = Pages
           /\ Durable(r.page)' = r.image /\ Logged(r.page)' # {}
           /\ \A p \in Pages : p # r.page => Durable(p)' = Durable(p)
  <1>1. Pages' = Pages /\ wal.recs \in Seq(Record)
    BY FileFacts DEF Pages
  <1>2. /\ Logged(r.page)' # {}
        /\ \A p \in Pages : Durable(p)' = IF p = r.page THEN r.image ELSE Durable(p)
    <2>1. Logged(r.page)' = At(wal.recs, r.page) \cup {Len(wal.recs) + 1}
      BY <1>1, DurableIs, AtAppend
    <2>2. ASSUME NEW p \in Pages
          PROVE  Durable(p)' = IF p = r.page THEN r.image ELSE Durable(p)
      <3>1. /\ Durable(p)' = Image(Append(wal.recs, r), p, db[p])
            /\ Durable(p) = Image(wal.recs, p, db[p])
        BY DurableIs
      <3> QED
        BY <1>1, <3>1, ImageAppend
    <2> QED
      BY <2>1, <2>2
  <1>3. Store = [p \in Pages |-> Durable(p)] /\ Store' = [p \in Pages' |-> Durable(p)']
    BY DEF Store, Pages
  <1>4. Store' = [Store EXCEPT ![r.page] = r.image]
    BY <1>1, <1>2, <1>3
  <1> QED
    BY <1>1, <1>2, <1>4

\* The log is emptied when the file has every durable content.
LEMMA StoreEmptied ==
    ASSUME ~Fresh, ~Fresh', db' = db, wal' = EmptyLog, \A p \in Pages : db[p] = Durable(p)
    PROVE  /\ Store' = Store /\ Pages' = Pages
           /\ \A p \in Pages : Durable(p)' = db'[p]
  <1>1. Pages' = Pages /\ wal'.recs = <<>>
    BY EmptyFacts DEF Pages
  <1>2. \A p \in Pages : Durable(p)' = db'[p]
    BY <1>1, DurableIs, ImageEmpty
  <1>3. Store = [p \in Pages |-> Durable(p)] /\ Store' = [p \in Pages' |-> Durable(p)']
    BY DEF Store, Pages
  <1> QED
    BY <1>1, <1>2, <1>3

LEMMA ViewSame ==
    ASSUME pc \in UpPc, pc' \in UpPc, Len(db') = Len(db),
           \A p \in Pages : Visible(p)' = Visible(p)
    PROVE  View' = View
  <1>1. /\ Pages' = Pages
        /\ View = [p \in Pages |-> Visible(p)] /\ View' = [p \in Pages' |-> Visible(p)']
    BY DEF View, Pages
  <1> QED
    BY <1>1

\* A step of a database in service that changes no page and no record.
LEMMA Unmoved ==
    ASSUME pc \in UpPc, pc' \in UpPc, ~Fresh, db' = db, mem' = mem, wal'.recs = wal.recs
    PROVE  /\ Refines /\ Dirty' = Dirty /\ Pages' = Pages
           /\ \A p \in Pages : Durable(p)' = Durable(p) /\ Logged(p)' = Logged(p)
  <1>1. ~Fresh' /\ Dirty' = Dirty /\ \A p \in Pages : Visible(p)' = Visible(p)
    BY DEF Fresh, Dirty, Visible
  <1>2. /\ Store' = Store /\ Pages' = Pages
        /\ \A p \in Pages : Durable(p)' = Durable(p) /\ Logged(p)' = Logged(p)
    BY <1>1, StoreSame
  <1>3. View' = View
    BY <1>1, ViewSame
  <1> QED
    BY <1>1, <1>2, <1>3 DEF Refines, Same

\* Nothing is promised about a database that is not in service but its store.
LEMMA Idle ==
    ASSUME pc \notin UpPc, pc' \notin UpPc, Store' = Store
    PROVE  Refines
  BY StoreIs DEF Refines, Same, View

LEMMA IdleInv ==
    ASSUME pc' \notin UpPc \cup {"replay", "checkpoint", "open_executor"}, pending' = <<>>
    PROVE  SInv'
  <1>1. pc' \notin {"sync", "write", "init_page", "replay", "checkpoint", "open_executor"}
    BY DEF UpPc
  <1> QED
    BY <1>1 DEF SInv, Streamed, Settled

\* Between two flushes of a database in service.
LEMMA UpInv ==
    ASSUME pc' \in UpPc \ {"sync", "write", "init_page"}, pending' = <<>>,
           ~failed' => wal'.tail = "clean",
           \A p \in Pages' : p \notin Dirty' => db'[p] = Durable(p)'
    PROVE  SInv'
  <1>1. pc' \notin {"replay", "checkpoint", "open_executor"}
    BY DEF UpPc
  <1>2. Streamed'
    BY DEF Streamed
  <1>3. Settled'
    BY <1>1 DEF Settled
  <1> QED
    BY <1>2, <1>3 DEF SInv

-----------------------------------------------------------------------------
(* Creation and recovery *)

LEMMA StoreInit == Init => SInv /\ Abstract!Init
  <1> SUFFICES ASSUME Init PROVE SInv /\ Abstract!Init
    OBVIOUS
  <1>1. pc = "down" /\ pending = <<>> /\ Fresh
    BY DEF Init, Fresh
  <1>2. Streamed /\ Settled
    BY <1>1 DEF Streamed, Settled, UpPc
  <1>3. Store = <<>> /\ View = <<>> /\ pc \notin UpPc
    BY <1>1, StoreIs DEF UpPc
  <1> QED
    BY <1>2, <1>3 DEF SInv, Abstract!Init

\* Without a file, whatever happens to the log or the temporary file.
LEMMA NoStore ==
    ASSUME pc \notin UpPc, Fresh, Fresh', pending' = <<>>,
           pc' \notin UpPc \cup {"replay", "checkpoint", "open_executor"}
    PROVE  SInv' /\ Refines
  <1>1. Store' = Store
    BY DEF Store
  <1> QED
    BY <1>1, Idle, IdleInv

LEMMA CreationRefines == ASSUME DInv, RInv, SInv, Creation PROVE SInv' /\ Refines
  <1>0. pc \in BuildPc /\ Fresh /\ pc \notin UpPc /\ pending = <<>>
    <2>1. pc \in BuildPc
      BY DEF Creation, CreateTemp, AllocateHeader, AllocateCatalog, InitCatalogPage,
             WriteHeader, Build, DropStaleWal, RemovePlaceholder, Publish, BuildPc
    <2>2. pc \notin UpPc /\ pc # "sync"
      BY <2>1 DEF BuildPc, UpPc
    <2> QED
      BY <2>1, <2>2 DEF DInv, Control, SInv, Streamed
  <1>1. CASE ~Publish
    <2>1. /\ pc' \in BuildPc /\ pending' = pending
          /\ db' = db \/ db' = NoFile
      BY <1>1 DEF Creation, CreateTemp, AllocateHeader, AllocateCatalog, InitCatalogPage,
                  WriteHeader, Build, DropStaleWal, RemovePlaceholder, BuildPc, walVars,
                  streamVars, fileVars
    <2>2. Fresh' /\ pc' \notin UpPc \cup {"replay", "checkpoint", "open_executor"}
      BY <1>0, <2>1 DEF Fresh, BuildPc, UpPc
    <2> QED
      BY <1>0, <2>1, <2>2, NoStore
  <1>2. CASE Publish
    <2>1. /\ pc = "publish" /\ pc' = "open_storage" /\ db' = tmp /\ UNCHANGED walVars
      BY <1>2 DEF Publish
    <2>2. db' = <<Header, InitImage>> /\ wal' = EmptyLog /\ pending' = <<>>
      BY <1>0, <2>1 DEF RInv, Created, walVars
    <2>3. Len(db') = 2 /\ db'[1] = Header /\ db'[2] = InitImage /\ ~Fresh'
      <3>1. db' \in Seq(Content) /\ Len(db') = 2 /\ db'[1] = Header /\ db'[2] = InitImage
        BY <2>2, ImageFacts
      <3> QED
        BY <3>1, NotFresh DEF Fresh
    <2>4. Durable(1)' = Header /\ Durable(2)' = InitImage
      <3>1. wal'.recs = <<>>
        BY <2>2, EmptyFacts
      <3> QED
        BY <2>3, <3>1, DurableIs, ImageEmpty
    <2>5. Store' = <<Header, InitImage>>
      <3>1. Store' = [p \in 1..2 |-> Durable(p)']
        BY <2>3 DEF Store
      <3> QED
        BY <2>4, <3>1
    <2>6. pc' \notin UpPc \cup {"replay", "checkpoint", "open_executor"}
      BY <2>1 DEF UpPc
    <2>7. Store = <<>> /\ View' = View
      BY <1>0, <2>6 DEF Store, View
    <2> QED
      BY <1>0, <2>2, <2>5, <2>6, <2>7, IsCreate, IdleInv
  <1> QED
    BY <1>1, <1>2

\* Open goes on or gives up, with the records and the file as they are.
LEMMA OpenRests ==
    ASSUME pc \notin UpPc, ~Fresh, db' = db, wal'.recs = wal.recs, pending' = <<>>,
           pc' \notin UpPc \cup {"replay", "checkpoint", "open_executor"}
    PROVE  SInv' /\ Refines
  <1>1. ~Fresh'
    BY DEF Fresh
  <1>2. Store' = Store
    BY <1>1, StoreSame
  <1> QED
    BY <1>2, Idle, IdleInv

LEMMA OpenFacts ==
    ASSUME DInv, RInv, SInv, pc \in OpenPc
    PROVE  pc \notin UpPc /\ ~Fresh /\ pending = <<>> /\ WInv
  <1>1. pc \notin UpPc /\ pc # "sync"
    BY DEF OpenPc, UpPc
  <1> QED
    BY <1>1 DEF RInv, Opened, SInv, Streamed, DInv

LEMMA OpenFailsRefines ==
    ASSUME DInv, RInv, SInv, pc \in OpenPc, OpenFails, UNCHANGED db
    PROVE  SInv' /\ Refines
  <1>1. pc' = "down" /\ (WalClose \/ UNCHANGED walVars)
    BY DEF OpenFails, Discarded
  <1>2. wal'.recs = wal.recs /\ pending' = <<>>
    BY <1>1, OpenFacts, RecordsStay
  <1>3. pc' \notin UpPc \cup {"replay", "checkpoint", "open_executor"}
    BY <1>1 DEF UpPc
  <1> QED
    BY <1>2, <1>3, OpenFacts, OpenRests

\* The page of a record keeps its durable content whatever the file gets, and gets
\* it when the record is its last.
LEMMA ReplayRefines ==
    ASSUME DInv, RInv, SInv, Replay, ~(OpenFails /\ UNCHANGED db)
    PROVE  SInv' /\ Refines
  <1> DEFINE r == wal.recs[k]
  <1>1. /\ pc = "replay" /\ pc' = pc /\ k <= Len(wal.recs) /\ k' = k + 1
        /\ db' = [db EXCEPT ![r.page] = r.image]
        /\ UNCHANGED <<walVars, mem>>
    BY DEF Replay
  <1>2. /\ pc \in OpenPc /\ pc \notin UpPc /\ ~Fresh /\ pending = <<>>
        /\ wal' = wal /\ pending' = <<>>
    BY <1>1, OpenFacts DEF OpenPc, walVars
  <1>3. k \in 1..Len(wal.recs) /\ Len(wal.recs) \in Nat
    <2>1. k \in 1..(MaxLsn + 1)
      BY DEF DInv, LocalType
    <2> QED
      BY <1>1, <2>1, LsnBound, WInvFacts DEF DInv
  <1>4. r.page \in 2..Len(db) /\ r.image \in Value /\ Len(db) \in Nat
    BY <1>2, <1>3, LoggedPage, FileFacts DEF RInv
  <1>5. k \in Logged(r.page)
    BY <1>3 DEF Logged
  <1> HIDE DEF r
  <1>6. /\ db' \in Seq(Content) /\ Len(db') = Len(db)
        /\ \A q \in Pages : q # r.page => db'[q] = db[q]
        /\ db'[r.page] = r.image
    <2>1. r.image \in Content /\ r.page \in 1..Len(db) /\ db \in Seq(Content)
      BY <1>2, <1>4, ContentFacts, FileFacts
    <2> QED
      BY <1>1, <2>1, WrittenPage DEF Pages
  <1>7. ~Fresh'
    BY <1>2, <1>6, FileFacts, NotFresh DEF Fresh
  <1>8. /\ Store' = Store /\ Pages' = Pages
        /\ \A p \in Pages : Durable(p)' = Durable(p) /\ Logged(p)' = Logged(p)
    <2>1. \A p \in Pages : db'[p] = db[p] \/ Logged(p) # {}
      BY <1>5, <1>6
    <2> QED
      BY <1>2, <1>6, <1>7, <2>1, StoreSame
  <1>9. ASSUME NEW p \in Pages, Logged(p)' \cap (k'..Len(wal'.recs)) = {}
        PROVE  db'[p] = Durable(p)'
    <2>1. Logged(p) \cap ((k + 1)..Len(wal.recs)) = {}
      BY <1>1, <1>2, <1>8, <1>9
    <2>2. CASE p = r.page
      <3>1. \A j \in Logged(p) : j <= k
        BY <1>3, <2>1 DEF Logged
      <3>2. Durable(p) = r.image
        BY <1>2, <1>5, <2>2, <3>1, FileFacts, DurableIs, ImageLast DEF r
      <3> QED
        BY <1>6, <1>8, <2>2, <3>2
    <2>3. CASE p # r.page
      <3>1. k \notin Logged(p)
        BY <2>3 DEF Logged, r
      <3>2. Logged(p) \cap (k..Len(wal.recs)) = {}
        BY <1>3, <2>1, <3>1 DEF Logged
      <3>3. db[p] = Durable(p)
        BY <1>1, <3>2 DEF SInv, Settled
      <3> QED
        BY <1>6, <1>8, <2>3, <3>3
    <2> QED
      BY <2>2, <2>3
  <1>10. SInv'
    <2>1. pc' = "replay" /\ pc' \notin UpPc
      BY <1>1, <1>2
    <2>2. Settled'
      BY <1>8, <1>9, <2>1 DEF Settled
    <2>3. Streamed'
      BY <1>2, <2>1 DEF Streamed
    <2> QED
      BY <2>2, <2>3 DEF SInv
  <1> QED
    BY <1>1, <1>2, <1>8, <1>10, Idle

LEMMA OpeningRefines == ASSUME DInv, RInv, SInv, Opening PROVE SInv' /\ Refines
  <1>1. CASE BeginOpen
    <2>1. /\ pc = "down" /\ pc' \in {"create_temp", "open_storage"}
          /\ UNCHANGED <<walVars, db>>
      BY <1>1 DEF BeginOpen
    <2>2. /\ pc \notin UpPc /\ pc' \notin UpPc \cup {"replay", "checkpoint", "open_executor"}
          /\ pending' = <<>> /\ wal'.recs = wal.recs
      BY <2>1 DEF UpPc, SInv, Streamed, walVars
    <2>3. CASE Fresh
      <3>1. Fresh'
        BY <2>1, <2>3 DEF Fresh
      <3> QED
        BY <2>2, <2>3, <3>1, NoStore
    <2>4. CASE ~Fresh
      BY <2>1, <2>2, <2>4, OpenRests
    <2> QED
      BY <2>3, <2>4
  <1>2. CASE ~BeginOpen
    <2>1. pc \in OpenPc
      BY <1>2 DEF Opening, OpenStorage, OpenWal, ReadHeader, Replay, RecoveryDone, Checkpoint,
                  OpenExecutor, OpenPc
    <2>2. pc \notin UpPc /\ ~Fresh /\ pending = <<>> /\ WInv
      BY <2>1, OpenFacts
    <2>3. CASE OpenFails /\ UNCHANGED db
      BY <2>1, <2>3, OpenFailsRefines
    <2>4. CASE Replay /\ ~(OpenFails /\ UNCHANGED db)
      BY <2>4, ReplayRefines
    <2>5. CASE (OpenStorage \/ OpenWal) /\ ~(OpenFails /\ UNCHANGED db)
      <3>1. /\ pc' \in {"open_wal", "read_header"}
            /\ UNCHANGED <<wal, pending, db>>
        BY <2>5 DEF OpenStorage, OpenWal, WalOpen, walVars
      <3>2. pc' \notin UpPc \cup {"replay", "checkpoint", "open_executor"}
        BY <3>1 DEF UpPc
      <3> QED
        BY <2>2, <3>1, <3>2, OpenRests
    <2>6. CASE ReadHeader /\ ~(OpenFails /\ UNCHANGED db)
      <3>1. /\ pc = "read_header" /\ pc' = "replay" /\ UNCHANGED <<walVars, db, memVars>>
        BY <2>6 DEF ReadHeader
      <3>2. ~Fresh' /\ k' = 1 /\ pc' \notin UpPc /\ pending' = <<>>
        BY <2>2, <3>1 DEF Fresh, RInv, Opened, UpPc, walVars, memVars
      <3>3. /\ Store' = Store /\ Pages' = Pages /\ wal' = wal
            /\ \A p \in Pages : Durable(p)' = Durable(p) /\ Logged(p)' = Logged(p)
        BY <2>2, <3>1, <3>2, StoreSame DEF walVars
      <3>4. ASSUME NEW p \in Pages, Logged(p)' \cap (k'..Len(wal'.recs)) = {}
            PROVE  db'[p] = Durable(p)'
        <4>1. At(wal.recs, p) = {}
          BY <3>2, <3>3, <3>4, DurableIs DEF At
        <4>2. Durable(p) = db[p]
          BY <4>1, DurableIs DEF Image
        <4> QED
          BY <3>1, <3>3, <4>2
      <3>5. SInv'
        BY <3>1, <3>2, <3>3, <3>4 DEF SInv, Settled, Streamed
      <3> QED
        BY <2>2, <3>2, <3>3, <3>5, Idle
    <2>7. CASE RecoveryDone
      <3>1. /\ pc = "replay" /\ pc' = "checkpoint" /\ k = Len(wal.recs) + 1
            /\ UNCHANGED <<walVars, db>>
        BY <2>7 DEF RecoveryDone, fileVars
      <3>2. ~Fresh' /\ pc' \notin UpPc /\ pending' = <<>>
        BY <2>2, <3>1 DEF Fresh, UpPc, walVars
      <3>3. /\ Store' = Store /\ Pages' = Pages
            /\ \A p \in Pages : Durable(p)' = Durable(p)
        BY <2>2, <3>1, <3>2, StoreSame DEF walVars
      <3>4. \A p \in Pages : db[p] = Durable(p)
        <4>1. Len(wal.recs) \in Nat
          BY <2>2, WInvFacts
        <4>2. k..Len(wal.recs) = {}
          BY <3>1, <4>1
        <4> QED
          BY <3>1, <4>2 DEF SInv, Settled
      <3>5. SInv'
        BY <3>1, <3>2, <3>3, <3>4 DEF SInv, Settled, Streamed
      <3> QED
        BY <2>2, <3>2, <3>3, <3>5, Idle
    <2>8. CASE Checkpoint
      <3>1. /\ pc = "checkpoint" /\ pc' = "open_executor" /\ UNCHANGED db
            /\ wal' = EmptyLog /\ pending' = <<>>
        BY <2>8 DEF Checkpoint, WalReset, fileVars
      <3>2. ~Fresh' /\ pc' \notin UpPc
        BY <2>2, <3>1 DEF Fresh, UpPc
      <3>3. \A p \in Pages : db[p] = Durable(p)
        BY <3>1 DEF SInv, Settled
      <3>4. Store' = Store
        BY <2>2, <3>1, <3>2, <3>3, StoreEmptied
      <3>5. SInv'
        BY <3>1, <3>2 DEF SInv, Settled, Streamed
      <3> QED
        BY <2>2, <3>2, <3>4, <3>5, Idle
    <2>9. CASE OpenExecutor /\ ~(OpenFails /\ UNCHANGED db)
      <3>1. /\ pc = "open_executor" /\ pc' = "serving"
            /\ UNCHANGED <<walVars, db, memVars>>
        BY <2>9 DEF OpenExecutor
      <3>2. /\ ~Fresh' /\ pc' \in UpPc \ {"sync", "write", "init_page"} /\ pending' = <<>>
            /\ Dirty' = {}
        BY <2>2, <3>1 DEF Fresh, UpPc, walVars, memVars, Dirty, RInv, Pooled
      <3>3. wal = EmptyLog /\ wal' = EmptyLog
        BY <3>1 DEF SInv, Settled, walVars
      <3>4. /\ Store' = Store /\ Pages' = Pages
            /\ \A p \in Pages : Durable(p)' = Durable(p)
        BY <2>2, <3>1, <3>2, StoreSame DEF walVars
      <3>5. \A p \in Pages : Durable(p) = db[p]
        BY <3>3, EmptyFacts, DurableIs, ImageEmpty
      <3>6. wal'.tail = "clean"
        BY <3>3, EmptyFacts
      <3>7. SInv'
        BY <3>1, <3>2, <3>4, <3>5, <3>6, UpInv
      <3>8. View' = Store /\ Store # <<>>
        <4>1. View' = [p \in Pages' |-> Visible(p)']
          BY <3>2 DEF View, Pages
        <4>2. Store = [p \in Pages |-> Durable(p)] /\ Pages \subseteq Page /\ Store # <<>>
          BY <2>2, StoreIs, FileFacts, StoreLength
        <4>3. \A p \in Pages : Visible(p)' = db[p]
          BY <3>1, <3>2, <4>2 DEF Dirty, Visible
        <4> QED
          BY <3>4, <3>5, <4>1, <4>2, <4>3
      <3> QED
        BY <2>2, <3>2, <3>4, <3>7, <3>8, IsStart
    <2> QED
      BY <1>2, <2>3, <2>4, <2>5, <2>6, <2>7, <2>8, <2>9 DEF Opening
  <1> QED
    BY <1>1, <1>2

-----------------------------------------------------------------------------
(* Service *)

LEMMA Serving ==
    ASSUME DInv, RInv, SInv, pc \in UpPc
    PROVE  /\ ~Fresh /\ WInv
           /\ db \in Seq(Content) /\ Len(db) \in Nat /\ Len(db) >= 2
           /\ DOMAIN db = Pages /\ Pages \subseteq Page /\ Dirty \subseteq Pages
           /\ mem \in [Page -> Value \cup {Clean}] /\ Clean \notin Value
           /\ \A p \in Pages : p \notin Dirty => db[p] = Durable(p)
           /\ \A p \in Pages : Visible(p) = IF p \in Dirty THEN mem[p] ELSE db[p]
           /\ ~failed => wal.tail = "clean"
           /\ pc # "sync" => pending = <<>>
  <1>1. ~Fresh /\ WInv /\ Dirty \subseteq 2..Len(db)
    BY InService
  <1>2. /\ db \in Seq(Content) /\ Len(db) \in Nat /\ Len(db) >= 2
        /\ DOMAIN db = Pages /\ Pages \subseteq Page
        /\ mem \in [Page -> Value \cup {Clean}] /\ Clean \notin Value
    BY <1>1, FileFacts
  <1>3. Dirty \subseteq Pages
    BY <1>1, <1>2 DEF Pages
  <1>4. /\ \A p \in Pages : p \notin Dirty => db[p] = Durable(p)
        /\ ~failed => wal.tail = "clean"
        /\ pc # "sync" => pending = <<>>
    BY DEF SInv, Streamed, Settled
  <1>5. \A p \in Pages : Visible(p) = IF p \in Dirty THEN mem[p] ELSE db[p]
    BY <1>2 DEF Visible, Dirty
  <1> QED
    BY <1>1, <1>2, <1>3, <1>4, <1>5

\* The step changes no page, no record and leaves nothing in the buffer.
LEMMA Rests ==
    ASSUME DInv, RInv, SInv, pc \in UpPc, pc' \in UpPc \ {"sync", "write", "init_page"},
           db' = db, mem' = mem, wal'.recs = wal.recs, pending' = <<>>,
           ~failed' => wal'.tail = "clean"
    PROVE  SInv' /\ Refines
  BY Serving, Unmoved, UpInv

\* The process ends and takes the pool with it.
LEMMA Stops ==
    ASSUME DInv, RInv, SInv, pc \in UpPc, Discarded, db' = db, wal'.recs = wal.recs,
           pending' = <<>>
    PROVE  SInv' /\ Refines
  <1>1. pc' = "down" /\ ~Fresh /\ ~Fresh'
    BY Serving DEF Discarded, Fresh
  <1>2. Store' = Store
    BY <1>1, StoreSame
  <1>3. pc' \notin UpPc \cup {"replay", "checkpoint", "open_executor"}
    BY <1>1 DEF UpPc
  <1> QED
    BY <1>2, <1>3, IsStop, IdleInv

LEMMA ModifyRefines ==
    ASSUME DInv, RInv, SInv, NEW p \in Page, NEW v \in Value, Modify(p, v)
    PROVE  SInv' /\ Refines
  <1>1. /\ pc = "serving" /\ pc' = pc /\ p \in DOMAIN db /\ Visible(p) \in Value
        /\ mem' = [mem EXCEPT ![p] = v]
        /\ UNCHANGED <<walVars, db>>
    BY DEF Modify, fileVars
  <1>2. pc \in UpPc /\ pc' \in UpPc \ {"sync", "write", "init_page"}
    BY <1>1 DEF UpPc
  <1>3. /\ ~Fresh /\ p \in Pages /\ Pages \subseteq Page
        /\ mem \in [Page -> Value \cup {Clean}] /\ Clean \notin Value
    BY <1>1, <1>2, Serving
  <1>4. /\ Dirty' = Dirty \cup {p}
        /\ \A q \in Pages : Visible(q)' = IF q = p THEN v ELSE Visible(q)
    BY <1>1, <1>3 DEF Dirty, Visible
  <1>5. ~Fresh'
    BY <1>1, <1>3 DEF Fresh
  <1>6. /\ Store' = Store /\ Pages' = Pages
        /\ \A q \in Pages : Durable(q)' = Durable(q)
    BY <1>1, <1>3, <1>5, StoreSame DEF walVars
  <1>7. /\ View = [q \in Pages |-> Visible(q)] /\ View' = [q \in Pages' |-> Visible(q)']
    BY <1>2 DEF View, Pages
  <1>8. View' = [View EXCEPT ![p] = v] /\ View[p] \in Value /\ p \in DOMAIN View
    BY <1>1, <1>3, <1>4, <1>6, <1>7
  <1>9. SInv'
    <2>1. pending' = <<>> /\ (~failed' => wal'.tail = "clean")
      BY <1>1, <1>2, Serving DEF walVars
    <2>2. \A q \in Pages' : q \notin Dirty' => db'[q] = Durable(q)'
      BY <1>1, <1>2, <1>4, <1>6, Serving
    <2> QED
      BY <1>2, <2>1, <2>2, UpInv
  <1> QED
    BY <1>2, <1>6, <1>8, <1>9, IsModify

\* A sequence that agrees with another and has one element more.
LEMMA OneMore ==
    ASSUME NEW n \in Nat, NEW f, NEW g, NEW x, f = [i \in 1..n |-> f[i]],
           g = [i \in 1..(n + 1) |-> g[i]], \A i \in 1..n : g[i] = f[i], g[n + 1] = x
    PROVE  g = Append(f, x)
  <1> DEFINE S == {f[i] : i \in 1..n} \cup {x}
  <1>1. f \in [1..n -> S] /\ x \in S
    OBVIOUS
  <1> HIDE DEF S
  <1>2. f \in Seq(S) /\ Len(f) = n
    <2>1. f \in Seq(S)
      BY <1>1, FunctionIsSeq
    <2>2. DOMAIN f = 1..n /\ DOMAIN f = 1..Len(f) /\ Len(f) \in Nat
      BY <1>1, <2>1, LenProperties
    <2> QED
      BY <2>1, <2>2
  <1>3. /\ Append(f, x) \in Seq(S) /\ Len(Append(f, x)) = n + 1
        /\ \A i \in 1..n : Append(f, x)[i] = f[i]
        /\ Append(f, x)[n + 1] = x
    BY <1>1, <1>2, AppendProperties
  <1>4. Append(f, x) = [i \in 1..(n + 1) |-> Append(f, x)[i]]
    BY <1>3, LenProperties
  <1>5. ASSUME NEW i \in 1..(n + 1) PROVE Append(f, x)[i] = g[i]
    <2>1. i \in 1..n \/ i = n + 1
      OBVIOUS
    <2> QED
      BY <1>3, <2>1
  <1> QED
    BY <1>4, <1>5

\* The log has nothing for a page that is new.
LEMMA AllocateRefines == ASSUME DInv, RInv, SInv, AllocatePage PROVE SInv' /\ Refines
  <1>1. /\ pc = "serving" /\ pc' = "init_page" /\ db' = Append(db, Blank)
        /\ UNCHANGED <<walVars, mem>> /\ Len(db) < MaxPage
    BY DEF AllocatePage, memVars
  <1>2. pc \in UpPc /\ pc' \in UpPc /\ MaxPage \in Nat
    BY <1>1, WalAssumption DEF UpPc
  <1>3. /\ ~Fresh /\ Len(db) \in Nat /\ db \in Seq(Content) /\ Dirty \subseteq Pages
        /\ Pages = 1..Len(db)
    BY <1>2, Serving DEF Pages
  <1>0. PICK n : n = Len(db) + 1
    OBVIOUS
  <1>4. /\ db' \in Seq(Content) /\ Len(db') = n /\ db'[n] = Blank
        /\ \A p \in Pages : db'[p] = db[p]
    BY <1>0, <1>1, <1>3, ContentFacts, AppendProperties
  <1>5. ~Fresh' /\ Pages' = 1..n
    <2>1. Len(db') >= 2
      BY <1>0, <1>2, <1>3, <1>4, Serving
    <2> QED
      BY <1>4, <2>1, NotFresh DEF Fresh, Pages
  <1>6. n \notin Dirty /\ Dirty' = Dirty /\ n \in Page
    BY <1>0, <1>1, <1>2, <1>3 DEF Dirty, Page
  <1>7. Logged(n) = {}
    <2>1. PagesOf(wal.recs) \subseteq 2..Len(db)
      BY <1>3 DEF RInv, Whole
    <2> QED
      BY <1>0, <1>3, <2>1 DEF PagesOf, Logged
  <1>8. /\ \A p \in Pages : Durable(p)' = Durable(p)
        /\ Durable(n)' = Blank /\ Logged(n)' = {}
    BY <1>1, <1>4, <1>7, DurableIs DEF walVars, Image
  <1>9. Store = [p \in 1..Len(db) |-> Durable(p)] /\ Store' = [p \in 1..n |-> Durable(p)']
    BY <1>3, <1>4, <1>5 DEF Store
  <1>10. Store' = Append(Store, Blank)
    <2>1. /\ Store = [p \in 1..Len(db) |-> Store[p]] /\ Store' = [p \in 1..n |-> Store'[p]]
          /\ \A p \in 1..Len(db) : Store'[p] = Store[p]
          /\ Store'[n] = Blank
      BY <1>0, <1>3, <1>8, <1>9
    <2> QED
      BY <1>0, <1>3, <2>1, OneMore
  <1>11. /\ \A p \in Pages : Visible(p)' = Visible(p)
         /\ Visible(n)' = Blank
    BY <1>1, <1>4, <1>6 DEF Visible, Dirty
  <1>12. View = [p \in 1..Len(db) |-> Visible(p)] /\ View' = [p \in 1..n |-> Visible(p)']
    BY <1>2, <1>4 DEF View
  <1>13. View' = Append(View, Blank)
    <2>1. /\ View = [p \in 1..Len(db) |-> View[p]] /\ View' = [p \in 1..n |-> View'[p]]
          /\ \A p \in 1..Len(db) : View'[p] = View[p]
          /\ View'[n] = Blank
      BY <1>0, <1>3, <1>11, <1>12
    <2> QED
      BY <1>0, <1>3, <2>1, OneMore
  <1>14. SInv'
    <2>1. pending' = <<>> /\ (~failed' => wal'.tail = "clean")
      BY <1>1, <1>2, Serving DEF walVars
    <2>2. ASSUME NEW p \in Pages', p \notin Dirty' PROVE db'[p] = Durable(p)'
      <3>1. p \in Pages \/ p = n
        BY <1>0, <1>3, <1>5
      <3> QED
        BY <1>2, <1>4, <1>6, <1>8, <2>2, <3>1, Serving
    <2>3. Streamed'
      BY <1>1, <2>1 DEF Streamed
    <2>4. Settled'
      <3>1. /\ Len(db') \notin Dirty' /\ db'[Len(db')] = Blank
            /\ Logged(Len(db))' = {}
        BY <1>4, <1>6, <1>8
      <3>2. \A p \in (Pages \ Dirty)' : db'[p] = Durable(p)'
        BY <2>2
      <3> QED
        BY <1>1, <3>1, <3>2 DEF Settled
    <2> QED
      BY <2>3, <2>4 DEF SInv
  <1> QED
    BY <1>2, <1>10, <1>13, <1>14, IsExtend

\* The first content of a page goes straight to the file.
LEMMA FirstContent ==
    ASSUME DInv, RInv, SInv, pc = "init_page", NEW c \in {InitImage, Torn},
           db' = [db EXCEPT ![Len(db)] = c], wal'.recs = wal.recs
    PROVE  /\ ~Fresh' /\ Pages' = Pages /\ Len(db) \in Pages
           /\ Store[Len(Store)] = Blank /\ Store' = [Store EXCEPT ![Len(Store)] = c]
           /\ \A p \in Pages : p # Len(db) => db'[p] = db[p]
           /\ db'[Len(db)] = c /\ Len(db') = Len(db) /\ Len(Store) = Len(db)
           /\ \A p \in Pages : p \notin Dirty => db'[p] = Durable(p)'
  <1>1. pc \in UpPc
    BY DEF UpPc
  <1>2. /\ ~Fresh /\ Len(db) \in Nat /\ Len(db) >= 2 /\ db \in Seq(Content)
        /\ Pages = 1..Len(db) /\ Len(Store) = Len(db)
        /\ \A p \in Pages : p \notin Dirty => db[p] = Durable(p)
    BY <1>1, Serving, StoreLength DEF Pages
  <1>3. Len(db) \notin Dirty /\ Logged(Len(db)) = {} /\ db[Len(db)] = Blank
    BY DEF SInv, Settled
  <1>4. /\ db' \in Seq(Content) /\ Len(db') = Len(db) /\ db'[Len(db)] = c
        /\ \A p \in Pages : p # Len(db) => db'[p] = db[p]
    <2>1. c \in Content /\ Len(db) \in 1..Len(db)
      BY <1>2, ContentFacts
    <2> QED
      BY <1>2, <2>1, WrittenPage
  <1>5. ~Fresh' /\ Pages' = Pages
    BY <1>2, <1>4, NotFresh DEF Fresh, Pages
  <1>6. PICK n : n = Len(db)
    OBVIOUS
  <1>7. /\ \A p \in Pages : Durable(p)' = IF p = n THEN c ELSE Durable(p)
        /\ Durable(n) = Blank
    <2>1. At(wal.recs, n) = {} /\ At(wal'.recs, n) = {}
      BY <1>3, <1>6, DurableIs
    <2>2. Durable(n) = db[n] /\ Durable(n)' = db'[n]
      BY <2>1, DurableIs DEF Image
    <2>3. ASSUME NEW p \in Pages, p # n PROVE Durable(p)' = Durable(p)
      BY <1>4, <1>6, <2>3, DurableIs
    <2> QED
      BY <1>3, <1>4, <1>6, <2>2, <2>3
  <1>8. Store = [p \in Pages |-> Durable(p)] /\ Store' = [p \in Pages' |-> Durable(p)']
    BY <1>2, <1>5 DEF Store, Pages
  <1>9. n \in Pages /\ Store[n] = Blank /\ Store' = [Store EXCEPT ![n] = c]
    <2>1. n \in Pages
      BY <1>2, <1>6
    <2> QED
      BY <1>5, <1>7, <1>8, <2>1
  <1>10. \A p \in Pages : p \notin Dirty => db'[p] = Durable(p)'
    BY <1>2, <1>4, <1>6, <1>7
  <1> QED
    BY <1>2, <1>4, <1>5, <1>6, <1>9, <1>10

LEMMA InitPageRefines == ASSUME DInv, RInv, SInv, InitPage PROVE SInv' /\ Refines
  <1>1. pc = "init_page" /\ pc' = "serving" /\ UNCHANGED <<walVars, mem>>
    BY DEF InitPage, memVars
  <1>2. pc \in UpPc /\ pc' \in UpPc \ {"sync", "write", "init_page"}
    BY <1>1 DEF UpPc
  <1>3. pending' = <<>> /\ (~failed' => wal'.tail = "clean") /\ wal' = wal
    BY <1>1, <1>2, Serving DEF walVars
  <1>4. CASE db' = db
    BY <1>1, <1>2, <1>3, <1>4, Rests
  <1>5. ASSUME NEW c \in {InitImage, Torn}, db' = [db EXCEPT ![Len(db)] = c]
        PROVE  SInv' /\ Refines
    <2>1. /\ Pages' = Pages /\ Len(db) \in Pages
          /\ Store[Len(Store)] = Blank /\ Store' = [Store EXCEPT ![Len(Store)] = c]
          /\ \A p \in Pages : p # Len(db) => db'[p] = db[p]
          /\ db'[Len(db)] = c
          /\ \A p \in Pages : p \notin Dirty => db'[p] = Durable(p)'
      BY <1>1, <1>3, <1>5, FirstContent
    <2>2. Dirty' = Dirty
      BY <1>1 DEF Dirty
    <2>3. SInv'
      BY <1>2, <1>3, <2>1, <2>2, UpInv
    <2>4. PICK n : n = Len(db)
      OBVIOUS
    <2>5. n \notin Dirty /\ n \in Page /\ n \in Pages
      BY <1>1, <1>2, <2>1, <2>4, Serving DEF SInv, Settled
    <2>6. \A p \in Pages : Visible(p)' = IF p = n THEN c ELSE Visible(p)
      BY <1>1, <2>1, <2>4, <2>5 DEF Visible, Dirty
    <2>7. /\ View = [p \in Pages |-> Visible(p)] /\ View' = [p \in Pages' |-> Visible(p)']
          /\ Len(View) = n
      BY <1>2, <2>4, Serving, StoreLength DEF View, Pages
    <2>8. View' = [View EXCEPT ![Len(View)] = c]
      BY <2>1, <2>5, <2>6, <2>7
    <2> QED
      BY <1>2, <2>1, <2>3, <2>8, IsInitialise
  <1> QED
    BY <1>4, <1>5 DEF InitPage

LEMMA BeginRefines ==
    ASSUME DInv, RInv, SInv,
           \/ \E p \in Page : BeginFlush(p)
           \/ \E why \in {"close", "exit"} : BeginFlushAll(why)
           \/ FlushNext
    PROVE  SInv' /\ Refines
  <1>1. /\ pc \in {"serving", "half_closed", "next"} /\ pc' \in {"next", "append"}
        /\ UNCHANGED <<walVars, db, mem>>
    BY DEF BeginFlush, BeginFlushAll, FlushNext, fileVars
  <1>2. pc \in UpPc /\ pc' \in UpPc \ {"sync", "write", "init_page"} /\ pc # "sync"
    BY <1>1 DEF UpPc
  <1>3. pending' = <<>> /\ (~failed' => wal'.tail = "clean") /\ wal' = wal
    BY <1>1, <1>2, Serving DEF walVars
  <1> QED
    BY <1>1, <1>2, <1>3, Rests

LEMMA LogAppendRefines == ASSUME DInv, RInv, SInv, LogAppend PROVE SInv' /\ Refines
  <1>1. pc = "append" /\ pc \in UpPc /\ pc \in FlushPc
    BY DEF LogAppend, UpPc, FlushPc
  <1>2. cur \in Page /\ mem[cur] \in Value /\ WInv /\ pending = <<>> /\ ~Fresh
    BY <1>1, Flushing, Serving
  <1>3. CASE AppendPageImage(cur, mem[cur]) /\ pc' = "sync" /\ UNCHANGED <<fileVars, memVars>>
    <2> DEFINE r == [lsn |-> next_lsn, page |-> cur, image |-> mem[cur]]
    <2>1. /\ ~failed /\ ~failed' /\ wal' = wal /\ next_lsn <= MaxLsn
          /\ pending' = Append(pending, r)
          /\ UNCHANGED <<db, mem, cur>>
      BY <1>3 DEF AppendPageImage, fileVars, memVars
    <2>2. r \in Record /\ r.page = cur' /\ r.image = mem'[cur']
      BY <1>2, <2>1, WInvFacts DEF Record
    <2>3. pending' = <<r>>
      BY <1>2, <2>1
    <2> HIDE DEF r
    <2>4. pc' \in UpPc /\ pc' \notin {"replay", "checkpoint", "open_executor"}
      BY <1>3 DEF UpPc
    <2>5. /\ Refines /\ Dirty' = Dirty /\ Pages' = Pages
          /\ \A p \in Pages : Durable(p)' = Durable(p) /\ Logged(p)' = Logged(p)
      BY <1>1, <1>2, <2>1, <2>4, Unmoved
    <2>6. wal'.tail = "clean"
      BY <1>1, <2>1, Serving
    <2>7. Streamed'
      BY <1>3, <2>1, <2>2, <2>3, <2>6 DEF Streamed
    <2>8. \A p \in Pages \ Dirty : db[p] = Durable(p)
      BY <1>1, Serving
    <2>9. Settled'
      BY <1>3, <2>1, <2>4, <2>5, <2>8 DEF Settled
    <2> QED
      BY <2>5, <2>7, <2>9 DEF SInv
  <1>4. CASE /\ AppendFails(cur, mem[cur]) \/ (failed /\ UNCHANGED walVars)
             /\ FlushFrameFails /\ UNCHANGED db
    <2>1. wal'.recs = wal.recs /\ pending' = <<>>
      BY <1>2, <1>4, RecordsStay
    <2>2. failed' /\ pc' = "next" /\ mem' = mem
      BY <1>4 DEF AppendFails, StreamFails, walVars, FlushFrameFails
    <2>3. pc' \in UpPc \ {"sync", "write", "init_page"}
      BY <2>2 DEF UpPc
    <2> QED
      BY <1>1, <1>4, <2>1, <2>2, <2>3, Rests
  <1> QED
    BY <1>3, <1>4 DEF LogAppend

\* The image of the page at hand becomes readable.
LEMMA Persists ==
    ASSUME DInv, RInv, SInv, pc = "sync", NEW r \in Record, pending = <<r>>,
           r.page = cur, r.image = mem[cur], db' = db, wal'.recs = Append(wal.recs, r)
    PROVE  /\ cur \in Pages /\ Pages' = Pages
           /\ Store' = [Store EXCEPT ![cur] = View[cur]]
           /\ \A p \in Pages : Durable(p)' = IF p = cur THEN mem[cur] ELSE Durable(p)
           /\ \A q : q = cur => Logged(q)' # {}
  <1>1. pc \in UpPc /\ pc \in FlushPc
    BY DEF UpPc, FlushPc
  <1>2. cur \in Dirty /\ ~Fresh /\ Dirty \subseteq Pages
    BY <1>1, Serving DEF DInv, Control
  <1>3. ~Fresh'
    BY <1>2 DEF Fresh
  <1>4. PICK q : q = cur
    OBVIOUS
  <1>5. r.page = q /\ q \in Pages /\ r.image = mem[q] /\ q \in Dirty
    BY <1>2, <1>4
  <1>6. /\ Store' = [Store EXCEPT ![q] = r.image] /\ Pages' = Pages
        /\ Durable(q)' = r.image /\ Logged(q)' # {}
        /\ \A p \in Pages : p # q => Durable(p)' = Durable(p)
    BY <1>2, <1>3, <1>5, StorePut
  <1>7. View[q] = mem[q]
    <2>1. View = [p \in Pages |-> Visible(p)] /\ Visible(q) = mem[q]
      BY <1>1, <1>5, StoreIs, Serving
    <2> QED
      BY <1>5, <2>1
  <1> QED
    BY <1>4, <1>5, <1>6, <1>7

LEMMA LogFlushRefines == ASSUME DInv, RInv, SInv, LogFlush PROVE SInv' /\ Refines
  <1>1. pc = "sync" /\ pc \in UpPc /\ ~failed
    BY DEF LogFlush, UpPc, SInv, Streamed
  <1>2. PICK r \in Record : pending = <<r>> /\ r.page = cur /\ r.image = mem[cur]
    BY <1>1 DEF SInv, Streamed
  <1>3. ~Fresh /\ WInv /\ wal.tail = "clean" /\ \A p \in Pages \ Dirty : db[p] = Durable(p)
    BY <1>1, Serving
  <1>4. cur \in Dirty
    BY <1>1 DEF DInv, Control, FlushPc
  <1>5. ASSUME pc' \in UpPc, db' = db, mem' = mem, wal'.recs = Append(wal.recs, r)
        PROVE  /\ Refines /\ Pages' = Pages /\ Dirty' = Dirty
               /\ \A p \in Pages \ Dirty : db'[p] = Durable(p)'
               /\ \A q : q = cur => Logged(q)' # {} /\ Durable(q)' = mem[q]
    <2>1. /\ cur \in Pages /\ Pages' = Pages
          /\ Store' = [Store EXCEPT ![cur] = View[cur]]
          /\ \A p \in Pages : Durable(p)' = IF p = cur THEN mem[cur] ELSE Durable(p)
          /\ \A q : q = cur => Logged(q)' # {}
      BY <1>1, <1>2, <1>5, Persists
    <2>2. Dirty' = Dirty /\ View' = View
      <3>1. \A p \in Pages : Visible(p)' = Visible(p)
        BY <1>5 DEF Visible
      <3> QED
        BY <1>1, <1>5, <3>1, ViewSame DEF Dirty
    <2>3. cur \in DOMAIN View
      BY <1>1, <1>3, <2>1, StoreLength
    <2>4. Refines
      BY <1>1, <1>5, <2>1, <2>2, <2>3, IsPersist
    <2> QED
      BY <1>3, <1>4, <1>5, <2>1, <2>2, <2>4
  <1>6. CASE Flush /\ pc' = "write" /\ UNCHANGED <<fileVars, memVars>>
    <2>1. /\ pending' = <<>> /\ wal'.recs = Append(wal.recs, r) /\ wal'.tail = "clean"
      BY <1>2, <1>3, <1>6, ImageWritten
    <2>2. UNCHANGED <<db, mem, cur>> /\ ~failed' /\ pc' \in UpPc
      BY <1>1, <1>6 DEF fileVars, memVars, Flush, UpPc
    <2>3. /\ Refines /\ Pages' = Pages /\ Dirty' = Dirty
          /\ \A p \in Pages \ Dirty : db'[p] = Durable(p)'
          /\ \A q : q = cur => Logged(q)' # {} /\ Durable(q)' = mem[q]
      BY <1>5, <2>1, <2>2
    <2>4. Streamed'
      BY <1>6, <2>1, <2>2 DEF Streamed
    <2>5. Logged(cur)' # {} /\ Durable(cur)' = mem'[cur']
      <3>1. PICK q : q = cur
        OBVIOUS
      <3>2. cur' = q
        BY <2>2, <3>1
      <3> QED
        BY <2>2, <2>3, <3>1, <3>2
    <2>6. Settled'
      <3>1. pc' \notin {"replay", "checkpoint", "open_executor", "init_page"}
        BY <1>6
      <3> QED
        BY <2>3, <2>5, <3>1 DEF Settled
    <2> QED
      BY <2>3, <2>4, <2>6 DEF SInv
  <1>7. CASE FlushFails /\ FlushFrameFails /\ UNCHANGED db
    <2>1. pending' = <<>> /\ wal'.recs \in {wal.recs, Append(wal.recs, r)}
      BY <1>2, <1>3, <1>7, ImageWritten
    <2>2. failed' /\ pc' = "next" /\ mem' = mem
      BY <1>7 DEF FlushFails, StreamFails, FlushFrameFails
    <2>3. pc' \in UpPc \ {"sync", "write", "init_page"}
      BY <2>2 DEF UpPc
    <2>4. CASE wal'.recs = wal.recs
      BY <1>1, <1>7, <2>1, <2>2, <2>3, <2>4, Rests
    <2>5. CASE wal'.recs = Append(wal.recs, r)
      <3>1. /\ Refines /\ Pages' = Pages /\ Dirty' = Dirty
            /\ \A p \in Pages \ Dirty : db'[p] = Durable(p)'
        BY <1>5, <1>7, <2>2, <2>3, <2>5
      <3> QED
        BY <2>1, <2>2, <2>3, <3>1, UpInv
    <2> QED
      BY <2>1, <2>4, <2>5
  <1> QED
    BY <1>6, <1>7 DEF LogFlush

\* The file is written over by a content that the log has, or torn under it.
LEMMA WritePageRefines == ASSUME DInv, RInv, SInv, WritePage PROVE SInv' /\ Refines
  <1>1. pc = "write" /\ pc \in UpPc /\ pc' = "next" /\ UNCHANGED walVars
    BY DEF WritePage, FlushFrameFails, UpPc
  <1>2. pc' \in UpPc \ {"sync", "write", "init_page"}
    BY <1>1 DEF UpPc
  <1>3. /\ ~Fresh /\ Len(db) \in Nat /\ Len(db) >= 2 /\ db \in Seq(Content)
        /\ Pages = 1..Len(db) /\ Pages \subseteq Page /\ Dirty \subseteq Pages
        /\ mem \in [Page -> Value \cup {Clean}] /\ Clean \notin Value
        /\ wal' = wal /\ pending' = <<>> /\ (~failed' => wal'.tail = "clean")
        /\ \A p \in Pages : p \notin Dirty => db[p] = Durable(p)
    BY <1>1, Serving DEF walVars, Pages
  <1>4. PICK q : q = cur
    OBVIOUS
  <1>5. /\ q \in Dirty /\ q \in Pages /\ mem[q] \in Value
        /\ Logged(q) # {} /\ Durable(q) = mem[q]
    BY <1>1, <1>3, <1>4, DirtyFacts DEF DInv, Control, FlushPc, SInv, Settled
  <1>6. CASE FlushFrameFails /\ db' = db
    BY <1>1, <1>2, <1>3, <1>6, Rests DEF FlushFrameFails
  <1>7. ASSUME NEW x \in Content, db' = [db EXCEPT ![q] = x]
        PROVE  /\ Store' = Store /\ Pages' = Pages /\ Len(db') = Len(db) /\ db'[q] = x
               /\ \A p \in Pages : p # q => db'[p] = db[p]
               /\ \A p \in Pages : Durable(p)' = Durable(p)
    <2>1. /\ db' \in Seq(Content) /\ Len(db') = Len(db) /\ db'[q] = x
          /\ \A p \in Pages : p # q => db'[p] = db[p]
      BY <1>3, <1>5, <1>7, WrittenPage
    <2>2. ~Fresh'
      BY <1>3, <2>1, NotFresh DEF Fresh
    <2>3. \A p \in Pages : db'[p] = db[p] \/ Logged(p) # {}
      BY <1>5, <2>1
    <2> QED
      BY <1>3, <2>1, <2>2, <2>3, StoreSame
  <1>8. CASE FlushFrameFails /\ db' = [db EXCEPT ![cur] = Torn]
    <2>1. /\ Store' = Store /\ Pages' = Pages /\ Len(db') = Len(db)
          /\ \A p \in Pages : p # q => db'[p] = db[p]
          /\ \A p \in Pages : Durable(p)' = Durable(p)
      BY <1>4, <1>7, <1>8, ContentFacts
    <2>2. mem' = mem /\ Dirty' = Dirty
      BY <1>8 DEF FlushFrameFails, Dirty
    <2>3. \A p \in Pages : Visible(p)' = Visible(p)
      BY <1>3, <1>5, <2>1, <2>2 DEF Visible, Dirty
    <2>4. View' = View
      BY <1>1, <1>2, <2>1, <2>3, ViewSame
    <2>5. SInv'
      BY <1>2, <1>3, <1>5, <2>1, <2>2, UpInv
    <2> QED
      BY <1>1, <1>2, <2>1, <2>4, <2>5 DEF Refines, Same
  <1>9. CASE db' = [db EXCEPT ![cur] = mem[cur]] /\ mem' = [mem EXCEPT ![cur] = Clean]
    <2>1. /\ Store' = Store /\ Pages' = Pages /\ Len(db') = Len(db) /\ db'[q] = mem[q]
          /\ \A p \in Pages : p # q => db'[p] = db[p]
          /\ \A p \in Pages : Durable(p)' = Durable(p)
      BY <1>4, <1>5, <1>7, <1>9, ContentFacts
    <2>2. Dirty' = Dirty \ {q} /\ \A p \in Pages : Visible(p)' = Visible(p)
      BY <1>3, <1>4, <1>5, <1>9, <2>1 DEF Visible, Dirty
    <2>3. View' = View
      BY <1>1, <1>2, <2>1, <2>2, ViewSame
    <2>4. SInv'
      BY <1>2, <1>3, <1>5, <2>1, <2>2, UpInv
    <2> QED
      BY <1>1, <1>2, <2>1, <2>3, <2>4 DEF Refines, Same
  <1> QED
    BY <1>6, <1>8, <1>9 DEF WritePage

LEMMA FlushDoneRefines == ASSUME DInv, RInv, SInv, FlushDone PROVE SInv' /\ Refines
  <1>1. pc = "next" /\ pc \in UpPc /\ db' = db /\ job \in {"serve", "close", "exit"}
    BY DEF FlushDone, UpPc, fileVars, DInv, LocalType
  <1>2. pending = <<>> /\ WInv /\ (~failed => wal.tail = "clean")
    BY <1>1, Serving
  <1>3. CASE job \in {"serve", "close"}
    <2>1. pc' \in {"serving", "half_closed", "reset"} /\ UNCHANGED <<walVars, mem>>
      BY <1>3 DEF FlushDone, memVars
    <2>2. pc' \in UpPc \ {"sync", "write", "init_page"}
      BY <2>1 DEF UpPc
    <2> QED
      BY <1>1, <1>2, <2>1, <2>2, Rests DEF walVars
  <1>4. CASE job = "exit"
    <2>1. Discarded /\ (WalClose \/ UNCHANGED walVars)
      BY <1>4 DEF FlushDone, DestroyWal
    <2> QED
      BY <1>1, <1>2, <2>1, RecordsStay, Stops
  <1> QED
    BY <1>1, <1>3, <1>4

\* The log is emptied when no page is dirty: the file has everything.
LEMMA ClosingRefines == ASSUME DInv, RInv, SInv, ResetLog \/ CloseWal PROVE SInv' /\ Refines
  <1>1. pc \in {"reset", "close_wal"} /\ pc \in UpPc /\ db' = db /\ pc # "sync"
    BY DEF ResetLog, CloseWal, UpPc, fileVars
  <1>2. pending = <<>> /\ WInv /\ (~failed => wal.tail = "clean") /\ ~Fresh /\ Dirty = {}
    BY <1>1, Serving DEF RInv, Flushed
  <1>3. CASE WalReset /\ pc' = "close_wal" /\ UNCHANGED memVars
    <2>1. /\ wal' = EmptyLog /\ pending' = <<>> /\ mem' = mem /\ Dirty' = Dirty
          /\ wal'.tail = "clean" /\ pc' \in UpPc \ {"sync", "write", "init_page"}
      BY <1>3, EmptyFacts DEF WalReset, memVars, Dirty, UpPc
    <2>2. ~Fresh' /\ \A p \in Pages : db[p] = Durable(p)
      BY <1>1, <1>2, Serving DEF Fresh
    <2>3. /\ Store' = Store /\ Pages' = Pages
          /\ \A p \in Pages : Durable(p)' = db'[p]
      BY <1>1, <1>2, <2>1, <2>2, StoreEmptied
    <2>4. View' = View
      <3>1. Len(db') = Len(db) /\ \A p \in Pages : Visible(p)' = Visible(p)
        BY <1>1, <2>1 DEF Visible
      <3> QED
        BY <1>1, <2>1, <3>1, ViewSame
    <2>5. SInv'
      BY <2>1, <2>3, UpInv
    <2> QED
      BY <1>1, <2>1, <2>3, <2>4, <2>5 DEF Refines, Same
  <1>4. CASE WalClose /\ Discarded
    BY <1>1, <1>2, <1>4, RecordsStay, Stops
  <1>5. CASE /\ ResetFails \/ WalClose \/ UNCHANGED walVars
             /\ pc' = "half_closed" /\ UNCHANGED memVars
    <2>1. wal'.recs = wal.recs /\ pending' = <<>> /\ mem' = mem
      BY <1>2, <1>5, RecordsStay DEF memVars
    <2>2. pc' \in UpPc \ {"sync", "write", "init_page"}
      BY <1>5 DEF UpPc
    <2>3. ~failed' => wal'.tail = "clean"
      <3>1. CASE ResetFails
        BY <3>1 DEF ResetFails
      <3>2. CASE UNCHANGED walVars
        BY <1>2, <3>2 DEF walVars
      <3>3. CASE WalClose /\ ~UNCHANGED walVars /\ ~ResetFails
        <4>1. pc = "close_wal"
          BY <1>5, <3>3 DEF ResetLog, CloseWal
        <4>2. ~failed /\ wal = EmptyLog
          BY <4>1 DEF RInv, Flushed
        <4>3. wal' = wal
          BY <1>2, <3>3, <4>2 DEF WalClose, AfterClose, Put
        <4> QED
          BY <4>2, <4>3, EmptyFacts
      <3> QED
        BY <1>5, <3>1, <3>2, <3>3
    <2> QED
      BY <1>1, <2>1, <2>2, <2>3, Rests
  <1> QED
    BY <1>3, <1>4, <1>5 DEF ResetLog, CloseWal

LEMMA ServiceRefines == ASSUME DInv, RInv, SInv, Service PROVE SInv' /\ Refines
  BY ModifyRefines, AllocateRefines, InitPageRefines, BeginRefines, LogAppendRefines,
     LogFlushRefines, WritePageRefines, FlushDoneRefines, ClosingRefines DEF Service

-----------------------------------------------------------------------------
(* Failures and crashes *)

\* A page that is torn under its image in the log.
LEMMA LoggedTorn ==
    ASSUME DInv, RInv, ~Fresh, wal'.recs = wal.recs, NEW i \in 1..Len(wal.recs),
           db' = [db EXCEPT ![wal.recs[i].page] = Torn]
    PROVE  Store' = Store
  <1>1. PICK q : q = wal.recs[i].page
    OBVIOUS
  <1>2. q \in 2..Len(db) /\ i \in Logged(q)
    BY <1>1, LoggedPage DEF RInv, Logged
  <1>3. db \in Seq(Content) /\ Len(db) \in Nat /\ Len(db) >= 2 /\ Torn \in Content
    BY FileFacts, ContentFacts
  <1>4. /\ db' \in Seq(Content) /\ Len(db') = Len(db)
        /\ \A p \in Pages : p # q => db'[p] = db[p]
    BY <1>1, <1>3, WrittenPage DEF Pages
  <1>5. ~Fresh'
    BY <1>3, <1>4, NotFresh DEF Fresh
  <1>6. \A p \in Pages : db'[p] = db[p] \/ Logged(p) # {}
    BY <1>2, <1>4
  <1> QED
    BY <1>4, <1>5, <1>6, StoreSame

LEMMA ReplayFailsRefines == ASSUME DInv, RInv, SInv, ReplayFails PROVE SInv' /\ Refines
  <1>1. /\ pc = "replay" /\ k <= Len(wal.recs) /\ OpenFails
        /\ db' = db \/ db' = [db EXCEPT ![wal.recs[k].page] = Torn]
        /\ pc \in OpenPc
    BY DEF ReplayFails, OpenPc
  <1>2. CASE db' = db
    BY <1>1, <1>2, OpenFailsRefines
  <1>3. CASE db' = [db EXCEPT ![wal.recs[k].page] = Torn]
    <2>1. pc \notin UpPc /\ ~Fresh /\ pending = <<>> /\ WInv
      BY <1>1, OpenFacts
    <2>2. pc' = "down" /\ wal'.recs = wal.recs /\ pending' = <<>>
      BY <1>1, <2>1, RecordsStay DEF OpenFails, Discarded
    <2>3. k \in 1..Len(wal.recs)
      <3>1. k \in 1..(MaxLsn + 1)
        BY DEF DInv, LocalType
      <3> QED
        BY <1>1, <3>1, LsnBound, WInvFacts DEF DInv
    <2>4. Store' = Store
      BY <1>3, <2>1, <2>2, <2>3, LoggedTorn
    <2>5. pc' \notin UpPc \cup {"replay", "checkpoint", "open_executor"}
      BY <2>2 DEF UpPc
    <2> QED
      BY <2>1, <2>2, <2>4, <2>5, Idle, IdleInv
  <1> QED
    BY <1>1, <1>2, <1>3

\* Whatever page is being written and however much of the buffer reaches the log,
\* a crash takes effect as one of the writes that the process was making, or not.
LEMMA CrashRefines == ASSUME DInv, RInv, SInv, Crash PROVE SInv' /\ Refines
  <1>1. /\ pc' = "down" /\ WalCrash /\ Discarded /\ pending' = <<>>
        /\ pc' \notin UpPc \cup {"replay", "checkpoint", "open_executor"}
        /\ db' = db \/ \E p \in InFlight : db' = [db EXCEPT ![p] = Torn]
    BY DEF Crash, WalCrash, NoStream, Discarded, UpPc
  <1>2. SInv'
    BY <1>1, IdleInv
  <1>3. WInv /\ pc \in {"down"} \cup BuildPc \cup OpenPc \cup UpPc /\ pc # "down"
    BY DEF DInv, LocalType, Crash
  <1>4. CASE pc \in BuildPc
    <2>1. pc \notin UpPc /\ Fresh /\ InFlight = {}
      BY <1>4 DEF BuildPc, UpPc, DInv, Control, InFlight
    <2>2. Fresh'
      BY <1>1, <2>1 DEF Fresh
    <2> QED
      BY <1>1, <2>1, <2>2, NoStore
  <1>5. CASE pc \in OpenPc
    <2>1. pc \notin UpPc /\ ~Fresh /\ pending = <<>>
      BY <1>5, OpenFacts
    <2>2. wal'.recs = wal.recs
      BY <1>1, <1>3, <2>1, RecordsStay
    <2>3. CASE db' = db
      BY <1>1, <2>1, <2>2, <2>3, OpenRests
    <2>4. CASE db' # db
      <3>1. PICK p \in InFlight : db' = [db EXCEPT ![p] = Torn]
        BY <1>1, <2>4
      <3>2. pc = "replay" /\ k <= Len(wal.recs) /\ p = wal.recs[k].page
        BY <1>5, <3>1 DEF InFlight, OpenPc
      <3>3. k \in 1..Len(wal.recs)
        <4>1. k \in 1..(MaxLsn + 1)
          BY DEF DInv, LocalType
        <4> QED
          BY <3>2, <4>1, LsnBound, WInvFacts DEF DInv
      <3>4. Store' = Store
        BY <2>1, <2>2, <3>1, <3>2, <3>3, LoggedTorn
      <3> QED
        BY <1>1, <1>2, <2>1, <3>4, Idle
    <2> QED
      BY <2>3, <2>4
  <1>6. CASE pc \in UpPc
    <2>1. ~Fresh
      BY <1>6, Serving
    <2>2. CASE pc = "sync"
      <3>1. PICK r \in Record : pending = <<r>> /\ r.page = cur /\ r.image = mem[cur]
        BY <2>2 DEF SInv, Streamed
      <3>2. wal'.recs \in {wal.recs, Append(wal.recs, r)}
        BY <1>1, <1>3, <3>1, ImageWritten
      <3>3. db' = db /\ ~Fresh'
        BY <1>1, <2>1, <2>2 DEF InFlight, Fresh
      <3>4. CASE wal'.recs = wal.recs
        <4>1. Store' = Store
          BY <2>1, <3>3, <3>4, StoreSame
        <4> QED
          BY <1>1, <1>2, <1>6, <4>1, IsStop
      <3>5. CASE wal'.recs = Append(wal.recs, r)
        <4>1. cur \in Pages /\ Store' = [Store EXCEPT ![cur] = View[cur]]
          BY <2>2, <3>1, <3>3, <3>5, Persists
        <4>2. cur \in DOMAIN Store
          BY <2>1, <4>1, StoreLength
        <4> QED
          BY <1>1, <1>2, <1>6, <4>1, <4>2, IsStop
      <3> QED
        BY <3>2, <3>4, <3>5
    <2>3. CASE pc # "sync"
      <3>1. pending = <<>>
        BY <2>3 DEF SInv, Streamed
      <3>2. wal'.recs = wal.recs
        BY <1>1, <1>3, <3>1, RecordsStay
      <3>3. CASE db' = db
        BY <1>1, <1>6, <3>2, <3>3, Stops
      <3>4. CASE db' # db
        <4>1. PICK p \in InFlight : db' = [db EXCEPT ![p] = Torn]
          BY <1>1, <3>4
        <4>2. \/ pc = "write" /\ p = cur
              \/ pc = "init_page" /\ p = Len(db)
          BY <1>6, <4>1 DEF InFlight, UpPc
        <4>3. CASE pc = "write" /\ p = cur
          <5>1. Logged(p) # {}
            BY <4>3 DEF SInv, Settled
          <5>2. PICK i \in 1..Len(wal.recs) : wal.recs[i].page = p
            BY <5>1 DEF Logged
          <5>3. Store' = Store
            BY <2>1, <3>2, <4>1, <5>2, LoggedTorn
          <5> QED
            BY <1>1, <1>2, <1>6, <5>3, IsStop
        <4>4. CASE pc = "init_page" /\ p = Len(db)
          <5>1. db' = [db EXCEPT ![Len(db)] = Torn]
            BY <4>1, <4>4
          <5>2. /\ Store[Len(Store)] = Blank
                /\ Store' = [Store EXCEPT ![Len(Store)] = Torn]
            BY <3>2, <4>4, <5>1, FirstContent
          <5> QED
            BY <1>1, <1>2, <1>6, <5>2, IsStop
        <4> QED
          BY <4>2, <4>3, <4>4
      <3> QED
        BY <3>3, <3>4
    <2> QED
      BY <2>2, <2>3
  <1> QED
    BY <1>3, <1>4, <1>5, <1>6

LEMMA FaultRefines == ASSUME DInv, RInv, SInv, Fault PROVE SInv' /\ Refines
  <1>1. CASE BuildFails
    <2>1. pc \in BuildPc /\ pc' = "down" /\ UNCHANGED <<walVars, db>>
      BY <1>1 DEF BuildFails
    <2>2. /\ Fresh /\ Fresh' /\ pc \notin UpPc
          /\ pc' \notin UpPc \cup {"replay", "checkpoint", "open_executor"}
      BY <2>1 DEF DInv, Control, Fresh, BuildPc, UpPc
    <2>3. pending' = <<>>
      BY <2>1 DEF BuildPc, SInv, Streamed, walVars
    <2> QED
      BY <2>2, <2>3, NoStore
  <1>2. CASE OpenErrs
    BY <1>2, OpenFailsRefines DEF OpenErrs
  <1>3. CASE AllocatePageFails
    <2>1. pc = "serving" /\ pc' = "serving" /\ UNCHANGED <<walVars, db, mem>>
      BY <1>3 DEF AllocatePageFails, memVars
    <2>2. pc \in UpPc /\ pc' \in UpPc \ {"sync", "write", "init_page"}
      BY <2>1 DEF UpPc
    <2>3. wal' = wal /\ pending' = <<>> /\ (~failed' => wal'.tail = "clean")
      BY <2>1, <2>2, Serving DEF walVars
    <2> QED
      BY <2>1, <2>2, <2>3, Rests
  <1> QED
    BY <1>1, <1>2, <1>3, ReplayFailsRefines, CrashRefines DEF Fault

LEMMA StoreStep == ASSUME DInv, RInv, SInv, [Next]_vars PROVE SInv' /\ Refines
  <1>1. CASE Next
    BY <1>1, CreationRefines, OpeningRefines, ServiceRefines, FaultRefines DEF Next, Work
  <1>2. CASE UNCHANGED vars
    <2>1. SInv'
      <3>1. UNCHANGED <<wal, pending, failed, db, pc, k, mem, cur>>
        BY <1>2 DEF vars, walVars, fileVars, memVars
      <3>2. Streamed'
        BY <3>1 DEF SInv, Streamed
      <3>3. Pages' = Pages /\ Dirty' = Dirty
        BY <3>1 DEF Pages, Dirty
      <3>4. \A p : Logged(p)' = Logged(p) /\ Durable(p)' = Durable(p)
        BY <3>1, DurableIs
      <3>5. Settled'
        <4>1. PICK q, n : q = cur /\ n = Len(db)
          OBVIOUS
        <4> QED
          BY <3>1, <3>3, <3>4, <4>1 DEF SInv, Settled
      <3> QED
        BY <3>2, <3>5 DEF SInv
    <2>2. Same
      BY <1>2 DEF vars, walVars, fileVars, memVars, Same, Store, View, Fresh, Logged,
                  Durable, Visible
    <2> QED
      BY <2>1, <2>2 DEF Refines
  <1> QED
    BY <1>1, <1>2

\* What the file, the log and the pool together hold, in every state.
THEOREM StoreInvariance == Spec => [](DInv /\ RInv /\ SInv)
  <1>1. Init => DInv /\ RInv /\ SInv
    BY DatabaseInit, RecoveryInit, StoreInit
  <1>2. DInv /\ RInv /\ SInv /\ [Next]_vars => (DInv /\ RInv /\ SInv)'
    BY DatabaseStep, RecoveryStep, StoreStep
  <1> QED
    BY <1>1, <1>2, PTL DEF Spec

\* The database keeps its promise about crashes for any number of pages, any
\* contents, logs of any length and every combination of failures: the steps of
\* creation, recovery, service, closing, failing and crashing are steps of the
\* store without a log, or leave it as it is.
THEOREM DatabaseIsDurable == Spec => DurableOK
  <1>1. Init => Abstract!Init
    BY StoreInit
  <1>2. DInv /\ RInv /\ SInv /\ [Next]_vars => [Abstract!Next]_(Abstract!vars)
    <2>1. ASSUME Same PROVE UNCHANGED Abstract!vars
      BY <2>1 DEF Same, Abstract!vars
    <2> QED
      BY <2>1, StoreStep DEF Refines
  <1> QED
    BY <1>1, <1>2, StoreInvariance, PTL DEF Spec, DurableOK, Abstract!Spec
=============================================================================
