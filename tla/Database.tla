------------------------------ MODULE Database ------------------------------
(***************************************************************************)
(* The database facade of src/src/db/database/database.cpp: crash-atomic   *)
(* creation, recovery before service, the write-ahead flush of a page and  *)
(* the orderly close, over the log of module Wal and a page file that can  *)
(* fail.  The process may die between any two steps and inside a write.    *)
(*                                                                         *)
(* The page file is a sequence of page contents (PageStorage: the number of*)
(* pages is the file's length), NoFile when absent, <<>> when it has zero  *)
(* length; `ragged` says that its length is not a whole number of pages.   *)
(* Page 1 is the header (the code's page 0), page 2 the catalog root.      *)
(*                                                                         *)
(* The buffer pool is reduced to its dirty pages: mem[p] is the content of *)
(* a dirty page, Clean otherwise.  Module BufferPool justifies it: a clean *)
(* page equals the file, and a page leaves the pool only after a flush that*)
(* succeeded.  `pc` is the place in the code of the one thread; it is      *)
(* "down" when no Database object exists.                                  *)
(***************************************************************************)
EXTENDS Wal

CONSTANTS Header, InitImage, Blank, Torn, NoFile, Clean

Content == Value \cup {Header, Blank, Torn}

ASSUME DatabaseAssumption ==
    /\ MaxPage >= 2
    /\ InitImage \in Value
    /\ {Header, Blank, Torn, Clean} \cap Value = {}
    /\ NoFile \notin Seq(Content)

VARIABLES db,       \* the database file
          tmp,      \* the file <db_path>.creating
          ragged,   \* the database file ends inside a page
          pc,       \* the next step of the thread
          k,        \* index of the next log record to replay
          mem,      \* mem[p]: content of dirty page p in the pool, or Clean
          job,      \* why pages are flushed: "serve", "close" or "exit"
          todo,     \* the dirty pages this job has still to try
          cur,      \* the page being flushed
          erred     \* a flush of this job has failed

memVars  == <<k, mem, job, todo, cur, erred>>
fileVars == <<db, tmp, ragged>>
vars     == <<walVars, fileVars, pc, memVars>>

BuildPc == {"create_temp", "header_page", "catalog_page", "init_catalog", "header",
            "drop_wal", "replace", "publish"}
OpenPc  == {"open_storage", "open_wal", "read_header", "replay", "checkpoint",
            "open_executor"}
UpPc    == {"serving", "init_page", "next", "append", "sync", "write", "reset",
            "close_wal", "half_closed"}

DatabaseTypeOK ==
    /\ WalTypeOK
    /\ db \in Seq(Content) \cup {NoFile}
    /\ tmp \in Seq(Content) \cup {NoFile}
    /\ ragged \in BOOLEAN
    /\ pc \in {"down"} \cup BuildPc \cup OpenPc \cup UpPc
    /\ k \in 1..(MaxLsn + 1)
    /\ mem \in [Page -> Value \cup {Clean}]
    /\ job \in {"serve", "close", "exit"}
    /\ todo \in SUBSET Page
    /\ cur \in Page
    /\ erred \in BOOLEAN

-----------------------------------------------------------------------------
Fresh == db \in {NoFile, <<>>}
Dirty == {p \in Page : mem[p] # Clean}

\* What the process reads from page p.
Visible(p) == IF mem[p] = Clean THEN db[p] ELSE mem[p]

\* No Database object is left.
Discarded ==
    /\ pc' = "down"
    /\ k' = 1
    /\ mem' = [p \in Page |-> Clean]
    /\ job' = "serve"
    /\ todo' = {}
    /\ cur' = 1
    /\ erred' = FALSE

\* Before the first start there may be a placeholder, and a log that belongs to
\* another database.
Init ==
    /\ db \in {NoFile, <<>>}
    /\ tmp = NoFile
    /\ ragged = FALSE
    /\ wal \in {[recs |-> s, tail |-> t] :
                  s \in {<<>>} \cup {<<[lsn |-> 1, page |-> p, image |-> v]>> :
                                        p \in Page, v \in Value},
                  t \in {"clean", "torn", "garbage"}}
    /\ pending = <<>> /\ failed = FALSE /\ open = FALSE
    /\ next_lsn = 1 /\ durable_lsn = 0
    /\ pc = "down" /\ k = 1 /\ mem = [p \in Page |-> Clean]
    /\ job = "serve" /\ todo = {} /\ cur = 1 /\ erred = FALSE

-----------------------------------------------------------------------------
(* Creation *)

\* Open looks at the file; either way it removes what an earlier creation left.
BeginOpen ==
    /\ pc = "down"
    /\ tmp' = NoFile
    /\ pc' = IF Fresh THEN "create_temp" ELSE "open_storage"
    /\ UNCHANGED <<walVars, db, ragged, memVars>>

\* One step in building the image at the temporary path.
Build(from, to, image) ==
    /\ pc = from
    /\ pc' = to
    /\ tmp' = image
    /\ UNCHANGED <<walVars, db, ragged, memVars>>

CreateTemp       == Build("create_temp", "header_page", <<>>)
AllocateHeader   == Build("header_page", "catalog_page", <<Blank>>)
AllocateCatalog  == Build("catalog_page", "init_catalog", <<Blank, Blank>>)
InitCatalogPage  == Build("init_catalog", "header", <<Blank, InitImage>>)
\* Mutant: the image is published before its header is written.
WriteHeaderLate  == Build("header", "drop_wal", <<Blank, InitImage>>)
WriteHeader      == Build("header", "drop_wal", <<Header, InitImage>>)

\* Mutant: the log at the path is kept.
DropStaleWalKept ==
    /\ pc = "drop_wal"
    /\ pc' = "replace"
    /\ UNCHANGED <<walVars, fileVars, memVars>>

DropStaleWal ==
    /\ pc = "drop_wal"
    /\ pc' = "replace"
    /\ wal' = EmptyLog
    /\ UNCHANGED <<streamVars, fileVars, memVars>>

RemovePlaceholder ==
    /\ pc = "replace"
    /\ pc' = "publish"
    /\ db' = NoFile
    /\ UNCHANGED <<walVars, tmp, ragged, memVars>>

Publish ==
    /\ pc = "publish"
    /\ pc' = "open_storage"
    /\ db' = tmp
    /\ tmp' = NoFile
    /\ UNCHANGED <<walVars, ragged, memVars>>

\* abandon: an operation on the files failed, and Open reports it.
BuildFails ==
    /\ "files" \in Faults
    /\ pc \in BuildPc
    /\ pc' = "down"
    /\ tmp' = NoFile
    /\ UNCHANGED <<walVars, db, ragged, memVars>>

-----------------------------------------------------------------------------
(* Opening: recovery before service *)

\* An Open that fails destroys the Wal object it may have opened.
OpenFails ==
    /\ Discarded
    /\ IF open THEN WalClose ELSE UNCHANGED walVars
    /\ UNCHANGED <<tmp, ragged>>

OpenStorage ==
    /\ pc = "open_storage"
    /\ IF ragged
       THEN OpenFails
       ELSE pc' = "open_wal" /\ UNCHANGED <<walVars, tmp, ragged, memVars>>
    /\ UNCHANGED db

OpenWal ==
    /\ pc = "open_wal"
    /\ IF Valid(wal)
       THEN pc' = "read_header" /\ WalOpen /\ UNCHANGED <<tmp, ragged, memVars>>
       ELSE OpenFails
    /\ UNCHANGED db

ReadHeader ==
    /\ pc = "read_header"
    /\ IF db[1] = Header
       THEN pc' = "replay" /\ UNCHANGED <<walVars, tmp, ragged, memVars>>
       ELSE OpenFails
    /\ UNCHANGED db

\* One record of Recover.
Replay ==
    /\ pc = "replay"
    /\ k <= Len(wal.recs)
    /\ LET r == wal.recs[k] IN
       IF r.page \in DOMAIN db
       THEN /\ db' = [db EXCEPT ![r.page] = r.image]
            /\ k' = k + 1
            /\ UNCHANGED <<walVars, tmp, ragged, pc, mem, job, todo, cur, erred>>
       ELSE OpenFails /\ UNCHANGED db

ReplayFails ==
    /\ "page_write" \in Faults
    /\ pc = "replay"
    /\ k <= Len(wal.recs)
    /\ wal.recs[k].page \in DOMAIN db
    /\ db' \in {db, [db EXCEPT ![wal.recs[k].page] = Torn]}
    /\ OpenFails

RecoveryDone ==
    /\ pc = "replay"
    /\ k = Len(wal.recs) + 1
    /\ pc' = "checkpoint"
    /\ k' = 1
    /\ UNCHANGED <<walVars, fileVars, mem, job, todo, cur, erred>>

Checkpoint ==
    /\ pc = "checkpoint"
    /\ pc' = "open_executor"
    /\ WalReset
    /\ UNCHANGED <<fileVars, memVars>>

\* The pool is created, the log attached, and the catalog loaded.
OpenExecutor ==
    /\ pc = "open_executor"
    /\ IF db[2] \in Value
       THEN pc' = "serving" /\ UNCHANGED <<walVars, tmp, ragged, memVars>>
       ELSE OpenFails
    /\ UNCHANGED db

\* Any step of opening may fail on its files: Reset too, which has then closed
\* the log without truncating it.
OpenErrs ==
    /\ "files" \in Faults
    /\ pc \in OpenPc
    /\ OpenFails
    /\ UNCHANGED db

-----------------------------------------------------------------------------
(* Service *)

Modify(p, v) ==
    /\ pc = "serving"
    /\ p \in DOMAIN db
    /\ Visible(p) \in Value
    /\ mem' = [mem EXCEPT ![p] = v]
    /\ UNCHANGED <<walVars, fileVars, pc, k, job, todo, cur, erred>>

\* PageStorage::AllocatePage writes the zeroed page through.
AllocatePage ==
    /\ pc = "serving"
    /\ ~ragged
    /\ Len(db) < MaxPage
    /\ db' = Append(db, Blank)
    /\ pc' = "init_page"
    /\ UNCHANGED <<walVars, tmp, ragged, memVars>>

\* The file grew by part of a page: from now on NumPages fails.
AllocatePageFails ==
    /\ "extend" \in Faults
    /\ pc = "serving"
    /\ ragged' = TRUE
    /\ UNCHANGED <<walVars, db, tmp, pc, memVars>>

\* The access methods write the first content of a page they allocated straight
\* to storage; if that fails the page is an orphan no other page refers to.
InitPage ==
    /\ pc = "init_page"
    /\ \/ db' = [db EXCEPT ![Len(db)] = InitImage]
       \/ /\ "page_write" \in Faults
          /\ db' \in {db, [db EXCEPT ![Len(db)] = Torn]}
    /\ pc' = "serving"
    /\ UNCHANGED <<walVars, tmp, ragged, memVars>>

\* Sequence numbers left for a job of n pages (bound).
RoomFor(n) == next_lsn + n <= MaxLsn + 1

\* A flush of one dirty page: FlushPage, eviction or a shrinking Resize.
BeginFlush(p) ==
    /\ pc = "serving"
    /\ p \in Dirty
    /\ RoomFor(1)
    /\ pc' = "next"
    /\ todo' = {p}
    /\ job' = "serve"
    /\ UNCHANGED <<walVars, fileVars, k, mem, cur, erred>>

\* Database::Close (again after a Close that failed), or the destructor without
\* Close: FlushAll over every dirty page.
BeginFlushAll(why) ==
    /\ pc \in {"serving", "half_closed"}
    /\ why \in {"close", "exit"}
    /\ RoomFor(Len(SetToSeq(Dirty)))
    /\ pc' = "next"
    /\ todo' = Dirty
    /\ job' = why
    /\ erred' = FALSE
    /\ UNCHANGED <<walVars, fileVars, k, mem, cur>>

FlushNext ==
    /\ pc = "next"
    /\ \E p \in todo :
         /\ cur' = p
         /\ todo' = todo \ {p}
    /\ pc' = "append"
    /\ UNCHANGED <<walVars, fileVars, k, mem, job, erred>>

\* FlushFrame gives up: the page stays dirty, FlushAll goes on with the next.
FlushFrameFails ==
    /\ pc' = "next"
    /\ erred' = TRUE
    /\ UNCHANGED <<tmp, ragged, k, mem, job, todo, cur>>

\* Mutant: the page is written while its image is still in the log's buffer.
LogAppendNoSync ==
    /\ pc = "append"
    /\ AppendPageImage(cur, mem[cur])
    /\ pc' = "write"
    /\ UNCHANGED <<fileVars, memVars>>

\* BeforePageWrite, first half.
LogAppend ==
    /\ pc = "append"
    /\ \/ /\ AppendPageImage(cur, mem[cur])
          /\ pc' = "sync"
          /\ UNCHANGED <<fileVars, memVars>>
       \/ /\ AppendFails(cur, mem[cur]) \/ (failed /\ UNCHANGED walVars)
          /\ FlushFrameFails
          /\ UNCHANGED db

\* BeforePageWrite, second half.
LogFlush ==
    /\ pc = "sync"
    /\ \/ Flush /\ pc' = "write" /\ UNCHANGED <<fileVars, memVars>>
       \/ FlushFails /\ FlushFrameFails /\ UNCHANGED db

WritePage ==
    /\ pc = "write"
    /\ \/ /\ ~ragged
          /\ db' = [db EXCEPT ![cur] = mem[cur]]
          /\ mem' = [mem EXCEPT ![cur] = Clean]
          /\ pc' = "next"
          /\ UNCHANGED <<tmp, ragged, k, job, todo, cur, erred>>
       \/ /\ ragged
          /\ FlushFrameFails
          /\ UNCHANGED db
       \/ /\ "page_write" \in Faults
          /\ db' \in {db, [db EXCEPT ![cur] = Torn]}
          /\ FlushFrameFails
    /\ UNCHANGED walVars

DestroyWal == IF open THEN WalClose ELSE UNCHANGED walVars

\* Mutant: Close goes on to the checkpoint although a flush has failed.
FlushDoneAnyway ==
    /\ pc = "next"
    /\ todo = {}
    /\ CASE job = "serve" -> pc' = "serving" /\ UNCHANGED <<walVars, memVars>>
         [] job = "close" -> pc' = "reset" /\ UNCHANGED <<walVars, memVars>>
         [] job = "exit"  -> Discarded /\ DestroyWal
    /\ UNCHANGED fileVars

\* The job has tried all its pages.
FlushDone ==
    /\ pc = "next"
    /\ todo = {}
    /\ CASE job = "serve" -> /\ pc' = "serving"
                             /\ erred' = FALSE
                             /\ UNCHANGED <<walVars, k, mem, job, todo, cur>>
         [] job = "close" -> /\ pc' = IF erred THEN "half_closed" ELSE "reset"
                             /\ UNCHANGED <<walVars, memVars>>
         [] job = "exit"  -> Discarded /\ DestroyWal
    /\ UNCHANGED fileVars

\* Close, after a FlushAll without error; a log that is already closed refuses.
ResetLog ==
    /\ pc = "reset"
    /\ \/ WalReset /\ pc' = "close_wal"
       \/ ResetFails /\ pc' = "half_closed"
       \/ ~open /\ pc' = "half_closed" /\ UNCHANGED walVars
    /\ UNCHANGED <<fileVars, memVars>>

\* The log is closed and then storage; if the log reports an error, storage is
\* left to the destructor.
CloseWal ==
    /\ pc = "close_wal"
    /\ WalClose
    /\ \/ Discarded
       \/ "log_write" \in Faults /\ pc' = "half_closed" /\ UNCHANGED memVars
    /\ UNCHANGED fileVars

\* The pages a crash can catch half written.
InFlight ==
    CASE pc = "write" /\ ~ragged -> {cur}
      [] pc = "init_page" -> {Len(db)}
      [] pc = "replay" /\ k <= Len(wal.recs) -> {wal.recs[k].page} \cap DOMAIN db
      [] OTHER -> {}

Crash ==
    /\ "crash" \in Faults
    /\ pc # "down"
    /\ Discarded
    /\ WalCrash
    /\ db' \in {db} \cup {[db EXCEPT ![p] = Torn] : p \in InFlight}
    /\ UNCHANGED <<tmp, ragged>>

Creation == \/ CreateTemp \/ AllocateHeader \/ AllocateCatalog
            \/ InitCatalogPage \/ WriteHeader \/ DropStaleWal
            \/ RemovePlaceholder \/ Publish

Opening == \/ BeginOpen \/ OpenStorage \/ OpenWal \/ ReadHeader
           \/ Replay \/ RecoveryDone \/ Checkpoint \/ OpenExecutor

Service == \/ \E p \in Page, v \in Value : Modify(p, v)
           \/ AllocatePage
           \/ InitPage
           \/ \E p \in Page : BeginFlush(p)
           \/ \E why \in {"close", "exit"} : BeginFlushAll(why)
           \/ FlushNext \/ LogAppend \/ LogFlush \/ WritePage \/ FlushDone
           \/ ResetLog \/ CloseWal

Fault == \/ BuildFails
         \/ OpenErrs
         \/ ReplayFails
         \/ AllocatePageFails
         \/ Crash

\* The steps of the program; a flush that meets an error is one of them.
Work == Creation \/ Opening \/ Service

Next == Work \/ Fault

Spec == Init /\ [][Next]_vars

\* Someone starts the database again whenever it is down, and Open is
\* straight-line code: its next step is always enabled until it returns.
FairSpec == Spec /\ WF_vars(Creation \/ Opening)

-----------------------------------------------------------------------------
\* The content a restart gives page p: its last image in the log, or the file.
Logged(p)  == {i \in 1..Len(wal.recs) : wal.recs[i].page = p}
Durable(p) == IF Logged(p) = {} THEN db[p]
              ELSE wal.recs[CHOOSE i \in Logged(p) : \A j \in Logged(p) : j <= i].image

Store == IF Fresh THEN <<>> ELSE [p \in 1..Len(db) |-> Durable(p)]
View  == IF pc \in UpPc THEN [p \in 1..Len(db) |-> Visible(p)] ELSE <<>>

Abstract == INSTANCE DurableStore WITH store <- Store, up <- pc \in UpPc,
                                       view <- View

\* Through crashes at any point, torn pages, torn log tails and crashes during
\* recovery itself: what a flush made durable is never lost or mixed with older
\* content, service starts only on exactly the durable state, and a database
\* appears only whole and never together with another database's log.
DurableOK == Abstract!Spec

\* Once Open has found a whole number of pages and a log of valid records, it
\* refuses nothing that crashes and failed writes can leave behind: the header is
\* there, every record it has to replay names a page of the file (PageExists in
\* Recover), and the catalog root can be loaded.
OpenRefusesOnlyDamage ==
    /\ pc = "read_header" => db[1] = Header
    /\ pc = "replay" => \A i \in k..Len(wal.recs) : wal.recs[i].page \in DOMAIN db
    /\ pc = "open_executor" => db[2] \in Value

\* A Close that succeeds has made every modification durable, with an empty log.
CloseKeepsAll ==
    [][CloseWal /\ pc' = "down" =>
          \A p \in DOMAIN db : Durable(p)' = Visible(p)]_vars

\* Once crashes and failures have stopped, every start is followed by service,
\* whatever interrupted creations and recoveries left behind: Open is refused
\* for good only by a file that ends inside a page or a log that is corrupt.
Recovers ==
    <>[][Work]_vars /\ <>[](~ragged /\ wal.tail # "garbage") =>
        (pc = "down" ~> pc = "serving")

\* Only Reset takes a readable record out of the log of a database, and only
\* creation discards a log it finds: no crash, failed append, failed flush or
\* reopening rewrites what is there.
LogKept ==
    [][\/ IsPrefix(wal.recs, wal'.recs)
       \/ wal' = EmptyLog /\ (open \/ Fresh)]_walVars

\* "A torn 32-byte header of pure garbage is therefore reported as corruption ...
\* and is the one theoretical false-positive window" (include/db/wal.h): what
\* this program writes to the log of a database, also when a write fails, never
\* adds up to a complete record that is not valid.
LogReadable == ~Fresh => wal.tail # "garbage"
=============================================================================
