------------------------------- MODULE Tables -------------------------------
(***************************************************************************)
(* Heap tables and the catalog that names them, as QueryExecutor uses them *)
(* (src/src/db/record/heap_table.cpp, src/src/db/catalog/catalog.cpp), on  *)
(* the pages that module DurableStore promises: the process changes its    *)
(* view of a page, the pool makes pages durable one by one in any order, a *)
(* new page is written through, and a crash loses the view.                *)
(*                                                                         *)
(* A page is a record: its kind, its list (entries of a catalog page, data *)
(* page ids of a directory page, slots of a data page) and the next page   *)
(* of its chain.  Catalog and directory are the same structure, a chain of *)
(* pages with a list that grows at its end; obj["catalog"] is the Catalog  *)
(* object, obj["dir"] the HeapTable object of the call in progress.        *)
(***************************************************************************)
EXTENDS Integers, Sequences, SequencesExt, FiniteSets

CONSTANTS Name,      \* valid table names
          Rec,       \* records
          Cap,       \* Cap[kind]: entries, page ids or slots that fill a page
          MaxPage,   \* bound on the length of the file
          Faults,    \* the kinds of failure that may happen
          Deleted

Kinds == {"catalog", "dir", "data"}
None  == 0

ASSUME TablesAssumption ==
    /\ Cap \in [Kinds -> Nat \ {0}]
    /\ MaxPage \in Nat \ {0, 1}
    /\ Faults \subseteq {"crash", "page_write", "extend", "fetch", "pinned"}
    /\ Deleted \notin Rec
    /\ None \notin Rec

Root == 2
Page == 1..MaxPage
Id   == [page : Page, slot : 1..Cap["data"]]

Empty(kind) == [kind |-> kind, list |-> <<>>, next |-> None]

Image == [kind : {"catalog"}, list : Seq([name : Name, root : Page]), next : Page \cup {None}]
         \cup [kind : {"dir"}, list : Seq(Page), next : Page \cup {None}]
         \cup [kind : {"data"}, list : Seq(Rec \cup {Deleted}), next : {None}]

VARIABLES store, up, view,   \* the durable pages, as in DurableStore
          obj,               \* obj[c]: [list, last, count] of the chain c
          pc,                \* the next step of the call in progress
          job,               \* its arguments
          out,               \* where Insert leaves the id of its record
          past               \* history: what was ever stored, where

pageVars == <<store, up, view>>
vars     == <<store, up, view, obj, pc, job, out, past>>

Pages == INSTANCE DurableStore WITH
             Value <- Image, InitImage <- Empty("catalog"),
             Header <- Empty("header"), Blank <- Empty("blank"),
             Torn <- Empty("torn")

NoId  == [page |-> None, slot |-> 0]
NoJob == [name |-> None, rec |-> None, page |-> None, full |-> FALSE]
NoObj == [list |-> <<>>, last |-> None, count |-> 0]

-----------------------------------------------------------------------------
(* Loading a chain *)

\* The page that follows p in a chain of this kind, if p is a page of it.
Successor(s, p, kind) == IF p \in DOMAIN s /\ s[p].kind = kind THEN s[p].next ELSE None

\* Walk(s, r, kind)[n]: the page n links after r, or None.
Walk(s, r, kind) ==
    LET at[n \in 0..Len(s)] == IF n = 0 THEN r ELSE Successor(s, at[n - 1], kind)
    IN  at

\* The pages from r on, as far as they are pages of this kind and the walk is
\* no longer than the file.
Chain(s, r, kind) ==
    LET at    == Walk(s, r, kind)
        links == CHOOSE n \in 0..Len(s) : at[n] # None /\ (n = Len(s) \/ at[n + 1] = None)
    IN  [i \in 1..(links + 1) |-> at[i - 1]]

\* The chain ends within the file, and every page of it is what it should be.
ChainOK(s, r, kind) ==
    LET c == Chain(s, r, kind) IN
    /\ \A i \in 1..Len(c) : /\ c[i] \in DOMAIN s
                            /\ s[c[i]].kind = kind
                            /\ Len(s[c[i]].list) <= Cap[kind]
    /\ s[Last(c)].next = None

\* The lists of the chain, one after the other.
Listed(s, r, kind) ==
    LET c == Chain(s, r, kind) IN FlattenSeq([i \in 1..Len(c) |-> s[c[i]].list])

\* The object that loading the chain makes.
Loaded(s, r, kind) ==
    LET c == Chain(s, r, kind) IN
    [list |-> Listed(s, r, kind), last |-> Last(c), count |-> Len(s[Last(c)].list)]

\* HeapTable::LoadDirectory succeeds.
TableOpens(s, r) ==
    /\ ChainOK(s, r, "dir")
    /\ \A p \in ToSet(Listed(s, r, "dir")) : p # r /\ p \in DOMAIN s

\* Catalog::Load succeeds.
CatalogLoads(s) ==
    /\ ChainOK(s, Root, "catalog")
    /\ LET entries == Listed(s, Root, "catalog") IN
       /\ \A i, j \in 1..Len(entries) : entries[i].name = entries[j].name => i = j
       /\ \A e \in ToSet(entries) : TableOpens(s, e.root)

Entries     == ToSet(obj["catalog"].list)
Exists(n)   == \E e \in Entries : e.name = n
RootOf(n)   == (CHOOSE e \in Entries : e.name = n).root

\* Insert never compacts: a deleted record keeps its slot and its bytes.
HasRoom(p) == Len(view[p].list) < Cap["data"]

-----------------------------------------------------------------------------
Init ==
    /\ Pages!Init
    /\ obj = [c \in {"catalog", "dir"} |-> NoObj]
    /\ pc = "down"
    /\ job = NoJob
    /\ out = NoId
    /\ past = {}

CreateDatabase ==
    /\ Pages!Create
    /\ UNCHANGED <<obj, pc, job, out, past>>

\* QueryExecutor::Open.
Start ==
    /\ Pages!Start
    /\ CatalogLoads(store)
    /\ obj' = [obj EXCEPT !["catalog"] = Loaded(store, Root, "catalog")]
    /\ pc' = "idle"
    /\ UNCHANGED <<job, out, past>>

\* The pool writes a dirty page back: eviction, flush or Close.
FlushPage(p) ==
    /\ p \in DOMAIN view
    /\ view[p] # store[p]
    /\ Pages!Persist(p)
    /\ UNCHANGED <<obj, pc, job, out, past>>

\* The process ends: between calls by Close or exit, anywhere by a crash.
Stop ==
    /\ pc = "idle" \/ "crash" \in Faults
    /\ Pages!Stop
    /\ obj' = [c \in {"catalog", "dir"} |-> NoObj]
    /\ pc' = "down"
    /\ job' = NoJob
    /\ out' = NoId
    /\ UNCHANGED past

-----------------------------------------------------------------------------
(* Steps shared by the calls *)

\* PageStorage::AllocatePage.
Allocate(from, to) ==
    /\ pc = from
    /\ Len(view) < MaxPage
    /\ Pages!Extend
    /\ pc' = to
    /\ UNCHANGED <<obj, job, out, past>>

\* The new page is initialised and written through.
Initialise(from, to, kind) ==
    /\ pc = from
    /\ Pages!Initialise(Empty(kind))
    /\ pc' = to
    /\ UNCHANGED <<obj, out, past>>

\* A call ends with an error: the page it allocated stays behind as it is.
GiveUp == /\ pc' = "idle"
          /\ job' = NoJob
          /\ UNCHANGED <<obj, out, past>>

AllocateFails ==
    /\ "extend" \in Faults
    /\ pc \in {"alloc root", "alloc data", "alloc link"}
    /\ GiveUp
    /\ UNCHANGED pageVars

InitialiseFails ==
    /\ "page_write" \in Faults
    /\ pc \in {"init root", "init data", "init link"}
    /\ Pages!Initialise(Empty("torn")) \/ UNCHANGED pageVars
    /\ GiveUp

\* A page cannot be read, or every frame of the pool is pinned.
FetchFails ==
    /\ \/ /\ "fetch" \in Faults
          /\ pc \in {"load root", "fill", "append", "link", "enter"}
       \/ pc = "fill" /\ job.full
    /\ GiveUp
    /\ UNCHANGED pageVars

-----------------------------------------------------------------------------
(* Catalog::CreateTable *)

CreateTable(n) ==
    /\ pc = "idle"
    /\ ~Exists(n)
    /\ pc' = "alloc root"
    /\ job' = [NoJob EXCEPT !.name = n]
    /\ UNCHANGED <<pageVars, obj, out, past>>

AllocateRoot == Allocate("alloc root", "init root")

InitRoot ==
    /\ Initialise("init root", "load root", "dir")
    /\ job' = [job EXCEPT !.page = Len(view)]

\* The new table is loaded once, and its root goes to AppendEntry.
LoadRoot ==
    /\ pc = "load root"
    /\ pc' = "append"
    /\ UNCHANGED <<pageVars, obj, job, out, past>>

-----------------------------------------------------------------------------
(* HeapTable::Insert *)

\* Mutant: the slot id is read after the page has counted the new slot.
NextIdLate(p) == [page |-> p, slot |-> Len(view[p].list) + 2]

NextId(p) == [page |-> p, slot |-> Len(view[p].list) + 1]

\* TryInsertIntoPage.
Fill(p, r) ==
    /\ Pages!Modify(p, [view[p] EXCEPT !.list = Append(@, r)])
    /\ out' = NextId(p)

\* The order in which the pages of the table are tried: the last one first.
TryOrder(pages) ==
    IF pages = <<>> THEN <<>> ELSE <<Last(pages)>> \o Front(pages)

\* The table is opened and its pages are tried.  When every frame is pinned, the
\* pages outside the pool (`busy`) answer kBufferFull, which counts as no room;
\* the page allocated next will then be outside the pool as well.
Insert(n, r) ==
    /\ pc = "idle"
    /\ Exists(n)
    /\ LET table == Loaded(view, RootOf(n), "dir")
           order == TryOrder(table.list)
       IN \E busy \in SUBSET ToSet(order) :
          LET open == {i \in 1..Len(order) : order[i] \notin busy /\ HasRoom(order[i])}
          IN  /\ busy = {} \/ "pinned" \in Faults
              /\ obj' = [obj EXCEPT !["dir"] = table]
              /\ IF open = {}
                 THEN /\ pc' = "alloc data"
                      /\ job' = [name |-> n, rec |-> r, page |-> None, full |-> busy # {}]
                      /\ out' = NoId
                      /\ UNCHANGED <<pageVars, past>>
                 ELSE /\ \E i \in open :
                            /\ \A j \in open : i <= j
                            /\ Fill(order[i], r)
                            /\ past' = past \cup {<<n, NextId(order[i]), r>>}
                      /\ UNCHANGED <<pc, job>>

AllocateData == Allocate("alloc data", "init data")

\* Mutant: the new data page is left to the pool instead of being written through.
InitDataBuffered ==
    /\ pc = "init data"
    /\ view' = [view EXCEPT ![Len(view)] = Empty("data")]
    /\ pc' = "fill"
    /\ job' = [job EXCEPT !.page = Len(view)]
    /\ UNCHANGED <<store, up, obj, out, past>>

InitData ==
    /\ Initialise("init data", "fill", "data")
    /\ job' = [job EXCEPT !.page = Len(view)]

\* Into the new page, before any directory names it.
FillFresh ==
    /\ pc = "fill"
    /\ ~job.full
    /\ Fill(job.page, job.rec)
    /\ pc' = "append"
    /\ UNCHANGED <<obj, job, past>>

-----------------------------------------------------------------------------
(* Catalog::AppendEntry and HeapTable::AppendDataPageId *)

Target == IF job.rec = None THEN "catalog" ELSE "dir"

\* Mutant: last_data_page_, which was tried before, is entered for the new page.
ItemLastTried ==
    IF job.rec = None THEN [name |-> job.name, root |-> job.page]
    ELSE IF obj["dir"].list = <<>> THEN job.page ELSE Last(obj["dir"].list)

Item == IF job.rec = None THEN [name |-> job.name, root |-> job.page]
                          ELSE job.page

\* The item goes to index count of page p, which then has count + 1 items.
Put(p, count) ==
    Pages!Modify(p, [view[p] EXCEPT !.list = Append(SubSeq(@, 1, count), Item)])

\* The record of an Insert is in the table once its page is in the directory.
Finish == /\ pc' = "idle"
          /\ job' = NoJob
          /\ past' = IF Target = "dir" THEN past \cup {<<job.name, out, job.rec>>} ELSE past
          /\ UNCHANGED out

AppendItem ==
    LET o == obj[Target] IN
    /\ pc = "append"
    /\ o.count < Cap[Target]
    /\ Put(o.last, o.count)
    /\ obj' = [obj EXCEPT ![Target] = [list  |-> Append(o.list, Item),
                                       last  |-> o.last,
                                       count |-> o.count + 1]]
    /\ Finish

\* The last page of the chain is full.
ExtendChain ==
    /\ pc = "append"
    /\ obj[Target].count >= Cap[Target]
    /\ pc' = "alloc link"
    /\ UNCHANGED <<pageVars, obj, job, out, past>>

AllocateLink == Allocate("alloc link", "init link")

InitLink ==
    /\ Initialise("init link", "link", Target)
    /\ UNCHANGED job

Link ==
    LET o == obj[Target] IN
    /\ pc = "link"
    /\ Pages!Modify(o.last, [view[o.last] EXCEPT !.next = Len(view)])
    /\ obj' = [obj EXCEPT ![Target].last = Len(view), ![Target].count = 0]
    /\ pc' = "enter"
    /\ UNCHANGED <<job, out, past>>

\* Mutant: the count of the new last page stays zero.
EnterForgetsCount ==
    LET o == obj[Target] IN
    /\ pc = "enter"
    /\ Put(o.last, 0)
    /\ obj' = [obj EXCEPT ![Target].list = Append(@, Item)]
    /\ Finish

Enter ==
    LET o == obj[Target] IN
    /\ pc = "enter"
    /\ Put(o.last, 0)
    /\ obj' = [obj EXCEPT ![Target].list = Append(@, Item), ![Target].count = 1]
    /\ Finish

-----------------------------------------------------------------------------
(* HeapTable::Update and Delete *)

\* Mutant: a deleted slot is not told from a live one.
RewriteDeleted(n, id, r) ==
    /\ pc = "idle"
    /\ Exists(n)
    /\ id.page \in ToSet(Listed(view, RootOf(n), "dir"))
    /\ id.slot \in DOMAIN view[id.page].list
    /\ Pages!Modify(id.page, [view[id.page] EXCEPT !.list[id.slot] = r])
    /\ past' = past \cup {<<n, id, r>>}
    /\ UNCHANGED <<obj, pc, job, out>>

\* The slot of a live record of table n gets new content; an update that finds
\* no room in the page is refused.
Rewrite(n, id, r) ==
    /\ pc = "idle"
    /\ Exists(n)
    /\ id.page \in ToSet(Listed(view, RootOf(n), "dir"))
    /\ id.slot \in DOMAIN view[id.page].list
    /\ view[id.page].list[id.slot] # Deleted
    /\ Pages!Modify(id.page, [view[id.page] EXCEPT !.list[id.slot] = r])
    /\ past' = past \cup {<<n, id, r>>}
    /\ UNCHANGED <<obj, pc, job, out>>

Update(n, id, r) == Rewrite(n, id, r)
Delete(n, id)    == Rewrite(n, id, Deleted)

Next == \/ CreateDatabase \/ Start \/ Stop
        \/ \E p \in Page : FlushPage(p)
        \/ \E n \in Name : CreateTable(n)
        \/ AllocateRoot \/ InitRoot \/ LoadRoot
        \/ \E n \in Name, r \in Rec : Insert(n, r)
        \/ AllocateData \/ InitData \/ FillFresh
        \/ AppendItem \/ ExtendChain \/ AllocateLink \/ InitLink \/ Link \/ Enter
        \/ \E n \in Name, id \in Id, r \in Rec : Update(n, id, r)
        \/ \E n \in Name, id \in Id : Delete(n, id)
        \/ AllocateFails \/ InitialiseFails \/ FetchFails

Spec == Init /\ [][Next]_vars

-----------------------------------------------------------------------------
(* Properties *)

TablesTypeOK ==
    /\ \A s \in {store, view} : /\ Len(s) <= MaxPage
                                /\ \A p \in 2..Len(s) : s[p] \in Image \cup {Empty("blank"), Empty("torn")}
    /\ up \in BOOLEAN
    /\ \A c \in {"catalog", "dir"} : obj[c].last \in Page \cup {None} /\ obj[c].count \in 0..Cap[c]
    /\ job.page \in Page \cup {None}
    /\ out \in Id \cup {NoId}
    /\ past \subseteq Name \X Id \X (Rec \cup {Deleted})

\* Every page a file can be asked to load is the kind of page the reference to
\* it promises.
Sound(s) ==
    s # <<>> =>
       /\ CatalogLoads(s)
       /\ \A e \in ToSet(Listed(s, Root, "catalog")) :
             \A p \in ToSet(Listed(s, e.root, "dir")) : s[p].kind = "data"

\* Whatever pages happened to be flushed before a crash, what the file holds is
\* a catalog that loads: it names complete tables, their directories name
\* initialised data pages, and no name occurs twice.  A reference may reach the
\* file long before or after the content of the page it names, so this rests on
\* new pages being written through before anything refers to them
\* (heap_table.cpp:150, :271, :305; catalog.cpp:172, :397).
Consistent == Sound(store) /\ Sound(view)

\* All the references of a file, with repetitions.
References(s) ==
    LET roots == [i \in DOMAIN Listed(s, Root, "catalog") |-> Listed(s, Root, "catalog")[i].root]
    IN  Chain(s, Root, "catalog") \o
        FlattenSeq([i \in DOMAIN roots |->
                       Chain(s, roots[i], "dir") \o Listed(s, roots[i], "dir")])

\* No page serves two purposes: no two tables share a page, no chain meets
\* another, no data page is listed twice, neither in memory nor after a restart
\* that finds only some of the pages flushed.
NoSharedPages == \A s \in {store, view} : s # <<>> => IsInjective(References(s))

\* The Catalog object agrees with the pages it was loaded from and has written
\* since, also after every failed call: a table is found if and only if a
\* reload would find it, and the place for the next entry is the end of the
\* chain (catalog.cpp:385, :413, :424).
CatalogInSync == up => obj["catalog"] = Loaded(view, Root, "catalog")

\* The records as the API shows them.
RowsOn(n, p) == {<<n, [page |-> p, slot |-> i], view[p].list[i]>> : i \in DOMAIN view[p].list}
Rows == UNION {UNION {RowsOn(e.name, p) : p \in ToSet(Listed(view, e.root, "dir"))} : e \in Entries}

TableMap == INSTANCE TableMap WITH names <- {e.name : e \in Entries}, rows <- Rows

\* The tables implement TableMap: every step of every call, failed or not,
\* leaves each table with exactly the records stored in it under their ids, an
\* insert shows up as a whole or not at all, and a restart brings up nothing
\* that was not stored in that very table under that very id.
TableMapOK == TableMap!Spec
=============================================================================
