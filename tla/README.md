# Verification of NexusDB

NexusDB is a small page-oriented database that runs its engine inside Linux
containers and adapts its buffer pool to the container's memory pressure. This
directory holds TLA+ modules that model it, TLC configurations that check them
on small instances, and proofs for TLAPS. `PROJECT.json` maps every definition
to the lines it models and lists runs, mutants, findings, hazards and theorems.

    tlc -workers 2 -config BufferPool.cfg MCBufferPool     # a run
    tlapm BufferPoolProofs.tla                             # a proof module

## 1. The system

| component | state | operations | correct when |
|---|---|---|---|
| page storage (`db/storage`) | the page file, its length | Open, ReadPage, WritePage, AllocatePage, Close | the length is a whole number of pages; a written page reads back |
| buffer pool (`db/buffer`) | frames with page, dirty bit, pin count and stamp; capacity; access clock; Handles outside | Create, Fetch, Handle moves, MarkDirty, Unpin, FlushPage, FlushAll, Resize | transparent to callers; never evicts a pinned page; loses no modification; evicts the least recently used page |
| write-ahead log (`db/wal`) | log file, stream buffer, next and durable sequence number | Open, AppendPageImage, Flush, Scan, Recover, Reset, Close | gapless; what Flush acknowledged is readable; replay is repeatable |
| database (`db/database`) | the three files, the objects above | Open (create or recover), use, Close | creation is all or nothing; service starts on exactly the durable pages |
| slotted page (`db/record/slotted_page`) | directory, free region, bytes | Init, Insert, Read, Update, Delete, Compact, Scan | no two records overlap; a slot id keeps its record |
| heap table (`db/record/heap_table`) | chain of directory pages, list of data pages | Create, Open, Insert, Get, Update, Delete, Scan | a directory names initialised pages of its own; an insert happens as a whole or not at all |
| catalog (`db/catalog`) | chain of catalog pages, list of entries | Create, Open, CreateTable, FindTable, OpenTable, ListTables | entries name valid tables, no name twice; object and pages agree |
| query executor (`db/query`) | none of its own | one catalog lookup and one heap-table call per operation | as heap table and catalog |
| engine process (`db/engine`) | the stop flag | start, idle loop, signal, Close | every stop request ends in an orderly Close |
| container (`container/*`) | registry slots, lifecycle state, child processes, cgroups | create, start, stop, delete, adopt | no child runs outside its cgroup; no zombie; state and process agree |
| manager, CLI (`manager`, `cli`) | metadata files | container and database commands, each a process of its own | metadata and processes agree; one process per database |
| adaptation (`bridge`) | last accepted target; the cgroup's usage as read | snapshot, evaluate, apply (Resize) | no step past floor or ceiling; reacts to lasting pressure; comes to rest |
| benchmark harness (`benchmark`) | one container, its cgroup membership, a pool, the policy | set up, sample, take down | leaves nothing behind, whatever call failed |
| dashboard | display | | |

**Interaction.** `Database` owns `PageStorage`, `Wal`, `BufferPool` and
`QueryExecutor`. The pool calls the log (its LogSink) and then the storage when
it flushes a page; executor, catalog and heap table read and modify pages
through pool Handles, but allocate and initialise new pages directly in the
storage, bypassing pool and log. One thread runs in a process; concurrency is
between processes: the manager's commands, the container's child, the engine
and the kernel's signals.

**What is hard here.** Process death between any two steps and inside a write;
failed and short writes, after which a `std::fstream` stays failed and may still
hold buffered bytes; pages flushed in an order nobody chose; recovery
interrupted again and again; pins, moves and resizes in long sequences; the
renumbering of the access clock; byte-exact room in a page; failed calls that
leave objects and pages half changed. These are the hazards of `PROJECT.json`,
each at its line.

## 2. Plan

1. `BufferPool` with `PageView` and `LruCache`: done, proved except LRU order.
2. `Wal`: done, proved.
3. `Database` over `Wal`, with `DurableStore`: done, safety and refinement proved,
   liveness model-checked.
4. `SlottedPage` with `SlotMap`: done, proved.
5. `Tables` over the promises of `DurableStore`, with `TableMap`: done, safety
   proved, the refinement model-checked.
6. `Container`: gated spawn, release, abort and stop against a child that may die
   at any time and a stopper that is not its parent; cgroups; registry: done,
   proved as part of `Manager`, liveness model-checked.
7. `Manager` over `Container`: metadata files against live processes, dying
   commands, pids used again: done, proved; three of its invariants for any number
   of commands at once.
8. `Engine`: arguments, signals between any two steps, `process_stop`: done,
   safety proved, liveness model-checked.
9. `Adaptation` and, over it, `Benchmark`: done, safety proved, liveness
   model-checked.
10. Open: heap table over the buffer pool, for pointers that outlive their pin.

Theorems planned next: that `Tables` implements `TableMap`, then LRU order.

How they compose: `Database` extends `Wal` and reduces the pool to its dirty
pages, which `BufferPool`'s proved invariant `FileCurrent` justifies; `Tables`
instantiates `DurableStore` and takes its steps as the only way to change pages,
which `DurableOK` justifies; the slots of a data page in `Tables` behave as
`SlotMap` says. `Benchmark` extends `Adaptation`; the calls of the container
runtime are single steps in it, and opening and closing the database are single
steps in `Engine`, since `Container` and `Database` have them in detail.

## 3. Modules

### BufferPool (`buffer_pool.cpp`)
The fields of `struct Frame` are functions of the frame index; `handles[h]` is
the frame of a Handle, `disk` the page file. One call is one action, because one
thread uses the pool, and each failure inside a call is an action of its own:
`FetchHit`, `FetchLoad`, `FetchReplace`, `FetchFails`, `FetchUnreadable`,
`FetchFull`, `FetchFlushFails`; `Modify`, `Unpin`, `MoveAssign`; `FlushPage`,
`FlushAll` with any subset of failing pages; `Grow`, `Shrink`,
`ShrinkFlushFails`; `AllocatePage` by the pool's users. A failed write may leave
the page torn. The access clock is bounded by `MaxClock` (2^64 - 1 in the code);
`Renumbered` is the code's renumbering. Calls that only report an error are
stuttering.
* `PageView` is the pool as its callers see it: contents and pins, no frames.
* `LruCache` is LRU replacement with a recency list and no clock.

### Wal (`wal.cpp`)
`wal` is the file: its complete records and its `tail`, "clean", "torn" (an
incomplete record) or "garbage" (bytes the reader rejects). `pending` is what
the stream has buffered, `failed` its sticky error state. CRC and layout are
abstracted to what the reader makes of them. `AfterClose` and `Cut` are the
stream library and the kernel: what closing writes after an error, and what a
crash leaves of a write.

### Database (`database.cpp`, with `page_storage.cpp` and parts of `wal.cpp`)
`pc` is the place in the code; creation is one action per file operation of
`CreateFreshDatabaseAtomically`, opening one per step of `Open`, a flush is
append, sync, write. `Faults` names the failures a run allows. `DurableStore` is
the promise: a store that comes into being whole, grows at its end, in which a
page is replaced only by content the process had, and a restart sees exactly the
store.

Process death is modelled, power loss is not: what write(2) accepted survives,
as the code's own limits state (no fsync). A partial extension of the file
(`ragged`) makes every later storage call fail. Page *p* of the model is the
code's page *p* - 1.

### SlottedPage (`slotted_page.cpp`)
Byte-exact: directory columns, free region and the bytes of the page, with the
three sizes as constants. `Insert`, `UpdateInPlace`, `UpdateRelocate`, `Delete`,
`Compact`. `SlotMap` is the promise: a sequence of records by slot id.

### Tables (`heap_table.cpp`, `catalog.cpp`, `query_executor.cpp`)
`store`, `up`, `view` are the pages as in `DurableStore`. Catalog and directory
are the same structure in the code, a chain of pages with a list growing at its
end, and share the actions `AppendItem`, `ExtendChain`, `AllocateLink`,
`InitLink`, `Link`, `Enter`; `obj` is the object kept in memory. An Insert or
CreateTable takes one step per page operation, and each may fail or be the last
before a crash. `FlushPage` may interleave anywhere: a Fetch inside a call may
evict any page. Records have one size, so room is counted in slots; a deleted
record keeps its room because nothing outside the page's own interface calls
Compact. The heap-table object lives for one call, as `QueryExecutor` uses it.
When every frame is pinned, a page outside the pool answers kBufferFull and so
does the page allocated next (`job.full`). `TableMap` is the promise: rows by
table and id.

### Container (`container.c`, `process.c`, `cgroup.c`)
A runtime *r* is a process with the library linked in; `slot[r]` is its
registry, `job[r]` the call it is executing. `proc` is the process table of the
workloads, `cg` the cgroup directories ("bare" has no limits yet). A call takes
one action per system call another process can notice: `CreateCgroup`,
`SetLimits`; `Spawn`, `Attach`, `Release`, `Started`; `Stop`, `GraceOver`,
`ReapKilled`; `Delete`, `Destroy`, each with its failures. A start that cannot read
its status pipe waits for the child to end ("await"), and a signal can interrupt
the wait for a killed child (`ReapInterrupted`): the stop fails and can be tried
again. The cgroup path of a record is its own, none, or "cut" to a beginning that
names another container's directory or nobody's; `member` is the cgroup a process
has joined. The child has steps of
its own, `GateCloses`, `Exec`, `ExecFails`, and `Dies`. The release channel and
the status pipe are not variables: a channel closes when its writer ends, and
`report` is what the child wrote. SIGTERM is only a request, so it changes
nothing; `Dies` lets a workload end at any time or never. The ids of processes
that are gone are used again. The 20 polls of the grace period are one state.

### Manager (`manager.cpp`)
A command is a process: `Command` reads the file and adopts the record, one call
of `Container` follows, then `TruncateMeta` and `WriteMeta`. `saved[n]` is the
metadata file as `LoadMeta` reads it; an empty file reads as `EmptyMeta`, one
that ends early as one of `CutMetas`: without state, pid or path, or with the
beginning of a pid, which is some other pid, or of a path. `Crash` kills a
process anywhere. A database command is reduced to the time it has the files
open; what it does with them is the subject of `Database` and `Tables`. Callers
of kind "tool" (examples, benchmark) keep their registry for many calls and are
the parents of what they start; they use names that have no metadata file.

### Engine (`db_engine.cpp`, `process_stop`)
`pc` is the next step of `main`: argument parsing, directory, Open, the two
handlers, the status line, the loop around `pause()`, Close. `text` is the
`--buffer-pool` argument as a sequence of digits and other characters, and
`ParseCount` reads it one character at a time with the code's overflow guard. A signal
is sent, then delivered at any later moment: to the handler if it is installed,
by default death, and nothing when the engine is process 1 of a PID namespace.
`stopper` is the parent in `process_stop`; other processes send one SIGTERM and
are done.

### Adaptation (`adaptation_policy.c`, `resource_monitor.c`, `buffer_pool_adapter.cpp`)
`limit` and `load` are the cgroup's memory apart from the pool; usage is `load`
plus the pool's pages. `Sample` is one call: snapshot, decision, duplicate
suppression, request. Words wrap at `MaxWord`, percentages are integers. Requests
may fail, and others may resize the pool.

### Benchmark (`harness.c`, `engine_workload.cpp`)
`nexus_bench_run` from creating (or re-creating) the container to its deletion,
with every call failing; a kill leaves a stray workload for the next run, which
meets the old cgroup.

## 4. Runs

| run | shows | bounds | states |
|---|---|---|---|
| buffer_pool | capacity, pins, file and memory, `PageViewOK` | 3 pages, 2 Handles, 2 contents, capacity 3, clock to 4 | 138,764 |
| buffer_pool_lru | stamps, full only when the other Handles hold all, `LruOK` | 4 pages, 3 Handles, capacity 3, clock to 5 | 84,003 |
| wal_torn_tail | violation, finding 1 | 2 pages, 2 contents, 3 sequence numbers, crashes only | |
| database | `DurableOK`, refusals, `CloseKeepsAll`, the log's numbering and growth, `Recovers` | 3 pages, 3 contents, 3 log records, all faults | 996,678 |
| database_log_error | violation, finding 2 | log failures only | |
| slotted_page | layout, `SlotMapOK`, Compact reclaims all | page of 8 bytes, header and entry of 1, 2 byte values | 4,711 |
| tables | files always load, no shared pages, object in sync, `TableMapOK` | 2 tables, 6 pages, one item fills a page, all faults | 86,425 |
| tables_filling | `TableMapOK` | 2 tables, 5 pages, two records fill a data page, all faults | 40,034 |
| manager | limits, no stray child, no failed exec, deletion, only its own workload killed, everything ends | 1 runtime at a time, 2 containers, 2 pids, a registry of 2 slots, all faults but a cut path | 225,294 |
| manager_stop | violation, finding 3 | 1 container, no faults | |
| engine | pool as asked, closes or is killed, stop requests end it | texts of up to 3 characters, limit 12 frames, 2 polls, all faults | 15,588 |
| benchmark | bounded steps, no suppression, relief, expansion, rest, nothing left behind | 6 configurations, limits 0 and 8, loads -4..8, up to 6 frames, words of 4 bits, all faults | 194,116 |

Why these bounds suffice: three pages with a capacity of up to three give
eviction with and without pins and a shrink of several victims; two Handles give
moves, double pins and pins that survive a shrink; with a third Handle
(buffer_pool_lru) the other two can hold every frame of a pool of two or, at the
end of the clock, of three; a clock just above the capacity renumbers again and
again, in states of every shape. Three log records allow a page logged twice
beside another page, a torn tail behind them, and an interrupted replay. A file
of three pages has a header, a catalog root and a page that can be allocated,
initialised and torn. Eight bytes hold three records, with tombstones, gaps and
relocation. Six pages at one item each let two tables with a full catalog page,
or one table with a full directory page, extend their chain; the larger data
pages of tables_filling make inserts choose among pages. Two containers share
two pids, so that a recorded pid comes to belong to the other container, an
orphan of a crashed start meets a new one of the same name, and no process can
be created when both live. The fault "path" (a failed write that leaves the
beginning of the cgroup path in a metadata file) is not in the run, because two
of its invariants are then really lost (section 6). Three characters reach the
engine's limit from below, at and above it and with leading zeros; 2 polls are a
stop that waits and one that gives up. The configurations of the policy have a
wide and a narrow dead band, steps that saturate the word, no steps down, pages
of two units, an explicit maximum, and one is not valid; the loads are below,
inside and above the band of each. With one record content an Update in `Tables`
cannot show the wrong content; that is `SlottedPage`'s business.

Bounds in guards: `MaxPage`, `MaxLsn`, `MaxClock`, `MaxCapacity`. Symmetry is
used for pages, Handles, contents and table names, which the specifications only
compare for equality, and not in the liveness runs. Deadlock is checked except
where the system really stops (`Engine.cfg`: the process has ended).

**Fairness.** `Recovers` assumes weak fairness of the steps of Creation and Open
only: they are straight-line code, so a process that is not killed takes the
next step, and somebody starts the database again while it is down. Serving,
flushing and closing are not fair. Its premises are that from some time on only
the program's own steps happen (a refusal by Open is one of them, so that a
database that is refused for ever is not excused) and that the file does not end
inside a page and the log is not corrupt: after those a refusal may be final
(finding 2).

`CallsEnd` and `GateOpens` assume weak fairness of a process's own straight-line
code, a command or a child before its exec: the scheduler runs it unless it is
killed. Nobody need start a command, and a workload need never end, so that a
stop must succeed against one that ignores SIGTERM. `CallsEnd` excepts one call,
in which the code itself waits for the workload: a start that got a read error on
its status pipe while the workload runs (`Waits`).

The engine's `main` and its parent in `process_stop` are straight-line code in
the same sense, and the kernel delivers what is pending; nobody has to send a
signal. A benchmark that is not killed goes on sampling. `Responds`
and `Settles` speak of loads that stay as they are; the load itself is not fair.

Every property of a passing run has a mutant: a definition named as such beside
the one it replaces, which the property catches. The type invariants are not among
the runs' properties: all of them are proved.

## 5. Proofs

`BufferPoolProofs` proves for every set of pages and contents, every finite set
of Handles, every maximal capacity and every clock that is longer than the
capacity: `TypeCorrect`, `PoolFits`, `PinsBalanced`, `PagesUnique`,
`NothingLost`, `RecencyTotal`, `FullOnlyHeld`, and `PoolIsTransparent`, that the
pool implements `PageView`. The inductive invariant is the conjunction of
`TypeOK`, `ResidentsFit`, `NoDuplicatePages`, `PinsMatchHandles`, `FileCurrent`
and `StampsOrdered`. None is inductive alone: without unique pages FindFrame may
find another frame than the one a flush cleaned; without `FileCurrent` a Fetch
could read a torn page; without matching pins a victim might still have a
Handle; without ordered stamps the ranks of the renumbering would not be
distinct. One lemma per action shows preservation; lemmas about `WriteBack`,
`Touch`, `Rank` and pin counting carry the arithmetic. `FullOnlyHeld` is about
the Handles, not about the pins its guard reads: no frame is left only if
`PoolFits` leaves no room, every page is pinned, and by the pin counts held by
some other Handle, a different one for each frame (`HeldPerFrame`,
`NoRoomMeansFull`). The refinement follows from a description of what each page
shows (`ViewOf`) and one lemma that flushes are hidden.

`SlottedPageProofs` proves for all page, header and entry sizes: `TypeCorrect`,
`LayoutSound`, `CompactReclaims`, and `PageIsSlotMap`, that the page implements
`SlotMap`. The
inductive invariant is `TypeOK` and `Intact` (the free region lies between
directory and records, live records lie above it and do not overlap). Compaction
packs the live records in slot order below the end of the page; the lemma
`MovedByte` follows a byte to its new place. For `CompactReclaims` the places of
the records have to cover the region without a gap: of the records that begin at
or below a byte, the one with the least slot id reaches past it. That there is a
least one is `LeastElement`, taken from the well-foundedness of the naturals.

The first half of `DatabaseProofs` is about the log alone, for any page images
and any number of records in the file and in the stream's buffer: `TypeCorrect`,
`LogNumbered`, `AcknowledgedReadable` and `NothingRewritten`. `Numbered` is not
inductive: that an append continues the numbering needs `next_lsn` to count the
records of file and buffer, and that holds only while the file is clean and the
stream has not failed (`WInv`). Facts about `Put`, `Fragments` and `Cut` say
what a write leaves that stops at any byte; one lemma per action does the rest.

The second half carries this to the database, where creation drops a log without
going through the object: `DatabaseTypeCorrect`, `DatabaseLogNumbered`,
`DatabaseAckedReadable`, `DatabaseLogKept`. `DInv` adds where in the code no log
is open, where there is no database, and that the page on its way to the log is
dirty and the pages of the job behind it are dirty too.

`RecoveryProofs` proves `OnlyDamageRefused` and `CloseIsDurable` for any number of
pages. What Open finds was left by runs that ended anywhere, so `RInv` follows the
header, the pages with images in the log and the catalog root through all of
them: an image is in the log before its page is written (`Flushed`), a root that
is not a value has an image in the log or the log is corrupt (`Whole`), replay
has that image still before it (`Opened`), a page whose write failed is still
dirty (`Pooled`), and a Close without error has none left, so that emptying the
log is safe. `LogMoves` is all the proof needs to know of a step of the log.

The same module proves `DatabaseIsDurable`, that the database implements
`DurableStore`. The durable content of a page is its last image in the log, or
what the file has when there is none (`DurableIs`), and lemmas about `At`, `LastAt`
and `Image` say what appending, cutting off a tail and emptying the log do to it.
`SInv` is what has to hold besides `RInv`: the stream buffers nothing but the image
of the page at hand (`Streamed`), and the file itself has the durable content of
the pages no remaining record is about during replay, of every page before the
log is emptied, and of every page that is not dirty in service (`Settled`). A
recovery that dies and starts again replays images over what they already made,
so no content changes; a flush becomes durable in the step that makes its record
readable, and the write behind it, torn or not, is hidden by that record.

`TablesProofs` proves `TablesTypeCorrect`, `AlwaysLoads` (`Consistent`),
`PagesUnshared` (`NoSharedPages`) and `CatalogKept` (`CatalogInSync`) for any number
of pages, tables and records, any page capacities and any failures. The properties
speak of chains of pages, but a crash keeps or loses single pages, and a chain in the
file may end where the process has long gone on. `TInv` is therefore about pages:
what a page refers to exists and has the promised kind, and a chain only goes to pages
that were allocated later (`Shaped`); no two references are to the same page, not even
from pages that no chain reaches any more, since a failed call leaves such pages
behind (`Single`); no name is in the catalog twice (`NamesOnce`); and the file is, page
by page, an older version of what the process has: fewer entries, no successor yet,
but never another one (`Lags`). `Single` of the file follows from `Single` of the
process through `Lags`, so nothing has to be known about the order of the flushes.
`Called` says for each place in a call what it works on: the page that was allocated is
of its kind and nothing refers to it yet, and the object to append to agrees with the
end of its chain. From pages to chains: `Walk` is a recursive function, and what a chain
visits, that it has an end, that it never meets another one and what becomes of it when
its last page gets an entry or a successor is shown by induction, each time as the least
counterexample in a set of naturals, since the general induction rule is out of the
provers' reach.

`EngineProofs` proves `TypeCorrect`, `PoolIsAsAsked` and `ClosedOrKilled` for
argument strings of any length, every limit and any grace period. The loop that
parses a number is a recursive function here. What it computes is proved by
induction on the characters read: `Induction` is stated for a set instead of a
predicate, `Recursion` shows that a function defined by its predecessor exists,
and then the loop ends in the value of the digits, or in a refusal as soon as the
value so far exceeds the limit, which a longer prefix cannot undo.

`BenchmarkProofs` proves `NoneSuppressed`, `NothingLeft` and `PolicyBounded` for
every word size, every set of configurations, limits and loads. What the last step
has to take down is decided many steps before and an earlier run may have left its
container, so `Tidy` says for each place in the code what there can be of the
container, its workload and the membership. `Fresh` says that a run's policy starts
without a target, which `NeverSuppressed` needs to be inductive. The bounds follow
from lemmas about `Ceiling` and the two targets, overflow at the word included.

`ManagerProofs` proves `TypeCorrect`, `ChildrenRecorded`, `ExecsReported` and
`OnlyOwnKilled` for any number of runtimes at once, commands and tools, any names
and pids and any combination of failures and crashes. `Phase` says for each place
in a call what its process and its record are. Pids are used again, so what a pid
in a record stands for depends on who wrote it: a tool has only pids of children
it has not reaped (`Owned`), a command may have adopted a pid that is anybody's by
now, but a command that stops or deletes has no child of its own to be mistaken
for it (`Adopted`). `Tracked` and `Execed` are the two invariants, of one runtime.
Each action is shown to keep the invariant of its own runtime and to leave every
other runtime and its children alone; `Frame` does the rest.

`WorkloadsConfined` and `DeletedHasNone` have the hypotheses `Alone`, one runtime at
a time (dying at any step and followed by others), and `PathsWhole`, no failed write
shortens the cgroup path in a file; otherwise files may be empty, old or cut. Both
are needed: with two runtimes a start can attach to a cgroup that another process has
deleted and created anew, and with a shortened path to another one (section 6).
A cgroup without limits belongs to a create that is under way or never ended, and
no file and no live record has it (`Kept`, `Registered`), so what is released was
attached to a cgroup with limits (`AtGate`), and a cgroup with a process in it is
not removed.

Assumptions: `WalAssumption`, `DatabaseAssumption`, `CapacityAssumption`,
`ContentAssumption`, `SizeAssumption`, `DeletedAssumption`, `EngineAssumption`,
`AdaptationAssumption`, `ContainerAssumption`, `TablesAssumption`; each says
that constants have their type or are distinct, that the clock has more values
than the pool has frames, that the default pool size is a legal one, that a page
has room for at least one entry and that the file has room for the header and
the catalog root. No proof limits the sets of names, pids, pages, contents or
faults.

Only model-checked: `LruOK`, whose queue is a filtered sequence (`SelectSeq` is
recursive, and its values are not available to the provers); `TableMapOK`,
which needs one more lemma per action about the records a step shows and is next; and
`Recovers`, `CallsEnd`, `GateOpens`, `StopHeeded`, `AskingEnds`,
`ParentStopEnds`, `Responds`, `Settles`, since liveness under fairness
is outside the proof system's reach.

## 6. Findings

1. `AppendResumes`: `Wal::Open` accepts an incomplete last record but does not
   truncate it; the next record lands behind the fragment and the log is then
   rejected. `Database::Open` resets the log first and is not affected.
2. `LogReadable`: after a failed append the record header still sits in the
   stream's buffer and closing writes it behind the partial record; a log this
   program alone has written can then be refused as corrupt.
3. `DatabaseExclusive`: a manager command is never the parent of the engine it
   stops, so its waitpid answers ECHILD at once; STOPPED is recorded and a
   database command opens the files while the engine is still flushing them.

Without a run of their own: `HeapTable::Insert` takes the pool's kBufferFull for
"no room in this page", so that with all frames pinned each failing call leaves
an unused page in the file, although heap_table.h says that it "allocates a new
data page only when no existing page can hold the record". An Insert that fails
while extending the directory leaves a valid-looking id in `*out`. With two
commands at once `Confined` and `DeletedIsDead` fail: a start that has adopted
its record can attach to a cgroup that another process has deleted and
re-created but not yet limited. A child killed between its release and its exec
closes the status pipe silently, and start reports a RUNNING container;
`NoFailedExec` therefore speaks of a reported failure only. And, because 2^64
accesses are out of reach: the victim scan starts at the largest stamp and
compares with `<`, so an unpinned page bearing that very stamp is passed over
and Fetch answers kBufferFull although `buffer_pool.h` says "every frame is
pinned". `FullMeansHeld` therefore asks for one page fewer when the clock has
reached its end.

Nor is there a run for metadata that is cut inside the `cgroup=` line: SaveMeta
checks its stream before the last flush, so a full disk goes unnoticed, and
LoadMeta takes the beginning of a path for the path. With the fault "path"
`Confined` and `DeletedIsDead` fail: a start attaches its workload to another
directory, and a delete removes that one, or finds none, which `cgroup_destroy`
counts as removed, while the workload lives on. `NoStrayChild`, `NoFailedExec`
and `KillsOwn` are proved with this fault too. A pid that is cut makes a start
refuse or a delete signal a stranger, no more. And a start that cannot read its
status pipe waits until the workload ends, so that the call lasts as long as a
running engine (process.c:679).

The engine tests `g_stop` and then calls `pause()`: a SIGTERM handled in between
is noticed only at the next signal, although README.md:50 says that the engine
stays alive until SIGTERM or SIGINT, "then flushes and closes". `StopHeeded` names the
window, `AskingEnds` and `ParentStopEnds` show what still helps. The policy
remembers its last target, so that after a resize by somebody else a request for
that same target is suppressed although the pool does not have it
(`NeverSuppressed` excludes the case). A dead band narrower than both steps makes
the capacity oscillate under a steady load (for instance thresholds 60 and 50
with steps of 3 frames and a limit of 8); `Settles` names the condition. A pool
above its share of the limit is not shrunk without pressure, and a shrink of a pool
that others made larger than max_frames may end above max_frames, although
adaptation_policy.h says "Capacity is clamped to [min_frames, max_frames]":
`StepsBounded` does not claim that.

## 7. Not modelled

Left out: process_spawn_exec, process_spawn_placeholder and process_wait, which
the container runtime does not call; the dashboard, memory_bridge.c and the reports of the
benchmark (reading, formatting and terminal I/O); the argument parsing of router and CLI,
which keeps no state and ends in one call of the manager; the mapping of
namespace flags to kernel calls (a failure in the child, and what a PID namespace
does to signals, are modelled). The runs have one manager command at a time, since
the code leaves more to its users (section 6); the proofs say what holds anyway.
Also left out: a full registry in `Manager`, since a command
adopts one container and two names fit; the pointer that `HeapTable::Get` returns
and its documented lifetime; rounding of the policy's doubles;
Windows shims, power loss, arguments rejected before any state changes
(null pointers, empty paths, invalid names), page ids near 2^32, byte layout of
log records, catalog and directory pages. `Get` and `Scan` change no state; what
they show is `Rows` in `Tables` and `Records` in `SlottedPage`.
