# TLA+ development for the SQLite 3.3.4 sources of this repository

The repository is a collection of SQL practice material. Its one large program
is the complete source of SQLite 3.3.4, kept in
`src/The_Definitive_Guide_to_SQLITE/ch01/examples/common/sqlite-source-3_3_4/`
(below: the engine; file names without a directory are files there). The rest
are short samples. The part of the engine that is hard to get right and hard to
test is its transactional core: the file locks, the page cache with its
journals, the B-tree under its cursors, and the layers that decide when a
transaction begins and ends. That core is what is modelled here.

## 1. Inventory

| component | state it keeps | operations | hard behaviour | what makes it correct |
|---|---|---|---|---|
| File locks, `os_unix.c`, `os.h` | kernel locks of each process on the pending byte, the reserved byte and the shared range; per process and file a `lockInfo` (`cnt`, `locktype`, `nRef`) and an `openCnt` (`nRef`, `nLock`, the deferred closes); per handle `locktype` | open, `unixLock`, `unixUnlock`, `unixCheckReservedLock`, `unixClose` | a request is up to three `fcntl()` calls, other processes run between them; kernel locks are per process and vanish when any descriptor is closed; crashes | exclusive means exclusive, between threads as well as between processes; counts agree with handles and kernel; a waiting writer is served |
| Windows locks, `os_win.c` | locks of a handle, `sharedLockByte`; on Windows CE counts in shared memory | the same interface | three systems, each with its own locks; a range is unlocked before it is locked otherwise | the same promise as `os_unix.c` |
| Pager, `pager.c` | `Pager` (state, sizes, flags), the cached pages with their flags, the journal and its headers, the statement journal | `sqlite3pager_get`, `_unref`, `_begin`, `_write`, `_commit`, `_rollback`, `_sync`, `pager_recycle`, `pager_playback`, `_stmt_begin/_commit/_rollback`, `_truncate`, `_movepage`, `_dont_write`, `_dont_rollback` | order of writes and syncs, hot journals, crashes and power failures, a full cache, SQLITE_BUSY half way | transactions are atomic and durable, readers see one state, write-ahead logging; each rollback gives back what there was |
| B-tree, `btree.c` | the tree of pages, the free list, overflow pages, the pointer map, cursors; `BtShared`: transaction states, table locks, counts | insert, delete, clear, cursor steps, balancing, auto-vacuum, begin, commit, rollback | cursors stand in a tree that changes; several connections on one cache | the tree stays sound, a scan meets every key that stays, table locks exclude each other |
| Commit over several files, `vdbeaux.c`, `pager.c` | master journal, its name in each journal | `vdbeCommit`, `writeMasterJournal`, `pager_delmaster` | crash between two files, two processes that recover | all files commit or none does |
| Statements and connections, `vdbe.c`, `vdbeaux.c`, `main.c`, `vdbeapi.c` | `autoCommit`, `activeVdbeCnt`, the state of each statement | `sqlite3_step`, `sqlite3_reset`, `sqlite3VdbeHalt`, the transaction opcodes | statements of one connection are suspended in each other's way; errors and refused commits | a failed statement leaves nothing, autocommit settles |
| Busy handler, `main.c` | `BusyHandler.nBusy`, `busyTimeout` | `sqlite3InvokeBusyHandler`, the default callback | retries until a time-out | total wait is bounded by the time-out |
| Process mutex, `os_unix.c` | depth, owner, two mutexes | enter, leave, query | recursion, threads | mutual exclusion, no deadlock |
| SQL compiler, functions, shell, Tcl binding | data of one connection | sequential | none of the above | out of scope |
| C API, language and mobile samples, libpq clients, server-side functions, Fourier transforms, SQL scripts | local variables | sequential | `testlibpq2.c` waits for four notifications, the MPI kernels exchange data in a fixed order | out of scope |
| pcre, kissfft | | | third-party | out of scope |

How they interact. A statement calls the B-tree; the B-tree holds page 1 through
`sqlite3pager_get()` as long as it uses the file and releases it last. The pager
calls `sqlite3OsLock()`/`sqlite3OsUnlock()` of its handle and otherwise shares
only files with the pagers of other processes: the database, the journal (found
by its name), the master journal and the directory. Several handles of one
process share the kernel locks through `lockInfo`. Several connections of one
thread may share a B-tree and its pager. The busy handler is a callback that the
pager's lock loop and the B-tree ask whether to try again.

`PROJECT.json` lists all components with their sources, every hazard at the line
where it bites, and the properties that would show it.

## 2. Modules

Each layer is checked over the promise of the one below, and shown to keep its own:

| module | what it is | refines |
|---|---|---|
| `FileLock` | what the locking layer promises: five levels, atomic transitions | |
| `UnixLock` | `os_unix.c`, every `fcntl()` a step | `FileLock` |
| `WinLock` | `os_win.c` on Windows NT, 95 and CE, every `LockFile()`, `UnlockFile()` a step | `FileLock` |
| `AtomicStore` | what the pager promises to processes: a store that changes by whole transactions | |
| `Pager` | transactions of `pager.c`, on top of `FileLock` | `AtomicStore` |
| `NestedStore` | what the pager promises to its user: a transaction with a statement in it | |
| `StmtJournal` | one transaction of `pager.c` from the inside: both journals | `NestedStore` |
| `AtomicFiles` | what a commit over several files promises: all files or none | |
| `MultiFileCommit` | `vdbeCommit()`, master journals and the recovery that follows them | `AtomicFiles` |
| `OrderedTable` | what a table or index promises: a set of keys and cursors that scan it | |
| `BTreeBalance`, `BTree` | the tree of pages of `btree.c`; how cells are laid out on siblings | `OrderedTable` |
| `SqlStore` | what transactions promise to connections of one cache | |
| `Connection` | `sqlite3_step()`, `sqlite3VdbeHalt()`, the shared B-tree's transactions | `SqlStore` |
| `FileLockProofs`, `UnixLockProofs`, `WinLockProofs`, `PagerProofs`, `PagerStore`, `StmtJournalProofs`, `ConnectionProofs`, `MultiFileProofs` | proofs | |
| `MC*` | instances for TLC, one `.cfg` per run | |

Constants that are Booleans or sets of names (`OpenFails`, `May`, `RetriesBusy`,
`ReadsLater`, ... and the fields of the Pager's `setup`) say how the environment
may behave. They separate what the code guarantees from what it does not: each
violation of section 4 needs exactly one of them.

### FileLock and UnixLock

`level[h]` of `FileLock` is the level handle `h` is entitled to; `reserved` the
handle that went through RESERVED. It allows one thing the comments of the code
do not mention: a handle may become a reader while a writer waits if its process
reads already (`os_unix.c:1298`).

`UnixLock` keeps the C structures as functions over processes (`cnt`, `procLock`,
`infoRef`; `openRef`, `nLock`, `nPending`) and over handles (`locktype`, `isOpen`).
`pc[h]` is the place of the thread using `h` inside `unixLock()` or `unixUnlock()`,
between two system calls. Code that runs under the process mutex is exclusive
within its process, so purely local code is joined to the system call next to
it; `pFile->locktype` is assigned after the mutex is left (`UnlockSetLevel` is a
step of its own). The refinement maps a handle in the middle of `unixUnlock()` to
the level it is going to, one that owns the pending byte to PENDING.

The build modelled is one whose threads share their kernel locks, as they do
without `SQLITE_UNIX_THREADS` and on systems with POSIX threads.

### WinLock

`local[h]` are the locks handle `h` has: on Windows NT the system's, with a range
that readers share; on Windows 95 the system's, where a reader locks the one
byte `byte[h]`; on Windows CE the fields of `winFile.local`, with their counts in the
memory `shared`. Handles on Windows NT and 95 may use one file together (a file
server). A request whose first call is refused changes nothing; the three
attempts for the pending byte are one. `FirstCall` and `After` give the
calls of `winUnlock()` in their order, `Undoes` what each gives up. The mapping to `FileLock` is that of `UnixLock`,
every handle being a process of its own.

### AtomicStore and Pager

`AtomicStore` has the committed content, a view per process and at most one writer:
views of readers equal the store, the writer's own view changes, a commit makes
it the store in one step while nobody else has a view, a power failure loses at
most the last commit.

`Pager` has one Pager per process. Files:

* `db` is the database file as reads see it, `disk[g]` the set of contents page
  `g` may have after a power failure; `SyncDatabase` makes the two agree.
* A journal is identified by its transaction. `linked` is the one that has the
  name `zJournal`; `linkedDisk` what the directory may show after a power
  failure. `jRecs` are its records, `jCount` those its headers count, `jSynced` and
  `jCountDisk` what of them is on the disk, `jSegment` the records under the last header.
* A page holds the number of the transaction that wrote it, 0 for zeros. The
  size in the first header is treated as a "no content" record for every page past
  it, since it is written, lost and undone together with that header.

Pager state: `st` and `dbSize` are `Pager.state` and `Pager.dbSize`; `cache`, `ref`,
`dirty`, `inJournal`, `needSync` are the `PgHdr`s; `dirtyCache`, `started`, `jfd`, `dirfd`
the fields of those names. `pc` and `task` say which call is at which step. Steps
are system calls on shared objects, in the order of the code: see the list of
lines in `PROJECT.json`. For example a commit is `Commit` (change counter, first
part of `sqlite3pager_sync`), `SyncRecords`, `WriteCount`, `SyncCount` (`syncJournal`),
`LockPending`, `LockExclusive` or `LockBusy` (`pager_wait_on_lock`), `StorePage` for each
dirty page, `SyncDatabase`, `DeleteJournal`, `Downgrade` (`pager_unwritelock`).

The variable `setup`, chosen at the start and never changed, lets one run cover
several environments. Its fields: the processes, the size of the file, the pages
there may be, the transactions, the slots of the cache (`mxPage`), and

* `fullSync`: the mode FULL of `PRAGMA synchronous`;
* `otherUsers`: after a refused EXCLUSIVE or a rollback others may go on using the
  Pager, as the cursors of a shared cache do; if not, they finish;
* `usedUnlocked`: they may do so also where the journal cannot be created, which
  leaves a Pager with pages in use and no lock (`pager.c:2875`). If not, it is rolled back
  and released. If so, every call goes on from there: `Begin`, `Write`, which opens a
  journal without RESERVED, `Commit`, `RollbackUnlocked`, and new readers;
* `retriesHot`: the same Pager is used again after SQLITE_BUSY for a hot journal;
  if not, its connection is closed;
* `powerFails`, `tornSectors`: what a failure may do to unsynced data and to a
  sector being overwritten; `afterRollback`: whether the power may fail while
  pages a rollback wrote are not yet on the disk.

Simplifications. A record whose content is not on the disk is taken to be
recognised by its checksum and skipped; the code stops at the first such record,
which is the same as long as counted records are durable, and the
setups with power failures are in full-sync mode, the default. The `dirty` mark
of a page whose `sqlite3pager_write()` could not open the journal is not kept. A
Pager used on without a lock is followed only up to a request for more than SHARED (an
assert of `os_unix.c`), the release of the last page with a journal open (one of
`pager_reset()`), and a write with no page count remembered.

### NestedStore and StmtJournal

One process and its file: what `sqlite3pager_write()` decides about the two
journals, for pages old and new, cached and recycled, free and in use. `pager` is
the Pager with its page headers (`hdr[g]`: `data`, `dirty`, `inJournal`, `needSync`,
`inStmt`, `alwaysRollback`), both journals as sequences of records, and the bitmaps
`aInJournal` and `aInStmt`; the pager's functions are operators from one such record
to the next (`Got`, `Written`, `DontWrite`, `Moved`, ...). The calls are made in the
ways `btree.c` makes them: `FreePage` (`freePage()`), `Reuse` (`allocatePage()`), `Vacuum`,
`Allocate` and `Move` (`autoVacuumCommit()` and `relocatePage()`), `Truncate`. A page also
moves to make room for a new root page, to a free page or, if there is none, to a new
one at the end (`Allocate` or `AllocateNew`, `Move`, `NewRoot`: `sqlite3BtreeCreateTable()`), and
the last root page moves to the place of one that is dropped (`DropRoot`, `Move`, `NewRoot`:
`sqlite3BtreeDropTable()`). A page on the free list has no content
anybody wants: that is what the promises `dont_write` and `dont_rollback` rest on.
A page of it past the end of the file is refused (`btree.c:3803`).

A playback is stated page by page (`Played`): a page gets the data of the last record
with its number, a page past the end of the file gets none. `sqlite3pager_sync()` is
`Sync` (the change counter), `JournalTail` for each page that will be cut off and has
no record, and `TailDone` (the journal is synced): between them the cache may recycle
and write pages, as a page is fetched each time. `MovesUnflagged` says whether a page may
move to a number whose journal flags, of the statement too, differ from its own (section 4).

Simplifications. Trunk pages of the free list count as in use. EXCLUSIVE is
granted or refused at any time (the reasons are in `Pager`). The cache is dropped at
a rollback and a crash. No further vacuum is tried after a refused one, and no page moves
to the end of the file (`AllocateNew`), where the pages it took from the free list may be.
The number that the last root page had becomes a trunk page of the free list, and is
written (`NewRoot`); where the list has room it becomes a leaf and is not, and the vacuum
that each auto-vacuum commit begins with cuts it off. DROP begins no
statement, and `DropRoot` is not called within one: it would have to be the one of an UPDATE
that has returned its count and has not ended (section 4).

### AtomicFiles and MultiFileCommit

The content of a file is the set of the transactions it contains, with `Half`
while only some pages are written. A journal is the content to go back to and the
name of a master journal; a master journal is the set of files whose journals it
names. `disk`, `jDisk` and `mDisk` say what a power failure may leave of each. A
commit is the code's list of writes, syncs and deletions: master journal and its
directory, then for each file the name in its journal, the sync, EXCLUSIVE, the
pages, the sync; the deletion of the master journal, its directory; the journals.
Recovery is `pager_playback()` with the test for the master journal, then
`pager_delmaster()`, which looks at the children one after the other without any
lock on them. The locks are those of `FileLock`, abridged (no PENDING).

Simplifications. Names of master journals are never drawn twice. What one file
goes through is in `Pager` (its journal's records are on the disk before the file
is written). A master journal that is not synced (`PRAGMA synchronous=OFF`) is not
modelled.

### OrderedTable, BTreeBalance and BTree

A page is its cells with their keys, sizes and overflow pages; sizes are bytes,
of pages small enough that three or four cells fill one. `BTreeBalance` is the
arithmetic of `balance_nonroot()` (`Pack`, then `Adjust`), `BTree` the calls that insert,
delete and clear make, down to `balance_quick`, `balance_deeper`, `balance_shallower`,
`allocatePage`, `freePage` and the entries of the pointer map; a call is a step and
`work` the stack of calls still to make, because cursors are saved and
restored between them. A cursor is VALID at a page and index, or REQUIRESEEK
with a key and a `skip`.

`OrderedTable` is a set of keys; a cursor steps to the next key beyond the one
it returned last, whatever was inserted or deleted in between.

### SqlStore and Connection

One thread, several connections on one `BtShared`, statements that are suspended
between two calls of `sqlite3_step()`. `bt` is the shared B-tree with the transaction
state of each handle, the table locks, the statement subtransaction (there is
one per `BtShared`, not per connection) and the rows on disk and in the cache; a
row carries the table and the statement that wrote it. `vdbe[s].at` is the opcode a
program has reached. Other processes show as SQLITE_BUSY when page 1 is first
read, when a write transaction begins and when it commits.

`SqlStore` has committed and working rows and the one connection that may change
them. A read-only test as in `vdbeaux.c:1213` treats a SELECT as a
statement that writes: so does the model.

## 3. Runs

Run from this directory: `tlc -workers 2 -config X.cfg MCModule`. All of them check
deadlock but those of `MCStmtJournal` and `MCBTree`, where a behaviour ends after a bounded
number of calls. Symmetry is used over processes, handles, files and statements that are
interchangeable, and never where a run checks liveness. The `VIEW` of `MCPager` leaves out the
contents of journals that have no name and that nobody has open, that of
`MCMultiFileCommit` the file and master journal a process will set before it
reads them: no action and no property depends on what they leave out.

| run | instance | checks |
|---|---|---|
| `unixlock_safety` | three handles, two of them in one process; opening may run out of memory in the other; one deferred close; kills | `TypeOK`, `Accounting`, `KernelMatches`, `AssertsHold`, `DeferredCloseIsDone`, `ReservedIsSeen`, `Exclusion`, refinement of `FileLock`, `PendingIsServed` |
| `winlock_handles` | three handles on NT, 95, a mixture or CE; two bytes a reader on 95 can draw | `TypeOK` (with the counts of CE), refinement of `FileLock`, `ReservedIsSeen`, `WriterIsServed` |
| `pager_transactions` | three environments: three processes that are killed, a file of one or two pages, a cache of one; two processes, full sync, power failures; one process, four pages, a cache of three, torn headers | `TypeOK`, `CacheIsCurrent`, `WriteAhead`, `HeaderIsFinal`, refinement of `AtomicStore` |
| `pager_recovery` | two processes, one of which comes to read after the other may have crashed; two that go on after every error but a journal that cannot be created | `JournalIsMine`, `AssertsHold`, `RecoveryCompletes` |
| `stmt_nested` | three pages, three calls; journals on disk, switched off, of a temporary file | `TypeOK`, `AssertsHold`, `SizeWritten`, refinement of `NestedStore` |
| `connection_shared` | two connections on a cache, one of them with read-uncommitted; three statements; one table beside the master table | `TypeOK`, `Integrity`, `NoDirtyRead`, `AutocommitSettles`, `StableScan`, `FailedLeavesNothing`, refinement of `SqlStore` |
| `multifile_files` | two processes, two files, two master journals; two transactions; three crashes, failures or refusals | `TypeOK`, `KnownToMaster`, refinement of `AtomicFiles` |
| `btree_table` | ten trees of one to three levels, two to four calls, keys 1 to 18, a cursor | `TypeOK`, `Sound`, `PagesAccounted`, `PointerMapTrue`, refinement of `OrderedTable` |

Bounds, and why they are enough:

* Locks. The protocol tells apart "this handle, another one of this process,
  another process": three handles in two processes are the least that have all
  three. A second deferred close, or a fourth handle, adds nothing the proofs of
  section 5 do not cover for any number. On Windows a handle is a process of its
  own; the three are a reader, a writer and one that tests for it, and two bytes are
  the least that let two readers of Windows 95 meet or miss each other.
* `Pager`. Two processes reach every state of the journal; the third is there
  for the two that race for a hot journal while one writes. A journal that comes
  back after a power failure, or is met by a reader that looked for one before, needs
  two transactions after the initial content. Two pages give a page of the file
  and one past its end; with no more of them than the two that are held, nothing is
  recycled. Only `Torn`, with one process, four pages and a cache of three, recycles
  and spills: one page can be dirty and safe while another still needs a sync, and a
  second header is written. Spills beside other processes are covered by the proofs of
  section 5 alone. `MaxTxn` bounds the transactions, `NPage` the file.
* `StmtJournal`. A page that is moved, the page it is moved to and one that
  tells whether a wrong page was touched. Every call is followed by whatever
  spills and statements there may be; `MaxCalls` = 3 lets a page be freed in one
  statement and reused in the next.
* `Connection`. Two statements of one connection meet, and one of another
  connection meets both. `MaxWrite` bounds the rows a program writes.
* `MultiFileCommit`. `MaxTxn` bounds the transactions, `MaxEvents` all kills, power
  failures, refusals and rollbacks together. Three suffice for a crash, a crash
  during the recovery, and a refusal. All transactions write both files:
  one over a single file needs no master journal.
* `BTree`. The page is 42 bytes and cells 4 to 22, so that three or four cells
  fill one and every balancing function is reached within four calls: see
  `MCBTree` for which tree is there for what. `ops` bounds the calls, `Usable`,
  `FileHeader`, `Divider` and `TrunkLeaves` are the sizes.

Fairness.

* `UnixLock`, `WinLock`: a call that has begun goes on (threads are scheduled; weak),
  a writer at PENDING asks again (the loop of `pager_wait_on_lock`, `pager.c:1928`;
  weak), and readers end their reads again and again (statements end; strong,
  because on POSIX another thread of the process may hold the mutex whenever one
  arrives, and on Windows a reader may be inside a test for RESERVED).
* `Pager`: a call that takes or gives back the lock or plays a journal back goes
  on; nothing is assumed of writers. `RecoveryCompletes` speaks of a process that
  ends its reads and comes to read again, in the end does not die inside a call,
  and in the end meets no other process: two that come again and again may meet
  each other's SHARED locks for ever, each giving up (`pager.c:2574`) after the
  other has come back. The code has nothing but the timing of these attempts
  against that.

Every property has a mutant in `PROJECT.json`: a variant of one definition, defined
beside it with a suffix (`SharedCount_Forgets`), that a slip in the C code could have
produced and under which TLC finds the property violated.

## 4. Where the code does not do what it says

Four runs expect a violation. Each checks one statement of a comment of the
code; TLC's counterexample is a behaviour of the code.

| run | statement | behaviour |
|---|---|---|
| `pager_empty_database` | on an empty file `hasHotJournal()` deletes "an old journal" (`pager.c:2325`) | another process may have created the journal since the test for RESERVED |
| `multifile_retried` | the master journal makes the commit atomic (`vdbeaux.c:974`) | a COMMIT that is refused and repeated makes a second master journal, while the file prepared first keeps the name of the first |
| `stmt_moved` | a rollback reverts all pages (`pager.c:3298`) | a page moved by `sqlite3pager_movepage()` keeps the flags of its old number. Not in the journal there, at a number that is, it is journaled a second time when it is next written, and the later record wins (TLC's counterexample); the statement journal gets second records in the same way (`inStmt`); a page that keeps `needSync` is passed over by a rollback at its new number (`pager.c:1020`) |
| `btree_root_splits` | the pointer map says who refers to an overflow page (`btree.c:793`) | `balance_deeper()` forgets the cells that did not fit on the root |

These configurations show more of them; they are kept outside the list of runs:

| configuration | property | behaviour |
|---|---|---|
| `MCUnixLock_openFails` | `LocksSurviveClose` | `findLockInfo()` runs out of memory and the descriptor is closed at once: the process loses its locks (`os_unix.c:725`) |
| `MCWinLock_readsOn` | `Exclusion` | after a refused COMMIT the handle has no read lock, and goes back from PENDING to SHARED without taking one |
| `MCWinLock_recovers` | `ReadLockComesBack` | with EXCLUSIVE taken without the pending byte, for a hot journal, a newcomer may get in before the read lock is taken again (`os_win.c:1185`: "This should never happen") |
| `MCPager_sharedCache` | `CacheIsCurrent` | after a rollback in EXCLUSIVE the cache keeps pages of the transaction: `pager_reload_cache()` cannot be reached |
| `MCPager_afterRollback` | `PowerFailureKeepsCommits` | a playback deletes the journal before the file it wrote is synced (`pager.c:1341`) |
| `MCPager_unlockedAsserts`, `MCPager_unlocked` | `AssertsHold`, `JournalIsMine` | the journal cannot be created: `pager_open_journal()` gives up the lock with pages in use (`pager.c:2875`). The next `sqlite3pager_begin()` or `sqlite3pager_write()` of another user fails the assert at `pager.c:2913` or `2990`; without asserts the write opens a journal at `2996` with no RESERVED lock, also beside a writer in another process |
| `MCPager_staleSize` | `CacheIsCurrent` | the page count is remembered across SQLITE_BUSY for a hot journal |
| `MCPager_refused` | `HeaderIsFinal`, `PowerFailureKeepsCommits` (with `-continue`) | a COMMIT that is refused EXCLUSIVE has synced the journal, and no new header follows (`pager.c:2361` starts one only in `pager_recycle()`); if the transaction goes on, spills a page and journals another, the count is written again in the header the spilled page depends on, which `pager.c:2368` means to avoid; if the power fails then and tears the header, the spilled page is not restored |
| `MCBTree_readsLater`, `MCBTree_emptied` | refinement of `OrderedTable` | a column read after its row was deleted is the neighbour's; in a table that became empty the cursor steps back from nothing |
| `MCConnection_resetBusy` | `AutocommitSettles` | a commit refused inside `sqlite3_reset()` leaves the transaction open (`vdbeaux.c:1351`) |
| `MCConnection_failsBeside` | `FailedLeavesNothing` | in autocommit, beside another active statement, there is no subtransaction to undo (`vdbe.c:2323`) |

The passing runs exclude these cases by the constants named there, and so say
what is true of the code without them. Seen while reading, and left in the
models as the code has it:

* There is one statement subtransaction per `BtShared`, not per connection.
* `vdbeaux.c:1213` asks whether a statement was read-only by looking for
  OP_Transaction, which every SELECT has: an error of memory or I/O in a SELECT
  rolls the transaction back.
* `pager_delmaster()` leaves the master journal when it cannot open a child; a
  refused commit and a rollback leave theirs.
* `sqlite3BtreeDelete()` reads `pCur->pPage` before it restores the cursor,
  `checkReadLocks()` reads it of cursors that have none, `clearDatabasePage()` reads
  the right child of page 1 without the offset of the file header.
* `sqlite3BtreeDropTable()` moves the last root page without `sqlite3pager_write()`
  (`btree.c:5716`), unlike `sqlite3BtreeCreateTable()`: within a statement, the statement
  journal would not have it.
* A `skip` that a cursor kept from an earlier restore survives `sqlite3BtreeFirst()`.
* An auto-vacuum commit that is refused forgets how many pages to cut off.
* A test for RESERVED on Windows takes the byte it tests and so may meet
  another test (`os_win.c:1152`); a process killed on Windows CE leaves its counts.
* A process that already reads gets more readers while a writer waits, in
  contrast to the comment on PENDING (`os_unix.c:1227`).

## 5. Proofs

Proved with TLAPS for every set of processes and handles. Assumed are only the
named assumptions of the modules (each handle lives in one process, handles are
finitely many, as are connections and statements, `May` is a subset of `Other`), which TLC evaluates in the runs.

`FileLockProofs`. `FileLock` implies `Exclusion`. The invariant adds that the one handle in
`reserved` has a level of RESERVED or more, and that a handle at RESERVED or more
is in it.

`UnixLockProofs`: `TypeOK`, `AssertsHold`, `Accounting`, `DeferredCloseIsDone` and
`ReservedIsSeen`. Types alone are not inductive: that `cnt`
stays a natural number needs the count. `LInv` says, process by process, how `cnt` and
`nLock` relate to the number of handles that hold a lock, at each place a thread can be
inside a call, and which handle gives `procLock` its value. The mutex
(`MutexFree`) makes at most one handle of a process stand inside.
`AInv` adds to `LInv` that the top level of a process is held by one of its
handles (`TopIsHeld`) and that a deferred close waits for a lock (`DeferredWait`).
All of it holds also when opening the file fails.

The second half of `UnixLockProofs`: the refinement of `FileLock`, with it `Exclusion`, and
`KernelMatches`. Here the
invariant is extended by what kernel locks say of levels: every level is backed
by kernel locks, those of different processes do not conflict, and within
a process the strongest handle alone is above SHARED. Every action is then a
step of `FileLock` or a stutter. `KernelKnown` says what the kernel has for a process
outside a call and at each place within one. This half assumes
`OpenFails = {}`: otherwise the statements are false (`MCUnixLock_openFails`).

`WinLockProofs`: `TypeOK`, the refinement of `FileLock`, `ReservedIsSeen`, `ReadLockComesBack`.
`IInv` is the conjunction of the types, one machine for Windows CE (`OneMachine`), what the
shared memory counts (`Counts`), that granted locks are compatible (`Compatible`), that a
writer is alone (`WriterAlone`), and for each place inside a call which locks the
handle has (`Locking`, `Unlocking`). It is inductive for `May = {}`; with "recovers" or
"readsOn" two of the statements are false (section 4). "killedOnCE" breaks the counts.

`PagerProofs`: `TypeOK`, for any processes, any `NPage` and `MaxTxn` and every situation
`SetupAssumption` allows; `AssertsHold` and `JournalIsMine` for all but those with `usedUnlocked`
(`StopWithoutJournal`), in which both are false (section 4). `IInv` adds to the types:
`Levels` (`Pager.state` against the lock), `Exclusive` (what `FileLock` guarantees of the
locks, with one RESERVED), `Place` (for each value of `pc` the call, the state and whether a
journal is open, also of a Pager that has lost its lock), `Flags` (flags are of cached pages
and of an open journal; the page to be read is not cached; page 1 is held while anything
is; some page is held in a transaction that is not a recovery) and `Numbered` (numbers of
transactions begin after that of the initial content). `LInv` adds what is true where nobody
uses a Pager without a lock (`Kept`): a Pager with no lock has no journal, and if pages are in
use it is one whose journal could not be created and nothing but a rollback and their
release is done with it. `AssertsHold` follows from `LInv`.
`JournalIsMine` needs more, `NeverEmpty`: page 1 is never found empty, in the file, in a
cache or in a journal, so that `hasHotJournal()` never takes its way of deleting a journal
without a lock. It is assumed that the file had a page at first; otherwise the statement
is false (`pager_empty_database`).

`PagerStore`: `WriteAhead`, `CacheIsCurrent` and `HeaderIsFinal`, which are about what files,
journals and caches contain. They hold where the code keeps its promises. `Ordinary` says
where that is; what it leaves out are the cases section 4 shows:

* the file had a page at first, as above;
* nobody else goes on using a Pager after an error (`usedUnlocked` is left out, too) or a
  rollback, and a Pager that
  met SQLITE_BUSY for a hot journal is closed (`MCPager_sharedCache`, `MCPager_staleSize`);
* the power fails only in full-sync mode, and not between a playback and the
  next sync of the file (`MCPager_afterRollback`);
* sectors are torn only in a file with one user (`MCPager_refused`). `HeaderIsFinal` itself
  assumes one user in full-sync mode, for the same reason.

Crashes and power failures at any step are included. The invariant `Inv` is `LInv`,
`NeverEmpty` and `Sound`. Of every journal whose name a power failure may show, `Sound` says
that the records of all pages the file changed, or may lose a change of, are durable
(`Guarded`), and that with them the file has a size (`Whole`); that an unsynced page means that
the journal's name is on the disk and no other (`OnlyName`). Of each process it says
how flags, records and headers agree in a live transaction (`Lives`: `Journaled`, `Synced`,
`Changing`, `Fresh`), what a playback has still to do (`Plays`), that a size
remembered is right (`Knows`), that there is a cache only under a lock (`Holds`), that clean
pages are those of the file (`Reads`), and that who is past the test for a hot journal reads a
file that needs no playback (`Found`). None of the three properties is inductive by itself:
`CacheIsCurrent` after a recovery rests on the records of a process that
died, and those on the flags of its pages. TLC checked `Inv` on the situations of
`pager_transactions` before it was proved. There is a lemma for each action.

The second half of `PagerStore`: `Pager` implements `AtomicStore`, where `Ordinary` holds. `Store`, what a
reader would find after recovery, is `store`; `Sees(p)` is what process p reads. The
invariant says enough of the files for most steps: a page is only written where a journal
restores it (`Guarded`), so `Store` stays the same; a journal is deleted with the file synced,
so what was the writer's view becomes the store, and nobody else has a view then. A power
failure needs one fact more, `History`: each journal whose name it may show
stands for the store, or for the store before the last commit. The steps are mapped thus:

| `Pager` | `AtomicStore` |
|---|---|
| the first page of a read (`GetFirst`) | `StartRead` |
| the last page given back, a rollback or failure that drops the cache | `EndRead` |
| the journal is opened, or the first change of a commit without one | `StartWrite` |
| a page is changed, the change counter too | `Write` |
| the journal of a commit is deleted | `Commit` |
| the lock goes back to SHARED after a commit | `EndWrite` |
| a crash | `EndRead`, or nothing if p was not reading |
| a power failure | `PowerFail` |
| locks, syncs, spills, playback, recovery, records of the journal | nothing |

So a spill, a playback that is killed and a recovery by another process are invisible to
every reader. The same lemmas show `PowerFailureKeepsCommits`: a power failure loses at
most the last commit, and never a part of one.

`StmtJournalProofs`: `TypeOK`, `AssertsHold`, `SizeWritten`, and that `StmtJournal` implements
`NestedStore`, for any number of pages and calls and for each mode. The invariant `IInv`
says of every page (`PageGood`)

* what its flags are worth: one that is dirty or waits for the journal says so to the
  pager, one that waits is in the journal (`FlagsAt`);
* that the bitmap `aInJournal` knows every record, and that a page in it has a record or
  was free when the transaction began; the same of `aInStmt` (`BitmapAt`, `StmtBitmapAt`);
* where its content at the beginning of the transaction is: in a record that is counted, or
  in the file, which is written at that page only when such a record is
  there (`OriginalAt`); the same of its content at the beginning of the statement, which may
  also be in the cache (`StmtOriginalAt`);
* that a free page can do without: it was free before, has a record, or has the flag
  `alwaysRollback`, for which `dont_rollback()` does nothing (`FreeAt`);
* that a page that is not dirty is as in the file (`CleanAt`).

Of the whole it says how the sizes relate (`Sizes`; `LastPage`: the last page is in the
file or dirty, so that a commit leaves a file of the right size), what there is without
a journal and without a statement (`NoJournal`, `Statement`), and what a call of several
steps has done at each of them (`Doing`). Neither the refinement nor `AssertsHold` is inductive alone: that a
statement can be rolled back rests on the bitmaps, these on the pages of the free list that
were left out of a journal, and those on what the caller wants of them, now and at the
mark. TLC checked `IInv` on the instance of `stmt_nested` first. There is a lemma for each
function of the pager (`Got`, `Written`, `DontWrite`, `DontRollback`, ...), which says what it
leaves and that it keeps `Good`, and one for each action. The steps are mapped thus:

| `StmtJournal` | `NestedStore` |
|---|---|
| a page is written, freed, reused or made a root (`Write`, `FreePage`, `Reuse`, `NewRoot`), made room for (`AllocateNew`) or cleared (`DropRoot`), the change counter (`Sync`) | `Change` |
| `Move` | `Move` |
| `Truncate` | `Truncate`, or nothing where nothing is cut off |
| `Begin`, `BeginStmt`, `CommitStmt`, `RollbackStmt`, `Commit` | the same |
| `Rollback`, and a crash with the recovery by another process | `Rollback` |
| a page is taken from the free list to be overwritten, cut off pages are journaled, syncs, recycling, spills, the writing of the file, a refusal | nothing |

The theorems assume `~MovesUnflagged`, as `stmt_nested` does; without it the refinement is false
(`stmt_moved`).

`ConnectionProofs`: all the properties of `Connection`, for any connections, statements and
tables. The invariant `IInv` has four groups of conjuncts:

* where each statement can be, with what and in which thread (`Control`), and what it has
  there of the transaction and of the table locks of its connection (`Holds`);
* the locks against each other and against the transactions (`Compatible`), the `BtShared`
  as the summary of its handles (`Summary`), the two counts (`Begun1`, `Counts`), and a
  transaction in autocommit mode has an active statement (`Settles`);
* the subtransaction is that of the running write, outside autocommit, and holds only
  rows of its table, on which no query has a cursor (`Subtransaction`, `Writing`);
* rows that are not committed are under a write lock of the one writer (`Dirty`), and
  an unfinished write's rows are only in the cache, and only while it runs or
  waits to commit (`Ids`).

None of the properties is inductive alone. `NoDirtyRead` needs `Dirty` with `Compatible`
and `Holds`. `StableScan` also has to know that a subtransaction that is rolled back touches
no table anyone reads, `Integrity` needs `Holds`: page 1 is released with the last
transaction, and no cursor is left without one. Two more invariants
are kept beside `IInv`: `Undoable`, for `FailedLeavesNothing` (a
failing write is the last active statement of its connection or has a
subtransaction), and `Opened`, for the refinement (rows are put through an open cursor).

`Connection` implements `SqlStore` with `disk` as the committed rows, `cache` without the
rows of the statement in progress as the working rows, and the connection that writes as the
owner. The first `OP_Transaction` of a write and its end are an `Execute`, a commit is a
`Commit`, a rollback and a close that rolls back a `Rollback`, and the rest is nothing: also
rows put one by one, and a statement that fails half way and is undone.

The theorems assume `~CountChanges` and `~BusyOnReset`, as the run does. With
PRAGMA count_changes a write returns a row before `OP_Halt` and another statement runs in
between: `Integrity`, `StableScan` and the refinement are then false. With a reader of
another process that refuses the commit inside `sqlite3_reset()`, `Integrity` and
`AutocommitSettles` are (`MCConnection_resetBusy`). For the other properties TLC finds no
counterexample there, and the proofs do not cover them. `FailedLeavesNothing` assumes
`~FailsBesideOthers`, without which it is false (`MCConnection_failsBeside`).

`MultiFileProofs`: `TypeOK` and `KnownToMaster` of `MultiFileCommit`, for any processes, files
and names of master journals, with COMMITs repeated after SQLITE_BUSY and power failures at
any time. The invariant `Base` says of what may be on the disk what `KnownToMaster` says of
what is there (`Named`): a journal that may be on the disk names a master journal whose
every possible content lists its file, or that may be gone. It needs to know that a process
that prepares has such a master journal itself (`Knows`), that names of master journals are
not used twice, who owns a journal (`Owns`, `Locks`), and where each process can be
(`Place`). `AbsentAssumption` of the module says only that the model value for "no file" is
neither a journal nor a list of files.

Where no COMMIT is repeated after SQLITE_BUSY (`~RetriesBusy`) and the power does not fail
between a recovery and the next sync of what it did (`~AfterRollback`), `MultiFileCommit`
implements `AtomicFiles`, and a transaction is in all of its files or in none
(`AllOrNothing`). With a COMMIT repeated `AllOrNothing` is false (`multifile_retried`); with a
power failure after a recovery TLC finds the refinement violated in 15 steps, as
`MCPager_afterRollback` does for one file. `Store`, what the files would contain if every
process died now, is `store`. The invariant `IInv` adds to `Base`

* which transactions there can be, one process for each, and that a file contains only
  those that span it (`Txns`);
* what is written and synced at each step of a commit (`Prepares`, `Prepared`), that the
  master journal of a commit is there and nobody else's (`HasMaster`) until it is gone for
  good (`Finishes`), and the same of a playback and of `pager_delmaster()` (`Writes`,
  `Restores`): the children it has looked at do not name its master journal;
* that who has a lock below EXCLUSIVE finds the file as it is to be read (`Reads`, `Quiet`);
* what a power failure finds: the file as it is, or a durable journal that is sure to be
  played back (`Guarded`), or a journal that takes back the last commit, alone or with all the
  files of that commit (`Loses`, `Lone`).

The last is why a commit over several files cannot be lost in one of them. While the
deletion of the master journal may not be on the disk, the journals of all its files are on
the disk and nothing else of that name is (`Lone`); the directory is synced before the first
of them goes (`SyncDirectory`), after which none of them takes anything back. The steps are
mapped thus:

| `MultiFileCommit` | `AtomicFiles` |
|---|---|
| COMMIT is called (`CommitOne`, `CreateMaster`) | `Prepare` |
| the master journal is deleted, or the one journal of a commit without one | `Commit` |
| ROLLBACK, a crash | `Abandon`, or nothing where nothing was to commit |
| a power failure | `PowerFail` |
| journals, locks, pages, syncs, playback, `pager_delmaster()` | nothing |

TLC checked `IInv` on an instance with two processes, files and master journals before it
was proved.

Only model-checked: liveness (`PendingIsServed`, `WriterIsServed`, `RecoveryCompletes`), which
needs fairness and ENABLED; and all of `BTree`, which has recursive operators, out of the
prover's reach.

## 6. Not modelled, and the plan

In the order of the plan:

1. I/O errors: `errCode`, a rollback that fails half way, a disk that is full. They touch
   every step of `Pager` and `StmtJournal` and multiply their states.
2. The recursive mutex of `os_unix.c:1738-1791`, taken as mutual exclusion by `UnixLock`.
3. The busy handler's delays (`main.c`): their sum against the time-out.
4. A commit over several files that is refused, goes on with changes and is
   repeated, on top of `StmtJournal`.
5. Pure algorithms over bounded inputs: the varint codec, the LIKE matcher,
   `sqlite3_complete()`.
6. Proofs about `BTree`, with its walks over the tree as functions on a finite set of pages
   instead of recursive operators.

Left out for good: SQL compilation and the opcodes that work on data only
(sequential, no protocol), in-memory databases, reading corrupt files, the
samples and scripts (no state that outlives a call), numerical code, third-party
and generated code, and synchronous modes below FULL under power failures, for
which the code promises no recovery.
