------------------------------- MODULE Pager -------------------------------
(***************************************************************************)
(* The transactions of SQLite 3.3.4 on one database file (pager.c): the    *)
(* page cache, the rollback journal, hot journals, crashes and power       *)
(* failures.                                                               *)
(*                                                                         *)
(* Several processes use the file, each through one Pager; the file locks  *)
(* are those of module FileLock, with one handle per process.  Every       *)
(* system call on a shared object (a lock, the database file, the journal, *)
(* the directory) is a step of its own; the caller's use of the Pager      *)
(* follows btree.c: page 1 is held while anything is, pages are written    *)
(* inside a transaction, and page 1 is released last and outside one.      *)
(*                                                                         *)
(* Data: a page holds the number of the transaction that wrote it, 0 where *)
(* there are only zeros or no page.  A transaction journals a page once,   *)
(* so its journal is the set jRecs of journaled pages with their content   *)
(* jOrig.  The size of the database in the first header plays the part of  *)
(* a record "no content" for every page past it: both are undone together. *)
(* A record takes part in a rollback when a header counts it (jCount).     *)
(***************************************************************************)
EXTENDS Integers, FiniteSets

CONSTANTS Proc,          \* the processes, each with a Pager on the file
          NoProc,
          NPage,         \* bound: pages a database may grow to
          MaxTxn,        \* bound: number of the last transaction
          Setups         \* the situations the file may be used in (SetupAssumption)

ASSUME SizeAssumption == NPage \in Nat \ {0} /\ MaxTxn \in Nat \ {0}
ASSUME ProcAssumption == NoProc \notin Proc
ASSUME SetupAssumption == Setups \subseteq
    [users : SUBSET Proc,      \* the processes that use the file
     size : 0 .. NPage,        \* the number of pages it has at first
     pages : 1 .. NPage,       \* bound: pages it may grow to
     txns : 1 .. MaxTxn,       \* bound: number of the last transaction
     mxPage : Nat,             \* Pager.mxPage, cache slots above which pages are recycled
     fullSync : BOOLEAN,       \* Pager.fullSync
     otherUsers : BOOLEAN,     \* may others go on using the Pager after a BEGIN that failed
                               \*   or a rollback (other cursors, a shared cache)?
     usedUnlocked : BOOLEAN,   \* may they when the Pager lost its lock because no journal
                               \*   could be created?
     retriesHot : BOOLEAN,     \* may the Pager be used again after SQLITE_BUSY for a
                               \*   hot journal, or is it closed?
     powerFails : BOOLEAN,     \* may the power fail ...
     afterRollback : BOOLEAN,  \*   ... before a rolled-back file is on the disk?
     tornSectors : BOOLEAN]    \* may it leave a header half written?

Page == 1 .. NPage
Initial == 1                    \* wrote the pages the database has at first
Txn == Initial .. MaxTxn
Content == 0 .. MaxTxn
NotCached == -1
NoJournal == 0
NoSize == -1

VARIABLES
    setup,              \* the situation, which no step changes
    level, reserved,    \* the file locks (module FileLock)
    db,         \* the database file, as reads return it
    disk,       \* disk[g]: what page g may be found to be after a power failure
    linked,     \* the transaction whose journal has the name zJournal
    linkedDisk, \* what the name may refer to after a power failure
    undone,     \* pages a rollback wrote, not yet synced when its journal went
    jOrig, jSize,       \* of each transaction: original pages, database size
    jRecs, jSynced,     \* pages with a record in the journal; on the disk
    jCount, jCountDisk, \* the records its headers count; on the disk
    jSegment,   \* the records under the last header
    st, dbSize, \* Pager.state, Pager.dbSize
    cache,      \* cache[p][g]: content of page g in the cache of p
    ref,        \* pages with PgHdr.nRef > 0
    dirty, inJournal, needSync,     \* pages with that flag
    dirtyCache, started, jfd,       \* Pager.dirtyCache, journalStarted, jfd
    dirfd,      \* the directory of the journal is still to be synced
    pc, task,   \* the next step of p, and the call it is in
    want,       \* the page sqlite3pager_get() makes room for
    todo,       \* pages pager_playback() has still to restore
    nextTxn, before     \* history: the next transaction, the store before the last commit

locks == <<level, reserved>>
files == <<db, disk, undone>>
names == <<linked, linkedDisk>>
journals == <<jOrig, jSize, jRecs, jSynced, jCount, jCountDisk, jSegment>>
pagers == <<st, dbSize>>
flags == <<dirty, inJournal, needSync, dirtyCache, started, jfd, dirfd>>
pages == <<cache, ref>>
rest == <<want, todo, nextTxn, before>>
vars == <<locks, files, names, journals, pagers, pages, flags, pc, task, rest>>

Lock == INSTANCE FileLock WITH Handle <- Proc, ProcOf <- [p \in Proc |-> p]

-----------------------------------------------------------------------------
(* Reading the state.                                                      *)

Size(file) ==
    CHOOSE n \in 0 .. NPage :
        /\ n > 0 => file[n] # 0
        /\ \A g \in Page : g > n => file[g] = 0

\* The pages a playback of the journal of t restores, and their content.
Restored(t) == jCount[t] \cap jRecs[t]
Playback(file, t) ==
    [g \in Page |-> IF t # NoJournal /\ g \in Restored(t) THEN jOrig[t][g]
                    ELSE file[g]]

\* What the database would contain if every process died now.
Store == Playback(db, linked)

Cached(p) == {g \in Page : cache[p][g] # NotCached}
Free_Referenced(p) == Cached(p)
Free(p) == Cached(p) \ ref[p]
\* sqlite3pager_pagecount(): the number of pages is remembered, if there is a lock.
PageCount(p) == IF dbSize[p] = NoSize THEN Size(db) ELSE dbSize[p]
Counted(p) == dbSize' = [dbSize EXCEPT ![p] = IF st[p] = "unlock" THEN @ ELSE PageCount(p)]
ForgetSize(p) == dbSize' = [dbSize EXCEPT ![p] = NoSize]
FromFile(p, g) == IF g <= PageCount(p) THEN db[g] ELSE 0

\* What p gets when it asks for page g.
Sees(p) == [g \in Page |-> IF g \in Cached(p) THEN cache[p][g] ELSE FromFile(p, g)]

Calls(p) == pc[p] = "idle" /\ ref[p] # {}      \* p may call the Pager
Writing(p) == Calls(p) /\ jfd[p] # NoJournal    \* even with no lock (CannotOpenJournal)
AfterError == IF setup.otherUsers THEN "idle" ELSE "failed"

Goto(p, label) == pc' = [pc EXCEPT ![p] = label]
Doing(p, call) == task' = [task EXCEPT ![p] = call]
Locked(p, label) == IF st[p] = "exclusive" THEN label ELSE "lock"
Syncing(p) == IF setup.fullSync THEN "syncData" ELSE "writeCount"

NoPages == [g \in Page |-> NotCached]

Init ==
    /\ Lock!Init
    /\ setup \in Setups
    /\ db = [g \in Page |-> IF g <= setup.size THEN Initial ELSE 0]
    /\ disk = [g \in Page |-> {db[g]}]
    /\ undone = {}
    /\ linked = NoJournal /\ linkedDisk = {NoJournal}
    /\ jOrig = [t \in Txn |-> [g \in Page |-> 0]] /\ jSize = [t \in Txn |-> 0]
    /\ jRecs = [t \in Txn |-> {}] /\ jSynced = jRecs
    /\ jCount = jRecs /\ jCountDisk = jRecs /\ jSegment = jRecs
    /\ st = [p \in Proc |-> "unlock"]
    /\ dbSize = [p \in Proc |-> NoSize]
    /\ cache = [p \in Proc |-> NoPages]
    /\ ref = [p \in Proc |-> {}]
    /\ dirty = ref /\ inJournal = ref /\ needSync = ref /\ todo = ref
    /\ dirtyCache = [p \in Proc |-> FALSE]
    /\ started = dirtyCache /\ dirfd = dirtyCache
    /\ jfd = [p \in Proc |-> NoJournal]
    /\ pc = [p \in Proc |-> "idle"]
    /\ task = [p \in Proc |-> "none"]
    /\ want = [p \in Proc |-> 1]
    /\ nextTxn = Initial + 1
    /\ before = db

-----------------------------------------------------------------------------
(* sqlite3pager_get(), when no page is referenced: take the SHARED lock and *)
(* see whether a journal was left behind.                                   *)

LockShared(p) ==
    /\ p \in setup.users /\ pc[p] = "idle" /\ ref[p] = {}
    /\ Lock!GetShared(p)
    /\ st' = [st EXCEPT ![p] = "shared"]
    /\ Goto(p, "exists")
    /\ UNCHANGED <<dbSize, files, names, journals, flags, pages, task, rest>>

\* hasHotJournal(): the journal exists, ...
JournalExists(p) ==
    /\ pc[p] = "exists"
    /\ Goto(p, IF linked = NoJournal THEN "first" ELSE "reserved?")
    /\ UNCHANGED <<locks, files, names, journals, flags, pages, pagers, task, rest>>

\* ... nobody has RESERVED, ...
CheckReserved(p) ==
    /\ pc[p] = "reserved?"
    /\ Goto(p, IF reserved # {} THEN "first" ELSE "size")
    /\ UNCHANGED <<locks, files, names, journals, flags, pages, pagers, task, rest>>

\* ... and the database is not empty.  If it is, the journal is deleted.
Unlink_NameStays == UNCHANGED <<names, undone>>
Unlink ==
    /\ linked' = NoJournal
    /\ linkedDisk' = linkedDisk \cup {NoJournal}
    /\ undone' = undone \cup {g \in Page : disk[g] # {db[g]}}

JournalIsHot_Unlocked(p) ==
    /\ pc[p] = "size" /\ PageCount(p) > 0 /\ Counted(p)
    /\ Goto(p, "openHot") /\ Doing(p, "hot")
    /\ UNCHANGED <<locks, files, names, journals, flags, pages, st, rest>>
JournalIsHot(p) ==
    /\ pc[p] = "size" /\ PageCount(p) > 0 /\ Counted(p)
    /\ Goto(p, "lock") /\ Doing(p, "hot")
    /\ UNCHANGED <<locks, files, names, journals, flags, pages, st, rest>>

DeleteOldJournal(p) ==
    /\ pc[p] = "size" /\ PageCount(p) = 0 /\ Counted(p)
    /\ Unlink
    /\ Goto(p, "first")
    /\ UNCHANGED <<locks, db, disk, journals, flags, pages, st, task, rest>>

\* With EXCLUSIVE the journal is opened, and its first header read: the
\* file is truncated to the size it had.  If there is no journal any more
\* all locks are given up: SQLITE_BUSY.
OpenHotJournal(p) ==
    /\ pc[p] = "openHot" /\ linked # NoJournal
    /\ jfd' = [jfd EXCEPT ![p] = linked]
    /\ Goto(p, "truncate")
    /\ UNCHANGED <<locks, files, names, journals, pages, pagers, task, rest,
                   dirty, inJournal, needSync, dirtyCache, started, dirfd>>

GiveUp(p) ==
    /\ Lock!Release(p, Lock!NO_LOCK)
    /\ st' = [st EXCEPT ![p] = "unlock"]

\* sqlite3OsUnlock() without a lock changes nothing.
LetGo(p) == IF st[p] = "unlock" THEN UNCHANGED <<locks, st>> ELSE GiveUp(p)

\* The remembered size stays, unless the caller closes the Pager.
BusyForHot(p) ==
    /\ GiveUp(p)
    /\ IF setup.retriesHot THEN UNCHANGED dbSize ELSE ForgetSize(p)

NoHotJournal(p) ==
    /\ pc[p] = "openHot" /\ linked = NoJournal
    /\ BusyForHot(p)
    /\ Goto(p, "idle") /\ Doing(p, "none")
    /\ UNCHANGED <<files, names, journals, flags, pages, rest>>

Fetched(p, g, c) == [c EXCEPT ![g] = FromFile(p, g)]

\* The journal is dealt with: page 1 is read.
GetFirst(p) ==
    /\ pc[p] = "first"
    /\ cache' = [cache EXCEPT ![p] = Fetched(p, 1, @)]
    /\ ref' = [ref EXCEPT ![p] = {1}]
    /\ Counted(p)
    /\ Goto(p, "idle") /\ Doing(p, "none")
    /\ UNCHANGED <<locks, files, names, journals, flags, st, rest>>

-----------------------------------------------------------------------------
(* sqlite3pager_get() and sqlite3pager_unref() once a page is referenced.  *)

\* A page in the cache, or read into a new slot of it.
Get(p, g) ==
    /\ Calls(p) /\ g \notin ref[p] /\ g <= setup.pages
    /\ \/ g \in Cached(p) /\ UNCHANGED <<cache, dbSize>>
       \/ /\ g \notin Cached(p)
          /\ Cardinality(Cached(p)) < setup.mxPage \/ Free(p) = {}
          /\ cache' = [cache EXCEPT ![p] = Fetched(p, g, @)]
          /\ Counted(p)
    /\ ref' = [ref EXCEPT ![p] = @ \cup {g}]
    /\ UNCHANGED <<locks, files, names, journals, st, flags, pc, task, rest>>

\* pager_recycle(): the cache is full.  If every free page would need its
\* journal record synced first, the journal is synced.
GetFull(p, g) ==
    /\ Calls(p) /\ g \notin Cached(p) /\ g <= setup.pages
    /\ Cardinality(Cached(p)) >= setup.mxPage /\ Free(p) # {}
    /\ want' = [want EXCEPT ![p] = g]
    /\ Doing(p, "recycle")
    /\ Goto(p, IF Free(p) \subseteq needSync[p] THEN Syncing(p) ELSE "recycle")
    /\ UNCHANGED <<locks, files, names, journals, pagers, pages, flags, todo, nextTxn, before>>

\* The slot of page g becomes that of the wanted page.  What is remembered
\* of g is only whether a page of the original file is in the journal.
Replace(p, g) ==
    /\ cache' = [cache EXCEPT ![p] = Fetched(p, want[p], [@ EXCEPT ![g] = NotCached])]
    /\ ref' = [ref EXCEPT ![p] = @ \cup {want[p]}]
    /\ inJournal' = [inJournal EXCEPT ![p] =
                        IF jfd[p] # NoJournal /\ g <= jSize[jfd[p]] THEN @ ELSE @ \ {g}]
    /\ Counted(p)
    /\ want' = [want EXCEPT ![p] = 1]
    /\ Goto(p, "idle") /\ Doing(p, "none")

Recyclable_Unsynced(p) == Free(p)
Recyclable(p) == Free(p) \ needSync[p]

RecycleClean(p) ==
    /\ pc[p] = "recycle"
    /\ \E g \in Recyclable(p) \ dirty[p] : Replace(p, g)
    /\ UNCHANGED <<locks, files, names, journals, st, dirty, needSync, dirtyCache,
                   started, jfd, dirfd, todo, nextTxn, before>>

RecycleDirty(p) ==
    /\ pc[p] = "recycle"
    /\ Recyclable(p) \cap dirty[p] # {}
    /\ Goto(p, Locked(p, "spill"))
    /\ UNCHANGED <<locks, files, names, journals, pagers, pages, flags, task, rest>>

WritePage(g, c) ==
    /\ db' = [db EXCEPT ![g] = c]
    /\ disk' = [disk EXCEPT ![g] = @ \cup {c}]

\* A dirty page is written to the file, and its slot used.
Spill(p) ==
    /\ pc[p] = "spill"
    /\ \E g \in Recyclable(p) \cap dirty[p] :
          /\ WritePage(g, cache[p][g])
          /\ dirty' = [dirty EXCEPT ![p] = @ \ {g}]
          /\ Replace(p, g)
    /\ UNCHANGED <<locks, undone, names, journals, st, needSync, dirtyCache,
                   started, jfd, dirfd, todo, nextTxn, before>>

EmptyCache_Kept(p) == cache
EmptyCache(p) == [cache EXCEPT ![p] = NoPages]

\* The last reference takes the cache and the locks with it (pager_reset()).
Unref(p, g) ==
    /\ pc[p] \in {"idle", "failed"} /\ g \in ref[p]
    /\ g = 1 => ref[p] = {1} /\ jfd[p] = NoJournal
    /\ ref' = [ref EXCEPT ![p] = @ \ {g}]
    /\ IF g # 1
       THEN UNCHANGED <<locks, pagers, cache, pc>>
       ELSE /\ cache' = EmptyCache(p)
            /\ ForgetSize(p)
            /\ LetGo(p)
            /\ Goto(p, "idle")
    /\ UNCHANGED <<files, names, journals, flags, task, rest>>

-----------------------------------------------------------------------------
(* Write transactions.                                                     *)

\* sqlite3pager_begin(): RESERVED, with exFlag EXCLUSIVE, then the journal.
Begin(p, exFlag) ==
    /\ Calls(p) /\ st[p] = "shared" /\ nextTxn <= setup.txns
    /\ Lock!GetReserved(p)
    /\ st' = [st EXCEPT ![p] = "reserved"]
    /\ Doing(p, "begin")
    /\ Goto(p, IF exFlag THEN "lock" ELSE "openJournal")
    /\ UNCHANGED <<dbSize, files, names, journals, pages, flags, rest>>

\* A sqlite3pager_begin() that could not get EXCLUSIVE leaves RESERVED
\* behind; the next one does nothing, and the next write opens the journal.
\* So it is, but for the asserts, when the Pager has no lock at all any more
\* (with no size remembered it is followed no further).
BeginAgain(p) ==
    /\ Calls(p) /\ st[p] # "shared" /\ jfd[p] = NoJournal
    /\ st[p] = "unlock" => dbSize[p] # NoSize
    /\ nextTxn <= setup.txns
    /\ Doing(p, "begin") /\ Goto(p, "openJournal")
    /\ UNCHANGED <<locks, files, names, journals, pagers, pages, flags, rest>>

\* A transaction that has no journal ends.
EndNoJournal(p, call) ==
    /\ Calls(p) /\ st[p] \in {"reserved", "exclusive"} /\ jfd[p] = NoJournal
    /\ Doing(p, call) /\ Goto(p, "downgrade")
    /\ UNCHANGED <<locks, files, names, journals, pagers, pages, flags, rest>>

\* pager_open_journal(): the file must not exist.  The header written says
\* how large the database is and counts no records.
OpenJournal(p) ==
    /\ pc[p] = "openJournal" /\ linked = NoJournal /\ nextTxn <= setup.txns
    /\ LET t == nextTxn
           past == {g \in 1 .. setup.pages : g > PageCount(p)}
       IN  /\ linked' = t /\ linkedDisk' = linkedDisk \cup {t}
           /\ jfd' = [jfd EXCEPT ![p] = t]
           /\ jSize' = [jSize EXCEPT ![t] = PageCount(p)]
           /\ jRecs' = [jRecs EXCEPT ![t] = past]
           /\ jCount' = [jCount EXCEPT ![t] = past]
           /\ jSegment' = [jSegment EXCEPT ![t] = past]
           /\ nextTxn' = t + 1
    /\ Counted(p)
    /\ dirfd' = [dirfd EXCEPT ![p] = TRUE]
    /\ started' = [started EXCEPT ![p] = FALSE]
    /\ dirtyCache' = [dirtyCache EXCEPT ![p] = FALSE]
    /\ Goto(p, "idle") /\ Doing(p, "none")
    /\ UNCHANGED <<locks, files, jOrig, jSynced, jCountDisk, st, pages,
                   dirty, inJournal, needSync, want, todo, before>>

\* "Return an error code and release the write lock if anything goes wrong":
\* all locks are released, with pages in use.
CannotOpenJournal(p) ==
    /\ pc[p] = "openJournal" /\ linked # NoJournal
    /\ LetGo(p) /\ Counted(p)
    /\ Goto(p, IF setup.usedUnlocked THEN "idle" ELSE "failed") /\ Doing(p, "none")
    /\ UNCHANGED <<files, names, journals, pages, flags, rest>>

\* sqlite3pager_write(): a page of the original file goes to the journal,
\* with the content it has; then the caller changes it.
Modify(p, g) ==
    LET t == jfd[p]
        original == g <= jSize[t]
        new == g \notin inJournal[p]
    IN  /\ dirty' = [dirty EXCEPT ![p] = @ \cup {g}]
        /\ dirtyCache' = [dirtyCache EXCEPT ![p] = TRUE]
        /\ inJournal' = [inJournal EXCEPT ![p] = @ \cup {g}]
        /\ needSync' = [needSync EXCEPT ![p] =
              IF new /\ (original \/ ~started[p]) THEN @ \cup {g} ELSE @]
        /\ IF new /\ original
           THEN /\ jOrig' = [jOrig EXCEPT ![t][g] = cache[p][g]]
                /\ jRecs' = [jRecs EXCEPT ![t] = @ \cup {g}]
                /\ jSegment' = [jSegment EXCEPT ![t] = @ \cup {g}]
           ELSE UNCHANGED <<jOrig, jRecs, jSegment>>
        /\ cache' = [cache EXCEPT ![p][g] = t]
        /\ dbSize' = IF dbSize[p] < g THEN [dbSize EXCEPT ![p] = g] ELSE dbSize
        /\ UNCHANGED <<locks, files, names, jSize, jSynced, jCount, jCountDisk,
                       st, ref, started, jfd, dirfd, rest>>

Write(p, g) ==
    /\ Writing(p) /\ g \in ref[p] /\ g <= PageCount(p) + 1 /\ g <= setup.pages
    /\ cache[p][g] # jfd[p] \/ g \notin dirty[p]
    /\ Modify(p, g)
    /\ UNCHANGED <<pc, task>>

-----------------------------------------------------------------------------
(* syncJournal(), called by sqlite3pager_sync() and pager_recycle().       *)

\* fsync() of the journal and, once, of its directory.
SyncJournalFile(p) ==
    LET t == jfd[p] IN
    /\ jSynced' = [jSynced EXCEPT ![t] = jRecs[t]]
    /\ jCountDisk' = [jCountDisk EXCEPT ![t] = jCount[t]]
    /\ linkedDisk' = IF dirfd[p] THEN {linked} ELSE linkedDisk
    /\ dirfd' = [dirfd EXCEPT ![p] = FALSE]

\* In full-sync mode the records reach the disk before a header counts them.
SyncRecords(p) ==
    /\ pc[p] = "syncData"
    /\ SyncJournalFile(p)
    /\ Goto(p, "writeCount")
    /\ UNCHANGED <<locks, files, linked, jOrig, jSize, jRecs, jCount, jSegment, pagers, pages,
                   dirty, inJournal, needSync, dirtyCache, started, jfd, task, rest>>

WriteCount(p) ==
    /\ pc[p] = "writeCount"
    /\ jCount' = [jCount EXCEPT ![jfd[p]] = @ \cup jSegment[jfd[p]]]
    /\ Goto(p, "syncCount")
    /\ UNCHANGED <<locks, files, names, jOrig, jSize, jRecs, jSynced, jCountDisk, jSegment,
                   pagers, pages, flags, task, rest>>

NewSegment_Same(t) == jSegment
NewSegment(t) == IF setup.fullSync THEN [jSegment EXCEPT ![t] = {}] ELSE jSegment

\* The flags are cleared.  pager_recycle() starts a new header in full-sync
\* mode, so that the one just synced is not written again.
SyncCount(p) ==
    /\ pc[p] = "syncCount"
    /\ SyncJournalFile(p)
    /\ needSync' = [needSync EXCEPT ![p] = {}]
    /\ started' = [started EXCEPT ![p] = TRUE]
    /\ IF task[p] = "recycle"
       THEN /\ jSegment' = NewSegment(jfd[p])
            /\ Goto(p, "recycle")
       ELSE /\ UNCHANGED jSegment
            /\ Goto(p, Locked(p, "store"))
    /\ UNCHANGED <<locks, files, linked, jOrig, jSize, jRecs, jCount, pagers, pages,
                   dirty, inJournal, dirtyCache, jfd, task, rest>>

-----------------------------------------------------------------------------
(* The way to EXCLUSIVE: pager_wait_on_lock(), and the hot-journal case of *)
(* sqlite3pager_get(), which does not go through RESERVED.  While the busy *)
(* handler asks for it the lock is tried again.                            *)

LockPending(p) ==
    /\ pc[p] = "lock"
    /\ Lock!GetPending(p)
    /\ UNCHANGED <<files, names, journals, pagers, pages, flags, pc, task, rest>>

LockExclusive(p) ==
    /\ pc[p] = "lock"
    /\ Lock!GetExclusive(p)
    /\ st' = [st EXCEPT ![p] = "exclusive"]
    /\ Goto(p, CASE task[p] = "hot" -> "openHot"
                 [] task[p] = "begin" -> "openJournal"
                 [] task[p] = "recycle" -> "spill"
                 [] task[p] = "commit" -> "store")
    /\ UNCHANGED <<dbSize, files, names, journals, pages, flags, task, rest>>

Denied(p) ==
    IF level[p] = Lock!PENDING_LOCK THEN ~Lock!Alone(p)
    ELSE \E q \in Proc : level[q] >= Lock!PENDING_LOCK

\* SQLITE_BUSY.  Only a process that found a hot journal gives up its locks.
LockBusy(p) ==
    /\ pc[p] = "lock" /\ Denied(p)
    /\ IF task[p] = "hot"
       THEN BusyForHot(p) /\ Goto(p, "idle")
       ELSE /\ UNCHANGED <<locks, pagers>>
            /\ Goto(p, IF task[p] = "begin" THEN AfterError ELSE "idle")
    /\ Doing(p, "none")
    /\ UNCHANGED <<files, names, journals, pages, flags, rest>>

-----------------------------------------------------------------------------
(* sqlite3pager_commit(): sqlite3pager_sync(), then pager_unwritelock().   *)

\* Nothing was changed: the transaction just ends.  (Without a lock there is
\* an error, and nothing happens.)
CommitNothing(p) ==
    /\ Writing(p) /\ ~dirtyCache[p] /\ st[p] # "unlock"
    /\ Goto(p, "delete") /\ Doing(p, "commit")
    /\ UNCHANGED <<locks, files, names, journals, pagers, pages, flags, rest>>

\* pager_incr_changecounter() writes page 1.
Commit_Unsynced(p) ==
    /\ Writing(p) /\ dirtyCache[p]
    /\ Modify(p, 1)
    /\ Goto(p, Locked(p, "store"))
    /\ Doing(p, "commit")
Commit(p) ==
    /\ Writing(p) /\ dirtyCache[p]
    /\ Modify(p, 1)
    /\ Goto(p, IF needSync'[p] # {} THEN Syncing(p) ELSE Locked(p, "store"))
    /\ Doing(p, "commit")

\* pager_write_pagelist(), a page at a time.
StorePage(p, g) ==
    /\ pc[p] = "store" /\ g \in dirty[p]
    /\ WritePage(g, cache[p][g])
    /\ dirty' = [dirty EXCEPT ![p] = @ \ {g}]
    /\ UNCHANGED <<locks, undone, names, journals, pagers, pages, inJournal, needSync,
                   dirtyCache, started, jfd, dirfd, pc, task, rest>>

SyncDatabase(p) ==
    /\ pc[p] = "store" /\ dirty[p] = {}
    /\ disk' = [g \in Page |-> {db[g]}]
    /\ undone' = {}
    /\ st' = [st EXCEPT ![p] = "synced"]
    /\ Goto(p, "delete")
    /\ UNCHANGED <<locks, dbSize, db, names, journals, pages, flags, task, rest>>

\* pager_unwritelock(): the journal is deleted.  This is the moment a
\* transaction commits, or is rolled back.
DeleteJournal(p) ==
    /\ pc[p] = "delete"
    /\ Unlink
    /\ jfd' = [jfd EXCEPT ![p] = NoJournal]
    /\ dirfd' = [dirfd EXCEPT ![p] = FALSE]
    /\ started' = [started EXCEPT ![p] = FALSE]
    /\ dirty' = [dirty EXCEPT ![p] = {}]
    /\ inJournal' = [inJournal EXCEPT ![p] = {}]
    /\ needSync' = [needSync EXCEPT ![p] = {}]
    /\ dirtyCache' = [dirtyCache EXCEPT ![p] = FALSE]
    /\ before' = IF task[p] = "commit" /\ dirtyCache[p] THEN Store ELSE before
    /\ Goto(p, "downgrade")
    /\ UNCHANGED <<locks, db, disk, journals, pagers, pages, task, want, todo, nextTxn>>

\* The lock becomes SHARED.  sqlite3pager_commit() and _rollback() forget the size.
Downgrade(p) ==
    /\ pc[p] = "downgrade"
    /\ Lock!Release(p, Lock!SHARED_LOCK)
    /\ st' = [st EXCEPT ![p] = "shared"]
    /\ IF task[p] = "hot" THEN UNCHANGED dbSize ELSE ForgetSize(p)
    /\ Goto(p, CASE task[p] = "hot" -> "first"
                 [] task[p] = "commit" -> "idle"
                 [] task[p] = "rollback" -> AfterError)
    /\ Doing(p, "none")
    /\ UNCHANGED <<files, names, journals, pages, flags, rest>>

-----------------------------------------------------------------------------
(* sqlite3pager_rollback() and pager_playback().                           *)

\* The file was not written: dirty pages are read again (pager_reload_cache()).
RollbackCache(p) ==
    /\ Writing(p) /\ st[p] # "unlock" /\ (st[p] = "reserved" \/ ~dirtyCache[p])
    /\ cache' = [cache EXCEPT ![p] = [g \in Page |->
          IF ~dirtyCache[p] \/ g \notin dirty[p] THEN @[g]
          ELSE IF g <= jSize[jfd[p]] THEN db[g] ELSE 0]]
    /\ Goto(p, "delete") /\ Doing(p, "rollback")
    /\ UNCHANGED <<locks, files, names, journals, pagers, ref, flags, rest>>

RollbackFile(p) ==
    /\ Writing(p) /\ st[p] = "exclusive" /\ dirtyCache[p]
    /\ Goto(p, "truncate") /\ Doing(p, "rollback")
    /\ UNCHANGED <<locks, files, names, journals, pagers, pages, flags, rest>>

Past(t) == {g \in 1 .. setup.pages : g > jSize[t]}

\* The first header gives the size of the file ...
Truncate(p) ==
    /\ pc[p] = "truncate"
    /\ LET t == jfd[p]
           cut == Past(t) \cap Restored(t)
       IN  /\ db' = [g \in Page |-> IF g \in cut THEN 0 ELSE db[g]]
           /\ disk' = [g \in Page |-> IF g \in cut THEN disk[g] \cup {0} ELSE disk[g]]
           /\ dbSize' = IF Past(t) \subseteq Restored(t) THEN [dbSize EXCEPT ![p] = jSize[t]]
                        ELSE dbSize
           /\ todo' = [todo EXCEPT ![p] = Restored(t) \ Past(t)]
           /\ Goto(p, IF Restored(t) \subseteq Past(t) THEN "delete" ELSE "playback")
    /\ UNCHANGED <<locks, undone, names, journals, st, pages, flags, task, want, nextTxn, before>>

\* ... and every record that is counted goes to the cache and the file, but
\* not to the file while the page still needs its record synced.
PlaybackPage(p, g) ==
    /\ pc[p] = "playback" /\ g \in todo[p]
    /\ IF g \in needSync[p] THEN UNCHANGED <<db, disk, dirty>>
       ELSE /\ WritePage(g, jOrig[jfd[p]][g])
            /\ dirty' = [dirty EXCEPT ![p] = @ \ {g}]
    /\ cache' = IF g \in Cached(p) THEN [cache EXCEPT ![p][g] = jOrig[jfd[p]][g]] ELSE cache
    /\ todo' = [todo EXCEPT ![p] = @ \ {g}]
    /\ Goto(p, IF todo[p] = {g} THEN "delete" ELSE "playback")
    /\ UNCHANGED <<locks, undone, names, journals, pagers, ref, inJournal, needSync, dirtyCache,
                   started, jfd, dirfd, task, want, nextTxn, before>>

\* Without a lock only cached pages are restored: pager_playback() leaves the
\* file alone, pager_unwritelock() the journal and the flags.  Where others use
\* the Pager a transaction may have begun before it needs its journal
\* (BeginAgain), and is rolled back in this way when there can be none.
RollbackUnlocked(p) ==
    /\ pc[p] = "idle" \/ (pc[p] = "failed" /\ setup.otherUsers)
    /\ ref[p] # {} /\ st[p] = "unlock"
    /\ cache' = [cache EXCEPT ![p] = [g \in Page |->
          IF dirtyCache[p] /\ g \in Cached(p) /\ g \in Restored(jfd[p]) \ Past(jfd[p])
          THEN jOrig[jfd[p]][g] ELSE @[g]]]
    /\ ForgetSize(p)
    /\ UNCHANGED <<locks, files, names, journals, ref, st, flags, pc, task, rest>>

-----------------------------------------------------------------------------
(* Crashes.                                                                *)

\* The processes of D are gone, and everything they had in memory.
Forget(D) ==
    LET Reset(f, v) == [p \in Proc |-> IF p \in D THEN v ELSE f[p]] IN
    /\ st' = Reset(st, "unlock") /\ dbSize' = Reset(dbSize, NoSize)
    /\ cache' = Reset(cache, NoPages)
    /\ ref' = Reset(ref, {}) /\ dirty' = Reset(dirty, {})
    /\ inJournal' = Reset(inJournal, {}) /\ needSync' = Reset(needSync, {})
    /\ dirtyCache' = Reset(dirtyCache, FALSE) /\ started' = Reset(started, FALSE)
    /\ jfd' = Reset(jfd, NoJournal) /\ dirfd' = Reset(dirfd, FALSE)
    /\ pc' = Reset(pc, "idle") /\ task' = Reset(task, "none")
    /\ want' = Reset(want, 1) /\ todo' = Reset(todo, {})

Crash(p) ==
    /\ Lock!Die(p)
    /\ Forget({p})
    /\ UNCHANGED <<files, names, journals, nextTxn, before>>

\* What was written since the last fsync() is on the disk or not: any page,
\* any record, the count in the last header, the name of the journal.  A
\* header that was being overwritten may be unreadable.
PowerFailure ==
    /\ setup.powerFails
    /\ setup.afterRollback \/ undone = {}
    /\ \E f \in [{g \in Page : disk[g] # {db[g]}} -> Content] :
          /\ \A g \in DOMAIN f : f[g] \in disk[g]
          /\ db' = [g \in Page |-> IF g \in DOMAIN f THEN f[g] ELSE db[g]]
    /\ disk' = [g \in Page |-> {db'[g]}]
    /\ undone' = {}
    /\ \E t \in linkedDisk :
          /\ linked' = t /\ linkedDisk' = {t}
          /\ IF t = NoJournal
             THEN UNCHANGED <<jRecs, jSynced, jCount, jCountDisk>>
             ELSE \E lost \in SUBSET (jRecs[t] \ jSynced[t]),
                     count \in {jCount[t], jCountDisk[t]} \cup
                        IF ~setup.tornSectors \/ jCount[t] = jCountDisk[t] THEN {}
                        ELSE {jCountDisk[t] \ jSegment[t]} :
                  /\ jRecs' = [jRecs EXCEPT ![t] = @ \ lost]
                  /\ jSynced' = [jSynced EXCEPT ![t] = jRecs'[t]]
                  /\ jCount' = [jCount EXCEPT ![t] = count]
                  /\ jCountDisk' = [jCountDisk EXCEPT ![t] = count]
    /\ level' = [p \in Proc |-> Lock!NO_LOCK] /\ reserved' = {}
    /\ Forget(Proc)
    /\ UNCHANGED <<jOrig, jSize, jSegment, nextTxn>>
    /\ before' = Store'

-----------------------------------------------------------------------------

HotJournal(p) ==
    \/ JournalExists(p) \/ CheckReserved(p) \/ JournalIsHot(p) \/ DeleteOldJournal(p)
    \/ OpenHotJournal(p) \/ NoHotJournal(p) \/ GetFirst(p)

Recycle(p) == RecycleClean(p) \/ RecycleDirty(p) \/ Spill(p)

SyncJournal(p) == SyncRecords(p) \/ WriteCount(p) \/ SyncCount(p)

LockStep(p) == LockPending(p) \/ LockExclusive(p) \/ LockBusy(p)

Transaction(p) ==
    \/ \E exFlag \in BOOLEAN : Begin(p, exFlag)
    \/ \E call \in {"commit", "rollback"} : EndNoJournal(p, call)
    \/ BeginAgain(p) \/ OpenJournal(p) \/ CannotOpenJournal(p)
    \/ CommitNothing(p) \/ Commit(p) \/ SyncDatabase(p)
    \/ DeleteJournal(p) \/ Downgrade(p)
    \/ RollbackCache(p) \/ RollbackFile(p) \/ Truncate(p) \/ RollbackUnlocked(p)

PageStep(p, g) ==
    \/ Get(p, g) \/ GetFull(p, g) \/ Unref(p, g)
    \/ Write(p, g) \/ StorePage(p, g) \/ PlaybackPage(p, g)

Next ==
    /\ \/ \E p \in Proc : \/ LockShared(p) \/ HotJournal(p) \/ Recycle(p) \/ SyncJournal(p)
                          \/ LockStep(p) \/ Transaction(p) \/ Crash(p)
                          \/ \E g \in Page : PageStep(p, g)
       \/ PowerFailure
    /\ UNCHANGED setup

Spec == Init /\ [][Next]_<<setup, vars>>

\* A call that takes or gives back the lock, or plays back, goes on.
Continue(p) ==
    \/ HotJournal(p) \/ LockStep(p) \/ Truncate(p) \/ DeleteJournal(p) \/ Downgrade(p)
    \/ \E g \in Page : PlaybackPage(p, g)

FairSpec == Spec /\ \A p \in Proc : WF_vars(Continue(p))

-----------------------------------------------------------------------------
(* What must hold.                                                         *)

Label == {"idle", "failed", "exists", "reserved?", "size", "lock", "openHot", "first",
          "openJournal", "syncData", "writeCount", "syncCount", "recycle", "spill",
          "store", "delete", "downgrade", "truncate", "playback"}

\* The state is well formed: a journal's records are of pages, what is known
\* to be on the disk was written, and what the file may come to contain
\* includes what it does contain.
TypeOK ==
    /\ setup \in Setups /\ Lock!TypeOK
    /\ db \in [Page -> Content]
    /\ disk \in [Page -> SUBSET Content] /\ \A g \in Page : db[g] \in disk[g]
    /\ linked \in Txn \cup {NoJournal}
    /\ linkedDisk \subseteq Txn \cup {NoJournal} /\ linked \in linkedDisk
    /\ undone \subseteq Page
    /\ jOrig \in [Txn -> [Page -> Content]] /\ jSize \in [Txn -> 0 .. NPage]
    /\ {jRecs, jSynced, jCount, jCountDisk, jSegment} \subseteq [Txn -> SUBSET Page]
    /\ st \in [Proc -> {"unlock", "shared", "reserved", "exclusive", "synced"}]
    /\ dbSize \in [Proc -> 0 .. NPage \cup {NoSize}]
    /\ cache \in [Proc -> [Page -> Content \cup {NotCached}]]
    /\ {ref, dirty, inJournal, needSync, todo} \subseteq [Proc -> SUBSET Page]
    /\ {dirtyCache, started, dirfd} \subseteq [Proc -> BOOLEAN]
    /\ jfd \in [Proc -> Txn \cup {NoJournal}]
    /\ pc \in [Proc -> Label]
    /\ task \in [Proc -> {"none", "hot", "begin", "recycle", "commit", "rollback"}]
    /\ want \in [Proc -> Page]
    /\ nextTxn \in Nat
    /\ before \in [Page -> Content]

\* A process reads from its first page on until it rolls back or fails, and
\* writes from the creation of its journal to the end of the transaction.
Reading(p) == ref[p] # {} /\ pc[p] # "failed" /\ task[p] # "rollback"
InTransaction(p) == Reading(p) /\ (jfd[p] # NoJournal \/ task[p] = "commit")

TheWriter ==
    LET W == {p \in Proc : InTransaction(p)}
    IN  IF W = {} THEN NoProc ELSE CHOOSE p \in W : TRUE

Abstract == INSTANCE AtomicStore WITH
    Image <- [Page -> Content], NoView <- NoPages,
    store <- Store,
    view <- [p \in Proc |-> IF Reading(p) THEN Sees(p) ELSE NoPages],
    writer <- TheWriter

\* The Pager is an atomic store of pages: the database changes, for every
\* other process and after any crash, by whole transactions and only at the
\* moment the journal is deleted; a reader sees no change of it while it
\* reads; a transaction that ends has left nothing of itself in a cache.
ImplementsAtomicStore == Abstract!Spec

\* "It is not safe to modify the original database file until after the
\* journal has been synced": where the file differs, or may after a power
\* failure differ, from what it was, any journal the directory may then show
\* has the original page on the disk, counted by a header.
WriteAhead ==
    \A g \in Page : disk[g] # {db[g]} /\ g \notin undone =>
        \A t \in linkedDisk :
            t # NoJournal /\ g \in jCountDisk[t] /\ (g \in jSynced[t] \/ g > jSize[t])

\* A new header is started "to avoid ever modifying a journal header that is
\* involved in the rollback of pages that have already been written to the
\* database": in full-sync mode the count is never written again in a header
\* whose records the file already depends on.
HeaderIsFinal ==
    \A p \in Proc : setup.fullSync /\ pc[p] = "writeCount" =>
        \A g \in jSegment[jfd[p]] \cap jCountDisk[jfd[p]] : db[g] = jOrig[jfd[p]][g]

\* A journal in use is the one with the name, and only one process uses it:
\* a hot journal is never that of a live transaction, and nobody takes the
\* journal of a live transaction away.
JournalIsMine ==
    \A p \in Proc : jfd[p] # NoJournal =>
        linked = jfd[p] /\ \A q \in Proc \ {p} : jfd[q] = NoJournal

\* A page of the cache that is not dirty is the page of the file, and the size
\* remembered is the one of the file (sqlite3pager_pagecount()), whatever
\* other processes have committed and the own ones rolled back meanwhile.
CacheIsCurrent ==
    \A p \in Proc : Reading(p) =>
        /\ \A g \in Cached(p) \ dirty[p] : cache[p][g] = db[g]
        /\ ~InTransaction(p) => PageCount(p) = Size(db)

\* The asserts of pager.c: Pager.state against the lock; no journal in
\* state SHARED (sqlite3pager_begin()); a journal is opened with RESERVED, and
\* there is none (pager_open_journal()); there is a lock whenever
\* sqlite3pager_begin() or _write() may be called; a page is written to the
\* file only when its record is synced (syncJournal(), pager_write_pagelist());
\* nothing to sync if nothing was changed (sqlite3pager_commit()).
AssertsHold ==
    \A p \in Proc :
        /\ st[p] = "unlock" <=> level[p] = Lock!NO_LOCK
        /\ st[p] \in {"exclusive", "synced"} <=> level[p] = Lock!EXCLUSIVE_LOCK
        /\ st[p] \in {"unlock", "shared"} /\ pc[p] # "downgrade" => jfd[p] = NoJournal
        /\ pc[p] = "openJournal" => st[p] \in {"reserved", "exclusive"} /\ jfd[p] = NoJournal
        /\ Calls(p) => st[p] # "unlock"
        /\ pc[p] = "store" => needSync[p] = {}
        /\ ~dirtyCache[p] => needSync[p] = {}

\* At most the last commit is lost in a power failure, and never a part of one.
PowerFailureKeepsCommits == [][PowerFailure => Store' \in {Store, before}]_vars

\* A journal left behind by a crash is rolled back and removed, if one process
\* ends its reads and comes to read again, in the end without dying inside a
\* call, while the others leave the file alone.  (Two that both come may for
\* ever meet each other's SHARED locks, give up in turn, and come again.)
RecoveryCompletes ==
    \A p \in Proc :
        /\ WF_vars(LockShared(p)) /\ []<>(ref[p] = {})
        /\ <>[][Crash(p) \/ PowerFailure => pc[p] = "idle"]_vars
        /\ <>[](\A q \in Proc \ {p} : level[q] = Lock!NO_LOCK)
        => (linked # NoJournal /\ ~InTransaction(p) ~> linked = NoJournal)
=============================================================================
