---------------------------- MODULE StmtJournal ----------------------------
(***************************************************************************)
(* One write transaction of one pager (pager.c) with the statement inside  *)
(* it: two journals for one cache.  sqlite3pager_write() decides which     *)
(* journal needs the page, dont_write() and dont_rollback() leave pages of *)
(* the free list out, sqlite3pager_movepage() gives a cached page another  *)
(* number, any page that is not in use may leave the cache, and a          *)
(* statement, a transaction or a crash undoes what was done.               *)
(*                                                                         *)
(* The locks, and what other processes see, are in module Pager: here      *)
(* EXCLUSIVE is granted or refused at any time.  Page 1 is always in use,  *)
(* the others are released at the end of each call.  Every change of a     *)
(* page writes a value not used before; page g has the value g at first.   *)
(***************************************************************************)
EXTENDS Integers, Sequences, FiniteSets, SequencesExt

CONSTANTS MaxPage,      \* bound: pages of the file
          MaxCalls,     \* bound: calls that change or free a page or begin a statement
          Modes,        \* subset of {"normal", "off", "temp"}: PRAGMA synchronous
                        \*   is NORMAL or OFF, or it is a temporary file
          MovesUnflagged \* may a page move to a number whose journal flags differ?

ASSUME BoundAssumption == MaxPage \in Nat \ {0} /\ MaxCalls \in Nat
ASSUME ModeAssumption == Modes \subseteq {"normal", "off", "temp"} /\ MovesUnflagged \in BOOLEAN

Page == 1 .. MaxPage
Value == 0 .. MaxPage + MaxCalls    \* 0: the page contains only zeros
Missing == -1                        \* the file ends before the page
Unused == -2                         \* the page is on the free list
NotCached == -3
NoMark == <<>>

VARIABLES
    mode,
    file,      \* the database file: the pages and their number
    pager,     \* the Pager and its cache
    step,      \* the call that is under way
    unused,    \* pages the caller wants nothing of: the free list, and ...
    lost,      \* ... those an auto-vacuum has taken from it to cut them off
    freeAtStart, mark,  \* history: both when the transaction began; what the
                        \*   pages contained when the statement began
    last       \* the value written last

vars == <<mode, file, pager, step, unused, lost, freeAtStart, mark, last>>

Absent == [data |-> NotCached, dirty |-> FALSE, inJournal |-> FALSE, needSync |-> FALSE,
           inStmt |-> FALSE, alwaysRollback |-> FALSE]

Closed(hdr, size) ==
    [hdr |-> hdr, state |-> "shared", dbSize |-> size, dirtyCache |-> FALSE,
     journalOpen |-> FALSE, origDbSize |-> 0, needSync |-> FALSE, journalStarted |-> FALSE,
     alwaysRollback |-> FALSE, aInJournal |-> {},
     journal |-> <<>>, nRec |-> 0,  \* the main journal; the records its headers count
     stmtAutoopen |-> FALSE, stmtInUse |-> FALSE, stmtSize |-> 0, aInStmt |-> {},
     stmtStart |-> 0,               \* stmtJSize: records before the statement
     stmtJournal |-> <<>>]

Empty == [g \in Page |-> Absent]

Init ==
    /\ mode \in Modes
    /\ \E n \in Page :
          /\ file = [page |-> [g \in Page |-> IF g <= n THEN g ELSE Missing], size |-> n]
          /\ unused \in SUBSET (2 .. n)
          /\ pager = Closed(Empty, n)
    /\ lost = {}
    /\ freeAtStart = [unused |-> unused, lost |-> {}]
    /\ step = [call |-> "none"]
    /\ mark = NoMark
    /\ last = MaxPage

-----------------------------------------------------------------------------
(* The pager's functions, from one state of the pager to the next.         *)

Cached(P) == {g \in Page : P.hdr[g].data # NotCached}
Stored(g) == IF g <= file.size THEN file.page[g] ELSE 0

\* sqlite3pager_get(): the flags of a page that left the cache are found in
\* the bitmaps, if the page is old enough to be in them.
Got_Unflagged(P, g) ==
    IF g \in Cached(P) THEN P
    ELSE [P EXCEPT !.hdr[g] =
            [Absent EXCEPT !.data = IF g <= P.dbSize THEN Stored(g) ELSE 0]]

Got(P, g) ==
    IF g \in Cached(P) THEN P
    ELSE [P EXCEPT !.hdr[g] =
            [Absent EXCEPT !.data = IF g <= P.dbSize THEN Stored(g) ELSE 0,
                           !.inJournal = g <= P.origDbSize /\ g \in P.aInJournal,
                           !.inStmt = g <= P.stmtSize /\ g \in P.aInStmt]]

\* sqlite3pager_stmt_begin(): without a journal, when the journal is opened.
StmtBegun(P) ==
    IF ~P.journalOpen THEN [P EXCEPT !.stmtAutoopen = TRUE]
    ELSE [P EXCEPT !.stmtInUse = TRUE, !.aInStmt = {}, !.stmtSize = P.dbSize,
                   !.stmtStart = Len(P.journal)]

\* sqlite3pager_stmt_commit().
StmtEnded(P) ==
    IF ~P.stmtInUse THEN [P EXCEPT !.stmtAutoopen = FALSE]
    ELSE [P EXCEPT !.stmtAutoopen = FALSE, !.stmtInUse = FALSE, !.aInStmt = {},
                   !.stmtJournal = <<>>, !.stmtSize = 0, !.stmtStart = 0,
                   !.hdr = [g \in Page |-> [@[g] EXCEPT !.inStmt = FALSE]]]

\* pager_open_journal().
JournalOpened(P) ==
    LET Q == [P EXCEPT !.journalOpen = TRUE, !.origDbSize = P.dbSize,
                       !.journalStarted = FALSE, !.needSync = FALSE,
                       !.alwaysRollback = FALSE, !.aInJournal = {},
                       !.journal = <<>>, !.nRec = 0]
    IN  IF P.stmtAutoopen THEN StmtBegun(Q) ELSE Q

\* The page goes to the main journal if it was in the file when the
\* transaction began, ...
Journaled(P, g) ==
    LET old == g <= P.origDbSize
        sync == mode = "normal" /\ (old \/ ~P.journalStarted)
    IN  IF P.hdr[g].inJournal THEN P
        ELSE [P EXCEPT
                !.hdr[g].inJournal = TRUE, !.hdr[g].needSync = sync,
                !.hdr[g].inStmt = @ \/ (old /\ P.stmtInUse),
                !.needSync = @ \/ sync,
                !.journal = IF old THEN Append(@, [page |-> g, data |-> P.hdr[g].data]) ELSE @,
                !.aInJournal = IF old THEN @ \cup {g} ELSE @,
                !.aInStmt = IF old /\ P.stmtInUse THEN @ \cup {g} ELSE @]

\* ... and to the statement journal if it was there when the statement began
\* and no journal has been given it since.
StmtJournaled(P, g) ==
    IF P.stmtInUse /\ ~P.hdr[g].inStmt /\ g <= P.stmtSize
    THEN [P EXCEPT !.stmtJournal = Append(@, [page |-> g, data |-> P.hdr[g].data]),
                   !.aInStmt = @ \cup {g}, !.hdr[g].inStmt = TRUE]
    ELSE P

\* sqlite3pager_write().
Written(P, g) ==
    LET Q == [P EXCEPT !.hdr[g].dirty = TRUE]
        R == IF Q.journalOpen THEN Q ELSE JournalOpened(Q)
        needed == ~Q.hdr[g].inJournal \/ (Q.stmtInUse /\ ~Q.hdr[g].inStmt)
        S == IF needed THEN StmtJournaled(Journaled(R, g), g) ELSE Q
    IN  [S EXCEPT !.dirtyCache = TRUE, !.dbSize = IF @ < g THEN g ELSE @]

\* The caller changes a page.
Changed(P, g, v) == [Written(Got(P, g), g) EXCEPT !.hdr[g].data = v]

\* sqlite3pager_dont_write(): the last page of a file that has grown is
\* written all the same.
DontWrite_Shrinks(P, g) ==
    [P EXCEPT !.hdr[g].alwaysRollback = TRUE, !.hdr[g].dirty = @ /\ P.stmtInUse]

DontWrite(P, g) ==
    LET grown == P.dbSize = g /\ P.origDbSize < P.dbSize
    IN  [P EXCEPT !.hdr[g].alwaysRollback = TRUE,
                  !.hdr[g].dirty = @ /\ (P.stmtInUse \/ grown)]

\* sqlite3pager_dont_rollback(): the flags say the page is in the journals.
DontRollback(P, g) ==
    LET h == P.hdr[g]
        main == ~h.inJournal /\ g <= P.origDbSize
        stmt == P.stmtInUse /\ ~h.inStmt /\ (main \/ g <= P.stmtSize)
    IN  IF P.state # "exclusive" \/ ~P.journalOpen \/ h.alwaysRollback \/ P.alwaysRollback
        THEN P
        ELSE [P EXCEPT !.hdr[g].inJournal = @ \/ main, !.hdr[g].inStmt = @ \/ stmt,
                       !.aInJournal = IF main THEN @ \cup {g} ELSE @,
                       !.aInStmt = IF stmt THEN @ \cup {g} ELSE @]

\* syncJournal(): the header counts all the records, and no page has to wait.
JournalSynced_PagesWait(P) ==
    [P EXCEPT !.needSync = FALSE, !.nRec = Len(P.journal), !.journalStarted = TRUE]

JournalSynced(P) ==
    IF ~P.needSync THEN P
    ELSE [P EXCEPT !.needSync = FALSE, !.nRec = Len(P.journal), !.journalStarted = TRUE,
                   !.hdr = [g \in Page |-> [@[g] EXCEPT !.needSync = FALSE]]]

\* A rollback counts all the records of a journal that is never synced.
Counted(P) ==
    IF mode = "normal" THEN SubSeq(P.journal, 1, P.nRec) ELSE P.journal

\* A file with page g written to it; the file cut or extended to n pages.
Cut(f, n) ==
    IF n = f.size THEN f
    ELSE [page |-> [i \in Page |-> IF i > n THEN Missing
                                  ELSE IF i > f.size THEN 0 ELSE f.page[i]],
          size |-> n]
Put(f, g, v) ==
    LET long == IF g > f.size THEN Cut(f, g) ELSE f
    IN  [long EXCEPT !.page[g] = v]

\* A file when records were put into it one after the other, those of the
\* given pages and of no page past its end: the last record of a page stays.
PagesOf(records) == {records[i].page : i \in DOMAIN records}
LastOf(records, g) ==
    records[CHOOSE i \in DOMAIN records :
               /\ records[i].page = g
               /\ \A j \in DOMAIN records : records[j].page = g => j <= i].data
Played(f, records, pages) ==
    [f EXCEPT !.page = [g \in Page |-> IF g <= f.size /\ g \in pages \cap PagesOf(records)
                                       THEN LastOf(records, g) ELSE f.page[g]]]

\* What a playback of the journal makes of the file.
Recovered(f, P) ==
    IF ~P.journalOpen THEN f ELSE Played(Cut(f, P.origDbSize), Counted(P), Page)

-----------------------------------------------------------------------------
(* The calls of the layer above.                                           *)

Ready == step.call = "none" /\ pager.state \in {"reserved", "exclusive"}
InUse == {1} \cup IF step.call = "move" THEN {step.to} ELSE {}
Free == Cached(pager) \ InUse
Live == (1 .. pager.dbSize) \ unused

Fresh == last + 1
Call == last < MaxPage + MaxCalls /\ last' = Fresh

caller == <<unused, lost, freeAtStart, mark>>

Begin ==
    /\ pager.state = "shared" /\ last < MaxPage + MaxCalls
    /\ pager' = LET P == [pager EXCEPT !.state = "reserved"]
                IN  Got(IF mode = "temp" THEN P ELSE JournalOpened(P), 1)
    /\ UNCHANGED <<mode, file, step, caller, last>>

\* A change of a page, or a new page at the end of the file.
Write(g) ==
    /\ Ready /\ Call
    /\ g \in Live \/ g = pager.dbSize + 1
    /\ pager' = Changed(pager, g, Fresh)
    /\ UNCHANGED <<mode, file, step, caller>>

\* freePage(): the page is now a leaf of the free list, which page 1 counts.
FreePage(g) ==
    /\ Ready /\ Call /\ g \in Live \ {1}
    /\ pager' = DontWrite(Got(Written(pager, 1), g), g)
    /\ unused' = unused \cup {g}
    /\ UNCHANGED <<mode, file, step, lost, freeAtStart, mark>>

\* allocatePage(): a leaf of the free list is used again.
Allocated(P, g) == Written(DontRollback(Got(Written(P, 1), g), g), g)
Reuse(g) ==
    /\ Ready /\ Call /\ g \in (unused \ lost) \cap 1 .. pager.dbSize
    /\ pager' = [Allocated(pager, g) EXCEPT !.hdr[g].data = Fresh]
    /\ unused' = unused \ {g}
    /\ UNCHANGED <<mode, file, step, lost, freeAtStart, mark>>

\* autoVacuumCommit(): the free pages are to be the last n + 1 .. dbSize, and
\* will be cut off.
Vacuum ==
    /\ Ready /\ mark = NoMark /\ unused # {} /\ lost = {}
    /\ step' = [call |-> "vacuum", size |-> pager.dbSize - Cardinality(unused)]
    /\ UNCHANGED <<mode, file, pager, caller, last>>

\* A page of the free list is taken, to move another page there or, at the end
\* of the file, because it is in the way.
Allocate(h) ==
    /\ h \in (unused \ lost) \cap 1 .. pager.dbSize
    /\ \/ /\ Ready /\ last < MaxPage + MaxCalls
          /\ step' = [call |-> "allocated", to |-> h, next |-> "root"]
          /\ UNCHANGED lost
       \/ /\ step.call = "vacuum" /\ h <= step.size
          /\ step' = [call |-> "allocated", to |-> h, next |-> "vacuum", size |-> step.size]
          /\ UNCHANGED lost
       \/ /\ step.call = "vacuum" /\ h > step.size
          /\ lost' = lost \cup {h} /\ UNCHANGED step
    /\ pager' = Allocated(pager, h)
    /\ UNCHANGED <<mode, file, unused, freeAtStart, mark, last>>

\* With an empty free list it is a new one at the end of the file, unless that
\* is the root page that is wanted.
AllocateNew(h) ==
    /\ Ready /\ last < MaxPage + MaxCalls
    /\ unused = {} /\ Live \ {1} # {} /\ h = pager.dbSize + 1
    /\ pager' = Written(Got(pager, h), h)
    /\ unused' = unused \cup {h}
    /\ step' = [call |-> "allocated", to |-> h, next |-> "root"]
    /\ UNCHANGED <<mode, file, lost, freeAtStart, mark, last>>

\* sqlite3BtreeDropTable(): a root page is cleared, for the last root page to
\* move there.  DROP begins no statement.
DropRoot(h) ==
    /\ Ready /\ Call /\ mark = NoMark
    /\ h \in Live \ {1} /\ \E g \in Live : h < g
    /\ pager' = Changed(pager, h, Fresh)
    /\ unused' = unused \cup {h}
    /\ step' = [call |-> "allocated", to |-> h, next |-> "drop"]
    /\ UNCHANGED <<mode, file, lost, freeAtStart, mark>>

\* sqlite3pager_movepage(): the header of the page gets the new number.  Only
\* needSync of the page that had it is kept.
Moved(P, g, h) ==
    LET sync == h \in Cached(P) /\ P.hdr[h].needSync
    IN  [P EXCEPT !.hdr[g] = Absent,
                  !.hdr[h] = [P.hdr[g] EXCEPT !.dirty = TRUE,
                                              !.inJournal = @ \/ sync,
                                              !.needSync = @ \/ sync],
                  !.dirtyCache = TRUE]

\* Do the flags of page g, under the number h, say what the journals contain?
Flagged(P, g, h) ==
    LET moved == Moved(P, g, h).hdr[h]
    IN  /\ h <= P.origDbSize /\ h \in P.aInJournal => moved.inJournal
        /\ P.stmtInUse /\ h <= P.stmtSize /\ h \in P.aInStmt => moved.inStmt
        /\ P.hdr[g].needSync => h \in Cached(P) /\ P.hdr[h].needSync

\* In sqlite3BtreeCreateTable() the page is written first.
Movable(g) ==
    /\ g \in Live \ {1}
    /\ step.next = "vacuum" => g > step.size
    /\ step.next = "drop" => g > step.to
AfterMove(g) ==
    IF step.next = "vacuum" THEN [call |-> "vacuum", size |-> step.size]
    ELSE [call |-> "root", from |-> g]
Move(g) ==
    /\ step.call = "allocated" /\ Movable(g)
    /\ LET h == step.to
           P == Got(pager, g)
           Q == IF step.next = "root" THEN Written(P, g) ELSE P
       IN  /\ Flagged(Q, g, h) \/ MovesUnflagged
           /\ pager' = Moved(Q, g, h)
           /\ unused' = (unused \ {h}) \cup {g}
           /\ lost' = lost \cup {g}
           /\ step' = IF Q.hdr[g].needSync THEN [call |-> "move", from |-> g, to |-> h,
                                                 next |-> AfterMove(g)]
                      ELSE AfterMove(g)
    /\ UNCHANGED <<mode, file, freeAtStart, mark, last>>

\* The number the page had must wait for the journal too: it is read again,
\* for which the journal may have been synced meanwhile.
Hold_Not(P, g) == Got(P, g)

Hold(P, g) ==
    [Got(P, g) EXCEPT !.needSync = TRUE, !.hdr[g].needSync = TRUE,
                      !.hdr[g].inJournal = TRUE, !.hdr[g].dirty = TRUE]
HoldMoved ==
    /\ step.call = "move"
    /\ pager' = Hold(pager, step.from)
    /\ step' = step.next
    /\ UNCHANGED <<mode, file, caller, last>>

\* The number the page had is for the new root page or, after a DROP, for a
\* trunk page of the free list.
NewRoot ==
    /\ step.call = "root" /\ Call
    /\ pager' = Changed(pager, step.from, Fresh)
    /\ unused' = unused \ {step.from} /\ lost' = lost \ {step.from}
    /\ step' = [call |-> "none"]
    /\ UNCHANGED <<mode, file, freeAtStart, mark>>

-----------------------------------------------------------------------------
(* pager_recycle(): any call that needs a page may push another one out.   *)

\* The pages sqlite3pager_sync() has yet to journal.
Unjournaled == (step.at .. pager.origDbSize) \ pager.aInJournal

MayRecycle ==
    /\ step.call \notin {"lock", "store"} /\ pager.state \in {"reserved", "exclusive"}
    /\ step.call = "tail" => Unjournaled # {}

SyncForRoom ==
    /\ MayRecycle /\ Free # {}
    /\ \A g \in Free : pager.hdr[g].needSync
    /\ pager' = JournalSynced(pager)
    /\ UNCHANGED <<mode, file, step, caller, last>>

Forgotten(P, g) ==
    [P EXCEPT !.hdr[g] = Absent, !.alwaysRollback = @ \/ P.hdr[g].alwaysRollback]

Recyclable_Unsynced == Free

Recyclable == {g \in Free : ~pager.hdr[g].needSync}

RecycleClean(g) ==
    /\ MayRecycle /\ g \in Recyclable /\ ~pager.hdr[g].dirty
    /\ pager' = Forgotten(pager, g)
    /\ UNCHANGED <<mode, file, step, caller, last>>

\* With EXCLUSIVE, a page that was changed is written.
Spill(g) ==
    /\ MayRecycle /\ g \in Recyclable /\ pager.hdr[g].dirty
    /\ file' = IF g <= pager.dbSize THEN Put(file, g, pager.hdr[g].data) ELSE file
    /\ pager' = [Forgotten(pager, g) EXCEPT !.state = "exclusive"]
    /\ UNCHANGED <<mode, step, caller, last>>

-----------------------------------------------------------------------------
(* Statements.                                                             *)

Contents ==
    [g \in Page |-> IF g \in unused THEN Unused
                   ELSE IF g > pager.dbSize THEN Missing
                   ELSE IF pager.hdr[g].data = NotCached THEN Stored(g)
                   ELSE pager.hdr[g].data]

BeginStmt ==
    /\ Ready /\ Call /\ mark = NoMark
    /\ pager' = StmtBegun(pager)
    /\ mark' = Contents
    /\ UNCHANGED <<mode, file, step, unused, lost, freeAtStart>>

CommitStmt ==
    /\ Ready /\ mark # NoMark
    /\ pager' = StmtEnded(pager)
    /\ mark' = NoMark
    /\ UNCHANGED <<mode, file, step, unused, lost, freeAtStart, last>>

\* pager_playback_one_page(): ticket #1171, a page goes to the file only if
\* its original content is safe in the main journal.
ToFile_Always(P, g) == P.state = "exclusive"

ToFile(P, g) == P.state = "exclusive" /\ ~P.hdr[g].needSync

\* pager_stmt_playback(): the statement journal, then what the main journal
\* was given since the statement began.
StmtRecords(P) == P.stmtJournal \o SubSeq(P.journal, P.stmtStart + 1, Len(P.journal))
Restorable == {g \in 1 .. pager.stmtSize : g \in PagesOf(StmtRecords(pager))}
StmtPlayback ==
    [file |-> Played(IF pager.state = "exclusive" THEN Cut(file, pager.stmtSize) ELSE file,
                     StmtRecords(pager), {g \in Page : ToFile(pager, g)}),
     pager |-> [pager EXCEPT
        !.dbSize = pager.stmtSize,
        !.hdr = [g \in Page |->
                    IF g \in Restorable \cap Cached(pager)
                    THEN [@[g] EXCEPT !.data = LastOf(StmtRecords(pager), g),
                                      !.dirty = pager.hdr[g].dirty /\ ~ToFile(pager, g)]
                    ELSE @[g]]]]

RollbackStmt ==
    /\ Ready /\ mark # NoMark
    /\ IF pager.stmtInUse
       THEN file' = StmtPlayback.file /\ pager' = StmtEnded(StmtPlayback.pager)
       ELSE file' = file /\ pager' = StmtEnded(pager)
    /\ mark' = NoMark
    /\ unused' = {g \in Page : mark[g] = Unused}
    /\ UNCHANGED <<mode, step, lost, freeAtStart, last>>

-----------------------------------------------------------------------------
(* The end of the transaction.                                             *)

Ended(hdr, size) == pager' = Closed(hdr, size) /\ step' = [call |-> "none"]

\* sqlite3pager_sync(): page 1 is written, for the change counter, ...
Sync ==
    /\ mark = NoMark /\ pager.dirtyCache
    /\ \E n \in Page :
          /\ \/ Ready /\ n = pager.dbSize
             \/ step.call = "vacuum" /\ n = step.size /\ \A g \in Live : g <= n
          /\ step' = [call |-> "tail", size |-> n, at |-> n + 1]
          /\ lost' = lost \cup (n + 1 .. pager.dbSize)
    /\ pager' = Written(pager, 1)
    /\ UNCHANGED <<mode, file, unused, freeAtStart, mark, last>>

\* ... the pages that will be cut off are journaled, one after the other, ...
JournalTail(g) ==
    /\ step.call = "tail" /\ g \in Unjournaled /\ \A h \in Unjournaled : g <= h
    /\ pager' = Written(Got(pager, g), g)
    /\ step' = [call |-> "tail", size |-> step.size, at |-> g + 1]
    /\ UNCHANGED <<mode, file, caller, last>>

\* ... and the journal is synced.
TailDone ==
    /\ step.call = "tail" /\ Unjournaled = {}
    /\ pager' = JournalSynced(pager)
    /\ step' = [call |-> "lock", size |-> step.size]
    /\ UNCHANGED <<mode, file, caller, last>>

\* EXCLUSIVE is refused: the transaction goes on.
SyncBusy ==
    /\ step.call = "lock" /\ pager.state = "reserved"
    /\ step' = [call |-> "none"]
    /\ UNCHANGED <<mode, file, pager, caller, last>>

Truncate ==
    /\ step.call = "lock"
    /\ LET n == step.size
       IN  IF n < pager.dbSize
           THEN /\ file' = Cut(file, n)
                /\ pager' = [pager EXCEPT !.state = "exclusive", !.dbSize = n]
                /\ unused' = unused \cap 1 .. n /\ lost' = lost \cap 1 .. n
           ELSE /\ pager' = [pager EXCEPT !.state = "exclusive"]
                /\ UNCHANGED <<file, unused, lost>>
    /\ step' = [call |-> "store"]
    /\ UNCHANGED <<mode, freeAtStart, mark, last>>

\* pager_write_pagelist().
Store(g) ==
    /\ step.call = "store" /\ pager.hdr[g].dirty
    /\ file' = IF g <= pager.dbSize THEN Put(file, g, pager.hdr[g].data) ELSE file
    /\ pager' = [pager EXCEPT !.hdr[g].dirty = FALSE]
    /\ UNCHANGED <<mode, step, caller, last>>

\* pager_unwritelock(): the journal is deleted, what is cached stays.
Commit ==
    /\ step.call = "store" /\ \A g \in Page : ~pager.hdr[g].dirty
    /\ Ended([g \in Page |-> [pager.hdr[g] EXCEPT !.inJournal = FALSE, !.inStmt = FALSE]],
             pager.dbSize)
    /\ freeAtStart' = [unused |-> unused, lost |-> lost]
    /\ UNCHANGED <<mode, file, unused, lost, mark, last>>

\* sqlite3pager_rollback(): a file that was written is restored, a page that
\* waits for the journal excepted.  Nobody else uses the cache: it goes.
Restored ==
    IF pager.state = "exclusive" /\ pager.journalOpen /\ pager.dirtyCache
    THEN Played(Cut(file, pager.origDbSize), Counted(pager),
                {g \in Page : ~pager.hdr[g].needSync})
    ELSE file

Forget(f) ==
    /\ file' = f
    /\ Ended(Empty, f.size)
    /\ unused' = freeAtStart.unused /\ lost' = freeAtStart.lost
    /\ mark' = NoMark
    /\ UNCHANGED <<mode, freeAtStart, last>>

Rollback == (Ready \/ step.call = "vacuum") /\ Forget(Restored)

\* The process dies, and another one rolls back what it has left.
Crash == mode # "temp" /\ pager.state # "shared" /\ Forget(Recovered(file, pager))

-----------------------------------------------------------------------------

Next ==
    \/ Begin \/ BeginStmt \/ CommitStmt \/ RollbackStmt
    \/ Vacuum \/ HoldMoved \/ NewRoot \/ SyncForRoom \/ Sync \/ TailDone \/ SyncBusy \/ Truncate \/ Commit \/ Rollback \/ Crash
    \/ \E g \in Page : \/ Write(g) \/ FreePage(g) \/ Reuse(g) \/ Move(g)
                        \/ Allocate(g) \/ AllocateNew(g) \/ DropRoot(g)
                        \/ RecycleClean(g) \/ Spill(g) \/ JournalTail(g) \/ Store(g)

Spec == Init /\ [][Next]_vars

-----------------------------------------------------------------------------
(* What must hold.                                                         *)

Header ==
    [data : Value \cup {NotCached}, dirty : BOOLEAN, inJournal : BOOLEAN,
     needSync : BOOLEAN, inStmt : BOOLEAN, alwaysRollback : BOOLEAN]

Once(records) ==
    \A i, j \in DOMAIN records : records[i].page = records[j].page => i = j

\* The state is well formed: the counts of records are within the journals, a
\* page is in each journal once (a second record would undo the first), only
\* cached pages have flags, and there is no statement without a transaction.
TypeOK ==
    /\ mode \in Modes
    /\ file.size \in 0 .. MaxPage /\ file.page \in [Page -> Value \cup {Missing}]
    /\ \A g \in Page : file.page[g] = Missing <=> g > file.size
    /\ pager.hdr \in [Page -> Header]
    /\ \A g \in Page \ Cached(pager) : pager.hdr[g] = Absent
    /\ pager.state \in {"shared", "reserved", "exclusive"}
    /\ {pager.dbSize, pager.origDbSize, pager.stmtSize} \subseteq 0 .. MaxPage
    /\ pager.aInJournal \cup pager.aInStmt \cup unused \subseteq Page
    /\ lost \subseteq unused /\ freeAtStart.lost \subseteq freeAtStart.unused
    /\ 0 <= pager.nRec /\ pager.nRec <= Len(pager.journal)
    /\ 0 <= pager.stmtStart /\ pager.stmtStart <= Len(pager.journal)
    /\ pager.stmtInUse => mark # NoMark /\ pager.journalOpen
    /\ pager.state = "shared" => mark = NoMark /\ ~pager.journalOpen
    /\ Once(pager.journal) /\ Once(pager.stmtJournal)
    /\ last \in Value

\* The asserts of pager.c about the two journals: a page that waits for the
\* journal makes the pager wait (syncJournal()), is in the journal and, when
\* it may be moved, dirty (sqlite3pager_movepage()); a page given to the statement journal is
\* in the main journal or new (sqlite3pager_write()); before the file is
\* written, a page a statement is to restore is in the cache (pager_playback_one_page()).
AssertsHold ==
    /\ \A g \in Page : pager.hdr[g].needSync =>
            pager.needSync /\ pager.hdr[g].inJournal /\ (pager.hdr[g].dirty \/ g \notin Live)
    /\ \A g \in Page : pager.hdr[g].inStmt =>
            pager.hdr[g].inJournal \/ g > pager.origDbSize
    /\ pager.stmtInUse /\ pager.state = "reserved" /\ Ready =>
            PagesOf(StmtRecords(pager)) \subseteq Cached(pager)

\* When no transaction is under way the file has the size the pager thinks it
\* has, though pages of the free list were not written; but for the pages that
\* a vacuum took from the free list and that were not cut off.
SizeWritten == pager.state = "shared" /\ lost = {} => file.size = pager.dbSize

\* What a crash, or where there is no recovery a rollback, would leave.
Safe ==
    LET f == Recovered(file, pager)
    IN  [g \in Page |-> IF g \in freeAtStart.unused THEN Unused
                       ELSE IF g > f.size THEN Missing ELSE f.page[g]]

Abstract == INSTANCE NestedStore WITH
    saved <- Safe, now <- Contents, open <- pager.state # "shared"

\* The pager is a store with a transaction and a statement in it: whatever is
\* written early, left out of a journal or moved, a statement rollback gives
\* back what the pages were when it began, a rollback or a crash what they
\* were when the transaction began, and a commit keeps everything; pages of
\* the free list excepted.
ImplementsNestedStore == Abstract!Spec
=============================================================================
