----------------------------- MODULE Connection -----------------------------
(***************************************************************************)
(* Statements of several connections that share one cache (SQLite 3.3.4:   *)
(* vdbe.c, vdbeaux.c, main.c and the transactions of btree.c).             *)
(*                                                                         *)
(* One thread executes everything (a cache is shared inside a thread), so  *)
(* only one statement runs at a time; but a statement is suspended between *)
(* two calls of sqlite3_step, after a row or after SQLITE_BUSY, and others  *)
(* run meanwhile.  An opcode that touches shared state is an action.        *)
(*                                                                         *)
(* The other processes that use the file show as SQLITE_BUSY, when page 1   *)
(* is first read, when a write transaction begins and when it commits       *)
(* (module Pager has the reasons).                                          *)
(*                                                                         *)
(* Data: a table is the set of its rows; row <<t, n, k>> is the k-th row    *)
(* that write statement n puts into table t.  A write statement puts two.   *)
(***************************************************************************)
EXTENDS Integers, FiniteSets

CONSTANTS Conn,            \* the connections (sqlite3), each with one Btree handle
          NoConn,
          Stmt,            \* prepared statements
          NoStmt,
          Owner,           \* Owner[s]: the connection of statement s
          Table,           \* tables (root pages), MASTER_ROOT among them
          Master,
          ReadUncommitted, \* connections with the flag SQLITE_ReadUncommitted
          MaxWrite,        \* bound: write statements executed
          CountChanges,    \* may PRAGMA count_changes suspend write statements?
          BusyOnReset,     \* may sqlite3_reset meet a reader of another process?
          FailsBesideOthers \* may a write in autocommit mode fail after its first
                           \*   row while its connection has other active statements?

ASSUME OwnerAssumption == Owner \in [Stmt -> Conn] /\ Master \in Table
ASSUME NoneAssumption == NoConn \notin Conn /\ NoStmt \notin Stmt
ASSUME BoundAssumption == MaxWrite \in Nat /\ ReadUncommitted \subseteq Conn
ASSUME FiniteAssumption == IsFiniteSet(Conn) /\ IsFiniteSet(Stmt)
ASSUME SwitchAssumption == {CountChanges, BusyOnReset, FailsBesideOthers} \subseteq BOOLEAN

\* TRANS_xxx, and READ_LOCK < WRITE_LOCK
NONE == 0
READ == 1
WRITE == 2
Row == Table \X (1 .. MaxWrite) \X {1, 2}
Kind == {"read", "write", "begin", "immediate", "commit", "rollback"}
ErrorAction == {"abort", "fail", "rollback"}  \* OE_xxx: what a constraint error does
ResultCode == {"ok", "error", "nomem", "ioerr"}

VARIABLES
    bt,            \* the BtShared and the Btree handles on it
    autoCommit,    \* sqlite3.autoCommit
    activeVdbeCnt, \* sqlite3.activeVdbeCnt
    vdbe,          \* the statements
    thread,        \* the statement sqlite3_step or sqlite3_reset is executing
    nWrite         \* write statements started
vars == <<bt, autoCommit, activeVdbeCnt, vdbe, thread, nWrite>>

Idle == [at |-> "idle", kind |-> "read", table |-> Master, errorAction |-> "abort",
         rc |-> "ok", aborted |-> FALSE, cursor |-> FALSE, id |-> 0]

Init ==
    /\ bt = [open |-> Conn, inTrans |-> [c \in Conn |-> NONE],
             inTransaction |-> NONE, nTransaction |-> 0, inStmt |-> FALSE,
             page1 |-> FALSE, lock |-> [c \in Conn |-> [t \in Table |-> NONE]],
             disk |-> {}, cache |-> {}, before |-> {}]
    /\ autoCommit = [c \in Conn |-> TRUE]
    /\ activeVdbeCnt = [c \in Conn |-> 0]
    /\ vdbe = [s \in Stmt |-> Idle]
    /\ thread = NoStmt
    /\ nWrite = 0

----------------------------------------------------------------------------
(* The B-tree layer: functions of bt.  page1 is TRUE while page 1, and with *)
(* it the file lock, is held; before is the content at sqlite3pager_stmt_begin. *)

\* unlockBtreeIfUnused; cursors says whether any cursor is open.
UnlockIfUnused(b, cursors) ==
    IF b.inTransaction = NONE /\ ~cursors
      THEN [b EXCEPT !.page1 = FALSE, !.inStmt = FALSE]
      ELSE b

\* sqlite3BtreeBeginTrans
AlreadyBegun(b, c, w) == b.inTrans[c] >= w
OtherWrites(b, c, w) == w = WRITE /\ b.inTransaction = WRITE /\ b.inTrans[c] # WRITE
Begun_CountedTwice(b, c, w) ==
    [b EXCEPT !.page1 = TRUE,
              !.inStmt = IF w = WRITE THEN FALSE ELSE @,
              !.nTransaction = IF @ < Cardinality(Conn) THEN @ + 1 ELSE @,
              !.inTrans[c] = w,
              !.inTransaction = IF w > @ THEN w ELSE @]
Begun(b, c, w) ==
    [b EXCEPT !.page1 = TRUE,
              !.inStmt = IF w = WRITE THEN FALSE ELSE @,
              !.nTransaction = IF b.inTrans[c] = NONE THEN @ + 1 ELSE @,
              !.inTrans[c] = w,
              !.inTransaction = IF w > @ THEN w ELSE @]

\* queryTableLock: a reader with the flag neither sets nor respects locks.
Ignores(c, t, w) == c \in ReadUncommitted /\ w = READ /\ t # Master
LockGranted_OwnKind(b, c, t, w) ==
    Ignores(c, t, w) \/ \A d \in Conn \ {c} : b.lock[d][t] # w \/ w = READ
LockGranted(b, c, t, w) ==
    \/ Ignores(c, t, w)
    \/ \A d \in Conn \ {c} : b.lock[d][t] = NONE \/ (b.lock[d][t] = READ /\ w = READ)
Locked_Forever(b, c, t, w) == [b EXCEPT !.lock[c][t] = @ + w]
\* lockTable
Locked(b, c, t, w) ==
    IF Ignores(c, t, w) \/ b.lock[c][t] >= w THEN b ELSE [b EXCEPT !.lock[c][t] = w]
\* unlockAllTables
Unlocked(b, c) == [b EXCEPT !.lock[c] = [t \in Table |-> NONE]]

\* The common end of sqlite3BtreeCommit and sqlite3BtreeRollback.
TransactionEnded(b, c, cursors) ==
    LET n == IF b.inTrans[c] = NONE THEN b.nTransaction ELSE b.nTransaction - 1
    IN  UnlockIfUnused(
          [b EXCEPT !.nTransaction = n, !.inTrans[c] = NONE,
                    !.inTransaction = IF b.inTrans[c] # NONE /\ n = 0 THEN NONE ELSE @],
          cursors)

\* sqlite3BtreeCommit
Committed(b, c, cursors) ==
    LET w == IF b.inTrans[c] = WRITE
               THEN [b EXCEPT !.disk = b.cache, !.inTransaction = READ,
                              !.inStmt = FALSE, !.before = {}]
               ELSE b
    IN  TransactionEnded(Unlocked(w, c), c, cursors)

RolledBack_KeepsLocks(b, c, cursors) ==
    LET w == IF b.inTrans[c] = WRITE
               THEN [b EXCEPT !.cache = b.disk, !.before = {}, !.inTransaction = READ]
               ELSE b
    IN  TransactionEnded([w EXCEPT !.inStmt = FALSE], c, cursors)
\* sqlite3BtreeRollback
RolledBack(b, c, cursors) ==
    LET w == IF b.inTrans[c] = WRITE
               THEN [b EXCEPT !.cache = b.disk, !.before = {}, !.inTransaction = READ]
               ELSE b
    IN  TransactionEnded([Unlocked(w, c) EXCEPT !.inStmt = FALSE], c, cursors)

StmtBegun_AtCommitted(b) == [b EXCEPT !.inStmt = TRUE, !.before = b.disk]
\* sqlite3BtreeBeginStmt, CommitStmt and RollbackStmt: one statement
\* subtransaction per BtShared, whoever began it.
StmtBegun(b) == [b EXCEPT !.inStmt = TRUE, !.before = b.cache]
StmtCommitted(b) == [b EXCEPT !.inStmt = FALSE, !.before = {}]
StmtRolledBack_Keeps(b) == StmtCommitted(b)
StmtRolledBack(b) ==
    IF b.inStmt THEN [StmtCommitted(b) EXCEPT !.cache = b.before] ELSE b

----------------------------------------------------------------------------
(* Statements *)

Of(c) == {s \in Stmt : Owner[s] = c}
Suspended == {"busyTransaction", "busyHalt", "row", "done"}
Running(s) == thread = s
Active(s) == vdbe[s].at # "idle"
Cursors(v) == {s \in Stmt : v[s].cursor}
Visible(t) == {r \in bt.cache : r[1] = t}
Free == thread = NoStmt

Goto(s, at) == [vdbe EXCEPT ![s].at = at]
Fails(s, code) == [vdbe EXCEPT ![s].at = "halt", ![s].rc = code]

\* The first sqlite3_step of a statement.
Start(s) ==
    LET c == Owner[s] IN
    /\ Free /\ vdbe[s].at = "idle" /\ c \in bt.open
    /\ \E k \in Kind, t \in Table :
          /\ k = "write" => nWrite < MaxWrite /\ t # Master
          /\ k \notin {"read", "write"} => t = Master
          /\ nWrite' = IF k = "write" THEN nWrite + 1 ELSE nWrite
          /\ vdbe' = [vdbe EXCEPT ![s] =
                [Idle EXCEPT !.kind = k, !.table = t,
                     !.at = IF k \in {"read", "write", "immediate"}
                              THEN "transaction" ELSE "autocommit",
                     !.id = IF k = "write" THEN nWrite + 1 ELSE 0]]
    /\ activeVdbeCnt' = [activeVdbeCnt EXCEPT ![c] = @ + 1]
    /\ thread' = s
    /\ UNCHANGED <<bt, autoCommit>>

\* sqlite3_step again, after SQLITE_BUSY.
Retry(s) ==
    /\ Free /\ ~vdbe[s].aborted
    /\ \/ vdbe[s].at = "busyTransaction" /\ vdbe' = Goto(s, "transaction")
       \/ /\ vdbe[s].at = "busyHalt"
          /\ vdbe' = Goto(s, IF vdbe[s].kind = "commit" THEN "autocommit" ELSE "halt")
    /\ thread' = s
    /\ UNCHANGED <<bt, autoCommit, activeVdbeCnt, nWrite>>

Wanted(s) == IF vdbe[s].kind = "read" THEN READ ELSE WRITE

\* OP_Transaction
Transaction(s) ==
    LET c == Owner[s] IN
    /\ Running(s) /\ vdbe[s].at = "transaction"
    /\ AlreadyBegun(bt, c, Wanted(s)) \/ ~OtherWrites(bt, c, Wanted(s))
    /\ bt' = IF AlreadyBegun(bt, c, Wanted(s)) THEN bt ELSE Begun(bt, c, Wanted(s))
    /\ vdbe' = Goto(s, IF vdbe[s].kind = "immediate" THEN "autocommit" ELSE "lock")
    /\ UNCHANGED <<autoCommit, activeVdbeCnt, thread, nWrite>>

\* ... SQLITE_BUSY: another handle writes, or another process does.
TransactionBusy(s) ==
    LET c == Owner[s] IN
    /\ Running(s) /\ vdbe[s].at = "transaction"
    /\ ~AlreadyBegun(bt, c, Wanted(s))
    /\ \/ OtherWrites(bt, c, Wanted(s)) /\ bt' = bt
       \/ /\ ~OtherWrites(bt, c, Wanted(s))
          /\ bt.page1 => Wanted(s) = WRITE
          /\ \E read \in {bt.page1, Wanted(s) = WRITE} :
                bt' = UnlockIfUnused([bt EXCEPT !.page1 = read], Cursors(vdbe) # {})
    /\ vdbe' = Goto(s, "busyTransaction")
    /\ thread' = NoStmt
    /\ UNCHANGED <<autoCommit, activeVdbeCnt, nWrite>>

\* OP_TableLock
TableLock(s) ==
    LET c == Owner[s]  t == vdbe[s].table IN
    /\ Running(s) /\ vdbe[s].at = "lock"
    /\ IF LockGranted(bt, c, t, Wanted(s))
         THEN bt' = Locked(bt, c, t, Wanted(s)) /\ vdbe' = Goto(s, "open")
         ELSE bt' = bt /\ vdbe' = Fails(s, "error")
    /\ UNCHANGED <<autoCommit, activeVdbeCnt, thread, nWrite>>

NoReaders_Unchecked(t) == TRUE
\* checkReadLocks: no read cursor of a connection that wants stable tables.
NoReaders(t) ==
    \A s \in Cursors(vdbe) :
        vdbe[s].table = t /\ vdbe[s].kind = "read" => Owner[s] \in ReadUncommitted

\* OP_OpenRead, or OP_Statement and OP_OpenWrite.
Open(s) ==
    LET c == Owner[s]
        opened == [vdbe EXCEPT ![s].at = "go", ![s].cursor = TRUE]
    IN
    /\ Running(s) /\ vdbe[s].at = "open"
    /\ IF vdbe[s].kind = "read"
         THEN vdbe' = opened /\ bt' = bt
         ELSE /\ bt' = IF ~autoCommit[c] /\ ~bt.inStmt THEN StmtBegun(bt) ELSE bt
              /\ vdbe' = IF NoReaders(vdbe[s].table) THEN opened ELSE Fails(s, "error")
    /\ UNCHANGED <<autoCommit, activeVdbeCnt, thread, nWrite>>

\* OP_Callback of a query: the row is returned, the cursor stays open.
ResultRow(s) ==
    /\ Running(s) /\ vdbe[s].at = "go" /\ vdbe[s].kind = "read"
    /\ vdbe' = Goto(s, "row")
    /\ thread' = NoStmt
    /\ UNCHANGED <<bt, autoCommit, activeVdbeCnt, nWrite>>

\* sqlite3_step of a statement that has returned its last row: it ends, or
\* it is interrupted or out of memory or cannot read the file.
Step(s) ==
    /\ Free /\ vdbe[s].at = "row" /\ ~vdbe[s].aborted
    /\ \E code \in ResultCode :
          /\ vdbe[s].kind = "write" => code = "ok"
          /\ vdbe' = Fails(s, code)
    /\ thread' = s
    /\ UNCHANGED <<bt, autoCommit, activeVdbeCnt, nWrite>>

NewRow(s, k) == <<vdbe[s].table, vdbe[s].id, k>>

\* A write statement puts its rows: OP_Insert twice, the cursor closed, and
\* with count_changes the number of rows returned before OP_Halt.
Insert(s) ==
    LET c == Owner[s] IN
    /\ Running(s) /\ vdbe[s].at = "go" /\ vdbe[s].kind = "write"
    /\ \/ /\ NewRow(s, 1) \notin bt.cache
          /\ bt' = [bt EXCEPT !.cache = @ \cup {NewRow(s, 1)}]
          /\ UNCHANGED <<vdbe, thread>>
       \/ /\ NewRow(s, 1) \in bt.cache
          /\ bt' = [bt EXCEPT !.cache = @ \cup {NewRow(s, 2)}]
          /\ \E at \in {"halt"} \cup IF CountChanges THEN {"row"} ELSE {} :
                /\ vdbe' = [vdbe EXCEPT ![s].at = at, ![s].cursor = at # "row"]
                /\ thread' = IF at = "row" THEN NoStmt ELSE s
    /\ UNCHANGED <<autoCommit, activeVdbeCnt, nWrite>>

\* A constraint, an allocation or a system call fails before a row is put.
\* OP_Halt sets the errorAction of a constraint; otherwise it is OE_Abort.
InsertFails(s) ==
    /\ Running(s) /\ vdbe[s].at = "go" /\ vdbe[s].kind = "write"
    /\ (autoCommit[Owner[s]] /\ NewRow(s, 1) \in bt.cache /\ activeVdbeCnt[Owner[s]] > 1)
          => FailsBesideOthers
    /\ \E code \in ResultCode \ {"ok"}, p \in ErrorAction :
          /\ p = "abort" \/ code = "error"
          /\ vdbe' = [Fails(s, code) EXCEPT ![s].errorAction = p]
    /\ UNCHANGED <<bt, autoCommit, activeVdbeCnt, thread, nWrite>>

----------------------------------------------------------------------------
(* The end of a statement: sqlite3VdbeHalt *)

\* sqlite3AbortOtherActiveVdbes: their cursors are closed.
AbortOthers(v, s) ==
    [q \in Stmt |-> IF q \in Of(Owner[s]) \ {s} /\ v[q].at # "idle"
                      THEN [v[q] EXCEPT !.aborted = TRUE, !.cursor = FALSE]
                      ELSE v[q]]

LastActive(s) == autoCommit[Owner[s]] /\ activeVdbeCnt[Owner[s]] = 1

\* SQLITE_NOMEM in a statement without OP_Statement, or SQLITE_IOERR
SpecialError(s) ==
    \/ vdbe[s].rc = "ioerr"
    \/ vdbe[s].rc = "nomem" /\ vdbe[s].kind # "write"

\* A statement that is reset after SQLITE_BUSY has that result code.
Busy(s) == vdbe[s].at \in {"busyTransaction", "busyHalt"}
Succeeds(s) == (vdbe[s].rc = "ok" /\ ~Busy(s)) \/ vdbe[s].errorAction = "fail"

\* What the statement s, halting, does to the transaction of its connection.
Decision(s) ==
    CASE SpecialError(s)                           -> "rollback"
      [] ~SpecialError(s) /\ LastActive(s)         -> IF Succeeds(s) THEN "commit" ELSE "rollback"
      [] ~SpecialError(s) /\ ~LastActive(s)        ->
            IF Succeeds(s) THEN "commitStmt"
            ELSE IF vdbe[s].errorAction = "abort" THEN "rollbackStmt" ELSE "rollback"

Halted(s) ==
    LET c == Owner[s]
        d == Decision(s)
        closed == [vdbe EXCEPT ![s] = Idle]
        after == IF d = "rollback" THEN AbortOthers(closed, s) ELSE closed
        more == Cursors(after) # {}
        b == UnlockIfUnused(bt, more)
    IN
    /\ vdbe' = after
    /\ bt' = CASE d = "commit" -> Committed(b, c, more)
               [] d = "rollback" -> RolledBack(b, c, more)
               [] d = "commitStmt" -> StmtCommitted(b)
               [] d = "rollbackStmt" -> StmtRolledBack(b)
    /\ autoCommit' = IF d = "rollback" THEN [autoCommit EXCEPT ![c] = TRUE] ELSE autoCommit
    /\ activeVdbeCnt' = [activeVdbeCnt EXCEPT ![c] = @ - 1]
    /\ thread' = NoStmt
    /\ UNCHANGED nWrite

\* Another process reads the file when vdbeCommit wants it exclusively.
CommitIsBusy(s) == Decision(s) = "commit" /\ bt.inTrans[Owner[s]] = WRITE

Halt(s) == Running(s) /\ vdbe[s].at = "halt" /\ Halted(s)

HaltBusy(s) ==
    /\ Running(s) /\ vdbe[s].at = "halt" /\ CommitIsBusy(s)
    /\ vdbe' = [vdbe EXCEPT ![s].at = "busyHalt", ![s].cursor = FALSE]
    /\ thread' = NoStmt
    /\ UNCHANGED <<bt, autoCommit, activeVdbeCnt, nWrite>>

\* sqlite3_reset of a statement that has not halted.  When its commit is
\* busy, sqlite3VdbeReset does not look at the result of sqlite3VdbeHalt: the
\* statement is cleaned up but still counted.
Reset(s) ==
    /\ Free /\ vdbe[s].at \in Suspended
    /\ vdbe[s].kind = "write" /\ vdbe[s].at = "busyHalt" /\ ~LastActive(s)
          => FailsBesideOthers
    /\ \E busy \in {FALSE} \cup IF BusyOnReset THEN {CommitIsBusy(s)} ELSE {} :
          IF busy
            THEN /\ vdbe' = [vdbe EXCEPT ![s] = Idle]
                 /\ UNCHANGED <<bt, autoCommit, activeVdbeCnt, thread, nWrite>>
            ELSE Halted(s)

\* OP_AutoCommit for BEGIN: halts with the flag cleared.
Begin(s) ==
    LET c == Owner[s] IN
    /\ Running(s) /\ vdbe[s].at = "autocommit" /\ vdbe[s].kind \in {"begin", "immediate"}
    /\ IF autoCommit[c]
         THEN /\ autoCommit' = [autoCommit EXCEPT ![c] = FALSE]
              /\ bt' = StmtCommitted(bt)
              /\ vdbe' = [vdbe EXCEPT ![s] = Idle]
              /\ activeVdbeCnt' = [activeVdbeCnt EXCEPT ![c] = @ - 1]
              /\ thread' = NoStmt
         ELSE vdbe' = Fails(s, "error") /\ UNCHANGED <<bt, autoCommit, activeVdbeCnt, thread>>
    /\ UNCHANGED nWrite

\* COMMIT and ROLLBACK want a transaction and no other active statement.
MayEnd(c) == ~autoCommit[c] /\ activeVdbeCnt[c] = 1

Commit(s) ==
    LET c == Owner[s] IN
    /\ Running(s) /\ vdbe[s].at = "autocommit" /\ vdbe[s].kind = "commit"
    /\ \/ /\ MayEnd(c)
          /\ autoCommit' = [autoCommit EXCEPT ![c] = TRUE]
          /\ vdbe' = [vdbe EXCEPT ![s] = Idle]
          /\ bt' = Committed(bt, c, Cursors(vdbe) # {})
          /\ activeVdbeCnt' = [activeVdbeCnt EXCEPT ![c] = 0]
          /\ thread' = NoStmt
       \/ /\ MayEnd(c) /\ bt.inTrans[c] = WRITE    \* SQLITE_BUSY
          /\ vdbe' = Goto(s, "busyHalt")
          /\ thread' = NoStmt
          /\ UNCHANGED <<bt, autoCommit, activeVdbeCnt>>
       \/ /\ ~MayEnd(c)
          /\ vdbe' = Fails(s, "error")
          /\ UNCHANGED <<bt, autoCommit, activeVdbeCnt, thread>>
    /\ UNCHANGED nWrite

\* ROLLBACK returns SQLITE_DONE without halting: sqlite3_reset halts it.
Rollback(s) ==
    LET c == Owner[s] IN
    /\ Running(s) /\ vdbe[s].at = "autocommit" /\ vdbe[s].kind = "rollback"
    /\ IF MayEnd(c)
         THEN /\ bt' = RolledBack(bt, c, Cursors(vdbe) # {})
              /\ autoCommit' = [autoCommit EXCEPT ![c] = TRUE]
              /\ vdbe' = Goto(s, "done")
              /\ thread' = NoStmt
         ELSE vdbe' = Fails(s, "error") /\ UNCHANGED <<bt, autoCommit, thread>>
    /\ UNCHANGED <<activeVdbeCnt, nWrite>>

----------------------------------------------------------------------------
\* sqlite3_close, allowed without statements, and sqlite3_open.
Close(c) ==
    /\ Free /\ c \in bt.open /\ \A s \in Of(c) : vdbe[s].at = "idle"
    /\ bt' = [RolledBack(bt, c, Cursors(vdbe) # {}) EXCEPT !.open = @ \ {c}]
    /\ autoCommit' = [autoCommit EXCEPT ![c] = TRUE]
    /\ activeVdbeCnt' = [activeVdbeCnt EXCEPT ![c] = 0]
    /\ UNCHANGED <<vdbe, thread, nWrite>>

Reopen(c) ==
    /\ Free /\ c \notin bt.open
    /\ bt' = [bt EXCEPT !.open = @ \cup {c}]
    /\ UNCHANGED <<autoCommit, activeVdbeCnt, vdbe, thread, nWrite>>

Next ==
    \/ \E s \in Stmt :
          \/ Start(s) \/ Retry(s) \/ Step(s) \/ Reset(s)
          \/ Transaction(s) \/ TransactionBusy(s) \/ TableLock(s) \/ Open(s)
          \/ ResultRow(s) \/ Insert(s) \/ InsertFails(s)
          \/ Halt(s) \/ HaltBusy(s) \/ Begin(s) \/ Commit(s) \/ Rollback(s)
    \/ \E c \in Conn : Close(c) \/ Reopen(c)

Spec == Init /\ [][Next]_vars

----------------------------------------------------------------------------
(* Properties *)

TypeOK ==
    /\ bt \in [open : SUBSET Conn, inTrans : [Conn -> NONE .. WRITE],
               inTransaction : NONE .. WRITE, nTransaction : 0 .. Cardinality(Conn),
               inStmt : BOOLEAN, page1 : BOOLEAN, lock : [Conn -> [Table -> NONE .. WRITE]],
               disk : SUBSET Row, cache : SUBSET Row, before : SUBSET Row]
    /\ autoCommit \in [Conn -> BOOLEAN]
    /\ activeVdbeCnt \in [Conn -> 0 .. Cardinality(Stmt)]
    /\ thread \in Stmt \cup {NoStmt} /\ nWrite \in 0 .. MaxWrite

\* The transaction state of the shared B-tree summarises that of the handles
\* (btreeIntegrity, btree.c:1131, and the assertions of Commit, Rollback and
\* BeginStmt), the file lock is held exactly while someone needs it, and a
\* statement subtransaction is open only while its statement runs.  And
\* sqlite3.activeVdbeCnt counts the active statements (checkActiveVdbeCnt,
\* vdbeaux.c:1143): COMMIT and autocommit depend on it.
Integrity ==
    LET inTrans == {c \in Conn : bt.inTrans[c] # NONE}
        writers == {c \in Conn : bt.inTrans[c] = WRITE} IN
    /\ bt.nTransaction = Cardinality(inTrans) /\ inTrans \subseteq bt.open
    /\ Cardinality(writers) <= 1
    /\ bt.inTransaction = IF writers # {} THEN WRITE ELSE IF inTrans # {} THEN READ ELSE NONE
    /\ bt.page1 <=> inTrans # {} \/ Cursors(vdbe) # {}
    /\ bt.inStmt => ~Free /\ bt.inTrans[Owner[thread]] = WRITE
    /\ \A c \in Conn : activeVdbeCnt[c] = Cardinality({s \in Of(c) : Active(s)})

\* A query never sees rows another connection has not committed, unless its
\* connection reads uncommitted data (the table locks of btree.c:611-757).
NoDirtyRead ==
    \A s \in Cursors(vdbe), r \in bt.cache \ bt.disk :
        r[1] = vdbe[s].table /\ Owner[s] \notin ReadUncommitted
            => bt.inTrans[Owner[s]] = WRITE

\* The table a query scans does not change under its cursor, not even by its
\* own connection: checkReadLocks and the table locks (btree.c:2715).
StableScan ==
    [][\A s \in Stmt :
          /\ vdbe[s].cursor /\ vdbe[s].kind = "read" /\ Owner[s] \notin ReadUncommitted
          /\ vdbe'[s].cursor
          => \A r \in Row : r[1] = vdbe[s].table => (r \in bt.cache <=> r \in bt'.cache)
      ]_vars

\* In autocommit mode nothing outlives the last active statement: no
\* transaction, no table lock (vdbeaux.c:1153, "changes are committed").
AutocommitSettles ==
    \A c \in Conn :
        autoCommit[c] /\ (\A s \in Of(c) : ~Active(s))
            => bt.inTrans[c] = NONE /\ \A t \in Table : bt.lock[c][t] = NONE

\* A write statement that ends with an error, under any policy but OR FAIL,
\* leaves none of its rows behind (OP_Statement, vdbe.c:2312).
FailedLeavesNothing ==
    [][\A s \in Stmt :
          /\ Active(s) /\ vdbe'[s].at = "idle" /\ vdbe[s].kind = "write"
          /\ \/ vdbe[s].rc # "ok" /\ vdbe[s].errorAction # "fail"
             \/ vdbe[s].at = "busyHalt" /\ vdbe[s].errorAction # "fail"
          => \A r \in bt'.cache : r[2] # vdbe[s].id
      ]_vars

\* Transactions as SqlStore promises them.  The rows of a write statement
\* whose cursor is still open are not working rows yet.
InProgress == {vdbe[s].id : s \in {q \in Cursors(vdbe) : vdbe[q].kind = "write"}}
Writer ==
    IF \E c \in Conn : bt.inTrans[c] = WRITE
      THEN CHOOSE c \in Conn : bt.inTrans[c] = WRITE
      ELSE NoConn
Store == INSTANCE SqlStore WITH
    committed <- bt.disk,
    working <- {r \in bt.cache : r[2] \notin InProgress},
    owner <- Writer
ImplementsSqlStore == Store!Spec
=============================================================================
