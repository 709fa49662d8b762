--------------------------- MODULE ConnectionProofs ---------------------------
(***************************************************************************)
(* Machine-checked properties of statements and connections that share a   *)
(* cache (module Connection).                                              *)
(***************************************************************************)
EXTENDS Connection, FiniteSetTheorems, TLAPS

-----------------------------------------------------------------------------
(* The inductive invariant.                                                *)

Runs == {"transaction", "autocommit", "lock", "open", "go", "halt"}
BtShared ==
    [open : SUBSET Conn, inTrans : [Conn -> NONE .. WRITE], inTransaction : NONE .. WRITE,
     nTransaction : Int, inStmt : BOOLEAN, page1 : BOOLEAN,
     lock : [Conn -> [Table -> NONE .. WRITE]],
     disk : SUBSET Row, cache : SUBSET Row, before : SUBSET Row]
Vdbe ==
    [at : {"idle"} \cup Runs \cup Suspended, kind : Kind, table : Table,
     errorAction : ErrorAction, rc : ResultCode, aborted : BOOLEAN, cursor : BOOLEAN,
     id : 0 .. MaxWrite]
Types ==
    /\ bt \in BtShared
    /\ vdbe \in [Stmt -> Vdbe]
    /\ autoCommit \in [Conn -> BOOLEAN] /\ activeVdbeCnt \in [Conn -> Int]
    /\ thread \in Stmt \cup {NoStmt} /\ nWrite \in 0 .. MaxWrite

\* Where a statement can be, ...
Where(s) ==
    LET v == vdbe[s] IN
    /\ v.at \in Runs <=> thread = s
    /\ v.at \in {"lock", "open", "go"} => v.kind \in {"read", "write"}
    /\ v.at = "row" => v.kind = "read"
    /\ v.at \in {"transaction", "busyTransaction"} => v.kind \in {"read", "write", "immediate"}
    /\ v.at = "autocommit" => v.kind \notin {"read", "write"}
    /\ v.at = "done" => v.kind = "rollback"
    /\ v.cursor => v.at \in {"go", "halt", "row"} /\ v.kind \in {"read", "write"}
    /\ v.at \notin {"halt", "busyHalt"} => v.rc = "ok"
    /\ v.at = "busyHalt" => v.rc = "ok" \/ v.errorAction = "fail"
    /\ v.errorAction # "abort" => v.kind = "write"
    /\ Active(s) => Owner[s] \in bt.open
Control == \A s \in Stmt : Where(s)

\* ... what it has then of the transaction and the table locks of its connection, ...
Needs(s) == vdbe[s].at \in {"lock", "open", "go"} \/ vdbe[s].cursor
NeedsLock(s) == vdbe[s].at \in {"open", "go"} \/ vdbe[s].cursor
Has(s) ==
    LET c == Owner[s]  t == vdbe[s].table IN
    /\ Needs(s) => bt.inTrans[c] >= Wanted(s)
    /\ NeedsLock(s) => Ignores(c, t, Wanted(s)) \/ bt.lock[c][t] >= Wanted(s)
Holds == \A s \in Stmt : Has(s)

\* ... the table locks against each other and the transactions, ...
Compatible ==
    \A c \in Conn, t \in Table :
        /\ bt.lock[c][t] # NONE => bt.inTrans[c] # NONE
        /\ bt.lock[c][t] = WRITE => \A d \in Conn \ {c} : bt.lock[d][t] = NONE

\* ... the summary the BtShared has of the handles, and the counts, ...
Users == {c \in Conn : bt.inTrans[c] # NONE}
Summary ==
    /\ Users \subseteq bt.open
    /\ \A c, d \in Conn : bt.inTrans[c] = WRITE /\ bt.inTrans[d] = WRITE => c = d
    /\ bt.inTransaction = IF \E c \in Conn : bt.inTrans[c] = WRITE THEN WRITE
                          ELSE IF Users # {} THEN READ ELSE NONE
    /\ bt.page1 <=> Users # {}
Begun1 == bt.nTransaction = Cardinality(Users)
ActiveOf(c) == {s \in Stmt : Owner[s] = c /\ Active(s)}
Counts == \A c \in Conn : activeVdbeCnt[c] = Cardinality(ActiveOf(c))

\* ... a transaction in autocommit mode has a statement to end it, ...
Settles == \A c \in Conn : autoCommit[c] /\ bt.inTrans[c] # NONE => ActiveOf(c) # {}

\* ... the statement subtransaction and the query cursors beside it, ...
Subtransaction ==
    bt.inStmt =>
        /\ thread \in Stmt /\ vdbe[thread].kind = "write" /\ vdbe[thread].at \in {"go", "halt"}
        /\ ~autoCommit[Owner[thread]] /\ bt.inTrans[Owner[thread]] = WRITE
        /\ bt.disk \subseteq bt.before /\ bt.before \subseteq bt.cache
        /\ \A r \in bt.before : r[2] # vdbe[thread].id
        /\ \A r \in bt.cache \ bt.before :
               r[1] = vdbe[thread].table /\ r[2] = vdbe[thread].id /\ NoReaders(r[1])
Writing ==
    \A s \in Stmt : vdbe[s].at = "go" /\ vdbe[s].kind = "write" =>
        NoReaders(vdbe[s].table) /\ (~autoCommit[Owner[s]] => bt.inStmt)

\* ... uncommitted rows, which the writer alone can reach, ...
Dirty ==
    /\ bt.disk \subseteq bt.cache
    /\ \A r \in bt.cache \ bt.disk :
           \E d \in Conn : bt.inTrans[d] = WRITE /\ bt.lock[d][r[1]] = WRITE

\* ... and whose rows they are.
Ids ==
    /\ \A r \in bt.cache : r[2] <= nWrite
    /\ \A s \in Stmt : Active(s) /\ vdbe[s].kind = "write" =>
           /\ vdbe[s].id \in 1 .. nWrite
           /\ \A r \in bt.disk : r[2] # vdbe[s].id
           /\ \A r \in bt.cache : r[2] = vdbe[s].id =>
                  /\ bt.inTrans[Owner[s]] = WRITE
                  /\ vdbe[s].at \in {"go", "halt", "busyHalt"}
           /\ \A q \in Stmt \ {s} : Active(q) /\ vdbe[q].kind = "write" => vdbe[q].id # vdbe[s].id

IInv == /\ Types /\ Control /\ Holds /\ Compatible /\ Summary /\ Begun1 /\ Counts /\ Settles
        /\ Subtransaction /\ Writing /\ Dirty /\ Ids

\* A write that fails has put its first row first, and is undone by its
\* subtransaction or with everything else.
Undoable ==
    \A s \in Stmt : Active(s) /\ vdbe[s].kind = "write" /\ (\E r \in bt.cache : r[2] = vdbe[s].id) =>
        /\ NewRow(s, 1) \in bt.cache
        /\ vdbe[s].at = "halt" /\ vdbe[s].rc # "ok" /\ vdbe[s].errorAction # "fail"
               => LastActive(s) \/ bt.inStmt

\* Rows are put through a cursor, and those of the subtransaction still are.
Opened ==
    /\ \A s \in Stmt : vdbe[s].at = "go" => vdbe[s].cursor
    /\ bt.inStmt /\ bt.cache # bt.before => vdbe[thread].cursor

USE OwnerAssumption, NoneAssumption, BoundAssumption, FiniteAssumption DEF NONE, READ, WRITE

-----------------------------------------------------------------------------
(* Counting.                                                               *)

LEMMA Finitely ==
  /\ IsFiniteSet(Users) /\ Cardinality(Users) \in Nat /\ Cardinality(Users) <= Cardinality(Conn)
  /\ Cardinality(Users) = 0 <=> Users = {}
  /\ \A c \in Conn :
        /\ IsFiniteSet(ActiveOf(c)) /\ Cardinality(ActiveOf(c)) \in Nat
        /\ Cardinality(ActiveOf(c)) <= Cardinality(Stmt)
  /\ Cardinality(Conn) \in Nat /\ Cardinality(Stmt) \in Nat
<1>1. Users \subseteq Conn /\ \A c \in Conn : ActiveOf(c) \subseteq Stmt
  BY DEF Users, ActiveOf
<1>2. IsFiniteSet(Users) /\ \A c \in Conn : IsFiniteSet(ActiveOf(c))
  BY <1>1, FS_Subset
<1>3. QED
  BY <1>1, <1>2, FS_Subset, FS_CardinalityType, FS_EmptySet

\* One statement starts, one ends, or none does either.
LEMMA Started ==
  ASSUME Types, Counts, NEW s \in Stmt, ~Active(s), Active(s)',
         \A q \in Stmt \ {s} : Active(q)' = Active(q),
         activeVdbeCnt' = [activeVdbeCnt EXCEPT ![Owner[s]] = @ + 1]
  PROVE  Counts'
<1> SUFFICES ASSUME NEW c \in Conn PROVE activeVdbeCnt'[c] = Cardinality(ActiveOf(c)')
  BY DEF Counts
<1>1. CASE c = Owner[s]
  <2>1. ActiveOf(c)' = ActiveOf(c) \cup {s} /\ s \notin ActiveOf(c)
    BY <1>1 DEF ActiveOf
  <2>2. Cardinality(ActiveOf(c)') = Cardinality(ActiveOf(c)) + 1
    BY <2>1, Finitely, FS_AddElement
  <2>3. QED
    BY <1>1, <2>2 DEF Types, Counts
<1>2. CASE c # Owner[s]
  <2>1. ActiveOf(c)' = ActiveOf(c)
    BY <1>2 DEF ActiveOf
  <2>2. QED
    BY <1>2, <2>1 DEF Types, Counts
<1>3. QED
  BY <1>1, <1>2

LEMMA Ended ==
  ASSUME Types, Counts, NEW s \in Stmt, Active(s), ~Active(s)',
         \A q \in Stmt \ {s} : Active(q)' = Active(q),
         activeVdbeCnt' = [activeVdbeCnt EXCEPT ![Owner[s]] = @ - 1]
  PROVE  Counts'
<1> SUFFICES ASSUME NEW c \in Conn PROVE activeVdbeCnt'[c] = Cardinality(ActiveOf(c)')
  BY DEF Counts
<1>1. CASE c = Owner[s]
  <2>1. ActiveOf(c)' = ActiveOf(c) \ {s} /\ s \in ActiveOf(c)
    BY <1>1 DEF ActiveOf
  <2>2. Cardinality(ActiveOf(c)') = Cardinality(ActiveOf(c)) - 1
    BY <2>1, Finitely, FS_RemoveElement
  <2>3. QED
    BY <1>1, <2>2 DEF Types, Counts
<1>2. CASE c # Owner[s]
  <2>1. ActiveOf(c)' = ActiveOf(c)
    BY <1>2 DEF ActiveOf
  <2>2. QED
    BY <1>2, <2>1 DEF Types, Counts
<1>3. QED
  BY <1>1, <1>2

LEMMA SameCounts ==
  ASSUME Counts, \A q \in Stmt : Active(q)' = Active(q), UNCHANGED activeVdbeCnt
  PROVE  Counts'
<1>1. \A c \in Conn : ActiveOf(c)' = ActiveOf(c)
  BY DEF ActiveOf
<1>2. QED
  BY <1>1 DEF Counts

\* What the count tells a statement about the others of its connection.
LEMMA Alone ==
  ASSUME Counts, NEW s \in Stmt, Active(s)
  PROVE  /\ activeVdbeCnt[Owner[s]] = 1 => \A q \in Of(Owner[s]) \ {s} : ~Active(q)
         /\ activeVdbeCnt[Owner[s]] # 1 => \E q \in Of(Owner[s]) \ {s} : Active(q)
<1> DEFINE A == ActiveOf(Owner[s])
<1>1. s \in A /\ activeVdbeCnt[Owner[s]] = Cardinality(A) /\ IsFiniteSet(A)
  BY Finitely DEF ActiveOf, Counts
<1>2. Cardinality(A \ {s}) = Cardinality(A) - 1 /\ IsFiniteSet(A \ {s}) /\ Cardinality(A) \in Nat
  BY <1>1, FS_RemoveElement, FS_CardinalityType
<1>3. Cardinality(A) = 1 <=> A \ {s} = {}
  BY <1>2, FS_EmptySet
<1>4. A \ {s} = {q \in Of(Owner[s]) \ {s} : Active(q)}
  BY DEF ActiveOf, Of
<1>5. QED
  BY <1>1, <1>3, <1>4

-----------------------------------------------------------------------------
(* The functions of the B-tree layer.                                      *)

\* Nothing is left over to be unlocked.
LEMMA UnlockNothing ==
  ASSUME IInv, NEW cursors PROVE UnlockIfUnused(bt, cursors) = bt
<1>1. bt.inTransaction = NONE => ~bt.page1 /\ ~bt.inStmt
  BY DEF IInv, Summary, Subtransaction, Types, Users
<1>2. QED
  BY <1>1 DEF UnlockIfUnused, IInv, Types, BtShared

\* A transaction of connection c ends, with or without what it changed.
Without(c) ==
    /\ bt' \in BtShared
    /\ bt'.open \in {bt.open, bt.open \ {c}}
    /\ bt'.inTrans = [bt.inTrans EXCEPT ![c] = NONE]
    /\ bt'.nTransaction = IF bt.inTrans[c] = NONE THEN bt.nTransaction ELSE bt.nTransaction - 1
    /\ bt'.inTransaction = IF bt.inTrans[c] = NONE THEN bt.inTransaction
                           ELSE IF bt'.nTransaction = 0 THEN NONE
                           ELSE IF bt.inTrans[c] = WRITE THEN READ ELSE bt.inTransaction
    /\ bt'.lock = [bt.lock EXCEPT ![c] = [t \in Table |-> NONE]]
    /\ bt'.inStmt => bt.inStmt /\ bt.inTrans[c] # WRITE

LEMMA Levels ==
  ASSUME NEW b \in BtShared, NEW c \in Conn
  PROVE  /\ b.inTrans[c] \in {NONE, READ, WRITE} /\ b.inTrans[c] \in Int
         /\ \A t \in Table : b.lock[c][t] \in {NONE, READ, WRITE} /\ b.lock[c][t] \in Int
BY DEF BtShared

LEMMA Field ==
  ASSUME NEW b \in BtShared
  PROVE  /\ \A x \in [Conn -> NONE .. WRITE] : [b EXCEPT !.inTrans = x] \in BtShared
         /\ \A x \in NONE .. WRITE : [b EXCEPT !.inTransaction = x] \in BtShared
         /\ \A x \in Int : [b EXCEPT !.nTransaction = x] \in BtShared
         /\ \A x \in BOOLEAN : [b EXCEPT !.inStmt = x] \in BtShared
         /\ \A x \in BOOLEAN : [b EXCEPT !.page1 = x] \in BtShared
         /\ \A x \in [Conn -> [Table -> NONE .. WRITE]] : [b EXCEPT !.lock = x] \in BtShared
         /\ \A x \in SUBSET Row : [b EXCEPT !.disk = x] \in BtShared
         /\ \A x \in SUBSET Row : [b EXCEPT !.cache = x] \in BtShared
         /\ \A x \in SUBSET Row : [b EXCEPT !.before = x] \in BtShared
BY DEF BtShared

LEMMA Relock ==
  ASSUME NEW b \in BtShared, NEW c \in Conn
  PROVE  [b EXCEPT !.lock[c] = [t \in Table |-> NONE]] \in BtShared
<1>1. [b.lock EXCEPT ![c] = [t \in Table |-> NONE]] \in [Conn -> [Table -> NONE .. WRITE]]
  BY DEF BtShared
<1>2. QED
  BY <1>1, Field DEF BtShared

LEMMA EndIs ==
  ASSUME NEW b \in BtShared, NEW c \in Conn, NEW cursors \in BOOLEAN
  PROVE  LET x == TransactionEnded(b, c, cursors) IN
         /\ x \in BtShared
         /\ x.open = b.open /\ x.lock = b.lock /\ x.disk = b.disk /\ x.cache = b.cache
         /\ x.before = b.before
         /\ x.inTrans = [b.inTrans EXCEPT ![c] = NONE]
         /\ x.nTransaction = IF b.inTrans[c] = NONE THEN b.nTransaction ELSE b.nTransaction - 1
         /\ x.inTransaction = IF b.inTrans[c] # NONE /\ x.nTransaction = 0
                                THEN NONE ELSE b.inTransaction
         /\ x.page1 = (b.page1 /\ (x.inTransaction # NONE \/ cursors))
         /\ x.inStmt => b.inStmt
<1> DEFINE n == IF b.inTrans[c] = NONE THEN b.nTransaction ELSE b.nTransaction - 1
           i == IF b.inTrans[c] # NONE /\ n = 0 THEN NONE ELSE b.inTransaction
           y == [b EXCEPT !.nTransaction = n, !.inTrans[c] = NONE, !.inTransaction = i]
<1>1. /\ y \in BtShared /\ y.page1 = b.page1 /\ y.inStmt = b.inStmt /\ y.inTransaction = i
      /\ y.open = b.open /\ y.lock = b.lock /\ y.disk = b.disk /\ y.cache = b.cache
      /\ y.before = b.before /\ y.nTransaction = n
      /\ y.inTrans = [b.inTrans EXCEPT ![c] = NONE]
  <2> DEFINE b1 == [b EXCEPT !.nTransaction = n]
             b2 == [b1 EXCEPT !.inTrans[c] = NONE]
  <2>1. [b.inTrans EXCEPT ![c] = NONE] \in [Conn -> NONE .. WRITE] /\ n \in Int /\ i \in NONE .. WRITE
    BY DEF BtShared
  <2>2. b1 \in BtShared /\ b1.inTrans = b.inTrans
    BY ZenonT(30), <2>1, Field DEF BtShared
  <2> HIDE DEF b1
  <2>3. b2 \in BtShared
    BY <2>1, <2>2, Field DEF BtShared
  <2> HIDE DEF b2
  <2>4. [b2 EXCEPT !.inTransaction = i] \in BtShared
    BY <2>1, <2>3, Field
  <2>5. y \in BtShared
    BY <2>4 DEF b2, b1
  <2>6. QED
    BY <2>5 DEF BtShared
<1>2. TransactionEnded(b, c, cursors) = UnlockIfUnused(y, cursors)
  BY <1>1 DEF TransactionEnded, BtShared
<1> HIDE DEF y, n, i
<1>3. QED
  <2>1. CASE y.inTransaction = NONE /\ ~cursors
    <3>1. TransactionEnded(b, c, cursors) = [y EXCEPT !.page1 = FALSE, !.inStmt = FALSE]
      BY <1>2, <2>1 DEF UnlockIfUnused
    <3>2. QED
      BY <1>1, <2>1, <3>1 DEF BtShared, n, i
  <2>2. CASE ~(y.inTransaction = NONE /\ ~cursors)
    <3>1. TransactionEnded(b, c, cursors) = y
      BY <1>2, <2>2 DEF UnlockIfUnused
    <3>2. QED
      BY <1>1, <2>2, <3>1 DEF BtShared, n, i
  <2>3. QED
    BY <2>1, <2>2

LEMMA CommittedIs ==
  ASSUME Types, NEW c \in Conn, NEW cursors \in BOOLEAN, bt' = Committed(bt, c, cursors)
  PROVE  /\ Without(c) /\ bt'.open = bt.open
         /\ bt'.page1 = (bt.page1 /\ (bt'.inTransaction # NONE \/ cursors))
         /\ bt'.cache = bt.cache
         /\ bt'.disk = IF bt.inTrans[c] = WRITE THEN bt.cache ELSE bt.disk
<1>1. CASE bt.inTrans[c] = WRITE
  <2> DEFINE w == [bt EXCEPT !.disk = bt.cache, !.inTransaction = READ, !.inStmt = FALSE,
                             !.before = {}, !.lock[c] = [t \in Table |-> NONE]]
  <2>1. /\ w \in BtShared /\ w.open = bt.open /\ w.cache = bt.cache /\ w.disk = bt.cache
        /\ w.lock = [bt.lock EXCEPT ![c] = [t \in Table |-> NONE]] /\ w.inTrans = bt.inTrans
        /\ w.nTransaction = bt.nTransaction /\ w.inTransaction = READ /\ w.page1 = bt.page1
        /\ ~w.inStmt
    <3> DEFINE b0 == [bt EXCEPT !.disk = bt.cache]
               i == READ
               b1 == [b0 EXCEPT !.inTransaction = i]
               b2 == [b1 EXCEPT !.inStmt = FALSE, !.before = {}]
    <3>1. b0 \in BtShared
      BY Field DEF Types, BtShared
    <3>2. i \in NONE .. WRITE
      OBVIOUS
    <3> HIDE DEF b0, i
    <3>3. b1 \in BtShared
      BY <3>1, <3>2, Field
    <3> HIDE DEF b1
    <3>4. b2 \in BtShared
      <4>1. [b1 EXCEPT !.inStmt = FALSE] \in BtShared
        BY <3>3, Field
      <4> DEFINE b == [b1 EXCEPT !.inStmt = FALSE]
      <4> HIDE DEF b
      <4>2. b \in BtShared => [b EXCEPT !.before = {}] \in BtShared
        BY Field
      <4>3. QED
        BY <4>1, <4>2 DEF b
    <3> HIDE DEF b2
    <3>5. [b2 EXCEPT !.lock[c] = [t \in Table |-> NONE]] \in BtShared
      BY <3>4, Relock
    <3>6. w \in BtShared
      BY <3>5 DEF b0, b1, b2, i
    <3>7. QED
      BY <3>6 DEF Types, BtShared
  <2>2. bt' = TransactionEnded(w, c, cursors)
    BY <1>1 DEF Committed, Unlocked, Types, BtShared
  <2> HIDE DEF w
  <2>3. /\ bt' \in BtShared /\ bt'.open = w.open /\ bt'.lock = w.lock /\ bt'.disk = w.disk
        /\ bt'.cache = w.cache /\ bt'.inTrans = [w.inTrans EXCEPT ![c] = NONE]
        /\ bt'.nTransaction = IF w.inTrans[c] = NONE THEN w.nTransaction ELSE w.nTransaction - 1
        /\ bt'.inTransaction = IF w.inTrans[c] # NONE /\ bt'.nTransaction = 0
                                 THEN NONE ELSE w.inTransaction
        /\ bt'.page1 = (w.page1 /\ (bt'.inTransaction # NONE \/ cursors))
        /\ bt'.inStmt => w.inStmt
    BY <2>1, <2>2, EndIs
  <2>4. QED
    BY <1>1, <2>1, <2>3 DEF Without
<1>2. CASE bt.inTrans[c] # WRITE
  <2> DEFINE w == [bt EXCEPT !.lock[c] = [t \in Table |-> NONE]]
  <2>1. /\ w \in BtShared /\ w.open = bt.open /\ w.cache = bt.cache /\ w.disk = bt.disk
        /\ w.lock = [bt.lock EXCEPT ![c] = [t \in Table |-> NONE]] /\ w.inTrans = bt.inTrans
        /\ w.nTransaction = bt.nTransaction /\ w.inTransaction = bt.inTransaction
        /\ w.page1 = bt.page1 /\ w.inStmt = bt.inStmt
    <3>1. w \in BtShared
      BY Relock DEF Types
    <3>2. QED
      BY <3>1 DEF Types, BtShared
  <2>2. bt' = TransactionEnded(w, c, cursors)
    BY <1>2 DEF Committed, Unlocked
  <2> HIDE DEF w
  <2>3. QED
    BY <1>2, <2>1, <2>2, EndIs DEF Without
<1>3. QED
  BY <1>1, <1>2

LEMMA RolledBackIs ==
  ASSUME Types, NEW c \in Conn, NEW cursors \in BOOLEAN,
         \/ bt' = RolledBack(bt, c, cursors)
         \/ bt' = [RolledBack(bt, c, cursors) EXCEPT !.open = @ \ {c}]
  PROVE  /\ Without(c) /\ ~bt'.inStmt
         /\ bt' = RolledBack(bt, c, cursors) => bt'.open = bt.open
         /\ bt'.page1 = (bt.page1 /\ (bt'.inTransaction # NONE \/ cursors))
         /\ bt'.disk = bt.disk
         /\ bt'.cache = IF bt.inTrans[c] = WRITE THEN bt.disk ELSE bt.cache
<1> DEFINE W == bt.inTrans[c] = WRITE
           w == [bt EXCEPT !.cache = IF W THEN bt.disk ELSE @, !.before = IF W THEN {} ELSE @,
                           !.inTransaction = IF W THEN READ ELSE @, !.inStmt = FALSE,
                           !.lock[c] = [t \in Table |-> NONE]]
<1>1. /\ w \in BtShared /\ w.open = bt.open /\ w.disk = bt.disk
      /\ w.cache = IF W THEN bt.disk ELSE bt.cache
      /\ w.lock = [bt.lock EXCEPT ![c] = [t \in Table |-> NONE]] /\ w.inTrans = bt.inTrans
      /\ w.nTransaction = bt.nTransaction
      /\ w.inTransaction = IF W THEN READ ELSE bt.inTransaction
      /\ w.page1 = bt.page1 /\ ~w.inStmt
  <2> DEFINE b1 == [bt EXCEPT !.cache = IF W THEN bt.disk ELSE @, !.before = IF W THEN {} ELSE @]
             b2 == [b1 EXCEPT !.inTransaction = IF W THEN READ ELSE @, !.inStmt = FALSE]
  <2>1. b1 \in BtShared
    BY DEF Types, BtShared
  <2> HIDE DEF b1
  <2>2. b2 \in BtShared
    <3> DEFINE i == IF W THEN READ ELSE b1.inTransaction
               b == [b1 EXCEPT !.inTransaction = i]
    <3>1. i \in NONE .. WRITE
      BY <2>1 DEF BtShared
    <3> HIDE DEF i
    <3>2. b \in BtShared
      BY <2>1, <3>1, Field
    <3> HIDE DEF b
    <3>3. [b EXCEPT !.inStmt = FALSE] \in BtShared
      BY <3>2, Field
    <3>4. QED
      BY <3>3 DEF b, i
  <2> HIDE DEF b2
  <2>3. [b2 EXCEPT !.lock[c] = [t \in Table |-> NONE]] \in BtShared
    BY <2>2, Relock
  <2>4. w \in BtShared
    BY <2>3 DEF b1, b2
  <2>5. QED
    BY <2>4 DEF Types, BtShared
<1>2. RolledBack(bt, c, cursors) = TransactionEnded(w, c, cursors)
  BY ZenonT(30) DEF RolledBack, Unlocked, Types, BtShared
<1> HIDE DEF w
<1> DEFINE x == TransactionEnded(w, c, cursors)
<1>3. /\ x \in BtShared
      /\ x.open = w.open /\ x.lock = w.lock /\ x.disk = w.disk /\ x.cache = w.cache
      /\ x.inTrans = [w.inTrans EXCEPT ![c] = NONE]
      /\ x.nTransaction = IF w.inTrans[c] = NONE THEN w.nTransaction ELSE w.nTransaction - 1
      /\ x.inTransaction = IF w.inTrans[c] # NONE /\ x.nTransaction = 0
                             THEN NONE ELSE w.inTransaction
      /\ x.page1 = (w.page1 /\ (x.inTransaction # NONE \/ cursors))
      /\ ~x.inStmt
  BY <1>1, EndIs
<1> HIDE DEF x
<1>4. /\ bt' \in BtShared /\ bt'.open \in {w.open, w.open \ {c}} /\ (bt' = x => bt'.open = w.open)
      /\ bt'.lock = x.lock /\ bt'.disk = x.disk /\ bt'.cache = x.cache /\ bt'.inTrans = x.inTrans
      /\ bt'.nTransaction = x.nTransaction /\ bt'.inTransaction = x.inTransaction
      /\ bt'.page1 = x.page1 /\ ~bt'.inStmt
  <2>1. CASE bt' = x
    BY <1>3, <2>1
  <2>2. CASE bt' = [x EXCEPT !.open = @ \ {c}]
    BY <1>3, <2>2 DEF BtShared
  <2>3. QED
    BY <1>2, <2>1, <2>2 DEF x
<1>5. RolledBack(bt, c, cursors) = x
  BY <1>2 DEF x
<1>6. QED
  BY <1>1, <1>3, <1>4, <1>5 DEF Without

-----------------------------------------------------------------------------
(* The end of a transaction.                                               *)

\* The statements a transaction of connection c leaves behind when it ends:
\* none runs, and none of c has a cursor.
Leaves(c) ==
    /\ thread' = NoStmt /\ UNCHANGED nWrite
    /\ vdbe' \in [Stmt -> Vdbe] /\ Control'
    /\ \A q \in Stmt : Owner[q] # c => vdbe'[q] = vdbe[q]
    /\ \A q \in Of(c) : ~vdbe'[q].cursor
    /\ \A d \in Conn \ {c} : autoCommit'[d] = autoCommit[d]

LEMMA WithoutOne ==
  ASSUME IInv, NEW c \in Conn, Without(c)
  PROVE  /\ Users' = Users \ {c} /\ Begun1' /\ Compatible'
         /\ \A d, e \in Conn : bt'.inTrans[d] = WRITE /\ bt'.inTrans[e] = WRITE => d = e
         /\ bt'.inTransaction = IF \E d \in Conn : bt'.inTrans[d] = WRITE THEN WRITE
                                ELSE IF Users' # {} THEN READ ELSE NONE
<1> USE DEF IInv, Types, BtShared, Without
<1>1. Users' = Users \ {c} /\ (c \in Users <=> bt.inTrans[c] # NONE)
  BY DEF Users
<1>2. Begun1'
  <2>1. Cardinality(Users') = IF c \in Users THEN Cardinality(Users) - 1 ELSE Cardinality(Users)
    BY <1>1, Finitely, FS_RemoveElement
  <2>2. QED
    BY <1>1, <2>1 DEF Begun1
<1>3. Compatible'
  BY DEF Compatible
<1>4. \A d, e \in Conn : bt'.inTrans[d] = WRITE /\ bt'.inTrans[e] = WRITE => d = e
  BY DEF Summary
<1>5. bt'.nTransaction = 0 <=> Users' = {}
  BY <1>2, FS_EmptySet, FS_Subset, Finitely, <1>1 DEF Begun1
<1>6. bt'.inTransaction = IF \E d \in Conn : bt'.inTrans[d] = WRITE THEN WRITE
                          ELSE IF Users' # {} THEN READ ELSE NONE
  <2>1. CASE bt.inTrans[c] = NONE
    <3>1. bt'.inTrans = bt.inTrans /\ Users' = Users
      BY <2>1, <1>1
    <3>2. QED
      BY <2>1, <3>1 DEF Summary
  <2>2. CASE bt.inTrans[c] = WRITE
    <3>1. \A d \in Conn : bt'.inTrans[d] # WRITE
      BY <2>2 DEF Summary
    <3>2. QED
      BY <2>2, <3>1, <1>5
  <2>3. CASE bt.inTrans[c] = READ
    <3>1. \A d \in Conn : bt'.inTrans[d] = WRITE <=> bt.inTrans[d] = WRITE
      BY <2>3
    <3>2. Users # {}
      BY <2>3 DEF Users
    <3>3. CASE \E d \in Conn : bt.inTrans[d] = WRITE
      <4>1. Users' # {}
        BY <3>1, <3>3 DEF Users
      <4>2. QED
        BY <2>3, <3>1, <3>3, <4>1, <1>5 DEF Summary
    <3>4. CASE ~\E d \in Conn : bt.inTrans[d] = WRITE
      BY <2>3, <3>1, <3>2, <3>4, <1>5 DEF Summary
    <3>5. QED
      BY <3>3, <3>4
  <2>4. QED
    BY <2>1, <2>2, <2>3
<1>7. QED
  BY <1>1, <1>2, <1>3, <1>4, <1>6

\* What all ends of a transaction of c keep.
LEMMA EndKeeps ==
  ASSUME IInv, NEW c \in Conn, Without(c), Leaves(c), ~bt'.inStmt,
         bt'.page1 = (bt.page1 /\ (bt'.inTransaction # NONE \/ Cursors(vdbe') # {}))
  PROVE  Holds' /\ Compatible' /\ Summary' /\ Begun1' /\ Subtransaction' /\ Writing' /\ Settles'
<1> USE DEF IInv, Types, BtShared, Leaves
<1>1. /\ bt'.open \in {bt.open, bt.open \ {c}} /\ bt'.inTrans = [bt.inTrans EXCEPT ![c] = NONE]
      /\ bt'.lock = [bt.lock EXCEPT ![c] = [t \in Table |-> NONE]]
  BY DEF Without
<1>2. Holds'
  <2> SUFFICES ASSUME NEW q \in Stmt PROVE Has(q)'
    BY DEF Holds
  <2>1. CASE Owner[q] = c
    BY <2>1 DEF Has, Needs, NeedsLock, Control, Where, Runs, Of
  <2>2. CASE Owner[q] # c
    <3>1. Has(q) /\ vdbe'[q] = vdbe[q] /\ bt'.inTrans[Owner[q]] = bt.inTrans[Owner[q]]
          /\ bt'.lock[Owner[q]] = bt.lock[Owner[q]]
      BY <1>1, <2>2 DEF Holds
    <3>2. QED
      BY <3>1 DEF Has, Needs, NeedsLock, Wanted, Ignores
  <2>3. QED
    BY <2>1, <2>2
<1>3. Cursors(vdbe') # {} => Users' # {}
  <2> SUFFICES ASSUME NEW q \in Stmt, vdbe'[q].cursor PROVE Users' # {}
    BY DEF Cursors
  <2>1. bt'.inTrans[Owner[q]] >= Wanted(q)'
    BY <1>2 DEF Holds, Has, Needs
  <2>2. bt'.inTrans[Owner[q]] # NONE
    BY <2>1 DEF Wanted
  <2>3. QED
    BY <2>2 DEF Users
<1>4. Summary'
  <2>1. bt'.page1 <=> Users' # {}
    <3>1. /\ Users' \subseteq Users /\ (bt.page1 <=> Users # {})
          /\ bt'.inTransaction # NONE <=> Users' # {}
      BY WithoutOne DEF Summary, Users
    <3>2. QED
      BY <1>3, <3>1
  <2>2. QED
    BY <1>1, <2>1, WithoutOne DEF Summary
<1>5. Settles'
  <2> SUFFICES ASSUME NEW d \in Conn, autoCommit'[d], bt'.inTrans[d] # NONE PROVE ActiveOf(d)' # {}
    BY DEF Settles
  <2>1. d # c /\ bt.inTrans[d] # NONE
    BY <1>1
  <2>2. ActiveOf(d) # {}
    BY <2>1 DEF Settles
  <2>3. ActiveOf(d)' = ActiveOf(d)
    BY <2>1 DEF ActiveOf, Active
  <2>4. QED
    BY <2>2, <2>3
<1>6. Subtransaction' /\ Writing'
  BY DEF Subtransaction, Writing, Control, Where, Runs
<1>7. QED
  BY <1>2, <1>4, <1>5, <1>6, WithoutOne

\* What a commit keeps of the rows.
LEMMA CommitKeeps ==
  ASSUME IInv, NEW c \in Conn, bt' = Committed(bt, c, Cursors(vdbe') # {}), Leaves(c),
         \A q \in Of(c) : ~Active(q)',
         bt.inStmt => bt.inTrans[c] = WRITE
  PROVE  /\ bt' \in BtShared /\ Holds' /\ Compatible' /\ Summary' /\ Begun1' /\ Subtransaction'
         /\ Writing' /\ Settles' /\ Dirty' /\ Ids'
<1> USE DEF IInv
<1>1. /\ Without(c) /\ bt'.cache = bt.cache
      /\ bt'.page1 = (bt.page1 /\ (bt'.inTransaction # NONE \/ Cursors(vdbe') # {}))
      /\ bt'.disk = IF bt.inTrans[c] = WRITE THEN bt.cache ELSE bt.disk
  BY CommittedIs
<1>2. bt' \in BtShared /\ ~bt'.inStmt
  BY <1>1 DEF Without
<1>3. Dirty'
  <2> SUFFICES ASSUME NEW r \in bt'.cache \ bt'.disk
               PROVE  \E d \in Conn : bt'.inTrans[d] = WRITE /\ bt'.lock[d][r[1]] = WRITE
    BY <1>1 DEF Dirty
  <2>1. r \in bt.cache \ bt.disk /\ bt.inTrans[c] # WRITE
    BY <1>1
  <2>2. PICK d \in Conn : bt.inTrans[d] = WRITE /\ bt.lock[d][r[1]] = WRITE
    BY <2>1 DEF Dirty
  <2>3. bt'.inTrans[d] = bt.inTrans[d] /\ bt'.lock[d] = bt.lock[d]
    BY <1>1, <2>1, <2>2 DEF Without, Types, BtShared
  <2>4. QED
    BY <2>2, <2>3
<1>4. Ids'
  <2> SUFFICES ASSUME NEW q \in Stmt, Active(q)', vdbe'[q].kind = "write"
               PROVE  /\ vdbe'[q] = vdbe[q] /\ Owner[q] # c
                      /\ \A r \in bt'.disk : r[2] # vdbe[q].id
    BY <1>1 DEF Ids, Leaves, Without, Active, Types, BtShared
  <2>1. vdbe'[q] = vdbe[q] /\ Owner[q] # c
    BY DEF Leaves, Of
  <2>2. bt.inTrans[c] = WRITE => bt.inTrans[Owner[q]] # WRITE
    BY <2>1 DEF Summary
  <2>3. QED
    BY <1>1, <2>1, <2>2 DEF Ids, Active
<1>5. QED
  BY <1>1, <1>2, <1>3, <1>4, EndKeeps

\* What a rollback keeps of them.
LEMMA RollbackKeeps ==
  ASSUME IInv, NEW c \in Conn, Leaves(c),
         LET b == RolledBack(bt, c, Cursors(vdbe') # {})
         IN  bt' = b \/ bt' = [b EXCEPT !.open = @ \ {c}],
         \A q \in Of(c) : Active(q)' => Active(q) /\ vdbe'[q].kind = vdbe[q].kind /\ vdbe'[q].id = vdbe[q].id
  PROVE  /\ bt' \in BtShared /\ Holds' /\ Compatible' /\ Summary' /\ Begun1' /\ Subtransaction'
         /\ Writing' /\ Settles' /\ Dirty' /\ Ids'
<1> USE DEF IInv
<1>1. /\ Without(c) /\ bt'.disk = bt.disk /\ ~bt'.inStmt
      /\ bt'.page1 = (bt.page1 /\ (bt'.inTransaction # NONE \/ Cursors(vdbe') # {}))
      /\ bt'.cache = IF bt.inTrans[c] = WRITE THEN bt.disk ELSE bt.cache
  BY RolledBackIs
<1>2. bt' \in BtShared
  BY <1>1 DEF Without
<1>3. Dirty'
  <2> SUFFICES ASSUME NEW r \in bt'.cache \ bt'.disk
               PROVE  \E d \in Conn : bt'.inTrans[d] = WRITE /\ bt'.lock[d][r[1]] = WRITE
    BY <1>1 DEF Dirty
  <2>1. r \in bt.cache \ bt.disk /\ bt.inTrans[c] # WRITE
    BY <1>1
  <2>2. PICK d \in Conn : bt.inTrans[d] = WRITE /\ bt.lock[d][r[1]] = WRITE
    BY <2>1 DEF Dirty
  <2>3. bt'.inTrans[d] = bt.inTrans[d] /\ bt'.lock[d] = bt.lock[d]
    BY <1>1, <2>1, <2>2 DEF Without, Types, BtShared
  <2>4. QED
    BY <2>2, <2>3
<1>4. Ids'
  <2>1. \A q \in Stmt : Active(q)' /\ vdbe'[q].kind = "write" =>
            Active(q) /\ vdbe[q].kind = "write" /\ vdbe'[q].id = vdbe[q].id
    BY DEF Leaves, Of, Active
  <2>2. bt'.cache \subseteq bt.cache
    BY <1>1 DEF Dirty
  <2>3. ASSUME NEW q \in Stmt, Active(q)', vdbe'[q].kind = "write",
               NEW r \in bt'.cache, r[2] = vdbe'[q].id
        PROVE  /\ bt'.inTrans[Owner[q]] = WRITE
               /\ vdbe'[q].at \in {"go", "halt", "busyHalt"}
    <3>1. bt.inTrans[Owner[q]] = WRITE /\ r \notin bt.disk /\ r \in bt.cache
      BY <2>1, <2>2, <2>3 DEF Ids
    <3>2. Owner[q] # c
      BY <1>1, <2>3, <3>1
    <3>3. QED
      BY <1>1, <2>1, <2>2, <2>3, <3>1, <3>2 DEF Ids, Leaves, Without, Types, BtShared
  <2>4. QED
    BY <1>1, <2>1, <2>2, <2>3 DEF Ids, Leaves
<1>5. QED
  BY <1>1, <1>2, <1>3, <1>4, EndKeeps

-----------------------------------------------------------------------------
(* Steps of one statement.                                                 *)

\* Of the statements, only s takes a step.
Only(s) ==
    /\ vdbe' \in [Stmt -> Vdbe] /\ \A q \in Stmt \ {s} : vdbe'[q] = vdbe[q]
    /\ thread \in {s, NoStmt} /\ thread' \in {s, NoStmt} /\ Where(s)'
SameStatement(s) ==
    /\ vdbe'[s].kind = vdbe[s].kind /\ vdbe'[s].table = vdbe[s].table /\ vdbe'[s].id = vdbe[s].id

LEMMA OnlyControl ==
  ASSUME IInv, NEW s \in Stmt, Only(s), bt'.open = bt.open PROVE Control'
<1> SUFFICES ASSUME NEW q \in Stmt \ {s} PROVE Where(q)'
  BY DEF Only, Control
<1>1. Where(q) /\ vdbe'[q] = vdbe[q] /\ thread # q /\ thread' # q
  BY DEF IInv, Control, Only
<1>2. QED
  BY <1>1 DEF Where, Active

\* Transactions and table locks stay, or grow.
LEMMA OnlyHolds ==
  ASSUME IInv, NEW s \in Stmt, Only(s), Has(s)',
         \A c \in Conn : /\ bt'.inTrans[c] >= bt.inTrans[c]
                         /\ \A t \in Table : bt'.lock[c][t] >= bt.lock[c][t],
         bt' \in BtShared
  PROVE  Holds'
<1> SUFFICES ASSUME NEW q \in Stmt \ {s} PROVE Has(q)'
  BY DEF Holds
<1>1. Has(q) /\ vdbe'[q] = vdbe[q] /\ Owner[q] \in Conn /\ vdbe[q].table \in Table
  BY DEF IInv, Holds, Only, Types, Vdbe
<1>2. Wanted(q)' = Wanted(q) /\ Wanted(q) \in NONE .. WRITE
  BY <1>1 DEF Wanted
<1>3. QED
  <2> DEFINE c == Owner[q]
             t == vdbe[q].table
  <2>1. /\ bt.inTrans[c] \in Int /\ bt.lock[c][t] \in Int /\ bt'.inTrans[c] \in Int
        /\ bt'.lock[c][t] \in Int /\ Wanted(q) \in Int
        /\ bt'.inTrans[c] >= bt.inTrans[c] /\ bt'.lock[c][t] >= bt.lock[c][t]
    BY <1>1, <1>2, Levels DEF IInv, Types
  <2>2. /\ Needs(q)' = Needs(q) /\ NeedsLock(q)' = NeedsLock(q)
        /\ Ignores(c, t, Wanted(q))' = Ignores(c, t, Wanted(q))
    BY <1>1, <1>2 DEF Needs, NeedsLock, Ignores
  <2>3. QED
    BY <1>1, <1>2, <2>1, <2>2 DEF Has

\* No query of the kind that minds begins.
LEMMA ReadersSame ==
  ASSUME IInv, NEW s \in Stmt, Only(s), SameStatement(s),
         vdbe'[s].cursor /\ vdbe[s].kind = "read" => vdbe[s].cursor,
         NEW t, NoReaders(t)
  PROVE  NoReaders(t)'
BY DEF NoReaders, Cursors, Only, SameStatement

\* A step that leaves the BtShared alone.
Quiet(s) ==
    /\ Only(s) /\ SameStatement(s) /\ UNCHANGED <<bt, autoCommit, activeVdbeCnt, nWrite>>
    /\ Active(s) /\ Active(s)'
    /\ vdbe'[s].cursor => vdbe[s].cursor
    /\ vdbe'[s].at # "go"
    /\ vdbe[s].at \in {"go", "halt", "busyHalt"} /\ vdbe[s].kind = "write" =>
           vdbe'[s].at \in {"halt", "busyHalt"}
    /\ bt.inStmt => thread' = thread /\ vdbe'[s].at = "halt"

LEMMA Quietly == ASSUME IInv, NEW s \in Stmt, Quiet(s), Has(s)' PROVE IInv'
<1> USE DEF IInv, Quiet
<1>1. Types' /\ Control'
  BY OnlyControl DEF Types, Only
<1>2. Holds'
  <2>1. /\ \A c \in Conn : /\ bt'.inTrans[c] >= bt.inTrans[c]
                           /\ \A t \in Table : bt'.lock[c][t] >= bt.lock[c][t]
        /\ bt' \in BtShared
    BY Levels DEF Types
  <2>2. QED
    BY <2>1, OnlyHolds
<1>3. \A q \in Stmt : Active(q)' = Active(q)
  BY DEF Only, Active
<1>4. Counts'
  BY <1>3, SameCounts
<1>5. Compatible' /\ Summary' /\ Begun1'
  BY DEF Compatible, Summary, Begun1, Users
<1>6. Settles'
  BY <1>3 DEF Settles, ActiveOf
<1>7. \A t : NoReaders(t) => NoReaders(t)'
  BY ReadersSame
<1>8. Subtransaction'
  <2> SUFFICES ASSUME bt.inStmt PROVE Subtransaction'
    BY DEF Subtransaction
  <2>1. thread = s /\ thread' = s
    BY DEF Subtransaction, Only
  <2>2. QED
    BY <1>7, <2>1 DEF Subtransaction, SameStatement
<1>9. Writing'
  BY <1>7 DEF Writing, Only
<1>10. Dirty'
  BY DEF Dirty
<1>11. Ids'
  BY <1>3 DEF Ids, Only, SameStatement
<1>12. QED
  BY <1>1, <1>2, <1>4, <1>5, <1>6, <1>8, <1>9, <1>10, <1>11

LEMMA IdleIs ==
  Idle \in Vdbe /\ Idle.at = "idle" /\ ~Idle.cursor /\ Idle.rc = "ok" /\ Idle.errorAction = "abort"
BY DEF Idle, Vdbe, Kind, ErrorAction, ResultCode

\* What a statement is after Goto and Fails.
LEMMA Goes ==
  ASSUME Types, NEW s \in Stmt, NEW at \in {"idle"} \cup Runs \cup Suspended, vdbe' = Goto(s, at)
  PROVE  /\ vdbe' \in [Stmt -> Vdbe] /\ \A q \in Stmt \ {s} : vdbe'[q] = vdbe[q]
         /\ SameStatement(s) /\ vdbe'[s].at = at /\ vdbe'[s].cursor = vdbe[s].cursor
         /\ vdbe'[s].rc = vdbe[s].rc /\ vdbe'[s].errorAction = vdbe[s].errorAction
<1>1. vdbe'[s] = [vdbe[s] EXCEPT !.at = at] /\ \A q \in Stmt \ {s} : vdbe'[q] = vdbe[q]
  BY DEF Types, Goto
<1>2. vdbe[s] \in Vdbe /\ [vdbe[s] EXCEPT !.at = at] \in Vdbe
  BY SMTT(30) DEF Types, Vdbe
<1>3. vdbe' \in [Stmt -> Vdbe]
  BY <1>1, <1>2 DEF Types, Goto
<1>4. QED
  BY <1>1, <1>2, <1>3 DEF Vdbe, SameStatement

LEMMA FailsGoes ==
  ASSUME Types, NEW s \in Stmt, NEW code \in ResultCode, vdbe' = Fails(s, code)
  PROVE  /\ vdbe' \in [Stmt -> Vdbe] /\ \A q \in Stmt \ {s} : vdbe'[q] = vdbe[q]
         /\ SameStatement(s) /\ vdbe'[s].at = "halt" /\ vdbe'[s].cursor = vdbe[s].cursor
         /\ vdbe'[s].rc = code /\ vdbe'[s].errorAction = vdbe[s].errorAction
<1>1. vdbe'[s] = [vdbe[s] EXCEPT !.at = "halt", !.rc = code] /\ \A q \in Stmt \ {s} : vdbe'[q] = vdbe[q]
  BY DEF Types, Fails
<1>2. vdbe[s] \in Vdbe /\ [vdbe[s] EXCEPT !.at = "halt", !.rc = code] \in Vdbe
  <2>1. vdbe[s] \in Vdbe /\ [vdbe[s] EXCEPT !.at = "halt"] \in Vdbe
    BY SMTT(30) DEF Types, Vdbe, Runs
  <2> DEFINE w == [vdbe[s] EXCEPT !.at = "halt"]
  <2> HIDE DEF w
  <2>2. w \in Vdbe => [w EXCEPT !.rc = code] \in Vdbe
    BY DEF Vdbe
  <2>3. QED
    BY <2>1, <2>2 DEF w
<1>3. vdbe' \in [Stmt -> Vdbe]
  BY <1>1, <1>2 DEF Types, Fails
<1>4. QED
  BY <1>1, <1>2, <1>3 DEF Vdbe, SameStatement

LEMMA RetryIInv == ASSUME IInv, NEW s \in Stmt, Retry(s) PROVE IInv'
<1> USE DEF IInv, Retry, Free
<1>1. PICK at \in Runs : /\ vdbe' = Goto(s, at) /\ at \in {"transaction", "autocommit", "halt"}
                         /\ vdbe[s].at \in {"busyTransaction", "busyHalt"}
                         /\ vdbe[s].at = "busyTransaction" <=> at = "transaction"
                         /\ at = "autocommit" => vdbe[s].kind = "commit"
  BY DEF Runs
<1>2. /\ vdbe' \in [Stmt -> Vdbe] /\ \A q \in Stmt \ {s} : vdbe'[q] = vdbe[q]
      /\ SameStatement(s) /\ vdbe'[s].at = at /\ vdbe'[s].cursor = vdbe[s].cursor
      /\ vdbe'[s].rc = vdbe[s].rc /\ vdbe'[s].errorAction = vdbe[s].errorAction
  BY <1>1, Goes
<1>3. Where(s)
  BY DEF Control
<1>4. Where(s)'
  BY <1>1, <1>2, <1>3 DEF Where, Runs, Active, SameStatement
<1>5. ~bt.inStmt
  BY DEF Subtransaction
<1>6. Quiet(s)
  BY <1>1, <1>2, <1>3, <1>4, <1>5 DEF Quiet, Only, Active, Where, Runs
<1>7. Has(s)'
  BY <1>1, <1>2, <1>3 DEF Has, Needs, NeedsLock, Where
<1>8. QED
  BY <1>6, <1>7, Quietly

LEMMA ResultRowIInv == ASSUME IInv, NEW s \in Stmt, ResultRow(s) PROVE IInv'
<1> USE DEF IInv, ResultRow, Running
<1>1. /\ vdbe' \in [Stmt -> Vdbe] /\ \A q \in Stmt \ {s} : vdbe'[q] = vdbe[q]
      /\ SameStatement(s) /\ vdbe'[s].at = "row" /\ vdbe'[s].cursor = vdbe[s].cursor
      /\ vdbe'[s].rc = vdbe[s].rc /\ vdbe'[s].errorAction = vdbe[s].errorAction
  BY Goes DEF Suspended
<1>2. Where(s) /\ Has(s)
  BY DEF Control, Holds
<1>3. Where(s)'
  BY <1>1, <1>2 DEF Where, Runs, Active, SameStatement
<1>4. ~bt.inStmt
  BY DEF Subtransaction
<1>5. Quiet(s)
  BY <1>1, <1>2, <1>3, <1>4 DEF Quiet, Only, Active
<1>6. Has(s)'
  BY <1>1, <1>2 DEF Has, Needs, NeedsLock, SameStatement, Wanted, Ignores
<1>7. QED
  BY <1>5, <1>6, Quietly

LEMMA StepIInv == ASSUME IInv, NEW s \in Stmt, Step(s) PROVE IInv'
<1> USE DEF IInv, Step, Free
<1>1. PICK code \in ResultCode : vdbe' = Fails(s, code)
  OBVIOUS
<1>2. /\ vdbe' \in [Stmt -> Vdbe] /\ \A q \in Stmt \ {s} : vdbe'[q] = vdbe[q]
      /\ SameStatement(s) /\ vdbe'[s].at = "halt" /\ vdbe'[s].cursor = vdbe[s].cursor
      /\ vdbe'[s].rc = code /\ vdbe'[s].errorAction = vdbe[s].errorAction
  BY <1>1, FailsGoes
<1>3. Where(s) /\ Has(s)
  BY DEF Control, Holds
<1>4. Where(s)'
  BY <1>2, <1>3 DEF Where, Runs, Active, SameStatement
<1>5. ~bt.inStmt
  BY DEF Subtransaction
<1>6. Quiet(s)
  BY <1>2, <1>3, <1>4, <1>5 DEF Quiet, Only, Active
<1>7. Has(s)'
  BY <1>2, <1>3 DEF Has, Needs, NeedsLock, SameStatement, Wanted, Ignores
<1>8. QED
  BY <1>6, <1>7, Quietly

\* A running statement fails: it only has to be halted.
LEMMA FailsIInv ==
  ASSUME IInv, NEW s \in Stmt, Running(s), NEW code \in ResultCode,
         vdbe' = Fails(s, code),
         UNCHANGED <<bt, autoCommit, activeVdbeCnt, nWrite, thread>>
  PROVE  IInv'
<1> USE DEF IInv, Running
<1>1. /\ vdbe' \in [Stmt -> Vdbe] /\ \A q \in Stmt \ {s} : vdbe'[q] = vdbe[q]
      /\ SameStatement(s) /\ vdbe'[s].at = "halt" /\ vdbe'[s].cursor = vdbe[s].cursor
      /\ vdbe'[s].rc = code /\ vdbe'[s].errorAction = vdbe[s].errorAction
  BY FailsGoes
<1>2. Where(s) /\ Has(s)
  BY DEF Control, Holds
<1>3. Where(s)'
  BY <1>1, <1>2 DEF Where, Runs, Active, SameStatement
<1>4. Quiet(s)
  BY <1>1, <1>2, <1>3 DEF Quiet, Only, Active, Where, Runs
<1>5. Has(s)'
  BY <1>1, <1>2 DEF Has, Needs, NeedsLock, SameStatement, Wanted, Ignores
<1>6. QED
  BY <1>4, <1>5, Quietly

LEMMA InsertFailsMoves ==
  ASSUME Types, NEW s \in Stmt, InsertFails(s)
  PROVE  /\ vdbe' \in [Stmt -> Vdbe] /\ \A q \in Stmt \ {s} : vdbe'[q] = vdbe[q]
         /\ SameStatement(s) /\ vdbe'[s].at = "halt" /\ vdbe'[s].cursor = vdbe[s].cursor
<1>1. PICK code \in ResultCode, p \in ErrorAction : vdbe' = [Fails(s, code) EXCEPT ![s].errorAction = p]
  BY DEF InsertFails
<1>2. QED
  <2> DEFINE w == [vdbe[s] EXCEPT !.at = "halt", !.rc = code]
  <2>1. /\ vdbe'[s] = [w EXCEPT !.errorAction = p] /\ \A q \in Stmt \ {s} : vdbe'[q] = vdbe[q]
    BY <1>1 DEF Types, Fails
  <2>2. w \in Vdbe
    <3> DEFINE x == [vdbe[s] EXCEPT !.at = "halt"]
    <3>1. x \in Vdbe
      BY DEF Types, Vdbe, Runs
    <3> HIDE DEF x
    <3>2. [x EXCEPT !.rc = code] \in Vdbe
      BY <3>1 DEF Vdbe
    <3>3. QED
      BY <3>2 DEF x
  <2>3. w.kind = vdbe[s].kind /\ w.table = vdbe[s].table /\ w.id = vdbe[s].id /\ w.at = "halt"
        /\ w.cursor = vdbe[s].cursor
    BY DEF Types, Vdbe
  <2> HIDE DEF w
  <2>4. vdbe'[s] \in Vdbe
    BY <2>1, <2>2 DEF Vdbe
  <2>5. vdbe' \in [Stmt -> Vdbe]
    BY <1>1, <2>1, <2>4 DEF Types, Fails
  <2>6. QED
    BY <2>1, <2>2, <2>3, <2>5 DEF Vdbe, SameStatement

LEMMA InsertFailsIInv == ASSUME IInv, NEW s \in Stmt, InsertFails(s) PROVE IInv'
<1> USE DEF IInv, InsertFails, Running
<1>2. /\ vdbe' \in [Stmt -> Vdbe] /\ \A q \in Stmt \ {s} : vdbe'[q] = vdbe[q]
      /\ SameStatement(s) /\ vdbe'[s].at = "halt" /\ vdbe'[s].cursor = vdbe[s].cursor
  BY InsertFailsMoves
<1>3. Where(s) /\ Has(s)
  BY DEF Control, Holds
<1>4. Where(s)'
  BY <1>2, <1>3 DEF Where, Runs, Active, SameStatement
<1>5. Quiet(s)
  BY <1>2, <1>3, <1>4 DEF Quiet, Only, Active, Where, Runs
<1>6. Has(s)'
  BY <1>2, <1>3 DEF Has, Needs, NeedsLock, SameStatement, Wanted, Ignores
<1>7. QED
  BY <1>5, <1>6, Quietly

\* A commit that is refused: the statement waits to be tried again.
LEMMA BusyIInv ==
  ASSUME IInv, NEW s \in Stmt, Running(s), vdbe' \in [Stmt -> Vdbe],
         \A q \in Stmt \ {s} : vdbe'[q] = vdbe[q],
         SameStatement(s), vdbe'[s].at = "busyHalt", ~vdbe'[s].cursor,
         vdbe'[s].errorAction = vdbe[s].errorAction, vdbe'[s].rc = vdbe[s].rc,
         vdbe[s].rc = "ok" \/ vdbe[s].errorAction = "fail",
         ~bt.inStmt, vdbe[s].at \in {"halt", "autocommit"}, thread' = NoStmt,
         UNCHANGED <<bt, autoCommit, activeVdbeCnt, nWrite>>
  PROVE  IInv'
<1> USE DEF IInv, Running
<1>1. Where(s) /\ Has(s)
  BY DEF Control, Holds
<1>2. Where(s)'
  BY <1>1 DEF Where, Runs, Active, SameStatement
<1>3. Quiet(s)
  BY <1>1, <1>2 DEF Quiet, Only, Active
<1>4. Has(s)'
  BY DEF Has, Needs, NeedsLock
<1>5. QED
  BY <1>3, <1>4, Quietly

LEMMA HaltBusyMoves ==
  ASSUME Types, NEW s \in Stmt, HaltBusy(s)
  PROVE  /\ vdbe' \in [Stmt -> Vdbe] /\ \A q \in Stmt \ {s} : vdbe'[q] = vdbe[q]
         /\ SameStatement(s) /\ vdbe'[s].at = "busyHalt" /\ ~vdbe'[s].cursor
         /\ vdbe'[s].errorAction = vdbe[s].errorAction /\ vdbe'[s].rc = vdbe[s].rc
<1> USE DEF HaltBusy
<1> DEFINE w == [vdbe[s] EXCEPT !.at = "busyHalt"]
<1>1. vdbe'[s] = [w EXCEPT !.cursor = FALSE] /\ \A q \in Stmt \ {s} : vdbe'[q] = vdbe[q]
  BY DEF Types
<1>2. w \in Vdbe
  BY DEF Types, Vdbe, Suspended
<1>3. w.kind = vdbe[s].kind /\ w.table = vdbe[s].table /\ w.id = vdbe[s].id /\ w.at = "busyHalt"
      /\ w.errorAction = vdbe[s].errorAction /\ w.rc = vdbe[s].rc
  BY DEF Types, Vdbe
<1> HIDE DEF w
<1>4. [w EXCEPT !.cursor = FALSE] \in Vdbe
  BY <1>2 DEF Vdbe
<1>5. vdbe' \in [Stmt -> Vdbe]
  BY <1>1, <1>4 DEF Types
<1>6. QED
  BY <1>1, <1>2, <1>3, <1>5 DEF Vdbe, SameStatement

LEMMA HaltBusyIInv == ASSUME IInv, NEW s \in Stmt, HaltBusy(s) PROVE IInv'
<1> USE DEF IInv, HaltBusy, Running, CommitIsBusy
<1>1. LastActive(s) /\ Succeeds(s) /\ (vdbe[s].rc = "ok" \/ vdbe[s].errorAction = "fail")
  BY DEF Decision, Succeeds
<1>2. ~bt.inStmt
  BY <1>1 DEF LastActive, Subtransaction
<1>3. /\ vdbe' \in [Stmt -> Vdbe] /\ \A q \in Stmt \ {s} : vdbe'[q] = vdbe[q]
      /\ SameStatement(s) /\ vdbe'[s].at = "busyHalt" /\ ~vdbe'[s].cursor
      /\ vdbe'[s].errorAction = vdbe[s].errorAction /\ vdbe'[s].rc = vdbe[s].rc
  BY HaltBusyMoves
<1>4. QED
  BY <1>1, <1>2, <1>3, BusyIInv

-----------------------------------------------------------------------------
(* Steps that begin something.                                             *)

LEMMA StartIInv == ASSUME IInv, NEW s \in Stmt, Start(s) PROVE IInv'
<1> USE DEF IInv, Start, Free
<1>1. PICK k \in Kind, t \in Table :
          /\ k = "write" => nWrite < MaxWrite
          /\ nWrite' = IF k = "write" THEN nWrite + 1 ELSE nWrite
          /\ vdbe' = [vdbe EXCEPT ![s] =
                [Idle EXCEPT !.kind = k, !.table = t,
                     !.at = IF k \in {"read", "write", "immediate"}
                              THEN "transaction" ELSE "autocommit",
                     !.id = IF k = "write" THEN nWrite + 1 ELSE 0]]
  OBVIOUS
<1> DEFINE v == [Idle EXCEPT !.kind = k, !.table = t,
                     !.at = IF k \in {"read", "write", "immediate"}
                              THEN "transaction" ELSE "autocommit",
                     !.id = IF k = "write" THEN nWrite + 1 ELSE 0]
           id == IF k = "write" THEN nWrite + 1 ELSE 0
           at == IF k \in {"read", "write", "immediate"} THEN "transaction" ELSE "autocommit"
<1>2. id \in 0 .. MaxWrite /\ at \in {"transaction", "autocommit"}
  BY <1>1 DEF Types
<1>3. v.at = at /\ v.kind = k /\ v.errorAction = "abort" /\ v.rc = "ok" /\ ~v.cursor /\ v.id = id
  BY DEF Idle
<1>4. v \in Vdbe
  <2> DEFINE v1 == [Idle EXCEPT !.kind = k]
             v2 == [v1 EXCEPT !.table = t]
             v3 == [v2 EXCEPT !.at = at]
  <2>1. v1 \in Vdbe
    BY IdleIs DEF Vdbe
  <2> HIDE DEF v1
  <2>2. v2 \in Vdbe
    BY <2>1 DEF Vdbe
  <2> HIDE DEF v2, at
  <2>3. v3 \in Vdbe
    BY <1>2, <2>2 DEF Vdbe, Runs
  <2> HIDE DEF v3, id
  <2>4. [v3 EXCEPT !.id = id] \in Vdbe
    BY <1>2, <2>3 DEF Vdbe
  <2>5. QED
    BY <2>4 DEF v1, v2, v3, at, id
<1> HIDE DEF v
<1>5. vdbe'[s] = v /\ \A q \in Stmt \ {s} : vdbe'[q] = vdbe[q]
  BY <1>1 DEF Types, v
<1>6. Only(s)
  <2>1. vdbe' \in [Stmt -> Vdbe]
    BY <1>1, <1>4 DEF Types, v
  <2>2. Where(s)'
    BY <1>2, <1>3, <1>5 DEF Where, Runs, Active, Kind
  <2>3. QED
    BY <1>5, <2>1, <2>2 DEF Only
<1>7. ~Active(s) /\ Active(s)' /\ \A q \in Stmt \ {s} : Active(q)' = Active(q)
  BY <1>2, <1>3, <1>5 DEF Active
<1>8. Types'
  BY <1>1, <1>6 DEF Types, Only
<1>9. Control'
  BY <1>6, OnlyControl
<1>10. Holds'
  <2>1. Has(s)'
    BY <1>2, <1>3, <1>5 DEF Has, Needs, NeedsLock
  <2>2. \A c \in Conn : /\ bt'.inTrans[c] >= bt.inTrans[c]
                        /\ \A u \in Table : bt'.lock[c][u] >= bt.lock[c][u]
    BY Levels DEF Types
  <2>3. QED
    BY <1>6, <2>1, <2>2, OnlyHolds DEF Types
<1>11. Compatible' /\ Summary' /\ Begun1' /\ Dirty'
  BY DEF Compatible, Summary, Begun1, Users, Dirty
<1>12. Counts'
  BY <1>7, Started
<1>13. Settles'
  BY <1>7 DEF Settles, ActiveOf
<1>14. Subtransaction'
  BY DEF Subtransaction
<1>15. Writing'
  <2>1. \A u : NoReaders(u) => NoReaders(u)'
    BY ZenonT(30), <1>3, <1>5 DEF NoReaders, Cursors
  <2>2. QED
    BY <1>2, <1>3, <1>5, <2>1 DEF Writing
<1>16. Ids'
  <2>1. \A r \in bt.cache : r[2] <= nWrite /\ r[2] \in Int
    BY DEF Ids, Types, BtShared, Row
  <2>2. nWrite \in Int /\ nWrite <= nWrite' /\ (k = "write" => nWrite' = nWrite + 1 /\ id = nWrite + 1)
    BY <1>1 DEF Types
  <2>3. \A r \in bt.disk : r \in bt.cache
    BY DEF Dirty
  <2>4. \A r \in bt'.cache : r[2] <= nWrite'
    BY <2>1, <2>2
  <2>5. ASSUME NEW q \in Stmt, Active(q)', vdbe'[q].kind = "write"
        PROVE  /\ vdbe'[q].id \in 1 .. nWrite'
               /\ \A r \in bt'.disk : r[2] # vdbe'[q].id
               /\ \A r \in bt'.cache : r[2] = vdbe'[q].id =>
                      /\ bt'.inTrans[Owner[q]] = WRITE
                      /\ vdbe'[q].at \in {"go", "halt", "busyHalt"}
               /\ \A p \in Stmt \ {q} : Active(p)' /\ vdbe'[p].kind = "write" => vdbe'[p].id # vdbe'[q].id
    <3>1. \A p \in Stmt \ {s} : Active(p) /\ vdbe[p].kind = "write" => vdbe[p].id \in 1 .. nWrite
      BY DEF Ids
    <3>2. CASE q = s
      <4>1. vdbe'[s] = v /\ v.id = nWrite + 1 /\ nWrite' = nWrite + 1 /\ nWrite \in Nat
        BY <1>1, <1>3, <1>5, <2>5, <3>2 DEF Types
      <4>2. \A r \in bt.cache : r[2] # v.id
        BY <2>1, <4>1
      <4>3. \A p \in Stmt \ {s} : Active(p)' /\ vdbe'[p].kind = "write" => vdbe'[p].id # v.id
        BY <1>5, <1>7, <3>1, <4>1
      <4>4. QED
        BY <2>3, <3>2, <4>1, <4>2, <4>3
    <3>3. CASE q # s
      <4>1. Active(q) /\ vdbe'[q] = vdbe[q] /\ vdbe[q].kind = "write"
        BY <1>5, <1>7, <2>5, <3>3
      <4>2. vdbe[q].id \in 1 .. nWrite'
        BY <2>2, <3>1, <3>3, <4>1
      <4>3. \A p \in Stmt \ {q} : Active(p)' /\ vdbe'[p].kind = "write" => vdbe'[p].id # vdbe'[q].id
        <5> SUFFICES ASSUME NEW p \in Stmt \ {q}, Active(p)', vdbe'[p].kind = "write"
                     PROVE  vdbe'[p].id # vdbe[q].id
          BY <4>1
        <5>1. CASE p = s
          BY <1>1, <1>3, <1>5, <2>2, <3>1, <3>3, <4>1, <5>1
        <5>2. CASE p # s
          BY <1>5, <1>7, <3>3, <4>1, <5>2 DEF Ids
        <5>3. QED
          BY <5>1, <5>2
      <4>4. /\ \A r \in bt.disk : r[2] # vdbe[q].id
            /\ \A r \in bt.cache : r[2] = vdbe[q].id =>
                   bt.inTrans[Owner[q]] = WRITE /\ vdbe[q].at \in {"go", "halt", "busyHalt"}
        BY <4>1 DEF Ids
      <4>5. QED
        BY <4>1, <4>2, <4>3, <4>4
    <3>4. QED
      BY <3>2, <3>3
  <2>6. QED
    BY <2>4, <2>5 DEF Ids
<1>17. QED
  BY <1>8, <1>9, <1>10, <1>11, <1>12, <1>13, <1>14, <1>15, <1>16

\* A step that takes more of the transaction or a table lock.
Onward(s) ==
    /\ Only(s) /\ SameStatement(s) /\ Has(s)' /\ UNCHANGED <<autoCommit, activeVdbeCnt, nWrite>>
    /\ Active(s) /\ Active(s)'
    /\ thread = s /\ bt' \in BtShared
    /\ bt'.open = bt.open /\ bt'.disk = bt.disk /\ bt'.cache = bt.cache
    /\ \A c \in Conn : /\ bt'.inTrans[c] >= bt.inTrans[c]
                       /\ \A t \in Table : bt'.lock[c][t] >= bt.lock[c][t]
    /\ vdbe[s].at \in {"transaction", "lock", "open"}

LEMMA OnwardKeeps ==
  ASSUME IInv, NEW s \in Stmt, Onward(s)
  PROVE  /\ Types' /\ Control' /\ Holds' /\ Counts' /\ Dirty' /\ Ids' /\ ~bt.inStmt
         /\ \A q \in Stmt : Active(q)' = Active(q)
<1> USE DEF IInv, Onward
<1>1. Types' /\ Control' /\ Holds'
  BY OnlyControl, OnlyHolds DEF Types, Only
<1>2. \A q \in Stmt : Active(q)' = Active(q)
  BY DEF Only, Active
<1>3. Counts'
  BY <1>2, SameCounts
<1>4. \A c \in Conn : bt.inTrans[c] = WRITE => bt'.inTrans[c] = WRITE
  BY Levels DEF Types
<1>5. \A c \in Conn, t \in Table : bt.lock[c][t] = WRITE => bt'.lock[c][t] = WRITE
  BY Levels DEF Types
<1>6. \A r \in bt.cache : r[1] \in Table
  BY DEF Types, BtShared, Row
<1>7. Dirty'
  BY <1>4, <1>5, <1>6 DEF Dirty
<1>8. Ids'
  BY <1>2, <1>4 DEF Ids, Only, SameStatement
<1>9. ~bt.inStmt
  BY DEF Subtransaction
<1>10. QED
  BY <1>1, <1>2, <1>3, <1>7, <1>8, <1>9

LEMMA TransactionIInv == ASSUME IInv, NEW s \in Stmt, Transaction(s) PROVE IInv'
<1> USE DEF IInv, Running
<1> DEFINE c == Owner[s]
           w == Wanted(s)
<1>1. Where(s) /\ thread = s /\ vdbe[s].at = "transaction" /\ ~vdbe[s].cursor /\ Active(s)
      /\ c \in bt.open /\ w \in {READ, WRITE}
  BY DEF Control, Transaction, Where, Wanted, Active
<1> DEFINE at == IF vdbe[s].kind = "immediate" THEN "autocommit" ELSE "lock"
<1>2. /\ vdbe' \in [Stmt -> Vdbe] /\ \A q \in Stmt \ {s} : vdbe'[q] = vdbe[q]
      /\ SameStatement(s) /\ vdbe'[s].at = at /\ vdbe'[s].cursor = vdbe[s].cursor
      /\ vdbe'[s].rc = vdbe[s].rc /\ vdbe'[s].errorAction = vdbe[s].errorAction
  BY Goes DEF Transaction, Runs
<1>3. UNCHANGED <<autoCommit, activeVdbeCnt, thread, nWrite>>
  BY DEF Transaction
<1>4. ~bt.inStmt
  BY <1>1 DEF Subtransaction
<1>5. bt'.open = bt.open => Only(s)
  <2> SUFFICES ASSUME bt'.open = bt.open PROVE Only(s)
    OBVIOUS
  <2>1. Where(s)'
    BY <1>1, <1>2, <1>3 DEF Where, Runs, Active, SameStatement
  <2>2. QED
    BY <1>1, <1>2, <1>3, <2>1 DEF Only
<1>6. CASE AlreadyBegun(bt, c, w)
  <2>1. bt' = bt
    BY <1>6 DEF Transaction
  <2>2. Has(s)'
    BY <1>1, <1>2, <1>6, <2>1 DEF Has, Needs, NeedsLock, SameStatement, Wanted, AlreadyBegun
  <2>3. Quiet(s)
    BY <1>1, <1>2, <1>3, <1>4, <1>5, <2>1 DEF Quiet, Active
  <2>4. QED
    BY <2>2, <2>3, Quietly
<1>7. CASE ~AlreadyBegun(bt, c, w)
  <2>1. bt.inTrans[c] < w /\ ~OtherWrites(bt, c, w) /\ bt' = Begun(bt, c, w)
    BY <1>1, <1>7, Levels DEF Transaction, AlreadyBegun, Types
  <2>2. /\ bt'.open = bt.open /\ bt'.lock = bt.lock /\ bt'.disk = bt.disk /\ bt'.cache = bt.cache
        /\ bt'.page1 /\ ~bt'.inStmt
        /\ bt'.inTrans = [bt.inTrans EXCEPT ![c] = w]
        /\ bt'.nTransaction = IF bt.inTrans[c] = NONE THEN bt.nTransaction + 1 ELSE bt.nTransaction
        /\ bt'.inTransaction = IF w > bt.inTransaction THEN w ELSE bt.inTransaction
    BY <1>4, <2>1 DEF Begun, Types, BtShared
  <2>3. bt' \in BtShared
    <3> DEFINE b1 == [bt EXCEPT !.page1 = TRUE]
               b2 == [b1 EXCEPT !.inStmt = IF w = WRITE THEN FALSE ELSE @]
               n == IF bt.inTrans[c] = NONE THEN bt.nTransaction + 1 ELSE bt.nTransaction
               b3 == [b2 EXCEPT !.nTransaction = n]
               m == [bt.inTrans EXCEPT ![c] = w]
               b4 == [b3 EXCEPT !.inTrans = m]
               i == IF w > bt.inTransaction THEN w ELSE bt.inTransaction
    <3>1. n \in Int /\ m \in [Conn -> NONE .. WRITE] /\ i \in NONE .. WRITE
      BY <1>1 DEF Types, BtShared
    <3>2. b1 \in BtShared
      BY Field DEF Types
    <3> HIDE DEF b1, n, i, m
    <3>3. b2 \in BtShared
      BY ZenonT(30), <3>2, Field DEF BtShared
    <3> HIDE DEF b2
    <3>4. b3 \in BtShared
      BY <3>1, <3>3, Field
    <3> HIDE DEF b3
    <3>5. b4 \in BtShared
      BY <3>1, <3>4, Field
    <3> HIDE DEF b4
    <3>6. [b4 EXCEPT !.inTransaction = i] \in BtShared
      BY <3>1, <3>5, Field
    <3>7. bt' = [b4 EXCEPT !.inTransaction = i]
      BY <2>1 DEF Begun, b4, b3, b2, b1, n, m, i, Types, BtShared
    <3>8. QED
      BY <3>6, <3>7
  <2>4. Has(s)'
    BY <1>1, <1>2, <2>2 DEF Has, Needs, NeedsLock, SameStatement, Wanted, Types, BtShared
  <2>5. Onward(s)
    <3>1. \A d \in Conn : /\ bt'.inTrans[d] >= bt.inTrans[d]
                          /\ \A t \in Table : bt'.lock[d][t] >= bt.lock[d][t]
      <4>1. \A d \in Conn : bt'.lock[d] = bt.lock[d] /\ bt'.inTrans[d] = IF d = c THEN w ELSE bt.inTrans[d]
        BY <2>2 DEF Types, BtShared
      <4>2. QED
        BY <1>1, <2>1, <4>1, Levels DEF Types
    <3>2. QED
      BY <1>1, <1>2, <1>3, <1>5, <2>2, <2>3, <2>4, <3>1 DEF Onward, Active
  <2>6. /\ Users' = Users \cup {c} /\ (c \in Users <=> bt.inTrans[c] # NONE)
    BY <1>1, <2>2 DEF Users, Types, BtShared
  <2>7. Begun1'
    <3>1. Cardinality(Users') = IF c \in Users THEN Cardinality(Users) ELSE Cardinality(Users) + 1
      BY <2>6, Finitely, FS_AddElement
    <3>2. QED
      BY <2>2, <2>6, <3>1 DEF Begun1
  <2>8. Compatible'
    BY <1>1, <2>2 DEF Compatible, Types, BtShared
  <2>9. Summary'
    <3>1. \A d, e \in Conn : bt'.inTrans[d] = WRITE /\ bt'.inTrans[e] = WRITE => d = e
      BY <2>1, <2>2 DEF Summary, OtherWrites, Types, BtShared
    <3>2. bt'.inTransaction = IF \E d \in Conn : bt'.inTrans[d] = WRITE THEN WRITE
                              ELSE IF Users' # {} THEN READ ELSE NONE
      <4>1. CASE w = WRITE
        BY <2>2, <4>1 DEF Summary, Types, BtShared
      <4>2. CASE w = READ
        <5>1. bt.inTrans[c] = NONE
          BY <2>1, <4>2, Levels DEF Types
        <5>2. \A d \in Conn : bt'.inTrans[d] = WRITE <=> bt.inTrans[d] = WRITE
          BY <2>2, <4>2, <5>1 DEF Types, BtShared
        <5>3. QED
          BY <2>2, <2>6, <4>2, <5>2 DEF Summary, Types, BtShared
      <4>3. QED
        BY <1>1, <4>1, <4>2
    <3>3. QED
      BY <1>1, <2>2, <2>6, <3>1, <3>2 DEF Summary
  <2>10. Settles'
    <3> SUFFICES ASSUME NEW d \in Conn, autoCommit'[d], bt'.inTrans[d] # NONE PROVE ActiveOf(d)' # {}
      BY DEF Settles
    <3>1. CASE d = c
      BY <1>1, <2>5, <3>1, OnwardKeeps DEF ActiveOf
    <3>2. CASE d # c
      BY <1>3, <2>2, <2>5, <3>2, OnwardKeeps DEF Settles, ActiveOf, Types, BtShared
    <3>3. QED
      BY <3>1, <3>2
  <2>11. Subtransaction'
    BY <2>2 DEF Subtransaction
  <2>12. Writing'
    BY <1>1, <1>2, <2>5, OnwardKeeps DEF Writing, Where, Runs, Control
  <2>13. QED
    BY <2>5, <2>7, <2>8, <2>9, <2>10, <2>11, <2>12, OnwardKeeps
<1>8. QED
  BY <1>6, <1>7

LEMMA TransactionBusyIInv == ASSUME IInv, NEW s \in Stmt, TransactionBusy(s) PROVE IInv'
<1> USE DEF IInv, TransactionBusy, Running
<1>1. bt' = bt
  <2>1. CASE bt.page1
    <3> SUFFICES ASSUME NEW read \in BOOLEAN, read = TRUE,
                        bt' = UnlockIfUnused([bt EXCEPT !.page1 = read], Cursors(vdbe) # {})
                 PROVE  bt' = bt
      BY <2>1
    <3>1. [bt EXCEPT !.page1 = read] = bt
      BY <2>1 DEF Types, BtShared
    <3>2. QED
      BY <3>1, UnlockNothing
  <2>2. CASE ~bt.page1
    <3> SUFFICES ASSUME NEW read \in BOOLEAN,
                        bt' = UnlockIfUnused([bt EXCEPT !.page1 = read], Cursors(vdbe) # {})
                 PROVE  bt' = bt
      BY DEF Types, BtShared
    <3>1. bt.inTransaction = NONE /\ ~bt.inStmt /\ Users = {}
      BY <2>2 DEF Summary, Users, Subtransaction
    <3>2. Cursors(vdbe) = {}
      <4> SUFFICES ASSUME NEW q \in Stmt, vdbe[q].cursor PROVE FALSE
        BY DEF Cursors
      <4>1. bt.inTrans[Owner[q]] >= Wanted(q) /\ Wanted(q) \in {READ, WRITE}
        BY DEF Holds, Has, Needs, Wanted
      <4>2. QED
        BY <3>1, <4>1 DEF Users
    <3>3. QED
      <4> DEFINE x == [bt EXCEPT !.page1 = read]
      <4>1. x.inTransaction = NONE
        BY <3>1 DEF Types, BtShared
      <4>2. [x EXCEPT !.page1 = FALSE] = bt
        BY <2>2 DEF Types, BtShared
      <4> DEFINE y == [x EXCEPT !.page1 = FALSE]
      <4>3. bt' = [x EXCEPT !.page1 = FALSE, !.inStmt = FALSE]
        BY <3>2, <4>1 DEF UnlockIfUnused
      <4>4. bt' = [y EXCEPT !.inStmt = FALSE]
        BY <4>3
      <4> HIDE DEF x, y
      <4>5. bt' = [bt EXCEPT !.inStmt = FALSE]
        BY <4>2, <4>4 DEF y
      <4>6. bt.inStmt = FALSE
        BY <3>1 DEF Types, BtShared
      <4>7. [bt EXCEPT !.inStmt = bt.inStmt] = bt
        BY DEF Types, BtShared
      <4>8. QED
        BY <4>5, <4>6, <4>7
  <2>3. QED
    BY <2>1, <2>2
<1>2. /\ vdbe' \in [Stmt -> Vdbe] /\ \A q \in Stmt \ {s} : vdbe'[q] = vdbe[q]
      /\ SameStatement(s) /\ vdbe'[s].at = "busyTransaction" /\ vdbe'[s].cursor = vdbe[s].cursor
      /\ vdbe'[s].rc = vdbe[s].rc /\ vdbe'[s].errorAction = vdbe[s].errorAction
  BY Goes DEF Suspended
<1>3. Where(s)
  BY DEF Control
<1>4. Where(s)'
  BY <1>1, <1>2, <1>3 DEF Where, Runs, Active, SameStatement
<1>5. ~bt.inStmt
  BY DEF Subtransaction
<1>6. Quiet(s)
  BY <1>1, <1>2, <1>3, <1>4, <1>5 DEF Quiet, Only, Active
<1>7. Has(s)'
  BY <1>2, <1>3 DEF Has, Needs, NeedsLock, Where
<1>8. QED
  BY <1>6, <1>7, Quietly

LEMMA TableLockIInv == ASSUME IInv, NEW s \in Stmt, TableLock(s) PROVE IInv'
<1> USE DEF IInv, Running
<1> DEFINE c == Owner[s]
           w == Wanted(s)
           t == vdbe[s].table
<1>1. Where(s) /\ Has(s) /\ thread = s /\ vdbe[s].at = "lock" /\ ~vdbe[s].cursor /\ Active(s)
      /\ c \in Conn /\ t \in Table /\ w \in {READ, WRITE} /\ bt.inTrans[c] >= w
  BY DEF Control, Holds, TableLock, Where, Wanted, Active, Types, Vdbe, Has, Needs
<1>2. UNCHANGED <<autoCommit, activeVdbeCnt, thread, nWrite>>
  BY DEF TableLock
<1>3. CASE ~LockGranted(bt, c, t, w)
  BY <1>2, <1>3, FailsIInv DEF TableLock, ResultCode
<1>4. CASE LockGranted(bt, c, t, w)
  <2>1. bt' = Locked(bt, c, t, w) /\ vdbe' = Goto(s, "open")
    BY <1>4 DEF TableLock
  <2>2. /\ vdbe' \in [Stmt -> Vdbe] /\ \A q \in Stmt \ {s} : vdbe'[q] = vdbe[q]
        /\ SameStatement(s) /\ vdbe'[s].at = "open" /\ vdbe'[s].cursor = vdbe[s].cursor
        /\ vdbe'[s].rc = vdbe[s].rc /\ vdbe'[s].errorAction = vdbe[s].errorAction
    BY <2>1, Goes DEF Runs
  <2> DEFINE kept == Ignores(c, t, w) \/ bt.lock[c][t] >= w
  <2>3. /\ bt' \in BtShared
        /\ bt'.open = bt.open /\ bt'.inTrans = bt.inTrans /\ bt'.nTransaction = bt.nTransaction
        /\ bt'.inTransaction = bt.inTransaction /\ bt'.page1 = bt.page1 /\ bt'.inStmt = bt.inStmt
        /\ bt'.disk = bt.disk /\ bt'.cache = bt.cache
        /\ \A d \in Conn, u \in Table :
               bt'.lock[d][u] = IF d = c /\ u = t /\ ~kept THEN w ELSE bt.lock[d][u]
    <3>1. CASE kept
      BY <2>1, <3>1 DEF Locked, Types
    <3>2. CASE ~kept
      <4> DEFINE l == [bt.lock EXCEPT ![c][t] = w]
      <4>1. l \in [Conn -> [Table -> NONE .. WRITE]]
            /\ \A d \in Conn, u \in Table : l[d][u] = IF d = c /\ u = t THEN w ELSE bt.lock[d][u]
        BY <1>1 DEF Types, BtShared
      <4>2. bt' = [bt EXCEPT !.lock = l]
        BY <2>1, <3>2 DEF Locked
      <4> HIDE DEF l
      <4>3. bt' \in BtShared
        BY <4>1, <4>2, Field DEF Types
      <4>4. /\ bt'.lock = l
            /\ bt'.open = bt.open /\ bt'.inTrans = bt.inTrans /\ bt'.nTransaction = bt.nTransaction
            /\ bt'.inTransaction = bt.inTransaction /\ bt'.page1 = bt.page1
            /\ bt'.inStmt = bt.inStmt /\ bt'.disk = bt.disk /\ bt'.cache = bt.cache
        BY <4>2 DEF Types, BtShared
      <4>5. QED
        BY <3>2, <4>1, <4>3, <4>4
    <3>3. QED
      BY <3>1, <3>2
  <2>4. Only(s)
    <3>1. Where(s)'
      BY <1>1, <1>2, <2>2, <2>3 DEF Where, Runs, Active, SameStatement
    <3>2. QED
      BY <1>1, <1>2, <2>2, <3>1 DEF Only
  <2>5. Has(s)'
    BY <1>1, <2>2, <2>3, Levels DEF Has, Needs, NeedsLock, SameStatement, Wanted, Ignores, Types
  <2>6. Onward(s)
    <3>1. \A d \in Conn : /\ bt'.inTrans[d] >= bt.inTrans[d]
                          /\ \A u \in Table : bt'.lock[d][u] >= bt.lock[d][u]
      BY <1>1, <2>3, Levels DEF Types
    <3>2. QED
      BY <1>1, <1>2, <2>2, <2>3, <2>4, <2>5, <3>1 DEF Onward, Active
  <2>7. Begun1' /\ Summary'
    BY <2>3 DEF Begun1, Summary, Users
  <2>8. Compatible'
    <3>1. \A d \in Conn \ {c} : ~kept /\ bt.lock[d][t] # NONE => bt.lock[d][t] = READ /\ w = READ
      BY <1>4 DEF LockGranted
    <3>2. bt.inTrans[c] # NONE
      BY <1>1
    <3>3. QED
      BY <1>1, <2>3, <3>1, <3>2 DEF Compatible
  <2>9. Settles'
    BY <1>2, <2>3, <2>6, OnwardKeeps DEF Settles, ActiveOf
  <2>10. Subtransaction' /\ Writing'
    BY <1>1, <2>2, <2>3, <2>6, OnwardKeeps DEF Subtransaction, Writing, Where, Runs, Control
  <2>11. QED
    BY <2>6, <2>7, <2>8, <2>9, <2>10, OnwardKeeps
<1>5. QED
  BY <1>3, <1>4

LEMMA OpenMoves ==
  ASSUME Types, NEW s \in Stmt, Open(s), ~vdbe[s].cursor, vdbe[s].kind \in {"read", "write"}
  PROVE  LET opens == vdbe[s].kind = "read" \/ NoReaders(vdbe[s].table) IN
         /\ vdbe' \in [Stmt -> Vdbe] /\ \A q \in Stmt \ {s} : vdbe'[q] = vdbe[q]
         /\ SameStatement(s) /\ vdbe'[s].at = IF opens THEN "go" ELSE "halt"
         /\ vdbe'[s].cursor <=> opens
         /\ opens => vdbe'[s].rc = vdbe[s].rc
         /\ vdbe'[s].errorAction = vdbe[s].errorAction
<1> DEFINE opens == vdbe[s].kind = "read" \/ NoReaders(vdbe[s].table)
<1>1. CASE opens
  <2> DEFINE w == [vdbe[s] EXCEPT !.at = "go"]
  <2>1. w \in Vdbe /\ w.cursor = vdbe[s].cursor /\ w.at = "go" /\ w.kind = vdbe[s].kind
        /\ w.table = vdbe[s].table /\ w.id = vdbe[s].id /\ w.rc = vdbe[s].rc
        /\ w.errorAction = vdbe[s].errorAction
    BY DEF Types, Vdbe, Runs
  <2>2. vdbe'[s] = [w EXCEPT !.cursor = TRUE] /\ (\A q \in Stmt \ {s} : vdbe'[q] = vdbe[q])
    BY <1>1 DEF Open, Types
  <2> HIDE DEF w
  <2>3. [w EXCEPT !.cursor = TRUE] \in Vdbe
    BY <2>1 DEF Vdbe
  <2>4. vdbe' \in [Stmt -> Vdbe]
    BY <1>1, <2>2, <2>3 DEF Open, Types
  <2>5. QED
    BY <1>1, <2>1, <2>2, <2>4 DEF Vdbe, SameStatement
<1>2. CASE ~opens
  <2>1. vdbe' = Fails(s, "error")
    BY <1>2 DEF Open
  <2>2. "error" \in ResultCode
    BY DEF ResultCode
  <2>3. /\ vdbe' \in [Stmt -> Vdbe] /\ \A q \in Stmt \ {s} : vdbe'[q] = vdbe[q]
        /\ SameStatement(s) /\ vdbe'[s].at = "halt" /\ vdbe'[s].cursor = vdbe[s].cursor
        /\ vdbe'[s].errorAction = vdbe[s].errorAction
    BY <2>1, <2>2, FailsGoes
  <2>4. QED
    BY <1>2, <2>3
<1>3. QED
  BY <1>1, <1>2

LEMMA OpenIInv == ASSUME IInv, NEW s \in Stmt, Open(s) PROVE IInv'
<1> USE DEF IInv, Running
<1> DEFINE c == Owner[s]
           t == vdbe[s].table
           opens == vdbe[s].kind = "read" \/ NoReaders(t)
           begins == vdbe[s].kind # "read" /\ ~autoCommit[c] /\ ~bt.inStmt
<1>1. Where(s) /\ Has(s) /\ thread = s /\ vdbe[s].at = "open" /\ ~vdbe[s].cursor /\ Active(s)
      /\ c \in Conn /\ vdbe[s].kind \in {"read", "write"} /\ ~bt.inStmt
  BY DEF Control, Holds, Open, Where, Active, Subtransaction
<1>2. UNCHANGED <<autoCommit, activeVdbeCnt, thread, nWrite>>
  BY DEF Open
<1>3. /\ vdbe' \in [Stmt -> Vdbe] /\ \A q \in Stmt \ {s} : vdbe'[q] = vdbe[q]
      /\ SameStatement(s) /\ vdbe'[s].at = IF opens THEN "go" ELSE "halt"
      /\ vdbe'[s].cursor <=> opens
      /\ opens => vdbe'[s].rc = vdbe[s].rc
      /\ vdbe'[s].errorAction = vdbe[s].errorAction
  BY <1>1, OpenMoves
<1>4. bt' = IF begins THEN StmtBegun(bt) ELSE bt
  BY DEF Open
<1>5. /\ bt' \in BtShared
      /\ bt'.open = bt.open /\ bt'.inTrans = bt.inTrans /\ bt'.nTransaction = bt.nTransaction
      /\ bt'.inTransaction = bt.inTransaction /\ bt'.page1 = bt.page1 /\ bt'.lock = bt.lock
      /\ bt'.disk = bt.disk /\ bt'.cache = bt.cache
      /\ (bt'.inStmt <=> begins) /\ (begins => bt'.before = bt.cache)
  <2>1. CASE begins
    <3> DEFINE b == [bt EXCEPT !.inStmt = TRUE]
    <3>1. b \in BtShared /\ b.cache = bt.cache
      BY Field DEF Types, BtShared
    <3>2. bt' = [b EXCEPT !.before = bt.cache] /\ bt.cache \in SUBSET Row
      BY <1>4, <2>1 DEF StmtBegun, Types, BtShared
    <3> HIDE DEF b
    <3>3. bt' \in BtShared
      BY <3>1, <3>2, Field
    <3>4. QED
      BY <1>4, <2>1, <3>3 DEF StmtBegun, Types, BtShared
  <2>2. CASE ~begins
    BY <1>1, <1>4, <2>2 DEF Types
  <2>3. QED
    BY <2>1, <2>2
<1>6. Only(s)
  <2>1. Where(s)'
    BY <1>1, <1>2, <1>3, <1>5 DEF Where, Runs, Active, SameStatement
  <2>2. QED
    BY <1>1, <1>2, <1>3, <2>1 DEF Only
<1>7. Has(s)'
  BY <1>1, <1>3, <1>5 DEF Has, Needs, NeedsLock, SameStatement, Wanted, Ignores
<1>8. Onward(s)
  <2>1. \A d \in Conn : /\ bt'.inTrans[d] >= bt.inTrans[d]
                        /\ \A u \in Table : bt'.lock[d][u] >= bt.lock[d][u]
    BY <1>5, Levels DEF Types
  <2>2. QED
    BY <1>1, <1>2, <1>3, <1>5, <1>6, <1>7, <2>1 DEF Onward, Active
<1>9. Begun1' /\ Summary' /\ Compatible'
  BY <1>5 DEF Begun1, Summary, Compatible, Users
<1>10. Settles'
  BY <1>2, <1>5, <1>8, OnwardKeeps DEF Settles, ActiveOf
<1>11. Subtransaction'
  <2> SUFFICES ASSUME bt'.inStmt PROVE Subtransaction'
    BY DEF Subtransaction
  <2>1. begins
    BY <1>5
  <2>2. bt.inTrans[c] = WRITE
    BY <1>1, <2>1, Levels DEF Has, Needs, Wanted, Types
  <2>3. /\ thread' = s /\ vdbe'[s].kind = "write" /\ vdbe'[s].at \in {"go", "halt"}
        /\ ~autoCommit'[c] /\ bt'.inTrans[c] = WRITE /\ vdbe'[s].id = vdbe[s].id
    BY <1>1, <1>2, <1>3, <1>5, <2>1, <2>2 DEF SameStatement
  <2>4. \A r \in bt.cache : r[2] # vdbe[s].id
    BY <1>1, <2>1 DEF Ids
  <2>5. QED
    BY <1>5, <2>1, <2>3, <2>4 DEF Subtransaction, Dirty
<1>12. Writing'
  <2> SUFFICES ASSUME NEW q \in Stmt, vdbe'[q].at = "go", vdbe'[q].kind = "write"
               PROVE  NoReaders(vdbe[q].table)' /\ (~autoCommit'[Owner[q]] => bt'.inStmt)
    BY DEF Writing
  <2>1. q = s
    BY <1>1, <1>3 DEF Control, Where, Runs
  <2>2. vdbe[s].kind = "write" /\ vdbe'[s].table = t /\ NoReaders(t)
    BY <1>3, <2>1 DEF SameStatement
  <2>3. \A u : NoReaders(u) => NoReaders(u)'
    BY <1>3, <1>6, <2>2, ReadersSame
  <2>4. NoReaders(vdbe[q].table)'
    <3> DEFINE u == vdbe[s].table
    <3>1. \A x : x = u => NoReaders(x)'
      BY <2>2, <2>3
    <3>2. QED
      BY <2>1, <2>2, <3>1
  <2>5. QED
    BY <1>1, <1>2, <1>5, <2>1, <2>2, <2>4
<1>13. QED
  BY <1>8, <1>9, <1>10, <1>11, <1>12, OnwardKeeps

LEMMA InsertMoves ==
  ASSUME Types, ~CountChanges, NEW s \in Stmt, Insert(s)
  PROVE  /\ vdbe' \in [Stmt -> Vdbe] /\ \A q \in Stmt \ {s} : vdbe'[q] = vdbe[q]
         /\ SameStatement(s) /\ vdbe'[s].at \in {"go", "halt"} /\ vdbe'[s].rc = vdbe[s].rc
         /\ vdbe'[s].errorAction = vdbe[s].errorAction /\ (vdbe[s].cursor => vdbe'[s].cursor)
<1>1. CASE UNCHANGED vdbe
  BY <1>1 DEF Types, SameStatement, Insert
<1>2. CASE vdbe' = [vdbe EXCEPT ![s].at = "halt", ![s].cursor = TRUE]
  <2> DEFINE w == [vdbe[s] EXCEPT !.at = "halt"]
  <2>1. w \in Vdbe /\ w.at = "halt" /\ w.kind = vdbe[s].kind
        /\ w.table = vdbe[s].table /\ w.id = vdbe[s].id /\ w.rc = vdbe[s].rc
        /\ w.errorAction = vdbe[s].errorAction
    BY DEF Types, Vdbe, Runs
  <2>2. vdbe'[s] = [w EXCEPT !.cursor = TRUE] /\ (\A q \in Stmt \ {s} : vdbe'[q] = vdbe[q])
    BY <1>2 DEF Types
  <2> HIDE DEF w
  <2>3. [w EXCEPT !.cursor = TRUE] \in Vdbe
    BY <2>1 DEF Vdbe
  <2>4. vdbe' \in [Stmt -> Vdbe]
    BY <1>2, <2>2, <2>3 DEF Types
  <2>5. QED
    BY <2>1, <2>2, <2>4 DEF Vdbe, SameStatement
<1>3. QED
  BY <1>1, <1>2 DEF Insert

LEMMA InsertIInv ==
  ASSUME IInv, ~CountChanges, NEW s \in Stmt, Insert(s) PROVE IInv'
<1> USE DEF IInv, Running
<1> DEFINE c == Owner[s]
           t == vdbe[s].table
<1>1. /\ Where(s) /\ Has(s) /\ thread = s /\ vdbe[s].at = "go" /\ vdbe[s].kind = "write" /\ Active(s)
      /\ c \in Conn /\ t \in Table /\ vdbe[s] \in Vdbe
  BY DEF Control, Holds, Insert, Active, Types, Vdbe
<1>2. PICK k \in {1, 2} : bt' = [bt EXCEPT !.cache = @ \cup {NewRow(s, k)}]
  BY DEF Insert
<1> DEFINE row == NewRow(s, k)
<1>3. /\ row \in Row /\ row[1] = t /\ row[2] = vdbe[s].id /\ vdbe[s].id \in 1 .. nWrite
  BY <1>1 DEF NewRow, Row, Ids, Types, Vdbe
<1>4. /\ vdbe' \in [Stmt -> Vdbe] /\ \A q \in Stmt \ {s} : vdbe'[q] = vdbe[q]
      /\ SameStatement(s) /\ vdbe'[s].at \in {"go", "halt"} /\ vdbe'[s].rc = vdbe[s].rc
      /\ vdbe'[s].errorAction = vdbe[s].errorAction
  BY InsertMoves
<1>5. UNCHANGED <<autoCommit, activeVdbeCnt, thread, nWrite>>
  BY <1>1 DEF Insert
<1>6. /\ bt' \in BtShared /\ bt'.open = bt.open /\ bt'.inTrans = bt.inTrans
      /\ bt'.nTransaction = bt.nTransaction
      /\ bt'.inTransaction = bt.inTransaction /\ bt'.page1 = bt.page1 /\ bt'.lock = bt.lock
      /\ bt'.disk = bt.disk /\ bt'.cache = bt.cache \cup {row} /\ bt'.inStmt = bt.inStmt
      /\ bt'.before = bt.before
  BY <1>2, <1>3 DEF Types, BtShared
<1>7. bt.inTrans[c] = WRITE /\ bt.lock[c][t] = WRITE
  BY <1>1, Levels DEF Has, Needs, NeedsLock, Wanted, Ignores, Types
<1> HIDE DEF row
<1>8. Only(s)
  <2>1. Where(s)'
    BY <1>1, <1>4, <1>5, <1>6 DEF Where, Runs, Active, SameStatement
  <2>2. QED
    BY <1>1, <1>4, <1>5, <2>1 DEF Only
<1>9. Types' /\ Control'
  BY <1>5, <1>6, <1>8, OnlyControl DEF Types, Only
<1>10. Holds'
  <2>1. Has(s)'
    BY <1>1, <1>4, <1>6, <1>7 DEF Has, SameStatement, Wanted, Ignores
  <2>2. \A d \in Conn : /\ bt'.inTrans[d] >= bt.inTrans[d]
                        /\ \A u \in Table : bt'.lock[d][u] >= bt.lock[d][u]
    BY <1>6, Levels DEF Types
  <2>3. QED
    BY <1>6, <1>8, <2>1, <2>2, OnlyHolds
<1>11. Begun1' /\ Summary' /\ Compatible'
  BY <1>6 DEF Begun1, Summary, Compatible, Users
<1>12. \A q \in Stmt : Active(q)' = Active(q)
  BY <1>1, <1>4 DEF Active
<1>13. Counts' /\ Settles'
  BY <1>5, <1>6, <1>12, SameCounts DEF Settles, ActiveOf
<1>14. \A u : NoReaders(u) => NoReaders(u)'
  BY <1>1, <1>4, <1>8, ReadersSame
<1>15. Subtransaction'
  <2> SUFFICES ASSUME bt'.inStmt PROVE Subtransaction'
    BY DEF Subtransaction
  <2>1. /\ bt.inStmt /\ thread' = s /\ vdbe'[s].kind = "write" /\ vdbe'[s].at \in {"go", "halt"}
        /\ ~autoCommit'[c] /\ vdbe'[s].id = vdbe[s].id /\ vdbe'[s].table = t
    BY <1>1, <1>4, <1>5, <1>6 DEF Subtransaction, SameStatement
  <2>2. NoReaders(t)
    BY <1>1 DEF Writing
  <2>3. \A r \in bt'.cache \ bt'.before : r[1] = t /\ r[2] = vdbe[s].id /\ NoReaders(r[1])
    BY <1>1, <1>3, <1>6, <2>1, <2>2 DEF Subtransaction
  <2>4. \A r \in bt'.cache \ bt'.before : r[1] = t /\ r[2] = vdbe[s].id /\ NoReaders(r[1])'
    BY <1>14, <2>3
  <2>5. /\ bt'.disk \subseteq bt'.before /\ bt'.before \subseteq bt'.cache
        /\ \A r \in bt'.before : r[2] # vdbe[s].id
    BY <1>1, <1>6, <2>1 DEF Subtransaction
  <2>6. QED
    BY <1>6, <1>7, <2>1, <2>4, <2>5 DEF Subtransaction
<1>16. Writing'
  <2> SUFFICES ASSUME NEW q \in Stmt, vdbe'[q].at = "go", vdbe'[q].kind = "write"
               PROVE  NoReaders(vdbe[q].table)' /\ (~autoCommit'[Owner[q]] => bt'.inStmt)
    BY DEF Writing
  <2>1. QED
    BY <1>1, <1>4, <1>5, <1>6, <1>14 DEF Writing, SameStatement
<1>17. Dirty'
  BY <1>3, <1>6, <1>7 DEF Dirty
<1>18. Ids'
  <2>1. \A r \in bt'.cache : r[2] <= nWrite'
    BY <1>3, <1>5, <1>6 DEF Ids, Types
  <2>2. ASSUME NEW q \in Stmt, Active(q)', vdbe'[q].kind = "write"
        PROVE  /\ vdbe'[q].id \in 1 .. nWrite'
               /\ \A r \in bt'.disk : r[2] # vdbe'[q].id
               /\ \A r \in bt'.cache : r[2] = vdbe'[q].id =>
                      /\ bt'.inTrans[Owner[q]] = WRITE
                      /\ vdbe'[q].at \in {"go", "halt", "busyHalt"}
               /\ \A p \in Stmt \ {q} : Active(p)' /\ vdbe'[p].kind = "write" => vdbe'[p].id # vdbe'[q].id
    <3>1. \A p \in Stmt : vdbe'[p].kind = vdbe[p].kind /\ vdbe'[p].id = vdbe[p].id
      BY <1>4 DEF SameStatement
    <3>2. /\ vdbe'[q].id \in 1 .. nWrite'
          /\ \A r \in bt'.disk : r[2] # vdbe'[q].id
          /\ \A p \in Stmt \ {q} : Active(p)' /\ vdbe'[p].kind = "write" => vdbe'[p].id # vdbe'[q].id
      BY <1>5, <1>6, <1>12, <2>2, <3>1 DEF Ids
    <3>3. CASE q = s
      BY <1>4, <1>6, <1>7, <3>2, <3>3
    <3>4. CASE q # s
      <4>1. vdbe[q].id # vdbe[s].id
        BY <1>1, <1>12, <2>2, <3>1, <3>4 DEF Ids
      <4>2. vdbe'[q] = vdbe[q]
        BY <1>4, <3>4
      <4>3. QED
        BY <1>3, <1>6, <1>12, <2>2, <3>2, <4>1, <4>2 DEF Ids
    <3>5. QED
      BY <3>3, <3>4
  <2>3. QED
    BY <2>1, <2>2 DEF Ids
<1>19. QED
  BY <1>9, <1>10, <1>11, <1>13, <1>15, <1>16, <1>17, <1>18

-----------------------------------------------------------------------------
(* The end of a statement.                                                 *)

LEMMA Idles ==
  ASSUME Types, NEW s \in Stmt, vdbe' = [vdbe EXCEPT ![s] = Idle]
  PROVE  /\ vdbe' \in [Stmt -> Vdbe] /\ vdbe'[s] = Idle
         /\ \A q \in Stmt \ {s} : vdbe'[q] = vdbe[q]
BY IdleIs DEF Types

LEMMA EndTypes ==
  ASSUME Types, NEW s \in Stmt, activeVdbeCnt' = [activeVdbeCnt EXCEPT ![Owner[s]] = @ - 1],
         vdbe' \in [Stmt -> Vdbe], bt' \in BtShared, autoCommit' \in [Conn -> BOOLEAN],
         thread' = NoStmt, UNCHANGED nWrite
  PROVE  Types'
<1>1. activeVdbeCnt' \in [Conn -> Int]
  <2>1. \A c \in Conn : activeVdbeCnt[c] \in Int /\ activeVdbeCnt[c] - 1 \in Int
    BY DEF Types
  <2>2. QED
    BY <2>1 DEF Types
<1>2. nWrite' \in 0 .. MaxWrite
  BY DEF Types
<1>3. QED
  BY <1>1, <1>2 DEF Types

LEMMA IdleWhere ==
  ASSUME NEW s \in Stmt, vdbe'[s] = Idle, thread' # s PROVE Where(s)' /\ ~Active(s)'
BY IdleIs DEF Where, Runs, Active

\* The statement ends, the transaction goes on.
LEMMA StatementEnds ==
  ASSUME IInv, NEW s \in Stmt, Active(s), thread \in {s, NoStmt}, thread' = NoStmt,
         vdbe' = [vdbe EXCEPT ![s] = Idle],
         activeVdbeCnt' = [activeVdbeCnt EXCEPT ![Owner[s]] = @ - 1], UNCHANGED nWrite,
         autoCommit' \in [Conn -> BOOLEAN],
         \A d \in Conn \ {Owner[s]} : autoCommit'[d] = autoCommit[d],
         autoCommit'[Owner[s]] => autoCommit[Owner[s]] /\ activeVdbeCnt[Owner[s]] # 1,
         bt' \in BtShared, bt'.open = bt.open, bt'.inTrans = bt.inTrans,
         bt'.nTransaction = bt.nTransaction, bt'.inTransaction = bt.inTransaction,
         bt'.page1 = bt.page1, bt'.lock = bt.lock, bt'.disk = bt.disk, ~bt'.inStmt,
         bt.disk \subseteq bt'.cache, bt'.cache \subseteq bt.cache
  PROVE  IInv'
<1> USE DEF IInv
<1>1. /\ vdbe' \in [Stmt -> Vdbe] /\ vdbe'[s] = Idle
      /\ \A q \in Stmt \ {s} : vdbe'[q] = vdbe[q]
  BY Idles
<1>2. Only(s) /\ ~Active(s)'
  BY <1>1, IdleWhere DEF Only
<1>3. Types'
  BY <1>1, EndTypes
<1>4. Control'
  BY <1>2, OnlyControl
<1>5. Holds'
  <2>1. Has(s)'
    BY <1>1, IdleIs DEF Has, Needs, NeedsLock
  <2>2. \A d \in Conn : /\ bt'.inTrans[d] >= bt.inTrans[d]
                        /\ \A u \in Table : bt'.lock[d][u] >= bt.lock[d][u]
    BY Levels DEF Types
  <2>3. QED
    BY <1>2, <2>1, <2>2, OnlyHolds
<1>6. Begun1' /\ Summary' /\ Compatible'
  BY DEF Begun1, Summary, Compatible, Users
<1>7. \A q \in Stmt \ {s} : Active(q)' = Active(q)
  BY <1>1 DEF Active
<1>8. Counts'
  BY <1>2, <1>7, Ended
<1>9. Settles'
  <2> SUFFICES ASSUME NEW d \in Conn, autoCommit'[d], bt.inTrans[d] # NONE PROVE ActiveOf(d)' # {}
    BY DEF Settles
  <2>1. CASE d = Owner[s]
    <3>1. PICK q \in Of(Owner[s]) \ {s} : Active(q)
      BY <2>1, Alone
    <3>2. QED
      BY <1>7, <2>1, <3>1 DEF Of, ActiveOf
  <2>2. CASE d # Owner[s]
    BY <1>7, <2>2 DEF Settles, ActiveOf
  <2>3. QED
    BY <2>1, <2>2
<1>10. Subtransaction'
  BY DEF Subtransaction
<1>11. Writing'
  BY <1>4 DEF Writing, Control, Where, Runs
<1>12. Dirty'
  BY DEF Dirty
<1>13. Ids'
  BY <1>1, <1>2, <1>7 DEF Ids
<1>14. QED
  BY <1>3, <1>4, <1>5, <1>6, <1>8, <1>9, <1>10, <1>11, <1>12, <1>13

\* sqlite3AbortOtherActiveVdbes() and what is left of s itself.
LEMMA OthersAborted ==
  ASSUME IInv, NEW s \in Stmt, vdbe' = AbortOthers([vdbe EXCEPT ![s] = Idle], s)
  PROVE  /\ vdbe' \in [Stmt -> Vdbe] /\ vdbe'[s] = Idle
         /\ \A q \in Stmt \ {s} :
                /\ vdbe'[q].at = vdbe[q].at /\ vdbe'[q].kind = vdbe[q].kind
                /\ vdbe'[q].rc = vdbe[q].rc /\ vdbe'[q].id = vdbe[q].id
                /\ vdbe'[q].errorAction = vdbe[q].errorAction /\ vdbe'[q].table = vdbe[q].table
                /\ Owner[q] # Owner[s] => vdbe'[q] = vdbe[q]
                /\ vdbe'[q].cursor => vdbe'[q] = vdbe[q] /\ Owner[q] # Owner[s]
<1> USE DEF IInv
<1> DEFINE c == Owner[s]
           closed == [vdbe EXCEPT ![s] = Idle]
<1>1. /\ closed[s] = Idle /\ \A q \in Stmt \ {s} : closed[q] = vdbe[q]
      /\ vdbe' = AbortOthers(closed, s)
  BY IdleIs DEF Types
<1>2. vdbe'[s] = Idle
  BY <1>1 DEF AbortOthers
<1>3. ASSUME NEW q \in Stmt \ {s}
      PROVE  /\ vdbe'[q] \in Vdbe
             /\ vdbe'[q].at = vdbe[q].at /\ vdbe'[q].kind = vdbe[q].kind
             /\ vdbe'[q].rc = vdbe[q].rc /\ vdbe'[q].id = vdbe[q].id
             /\ vdbe'[q].errorAction = vdbe[q].errorAction /\ vdbe'[q].table = vdbe[q].table
             /\ Owner[q] # c => vdbe'[q] = vdbe[q]
             /\ vdbe'[q].cursor => vdbe'[q] = vdbe[q] /\ Owner[q] # c
  <2>1. vdbe[q] \in Vdbe
    BY DEF Types
  <2>2. CASE Owner[q] = c /\ Active(q)
    <3> DEFINE w == [vdbe[q] EXCEPT !.aborted = TRUE]
    <3>1. vdbe'[q] = [w EXCEPT !.cursor = FALSE]
      BY <1>1, <2>2 DEF AbortOthers, Of, Active
    <3>2. w \in Vdbe /\ w.at = vdbe[q].at /\ w.kind = vdbe[q].kind /\ w.rc = vdbe[q].rc
          /\ w.id = vdbe[q].id /\ w.errorAction = vdbe[q].errorAction /\ w.table = vdbe[q].table
      BY <2>1 DEF Vdbe
    <3> HIDE DEF w
    <3>3. [w EXCEPT !.cursor = FALSE] \in Vdbe
      BY <3>2 DEF Vdbe
    <3>4. QED
      BY <2>2, <3>1, <3>2, <3>3 DEF Vdbe
  <2>3. CASE ~(Owner[q] = c /\ Active(q))
    <3>1. vdbe'[q] = vdbe[q]
      BY <1>1, <2>3 DEF AbortOthers, Of, Active
    <3>2. ~Active(q) => ~vdbe[q].cursor
      BY DEF Control, Where, Active
    <3>3. QED
      BY <2>1, <2>3, <3>1, <3>2
  <2>4. QED
    BY <2>2, <2>3
<1>4. vdbe' \in [Stmt -> Vdbe]
  <2>1. \A q \in Stmt : vdbe'[q] \in Vdbe
    BY <1>2, <1>3, IdleIs
  <2>2. QED
    BY <1>1, <2>1 DEF AbortOthers
<1>5. QED
  BY <1>2, <1>3, <1>4

\* sqlite3VdbeHalt().
LEMMA HaltedIInv ==
  ASSUME IInv, NEW s \in Stmt, Active(s), thread \in {s, NoStmt}, Halted(s) PROVE IInv'
<1> USE DEF IInv
<1> DEFINE c == Owner[s]
           d == Decision(s)
           closed == [vdbe EXCEPT ![s] = Idle]
<1>1. /\ vdbe' = IF d = "rollback" THEN AbortOthers(closed, s) ELSE closed
      /\ bt' = CASE d = "commit" -> Committed(bt, c, Cursors(vdbe') # {})
                 [] d = "rollback" -> RolledBack(bt, c, Cursors(vdbe') # {})
                 [] d = "commitStmt" -> StmtCommitted(bt)
                 [] d = "rollbackStmt" -> StmtRolledBack(bt)
      /\ autoCommit' = IF d = "rollback" THEN [autoCommit EXCEPT ![c] = TRUE] ELSE autoCommit
      /\ activeVdbeCnt' = [activeVdbeCnt EXCEPT ![c] = @ - 1]
      /\ thread' = NoStmt /\ UNCHANGED nWrite
  BY UnlockNothing DEF Halted
<1>2. /\ d \in {"commit", "rollback", "commitStmt", "rollbackStmt"}
      /\ d = "commit" => LastActive(s)
      /\ d \in {"commitStmt", "rollbackStmt"} => ~LastActive(s)
  BY DEF Decision, SpecialError
<1>3. /\ closed \in [Stmt -> Vdbe] /\ closed[s] = Idle
      /\ \A q \in Stmt \ {s} : closed[q] = vdbe[q]
  BY IdleIs DEF Types
<1>4. c \in Conn /\ c \in bt.open
  BY DEF Control, Where
<1>5. \A q \in Stmt \ {s} : Where(q) /\ thread # q
  BY DEF Control
<1> HIDE DEF d
<1>6. CASE d = "commit"
  <2>1. vdbe' = closed /\ bt' = Committed(bt, c, Cursors(vdbe') # {}) /\ UNCHANGED autoCommit
    BY <1>1, <1>6
  <2>2. \A q \in Of(c) \ {s} : ~Active(q)
    BY <1>2, <1>6, Alone DEF LastActive
  <2>3. ~bt.inStmt
    BY <1>2, <1>6 DEF Subtransaction, LastActive
  <2>4. bt'.open = bt.open
    BY <2>1, CommittedIs
  <2>5. \A q \in Stmt \ {s} : vdbe'[q] = vdbe[q] /\ Active(q)' = Active(q)
    BY <1>3, <2>1 DEF Active
  <2>6. Only(s) /\ ~Active(s)'
    BY <1>1, <1>3, <2>1, IdleWhere DEF Only
  <2>7. Control'
    BY <2>4, <2>6, OnlyControl
  <2>8. \A q \in Of(c) : ~Active(q)' /\ ~vdbe'[q].cursor
    BY <2>2, <2>5, <2>6, <2>7 DEF Of, Control, Where, Active
  <2>9. Leaves(c)
    BY <1>1, <1>3, <2>1, <2>5, <2>7, <2>8 DEF Leaves
  <2>10. Counts'
    BY <1>1, <2>5, <2>6, Ended
  <2>11. /\ bt' \in BtShared /\ Holds' /\ Compatible' /\ Summary' /\ Begun1' /\ Subtransaction'
         /\ Writing' /\ Settles' /\ Dirty' /\ Ids'
    BY <1>4, <2>1, <2>3, <2>8, <2>9, CommitKeeps
  <2>12. Types'
    <3>1. autoCommit' \in [Conn -> BOOLEAN] /\ vdbe' \in [Stmt -> Vdbe]
      BY <1>3, <2>1 DEF Types
    <3>2. QED
      BY <1>1, <2>11, <3>1, EndTypes
  <2>13. QED
    BY <2>7, <2>10, <2>11, <2>12
<1>7. CASE d = "rollback"
  <2>1. /\ vdbe' = AbortOthers(closed, s) /\ bt' = RolledBack(bt, c, Cursors(vdbe') # {})
        /\ autoCommit' = [autoCommit EXCEPT ![c] = TRUE]
    BY <1>1, <1>7
  <2>2. bt'.open = bt.open
    BY <2>1, RolledBackIs
  <2>3. vdbe'[s] = Idle
    BY <2>1, OthersAborted
  <2>4. /\ vdbe' \in [Stmt -> Vdbe]
        /\ \A q \in Stmt \ {s} :
               /\ vdbe'[q].at = vdbe[q].at /\ vdbe'[q].kind = vdbe[q].kind
               /\ vdbe'[q].rc = vdbe[q].rc /\ vdbe'[q].id = vdbe[q].id
               /\ vdbe'[q].errorAction = vdbe[q].errorAction
               /\ Owner[q] # c => vdbe'[q] = vdbe[q]
               /\ vdbe'[q].cursor => vdbe'[q] = vdbe[q] /\ Owner[q] # c
    BY ZenonT(30), <2>1, OthersAborted
  <2>5. Where(s)' /\ ~Active(s)'
    BY <1>1, <2>3, IdleWhere
  <2>6. \A q \in Stmt \ {s} : Active(q)' = Active(q)
    BY <2>4 DEF Active
  <2>7. Control'
    <3> SUFFICES ASSUME NEW q \in Stmt \ {s} PROVE Where(q)'
      BY <2>5 DEF Control
    <3>1. Where(q) /\ thread # q /\ thread' # q /\ Active(q)' = Active(q)
      BY <1>1, <1>5, <2>6
    <3>2. QED
      BY <2>2, <2>4, <3>1 DEF Where
  <2>8. \A q \in Of(c) : ~vdbe'[q].cursor
    BY <2>3, <2>4, IdleIs DEF Of
  <2>9. Leaves(c)
    BY <1>1, <2>1, <2>3, <2>4, <2>7, <2>8 DEF Leaves, Types
  <2>10. Counts'
    BY <1>1, <2>5, <2>6, Ended
  <2>11. \A q \in Of(c) : Active(q)' => Active(q) /\ vdbe'[q].kind = vdbe[q].kind
                                       /\ vdbe'[q].id = vdbe[q].id
    BY <2>4, <2>5, <2>6 DEF Of
  <2>12. /\ bt' \in BtShared /\ Holds' /\ Compatible' /\ Summary' /\ Begun1' /\ Subtransaction'
         /\ Writing' /\ Settles' /\ Dirty' /\ Ids'
    BY <1>4, <2>1, <2>9, <2>11, RollbackKeeps
  <2>13. Types'
    <3>1. autoCommit' \in [Conn -> BOOLEAN]
      BY <2>1 DEF Types
    <3>2. QED
      BY <1>1, <2>4, <2>12, <3>1, EndTypes
  <2>14. QED
    BY <2>7, <2>10, <2>12, <2>13
<1>8. CASE d \in {"commitStmt", "rollbackStmt"}
  <2>1. vdbe' = closed /\ UNCHANGED autoCommit /\ bt' \in {StmtCommitted(bt), StmtRolledBack(bt)}
    BY <1>1, <1>8
  <2>2. /\ bt' \in BtShared /\ bt'.open = bt.open /\ bt'.inTrans = bt.inTrans
        /\ bt'.nTransaction = bt.nTransaction /\ bt'.inTransaction = bt.inTransaction
        /\ bt'.page1 = bt.page1 /\ bt'.lock = bt.lock /\ bt'.disk = bt.disk /\ ~bt'.inStmt
        /\ bt.disk \subseteq bt'.cache /\ bt'.cache \subseteq bt.cache
    <3> DEFINE b == [bt EXCEPT !.inStmt = FALSE]
               x == [b EXCEPT !.before = {}]
    <3>1. b \in BtShared
      BY Field DEF Types
    <3>2. x = StmtCommitted(bt)
      BY DEF StmtCommitted
    <3>3. /\ x.open = bt.open /\ x.inTrans = bt.inTrans
          /\ x.nTransaction = bt.nTransaction /\ x.inTransaction = bt.inTransaction
          /\ x.page1 = bt.page1 /\ x.lock = bt.lock /\ x.disk = bt.disk /\ ~x.inStmt
          /\ x.cache = bt.cache
      BY DEF Types, BtShared
    <3> HIDE DEF b
    <3>4. x \in BtShared
      BY <3>1, Field
    <3> HIDE DEF x
    <3>5. CASE bt' = StmtCommitted(bt)
      BY <3>2, <3>3, <3>4, <3>5 DEF Dirty
    <3>6. CASE bt' = StmtRolledBack(bt) /\ bt.inStmt
      <4>1. bt' = [x EXCEPT !.cache = bt.before] /\ bt.before \in SUBSET Row
        BY <3>2, <3>6 DEF StmtRolledBack, Types, BtShared
      <4>2. bt' \in BtShared
        BY <3>4, <4>1, Field
      <4>3. QED
        BY ZenonT(30), <3>3, <3>4, <3>6, <4>1, <4>2 DEF Subtransaction, BtShared
    <3>7. CASE bt' = StmtRolledBack(bt) /\ ~bt.inStmt
      BY <3>7 DEF StmtRolledBack, Types, Dirty
    <3>8. QED
      BY <2>1, <3>5, <3>6, <3>7
  <2>3. autoCommit'[c] => autoCommit[c] /\ activeVdbeCnt[c] # 1
    BY <1>2, <1>8, <2>1 DEF LastActive
  <2>4. QED
    BY <1>1, <2>1, <2>2, <2>3, StatementEnds DEF Types
<1>9. QED
  BY <1>2, <1>6, <1>7, <1>8

LEMMA HaltIInv == ASSUME IInv, NEW s \in Stmt, Halt(s) PROVE IInv'
<1>1. Halted(s) /\ thread = s /\ Active(s)
  BY DEF Halt, Running, Active
<1>2. QED
  BY <1>1, HaltedIInv

LEMMA ResetIInv == ASSUME IInv, ~BusyOnReset, NEW s \in Stmt, Reset(s) PROVE IInv'
<1>1. Halted(s) /\ thread = NoStmt /\ Active(s)
  BY DEF Reset, Free, Active, Suspended
<1>2. QED
  BY <1>1, HaltedIInv

-----------------------------------------------------------------------------
(* BEGIN, COMMIT and ROLLBACK, sqlite3_close and sqlite3_open.              *)

LEMMA StmtCommittedIs ==
  ASSUME IInv, bt' = StmtCommitted(bt)
  PROVE  /\ bt' \in BtShared /\ bt'.open = bt.open /\ bt'.inTrans = bt.inTrans
         /\ bt'.nTransaction = bt.nTransaction /\ bt'.inTransaction = bt.inTransaction
         /\ bt'.page1 = bt.page1 /\ bt'.lock = bt.lock /\ bt'.disk = bt.disk /\ ~bt'.inStmt
         /\ bt'.cache = bt.cache
<1> USE DEF IInv
<1> DEFINE b == [bt EXCEPT !.inStmt = FALSE]
<1>1. b \in BtShared
  BY Field DEF Types
<1>2. bt' = [b EXCEPT !.before = {}]
  BY DEF StmtCommitted
<1>3. b.inStmt = FALSE /\ b.open = bt.open /\ b.inTrans = bt.inTrans
      /\ b.nTransaction = bt.nTransaction /\ b.inTransaction = bt.inTransaction
      /\ b.page1 = bt.page1 /\ b.lock = bt.lock /\ b.disk = bt.disk /\ b.cache = bt.cache
  BY DEF Types, BtShared
<1> HIDE DEF b
<1>4. bt' \in BtShared
  BY <1>1, <1>2, Field
<1>5. QED
  BY <1>1, <1>2, <1>3, <1>4 DEF BtShared

LEMMA BeginIInv == ASSUME IInv, NEW s \in Stmt, Begin(s) PROVE IInv'
<1> USE DEF Begin, Running
<1>1. CASE autoCommit[Owner[s]]
  <2>1. /\ autoCommit' = [autoCommit EXCEPT ![Owner[s]] = FALSE]
        /\ bt' = StmtCommitted(bt) /\ thread' = NoStmt /\ thread = s /\ Active(s)
    BY <1>1 DEF Active
  <2>2. /\ autoCommit' \in [Conn -> BOOLEAN] /\ ~autoCommit'[Owner[s]]
        /\ \A d \in Conn \ {Owner[s]} : autoCommit'[d] = autoCommit[d]
    BY <2>1 DEF IInv, Types
  <2>3. bt.disk \subseteq bt.cache
    BY DEF IInv, Dirty
  <2>4. QED
    BY <1>1, <2>1, <2>2, <2>3, StmtCommittedIs, StatementEnds
<1>2. CASE ~autoCommit[Owner[s]]
  BY <1>2, FailsIInv DEF ResultCode
<1>3. QED
  BY <1>1, <1>2

LEMMA CommitIInv == ASSUME IInv, NEW s \in Stmt, Commit(s) PROVE IInv'
<1> USE DEF Running
<1> DEFINE c == Owner[s]
<1>1. /\ thread = s /\ vdbe[s].at = "autocommit" /\ vdbe[s].kind = "commit" /\ Active(s)
      /\ Where(s) /\ ~bt.inStmt /\ c \in Conn /\ UNCHANGED nWrite
  BY DEF Commit, IInv, Control, Subtransaction, Active
<1>2. CASE /\ MayEnd(c)
           /\ autoCommit' = [autoCommit EXCEPT ![c] = TRUE]
           /\ vdbe' = [vdbe EXCEPT ![s] = Idle]
           /\ bt' = Committed(bt, c, Cursors(vdbe) # {})
           /\ activeVdbeCnt' = [activeVdbeCnt EXCEPT ![c] = 0]
           /\ thread' = NoStmt
  <2> USE DEF IInv
  <2>1. \A q \in Of(c) \ {s} : ~Active(q)
    BY <1>1, <1>2, Alone DEF MayEnd
  <2>2. /\ vdbe' \in [Stmt -> Vdbe] /\ vdbe'[s] = Idle
        /\ \A q \in Stmt \ {s} : vdbe'[q] = vdbe[q] /\ Active(q)' = Active(q)
    BY <1>2, Idles DEF Active
  <2>3. Cursors(vdbe') = Cursors(vdbe)
    BY <1>1, <2>2, IdleIs DEF Cursors, Where
  <2>4. bt' = Committed(bt, c, Cursors(vdbe') # {}) /\ bt'.open = bt.open
    <3>1. bt' = Committed(bt, c, Cursors(vdbe') # {})
      BY <1>2, <2>3
    <3>2. QED
      BY <1>1, <3>1, CommittedIs
  <2>5. Only(s) /\ ~Active(s)'
    BY <1>1, <1>2, <2>2, IdleWhere DEF Only
  <2>6. Control'
    BY <2>4, <2>5, OnlyControl
  <2>7. \A q \in Of(c) : ~Active(q)' /\ ~vdbe'[q].cursor
    BY <2>1, <2>2, <2>5, <2>6 DEF Of, Control, Where, Active
  <2>8. Leaves(c)
    <3>1. \A e \in Conn \ {c} : autoCommit'[e] = autoCommit[e]
      BY <1>2 DEF Types
    <3>2. QED
      BY <1>1, <1>2, <2>2, <2>6, <2>7, <3>1 DEF Leaves
  <2>9. activeVdbeCnt' = [activeVdbeCnt EXCEPT ![c] = @ - 1]
    BY <1>1, <1>2 DEF MayEnd, Types
  <2>10. Counts'
    BY <1>1, <2>2, <2>5, <2>9, Ended
  <2>11. /\ bt' \in BtShared /\ Holds' /\ Compatible' /\ Summary' /\ Begun1' /\ Subtransaction'
         /\ Writing' /\ Settles' /\ Dirty' /\ Ids'
    BY <1>1, <2>4, <2>7, <2>8, CommitKeeps
  <2>12. autoCommit' \in [Conn -> BOOLEAN]
    BY <1>2 DEF Types
  <2>13. Types'
    BY <1>1, <1>2, <2>2, <2>9, <2>11, <2>12, EndTypes
  <2>14. QED
    BY <2>6, <2>10, <2>11, <2>13
<1>3. CASE /\ vdbe' = Goto(s, "busyHalt") /\ thread' = NoStmt
           /\ UNCHANGED <<bt, autoCommit, activeVdbeCnt>>
  <2>1. /\ vdbe' \in [Stmt -> Vdbe] /\ \A q \in Stmt \ {s} : vdbe'[q] = vdbe[q]
        /\ SameStatement(s) /\ vdbe'[s].at = "busyHalt" /\ vdbe'[s].cursor = vdbe[s].cursor
        /\ vdbe'[s].rc = vdbe[s].rc /\ vdbe'[s].errorAction = vdbe[s].errorAction
    BY <1>3, Goes DEF IInv, Suspended
  <2>2. vdbe[s].rc = "ok" /\ ~vdbe[s].cursor
    BY <1>1 DEF Where
  <2>3. QED
    BY <1>1, <1>3, <2>1, <2>2, BusyIInv
<1>4. CASE vdbe' = Fails(s, "error") /\ UNCHANGED <<bt, autoCommit, activeVdbeCnt, thread>>
  BY <1>1, <1>4, FailsIInv DEF ResultCode
<1>5. QED
  BY <1>2, <1>3, <1>4 DEF Commit

LEMMA RollbackIInv == ASSUME IInv, NEW s \in Stmt, Rollback(s) PROVE IInv'
<1> USE DEF Running
<1> DEFINE c == Owner[s]
<1>1. /\ thread = s /\ vdbe[s].at = "autocommit" /\ vdbe[s].kind = "rollback" /\ Active(s)
      /\ Where(s) /\ ~bt.inStmt /\ c \in Conn /\ UNCHANGED <<activeVdbeCnt, nWrite>>
  BY DEF Rollback, IInv, Control, Subtransaction, Active
<1>2. CASE /\ MayEnd(c)
           /\ bt' = RolledBack(bt, c, Cursors(vdbe) # {})
           /\ autoCommit' = [autoCommit EXCEPT ![c] = TRUE]
           /\ vdbe' = Goto(s, "done")
           /\ thread' = NoStmt
  <2> USE DEF IInv
  <2>1. \A q \in Of(c) \ {s} : ~Active(q)
    BY <1>1, <1>2, Alone DEF MayEnd
  <2>2. /\ vdbe' \in [Stmt -> Vdbe] /\ \A q \in Stmt \ {s} : vdbe'[q] = vdbe[q]
        /\ SameStatement(s) /\ vdbe'[s].at = "done" /\ vdbe'[s].cursor = vdbe[s].cursor
        /\ vdbe'[s].rc = vdbe[s].rc /\ vdbe'[s].errorAction = vdbe[s].errorAction
    BY <1>2, Goes DEF Suspended
  <2>3. \A q \in Stmt : Active(q)' = Active(q)
    BY <1>1, <2>2 DEF Active
  <2>4. Cursors(vdbe') = Cursors(vdbe)
    BY <2>2 DEF Cursors
  <2>5. bt' = RolledBack(bt, c, Cursors(vdbe') # {}) /\ bt'.open = bt.open
    <3>1. bt' = RolledBack(bt, c, Cursors(vdbe') # {})
      BY <1>2, <2>4
    <3>2. QED
      BY <1>1, <3>1, RolledBackIs
  <2>6. Only(s)
    <3>1. Where(s)'
      BY <1>1, <1>2, <2>2, <2>5 DEF Where, Runs, Active, SameStatement
    <3>2. QED
      BY <1>1, <1>2, <2>2, <3>1 DEF Only
  <2>7. Control'
    BY <2>5, <2>6, OnlyControl
  <2>8. \A q \in Of(c) : ~vdbe'[q].cursor
    <3> SUFFICES ASSUME NEW q \in Of(c) PROVE ~vdbe'[q].cursor
      OBVIOUS
    <3>1. CASE q = s
      BY <1>1, <2>2, <3>1 DEF Where
    <3>2. CASE q # s
      <4>1. Where(q) /\ ~Active(q) /\ vdbe'[q] = vdbe[q]
        BY <2>1, <2>2, <3>2 DEF Control, Of
      <4>2. QED
        BY <4>1 DEF Where, Active
    <3>3. QED
      BY <3>1, <3>2
  <2>9. Leaves(c)
    <3>1. \A e \in Conn \ {c} : autoCommit'[e] = autoCommit[e]
      BY <1>2 DEF Types
    <3>2. \A q \in Stmt : Owner[q] # c => vdbe'[q] = vdbe[q]
      BY <2>2
    <3>3. QED
      BY <1>1, <1>2, <2>2, <2>7, <2>8, <3>1, <3>2 DEF Leaves
  <2>10. Counts'
    BY <1>1, <2>3, SameCounts
  <2>11. \A q \in Of(c) : Active(q)' => Active(q) /\ vdbe'[q].kind = vdbe[q].kind
                                       /\ vdbe'[q].id = vdbe[q].id
    BY <2>2, <2>3 DEF Of, SameStatement
  <2>12. /\ bt' \in BtShared /\ Holds' /\ Compatible' /\ Summary' /\ Begun1' /\ Subtransaction'
         /\ Writing' /\ Settles' /\ Dirty' /\ Ids'
    BY <1>1, <2>5, <2>9, <2>11, RollbackKeeps
  <2>13. autoCommit' \in [Conn -> BOOLEAN]
    BY <1>2 DEF Types
  <2>14. Types'
    BY <1>1, <1>2, <2>2, <2>12, <2>13 DEF Types
  <2>15. QED
    BY <2>7, <2>10, <2>12, <2>14
<1>3. CASE vdbe' = Fails(s, "error") /\ UNCHANGED <<bt, autoCommit, thread>>
  BY <1>1, <1>3, FailsIInv DEF ResultCode
<1>4. QED
  BY <1>2, <1>3 DEF Rollback

LEMMA CloseIInv == ASSUME IInv, NEW c \in Conn, Close(c) PROVE IInv'
<1> USE DEF IInv
<1>1. /\ UNCHANGED <<vdbe, thread, nWrite>> /\ thread = NoStmt /\ \A q \in Of(c) : ~Active(q)
      /\ bt' = [RolledBack(bt, c, Cursors(vdbe') # {}) EXCEPT !.open = @ \ {c}]
  BY DEF Close, Free, Active
<1>2. /\ autoCommit' = [autoCommit EXCEPT ![c] = TRUE]
      /\ activeVdbeCnt' = [activeVdbeCnt EXCEPT ![c] = 0]
  BY DEF Close
<1>3. \A q \in Stmt : Active(q)' = Active(q) /\ vdbe'[q] = vdbe[q] /\ Where(q)
  BY <1>1 DEF Active, Control
<1>4. bt'.open \in {bt.open, bt.open \ {c}}
  BY <1>1, RolledBackIs DEF Without
<1>5. Control'
  <2> SUFFICES ASSUME NEW q \in Stmt PROVE Where(q)'
    BY DEF Control
  <2>1. Active(q)' => Owner[q] \in bt'.open
    BY <1>1, <1>3, <1>4 DEF Where, Of
  <2>2. QED
    BY <1>1, <1>3, <2>1 DEF Where
<1>6. \A q \in Of(c) : ~vdbe'[q].cursor
  BY <1>1, <1>3 DEF Where, Active, Of
<1>7. Leaves(c)
  <2>1. \A e \in Conn \ {c} : autoCommit'[e] = autoCommit[e]
    BY <1>2 DEF Types
  <2>2. QED
    BY <1>1, <1>3, <1>5, <1>6, <2>1 DEF Leaves, Types
<1>8. \A q \in Of(c) : Active(q)' => Active(q) /\ vdbe'[q].kind = vdbe[q].kind
                                    /\ vdbe'[q].id = vdbe[q].id
  BY <1>3 DEF Of
<1>9. /\ bt' \in BtShared /\ Holds' /\ Compatible' /\ Summary' /\ Begun1' /\ Subtransaction'
      /\ Writing' /\ Settles' /\ Dirty' /\ Ids'
  BY <1>1, <1>7, <1>8, RollbackKeeps
<1>10. Counts'
  <2>1. ActiveOf(c) = {} /\ Cardinality(ActiveOf(c)) = 0
    <3>1. ActiveOf(c) = {}
      BY <1>1 DEF ActiveOf, Of
    <3>2. QED
      BY <3>1, FS_EmptySet
  <2>2. activeVdbeCnt' = activeVdbeCnt
    BY <1>2, <2>1 DEF Counts, Types
  <2>3. QED
    BY <1>3, <2>2, SameCounts
<1>11. autoCommit' \in [Conn -> BOOLEAN] /\ activeVdbeCnt' \in [Conn -> Int]
  BY <1>2 DEF Types
<1>12. Types'
  BY <1>1, <1>9, <1>11 DEF Types
<1>13. QED
  BY <1>5, <1>9, <1>10, <1>12

LEMMA ReopenIInv == ASSUME IInv, NEW c \in Conn, Reopen(c) PROVE IInv'
<1> USE DEF IInv
<1>1. bt' = [bt EXCEPT !.open = @ \cup {c}] /\ UNCHANGED <<autoCommit, activeVdbeCnt, vdbe, thread, nWrite>>
  BY DEF Reopen
<1>2. /\ bt' \in BtShared /\ bt'.open = bt.open \cup {c} /\ bt'.inTrans = bt.inTrans
      /\ bt'.nTransaction = bt.nTransaction /\ bt'.inTransaction = bt.inTransaction
      /\ bt'.page1 = bt.page1 /\ bt'.lock = bt.lock /\ bt'.disk = bt.disk
      /\ bt'.inStmt = bt.inStmt /\ bt'.cache = bt.cache /\ bt'.before = bt.before
  BY <1>1 DEF Types, BtShared
<1>3. Types'
  BY <1>1, <1>2 DEF Types
<1>4. Control'
  BY <1>1, <1>2 DEF Control, Where, Active
<1>5. Holds'
  BY <1>1, <1>2 DEF Holds, Has, Needs, NeedsLock, Wanted, Ignores
<1>6. Compatible' /\ Summary' /\ Begun1' /\ Dirty'
  BY <1>1, <1>2 DEF Compatible, Summary, Begun1, Users, Dirty
<1>7. \A q \in Stmt : Active(q)' = Active(q)
  BY <1>1 DEF Active
<1>8. Counts' /\ Settles'
  BY <1>1, <1>2, <1>7, SameCounts DEF Settles, ActiveOf
<1>9. Subtransaction' /\ Writing'
  BY <1>1, <1>2 DEF Subtransaction, Writing, NoReaders, Cursors
<1>10. Ids'
  BY <1>1, <1>2, <1>7 DEF Ids
<1>11. QED
  BY <1>3, <1>4, <1>5, <1>6, <1>8, <1>9, <1>10

-----------------------------------------------------------------------------
(* The invariant holds.                                                    *)

LEMMA InitIInv == Init => IInv
<1> SUFFICES ASSUME Init PROVE IInv
  OBVIOUS
<1>1. /\ bt.open = Conn /\ bt.inTrans = [c \in Conn |-> NONE] /\ bt.inTransaction = NONE
      /\ bt.nTransaction = 0 /\ ~bt.inStmt /\ ~bt.page1 /\ bt.disk = {} /\ bt.cache = {}
      /\ bt.lock = [c \in Conn |-> [t \in Table |-> NONE]]
      /\ autoCommit = [c \in Conn |-> TRUE] /\ activeVdbeCnt = [c \in Conn |-> 0]
      /\ thread = NoStmt /\ nWrite = 0
  BY DEF Init
<1>2. \A s \in Stmt : vdbe[s] = Idle /\ ~Active(s)
  BY IdleIs DEF Init, Active
<1>3. Types
  <2>1. bt \in BtShared
    BY DEF Init, BtShared
  <2>2. vdbe \in [Stmt -> Vdbe]
    BY IdleIs DEF Init
  <2>3. QED
    BY <1>1, <2>1, <2>2 DEF Types
<1>4. Control
  BY <1>1, <1>2, IdleIs DEF Control, Where, Runs
<1>5. Holds /\ Writing
  BY <1>2, IdleIs DEF Holds, Has, Needs, NeedsLock, Writing
<1>6. Users = {} /\ \A c \in Conn : ActiveOf(c) = {}
  BY <1>1, <1>2 DEF Users, ActiveOf
<1>7. Compatible /\ Summary /\ Begun1 /\ Counts /\ Settles
  BY SMTT(30), <1>1, <1>6, FS_EmptySet DEF Compatible, Summary, Begun1, Counts, Settles
<1>8. Subtransaction /\ Dirty /\ Ids
  BY <1>1, <1>2 DEF Subtransaction, Dirty, Ids
<1>9. QED
  BY <1>3, <1>4, <1>5, <1>7, <1>8 DEF IInv

LEMMA StutterIInv == ASSUME IInv, UNCHANGED vars PROVE IInv'
<1> USE DEF IInv, vars
<1>1. \A q \in Stmt : Active(q)' = Active(q)
  BY DEF Active
<1>2. Types' /\ Control' /\ Compatible'
  BY DEF Types, Control, Where, Compatible, Active
<1>3. Holds' /\ Summary' /\ Begun1' /\ Dirty'
  BY DEF Holds, Has, Needs, NeedsLock, Wanted, Ignores, Summary, Begun1, Users, Dirty
<1>4. Counts' /\ Settles'
  BY <1>1, SameCounts DEF Settles, ActiveOf
<1>5. Subtransaction' /\ Writing'
  BY DEF Subtransaction, Writing, NoReaders, Cursors
<1>6. Ids'
  BY <1>1 DEF Ids
<1>7. QED
  BY <1>2, <1>3, <1>4, <1>5, <1>6

LEMMA NextIInv ==
  ASSUME ~CountChanges, ~BusyOnReset, IInv, [Next]_vars PROVE IInv'
<1>1. ASSUME NEW s \in Stmt, Start(s) \/ Retry(s) \/ Step(s) \/ Reset(s) PROVE IInv'
  BY <1>1, StartIInv, RetryIInv, StepIInv, ResetIInv
<1>2. ASSUME NEW s \in Stmt, Transaction(s) \/ TransactionBusy(s) \/ TableLock(s) \/ Open(s)
      PROVE  IInv'
  BY <1>2, TransactionIInv, TransactionBusyIInv, TableLockIInv, OpenIInv
<1>3. ASSUME NEW s \in Stmt, ResultRow(s) \/ Insert(s) \/ InsertFails(s) PROVE IInv'
  BY <1>3, ResultRowIInv, InsertIInv, InsertFailsIInv
<1>4. ASSUME NEW s \in Stmt, Halt(s) \/ HaltBusy(s) \/ Begin(s) \/ Commit(s) \/ Rollback(s)
      PROVE  IInv'
  BY <1>4, HaltIInv, HaltBusyIInv, BeginIInv, CommitIInv, RollbackIInv
<1>5. ASSUME NEW c \in Conn, Close(c) \/ Reopen(c) PROVE IInv'
  BY <1>5, CloseIInv, ReopenIInv
<1>6. CASE UNCHANGED vars
  BY <1>6, StutterIInv
<1>7. QED
  BY <1>1, <1>2, <1>3, <1>4, <1>5, <1>6 DEF Next

LEMMA IInvHolds == ASSUME ~CountChanges, ~BusyOnReset PROVE Spec => []IInv
<1>1. IInv /\ [Next]_vars => IInv'
  BY NextIInv
<1>2. QED
  BY <1>1, InitIInv, PTL DEF Spec

-----------------------------------------------------------------------------
(* What the connections rely on.                                           *)

\* The state of the shared cache, of the connections and of the statements
\* keeps its type; in particular nTransaction (sqlite3BtreeBeginTrans) and
\* activeVdbeCnt (sqlite3VdbeHalt) never count more than there is.
THEOREM ConnectionTypeOK == ASSUME ~CountChanges, ~BusyOnReset PROVE Spec => []TypeOK
<1>1. IInv => TypeOK
  <2> SUFFICES ASSUME IInv PROVE TypeOK
    OBVIOUS
  <2>1. bt.nTransaction \in 0 .. Cardinality(Conn)
    BY Finitely DEF IInv, Begun1
  <2>2. activeVdbeCnt \in [Conn -> 0 .. Cardinality(Stmt)]
    <3>1. \A c \in Conn : activeVdbeCnt[c] \in 0 .. Cardinality(Stmt)
      BY Finitely DEF IInv, Counts
    <3>2. QED
      BY <3>1 DEF IInv, Types
  <2>3. bt \in [open : SUBSET Conn, inTrans : [Conn -> NONE .. WRITE],
                inTransaction : NONE .. WRITE, nTransaction : 0 .. Cardinality(Conn),
                inStmt : BOOLEAN, page1 : BOOLEAN, lock : [Conn -> [Table -> NONE .. WRITE]],
                disk : SUBSET Row, cache : SUBSET Row, before : SUBSET Row]
    BY <2>1 DEF IInv, Types, BtShared
  <2>4. QED
    BY <2>2, <2>3 DEF TypeOK, IInv, Types
<1>2. QED
  BY <1>1, IInvHolds, PTL

\* btreeIntegrity and checkActiveVdbeCnt: the summary in the BtShared is that of
\* its handles, one of them writes at most, page 1 is held exactly while a
\* transaction or a cursor needs it, and the active statements are counted.
THEOREM ConnectionIntegrity == ASSUME ~CountChanges, ~BusyOnReset PROVE Spec => []Integrity
<1>1. IInv => Integrity
  <2> SUFFICES ASSUME IInv PROVE Integrity
    OBVIOUS
  <2> DEFINE writers == {c \in Conn : bt.inTrans[c] = WRITE}
  <2> USE DEF IInv
  <2>1. bt.nTransaction = Cardinality(Users) /\ Users \subseteq bt.open
    BY DEF Begun1, Summary
  <2>2. Cardinality(writers) <= 1
    <3>1. CASE writers = {}
      BY <3>1, FS_EmptySet
    <3>2. CASE writers # {}
      <4>1. PICK c \in writers : TRUE
        BY <3>2
      <4>2. writers = {c}
        BY <4>1 DEF Summary
      <4>3. Cardinality({c}) = 1
        BY FS_Singleton
      <4>4. QED
        BY <4>2, <4>3
    <3>3. QED
      BY <3>1, <3>2
  <2>3. bt.inTransaction = IF writers # {} THEN WRITE ELSE IF Users # {} THEN READ ELSE NONE
    BY DEF Summary
  <2>4. bt.page1 <=> Users # {} \/ Cursors(vdbe) # {}
    <3>1. ASSUME NEW q \in Stmt, vdbe[q].cursor PROVE Users # {}
      <4>1. bt.inTrans[Owner[q]] >= Wanted(q) /\ Wanted(q) \in {READ, WRITE}
        BY <3>1 DEF Holds, Has, Needs, Wanted
      <4>2. QED
        BY <4>1 DEF Users
    <3>2. QED
      BY <3>1 DEF Summary, Cursors
  <2>5. bt.inStmt => ~Free /\ bt.inTrans[Owner[thread]] = WRITE
    BY DEF Subtransaction, Free
  <2>6. \A c \in Conn : activeVdbeCnt[c] = Cardinality({s \in Of(c) : Active(s)})
    <3>1. \A c \in Conn : ActiveOf(c) = {s \in Of(c) : Active(s)}
      BY DEF ActiveOf, Of
    <3>2. QED
      BY <3>1 DEF Counts
  <2>7. QED
    BY <2>1, <2>2, <2>3, <2>4, <2>5, <2>6 DEF Integrity, Users
<1>2. QED
  BY <1>1, IInvHolds, PTL

\* A cursor open on a table sees no uncommitted row of another connection
\* (queryTableLock), unless its connection reads uncommitted data.
LEMMA CleanScan ==
  ASSUME IInv, NEW s \in Stmt, vdbe[s].cursor, NEW r \in bt.cache \ bt.disk,
         r[1] = vdbe[s].table, Owner[s] \notin ReadUncommitted
  PROVE  bt.inTrans[Owner[s]] = WRITE
<1> USE DEF IInv
<1>1. PICK d \in Conn : bt.inTrans[d] = WRITE /\ bt.lock[d][r[1]] = WRITE
  BY DEF Dirty
<1>2. bt.lock[Owner[s]][r[1]] # NONE
  BY Levels DEF Holds, Has, NeedsLock, Ignores, Wanted, Types, Vdbe
<1>3. r[1] \in Table
  BY DEF Types, Vdbe
<1>4. d = Owner[s]
  BY <1>1, <1>2, <1>3 DEF Compatible
<1>5. QED
  BY <1>1, <1>4

\* The table locks: no query of a connection without SQLITE_ReadUncommitted
\* sees a row that another connection may still roll back.
THEOREM ConnectionNoDirtyRead == ASSUME ~CountChanges, ~BusyOnReset PROVE Spec => []NoDirtyRead
<1>1. IInv => NoDirtyRead
  BY CleanScan DEF NoDirtyRead, Cursors
<1>2. QED
  BY <1>1, IInvHolds, PTL

\* In autocommit mode the statement that halts last leaves no transaction and
\* no table lock of its connection (sqlite3VdbeHalt).
THEOREM ConnectionAutocommitSettles ==
  ASSUME ~CountChanges, ~BusyOnReset PROVE Spec => []AutocommitSettles
<1>1. IInv => AutocommitSettles
  <2> SUFFICES ASSUME IInv, NEW c \in Conn, autoCommit[c], \A s \in Of(c) : ~Active(s)
               PROVE  bt.inTrans[c] = NONE /\ \A t \in Table : bt.lock[c][t] = NONE
    BY DEF AutocommitSettles
  <2>1. ActiveOf(c) = {}
    BY DEF ActiveOf, Of
  <2>2. bt.inTrans[c] = NONE
    BY <2>1 DEF IInv, Settles
  <2>3. QED
    BY <2>2 DEF IInv, Compatible
<1>2. QED
  BY <1>1, IInvHolds, PTL

-----------------------------------------------------------------------------
(* What the steps do to the rows.                                          *)

\* Most steps leave the rows and the transactions alone, ...
LEMMA SameRows ==
  ASSUME IInv, NEW s \in Stmt,
         \/ Start(s) \/ Retry(s) \/ Step(s) \/ TransactionBusy(s) \/ TableLock(s) \/ Open(s)
         \/ ResultRow(s) \/ InsertFails(s) \/ HaltBusy(s) \/ Begin(s)
  PROVE  bt'.cache = bt.cache /\ bt'.disk = bt.disk /\ bt'.inTrans = bt.inTrans
<1> USE DEF IInv, Types, BtShared
<1>1. CASE Start(s) \/ Retry(s) \/ Step(s) \/ ResultRow(s) \/ InsertFails(s) \/ HaltBusy(s)
  BY <1>1 DEF Start, Retry, Step, ResultRow, InsertFails, HaltBusy
<1>2. CASE TransactionBusy(s)
  <2>1. ASSUME NEW read, NEW cursors
        PROVE  LET x == UnlockIfUnused([bt EXCEPT !.page1 = read], cursors)
               IN  x.cache = bt.cache /\ x.disk = bt.disk /\ x.inTrans = bt.inTrans
    BY DEF UnlockIfUnused
  <2>2. \/ bt' = bt
        \/ \E read \in {bt.page1, TRUE, FALSE} :
              bt' = UnlockIfUnused([bt EXCEPT !.page1 = read], Cursors(vdbe) # {})
    <3>1. (Wanted(s) = WRITE) \in {TRUE, FALSE}
      OBVIOUS
    <3>2. QED
      BY <1>2, <3>1, Zenon DEF TransactionBusy
  <2>3. CASE bt' = bt
    BY <2>3
  <2>4. ASSUME NEW read, bt' = UnlockIfUnused([bt EXCEPT !.page1 = read], Cursors(vdbe) # {})
        PROVE  bt'.cache = bt.cache /\ bt'.disk = bt.disk /\ bt'.inTrans = bt.inTrans
    BY <2>1, <2>4
  <2>5. QED
    BY <2>2, <2>3, <2>4
<1>3. CASE TableLock(s)
  BY <1>3 DEF TableLock, Locked
<1>4. CASE Open(s)
  BY <1>4 DEF Open, StmtBegun
<1>5. CASE Begin(s)
  BY <1>5 DEF Begin, StmtCommitted
<1>6. QED
  BY <1>1, <1>2, <1>3, <1>4, <1>5

\* ... OP_Transaction may begin a transaction, ...
LEMMA TransactionRows ==
  ASSUME IInv, NEW s \in Stmt, Transaction(s)
  PROVE  /\ bt'.cache = bt.cache /\ bt'.disk = bt.disk
         /\ \/ bt'.inTrans = bt.inTrans
            \/ /\ bt'.inTrans = [bt.inTrans EXCEPT ![Owner[s]] = Wanted(s)]
               /\ ~OtherWrites(bt, Owner[s], Wanted(s))
               /\ bt.inTrans[Owner[s]] < Wanted(s)
<1>1. CASE AlreadyBegun(bt, Owner[s], Wanted(s))
  BY <1>1 DEF Transaction
<1>2. CASE ~AlreadyBegun(bt, Owner[s], Wanted(s))
  BY <1>2, Levels DEF Transaction, Begun, AlreadyBegun, IInv, Types, BtShared, Wanted
<1>3. QED
  BY <1>1, <1>2

\* ... and sqlite3VdbeHalt() ends it, or the statement in it.
Ending(c) ==
    /\ bt'.inTrans = [bt.inTrans EXCEPT ![c] = NONE] /\ bt'.disk = bt.disk
    /\ bt'.cache = IF bt.inTrans[c] = WRITE THEN bt.disk ELSE bt.cache
    /\ \A q \in Stmt : vdbe'[q].cursor => vdbe'[q] = vdbe[q] /\ Owner[q] # c

LEMMA HaltedRows ==
  ASSUME IInv, NEW s \in Stmt, Active(s), Halted(s)
  PROVE  /\ vdbe'[s] = Idle /\ thread' = NoStmt
         /\ \/ Decision(s) = "rollback" /\ Ending(Owner[s])
            \/ /\ Decision(s) # "rollback"
               /\ \A q \in Stmt \ {s} : vdbe'[q] = vdbe[q]
               /\ \/ /\ Decision(s) = "commit" /\ bt'.cache = bt.cache
                     /\ bt'.disk = IF bt.inTrans[Owner[s]] = WRITE THEN bt.cache ELSE bt.disk
                     /\ bt'.inTrans = [bt.inTrans EXCEPT ![Owner[s]] = NONE]
                  \/ /\ Decision(s) = "commitStmt" /\ bt'.cache = bt.cache
                     /\ bt'.disk = bt.disk /\ bt'.inTrans = bt.inTrans
                  \/ /\ Decision(s) = "rollbackStmt" /\ bt'.disk = bt.disk /\ bt'.inTrans = bt.inTrans
                     /\ bt'.cache = IF bt.inStmt THEN bt.before ELSE bt.cache
<1> DEFINE c == Owner[s]
           d == Decision(s)
           closed == [vdbe EXCEPT ![s] = Idle]
<1>1. /\ vdbe' = IF d = "rollback" THEN AbortOthers(closed, s) ELSE closed
      /\ bt' = CASE d = "commit" -> Committed(bt, c, Cursors(vdbe') # {})
                 [] d = "rollback" -> RolledBack(bt, c, Cursors(vdbe') # {})
                 [] d = "commitStmt" -> StmtCommitted(bt)
                 [] d = "rollbackStmt" -> StmtRolledBack(bt)
      /\ thread' = NoStmt
  BY UnlockNothing DEF Halted
<1>2. d \in {"commit", "rollback", "commitStmt", "rollbackStmt"}
  BY DEF Decision
<1>3. Types /\ c \in Conn
  BY DEF IInv
<1> HIDE DEF d
<1>4. CASE d = "rollback"
  <2>1. vdbe' = AbortOthers(closed, s) /\ bt' = RolledBack(bt, c, Cursors(vdbe') # {})
    BY <1>1, <1>4
  <2>2. Ending(c) /\ vdbe'[s] = Idle
    BY <1>3, <2>1, OthersAborted, RolledBackIs, IdleIs DEF Ending, Without
  <2>3. QED
    BY <1>1, <1>4, <2>2 DEF d
<1>5. CASE d # "rollback"
  <2>1. vdbe' = closed /\ vdbe'[s] = Idle /\ \A q \in Stmt \ {s} : vdbe'[q] = vdbe[q]
    BY <1>1, <1>3, <1>5, Idles
  <2>2. CASE d = "commit"
    <3>1. bt' = Committed(bt, c, Cursors(vdbe') # {})
      BY <1>1, <2>2
    <3>2. QED
      BY <1>1, <1>3, <2>1, <2>2, <3>1, CommittedIs DEF Without, d
  <2>3. CASE d = "commitStmt"
    <3>1. bt' = StmtCommitted(bt)
      BY <1>1, <2>3
    <3>2. QED
      BY <1>1, <2>1, <2>3, <3>1, StmtCommittedIs DEF d
  <2>4. CASE d = "rollbackStmt"
    <3>1. bt' = StmtRolledBack(bt)
      BY <1>1, <2>4
    <3>2. /\ bt'.cache = IF bt.inStmt THEN bt.before ELSE bt.cache
          /\ bt'.disk = bt.disk /\ bt'.inTrans = bt.inTrans
      BY <1>3, <3>1 DEF StmtRolledBack, StmtCommitted, Types, BtShared
    <3>3. QED
      BY <1>1, <2>1, <2>4, <3>2 DEF d
  <2>5. QED
    BY <1>2, <1>5, <2>2, <2>3, <2>4
<1>6. QED
  BY <1>4, <1>5

\* So do COMMIT, ROLLBACK and sqlite3_close().
LEMMA CommitRows ==
  ASSUME IInv, NEW s \in Stmt, Commit(s)
  PROVE  /\ bt'.cache = bt.cache
         /\ \/ bt'.disk = bt.disk /\ bt'.inTrans = bt.inTrans
            \/ /\ bt'.disk = IF bt.inTrans[Owner[s]] = WRITE THEN bt.cache ELSE bt.disk
               /\ bt'.inTrans = [bt.inTrans EXCEPT ![Owner[s]] = NONE]
BY CommittedIs DEF Commit, Without, IInv

LEMMA RollbackRows ==
  ASSUME IInv, NEW s \in Stmt, Rollback(s)
  PROVE  bt' = bt \/ Ending(Owner[s])
<1> USE DEF Running
<1>1. CASE ~MayEnd(Owner[s])
  BY <1>1 DEF Rollback
<1>2. CASE MayEnd(Owner[s])
  <2>1. /\ bt' = RolledBack(bt, Owner[s], Cursors(vdbe) # {}) /\ vdbe' = Goto(s, "done")
        /\ vdbe[s].at = "autocommit" /\ Active(s) /\ Where(s)
    BY <1>2 DEF Rollback, Active, IInv, Control
  <2>2. \A q \in Of(Owner[s]) \ {s} : ~Active(q)
    BY <1>2, <2>1, Alone DEF MayEnd, IInv
  <2>3. /\ \A q \in Stmt \ {s} : vdbe'[q] = vdbe[q]
        /\ vdbe'[s].cursor = vdbe[s].cursor
    BY <2>1, Goes DEF IInv, Suspended
  <2>4. \A q \in Stmt : vdbe'[q].cursor => vdbe'[q] = vdbe[q] /\ Owner[q] # Owner[s]
    <3>1. ~vdbe'[s].cursor
      BY <2>1, <2>3 DEF Where
    <3>2. \A q \in Of(Owner[s]) \ {s} : ~vdbe[q].cursor
      BY <2>2 DEF IInv, Control, Where, Active, Of
    <3>3. QED
      BY <2>3, <3>1, <3>2 DEF Of
  <2>5. QED
    BY <2>1, <2>4, RolledBackIs DEF Ending, Without, IInv
<1>3. QED
  BY <1>1, <1>2

LEMMA CloseRows == ASSUME IInv, NEW c \in Conn, Close(c) PROVE Ending(c)
<1>1. /\ bt' = [RolledBack(bt, c, Cursors(vdbe) # {}) EXCEPT !.open = @ \ {c}]
      /\ UNCHANGED vdbe /\ \A q \in Of(c) : ~Active(q)
  BY DEF Close, Active
<1>2. \A q \in Of(c) : ~vdbe[q].cursor
  BY <1>1 DEF IInv, Control, Where, Active, Of
<1>3. QED
  BY <1>1, <1>2, RolledBackIs DEF Ending, Without, Of, IInv

LEMMA InsertRows ==
  ASSUME IInv, ~CountChanges, NEW s \in Stmt, Insert(s)
  PROVE  /\ bt'.inTrans = bt.inTrans /\ bt'.disk = bt.disk
         /\ \/ bt'.cache = bt.cache \cup {NewRow(s, 1)} /\ NewRow(s, 1) \notin bt.cache /\ UNCHANGED vdbe
            \/ /\ bt'.cache = bt.cache \cup {NewRow(s, 2)} /\ NewRow(s, 1) \in bt.cache
               /\ vdbe' = [vdbe EXCEPT ![s].at = "halt", ![s].cursor = TRUE]
BY DEF Insert, IInv, Types, BtShared

-----------------------------------------------------------------------------
(* A query does not see its table change.                                  *)

Scans(s) == vdbe[s].cursor /\ vdbe[s].kind = "read" /\ Owner[s] \notin ReadUncommitted
Stays(s) == \A r \in Row : r[1] = vdbe[s].table => (r \in bt.cache <=> r \in bt'.cache)

LEMMA EndingScan ==
  ASSUME IInv, NEW c \in Conn, Ending(c), NEW q \in Stmt, Scans(q), vdbe'[q].cursor
  PROVE  Stays(q)
<1> USE DEF IInv
<1> SUFFICES ASSUME NEW r \in Row, r[1] = vdbe[q].table PROVE r \in bt.cache <=> r \in bt'.cache
  BY DEF Stays
<1>1. bt'.cache \subseteq bt.cache
  BY DEF Ending, Dirty
<1>2. ASSUME r \in bt.cache, r \notin bt'.cache PROVE FALSE
  <2>1. bt.inTrans[c] = WRITE /\ r \notin bt.disk
    BY <1>2 DEF Ending
  <2>2. bt.inTrans[Owner[q]] = WRITE
    BY <1>2, <2>1, CleanScan DEF Scans
  <2>3. QED
    BY <2>1, <2>2 DEF Ending, Summary
<1>3. QED
  BY <1>1, <1>2

LEMMA HaltedScan ==
  ASSUME IInv, NEW s \in Stmt, Active(s), Halted(s), NEW q \in Stmt, Scans(q), vdbe'[q].cursor
  PROVE  Stays(q)
<1>1. CASE Ending(Owner[s])
  BY <1>1, EndingScan
<1>2. CASE bt'.cache = bt.cache
  BY <1>2 DEF Stays
<1>3. CASE bt.inStmt /\ bt'.cache = bt.before
  <2> SUFFICES ASSUME NEW r \in Row, r[1] = vdbe[q].table PROVE r \in bt.cache <=> r \in bt.before
    BY <1>3 DEF Stays
  <2>1. bt.before \subseteq bt.cache /\ \A u \in bt.cache \ bt.before : NoReaders(u[1])
    BY <1>3 DEF IInv, Subtransaction
  <2>2. ~NoReaders(r[1])
    BY DEF NoReaders, Scans, Cursors
  <2>3. QED
    BY <2>1, <2>2
<1>4. QED
  BY <1>1, <1>2, <1>3, HaltedRows

LEMMA InsertScan ==
  ASSUME IInv, ~CountChanges, NEW s \in Stmt, Insert(s), NEW q \in Stmt, Scans(q)
  PROVE  Stays(q)
<1>1. PICK k \in {1, 2} : bt'.cache = bt.cache \cup {NewRow(s, k)}
  BY InsertRows
<1>2. NoReaders(vdbe[s].table)
  BY DEF Insert, IInv, Writing
<1>3. vdbe[s].table # vdbe[q].table
  BY <1>2 DEF NoReaders, Scans, Cursors
<1>4. QED
  BY <1>1, <1>3 DEF Stays, NewRow

\* checkReadLocks() and the table locks: while a query of a connection without
\* SQLITE_ReadUncommitted has its cursor on a table, no step of any statement,
\* not even of the same connection, puts a row into the table or takes one away.
THEOREM ConnectionStableScan == ASSUME ~CountChanges, ~BusyOnReset PROVE Spec => StableScan
<1> DEFINE A == \A s \in Stmt :
                  /\ vdbe[s].cursor /\ vdbe[s].kind = "read" /\ Owner[s] \notin ReadUncommitted
                  /\ vdbe'[s].cursor
                  => \A r \in Row : r[1] = vdbe[s].table => (r \in bt.cache <=> r \in bt'.cache)
<1>1. IInv /\ [Next]_vars => [A]_vars
  <2> SUFFICES ASSUME IInv, Next, NEW q \in Stmt, Scans(q), vdbe'[q].cursor PROVE Stays(q)
    BY DEF Scans, Stays
  <2>1. CASE bt'.cache = bt.cache
    BY <2>1 DEF Stays
  <2>2. ASSUME NEW s \in Stmt, Insert(s) PROVE Stays(q)
    BY <2>2, InsertScan
  <2>3. ASSUME NEW s \in Stmt, Halt(s) \/ Reset(s) PROVE Stays(q)
    <3>1. Active(s) /\ Halted(s)
      BY <2>3 DEF Halt, Reset, Active, Suspended
    <3>2. QED
      BY <3>1, HaltedScan
  <2>4. ASSUME NEW s \in Stmt, Rollback(s) PROVE Stays(q)
    BY <2>1, <2>4, RollbackRows, EndingScan
  <2>5. ASSUME NEW c \in Conn, Close(c) PROVE Stays(q)
    BY <2>5, CloseRows, EndingScan
  <2>6. ASSUME NEW s \in Stmt,
               \/ Start(s) \/ Retry(s) \/ Step(s) \/ Transaction(s) \/ TransactionBusy(s)
               \/ TableLock(s) \/ Open(s) \/ ResultRow(s) \/ InsertFails(s) \/ HaltBusy(s)
               \/ Begin(s) \/ Commit(s)
        PROVE  Stays(q)
    BY <2>1, <2>6, SameRows, TransactionRows, CommitRows
  <2>7. ASSUME NEW c \in Conn, Reopen(c) PROVE Stays(q)
    BY <2>1, <2>7 DEF Reopen, IInv, Types, BtShared
  <2>8. QED
    BY <2>2, <2>3, <2>4, <2>5, <2>6, <2>7 DEF Next
<1>2. QED
  BY <1>1, IInvHolds, PTL DEF Spec, StableScan

-----------------------------------------------------------------------------
(* A write statement that fails leaves none of its rows.                   *)

\* A step moves one statement: it starts it, ends it or keeps what it does.
LEMMA HaltedMoves ==
  ASSUME IInv, NEW s \in Stmt, Active(s), Halted(s)
  PROVE  /\ \A q \in Stmt \ {s} : SameStatement(q) /\ vdbe'[q].at = vdbe[q].at
         /\ vdbe'[s] = Idle
<1>1. vdbe' = AbortOthers([vdbe EXCEPT ![s] = Idle], s) \/ vdbe' = [vdbe EXCEPT ![s] = Idle]
  BY DEF Halted
<1>2. QED
  BY <1>1, OthersAborted, Idles DEF SameStatement, IInv

LEMMA OtherMoves ==
  ASSUME IInv, ~CountChanges, NEW s \in Stmt,
         \/ Retry(s) \/ Step(s) \/ Transaction(s) \/ TransactionBusy(s) \/ TableLock(s) \/ Open(s)
         \/ ResultRow(s) \/ Insert(s) \/ InsertFails(s) \/ HaltBusy(s) \/ Rollback(s)
         \/ Begin(s) \/ Commit(s)
  PROVE  /\ \A q \in Stmt \ {s} : vdbe'[q] = vdbe[q]
         /\ Active(s) /\ thread \in {s, NoStmt} /\ thread' \in {s, NoStmt}
         /\ \/ SameStatement(s) /\ vdbe'[s].at # "idle"
            \/ vdbe'[s] = Idle /\ vdbe[s].kind # "write"
<1> USE DEF IInv
<1>1. Active(s) /\ thread \in {s, NoStmt} /\ thread' \in {s, NoStmt}
  BY DEF Retry, Step, Transaction, TransactionBusy, TableLock, Open, ResultRow, Insert, InsertFails,
         HaltBusy, Rollback, Begin, Commit, Active, Running, Free
<1>2. ASSUME NEW at \in Runs \cup Suspended, vdbe' = Goto(s, at)
      PROVE  (\A q \in Stmt \ {s} : vdbe'[q] = vdbe[q]) /\ SameStatement(s) /\ vdbe'[s].at # "idle"
  BY <1>2, Goes DEF Runs, Suspended
<1>3. ASSUME NEW code \in ResultCode, vdbe' = Fails(s, code)
      PROVE  (\A q \in Stmt \ {s} : vdbe'[q] = vdbe[q]) /\ SameStatement(s) /\ vdbe'[s].at # "idle"
  BY <1>3, FailsGoes
<1>4. CASE \/ Retry(s) \/ Transaction(s) \/ TransactionBusy(s) \/ ResultRow(s)
  <2>1. \E at \in Runs \cup Suspended : vdbe' = Goto(s, at)
    BY <1>4 DEF Retry, Transaction, TransactionBusy, ResultRow, Runs, Suspended
  <2>2. QED
    BY <1>1, <1>2, <2>1
<1>5. CASE Step(s) \/ TableLock(s) \/ Rollback(s)
  <2>1. \/ \E at \in Runs \cup Suspended : vdbe' = Goto(s, at)
        \/ \E code \in ResultCode : vdbe' = Fails(s, code)
    BY <1>5 DEF Step, TableLock, Rollback, Runs, Suspended, ResultCode
  <2>2. QED
    BY <1>1, <1>2, <1>3, <2>1
<1>6. CASE Begin(s) \/ Commit(s)
  <2>1. /\ \/ \E at \in Runs \cup Suspended : vdbe' = Goto(s, at)
           \/ \E code \in ResultCode : vdbe' = Fails(s, code)
           \/ vdbe' = [vdbe EXCEPT ![s] = Idle]
        /\ vdbe[s].kind # "write"
    BY <1>6 DEF Begin, Commit, Suspended, ResultCode
  <2>2. QED
    BY <1>1, <1>2, <1>3, <2>1, Idles
<1>7. CASE Open(s)
  <2>1. ~vdbe[s].cursor /\ vdbe[s].kind \in {"read", "write"}
    BY <1>7 DEF Open, Control, Where
  <2>2. QED
    BY <1>1, <1>7, <2>1, OpenMoves
<1>8. CASE Insert(s) \/ InsertFails(s) \/ HaltBusy(s)
  BY <1>1, <1>8, InsertMoves, InsertFailsMoves, HaltBusyMoves
<1>9. QED
  BY <1>4, <1>5, <1>6, <1>7, <1>8

\* Rows that go, go with all of the statement's rows.
LEMMA RowsGo ==
  ASSUME IInv, Undoable, NEW q \in Stmt, Active(q), vdbe[q].kind = "write", SameStatement(q),
         \/ bt'.cache = bt.cache
         \/ bt'.cache = bt.disk
         \/ (bt.inStmt /\ thread # q /\ bt'.cache = bt.before),
         NEW r \in bt'.cache, r[2] = vdbe[q].id
  PROVE  NewRow(q, 1)' \in bt'.cache
<1> USE DEF IInv
<1>1. NewRow(q, 1)' = NewRow(q, 1) /\ NewRow(q, 1)[2] = vdbe[q].id
  BY DEF NewRow, SameStatement
<1>2. r \notin bt.disk
  BY DEF Ids
<1>3. r \in bt.cache
  BY <1>2 DEF Subtransaction
<1>4. NewRow(q, 1) \in bt.cache
  BY <1>3 DEF Undoable
<1>5. CASE bt.inStmt /\ thread # q /\ bt'.cache = bt.before
  <2>1. thread \in Stmt /\ vdbe[thread].kind = "write" /\ Active(thread)
    BY <1>5 DEF Subtransaction, Active
  <2>2. vdbe[thread].id # vdbe[q].id
    BY <1>5, <2>1 DEF Ids
  <2>3. \A u \in bt.cache \ bt.before : u[2] = vdbe[thread].id
    BY <1>5 DEF Subtransaction
  <2>4. QED
    BY <1>1, <1>4, <1>5, <2>2, <2>3
<1>6. QED
  BY <1>1, <1>2, <1>4, <1>5

\* The step that brings a write statement with rows to sqlite3VdbeHalt().
LEMMA FailsUndoable ==
  ASSUME IInv, Undoable, ~CountChanges, ~FailsBesideOthers, NEW s \in Stmt,
         \/ Retry(s) \/ Step(s) \/ Transaction(s) \/ TransactionBusy(s) \/ TableLock(s) \/ Open(s)
         \/ ResultRow(s) \/ Insert(s) \/ InsertFails(s) \/ HaltBusy(s) \/ Rollback(s)
         \/ Begin(s) \/ Commit(s),
         vdbe[s].kind = "write", NEW r \in bt.cache, r[2] = vdbe[s].id,
         vdbe'[s].at = "halt", vdbe'[s].rc # "ok", vdbe'[s].errorAction # "fail"
  PROVE  LastActive(s)' \/ bt'.inStmt
<1> USE DEF IInv, Running, Free
<1>1. Active(s) /\ Where(s)
  BY OtherMoves DEF Control
<1>2. vdbe[s].at \in {"go", "halt", "busyHalt"}
  BY <1>1 DEF Ids
<1>3. CASE Retry(s)
  <2>1. vdbe' = Goto(s, "halt") /\ vdbe[s].at = "busyHalt"
    BY <1>2, <1>3 DEF Retry
  <2>2. vdbe'[s].rc = vdbe[s].rc /\ vdbe'[s].errorAction = vdbe[s].errorAction
    BY <2>1, Goes DEF Runs
  <2>3. QED
    BY <1>1, <2>1, <2>2 DEF Where
<1>4. CASE Insert(s)
  <2>1. vdbe[s].at = "go" /\ vdbe'[s].rc = vdbe[s].rc
    BY <1>4, InsertMoves DEF Insert
  <2>2. QED
    BY <1>1, <2>1 DEF Where
<1>5. CASE InsertFails(s)
  <2>1. /\ vdbe[s].at = "go" /\ UNCHANGED <<bt, autoCommit, activeVdbeCnt>>
        /\ ~(autoCommit[Owner[s]] /\ NewRow(s, 1) \in bt.cache /\ activeVdbeCnt[Owner[s]] > 1)
    BY <1>5 DEF InsertFails
  <2>2. NewRow(s, 1) \in bt.cache
    BY <1>1 DEF Undoable
  <2>3. ~autoCommit[Owner[s]] => bt.inStmt
    BY <2>1 DEF Writing
  <2>4. activeVdbeCnt[Owner[s]] \in Int /\ activeVdbeCnt[Owner[s]] >= 1
    <3>1. s \in ActiveOf(Owner[s])
      BY <1>1 DEF ActiveOf
    <3>2. activeVdbeCnt[Owner[s]] # 0 /\ activeVdbeCnt[Owner[s]] \in Nat
      BY <3>1, Finitely, FS_EmptySet DEF Counts
    <3>3. QED
      BY <3>2
  <2>5. QED
    BY <2>1, <2>2, <2>3, <2>4 DEF LastActive
<1>6. CASE \/ Step(s) \/ Transaction(s) \/ TransactionBusy(s) \/ TableLock(s) \/ Open(s)
           \/ ResultRow(s) \/ Rollback(s) \/ Begin(s) \/ Commit(s)
  BY <1>2, <1>6 DEF Step, Transaction, TransactionBusy, TableLock, Open, ResultRow, Rollback, Begin,
                    Commit
<1>7. CASE HaltBusy(s)
  BY <1>7, HaltBusyMoves
<1>8. QED
  BY <1>3, <1>4, <1>5, <1>6, <1>7

LEMMA OtherUndoable ==
  ASSUME IInv, IInv', Undoable, ~CountChanges, ~FailsBesideOthers, NEW s \in Stmt,
         \/ Retry(s) \/ Step(s) \/ Transaction(s) \/ TransactionBusy(s) \/ TableLock(s) \/ Open(s)
         \/ ResultRow(s) \/ Insert(s) \/ InsertFails(s) \/ HaltBusy(s) \/ Rollback(s)
         \/ Begin(s) \/ Commit(s)
  PROVE  Undoable'
<1> SUFFICES ASSUME NEW q \in Stmt, Active(q)', vdbe'[q].kind = "write",
                    NEW r \in bt'.cache, r[2] = vdbe'[q].id
             PROVE  /\ NewRow(q, 1)' \in bt'.cache
                    /\ vdbe'[q].at = "halt" /\ vdbe'[q].rc # "ok" /\ vdbe'[q].errorAction # "fail"
                           => LastActive(q)' \/ bt'.inStmt
  BY DEF Undoable
<1>1. Active(q) /\ SameStatement(q) /\ vdbe[q].kind = "write"
  <2>1. CASE q = s
    BY <2>1, OtherMoves, IdleIs DEF Active, SameStatement
  <2>2. CASE q # s
    BY <2>2, OtherMoves DEF Active, SameStatement
  <2>3. QED
    BY <2>1, <2>2
<1>2. CASE ~Insert(s)
  <2>1. \/ bt'.cache = bt.cache
        \/ bt'.cache = bt.disk
    BY <1>2, SameRows, TransactionRows, CommitRows, RollbackRows DEF Ending
  <2>2. NewRow(q, 1)' \in bt'.cache
    BY <1>1, <2>1, RowsGo DEF SameStatement
  <2>3. r \in bt.cache
    BY <2>1 DEF IInv, Dirty
  <2>4. vdbe'[q].at = "halt" => q = s
    BY OtherMoves DEF IInv, Control, Where, Runs
  <2>5. QED
    BY <1>1, <2>2, <2>3, <2>4, FailsUndoable DEF SameStatement
<1>3. CASE Insert(s)
  <2>1. \E k \in {1, 2} : bt'.cache = bt.cache \cup {NewRow(s, k)} /\ NewRow(s, 1) \in bt'.cache
    BY <1>3, InsertRows
  <2>2. NewRow(q, 1)' = NewRow(q, 1)
    BY <1>1 DEF NewRow, SameStatement
  <2>3. vdbe'[q].at = "halt" => q = s
    BY OtherMoves DEF IInv, Control, Where, Runs
  <2>4. CASE q = s
    <3>1. vdbe'[s].rc = vdbe[s].rc /\ vdbe[s].at = "go" /\ Where(s)
      BY <1>3, InsertMoves DEF Insert, IInv, Control
    <3>2. QED
      BY <2>1, <2>2, <2>4, <3>1 DEF Where
  <2>5. CASE q # s
    <3>1. vdbe[q].id # vdbe[s].id
      BY <1>1, <1>3, <2>5 DEF IInv, Ids, Insert, Active
    <3>2. r \in bt.cache /\ r[2] = vdbe[q].id
      BY <1>1, <2>1, <3>1 DEF NewRow, SameStatement
    <3>3. QED
      BY <1>1, <2>1, <2>2, <2>3, <2>5, <3>2 DEF Undoable
  <2>6. QED
    BY <2>4, <2>5
<1>4. QED
  BY <1>2, <1>3

LEMMA StartUndoable ==
  ASSUME IInv, IInv', Undoable, NEW s \in Stmt, Start(s) PROVE Undoable'
<1>1. UNCHANGED bt
  BY DEF Start
<1>2. /\ vdbe'[s].at # "halt" /\ \A q \in Stmt \ {s} : vdbe'[q] = vdbe[q]
      /\ vdbe'[s].kind = "write" => vdbe'[s].id = nWrite + 1
  BY DEF Start, IInv, Types, Idle
<1>3. \A q \in Stmt \ {s} : ~(vdbe[q].at = "halt")
  BY DEF Start, Free, IInv, Control, Where, Runs
<1>4. \A r \in bt.cache : r[2] # nWrite + 1
  BY DEF IInv, Ids, Types, BtShared, Row
<1>5. QED
  BY <1>1, <1>2, <1>3, <1>4 DEF Undoable, NewRow, Active

LEMMA HaltedUndoable ==
  ASSUME IInv, IInv', Undoable, NEW s \in Stmt, Active(s), thread \in {s, NoStmt}, Halted(s)
  PROVE  Undoable'
<1> SUFFICES ASSUME NEW q \in Stmt, Active(q)', vdbe'[q].kind = "write",
                    NEW r \in bt'.cache, r[2] = vdbe'[q].id
             PROVE  NewRow(q, 1)' \in bt'.cache /\ vdbe'[q].at # "halt"
  BY DEF Undoable
<1>1. q # s /\ Active(q) /\ SameStatement(q) /\ vdbe[q].kind = "write"
  BY HaltedMoves, IdleIs DEF Active, SameStatement
<1>2. vdbe'[q].at # "halt"
  BY HaltedRows DEF IInv, Control, Where, Runs
<1>3. \/ bt'.cache = bt.cache \/ bt'.cache = bt.disk
      \/ bt.inStmt /\ thread # q /\ bt'.cache = bt.before
  BY <1>1, HaltedRows DEF Ending
<1>4. QED
  BY <1>1, <1>2, <1>3, RowsGo DEF SameStatement

LEMMA CloseUndoable ==
  ASSUME IInv, Undoable, NEW c \in Conn, Close(c) PROVE Undoable'
<1>1. UNCHANGED vdbe /\ thread = NoStmt
  BY DEF Close, Free
<1>2. bt'.cache = bt.cache \/ bt'.cache = bt.disk
  BY CloseRows DEF Ending
<1>3. \A q \in Stmt : vdbe[q].at # "halt"
  BY <1>1 DEF IInv, Control, Where, Runs
<1>4. \A q \in Stmt : SameStatement(q) /\ Active(q)' = Active(q)
  BY <1>1 DEF SameStatement, Active
<1>5. QED
  BY <1>1, <1>2, <1>3, <1>4, RowsGo DEF Undoable

LEMMA NextUndoable ==
  ASSUME ~CountChanges, ~BusyOnReset, ~FailsBesideOthers, IInv, Undoable, [Next]_vars
  PROVE  IInv' /\ Undoable'
<1>1. IInv'
  BY NextIInv
<1>2. ASSUME NEW s \in Stmt, Halt(s) \/ Reset(s) PROVE Undoable'
  <2>1. Halted(s) /\ Active(s) /\ thread \in {s, NoStmt}
    BY <1>2 DEF Halt, Reset, Active, Suspended, Running, Free
  <2>2. QED
    BY <1>1, <2>1, HaltedUndoable
<1>3. ASSUME NEW c \in Conn, Reopen(c) PROVE Undoable'
  <2>1. bt'.cache = bt.cache /\ bt'.inStmt = bt.inStmt /\ UNCHANGED <<autoCommit, activeVdbeCnt, vdbe>>
    BY <1>3 DEF Reopen, IInv, Types, BtShared
  <2>2. QED
    BY <2>1 DEF Undoable, LastActive, NewRow, Active
<1>4. ASSUME UNCHANGED vars PROVE Undoable'
  <2>1. UNCHANGED <<bt, autoCommit, activeVdbeCnt, vdbe>>
    BY <1>4 DEF vars
  <2>2. QED
    BY <2>1 DEF Undoable, LastActive, NewRow, Active
<1>5. QED
  BY <1>1, <1>2, <1>3, <1>4, StartUndoable, OtherUndoable, CloseUndoable DEF Next

LEMMA FailedHalt ==
  ASSUME IInv, Undoable, ~BusyOnReset, ~FailsBesideOthers, NEW s \in Stmt, Halt(s) \/ Reset(s),
         vdbe[s].kind = "write",
         \/ vdbe[s].rc # "ok" /\ vdbe[s].errorAction # "fail"
         \/ vdbe[s].at = "busyHalt" /\ vdbe[s].errorAction # "fail",
         NEW r \in bt'.cache
  PROVE  r[2] # vdbe[s].id
<1> USE DEF IInv
<1>1. Halted(s) /\ Active(s) /\ thread \in {s, NoStmt}
  BY DEF Halt, Reset, Active, Suspended, Running, Free
<1>2. ~Succeeds(s) /\ Decision(s) \in {"rollback", "rollbackStmt"}
      /\ (Decision(s) = "rollbackStmt" => ~LastActive(s))
  BY DEF Decision, Succeeds, Busy, SpecialError
<1>3. \A u \in bt.disk : u[2] # vdbe[s].id
  BY <1>1 DEF Ids
<1>4. CASE Ending(Owner[s])
  BY <1>1, <1>3, <1>4 DEF Ending, Ids
<1>5. CASE bt.inStmt /\ bt'.cache = bt.before
  BY <1>1, <1>5 DEF Subtransaction
<1>6. CASE ~bt.inStmt /\ bt'.cache = bt.cache /\ ~LastActive(s)
  <2> SUFFICES ASSUME r[2] = vdbe[s].id PROVE FALSE
    OBVIOUS
  <2>1. vdbe[s].at \in {"go", "halt", "busyHalt"}
    BY <1>1, <1>6 DEF Ids
  <2>2. CASE vdbe[s].at = "halt"
    BY <1>1, <1>6, <2>2 DEF Undoable
  <2>3. CASE vdbe[s].at = "busyHalt"
    BY <1>6, <2>3 DEF Halt, Reset
  <2>4. QED
    BY <2>1, <2>2, <2>3 DEF Halt, Reset, Suspended
<1>7. QED
  BY <1>1, <1>2, <1>4, <1>5, <1>6, HaltedRows

\* OP_Statement: a write statement that ends with an error, under any policy
\* but OR FAIL, leaves none of its rows; it is rolled back by its own
\* subtransaction or, the last of its connection in autocommit mode, by the
\* rollback of everything.
THEOREM ConnectionFailedLeavesNothing ==
  ASSUME ~CountChanges, ~BusyOnReset, ~FailsBesideOthers PROVE Spec => FailedLeavesNothing
<1> DEFINE A == \A s \in Stmt :
                  /\ Active(s) /\ vdbe'[s].at = "idle" /\ vdbe[s].kind = "write"
                  /\ \/ vdbe[s].rc # "ok" /\ vdbe[s].errorAction # "fail"
                     \/ vdbe[s].at = "busyHalt" /\ vdbe[s].errorAction # "fail"
                  => \A r \in bt'.cache : r[2] # vdbe[s].id
<1>1. IInv /\ Undoable /\ [Next]_vars => [A]_vars
  <2> SUFFICES ASSUME IInv, Undoable, Next, NEW s \in Stmt, Active(s), vdbe'[s].at = "idle",
                      vdbe[s].kind = "write",
                      \/ vdbe[s].rc # "ok" /\ vdbe[s].errorAction # "fail"
                      \/ vdbe[s].at = "busyHalt" /\ vdbe[s].errorAction # "fail"
               PROVE  \A r \in bt'.cache : r[2] # vdbe[s].id
    OBVIOUS
  <2>1. Halt(s) \/ Reset(s)
    <3>1. ASSUME NEW c \in Conn, Close(c) \/ Reopen(c) PROVE FALSE
      BY <3>1 DEF Close, Reopen, Active
    <3>2. ASSUME NEW q \in Stmt, Start(q) PROVE FALSE
      BY <3>2 DEF Start, Active, IInv, Types, Idle
    <3>3. ASSUME NEW q \in Stmt,
                 \/ Retry(q) \/ Step(q) \/ Transaction(q) \/ TransactionBusy(q) \/ TableLock(q)
                 \/ Open(q) \/ ResultRow(q) \/ Insert(q) \/ InsertFails(q) \/ HaltBusy(q)
                 \/ Rollback(q) \/ Begin(q) \/ Commit(q)
          PROVE  FALSE
      <4>1. q = s
        BY <3>3, OtherMoves DEF Active
      <4>2. QED
        BY <3>3, <4>1, OtherMoves
    <3>4. ASSUME NEW q \in Stmt, Halt(q) \/ Reset(q) PROVE q = s
      <4>1. Halted(q) /\ Active(q)
        BY <3>4 DEF Halt, Reset, Active, Suspended
      <4>2. QED
        BY <4>1, HaltedMoves DEF Active
    <3>5. QED
      BY <3>1, <3>2, <3>3, <3>4 DEF Next
  <2>2. QED
    BY <2>1, FailedHalt
<1>2. Init => Undoable
  BY DEF Init, Undoable
<1>3. QED
  BY <1>1, <1>2, InitIInv, NextUndoable, PTL DEF Spec, FailedLeavesNothing

-----------------------------------------------------------------------------
(* The connections implement SqlStore.                                     *)

LEMMA NextOpened ==
  ASSUME ~CountChanges, ~BusyOnReset, IInv, Opened, [Next]_vars
  PROVE  IInv' /\ Opened'
<1> USE DEF Running, Free
<1>1. IInv'
  BY NextIInv
<1>2. SUFFICES ASSUME Next PROVE Opened'
  <2>1. UNCHANGED vars => Opened'
    BY DEF Opened, vars
  <2>2. QED
    BY <1>1, <2>1
<1>3. thread' \notin Stmt => Opened'
  BY <1>1 DEF IInv, Control, Where, Runs, Opened, Subtransaction
<1>4. ASSUME NEW s \in Stmt, thread' = s, vdbe'[s].at # "go", bt'.inStmt => bt'.cache = bt'.before
      PROVE  Opened'
  BY <1>1, <1>4 DEF IInv, Control, Where, Runs, Opened
<1>5. ASSUME NEW s \in Stmt, thread' = s, vdbe'[s].cursor PROVE Opened'
  BY <1>1, <1>5 DEF IInv, Control, Where, Runs, Opened
<1>6. thread = NoStmt \/ (thread \in Stmt /\ vdbe[thread].at \notin {"go", "halt"}) => ~bt.inStmt
  BY DEF IInv, Subtransaction
<1>7. thread' \in Stmt /\ vdbe'[thread'].at \notin {"go", "halt"} => ~bt'.inStmt
  BY <1>1 DEF IInv, Subtransaction
<1>8. ASSUME NEW s \in Stmt, Start(s) \/ Transaction(s) PROVE Opened'
  <2>1. CASE Start(s)
    <3>1. thread' = s /\ vdbe'[s].at \notin {"go", "halt"}
      BY <2>1 DEF Start, IInv, Types, Idle
    <3>2. QED
      BY <1>4, <1>7, <3>1
  <2>2. CASE Transaction(s)
    <3>1. PICK at \in {"autocommit", "lock"} : vdbe' = Goto(s, at)
      BY <2>2 DEF Transaction
    <3>2. thread' = s /\ vdbe'[s].at \notin {"go", "halt"}
      BY <2>2, <3>1, Goes DEF Transaction, IInv, Runs
    <3>3. QED
      BY <1>4, <1>7, <3>2
  <2>3. QED
    BY <1>8, <2>1, <2>2
<1>9. ASSUME NEW s \in Stmt, Retry(s) \/ Step(s) PROVE Opened'
  <2>1. \/ \E at \in {"transaction", "autocommit", "halt"} : vdbe' = Goto(s, at)
        \/ \E code \in ResultCode : vdbe' = Fails(s, code)
    BY <1>9 DEF Retry, Step
  <2>2. vdbe'[s].at # "go"
    BY <2>1, Goes, FailsGoes DEF IInv, Runs
  <2>3. thread' = s /\ ~bt'.inStmt
    BY <1>6, <1>9 DEF Retry, Step
  <2>4. QED
    BY <1>4, <2>2, <2>3
<1>10. ASSUME NEW s \in Stmt, TableLock(s) PROVE Opened'
  <2>1. \/ vdbe' = Goto(s, "open")
        \/ vdbe' = Fails(s, "error")
    BY <1>10 DEF TableLock
  <2>2. vdbe'[s].at # "go"
    BY <2>1, Goes, FailsGoes DEF IInv, Runs, ResultCode
  <2>3. thread' = s /\ ~bt.inStmt
    BY <1>6, <1>10 DEF TableLock
  <2>4. bt'.inStmt = bt.inStmt
    BY <1>10 DEF TableLock, Locked, IInv, Types, BtShared
  <2>5. QED
    BY <1>4, <2>2, <2>3, <2>4
<1>11. ASSUME NEW s \in Stmt, Open(s) PROVE Opened'
  <2>1. thread' = s /\ ~bt.inStmt /\ ~vdbe[s].cursor /\ vdbe[s].kind \in {"read", "write"}
    BY <1>6, <1>11 DEF Open, IInv, Control, Where
  <2>2. vdbe'[s].cursor \/ vdbe'[s].at # "go"
    BY <1>11, <2>1, OpenMoves DEF IInv
  <2>3. bt'.inStmt => bt'.cache = bt'.before
    BY <1>11, <2>1 DEF Open, StmtBegun, IInv, Types, BtShared
  <2>4. QED
    BY <1>4, <1>5, <2>1, <2>2, <2>3
<1>12. ASSUME NEW s \in Stmt, Insert(s) PROVE Opened'
  <2>1. vdbe[s].cursor /\ thread = s
    BY <1>12 DEF Insert, Opened
  <2>2. vdbe'[s].cursor
    BY <1>12, <2>1, InsertMoves DEF IInv
  <2>3. thread' = s
    BY <1>12, <2>1 DEF Insert
  <2>4. QED
    BY <1>5, <2>2, <2>3
<1>13. ASSUME NEW s \in Stmt, InsertFails(s) PROVE Opened'
  <2>1. vdbe[s].cursor /\ thread' = s
    BY <1>13 DEF InsertFails, Opened
  <2>2. QED
    BY <1>5, <1>13, <2>1, InsertFailsMoves DEF IInv
<1>14. ASSUME NEW s \in Stmt, Begin(s) \/ Commit(s) \/ Rollback(s) PROVE Opened'
  <2>1. CASE thread' = thread
    <3>1. vdbe' = Fails(s, "error") /\ UNCHANGED bt /\ thread = s /\ vdbe[s].at = "autocommit"
      BY <1>14, <2>1 DEF Begin, Commit, Rollback
    <3>2. vdbe'[s].at # "go" /\ ~bt'.inStmt
      BY <1>6, <3>1, FailsGoes DEF IInv, ResultCode
    <3>3. QED
      BY <1>4, <2>1, <3>1, <3>2
  <2>2. CASE thread' = NoStmt
    BY <1>3, <2>2
  <2>3. QED
    BY <1>14, <2>1, <2>2 DEF Begin, Commit, Rollback
<1>15. ASSUME NEW s \in Stmt,
              TransactionBusy(s) \/ ResultRow(s) \/ Halt(s) \/ HaltBusy(s) \/ Reset(s)
       PROVE  Opened'
  BY <1>3, <1>15 DEF TransactionBusy, ResultRow, Halt, HaltBusy, Reset, Halted
<1>16. ASSUME NEW c \in Conn, Close(c) \/ Reopen(c) PROVE Opened'
  BY <1>3, <1>16 DEF Close, Reopen
<1>17. QED
  BY <1>2, <1>8, <1>9, <1>10, <1>11, <1>12, <1>13, <1>14, <1>15, <1>16 DEF Next

\* The mapped state.
Working == {r \in bt.cache : r[2] \notin InProgress}
Putting == thread \in Stmt /\ vdbe[thread].kind = "write" /\ vdbe[thread].cursor

LEMMA WorkingIs ==
  ASSUME IInv
  PROVE  Working = IF Putting THEN {r \in bt.cache : r[2] # vdbe[thread].id} ELSE bt.cache
<1>1. InProgress = IF Putting THEN {vdbe[thread].id} ELSE {}
  <2>1. \A q \in Stmt : vdbe[q].cursor /\ vdbe[q].kind = "write" => q = thread
    BY DEF IInv, Control, Where, Runs
  <2>2. QED
    BY <2>1 DEF InProgress, Cursors, Putting
<1>2. QED
  BY <1>1 DEF Working

LEMMA WriterIs ==
  ASSUME IInv
  PROVE  /\ \A c \in Conn : Writer = c <=> bt.inTrans[c] = WRITE
         /\ Writer = NoConn <=> \A c \in Conn : bt.inTrans[c] # WRITE
<1>1. CASE \E c \in Conn : bt.inTrans[c] = WRITE
  <2>1. PICK c \in Conn : bt.inTrans[c] = WRITE
    BY <1>1
  <2>2. Writer \in Conn /\ bt.inTrans[Writer] = WRITE
    BY <1>1 DEF Writer
  <2>3. QED
    BY <2>2 DEF IInv, Summary
<1>2. CASE ~\E c \in Conn : bt.inTrans[c] = WRITE
  BY <1>2 DEF Writer
<1>3. QED
  BY <1>1, <1>2

MapIs ==
    /\ Working = IF Putting THEN {r \in bt.cache : r[2] # vdbe[thread].id} ELSE bt.cache
    /\ \A c \in Conn : Writer = c <=> bt.inTrans[c] = WRITE
    /\ Writer = NoConn <=> \A c \in Conn : bt.inTrans[c] # WRITE
    /\ Working \subseteq Row
LEMMA MapIsNext == IInv' => MapIs'
<1>1. IInv => MapIs
  BY WorkingIs, WriterIs DEF Working, MapIs, IInv, Types, BtShared
<1>2. QED
  BY <1>1, PTL

LEMMA MapNext ==
  ASSUME IInv'
  PROVE  /\ Working' = IF Putting' THEN {r \in bt'.cache : r[2] # vdbe'[thread'].id} ELSE bt'.cache
         /\ \A c \in Conn : Writer' = c <=> bt'.inTrans[c] = WRITE
         /\ Writer' = NoConn <=> \A c \in Conn : bt'.inTrans[c] # WRITE
         /\ Working' \subseteq Row
BY MapIsNext DEF MapIs

\* The steps of SqlStore.
Still == bt'.disk = bt.disk /\ Working' = Working /\ Writer' = Writer
Executes(c) ==
    /\ Writer \in {NoConn, c} /\ Writer' = c /\ bt'.disk = bt.disk
    /\ Working \subseteq Working' /\ Working' \subseteq Row
Commits(c) ==
    /\ Writer = c /\ Writer' = NoConn /\ bt'.disk = Working'
    /\ Working \subseteq Working' /\ Working' \subseteq Row
RollsBack(c) == Writer = c /\ Writer' = NoConn /\ Working' = bt.disk /\ bt'.disk = bt.disk
Maps == Still \/ \E c \in Conn : Executes(c) \/ Commits(c) \/ RollsBack(c)

LEMMA StepsMap == Maps => [Store!Next]_(Store!storeVars)
<1>1. ASSUME NEW c \in Conn, Executes(c) PROVE Store!Execute(c)
  BY <1>1 DEF Executes, Store!Execute, Working
<1>2. ASSUME NEW c \in Conn, Commits(c) PROVE Store!Commit(c)
  BY <1>2 DEF Commits, Store!Commit, Working
<1>3. ASSUME NEW c \in Conn, RollsBack(c) PROVE Store!Rollback(c)
  BY <1>3 DEF RollsBack, Store!Rollback, Working
<1>4. Still => UNCHANGED Store!storeVars
  BY DEF Still, Store!storeVars, Working
<1>5. QED
  BY <1>1, <1>2, <1>3, <1>4 DEF Maps, Store!Next

\* A step after which no write statement has a cursor, the rows and the
\* writer being the same: a finished statement's rows join the working rows.
LEMMA JoinMaps ==
  ASSUME IInv, IInv', NEW s \in Stmt, Active(s), thread \in {s, NoStmt}, ~Putting',
         bt'.cache = bt.cache, bt'.disk = bt.disk, bt'.inTrans = bt.inTrans
  PROVE  Maps
<1>1. Writer' = Writer
  BY WriterIs, MapNext
<1>2. CASE bt.inTrans[Owner[s]] = WRITE
  <2>1. Executes(Owner[s])
    BY <1>1, <1>2, WriterIs, WorkingIs, MapNext DEF Executes
  <2>2. QED
    BY <2>1 DEF Maps
<1>3. CASE bt.inTrans[Owner[s]] # WRITE
  <2>1. Putting => thread = s /\ \A r \in bt.cache : r[2] # vdbe[s].id
    BY <1>3 DEF Putting, IInv, Ids
  <2>2. Working = bt.cache
    BY <2>1, WorkingIs
  <2>3. Still
    BY <1>1, <2>2, MapNext DEF Still
  <2>4. QED
    BY <2>3 DEF Maps
<1>4. QED
  BY <1>2, <1>3

\* The end of a transaction that did not write.
LEMMA ReaderMaps ==
  ASSUME IInv, IInv', NEW c \in Conn, bt.inTrans[c] # WRITE,
         Putting => Owner[thread] = c, ~Putting',
         bt'.inTrans = [bt.inTrans EXCEPT ![c] = NONE], bt'.cache = bt.cache, bt'.disk = bt.disk
  PROVE  Maps
<1>1. \A d \in Conn : bt'.inTrans[d] = WRITE <=> bt.inTrans[d] = WRITE
  BY DEF IInv, Types, BtShared
<1>2. Writer' = Writer
  <2>1. CASE Writer \in Conn
    BY <1>1, <2>1, WriterIs, MapNext
  <2>2. CASE Writer = NoConn
    BY <1>1, <2>2, WriterIs, MapNext
  <2>3. QED
    BY <2>1, <2>2 DEF Writer
<1>3. Putting => \A r \in bt.cache : r[2] # vdbe[thread].id
  BY DEF Putting, IInv, Ids, Control, Where, Active
<1>4. Still
  BY <1>2, <1>3, WorkingIs, MapNext DEF Still
<1>5. QED
  BY <1>4 DEF Maps

LEMMA EndingMaps ==
  ASSUME IInv, IInv', NEW c \in Conn, Ending(c), Putting => Owner[thread] = c, ~Putting'
  PROVE  Maps
<1>1. CASE bt.inTrans[c] = WRITE
  <2>1. \A d \in Conn : bt'.inTrans[d] # WRITE
    BY <1>1 DEF Ending, IInv, Types, BtShared, Summary
  <2>2. RollsBack(c)
    BY <1>1, <2>1, WriterIs, MapNext DEF Ending, RollsBack
  <2>3. QED
    BY <2>2 DEF Maps
<1>2. CASE bt.inTrans[c] # WRITE
  BY <1>2, ReaderMaps DEF Ending
<1>3. QED
  BY <1>1, <1>2

LEMMA CommittingMaps ==
  ASSUME IInv, IInv', NEW c \in Conn, Putting => Owner[thread] = c, ~Putting',
         bt'.inTrans = [bt.inTrans EXCEPT ![c] = NONE], bt'.cache = bt.cache,
         bt'.disk = IF bt.inTrans[c] = WRITE THEN bt.cache ELSE bt.disk
  PROVE  Maps
<1>1. CASE bt.inTrans[c] = WRITE
  <2>1. \A d \in Conn : bt'.inTrans[d] # WRITE
    BY <1>1 DEF IInv, Types, BtShared, Summary
  <2>2. Working \subseteq bt.cache
    BY DEF Working
  <2>3. Commits(c)
    BY <1>1, <2>1, <2>2, WriterIs, MapNext DEF Commits
  <2>4. QED
    BY <2>3 DEF Maps
<1>2. CASE bt.inTrans[c] # WRITE
  BY <1>2, ReaderMaps
<1>3. QED
  BY <1>1, <1>2

LEMMA HaltedMaps ==
  ASSUME IInv, IInv', Opened, NEW s \in Stmt, Active(s), thread \in {s, NoStmt}, Halted(s)
  PROVE  Maps
<1>1. ~Putting' /\ (Putting => Owner[thread] = Owner[s]) /\ Owner[s] \in Conn
  BY HaltedRows DEF Putting
<1>2. CASE Ending(Owner[s])
  BY <1>1, <1>2, EndingMaps
<1>3. CASE /\ bt'.cache = bt.cache
           /\ bt'.disk = IF bt.inTrans[Owner[s]] = WRITE THEN bt.cache ELSE bt.disk
           /\ bt'.inTrans = [bt.inTrans EXCEPT ![Owner[s]] = NONE]
  BY <1>1, <1>3, CommittingMaps
<1>4. CASE bt'.cache = bt.cache /\ bt'.disk = bt.disk /\ bt'.inTrans = bt.inTrans
  BY <1>1, <1>4, JoinMaps
<1>5. CASE bt.inStmt /\ bt'.cache = bt.before /\ bt'.disk = bt.disk /\ bt'.inTrans = bt.inTrans
  <2>1. /\ thread = s /\ bt.before \subseteq bt.cache /\ vdbe[s].kind = "write"
        /\ \A r \in bt.before : r[2] # vdbe[s].id
        /\ \A r \in bt.cache \ bt.before : r[2] = vdbe[s].id
    BY <1>5 DEF IInv, Subtransaction
  <2>2. Working = bt.before
    <3>1. CASE vdbe[s].cursor
      BY <2>1, <3>1, WorkingIs DEF Putting
    <3>2. CASE ~vdbe[s].cursor
      BY <1>5, <2>1, <3>2, WorkingIs DEF Putting, Opened
    <3>3. QED
      BY <3>1, <3>2
  <2>3. Working' = bt'.cache /\ Writer' = Writer
    BY <1>1, <1>5, WriterIs, MapNext
  <2>4. Still
    BY <1>5, <2>2, <2>3 DEF Still
  <2>5. QED
    BY <2>4 DEF Maps
<1>6. QED
  BY <1>2, <1>3, <1>4, <1>5, HaltedRows

\* Steps that leave the rows alone, and whose statement is not a write
\* statement with a cursor before or after.
LEMMA PlainMaps ==
  ASSUME IInv, IInv', ~Putting, ~Putting',
         bt'.cache = bt.cache, bt'.disk = bt.disk, bt'.inTrans = bt.inTrans
  PROVE  Maps
<1>1. Writer' = Writer
  <2>1. CASE Writer \in Conn
    BY <2>1, WriterIs, MapNext
  <2>2. CASE Writer = NoConn
    BY <2>2, WriterIs, MapNext
  <2>3. QED
    BY <2>1, <2>2 DEF Writer
<1>2. Still
  BY <1>1, WorkingIs, MapNext DEF Still
<1>3. QED
  BY <1>2 DEF Maps

LEMMA StartMaps ==
  ASSUME IInv, IInv', NEW s \in Stmt,
         Start(s) \/ Retry(s) \/ Step(s) \/ TransactionBusy(s) \/ TableLock(s) \/ ResultRow(s)
         \/ Begin(s)
  PROVE  Maps
<1>1. bt'.cache = bt.cache /\ bt'.disk = bt.disk /\ bt'.inTrans = bt.inTrans
  BY SameRows
<1>2. ~Putting
  <2>1. ASSUME thread = s, vdbe[s].at \in {"transaction", "lock", "autocommit"} \/ vdbe[s].kind = "read"
        PROVE  ~Putting
    BY <2>1 DEF Putting, IInv, Control, Where
  <2>2. QED
    BY <2>1 DEF Start, Retry, Step, TransactionBusy, TableLock, ResultRow, Begin, Putting, Free, Running
<1>3. ~Putting'
  <2>1. CASE Start(s)
    <3>1. \E k \in Kind, t \in Table, at \in {"transaction", "autocommit"}, id \in 0 .. MaxWrite + 1 :
             vdbe' = [vdbe EXCEPT ![s] = [Idle EXCEPT !.kind = k, !.table = t, !.at = at, !.id = id]]
      <4>1. \E k \in Kind, t \in Table :
               vdbe' = [vdbe EXCEPT ![s] =
                 [Idle EXCEPT !.kind = k, !.table = t,
                     !.at = IF k \in {"read", "write", "immediate"}
                              THEN "transaction" ELSE "autocommit",
                     !.id = IF k = "write" THEN nWrite + 1 ELSE 0]]
        BY <2>1 DEF Start
      <4>2. nWrite \in 0 .. MaxWrite
        BY DEF IInv, Types
      <4>3. nWrite + 1 \in 0 .. MaxWrite + 1 /\ 0 \in 0 .. MaxWrite + 1
        BY <4>2
      <4>4. QED
        BY <4>1, <4>3, Zenon
    <3>2. PICK k \in Kind, t \in Table, at \in {"transaction", "autocommit"}, id \in 0 .. MaxWrite + 1 :
             vdbe' = [vdbe EXCEPT ![s] = [Idle EXCEPT !.kind = k, !.table = t, !.at = at, !.id = id]]
      BY <3>1
    <3>3. vdbe'[s] = [Idle EXCEPT !.kind = k, !.table = t, !.at = at, !.id = id]
      BY <3>2 DEF IInv, Types
    <3>4. [Idle EXCEPT !.kind = k, !.table = t, !.at = at, !.id = id].cursor = FALSE
      BY DEF Idle
    <3>5. thread' = s
      BY <2>1 DEF Start
    <3>6. QED
      BY <3>3, <3>4, <3>5 DEF Putting
  <2>2. CASE Retry(s)
    <3>1. \E at \in {"transaction", "autocommit", "halt"} : vdbe' = Goto(s, at)
      BY <2>2 DEF Retry
    <3>2. thread' = s /\ ~vdbe[s].cursor
      BY <2>2 DEF Retry, IInv, Control, Where
    <3>3. QED
      BY <3>1, <3>2, Goes DEF Putting, IInv, Runs
  <2>3. CASE Step(s)
    <3>1. thread' = s /\ vdbe[s].kind = "read" /\ \E code \in ResultCode : vdbe' = Fails(s, code)
      BY <2>3 DEF Step, IInv, Control, Where
    <3>2. QED
      BY <3>1, FailsGoes DEF Putting, IInv, SameStatement
  <2>4. CASE TransactionBusy(s) \/ ResultRow(s)
    BY <2>4 DEF TransactionBusy, ResultRow, Putting
  <2>5. CASE TableLock(s)
    <3>1. thread' = s /\ ~vdbe[s].cursor /\ (vdbe' = Goto(s, "open") \/ vdbe' = Fails(s, "error"))
      BY <2>5 DEF TableLock, IInv, Control, Where, Running
    <3>2. QED
      BY <3>1, Goes, FailsGoes DEF Putting, IInv, Runs, ResultCode
  <2>6. CASE Begin(s)
    <3>1. thread' = NoStmt \/ (thread' = s /\ vdbe' = Fails(s, "error") /\ ~vdbe[s].cursor)
      <4>1. thread = s /\ Where(s) /\ vdbe[s].at = "autocommit"
        BY <2>6 DEF Begin, IInv, Control, Running
      <4>2. ~vdbe[s].cursor
        BY <4>1 DEF Where
      <4>3. QED
        BY <2>6, <4>1, <4>2 DEF Begin
    <3>2. QED
      BY <3>1, FailsGoes DEF Putting, IInv, ResultCode
  <2>7. QED
    BY <2>1, <2>2, <2>3, <2>4, <2>5, <2>6
<1>4. QED
  BY <1>1, <1>2, <1>3, PlainMaps

\* OP_Transaction of the first write of a transaction makes its connection
\* the owner.
LEMMA TransactionMaps == ASSUME IInv, IInv', NEW s \in Stmt, Transaction(s) PROVE Maps
<1> DEFINE c == Owner[s]
<1>1. ~Putting
  BY DEF Transaction, Running, Putting, IInv, Control, Where
<1>2. ~Putting'
  <2>1. PICK at \in {"autocommit", "lock"} : vdbe' = Goto(s, at)
    BY DEF Transaction
  <2>2. thread' = s /\ ~vdbe[s].cursor
    BY DEF Transaction, Running, IInv, Control, Where
  <2>3. QED
    BY <2>1, <2>2, Goes DEF Putting, IInv, Runs
<1>3. CASE bt'.inTrans = bt.inTrans
  BY <1>1, <1>2, <1>3, TransactionRows, PlainMaps
<1>4. CASE /\ bt'.inTrans = [bt.inTrans EXCEPT ![c] = Wanted(s)]
           /\ ~OtherWrites(bt, c, Wanted(s)) /\ bt.inTrans[c] < Wanted(s)
  <2>1. Working' = Working /\ bt'.disk = bt.disk /\ Working' \subseteq Row
    BY <1>1, <1>2, TransactionRows, WorkingIs, MapNext
  <2>2. CASE Wanted(s) = WRITE
    <3>1. \A d \in Conn : bt.inTrans[d] # WRITE
      BY <1>4, <2>2 DEF OtherWrites, IInv, Summary
    <3>2. bt'.inTrans[c] = WRITE
      BY <1>4, <2>2 DEF IInv, Types, BtShared
    <3>3. Executes(c)
      BY <2>1, <3>1, <3>2, WriterIs, MapNext DEF Executes
    <3>4. QED
      BY <3>3 DEF Maps
  <2>3. CASE Wanted(s) = READ
    <3>1. bt.inTrans[c] = NONE
      BY <1>4, <2>3, Levels DEF IInv, Types
    <3>2. \A d \in Conn : bt'.inTrans[d] = WRITE <=> bt.inTrans[d] = WRITE
      BY <1>4, <2>3, <3>1 DEF IInv, Types, BtShared
    <3>3. Writer' = Writer
      <4>1. CASE Writer \in Conn
        BY <3>2, <4>1, WriterIs, MapNext
      <4>2. CASE Writer = NoConn
        BY <3>2, <4>2, WriterIs, MapNext
      <4>3. QED
        BY <4>1, <4>2 DEF Writer
    <3>4. QED
      BY <2>1, <3>3 DEF Still, Maps
  <2>4. QED
    BY <2>2, <2>3 DEF Wanted
<1>5. QED
  BY <1>3, <1>4, TransactionRows

\* Until its cursor is closed, what a write statement puts does not count.
LEMMA OpenMaps == ASSUME IInv, IInv', NEW s \in Stmt, Open(s) PROVE Maps
<1>1. bt'.cache = bt.cache /\ bt'.disk = bt.disk /\ bt'.inTrans = bt.inTrans
  BY SameRows
<1>2. /\ thread = s /\ thread' = s /\ vdbe[s].at = "open" /\ ~vdbe[s].cursor /\ Active(s)
      /\ vdbe[s].kind \in {"read", "write"}
  BY DEF Open, Running, IInv, Control, Where, Active
<1>3. SameStatement(s)
  BY <1>2, OpenMoves DEF IInv
<1>4. vdbe[s].kind = "write" => \A r \in bt.cache : r[2] # vdbe[s].id
  BY <1>2 DEF IInv, Ids
<1>5. Working' = bt'.cache /\ Working = bt.cache
  <2>1. ~Putting /\ Working = bt.cache
    BY <1>2, WorkingIs DEF Putting
  <2>2. CASE Putting'
    <3>1. /\ Working' = {r \in bt'.cache : r[2] # vdbe'[s].id}
          /\ vdbe[s].kind = "write" /\ vdbe'[s].id = vdbe[s].id
      BY <1>2, <1>3, <2>2, MapNext DEF Putting, SameStatement
    <3>2. QED
      BY <1>1, <1>4, <2>1, <3>1
  <2>3. CASE ~Putting'
    BY <2>1, <2>3, MapNext
  <2>4. QED
    BY <2>1, <2>2, <2>3
<1>6. Writer' = Writer
  <2>1. CASE Writer \in Conn
    BY <1>1, <2>1, WriterIs, MapNext
  <2>2. CASE Writer = NoConn
    BY <1>1, <2>2, WriterIs, MapNext
  <2>3. QED
    BY <2>1, <2>2 DEF Writer
<1>7. QED
  BY <1>1, <1>5, <1>6 DEF Still, Maps

LEMMA PuttingMaps ==
  ASSUME IInv, IInv', Opened, ~CountChanges, NEW s \in Stmt, Insert(s) \/ InsertFails(s) PROVE Maps
<1>1. thread = s /\ thread' = s /\ vdbe[s].kind = "write" /\ vdbe[s].cursor
  BY DEF Insert, InsertFails, Running, Opened
<1>2. SameStatement(s) /\ vdbe'[s].cursor
  BY <1>1, InsertMoves, InsertFailsMoves DEF IInv
<1>3. /\ bt'.disk = bt.disk /\ bt'.inTrans = bt.inTrans
      /\ bt'.cache = bt.cache \/ \E k \in {1, 2} : bt'.cache = bt.cache \cup {NewRow(s, k)}
  BY SameRows, InsertRows
<1>4. Working' = Working
  <2>1. /\ Working = {r \in bt.cache : r[2] # vdbe[s].id}
        /\ Working' = {r \in bt'.cache : r[2] # vdbe[s].id}
    BY <1>1, <1>2, WorkingIs, MapNext DEF Putting, SameStatement
  <2>2. \A k \in {1, 2} : NewRow(s, k)[2] = vdbe[s].id
    BY DEF NewRow
  <2>3. QED
    BY <1>3, <2>1, <2>2
<1>5. Writer' = Writer
  <2>1. CASE Writer \in Conn
    BY <1>3, <2>1, WriterIs, MapNext
  <2>2. CASE Writer = NoConn
    BY <1>3, <2>2, WriterIs, MapNext
  <2>3. QED
    BY <2>1, <2>2 DEF Writer
<1>6. QED
  BY <1>3, <1>4, <1>5 DEF Still, Maps

LEMMA EndMaps ==
  ASSUME IInv, IInv', ~CountChanges, NEW s \in Stmt, Commit(s) \/ Rollback(s) PROVE Maps
<1>1. thread = s /\ vdbe[s].kind # "write" /\ Owner[s] \in Conn
  BY DEF Commit, Rollback, Running
<1>2. ~Putting
  BY <1>1 DEF Putting
<1>3. ~Putting'
  BY <1>1, OtherMoves, IdleIs DEF Putting, SameStatement
<1>4. CASE Commit(s)
  BY <1>1, <1>2, <1>3, <1>4, CommitRows, PlainMaps, CommittingMaps
<1>5. CASE Rollback(s)
  BY <1>1, <1>2, <1>3, <1>5, RollbackRows, PlainMaps, EndingMaps
<1>6. QED
  BY <1>4, <1>5

LEMMA NextMaps ==
  ASSUME ~CountChanges, ~BusyOnReset, IInv, IInv', Opened, [Next]_vars PROVE Maps
<1>1. ASSUME NEW s \in Stmt, Halt(s) \/ Reset(s) PROVE Maps
  <2>1. Halted(s) /\ Active(s) /\ thread \in {s, NoStmt}
    BY <1>1 DEF Halt, Reset, Active, Suspended, Running, Free
  <2>2. QED
    BY <2>1, HaltedMaps
<1>2. ASSUME NEW s \in Stmt, HaltBusy(s) PROVE Maps
  <2>1. Active(s) /\ thread = s /\ ~Putting'
    BY <1>2 DEF HaltBusy, Active, Running, Putting
  <2>2. QED
    BY <1>2, <2>1, SameRows, JoinMaps
<1>3. ASSUME NEW c \in Conn, Close(c) \/ Reopen(c) PROVE Maps
  <2>1. ~Putting /\ ~Putting'
    BY <1>3 DEF Close, Reopen, Free, Putting
  <2>2. CASE Close(c)
    BY <2>1, <2>2, CloseRows, EndingMaps DEF Putting
  <2>3. CASE Reopen(c)
    <3>1. bt'.cache = bt.cache /\ bt'.disk = bt.disk /\ bt'.inTrans = bt.inTrans
      BY <2>3 DEF Reopen, IInv, Types, BtShared
    <3>2. QED
      BY <2>1, <3>1, PlainMaps
  <2>4. QED
    BY <1>3, <2>2, <2>3
<1>4. CASE UNCHANGED vars
  <2>1. UNCHANGED <<bt, vdbe>>
    BY <1>4 DEF vars
  <2>2. QED
    BY <2>1 DEF Maps, Still, Working, InProgress, Cursors, Writer
<1>5. QED
  BY <1>1, <1>2, <1>3, <1>4, StartMaps, TransactionMaps, OpenMaps, PuttingMaps, EndMaps DEF Next

\* Transactions of connections that share a cache are those of SqlStore: one
\* owner changes the working rows, by whole statements, a COMMIT or the end of
\* a statement in autocommit mode makes them the committed rows, and a rollback
\* forgets all that is not committed.
THEOREM ConnectionImplements ==
  ASSUME ~CountChanges, ~BusyOnReset PROVE Spec => ImplementsSqlStore
<1>1. Init => IInv /\ Opened
  BY InitIInv, IdleIs DEF Init, Opened
<1>2. Init => Store!Init
  <2> SUFFICES ASSUME Init PROVE Store!Init
    OBVIOUS
  <2>1. bt.disk = {} /\ bt.cache = {} /\ \A c \in Conn : bt.inTrans[c] # WRITE
    BY DEF Init
  <2>2. Writer = NoConn
    BY <2>1 DEF Writer
  <2>3. QED
    BY <2>1, <2>2 DEF Store!Init
<1>3. IInv /\ Opened /\ [Next]_vars => IInv' /\ Opened' /\ [Store!Next]_(Store!storeVars)
  BY NextOpened, NextMaps, StepsMap
<1>4. QED
  BY <1>1, <1>2, <1>3, PTL DEF Spec, ImplementsSqlStore, Store!Spec
=============================================================================
