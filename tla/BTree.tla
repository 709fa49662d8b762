------------------------------- MODULE BTree -------------------------------
(***************************************************************************)
(* One table of btree.c: its tree of pages, the free list, the overflow    *)
(* pages of its cells, and cursors that scan it while others write.  A     *)
(* call of balance() or of what it calls is a step; "work" is the stack of *)
(* calls that the operation still has to make.  Sizes are bytes, as the    *)
(* file has them.                                                          *)
(***************************************************************************)
EXTENDS BTreeBalance, FiniteSetsExt, SequencesExt

CONSTANTS
    Key, Cursor, Nowhere,
    Usable,          \* bytes of a page
    FileHeader,      \* bytes of page 1 before its page header
    Divider,         \* bytes of a cell of an interior page of a table tree
    TrunkLeaves,     \* leaves that a trunk page of the free list can name
    Tree,            \* [leafData, root, autoVacuum]: of a table or an index, where it begins,
                     \* and whether the file has a pointer map; with the bounds [first, keys,
                     \* cells, ops, scans]: cells inserted at once, keys and [size, pages] of
                     \* others, operations after the first, use of cursors
    NoRow,           \* what a cursor returns that points to nothing, yet reports a row
    SplitsOverFreePages,    \* the root may split while an auto-vacuum file has free pages
    ReadsLater,      \* a column may be read after the row was deleted
    StepsBackFromNothing    \* Previous() may meet a table that was emptied

VARIABLES
    tree,     \* a member of Tree
    node,     \* page -> [leaf, cells, right]
    file,     \* [trunks, count, size]: the free list and the file's pages
    ptrmap,   \* the pointer map: page -> [type, parent]
    work,     \* the calls to make, the next one first
    cur,      \* cursors
    last,     \* the key each cursor returned last
    ops       \* operations done

vars == <<tree, node, file, ptrmap, work, cur, last, ops>>

\* The room on a page.
Header(leaf) == IF leaf THEN 8 ELSE 12
Capacity(g, leaf) == Usable - Header(leaf) - IF g = 1 THEN FileHeader ELSE 0
CellSize(leaf, cell) ==
    IF leaf THEN cell.size ELSE IF tree.leafData THEN Divider ELSE cell.size + 4
UsedOn(n) == FoldSeq(LAMBDA c, sum : sum + CellSize(n.leaf, c) + CellPointer, 0, n.cells)
nFree(g) == Capacity(g, node[g].leaf) - UsedOn(node[g])
nOverflow(g) == \E c \in ToSet(node[g].cells) : c.out

\* Put a cell on a page: once one does not fit, it and those after it stay
\* "out", beside the page, until the page is balanced.
insertCell(g, n, i, cell) ==
    LET room == Capacity(g, n.leaf) - UsedOn(n)
        out == room < CellSize(n.leaf, cell) + CellPointer \/ \E c \in ToSet(n.cells) : c.out IN
    [n EXCEPT !.cells = InsertAt(@, i, [cell EXCEPT !.out = out])]
insertCells(g, n, i, cells) ==
    FoldLeft(LAMBDA m, j : insertCell(g, m, i + j - 1, cells[j]), n, [j \in DOMAIN cells |-> j])

Leaf(cells) == [leaf |-> TRUE, cells |-> cells, right |-> 0]
Interior(cells, right) == [leaf |-> FALSE, cells |-> cells, right |-> right]
ChildAt(n, i) == IF i > Len(n.cells) THEN n.right ELSE n.cells[i].child
ChildrenOf(n) == IF n.leaf THEN <<>> ELSE [i \in 1 .. Len(n.cells) + 1 |-> ChildAt(n, i)]
Parent(g) == CHOOSE p \in DOMAIN node : g \in ToSet(ChildrenOf(node[p]))
IndexIn(p, g) == CHOOSE i \in 1 .. Len(node[p].cells) + 1 : ChildAt(node[p], i) = g

\* The pointer map of an auto-vacuum file: where the pointer to a page is.
isPtrmap(p) == tree.autoVacuum /\ p > 1 /\ (p - 2) % (Usable \div 5 + 1) = 0
Maps(pages, type, parent) == [p \in pages |-> [type |-> type, parent |-> parent]]
putOvfl(cells, g) ==
    Maps({c.pages[1] : c \in {d \in ToSet(cells) : d.pages # <<>>}}, "OVERFLOW1", g)
putOvfl2(pages) ==
    LET index(p) == CHOOSE i \in DOMAIN pages : pages[i] = p IN
    [p \in {pages[i] : i \in 2 .. Len(pages)} |->
        [type |-> "OVERFLOW2", parent |-> pages[index(p) - 1]]]
reparentChildPages(n, g) ==
    Maps(IF n.leaf THEN {} ELSE {n.right} \cup {c.child : c \in {d \in ToSet(n.cells) : ~d.out}},
         "BTREE", g)
putFree(pages) == Maps(ToSet(pages), "FREEPAGE", 0)
ptrmapPut(entries) == ptrmap' = IF tree.autoVacuum THEN entries @@ ptrmap ELSE ptrmap

\* The free list.
PageAtEnd(s) == IF isPtrmap(s.size + 1) THEN s.size + 2 ELSE s.size + 1
ClosestTo(leaves, nearby) ==
    IF nearby = 0 THEN 1
    ELSE LET dist(i) == IF leaves[i] < nearby THEN nearby - leaves[i] ELSE leaves[i] - nearby
         IN Min({i \in DOMAIN leaves : \A j \in DOMAIN leaves : dist(i) <= dist(j)})

allocatePage_CountKept(s, nearby) ==
    IF s.count = 0 THEN [page |-> PageAtEnd(s), file |-> [s EXCEPT !.size = PageAtEnd(s)]]
    ELSE LET leaves == s.trunks[1].leaves
             closest == ClosestTo(leaves, nearby) IN
         IF leaves = <<>>
         THEN [page |-> s.trunks[1].page, file |-> [s EXCEPT !.trunks = Tail(@)]]
         ELSE [page |-> leaves[closest],
               file |-> [s EXCEPT !.trunks[1].leaves = Front([leaves EXCEPT ![closest] = Last(leaves)])]]

allocatePage(s, nearby) ==
    IF s.count = 0 THEN [page |-> PageAtEnd(s), file |-> [s EXCEPT !.size = PageAtEnd(s)]]
    ELSE LET leaves == s.trunks[1].leaves
             closest == ClosestTo(leaves, nearby)
             t == [s EXCEPT !.count = @ - 1] IN
         IF leaves = <<>>
         THEN [page |-> t.trunks[1].page, file |-> [t EXCEPT !.trunks = Tail(@)]]
         ELSE [page |-> leaves[closest],
               file |-> [t EXCEPT !.trunks[1].leaves = Front([leaves EXCEPT ![closest] = Last(leaves)])]]

freePage(s, g) ==
    LET t == [s EXCEPT !.count = @ + 1]
        trunk == [page |-> g, leaves |-> <<>>] IN
    IF s.count = 0 THEN [t EXCEPT !.trunks = <<trunk>>]
    ELSE IF Len(s.trunks[1].leaves) >= TrunkLeaves
    THEN [t EXCEPT !.trunks = <<trunk>> \o @]
    ELSE [t EXCEPT !.trunks[1].leaves = Append(@, g)]
freePages(s, pages) == FoldLeft(freePage, s, pages)

\* Allocate n pages, each near the one before it.
allocatePages(s, n, nearby) ==
    FoldLeft(LAMBDA a, i : LET r == allocatePage(a.file, a.nearby) IN
                           [pages |-> Append(a.pages, r.page), nearby |-> r.page, file |-> r.file],
             [pages |-> <<>>, nearby |-> nearby, file |-> s], [i \in 1 .. n |-> i])

---------------------------------------------------------------------------
(* Finding a key: the last cell compared, and how it compares. *)
RECURSIVE Search(_, _, _, _, _)
Search(cells, k, lwr, upr, right) ==
    LET i == IF right THEN upr ELSE (lwr + upr) \div 2
        found(c, r) == [idx |-> i, c |-> c, right |-> r] IN
    IF cells[i].key = k THEN found(0, right)
    ELSE IF cells[i].key < k
    THEN IF i = upr THEN found(-1, right) ELSE Search(cells, k, i + 1, upr, right)
    ELSE IF i = lwr THEN found(1, FALSE) ELSE Search(cells, k, lwr, i - 1, FALSE)

RECURSIVE Descend(_, _, _)
Descend(g, k, right) ==
    LET n == node[g]
        s == Search(n.cells, k, 1, Len(n.cells), right) IN
    IF n.leaf \/ (s.c = 0 /\ ~tree.leafData) THEN [page |-> g, idx |-> s.idx, c |-> s.c]
    ELSE Descend(ChildAt(n, IF s.c < 0 THEN s.idx + 1 ELSE s.idx), k, s.right)

\* The page a search begins at: below page 1 when it holds but one child.
VirtualRoot == IF node[tree.root].cells = <<>> /\ ~node[tree.root].leaf
               THEN node[tree.root].right ELSE tree.root
Empty == node[VirtualRoot].cells = <<>>
Moveto(k) == IF Empty THEN [page |-> tree.root, idx |-> 1, c |-> -1]
             ELSE Descend(VirtualRoot, k, tree.leafData)

RECURSIVE Leftmost(_), Rightmost(_)
Leftmost(g) == IF node[g].leaf THEN [page |-> g, idx |-> 1] ELSE Leftmost(ChildAt(node[g], 1))
Rightmost(g) == IF node[g].leaf THEN [page |-> g, idx |-> Len(node[g].cells)]
                ELSE Rightmost(node[g].right)
KeyAt(p) == node[p.page].cells[p.idx].key

---------------------------------------------------------------------------
(* balance() and what it calls.  A call is the record of its arguments. *)
Call(op, g) == [op |-> op, page |-> g, insert |-> FALSE]
Calling(op) == work # <<>> /\ work[1].op = op
Then(calls) == work' = calls \o Tail(work)
Changed == UNCHANGED <<tree, cur, last, ops>>

Balance ==
    /\ Calling("balance")
    /\ LET g == work[1].page
           rebalance == nOverflow(g) \/ (~work[1].insert /\ nFree(g) > (Usable * 2) \div 3)
           call(op) == [work[1] EXCEPT !.op = op] IN
       Then(IF g = tree.root
            THEN IF nOverflow(g) THEN <<call("deeper"), call("shallower")>>
                 ELSE IF node[g].cells = <<>> THEN <<call("shallower")>> ELSE <<>>
            ELSE IF rebalance THEN <<call("nonroot")>> ELSE <<>>)
    /\ UNCHANGED <<node, file, ptrmap>> /\ Changed

\* The pointer map gets as many entries as cells fitted on the root.
BalanceDeeper ==
    /\ Calling("deeper")
    /\ tree.autoVacuum /\ file.count > 0 => SplitsOverFreePages
    /\ LET g == work[1].page
           new == allocatePage(file, g)
           nCell == Cardinality({i \in DOMAIN node[g].cells : ~node[g].cells[i].out}) IN
       /\ node' = (g :> Interior(<<>>, new.page)) @@ (new.page :> node[g]) @@ node
       /\ file' = new.file
       /\ ptrmapPut(Maps({new.page}, "BTREE", g)
                    @@ putOvfl(SubSeq(node[g].cells, 1, nCell), new.page))
       /\ Then(<<[work[1] EXCEPT !.op = "nonroot", !.page = new.page]>>)
    /\ Changed

\* The root without cells takes the place of its only child, if that fits.
BalanceShallower ==
    /\ Calling("shallower")
    /\ LET g == work[1].page
           child == node[g].right IN
       IF node[g].cells = <<>> /\ ~node[g].leaf /\ (g = 1 => nFree(child) >= FileHeader)
       THEN /\ node' = [p \in DOMAIN node \ {child} |-> IF p = g THEN node[child] ELSE node[p]]
            /\ file' = freePage(file, child)
            /\ ptrmapPut(putFree(<<child>>) @@ reparentChildPages(node[child], g)
                         @@ putOvfl(node[child].cells, g))
       ELSE UNCHANGED <<node, file, ptrmap>>
    /\ Then(<<>>)
    /\ Changed

\* The cell of a table tree's interior page: only the key of a leaf's cell.
Divides(cell, g) == [key |-> cell.key, size |-> 0, pages |-> <<>>, child |-> g, out |-> FALSE]

Quick(g, p) ==
    /\ tree.leafData /\ node[g].leaf /\ p # 1 /\ node[p].right = g
    /\ {i \in DOMAIN node[g].cells : node[g].cells[i].out} = {Len(node[g].cells)}

\* A new page at the right end, with the one cell that does not fit.
BalanceQuick ==
    /\ Calling("nonroot")
    /\ LET g == work[1].page
           p == Parent(g)
           new == allocatePage(file, 0)
           cells == Front(node[g].cells)
           added == [Last(node[g].cells) EXCEPT !.out = FALSE]
           parent == insertCell(p, node[p], Len(node[p].cells) + 1, Divides(Last(cells), g)) IN
       /\ Quick(g, p)
       /\ node' = [node EXCEPT ![g].cells = cells, ![p] = [parent EXCEPT !.right = new.page]]
                  @@ (new.page :> Leaf(<<added>>))
       /\ file' = new.file
       /\ ptrmapPut(Maps({new.page}, "BTREE", p) @@ putOvfl(<<added>>, new.page))
       /\ Then(<<Call("balance", p)>>)
    /\ Changed

\* The sequence s; TLC then evaluates its elements once.
Once(s) == <<>> \o s

\* Up to NB siblings around the page share their cells, and the cells that
\* divide them, anew: over the same pages, new ones, or fewer.
NB == 3
BalanceNonroot ==
    /\ Calling("nonroot")
    /\ LET g == work[1].page
           p == Parent(g)
           n == Len(node[p].cells)
           nxDiv == Max({1, Min({IndexIn(p, g) - 1, n - NB + 2})})
           old == SubSeq(ChildrenOf(node[p]), nxDiv, Min({nxDiv + NB - 1, n + 1}))
           nOld == Len(old)
           leaf == node[g].leaf
           leafData == tree.leafData /\ leaf
           divider(i) == IF i = nOld \/ leafData THEN <<>>
                         ELSE <<[node[p].cells[nxDiv + i - 1] EXCEPT !.child = node[old[i]].right]>>
           on(i) == Once([c \in DOMAIN node[old[i]].cells |->
                             [node[old[i]].cells[c] EXCEPT !.out = FALSE]])
           apCell == FlattenSeq(Once([i \in 1 .. nOld |-> on(i) \o divider(i)]))
           cntNew == Distribute(Once([c \in DOMAIN apCell |-> CellSize(leaf, apCell[c])]),
                                Usable - Header(leaf), leafData)
           k == Len(cntNew)
           more == allocatePages(file, k - nOld, old[nOld])
           unused == SubSeq(old, k + 1, nOld)
           pgnoNew == SortSeq(SubSeq(old, 1, Min({k, nOld})) \o more.pages, <)
           page(i) == [leaf |-> leaf,
                       cells |-> SubSeq(apCell, FirstOn(cntNew, i, leafData) + 1, cntNew[i]),
                       right |-> IF i = k THEN node[old[nOld]].right
                                 ELSE IF leaf THEN 0 ELSE apCell[cntNew[i] + 1].child]
           up(i) == IF leafData THEN Divides(apCell[cntNew[i]], pgnoNew[i])
                    ELSE [apCell[cntNew[i] + 1] EXCEPT !.child = pgnoNew[i]]
           before == SubSeq(node[p].cells, 1, nxDiv - 1)
           after == SubSeq(node[p].cells, nxDiv + nOld - 1, n)
           between == insertCells(p, Interior(before \o after, node[p].right), nxDiv,
                                  Once([i \in 1 .. k - 1 |-> up(i)]))
           parent == IF after = <<>> THEN [between EXCEPT !.right = pgnoNew[k]]
                     ELSE [between EXCEPT !.cells[nxDiv + k - 1].child = pgnoNew[k]]
           moved(i) == SelectSeq(page(i).cells, LAMBDA c :
                           pgnoNew[i] \in DOMAIN node => c \notin ToSet(node[pgnoNew[i]].cells)) IN
       /\ ~Quick(g, p)
       /\ node' = [q \in (DOMAIN node \cup ToSet(pgnoNew)) \ ToSet(unused) |->
                     IF q = p THEN parent
                     ELSE IF Contains(pgnoNew, q) THEN page(CHOOSE i \in 1 .. k : pgnoNew[i] = q)
                     ELSE node[q]]
       /\ file' = freePages(more.file, unused)
       /\ ptrmapPut(FoldFunction(@@, putFree(unused) @@ reparentChildPages(parent, p)
                                     @@ putOvfl([i \in 1 .. k - 1 |-> up(i)], p),
                        [i \in 1 .. k |-> putOvfl(moved(i), pgnoNew[i])
                                          @@ reparentChildPages(page(i), pgnoNew[i])]))
       /\ Then(<<Call("balance", p)>>)
    /\ Changed

---------------------------------------------------------------------------
(* Cursors.  When the table changes, those that are VALID save their key. *)
Invalid(skip) == [state |-> "INVALID", page |-> 0, idx |-> 0, key |-> Nowhere, skip |-> skip]
At(p, skip) == [state |-> "VALID", page |-> p.page, idx |-> p.idx, key |-> Nowhere, skip |-> skip]

saveAllCursors_Not == UNCHANGED cur
saveAllCursors ==
    cur' = [c \in Cursor |->
               IF cur[c].state # "VALID" THEN cur[c]
               ELSE [Invalid(cur[c].skip) EXCEPT !.state = "REQUIRESEEK", !.key = KeyAt(cur[c])]]

restoreCursorPosition(c) ==
    IF cur[c].state # "REQUIRESEEK" THEN cur[c]
    ELSE LET at == Moveto(cur[c].key) IN IF Empty THEN Invalid(at.c) ELSE At(at, at.c)

\* The way from a child up to the first ancestor with a cell after it.
RECURSIVE NextAbove(_), PreviousAbove(_)
NextAbove(g) ==
    IF g = VirtualRoot THEN Invalid(0)
    ELSE LET p == Parent(g)
             i == IndexIn(p, g) IN
         IF i > Len(node[p].cells) THEN NextAbove(p)
         ELSE IF tree.leafData THEN At(Leftmost(ChildAt(node[p], i + 1)), 0)
         ELSE At([page |-> p, idx |-> i], 0)
PreviousAbove(g) ==
    IF g = VirtualRoot THEN Invalid(0)
    ELSE LET p == Parent(g)
             i == IndexIn(p, g) IN
         IF i = 1 THEN PreviousAbove(p)
         ELSE IF tree.leafData THEN At(Rightmost(ChildAt(node[p], i - 1)), 0)
         ELSE At([page |-> p, idx |-> i - 1], 0)

Next_SkipForgotten(c) ==
    LET r == restoreCursorPosition(c)
        n == node[r.page] IN
    IF r.state = "INVALID" THEN Invalid(0)
    ELSE IF ~n.leaf THEN At(Leftmost(ChildAt(n, r.idx + 1)), 0)
    ELSE IF r.idx < Len(n.cells) THEN At([r EXCEPT !.idx = @ + 1], 0)
    ELSE NextAbove(r.page)

sqlite3BtreeNext(c) ==
    LET r == restoreCursorPosition(c)
        n == node[r.page] IN
    IF r.skip > 0 THEN [r EXCEPT !.skip = 0]
    ELSE IF r.state = "INVALID" THEN Invalid(0)
    ELSE IF ~n.leaf THEN At(Leftmost(ChildAt(n, r.idx + 1)), 0)
    ELSE IF r.idx < Len(n.cells) THEN At([r EXCEPT !.idx = @ + 1], 0)
    ELSE NextAbove(r.page)

sqlite3BtreePrevious(c) ==
    LET r == restoreCursorPosition(c)
        n == node[r.page] IN
    IF r.skip < 0 THEN [r EXCEPT !.skip = 0]
    ELSE IF r.state = "INVALID" THEN Invalid(0)
    ELSE IF ~n.leaf THEN At(Rightmost(ChildAt(n, r.idx)), 0)
    ELSE IF r.idx > 1 THEN At([r EXCEPT !.idx = @ - 1], 0)
    ELSE PreviousAbove(r.page)

sqlite3BtreeFirst(c) == IF Empty THEN Invalid(cur[c].skip) ELSE At(Leftmost(VirtualRoot), cur[c].skip)
sqlite3BtreeLast(c) == IF Empty THEN Invalid(cur[c].skip) ELSE At(Rightmost(VirtualRoot), cur[c].skip)

---------------------------------------------------------------------------
(* Operations, one at a time. *)
Idle == work = <<>>
Preloaded == ops >= Len(tree.first)
CellFor == IF Preloaded THEN tree.cells ELSE {tree.first[ops + 1].cell}
KeyFor == IF Preloaded THEN tree.keys ELSE {tree.first[ops + 1].key}
Operates == Idle /\ ops < Len(tree.first) + tree.ops /\ ops' = ops + 1 /\ UNCHANGED <<tree, last>>

\* Where the new cell goes: Moveto() may have stopped at the one before.
Slot(at) == IF at.c < 0 /\ ~Empty THEN at.idx + 1 ELSE at.idx

Overwrites(at, k) == ~Empty /\ at.c = 0

Insert(k, cell) ==
    /\ Operates
    /\ LET at == Moveto(k)
           i == Slot(at)
           new == allocatePages(file, cell.pages, 0)
           n == node[at.page]
           over == Overwrites(at, k)
           freed == IF over THEN n.cells[i].pages ELSE <<>>
           entry == [key |-> k, size |-> cell.size, pages |-> new.pages, out |-> FALSE,
                     child |-> IF over THEN n.cells[i].child ELSE 0]
           page == insertCell(at.page, IF over THEN [n EXCEPT !.cells = RemoveAt(@, i)] ELSE n,
                              i, entry) IN
       /\ node' = [node EXCEPT ![at.page] = page]
       /\ file' = freePages(new.file, freed)
       /\ ptrmapPut(putFree(freed) @@ putOvfl2(new.pages)
                    @@ IF page.cells[i].out THEN <<>> ELSE putOvfl(<<entry>>, at.page))
       /\ work' = <<[Call("balance", at.page) EXCEPT !.insert = TRUE]>>
    /\ saveAllCursors

\* Delete the cell of a leaf; in place of one inside the tree comes the next
\* cell, which is on a leaf and is dropped there once its copy is in place.
Delete(k) ==
    /\ Operates /\ Preloaded
    /\ LET at == Moveto(k)
           n == node[at.page]
           freed == n.cells[at.idx].pages
           dropped == [n EXCEPT !.cells = RemoveAt(@, at.idx)]
           leaf == Leftmost(ChildAt(n, at.idx + 1)).page
           next == [node[leaf].cells[1] EXCEPT !.child = n.cells[at.idx].child]
           page == insertCell(at.page, dropped, at.idx, next) IN
       /\ Overwrites(at, k)
       /\ file' = freePages(file, freed)
       /\ IF n.leaf
          THEN /\ node' = [node EXCEPT ![at.page] = dropped]
               /\ ptrmapPut(putFree(freed))
               /\ work' = <<Call("balance", at.page)>>
          ELSE /\ node' = [node EXCEPT ![at.page] = page]
               /\ ptrmapPut(putFree(freed) @@ IF page.cells[at.idx].out THEN <<>>
                                              ELSE putOvfl(<<next>>, at.page))
               /\ work' = <<Call("balance", at.page), Call("drop", leaf)>>
    /\ saveAllCursors

DropMoved ==
    /\ Calling("drop")
    /\ node' = [node EXCEPT ![work[1].page].cells = Tail(@)]
    /\ Then(<<Call("balance", work[1].page)>>)
    /\ UNCHANGED <<file, ptrmap>> /\ Changed

\* The pages under page g in the order clearDatabasePage() frees them.
RECURSIVE Under(_)
Under(g) ==
    LET n == node[g]
        below(i) == IF n.leaf THEN <<>> ELSE Under(ChildAt(n, i)) \o <<ChildAt(n, i)>> IN
    FlattenSeq(Once([i \in DOMAIN n.cells |-> below(i) \o n.cells[i].pages]))
        \o below(Len(n.cells) + 1)

sqlite3BtreeClearTable ==
    /\ Operates /\ Preloaded /\ tree.root # 1
    /\ file' = freePages(file, Under(tree.root))
    /\ ptrmapPut(putFree(Under(tree.root)))
    /\ node' = tree.root :> Leaf(<<>>)
    /\ saveAllCursors
    /\ UNCHANGED work

---------------------------------------------------------------------------
(* An auto-vacuum file: before the commit, the pages at its end move to    *)
(* free pages before them, and the file is truncated.                      *)
finSize ==
    LET origSize == file.size
        entries == Usable \div 5
        ptrmapPage == Max({p \in 1 .. origSize : isPtrmap(p)})
        nPtrMap == (file.count - origSize + ptrmapPage + entries) \div entries
        size == origSize - file.count - nPtrMap IN
    Max({p \in 1 .. size : ~isPtrmap(p)})

autoVacuumCommit ==
    /\ Operates /\ Preloaded /\ tree.autoVacuum
    /\ work' = IF file.count = 0 THEN <<>>
               ELSE [i \in 1 .. file.size - finSize |-> Call("relocate", finSize + i)]
                    \o <<Call("truncate", finSize)>>
    /\ UNCHANGED <<node, file, ptrmap, cur>>

\* Allocate until the page is one that stays in the file.
RECURSIVE allocateBelow(_, _)
allocateBelow(s, size) ==
    LET new == allocatePage(s, 0) IN
    IF new.page > size THEN allocateBelow(new.file, size) ELSE new

Cells == UNION {ToSet(node[g].cells) : g \in DOMAIN node}

\* The pointer map leads to the pointer to page p.
PointerFound(p) ==
    LET g == ptrmap[p].parent
        on(q) == IF q \in DOMAIN node THEN ToSet(node[q].cells) ELSE {} IN
    CASE ptrmap[p].type = "BTREE" -> g \in DOMAIN node /\ Contains(ChildrenOf(node[g]), p)
      [] ptrmap[p].type = "OVERFLOW1" -> \E c \in on(g) : c.pages # <<>> /\ c.pages[1] = p
      [] ptrmap[p].type = "OVERFLOW2" ->
            \E c \in Cells : \E i \in 2 .. Len(c.pages) : c.pages[i] = p /\ c.pages[i - 1] = g
      [] OTHER -> FALSE

setChildPtrmaps_PagesOnly(p, q) ==
    IF p \in DOMAIN node THEN reparentChildPages(node[p], q) ELSE <<>>

\* What page p, now page q, points to.
setChildPtrmaps(p, q) ==
    IF p \in DOMAIN node
    THEN putOvfl(node[p].cells, q) @@ reparentChildPages(node[p], q)
    ELSE LET chain == CHOOSE pages \in {c.pages : c \in Cells} : Contains(pages, p)
             next == {chain[i + 1] : i \in {j \in 1 .. Len(chain) - 1 : chain[j] = p}} IN
         Maps(next, "OVERFLOW2", q)

relocatePage ==
    /\ Calling("relocate")
    /\ LET p == work[1].page
           size == Last(work).page
           new == allocateBelow(file, size)
           now(q) == IF q = p THEN new.page ELSE q
           moved(n) == [n EXCEPT !.right = now(@),
               !.cells = Once([i \in DOMAIN @ |-> [@[i] EXCEPT !.child = now(@),
                                   !.pages = Once([j \in DOMAIN @ |-> now(@[j])])]])] IN
       IF isPtrmap(p) \/ ptrmap[p].type = "FREEPAGE"
       THEN Then(<<>>) /\ UNCHANGED <<node, file, ptrmap, cur>>
       ELSE IF ~PointerFound(p)
       THEN work' = <<Call("corrupt", p)>> /\ UNCHANGED <<node, file, ptrmap, cur>>
       ELSE /\ node' = [q \in {now(o) : o \in DOMAIN node} |->
                          moved(node[IF q = new.page THEN p ELSE q])]
            /\ file' = new.file
            /\ ptrmapPut(setChildPtrmaps(p, new.page) @@ (new.page :> ptrmap[p]))
            /\ cur' = [c \in Cursor |-> [cur[c] EXCEPT !.page = now(@)]]
            /\ Then(<<>>)
    /\ UNCHANGED <<tree, last, ops>>

Truncate ==
    /\ Calling("truncate")
    /\ file' = [trunks |-> <<>>, count |-> 0, size |-> work[1].page]
    /\ Then(<<>>)
    /\ UNCHANGED <<node, ptrmap>> /\ Changed

---------------------------------------------------------------------------
\* Cursor c moves; its answer is the key it is at.
Moves(c, r, answer) ==
    /\ Idle
    /\ cur' = [cur EXCEPT ![c] = r]
    /\ last' = [last EXCEPT ![c] = IF r.state = "VALID" THEN KeyAt(r) ELSE answer]
    /\ UNCHANGED <<tree, node, file, ptrmap, work, ops>>

MoveFirst(c) == Preloaded /\ tree.scans /\ Moves(c, sqlite3BtreeFirst(c), Nowhere)
MoveLast(c) == Preloaded /\ tree.scans /\ Moves(c, sqlite3BtreeLast(c), Nowhere)
MoveNext(c) == last[c] # Nowhere /\ Moves(c, sqlite3BtreeNext(c), Nowhere)
MovePrevious(c) ==
    /\ Idle /\ last[c] # Nowhere
    /\ restoreCursorPosition(c).state # "VALID" => StepsBackFromNothing
    /\ Moves(c, sqlite3BtreePrevious(c),
             IF restoreCursorPosition(c).skip < 0 THEN NoRow ELSE Nowhere)

\* A column is read of the row that a saved cursor was at.
Column(c) ==
    /\ Idle /\ cur[c].state = "REQUIRESEEK"
    /\ restoreCursorPosition(c).skip = 0 \/ ReadsLater
    /\ cur' = [cur EXCEPT ![c] = restoreCursorPosition(c)]
    /\ UNCHANGED <<tree, node, file, ptrmap, work, last, ops>>

Init ==
    /\ tree \in Tree
    /\ node = tree.root :> Leaf(<<>>)
    /\ file = [trunks |-> <<>>, count |-> 0, size |-> tree.root]
    /\ ptrmap = Maps({tree.root}, "ROOTPAGE", 0)
    /\ work = <<>>
    /\ cur = [c \in Cursor |-> Invalid(0)]
    /\ last = [c \in Cursor |-> Nowhere]
    /\ ops = 0

Next ==
    \/ Balance \/ BalanceDeeper \/ BalanceShallower \/ BalanceQuick \/ BalanceNonroot
    \/ \E k \in KeyFor, cell \in CellFor : Insert(k, cell)
    \/ \E k \in Key : Delete(k)
    \/ DropMoved \/ sqlite3BtreeClearTable
    \/ autoVacuumCommit \/ relocatePage \/ Truncate
    \/ \E c \in Cursor : MoveFirst(c) \/ MoveLast(c) \/ MoveNext(c) \/ MovePrevious(c) \/ Column(c)

Spec == Init /\ [][Next]_vars

---------------------------------------------------------------------------
TypeOK ==
    /\ tree \in Tree
    /\ \A g \in DOMAIN node :
          /\ g \in 1 .. file.size
          /\ node[g].leaf \in BOOLEAN
          /\ \A i \in DOMAIN node[g].cells : node[g].cells[i].key \in Key
          /\ ToSet(ChildrenOf(node[g])) \subseteq DOMAIN node
    /\ file.count \in 0 .. file.size
    /\ \A c \in Cursor : cur[c].state = "VALID" /\ Idle =>
          cur[c].page \in DOMAIN node /\ cur[c].idx \in DOMAIN node[cur[c].page].cells

\* Every page of the file is in use once: by the tree, by one cell as an
\* overflow page, or by the free list, whose length the header has.
PagesAccounted ==
    LET overflow == {c.pages : c \in Cells}
        free == FlattenSeq(Once([i \in DOMAIN file.trunks |->
                                    <<file.trunks[i].page>> \o file.trunks[i].leaves]))
        pages == {p \in tree.root .. file.size : ~isPtrmap(p)} IN
    Idle => /\ Len(free) = file.count
            /\ Cardinality(pages) =
                   Cardinality(DOMAIN node) + MapThenSumSet(Len, overflow) + Len(free)
            /\ pages = DOMAIN node \cup ToSet(free) \cup UNION {ToSet(p) : p \in overflow}

\* The tree is in order and of one depth, no page overflows, none but the
\* root is empty, and what a table tree's interior pages name is a bound.
KeysOn(n) == IF tree.leafData /\ ~n.leaf THEN {} ELSE {c.key : c \in ToSet(n.cells)}
RECURSIVE KeysUnder(_), Depth(_)
KeysUnder(g) == KeysOn(node[g]) \cup UNION {KeysUnder(p) : p \in ToSet(ChildrenOf(node[g]))}
Depth(g) == IF node[g].leaf THEN 0 ELSE 1 + Depth(node[g].right)
Sound ==
    Idle => \A g \in DOMAIN node :
        LET n == node[g]
            key(i) == n.cells[i].key IN
        /\ ~nOverflow(g)
        /\ g # VirtualRoot /\ g # tree.root => n.cells # <<>>
        /\ \A i \in 2 .. Len(n.cells) : key(i - 1) < key(i)
        /\ \A p \in ToSet(ChildrenOf(n)) : Depth(p) = Depth(n.right)
        /\ ~n.leaf => \A i \in DOMAIN n.cells :
              /\ \A k \in KeysUnder(ChildAt(n, i)) : k < key(i) \/ (tree.leafData /\ k = key(i))
              /\ \A k \in KeysUnder(ChildAt(n, i + 1)) : k > key(i)

\* The pointer map leads to every page that the commit may have to move.
PointerMapTrue ==
    /\ ~Calling("corrupt")
    /\ Idle /\ tree.autoVacuum =>
          \A g \in DOMAIN node :
              /\ \A p \in ToSet(ChildrenOf(node[g])) : ptrmap[p] = [type |-> "BTREE", parent |-> g]
              /\ \A c \in ToSet(node[g].cells) : \A i \in DOMAIN c.pages :
                    ptrmap[c.pages[i]] = IF i = 1 THEN [type |-> "OVERFLOW1", parent |-> g]
                                         ELSE [type |-> "OVERFLOW2", parent |-> c.pages[i - 1]]

\* What the operations do is what they promise: the keys are a set, and a
\* cursor steps through it in order, beside the changes that others make.
Ordered == INSTANCE OrderedTable WITH keys <- UNION {KeysOn(node[g]) : g \in DOMAIN node}
ImplementsOrderedTable == Ordered!Spec
=============================================================================
