------------------------------ MODULE MCBTree ------------------------------
EXTENDS BTree

Keys == 1 .. 18
Nothing == 0
None == -1

\* Cells that fit on their page, and cells with an overflow page.
CellsOf(size, big) == {[size |-> size, pages |-> 0], [size |-> big, pages |-> 1]}
First(keys, size) ==
    [i \in DOMAIN keys |-> [key |-> keys[i], cell |-> [size |-> size, pages |-> 0]]]
Up(n) == [i \in 1 .. n |-> i]
Evens(n) == [i \in 1 .. n |-> 2 * i]

\* A small table and a small index that a cursor scans.
Scanned(leafData, cells) ==
    [leafData |-> leafData, root |-> 2, autoVacuum |-> FALSE,
     cells |-> cells, first |-> First(Evens(5), 8),
     keys |-> 3 .. 8, ops |-> 2, scans |-> TRUE]
\* A table on page 1, a table and an index that become deeper, an index that
\* becomes shallower, and one with cells on its root that grow.
Built(leafData, root, first, size, cells, keys, n) ==
    [leafData |-> leafData, root |-> root, autoVacuum |-> FALSE,
     cells |-> cells, first |-> First(first, size),
     keys |-> keys, ops |-> n, scans |-> FALSE]
\* The same in an auto-vacuum file, with cells of up to two overflow pages.
Vacuumed(leafData, first, size, cells, keys, n) ==
    [Built(leafData, 3, first, size, cells, keys, n) EXCEPT !.autoVacuum = TRUE]
LongCells == {[size |-> 8, pages |-> 0], [size |-> 8, pages |-> 1], [size |-> 8, pages |-> 2]}
OfTable == CellsOf(8, 22)
OfIndex == CellsOf(4, 8)
Trees ==
    {Scanned(TRUE, OfTable), Scanned(FALSE, OfIndex),
     Built(TRUE, 1, Up(4), 8, OfTable, 3 .. 6, 3),
     Built(TRUE, 2, Up(9), 22, OfTable, {5, 10}, 3),
     Built(FALSE, 2, Evens(7), 8, OfIndex, {1, 8, 15}, 3),
     Built(FALSE, 2, Up(13), 8, OfIndex, {}, 4),
     Built(FALSE, 2, Up(18), 4, {[size |-> 8, pages |-> 1]}, 1 .. 18, 2),
     [Vacuumed(TRUE, Up(6), 8, LongCells, {3, 7}, 3) EXCEPT !.scans = TRUE],
     Vacuumed(TRUE, Up(9), 22, OfTable, {1, 2}, 3),
     Vacuumed(FALSE, Up(5), 8, LongCells, {2, 6}, 4)}

\* A root that splits over the pages that a row of two overflow pages left.
RootSplits == {Vacuumed(TRUE, <<2, 4>>, 8, LongCells, {1, 2, 6}, 4)}
=============================================================================
