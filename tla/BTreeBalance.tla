---------------------------- MODULE BTreeBalance ----------------------------
(***************************************************************************)
(* How balance_nonroot() of btree.c distributes the cells of up to three   *)
(* sibling pages over new pages.  As in the code, cells and pages count    *)
(* from 0, and every cell takes CellPointer bytes besides its own; cnt[i]  *)
(* is the first cell that is not on page i.  In a LEAFDATA leaf page the   *)
(* cells stay on the pages; otherwise the cell cnt[i] moves up to divide   *)
(* page i from the next.                                                   *)
(***************************************************************************)
EXTENDS Integers, Sequences

CellPointer == 2

\* What is on page i, the cells being numbered from 0.
FirstOn(cnt, i, leafData) == IF i = 1 THEN 0 ELSE cnt[i - 1] + IF leafData THEN 0 ELSE 1

\* The first pass fills the pages from the left.  A record: next cell i,
\* bytes on the page, and for the pages finished, their size and cnt.
RECURSIVE Pack(_, _, _, _)
Pack(size, usable, leafData, s) ==
    IF s.i = Len(size)
    THEN [sz |-> Append(s.sz, s.sub), cnt |-> Append(s.cnt, Len(size))]
    ELSE LET sub == s.sub + size[s.i + 1] + CellPointer IN
         IF sub <= usable
         THEN Pack(size, usable, leafData, [s EXCEPT !.i = @ + 1, !.sub = sub])
         ELSE Pack(size, usable, leafData,
                   [i |-> IF leafData THEN s.i ELSE s.i + 1, sub |-> 0,
                    sz |-> Append(s.sz, sub - size[s.i + 1]), cnt |-> Append(s.cnt, s.i)])

\* The second moves cells to the right, from the last page to the first, as
\* long as the page on the right is empty or not the larger one.
RECURSIVE Shift(_, _, _, _)
Shift(size, leafData, p, i) ==
    LET r == p.cnt[i - 1] - 1
        d == r + 1 - IF leafData THEN 1 ELSE 0
        toRight == size[d + 1] + CellPointer
        fromLeft == size[r + 1] + CellPointer IN
    IF p.sz[i] = 0 \/ p.sz[i] + toRight <= p.sz[i - 1] - fromLeft
    THEN Shift(size, leafData,
               [sz |-> [p.sz EXCEPT ![i] = @ + toRight, ![i - 1] = @ - fromLeft],
                cnt |-> [p.cnt EXCEPT ![i - 1] = @ - 1]], i)
    ELSE p

RECURSIVE Adjust_NotLast(_, _, _, _)
Adjust_NotLast(size, leafData, p, i) ==
    IF i <= 2 THEN p
    ELSE Adjust_NotLast(size, leafData, Shift(size, leafData, p, i - 1), i - 1)

RECURSIVE Adjust(_, _, _, _)
Adjust(size, leafData, p, i) ==
    IF i = 1 THEN p ELSE Adjust(size, leafData, Shift(size, leafData, p, i), i - 1)

\* cnt of every new page.
Distribute(size, usable, leafData) ==
    LET p == Pack(size, usable, leafData, [i |-> 0, sub |-> 0, sz |-> <<>>, cnt |-> <<>>])
    IN Adjust(size, leafData, p, Len(p.cnt)).cnt
=============================================================================
