---------------------------- MODULE OrderedTable ----------------------------
(***************************************************************************)
(* What the B-tree layer promises: a set of keys in order, and cursors     *)
(* that scan it.  A cursor steps from the key it returned last to the next *)
(* key there is, whatever was inserted and deleted in between.             *)
(***************************************************************************)
EXTENDS Integers, FiniteSetsExt

CONSTANTS Key, Cursor, Nowhere     \* Nowhere: before the scan, and at its end

VARIABLES keys, last    \* last[c]: the key that cursor c returned last

vars == <<keys, last>>

Init == keys \subseteq Key /\ last = [c \in Cursor |-> Nowhere]

Insert(k) == keys' = keys \cup {k} /\ UNCHANGED last
Delete(k) == keys' = keys \ {k} /\ UNCHANGED last
Clear == keys' = {} /\ UNCHANGED last

Least(ks) == IF ks = {} THEN Nowhere ELSE Min(ks)
Greatest(ks) == IF ks = {} THEN Nowhere ELSE Max(ks)
Returns(c, k) == last' = [last EXCEPT ![c] = k] /\ UNCHANGED keys

First(c) == Returns(c, Least(keys))
Last(c) == Returns(c, Greatest(keys))
Following(c) == last[c] # Nowhere /\ Returns(c, Least({k \in keys : k > last[c]}))
Preceding(c) == last[c] # Nowhere /\ Returns(c, Greatest({k \in keys : k < last[c]}))

Step ==
    \/ Clear
    \/ \E k \in Key : Insert(k) \/ Delete(k)
    \/ \E c \in Cursor : First(c) \/ Last(c) \/ Following(c) \/ Preceding(c)

Spec == Init /\ [][Step]_vars
=============================================================================
