------------------------------ MODULE Grouping ------------------------------
(***************************************************************************)
(* What group_by promises: the rows, taken in order, are put with the      *)
(* first earlier row that has the same key, and groups stay in the order   *)
(* of their first rows.  Keys are compared as tuples of cells.             *)
(***************************************************************************)
EXTENDS Integers, Sequences

VARIABLES
  key,      \* key[i]: the key of row i
  row,      \* the next row
  groups    \* the groups, each the sequence of its rows

vars == <<key, row, groups>>

SameKey(i, j) == key[i] = key[j]

\* The row joins the group whose first row has its key ...
Join ==
  /\ row \in DOMAIN key
  /\ \E g \in DOMAIN groups :
       /\ SameKey(groups[g][1], row)
       /\ groups' = [groups EXCEPT ![g] = Append(@, row)]
  /\ row' = row + 1
  /\ UNCHANGED key

\* ... or founds the next one.
Found ==
  /\ row \in DOMAIN key
  /\ \A g \in DOMAIN groups : ~SameKey(groups[g][1], row)
  /\ groups' = Append(groups, <<row>>)
  /\ row' = row + 1
  /\ UNCHANGED key

Start == row = 1 /\ groups = << >>
Next  == Join \/ Found
Spec  == Start /\ [][Next]_vars

-----------------------------------------------------------------------------
Members(g) == {groups[g][x] : x \in DOMAIN groups[g]}

\* The groups are the classes of equal keys over the rows taken, whatever came
\* between two rows of a class: each row is in one group only, two rows are in
\* one group exactly when their keys are equal, and groups and rows are in order.
Classes ==
  /\ UNION {Members(g) : g \in DOMAIN groups} = 1..(row - 1)
  /\ \A g, h \in DOMAIN groups : \A x \in DOMAIN groups[g], y \in DOMAIN groups[h] :
       /\ SameKey(groups[g][x], groups[h][y]) <=> g = h
       /\ g = h /\ x < y => groups[g][x] < groups[h][y]
       /\ g < h /\ x = 1 => groups[g][x] < groups[h][y]
=============================================================================
