--------------------------- MODULE RelationalJoin ---------------------------
(***************************************************************************)
(* What EagerDataFrame::join promises, with no algorithm in it: the call   *)
(* returns one row for every pair of rows with the same non-null key, and, *)
(* according to the join type, one row for every row of a preserved side   *)
(* that found no partner.  The order of the rows is left open: the source  *)
(* walks an unordered_map and probes whichever side is larger.             *)
(*                                                                         *)
(* A side is the column of its rows' keys; a composite key is one value,   *)
(* NULL when any of its components is null.                                *)
(***************************************************************************)
EXTENDS Integers, Sequences, Listing

CONSTANTS
  Keys,     \* the non-null key values
  NULL,     \* the null key
  MaxRows   \* bound on the rows of each input

VARIABLES
  left, right,   \* key columns of the two inputs
  how,           \* the join type
  answered,      \* has the call returned?
  result         \* the rows it returned

JoinTypes == {"inner", "left", "right", "outer"}

\* The index that stands for "no row on this side" (-1 in the source, whose
\* rows count from 0; here rows count from 1).
NoRow == 0

KeyColumns == UNION {[1..n -> Keys \cup {NULL}] : n \in 0..MaxRows}

\* Row i of column c has a partner in column d.
HasPartner(c, i, d) == c[i] # NULL /\ \E j \in 1..Len(d) : d[j] = c[i]

KeepsLeft(h)  == h \in {"left", "outer"}
KeepsRight(h) == h \in {"right", "outer"}

\* The index pairs <<left row, right row>> of a join.
JoinPairs(l, r, h) ==
  {p \in (1..Len(l)) \X (1..Len(r)) : l[p[1]] # NULL /\ l[p[1]] = r[p[2]]}
  \cup {<<i, NoRow>> : i \in {x \in 1..Len(l) : KeepsLeft(h) /\ ~HasPartner(l, x, r)}}
  \cup {<<NoRow, j>> : j \in {x \in 1..Len(r) : KeepsRight(h) /\ ~HasPartner(r, x, l)}}

\* An output row: where its non-key columns come from, and its key.
JoinRow(l, r, p) ==
  [left |-> p[1], right |-> p[2],
   key  |-> IF p[1] = NoRow THEN r[p[2]] ELSE l[p[1]]]

JoinRows(l, r, h) == {JoinRow(l, r, p) : p \in JoinPairs(l, r, h)}

Init ==
  /\ left \in KeyColumns
  /\ right \in KeyColumns
  /\ how \in JoinTypes
  /\ answered = FALSE
  /\ result = << >>

Answer ==
  /\ ~answered
  /\ answered' = TRUE
  /\ Lists(result', JoinRows(left, right, how))
  /\ UNCHANGED <<left, right, how>>

vars == <<left, right, how, answered, result>>

Spec == Init /\ [][Answer]_vars
=============================================================================
