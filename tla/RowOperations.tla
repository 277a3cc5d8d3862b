---------------------------- MODULE RowOperations ----------------------------
(***************************************************************************)
(* What the operations of EagerDataFrame do to the rows of a table: gather *)
(* them at computed indices, or compute a new row from each.               *)
(***************************************************************************)
EXTENDS Integers, Sequences, FiniteSets

\* gather_column_typed, for all columns.
RowsAt(rows, indices) == [x \in DOMAIN indices |-> rows[indices[x]]]

\* The elements of a set one after the other, as a strict order, the set of its
\* pairs, has them.
Listed(S, order) ==
  [x \in 1..Cardinality(S) |->
     CHOOSE i \in S : Cardinality({j \in S : <<j, i>> \in order}) = x - 1]

Upwards == {p \in Int \X Int : p[1] < p[2]}

\* The indices of the rows a mask keeps, as filter's loop collects them.
KeptIndices(rows, keep) == {i \in DOMAIN rows : rows[i] \in keep}
FilteredRows(rows, keep) ==
  RowsAt(rows, Listed(KeptIndices(rows, keep), Upwards))

\* The comparator of sort and of TopK: the first key two rows differ on decides;
\* nulls come last ascending and first descending.
KeyBefore(null, Less(_, _), ascending, a, b) ==
  \E x \in DOMAIN a :
    /\ \A y \in 1..(x - 1) : a[y] = b[y]
    /\ a[x] # b[x]
    /\ IF null \in {a[x], b[x]} THEN (b[x] = null) = ascending
       ELSE Less(a[x], b[x]) = ascending

\* stable_sort of the row indices by an order of the rows.
StableOrder(rows, before) ==
  {p \in (DOMAIN rows) \X (DOMAIN rows) :
     \/ <<rows[p[1]], rows[p[2]]>> \in before
     \/ <<rows[p[2]], rows[p[1]]>> \notin before /\ p[1] < p[2]}

SortedRows(rows, before) == RowsAt(rows, Listed(DOMAIN rows, StableOrder(rows, before)))

LeadingRows(rows, n) == [x \in 1..(IF n < Len(rows) THEN n ELSE Len(rows)) |-> rows[x]]

\* A new row from each row.
MappedRows(rows, f) == [x \in DOMAIN rows |-> f[rows[x]]]
=============================================================================
