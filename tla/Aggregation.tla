---------------------------- MODULE Aggregation ----------------------------
(***************************************************************************)
(* GroupDataFrame::agg with one aggregate over one column of signed        *)
(* integers: after the grouping loop, the keys of the groups' first rows,  *)
(* then AggregateNumericKernel over each group.  The kernel's state has    *)
(* the width of the column, and wraps around.                              *)
(***************************************************************************)
EXTENDS GroupBy, Partition, Functions, FiniteSetsExt, Measures

CONSTANT Half       \* the column's type has the integers from -Half up to Half
                    \* (2^7 to 2^63 in the code)

ASSUME HalfAssumption == Half \in Nat \ {0}

InWidth == (-Half)..(Half - 1)

AggregateFunctions == {"sum", "mean", "count", "min", "max"}

ASSUME AggregatesAssumption ==
  /\ NULL \notin Int
  /\ \A in \in Inputs : /\ in.values \in [DOMAIN in.keys -> InWidth \cup {NULL}]
                        /\ in.fn \in AggregateFunctions

VARIABLES
  values, fn,       \* the column, cell by cell, and the aggregate
  phase,            \* "group", "aggregate", then "done"
  group, position,  \* the loops over grouping_order and over a group's rows
  state, valid_count,     \* the kernel's
  key_rows, cells         \* the columns built: a key per group, an aggregate per group

kernel == <<group, position, state, valid_count>>
agg_vars == <<group_vars, values, fn, phase, kernel, key_rows, cells>>

\* What is left of a number in the width of the column, read as a signed integer.
Wrap(n) == ((n + Half) % (2 * Half)) - Half

AggInit ==
  /\ \E in \in Inputs : Take(in) /\ values = in.values /\ fn = in.fn
  /\ phase = "group"
  /\ group = 1
  /\ position = 1
  /\ state = 0
  /\ valid_count = 0
  /\ key_rows = << >>
  /\ cells = << >>

Group ==
  /\ phase = "group"
  /\ Next
  /\ UNCHANGED <<values, fn, phase, kernel, key_rows, cells>>

\* The key columns: each group's is its first row's.
AppendKeys ==
  /\ phase = "group"
  /\ row > Len(key)
  /\ key_rows' = [x \in DOMAIN grouping_order |-> key[groups[grouping_order[x]][1]]]
  /\ phase' = "aggregate"
  /\ UNCHANGED <<group_vars, values, fn, kernel, cells>>

GroupRows == groups[grouping_order[group]]

Aggregating ==
  /\ phase = "aggregate"
  /\ group <= Len(grouping_order)
  /\ UNCHANGED <<group_vars, values, fn, phase, key_rows>>

\* Bug variant: the sum is kept in a wider type than the column's.
AccumulateWide(current, next_val) ==
  CASE fn \in {"sum", "mean"} -> current + next_val
    [] fn = "min" -> Min({current, next_val})
    [] fn = "max" -> Max({current, next_val})

\* accumulate of the aggregate's operator.
Accumulate(current, next_val) ==
  CASE fn \in {"sum", "mean"} -> Wrap(current + next_val)
    [] fn = "min" -> Min({current, next_val})
    [] fn = "max" -> Max({current, next_val})

\* Bug variant: null cells are counted.
NullRowCounted ==
  /\ position' = position + 1
  /\ valid_count' = valid_count + 1
  /\ UNCHANGED state

\* Bug variant: the loop goes on without the next row.
NullRowStalls ==
  /\ UNCHANGED <<position, state, valid_count>>

\* A null cell is passed over ...
NullRow ==
  /\ position' = position + 1
  /\ UNCHANGED <<state, valid_count>>

\* Bug variant: the state is 0 before the first valid cell.
ValidRowFromZero(cell) ==
  /\ state' = IF fn = "count" THEN state ELSE Accumulate(state, cell)
  /\ valid_count' = valid_count + 1
  /\ position' = position + 1

\* ... the first valid cell is the state, and the others are accumulated.
ValidRow(cell) ==
  /\ state' = IF fn = "count" THEN state
              ELSE IF valid_count = 0 THEN cell
              ELSE Accumulate(state, cell)
  /\ valid_count' = valid_count + 1
  /\ position' = position + 1

AggregateRow ==
  /\ Aggregating
  /\ position <= Len(GroupRows)
  /\ LET cell == values[GroupRows[position]]
     IN  \/ cell = NULL /\ NullRow
         \/ cell # NULL /\ ValidRow(cell)
  /\ UNCHANGED <<group, cells>>

\* C++ division rounds towards zero.
Truncated(n, d) == IF n < 0 THEN -((-n) \div d) ELSE n \div d

\* finalize of the aggregate's operator.
Finalized ==
  IF fn = "count" THEN valid_count
  ELSE IF valid_count = 0 THEN NULL
  ELSE IF fn = "mean" THEN Truncated(state, valid_count)
  ELSE state

\* Bug variant: the count goes on from group to group.
FinalizeCountsOn ==
  /\ Aggregating
  /\ position > Len(GroupRows)
  /\ cells' = Append(cells, Finalized)
  /\ group' = group + 1
  /\ position' = 1
  /\ state' = 0
  /\ UNCHANGED valid_count

\* Bug variant: the loop over the next group's rows starts where this one ended.
FinalizeKeepsPosition ==
  /\ Aggregating
  /\ position > Len(GroupRows)
  /\ cells' = Append(cells, Finalized)
  /\ group' = group + 1
  /\ state' = 0
  /\ valid_count' = 0
  /\ UNCHANGED position

\* The next group starts from a kernel call of its own.
FinalizeGroup ==
  /\ Aggregating
  /\ position > Len(GroupRows)
  /\ cells' = Append(cells, Finalized)
  /\ group' = group + 1
  /\ position' = 1
  /\ state' = 0
  /\ valid_count' = 0

Return ==
  /\ phase = "aggregate"
  /\ group > Len(grouping_order)
  /\ phase' = "done"
  /\ UNCHANGED <<group_vars, values, fn, kernel, key_rows, cells>>

AggNext == Group \/ AppendKeys \/ AggregateRow \/ FinalizeGroup \/ Return
AggSpec == AggInit /\ [][AggNext]_agg_vars /\ WF_agg_vars(AggNext)

-----------------------------------------------------------------------------
\* The kernel's state and every sum and mean fit the column's width.
AggTypeOK ==
  /\ phase \in {"group", "aggregate", "done"}
  /\ fn \in AggregateFunctions
  /\ values \in [DOMAIN key -> InWidth \cup {NULL}]
  /\ row \in 1..(Len(key) + 1) /\ column \in 1..(columns + 1)
  /\ gid \in Seq(Chars)
  /\ \A g \in DOMAIN groups : groups[g] \in Seq(DOMAIN key) \ {<< >>}
  /\ grouping_order \in Seq(DOMAIN groups)
  /\ group \in Nat /\ position \in Nat
  /\ state \in InWidth
  /\ valid_count \in 0..Len(key)
  /\ cells \in Seq(InWidth \cup {NULL} \cup 0..Len(key))

\* What each aggregate is of the cells that a column has in some rows, said
\* without the kernel's loop.
ValidRows(column_cells, rows) == {i \in rows : column_cells[i] # NULL}

Total(column_cells, rows) ==
  LET up_to[n \in 0..Len(column_cells)] ==
        IF n = 0 THEN 0 ELSE up_to[n - 1] + IF n \in rows THEN column_cells[n] ELSE 0
  IN  up_to[Len(column_cells)]

\* In the width of the column a sum is known up to multiples of 2 * Half.
IsSum(n, column_cells, rows) ==
  n \in InWidth /\ (n - Total(column_cells, rows)) % (2 * Half) = 0

\* A mean is the quotient of such a sum, rounded towards zero.
IsMean(n, column_cells, rows) ==
  \E sum \in InWidth :
    IsSum(sum, column_cells, rows) /\ n = Truncated(sum, Cardinality(rows))

IsLeast(n, column_cells, rows) ==
  n \in {column_cells[i] : i \in rows} /\ \A i \in rows : n <= column_cells[i]

IsGreatest(n, column_cells, rows) ==
  n \in {column_cells[i] : i \in rows} /\ \A i \in rows : n >= column_cells[i]

IsAggregate(n, function, column_cells, rows) ==
  CASE function = "count"               -> n = Cardinality(rows)
    [] function # "count" /\ rows = {}  -> n = NULL
    [] function = "sum" /\ rows # {}    -> IsSum(n, column_cells, rows)
    [] function = "mean" /\ rows # {}   -> IsMean(n, column_cells, rows)
    [] function = "min" /\ rows # {}    -> IsLeast(n, column_cells, rows)
    [] function = "max" /\ rows # {}    -> IsGreatest(n, column_cells, rows)

\* agg returns a row per group of equal keys: its key, and its aggregate over
\* the group's valid cells, in the width of the column.  The groups are those
\* EagerDataFrame computes its Aggregate from.
AnswersQuery ==
  phase = "done" =>
    LET expected == GroupsOf(key)
    IN  /\ key_rows = [g \in DOMAIN expected |-> key[expected[g][1]]]
        /\ DOMAIN cells = DOMAIN expected
        /\ \A g \in DOMAIN expected :
             IsAggregate(cells[g], fn, values, ValidRows(values, Range(expected[g])))

\* As long as no sum leaves the width, a mean lies between two cells of its
\* group, whatever nulls and signs the group has.
MeanIsBetween ==
  phase = "done" /\ fn = "mean" =>
    \A g \in DOMAIN cells :
      LET rows == ValidRows(values, Range(GroupsOf(key)[g]))
      IN  rows # {} /\ Total(values, rows) \in InWidth =>
            /\ \E i \in rows : values[i] <= cells[g]
            /\ \E i \in rows : values[i] >= cells[g]

\* The loops of agg left, the turns of this one (rows or groups), and what is left of
\* this turn (columns of the row, or rows of the group).
LoopsLeft ==
  CASE phase = "group" -> 2 [] phase = "aggregate" -> 1 [] phase = "done" -> 0
TurnsLeft ==
  IF phase = "group" THEN Len(key) + 1 - row ELSE Len(grouping_order) + 1 - group
TurnLeft ==
  IF phase = "group" THEN columns + 1 - column
  ELSE IF group <= Len(grouping_order) THEN Len(GroupRows) + 1 - position
  ELSE 0

Remaining == <<LoopsLeft, TurnsLeft, TurnLeft>>

\* Every step leaves less to do: no row is grouped twice, none is aggregated in two
\* groups, and each kernel call starts at the first row of its group.
RunsDown ==
  [][Lower(Remaining', Remaining) /\ Remaining \in Nat \X Nat \X Nat]_agg_vars

\* agg returns.
Returns == <>(phase = "done")

(* The inductive invariant behind AnswersQuery.                            *)

\* Where the loops are, and what they have built.
LoopsInv ==
  /\ group \in 1..(Len(grouping_order) + 1)
  /\ Len(cells) = group - 1
  /\ phase = "group" => group = 1
  /\ group > Len(grouping_order) \/ phase = "group" => position = 1
  /\ position = 1 => state = 0 /\ valid_count = 0
  /\ phase # "group" =>
       /\ row > Len(key)
       /\ key_rows = [x \in DOMAIN grouping_order |-> key[Ordered[x][1]]]
  /\ phase = "done" => group > Len(grouping_order)

\* The rows the kernel's loop has seen of its group.
Seen == {GroupRows[x] : x \in 1..(position - 1)}

\* The kernel's state stands for the valid cells among them.
KernelInv ==
  phase = "aggregate" /\ group <= Len(grouping_order) =>
    LET rows == ValidRows(values, Seen)
    IN  /\ position \in 1..(Len(GroupRows) + 1)
        /\ valid_count = Cardinality(rows)
        /\ fn \in {"sum", "mean"} /\ rows # {} => IsSum(state, values, rows)
        /\ fn = "min" /\ rows # {} => IsLeast(state, values, rows)
        /\ fn = "max" /\ rows # {} => IsGreatest(state, values, rows)

\* Every finished group has its aggregate.
CellsInv ==
  \A g \in DOMAIN cells :
    IsAggregate(cells[g], fn, values, ValidRows(values, Range(Ordered[g])))

\* Where the loops are, what the kernel has made of the rows so far, and every cell.
AggInv == AggTypeOK /\ LoopsInv /\ KernelInv /\ CellsInv
=============================================================================
