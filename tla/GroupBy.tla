------------------------------ MODULE GroupBy ------------------------------
(***************************************************************************)
(* The grouping loop of GroupDataFrame::agg: the key string of each row is *)
(* put together column by column (grouping_helper), looked up in a hash    *)
(* map from key strings to rows, and pushed to grouping_order when new.    *)
(***************************************************************************)
EXTENDS KeyStrings

CONSTANTS
  Inputs      \* the tables that may be grouped: [columns, keys], keys[i] the key cells of row i

ASSUME InputsAssumption ==
  \A in \in Inputs : /\ in.columns \in Nat
                     /\ in.keys \in Seq([1..in.columns -> Cells])

VARIABLES
  columns,         \* how many key columns there are
  key,             \* key[i]: the cells of row i in them
  row, column,     \* the loops of agg and of grouping_helper
  gid,             \* the key string so far
  groups,          \* the hash map: key string -> rows
  grouping_order   \* its keys, in the order they were inserted

inputs == <<columns, key>>
group_vars == <<columns, key, row, column, gid, groups, grouping_order>>

Take(in) ==
  /\ columns = in.columns
  /\ key = in.keys
  /\ row = 1
  /\ column = 1
  /\ gid = << >>
  /\ groups = << >>
  /\ grouping_order = << >>

Init == \E in \in Inputs : Take(in)

\* grouping_helper appends one cell.
KeyColumn ==
  /\ row <= Len(key)
  /\ column <= columns
  /\ gid' = gid \o KeyPart(key[row][column]) \o Bar(column, columns)
  /\ column' = column + 1
  /\ UNCHANGED <<inputs, row, groups, grouping_order>>

\* The next row starts with an empty string.
NextRow ==
  /\ row <= Len(key)
  /\ column > columns
  /\ row' = row + 1
  /\ column' = 1
  /\ gid' = << >>
  /\ UNCHANGED inputs

\* try_emplace finds the string, and the row goes to its group.
OldGroup ==
  /\ NextRow
  /\ gid \in DOMAIN groups
  /\ groups' = [groups EXCEPT ![gid] = Append(@, row)]
  /\ UNCHANGED grouping_order

\* Bug variant: groups are listed with the newest first.
NewGroupFirst ==
  /\ NextRow
  /\ gid \notin DOMAIN groups
  /\ groups' = [g \in DOMAIN groups \cup {gid} |-> IF g = gid THEN <<row>> ELSE groups[g]]
  /\ grouping_order' = <<gid>> \o grouping_order

\* try_emplace inserts it.
NewGroup ==
  /\ NextRow
  /\ gid \notin DOMAIN groups
  /\ groups' = [g \in DOMAIN groups \cup {gid} |-> IF g = gid THEN <<row>> ELSE groups[g]]
  /\ grouping_order' = Append(grouping_order, gid)

Next == KeyColumn \/ OldGroup \/ NewGroup
Spec == Init /\ [][Next]_group_vars

-----------------------------------------------------------------------------
\* The groups in the order of the output.
Ordered == [x \in DOMAIN grouping_order |-> groups[grouping_order[x]]]

Grouped == INSTANCE Grouping WITH groups <- Ordered

\* Grouping by strings is grouping by keys: no two keys share a string, whatever
\* bars, colons and digits their texts hold, and no key has two.
GroupsByKey == Grouped!Spec
KeyClasses  == Grouped!Classes
=============================================================================
