--------------------------- MODULE EagerDataFrame ---------------------------
(***************************************************************************)
(* The operations of EagerDataFrame and GroupDataFrame on a table          *)
(* [schema, rows].  An operation is the set of tables a call may return:   *)
(* empty when the call throws, several where the order of a hash table's   *)
(* buckets or of a heap's ties decides.                                    *)
(***************************************************************************)
EXTENDS Expressions, Partition, RowOperations

\* Table::Make: a table without columns has no rows.
Table(schema, rows) == [schema |-> schema, rows |-> IF schema = << >> THEN << >> ELSE rows]

Field(name, type) == [name |-> name, type |-> type]
Names(schema) == {schema[i].name : i \in DOMAIN schema}

\* The cells of the named columns in one row.
Project(schema, row, names) == [x \in DOMAIN names |-> row[FieldIndex(schema, names[x])]]
HasAll(schema, names) == \A x \in DOMAIN names : HasField(schema, names[x])

Select(t, names) ==
  IF HasAll(t.schema, names)
  THEN {Table([x \in DOMAIN names |-> t.schema[FieldIndex(t.schema, names[x])]],
              MappedRows(t.rows, [row \in Range(t.rows) |-> Project(t.schema, row, names)]))}
  ELSE {}

\* Both passes over an expression must succeed: its evaluation and its inference.
Computable(e, schema) ==
  EvaluatedType(e, schema) # ERROR /\ InferredType(e, schema) # ERROR

OutputName(exprs, x) ==
  IF exprs[x].kind \in {"Alias", "Column"} THEN exprs[x].name
  ELSE "expr_" \o ToString(x - 1)

SelectExprs(t, exprs) ==
  IF \A x \in DOMAIN exprs : Computable(exprs[x], t.schema)
  THEN {Table([x \in DOMAIN exprs |->
                 Field(OutputName(exprs, x), InferredType(exprs[x], t.schema))],
              MappedRows(t.rows, [row \in Range(t.rows) |->
                 [x \in DOMAIN exprs |-> Evaluate(exprs[x], t.schema, row)]]))}
  ELSE {}

\* A row stays when its mask bit is a valid true.
Filter(t, predicate) ==
  IF EvaluatedType(predicate, t.schema) = "bool"
  THEN {Table(t.schema, FilteredRows(t.rows,
                {row \in Range(t.rows) : Evaluate(predicate, t.schema, row) = True}))}
  ELSE {}

WithColumn(t, name, e) ==
  IF Computable(e, t.schema)
  THEN LET at    == IF HasField(t.schema, name) THEN FieldIndex(t.schema, name)
                    ELSE Len(t.schema) + 1
           Put(s, v) == [x \in 1..(IF at > Len(s) THEN at ELSE Len(s)) |->
                           IF x = at THEN v ELSE s[x]]
       IN  {Table(Put(t.schema, Field(name, InferredType(e, t.schema))),
                  [i \in DOMAIN t.rows |-> Put(t.rows[i], Evaluate(e, t.schema, t.rows[i]))])}
  ELSE {}

HeadRows(t, n) == IF n < 0 THEN {} ELSE {[t EXCEPT !.rows = LeadingRows(@, n)]}

\* Whether a sort puts one row of a table before another.
RowBefore(t, columns, ascending, a, b) ==
  KeyBefore(NULL, Less, ascending,
            Project(t.schema, a, columns), Project(t.schema, b, columns))

Sort(t, columns, ascending) ==
  IF HasAll(t.schema, columns)
  THEN {Table(t.schema, SortedRows(t.rows,
                {p \in Range(t.rows) \X Range(t.rows) :
                   RowBefore(t, columns, ascending, p[1], p[2])}))}
  ELSE {}

\* TopKPlan::execute: a heap of k rows keeps the first k of the sort order, but
\* which of the rows that tie it keeps, and in which order, is the heap's affair.
TopK(t, columns, ascending, k) ==
  IF Len(t.rows) <= k THEN Sort(t, columns, ascending)
  ELSE IF HasAll(t.schema, columns)
  THEN {Table(t.schema, RowsAt(t.rows, kept)) : kept \in
         {s \in [1..k -> DOMAIN t.rows] :
            /\ \A x, y \in 1..k : x < y =>
                 s[x] # s[y] /\ ~RowBefore(t, columns, ascending, t.rows[s[y]], t.rows[s[x]])
            /\ \A i \in DOMAIN t.rows \ {s[x] : x \in 1..k} : \A x \in 1..k :
                 ~RowBefore(t, columns, ascending, t.rows[i], t.rows[s[x]])}}
  ELSE {}

\* The rows of each group, groups in the order of their first rows (group_by).
Groups(t, keys) == GroupsOf([i \in DOMAIN t.rows |-> Project(t.schema, t.rows[i], keys)])

\* agg looks through one alias, and takes nothing but an aggregate inside.
Unaliased(e) == IF e.kind = "Alias" THEN e.child ELSE e
AggName(aggs, x) == IF aggs[x].kind = "Alias" THEN aggs[x].name ELSE "agg_" \o ToString(x - 1)

Aggregable(e, schema) ==
  /\ e.kind = "AggFn"
  /\ EvaluatedType(e.child, schema) # ERROR
  /\ InferredType(e, schema) # ERROR

\* The aggregates that aggregate and aggregate_map make of column and function names.
PairsToExprs(agg_list) ==
  [x \in DOMAIN agg_list |->
     Alias(AggFn(agg_list[x][2], Column(agg_list[x][1])),
           agg_list[x][1] \o "_" \o agg_list[x][2])]

\* GroupDataFrame::agg; without keys all rows make one group, and no rows make none.
Aggregate(t, keys, aggs) ==
  LET fns    == [x \in DOMAIN aggs |-> Unaliased(aggs[x])]
      groups == Groups(t, keys)
      Cell(rows, x) ==
        AggregateCell(fns[x].fn, EvaluatedType(fns[x].child, t.schema),
                      [i \in DOMAIN rows |-> Evaluate(fns[x].child, t.schema, t.rows[rows[i]])])
  IN  IF HasAll(t.schema, keys) /\ \A x \in DOMAIN aggs : Aggregable(fns[x], t.schema)
      THEN {Table([x \in DOMAIN keys |-> t.schema[FieldIndex(t.schema, keys[x])]] \o
                    [x \in DOMAIN aggs |->
                       Field(AggName(aggs, x), InferredType(fns[x], t.schema))],
                  [g \in DOMAIN groups |->
                     Project(t.schema, t.rows[groups[g][1]], keys) \o
                     [x \in DOMAIN aggs |-> Cell(groups[g], x)]])}
      ELSE {}

JoinTypes == {"inner", "left", "right", "outer"}
NoRow == 0

\* left_indices and right_indices of the hash join, zipped (HashJoin computes
\* them step by step): the larger side in order, then the rows of the smaller
\* side nobody matched, one bucket after the other in the hash table's order,
\* then those with a null key.
JoinPairs(left, right, how) ==
  LET swapped == Len(left) < Len(right)
      small   == IF swapped THEN left ELSE right
      large   == IF swapped THEN right ELSE left
      Pair(s, b)   == IF swapped THEN <<s, b>> ELSE <<b, s>>
      HasNull(key) == \E x \in DOMAIN key : key[x] = NULL
      Bucket(key)  == SelectSeq([s \in DOMAIN small |-> s],
                                LAMBDA s : ~HasNull(key) /\ small[s] = key)
      Alone(rows)  == [x \in DOMAIN rows |-> Pair(rows[x], NoRow)]
      Probe(b)     ==
        IF Bucket(large[b]) # << >>
        THEN [x \in DOMAIN Bucket(large[b]) |-> Pair(Bucket(large[b])[x], b)]
        ELSE IF how = "outer" \/ how = (IF swapped THEN "right" ELSE "left")
        THEN <<Pair(NoRow, b)>> ELSE << >>
      probed    == FlattenSeq([b \in DOMAIN large |-> Probe(b)])
      unmatched == {small[s] : s \in {r \in DOMAIN small : ~HasNull(small[r])}}
                   \ {large[b] : b \in DOMAIN large}
      nulls     == SelectSeq([s \in DOMAIN small |-> s], LAMBDA s : HasNull(small[s]))
  IN  IF how = "outer" \/ how = (IF swapped THEN "left" ELSE "right")
      THEN {probed \o FlattenSeq([x \in DOMAIN order |-> Alone(Bucket(order[x]))]) \o Alone(nulls)
              : order \in SetToSeqs(unmatched)}
      ELSE {probed}

\* The columns of a join: the keys, the rest of the left side, then the rest of
\* the right side, renamed when the left side has the name already.
Rest(schema, on) == SelectSeq(schema, LAMBDA f : \A x \in DOMAIN on : f.name # on[x])
RightNames(lschema, rschema, on) ==
  LET rest == Rest(rschema, on)
  IN  [x \in DOMAIN rest |->
         Field(IF HasField(lschema, rest[x].name) THEN rest[x].name \o "_right" ELSE rest[x].name,
               rest[x].type)]

JoinSchema(lschema, rschema, on) ==
  [x \in DOMAIN on |-> Field(on[x], FieldType(lschema, on[x]))]
  \o Rest(lschema, on) \o RightNames(lschema, rschema, on)

DistinctNames(schema) == Cardinality(Names(schema)) = Len(schema)
NamesOf(fields) == [x \in DOMAIN fields |-> fields[x].name]

Joinable(l, r, on, how) ==
  /\ how \in JoinTypes
  /\ on # << >>
  /\ HasAll(l.schema, on) /\ HasAll(r.schema, on)
  /\ \A x \in DOMAIN on : FieldType(l.schema, on[x]) = FieldType(r.schema, on[x])

\* A column whose name its table bears twice is gathered through index -1.
NoDuplicateColumn(l, r) ==
  Assert(DistinctNames(l.schema) /\ DistinctNames(r.schema), "join gathers column -1")

Join(l, r, on, how) ==
  LET lrest  == NamesOf(Rest(l.schema, on))
      rrest  == NamesOf(Rest(r.schema, on))
      Keys(t) == [i \in DOMAIN t.rows |-> Project(t.schema, t.rows[i], on)]
      Nulls(names) == [x \in DOMAIN names |-> NULL]
      Cells(t, i, names) == IF i = NoRow THEN Nulls(names) ELSE Project(t.schema, t.rows[i], names)
      Row(p) == (IF p[1] # NoRow THEN Cells(l, p[1], on) ELSE Cells(r, p[2], on))
                \o Cells(l, p[1], lrest) \o Cells(r, p[2], rrest)
      schema == JoinSchema(l.schema, r.schema, on)
  IN  IF Joinable(l, r, on, how) /\ NoDuplicateColumn(l, r) /\ DistinctNames(schema)
      THEN {Table(schema, [x \in DOMAIN pairs |-> Row(pairs[x])]) :
              pairs \in JoinPairs(Keys(l), Keys(r), how)}
      ELSE {}
=============================================================================
