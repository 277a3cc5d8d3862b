---------------------------- MODULE PlanExecution ----------------------------
(***************************************************************************)
(* execute: a node runs its children and calls the eager operation of the  *)
(* same name.                                                              *)
(***************************************************************************)
EXTENDS LogicalPlan

CONSTANT Sources    \* Sources[file]: the tables reading it may return; none: it cannot be read

\* The schema of the table a file holds.
SchemaIn(file) == (CHOOSE t \in Sources[file] : TRUE).schema

RECURSIVE Execute(_)
\* The tables a plan may return; none when a node on the way throws.
Execute(p) ==
  CASE p.kind = "Scan"       -> Sources[p.file]
    [] p.kind = "EmptyTable" -> {Table(p.schema, << >>)}
    [] p.kind = "Join"       ->
         UNION {Join(l, r, p.on, p.how) : l \in Execute(p.left), r \in Execute(p.right)}
    [] OTHER -> UNION {
         CASE p.kind = "Project"      -> Select(t, p.names)
           [] p.kind = "ProjectExprs" -> SelectExprs(t, p.exprs)
           [] p.kind = "Filter"       -> Filter(t, p.predicate)
           [] p.kind = "WithColumn"   -> WithColumn(t, p.name, p.expr)
           [] p.kind = "Aggregate"    -> Aggregate(t, p.keys, p.exprs)
           [] p.kind = "Sort"         -> Sort(t, p.columns, p.ascending)
           [] p.kind = "Limit"        -> HeadRows(t, p.n)
           [] p.kind = "TopK"         -> TopK(t, p.columns, p.ascending, p.k)
         : t \in Execute(p.child)}

-----------------------------------------------------------------------------
RECURSIVE Nodes(_)
Nodes(p) ==
  {p} \cup CASE p.kind \in {"Scan", "EmptyTable", "Thrown"} -> {}
             [] p.kind = "Join" -> Nodes(p.left) \cup Nodes(p.right)
             [] OTHER -> Nodes(p.child)

\* Which input of a join is hashed, and so the order of its result, depends on
\* how many rows reach the join: only without joins is the order promised.
OrderIsPromised(query) == \A n \in Nodes(query) : n.kind # "Join"
=============================================================================
