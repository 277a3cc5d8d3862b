------------------------------ MODULE PlanNodes ------------------------------
(***************************************************************************)
(* The nodes of logical_plan.h: what a builder call or a rule makes.       *)
(***************************************************************************)

\* A scan carries what its output_schema() returns: its cached_schema_, else the
\* schema its file has when the plan is made or the call that asks for it begins.
Scan(file, schema)         == [kind |-> "Scan", file |-> file, schema |-> schema]
ProjectPlan(c, names)      == [kind |-> "Project", child |-> c, names |-> names]
ProjectExprs(c, exprs)     == [kind |-> "ProjectExprs", child |-> c, exprs |-> exprs]
FilterPlan(c, predicate)   == [kind |-> "Filter", child |-> c, predicate |-> predicate]
WithColumnPlan(c, name, e) == [kind |-> "WithColumn", child |-> c, name |-> name, expr |-> e]
AggregatePlan(c, keys, aggs) ==
  [kind |-> "Aggregate", child |-> c, keys |-> keys, exprs |-> aggs]
JoinPlan(l, r, on, how) ==
  [kind |-> "Join", left |-> l, right |-> r, on |-> on, how |-> how]
SortPlan(c, columns, ascending) ==
  [kind |-> "Sort", child |-> c, columns |-> columns, ascending |-> ascending]
LimitPlan(c, n)            == [kind |-> "Limit", child |-> c, n |-> n]
EmptyTablePlan(schema)     == [kind |-> "EmptyTable", schema |-> schema]
TopKPlan(c, columns, ascending, k) ==
  [kind |-> "TopK", child |-> c, columns |-> columns, ascending |-> ascending, k |-> k]

\* The plan of an optimize call that throws.
Thrown == [kind |-> "Thrown"]
=============================================================================
