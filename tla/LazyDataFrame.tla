--------------------------- MODULE LazyDataFrame ---------------------------
(***************************************************************************)
(* A lazy query from its scan to collect(): the builder methods of         *)
(* LazyDataFrame grow a plan, collect hands it to the optimizer's driver   *)
(* and executes what comes back.  The eager API calls the operations that  *)
(* the unoptimized plan's nodes call, so Run(query) is its answer.  What   *)
(* the rules and the nodes do to plans and tables are parameters, which    *)
(* Pipeline's instances give the rules and nodes of the library.           *)
(***************************************************************************)
EXTENDS Integers, PlanNodes, Agreement

CONSTANTS
  MaxSteps,         \* bound on the builder calls of a query
  Menus,            \* the arguments the builder calls of a query may get, see Menu
  FileSchema(_),    \* FileSchema(file): the schema a scan of the file shows
  Rewritten(_, _),  \* Rewritten(rule, plan): recurse_children with that rule
  Run(_),           \* Run(plan): the tables execute may return; none: it throws
  Ordered(_)        \* Ordered(query): the order of the rows is promised

ASSUME StepsAssumption == MaxSteps \in Nat

\* A menu with nothing on it but the files a query may start from.
Menu(files) ==
  [files |-> files, names |-> {}, exprs |-> {}, predicates |-> {},
   columns |-> {},     \* [name, expr]
   sorts |-> {},       \* [columns, ascending]
   heads |-> {},
   groupings |-> {},   \* [keys, aggs]
   joins |-> {}]       \* [file, on, how]

VARIABLES
  menu,         \* the menu this query is built from
  query,        \* plan_ of the LazyDataFrame
  steps,        \* builder calls so far
  phase,        \* "building", the driver's phases, then "collected"
  plan,         \* the driver's current_plan
  iteration, rule, changed,   \* the driver's
  result        \* the tables collect() may return; none: it throws

vars == <<menu, query, steps, phase, plan, iteration, rule, changed, result>>

\* collect starts the driver on its query, so the driver's own Init is not used.
Optimizer == INSTANCE QueryOptimizer
  WITH Inputs <- {}, Apply <- Rewritten, input <- query

\* scan_csv and scan_parquet; the files keep their tables while the query runs.
ScanOf(file) == Scan(file, FileSchema(file))

Init ==
  /\ menu \in Menus
  /\ query \in {ScanOf(f) : f \in menu.files}
  /\ steps = 0
  /\ phase = "building"
  /\ plan = query
  /\ iteration = 1
  /\ rule = 1
  /\ changed = FALSE
  /\ result = {}

\* A builder call returns a LazyDataFrame over a new root.
Grow(p) ==
  /\ phase = "building"
  /\ steps < MaxSteps
  /\ query' = p
  /\ plan' = p
  /\ steps' = steps + 1
  /\ UNCHANGED <<menu, phase, iteration, rule, changed, result>>

SelectCall     == \E names \in menu.names : Grow(ProjectPlan(query, names))
SelectExprsCall == \E exprs \in menu.exprs : Grow(ProjectExprs(query, exprs))
FilterCall     == \E predicate \in menu.predicates : Grow(FilterPlan(query, predicate))
WithColumnCall == \E c \in menu.columns : Grow(WithColumnPlan(query, c.name, c.expr))
SortCall       == \E k \in menu.sorts : Grow(SortPlan(query, k.columns, k.ascending))
\* head(n) with a negative n throws in the builder already.
HeadCall       == \E n \in menu.heads : n >= 0 /\ Grow(LimitPlan(query, n))
AggregateCall  == \E g \in menu.groupings : Grow(AggregatePlan(query, g.keys, g.aggs))
JoinCall       == \E j \in menu.joins : Grow(JoinPlan(query, ScanOf(j.file), j.on, j.how))

Collect ==
  /\ phase = "building"
  /\ phase' = "pass"
  /\ UNCHANGED <<menu, query, steps, plan, iteration, rule, changed, result>>

Optimize ==
  /\ Optimizer!Next
  /\ UNCHANGED <<menu, steps, result>>

ExecutePlan ==
  /\ phase = "optimized"
  /\ result' = Run(plan)
  /\ phase' = "collected"
  /\ UNCHANGED <<menu, query, steps, plan, iteration, rule, changed>>

Next ==
  \/ SelectCall
  \/ SelectExprsCall
  \/ FilterCall
  \/ WithColumnCall
  \/ SortCall
  \/ HeadCall
  \/ AggregateCall
  \/ JoinCall
  \/ Collect
  \/ Optimize
  \/ ExecutePlan

Spec == Init /\ [][Next]_vars

-----------------------------------------------------------------------------
(* Properties *)

\* The steps of a query, its phase and the driver's state are in their bounds.
TypeOK ==
  /\ steps \in 0..MaxSteps
  /\ phase \in {"building", "collected"} \cup Optimizer!Phases
  /\ phase \in Optimizer!Phases => Optimizer!TypeOK

\* What collect() and the eager calls may return for a plan.
Outcomes(p) == IF p = Thrown THEN {} ELSE Run(p)

\* A query the eager API answers is answered by collect(), with one of the
\* tables the eager calls may return: same columns, same rows, and the same
\* order unless a join decides it.
LazyMatchesEager ==
  phase \in {"collected", "thrown"} => Answers(Ordered(query), result, Outcomes(query))

\* Every single rule application, over the whole plan, keeps that promise.
EachRuleIsSound ==
  [][plan' # plan /\ phase \in {"pass", "cleanup"} =>
       Answers(Ordered(query), Outcomes(plan'), Outcomes(plan))]_vars
=============================================================================
