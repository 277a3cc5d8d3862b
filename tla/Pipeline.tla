------------------------------ MODULE Pipeline ------------------------------
(***************************************************************************)
(* Lazy queries over the rules of the optimizer, the plan nodes and the    *)
(* eager operations, and what the documentation promises of them all.  The *)
(* parameters of LazyDataFrame are SchemaIn, RecurseChildren, Execute and  *)
(* OrderIsPromised.                                                        *)
(***************************************************************************)
EXTENDS LazyDataFrame, OptimizerRules, PlanExecution, PlanDrawing

-----------------------------------------------------------------------------
(* Properties *)

CellOfType(c, type) ==
  \/ c = NULL
  \/ c[2] = 1 /\ (type = "bool" => c[1] \in {0, 1})
  \/ type = "double"

\* Every cell of a result has the type its column declares, whatever infer_type
\* and the kernels made of it.
CellsHaveTheirTypes ==
  \A t \in result : \A i \in DOMAIN t.rows :
    /\ Len(t.rows[i]) = Len(t.schema)
    /\ \A x \in DOMAIN t.schema : CellOfType(t.rows[i][x], t.schema[x].type)

\* output_schema tells, of every plan that runs, the columns of its result; the
\* optimizer builds empty tables and places filters on the strength of it.
SchemaIsPredicted ==
  phase \in {"building", "optimized"} =>
    \A t \in Execute(plan) : t.schema = OutputSchema(plan)

Over(p, above, below) ==
  \E n \in Nodes(p) : n.kind = above /\ "child" \in DOMAIN n /\ n.child.kind = below

\* After the cleanup no filter stands on a filter, no projection by names on
\* another, and no sort on a sort.
NothingStacked ==
  phase = "optimized" =>
    \A kind \in {"Filter", "Project", "Sort"} : ~Over(plan, kind, kind)

\* explain shows both plans as they are, one box to each node of each plan.
ExplainShowsBothPlans ==
  phase = "optimized" => Draws(Explain(query, plan), <<query, plan>>)

\* The passes run out only where a filter and a projection keep trading places.
OnlySwapsExhaustThePasses ==
  phase = "optimized" /\ changed => Over(plan, "Filter", "Project")

(* What the documentation says of the optimizer and of the two modes.      *)

\* README: "the driver re-runs the rule sequence until a full pass produces no
\* changes".
ReachesFixpoint == phase = "optimized" => ~changed

RECURSIVE Subexpressions(_)
Subexpressions(e) == {e} \cup UNION {Subexpressions(x) : x \in Operands(e)}

\* README: constant folding is a rule, and later passes find new opportunities
\* for it; an operator over literals alone does not reach execution.
ConstantsAreFolded ==
  phase = "optimized" =>
    \A n \in Nodes(plan) : \A e \in Expressions(n) :
      \A x \in Subexpressions(e) : ~AllLiterals(x)

\* README: "null in any operand yields null", here of the arithmetic in a
\* collected with_column over a scan.
NullOperandYieldsNull ==
  phase = "collected" /\ query.kind = "WithColumn" /\ query.child.kind = "Scan"
    /\ query.expr.kind = "BinaryOp" /\ query.expr.op \in Arithmetic =>
      LET source == CHOOSE t \in Sources[query.child.file] : TRUE
      IN  \A t \in result : \A i \in DOMAIN t.rows : \A e \in Operands(query.expr) :
            Evaluate(e, source.schema, source.rows[i]) = NULL =>
              t.rows[i][FieldIndex(t.schema, query.name)] = NULL

\* Report 8.5: pushing a filter below an inner join "is always sound".
InnerJoinFilterKeepsRows ==
  query.kind = "Filter" /\ query.child.kind = "Join" /\ query.child.how = "inner" =>
    LazyMatchesEager

\* Report 1.1: both modes "produce identical results on identical inputs"; a
\* query the eager calls reject is rejected by collect().
LazyRejectsWhatEagerRejects ==
  phase = "collected" /\ Outcomes(query) = {} => result = {}
=============================================================================
