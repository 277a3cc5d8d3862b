--------------------------- MODULE OptimizerRules ---------------------------
(***************************************************************************)
(* The rules of query_optimizer.cpp: each maps a plan node to a plan, and  *)
(* returns the node itself where it does not apply.                        *)
(***************************************************************************)
EXTENDS LogicalPlan

\* Rebuilds a node whose expressions a rule rewrites.
MapExpressions(p, F(_)) ==
  CASE p.kind = "Filter"     -> [p EXCEPT !.predicate = F(@)]
    [] p.kind = "WithColumn" -> [p EXCEPT !.expr = F(@)]
    [] p.kind \in {"ProjectExprs", "Aggregate"} ->
         [p EXCEPT !.exprs = [x \in DOMAIN @ |-> F(@[x])]]
    [] OTHER -> p

Expressions(p) ==
  CASE p.kind = "Filter"     -> {p.predicate}
    [] p.kind = "WithColumn" -> {p.expr}
    [] p.kind \in {"ProjectExprs", "Aggregate"} -> {p.exprs[x] : x \in DOMAIN p.exprs}
    [] OTHER -> {}

\* The expression with its children mapped.
MapChildren(e, F(_)) ==
  CASE e.kind \in {"Column", "Literal"} -> e
    [] e.kind = "BinaryOp" -> [e EXCEPT !.lhs = F(@), !.rhs = F(@)]
    [] OTHER -> [e EXCEPT !.child = F(@)]

Operands(e) ==
  CASE e.kind \in {"Column", "Literal"} -> {}
    [] e.kind = "BinaryOp" -> {e.lhs, e.rhs}
    [] OTHER -> {e.child}

\* An operator (not an alias) all of whose operands are literals.
AllLiterals(e) ==
  /\ e.kind \notin {"Column", "Literal", "Alias"}
  /\ \A operand \in Operands(e) : operand.kind = "Literal"

RECURSIVE FoldNode(_)
\* fold_node keeps what the node evaluates to over one row, if that is a scalar.
FoldNode(e) ==
  LET folded == MapChildren(e, FoldNode)
  IN  IF AllLiterals(folded) /\ EvaluatedType(folded, << >>) # ERROR /\ IsScalar(folded)
      THEN Literal(EvaluatedType(folded, << >>), Evaluate(folded, << >>, << >>))
      ELSE folded

RECURSIVE FoldThrows(_)
\* A kernel that rejects the literals throws out of optimize; an aggregate
\* outside agg() is an error Status, which fold_node ignores.
FoldThrows(e) ==
  \/ AllLiterals(e) /\ e.kind # "AggFn" /\ EvaluatedType(e, << >>) = ERROR
  \/ \E operand \in Operands(e) : FoldThrows(operand)

ConstFold(p) ==
  IF \E e \in Expressions(p) : FoldThrows(e) THEN Thrown ELSE MapExpressions(p, FoldNode)

IsNumber(e, n) == e.kind = "Literal" /\ IsNumeric(e.type) /\ e.value = Whole(n)
IsBool(e, b)   == e.kind = "Literal" /\ e.type = "bool" /\ e.value = b

\* The node a binary operator over simplified operands stands for.
SimplifyBinary(e) ==
  LET l == e.lhs
      r == e.rhs
  IN  IF e.op = "+" /\ IsNumber(l, 0) THEN r
      ELSE IF e.op \in {"+", "-"} /\ IsNumber(r, 0) THEN l
      ELSE IF e.op = "*" /\ IsNumber(l, 1) THEN r
      ELSE IF e.op \in {"*", "/"} /\ IsNumber(r, 1) THEN l
      ELSE IF e.op = "*" /\ IsNumber(l, 0) THEN l
      ELSE IF e.op = "*" /\ IsNumber(r, 0) THEN r
      ELSE IF (e.op = "&" /\ IsBool(l, True)) \/ (e.op = "|" /\ IsBool(l, False)) THEN r
      ELSE IF (e.op = "&" /\ IsBool(r, True)) \/ (e.op = "|" /\ IsBool(r, False)) THEN l
      ELSE IF (e.op = "&" /\ IsBool(l, False)) \/ (e.op = "|" /\ IsBool(l, True)) THEN l
      ELSE IF (e.op = "&" /\ IsBool(r, False)) \/ (e.op = "|" /\ IsBool(r, True)) THEN r
      ELSE e

RECURSIVE SimplifyNode(_)
\* simplify_node; a string function keeps the children it had.
SimplifyNode(e) ==
  LET s == MapChildren(e, SimplifyNode)
      doubled == /\ e.kind = "UnaryOp" /\ e.op \in {"~", "-"}
                 /\ s.child.kind = "UnaryOp" /\ s.child.op = e.op
  IN  CASE e.kind = "StringFn" -> e
        [] e.kind = "BinaryOp" -> SimplifyBinary(s)
        [] OTHER -> IF doubled THEN s.child.child ELSE s

ExprSimplification(p) == MapExpressions(p, SimplifyNode)

FilterElimination(p) ==
  IF p.kind # "Filter" THEN p
  ELSE IF IsBool(p.predicate, True) THEN p.child
  ELSE IF ~IsBool(p.predicate, False) THEN p
  ELSE IF OutputSchema(p.child) = NoSchema THEN Thrown
  ELSE EmptyTablePlan(OutputSchema(p.child))

ConjSplit(p) ==
  IF p.kind = "Filter" /\ p.predicate.kind = "BinaryOp" /\ p.predicate.op = "&"
  THEN FilterPlan(FilterPlan(p.child, p.predicate.rhs), p.predicate.lhs)
  ELSE p

\* Whether every column the expression reads is a field of the schema.
ResolvesIn(schema, e) == \A name \in Columns(e) : HasField(schema, name)

\* Bug variant: the filter also goes below an outer join.
PushIntoAnyJoin(p) ==
  LET join   == p.child
      left   == OutputSchema(join.left)
      right  == OutputSchema(join.right)
  IN  IF NoSchema \in {left, right} THEN p
      ELSE IF ResolvesIn(left, p.predicate)
      THEN [join EXCEPT !.left = FilterPlan(@, p.predicate)]
      ELSE IF ResolvesIn(right, p.predicate)
      THEN [join EXCEPT !.right = FilterPlan(@, p.predicate)]
      ELSE p

\* A filter over an inner join goes to a side that has all its columns, the left
\* side first; output_schema that throws leaves the plan alone.
PushIntoJoin(p) ==
  LET join   == p.child
      left   == OutputSchema(join.left)
      right  == OutputSchema(join.right)
  IN  IF join.how # "inner" \/ NoSchema \in {left, right} THEN p
      ELSE IF ResolvesIn(left, p.predicate)
      THEN [join EXCEPT !.left = FilterPlan(@, p.predicate)]
      ELSE IF ResolvesIn(right, p.predicate)
      THEN [join EXCEPT !.right = FilterPlan(@, p.predicate)]
      ELSE p

PredicatePushdown(p) ==
  IF p.kind # "Filter" THEN p
  ELSE IF p.child.kind \in {"Sort", "Project"}
  THEN [p.child EXCEPT !.child = FilterPlan(@, p.predicate)]
  ELSE IF p.child.kind = "Join" THEN PushIntoJoin(p)
  ELSE p

\* The columns a filter or a sort needs below a projection.
Needs(p) == IF p.kind = "Filter" THEN Columns(p.predicate) ELSE Range(p.columns)

ProjectionPushdown(p) ==
  IF /\ p.kind = "Project"
     /\ p.child.kind \in {"Filter", "Sort"}
     /\ Needs(p.child) \subseteq Range(p.names)
  THEN [p.child EXCEPT !.child = ProjectPlan(@, p.names)]
  ELSE p

\* Bug variant: the limit goes below a filter too.
LimitPushdownBelowFilter(p) ==
  IF p.kind # "Limit" THEN p
  ELSE IF p.child.kind \in {"Project", "ProjectExprs", "Filter"}
  THEN [p.child EXCEPT !.child = LimitPlan(@, p.n)]
  ELSE IF p.child.kind = "Sort"
  THEN TopKPlan(p.child.child, p.child.columns, p.child.ascending, p.n)
  ELSE p

LimitPushdown(p) ==
  IF p.kind # "Limit" THEN p
  ELSE IF p.child.kind \in {"Project", "ProjectExprs"}
  THEN [p.child EXCEPT !.child = LimitPlan(@, p.n)]
  ELSE IF p.child.kind = "Sort"
  THEN TopKPlan(p.child.child, p.child.columns, p.child.ascending, p.n)
  ELSE p

FilterMerging(p) ==
  IF p.kind = "Filter" /\ p.child.kind = "Filter"
  THEN FilterPlan(p.child.child, BinaryOp("&", p.predicate, p.child.predicate))
  ELSE p

ProjectMerging(p) ==
  IF p.kind = "Project" /\ p.child.kind = "Project"
  THEN ProjectPlan(p.child.child, p.names) ELSE p

\* Bug variant: only a sort on the same columns is dropped.
SortEliminationOfSameColumns(p) ==
  IF p.kind = "Sort" /\ p.child.kind = "Sort" /\ p.columns = p.child.columns
  THEN SortPlan(p.child.child, p.columns, p.ascending) ELSE p

SortElimination(p) ==
  IF p.kind = "Sort" /\ p.child.kind = "Sort"
  THEN SortPlan(p.child.child, p.columns, p.ascending) ELSE p

HavingVsWhere(p) ==
  IF /\ p.kind = "Filter"
     /\ p.child.kind = "Aggregate"
     /\ Columns(p.predicate) \subseteq Range(p.child.keys)
  THEN [p.child EXCEPT !.child = FilterPlan(@, p.predicate)]
  ELSE p

\* One rule on one node.
ApplyRule(rule, p) ==
  CASE rule = "ConstFold"          -> ConstFold(p)
    [] rule = "ExprSimplification" -> ExprSimplification(p)
    [] rule = "FilterElimination"  -> FilterElimination(p)
    [] rule = "ConjSplit"          -> ConjSplit(p)
    [] rule = "PredicatePushdown"  -> PredicatePushdown(p)
    [] rule = "ProjectionPushdown" -> ProjectionPushdown(p)
    [] rule = "LimitPushdown"      -> LimitPushdown(p)
    [] rule = "FilterMerging"      -> FilterMerging(p)
    [] rule = "ProjectMerging"     -> ProjectMerging(p)
    [] rule = "SortElimination"    -> SortElimination(p)
    [] rule = "HavingVsWhere"      -> HavingVsWhere(p)

RECURSIVE RecurseChildren(_, _)
\* One rule over the whole plan, children first, each node once.
RecurseChildren(rule, p) ==
  LET rebuilt == CASE p.kind \in {"Scan", "EmptyTable"} -> p
                   [] p.kind = "Join" -> [p EXCEPT !.left = RecurseChildren(rule, @),
                                                   !.right = RecurseChildren(rule, @)]
                   [] OTHER -> [p EXCEPT !.child = RecurseChildren(rule, @)]
      children == CASE p.kind \in {"Scan", "EmptyTable"} -> {}
                    [] p.kind = "Join" -> {rebuilt.left, rebuilt.right}
                    [] OTHER -> {rebuilt.child}
  IN  IF Thrown \in children THEN Thrown ELSE ApplyRule(rule, rebuilt)
=============================================================================
