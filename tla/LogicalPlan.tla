----------------------------- MODULE LogicalPlan -----------------------------
(***************************************************************************)
(* The output_schema of the plan nodes, which predicts the schema of a     *)
(* node's result without running anything.  PlanExecution runs them.       *)
(***************************************************************************)
EXTENDS EagerDataFrame, PlanNodes

\* What output_schema returns when it throws.
NoSchema == <<Field("", ERROR)>>

\* The schema of a node over a child's; an expression or a name that does not
\* resolve throws, and nothing else does.
ProjectSchema(schema, names) ==
  IF HasAll(schema, names)
  THEN [x \in DOMAIN names |-> schema[FieldIndex(schema, names[x])]] ELSE NoSchema

ExprsSchema(schema, exprs, NameOf(_, _)) ==
  LET types == [x \in DOMAIN exprs |-> InferredType(exprs[x], schema)]
  IN  IF \A x \in DOMAIN exprs : types[x] # ERROR
      THEN [x \in DOMAIN exprs |-> Field(NameOf(exprs, x), types[x])] ELSE NoSchema

\* Bug variant: a replaced column moves to the end.
WithColumnSchemaAppends(schema, name, e) ==
  LET field == Field(name, InferredType(e, schema))
  IN  IF field.type = ERROR THEN NoSchema
      ELSE Append(SelectSeq(schema, LAMBDA f : f.name # name), field)

WithColumnSchema(schema, name, e) ==
  LET field == Field(name, InferredType(e, schema))
  IN  IF field.type = ERROR THEN NoSchema
      ELSE IF HasField(schema, name) THEN [schema EXCEPT ![FieldIndex(schema, name)] = field]
      ELSE Append(schema, field)

AggregateSchema(schema, keys, aggs) ==
  LET key == ProjectSchema(schema, keys)
      agg == ExprsSchema(schema, aggs, AggName)
  IN  IF NoSchema \in {key, agg} THEN NoSchema ELSE key \o agg

JoinPlanSchema(l, r, on) ==
  IF ~HasAll(l, on) THEN NoSchema
  ELSE ProjectSchema(l, on) \o Rest(l, on) \o RightNames(l, r, on)

RECURSIVE OutputSchema(_)
OutputSchema(p) ==
  CASE p.kind \in {"Scan", "EmptyTable"} -> p.schema
    [] p.kind = "Join"       ->
         LET l == OutputSchema(p.left)
             r == OutputSchema(p.right)
         IN  IF NoSchema \in {l, r} THEN NoSchema ELSE JoinPlanSchema(l, r, p.on)
    [] OTHER ->
         LET schema == OutputSchema(p.child)
         IN  IF schema = NoSchema THEN NoSchema
             ELSE CASE p.kind = "Project"      -> ProjectSchema(schema, p.names)
                    [] p.kind = "ProjectExprs" -> ExprsSchema(schema, p.exprs, OutputName)
                    [] p.kind = "WithColumn"   -> WithColumnSchema(schema, p.name, p.expr)
                    [] p.kind = "Aggregate"    -> AggregateSchema(schema, p.keys, p.exprs)
                    [] OTHER                   -> schema
=============================================================================
