----------------------------- MODULE Expressions -----------------------------
(***************************************************************************)
(* The expression AST of expr.h and expr.cpp: what a node evaluates to,    *)
(* column by column, and which type infer_type claims for it.  A schema is *)
(* a sequence of [name, type]; a row is a sequence of cells.               *)
(***************************************************************************)
EXTENDS Kernels, FiniteSets

\* Node constructors; "child" is the subtree, op and fn the enum constants.
Column(name)      == [kind |-> "Column", name |-> name]
Literal(type, v)  == [kind |-> "Literal", type |-> type, value |-> v]
Alias(e, name)    == [kind |-> "Alias", child |-> e, name |-> name]
BinaryOp(op, l, r) == [kind |-> "BinaryOp", op |-> op, lhs |-> l, rhs |-> r]
UnaryOp(op, e)    == [kind |-> "UnaryOp", op |-> op, child |-> e]
StringFn(fn, arg, e) == [kind |-> "StringFn", fn |-> fn, arg |-> arg, child |-> e]
AggFn(fn, e)      == [kind |-> "AggFn", fn |-> fn, child |-> e]

\* Schema::GetFieldIndex: a name that is missing, or borne by two columns, has none.
FieldIndex(schema, name) ==
  LET bearers == {i \in DOMAIN schema : schema[i].name = name}
  IN  IF Cardinality(bearers) = 1 THEN CHOOSE i \in bearers : TRUE ELSE 0

HasField(schema, name) == FieldIndex(schema, name) # 0
FieldType(schema, name) ==
  IF HasField(schema, name) THEN schema[FieldIndex(schema, name)].type ELSE ERROR

RECURSIVE Columns(_)
\* extract_columns: the names an expression reads.
Columns(e) ==
  CASE e.kind = "Column"   -> {e.name}
    [] e.kind = "Literal"  -> {}
    [] e.kind = "BinaryOp" -> Columns(e.lhs) \cup Columns(e.rhs)
    [] OTHER               -> Columns(e.child)

RECURSIVE EvaluatedType(_, _)
\* The type of the array (or scalar) evaluate returns; ERROR when it does not.
EvaluatedType(e, schema) ==
  CASE e.kind = "Column"  -> FieldType(schema, e.name)
    [] e.kind = "Literal" -> e.type
    [] e.kind = "AggFn"   -> ERROR
    [] e.kind = "BinaryOp" ->
         LET l == EvaluatedType(e.lhs, schema)
             r == EvaluatedType(e.rhs, schema)
         IN  IF ERROR \in {l, r} THEN ERROR ELSE BinaryType(e.op, l, r)
    [] OTHER ->
         LET t == EvaluatedType(e.child, schema)
         IN  IF t = ERROR THEN ERROR
             ELSE CASE e.kind = "Alias"    -> t
                    [] e.kind = "UnaryOp"  -> UnaryType(e.op, t)
                    [] e.kind = "StringFn" -> IF t = "string" THEN StringFnType(e.fn) ELSE ERROR

RECURSIVE InferredType(_, _)
\* infer_type: looser than evaluate where it does not look at the operands at
\* all, stricter where a boolean takes part in arithmetic.
InferredType(e, schema) ==
  CASE e.kind = "Column"   -> FieldType(schema, e.name)
    [] e.kind = "Literal"  -> e.type
    [] e.kind = "Alias"    -> InferredType(e.child, schema)
    [] e.kind = "StringFn" -> StringFnType(e.fn)
    [] e.kind = "BinaryOp" ->
         IF e.op \notin Arithmetic THEN "bool"
         ELSE LET l == InferredType(e.lhs, schema)
                  r == InferredType(e.rhs, schema)
              IN  IF IsNumeric(l) /\ IsNumeric(r) THEN PromotedType(l, r) ELSE ERROR
    [] e.kind = "UnaryOp"  ->
         IF e.op \in {"is_null", "is_not_null", "~"} THEN "bool"
         ELSE InferredType(e.child, schema)
    [] e.kind = "AggFn"    ->
         IF e.fn = "count" THEN "int64"
         ELSE IF IsNumeric(InferredType(e.child, schema)) THEN InferredType(e.child, schema)
         ELSE ERROR

RECURSIVE Evaluate(_, _, _)
\* The cell of one row, for an expression whose EvaluatedType is no ERROR.
Evaluate(e, schema, row) ==
  CASE e.kind = "Column"   -> row[FieldIndex(schema, e.name)]
    [] e.kind = "Literal"  -> e.value
    [] e.kind = "Alias"    -> Evaluate(e.child, schema, row)
    [] e.kind = "BinaryOp" ->
         BinaryCell(e.op,
                    PromotedType(EvaluatedType(e.lhs, schema), EvaluatedType(e.rhs, schema)),
                    Evaluate(e.lhs, schema, row), Evaluate(e.rhs, schema, row))
    [] e.kind = "UnaryOp"  -> UnaryCell(e.op, Evaluate(e.child, schema, row))
    [] e.kind = "StringFn" -> StringCell(e.fn, e.arg, Evaluate(e.child, schema, row))

RECURSIVE IsScalar(_)
\* Whether evaluate returns a scalar: every operator broadcasts and returns an array.
IsScalar(e) ==
  \/ e.kind = "Literal"
  \/ e.kind = "Alias" /\ IsScalar(e.child)
=============================================================================
