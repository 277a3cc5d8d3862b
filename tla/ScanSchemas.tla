---------------------------- MODULE ScanSchemas ----------------------------
(***************************************************************************)
(* Which scans of a plan show the optimizer's rules their schema.          *)
(***************************************************************************)
EXTENDS OptimizerRules

RECURSIVE WithSchemas(_, _)
\* The query with its scans' schemas; no file changes while the optimizer runs.
WithSchemas(p, schemas) ==
  CASE p.kind = "Scan" -> Scan(p.file, schemas[p.file])
    [] p.kind = "Join" -> [p EXCEPT !.left = WithSchemas(@, schemas), !.right = WithSchemas(@, schemas)]
    [] OTHER           -> [p EXCEPT !.child = WithSchemas(@, schemas)]

RECURSIVE Shown(_)
\* The files whose scans show output_schema of a plan a schema: a join asks its right
\* side only when the left one has answered, and errors are not cached.
Shown(p) ==
  CASE p.kind = "Scan"       -> IF p.schema = NoSchema THEN {} ELSE {p.file}
    [] p.kind = "EmptyTable" -> {}
    [] p.kind = "Join"       ->
         Shown(p.left) \cup (IF OutputSchema(p.left) = NoSchema THEN {} ELSE Shown(p.right))
    [] OTHER                 -> Shown(p.child)

\* The schemas a rule asks for at one node.
ShownTo(rule_name, p) ==
  IF p.kind # "Filter" THEN {}
  ELSE IF \/ rule_name = "FilterElimination" /\ IsBool(p.predicate, False)
          \/ rule_name = "PredicatePushdown" /\ p.child.kind = "Join" /\ p.child.how = "inner"
  THEN Shown(p.child) ELSE {}

RECURSIVE ShownInPass(_, _)
\* ... and on its way through a plan, until a node throws.
ShownInPass(rule_name, p) ==
  LET Below(q)  == RecurseChildren(rule_name, q)
      Throws(q) == Below(q) = Thrown
  IN  CASE p.kind \in {"Scan", "EmptyTable"} -> {}
        [] p.kind = "Join" ->
             ShownInPass(rule_name, p.left)
             \cup (IF Throws(p.left) THEN {} ELSE ShownInPass(rule_name, p.right))
        [] OTHER ->
             ShownInPass(rule_name, p.child)
             \cup (IF Throws(p.child) THEN {}
                   ELSE ShownTo(rule_name, [p EXCEPT !.child = Below(p.child)]))
=============================================================================
