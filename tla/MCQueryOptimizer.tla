-------------------------- MODULE MCQueryOptimizer --------------------------
(* The driver over arbitrary rules: a plan is a point and the two functions  *)
(* its rules apply to points, one for the rewriting rules named first and    *)
(* one for the rest.  Every pair of functions is tried, so rules that reach  *)
(* a fixpoint at once, after several passes or never, and rules that throw.  *)
EXTENDS QueryOptimizer

Points == 1..3
mcThrown == [point |-> 0]
First == {"ConstFold", "ExprSimplification", "FilterElimination", "ConjSplit", "PredicatePushdown"}

mcApply(r, p) ==
  LET point == (IF r \in First THEN p.first ELSE p.rest)[p.point]
  IN  IF point = 0 THEN mcThrown ELSE [p EXCEPT !.point = point]

\* Point 3 is a plan no rule changes.
Effects == {f \in [Points -> Points \cup {0}] : f[3] = 3}
mcInputs == [point : {1, 2}, first : Effects, rest : Effects]
=============================================================================
