--------------------------- MODULE QueryOptimizer ---------------------------
(***************************************************************************)
(* The driver, QueryOptimizer::optimize: passes over the rules until a     *)
(* pass leaves the plan as it was or MaxIterations passes have run, then   *)
(* each cleanup rule once.  One action per rule application; what a rule   *)
(* does to a plan is a parameter.  A pass has changed the plan when the    *)
(* root pointer differs: every rule that does something builds a new node, *)
(* and no rule undoes within one traversal what it did there, so that is   *)
(* the same as one of its applications returning another plan.             *)
(***************************************************************************)
EXTENDS Integers, Sequences

CONSTANTS
  Inputs,           \* the plans optimize may be called with
  Apply(_, _),      \* Apply(rule, plan): recurse_children with that rule
  Thrown            \* the outcome of a rule that throws

VARIABLES
  input,        \* the plan optimize was called with
  phase,        \* "pass", "cleanup", "optimized" or "thrown"; others belong to the caller
  plan,         \* current_plan
  iteration,    \* i + 1
  rule,         \* the index of the rule to apply next
  changed       \* current_plan != prev_plan

vars == <<input, phase, plan, iteration, rule, changed>>

\* Bug variant: merging filters is a rule of the passes, not of the cleanup only.
RulesWithFilterMerging ==
  <<"ConstFold", "ExprSimplification", "FilterElimination", "ConjSplit",
    "PredicatePushdown", "ProjectionPushdown", "LimitPushdown", "FilterMerging",
    "ProjectMerging", "SortElimination", "HavingVsWhere">>

\* The rules in the order optimize tries them, and those of its cleanup.
Rules == <<"ConstFold", "ExprSimplification", "FilterElimination", "ConjSplit",
           "PredicatePushdown", "ProjectionPushdown", "LimitPushdown", "ProjectMerging",
           "SortElimination", "HavingVsWhere">>
CleanupRules == <<"FilterMerging", "ProjectMerging", "SortElimination">>

MaxIterations == 10

Init ==
  /\ input \in Inputs
  /\ phase = "pass"
  /\ plan = input
  /\ iteration = 1
  /\ rule = 1
  /\ changed = FALSE

\* Bug variant: a pass is judged by its last rule.
ApplyRuleForgetsChange ==
  /\ phase = "pass"
  /\ rule <= Len(Rules)
  /\ plan' = Apply(Rules[rule], plan)
  /\ changed' = (plan' # plan)
  /\ rule' = rule + 1
  /\ phase' = IF plan' = Thrown THEN "thrown" ELSE "pass"
  /\ UNCHANGED <<input, iteration>>

ApplyRule ==
  /\ phase = "pass"
  /\ rule <= Len(Rules)
  /\ plan' = Apply(Rules[rule], plan)
  /\ changed' = (changed \/ plan' # plan)
  /\ rule' = rule + 1
  /\ phase' = IF plan' = Thrown THEN "thrown" ELSE "pass"
  /\ UNCHANGED <<input, iteration>>

\* Bug variant: the passes are not counted.
NextPassUncounted ==
  /\ phase = "pass"
  /\ rule > Len(Rules)
  /\ changed
  /\ iteration < MaxIterations
  /\ rule' = 1
  /\ changed' = FALSE
  /\ UNCHANGED <<input, phase, plan, iteration>>

\* Bug variant: the loop runs once too often.
NextPassOffByOne ==
  /\ phase = "pass"
  /\ rule > Len(Rules)
  /\ changed
  /\ iteration <= MaxIterations
  /\ iteration' = iteration + 1
  /\ rule' = 1
  /\ changed' = FALSE
  /\ UNCHANGED <<input, phase, plan>>

NextPass ==
  /\ phase = "pass"
  /\ rule > Len(Rules)
  /\ changed
  /\ iteration < MaxIterations
  /\ iteration' = iteration + 1
  /\ rule' = 1
  /\ changed' = FALSE
  /\ UNCHANGED <<input, phase, plan>>

LeaveLoop ==
  /\ phase = "pass"
  /\ rule > Len(Rules)
  /\ ~changed \/ iteration = MaxIterations
  /\ phase' = "cleanup"
  /\ rule' = 1
  /\ UNCHANGED <<input, plan, iteration, changed>>

ApplyCleanupRule ==
  /\ phase = "cleanup"
  /\ rule <= Len(CleanupRules)
  /\ plan' = Apply(CleanupRules[rule], plan)
  /\ rule' = rule + 1
  /\ phase' = IF plan' = Thrown THEN "thrown" ELSE "cleanup"
  /\ UNCHANGED <<input, iteration, changed>>

Return ==
  /\ phase = "cleanup"
  /\ rule > Len(CleanupRules)
  /\ phase' = "optimized"
  /\ UNCHANGED <<input, plan, iteration, rule, changed>>

Next ==
  \/ ApplyRule
  \/ NextPass
  \/ LeaveLoop
  \/ ApplyCleanupRule
  \/ Return

\* optimize is a sequential call; nothing in its loops waits.
Spec == Init /\ [][Next]_vars
FairSpec == Spec /\ WF_vars(Next)

-----------------------------------------------------------------------------
(* Properties *)

Phases == {"pass", "cleanup", "optimized", "thrown"}

\* The driver stays within its ten passes and its rule lists.
TypeOK ==
  /\ phase \in Phases
  /\ iteration \in 1..MaxIterations
  /\ rule \in 1..(Len(Rules) + 1)
  /\ phase = "cleanup" => rule <= Len(CleanupRules) + 1
  /\ changed \in BOOLEAN

\* A pass that ends without a change has found a plan no rule of the sequence
\* changes: leaving the loop before its cap means it reached the fixpoint.
StopsAtFixpoint ==
  /\ phase = "pass" /\ ~changed => \A r \in 1..(rule - 1) : Apply(Rules[r], plan) = plan
  /\ phase = "cleanup" /\ rule = 1 /\ ~changed =>
       \A r \in 1..Len(Rules) : Apply(Rules[r], plan) = plan

\* The steps the driver has left at most.
Remaining ==
  CASE phase = "pass" ->
         (MaxIterations - iteration) * (Len(Rules) + 1) + (Len(Rules) + 1 - rule)
         + Len(CleanupRules) + 2
    [] phase = "cleanup" -> Len(CleanupRules) + 2 - rule
    [] OTHER -> 0

\* Whatever the rules do to the plan, even undoing one another forever, every
\* step brings optimize closer to its end.
RunsDown == [][Remaining' < Remaining]_vars

\* optimize returns a plan or throws.
Returns == <>(phase \in {"optimized", "thrown"})
=============================================================================
