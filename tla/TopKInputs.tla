----------------------------- MODULE TopKInputs -----------------------------
(* What a call of TopKPlan::execute is given, for both models of its queue.  *)
EXTENDS Integers

CONSTANTS
  Ranks,     \* where the comparator may place a row
  MaxRows,   \* bound on the rows of the input
  MaxK       \* bound on k

ASSUME RanksAreIntegers == Ranks \subseteq Int
ASSUME BoundsAreNaturals == MaxRows \in Nat /\ MaxK \in Nat
=============================================================================
