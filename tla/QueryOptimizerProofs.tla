------------------------ MODULE QueryOptimizerProofs ------------------------
(***************************************************************************)
(* What the driver guarantees whatever its rules do: it stays within its   *)
(* bounds, leaves its loop early only at a fixpoint, comes closer to its   *)
(* end with every step, and returns a plan that stands to its input as     *)
(* every rule's result stands to its argument.                             *)
(***************************************************************************)
EXTENDS QueryOptimizer, Agreement, TLAPS

\* The lengths of the two rule lists of QueryOptimizer::optimize.
LEMMA RuleCounts == Len(Rules) = 10 /\ Len(CleanupRules) = 3
BY DEF Rules, CleanupRules

\* A step of the driver keeps its phase, counters and flag in their ranges.
LEMMA DriverTypeStep == TypeOK /\ [Next]_vars => TypeOK'
<1> SUFFICES ASSUME TypeOK, [Next]_vars PROVE TypeOK'
  OBVIOUS
<1> USE RuleCounts DEF TypeOK, Phases, MaxIterations
<1>1. CASE ApplyRule
  BY <1>1 DEF ApplyRule
<1>2. CASE NextPass
  <2>1. changed' \in BOOLEAN
    BY <1>2 DEF NextPass
  <2>2. QED
    BY <1>2, <2>1 DEF NextPass
<1>3. CASE LeaveLoop
  BY <1>3 DEF LeaveLoop
<1>4. CASE ApplyCleanupRule
  BY <1>4 DEF ApplyCleanupRule
<1>5. CASE Return
  BY <1>5 DEF Return
<1>6. CASE UNCHANGED vars
  BY <1>6 DEF vars
<1>7. QED
  BY <1>1, <1>2, <1>3, <1>4, <1>5, <1>6 DEF Next

\* The driver never runs past its ten passes or its rule lists, and its phase,
\* counters and flag keep their ranges.
THEOREM DriverTypeCorrect == Spec => []TypeOK
<1>1. Init => TypeOK
  <2>1. Init => changed \in BOOLEAN
    BY DEF Init
  <2>2. QED
    BY <2>1, RuleCounts DEF Init, TypeOK, Phases, MaxIterations
<1>2. QED
  BY <1>1, DriverTypeStep, PTL DEF Spec

\* What the caller of the driver needs of a step: it starts in the driver's own
\* phases and ends in one of them, and the driver is in "thrown" exactly from the
\* rule on that throws.
LEMMA DriverStep ==
  Next => /\ phase \in {"pass", "cleanup"}
          /\ input' = input
          /\ \/ phase' = "thrown" /\ plan' = Thrown
             \/ phase' \in Phases \ {"thrown"} /\ (plan' # Thrown \/ plan' = plan)
<1> SUFFICES ASSUME Next
             PROVE  /\ phase \in {"pass", "cleanup"}
                    /\ input' = input
                    /\ \/ phase' = "thrown" /\ plan' = Thrown
                       \/ phase' \in Phases \ {"thrown"} /\ (plan' # Thrown \/ plan' = plan)
  OBVIOUS
<1>1. CASE ApplyRule
  BY <1>1 DEF ApplyRule, Phases
<1>2. CASE NextPass
  BY <1>2 DEF NextPass, Phases
<1>3. CASE LeaveLoop
  BY <1>3 DEF LeaveLoop, Phases
<1>4. CASE ApplyCleanupRule
  BY <1>4 DEF ApplyCleanupRule, Phases
<1>5. CASE Return
  BY <1>5 DEF Return, Phases
<1> QED
  BY <1>1, <1>2, <1>3, <1>4, <1>5 DEF Next

\* When optimize breaks out of its loop because a pass changed nothing, no rule
\* of the sequence changes the plan: the early exit is a fixpoint.
THEOREM EarlyExitIsFixpoint == Spec => []StopsAtFixpoint
<1>1. Init => StopsAtFixpoint
  BY DEF Init, StopsAtFixpoint
<1>2. TypeOK /\ StopsAtFixpoint /\ [Next]_vars => StopsAtFixpoint'
  <2> SUFFICES ASSUME TypeOK, StopsAtFixpoint, [Next]_vars PROVE StopsAtFixpoint'
    OBVIOUS
  <2> USE RuleCounts
  <2>1. CASE ApplyRule
    <3>1. ~(phase' = "cleanup")
      BY <2>1 DEF ApplyRule
    <3>2. ASSUME ~changed', NEW r \in 1..(rule' - 1) PROVE Apply(Rules[r], plan') = plan'
      <4>1. plan' = plan /\ ~changed /\ phase = "pass" /\ plan' = Apply(Rules[rule], plan)
        BY <2>1, <3>2 DEF ApplyRule
      <4>2. rule \in Nat /\ rule' = rule + 1
        BY <2>1 DEF ApplyRule, TypeOK
      <4>3. CASE r = rule
        BY <4>1, <4>3
      <4>4. CASE r # rule
        <5>1. r \in 1..(rule - 1)
          BY <3>2, <4>2, <4>4
        <5>2. QED
          BY <4>1, <5>1 DEF StopsAtFixpoint
      <4>5. QED
        BY <4>3, <4>4
    <3>3. QED
      BY <3>1, <3>2 DEF StopsAtFixpoint
  <2>2. CASE NextPass
    BY <2>2 DEF NextPass, StopsAtFixpoint
  <2>3. CASE LeaveLoop
    <3>1. phase = "pass" /\ rule = 11 /\ phase' = "cleanup" /\ plan' = plan /\ changed' = changed
      BY <2>3 DEF LeaveLoop, TypeOK
    <3>2. QED
      BY <3>1 DEF StopsAtFixpoint
  <2>4. CASE ApplyCleanupRule
    BY <2>4 DEF ApplyCleanupRule, StopsAtFixpoint, TypeOK
  <2>5. CASE Return
    BY <2>5 DEF Return, StopsAtFixpoint
  <2>6. CASE UNCHANGED vars
    BY <2>6 DEF vars, StopsAtFixpoint
  <2>7. QED
    BY <2>1, <2>2, <2>3, <2>4, <2>5, <2>6 DEF Next
<1>3. QED
  BY <1>1, <1>2, DriverTypeCorrect, PTL DEF Spec

\* The measure of the loop is a natural number, so it cannot descend forever:
\* with RunsDown this bounds the calls of rules one optimize call can make.
THEOREM RemainingIsNatural == Spec => [](Remaining \in Nat)
<1>1. TypeOK => Remaining \in Nat
  BY RuleCounts DEF TypeOK, Remaining, MaxIterations, Phases
<1>2. QED
  BY <1>1, DriverTypeCorrect, PTL

\* Every step of optimize, even under rules that undo one another forever,
\* lowers the number of steps it may still take.
THEOREM EveryStepRunsDown == Spec => RunsDown
<1>1. TypeOK /\ [Next]_vars => [Remaining' < Remaining]_vars
  <2> SUFFICES ASSUME TypeOK, Next PROVE Remaining' < Remaining
    OBVIOUS
  <2> USE RuleCounts DEF TypeOK, Remaining, MaxIterations, Phases
  <2>1. CASE ApplyRule
    BY <2>1 DEF ApplyRule
  <2>2. CASE NextPass
    BY <2>2 DEF NextPass
  <2>3. CASE LeaveLoop
    BY <2>3 DEF LeaveLoop
  <2>4. CASE ApplyCleanupRule
    BY <2>4 DEF ApplyCleanupRule
  <2>5. CASE Return
    BY <2>5 DEF Return
  <2>6. QED
    BY <2>1, <2>2, <2>3, <2>4, <2>5 DEF Next
<1>2. QED
  BY <1>1, DriverTypeCorrect, PTL DEF Spec, RunsDown

-----------------------------------------------------------------------------
(* Soundness of the driver from soundness of its rules.                    *)

\* Plans a set the rules stay in, Below a relation on it.
RulesRespect(Plans, Below) ==
  \A name \in {Rules[r] : r \in 1..Len(Rules)} \cup {CleanupRules[r] : r \in 1..Len(CleanupRules)} :
    \A p \in Plans :
      \/ Apply(name, p) = Thrown
      \/ Apply(name, p) \in Plans /\ <<p, Apply(name, p)>> \in Below

IsPreorder(Plans, Below) ==
  /\ \A p \in Plans : <<p, p>> \in Below
  /\ \A p, q, s \in Plans : <<p, q>> \in Below /\ <<q, s>> \in Below => <<p, s>> \in Below

\* If every rule maps a plan to one below it - one that answers the same, say -
\* then so does optimize, however many passes it runs and wherever it is cut off.
THEOREM DriverPreservesWhatRulesPreserve ==
  ASSUME NEW Plans, NEW Below,
         Inputs \subseteq Plans,
         IsPreorder(Plans, Below),
         RulesRespect(Plans, Below)
  PROVE  Spec => [](phase # "thrown" => plan \in Plans /\ <<input, plan>> \in Below)
<1> DEFINE Kept ==
             input \in Plans /\ (phase # "thrown" => plan \in Plans /\ <<input, plan>> \in Below)
<1>1. Init => Kept
  BY DEF Init, IsPreorder
<1>2. TypeOK /\ Kept /\ [Next]_vars => Kept'
  <2> SUFFICES ASSUME TypeOK, Kept, [Next]_vars PROVE Kept'
    OBVIOUS
  <2>1. ASSUME NEW name, plan' = Apply(name, plan), phase # "thrown", input' = input,
               name \in {Rules[r] : r \in 1..Len(Rules)}
                        \cup {CleanupRules[r] : r \in 1..Len(CleanupRules)},
               phase' # "thrown" => plan' # Thrown
        PROVE  Kept'
    <3>1. plan \in Plans /\ <<input, plan>> \in Below /\ input \in Plans
      BY <2>1
    <3>2. ASSUME phase' # "thrown" PROVE plan' \in Plans /\ <<plan, plan'>> \in Below
      BY <2>1, <3>1, <3>2 DEF RulesRespect
    <3>3. QED
      BY <2>1, <3>1, <3>2 DEF IsPreorder
  <2>2. CASE ApplyRule
    <3>1. rule \in 1..Len(Rules) /\ phase # "thrown" /\ input' = input
      BY <2>2 DEF ApplyRule, TypeOK
    <3>2. plan' = Apply(Rules[rule], plan) /\ (phase' # "thrown" => plan' # Thrown)
      BY <2>2 DEF ApplyRule
    <3>3. QED
      BY <2>1, <3>1, <3>2
  <2>3. CASE ApplyCleanupRule
    <3>1. rule \in 1..Len(CleanupRules) /\ phase # "thrown" /\ input' = input
      BY <2>3 DEF ApplyCleanupRule, TypeOK
    <3>2. plan' = Apply(CleanupRules[rule], plan) /\ (phase' # "thrown" => plan' # Thrown)
      BY <2>3 DEF ApplyCleanupRule
    <3>3. QED
      BY <2>1, <3>1, <3>2
  <2>4. CASE NextPass
    BY <2>4 DEF NextPass
  <2>5. CASE LeaveLoop
    BY <2>5 DEF LeaveLoop
  <2>6. CASE Return
    BY <2>6 DEF Return
  <2>7. CASE UNCHANGED vars
    BY <2>7 DEF vars
  <2>8. QED
    BY <2>2, <2>3, <2>4, <2>5, <2>6, <2>7 DEF Next
<1>3. Kept => (phase # "thrown" => plan \in Plans /\ <<input, plan>> \in Below)
  OBVIOUS
<1>4. QED
  BY <1>1, <1>2, <1>3, DriverTypeCorrect, PTL DEF Spec
-----------------------------------------------------------------------------
(* Answering as well as another plan is such a preorder.                   *)

\* Tables have the same rows if no row, of theirs or not, tells them apart.
LEMMA SameRowsCount ==
  ASSUME NEW t, NEW u
  PROVE  SameRows(t, u) <=> t.schema = u.schema /\ \A row : Times(row, t) = Times(row, u)
<1>1. ASSUME NEW row, row \notin RowsOf(t), row \notin RowsOf(u)
      PROVE  Times(row, t) = Times(row, u)
  <2>1. /\ {i \in DOMAIN t.rows : t.rows[i] = row} = {}
        /\ {i \in DOMAIN u.rows : u.rows[i] = row} = {}
    BY <1>1 DEF RowsOf
  <2> QED
    BY <2>1 DEF Times
<1> QED
  BY <1>1 DEF SameRows

\* A plan answers as itself.
LEMMA AnswersReflexive ==
  ASSUME NEW ordered, NEW S
  PROVE  Answers(ordered, S, S)
<1>1. \A t \in S : SameRows(t, t)
  BY DEF SameRows
<1> QED
  BY <1>1 DEF Answers

\* What answers as a plan that answers as a third one, answers as the third.
LEMMA AnswersTransitive ==
  ASSUME NEW ordered, NEW S, NEW T, NEW U, Answers(ordered, S, T), Answers(ordered, T, U)
  PROVE  Answers(ordered, S, U)
<1>1. ASSUME U # {}, ~ordered
      PROVE  \A t \in S : \E u \in U : SameRows(t, u)
  <2> TAKE t \in S
  <2>1. T # {}
    BY <1>1 DEF Answers
  <2>2. PICK v \in T : SameRows(t, v)
    BY <1>1, <2>1 DEF Answers
  <2>3. PICK u \in U : SameRows(v, u)
    BY <1>1 DEF Answers
  <2>4. SameRows(t, u)
    BY <2>2, <2>3, SameRowsCount
  <2> QED
    BY <2>4
<1> QED
  BY <1>1 DEF Answers

\* Whichever of its tables the new plan returns, it is an answer.
LEMMA AnswersAny ==
  ASSUME NEW ordered, NEW S, NEW T, Answers(ordered, S, T), NEW t \in S
  PROVE  Answers(ordered, {t}, T)
BY DEF Answers
=============================================================================
