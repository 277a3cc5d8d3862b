----------------------------- MODULE LazyProofs -----------------------------
(***************************************************************************)
(* Why collect() answers as the eager calls do: the driver passes on what  *)
(* every application of a rule promises, whatever rules, nodes and queries *)
(* there are; what the rules rely on holds of the rows of every table; and *)
(* the boolean kernels compute three-valued logic.                         *)
(***************************************************************************)
EXTENDS LazyDataFrame, RowOperations, Partition, KleeneBits,
        FiniteSetTheorems, WellFoundedInduction, TLAPS

-----------------------------------------------------------------------------
(* The driver's step as its caller sees it *)

\* What is proved of the driver, of the one collect runs.
Driver == INSTANCE QueryOptimizerProofs
  WITH Inputs <- {}, Apply <- Rewritten, input <- query

\* The driver of the query and the one the proofs are about are the same.
LEMMA SameDriver ==
  /\ Optimizer!Next <=> Driver!Next
  /\ Optimizer!TypeOK <=> Driver!TypeOK
  /\ Optimizer!TypeOK' <=> Driver!TypeOK'
BY DEF Optimizer!Next, Optimizer!ApplyRule, Optimizer!NextPass, Optimizer!LeaveLoop,
   Optimizer!ApplyCleanupRule, Optimizer!Return, Driver!Next, Driver!ApplyRule,
   Driver!NextPass, Driver!LeaveLoop, Driver!ApplyCleanupRule, Driver!Return,
   Optimizer!Rules, Driver!Rules, Optimizer!CleanupRules, Driver!CleanupRules,
   Optimizer!MaxIterations, Driver!MaxIterations, Optimizer!TypeOK, Driver!TypeOK,
   Optimizer!Phases, Driver!Phases

\* A step of the driver starts in its own phases and ends in one of them, in
\* "thrown" exactly when a rule has thrown.
LEMMA DriverStep ==
  ASSUME Optimizer!Next
  PROVE  /\ phase \in {"pass", "cleanup"}
         /\ query' = query
         /\ \/ phase' = "thrown" /\ plan' = Thrown
            \/ phase' \in Optimizer!Phases \ {"thrown"} /\ (plan' # Thrown \/ plan' = plan)
BY SameDriver, Driver!DriverStep DEF Optimizer!Phases, Driver!Phases

\* Answering as well as another plan is reflexive and transitive.
LEMMA AnswersLaws ==
  ASSUME NEW ordered
  PROVE  /\ \A S : Answers(ordered, S, S)
         /\ \A S, T, U : Answers(ordered, S, T) /\ Answers(ordered, T, U) => Answers(ordered, S, U)
<1>1. \A t, row : Times(row, t) = Driver!Times(row, t)
  BY DEF Times, Driver!Times, Cardinality, Driver!Cardinality
<1>2. \A t, u : SameRows(t, u) <=> Driver!SameRows(t, u)
  BY <1>1 DEF SameRows, Driver!SameRows, RowsOf, Driver!RowsOf
<1>3. \A S, T : Answers(ordered, S, T) <=> Driver!Answers(ordered, S, T)
  BY <1>2 DEF Answers, Driver!Answers
<1> QED
  BY <1>3, Driver!AnswersReflexive, Driver!AnswersTransitive

-----------------------------------------------------------------------------
(* The phases of a query *)

\* A builder call makes a node, never the outcome of a rule that throws.
LEMMA NodesAreNotThrown ==
  ASSUME NEW c, NEW d, NEW e, NEW g
  PROVE  /\ ScanOf(c) # Thrown
         /\ ProjectPlan(c, d) # Thrown
         /\ ProjectExprs(c, d) # Thrown
         /\ FilterPlan(c, d) # Thrown
         /\ WithColumnPlan(c, d, e) # Thrown
         /\ AggregatePlan(c, d, e) # Thrown
         /\ JoinPlan(c, d, e, g) # Thrown
         /\ SortPlan(c, d, e) # Thrown
         /\ LimitPlan(c, d) # Thrown
<1>1. Thrown.kind = "Thrown"
  BY DEF Thrown
<1>2. /\ ScanOf(c).kind # "Thrown" /\ ProjectPlan(c, d).kind # "Thrown"
      /\ ProjectExprs(c, d).kind # "Thrown" /\ FilterPlan(c, d).kind # "Thrown"
  BY DEF ScanOf, Scan, ProjectPlan, ProjectExprs, FilterPlan
<1>3. /\ WithColumnPlan(c, d, e).kind # "Thrown" /\ AggregatePlan(c, d, e).kind # "Thrown"
      /\ JoinPlan(c, d, e, g).kind # "Thrown" /\ SortPlan(c, d, e).kind # "Thrown"
      /\ LimitPlan(c, d).kind # "Thrown"
  BY DEF WithColumnPlan, AggregatePlan, JoinPlan, SortPlan, LimitPlan
<1> QED
  BY <1>1, <1>2, <1>3

\* Until collect the driver waits in its first state with the query for its plan;
\* then it stays in bounds, and has no plan exactly when a rule has thrown.
LazyInv ==
  /\ steps \in 0..MaxSteps
  /\ phase \in {"building", "collected"} \cup Optimizer!Phases
  /\ phase = "building" =>
       plan = query /\ plan # Thrown /\ iteration = 1 /\ rule = 1 /\ changed = FALSE
  /\ phase \in Optimizer!Phases => Optimizer!TypeOK
  /\ phase = "thrown" <=> plan = Thrown
  /\ phase # "collected" => result = {}
  /\ phase = "collected" => result = Run(plan)

\* A builder call only replaces the query and the plan.
LEMMA GrowKeeps ==
  ASSUME LazyInv, NEW p, p # Thrown, Grow(p)
  PROVE  LazyInv'
BY StepsAssumption DEF Grow, LazyInv, Optimizer!Phases

\* What the builder methods have in common.
LEMMA BuilderCalls ==
  ASSUME SelectCall \/ SelectExprsCall \/ FilterCall \/ WithColumnCall \/ SortCall
         \/ HeadCall \/ AggregateCall \/ JoinCall
  PROVE  \E p : p # Thrown /\ Grow(p)
<1> USE NodesAreNotThrown
<1>1. CASE SelectCall
  BY <1>1 DEF SelectCall
<1>2. CASE SelectExprsCall
  BY <1>2 DEF SelectExprsCall
<1>3. CASE FilterCall
  BY <1>3 DEF FilterCall
<1>4. CASE WithColumnCall
  BY <1>4 DEF WithColumnCall
<1>5. CASE SortCall
  BY <1>5 DEF SortCall
<1>6. CASE HeadCall
  BY <1>6 DEF HeadCall
<1>7. CASE AggregateCall
  BY <1>7 DEF AggregateCall
<1>8. CASE JoinCall
  BY <1>8 DEF JoinCall
<1> QED
  BY <1>1, <1>2, <1>3, <1>4, <1>5, <1>6, <1>7, <1>8

\* Every step of a query keeps the driver in bounds.
LEMMA LazySteps == LazyInv /\ [Next]_vars => LazyInv'
<1> SUFFICES ASSUME LazyInv, [Next]_vars PROVE LazyInv'
  OBVIOUS
<1>1. CASE SelectCall \/ SelectExprsCall \/ FilterCall \/ WithColumnCall \/ SortCall
           \/ HeadCall \/ AggregateCall \/ JoinCall
  BY <1>1, BuilderCalls, GrowKeeps
<1>2. CASE Collect
  <2>1. /\ phase = "building" /\ phase' = "pass"
        /\ UNCHANGED <<steps, plan, iteration, rule, changed, result>>
    BY <1>2 DEF Collect
  <2>2. iteration' = 1 /\ rule' = 1 /\ changed' = FALSE /\ plan' # Thrown /\ result' = {}
    BY <2>1 DEF LazyInv
  <2>3. Optimizer!TypeOK'
    <3>1. changed' \in BOOLEAN
      BY <2>2
    <3>2. iteration' \in 1..10 /\ rule' \in 1..11 /\ phase' # "cleanup"
      BY <2>1, <2>2
    <3>3. Len(Optimizer!Rules) = 10
      BY DEF Optimizer!Rules
    <3> QED
      BY <2>1, <3>1, <3>2, <3>3 DEF Optimizer!TypeOK, Optimizer!Phases, Optimizer!MaxIterations
  <2>4. steps' \in 0..MaxSteps
    BY <2>1 DEF LazyInv
  <2> QED
    BY <2>1, <2>2, <2>3, <2>4 DEF LazyInv, Optimizer!Phases
<1>3. CASE Optimize
  <2>1. Optimizer!Next /\ UNCHANGED <<steps, result>>
    BY <1>3 DEF Optimize
  <2>2. /\ phase \in {"pass", "cleanup"}
        /\ \/ phase' = "thrown" /\ plan' = Thrown
           \/ phase' \in Optimizer!Phases \ {"thrown"} /\ (plan' # Thrown \/ plan' = plan)
    BY <2>1, DriverStep
  <2>3. Optimizer!TypeOK'
    BY <2>1, <2>2, SameDriver, Driver!DriverTypeStep DEF LazyInv, Optimizer!Phases
  <2>4. plan # Thrown /\ result = {} /\ steps \in 0..MaxSteps
    BY <2>2 DEF LazyInv
  <2>5. phase' \in Optimizer!Phases /\ phase' # "building" /\ phase' # "collected"
    BY <2>2 DEF Optimizer!Phases
  <2>6. phase' = "thrown" <=> plan' = Thrown
    BY <2>2, <2>4
  <2> QED
    BY <2>1, <2>3, <2>4, <2>5, <2>6 DEF LazyInv
<1>4. CASE ExecutePlan
  BY <1>4 DEF ExecutePlan, LazyInv, Optimizer!Phases
<1>5. CASE UNCHANGED vars
  <2>1. Optimizer!TypeOK' <=> Optimizer!TypeOK
    BY <1>5 DEF vars, Optimizer!TypeOK
  <2> QED
    BY <1>5, <2>1 DEF vars, LazyInv
<1> QED
  BY <1>1, <1>2, <1>3, <1>4, <1>5 DEF Next

\* A query never leaves its bounds: whatever its builder calls, collect starts
\* the driver in its first state, and the driver keeps its counters in range.
LEMMA LazyInductiveInvariant == Spec => []LazyInv
<1>1. Init => LazyInv
  BY NodesAreNotThrown, StepsAssumption DEF Init, LazyInv, Optimizer!Phases
<1> QED
  BY <1>1, LazySteps, PTL DEF Spec

\* The phases, the builder calls and the driver's counters stay in range.
THEOREM LazyTypeCorrect == Spec => []TypeOK
<1>1. LazyInv => TypeOK
  BY DEF LazyInv, TypeOK
<1> QED
  BY <1>1, LazyInductiveInvariant, PTL

-----------------------------------------------------------------------------
(* From sound rules to the answer *)

\* From collect on the plan answers as the query does, up to the table returned.
AnswerInv ==
  phase # "building" => Answers(Ordered(query), Outcomes(plan), Outcomes(query))

\* EachRuleIsSound's promise of one step.
RuleIsSound ==
  plan' # plan /\ phase \in {"pass", "cleanup"} =>
    Answers(Ordered(query), Outcomes(plan'), Outcomes(plan))

\* If every application of a rule is sound, collect() answers every query the
\* eager API answers, as it does: however many passes the rules take and wherever
\* the cap cuts them off, before the cleanup or after.
THEOREM CollectMatchesEager == Spec /\ EachRuleIsSound => []LazyMatchesEager
<1>1. Init => AnswerInv
  BY DEF Init, AnswerInv
<1>2. LazyInv /\ AnswerInv /\ [Next]_vars /\ [RuleIsSound]_vars => AnswerInv'
  <2> SUFFICES ASSUME LazyInv, AnswerInv, [Next]_vars, [RuleIsSound]_vars PROVE AnswerInv'
    OBVIOUS
  <2>1. CASE SelectCall \/ SelectExprsCall \/ FilterCall \/ WithColumnCall \/ SortCall
             \/ HeadCall \/ AggregateCall \/ JoinCall
    BY <2>1, BuilderCalls DEF Grow, AnswerInv
  <2>2. CASE Collect
    <3>1. plan' = query' /\ Outcomes(plan') = Outcomes(query')
      BY <2>2 DEF Collect, LazyInv
    <3> QED
      BY <3>1, AnswersLaws DEF AnswerInv
  <2>3. CASE Optimize
    <3>1. phase \in {"pass", "cleanup"} /\ query' = query
      BY <2>3, DriverStep DEF Optimize
    <3>2. Answers(Ordered(query), Outcomes(plan), Outcomes(query))
      BY <3>1 DEF AnswerInv
    <3>3. Answers(Ordered(query), Outcomes(plan'), Outcomes(plan))
      <4>1. CASE plan' = plan
        BY <4>1, AnswersLaws
      <4>2. CASE plan' # plan
        BY <3>1, <4>2 DEF RuleIsSound, vars
      <4> QED
        BY <4>1, <4>2
    <3> QED
      BY <3>1, <3>2, <3>3, AnswersLaws DEF AnswerInv
  <2>4. CASE ExecutePlan
    BY <2>4 DEF ExecutePlan, AnswerInv
  <2>5. CASE UNCHANGED vars
    BY <2>5 DEF vars, AnswerInv
  <2> QED
    BY <2>1, <2>2, <2>3, <2>4, <2>5 DEF Next
<1>3. LazyInv /\ AnswerInv => LazyMatchesEager
  <2> SUFFICES ASSUME LazyInv, AnswerInv, phase \in {"collected", "thrown"}
               PROVE  Answers(Ordered(query), result, Outcomes(query))
    BY DEF LazyMatchesEager
  <2>1. result = Outcomes(plan)
    BY DEF LazyInv, Outcomes
  <2> QED
    BY <2>1 DEF AnswerInv
<1>4. EachRuleIsSound => [][RuleIsSound]_vars
  BY DEF EachRuleIsSound, RuleIsSound
<1> QED
  BY <1>1, <1>2, <1>3, <1>4, LazyInductiveInvariant, PTL DEF Spec

-----------------------------------------------------------------------------
(* Listings *)

\* A strict total order of the elements of a set.
StrictTotal(S, order) ==
  /\ \A i \in S : <<i, i>> \notin order
  /\ \A i, j \in S : i # j => <<i, j>> \in order \/ <<j, i>> \in order
  /\ \A i, j, k \in S : <<i, j>> \in order /\ <<j, k>> \in order => <<i, k>> \in order

\* s has every element of S once, in the order.
IsListing(s, S, order) ==
  \E n \in Nat :
    /\ s \in [1..n -> S]
    /\ \A i \in S : \E x \in 1..n : s[x] = i
    /\ \A x, y \in 1..n : x < y => <<s[x], s[y]>> \in order

Preceding(S, order, i) == {j \in S : <<j, i>> \in order}

\* Of two elements the earlier one has fewer elements before it.
LEMMA RanksGrow ==
  ASSUME NEW S, IsFiniteSet(S), NEW order, StrictTotal(S, order),
         NEW i \in S, NEW j \in S, <<i, j>> \in order
  PROVE  /\ Cardinality(Preceding(S, order, i)) \in Nat
         /\ Cardinality(Preceding(S, order, j)) \in Nat
         /\ Cardinality(Preceding(S, order, i)) < Cardinality(Preceding(S, order, j))
<1> DEFINE P == Preceding(S, order, i)
           Q == Preceding(S, order, j)
<1>1. P \in SUBSET Q /\ P # Q /\ P \in SUBSET S /\ Q \in SUBSET S
  BY DEF StrictTotal, Preceding
<1> HIDE DEF P, Q
<1>2. IsFiniteSet(Q) /\ IsFiniteSet(P)
  BY <1>1, FS_Subset
<1>3. Cardinality(P) \in Nat /\ Cardinality(Q) \in Nat
  BY <1>2, FS_CardinalityType
<1>4. Cardinality(P) <= Cardinality(Q) /\ Cardinality(P) # Cardinality(Q)
  BY <1>1, <1>2, FS_Subset
<1>5. Cardinality(P) < Cardinality(Q)
  BY <1>3, <1>4
<1> QED
  BY <1>3, <1>5 DEF P, Q

\* So an element is known by how many are before it, and every number below the
\* size of the set is some element's.
LEMMA RanksAreExact ==
  ASSUME NEW S, IsFiniteSet(S), NEW order, StrictTotal(S, order)
  PROVE  /\ \A i, j \in S :
              Cardinality(Preceding(S, order, i)) = Cardinality(Preceding(S, order, j)) => i = j
         /\ \A i \in S : Cardinality(Preceding(S, order, i)) \in 0..(Cardinality(S) - 1)
         /\ \A x \in 1..Cardinality(S) :
              \E i \in S : Cardinality(Preceding(S, order, i)) = x - 1
<1> DEFINE n == Cardinality(S)
           rank == [i \in S |-> Cardinality(Preceding(S, order, i))]
<1>1. n \in Nat
  BY FS_CardinalityType
<1>2. ASSUME NEW i \in S, NEW j \in S, i # j
      PROVE  Cardinality(Preceding(S, order, i)) # Cardinality(Preceding(S, order, j))
  <2>1. CASE <<i, j>> \in order
    BY <2>1, RanksGrow
  <2>2. CASE <<j, i>> \in order
    BY <2>2, RanksGrow
  <2> QED
    BY <1>2, <2>1, <2>2 DEF StrictTotal
<1>3. ASSUME NEW i \in S
      PROVE  Cardinality(Preceding(S, order, i)) \in 0..(n - 1)
  <2>1. Preceding(S, order, i) \in SUBSET (S \ {i})
    BY DEF Preceding, StrictTotal
  <2>2. IsFiniteSet(S \ {i}) /\ Cardinality(S \ {i}) = n - 1
    BY FS_RemoveElement
  <2>3. /\ IsFiniteSet(Preceding(S, order, i))
        /\ Cardinality(Preceding(S, order, i)) <= n - 1
    BY <2>1, <2>2, FS_Subset
  <2>4. Cardinality(Preceding(S, order, i)) \in Nat
    BY <2>3, FS_CardinalityType
  <2> QED
    BY <1>1, <2>3, <2>4
<1>4. rank \in Injection(S, 0..(n - 1))
  BY <1>2, <1>3 DEF Injection, IsInjective
<1>5. IsFiniteSet(0..(n - 1)) /\ Cardinality(0..(n - 1)) = n
  <2>1. 0 \in Int /\ n - 1 \in Int
    BY <1>1
  <2>2. Cardinality(0..(n - 1)) = IF 0 > n - 1 THEN 0 ELSE (n - 1) - 0 + 1
    BY <2>1, FS_Interval
  <2> QED
    BY <1>1, <2>1, <2>2, FS_Interval
<1> HIDE DEF n, rank
<1>6. rank \in Surjection(S, 0..(n - 1))
  <2>1. Cardinality(S) = Cardinality(0..(n - 1))
    BY <1>5 DEF n
  <2> QED
    BY <1>4, <1>5, <2>1, FS_Injection
<1>7. ASSUME NEW x \in 1..n PROVE \E i \in S : rank[i] = x - 1
  BY <1>1, <1>6 DEF Surjection
<1> QED
  BY <1>2, <1>3, <1>7 DEF n, rank

\* Listed lists.
LEMMA ListedLists ==
  ASSUME NEW S, IsFiniteSet(S), NEW order, StrictTotal(S, order)
  PROVE  /\ IsListing(Listed(S, order), S, order)
         /\ DOMAIN Listed(S, order) = 1..Cardinality(S)
<1> DEFINE n == Cardinality(S)
           Rank(i) == Cardinality(Preceding(S, order, i))
           L == Listed(S, order)
<1>1. n \in Nat
  BY FS_CardinalityType
<1>2. L = [x \in 1..n |-> CHOOSE i \in S : Rank(i) = x - 1]
  BY DEF Listed, Preceding
<1>3. \A i, j \in S : Rank(i) = Rank(j) => i = j
  BY RanksAreExact
<1>4. \A x \in 1..n : \E i \in S : Rank(i) = x - 1
  BY RanksAreExact
<1>5. \A i, j \in S : <<i, j>> \in order => Rank(i) \in Nat /\ Rank(j) \in Nat /\ Rank(i) < Rank(j)
  BY RanksGrow
<1>6. \A i, j \in S : i = j \/ <<i, j>> \in order \/ <<j, i>> \in order
  BY DEF StrictTotal
<1>7. \A i \in S : Rank(i) \in 0..(n - 1)
  BY RanksAreExact
<1> HIDE DEF n, Rank, L
<1>8. ASSUME NEW x \in 1..n PROVE L[x] \in S /\ Rank(L[x]) = x - 1
  BY <1>2, <1>4
<1>9. L \in [1..n -> S]
  BY <1>2, <1>8
<1>10. ASSUME NEW i \in S PROVE \E x \in 1..n : L[x] = i
  <2>1. Rank(i) + 1 \in 1..n /\ (Rank(i) + 1) - 1 = Rank(i)
    BY <1>1, <1>7
  <2>2. L[Rank(i) + 1] = i
    BY <2>1, <1>3, <1>8
  <2> QED
    BY <2>1, <2>2
<1>11. ASSUME NEW x \in 1..n, NEW y \in 1..n, x < y PROVE <<L[x], L[y]>> \in order
  <2>1. L[x] \in S /\ L[y] \in S /\ Rank(L[x]) = x - 1 /\ Rank(L[y]) = y - 1
    BY <1>8
  <2>2. ~ (Rank(L[y]) < Rank(L[x])) /\ Rank(L[x]) # Rank(L[y])
    BY <1>1, <1>11, <2>1
  <2> QED
    BY <1>5, <1>6, <2>1, <2>2
<1>12. IsListing(L, S, order)
  BY <1>1, <1>9, <1>10, <1>11 DEF IsListing
<1> QED
  BY <1>9, <1>12 DEF L, n

\* There is no other listing, so an operation is known by what it lists.
LEMMA ListingIsListed ==
  ASSUME NEW S, NEW order, StrictTotal(S, order), NEW s, IsListing(s, S, order)
  PROVE  IsFiniteSet(S) /\ s = Listed(S, order)
<1>1. PICK n \in Nat : /\ s \in [1..n -> S]
                       /\ \A i \in S : \E x \in 1..n : s[x] = i
                       /\ \A x, y \in 1..n : x < y => <<s[x], s[y]>> \in order
  BY DEF IsListing
<1>2. \A x, y \in 1..n : <<s[x], s[y]>> \in order => x < y
  <2> SUFFICES ASSUME NEW x \in 1..n, NEW y \in 1..n, <<s[x], s[y]>> \in order, ~ (x < y)
               PROVE  FALSE
    OBVIOUS
  <2>1. s[x] \in S /\ s[y] \in S
    BY <1>1
  <2>2. CASE x = y
    BY <2>1, <2>2 DEF StrictTotal
  <2>3. CASE y < x
    <3>1. <<s[y], s[x]>> \in order
      BY <1>1, <2>3
    <3> QED
      BY <2>1, <3>1 DEF StrictTotal
  <2> QED
    BY <2>2, <2>3
<1>3. \A x, y \in 1..n : s[x] = s[y] => x = y
  <2> SUFFICES ASSUME NEW x \in 1..n, NEW y \in 1..n, s[x] = s[y], x < y PROVE FALSE
    OBVIOUS
  <2>1. <<s[x], s[x]>> \in order /\ s[x] \in S
    BY <1>1
  <2> QED
    BY <2>1 DEF StrictTotal
<1>4. ASSUME NEW T, NEW m \in 0..n, T = {s[y] : y \in 1..m}
      PROVE  IsFiniteSet(T) /\ Cardinality(T) = m
  <2>1. [y \in 1..m |-> s[y]] \in Bijection(1..m, T)
    BY <1>3, <1>4 DEF Bijection, Injection, Surjection, IsInjective
  <2>2. IsFiniteSet(1..m) /\ Cardinality(1..m) = m
    <3>1. 1 \in Int /\ m \in Int /\ m \in Nat
      OBVIOUS
    <3>2. IsFiniteSet(1..m) /\ Cardinality(1..m) = IF 1 > m THEN 0 ELSE m - 1 + 1
      BY <3>1, FS_Interval
    <3> QED
      BY <3>1, <3>2
  <2> QED
    BY <2>1, <2>2, FS_Bijection DEF ExistsBijection
<1>5. S = {s[y] : y \in 1..n}
  BY <1>1
<1>6. IsFiniteSet(S) /\ Cardinality(S) = n
  BY <1>4, <1>5
<1>7. ASSUME NEW x \in 1..n PROVE Cardinality(Preceding(S, order, s[x])) = x - 1
  <2>1. x - 1 \in 0..n
    OBVIOUS
  <2>2. Preceding(S, order, s[x]) = {s[y] : y \in 1..(x - 1)}
    <3>1. ASSUME NEW y \in 1..(x - 1) PROVE s[y] \in Preceding(S, order, s[x])
      BY <1>1 DEF Preceding
    <3>2. ASSUME NEW j \in Preceding(S, order, s[x]) PROVE \E y \in 1..(x - 1) : j = s[y]
      <4>1. PICK y \in 1..n : s[y] = j
        BY <1>1 DEF Preceding
      <4>2. y < x
        BY <1>2, <4>1 DEF Preceding
      <4> QED
        BY <4>1, <4>2
    <3> QED
      BY <3>1, <3>2
  <2> QED
    BY <1>4, <2>1, <2>2
<1>8. ASSUME NEW x \in 1..n
      PROVE  s[x] = CHOOSE i \in S : Cardinality(Preceding(S, order, i)) = x - 1
  <2>1. s[x] \in S
    BY <1>1
  <2>2. \A i \in S : Cardinality(Preceding(S, order, i)) = x - 1 => i = s[x]
    BY <1>6, <1>7, <2>1, RanksAreExact
  <2> QED
    BY <1>7, <2>1, <2>2
<1>9. Listed(S, order) = [x \in 1..n |-> CHOOSE i \in S : Cardinality(Preceding(S, order, i)) = x - 1]
  BY <1>6 DEF Listed, Preceding
<1> QED
  BY <1>1, <1>6, <1>8, <1>9

\* Choosing from a listing upwards keeps its order.
LEMMA ListingOfPart ==
  ASSUME NEW S, NEW order, StrictTotal(S, order), NEW a, IsListing(a, S, order), NEW T, NEW b,
         IsListing(b, KeptIndices(a, T), Upwards)
  PROVE  RowsAt(a, b) = Listed(S \cap T, order)
<1> DEFINE M == KeptIndices(a, T)
           c == RowsAt(a, b)
<1>1. PICK n \in Nat : /\ a \in [1..n -> S]
                       /\ \A i \in S : \E x \in 1..n : a[x] = i
                       /\ \A x, y \in 1..n : x < y => <<a[x], a[y]>> \in order
  BY DEF IsListing
<1>2. M = {x \in 1..n : a[x] \in T}
  BY <1>1 DEF KeptIndices
<1>3. PICK m \in Nat : /\ b \in [1..m -> M]
                       /\ \A i \in M : \E x \in 1..m : b[x] = i
                       /\ \A x, y \in 1..m : x < y => <<b[x], b[y]>> \in Upwards
  BY <1>2 DEF IsListing
<1> HIDE DEF M
<1>4. c \in [1..m -> S \cap T] /\ \A x \in 1..m : c[x] = a[b[x]]
  BY <1>1, <1>2, <1>3 DEF RowsAt
<1> HIDE DEF c
<1>5. ASSUME NEW i \in S \cap T PROVE \E x \in 1..m : c[x] = i
  <2>1. PICK y \in 1..n : a[y] = i
    BY <1>1
  <2>2. PICK x \in 1..m : b[x] = y
    BY <1>2, <1>3, <2>1
  <2> QED
    BY <1>4, <2>1, <2>2
<1>6. ASSUME NEW x \in 1..m, NEW y \in 1..m, x < y PROVE <<c[x], c[y]>> \in order
  <2>1. b[x] \in 1..n /\ b[y] \in 1..n /\ b[x] < b[y]
    BY <1>2, <1>3, <1>6 DEF Upwards
  <2> QED
    BY <1>1, <1>4, <2>1
<1>7. IsListing(c, S \cap T, order)
  BY <1>4, <1>5, <1>6 DEF IsListing
<1>8. StrictTotal(S \cap T, order)
  BY DEF StrictTotal
<1> QED
  BY <1>7, <1>8, ListingIsListed DEF c

-----------------------------------------------------------------------------
(* Filters, sorts and projections of rows *)

\* Numbers are totally ordered upwards.
LEMMA UpwardsIsTotal == ASSUME NEW S \in SUBSET Int PROVE StrictTotal(S, Upwards)
BY DEF StrictTotal, Upwards

\* A filter lists the rows it keeps.
LEMMA KeptRows ==
  ASSUME NEW R, NEW rows \in Seq(R), NEW keep
  PROVE  LET K == KeptIndices(rows, keep) IN
         /\ K \subseteq 1..Len(rows) /\ K \in SUBSET Int /\ IsFiniteSet(K)
         /\ IsListing(Listed(K, Upwards), K, Upwards)
         /\ FilteredRows(rows, keep) = RowsAt(rows, Listed(K, Upwards))
<1> DEFINE K == KeptIndices(rows, keep)
<1>1. K \in SUBSET (1..Len(rows)) /\ K \in SUBSET Int /\ Len(rows) \in Int
  BY DEF KeptIndices
<1>2. IsFiniteSet(1..Len(rows))
  BY <1>1, FS_Interval
<1>3. IsFiniteSet(K)
  BY <1>1, <1>2, FS_Subset
<1>4. IsListing(Listed(K, Upwards), K, Upwards)
  <2> HIDE DEF K
  <2> QED
    BY <1>1, <1>3, UpwardsIsTotal, ListedLists
<1> QED
  BY <1>1, <1>3, <1>4 DEF FilteredRows

\* Rows gathered from gathered rows are gathered.
LEMMA GatheredTwice ==
  ASSUME NEW rows, NEW a, NEW b, \A x \in DOMAIN b : b[x] \in DOMAIN a
  PROVE  RowsAt(RowsAt(rows, a), b) = RowsAt(rows, RowsAt(a, b))
BY DEF RowsAt

\* Two filters are the filter of what both keep: what FilterMerging and ConjSplit
\* rely on, with ConjunctionKeeps.
THEOREM FiltersMerge ==
  ASSUME NEW R, NEW rows \in Seq(R), NEW keep, NEW keep2
  PROVE  FilteredRows(FilteredRows(rows, keep), keep2) = FilteredRows(rows, keep \cap keep2)
<1> DEFINE K == KeptIndices(rows, keep)
           a == Listed(K, Upwards)
           T == {i \in DOMAIN rows : rows[i] \in keep2}
           M == KeptIndices(a, T)
           b == Listed(M, Upwards)
<1>1. /\ K \subseteq 1..Len(rows) /\ K \in SUBSET Int /\ IsListing(a, K, Upwards)
      /\ FilteredRows(rows, keep) = RowsAt(rows, a)
  BY KeptRows
<1>2. PICK n \in Nat : a \in [1..n -> K]
  <2> HIDE DEF a, K
  <2> QED
    BY <1>1 DEF IsListing
<1>3. RowsAt(rows, a) \in Seq(R)
  <2>1. \A x \in 1..n : rows[a[x]] \in R
    BY <1>1, <1>2
  <2> QED
    BY <1>2, <2>1 DEF RowsAt
<1>4. KeptIndices(RowsAt(rows, a), keep2) = M
  <2>1. DOMAIN RowsAt(rows, a) = DOMAIN a /\ \A x \in DOMAIN a : a[x] \in DOMAIN rows
    BY <1>1, <1>2 DEF RowsAt
  <2>2. \A x \in DOMAIN a : RowsAt(rows, a)[x] = rows[a[x]]
    BY DEF RowsAt
  <2> HIDE DEF a
  <2> QED
    BY <2>1, <2>2 DEF KeptIndices
<1>5. /\ FilteredRows(FilteredRows(rows, keep), keep2) = RowsAt(RowsAt(rows, a), b)
      /\ IsListing(b, M, Upwards)
  <2> HIDE DEF a, M
  <2> QED
    BY <1>1, <1>3, <1>4, KeptRows
<1>6. \A x \in DOMAIN b : b[x] \in DOMAIN a
  <2> HIDE DEF a, b
  <2> QED
    BY <1>5 DEF IsListing, KeptIndices
<1>7. RowsAt(a, b) = Listed(K \cap T, Upwards)
  <2>1. StrictTotal(K, Upwards)
    BY <1>1, UpwardsIsTotal
  <2> HIDE DEF a, b, K, T
  <2> QED
    BY <1>1, <1>5, <2>1, ListingOfPart
<1>8. K \cap T = KeptIndices(rows, keep \cap keep2)
  BY DEF KeptIndices
<1>9. RowsAt(RowsAt(rows, a), b) = RowsAt(rows, RowsAt(a, b))
  <2> HIDE DEF a, b
  <2> QED
    BY <1>6, GatheredTwice
<1> QED
  BY <1>5, <1>7, <1>8, <1>9 DEF FilteredRows

\* The order of rows a comparator gives: what std::stable_sort asks of it.
StrictWeak(R, before) ==
  /\ \A a \in R : <<a, a>> \notin before
  /\ \A a, b, c \in R : <<a, b>> \in before /\ <<b, c>> \in before => <<a, c>> \in before
  /\ \A a, b, c \in R : <<a, c>> \in before => <<a, b>> \in before \/ <<b, c>> \in before

\* Under such a comparator the rows of a table have one stable order.
LEMMA StableOrderIsTotal ==
  ASSUME NEW R, NEW rows \in Seq(R), NEW before, StrictWeak(R, before)
  PROVE  StrictTotal(1..Len(rows), StableOrder(rows, before))
<1> DEFINE D == 1..Len(rows)
           B(i, j) == <<rows[i], rows[j]>> \in before
<1>1. \A i \in D : rows[i] \in R /\ i \in Int
  OBVIOUS
<1>2. DOMAIN rows = D
  OBVIOUS
<1>3. \A i, j \in D : <<i, j>> \in StableOrder(rows, before) <=> B(i, j) \/ (~ B(j, i) /\ i < j)
  BY <1>2 DEF StableOrder
<1>4. \A i \in D : ~ B(i, i)
  BY <1>1 DEF StrictWeak
<1>5. \A i, j, k \in D : B(i, j) /\ B(j, k) => B(i, k)
  BY <1>1 DEF StrictWeak
<1>6. \A i, j, k \in D : B(i, k) => B(i, j) \/ B(j, k)
  BY <1>1 DEF StrictWeak
<1> HIDE DEF B
<1>7. \A i \in D : <<i, i>> \notin StableOrder(rows, before)
  BY <1>3, <1>4
<1>8. \A i, j \in D : i # j =>
        <<i, j>> \in StableOrder(rows, before) \/ <<j, i>> \in StableOrder(rows, before)
  BY <1>1, <1>3
<1>9. ASSUME NEW i \in D, NEW j \in D, NEW k \in D,
             B(i, j) \/ (~ B(j, i) /\ i < j), B(j, k) \/ (~ B(k, j) /\ j < k)
      PROVE  B(i, k) \/ (~ B(k, i) /\ i < k)
  <2>1. CASE B(i, j) /\ B(j, k)
    BY <1>5, <2>1
  <2>2. CASE B(i, j) /\ ~ B(k, j)
    BY <1>6, <2>2
  <2>3. CASE ~ B(j, i) /\ B(j, k)
    BY <1>6, <2>3
  <2>4. CASE ~ B(j, i) /\ i < j /\ ~ B(k, j) /\ j < k
    BY <1>1, <1>6, <2>4
  <2> QED
    BY <1>9, <2>1, <2>2, <2>3, <2>4
<1> HIDE DEF D
<1>10. StrictTotal(D, StableOrder(rows, before))
  BY <1>3, <1>7, <1>8, <1>9 DEF StrictTotal
<1> QED
  BY <1>10 DEF D

\* A sort lists all rows in their stable order.
LEMMA SortLists ==
  ASSUME NEW R, NEW rows \in Seq(R), NEW before, StrictWeak(R, before)
  PROVE  LET a == Listed(1..Len(rows), StableOrder(rows, before)) IN
         /\ IsListing(a, 1..Len(rows), StableOrder(rows, before))
         /\ a \in [1..Len(rows) -> 1..Len(rows)]
         /\ SortedRows(rows, before) = RowsAt(rows, a)
<1> DEFINE a == Listed(1..Len(rows), StableOrder(rows, before))
<1>1. Len(rows) \in Nat /\ 1 \in Int /\ Len(rows) \in Int
  OBVIOUS
<1>2. IsFiniteSet(1..Len(rows)) /\ Cardinality(1..Len(rows)) = Len(rows)
  <2>1. IsFiniteSet(1..Len(rows)) /\
        Cardinality(1..Len(rows)) = IF 1 > Len(rows) THEN 0 ELSE Len(rows) - 1 + 1
    BY <1>1, FS_Interval
  <2> QED
    BY <1>1, <2>1
<1>3. IsListing(a, 1..Len(rows), StableOrder(rows, before)) /\ DOMAIN a = 1..Len(rows)
  BY <1>2, StableOrderIsTotal, ListedLists
<1>4. a \in [1..Len(rows) -> 1..Len(rows)]
  <2> HIDE DEF a
  <2> QED
    BY <1>3 DEF IsListing
<1>5. DOMAIN rows = 1..Len(rows)
  OBVIOUS
<1> QED
  BY <1>3, <1>4, <1>5 DEF SortedRows

\* A filter of sorted rows is the sort of filtered rows, ties included: what
\* PredicatePushdown below a sort relies on.
THEOREM FilterGoesBelowSort ==
  ASSUME NEW R, NEW rows \in Seq(R), NEW before, StrictWeak(R, before), NEW keep
  PROVE  FilteredRows(SortedRows(rows, before), keep) = SortedRows(FilteredRows(rows, keep), before)
<1> DEFINE D == 1..Len(rows)
           order == StableOrder(rows, before)
           a == Listed(D, order)
           T == {i \in DOMAIN rows : rows[i] \in keep}
           M == KeptIndices(a, T)
           b == Listed(M, Upwards)
           c == Listed(T, Upwards)
           kept == RowsAt(rows, c)
           d == Listed(1..Len(kept), StableOrder(kept, before))
<1>1. /\ IsListing(a, D, order) /\ a \in [D -> D] /\ DOMAIN rows = D
      /\ SortedRows(rows, before) = RowsAt(rows, a)
  BY SortLists
<1>2. StrictTotal(D, order)
  BY StableOrderIsTotal
<1>3. RowsAt(rows, a) \in Seq(R)
  <2>1. \A x \in D : rows[a[x]] \in R
    BY <1>1
  <2> HIDE DEF a
  <2> QED
    BY <1>1, <2>1 DEF RowsAt
<1>4. KeptIndices(RowsAt(rows, a), keep) = M
  <2>1. DOMAIN RowsAt(rows, a) = DOMAIN a /\ \A x \in DOMAIN a : a[x] \in DOMAIN rows
    BY <1>1 DEF RowsAt
  <2>2. \A x \in DOMAIN a : RowsAt(rows, a)[x] = rows[a[x]]
    BY DEF RowsAt
  <2> HIDE DEF a
  <2> QED
    BY <2>1, <2>2 DEF KeptIndices
<1>5. /\ FilteredRows(SortedRows(rows, before), keep) = RowsAt(RowsAt(rows, a), b)
      /\ IsListing(b, M, Upwards)
  <2> HIDE DEF a, M
  <2> QED
    BY <1>1, <1>3, <1>4, KeptRows
<1>6. \A x \in DOMAIN b : b[x] \in DOMAIN a
  <2> HIDE DEF a, b
  <2> QED
    BY <1>5 DEF IsListing, KeptIndices
<1>7. RowsAt(a, b) = Listed(D \cap T, order)
  <2> HIDE DEF a, b, D, T, order
  <2> QED
    BY <1>1, <1>2, <1>5, ListingOfPart
<1>8. RowsAt(RowsAt(rows, a), b) = RowsAt(rows, RowsAt(a, b))
  <2> HIDE DEF a, b
  <2> QED
    BY <1>6, GatheredTwice
<1>9. D \cap T = T /\ T = KeptIndices(rows, keep)
  BY <1>1 DEF KeptIndices
<1>10. FilteredRows(SortedRows(rows, before), keep) = RowsAt(rows, Listed(T, order))
  BY <1>5, <1>7, <1>8, <1>9
<1>11. /\ T \subseteq D /\ T \in SUBSET Int
       /\ IsListing(c, T, Upwards) /\ FilteredRows(rows, keep) = kept
  BY <1>9, KeptRows
<1>12. PICK m \in Nat : /\ c \in [1..m -> T]
                        /\ \A i \in T : \E x \in 1..m : c[x] = i
                        /\ \A x, y \in 1..m : x < y => <<c[x], c[y]>> \in Upwards
  <2> HIDE DEF c, T
  <2> QED
    BY <1>11 DEF IsListing
<1>13. kept \in Seq(R) /\ Len(kept) = m /\ \A x \in 1..m : kept[x] = rows[c[x]]
  <2>1. \A x \in 1..m : rows[c[x]] \in R
    BY <1>11, <1>12
  <2> HIDE DEF c
  <2> QED
    BY <1>12, <2>1 DEF RowsAt
<1>14. /\ IsListing(d, 1..m, StableOrder(kept, before)) /\ d \in [1..m -> 1..m]
       /\ SortedRows(kept, before) = RowsAt(kept, d)
  <2> HIDE DEF kept
  <2> QED
    BY <1>13, SortLists
<1>15. RowsAt(kept, d) = RowsAt(rows, RowsAt(c, d))
  <2>1. DOMAIN c = 1..m /\ DOMAIN d = 1..m /\ \A x \in 1..m : d[x] \in 1..m
    BY <1>12, <1>14
  <2> HIDE DEF c, d
  <2>2. \A x \in DOMAIN d : d[x] \in DOMAIN c
    BY <2>1
  <2> QED
    BY <2>2, GatheredTwice
<1> DEFINE e == RowsAt(c, d)
<1>16. e = Listed(T, order)
  <2>1. PICK n \in Nat : /\ d \in [1..n -> 1..m]
                         /\ \A i \in 1..m : \E x \in 1..n : d[x] = i
                         /\ \A x, y \in 1..n : x < y => <<d[x], d[y]>> \in StableOrder(kept, before)
    <3> HIDE DEF d, kept
    <3> QED
      BY <1>14 DEF IsListing
  <2>2. e \in [1..n -> T]
    <3> HIDE DEF d, c, T
    <3> QED
      BY <1>12, <2>1 DEF RowsAt
  <2>3. ASSUME NEW i \in T PROVE \E x \in 1..n : e[x] = i
    <3>1. PICK y \in 1..m : c[y] = i
      BY <1>12
    <3>2. PICK x \in 1..n : d[x] = y
      BY <2>1
    <3> HIDE DEF d, c
    <3> QED
      BY <2>1, <3>1, <3>2 DEF RowsAt
  <2>4. ASSUME NEW x \in 1..n, NEW y \in 1..n, x < y PROVE <<e[x], e[y]>> \in order
    <3> DEFINE i == d[x]
               j == d[y]
    <3>1. i \in 1..m /\ j \in 1..m /\ <<i, j>> \in StableOrder(kept, before)
      BY <2>1, <2>4
    <3>2. e[x] = c[i] /\ e[y] = c[j]
      BY <2>1 DEF RowsAt
    <3> HIDE DEF i, j, d, e
    <3>3. c[i] \in D /\ c[j] \in D /\ kept[i] = rows[c[i]] /\ kept[j] = rows[c[j]]
      <4> HIDE DEF c, kept, T
      <4> QED
        BY <1>11, <1>12, <1>13, <3>1
    <3>4. \/ <<kept[i], kept[j]>> \in before
          \/ <<kept[j], kept[i]>> \notin before /\ i < j
      BY <3>1 DEF StableOrder
    <3>5. i < j => c[i] < c[j]
      <4> HIDE DEF c
      <4> QED
        BY <1>12, <3>1 DEF Upwards
    <3> HIDE DEF c, kept
    <3>6. <<c[i], c[j]>> \in order
      BY <1>1, <3>3, <3>4, <3>5 DEF StableOrder
    <3> QED
      BY <3>2, <3>6
  <2>5. StrictTotal(T, order)
    BY <1>2, <1>11 DEF StrictTotal
  <2>6. IsListing(e, T, order)
    <3> HIDE DEF e, T, order
    <3> QED
      BY <2>2, <2>3, <2>4 DEF IsListing
  <2> HIDE DEF e, T, order
  <2> QED
    BY <2>5, <2>6, ListingIsListed
<1> QED
  BY <1>10, <1>11, <1>14, <1>15, <1>16

\* A filter that is true of every row is no filter: what FilterElimination relies on.
THEOREM TrueFilterKeepsAll ==
  ASSUME NEW R, NEW rows \in Seq(R), NEW keep, \A x \in 1..Len(rows) : rows[x] \in keep
  PROVE  FilteredRows(rows, keep) = rows
<1> DEFINE D == 1..Len(rows)
           id == [x \in D |-> x]
<1>1. KeptIndices(rows, keep) = D
  BY DEF KeptIndices
<1>2. IsListing(id, D, Upwards)
  <2>1. /\ Len(rows) \in Nat /\ id \in [D -> D]
        /\ \A i \in D : \E x \in D : id[x] = i
        /\ \A x, y \in D : x < y => <<id[x], id[y]>> \in Upwards
    BY DEF Upwards
  <2> HIDE DEF id
  <2> QED
    BY <2>1 DEF IsListing
<1>3. id = Listed(D, Upwards)
  <2>1. D \in SUBSET Int
    OBVIOUS
  <2> HIDE DEF id, D
  <2> QED
    BY <1>2, <2>1, UpwardsIsTotal, ListingIsListed
<1>4. RowsAt(rows, id) = rows
  BY DEF RowsAt
<1> QED
  BY <1>1, <1>3, <1>4 DEF FilteredRows

\* A filter whose predicate reads nothing but what a projection keeps gives the
\* same rows above and below it: what PredicatePushdown and ProjectionPushdown
\* rely on.
THEOREM FilterGoesBelowProjection ==
  ASSUME NEW R, NEW rows \in Seq(R), NEW f, NEW keep, NEW keepBelow,
         \A x \in 1..Len(rows) : f[rows[x]] \in keep <=> rows[x] \in keepBelow
  PROVE  FilteredRows(MappedRows(rows, f), keep) = MappedRows(FilteredRows(rows, keepBelow), f)
<1> DEFINE K == KeptIndices(rows, keepBelow)
           a == Listed(K, Upwards)
<1>1. /\ K \subseteq 1..Len(rows) /\ IsListing(a, K, Upwards)
      /\ FilteredRows(rows, keepBelow) = RowsAt(rows, a)
  BY KeptRows
<1>2. KeptIndices(MappedRows(rows, f), keep) = K
  BY DEF KeptIndices, MappedRows
<1>3. \A x \in DOMAIN a : a[x] \in DOMAIN rows
  <2>1. K \subseteq DOMAIN rows
    BY <1>1
  <2> HIDE DEF a, K
  <2> QED
    BY <1>1, <2>1 DEF IsListing
<1>4. RowsAt(MappedRows(rows, f), a) = MappedRows(RowsAt(rows, a), f)
  <2> HIDE DEF a
  <2> QED
    BY <1>3 DEF RowsAt, MappedRows
<1> QED
  BY <1>1, <1>2, <1>4 DEF FilteredRows

\* The first rows of a projection are the projection of the first rows: what
\* LimitPushdown relies on.
THEOREM LimitGoesBelowProjection ==
  ASSUME NEW R, NEW rows \in Seq(R), NEW f, NEW n \in Nat
  PROVE  LeadingRows(MappedRows(rows, f), n) = MappedRows(LeadingRows(rows, n), f)
<1>1. Len(MappedRows(rows, f)) = Len(rows) /\ DOMAIN rows = 1..Len(rows) /\ Len(rows) \in Nat
  BY DEF MappedRows
<1>2. \A x \in 1..Len(rows) : MappedRows(rows, f)[x] = f[rows[x]]
  BY DEF MappedRows
<1> DEFINE m == IF n < Len(rows) THEN n ELSE Len(rows)
<1>3. m \in Nat /\ 1..m \subseteq 1..Len(rows)
  BY <1>1
<1>4. /\ LeadingRows(MappedRows(rows, f), n) = [x \in 1..m |-> MappedRows(rows, f)[x]]
      /\ LeadingRows(rows, n) = [x \in 1..m |-> rows[x]]
  BY <1>1 DEF LeadingRows
<1> HIDE DEF m
<1>5. [x \in 1..m |-> MappedRows(rows, f)[x]] = [x \in 1..m |-> f[rows[x]]]
  BY <1>2, <1>3
<1> QED
  BY <1>4, <1>5 DEF MappedRows

\* Two projections are their composition: what ProjectMerging relies on.
LEMMA ProjectionsMerge ==
  ASSUME NEW rows, NEW f, NEW g, NEW h, \A x \in DOMAIN rows : h[rows[x]] = g[f[rows[x]]]
  PROVE  MappedRows(MappedRows(rows, f), g) = MappedRows(rows, h)
BY DEF MappedRows

\* Rows that keep their sort keys are sorted as they were: what ProjectionPushdown
\* below a sort relies on, ties included.
THEOREM ProjectionGoesBelowSort ==
  ASSUME NEW R, NEW rows \in Seq(R), NEW f, NEW before, NEW beforeBelow, StrictWeak(R, beforeBelow),
         \A x, y \in 1..Len(rows) :
           <<f[rows[x]], f[rows[y]]>> \in before <=> <<rows[x], rows[y]>> \in beforeBelow
  PROVE  SortedRows(MappedRows(rows, f), before) = MappedRows(SortedRows(rows, beforeBelow), f)
<1> DEFINE a == Listed(1..Len(rows), StableOrder(rows, beforeBelow))
<1>1. /\ a \in [1..Len(rows) -> 1..Len(rows)] /\ DOMAIN rows = 1..Len(rows)
      /\ SortedRows(rows, beforeBelow) = RowsAt(rows, a)
  BY SortLists
<1>2. DOMAIN MappedRows(rows, f) = 1..Len(rows)
  BY DEF MappedRows
<1>3. StableOrder(MappedRows(rows, f), before) = StableOrder(rows, beforeBelow)
  BY <1>1, <1>2 DEF StableOrder, MappedRows
<1>4. SortedRows(MappedRows(rows, f), before) = RowsAt(MappedRows(rows, f), a)
  BY <1>2, <1>3 DEF SortedRows
<1>5. RowsAt(MappedRows(rows, f), a) = MappedRows(RowsAt(rows, a), f)
  <2> HIDE DEF a
  <2> QED
    BY <1>1 DEF RowsAt, MappedRows
<1> QED
  BY <1>1, <1>4, <1>5

\* What a sort returns: every row once, no row before an earlier one, and rows that
\* tie in the order they had.
LEMMA SortSorts ==
  ASSUME NEW R, NEW rows \in Seq(R), NEW before, StrictWeak(R, before)
  PROVE  \E a \in Bijection(1..Len(rows), 1..Len(rows)) :
           /\ SortedRows(rows, before) = RowsAt(rows, a)
           /\ \A x, y \in 1..Len(rows) : x < y =>
                /\ <<rows[a[y]], rows[a[x]]>> \notin before
                /\ <<rows[a[x]], rows[a[y]]>> \in before \/ a[x] < a[y]
<1> DEFINE D == 1..Len(rows)
           order == StableOrder(rows, before)
           a == Listed(D, order)
<1>1. /\ IsListing(a, D, order) /\ a \in [D -> D] /\ DOMAIN rows = D
      /\ SortedRows(rows, before) = RowsAt(rows, a)
  BY SortLists
<1>2. StrictTotal(D, order)
  BY StableOrderIsTotal
<1>3. PICK n \in Nat : /\ a \in [1..n -> D]
                       /\ \A i \in D : \E x \in 1..n : a[x] = i
                       /\ \A x, y \in 1..n : x < y => <<a[x], a[y]>> \in order
  <2> HIDE DEF a, D
  <2> QED
    BY <1>1 DEF IsListing
<1>4. 1..n = D
  <2> HIDE DEF a
  <2> QED
    BY <1>1, <1>3
<1>5. \A x, y \in D : x < y => <<a[x], a[y]>> \in order
  BY <1>3, <1>4
<1>6. \A x, y \in D : a[x] = a[y] => x = y
  <2> SUFFICES ASSUME NEW x \in D, NEW y \in D, a[x] = a[y], x < y PROVE FALSE
    OBVIOUS
  <2>1. <<a[x], a[x]>> \in order /\ a[x] \in D
    BY <1>1, <1>5
  <2> HIDE DEF a
  <2> QED
    BY <1>2, <2>1 DEF StrictTotal
<1> HIDE DEF a
<1>7. a \in Bijection(D, D)
  BY <1>1, <1>3, <1>4, <1>6 DEF Bijection, Injection, Surjection, IsInjective
<1>8. ASSUME NEW x \in D, NEW y \in D, x < y
      PROVE  /\ <<rows[a[y]], rows[a[x]]>> \notin before
             /\ <<rows[a[x]], rows[a[y]]>> \in before \/ a[x] < a[y]
  <2>1. a[x] \in D /\ a[y] \in D /\ rows[a[x]] \in R /\ rows[a[y]] \in R
    BY <1>1
  <2>2. \/ <<rows[a[x]], rows[a[y]]>> \in before
        \/ <<rows[a[y]], rows[a[x]]>> \notin before /\ a[x] < a[y]
    BY <1>5, <1>8 DEF StableOrder
  <2> QED
    BY <2>1, <2>2 DEF StrictWeak
<1> QED
  BY <1>1, <1>7, <1>8

\* A sort loses no row and adds none.
THEOREM SortKeepsRows ==
  ASSUME NEW R, NEW rows \in Seq(R), NEW before, StrictWeak(R, before), NEW schema
  PROVE  SameRows([schema |-> schema, rows |-> SortedRows(rows, before)],
                  [schema |-> schema, rows |-> rows])
<1> DEFINE D == 1..Len(rows)
           t == [schema |-> schema, rows |-> SortedRows(rows, before)]
           u == [schema |-> schema, rows |-> rows]
<1>1. PICK a \in Bijection(D, D) : SortedRows(rows, before) = RowsAt(rows, a)
  BY SortSorts
<1>2. a \in [D -> D] /\ (\A i \in D : \E x \in D : a[x] = i) /\ \A x, y \in D : a[x] = a[y] => x = y
  BY DEF Bijection, Injection, Surjection, IsInjective
<1>3. DOMAIN RowsAt(rows, a) = D /\ \A x \in D : RowsAt(rows, a)[x] = rows[a[x]]
  BY <1>2 DEF RowsAt
<1>4. ASSUME NEW row PROVE Times(row, t) = Times(row, u)
  <2> DEFINE X == {x \in D : rows[a[x]] = row}
             Y == {i \in D : rows[i] = row}
  <2>1. [x \in X |-> a[x]] \in Bijection(X, Y)
    BY <1>2 DEF Bijection, Injection, Surjection, IsInjective
  <2>2. IsFiniteSet(X)
    <3>1. IsFiniteSet(D)
      BY FS_Interval
    <3>2. X \in SUBSET D
      OBVIOUS
    <3> HIDE DEF X, D
    <3> QED
      BY <3>1, <3>2, FS_Subset
  <2>3. Cardinality(X) = Cardinality(Y)
    <3> HIDE DEF X, Y
    <3> QED
      BY <2>1, <2>2, FS_Bijection DEF ExistsBijection
  <2>4. Times(row, t) = Cardinality(X)
    BY <1>1, <1>3 DEF Times
  <2>5. Times(row, u) = Cardinality(Y)
    <3>1. u.rows = rows /\ DOMAIN rows = D
      OBVIOUS
    <3> QED
      BY <3>1 DEF Times
  <2> QED
    BY <2>3, <2>4, <2>5
<1> QED
  BY <1>4 DEF SameRows

\* What a permutation of the places of a table is.
LEMMA Permutation ==
  ASSUME NEW D, NEW a
  PROVE  a \in Bijection(D, D) <=>
           /\ a \in [D -> D]
           /\ \A x, y \in D : a[x] = a[y] => x = y
           /\ \A i \in D : \E x \in D : a[x] = i
BY DEF Bijection, Injection, Surjection, IsInjective

\* Two sorted arrangements of the same rows tie place by place.
LEMMA SortedAlike ==
  ASSUME NEW R, NEW rows \in Seq(R), NEW before, StrictWeak(R, before),
         NEW a \in Bijection(1..Len(rows), 1..Len(rows)),
         \A x, y \in 1..Len(rows) : x < y => <<rows[a[y]], rows[a[x]]>> \notin before,
         NEW c \in Bijection(1..Len(rows), 1..Len(rows)),
         \A x, y \in 1..Len(rows) : x < y => <<rows[c[y]], rows[c[x]]>> \notin before,
         NEW x \in 1..Len(rows)
  PROVE  <<rows[a[x]], rows[c[x]]>> \notin before
<1> DEFINE D == 1..Len(rows)
<1>1. /\ a \in [D -> D] /\ \A y, z \in D : a[y] = a[z] => y = z
      /\ c \in [D -> D] /\ \A i \in D : \E z \in D : c[z] = i
  <2>1. a \in Bijection(D, D) /\ c \in Bijection(D, D)
    OBVIOUS
  <2> HIDE DEF D
  <2> QED
    BY <2>1, Permutation
<1>2. (\A i \in D : rows[i] \in R) /\ Len(rows) \in Nat /\ x \in 1..Len(rows)
  OBVIOUS
<1> SUFFICES ASSUME <<rows[a[x]], rows[c[x]]>> \in before PROVE FALSE
  OBVIOUS
<1>3. ASSUME NEW y \in 1..x PROVE \E z \in 1..(x - 1) : c[z] = a[y]
  <2>1. y \in D /\ a[y] \in D /\ a[x] \in D /\ c[x] \in D
    <3>1. y \in D /\ x \in D
      BY <1>2, <1>3
    <3> HIDE DEF D
    <3> QED
      BY <1>1, <3>1
  <2>2. <<rows[a[x]], rows[a[y]]>> \notin before
    BY <1>2, <2>1 DEF StrictWeak
  <2>3. <<rows[a[y]], rows[c[x]]>> \in before
    BY <1>2, <2>1, <2>2 DEF StrictWeak
  <2>4. PICK z \in D : c[z] = a[y]
    BY <1>1, <2>1
  <2>5. z # x /\ ~ (x < z)
    BY <1>2, <2>1, <2>3, <2>4 DEF StrictWeak
  <2> QED
    BY <2>4, <2>5
<1> DEFINE g == [y \in 1..x |-> CHOOSE z \in 1..(x - 1) : c[z] = a[y]]
<1>4. \A y \in 1..x : g[y] \in 1..(x - 1) /\ c[g[y]] = a[y]
  BY <1>3
<1>5. g \in [1..x -> 1..(x - 1)]
  BY <1>4
<1>6. /\ IsFiniteSet(1..x) /\ IsFiniteSet(1..(x - 1))
      /\ Cardinality(1..(x - 1)) < Cardinality(1..x)
  <2>1. 1 \in Int /\ x \in Int /\ x - 1 \in Int /\ x >= 1
    OBVIOUS
  <2>2. IsFiniteSet(1..x) /\ Cardinality(1..x) = x
    BY <2>1, FS_Interval
  <2>3. IsFiniteSet(1..(x - 1)) /\ Cardinality(1..(x - 1)) = x - 1
    <3>1. Cardinality(1..(x - 1)) = IF 1 > x - 1 THEN 0 ELSE (x - 1) - 1 + 1
      BY <2>1, FS_Interval
    <3> QED
      BY <2>1, <3>1, FS_Interval
  <2> QED
    BY <2>1, <2>2, <2>3
<1> HIDE DEF g
<1>7. PICK y, z \in 1..x : y # z /\ g[y] = g[z]
  <2> DEFINE S == 1..x
             T == 1..(x - 1)
  <2>1. IsFiniteSet(S) /\ IsFiniteSet(T) /\ Cardinality(T) < Cardinality(S) /\ g \in [S -> T]
    BY <1>5, <1>6
  <2> HIDE DEF S, T
  <2>2. \E y, z \in S : y # z /\ g[y] = g[z]
    BY <2>1, FS_PigeonHole
  <2> QED
    BY <2>2 DEF S
<1>8. a[y] = a[z] /\ y \in D /\ z \in D
  BY <1>4, <1>7
<1> QED
  BY <1>1, <1>7, <1>8

\* Of two sorts the later one decides all but the order of its ties, and everything
\* where only equal rows tie: what SortElimination relies on, and where it is wrong.
THEOREM LaterSortDecides ==
  ASSUME NEW R, NEW rows \in Seq(R), NEW before, StrictWeak(R, before),
         NEW before2, StrictWeak(R, before2)
  PROVE  LET twice == SortedRows(SortedRows(rows, before), before2)
             once  == SortedRows(rows, before2)
         IN  /\ \A x \in 1..Len(rows) :
                  <<twice[x], once[x]>> \notin before2 /\ <<once[x], twice[x]>> \notin before2
             /\ (\A r, s \in R : r = s \/ <<r, s>> \in before2 \/ <<s, r>> \in before2) =>
                  twice = once
<1> DEFINE D == 1..Len(rows)
           twice == SortedRows(SortedRows(rows, before), before2)
           once  == SortedRows(rows, before2)
<1>1. PICK c \in Bijection(D, D) :
           /\ once = RowsAt(rows, c)
           /\ \A x, y \in D : x < y => <<rows[c[y]], rows[c[x]]>> \notin before2
  BY SortSorts
<1>2. PICK a \in Bijection(D, D) : SortedRows(rows, before) = RowsAt(rows, a)
  BY SortSorts
<1>3. a \in [D -> D] /\ c \in [D -> D] /\ DOMAIN rows = D /\ \A i \in D : rows[i] \in R
  <2>1. DOMAIN rows = D /\ \A i \in D : rows[i] \in R
    OBVIOUS
  <2> QED
    BY <2>1, Permutation
<1> DEFINE mid == RowsAt(rows, a)
<1>4. mid \in Seq(R) /\ Len(mid) = Len(rows) /\ \A x \in D : mid[x] = rows[a[x]]
  <2>1. \A x \in D : rows[a[x]] \in R
    BY <1>3
  <2> QED
    BY <1>3, <2>1 DEF RowsAt
<1>5. PICK d \in Bijection(D, D) :
           /\ SortedRows(mid, before2) = RowsAt(mid, d)
           /\ \A x, y \in D : x < y => <<mid[d[y]], mid[d[x]]>> \notin before2
  <2> HIDE DEF mid
  <2> QED
    BY <1>4, SortSorts
<1> DEFINE ad == RowsAt(a, d)
<1>6. ad \in Bijection(D, D) /\ \A x \in D : ad[x] = a[d[x]] /\ d[x] \in D
  <2>1. /\ a \in [D -> D] /\ d \in [D -> D]
        /\ \A x, y \in D : a[x] = a[y] => x = y
        /\ \A x, y \in D : d[x] = d[y] => x = y
        /\ \A i \in D : \E x \in D : a[x] = i
        /\ \A i \in D : \E x \in D : d[x] = i
    <3> HIDE DEF D
    <3> QED
      BY Permutation
  <2>2. ad = [x \in D |-> a[d[x]]]
    BY <2>1 DEF RowsAt
  <2> HIDE DEF ad, D
  <2>3. ad \in [D -> D] /\ \A x \in D : ad[x] = a[d[x]] /\ d[x] \in D
    BY <2>1, <2>2
  <2>4. \A x, y \in D : ad[x] = ad[y] => x = y
    BY <2>1, <2>3
  <2>5. \A i \in D : \E x \in D : ad[x] = i
    BY <2>1, <2>3
  <2> QED
    BY <2>3, <2>4, <2>5, Permutation
<1>7. twice = RowsAt(mid, d)
  BY <1>2, <1>5
<1>8. \A x \in D : twice[x] = rows[ad[x]] /\ once[x] = rows[c[x]]
  <2>1. DOMAIN d = D /\ DOMAIN c = D
    BY DEF Bijection, Injection, Surjection
  <2>2. \A x \in D : RowsAt(mid, d)[x] = mid[d[x]] /\ RowsAt(rows, c)[x] = rows[c[x]]
    BY <2>1 DEF RowsAt
  <2> HIDE DEF mid, ad
  <2> QED
    BY <1>1, <1>4, <1>6, <1>7, <2>2
<1> HIDE DEF mid, ad
<1>9. \A x, y \in D : x < y => <<rows[ad[y]], rows[ad[x]]>> \notin before2
  <2>1. \A x \in D : mid[d[x]] = rows[ad[x]]
    BY <1>4, <1>6
  <2> QED
    BY <1>5, <2>1
<1>10. \A x \in D : <<rows[ad[x]], rows[c[x]]>> \notin before2
  BY <1>1, <1>6, <1>9, SortedAlike
<1>11. \A x \in D : <<rows[c[x]], rows[ad[x]]>> \notin before2
  BY <1>1, <1>6, <1>9, SortedAlike
<1>12. \A x \in D :
         <<twice[x], once[x]>> \notin before2 /\ <<once[x], twice[x]>> \notin before2
  BY <1>8, <1>10, <1>11
<1>13. ASSUME \A r, s \in R : r = s \/ <<r, s>> \in before2 \/ <<s, r>> \in before2
       PROVE  twice = once
  <2>1. \A x \in D : rows[ad[x]] = rows[c[x]]
    <3>1. \A x \in D : ad[x] \in D /\ c[x] \in D
      BY <1>3, <1>6 DEF Bijection, Injection, Surjection
    <3> QED
      BY <1>3, <1>10, <1>11, <1>13, <3>1
  <2>2. once = [x \in D |-> rows[c[x]]]
    BY <1>1, <1>3 DEF RowsAt
  <2>3. twice = [x \in D |-> mid[d[x]]]
    BY <1>7 DEF RowsAt, Bijection, Injection, Surjection
  <2>4. \A x \in D : mid[d[x]] = rows[c[x]]
    BY <1>4, <1>6, <2>1
  <2> HIDE DEF twice, once
  <2> QED
    BY <2>2, <2>3, <2>4
<1> QED
  BY <1>12, <1>13

\* A set of natural numbers has a least element: two keys that differ do so on
\* a first column.
LEMMA LeastElement ==
  ASSUME NEW T \in SUBSET Nat, T # {}
  PROVE  \E n \in T : \A m \in T : n <= m
<1>1. \E n \in T : \A m \in T : ~(<<m, n>> \in OpToRel(<, Nat))
  BY WFMin, NatLessThanWellFounded
<1>2. PICK n \in T : \A m \in T : ~(<<m, n>> \in OpToRel(<, Nat))
  BY <1>1
<1>3. \A m \in T : ~(m < n)
  BY <1>2 DEF OpToRel
<1> QED
  BY <1>3

\* Wherever the values of each column are strictly and totally ordered - no NaN,
\* that is - the comparator of sort is one that std::stable_sort may be given, for
\* any number of keys, nulls and either direction.
THEOREM ComparatorIsStrictWeak ==
  ASSUME NEW null, NEW Less(_, _), NEW Values, null \notin Values,
         \A u \in Values : ~ Less(u, u),
         \A u, v \in Values : u # v => Less(u, v) \/ Less(v, u),
         \A u, v, w \in Values : Less(u, v) /\ Less(v, w) => Less(u, w),
         \A u, v \in Values : Less(u, v) \in BOOLEAN,
         NEW n \in Nat, NEW ascending \in BOOLEAN,
         NEW R, NEW keyOf \in [R -> [1..n -> Values \cup {null}]]
  PROVE  StrictWeak(R, {p \in R \X R : KeyBefore(null, Less, ascending, keyOf[p[1]], keyOf[p[2]])})
<1> DEFINE Cells == Values \cup {null}
           Keys == [1..n -> Cells]
           First(u, v) == IF null \in {u, v} THEN (v = null) = ascending ELSE Less(u, v) = ascending
           B(a, b) == \E x \in 1..n : /\ \A y \in 1..(x - 1) : a[y] = b[y]
                                      /\ a[x] # b[x]
                                      /\ First(a[x], b[x])
<1>1. \A u, v \in Cells : u # v => (First(u, v) <=> ~ First(v, u))
  <2> SUFFICES ASSUME NEW u \in Cells, NEW v \in Cells, u # v PROVE First(u, v) <=> ~ First(v, u)
    OBVIOUS
  <2>1. CASE null \in {u, v}
    BY <2>1
  <2>2. CASE null \notin {u, v}
    <3>1. u \in Values /\ v \in Values
      BY <2>2
    <3>2. /\ Less(u, v) \in BOOLEAN /\ Less(v, u) \in BOOLEAN
          /\ Less(u, v) <=> ~ Less(v, u)
      BY <3>1
    <3> QED
      BY <2>2, <3>2
  <2> QED
    BY <2>1, <2>2
<1>2. \A u, v, w \in Cells : u # v /\ v # w /\ First(u, v) /\ First(v, w) => u # w /\ First(u, w)
  <2> SUFFICES ASSUME NEW u \in Cells, NEW v \in Cells, NEW w \in Cells, u # v, v # w,
                      First(u, v), First(v, w)
               PROVE  u # w /\ First(u, w)
    OBVIOUS
  <2>1. u # w
    BY <1>1
  <2>2. CASE null \in {u, v, w}
    BY <2>1, <2>2
  <2>3. CASE null \notin {u, v, w}
    <3>1. u \in Values /\ v \in Values /\ w \in Values
      BY <2>3
    <3>2. Less(u, v) = ascending /\ Less(v, w) = ascending /\ (First(u, w) <=> (Less(u, w) = ascending))
      BY <2>3
    <3>3. CASE ascending
      BY <2>1, <3>1, <3>2, <3>3
    <3>4. CASE ~ ascending
      <4>1. Less(v, u) /\ Less(w, v)
        BY <3>1, <3>2, <3>4
      <4>2. Less(w, u) /\ ~ Less(u, w)
        BY <3>1, <4>1
      <4> QED
        BY <2>1, <3>1, <3>2, <3>4, <4>2
    <3> QED
      BY <3>3, <3>4
  <2> QED
    BY <2>2, <2>3
<1> HIDE DEF First
<1>3. \A a \in Keys : ~ B(a, a)
  OBVIOUS
<1>4. \A a, b \in Keys : a = b \/ B(a, b) \/ B(b, a)
  <2> SUFFICES ASSUME NEW a \in Keys, NEW b \in Keys, a # b PROVE B(a, b) \/ B(b, a)
    OBVIOUS
  <2> DEFINE T == {x \in 1..n : a[x] # b[x]}
  <2>1. T \in SUBSET Nat /\ T # {}
    OBVIOUS
  <2>2. PICK x \in T : \A y \in T : x <= y
    <3> HIDE DEF T
    <3> QED
      BY <2>1, LeastElement
  <2>3. x \in 1..n /\ a[x] # b[x] /\ a[x] \in Cells /\ b[x] \in Cells
    OBVIOUS
  <2>4. \A y \in 1..(x - 1) : a[y] = b[y]
    <3> SUFFICES ASSUME NEW y \in 1..(x - 1), a[y] # b[y] PROVE FALSE
      OBVIOUS
    <3>1. y \in T /\ ~ (x <= y)
      BY <2>3
    <3> QED
      BY <2>2, <3>1
  <2>5. First(a[x], b[x]) \/ First(b[x], a[x])
    BY <1>1, <2>3
  <2> QED
    BY <2>3, <2>4, <2>5
<1>5. \A a, b, c \in Keys : B(a, b) /\ B(b, c) => B(a, c)
  <2> SUFFICES ASSUME NEW a \in Keys, NEW b \in Keys, NEW c \in Keys, B(a, b), B(b, c)
               PROVE  B(a, c)
    OBVIOUS
  <2>1. PICK x \in 1..n : /\ \A y \in 1..(x - 1) : a[y] = b[y]
                          /\ a[x] # b[x] /\ First(a[x], b[x])
    OBVIOUS
  <2>2. PICK z \in 1..n : /\ \A y \in 1..(z - 1) : b[y] = c[y]
                          /\ b[z] # c[z] /\ First(b[z], c[z])
    OBVIOUS
  <2>3. /\ a[x] \in Cells /\ b[x] \in Cells /\ c[x] \in Cells
        /\ a[z] \in Cells /\ b[z] \in Cells /\ c[z] \in Cells
    OBVIOUS
  <2>4. CASE x = z
    <3>1. \A y \in 1..(x - 1) : a[y] = c[y]
      BY <2>1, <2>2, <2>4
    <3>2. a[x] # c[x] /\ First(a[x], c[x])
      BY <1>2, <2>1, <2>2, <2>3, <2>4
    <3> QED
      BY <3>1, <3>2
  <2>5. CASE x < z
    <3>1. b[x] = c[x] /\ \A y \in 1..(x - 1) : a[y] = c[y]
      BY <2>1, <2>2, <2>5
    <3> QED
      BY <2>1, <3>1
  <2>6. CASE z < x
    <3>1. a[z] = b[z] /\ \A y \in 1..(z - 1) : a[y] = c[y]
      BY <2>1, <2>2, <2>6
    <3> QED
      BY <2>2, <3>1
  <2> QED
    BY <2>4, <2>5, <2>6
<1>6. \A r, s \in R : KeyBefore(null, Less, ascending, keyOf[r], keyOf[s]) <=> B(keyOf[r], keyOf[s])
  <2> SUFFICES ASSUME NEW r \in R, NEW s \in R
               PROVE  KeyBefore(null, Less, ascending, keyOf[r], keyOf[s]) <=> B(keyOf[r], keyOf[s])
    OBVIOUS
  <2>1. DOMAIN keyOf[r] = 1..n
    OBVIOUS
  <2> QED
    BY <2>1 DEF KeyBefore, First
<1> DEFINE before == {p \in R \X R : KeyBefore(null, Less, ascending, keyOf[p[1]], keyOf[p[2]])}
<1>7. \A r, s \in R : <<r, s>> \in before <=> B(keyOf[r], keyOf[s])
  BY <1>6
<1>8. \A r \in R : keyOf[r] \in Keys
  OBVIOUS
<1> HIDE DEF before, B, Keys
<1>9. ASSUME NEW r \in R, NEW s \in R, NEW t \in R, <<r, t>> \in before
      PROVE  <<r, s>> \in before \/ <<s, t>> \in before
  <2>1. keyOf[r] \in Keys /\ keyOf[s] \in Keys /\ keyOf[t] \in Keys /\ B(keyOf[r], keyOf[t])
    BY <1>7, <1>8, <1>9
  <2>2. B(keyOf[r], keyOf[s]) \/ B(keyOf[s], keyOf[t])
    BY <1>4, <1>5, <2>1
  <2> QED
    BY <1>7, <2>2
<1>10. StrictWeak(R, before)
  <2>1. \A r \in R : <<r, r>> \notin before
    BY <1>3, <1>7, <1>8
  <2>2. \A r, s, t \in R : <<r, s>> \in before /\ <<s, t>> \in before => <<r, t>> \in before
    BY <1>5, <1>7, <1>8
  <2> QED
    BY <1>9, <2>1, <2>2 DEF StrictWeak
<1> QED
  BY <1>10 DEF before

-----------------------------------------------------------------------------
(* Groups *)

\* A finite set of numbers has one ascending sequence, the one Listed gives.
LEMMA AscendingIsListed ==
  ASSUME NEW S \in SUBSET Int, IsFiniteSet(S)
  PROVE  Ascending(S) = Listed(S, Upwards)
<1>1. StrictTotal(S, Upwards)
  BY UpwardsIsTotal
<1>2. IsListing(Listed(S, Upwards), S, Upwards) /\ DOMAIN Listed(S, Upwards) = 1..Cardinality(S)
  BY <1>1, ListedLists
<1>3. \A s : s \in [1..Cardinality(S) -> S] /\ IsAscending(s, S) => s = Listed(S, Upwards)
  <2> SUFFICES ASSUME NEW s \in [1..Cardinality(S) -> S], IsAscending(s, S)
               PROVE  s = Listed(S, Upwards)
    OBVIOUS
  <2>1. Cardinality(S) \in Nat
    BY FS_CardinalityType
  <2>2. \A i \in S : \E x \in 1..Cardinality(S) : s[x] = i
    BY DEF IsAscending
  <2>3. \A x, y \in 1..Cardinality(S) : x < y => <<s[x], s[y]>> \in Upwards
    BY DEF IsAscending, Upwards
  <2>4. IsListing(s, S, Upwards)
    BY <2>1, <2>2, <2>3 DEF IsListing
  <2> QED
    BY <1>1, <2>4, ListingIsListed
<1> DEFINE L == Listed(S, Upwards)
<1>4. L \in [1..Cardinality(S) -> S] /\ IsAscending(L, S)
  <2> HIDE DEF L
  <2>1. PICK n \in Nat : /\ L \in [1..n -> S]
                         /\ \A i \in S : \E x \in 1..n : L[x] = i
                         /\ \A x, y \in 1..n : x < y => <<L[x], L[y]>> \in Upwards
    BY <1>2 DEF IsListing, L
  <2>2. DOMAIN L = 1..n /\ DOMAIN L = 1..Cardinality(S)
    BY <1>2, <2>1 DEF L
  <2>3. \A x, y \in 1..n : x < y => L[x] < L[y]
    BY <2>1 DEF Upwards
  <2>4. {L[x] : x \in DOMAIN L} = S
    BY <2>1
  <2> QED
    BY <2>1, <2>2, <2>3, <2>4 DEF IsAscending
<1> HIDE DEF L
<1>5. \E s \in [1..Cardinality(S) -> S] : IsAscending(s, S)
  BY <1>4
<1> QED
  BY <1>3, <1>5 DEF Ascending

\* The rows with the key of a row.
RowsLike(key, i) == {j \in DOMAIN key : key[j] = key[i]}

\* group_by lists the first rows of the keys, and for each the rows like it.
LEMMA GroupsAreListed ==
  ASSUME NEW R, NEW key \in Seq(R)
  PROVE  LET F      == FirstRows(key)
             firsts == Listed(F, Upwards)
         IN  /\ \A S \in SUBSET DOMAIN key : /\ StrictTotal(S, Upwards)
                                             /\ IsListing(Listed(S, Upwards), S, Upwards)
             /\ F \in SUBSET DOMAIN key
             /\ \A g \in DOMAIN firsts : firsts[g] \in F
             /\ GroupsOf(key) = [g \in DOMAIN firsts |-> Listed(RowsLike(key, firsts[g]), Upwards)]
             /\ \A g \in DOMAIN firsts : GroupsOf(key)[g][1] \in RowsLike(key, firsts[g])
<1> DEFINE F == FirstRows(key)
           firsts == Listed(F, Upwards)
<1>1. /\ DOMAIN key \in SUBSET Int /\ IsFiniteSet(DOMAIN key)
      /\ F \in SUBSET DOMAIN key /\ \A i : RowsLike(key, i) \in SUBSET DOMAIN key
  <2>1. DOMAIN key = 1..Len(key) /\ Len(key) \in Int /\ 1 \in Int
    OBVIOUS
  <2>2. IsFiniteSet(1..Len(key))
    BY <2>1, FS_Interval
  <2> QED
    BY <2>1, <2>2 DEF RowsLike, FirstRows
<1> HIDE DEF F
<1>2. \A S \in SUBSET DOMAIN key : /\ StrictTotal(S, Upwards)
                                   /\ IsListing(Listed(S, Upwards), S, Upwards)
                                   /\ Ascending(S) = Listed(S, Upwards)
  <2> SUFFICES ASSUME NEW S \in SUBSET DOMAIN key
               PROVE  /\ StrictTotal(S, Upwards)
                      /\ IsListing(Listed(S, Upwards), S, Upwards)
                      /\ Ascending(S) = Listed(S, Upwards)
    OBVIOUS
  <2>1. IsFiniteSet(S) /\ S \in SUBSET Int
    BY <1>1, FS_Subset
  <2> QED
    BY <2>1, UpwardsIsTotal, ListedLists, AscendingIsListed
<1>3. PICK n \in Nat : firsts \in [1..n -> F]
  <2> HIDE DEF firsts
  <2> QED
    BY <1>1, <1>2 DEF IsListing, firsts
<1>4. GroupsOf(key) = [g \in DOMAIN firsts |-> Listed(RowsLike(key, firsts[g]), Upwards)]
  <2>1. Ascending(F) = firsts
    BY <1>1, <1>2
  <2> HIDE DEF firsts
  <2>2. GroupsOf(key) = [g \in DOMAIN firsts |-> Ascending(RowsLike(key, firsts[g]))]
    BY <2>1 DEF GroupsOf, RowsLike, F
  <2>3. \A g \in DOMAIN firsts :
          Ascending(RowsLike(key, firsts[g])) = Listed(RowsLike(key, firsts[g]), Upwards)
    BY <1>1, <1>2
  <2> QED
    BY <2>2, <2>3
<1>5. ASSUME NEW g \in DOMAIN firsts PROVE GroupsOf(key)[g][1] \in RowsLike(key, firsts[g])
  <2> DEFINE C == RowsLike(key, firsts[g])
             L == Listed(C, Upwards)
  <2>1. firsts[g] \in C
    <3> HIDE DEF firsts
    <3> QED
      BY <1>1, <1>3, <1>5 DEF RowsLike
  <2>2. IsListing(L, C, Upwards)
    BY <1>1, <1>2
  <2>3. GroupsOf(key)[g] = L
    BY <1>4, <1>5
  <2> HIDE DEF L, C, firsts
  <2>4. L[1] \in C
    BY <2>1, <2>2 DEF IsListing
  <2> QED
    BY <2>3, <2>4 DEF C
<1>6. \A g \in DOMAIN firsts : firsts[g] \in F
  BY <1>3
<1> QED
  BY <1>1, <1>2, <1>4, <1>5, <1>6 DEF F

\* Dropping the groups whose keys a filter does not keep, and grouping the rows
\* whose keys it keeps, leaves the same groups in the same order, each with the same
\* rows in the same order: what HavingVsWhere relies on.
THEOREM HavingIsWhere ==
  ASSUME NEW R, NEW key \in Seq(R), NEW keep
  PROVE  LET kept   == Listed(KeptIndices(key, keep), Upwards)
             groups == GroupsOf(key)
             below  == GroupsOf(RowsAt(key, kept))
             above  == RowsAt(groups, Listed({g \in DOMAIN groups : key[groups[g][1]] \in keep}, Upwards))
         IN  above = [g \in DOMAIN below |-> RowsAt(kept, below[g])]
<1> DEFINE K == KeptIndices(key, keep)
           a == Listed(K, Upwards)
           F == FirstRows(key)
           firsts == Listed(F, Upwards)
           groups == GroupsOf(key)
           key2 == RowsAt(key, a)
           F2 == FirstRows(key2)
           firsts2 == Listed(F2, Upwards)
           below == GroupsOf(key2)
           G == KeptIndices(firsts, K)
           b == Listed(G, Upwards)
<1>1. /\ \A S \in SUBSET DOMAIN key : /\ StrictTotal(S, Upwards)
                                      /\ IsListing(Listed(S, Upwards), S, Upwards)
      /\ F \in SUBSET DOMAIN key
      /\ \A g \in DOMAIN firsts : firsts[g] \in F
      /\ groups = [g \in DOMAIN firsts |-> Listed(RowsLike(key, firsts[g]), Upwards)]
      /\ \A g \in DOMAIN firsts : groups[g][1] \in RowsLike(key, firsts[g])
  BY GroupsAreListed
<1>2. K \in SUBSET DOMAIN key
  BY DEF KeptIndices
<1>3. IsListing(a, K, Upwards) /\ StrictTotal(K, Upwards)
  BY <1>1, <1>2
<1>4. PICK m \in Nat : /\ a \in [1..m -> K]
                       /\ \A i \in K : \E x \in 1..m : a[x] = i
                       /\ \A x, y \in 1..m : x < y => a[x] < a[y]
  <2> HIDE DEF a, K
  <2> QED
    BY <1>3 DEF IsListing, Upwards
<1>5. key2 \in Seq(R) /\ DOMAIN key2 = 1..m /\ \A x \in 1..m : key2[x] = key[a[x]]
  <2>1. \A x \in 1..m : key[a[x]] \in R
    BY <1>2, <1>4
  <2> HIDE DEF a
  <2> QED
    BY <1>4, <2>1 DEF RowsAt
<1>6. /\ \A S \in SUBSET DOMAIN key2 : /\ StrictTotal(S, Upwards)
                                       /\ IsListing(Listed(S, Upwards), S, Upwards)
      /\ F2 \in SUBSET DOMAIN key2
      /\ \A g \in DOMAIN firsts2 : firsts2[g] \in F2
      /\ below = [g \in DOMAIN firsts2 |-> Listed(RowsLike(key2, firsts2[g]), Upwards)]
  <2> HIDE DEF key2
  <2> QED
    BY <1>5, GroupsAreListed
<1>7. \A i, j \in DOMAIN key : i \in K /\ key[j] = key[i] => j \in K
  BY DEF KeptIndices
<1> HIDE DEF a, K, key2
<1>8. F2 = KeptIndices(a, F)
  <2>1. ASSUME NEW x \in F2 PROVE x \in DOMAIN a /\ a[x] \in F
    <3>1. x \in 1..m /\ a[x] \in K /\ a[x] \in DOMAIN key
      BY <1>2, <1>4, <1>5, <1>6
    <3>2. ASSUME NEW j \in 1..(a[x] - 1), key[j] = key[a[x]] PROVE FALSE
      <4>1. a[x] \in 1..Len(key) /\ DOMAIN key = 1..Len(key) /\ Len(key) \in Nat
        BY <3>1
      <4>2. j \in DOMAIN key /\ j < a[x]
        BY <3>2, <4>1
      <4>3. PICK y \in 1..m : a[y] = j
        BY <1>4, <1>7, <3>1, <3>2, <4>2
      <4>4. y < x
        <5>1. a[y] \in Int /\ a[x] \in Int /\ a[y] < a[x]
          BY <4>1, <4>2, <4>3
        <5>2. y # x /\ ~ (x < y)
          BY <1>4, <3>1, <5>1
        <5> QED
          BY <3>1, <5>2
      <4>5. key2[y] = key2[x] /\ y \in 1..(x - 1)
        BY <1>5, <3>1, <3>2, <4>3, <4>4
      <4> QED
        BY <2>1, <4>5 DEF FirstRows
    <3>3. a[x] \in F
      BY <3>1, <3>2 DEF FirstRows
    <3> QED
      BY <1>4, <3>1, <3>3
  <2>2. ASSUME NEW x \in 1..m, a[x] \in F PROVE x \in F2
    <3>1. ASSUME NEW y \in 1..(x - 1) PROVE key2[y] # key2[x]
      <4>1. y \in 1..m /\ y < x
        OBVIOUS
      <4>2. a[y] < a[x] /\ a[y] \in DOMAIN key /\ a[x] \in DOMAIN key
        BY <1>2, <1>4, <4>1
      <4>3. a[y] \in 1..(a[x] - 1)
        BY <4>2
      <4> QED
        BY <1>5, <2>2, <4>1, <4>3 DEF FirstRows
    <3> QED
      BY <1>5, <3>1 DEF FirstRows
  <2>3. DOMAIN a = 1..m
    BY <1>4
  <2> HIDE DEF F2, F
  <2> QED
    BY <2>1, <2>2, <2>3 DEF KeptIndices
<1> HIDE DEF F, F2, firsts, firsts2, groups, below
<1>9. RowsAt(a, firsts2) = Listed(K \cap F, Upwards)
  <2>1. IsListing(firsts2, F2, Upwards)
    BY <1>6 DEF firsts2
  <2> QED
    BY <1>3, <1>8, <2>1, ListingOfPart
<1>10. G = {g \in DOMAIN groups : key[groups[g][1]] \in keep}
  <2>1. DOMAIN groups = DOMAIN firsts
    BY <1>1
  <2>2. ASSUME NEW g \in DOMAIN firsts
        PROVE  firsts[g] \in K <=> key[groups[g][1]] \in keep
    <3>1. groups[g][1] \in DOMAIN key /\ key[groups[g][1]] = key[firsts[g]] /\ firsts[g] \in DOMAIN key
      BY <1>1 DEF RowsLike
    <3> QED
      BY <3>1 DEF K, KeptIndices
  <2>3. G = {g \in DOMAIN firsts : firsts[g] \in K}
    BY DEF KeptIndices
  <2> HIDE DEF G
  <2> QED
    BY <2>1, <2>2, <2>3
<1>11. IsListing(firsts, F, Upwards) /\ StrictTotal(F, Upwards)
  BY <1>1 DEF firsts
<1>12. IsListing(b, G, Upwards)
  <2>1. PICK n \in Nat : firsts \in [1..n -> F]
    BY <1>11 DEF IsListing
  <2>2. G \in SUBSET Int /\ G \in SUBSET (1..n)
    BY <2>1 DEF KeptIndices
  <2>3. IsFiniteSet(G)
    <3>1. IsFiniteSet(1..n)
      BY FS_Interval
    <3> HIDE DEF G
    <3> QED
      BY <2>2, <3>1, FS_Subset
  <2> HIDE DEF G
  <2> QED
    BY <2>2, <2>3, UpwardsIsTotal, ListedLists
<1>13. RowsAt(firsts, b) = Listed(F \cap K, Upwards)
  <2> HIDE DEF b
  <2> QED
    BY <1>11, <1>12, ListingOfPart
<1>14. RowsAt(firsts, b) = RowsAt(a, firsts2)
  <2>1. F \cap K = K \cap F
    OBVIOUS
  <2> HIDE DEF b
  <2> QED
    BY <1>9, <1>13, <2>1
<1> HIDE DEF b, G
<1>15. DOMAIN b = DOMAIN firsts2 /\ \A g \in DOMAIN firsts2 : firsts[b[g]] = a[firsts2[g]]
  <2>1. DOMAIN RowsAt(firsts, b) = DOMAIN b /\ DOMAIN RowsAt(a, firsts2) = DOMAIN firsts2
    BY DEF RowsAt
  <2>2. /\ \A g \in DOMAIN b : RowsAt(firsts, b)[g] = firsts[b[g]]
        /\ \A g \in DOMAIN firsts2 : RowsAt(a, firsts2)[g] = a[firsts2[g]]
    BY DEF RowsAt
  <2> QED
    BY <1>14, <2>1, <2>2
<1>16. ASSUME NEW g \in DOMAIN firsts2 PROVE groups[b[g]] = RowsAt(a, below[g])
  <2> DEFINE x == firsts2[g]
             C == RowsLike(key, a[x])
             C2 == RowsLike(key2, x)
  <2>1. x \in 1..m /\ a[x] \in K
    BY <1>4, <1>5, <1>6
  <2>2. C \in SUBSET K
    BY <1>2, <1>7, <2>1 DEF RowsLike
  <2>3. C2 = KeptIndices(a, C)
    <3>1. \A y \in 1..m : key2[y] = key2[x] <=> a[y] \in C
      BY <1>2, <1>4, <1>5, <2>1 DEF RowsLike
    <3>2. DOMAIN a = 1..m
      BY <1>4
    <3> HIDE DEF C
    <3> QED
      BY <1>5, <3>1, <3>2 DEF KeptIndices, RowsLike
  <2>4. below[g] = Listed(C2, Upwards)
    BY <1>6, <1>16
  <2>5. IsListing(below[g], C2, Upwards)
    <3>1. C2 \in SUBSET DOMAIN key2
      BY DEF RowsLike
    <3> HIDE DEF C2
    <3> QED
      BY <1>6, <2>4, <3>1
  <2>6. RowsAt(a, below[g]) = Listed(K \cap C, Upwards)
    <3> HIDE DEF C, C2, x
    <3> QED
      BY <1>3, <2>3, <2>5, ListingOfPart
  <2>7. b[g] \in DOMAIN firsts
    <3>1. b[g] \in G
      BY <1>12, <1>15, <1>16 DEF IsListing
    <3> QED
      BY <3>1 DEF G, KeptIndices
  <2>8. groups[b[g]] = Listed(C, Upwards)
    BY <1>1, <1>15, <1>16, <2>7
  <2>9. K \cap C = C
    BY <2>2
  <2> HIDE DEF C
  <2> QED
    BY <2>6, <2>8, <2>9
<1>17. DOMAIN below = DOMAIN firsts2
  BY <1>6
<1>18. RowsAt(groups, b) = [g \in DOMAIN below |-> RowsAt(a, below[g])]
  BY <1>15, <1>16, <1>17 DEF RowsAt
<1> QED
  BY <1>10, <1>18 DEF a, K, groups, below, key2, b, G

-----------------------------------------------------------------------------
(* The bitmaps the boolean kernels write hold three-valued logic, for arrays  *)
(* of any length and offset and whatever the data bits of null cells are.     *)

\* Every lane, those of nulls included.
LaneSet == [valid : BOOLEAN, data : BOOLEAN]

\* One lane: the undefined data bit of a null never shows.
LEMMA LanesAreThreeValued ==
  ASSUME NEW a \in LaneSet, NEW b \in LaneSet
  PROVE  /\ CellOf(AndKleeneOp(a, b)) = And3(CellOf(a), CellOf(b))
         /\ CellOf(OrKleeneOp(a, b)) = Or3(CellOf(a), CellOf(b))
         /\ CellOf(NotKleeneOp(a)) = Not3(CellOf(a))
<1>1. CellOf(AndKleeneOp(a, b)) = And3(CellOf(a), CellOf(b))
  BY DEF LaneSet, AndKleeneOp, And3, CellOf, Lane
<1>2. CellOf(OrKleeneOp(a, b)) = Or3(CellOf(a), CellOf(b))
  BY DEF LaneSet, OrKleeneOp, Or3, CellOf, Lane
<1>3. CellOf(NotKleeneOp(a)) = Not3(CellOf(a))
  BY DEF LaneSet, NotKleeneOp, Not3, CellOf, Lane
<1> QED
  BY <1>1, <1>2, <1>3

\* The kernel's lane j is cell j of its operand: no cell is missed by the last
\* byte, none is read past the slice's offset.
LEMMA LanesAreCells ==
  ASSUME NEW a \in BooleanArrays, NEW j \in 0..(a.length - 1)
  PROVE  /\ j \in DOMAIN Lanes(a)
         /\ Lanes(a)[j] \in LaneSet
         /\ CellOf(Lanes(a)[j]) = CellAt(a, j)
<1>1. /\ a.length \in Nat /\ a.offset \in Nat /\ j \in Nat /\ a.hasValid \in BOOLEAN
      /\ a.valid \in [Nat -> BOOLEAN] /\ a.data \in [Nat -> BOOLEAN]
  BY DEF BooleanArrays
<1>2. j \in 0..(8 * BytesForBits(a.length) - 1)
  BY <1>1 DEF BytesForBits
<1>3. LaneAt(Aligned(a), j) = LaneAt(a, a.offset + j)
  <2>1. CASE a.offset = 0
    BY <1>1, <2>1 DEF Aligned
  <2>2. CASE a.offset # 0
    <3>1. /\ Aligned(a).hasValid = a.hasValid
          /\ Aligned(a).valid[j] = a.valid[a.offset + j]
          /\ Aligned(a).data[j] = a.data[a.offset + j]
      BY <1>1, <2>2 DEF Aligned, BooleanArrays
    <3> QED
      BY <3>1 DEF LaneAt
  <2> QED
    BY <2>1, <2>2
<1>4. LaneAt(a, a.offset + j) \in LaneSet
  <2>1. a.offset + j \in Nat
    BY <1>1
  <2>2. a.valid[a.offset + j] \in BOOLEAN /\ a.data[a.offset + j] \in BOOLEAN
    BY <1>1, <2>1
  <2> QED
    BY <1>1, <2>2 DEF LaneAt, Lane, LaneSet
<1> QED
  BY <1>2, <1>3, <1>4 DEF Lanes, CellAt

\* Every cell the kernels write is the three-valued conjunction, disjunction or
\* negation of the operands' cells.
THEOREM KernelsAreThreeValued ==
  ASSUME NEW a \in BooleanArrays, NEW b \in BooleanArrays, a.length = b.length,
         NEW j \in 0..(a.length - 1)
  PROVE  /\ CellOf(AndKleene(a, b)[j]) = And3(CellAt(a, j), CellAt(b, j))
         /\ CellOf(OrKleene(a, b)[j]) = Or3(CellAt(a, j), CellAt(b, j))
         /\ CellOf(NotKleene(a)[j]) = Not3(CellAt(a, j))
<1>1. /\ j \in DOMAIN Lanes(a) /\ Lanes(a)[j] \in LaneSet
      /\ CellOf(Lanes(a)[j]) = CellAt(a, j)
  BY LanesAreCells
<1>2. Lanes(b)[j] \in LaneSet /\ CellOf(Lanes(b)[j]) = CellAt(b, j)
  BY LanesAreCells
<1>3. /\ AndKleene(a, b)[j] = AndKleeneOp(Lanes(a)[j], Lanes(b)[j])
      /\ OrKleene(a, b)[j] = OrKleeneOp(Lanes(a)[j], Lanes(b)[j])
      /\ NotKleene(a)[j] = NotKleeneOp(Lanes(a)[j])
  BY <1>1 DEF AndKleene, OrKleene, NotKleene
<1> QED
  BY <1>1, <1>2, <1>3, LanesAreThreeValued

\* The conjunction of two predicates is true of a row exactly when both are, nulls
\* included: a filter by it keeps what both filters keep.
LEMMA ConjunctionKeeps ==
  ASSUME NEW a \in LaneSet, NEW b \in LaneSet
  PROVE  CellOf(AndKleeneOp(a, b)) = "true" <=> CellOf(a) = "true" /\ CellOf(b) = "true"
BY DEF LaneSet, AndKleeneOp, CellOf, Lane
=============================================================================
