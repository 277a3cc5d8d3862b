--------------------------- MODULE SessionProofs ---------------------------
(***************************************************************************)
(* What a call does to the files and to the cached schemas, whatever the   *)
(* rules do to its plan and the nodes to its tables, for any number of     *)
(* files, queries and calls.                                               *)
(***************************************************************************)
EXTENDS Session, TLAPS

-----------------------------------------------------------------------------
(* The driver's step as its caller sees it *)

\* What is proved of the driver, of the one a call runs.
Driver == INSTANCE QueryOptimizerProofs
  WITH Inputs <- {}, Apply <- Rewritten, Thrown <- Failure, input <- query

\* A step of the driver starts in its own phases and ends in one of them, and only
\* a rule that throws leaves it without a plan.
LEMMA DriverStep ==
  ASSUME Optimizer!Next
  PROVE  /\ phase \in {"pass", "cleanup"}
         /\ phase' \in Optimizer!Phases
         /\ query' = query
         /\ phase' = "thrown" \/ plan' # Failure \/ plan' = plan
<1>1. Driver!Next
  BY DEF Optimizer!Next, Optimizer!ApplyRule, Optimizer!NextPass, Optimizer!LeaveLoop,
     Optimizer!ApplyCleanupRule, Optimizer!Return, Driver!Next, Driver!ApplyRule,
     Driver!NextPass, Driver!LeaveLoop, Driver!ApplyCleanupRule, Driver!Return,
     Optimizer!Rules, Driver!Rules, Optimizer!CleanupRules, Driver!CleanupRules,
     Optimizer!MaxIterations, Driver!MaxIterations
<1> QED
  BY <1>1, Driver!DriverStep DEF Optimizer!Phases, Driver!Phases

\* Answering as well as another plan is reflexive and transitive, and holds of
\* whichever table is returned.
LEMMA AnswersLaws ==
  ASSUME NEW ordered
  PROVE  /\ \A S : Answers(ordered, S, S)
         /\ \A S, T, U : Answers(ordered, S, T) /\ Answers(ordered, T, U) => Answers(ordered, S, U)
         /\ \A S, T : \A t \in S : Answers(ordered, S, T) => Answers(ordered, {t}, T)
<1>1. \A t, row : Times(row, t) = Driver!Times(row, t)
  BY DEF Times, Driver!Times, Cardinality, Driver!Cardinality
<1>2. \A t, u : SameRows(t, u) <=> Driver!SameRows(t, u)
  BY <1>1 DEF SameRows, Driver!SameRows, RowsOf, Driver!RowsOf
<1>3. \A S, T : Answers(ordered, S, T) <=> Driver!Answers(ordered, S, T)
  BY <1>2 DEF Answers, Driver!Answers
<1> QED
  BY <1>3, Driver!AnswersReflexive, Driver!AnswersTransitive, Driver!AnswersAny

-----------------------------------------------------------------------------
(* The inductive invariant *)

\* A session starts in the invariant, whatever the files hold.
LEMMA SessionStarts == Init => SessionInv
<1> SUFFICES ASSUME Init PROVE SessionInv
  OBVIOUS
<1>1. \A f \in Files : disk[f] = {} \/ \E t \in disk[f] : disk[f] = {t}
  BY DEF Init, Stored
<1>2. SessionTypeOK
  BY DEF Init, SessionTypeOK
<1>3. ~ Answered /\ phase = "idle"
  BY DEF Init, Answered
<1> QED
  BY <1>1, <1>2, <1>3 DEF SessionInv, DiskInv, ResultInv, SinksStoreTheAnswer,
     FailedQueriesTouchNothing, Optimizer!Phases

\* Between calls only the shape of the files and the caches is left to keep.
LEMMA IdleIsEnough ==
  ASSUME phase' = "idle", SessionTypeOK',
         (\A f \in Files : disk[f] = {} \/ \E t \in disk[f] : disk[f] = {t})'
  PROVE  SessionInv'
BY DEF SessionInv, DiskInv, ResultInv, SinksStoreTheAnswer, FailedQueriesTouchNothing,
   Answered, Optimizer!Phases

\* Another program leaves a table in a file, or none.
LEMMA RewriteKeeps == ASSUME SessionInv, Rewrite PROVE SessionInv'
<1> USE DEF SessionInv
<1>0. PICK f \in Files : \E tables \in Stored(f) : disk' = [disk EXCEPT ![f] = tables]
  BY DEF Rewrite
<1>1. PICK tables \in Stored(f) : disk' = [disk EXCEPT ![f] = tables]
  BY <1>0
<1>2. \A g \in Files : disk'[g] = IF g = f THEN tables ELSE disk[g]
  BY <1>1 DEF SessionTypeOK
<1>3. tables = {} \/ \E t \in tables : tables = {t}
  BY <1>1 DEF Stored
<1>4. SessionTypeOK'
  BY <1>1 DEF Rewrite, SessionTypeOK, call
<1>5. (\A g \in Files : disk[g] = {} \/ \E t \in disk[g] : disk[g] = {t})'
  BY <1>2, <1>3 DEF DiskInv
<1> QED BY <1>4, <1>5, IdleIsEnough DEF Rewrite

\* A call begins with the disk as it is.
LEMMA BeginKeeps ==
  ASSUME SessionInv, NEW q, NEW path \in Sinks \cup {Nowhere}, Begin(q, path), disk' = disk
  PROVE  SessionInv'
<1> USE DEF SessionInv
<1>1. SessionTypeOK'
  BY DEF Begin, SessionTypeOK, Optimizer!Phases, Answered
<1>2. DiskInv'
  BY DEF Begin, DiskInv, Optimizer!Phases
<1>3. ResultInv' /\ SinksStoreTheAnswer' /\ FailedQueriesTouchNothing'
  BY DEF Begin, ResultInv, Answered, SinksStoreTheAnswer, FailedQueriesTouchNothing
<1> QED BY <1>1, <1>2, <1>3

\* The optimizer touches no file.
LEMMA OptimizeKeeps == ASSUME SessionInv, Optimize PROVE SessionInv'
<1> USE DEF SessionInv
<1>1. /\ phase \in {"pass", "cleanup"}
      /\ phase' \in Optimizer!Phases
  BY DriverStep DEF Optimize
<1>2. UNCHANGED <<disk, target, result, before>>
  BY DEF Optimize
<1>3. disk = before
  BY <1>1 DEF DiskInv, Optimizer!Phases
<1>4. SessionTypeOK'
  BY <1>1, <1>2 DEF Optimize, SessionTypeOK, Optimizer!Phases
<1>5. DiskInv'
  BY <1>1, <1>2, <1>3 DEF DiskInv, Optimizer!Phases
<1>6. ResultInv' /\ SinksStoreTheAnswer' /\ FailedQueriesTouchNothing'
  BY <1>1, <1>2, <1>3 DEF ResultInv, Answered, SinksStoreTheAnswer,
     FailedQueriesTouchNothing, Optimizer!Phases
<1> QED BY <1>4, <1>5, <1>6

\* execute answers from the files as they were when the call began.
LEMMA ExecuteKeeps == ASSUME SessionInv, Execute PROVE SessionInv'
<1> USE DEF SessionInv
<1>1. UNCHANGED <<disk, cache, target, before, plan>> /\ phase = "optimized"
  BY DEF Execute, driver
<1>2. disk = before
  BY <1>1 DEF DiskInv, Optimizer!Phases
<1>3. CASE phase' = "thrown"
  <2>1. SessionTypeOK'
    BY <1>1, <1>3 DEF SessionTypeOK, Optimizer!Phases
  <2>2. DiskInv'
    BY <1>1, <1>2, <1>3 DEF DiskInv
  <2> QED
    BY <2>1, <2>2, <1>1, <1>2, <1>3 DEF ResultInv, Answered, SinksStoreTheAnswer,
       FailedQueriesTouchNothing
<1>4. CASE /\ \E t \in Run(plan, disk) : result' = {t}
           /\ phase' = IF target = Nowhere THEN "returned" ELSE "open"
  <2>1. SessionTypeOK'
    BY <1>1, <1>4 DEF SessionTypeOK, Answered
  <2>2. DiskInv'
    BY <1>1, <1>2, <1>4 DEF DiskInv
  <2>3. ResultInv'
    BY <1>1, <1>2, <1>4 DEF ResultInv
  <2> QED
    BY <2>1, <2>2, <2>3, <1>1, <1>4 DEF SinksStoreTheAnswer, FailedQueriesTouchNothing
<1> QED BY <1>3, <1>4 DEF Execute

\* A file that is being written reads as one table or throws.
LEMMA TornIsTableOrNone ==
  /\ {} \in Torn
  /\ \A left \in Torn : left = {} \/ \E t \in left : left = {t}
BY DEF Torn

\* Writing on the disk of the call's beginning leaves at most one table in each file.
LEMMA TargetKeepsShape ==
  ASSUME SessionInv, NEW left, left = {} \/ \E t \in left : left = {t},
         disk' = [disk EXCEPT ![target] = left]
  PROVE  (\A f \in Files : disk[f] = {} \/ \E t \in disk[f] : disk[f] = {t})'
<1>1. \A f \in Files : disk'[f] = left \/ disk'[f] = disk[f]
  BY DEF SessionInv, SessionTypeOK
<1> QED
  BY <1>1 DEF SessionInv, DiskInv

\* A target is emptied or not touched.
LEMMA OpenKeeps == ASSUME SessionInv, Open PROVE SessionInv'
<1> USE DEF SessionInv
<1>1. UNCHANGED <<cache, target, before, plan, result>> /\ phase = "open"
  BY DEF Open, call, driver
<1>2. disk = before /\ target \in Files
  BY <1>1, SessionAssumption DEF DiskInv, SessionTypeOK
<1>3. CASE disk' = [disk EXCEPT ![target] = {}] /\ phase' = "write"
  <2>1. SessionTypeOK'
    BY <1>1, <1>3 DEF SessionTypeOK, Answered
  <2>2. {} \in Torn' /\ disk' = [before' EXCEPT ![target'] = {}]
    BY <1>1, <1>2, <1>3 DEF Torn
  <2>3. (\A f \in Files : disk[f] = {} \/ \E t \in disk[f] : disk[f] = {t})'
    BY <1>3, TargetKeepsShape
  <2>4. DiskInv'
    BY <2>2, <2>3, <1>3 DEF DiskInv, Optimizer!Phases
  <2>5. SinksStoreTheAnswer'
    BY <2>2, <1>3 DEF SinksStoreTheAnswer
  <2> QED
    BY <2>1, <2>4, <2>5, <1>1, <1>3 DEF ResultInv, Answered, FailedQueriesTouchNothing
<1>4. CASE disk' = disk /\ phase' = "failed"
  <2>1. SessionTypeOK'
    BY <1>1, <1>4 DEF SessionTypeOK
  <2>2. DiskInv'
    BY <1>1, <1>2, <1>4 DEF DiskInv, Optimizer!Phases
  <2>3. SinksStoreTheAnswer'
    BY <1>1, <1>2, <1>4 DEF SinksStoreTheAnswer, SessionTypeOK
  <2> QED
    BY <2>1, <2>2, <2>3, <1>1, <1>4 DEF ResultInv, Answered, FailedQueriesTouchNothing
<1> QED BY <1>3, <1>4 DEF Open

\* Wherever the writer is, only its target differs from what the call found.
LEMMA WriteSomeKeeps == ASSUME SessionInv, WriteSome PROVE SessionInv'
<1> USE DEF SessionInv
<1>1. UNCHANGED <<cache, target, before, plan, result, phase>> /\ phase = "write"
  BY DEF WriteSome, call, driver
<1>2. PICK left \in Torn : disk' = [disk EXCEPT ![target] = left]
  BY DEF WriteSome
<1>3. left \in Torn' /\ disk' = [before' EXCEPT ![target'] = left]
  <2>1. PICK old \in Torn : disk = [before EXCEPT ![target] = old]
    BY <1>1 DEF DiskInv
  <2> QED
    BY <2>1, <1>1, <1>2 DEF Torn
<1>4. SessionTypeOK'
  BY <1>1, <1>2 DEF SessionTypeOK, Answered
<1>5. (\A f \in Files : disk[f] = {} \/ \E t \in disk[f] : disk[f] = {t})'
  BY <1>2, TornIsTableOrNone, TargetKeepsShape
<1>6. DiskInv'
  BY <1>1, <1>3, <1>5 DEF DiskInv, Optimizer!Phases
<1>7. SinksStoreTheAnswer'
  BY <1>1, <1>3 DEF SinksStoreTheAnswer
<1> QED
  BY <1>1, <1>4, <1>6, <1>7 DEF ResultInv, Answered, FailedQueriesTouchNothing

\* The table is in its file, or as much of it as was written.
LEMMA WriteKeeps == ASSUME SessionInv, Write PROVE SessionInv'
<1> USE DEF SessionInv
<1>1. UNCHANGED <<cache, target, before, plan, result>> /\ phase = "write"
  BY DEF Write, call, driver
<1>2. PICK left \in Torn : disk = [before EXCEPT ![target] = left]
  BY <1>1 DEF DiskInv
<1>3. \E t \in result : result = {t}
  BY <1>1 DEF ResultInv, Answered
<1>4. CASE disk' = [disk EXCEPT ![target] = result] /\ phase' = "close"
  <2>1. SessionTypeOK'
    BY <1>1, <1>4 DEF SessionTypeOK, Answered
  <2>2. disk' = [before' EXCEPT ![target'] = result']
    BY <1>1, <1>2, <1>4
  <2>3. (\A f \in Files : disk[f] = {} \/ \E t \in disk[f] : disk[f] = {t})'
    BY <1>3, <1>4, TargetKeepsShape
  <2>4. DiskInv'
    BY <2>2, <2>3, <1>4 DEF DiskInv, Optimizer!Phases
  <2>5. SinksStoreTheAnswer'
    BY <2>2, <1>4 DEF SinksStoreTheAnswer
  <2> QED
    BY <2>1, <2>4, <2>5, <1>1, <1>4 DEF ResultInv, Answered, FailedQueriesTouchNothing
<1>5. CASE disk' = disk /\ phase' = "failed"
  <2>1. SessionTypeOK'
    BY <1>1, <1>5 DEF SessionTypeOK
  <2>2. DiskInv'
    BY <1>1, <1>5 DEF DiskInv, Optimizer!Phases
  <2>3. left \in Torn' /\ disk' = [before' EXCEPT ![target'] = left]
    BY <1>1, <1>2, <1>5 DEF Torn
  <2>4. SinksStoreTheAnswer'
    BY <2>3, <1>5 DEF SinksStoreTheAnswer
  <2> QED
    BY <2>1, <2>2, <2>4, <1>1, <1>5 DEF ResultInv, Answered, FailedQueriesTouchNothing
<1> QED BY <1>4, <1>5 DEF Write

\* A close that fails may lose what was written from any point on, in the target only.
LEMMA CloseKeeps == ASSUME SessionInv, Close PROVE SessionInv'
<1> USE DEF SessionInv
<1>1. UNCHANGED <<cache, target, before, plan, result>> /\ phase = "close"
  BY DEF Close, call, driver
<1>2. disk = [before EXCEPT ![target] = result] /\ target # Nowhere
  BY <1>1, SessionAssumption DEF DiskInv, SessionTypeOK
<1>3. \E t \in result : result = {t}
  BY <1>1 DEF ResultInv, Answered
<1>4. CASE disk' = disk /\ phase' = "returned"
  <2>1. SessionTypeOK'
    BY <1>1, <1>4 DEF SessionTypeOK, Answered
  <2>2. DiskInv'
    BY <1>1, <1>2, <1>4 DEF DiskInv, Optimizer!Phases
  <2>3. SinksStoreTheAnswer'
    BY <1>1, <1>2, <1>4 DEF SinksStoreTheAnswer
  <2> QED
    BY <2>1, <2>2, <2>3, <1>1, <1>4 DEF ResultInv, Answered, FailedQueriesTouchNothing
<1>5. ASSUME NEW left \in Torn \cup {result},
             disk' = [disk EXCEPT ![target] = left], phase' = "failed"
      PROVE  SessionInv'
  <2>1. SessionTypeOK'
    BY <1>1, <1>5 DEF SessionTypeOK
  <2>2. left \in Torn' \cup {result'} /\ disk' = [before' EXCEPT ![target'] = left]
    BY <1>1, <1>2, <1>5 DEF Torn
  <2>3. (\A f \in Files : disk[f] = {} \/ \E t \in disk[f] : disk[f] = {t})'
    BY <1>3, <1>5, TornIsTableOrNone, TargetKeepsShape
  <2>4. DiskInv'
    BY <2>3, <1>1, <1>5 DEF DiskInv, Optimizer!Phases
  <2>5. SinksStoreTheAnswer'
    BY <2>2, <1>5 DEF SinksStoreTheAnswer
  <2> QED
    BY <2>1, <2>4, <2>5, <1>1, <1>5 DEF ResultInv, Answered, FailedQueriesTouchNothing
<1> QED BY <1>4, <1>5 DEF Close

\* The end of a call changes nothing on the disk.
LEMMA EndKeeps == ASSUME SessionInv, End PROVE SessionInv'
<1>1. UNCHANGED <<disk, cache, target>> /\ phase' = "idle"
  BY DEF End, call
<1>2. SessionTypeOK'
  BY <1>1 DEF SessionInv, SessionTypeOK
<1>3. (\A f \in Files : disk[f] = {} \/ \E t \in disk[f] : disk[f] = {t})'
  BY <1>1 DEF SessionInv, DiskInv
<1> QED BY <1>1, <1>2, <1>3, IdleIsEnough

\* A crash at any step leaves files a later call can start from.
LEMMA RestartKeeps == ASSUME SessionInv, Restart PROVE SessionInv'
<1>1. UNCHANGED <<disk, target>> /\ phase' = "idle"
  BY DEF Restart, call
<1>2. SessionTypeOK'
  BY <1>1 DEF Restart, SessionInv, SessionTypeOK
<1>3. (\A f \in Files : disk[f] = {} \/ \E t \in disk[f] : disk[f] = {t})'
  BY <1>1 DEF SessionInv, DiskInv
<1> QED BY <1>1, <1>2, <1>3, IdleIsEnough

\* Every step of the session keeps the invariant.
LEMMA SessionSteps == SessionInv /\ [Next]_vars => SessionInv'
<1> SUFFICES ASSUME SessionInv, [Next]_vars PROVE SessionInv'
  OBVIOUS
<1>1. CASE Rewrite
  BY <1>1, RewriteKeeps
<1>2. CASE Collect
  BY <1>2, BeginKeeps DEF Collect
<1>3. CASE Sink
  BY <1>3, BeginKeeps DEF Sink
<1>4. CASE Optimize
  BY <1>4, OptimizeKeeps
<1>5. CASE Execute
  BY <1>5, ExecuteKeeps
<1>6. CASE Open
  BY <1>6, OpenKeeps
<1>7. CASE Write
  BY <1>7, WriteKeeps
<1>8. CASE Close
  BY <1>8, CloseKeeps
<1>9. CASE End
  BY <1>9, EndKeeps
<1>10. CASE Restart
  BY <1>10, RestartKeeps
<1>11. CASE WriteSome
  BY <1>11, WriteSomeKeeps
<1>12. CASE UNCHANGED vars
  BY <1>12 DEF vars, call, driver, SessionInv, SessionTypeOK, DiskInv, ResultInv,
     SinksStoreTheAnswer, FailedQueriesTouchNothing, Answered, Torn
<1> QED
  BY <1>1, <1>2, <1>3, <1>4, <1>5, <1>6, <1>7, <1>8, <1>9, <1>10, <1>11, <1>12 DEF Next

\* Whatever the rules do to the plan and the nodes to the tables, a call answers
\* from the files as they were when it began, and a sink changes its target only,
\* which throws when read until it is whole or, csv, reads as the answer cut short:
\* through failed opens, writes and closes, crashes at any step and other programs.
THEOREM SessionInductiveInvariant == Spec => []SessionInv
BY SessionStarts, SessionSteps, PTL DEF Spec

-----------------------------------------------------------------------------
(* What the runs check *)

\* A sink that returned has stored its answer and touched nothing else, also when
\* its query scans the file it overwrites.  One that writes or has failed may have
\* left in its target what a later call reads as a shorter table, if that is csv; a
\* parquet target is as it was, whole, or throws.
THEOREM SinksStoreAnswers == Spec => []SinksStoreTheAnswer
<1>1. SessionInv => SinksStoreTheAnswer
  BY DEF SessionInv
<1> QED BY <1>1, SessionInductiveInvariant, PTL

\* A call whose query throws leaves every file as it was.
THEOREM ThrowingTouchesNothing == Spec => []FailedQueriesTouchNothing
<1>1. SessionInv => FailedQueriesTouchNothing
  BY DEF SessionInv
<1> QED BY <1>1, SessionInductiveInvariant, PTL

\* The rule's step: what a scan shows it keeps, and it shows what its file held
\* when the call began.
LEMMA CacheStep ==
  ASSUME SessionInv, [Next]_vars, NEW f \in Files
  PROVE  \/ cache'[f] = cache[f]
         \/ cache[f] = Unread /\ {cache'[f]} = {t.schema : t \in before[f]}
         \/ phase # "idle" /\ phase' = "idle" /\ \A g \in Files : cache'[g] = Unread
<1>1. CASE Optimize
  <2>1. PICK shown : cache' = [g \in Files |-> IF g \in shown THEN ScanSchema(g) ELSE cache[g]]
    BY <1>1 DEF Optimize
  <2>2. disk = before
    BY <1>1, DriverStep DEF Optimize, SessionInv, DiskInv, Optimizer!Phases
  <2>3. CASE f \in shown /\ cache[f] = Unread /\ disk[f] # {}
    <3>1. PICK t \in disk[f] : disk[f] = {t}
      BY <2>3 DEF SessionInv, DiskInv
    <3>2. (CHOOSE u \in disk[f] : TRUE) = t
      BY <3>1
    <3>3. cache'[f] = t.schema
      BY <2>1, <2>3, <3>2 DEF ScanSchema, FileSchema
    <3>4. {u.schema : u \in before[f]} = {t.schema}
      BY <2>2, <3>1
    <3> QED BY <2>3, <3>3, <3>4
  <2>4. CASE ~ (f \in shown /\ cache[f] = Unread /\ disk[f] # {})
    BY <2>1, <2>4 DEF ScanSchema, FileSchema
  <2> QED BY <2>3, <2>4
<1>2. CASE Restart
  BY <1>2 DEF Restart
<1>3. CASE cache' = cache
  BY <1>3
<1> QED
  BY <1>1, <1>2, <1>3 DEF Next, Rewrite, Collect, Sink, Begin, Execute, Open, WriteSome, Write,
     Close, End, vars

\* Scans keep a schema only when a call has seen the file with it, and drop it
\* only when the program restarts.
THEOREM CachesFillOnce == Spec => CachesOnlyFill
<1>1. SessionInv /\ [Next]_vars =>
        [\A f \in Files :
           \/ cache'[f] = cache[f]
           \/ cache[f] = Unread /\ {cache'[f]} = {t.schema : t \in before[f]}
           \/ phase # "idle" /\ phase' = "idle" /\ \A g \in Files : cache'[g] = Unread]_vars
  BY CacheStep
<1> QED BY <1>1, SessionInductiveInvariant, PTL DEF Spec, CachesOnlyFill

-----------------------------------------------------------------------------
(* From steps that are sound to calls that answer *)

\* While the optimizer works its plan answers as the query does, and so does the
\* table its plan returned; unless the optimizer was shown a stale schema.
AnswerInv ==
  /\ asked \subseteq Files
  /\ phase \in Optimizer!Phases =>
       /\ result = {}
       /\ ShownStale \/ Answers(Ordered(query), Outcomes, Run(query, before))
  /\ Answered => ShownStale \/ Answers(Ordered(query), result, Run(query, before))

\* EachStepIsSound's promise of one step.
StepIsSound ==
  (phase = "idle" \/ plan' # plan \/ phase' = "thrown") /\ phase' \in Optimizer!Phases =>
    \/ ShownStale'
    \/ \A new \in {Outcomes'},
          old \in {IF phase = "idle" THEN Run(query', before') ELSE Outcomes} :
         Answers(Ordered(query'), new, old)

\* A call opens a plan that answers as its query.
LEMMA BeginAnswers ==
  ASSUME NEW q, NEW path, Begin(q, path), StepIsSound
  PROVE  AnswerInv'
<1>1. phase = "idle" /\ phase' = "pass" /\ phase' \in Optimizer!Phases /\ ~ Answered'
  BY DEF Begin, Optimizer!Phases, Answered
<1>2. ShownStale' \/ Answers(Ordered(query'), Outcomes', Run(query', before'))
  BY <1>1 DEF StepIsSound
<1>3. result' = {} /\ asked' = {}
  BY DEF Begin
<1>4. (ShownStale \/ Answers(Ordered(query), Outcomes, Run(query, before)))'
  BY <1>2
<1> QED
  BY <1>1, <1>3, <1>4 DEF AnswerInv

\* A schema that was stale when it was shown stays so until the call is over.
LEMMA StaleStays ==
  ASSUME asked \subseteq Files, Optimize, ShownStale
  PROVE  ShownStale'
<1>1. PICK f \in asked : Stale(f)
  BY DEF ShownStale
<1>2. f \in asked' /\ before' = before /\ f \in Files
  BY <1>1 DEF Optimize
<1>3. PICK shown : cache' = [g \in Files |-> IF g \in shown THEN ScanSchema(g) ELSE cache[g]]
  BY DEF Optimize
<1>4. cache'[f] = cache[f]
  BY <1>1, <1>2, <1>3 DEF ScanSchema, Stale
<1>5. Stale(f)'
  BY <1>1, <1>2, <1>4 DEF Stale
<1> QED
  BY <1>2, <1>5 DEF ShownStale

\* A rule's step passes the promise on.
LEMMA OptimizeAnswers ==
  ASSUME AnswerInv, Optimize, StepIsSound
  PROVE  AnswerInv'
<1>1. /\ phase \in {"pass", "cleanup"}
      /\ phase' \in Optimizer!Phases
      /\ query' = query
  BY DriverStep DEF Optimize
<1>2. UNCHANGED <<result, before>>
  BY DEF Optimize
<1>3. asked' \subseteq Files
  BY DEF Optimize, AnswerInv
<1>4. result = {} /\ (ShownStale \/ Answers(Ordered(query), Outcomes, Run(query, before)))
  BY <1>1 DEF AnswerInv, Optimizer!Phases
<1>5. ~ Answered'
  BY <1>1 DEF Answered, Optimizer!Phases
<1>6. ASSUME ~ ShownStale' PROVE Answers(Ordered(query), Outcomes', Run(query, before))
  <2>1. Answers(Ordered(query), Outcomes, Run(query, before))
    BY <1>4, <1>6, StaleStays DEF AnswerInv
  <2>2. Answers(Ordered(query), Outcomes', Outcomes)
    <3>1. CASE plan' # plan \/ phase' = "thrown"
      BY <1>1, <1>6, <3>1 DEF StepIsSound
    <3>2. CASE plan' = plan /\ phase' # "thrown"
      <4>1. Outcomes' = Outcomes
        BY <1>1, <1>2, <3>2 DEF Outcomes
      <4> QED
        BY <4>1, AnswersLaws
    <3> QED
      BY <3>1, <3>2
  <2> QED
    BY <2>1, <2>2, AnswersLaws
<1>7. (ShownStale \/ Answers(Ordered(query), Outcomes, Run(query, before)))'
  BY <1>1, <1>2, <1>6
<1> QED
  BY <1>1, <1>2, <1>3, <1>4, <1>5, <1>7 DEF AnswerInv

\* execute returns one of the answers of the optimized plan, or throws where it
\* has none.
LEMMA ExecuteAnswers ==
  ASSUME SessionInv, AnswerInv, Execute
  PROVE  AnswerInv'
<1>1. /\ phase = "optimized"
      /\ UNCHANGED <<cache, query, before, asked, plan>>
  BY DEF Execute, driver
<1>2. disk = before
  BY <1>1 DEF SessionInv, DiskInv, Optimizer!Phases
<1>3. /\ asked \subseteq Files
      /\ result = {}
      /\ ShownStale \/ Answers(Ordered(query), Run(plan, before), Run(query, before))
  BY <1>1 DEF AnswerInv, Outcomes, Optimizer!Phases
<1>4. ShownStale' <=> ShownStale
  BY <1>1 DEF ShownStale, Stale
<1>5. CASE Run(plan, disk) = {} /\ phase' = "thrown" /\ result' = result
  <2>1. Outcomes' = {} /\ ~ Answered' /\ Run(plan, before) = {}
    BY <1>2, <1>5 DEF Outcomes, Answered
  <2>2. (ShownStale \/ Answers(Ordered(query), Outcomes, Run(query, before)))'
    BY <1>1, <1>3, <1>4, <2>1
  <2> QED
    BY <1>1, <1>3, <1>5, <2>1, <2>2 DEF AnswerInv
<1>6. CASE /\ \E t \in Run(plan, disk) : result' = {t}
           /\ phase' = IF target = Nowhere THEN "returned" ELSE "open"
  <2>1. PICK t \in Run(plan, before) : result' = {t}
    BY <1>2, <1>6
  <2>2. ShownStale \/ Answers(Ordered(query), {t}, Run(query, before))
    BY <1>3, <2>1, AnswersLaws
  <2>3. (ShownStale \/ Answers(Ordered(query), result, Run(query, before)))'
    BY <1>1, <1>4, <2>1, <2>2
  <2>4. phase' \notin Optimizer!Phases
    BY <1>6 DEF Optimizer!Phases
  <2> QED
    BY <1>1, <1>3, <2>3, <2>4 DEF AnswerInv
<1> QED
  BY <1>5, <1>6 DEF Execute

\* The writer's steps, and those between calls, leave the answer as it is.
LEMMA OthersAnswer ==
  ASSUME AnswerInv, Rewrite \/ Open \/ WriteSome \/ Write \/ Close \/ End \/ Restart \/ UNCHANGED vars
  PROVE  AnswerInv'
<1>1. UNCHANGED <<query, result, before, asked, plan>>
  BY DEF Rewrite, Open, WriteSome, Write, Close, End, Restart, call, driver, vars
<1>2. CASE phase' = "idle"
  BY <1>1, <1>2 DEF AnswerInv, Answered, Optimizer!Phases
<1>3. CASE phase' # "idle"
  <2>1. cache' = cache
    BY <1>3 DEF Rewrite, Open, WriteSome, Write, Close, End, Restart, vars
  <2>2. ShownStale' <=> ShownStale
    BY <1>1, <2>1 DEF ShownStale, Stale
  <2>3. \/ UNCHANGED phase
        \/ Answered /\ phase' \notin Optimizer!Phases
    BY <1>3 DEF Rewrite, Open, WriteSome, Write, Close, End, Restart, vars, Answered, Optimizer!Phases
  <2>4. CASE UNCHANGED phase
    <3>1. (Outcomes' = Outcomes) /\ (Answered' <=> Answered)
      BY <1>1, <2>4 DEF Outcomes, Answered
    <3> QED
      BY <1>1, <2>2, <2>4, <3>1 DEF AnswerInv
  <2>5. CASE Answered /\ phase' \notin Optimizer!Phases
    BY <1>1, <2>2, <2>5 DEF AnswerInv
  <2> QED
    BY <2>3, <2>4, <2>5
<1> QED
  BY <1>2, <1>3

\* If each step of a call is sound, calls answer as the eager ones do, through
\* whatever failed calls, torn and rewritten files, restarts and kept schemas.
THEOREM CallsAnswerAsEager == Spec /\ EachStepIsSound => []AnswersAsEager
<1>1. Init => AnswerInv
  BY DEF Init, AnswerInv, Answered, Optimizer!Phases
<1>2. SessionInv /\ AnswerInv /\ [Next]_vars /\ [StepIsSound]_vars => AnswerInv'
  <2> SUFFICES ASSUME SessionInv, AnswerInv, [Next]_vars, [StepIsSound]_vars PROVE AnswerInv'
    OBVIOUS
  <2>1. CASE UNCHANGED vars
    BY <2>1, OthersAnswer
  <2>2. ASSUME Next, StepIsSound PROVE AnswerInv'
    <3>1. CASE Collect \/ Sink
      BY <2>2, <3>1, BeginAnswers DEF Collect, Sink
    <3>2. CASE Optimize
      BY <2>2, <3>2, OptimizeAnswers
    <3>3. CASE Execute
      BY <3>3, ExecuteAnswers
    <3> QED
      BY <2>2, <3>1, <3>2, <3>3, OthersAnswer DEF Next
  <2> QED
    BY <2>1, <2>2
<1>3. AnswerInv => AnswersAsEager
  <2> SUFFICES ASSUME AnswerInv, phase = "thrown"
               PROVE  ShownStale \/ Answers(Ordered(query), result, Run(query, before))
    BY DEF AnswerInv, AnswersAsEager
  <2> QED
    BY DEF AnswerInv, Outcomes, Optimizer!Phases
<1>4. EachStepIsSound => [][StepIsSound]_vars
  BY DEF EachStepIsSound, StepIsSound
<1> QED
  BY <1>1, <1>2, <1>3, <1>4, SessionInductiveInvariant, PTL DEF Spec
=============================================================================
