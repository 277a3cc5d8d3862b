------------------------------ MODULE Session ------------------------------
(***************************************************************************)
(* A program that keeps a few lazy queries and, one call after another,    *)
(* collects them or sinks them to files, some of which they scan.  Between *)
(* its calls other programs rewrite the files.  A query is built once, so  *)
(* its scans keep their cached_schema_ from call to call.  What the rules   *)
(* and the nodes do to plans and tables are parameters.                    *)
(***************************************************************************)
EXTENDS Integers, Sequences, Agreement

CONSTANTS
  Files,            \* the paths
  Contents,         \* Contents[file]: the tables other programs store there
  Queries,          \* the plans the program made
  Sinks,            \* the paths it sinks to
  CsvPaths,         \* those that hold csv; the others hold parquet
  CutShort(_),      \* CutShort(table): what its csv text, broken off, is read as
  MaxCalls,         \* bound on its calls
  Unread,           \* an empty cached_schema_; what a file that is not read shows
  Opened(_, _),     \* Opened(query, schemas): the query whose scans show these schemas
  Rewritten(_, _),  \* Rewritten(rule, plan): recurse_children with that rule
  Failure,          \* the outcome of a rule that throws
  Shows(_, _),      \* Shows(rule, plan): the files whose scans show that rule their schema
  Run(_, _),        \* Run(plan, files): the tables execute may return; none: it throws
  Ordered(_)        \* Ordered(query): the order of the rows is promised

Nowhere == "nowhere"

ASSUME SessionAssumption ==
  /\ Sinks \subseteq Files
  /\ Nowhere \notin Files
  /\ Queries # {}

VARIABLES
  disk,         \* disk[file]: the tables reading it may return; none: it throws
  cache,        \* cache[file]: cached_schema_ of its scan, Unread when empty
  calls,        \* calls so far
  phase,        \* "idle", the driver's phases, the sink's, "returned", "failed"
  query,        \* the plan_ of this call
  target,       \* the path it sinks to, or Nowhere for a collect
  plan, iteration, rule, changed,   \* the driver's
  result,       \* the table the optimized plan returned
  before,       \* the disk when the call began
  asked         \* the scans whose schema this call asked for: history only

driver == <<plan, iteration, rule, changed>>
call   == <<query, target, result, before, asked>>
vars   == <<disk, cache, calls, phase, call, driver>>

Optimizer == INSTANCE QueryOptimizer
  WITH Inputs <- {}, Apply <- Rewritten, Thrown <- Failure, input <- query

\* The schema reading the file shows.
FileSchema(file) ==
  IF disk[file] = {} THEN Unread ELSE (CHOOSE t \in disk[file] : TRUE).schema

\* Bug variant: the cached schema is not looked at.
ScanSchemaUncached(file) == FileSchema(file)

\* What a scan's output_schema returns: the cached schema, else the file's.
ScanSchema(file) == IF cache[file] # Unread THEN cache[file] ELSE FileSchema(file)

\* What another program leaves in a file: one of its tables, or none.
Stored(file) == {{}} \cup {{t} : t \in Contents[file]}

Init ==
  /\ disk \in [Files -> UNION {Stored(f) : f \in Files}]
  /\ \A f \in Files : disk[f] \in Stored(f)
  /\ cache = [f \in Files |-> Unread]
  /\ calls = 0
  /\ phase = "idle"
  /\ query = CHOOSE q \in Queries : TRUE
  /\ target = Nowhere
  /\ plan = query
  /\ iteration = 1
  /\ rule = 1
  /\ changed = FALSE
  /\ result = {}
  /\ before = disk
  /\ asked = {}

\* Another program stores a table in a file, or removes it.
Rewrite ==
  /\ phase = "idle"
  /\ \E f \in Files : \E tables \in Stored(f) : disk' = [disk EXCEPT ![f] = tables]
  /\ UNCHANGED <<cache, calls, phase, call, driver>>

Begin(q, path) ==
  /\ phase = "idle"
  /\ calls < MaxCalls
  /\ calls' = calls + 1
  /\ query' = q
  /\ target' = path
  /\ plan' = Opened(q, [f \in Files |-> ScanSchema(f)])
  /\ phase' = "pass"
  /\ iteration' = 1
  /\ rule' = 1
  /\ changed' = FALSE
  /\ result' = {}
  /\ before' = disk
  /\ asked' = {}
  /\ UNCHANGED cache

Collect == \E q \in Queries : Begin(q, Nowhere) /\ UNCHANGED disk

\* Bug variant: the sink opens its file before it collects.
SinkOpensFirst ==
  \E q \in Queries, path \in Sinks :
    /\ Begin(q, path)
    /\ disk' = [disk EXCEPT ![path] = {}]

\* sink_csv and sink_parquet.
Sink == \E q \in Queries, path \in Sinks : Begin(q, path) /\ UNCHANGED disk

\* One rule over the plan; the schemas it is shown stay with the scans.
Optimize ==
  /\ Optimizer!Next
  /\ LET shown == IF phase = "pass" /\ rule <= Len(Optimizer!Rules)
                  THEN Shows(Optimizer!Rules[rule], plan) \cap Files ELSE {}
     IN  /\ cache' = [f \in Files |-> IF f \in shown THEN ScanSchema(f) ELSE cache[f]]
         /\ asked' = asked \cup shown
  /\ UNCHANGED <<disk, calls, target, result, before>>

\* Bug variant: the sink goes on after a query that throws.
ExecuteUnchecked ==
  /\ phase = "optimized"
  /\ result' = {t \in Run(plan, disk) : \A u \in Run(plan, disk) : t = u}
  /\ phase' = IF target = Nowhere THEN "returned" ELSE "open"
  /\ UNCHANGED <<disk, cache, calls, query, target, before, asked, driver>>

\* execute reads the files as they are now.
Execute ==
  /\ phase = "optimized"
  /\ \/ /\ Run(plan, disk) = {}
        /\ phase' = "thrown"
        /\ UNCHANGED result
     \/ /\ \E t \in Run(plan, disk) : result' = {t}
        /\ phase' = IF target = Nowhere THEN "returned" ELSE "open"
  /\ UNCHANGED <<disk, cache, calls, query, target, before, asked, driver>>

\* What a file being written may be read as: a parquet file throws until its
\* footer is there, which comes last; csv text reads as what it holds so far.
Torn == {{}} \cup {{u} : u \in UNION {CutShort(t) : t \in IF target \in CsvPaths THEN result ELSE {}}}

\* FileOutputStream::Open empties the file, or fails and leaves it alone.
Open ==
  /\ phase = "open"
  /\ \/ /\ disk' = [disk EXCEPT ![target] = {}]
        /\ phase' = "write"
     \/ /\ phase' = "failed"
        /\ UNCHANGED disk
  /\ UNCHANGED <<cache, calls, call, driver>>

\* WriteCSV or WriteTable has got this far, and may fail or die here.
WriteSome ==
  /\ phase = "write"
  /\ disk[target] = {}
  /\ \E left \in Torn : disk' = [disk EXCEPT ![target] = left]
  /\ UNCHANGED <<cache, calls, phase, call, driver>>

\* Bug variant: the status of the writer is not looked at.
WriteUnchecked ==
  /\ phase = "write"
  /\ phase' = "close"
  /\ \E tables \in {disk[target], result} : disk' = [disk EXCEPT ![target] = tables]
  /\ UNCHANGED <<cache, calls, call, driver>>

\* ... has written the table, or fails and leaves what it wrote.
Write ==
  /\ phase = "write"
  /\ \/ /\ disk' = [disk EXCEPT ![target] = result]
        /\ phase' = "close"
     \/ /\ phase' = "failed"
        /\ UNCHANGED disk
  /\ UNCHANGED <<cache, calls, call, driver>>

\* Close; where it fails, what was written may be lost from any point on.
Close ==
  /\ phase = "close"
  /\ \/ /\ phase' = "returned"
        /\ UNCHANGED disk
     \/ /\ phase' = "failed"
        /\ \E left \in Torn \cup {result} : disk' = [disk EXCEPT ![target] = left]
  /\ UNCHANGED <<cache, calls, call, driver>>

\* The call is over: it returned, or the program caught what it threw.
End ==
  /\ phase \in {"returned", "thrown", "failed"}
  /\ phase' = "idle"
  /\ UNCHANGED <<disk, cache, calls, call, driver>>

\* The process dies and the program starts again, with new plans.
Restart ==
  /\ phase # "idle"
  /\ phase' = "idle"
  /\ cache' = [f \in Files |-> Unread]
  /\ UNCHANGED <<disk, calls, call, driver>>

Next ==
  \/ Rewrite
  \/ Collect
  \/ Sink
  \/ Optimize
  \/ Execute
  \/ Open
  \/ WriteSome
  \/ Write
  \/ Close
  \/ End
  \/ Restart

Spec == Init /\ [][Next]_vars

-----------------------------------------------------------------------------
(* Properties *)

\* A cached schema is the one the optimizer sees.
Stale(file) == cache[file] # Unread /\ {cache[file]} # {t.schema : t \in before[file]}

Answered == phase \in {"open", "write", "close", "returned"}

\* The optimizer asked a scan for a schema its file no longer has.
ShownStale == \E f \in asked : Stale(f)

\* Where the eager calls answer on the files as they were when the call began,
\* so does the call, and as they do: after failed calls, torn and rewritten
\* files and restarts, and whatever schemas the scans have kept, unless the
\* optimizer was shown a stale one.
AnswersAsEager ==
  Answered \/ phase = "thrown" =>
    ShownStale \/ Answers(Ordered(query), result, Run(query, before))

\* What the call's plan may return on the files as they were when it began.
Outcomes == IF phase = "thrown" THEN {} ELSE Run(plan, before)

\* What a step of a call makes of its plan, opening it or applying one rule,
\* answers as what it was made of, unless the optimizer was shown a stale schema.
EachStepIsSound ==
  [][(phase = "idle" \/ plan' # plan \/ phase' = "thrown") /\ phase' \in Optimizer!Phases =>
       \/ ShownStale'
       \/ \A new \in {Outcomes'},
             old \in {IF phase = "idle" THEN Run(query', before') ELSE Outcomes} :
            Answers(Ordered(query'), new, old)]_vars

\* A sink that returned has stored its query's answer in its file, also over a
\* file the query scans.  While it writes and when it has failed its file is as it
\* was, stores the answer, throws when read, or, csv only, reads as the answer cut
\* short.  No other file changes, wherever the call fails or the program dies.
SinksStoreTheAnswer ==
  /\ phase = "returned" /\ target # Nowhere => disk = [before EXCEPT ![target] = result]
  /\ phase \in {"write", "close", "failed"} =>
       \E left \in {result, before[target]} \cup Torn : disk = [before EXCEPT ![target] = left]

\* A call whose query throws, in the optimizer or in a node, leaves every file as
\* it was: sinks included.
FailedQueriesTouchNothing == phase = "thrown" => disk = before

\* A scan keeps a schema only if some call has seen the file with it, and drops
\* it only when the program restarts: errors are not kept, a new schema of the
\* file is not noticed.
CachesOnlyFill ==
  [][\A f \in Files :
       \/ cache'[f] = cache[f]
       \/ cache[f] = Unread /\ {cache'[f]} = {t.schema : t \in before[f]}
       \/ phase # "idle" /\ phase' = "idle" /\ \A g \in Files : cache'[g] = Unread]_vars

-----------------------------------------------------------------------------
(* The invariant that is inductive *)

\* The target of a call that writes is a sink; the rest is typing.
SessionTypeOK ==
  /\ disk = [f \in Files |-> disk[f]]
  /\ cache = [f \in Files |-> cache[f]]
  /\ target \in Sinks \cup {Nowhere}
  /\ phase \in {"open", "write", "close", "failed"} => target \in Sinks
  /\ phase \in {"idle", "failed"} \cup Optimizer!Phases \/ Answered

\* A file has one table, or none, and before it opens its sink a call leaves the
\* files alone; while it writes, only its target is not as it was.
DiskInv ==
  /\ \A f \in Files : disk[f] = {} \/ \E t \in disk[f] : disk[f] = {t}
  /\ phase \in Optimizer!Phases \cup {"open"} => disk = before
  /\ phase = "returned" /\ target = Nowhere => disk = before
  /\ phase = "write" => \E left \in Torn : disk = [before EXCEPT ![target] = left]
  /\ phase = "close" => disk = [before EXCEPT ![target] = result]

\* The answer is one the optimized plan gives on the files as they were when the
\* call began; a call that failed in the sink had one to store.
ResultInv == Answered \/ phase = "failed" => \E t \in Run(plan, before) : result = {t}

\* From the first rule to the last byte, nothing comes between a call, the files
\* it read and the table it stores.
SessionInv ==
  /\ SessionTypeOK
  /\ DiskInv
  /\ ResultInv
  /\ SinksStoreTheAnswer
  /\ FailedQueriesTouchNothing
=============================================================================
