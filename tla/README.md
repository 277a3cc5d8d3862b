# Dataframe-Lib in TLA+

TLA+ modules of the dataframe library in `src/`: its eager operations, the hash
join, group-by and its aggregates, the logical plans, the rule-based optimizer
and its driver, lazy queries from `scan` to `collect()`, top-k, and sessions of
collects and sinks over files. TLC checks them on small tables; TLAPS proves the
join, group-by with its aggregates, the boolean kernels, the driver, top-k down to
libstdc++'s heap, and what sessions do to files correct for every input; it
proves the laws of filters, joins, sorts, projections, limits and groups that the
rewrites rely on, for every table, and that `collect()` and sessions answer as
the eager calls do if the single rewrites are sound, which TLC checks.

## 1. The system

| Part | Source | State it keeps | Operations |
|---|---|---|---|
| Expression AST | `expr.h`, `expr.cpp` | immutable trees | `evaluate`, `infer_type`, `children` |
| Kernels | `kernel.h`, `kernel.cpp` | none | arithmetic, comparison, Kleene, string and aggregate kernels over Arrow arrays |
| Eager frames | `eager_dataframe.*` | one immutable Arrow table | `select`, `select_exprs`, `filter`, `with_column`, `head`, `sort`, `group_by().agg`, `join`, file I/O |
| Plan nodes | `logical_plan.*` | immutable tree; `cached_schema_` of the scans | `execute`, `output_schema`, rendering |
| Lazy frames | `lazy_dataframe.*` | the root of a plan | builder calls, `collect`, `sink_*`, `explain` |
| Optimizer | `query_optimizer.*` | `current_plan` and loop counters of one call | `optimize`, eleven rules, `recurse_children` |

A builder call wraps the plan in a new node. `collect` hands the plan to
`QueryOptimizer::optimize` and calls `execute` on what it returns; `execute` runs
the children and calls the eager operation of the node's name, which evaluates
expressions through the kernels. Rules read plans through `output_schema`, so
what it predicts has to be what `execute` delivers.

A sink collects and then writes the table to a file, which a scan of the same
program may read. The program is sequential, but the files are not its own:
other programs rewrite them between its calls. What is hard in it:

* **rules in sequence** - eleven rewrites, up to ten passes, each rule sound or
  not only in the presence of the others, decided by column *names*;
* **order** - a stable sort, a heap that is not, a hash table walked in bucket
  order, a join that swaps its sides by size, so that rewriting an input may
  reorder the output;
* **nulls and types** - three-valued logic, `infer_type` beside `evaluate`,
  integer means, division by zero;
* **errors** - a rewrite may drop, add or move an exception;
* **keys as strings** - rows are grouped and joined by a concatenation of their
  cells' texts;
* **bits** - boolean kernels that compute on bytes of bitmaps, whose bits are
  undefined under a null, and sums in the width of their column;
* **stale and torn files** - a scan keeps the schema it once saw
  (`cached_schema_`), a sink empties its file before it writes, what a csv sink
  that breaks off leaves is read as a shorter table, and all of it may concern a
  file the query reads;
* **termination** - rules that undo one another.

What makes each part correct: the join returns the relational join; top-k
returns a head of the sort; `output_schema` is the schema of the result; the
driver ends and its early exit is a fixpoint; a rule applied to a plan keeps the
plan's results; `collect()` returns what the eager calls return; groups are the
classes of equal keys; a sink that returns has stored its query's answer and
touched nothing else, one that breaks off has spoiled its target at most, one whose
query throws has touched nothing.

## 2. Modules

| Module | Models | Kind |
|---|---|---|
| `Listing` | a sequence that enumerates a set | helper |
| `Measures` | tuples of natural numbers that get lower: what a loop has left to do | helper |
| `RelationalJoin` | what `join` promises: the set of its rows, in any order | abstract |
| `HashJoin` | `EagerDataFrame::join` after its argument checks, one action per iteration of build, probe and leftover loops | state machine |
| `TopKInputs` | the bounds and ranks both models of top-k take | constants |
| `TopK` | `TopKPlan::execute` over *any* priority queue | abstract |
| `BinaryHeap` | the same over libstdc++'s binary heap, one action per turn of its sift loops | state machine, refines `TopK` |
| `QueryOptimizer` | the driver; the rules are a parameter `Apply` | state machine |
| `KleeneBits` | the boolean kernels over bitmaps with offsets, and three-valued logic | operators |
| `Kernels` | types and cells; its boolean cells go through the operators of `KleeneBits` | operators |
| `KeyStrings` | `grouping_helper`: the text of a key | operators |
| `Grouping` | what `group_by` promises: each row joins the group of its key | abstract |
| `GroupBy` | the grouping loop: key strings column by column, the hash map, `grouping_order` | state machine, refines `Grouping` |
| `Partition` | the same groups as a function of the keys: the rows of each key from the first to the last, keys by their first rows | operators |
| `Aggregation` | the rest of `agg` for one aggregate: key columns, then the kernel row by row in the column's width | state machine over `GroupBy` |
| `Expressions` | AST: `EvaluatedType`, `InferredType`, `Evaluate` | operators |
| `RowOperations` | what filter, sort, head and select do to the rows of a table, without recursion | operators |
| `EagerDataFrame` | each eager call: table -> set of tables it may return | operators |
| `PlanNodes` | the constructors of plan nodes, and `Thrown` | operators |
| `LogicalPlan` | `OutputSchema` | operators |
| `PlanExecution` | `Execute` over `Sources`, the tables the files hold | operators |
| `Agreement` | `Answers`: when one execution answers as another | operators |
| `PlanDrawing` | `explain`: how `to_graphviz` numbers the boxes of two plans | operators |
| `OptimizerRules` | the eleven rules, `RecurseChildren` | operators |
| `LazyDataFrame` | builder calls, `collect` and the driver (`INSTANCE QueryOptimizer`); rules, nodes and schemas are parameters | state machine |
| `Pipeline` | `LazyDataFrame` with the real rules, nodes and rendering in scope, and the properties about them | composition |
| `ScanSchemas` | a plan with the schemas its scans show, and which of them a rule asks for | operators |
| `CsvFiles` | the tables a csv file whose writing broke off is read as | operators |
| `Session` | a program that collects and sinks its queries over files others rewrite; takes the driver's steps (`INSTANCE QueryOptimizer`); rules and nodes are parameters | state machine |
| `HashJoinProofs`, `GroupByProofs`, `GroupingProofs`, `TopKProofs`, `HeapProofs`, `QueryOptimizerProofs`, `LazyProofs`, `SessionProofs` | theorems | proofs |
| `MCHashJoin`, `MCAggregation`, `MCBinaryHeap`, `MCQueryOptimizer`, `MCLazyDataFrame`, `MCSession` | instances for TLC | |

An operation that throws is the empty set of results; one whose order depends on
buckets or heap ties is the set of all of them. `Bug variant` definitions are
not part of the models: each is a plausible mistake that a property must catch.

### Correspondence

* `HashJoin`: `pc` is the position in `join` (build loop at
  `eager_dataframe.cpp:745`, probe at 760, leftovers at 799, gather at 857);
  `smaller_keys`, `null_smaller`, `matched_keys` are the source's variables;
  `pairs` zips `left_indices` and `right_indices`; rows count from 1 and `NoRow`
  is -1. A composite key is one value, `NULL` when a component is null.
  `Leftover(k)` takes the map's buckets in any order.
* `TopK`: a row is its `rank` under the comparator; `heap` is the queue's
  content, `out` is `top_k_indices`. `BinaryHeap` has `slots`, the queue's
  vector, and `hole` and `value` of `__push_heap` and `__adjust_heap` as libstdc++
  writes them (external): a push lets the hole rise, a pop sinks the hole to a
  leaf and lets the last row rise from there. `step` says which loop runs; between
  calls it is not one of `Moving`. `TopK`'s queue is `Queued`, the rows of the
  vector with the hole filled, once a pop is under way without the row it removes.
* `QueryOptimizer`: one action per rule application (`query_optimizer.cpp:74`,
  86). `changed` is the outcome of the pointer test at line 76: every rule that
  does something builds new nodes, and returns its argument otherwise, so a pass
  returns another root exactly when one of its applications changed the plan -
  also when a later rule of the pass changed it back.
* `OptimizerRules`: a rule is a function from node to plan with the guards of its
  `apply` in their order; `Thrown` is the plan of an `optimize` that throws.
* `EagerDataFrame`: `JoinPairs` states the order `HashJoin` produces step by
  step. `FieldIndex` is 0 for a name that is missing or borne twice, as Arrow's
  `GetFieldIndex` and `GetFieldByName` treat both alike. `Table` drops the rows
  of a table without columns, as `Table::Make` does.
* `RowOperations`: a set of row indices is put in sequence by `Listed`, which
  counts what is before each element: `filter` takes the kept indices upwards,
  `stable_sort` takes all of them by `StableOrder`, where rows of which neither is
  less keep their order. `KeyBefore` is the comparator, for rows given as their
  sort keys. `EagerDataFrame` adds columns, types and errors to these.
* `LazyDataFrame`: the eager answer to a query is `Run(query)`: the node's
  `execute` is the eager call. A query is built from one menu of arguments. In
  the runs of `MCLazyDataFrame`, `Rewritten`, `Run`, `FileSchema` and `Ordered` are
  `RecurseChildren`, `Execute`, `SchemaIn` and `OrderIsPromised` (no join in the
  query). They are parameters because they recurse over plans, which the prover
  cannot follow: what is proved of `LazyDataFrame` holds of any of them.
* `GroupBy` and `Aggregation`: `row`, `column`, `gid`, `groups` and
  `grouping_order` are the loops and variables of `agg` and `grouping_helper`
  (`eager_dataframe.cpp:595`, 153); strings are sequences of characters, and
  `Decimal` is `std::to_string` of a length, assumed to write distinct numbers
  differently and in digits. `state`, `valid_count` and `position` are those of
  `AggregateNumericKernel` (`kernel.h:443`); `Wrap` is the C++ type of `state`,
  whose least value is `-Half`.
* `KleeneBits`: an array is the slice of two bitmaps; `Lanes` are the bits the
  byte loops load, `Aligned` is the `Concatenate` of a slice, `NULL`'s data bit is
  either. In `Kernels` a boolean cell passes through the same lane operators.
* `Session`: `disk[f]` is the set of tables that reading `f` may return, empty
  when reading throws because the file is missing or no whole file; `cache[f]` is the scan's `cached_schema_`. A
  call takes the driver's steps one by one; `Optimize` fills the caches of the
  scans the rules ask for their schema (`Shows`, in `MCSession` the operator
  `ShownInPass` of `ScanSchemas`: `FilterElimination` at a false filter,
  `PredicatePushdown` at an inner join, whose left side is asked first and whose
  errors are caught). `Execute` reads the files; `Open`, `Write` and `Close` are
  the three calls of a writer that may fail, at `eager_dataframe.cpp:253`, 259
  and 263 (269, 274 and 283). `WriteSome` is how far the second has got when it
  fails, or when the process dies: `Torn` says what the file is then read as. A
  parquet file throws until its footer is written, at its end; csv text goes to
  the file row by row, and `read_csv` (288) reads what it finds there as a table
  with fewer rows, or with a null where the last row was cut after its last comma
  (`CsvFiles`, the parameter `CutShort`). The call that failed threw; nothing tells
  a later one that the table is not whole. `Rewrite` is another program, `Restart` a crash at
  any point of a call. `Rewritten`, `Run`, `Opened` and `Agrees` stand for
  `RecurseChildren`, `Execute`, `WithSchemas` and `Answers`, which `MCSession` gives
  them: those are recursive over plans. `SessionProofs` assumes nothing of them but, in
  one theorem, `EachStepIsSound`.
* `PlanDrawing`: `node_counter` is the counter both walks share; a box carries
  the kind of its node only.

## 3. Runs

Passing:

| Run | Shows | Bounds |
|---|---|---|
| `hash_join` | the state stays well-formed (`TypeOK`); rows of the larger side keep their order (`LargerRowsInOrder`); the inductive invariant `Inv`; the call implements `RelationalJoin`; each step leaves less to do (`RunsDown`); it returns (`Terminates`) | both sides 0..3 rows, two keys and NULL, four join types: duplicate keys on both sides, both swap directions, equal sizes, empty sides |
| `driver` | `TypeOK`, `StopsAtFixpoint`, every step lowers a measure (`RunsDown`), `Returns` | three plans, every pair of effects for the first five rules and the others, among them cycles that use up all ten passes and rules that throw |
| `pipeline` | `collect()` gives one of the eager tables - the same rows in the same order, or up to order when the query has a join, because filters below a join change which side is hashed (`LazyMatchesEager`); so does each rule application (`EachRuleIsSound`); `SchemaIsPredicted`; the cleanup leaves no stacked nodes (`NothingStacked`); passes run out only where a filter and a projection trade places (`OnlySwapsExhaustThePasses`); `explain` draws both plans (`ExplainShowsBothPlans`); cells have their column's type (`CellsHaveTheirTypes`); phases and counters (`TypeOK`) | all queries of up to three calls from one of two menus. One table: 3 projections, 1 expression list, 6 predicates, 2 columns, 2 sorts, 2 heads, 2 groupings over 3 rows with NULLs, ties, doubles and strings. Two tables: four join types on one key and a self-join on two, with shared, renamed and null columns, filters on either side, projections, a sort, a grouping; the right input of a join is a scan |
| `group_by` | the strings of the map are the keys' classes at every step (`KeyClasses`); the loop implements `Grouping` (`GroupsByKey`); `agg` returns one row per group with its key and the aggregate of its valid cells (`AnswersQuery`); a mean whose sum does not wrap lies between two cells (`MeanIsBetween`); widths hold (`AggTypeOK`); the inductive invariant `AggInv`; each step leaves less to do (`RunsDown`); it returns (`Returns`) | 0..3 rows, 0..2 key columns, texts made of the separators, colons, digits and `?` of key strings, the empty text and null; every column of three 2-bit cells and nulls for the five aggregates, in one group and in two interleaved ones: sums that wrap, all-null groups, negative means |
| `session` | an answer is that of the eager calls on the files as they were when the call began, after any failure, rewrite or restart, unless the optimizer was shown a schema the file no longer has (`AnswersAsEager`); a sink that returned has stored its answer, one that has not leaves its target as it was, whole, unreadable or, csv only, cut short, and no other file is touched (`SinksStoreTheAnswer`); `FailedQueriesTouchNothing`; a cached schema is one the file had when it was asked for, and stays until the program restarts (`CachesOnlyFill`); each step of the optimizer that was shown no stale schema keeps the answer (`EachStepIsSound`); the inductive invariant `SessionInv` | two calls, so that the second meets what the first left: caches, a file cut short anywhere, its own output; files with two possible schemas; an inner and a left join under filters, a false filter over a sort, a limit; sinks onto a scanned csv file and onto a parquet file |
| `top_k` | result is a head of the sort up to ties (`IsHeadOfSort`); invariant `HeadInv`; heap order after every push and pop (`HeapOrdered`); the inductive invariant `HeapInv` of the sift loops; the heap implements the abstract queue (`ImplementsTopK`); each step leaves less to do (`RunsDown`); it returns (`Returns`) | 0..6 rows, three ranks, k in 0..5: heaps of depth three with an inner node of one child, k = 0, k >= rows, all tie patterns |

Three builder calls are enough for every pair of nodes a rule matches, below or above a
third; three ranks and six rows give a heap a left and a right subtree and a
tie between them; three rows give a group an interloper; in two bits every sum
of three cells wraps in every way. Two session calls suffice because a call
leaves nothing but the caches and, in each file, one table or none.

`AnswersAsEager` needs its exception: a query whose scan once showed the
optimizer a schema keeps it when the file changes, also when the program's own
sink changes it, and then a false filter returns an empty table with the old
columns, or a filter goes to a side of a join that has lost its column. The
property says that nothing but such a schema, actually asked for in this call,
makes an answer differ.

Runs whose property the code violates, each a documented statement:

| Run | Statement | What the code does |
|---|---|---|
| `doc_fixpoint` | the driver runs to a fixpoint (README:27, 249) | filter and projection are swapped and swapped back in each of ten passes |
| `doc_const_fold` | constants are folded (README:23) | `evaluate` of an operator never returns a scalar, so nothing folds |
| `doc_nulls` | null in any operand yields null (README:30) | `x * 0` becomes `0` |
| `doc_inner_join` | pushing a filter below an inner join is always sound (report 8.5) | a column name that means the left side above the join is resolved on the right |
| `doc_same_errors` | both modes give identical results (report 1.1, 8.5) | a filter on a dropped column is pushed below the projection and answered |
| `doc_stable_head` | ties keep input order in sort/head (report 3.3) | the heap drops the first of two tied rows |

The menus of `pipeline` leave out the queries of these runs -
products by zero, a mixed predicate on two columns of one name, sorts whose head
or whose successor sort meets a tie - so that what the run shows is everything
else. Filters on and selections of dropped columns do occur in its queries, but
`Answers` asks nothing where the eager calls throw: `LazyMatchesEager`,
`EachRuleIsSound` and, in sessions, `AnswersAsEager` and `EachStepIsSound` cannot
see that a rewrite has *lost* an error, only that it has added one.
`doc_same_errors` shows that errors are lost, there by a filter; `ProjectMerging`
loses that of `select(k).select(v)` in the same way. `SortElimination` loses tie
order as `TopK` does: `sort(k).sort(v)` leaves ties of `v` in input order, the
eager calls in the order of `k`; no menu has such a pair.

One smaller divergence has no run: the example at README:150 says that
`explain("plan.png")` renders the optimized plan; without a second argument
`explain` draws the unoptimized plan only (`lazy_dataframe.cpp:71`), as
README:124-128 has it.

**Fairness.** `FairSpec` in `HashJoin`, `QueryOptimizer` and `BinaryHeap`, and
`AggSpec`, have weak fairness of the whole next-state relation: these are
sequential calls whose loops wait for nothing, so a call that can take a step
takes it. `LazyDataFrame` and `Session` have no fairness: a user need not call
`collect`, and a process may die. Deadlock checking is off because every call,
every query and every session ends.

## 4. Proofs

All for arbitrary constants.

* **`HashJoinProofs`** - `JoinTypeCorrect`, `JoinInductiveInvariant`,
  `JoinIsRelational`, `JoinKeepsLargerOrder`, `JoinRunsDown`. The type invariant and the final relation are not
  inductive: `Inv` says what each loop has done so far. `TableInv`: every bucket
  and the null list enumerate (`Lists`) the rows consumed of their key.
  `MatchedInv`: the matched keys are those of the probed rows found in the table.
  `PairsInv`: the pairs enumerate the pairs of the probed rows and the leftovers
  walked. `PhaseInv`: the loop indices and what holds between phases. In the end
  they give the relational pairs, each once. For the order, `OrderInv` adds that
  while probing every pair is one of a row already passed, so that what is
  appended next (`OrderAppended`) is of a later row or of none. Assumed: `NULL` is
  no key, `MaxRows` is a natural number. Its first lemmas are
  about enumerations: appending, concatenating and mapping them.
* **`HashJoinProofs`**, filters - `FilterGoesBelowJoinLeft` and
  `FilterGoesBelowJoinRight`: what `PredicatePushdown` relies on. A filter that
  keeps some rows of one side gives the same rows, each as often, above the join
  and below it, if the join keeps no row of the *other* side without a partner:
  such a row has only nulls on the filtered side for the filter above to look at, and
  a filter below makes more such rows. An inner join meets that condition for either
  side, and the two theorems say for which outer joins a side may be filtered. Order is
  not part of the statement: a filtered side may become the smaller one, and the
  join then walks the other.
* **Ends** - `JoinRunsDown`, `HeapRunsDown`, `AggRunsDown` and, of the driver,
  `EveryStepRunsDown`: each step lowers a tuple of natural numbers (`Measures`), for
  every input. The inductive invariants are what makes the numbers natural: a hole
  that sinks or rises stays within the heap, a walk over the buckets visits each key of
  a finite map once (`PresentIsFinite`), the kernel's position stays within its group.
* **`GroupByProofs`** - `StringsStandForKeys`, `GroupByIsGrouping`,
  `GroupByMakesClasses`, for every number of key columns, every set of texts over
  any characters and every table. The heart is `StringsDecideKeys`: rows with
  different keys have different strings. The parts of a key string are
  prefix-free (`KeyPartIsPrefixFree`: up to the first colon they spell a length,
  and that many characters follow), and two different keys part at their first
  different column (`LeastElement`, which stands in for an induction over the
  columns). `GroupInv` says where the loop is: `gid` is what the columns so far
  spell, and the map and `grouping_order` hold the strings of the groups' keys.
  Assumed of `Decimal`: distinct numbers, distinct digits, no colon, not `-1`.
* **Aggregates**, in the same module - `AggInductiveInvariant`, `AggTypeCorrect`,
  `AggAnswersQuery`, `MeansAreBetween`, for every table and every `Half`. What is
  promised is stated without a loop: a sum is a number of the width congruent to
  `Total` of the valid cells, a least cell is one of them and below the others, a
  mean is the truncated quotient of a sum (`IsAggregate`). `KernelInv`: the kernel's
  state is that of the rows of its group before `position`; `CellsInv`: each
  finished group has its aggregate. The steps rest on `CongruentAdd` (adding and
  wrapping commute), `TotalAdd` (a total grows by the row taken, an induction over
  the rows through `Induction`) and `TruncatedBetween`. The grouping loop is a
  refinement of `GroupBy`'s (`AggIsGrouping`), so its theorems apply; at the
  end `OrderedIsGroupsOf` makes its groups those of `Partition`, whose sequences
  are unique (`AscendingUnique`). Assumed: `NULL` is no integer, the input cells
  have the column's width.
* **`GroupingProofs`** - `GroupsAreClasses`: the abstract grouping yields exactly
  the classes of equal keys, in order; `GroupByMakesClasses` applies it to the
  groups of the hash map through the refinement.
* **`QueryOptimizerProofs`** - `DriverTypeCorrect`; `EarlyExitIsFixpoint`, by the
  invariant that an unchanged pass has applied every rule to this very plan;
  `RemainingIsNatural` and `EveryStepRunsDown`, which bound the steps whatever
  the rules do; `DriverPreservesWhatRulesPreserve`: any preorder respected by each
  rule application holds between the query and the driver's plan, so that
  soundness of the driver reduces to that of single rule applications.
* **`LazyProofs`**, queries - `LazyTypeCorrect` and `CollectMatchesEager`, for any
  menus, any number of builder calls, any rules, nodes and schemas: if every
  application of a rule answers as the plan it rewrites (`EachRuleIsSound`, which
  TLC checks of the real rules), `collect()` answers as the eager calls, however
  many passes it took and wherever the cap cut it off. `AnswerInv`, from
  `collect` on the current plan answers as the query, is carried through each step
  of the driver by transitivity of `Answers` (`AnswersLaws`); `LazyInv` ties `steps`,
  `plan` and the driver's counters to the phase, and says that a thrown query
  has the plan `Thrown` and no result. Of the driver the proof uses `DriverStep`.
* **`LazyProofs`**, rows - why the rewrites are sound, for every table:

  | Theorem | Rule it supports |
  |---|---|
  | `FiltersMerge` | `FilterMerging`, `ConjSplit`; with the lemma `ConjunctionKeeps`: a three-valued conjunction is true where both operands are |
  | `TrueFilterKeepsAll` | `FilterElimination` |
  | `FilterGoesBelowSort`, `FilterGoesBelowProjection`; of joins, the two of `HashJoinProofs` | `PredicatePushdown` (and `ProjectionPushdown`, which moves projections the other way) |
  | `ProjectionGoesBelowSort` | `ProjectionPushdown` |
  | `LimitGoesBelowProjection` | `LimitPushdown` |
  | `ProjectionsMerge` | `ProjectMerging` |
  | `LaterSortDecides`, `SortKeepsRows` | `SortElimination` |
  | `HavingIsWhere` | `HavingVsWhere`: same groups, same order, same rows in each |

  The order of the rows is part of each statement, ties of a stable sort
  included. They rest on lemmas about `Listed`: a finite set under a strict total
  order has exactly one listing (`ListedLists`, `ListingIsListed`: ranks grow, no gap,
  by well-founded induction), and keeping part of a listing lists the part
  (`ListingOfPart`). The laws of sorts assume a strict weak order, and
  `ComparatorIsStrictWeak` shows that the code's comparator is one, for any
  number of keys, nulls and either direction - where values of a column
  are totally ordered, that is without NaN, which is where the descending
  comparator stops being one. `LaterSortDecides` says what `SortElimination` may
  change: the order of rows that tie in the outer sort, and nothing else. The link
  from these laws to a rule, that the node's expressions evaluate to the same
  thing above and below, is a fact about `Evaluate` and stays with `EachRuleIsSound`.
* **`LazyProofs`**, kernels - `KernelsAreThreeValued`: for arrays of any length and
  offset, with or without a validity bitmap and whatever the undefined bits
  hold, each cell of the kernels' results is the three-valued one.
* **`TopKProofs`** - `TopKTypeCorrect`, `TopKInductiveInvariant`,
  `TopKIsHeadOfSort` for every integer rank, input length and k. `ScanInv`: the
  queue holds as many rows as fit and no dropped row belongs before a kept one;
  `DrainInv`: the filled end of `out` is in order and behind the queue.
* **`HeapProofs`** - `HeapInductiveInvariant`, `VectorIsHeap`,
  `HeapIsPriorityQueue`, `HeapKeepsBestRows`, `HeapReturnsHeadOfSort`, for every rank, length and k.
  Heap order does not hold inside a push or pop; `HeapInv` says what does. With the
  hole filled the vector holds every queued row once (`RowsInv`) and no slot belongs
  above its parent, except the hole itself and, while it sinks, its children; the
  hole's parent and the hole's children are in order across it (`OrderInv`). Under
  that, the first slot is a greatest row (by the least slot that is not below it),
  so the row a pop removes is one `TopK` may remove, and each step is a step of
  `TopK` or a stutter; `TopK`'s theorems carry over.
* **`SessionProofs`** - `SessionInductiveInvariant`, `SinksStoreAnswers`,
  `ThrowingTouchesNothing`, `CachesFillOnce`, for any number of files, queries and
  calls, any rules and any nodes. `DiskInv` says in each phase how the disk differs
  from the disk when the call began: not at all up to the open, then in the target
  only, which holds one of `Torn` while it is written and the answer before it is
  closed. What a csv file cut short reads as (`CutShort`) is any set of tables
  here, and which paths hold csv is any set: that a part is a *leading* part is a
  fact about Arrow's writer, stated in `CsvFiles`. For a parquet target
  `SinksStoreAnswers` says never half; for a csv target it says which answer the half
  is of, and that no other file has changed. `ResultInv`: the table to store is an
  answer of the optimized plan on that earlier disk. A crash leaves a disk whose
  files each hold a table or none, all that the next call needs. Of the driver only `DriverStep` is used: it moves
  within its own phases. `CallsAnswerAsEager` adds `AnswersAsEager` under
  `EachStepIsSound`: its `AnswerInv` says of each phase that the plan, then the
  result, answers as the query on the earlier disk, or a stale schema was shown,
  which once shown stays shown until the call ends (`StaleStays`). So one sound
  step at a time is all a session needs of the optimizer, through any failures,
  rewrites and restarts. Assumed: sinks are files, `Nowhere` is not.

Only model-checked:

* liveness (`Terminates`, `Returns`), which the prover does not reach: the
  `RunsDown` theorems bound the steps of the join, `agg`, top-k and the driver
  instead, and what they leave open is that a call not at its end can take one;
* what the recursive operators compute on plans and expressions, an induction
  over trees: that every rule application is sound (`EachRuleIsSound`, and
  `EachStepIsSound` under cached schemas), on which `CollectMatchesEager` and
  `CallsAnswerAsEager` are conditional, `SchemaIsPredicted`, `NothingStacked`,
  `OnlySwapsExhaustThePasses`, `ExplainShowsBothPlans` and `CellsHaveTheirTypes`.

## 5. Abstractions

* Cells are exact rationals, NULL, booleans as 0 and 1, strings as ranks in byte
  order with their functions tabulated in `StringResult`. No overflow, rounding
  or NaN; types are int64, double, bool and string.
* `Aggregation` has one aggregate over one signed integer column, of values from
  `-Half` to `Half - 1`.
  Sums wrap: for 8 and 16 bits C++ converts back, for 32 and 64 bits the overflow
  is undefined and the generated addition wraps. `Aggregate` in `EagerDataFrame`
  has any number of aggregates and no widths.
* A cell's text is what `Scalar::ToString` returns, taken to be different for
  different values of one column; 0.0 and -0.0 are different texts, NaNs one.
* Arrays read through another class (`kernel.cpp:19` lets two bools or strings
  through to the numeric kernels) are undefined in C++: `Kernels` and
  `EagerDataFrame!NoDuplicateColumn` assert that no run gets there.
* `Session`: a read returns the table that was written. Parquet keeps types; a
  csv file is re-typed by its reader, so the files a run sinks to as csv and scans
  again, whole or cut short, stand for tables whose types survive (a column left
  without a value would be read as one of nulls). A csv file is cut between any
  two characters, of which `CsvFiles` keeps what `read_csv` can tell apart: a cut
  through the header or before the last comma of a row throws (no table), numbers
  have one digit, so that half a number is an empty cell. A path holds one format. Other programs do not write while a
  call runs: a plan sees one state of each file. There is one scan object per path.
* `MaxSteps`, `MaxRows`, `MaxK`, `MaxCalls`, `Half`, `Inputs` and the menus are
  bounds of the instances; `MaxIterations` = 10 is the code's.

Not modelled: `from_columns` (it wraps arrays a caller built), `print` and
accessors; the csv and parquet formats; the text of plan labels and Graphviz;
overflow outside aggregates, NaN, NA columns and mixed narrow types; build files.

## 6. Plan

Done: 1 `HashJoin` with its refinement and proofs; 2 driver and proofs;
3 kernels, expressions, eager operations, plans, rules and lazy queries;
4 `TopK`, `BinaryHeap` and proofs; 5 the boolean kernels bit by bit, aggregates
in their width; 6 group-by against an abstract grouping, with proofs; 7 sessions
over files; 8 the order of the join, `explain`; 9 proofs of the heap's loops, the
aggregates and sessions; 10 queries and sessions proved sound from sound rules,
the laws of rows behind the rules, filters below joins among them, and measures
that bound the steps of every loop.

Left: `promote_arrays` over narrow types against `infer_type`; right inputs of
joins that are queries of their own in `pipeline`; aggregates of several columns
in `Aggregation`.
