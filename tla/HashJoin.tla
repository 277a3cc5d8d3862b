------------------------------ MODULE HashJoin ------------------------------
(***************************************************************************)
(* EagerDataFrame::join after its arguments are validated: a hash table is *)
(* built over the smaller input, the larger one probes it row by row, and  *)
(* the rows of the smaller input that nobody matched are appended from the *)
(* hash table, in the order the unordered_map happens to hold them.        *)
(* One action per loop iteration or per straight-line block of the call.   *)
(***************************************************************************)
EXTENDS Integers, Sequences, FiniteSets, Listing, Measures

CONSTANTS
  Keys,     \* the non-null key values (grouping_helper strings)
  NULL,     \* the key of a row with a null in some key column
  MaxRows   \* bound on the rows of each input

ASSUME NullIsNoKey == NULL \notin Keys
ASSUME MaxRowsAssumption == MaxRows \in Nat

VARIABLES
  left, right,    \* key columns of *this and of other
  how,            \* the join type
  pc,             \* "build", "probe", "leftover", "gather" or "done"
  i,              \* the loop index of the current phase
  smaller_keys,   \* the hash table: key -> rows of the smaller side, in order
  null_smaller,   \* rows of the smaller side with a null key
  matched_keys,   \* keys some row of the larger side has found
  visited,        \* keys the leftover loop has passed
  pairs,          \* left_indices and right_indices, zipped
  out             \* the rows of the result

vars == <<left, right, how, pc, i, smaller_keys, null_smaller, matched_keys,
          visited, pairs, out>>

Relational == INSTANCE RelationalJoin
  WITH answered <- (pc = "done"), result <- out

NoRow == Relational!NoRow

\* The left input is the build side exactly when it is strictly shorter.
swapped == Len(left) < Len(right)
smaller == IF swapped THEN left ELSE right
larger  == IF swapped THEN right ELSE left

\* Bug variant: the pair does not follow the swap.
PairWithoutSwap(s, b) == <<s, b>>

\* A row s of the smaller side and a row b of the larger one as <<left, right>>.
Pair(s, b) == IF swapped THEN <<s, b>> ELSE <<b, s>>

KeepsLarger ==
  \/ how \in {"left", "outer"} /\ ~swapped
  \/ how \in {"right", "outer"} /\ swapped

KeepsSmaller ==
  \/ how = "outer"
  \/ how = "left" /\ swapped
  \/ how = "right" /\ ~swapped

\* The keys the hash table holds; a key without rows is not in the map.
Present == {k \in Keys : smaller_keys[k] # << >>}

SmallerRowsAlone(rows) == [x \in 1..Len(rows) |-> Pair(rows[x], NoRow)]

Init ==
  /\ left \in Relational!KeyColumns
  /\ right \in Relational!KeyColumns
  /\ how \in Relational!JoinTypes
  /\ pc = "build"
  /\ i = 1
  /\ smaller_keys = [k \in Keys |-> << >>]
  /\ null_smaller = << >>
  /\ matched_keys = {}
  /\ visited = {}
  /\ pairs = << >>
  /\ out = << >>

BuildNullRow ==
  /\ pc = "build"
  /\ i <= Len(smaller)
  /\ smaller[i] = NULL
  /\ null_smaller' = Append(null_smaller, i)
  /\ i' = i + 1
  /\ UNCHANGED <<left, right, how, pc, smaller_keys, matched_keys, visited, pairs, out>>

BuildKeyedRow ==
  /\ pc = "build"
  /\ i <= Len(smaller)
  /\ smaller[i] # NULL
  /\ smaller_keys' = [smaller_keys EXCEPT ![smaller[i]] = Append(@, i)]
  /\ i' = i + 1
  /\ UNCHANGED <<left, right, how, pc, null_smaller, matched_keys, visited, pairs, out>>

BuildEnds ==
  /\ pc = "build"
  /\ i > Len(smaller)
  /\ pc' = "probe"
  /\ i' = 1
  /\ UNCHANGED <<left, right, how, smaller_keys, null_smaller, matched_keys, visited, pairs, out>>

\* Bug variant: the key found is not remembered for the leftover loop.
ProbeMatchForgetsKey ==
  /\ pc = "probe"
  /\ i <= Len(larger)
  /\ larger[i] \in Present
  /\ LET bucket == smaller_keys[larger[i]]
     IN  pairs' = pairs \o [x \in 1..Len(bucket) |-> Pair(bucket[x], i)]
  /\ i' = i + 1
  /\ UNCHANGED <<left, right, how, pc, smaller_keys, null_smaller, matched_keys, visited, out>>

\* Bug variant: a matched row is probed again.
ProbeMatchStays ==
  /\ pc = "probe"
  /\ i <= Len(larger)
  /\ larger[i] \in Present
  /\ matched_keys' = matched_keys \cup {larger[i]}
  /\ LET bucket == smaller_keys[larger[i]]
     IN  pairs' = pairs \o [x \in 1..Len(bucket) |-> Pair(bucket[x], i)]
  /\ UNCHANGED <<left, right, how, pc, i, smaller_keys, null_smaller, visited, out>>

ProbeMatch ==
  /\ pc = "probe"
  /\ i <= Len(larger)
  /\ larger[i] \in Present
  /\ matched_keys' = matched_keys \cup {larger[i]}
  /\ LET bucket == smaller_keys[larger[i]]
     IN  pairs' = pairs \o [x \in 1..Len(bucket) |-> Pair(bucket[x], i)]
  /\ i' = i + 1
  /\ UNCHANGED <<left, right, how, pc, smaller_keys, null_smaller, visited, out>>

\* Bug variant: the loop index stays where the row is not kept.
ProbeMissStalls ==
  /\ pc = "probe"
  /\ i <= Len(larger)
  /\ larger[i] \notin Present
  /\ pairs' = IF KeepsLarger THEN Append(pairs, Pair(NoRow, i)) ELSE pairs
  /\ i' = IF KeepsLarger THEN i + 1 ELSE i
  /\ UNCHANGED <<left, right, how, pc, smaller_keys, null_smaller, matched_keys, visited, out>>

\* Bug variant: partnerless rows are put in front.
ProbeMissPrepends ==
  /\ pc = "probe"
  /\ i <= Len(larger)
  /\ larger[i] \notin Present
  /\ pairs' = IF KeepsLarger THEN <<Pair(NoRow, i)>> \o pairs ELSE pairs
  /\ i' = i + 1
  /\ UNCHANGED <<left, right, how, pc, smaller_keys, null_smaller, matched_keys, visited, out>>

ProbeMiss ==
  /\ pc = "probe"
  /\ i <= Len(larger)
  /\ larger[i] \notin Present
  /\ pairs' = IF KeepsLarger THEN Append(pairs, Pair(NoRow, i)) ELSE pairs
  /\ i' = i + 1
  /\ UNCHANGED <<left, right, how, pc, smaller_keys, null_smaller, matched_keys, visited, out>>

ProbeEnds ==
  /\ pc = "probe"
  /\ i > Len(larger)
  /\ pc' = IF KeepsSmaller THEN "leftover" ELSE "gather"
  /\ UNCHANGED <<left, right, how, i, smaller_keys, null_smaller, matched_keys, visited, pairs, out>>

\* One bucket of the loop over the unordered_map, whose order is unspecified.
Leftover(k) ==
  /\ pc = "leftover"
  /\ k \in Present \ visited
  /\ visited' = visited \cup {k}
  /\ pairs' = IF k \in matched_keys THEN pairs
              ELSE pairs \o SmallerRowsAlone(smaller_keys[k])
  /\ UNCHANGED <<left, right, how, pc, i, smaller_keys, null_smaller, matched_keys, out>>

LeftoverNulls ==
  /\ pc = "leftover"
  /\ Present \subseteq visited
  /\ pairs' = pairs \o SmallerRowsAlone(null_smaller)
  /\ pc' = "gather"
  /\ UNCHANGED <<left, right, how, i, smaller_keys, null_smaller, matched_keys, visited, out>>

\* Bug variant: the key of a row without a left row is lost.
KeyValueOfLeft(p) == IF p[1] # NoRow THEN left[p[1]] ELSE NULL

\* A key column takes its value from the left row when there is one.
KeyValue(p) == IF p[1] # NoRow THEN left[p[1]]
               ELSE IF p[2] # NoRow THEN right[p[2]]
               ELSE NULL

Gather ==
  /\ pc = "gather"
  /\ out' = [x \in 1..Len(pairs) |->
               [left |-> pairs[x][1], right |-> pairs[x][2], key |-> KeyValue(pairs[x])]]
  /\ pc' = "done"
  /\ UNCHANGED <<left, right, how, i, smaller_keys, null_smaller, matched_keys, visited, pairs>>

Next ==
  \/ BuildNullRow
  \/ BuildKeyedRow
  \/ BuildEnds
  \/ ProbeMatch
  \/ ProbeMiss
  \/ ProbeEnds
  \/ \E k \in Keys : Leftover(k)
  \/ LeftoverNulls
  \/ Gather

\* The call runs to its end: nothing in its loops waits.
Fairness == WF_vars(Next)

Spec == Init /\ [][Next]_vars
FairSpec == Spec /\ Fairness

-----------------------------------------------------------------------------
(* Properties *)

\* The shape of the state: row numbers are rows of the input they index.
TypeOK ==
  /\ left \in Relational!KeyColumns
  /\ right \in Relational!KeyColumns
  /\ how \in Relational!JoinTypes
  /\ pc \in {"build", "probe", "leftover", "gather", "done"}
  /\ i \in 1..(MaxRows + 1)
  /\ smaller_keys \in [Keys -> Seq(1..Len(smaller))]
  /\ null_smaller \in Seq(1..Len(smaller))
  /\ matched_keys \subseteq Keys
  /\ visited \subseteq Keys
  /\ pairs \in Seq((0..Len(left)) \X (0..Len(right)))
  /\ out \in Seq([left : 0..Len(left), right : 0..Len(right), key : Keys \cup {NULL}])

\* A finished join returned exactly the relational join, each row once,
\* whichever side was hashed and in whatever order the map was walked.
ImplementsRelationalJoin == Relational!Spec

\* Rows of the larger input reach the output in their input order: a partner-
\* less row of the hashed side never comes before a row of the probing side.
LargerOf(p) == IF swapped THEN p[2] ELSE p[1]
LargerRowsInOrder ==
  \A x, y \in 1..Len(pairs) :
    x < y /\ LargerOf(pairs[y]) # NoRow =>
      LargerOf(pairs[x]) # NoRow /\ LargerOf(pairs[x]) <= LargerOf(pairs[y])

(* The inductive invariant behind ImplementsRelationalJoin.                *)

\* The rows of each side the loops have consumed so far.
BuiltRows  == IF pc = "build" THEN 1..(i - 1) ELSE 1..Len(smaller)
ProbedRows == IF pc = "build" THEN {}
              ELSE IF pc = "probe" THEN 1..(i - 1) ELSE 1..Len(larger)
LeftoversDone == KeepsSmaller /\ pc \in {"gather", "done"}

\* The hash table and the null list hold each consumed row once, where it belongs.
TableInv ==
  /\ \A k \in Keys : Lists(smaller_keys[k], {s \in BuiltRows : smaller[s] = k})
  /\ Lists(null_smaller, {s \in BuiltRows : smaller[s] = NULL})

MatchedInv ==
  matched_keys = {k \in Keys : /\ \E b \in ProbedRows : larger[b] = k
                               /\ \E s \in 1..Len(smaller) : smaller[s] = k}

\* The pairs the probing rows contribute, and the hashed rows appended alone.
ProbePairs(B) ==
  {Pair(p[1], p[2]) : p \in {q \in (1..Len(smaller)) \X B :
                              larger[q[2]] # NULL /\ smaller[q[1]] = larger[q[2]]}}
  \cup {Pair(NoRow, b) : b \in {c \in B : KeepsLarger /\ ~Relational!HasPartner(larger, c, smaller)}}

LeftoverRows ==
  {s \in 1..Len(smaller) :
     \/ smaller[s] \in visited \ matched_keys
     \/ smaller[s] = NULL /\ LeftoversDone}

PairsInv ==
  Lists(pairs, ProbePairs(ProbedRows) \cup {Pair(s, NoRow) : s \in LeftoverRows})

PhaseInv ==
  /\ pc = "build" => i <= Len(smaller) + 1
  /\ pc = "probe" => i <= Len(larger) + 1
  /\ pc = "leftover" => KeepsSmaller
  /\ visited # {} => KeepsSmaller /\ pc \notin {"build", "probe"}
  /\ LeftoversDone => Present \subseteq visited
  /\ out = IF pc = "done"
           THEN [x \in 1..Len(pairs) |->
                  [left |-> pairs[x][1], right |-> pairs[x][2], key |-> KeyValue(pairs[x])]]
           ELSE << >>

\* Every row consumed so far is accounted for, in the table and in the output.
Inv == TypeOK /\ TableInv /\ MatchedInv /\ PairsInv /\ PhaseInv

\* The loops left, the turns of this one left, and the buckets not walked yet.
Remaining ==
  <<CASE pc = "build" -> 4 [] pc = "probe" -> 3 [] pc = "leftover" -> 2
      [] pc = "gather" -> 1 [] pc = "done" -> 0,
    CASE pc = "build" -> Len(smaller) + 1 - i [] pc = "probe" -> Len(larger) + 1 - i
      [] pc \notin {"build", "probe"} -> 0,
    Cardinality(Present \ visited)>>

\* Every step leaves less to do, in whatever order the map is walked: no bucket
\* twice and no row twice, for all keys and sizes.
RunsDown == [][Lower(Remaining', Remaining) /\ Remaining \in Nat \X Nat \X Nat]_vars

\* Every call of join returns.
Terminates == <>(pc = "done")
=============================================================================
